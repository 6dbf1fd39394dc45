---------------------------- MODULE MCSessionLocks ----------------------------
(* Small instances of SessionLocks. *)
EXTENDS SessionLocks, TLC

Interchangeable == Permutations(Chat) \cup Permutations(Session)

===============================================================================
