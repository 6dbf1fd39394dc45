---------------------------- MODULE MCChatService -----------------------------
(* Small instances of ChatService. *)
EXTENDS ChatService, TLC

Interchangeable == Permutations(Chat)

===============================================================================
