---------------------------- MODULE MCChatWithTools ----------------------------
(* Small instances of ChatWithTools. *)
EXTENDS ChatWithTools

\* A tool as the built-in ones are, one that Sentinel alone would let through, and one
\* that is not registered.
MCLevel == [system_status |-> "read", quiet |-> "none", missing |-> "unregistered"]

===============================================================================
