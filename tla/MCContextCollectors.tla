-------------------------- MODULE MCContextCollectors --------------------------
(* Small instances of ContextCollectors. *)
EXTENDS ContextCollectors, TLC

CONSTANTS editor, Editor, Shell, vault

\* One name in two spellings, another that sorts between them by spelling, and a name
\* that is no label of a process that may not be read.
MCName == [a \in App |->
    IF a = vault THEN [path |-> TRUE, stem |-> None]
    ELSE [path |-> FALSE, stem |-> [letter  |-> IF a = Shell THEN "b" ELSE "a",
                                    capital |-> a # editor]]]

Numbers == Permutations(Hwnd) \cup Permutations(Pid)

===============================================================================
