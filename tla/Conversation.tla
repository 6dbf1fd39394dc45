----------------------------- MODULE Conversation -----------------------------
(***************************************************************************)
(* What working memory promises: a session is a list of exchanges, an      *)
(* exchange happens at one point in time, and the model that answered it   *)
(* had been shown the exchanges that came just before.                     *)
(***************************************************************************)
EXTENDS Naturals, Sequences

CONSTANTS Exchange,     \* chats
          Session,
          Past,         \* the exchanges each session begins with
          Window,       \* how many earlier exchanges an answer takes into account
          NotYet        \* of an exchange that has not happened

VARIABLES log,          \* the exchanges of each session, in order
          seen          \* what each exchange was answered from

Latest(turns) == SubSeq(turns, IF Len(turns) > Window THEN Len(turns) - Window + 1 ELSE 1,
                        Len(turns))

Init ==
    /\ log = Past
    /\ seen = [x \in Exchange |-> NotYet]

Happen(x, s) ==
    /\ seen[x] = NotYet
    /\ seen' = [seen EXCEPT ![x] = Latest(log[s])]
    /\ log' = [log EXCEPT ![s] = Append(@, x)]

Next == \E x \in Exchange, s \in Session : Happen(x, s)

Spec == Init /\ [][Next]_<<log, seen>>

===============================================================================
