-------------------------- MODULE ApprovalAuthority ---------------------------
(***************************************************************************)
(* What approval receipts are for, with no processes, clocks, bindings or  *)
(* tables: a receipt that was issued may be granted, a granted one may be  *)
(* spent, and a spent one may be the authority for one effect.  Nothing    *)
(* has an effect without a receipt.                                        *)
(***************************************************************************)
CONSTANTS Id, Execution, NoReceipt

VARIABLES
    state,      \* "absent", "pending", "approved" or "consumed"
    effects     \* the effects each receipt, or none, was the authority for

Init ==
    /\ state = [a \in Id |-> "absent"]
    /\ effects = [a \in Id \cup {NoReceipt} |-> {}]

Advance(a, from, to) ==
    /\ state[a] = from
    /\ state' = [state EXCEPT ![a] = to]
    /\ UNCHANGED effects

Issue(a) == Advance(a, "absent", "pending")
Grant(a) == Advance(a, "pending", "approved")
Spend(a) == Advance(a, "approved", "consumed")

TakeEffect(a, e) ==
    /\ state[a] = "consumed"
    /\ effects[a] = {}
    /\ effects' = [effects EXCEPT ![a] = {e}]
    /\ UNCHANGED state

Next == \E a \in Id :
    \/ Issue(a) \/ Grant(a) \/ Spend(a)
    \/ \E e \in Execution : TakeEffect(a, e)

Spec == Init /\ [][Next]_<<state, effects>>

===============================================================================
