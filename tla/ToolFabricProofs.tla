--------------------------- MODULE ToolFabricProofs ---------------------------
(* Proofs about ToolFabric, for every value of its constants. *)
EXTENDS ToolFabric, TLAPS

-------------------------------------------------------------------------------
(* Operators *)

\* Every conclusion has an audit outcome and an error code of the right type.
LEMMA VerdictsAreRecordable ==
    ASSUME NEW v \in Verdict
    PROVE  OutcomeOf(v) \in Outcome /\ CodeOf(v) \in ErrorCode \cup {None}
<1>1. OutcomeOf(v) \in Outcome
  BY DEF Outcome
<1>2. CodeOf(v) \in ErrorCode \cup {None}
  BY DEF CodeOf, Verdict, ErrorCode, Refusal
<1>3. QED BY <1>1, <1>2

\* A request digests to a binding, and two requests with one digest are the same
\* request as far as an approval is concerned.
LEMMA BindingIsFaithful ==
    ASSUME NEW p \in RequestBody
    PROVE  /\ BindingOf(p) \in Binding
           /\ \A q \in RequestBody : BindingOf(p) = BindingOf(q) => SameRequest(p, q)
<1>1. BindingOf(p) \in Binding
  BY ConstantsOK DEF RequestBody, BindingOf, Binding, Form
<1>2. ASSUME NEW q \in RequestBody, BindingOf(p) = BindingOf(q)
      PROVE  SameRequest(p, q)
  BY <1>2 DEF BindingOf, SameRequest
<1>3. QED BY <1>1, <1>2

\* What a caller may ask for is a well-formed request.
LEMMA AskedRequestsAreTyped ==
    ASSUME TypeOK, NEW r \in Request, NEW q \in Asks(r)
    PROVE  q \in RequestBody
<1>1. {req[s].corr : s \in {s \in Request : req[s] # None}} \subseteq Request
  BY DEF TypeOK, RequestBody
<1>2. Disclosed \subseteq Request
  BY DEF Disclosed
<1>3. QED
  BY <1>1, <1>2 DEF Asks, RequestBody, TypeOK

-------------------------------------------------------------------------------
(* Type correctness and the approval invariant, together: that a receipt is well
   typed depends on the clock reading its creation uses. *)

IInv == TypeOK /\ ApprovalInv

LEMMA InitEstablishes == Init => IInv
<1> SUFFICES ASSUME Init PROVE IInv
  OBVIOUS
<1>1. TypeOK
  BY DEF Init, TypeOK, Step
<1>2. ApprovalInv
  BY DEF Init, ApprovalInv, OpenedInv, AskedInv, IssuedInv, PaidInv, PaidFor, InFlight
<1>3. QED BY <1>1, <1>2 DEF IInv

LEMMA OpenPreserves ==
    ASSUME IInv, NEW r \in Request, Open(r) \/ OpenFails(r)
    PROVE  IInv'
<1> USE DEF IInv, ApprovalInv
<1>1. PICK q \in RequestBody :
        /\ req' = [req EXCEPT ![r] = q]
        /\ Goto(r, "idle", "resolve") \/ Goto(r, "idle", "done")
        /\ \/ /\ audits' = [audits EXCEPT ![r] =
                  [corr |-> q.corr, tool |-> q.tool, level |-> None,
                   decision |-> None, outcome |-> "started", code |-> None,
                   started |-> now, completed |-> None]]
             /\ UNCHANGED reply
           \/ /\ Goto(r, "idle", "done")
              /\ UNCHANGED audits
              /\ reply' = [reply EXCEPT ![r] = "tool_internal_error"]
        /\ UNCHANGED <<now, up, grants, decision, at, verdict, ran, receipts>>
  BY AskedRequestsAreTyped, Zenon DEF Open, OpenFails
<1>2. [corr |-> q.corr, tool |-> q.tool, level |-> None,
       decision |-> None, outcome |-> "started", code |-> None,
       started |-> now, completed |-> None] \in AuditRow
  BY DEF AuditRow, TypeOK, RequestBody, Outcome
<1>3. TypeOK'
  <2>1. audits' \in [Request -> AuditRow \cup {None}]
    BY <1>1, <1>2 DEF TypeOK
  <2>2. QED
    BY <1>1, <2>1 DEF TypeOK, Goto, Step, Verdict, ErrorCode
<1>4. OpenedInv'
  BY <1>1, <1>2, NoneIsNothing DEF OpenedInv, Goto, InFlight, TypeOK
<1>5. AskedInv'
  BY <1>1 DEF AskedInv, Goto, TypeOK
<1>6. IssuedInv'
  BY <1>1, NoneIsNothing DEF IssuedInv, OpenedInv, Goto, TypeOK, BindingOf
<1>7. PaidInv'
  BY <1>1 DEF PaidInv, PaidFor, OpenedInv, Goto, TypeOK, BindingOf
<1>8. QED BY <1>3, <1>4, <1>5, <1>6, <1>7

LEMMA ResolvePreserves ==
    ASSUME IInv, NEW r \in Request, Resolve(r)
    PROVE  IInv'
<1> USE DEF IInv, ApprovalInv
<1>1. /\ pc[r] = "resolve"
      /\ \/ \E v \in ErrorCode :
               /\ Conclude(r, "resolve", v)
               /\ Level[req[r].tool] = "unregistered" => v = "tool_not_found"
         \/ /\ Level[req[r].tool] \in {"none", "read"}
            /\ Goto(r, "resolve", "invoke") /\ UNCHANGED verdict
         \/ /\ Level[req[r].tool] = "write" /\ req[r].caller = "tools"
            /\ at' = [at EXCEPT ![r] = now] /\ UNCHANGED verdict
            /\ Goto(r, "resolve", IF req[r].approval = None THEN "challenge" ELSE "lookup")
      /\ at' = at \/ at' = [at EXCEPT ![r] = now]
      /\ decision' = decision \/ \E d \in Decision : decision' = [decision EXCEPT ![r] = d]
      /\ UNCHANGED <<now, up, grants, req, reply, ran, audits, receipts>>
  <2>1. CASE NotFound(r)
    BY <2>1 DEF Resolve, NotFound, ErrorCode, Refusal
  <2>2. CASE Invalid(r)
    BY <2>2 DEF Resolve, Invalid, ErrorCode, Refusal
  <2>3. CASE SentinelFails(r)
    BY <2>3 DEF Resolve, SentinelFails, Resolves, ErrorCode, Refusal
  <2>4. CASE Allow(r)
    BY <2>4 DEF Resolve, Allow, Decides, PolicyDecision, Decision
  <2>5. CASE Deny(r)
    BY <2>5 DEF Resolve, Deny, Decides, Resolves, ErrorCode, Refusal, Decision
  <2>6. CASE Ask(r)
    <3>1. Level[req[r].tool] = "write"
      <4>1. Level[req[r].tool] \in {"none", "read", "write", "dangerous", "unregistered"}
        BY ConstantsOK DEF OpenedInv, TypeOK, RequestBody, Resolve
      <4>2. QED BY <2>6, <4>1 DEF Ask, Decides, PolicyDecision
    <3>2. QED
      BY <2>6, <3>1 DEF Resolve, Ask, Decides, AllowsApproval, ErrorCode, Refusal, Decision
  <2>7. QED BY <2>1, <2>2, <2>3, <2>4, <2>5, <2>6 DEF Resolve
<1>2. TypeOK'
  BY <1>1 DEF TypeOK, Goto, Conclude, Step, Verdict
<1>3. OpenedInv'
  BY <1>1, NoneIsNothing DEF OpenedInv, Goto, Conclude, InFlight, TypeOK, Verdict
<1>4. AskedInv'
  BY <1>1 DEF AskedInv, Goto, Conclude, TypeOK
<1>5. IssuedInv'
  BY <1>1 DEF IssuedInv, Goto, Conclude, TypeOK, BindingOf
<1>6. PaidInv'
  BY <1>1 DEF PaidInv, PaidFor, OpenedInv, Goto, Conclude, TypeOK, BindingOf
<1>7. QED BY <1>2, <1>3, <1>4, <1>5, <1>6

\* The steps that only move an execution on, or end it with an error, and touch
\* no receipt.
LEMMA MovePreserves ==
    ASSUME IInv, NEW r \in Request, NEW from \in Step, NEW to \in Step,
           pc[r] = from, pc' = [pc EXCEPT ![r] = to],
           from \in {"challenge", "lookup", "consume", "running"},
           \/ to = "close" /\ \E v \in Verdict : verdict' = [verdict EXCEPT ![r] = v]
           \/ from = "lookup" /\ to = "consume" /\ UNCHANGED verdict,
           UNCHANGED <<now, up, grants, req, decision, at, reply, ran, audits, receipts>>
    PROVE  IInv'
<1> USE DEF IInv, ApprovalInv
<1>1. TypeOK'
  BY DEF TypeOK
<1>2. OpenedInv'
  BY NoneIsNothing DEF OpenedInv, InFlight, TypeOK
<1>3. AskedInv'
  BY DEF AskedInv, TypeOK
<1>4. IssuedInv'
  BY DEF IssuedInv, TypeOK, BindingOf
<1>5. PaidInv'
  BY DEF PaidInv, PaidFor, TypeOK, BindingOf
<1>6. QED BY <1>1, <1>2, <1>3, <1>4, <1>5

LEMMA ChallengePreserves ==
    ASSUME IInv, NEW r \in Request, Challenge(r)
    PROVE  IInv'
<1> USE DEF IInv, ApprovalInv
<1>1. CASE UNCHANGED receipts
  <2>1. Conclude(r, "challenge", "tool_approval_required")
        \/ Conclude(r, "challenge", "tool_internal_error")
    BY DEF Challenge
  <2>2. {"tool_approval_required", "tool_internal_error"} \subseteq Verdict
    BY DEF Verdict, ErrorCode, Refusal
  <2>3. QED
    BY <1>1, <2>1, <2>2, MovePreserves DEF Challenge, Conclude, Goto, Step
<1>2. CASE Conclude(r, "challenge", "tool_approval_required")
           /\ receipts' = [receipts EXCEPT ![r] =
                 [binding |-> BindingOf(req[r]), status |-> "pending",
                  created |-> at[r], expires |-> at[r] + Lifetime,
                  approved |-> None, consumed |-> None]]
  <2> DEFINE row == [binding |-> BindingOf(req[r]), status |-> "pending",
                     created |-> at[r], expires |-> at[r] + Lifetime,
                     approved |-> None, consumed |-> None]
  <2>1. /\ pc[r] = "challenge" /\ pc' = [pc EXCEPT ![r] = "close"]
        /\ verdict' = [verdict EXCEPT ![r] = "tool_approval_required"]
        /\ receipts' = [receipts EXCEPT ![r] = row]
        /\ UNCHANGED <<now, up, grants, req, decision, at, reply, ran, audits>>
    BY <1>2 DEF Challenge, Conclude, Goto
  <2>2. req[r] \in RequestBody /\ at[r] \in Nat /\ receipts[r] = None
    BY <2>1 DEF OpenedInv, AskedInv, TypeOK
  <2>3. row \in Receipt
    BY <2>2, BindingIsFaithful, ConstantsOK DEF Receipt
  <2>4. "tool_approval_required" \in Verdict
    BY DEF Verdict, ErrorCode, Refusal
  <2> HIDE DEF row
  <2>5. TypeOK'
    BY <2>1, <2>3, <2>4 DEF TypeOK, Step
  <2>6. OpenedInv'
    BY <2>1, <2>4, NoneIsNothing DEF OpenedInv, InFlight, TypeOK
  <2>7. AskedInv'
    BY <2>1 DEF AskedInv, TypeOK
  <2>8. IssuedInv'
    <3>1. receipts'[r].binding = BindingOf(req'[r])
          /\ receipts'[r].created < receipts'[r].expires
          /\ receipts'[r].status = "pending"
      BY <2>1, <2>2, ConstantsOK DEF row, TypeOK
    <3>2. req'[r] # None
      BY <2>1, <2>2, NoneIsNothing
    <3>3. QED
      BY <2>1, <3>1, <3>2 DEF IssuedInv, TypeOK, BindingOf
  <2>9. PaidInv'
    BY <2>1, <2>2 DEF PaidInv, PaidFor, TypeOK, BindingOf
  <2>10. QED BY <2>5, <2>6, <2>7, <2>8, <2>9
<1>3. QED BY <1>1, <1>2 DEF Challenge

LEMMA LookupPreserves ==
    ASSUME IInv, NEW r \in Request, Lookup(r)
    PROVE  IInv'
<1>1. UNCHANGED <<now, up, grants, req, decision, at, reply, ran, audits, receipts>>
      /\ pc[r] = "lookup"
  BY DEF Lookup
<1>2. CASE LookupVerdict(r) = "usable" /\ Goto(r, "lookup", "consume") /\ UNCHANGED verdict
  BY <1>1, <1>2, MovePreserves DEF Goto, Step
<1>3. CASE LookupVerdict(r) # "usable" /\ Conclude(r, "lookup", LookupVerdict(r))
  <2>1. receipts[req[r].approval] \in Receipt \cup {None} /\ at[r] \in Nat
    BY <1>1 DEF IInv, ApprovalInv, OpenedInv, AskedInv, TypeOK, RequestBody
  <2>2. LookupVerdict(r) \in Verdict \cup {"usable"}
    BY <2>1 DEF LookupVerdict, Verdict, ErrorCode, Refusal, Receipt
  <2>3. QED
    BY <1>1, <1>3, <2>2, MovePreserves DEF Conclude, Goto, Step
<1>4. CASE StoreMayFail /\ Conclude(r, "lookup", "tool_internal_error")
  BY <1>1, <1>4, MovePreserves DEF Conclude, Goto, Step, Verdict, ErrorCode
<1>5. QED BY <1>2, <1>3, <1>4 DEF Lookup

LEMMA ConsumePreserves ==
    ASSUME IInv, NEW r \in Request, Consume(r)
    PROVE  IInv'
<1> USE DEF IInv, ApprovalInv
<1> DEFINE a == req[r].approval
<1>1. UNCHANGED <<now, up, grants, req, decision, at, reply, ran, audits>> /\ pc[r] = "consume"
  BY DEF Consume
<1>2. CASE UNCHANGED receipts
  <2>1. \E v \in Verdict : Conclude(r, "consume", v)
    <3>1. {"tool_internal_error", "tool_approval_expired", "tool_approval_invalid"}
            \subseteq Verdict
      BY DEF Verdict, ErrorCode, Refusal
    <3>2. CASE Spendable(r) /\ Spend(r)
      <4>1. a \in Request /\ receipts[a] # None
        BY <1>1, <3>2 DEF Spendable, OpenedInv, AskedInv, TypeOK, RequestBody
      <4>2. receipts[a] \in Receipt /\ receipts[a].status = "approved"
        BY <3>2, <4>1 DEF Spendable, TypeOK
      <4>3. receipts'[a].status = "consumed"
        BY <3>2, <4>1, <4>2 DEF Spend, TypeOK, Receipt
      <4>4. QED BY <1>2, <4>2, <4>3
    <3>3. QED BY <3>1, <3>2 DEF Consume
  <2>2. QED
    BY <1>1, <1>2, <2>1, MovePreserves DEF Conclude, Goto, Step
<1>3. CASE Spendable(r) /\ StampedInOrder(r) /\ Goto(r, "consume", "invoke")
           /\ Spend(r) /\ UNCHANGED verdict
  <2>1. a \in Request /\ at[r] \in Nat /\ Level[req[r].tool] = "write"
        /\ req[r].caller = "tools" /\ req[r] \in RequestBody /\ r \notin ran
    BY <1>1 DEF OpenedInv, AskedInv, TypeOK, RequestBody
  <2>2. receipts[a] \in Receipt /\ receipts[a].status = "approved"
    BY <1>3, <2>1 DEF Spendable, TypeOK
  <2> DEFINE row == [receipts[a] EXCEPT !.status = "consumed", !.consumed = at[r]]
  <2>3. receipts' = [receipts EXCEPT ![a] = row]
    BY <1>3 DEF Spend
  <2>4. row \in Receipt /\ row.status = "consumed" /\ row.consumed = at[r]
        /\ row.binding = receipts[a].binding /\ row.created = receipts[a].created
        /\ row.expires = receipts[a].expires /\ row.approved = receipts[a].approved
    BY <2>1, <2>2 DEF Receipt
  <2> HIDE DEF row
  <2>5. TypeOK'
    BY <1>1, <1>3, <2>1, <2>3, <2>4 DEF TypeOK, Goto, Step
  <2>6. OpenedInv'
    BY <1>1, <1>3, <2>1, <2>2, <2>3, <2>4, NoneIsNothing DEF OpenedInv, InFlight, TypeOK, Goto
  <2>7. AskedInv'
    BY <1>1, <1>3 DEF AskedInv, TypeOK, Goto
  <2>8. IssuedInv'
    <3>1. receipts[a] # None /\ at[r] >= receipts[a].approved /\ at[r] < receipts[a].expires
          /\ receipts[a].approved \in Nat
      BY <1>3, <2>1, <2>2 DEF Spendable, StampedInOrder, IssuedInv
    <3>2. QED
      BY <1>1, <2>1, <2>2, <2>3, <2>4, <3>1 DEF IssuedInv, TypeOK, BindingOf
  <2>9. PaidInv'
    <3>1. row.binding = BindingOf(req[r])
      BY <1>3, <2>4 DEF Spendable
    <3>2. \A s \in Request : PaidFor(s) => req[s].approval # a
      BY <2>1, <2>2 DEF PaidInv
    <3>3. \A s \in Request : PaidFor(s)' <=> (PaidFor(s) \/ s = r)
      BY <1>1, <1>3, <2>1 DEF PaidFor, Goto, TypeOK
    <3>4. a # None /\ row # None
      BY <2>1, <2>4, ConstantsOK, NoneIsNothing
    <3>5. \A s \in Request : BindingOf(req[s])' = BindingOf(req[s])
      BY <1>1 DEF BindingOf
    <3>6. ASSUME NEW s \in Request, PaidFor(s)
          PROVE  receipts'[req[s].approval] = receipts[req[s].approval]
      BY <2>3, <3>2, <3>6 DEF TypeOK
    <3>7. receipts'[a] = row
      BY <2>1, <2>3 DEF TypeOK
    <3>8. QED
      BY <1>1, <2>1, <2>4, <3>1, <3>2, <3>3, <3>4, <3>5, <3>6, <3>7 DEF PaidInv
  <2>10. QED BY <2>5, <2>6, <2>7, <2>8, <2>9
<1>4. QED BY <1>2, <1>3 DEF Consume

LEMMA InvokePreserves ==
    ASSUME IInv, NEW r \in Request, Invoke(r)
    PROVE  IInv'
<1> USE DEF IInv, ApprovalInv, Invoke, Goto
<1>1. TypeOK'
  BY DEF TypeOK, Step
<1>2. OpenedInv'
  BY DEF OpenedInv, InFlight, TypeOK
<1>3. AskedInv'
  BY DEF AskedInv, TypeOK
<1>4. IssuedInv'
  BY DEF IssuedInv, TypeOK, BindingOf
<1>5. PaidInv'
  <2>1. \A s \in Request : PaidFor(s)' <=> PaidFor(s)
    BY DEF PaidFor, TypeOK
  <2>2. QED BY <2>1 DEF PaidInv, BindingOf
<1>6. QED BY <1>1, <1>2, <1>3, <1>4, <1>5

LEMMA ReturnPreserves ==
    ASSUME IInv, NEW r \in Request, Return(r)
    PROVE  IInv'
<1>1. PICK v \in Verdict : Conclude(r, "running", v)
  BY DEF Return, Verdict, ErrorCode
<1>2. QED
  BY <1>1, MovePreserves DEF Return, Conclude, Goto, Step

\* Leaving for good, answered or not: the locals go, the tables stay.
LEMMA UnwindPreserves ==
    ASSUME IInv, NEW R \in SUBSET Request, Unwind(R),
           NEW to \in {"done", "lost"},
           \A r \in R : InFlight(r),
           pc' = [r \in Request |-> IF r \in R THEN to ELSE pc[r]],
           reply' \in [Request -> Verdict \cup {None}],
           now' \in Nat, up' \subseteq Core, grants' \subseteq GrantCall,
           UNCHANGED <<req, ran, audits, receipts>>
    PROVE  IInv'
<1> USE DEF IInv, ApprovalInv
<1>1. TypeOK'
  BY DEF TypeOK, Unwind, Step
<1>2. OpenedInv'
  BY DEF OpenedInv, InFlight, TypeOK, Unwind
<1>3. AskedInv'
  BY DEF AskedInv, TypeOK, Unwind
<1>4. IssuedInv'
  BY DEF IssuedInv, TypeOK, BindingOf
<1>5. PaidInv'
  <2>1. \A s \in Request : PaidFor(s)' => PaidFor(s)
    BY DEF PaidFor, TypeOK
  <2>2. QED BY <2>1 DEF PaidInv, BindingOf
<1>6. QED BY <1>1, <1>2, <1>3, <1>4, <1>5

\* The row _complete_audit writes is a well-formed audit record.
LEMMA ClosedRowIsTyped ==
    ASSUME IInv, NEW r \in Request, Close(r)
    PROVE  /\ audits'[r] \in AuditRow
           /\ audits' \in [Request -> AuditRow \cup {None}]
           /\ \A s \in Request \ {r} : audits'[s] = audits[s]
<1> DEFINE v == verdict[r]
           row == [audits[r] EXCEPT
                      !.level = IF v = "tool_not_found" THEN None ELSE Level[req[r].tool],
                      !.decision = decision[r], !.outcome = OutcomeOf(v),
                      !.code = CodeOf(v), !.completed = now]
<1>1. pc[r] = "close"
  BY DEF Close, Goto
<1>2. v \in Verdict /\ audits[r] \in AuditRow /\ req[r] \in RequestBody
  BY <1>1 DEF IInv, ApprovalInv, OpenedInv, InFlight, TypeOK
<1>3. audits' = [audits EXCEPT ![r] = row]
  BY DEF Close
<1>4. row \in AuditRow
  <2>1. v # "tool_not_found" => Level[req[r].tool] \in {"none", "read", "write", "dangerous"}
    BY <1>1, <1>2, ConstantsOK DEF IInv, ApprovalInv, OpenedInv, InFlight, RequestBody
  <2>2. (IF v = "tool_not_found" THEN None ELSE Level[req[r].tool])
           \in {"none", "read", "write", "dangerous", None}
    BY <2>1
  <2>3. OutcomeOf(v) \in Outcome /\ CodeOf(v) \in ErrorCode \cup {None}
    BY <1>2, VerdictsAreRecordable
  <2>4. decision[r] \in Decision \cup {None} /\ now \in Nat \cup {None}
    BY DEF IInv, TypeOK
  <2> HIDE DEF v
  <2>5. QED
    BY <1>2, <2>2, <2>3, <2>4 DEF AuditRow
<1> HIDE DEF row, v
<1>5. QED
  BY <1>3, <1>4 DEF IInv, TypeOK

LEMMA ClosePreserves ==
    ASSUME IInv, NEW r \in Request, Close(r) \/ CloseFails(r)
    PROVE  IInv'
<1> USE DEF IInv, ApprovalInv
<1>1. /\ pc[r] = "close" /\ pc' = [pc EXCEPT ![r] = "answer"]
      /\ UNCHANGED <<now, up, grants, req, decision, at, reply, ran, receipts>>
  BY DEF Close, CloseFails, Goto
<1>2. audits[r] # None /\ verdict[r] \in Verdict
  BY <1>1 DEF OpenedInv, InFlight, TypeOK
<1>3. \/ verdict' = verdict
      \/ verdict' = [verdict EXCEPT ![r] = "tool_internal_error"]
  BY DEF Close, CloseFails
<1>4. /\ verdict'[r] \in Verdict
      /\ verdict' \in [Request -> Verdict \cup {None}]
      /\ \A s \in Request \ {r} : verdict'[s] = verdict[s]
  BY <1>2, <1>3 DEF TypeOK, Verdict, ErrorCode
<1>5. /\ audits' \in [Request -> AuditRow \cup {None}]
      /\ audits'[r] # None /\ \A s \in Request \ {r} : audits'[s] = audits[s]
  <2>1. CASE Close(r)
    BY <2>1, ClosedRowIsTyped, NoneIsNothing
  <2>2. CASE CloseFails(r)
    BY <2>2, <1>2 DEF CloseFails, TypeOK
  <2>3. QED BY <2>1, <2>2
<1>6. TypeOK'
  BY <1>1, <1>4, <1>5 DEF TypeOK, Step
<1>7. OpenedInv'
  BY <1>1, <1>4, <1>5, NoneIsNothing DEF OpenedInv, InFlight, TypeOK
<1>8. AskedInv'
  BY <1>1 DEF AskedInv, TypeOK
<1>9. IssuedInv'
  BY <1>1 DEF IssuedInv, TypeOK, BindingOf
<1>10. PaidInv'
  BY <1>1 DEF PaidInv, PaidFor, TypeOK, BindingOf
<1>11. QED BY <1>6, <1>7, <1>8, <1>9, <1>10

LEMMA LeavePreserves ==
    ASSUME IInv, NEW r \in Request, Answer(r) \/ Cancel(r)
    PROVE  IInv'
<1>1. PICK to \in {"done", "lost"} : pc' = [pc EXCEPT ![r] = to]
  BY DEF Cancel, Answer, Goto
<1>2. /\ Unwind({r}) /\ InFlight(r)
      /\ reply' = reply \/ reply' = [reply EXCEPT ![r] = verdict[r]]
      /\ UNCHANGED <<now, up, grants, req, ran, audits, receipts>>
  BY DEF Cancel, Answer, Goto, InFlight
<1>3. pc' = [s \in Request |-> IF s \in {r} THEN to ELSE pc[s]]
      /\ reply' \in [Request -> Verdict \cup {None}]
      /\ now' \in Nat /\ up' \subseteq Core /\ grants' \subseteq GrantCall
  BY <1>1, <1>2 DEF IInv, TypeOK
<1>4. QED
  BY <1>2, <1>3, UnwindPreserves

LEMMA CrashPreserves ==
    ASSUME IInv, NEW c \in Core, Crash(c)
    PROVE  IInv'
<1> DEFINE dying == {r \in Request : InFlight(r) /\ req[r].core = c}
<1>1. /\ pc' = [r \in Request |-> IF r \in dying THEN "lost" ELSE pc[r]]
      /\ Unwind(dying) /\ up' = up \ {c} /\ grants' = {g \in grants : g.core # c}
      /\ UNCHANGED <<now, req, reply, ran, audits, receipts>>
  BY DEF Crash
<1>2. dying \in SUBSET Request /\ \A r \in dying : InFlight(r)
  OBVIOUS
<1> HIDE DEF dying
<1>3. /\ reply' \in [Request -> Verdict \cup {None}]
      /\ now' \in Nat /\ up' \subseteq Core /\ grants' \subseteq GrantCall
  BY <1>1 DEF IInv, TypeOK
<1>4. QED
  BY <1>1, <1>2, <1>3, UnwindPreserves

LEMMA GrantPreserves ==
    ASSUME IInv, NEW g \in grants, Grant(g)
    PROVE  IInv'
<1> USE DEF IInv, ApprovalInv
<1> DEFINE a == g.receipt
           row == [receipts[a] EXCEPT !.status = "approved", !.approved = g.at]
<1>1. /\ grants' = grants \ {g} /\ a \in Request /\ g.at \in Nat
      /\ UNCHANGED <<now, up, req, pc, decision, at, verdict, reply, ran, audits>>
  BY DEF Grant, TypeOK, GrantCall
<1> SUFFICES ASSUME ~ UNCHANGED receipts PROVE IInv'
  <2>1. CASE UNCHANGED receipts
    <3>1. TypeOK'
      BY <1>1, <2>1 DEF TypeOK
    <3>2. OpenedInv' /\ AskedInv' /\ IssuedInv' /\ PaidInv'
      BY <1>1, <2>1 DEF OpenedInv, AskedInv, IssuedInv, PaidInv, PaidFor, InFlight, BindingOf
    <3>3. QED BY <3>1, <3>2
  <2>2. QED BY <2>1
<1>2. /\ receipts' = [receipts EXCEPT ![a] = row]
      /\ receipts[a] # None /\ receipts[a].status = "pending" /\ g.at >= receipts[a].created
  BY DEF Grant, Grantable
<1>3. receipts[a] \in Receipt
  BY <1>1, <1>2 DEF TypeOK
<1>4. /\ row \in Receipt /\ row.status = "approved" /\ row.approved = g.at
      /\ row.binding = receipts[a].binding /\ row.created = receipts[a].created
      /\ row.expires = receipts[a].expires
  BY <1>1, <1>3 DEF Receipt
<1> HIDE DEF row
<1>5. TypeOK'
  BY <1>1, <1>2, <1>4 DEF TypeOK
<1>6. OpenedInv'
  BY <1>1, <1>2, <1>4, NoneIsNothing DEF OpenedInv, InFlight, TypeOK
<1>7. AskedInv'
  BY <1>1 DEF AskedInv
<1>8. IssuedInv'
  BY <1>1, <1>2, <1>3, <1>4 DEF IssuedInv, TypeOK, BindingOf
<1>9. PaidInv'
  <2>1. \A s \in Request : PaidFor(s)' <=> PaidFor(s)
    BY <1>1 DEF PaidFor
  <2>2. \A s \in Request : PaidFor(s) => req[s].approval # a
    BY <1>1, <1>2 DEF PaidInv
  <2>3. QED
    BY <1>1, <1>2, <2>1, <2>2 DEF PaidInv, TypeOK, BindingOf
<1>10. QED BY <1>5, <1>6, <1>7, <1>8, <1>9

LEMMA AskGrantPreserves ==
    ASSUME IInv, NEW a \in Request, NEW c \in Core, AskGrant(a, c)
    PROVE  IInv'
<1> USE DEF IInv, ApprovalInv
<1>1. /\ grants' = grants \cup {[receipt |-> a, core |-> c, at |-> now]}
      /\ UNCHANGED <<now, up, req, pc, decision, at, verdict, reply, ran, audits, receipts>>
  BY DEF AskGrant
<1>2. TypeOK'
  BY <1>1 DEF TypeOK, GrantCall
<1>3. OpenedInv' /\ AskedInv' /\ IssuedInv' /\ PaidInv'
  BY <1>1 DEF OpenedInv, AskedInv, IssuedInv, PaidInv, PaidFor, InFlight, BindingOf
<1>4. QED BY <1>2, <1>3

LEMMA IdlePreserves ==
    ASSUME IInv, Tick \/ UNCHANGED vars
    PROVE  IInv'
<1> USE DEF IInv, ApprovalInv
<1>1. now' \in Nat /\ UNCHANGED <<up, grants, req, pc, decision, at, verdict,
                                     reply, ran, audits, receipts>>
  BY ConstantsOK DEF Tick, TypeOK, vars
<1>2. TypeOK'
  BY <1>1 DEF TypeOK
<1>3. OpenedInv' /\ AskedInv' /\ IssuedInv' /\ PaidInv'
  BY <1>1 DEF OpenedInv, AskedInv, IssuedInv, PaidInv, PaidFor, InFlight, BindingOf
<1>4. QED BY <1>2, <1>3

\* The approval invariant and the types are inductive.
LEMMA InductiveStep == IInv /\ [Next]_vars => IInv'
<1> SUFFICES ASSUME IInv, [Next]_vars PROVE IInv'
  OBVIOUS
<1>1. ASSUME NEW r \in Request,
             Open(r) \/ OpenFails(r) \/ Serve(r) \/ Cancel(r)
      PROVE  IInv'
  BY <1>1, OpenPreserves, ResolvePreserves, ChallengePreserves, LookupPreserves,
     ConsumePreserves, InvokePreserves, ReturnPreserves, ClosePreserves,
     LeavePreserves DEF Serve
<1>2. ASSUME NEW c \in Core, Crash(c) PROVE IInv'
  BY <1>2, CrashPreserves
<1>3. CASE Tick \/ UNCHANGED vars
  BY <1>3, IdlePreserves
<1>4. ASSUME NEW a \in Request, NEW c \in Core, AskGrant(a, c) PROVE IInv'
  BY <1>4, AskGrantPreserves
<1>5. ASSUME NEW g \in grants, Grant(g) PROVE IInv'
  BY <1>5, GrantPreserves
<1>6. QED BY <1>1, <1>2, <1>3, <1>4, <1>5 DEF Next

LEMMA Inductive == Spec => []IInv
<1>1. QED BY InitEstablishes, InductiveStep, PTL DEF Spec

\* Every reachable state is well typed.
THEOREM TypeCorrect == Spec => []TypeOK
<1>1. IInv => TypeOK
  BY DEF IInv
<1>2. QED BY Inductive, <1>1, PTL

\* What a request has yet to do and what the receipts say agree at every step: a receipt
\* belongs to the request it was issued to, its stamps are in order, and an execution past
\* the receipt check has a consumed receipt of its own (_resolve_direct_approval, consume).
THEOREM ApprovalHolds == Spec => []ApprovalInv
<1>1. IInv => ApprovalInv
  BY DEF IInv
<1>2. QED BY Inductive, <1>1, PTL

\* No tool with effects ever runs unapproved, whatever the requests, processes,
\* failures and clock: execute, _resolve_direct_approval and the repository's
\* transactions together enforce what the approval receipts are for.
THEOREM EveryWriteWasApproved == Spec => []WritesWereApproved
<1>1. IInv => WritesWereApproved
  <2> SUFFICES ASSUME IInv, NEW r \in Writes
               PROVE  /\ Level[req[r].tool] = "write"
                      /\ req[r].caller = "tools"
                      /\ req[r].approval # None
                      /\ receipts[req[r].approval] # None
                      /\ receipts[req[r].approval].status = "consumed"
                      /\ SameRequest(req[req[r].approval], req[r])
                      /\ receipts[req[r].approval].created <= receipts[req[r].approval].approved
                      /\ receipts[req[r].approval].approved <= receipts[req[r].approval].consumed
                      /\ receipts[req[r].approval].consumed < receipts[req[r].approval].expires
    BY Zenon DEF WritesWereApproved
  <2> DEFINE a == req[r].approval
  <2>1. r \in Request /\ PaidFor(r)
    BY DEF IInv, TypeOK, Writes, PaidFor
  <2>2. /\ Level[req[r].tool] = "write" /\ req[r].caller = "tools"
        /\ a # None /\ receipts[a] # None
        /\ receipts[a].status = "consumed" /\ receipts[a].binding = BindingOf(req[r])
    BY <2>1 DEF IInv, ApprovalInv, PaidInv
  <2>3. req[r] \in RequestBody /\ a \in Request
    BY <2>1, <2>2 DEF IInv, ApprovalInv, OpenedInv, TypeOK, PaidFor, RequestBody
  <2>4. req[a] \in RequestBody /\ BindingOf(req[a]) = BindingOf(req[r])
    BY <2>2, <2>3 DEF IInv, ApprovalInv, IssuedInv, TypeOK
  <2>5. SameRequest(req[a], req[r])
    BY <2>3, <2>4, BindingIsFaithful
  <2>6. /\ receipts[a].created <= receipts[a].approved
        /\ receipts[a].approved <= receipts[a].consumed
        /\ receipts[a].consumed < receipts[a].expires
    BY <2>2, <2>3 DEF IInv, ApprovalInv, IssuedInv
  <2>7. QED BY <2>2, <2>5, <2>6
<1>2. QED BY Inductive, <1>1, PTL

\* Exactly one concurrent consumer can succeed, and its receipt pays for one run.
THEOREM ReceiptsAreOneShot == Spec => []OneExecutionPerReceipt
<1>1. IInv => OneExecutionPerReceipt
  BY DEF IInv, TypeOK, ApprovalInv, PaidInv, PaidFor, Writes, OneExecutionPerReceipt
<1>2. QED BY Inductive, <1>1, PTL

-------------------------------------------------------------------------------
(* The evidence *)

\* What the audit rows and replies say while an execution is under way: its caller
\* waits, its row is open until it is committed, and says from then on what is about
\* to be replied, a conclusion that blames or credits the tool is reached only after
\* the tool was entered, and a refusal only if it was not.
ToolVerdict == {"success", "unsuccessful", "tool_execution_failed"}

EvidenceInv ==
    /\ \A r \in Request :
        /\ pc[r] = "idle" => audits[r] = None /\ reply[r] = None
        /\ InFlight(r) \/ pc[r] = "lost" => audits[r] # None /\ reply[r] = None
        /\ (InFlight(r) /\ pc[r] # "answer") => audits[r].outcome = "started"
        /\ (pc[r] = "answer" /\ verdict[r] # "tool_internal_error") =>
               /\ audits[r].outcome = OutcomeOf(verdict[r])
               /\ audits[r].code = CodeOf(verdict[r])
               /\ audits[r].completed # None
        /\ pc[r] \in {"resolve", "challenge", "lookup", "consume", "invoke"} => r \notin ran
        /\ pc[r] = "running" => r \in ran
        /\ (pc[r] = "close" /\ verdict[r] \in ToolVerdict) => r \in ran
        /\ (pc[r] = "close" /\ r \in ran) => verdict[r] \in ToolVerdict \cup {"tool_internal_error"}
        /\ (pc[r] = "idle" \/ audits[r] = None) => r \notin ran
    /\ EvidenceIsHonest
    /\ RepliesAreOnRecord

\* Moving on, or concluding, with the rows and the replies as they are.
LEMMA MoveKeepsEvidence ==
    ASSUME IInv, EvidenceInv, NEW r \in Request, NEW from \in Step, NEW to \in Step,
           from \in {"resolve", "challenge", "lookup", "consume", "running"},
           pc[r] = from, pc' = [pc EXCEPT ![r] = to],
           \/ /\ to = "close"
              /\ \E v \in (IF from = "running" THEN ToolVerdict \cup {"tool_internal_error"}
                           ELSE Verdict \ ToolVerdict) :
                     verdict' = [verdict EXCEPT ![r] = v]
           \/ to \in {"challenge", "lookup", "consume", "invoke"} /\ from # "running"
              /\ UNCHANGED verdict,
           UNCHANGED <<reply, ran, audits>>
    PROVE  EvidenceInv'
BY DEF EvidenceInv, EvidenceIsHonest, RepliesAreOnRecord, InFlight, IInv, TypeOK

LEMMA OpenKeepsEvidence ==
    ASSUME IInv, EvidenceInv, NEW r \in Request, Open(r) \/ OpenFails(r)
    PROVE  EvidenceInv'
<1>1. CASE OpenFails(r)
  BY <1>1 DEF OpenFails, Goto, EvidenceInv, EvidenceIsHonest, RepliesAreOnRecord, InFlight,
              IInv, TypeOK
<1>2. CASE Open(r)
  <2>1. PICK q \in Asks(r) :
          /\ pc[r] = "idle" /\ pc' = [pc EXCEPT ![r] = "resolve"]
          /\ audits' = [audits EXCEPT ![r] =
                 [corr |-> q.corr, tool |-> q.tool, level |-> None,
                  decision |-> None, outcome |-> "started", code |-> None,
                  started |-> now, completed |-> None]]
          /\ UNCHANGED <<reply, ran, verdict>>
    BY <1>2 DEF Open, Goto
  <2>2. q \in RequestBody
    BY AskedRequestsAreTyped DEF IInv
  <2>3. [corr |-> q.corr, tool |-> q.tool, level |-> None,
         decision |-> None, outcome |-> "started", code |-> None,
         started |-> now, completed |-> None] \in AuditRow
    BY <2>2 DEF AuditRow, IInv, TypeOK, RequestBody, Outcome
  <2>4. audits'[r] # None /\ audits'[r].outcome = "started"
        /\ \A s \in Request \ {r} : audits'[s] = audits[s]
    BY <2>1, <2>3, NoneIsNothing DEF IInv, TypeOK
  <2>5. QED
    BY <2>1, <2>4 DEF EvidenceInv, EvidenceIsHonest, RepliesAreOnRecord, InFlight, IInv, TypeOK
<1>3. QED BY <1>1, <1>2

LEMMA CloseKeepsEvidence ==
    ASSUME IInv, EvidenceInv, NEW r \in Request, Close(r)
    PROVE  EvidenceInv'
<1> DEFINE v == verdict[r]
<1>1. /\ pc[r] = "close" /\ pc' = [pc EXCEPT ![r] = "answer"]
      /\ UNCHANGED <<ran, reply, verdict>>
  BY DEF Close, Goto
<1>2. v \in Verdict /\ audits[r] \in AuditRow /\ audits[r] # None
  BY <1>1 DEF IInv, ApprovalInv, OpenedInv, InFlight, TypeOK
<1>3. /\ audits'[r] # None
      /\ audits'[r].outcome = OutcomeOf(v) /\ audits'[r].code = CodeOf(v)
      /\ audits'[r].completed # None
      /\ \A s \in Request \ {r} : audits'[s] = audits[s]
  <2>1. audits'[r].outcome = OutcomeOf(v) /\ audits'[r].code = CodeOf(v)
        /\ audits'[r].completed = now
    BY <1>2 DEF Close, IInv, TypeOK, AuditRow
  <2>2. audits'[r] # None /\ now # None
    BY ClosedRowIsTyped, ConstantsOK, NoneIsNothing DEF IInv, TypeOK
  <2>3. QED BY <2>1, <2>2, ClosedRowIsTyped
<1>4. r \in ran => OutcomeOf(v) \in {"succeeded", "tool_failed", "internal_failure"}
  BY <1>1 DEF EvidenceInv, ToolVerdict, OutcomeOf
<1>5. OutcomeOf(v) \in {"succeeded", "tool_failed"} => r \in ran
  BY <1>1, <1>2 DEF EvidenceInv, ToolVerdict, OutcomeOf, Verdict, ErrorCode, Refusal
<1>6. verdict'[r] = v /\ reply[r] = None
  BY <1>1 DEF EvidenceInv, InFlight
<1> HIDE DEF v
<1>7. /\ pc'[r] = "answer" /\ reply'[r] = None /\ ran' = ran
      /\ \A s \in Request \ {r} :
             /\ pc'[s] = pc[s] /\ verdict'[s] = verdict[s] /\ reply'[s] = reply[s]
             /\ audits'[s] = audits[s]
  BY <1>1, <1>3, <1>6 DEF IInv, TypeOK
<1>8. EvidenceIsHonest'
  <2>1. EvidenceIsHonest /\ ran' = ran /\ \A s \in Request \ {r} : audits'[s] = audits[s]
    BY <1>7 DEF EvidenceInv
  <2>2. ASSUME NEW s \in ran'
        PROVE  /\ audits'[s] # None
               /\ audits'[s].outcome \in {"started", "succeeded", "tool_failed", "internal_failure"}
    <3>1. CASE s = r
      BY <1>3, <1>4, <2>1, <2>2, <3>1
    <3>2. CASE s # r
      <4>1. s \in Request
        BY <2>1, <2>2 DEF IInv, TypeOK
      <4>2. QED BY <2>1, <2>2, <3>2, <4>1 DEF EvidenceIsHonest
    <3>3. QED BY <3>1, <3>2
  <2>3. ASSUME NEW s \in Request,
               audits'[s] # None /\ audits'[s].outcome \in {"succeeded", "tool_failed"}
        PROVE  s \in ran'
    <3>1. CASE s = r
      BY <1>3, <1>5, <2>1, <2>3, <3>1
    <3>2. CASE s # r
      BY <2>1, <2>3, <3>2 DEF EvidenceIsHonest
    <3>3. QED BY <3>1, <3>2
  <2>4. QED BY <2>2, <2>3 DEF EvidenceIsHonest
<1>9. RepliesAreOnRecord'
  BY <1>7 DEF EvidenceInv, RepliesAreOnRecord
<1>10. QED
  BY <1>3, <1>6, <1>7, <1>8, <1>9 DEF EvidenceInv, InFlight

\* Leaving with the rows as they are.
LEMMA LeaveKeepsEvidence ==
    ASSUME IInv, EvidenceInv, NEW R \in SUBSET Request,
           \A r \in R : InFlight(r),
           \/ /\ pc' = [r \in Request |-> IF r \in R THEN "lost" ELSE pc[r]]
              /\ UNCHANGED reply
           \/ /\ \A r \in R : pc[r] = "answer"
              /\ pc' = [r \in Request |-> IF r \in R THEN "done" ELSE pc[r]]
              /\ reply' = [r \in Request |-> IF r \in R THEN verdict[r] ELSE reply[r]],
           Unwind(R), UNCHANGED <<ran, audits>>
    PROVE  EvidenceInv'
BY DEF EvidenceInv, EvidenceIsHonest, RepliesAreOnRecord, InFlight, IInv, TypeOK, Unwind

\* With the approval invariant, the evidence invariant is inductive.
LEMMA EvidenceInductive == Spec => []EvidenceInv
<1>1. Init => EvidenceInv
  BY DEF Init, EvidenceInv, EvidenceIsHonest, RepliesAreOnRecord, InFlight
<1>2. IInv /\ EvidenceInv /\ [Next]_vars => EvidenceInv'
  <2> SUFFICES ASSUME IInv, EvidenceInv, [Next]_vars PROVE EvidenceInv'
    OBVIOUS
  <2>1. ASSUME NEW r \in Request, Open(r) \/ OpenFails(r) PROVE EvidenceInv'
    BY <2>1, OpenKeepsEvidence
  <2>2. ASSUME NEW r \in Request, Resolve(r) PROVE EvidenceInv'
    <3>1. {"tool_not_found", "tool_invalid_arguments", "tool_internal_error", "tool_denied",
           "sentinel_authorization_failed", "tool_approval_required"} \subseteq Verdict \ ToolVerdict
      BY DEF Verdict, ErrorCode, Refusal, ToolVerdict
    <3>2. /\ pc[r] = "resolve"
          /\ \/ \E v \in Verdict \ ToolVerdict : Conclude(r, "resolve", v)
             \/ /\ \E to \in {"challenge", "lookup", "invoke"} : Goto(r, "resolve", to)
                /\ UNCHANGED verdict
          /\ UNCHANGED <<reply, ran, audits>>
      BY <2>2, <3>1 DEF Resolve, NotFound, Invalid, SentinelFails, Allow, Deny, Ask
    <3>3. QED
      BY <3>2, MoveKeepsEvidence DEF Conclude, Goto, Step
  <2>3. ASSUME NEW r \in Request, Challenge(r) PROVE EvidenceInv'
    BY <2>3, MoveKeepsEvidence
       DEF Challenge, Conclude, Goto, Step, Verdict, ErrorCode, Refusal, ToolVerdict
  <2>4. ASSUME NEW r \in Request, Lookup(r) PROVE EvidenceInv'
    <3>1. receipts[req[r].approval] \in Receipt \cup {None} /\ at[r] \in Nat
      BY <2>4 DEF Lookup, IInv, ApprovalInv, OpenedInv, AskedInv, TypeOK, RequestBody
    <3>2. LookupVerdict(r) \in (Verdict \ ToolVerdict) \cup {"usable"}
      BY <3>1 DEF LookupVerdict, Verdict, ErrorCode, Refusal, Receipt, ToolVerdict
    <3>3. "tool_internal_error" \in Verdict \ ToolVerdict
      BY DEF Verdict, ErrorCode, ToolVerdict
    <3>4. QED
      BY <2>4, <3>2, <3>3, MoveKeepsEvidence DEF Lookup, Conclude, Goto, Step
  <2>5. ASSUME NEW r \in Request, Consume(r) PROVE EvidenceInv'
    <3>1. {"tool_internal_error", "tool_approval_expired", "tool_approval_invalid"}
            \subseteq Verdict \ ToolVerdict
      BY DEF Verdict, ErrorCode, Refusal, ToolVerdict
    <3>2. /\ \/ \E v \in Verdict \ ToolVerdict : Conclude(r, "consume", v)
             \/ Goto(r, "consume", "invoke") /\ UNCHANGED verdict
          /\ UNCHANGED <<reply, ran, audits>>
      BY <2>5, <3>1 DEF Consume
    <3>3. QED
      BY <3>2, MoveKeepsEvidence DEF Conclude, Goto, Step
  <2>6. ASSUME NEW r \in Request, Invoke(r) PROVE EvidenceInv'
    BY <2>6 DEF Invoke, Goto, EvidenceInv, EvidenceIsHonest, RepliesAreOnRecord, InFlight,
                IInv, TypeOK
  <2>7. ASSUME NEW r \in Request, Return(r) PROVE EvidenceInv'
    BY <2>7, MoveKeepsEvidence DEF Return, Conclude, Goto, Step, ToolVerdict
  <2>8. ASSUME NEW r \in Request, Close(r) PROVE EvidenceInv'
    BY <2>8, CloseKeepsEvidence
  <2>9. ASSUME NEW r \in Request, CloseFails(r) PROVE EvidenceInv'
    BY <2>9 DEF CloseFails, Goto, EvidenceInv, EvidenceIsHonest, RepliesAreOnRecord,
                InFlight, IInv, TypeOK
  <2>10. ASSUME NEW r \in Request, Answer(r) \/ Cancel(r) PROVE EvidenceInv'
    <3>1. InFlight(r) /\ Unwind({r}) /\ UNCHANGED <<ran, audits>>
          /\ \/ pc' = [pc EXCEPT ![r] = "lost"] /\ UNCHANGED reply
             \/ /\ pc[r] = "answer" /\ pc' = [pc EXCEPT ![r] = "done"]
                /\ reply' = [reply EXCEPT ![r] = verdict[r]]
      BY <2>10 DEF Cancel, Answer, Goto, InFlight
    <3>2. \/ /\ pc' = [s \in Request |-> IF s \in {r} THEN "lost" ELSE pc[s]]
             /\ UNCHANGED reply
          \/ /\ pc[r] = "answer"
             /\ pc' = [s \in Request |-> IF s \in {r} THEN "done" ELSE pc[s]]
             /\ reply' = [s \in Request |-> IF s \in {r} THEN verdict[r] ELSE reply[s]]
      BY <3>1 DEF IInv, TypeOK
    <3>3. QED BY <3>1, <3>2, LeaveKeepsEvidence
  <2>11. ASSUME NEW c \in Core, Crash(c) PROVE EvidenceInv'
    <3> DEFINE dying == {r \in Request : InFlight(r) /\ req[r].core = c}
    <3>1. /\ pc' = [r \in Request |-> IF r \in dying THEN "lost" ELSE pc[r]]
          /\ Unwind(dying) /\ UNCHANGED <<reply, ran, audits>>
          /\ dying \in SUBSET Request /\ \A r \in dying : InFlight(r)
      BY <2>11 DEF Crash
    <3> HIDE DEF dying
    <3>2. QED BY <3>1, LeaveKeepsEvidence
  <2>12. CASE \/ Tick \/ UNCHANGED vars \/ \E g \in grants : Grant(g)
              \/ \E a \in Request, c \in Core : AskGrant(a, c)
    BY <2>12 DEF Tick, Grant, AskGrant, vars, EvidenceInv, EvidenceIsHonest, RepliesAreOnRecord, InFlight
  <2>13. QED
    BY <2>1, <2>2, <2>3, <2>4, <2>5, <2>6, <2>7, <2>8, <2>9, <2>10, <2>11, <2>12
       DEF Next, Serve
<1>3. QED BY Inductive, <1>1, <1>2, PTL DEF Spec

\* The evidence never contradicts the effects: a row that refuses never covers a run, a
\* row that reports one always does (execute, _execute_tool and _complete_audit).
THEOREM EvidenceHolds == Spec => []EvidenceIsHonest
<1>1. EvidenceInv => EvidenceIsHonest
  BY DEF EvidenceInv
<1>2. QED BY EvidenceInductive, <1>1, PTL

\* No reply runs ahead of its row: whatever a caller is told, but for the internal error,
\* was committed before (_complete_audit comes before the return, a crash may fall between
\* them, and a row that cannot be completed turns any reply into the internal error).
THEOREM RepliesHold == Spec => []RepliesAreOnRecord
<1>1. EvidenceInv => RepliesAreOnRecord
  BY DEF EvidenceInv
<1>2. QED BY EvidenceInductive, <1>1, PTL

-------------------------------------------------------------------------------
(* Durable rows only move forward *)

\* What a step does to the audit rows: nothing, open one, or complete an open one.
RowsForward ==
    \A r \in Request : audits[r] # None =>
        /\ audits'[r] # None
        /\ audits[r].outcome # "started" => audits'[r] = audits[r]
        /\ \A f \in {"corr", "tool", "started"} : audits'[r][f] = audits[r][f]

\* What a step does to the receipts: nothing, issue one, grant one or spend one.
ReceiptsForward ==
    \A a \in Request : receipts[a] # None =>
        /\ receipts'[a] # None
        /\ \A f \in {"binding", "created", "expires"} : receipts'[a][f] = receipts[a][f]
        /\ \/ receipts'[a] = receipts[a]
           \/ /\ receipts[a].status = "pending" /\ receipts'[a].status = "approved"
              /\ receipts'[a].consumed = None
           \/ /\ receipts[a].status = "approved" /\ receipts'[a].status = "consumed"
              /\ receipts'[a].approved = receipts[a].approved

\* Only Open writes a row where there was none, and only Close changes one.
LEMMA AuditRowsMoveForward ==
    ASSUME IInv, EvidenceInv, [Next]_vars PROVE RowsForward
<1>1. ASSUME NEW r \in Request, Open(r) PROVE RowsForward
  <2>1. audits[r] = None
    BY <1>1 DEF Open, Goto, EvidenceInv
  <2>2. \A s \in Request \ {r} : audits'[s] = audits[s]
    BY <1>1 DEF Open
  <2>3. QED BY <2>1, <2>2 DEF RowsForward
<1>2. ASSUME NEW r \in Request, Close(r) PROVE RowsForward
  <2>1. audits[r] \in AuditRow /\ audits[r].outcome = "started"
    BY <1>2 DEF Close, Goto, EvidenceInv, InFlight, IInv, TypeOK
  <2>2. /\ audits'[r] = [audits[r] EXCEPT !.level = audits'[r].level,
             !.decision = audits'[r].decision, !.outcome = audits'[r].outcome,
             !.code = audits'[r].code, !.completed = audits'[r].completed]
        /\ \A s \in Request \ {r} : audits'[s] = audits[s]
    BY <1>2, <2>1 DEF Close, IInv, TypeOK, AuditRow
  <2>3. audits'[r] # None
    BY <1>2, ClosedRowIsTyped, NoneIsNothing
  <2>4. QED BY <2>1, <2>2, <2>3 DEF RowsForward, AuditRow
<1>3. ASSUME UNCHANGED audits PROVE RowsForward
  BY <1>3 DEF RowsForward
<1>4. QED
  BY <1>1, <1>2, <1>3 DEF Next, Serve, OpenFails, Resolve, Challenge, Lookup, Consume, Invoke,
     Return, CloseFails, Answer, Cancel, AskGrant, Grant, Crash, Tick, vars

\* A receipt that is not consumed has no stamp of it.
UnspentInv ==
    \A a \in Request :
        (receipts[a] # None /\ receipts[a].status \in {"pending", "approved"})
            => receipts[a].consumed = None

\* What a step makes of the receipts: it issues one, grants one, spends one, or none.
LEMMA ReceiptSteps ==
    ASSUME IInv, [Next]_vars
    PROVE  \/ UNCHANGED receipts
           \/ \E a \in Request, row \in Receipt :
                  /\ receipts[a] = None /\ row.status = "pending" /\ row.consumed = None
                  /\ receipts' = [receipts EXCEPT ![a] = row]
           \/ \E a \in Request, t \in Nat :
                  /\ receipts[a] # None /\ receipts[a].status = "pending"
                  /\ receipts' = [receipts EXCEPT ![a].status = "approved", ![a].approved = t]
           \/ \E a \in Request, t \in Nat :
                  /\ receipts[a] # None /\ receipts[a].status = "approved"
                  /\ receipts' = [receipts EXCEPT ![a].status = "consumed", ![a].consumed = t]
<1> DEFINE Goal == \/ UNCHANGED receipts
                   \/ \E a \in Request, row \in Receipt :
                          /\ receipts[a] = None /\ row.status = "pending" /\ row.consumed = None
                          /\ receipts' = [receipts EXCEPT ![a] = row]
                   \/ \E a \in Request, t \in Nat :
                          /\ receipts[a] # None /\ receipts[a].status = "pending"
                          /\ receipts' = [receipts EXCEPT ![a].status = "approved", ![a].approved = t]
                   \/ \E a \in Request, t \in Nat :
                          /\ receipts[a] # None /\ receipts[a].status = "approved"
                          /\ receipts' = [receipts EXCEPT ![a].status = "consumed", ![a].consumed = t]
<1>1. ASSUME NEW r \in Request, Challenge(r) PROVE Goal
  <2>1. CASE UNCHANGED receipts
    BY <2>1
  <2>2. CASE ~UNCHANGED receipts
    <3> DEFINE row == [binding |-> BindingOf(req[r]), status |-> "pending",
                       created |-> at[r], expires |-> at[r] + Lifetime,
                       approved |-> None, consumed |-> None]
    <3>1. receipts' = [receipts EXCEPT ![r] = row] /\ pc[r] = "challenge"
      BY <1>1, <2>2 DEF Challenge, Conclude, Goto
    <3>2. receipts[r] = None /\ receipts'[r] # None
      <4>1. receipts[r] = None
        BY <3>1 DEF IInv, ApprovalInv, OpenedInv
      <4>2. receipts'[r] # None
        BY <3>1, <4>1, <2>2 DEF IInv, TypeOK
      <4>3. QED BY <4>1, <4>2
    <3>3. receipts'[r] = row
      BY <3>1 DEF IInv, TypeOK
    <3>4. receipts'[r] \in Receipt
      BY <1>1, <3>2, ChallengePreserves DEF IInv, TypeOK
    <3>5. row \in Receipt /\ row.status = "pending" /\ row.consumed = None
      BY <3>3, <3>4
    <3> HIDE DEF row
    <3>6. QED BY <3>1, <3>2, <3>5
  <2>3. QED BY <2>1, <2>2
<1>2. ASSUME NEW r \in Request, Consume(r) PROVE Goal
  <2>1. \/ UNCHANGED receipts
        \/ pc[r] = "consume" /\ Spendable(r) /\ Spend(r)
    BY <1>2 DEF Consume, Goto
  <2>2. CASE pc[r] = "consume" /\ Spendable(r) /\ Spend(r)
    <3> DEFINE a == req[r].approval
    <3>1. a \in Request /\ at[r] \in Nat
      BY <2>2, AskedRequestsAreTyped DEF IInv, ApprovalInv, AskedInv, OpenedInv, TypeOK, RequestBody
    <3>2. receipts[a] # None /\ receipts[a].status = "approved"
      BY <2>2 DEF Spendable
    <3>3. receipts' = [receipts EXCEPT ![a].status = "consumed", ![a].consumed = at[r]]
      BY <2>2 DEF Spend
    <3> HIDE DEF a
    <3>4. QED BY <3>1, <3>2, <3>3
  <2>3. QED BY <2>1, <2>2
<1>3. ASSUME NEW g \in grants, Grant(g) PROVE Goal
  <2>1. g.receipt \in Request /\ g.at \in Nat
    BY <1>3 DEF IInv, TypeOK, GrantCall
  <2>2. QED BY <1>3, <2>1 DEF Grant, Grantable
<1>4. QED
  BY <1>1, <1>2, <1>3 DEF Next, Serve, Open, OpenFails, Resolve, Lookup, Invoke,
     Return, Close, CloseFails, Answer, Cancel, AskGrant, Crash, Tick, vars

LEMMA UnspentPreserved == IInv /\ UnspentInv /\ [Next]_vars => UnspentInv'
<1> SUFFICES ASSUME IInv, UnspentInv, [Next]_vars PROVE UnspentInv'
  OBVIOUS
<1>1. receipts \in [Request -> Receipt \cup {None}]
  BY DEF IInv, TypeOK
<1>2. QED BY <1>1, ReceiptSteps DEF UnspentInv, Receipt

LEMMA ReceiptsMoveForward ==
    ASSUME IInv, UnspentInv, [Next]_vars PROVE ReceiptsForward
<1>1. /\ receipts \in [Request -> Receipt \cup {None}]
      /\ receipts' \in [Request -> Receipt \cup {None}]
  BY InductiveStep DEF IInv, TypeOK
<1>2. CASE UNCHANGED receipts
  BY <1>2 DEF ReceiptsForward
<1>3. ASSUME NEW a \in Request, receipts[a] = None,
             \A b \in Request \ {a} : receipts'[b] = receipts[b]
      PROVE  ReceiptsForward
  BY <1>3 DEF ReceiptsForward
<1>4. ASSUME NEW a \in Request, NEW t \in Nat,
             receipts[a] # None, receipts[a].status = "pending",
             receipts' = [receipts EXCEPT ![a].status = "approved", ![a].approved = t]
      PROVE  ReceiptsForward
  <2>1. receipts[a] \in Receipt /\ receipts[a].consumed = None
    BY <1>1, <1>4 DEF UnspentInv
  <2>2. /\ receipts'[a] = [receipts[a] EXCEPT !.status = "approved", !.approved = t]
        /\ \A b \in Request \ {a} : receipts'[b] = receipts[b]
    BY <1>1, <1>4
  <2>3. /\ receipts'[a].status = "approved" /\ receipts'[a].consumed = None
        /\ \A f \in {"binding", "created", "expires"} : receipts'[a][f] = receipts[a][f]
    BY <2>1, <2>2 DEF Receipt
  <2>4. receipts'[a] # None
    <3>1. receipts'[a] \in Receipt
      BY <2>1, <2>2 DEF Receipt
    <3>2. QED BY <3>1, NoneIsNothing
  <2>5. QED BY <1>4, <2>2, <2>3, <2>4 DEF ReceiptsForward
<1>5. ASSUME NEW a \in Request, NEW t \in Nat,
             receipts[a] # None, receipts[a].status = "approved",
             receipts' = [receipts EXCEPT ![a].status = "consumed", ![a].consumed = t]
      PROVE  ReceiptsForward
  <2>1. receipts[a] \in Receipt
    BY <1>1, <1>5
  <2>2. /\ receipts'[a] = [receipts[a] EXCEPT !.status = "consumed", !.consumed = t]
        /\ \A b \in Request \ {a} : receipts'[b] = receipts[b]
    BY <1>1, <1>5
  <2>3. /\ receipts'[a].status = "consumed" /\ receipts'[a].approved = receipts[a].approved
        /\ \A f \in {"binding", "created", "expires"} : receipts'[a][f] = receipts[a][f]
    BY <2>1, <2>2 DEF Receipt
  <2>4. receipts'[a] # None
    <3>1. receipts'[a] \in Receipt
      BY <2>1, <2>2 DEF Receipt
    <3>2. QED BY <3>1, NoneIsNothing
  <2>5. QED BY <1>5, <2>2, <2>3, <2>4 DEF ReceiptsForward
<1>6. QED
  BY <1>1, <1>2, <1>3, <1>4, <1>5, ReceiptSteps

\* Durable rows only move forward (update of tool_audit.py, create, grant and consume of
\* tool_approvals.py): a completed audit row is final, and a receipt is granted once, spent
\* once, and never again pending.
THEOREM RowsMoveForward == Spec => RowsOnlyMoveForward
<1>1. Init => UnspentInv
  BY DEF Init, UnspentInv
<1>2. IInv /\ EvidenceInv /\ UnspentInv /\ [Next]_vars => [RowsForward /\ ReceiptsForward]_vars
  BY AuditRowsMoveForward, ReceiptsMoveForward
<1>3. QED
  BY Inductive, EvidenceInductive, UnspentPreserved, <1>1, <1>2, PTL
     DEF Spec, RowsOnlyMoveForward, RowsForward, ReceiptsForward

-------------------------------------------------------------------------------
(* Receipts of a process that is gone *)

\* Whatever is under way is under way in a process that is up.
LiveInv == \A r \in Request : InFlight(r) => req[r].core \in up

LEMMA LivePreserved == IInv /\ LiveInv /\ [Next]_vars => LiveInv'
<1> SUFFICES ASSUME IInv, LiveInv, [Next]_vars PROVE LiveInv'
  OBVIOUS
<1>1. ASSUME NEW r \in Request, Open(r) PROVE LiveInv'
  <2>1. PICK q \in Asks(r) : /\ pc' = [pc EXCEPT ![r] = "resolve"]
                             /\ req' = [req EXCEPT ![r] = q] /\ UNCHANGED up
    BY <1>1 DEF Open, Goto
  <2>2. q.core \in up
    BY DEF Asks
  <2>3. QED BY <2>1, <2>2 DEF LiveInv, InFlight, IInv, TypeOK
<1>2. ASSUME NEW r \in Request, OpenFails(r) PROVE LiveInv'
  BY <1>2 DEF OpenFails, Goto, LiveInv, InFlight, IInv, TypeOK
<1>3. ASSUME NEW r \in Request, Serve(r) \/ Cancel(r) PROVE LiveInv'
  <2>1. /\ UNCHANGED <<up, req>> /\ InFlight(r)
        /\ \A s \in Request \ {r} : pc'[s] = pc[s]
    BY <1>3 DEF Serve, Resolve, NotFound, Invalid, SentinelFails, Allow, Deny, Ask, Challenge,
       Lookup, Consume, Invoke, Return, Close, CloseFails, Cancel, Answer, Conclude, Goto,
       InFlight, IInv, TypeOK
  <2>2. QED BY <2>1 DEF LiveInv, InFlight
<1>4. ASSUME NEW c \in Core, Crash(c) PROVE LiveInv'
  BY <1>4 DEF Crash, LiveInv, InFlight
<1>5. CASE UNCHANGED <<up, req, pc>>
  BY <1>5 DEF LiveInv, InFlight
<1>6. QED
  BY <1>1, <1>2, <1>3, <1>4, <1>5 DEF Next, AskGrant, Grant, Tick, vars

\* A receipt that is spent has the key of the request that spends it.
LEMMA OnlyLiveKeysSpend ==
    ASSUME IInv, LiveInv, NEW r \in Request, Consume(r),
           NEW a \in Request, receipts[a] # None, req[a].core \notin up
    PROVE  receipts'[a] = receipts[a]
<1> DEFINE b == req[r].approval
<1>1. CASE UNCHANGED receipts
  BY <1>1
<1>2. CASE pc[r] = "consume" /\ Spendable(r) /\ Spend(r)
  <2>1. b \in Request /\ InFlight(r) /\ req[r] \in RequestBody
    BY <1>2 DEF IInv, ApprovalInv, AskedInv, OpenedInv, InFlight, TypeOK, RequestBody
  <2>2. receipts[b] # None /\ receipts[b].binding = BindingOf(req[r])
    BY <1>2 DEF Spendable
  <2>3. receipts[b].binding = BindingOf(req[b])
    BY <2>1, <2>2 DEF IInv, ApprovalInv, IssuedInv
  <2>4. req[b].core = req[r].core /\ req[r].core \in up
    BY <2>1, <2>2, <2>3 DEF BindingOf, LiveInv
  <2>5. a # b
    BY <2>4
  <2>6. receipts' = [receipts EXCEPT ![b].status = "consumed", ![b].consumed = at[r]]
    BY <1>2 DEF Spend
  <2> HIDE DEF b
  <2>7. QED BY <2>5, <2>6 DEF IInv, TypeOK
<1>3. QED
  BY <1>1, <1>2 DEF Consume, Goto

\* "Every outstanding receipt must fail closed after restart": the key a receipt is bound
\* with lives as long as its process (sentinel/approval.py), and no step spends a receipt
\* after that.
THEOREM RestartVoidsReceipts == Spec => DeadKeysSpendNothing
<1> DEFINE Dead == \A a \in Request :
                       (receipts[a] # None /\ req[a].core \notin up) =>
                           (receipts'[a].status = "consumed" => receipts[a].status = "consumed")
<1>1. Init => LiveInv
  BY DEF Init, LiveInv, InFlight
<1>2. IInv /\ LiveInv /\ [Next]_vars => Dead
  <2> SUFFICES ASSUME IInv, LiveInv, [Next]_vars,
                      NEW a \in Request, receipts[a] # None, req[a].core \notin up,
                      receipts'[a].status = "consumed"
               PROVE  receipts[a].status = "consumed"
    OBVIOUS
  <2>1. ASSUME NEW r \in Request, Consume(r) PROVE receipts[a].status = "consumed"
    BY <2>1, OnlyLiveKeysSpend
  <2>2. ASSUME NEW r \in Request, Challenge(r) PROVE receipts[a].status = "consumed"
    <3>1. receipts[r] = None
      BY <2>2 DEF Challenge, Conclude, Goto, IInv, ApprovalInv, OpenedInv
    <3>2. receipts'[a] = receipts[a]
      BY <2>2, <3>1 DEF Challenge, IInv, TypeOK
    <3>3. QED BY <3>2
  <2>3. ASSUME NEW g \in grants, Grant(g) PROVE receipts[a].status = "consumed"
    <3>1. g.receipt \in Request
      BY <2>3 DEF IInv, TypeOK, GrantCall
    <3>2. \/ receipts'[a] = receipts[a]
          \/ a = g.receipt /\ receipts' = [receipts EXCEPT ![a].status = "approved",
                                                          ![a].approved = g.at]
      BY <2>3, <3>1 DEF Grant, IInv, TypeOK
    <3>3. receipts[a] \in Receipt
      BY DEF IInv, TypeOK
    <3>4. QED BY <3>2, <3>3 DEF IInv, TypeOK, Receipt
  <2>4. CASE UNCHANGED receipts
    BY <2>4
  <2>5. QED
    BY <2>1, <2>2, <2>3, <2>4 DEF Next, Serve, Open, OpenFails, Resolve, Lookup, Invoke,
       Return, Close, CloseFails, Answer, Cancel, AskGrant, Crash, Tick, vars
<1>3. QED
  BY Inductive, LivePreserved, <1>1, <1>2, PTL DEF Spec, DeadKeysSpendNothing, Dead

-------------------------------------------------------------------------------
(* Chat and approvals *)

ChatReplies == {"success", "unsuccessful"} \cup ChatStatusCodes

\* ChatHasNoApprovals, and what an execution for chat is about to reply.
ChatInv ==
    \A r \in Request : (req[r] # None /\ req[r].caller = "chat") =>
        /\ receipts[r] = None
        /\ pc[r] \in {"close", "answer"} => verdict[r] \in ChatReplies
        /\ reply[r] \in ChatReplies \cup {None}

FromChat(r) == req[r] # None /\ req[r].caller = "chat"

\* A step of an execution that is under way; one for chat concludes with something chat
\* can be told.
LEMMA MoveKeepsChat ==
    ASSUME IInv, ChatInv, NEW r \in Request, UNCHANGED <<req, reply>>,
           \A s \in Request \ {r} : pc'[s] = pc[s] /\ verdict'[s] = verdict[s],
           FromChat(r) => (pc'[r] \in {"close", "answer"} => verdict'[r] \in ChatReplies),
           \A s \in Request : FromChat(s) => receipts'[s] = receipts[s]
    PROVE  ChatInv'
BY DEF ChatInv, FromChat, ChatReplies, ChatStatusCodes

\* Only the direct API comes to Sentinel's receipts, and only it has any.
LEMMA ReceiptStepsSpareChat ==
    ASSUME IInv, ChatInv, NEW r \in Request, Challenge(r) \/ Lookup(r) \/ Consume(r)
    PROVE  /\ ~FromChat(r)
           /\ \A s \in Request : FromChat(s) => receipts'[s] = receipts[s]
<1>1. req[r].caller = "tools" /\ pc[r] \in {"challenge", "lookup", "consume"}
  BY DEF Challenge, Lookup, Consume, Conclude, Goto, IInv, ApprovalInv, AskedInv
<1>2. ~FromChat(r)
  BY <1>1 DEF FromChat
<1>3. ASSUME NEW s \in Request, FromChat(s) PROVE receipts'[s] = receipts[s]
  <2>1. CASE Challenge(r)
    BY <2>1, <1>2, <1>3 DEF Challenge, IInv, TypeOK
  <2>2. CASE Lookup(r)
    BY <2>2 DEF Lookup
  <2>3. CASE Consume(r) /\ ~UNCHANGED receipts
    <3> DEFINE b == req[r].approval
    <3>1. receipts[b] # None
          /\ receipts' = [receipts EXCEPT ![b].status = "consumed", ![b].consumed = at[r]]
      BY <2>3 DEF Consume, Spendable, Spend
    <3>2. receipts[s] = None
      BY <1>3 DEF ChatInv, FromChat
    <3> HIDE DEF b
    <3>3. QED BY <3>1, <3>2 DEF IInv, TypeOK
  <2>4. QED BY <2>1, <2>2, <2>3
<1>4. QED BY <1>2, <1>3

LEMMA ChatPreserved == IInv /\ EvidenceInv /\ ChatInv /\ [Next]_vars => ChatInv'
<1> SUFFICES ASSUME IInv, EvidenceInv, ChatInv, [Next]_vars PROVE ChatInv'
  OBVIOUS
<1>0. ChatReplies = {"success", "unsuccessful", "tool_not_found", "tool_invalid_arguments",
         "tool_approval_required", "tool_denied", "tool_execution_failed",
         "sentinel_authorization_failed", "tool_internal_error"}
  BY DEF ChatReplies, ChatStatusCodes
<1>1. ASSUME NEW r \in Request, Open(r) \/ OpenFails(r) PROVE ChatInv'
  <2>1. pc[r] = "idle" /\ receipts[r] = None
    BY <1>1 DEF Open, OpenFails, Goto, IInv, ApprovalInv, OpenedInv
  <2>2. /\ pc'[r] \notin {"close", "answer"} /\ UNCHANGED <<verdict, receipts>>
        /\ \A s \in Request \ {r} : pc'[s] = pc[s] /\ req'[s] = req[s] /\ reply'[s] = reply[s]
    BY <1>1 DEF Open, OpenFails, Goto, IInv, TypeOK
  <2>3. reply'[r] \in ChatReplies \cup {None}
    <3>1. reply'[r] = reply[r] \/ reply'[r] = "tool_internal_error"
      BY <1>1 DEF Open, OpenFails, IInv, TypeOK
    <3>2. reply[r] = None
      BY <2>1 DEF EvidenceInv
    <3>3. QED BY <1>0, <3>1, <3>2
  <2>4. QED BY <2>1, <2>2, <2>3 DEF ChatInv
<1>2. ASSUME NEW r \in Request, Resolve(r) PROVE ChatInv'
  <2>1. UNCHANGED <<req, reply, receipts>>
    BY <1>2 DEF Resolve
  <2>2. \A s \in Request \ {r} : pc'[s] = pc[s] /\ verdict'[s] = verdict[s]
    BY <1>2 DEF Resolve, NotFound, Invalid, SentinelFails, Allow, Deny, Ask,
       Conclude, Goto, IInv, TypeOK
  <2>3. pc'[r] \in {"close", "answer"} => verdict'[r] \in ChatReplies
    BY <1>2, <1>0 DEF Resolve, NotFound, Invalid, SentinelFails, Allow, Deny, Ask,
       Conclude, Goto, IInv, TypeOK
  <2>4. QED BY <2>1, <2>2, <2>3, MoveKeepsChat
<1>3. ASSUME NEW r \in Request, Challenge(r) \/ Lookup(r) \/ Consume(r) PROVE ChatInv'
  <2>1. /\ UNCHANGED <<req, reply>>
        /\ \A s \in Request \ {r} : pc'[s] = pc[s] /\ verdict'[s] = verdict[s]
    BY <1>3 DEF Challenge, Lookup, Consume, Conclude, Goto, IInv, TypeOK
  <2>2. QED BY <1>3, <2>1, ReceiptStepsSpareChat, MoveKeepsChat
<1>4. ASSUME NEW r \in Request, Invoke(r) \/ Return(r) PROVE ChatInv'
  <2>1. UNCHANGED <<req, reply, receipts>>
    BY <1>4 DEF Invoke, Return
  <2>2. \A s \in Request \ {r} : pc'[s] = pc[s] /\ verdict'[s] = verdict[s]
    BY <1>4 DEF Invoke, Return, Conclude, Goto, IInv, TypeOK
  <2>3. pc'[r] \in {"close", "answer"} => verdict'[r] \in ChatReplies
    BY <1>4, <1>0 DEF Invoke, Return, Conclude, Goto, IInv, TypeOK
  <2>4. QED BY <2>1, <2>2, <2>3, MoveKeepsChat
<1>5. ASSUME NEW r \in Request, Close(r) \/ CloseFails(r) PROVE ChatInv'
  <2>1. pc[r] = "close" /\ UNCHANGED <<req, reply, receipts>>
    BY <1>5 DEF Close, CloseFails, Goto
  <2>2. \A s \in Request \ {r} : pc'[s] = pc[s] /\ verdict'[s] = verdict[s]
    BY <1>5 DEF Close, CloseFails, Goto, IInv, TypeOK
  <2>3. FromChat(r) => verdict'[r] \in ChatReplies
    BY <1>5, <1>0, <2>1 DEF Close, CloseFails, ChatInv, FromChat, IInv, TypeOK
  <2>4. QED BY <2>1, <2>2, <2>3, MoveKeepsChat
<1>6. ASSUME NEW r \in Request, Answer(r) \/ Cancel(r) PROVE ChatInv'
  <2>1. UNCHANGED <<req, receipts>> /\ pc'[r] \in {"done", "lost"}
    BY <1>6 DEF Cancel, Answer, Goto, IInv, TypeOK
  <2>2. \A s \in Request \ {r} :
            pc'[s] = pc[s] /\ verdict'[s] = verdict[s] /\ reply'[s] = reply[s]
    BY <1>6 DEF Cancel, Answer, Goto, Unwind, IInv, TypeOK
  <2>3. FromChat(r) => reply'[r] \in ChatReplies \cup {None}
    <3>1. \/ reply'[r] = reply[r]
          \/ pc[r] = "answer" /\ reply'[r] = verdict[r]
      BY <1>6 DEF Cancel, Answer, Goto, IInv, TypeOK
    <3>2. QED BY <3>1 DEF ChatInv, FromChat
  <2>4. QED BY <2>1, <2>2, <2>3 DEF ChatInv, FromChat
<1>7. ASSUME NEW c \in Core, Crash(c) PROVE ChatInv'
  <2>1. /\ UNCHANGED <<req, receipts, reply>>
        /\ \A s \in Request : pc'[s] \in {"close", "answer"} =>
               pc'[s] = pc[s] /\ verdict'[s] = verdict[s]
    BY <1>7 DEF Crash, Unwind
  <2>2. QED BY <2>1 DEF ChatInv
<1>8. ASSUME NEW g \in grants, Grant(g) PROVE ChatInv'
  <2>1. /\ UNCHANGED <<req, pc, verdict, reply>>
        /\ \A s \in Request : receipts[s] = None => receipts'[s] = None
    BY <1>8 DEF Grant, Grantable, IInv, TypeOK
  <2>2. QED BY <2>1 DEF ChatInv
<1>9. CASE UNCHANGED <<req, pc, verdict, reply, receipts>>
  BY <1>9 DEF ChatInv
<1>10. QED
  BY <1>1, <1>2, <1>3, <1>4, <1>5, <1>6, <1>7, <1>8, <1>9
     DEF Next, Serve, AskGrant, Tick, vars

\* Chat gains no approval capability (execute with allow_approval off, and the status table
\* of api/routes/chat.py): it never owns a receipt, and every error it can be told has an
\* entry in that table.
THEOREM ChatIsWithoutApprovals == Spec => []ChatHasNoApprovals
<1>1. Init => ChatInv
  BY DEF Init, ChatInv
<1>2. ChatInv => ChatHasNoApprovals
  BY DEF ChatInv, ChatHasNoApprovals, ChatReplies
<1>3. QED
  BY Inductive, EvidenceInductive, ChatPreserved, <1>1, <1>2, PTL DEF Spec

-------------------------------------------------------------------------------
(* No receipt is burnt for nothing *)

\* r is what receipt a was spent on: it presented a, is the request a was issued for, and
\* has run, is about to, or was interrupted.
SpentOn(a, r) ==
    /\ req[r] # None /\ req[r].approval = a
    /\ SameRequest(req[a], req[r])
    /\ r \in ran \/ pc[r] \in {"invoke", "lost"}

\* A request does not change once it has arrived.
LEMMA RequestsStay ==
    ASSUME IInv, [Next]_vars, NEW s \in Request, pc[s] # "idle"
    PROVE  req'[s] = req[s]
<1>1. ASSUME NEW q \in Request, Open(q) \/ OpenFails(q) PROVE req'[s] = req[s]
  <2>1. q # s
    BY <1>1 DEF Open, OpenFails, Goto
  <2>2. QED BY <1>1, <2>1 DEF Open, OpenFails, IInv, TypeOK
<1>2. QED
  BY <1>1 DEF Next, Serve, Resolve, Challenge, Lookup, Consume, Invoke,
     Return, Close, CloseFails, Answer, Cancel, AskGrant, Grant, Crash, Tick, vars

\* What has run has run, what is about to run does or is interrupted, and who was
\* interrupted stays so.
LEMMA SpendersStay ==
    ASSUME IInv, [Next]_vars, NEW r \in Request, r \in ran \/ pc[r] \in {"invoke", "lost"}
    PROVE  r \in ran' \/ pc'[r] \in {"invoke", "lost"}
<1>1. r \in ran => r \in ran'
  BY DEF Next, Serve, Open, OpenFails, Resolve, Challenge, Lookup, Consume, Invoke,
     Return, Close, CloseFails, Answer, Cancel, AskGrant, Grant, Crash, Tick, vars
<1>2. CASE pc[r] \in {"invoke", "lost"}
  <2>1. ASSUME NEW q \in Request, Open(q) \/ OpenFails(q) \/ Serve(q) \/ Cancel(q)
        PROVE  r \in ran' \/ pc'[r] \in {"invoke", "lost"}
    <3>1. CASE Invoke(q)
      BY <1>2, <3>1 DEF Invoke, Goto, IInv, TypeOK
    <3>2. CASE ~Invoke(q)
      <4>1. pc[q] \notin {"invoke", "lost"} /\ \A s \in Request \ {q} : pc'[s] = pc[s]
        BY <2>1, <3>2 DEF Serve, Open, OpenFails, Resolve, NotFound, Invalid, SentinelFails,
           Allow, Deny, Ask, Challenge, Lookup, Consume, Return, Close, CloseFails, Cancel,
           Answer, Conclude, Goto, IInv, TypeOK
      <4>2. QED BY <1>2, <4>1
    <3>3. QED BY <3>1, <3>2
  <2>2. ASSUME NEW c \in Core, Crash(c) PROVE pc'[r] \in {"invoke", "lost"}
    BY <1>2, <2>2 DEF Crash
  <2>3. QED
    BY <1>2, <2>1, <2>2 DEF Next, AskGrant, Grant, Tick, vars
<1>3. QED BY <1>1, <1>2

LEMMA AccountsStay ==
    IInv /\ SpentReceiptsAreAccountedFor /\ [Next]_vars => SpentReceiptsAreAccountedFor'
<1> SUFFICES ASSUME IInv, SpentReceiptsAreAccountedFor, [Next]_vars,
                    NEW a \in Request, receipts'[a] # None, receipts'[a].status = "consumed"
             PROVE  \E r \in Request : SpentOn(a, r)'
  BY DEF SpentReceiptsAreAccountedFor, SpentOn
<1>1. CASE receipts[a] # None /\ receipts[a].status = "consumed"
  <2>1. PICK r \in Request : SpentOn(a, r)
    BY <1>1 DEF SpentReceiptsAreAccountedFor, SpentOn
  <2>2. pc[a] # "idle" /\ pc[r] # "idle"
    BY <1>1, <2>1 DEF SpentOn, IInv, ApprovalInv, OpenedInv
  <2>3. req'[a] = req[a] /\ req'[r] = req[r]
    BY <2>2, RequestsStay
  <2>4. r \in ran' \/ pc'[r] \in {"invoke", "lost"}
    BY <2>1, SpendersStay DEF SpentOn
  <2>5. QED BY <2>1, <2>3, <2>4 DEF SpentOn, SameRequest
<1>2. CASE ~(receipts[a] # None /\ receipts[a].status = "consumed")
  <2>1. ASSUME NEW r \in Request, Consume(r) PROVE SpentOn(a, r)'
    <3>1. receipts'[a] # receipts[a]
      BY <1>2
    <3>2. /\ pc[r] = "consume" /\ pc' = [pc EXCEPT ![r] = "invoke"]
          /\ Spendable(r) /\ Spend(r) /\ UNCHANGED req
      BY <2>1, <3>1 DEF Consume, Goto
    <3>3. a = req[r].approval
      BY <3>1, <3>2 DEF Spend, IInv, TypeOK
    <3>4. req[r] \in RequestBody
      BY <3>2 DEF IInv, ApprovalInv, OpenedInv, TypeOK
    <3>5. receipts[a] # None /\ receipts[a].binding = BindingOf(req[r])
      BY <3>2, <3>3 DEF Spendable
    <3>6. req[a] \in RequestBody /\ BindingOf(req[a]) = BindingOf(req[r])
      BY <3>5 DEF IInv, ApprovalInv, IssuedInv, TypeOK
    <3>7. SameRequest(req[a], req[r])
      BY <3>4, <3>6, BindingIsFaithful
    <3>8. pc'[r] = "invoke" /\ req'[r] # None
      BY <3>2, <3>4, NoneIsNothing DEF IInv, TypeOK
    <3>9. QED BY <3>2, <3>3, <3>7, <3>8 DEF SpentOn, SameRequest
  <2>2. ASSUME NEW r \in Request, Challenge(r) PROVE FALSE
    <3>1. receipts'[r] = receipts[r] \/ receipts'[r].status = "pending"
      BY <2>2 DEF Challenge, IInv, TypeOK
    <3>2. \A s \in Request \ {r} : receipts'[s] = receipts[s]
      BY <2>2 DEF Challenge, IInv, TypeOK
    <3>3. QED BY <1>2, <3>1, <3>2
  <2>3. ASSUME NEW g \in grants, Grant(g) PROVE FALSE
    <3>1. g.receipt \in Request
      BY <2>3 DEF IInv, TypeOK, GrantCall
    <3>2. \/ receipts'[a] = receipts[a]
          \/ /\ a = g.receipt /\ receipts[a] # None
             /\ receipts' = [receipts EXCEPT ![a].status = "approved", ![a].approved = g.at]
      BY <2>3, <3>1 DEF Grant, Grantable, IInv, TypeOK
    <3>3. receipts[a] # None => receipts[a] \in Receipt
      BY DEF IInv, TypeOK
    <3>4. QED BY <1>2, <3>2, <3>3 DEF IInv, TypeOK, Receipt
  <2>4. CASE UNCHANGED receipts
    BY <1>2, <2>4
  <2>5. QED
    BY <2>1, <2>2, <2>3, <2>4 DEF Next, Serve, Open, OpenFails, Resolve, Lookup, Invoke,
       Return, Close, CloseFails, Answer, Cancel, AskGrant, Crash, Tick, vars
<1>3. QED BY <1>1, <1>2

\* A receipt that consume has spent was spent on the request it was issued for, and that one
\* runs unless its process dies or its caller hangs up: the row is checked before the commit
\* and the tool called right after it (consume, execute).
THEOREM NoReceiptIsWasted == Spec => []SpentReceiptsAreAccountedFor
<1>1. Init => SpentReceiptsAreAccountedFor
  BY DEF Init, SpentReceiptsAreAccountedFor
<1>2. QED BY Inductive, AccountsStay, <1>1, PTL DEF Spec

-------------------------------------------------------------------------------
(* Answers close rows *)

Healthy == ~StoreMayFail /\ ~ClockMaySlip

\* No row was started in the future, so none is refused for its completion stamp, and
\* an execution about to reply has completed its row.
ClockInv ==
    Healthy => \A r \in Request :
        /\ audits[r] # None => audits[r].started \in Nat /\ audits[r].started <= now
        /\ pc[r] = "answer" => audits[r].outcome = OutcomeOf(verdict[r])

\* Only the two ends of _complete_audit lead to a reply, and nothing revises it.
LEMMA ConclusionsStay ==
    ASSUME IInv, [Next]_vars, NEW r \in Request, ~Close(r), ~CloseFails(r),
           pc'[r] = "answer"
    PROVE  pc[r] = "answer" /\ verdict'[r] = verdict[r]
<1>1. ASSUME NEW q \in Request, Open(q) \/ OpenFails(q) \/ Serve(q) \/ Cancel(q)
      PROVE  pc[r] = "answer" /\ verdict'[r] = verdict[r]
  <2>1. CASE q = r
    BY <1>1, <2>1 DEF Serve, Open, OpenFails, Resolve, NotFound, Invalid, SentinelFails,
       Allow, Deny, Ask, Challenge, Lookup, Consume, Invoke, Return, Cancel,
       Answer, Conclude, Goto, IInv, TypeOK
  <2>2. CASE q # r
    BY <1>1, <2>2 DEF Serve, Open, OpenFails, Resolve, NotFound, Invalid, SentinelFails,
       Allow, Deny, Ask, Challenge, Lookup, Consume, Invoke, Return, Close, CloseFails, Cancel,
       Answer, Conclude, Goto, Unwind, IInv, TypeOK
  <2>3. QED BY <2>1, <2>2
<1>2. ASSUME NEW c \in Core, Crash(c) PROVE pc[r] = "answer" /\ verdict'[r] = verdict[r]
  BY <1>2 DEF Crash, Unwind
<1>3. CASE UNCHANGED <<pc, verdict>>
  BY <1>3
<1>4. QED
  BY <1>1, <1>2, <1>3 DEF Next, AskGrant, Grant, Tick, vars

LEMMA ClosingStep ==
    IInv /\ EvidenceInv /\ ClockInv /\ AnswersCloseRows /\ [Next]_vars
        => ClockInv' /\ AnswersCloseRows'
<1> SUFFICES ASSUME IInv, EvidenceInv, ClockInv, AnswersCloseRows, [Next]_vars, Healthy
             PROVE  ClockInv' /\ AnswersCloseRows'
  BY DEF ClockInv, AnswersCloseRows, Healthy
<1>0. now \in Nat /\ now' \in Nat
  BY InductiveStep DEF IInv, TypeOK
<1>1. ASSUME NEW r \in Request, Open(r) PROVE ClockInv' /\ AnswersCloseRows'
  <2>1. /\ audits[r] = None /\ reply[r] = None /\ pc'[r] # "answer"
        /\ audits'[r].started = now /\ UNCHANGED <<now, reply, verdict>>
        /\ \A s \in Request \ {r} : audits'[s] = audits[s] /\ pc'[s] = pc[s]
    BY <1>1 DEF Open, Goto, EvidenceInv, IInv, TypeOK
  <2>2. QED BY <1>0, <2>1 DEF ClockInv, AnswersCloseRows
<1>2. ASSUME NEW r \in Request, OpenFails(r) \/ CloseFails(r) PROVE FALSE
  <2>1. CASE OpenFails(r)
    BY <2>1 DEF OpenFails, Healthy
  <2>2. CASE CloseFails(r)
    <3>1. audits[r] # None
      BY <2>2 DEF CloseFails, Goto, EvidenceInv, InFlight
    <3>2. CompletesInOrder(r)
      BY <1>0, <3>1 DEF ClockInv, Healthy, CompletesInOrder
    <3>3. QED BY <2>2, <3>2 DEF CloseFails, Healthy
  <2>3. QED BY <1>2, <2>1, <2>2
<1>3. ASSUME NEW r \in Request, Close(r) PROVE ClockInv' /\ AnswersCloseRows'
  <2>1. audits[r] \in AuditRow /\ audits[r] # None /\ reply[r] = None
    BY <1>3 DEF Close, Goto, EvidenceInv, InFlight, IInv, TypeOK
  <2>2. /\ audits'[r] # None
        /\ \A s \in Request \ {r} : audits'[s] = audits[s]
    BY <1>3, ClosedRowIsTyped, NoneIsNothing
  <2>3. /\ audits'[r].started = audits[r].started
        /\ audits'[r].outcome = OutcomeOf(verdict[r])
    BY <1>3, <2>1 DEF Close, IInv, TypeOK, AuditRow
  <2>4. /\ UNCHANGED <<now, reply, verdict>>
        /\ \A s \in Request \ {r} : pc'[s] = pc[s]
    BY <1>3 DEF Close, Goto, IInv, TypeOK
  <2>5. QED BY <2>1, <2>2, <2>3, <2>4 DEF ClockInv, AnswersCloseRows
<1>4. ASSUME NEW r \in Request, Answer(r) PROVE ClockInv' /\ AnswersCloseRows'
  <2>1. /\ UNCHANGED <<now, audits>> /\ pc[r] = "answer" /\ pc'[r] # "answer"
        /\ reply'[r] = verdict[r]
        /\ \A s \in Request \ {r} :
               pc'[s] = pc[s] /\ reply'[s] = reply[s] /\ verdict'[s] = verdict[s]
    BY <1>4 DEF Answer, Goto, Unwind, IInv, TypeOK
  <2>2. audits[r] # None /\ audits[r].outcome = OutcomeOf(verdict[r])
    BY <2>1 DEF ClockInv, EvidenceInv, InFlight
  <2>3. QED BY <2>1, <2>2 DEF ClockInv, AnswersCloseRows
<1>5. ASSUME \A r \in Request : ~Close(r) /\ ~CloseFails(r),
             UNCHANGED <<audits, reply>>, now' >= now
      PROVE  ClockInv' /\ AnswersCloseRows'
  <2>1. \A r \in Request : pc'[r] = "answer" => pc[r] = "answer" /\ verdict'[r] = verdict[r]
    BY <1>5, ConclusionsStay
  <2>2. QED BY <1>0, <1>5, <2>1 DEF ClockInv, AnswersCloseRows
<1>6. ASSUME \A r \in Request : ~Open(r) /\ ~OpenFails(r) /\ ~Close(r) /\ ~CloseFails(r) /\ ~Answer(r)
      PROVE  UNCHANGED <<audits, reply>> /\ now' >= now
  <2>1. CASE Tick
    BY <1>0, <2>1 DEF Tick, Healthy
  <2>2. CASE ~Tick
    <3>1. UNCHANGED <<now, audits, reply>>
      BY <1>6, <2>2 DEF Next, Serve, Resolve, Challenge, Lookup, Consume,
         Invoke, Return, Cancel, AskGrant, Grant, Crash, vars
    <3>2. QED BY <1>0, <3>1
  <2>3. QED BY <2>1, <2>2
<1>7. QED
  BY <1>1, <1>2, <1>3, <1>4, <1>5, <1>6

\* With a store that works and a clock that is never set back, whoever gets a reply has a
\* completed row that says the same, an internal error included: only a cancellation or the
\* end of the process leaves a row open (_complete_audit, ToolAuditRecord).
THEOREM AnswersComplete == Spec => []AnswersCloseRows
<1>1. Init => ClockInv /\ AnswersCloseRows
  BY DEF Init, ClockInv, AnswersCloseRows
<1>2. QED BY Inductive, EvidenceInductive, ClosingStep, <1>1, PTL DEF Spec

-------------------------------------------------------------------------------
(* Refinement: each step is a step of ApprovalAuthority, or none at all *)

LEMMA SameReceiptsSameState == UNCHANGED receipts => UNCHANGED ReceiptState
BY DEF ReceiptState

LEMMA SameRunsSameEffects == UNCHANGED <<req, ran>> => UNCHANGED Effects
BY DEF Effects, Writes

\* Moving the status of one receipt on is one transition of its abstract state.
LEMMA StatusMovesState ==
    ASSUME IInv, NEW a \in Request, NEW row \in Receipt,
           receipts' = [receipts EXCEPT ![a] = row]
    PROVE  ReceiptState' = [ReceiptState EXCEPT ![a] = row.status]
BY NoneIsNothing DEF IInv, TypeOK, ReceiptState

LEMMA OpenChangesNoEffect ==
    ASSUME IInv, NEW r \in Request, Open(r) \/ OpenFails(r)
    PROVE  UNCHANGED <<ReceiptState, Effects>>
<1>1. UNCHANGED <<ran, receipts>> /\ r \notin ran
      /\ \A s \in Request \ {r} : req'[s] = req[s]
  BY DEF Open, OpenFails, Goto, IInv, ApprovalInv, OpenedInv, TypeOK
<1>2. ran \subseteq Request
  BY DEF IInv, TypeOK
<1>3. \A s \in ran : req'[s] = req[s]
  BY <1>1, <1>2
<1>4. Writes' = Writes
  BY <1>1, <1>3 DEF Writes
<1>5. \A s \in Writes : req'[s].approval = req[s].approval
  BY <1>3 DEF Writes
<1>6. Effects' = Effects
  BY <1>4, <1>5 DEF Effects
<1>7. QED BY <1>1, <1>6, SameReceiptsSameState

LEMMA ChallengeIssues ==
    ASSUME IInv, NEW r \in Request, Challenge(r)
    PROVE  Authority!Issue(r) \/ UNCHANGED <<ReceiptState, Effects>>
<1>1. UNCHANGED Effects
  BY SameRunsSameEffects DEF Challenge
<1>2. CASE UNCHANGED receipts
  BY <1>1, <1>2, SameReceiptsSameState
<1>3. CASE receipts' = [receipts EXCEPT ![r] =
                 [binding |-> BindingOf(req[r]), status |-> "pending",
                  created |-> at[r], expires |-> at[r] + Lifetime,
                  approved |-> None, consumed |-> None]]
  <2> DEFINE row == [binding |-> BindingOf(req[r]), status |-> "pending",
                     created |-> at[r], expires |-> at[r] + Lifetime,
                     approved |-> None, consumed |-> None]
  <2>1. req[r] \in RequestBody /\ at[r] \in Nat /\ receipts[r] = None
    BY DEF Challenge, Conclude, Goto, IInv, ApprovalInv, OpenedInv, AskedInv, TypeOK
  <2>2. row \in Receipt /\ row.status = "pending"
    BY <2>1, BindingIsFaithful, ConstantsOK DEF Receipt
  <2>3. receipts' = [receipts EXCEPT ![r] = row]
    BY <1>3
  <2> HIDE DEF row
  <2>4. ReceiptState' = [ReceiptState EXCEPT ![r] = "pending"]
    BY <2>2, <2>3, StatusMovesState
  <2>5. ReceiptState[r] = "absent"
    BY <2>1 DEF ReceiptState
  <2>6. QED BY <1>1, <2>4, <2>5 DEF Authority!Issue, Authority!Advance
<1>4. QED BY <1>2, <1>3 DEF Challenge

LEMMA GrantGrants ==
    ASSUME IInv, NEW g \in grants, Grant(g)
    PROVE  \/ \E a \in Request : Authority!Grant(a)
           \/ UNCHANGED <<ReceiptState, Effects>>
<1> DEFINE a == g.receipt
           row == [receipts[a] EXCEPT !.status = "approved", !.approved = g.at]
<1>1. UNCHANGED Effects
  BY SameRunsSameEffects DEF Grant
<1>2. CASE UNCHANGED receipts
  BY <1>1, <1>2, SameReceiptsSameState
<1>3. CASE Grantable(g) /\ receipts' = [receipts EXCEPT ![a] = row]
  <2>1. a \in Request /\ g.at \in Nat
    BY DEF IInv, TypeOK, GrantCall
  <2>2. receipts[a] \in Receipt /\ receipts[a].status = "pending" /\ receipts[a] # None
    BY <1>3, <2>1 DEF Grantable, IInv, TypeOK
  <2>3. row \in Receipt /\ row.status = "approved"
    BY <2>1, <2>2 DEF Receipt
  <2> HIDE DEF row
  <2>4. ReceiptState' = [ReceiptState EXCEPT ![a] = "approved"]
    BY <1>3, <2>1, <2>3, StatusMovesState
  <2>5. ReceiptState[a] = "pending"
    BY <2>1, <2>2 DEF ReceiptState
  <2>6. QED BY <1>1, <2>1, <2>4, <2>5 DEF Authority!Grant, Authority!Advance
<1>4. QED BY <1>2, <1>3 DEF Grant

LEMMA ConsumeSpends ==
    ASSUME IInv, NEW r \in Request, Consume(r)
    PROVE  \/ \E a \in Request : Authority!Spend(a)
           \/ UNCHANGED <<ReceiptState, Effects>>
<1> DEFINE a == req[r].approval
           row == [receipts[a] EXCEPT !.status = "consumed", !.consumed = at[r]]
<1>1. UNCHANGED Effects
  BY SameRunsSameEffects DEF Consume
<1>2. CASE UNCHANGED receipts
  BY <1>1, <1>2, SameReceiptsSameState
<1>3. CASE Spendable(r) /\ Spend(r)
  <2>1. a \in Request /\ at[r] \in Nat
    <3>1. pc[r] = "consume"
      BY DEF Consume, Goto, Conclude
    <3>2. QED BY <3>1 DEF IInv, ApprovalInv, OpenedInv, AskedInv, TypeOK, RequestBody
  <2>2. receipts[a] \in Receipt /\ receipts[a].status = "approved" /\ receipts[a] # None
    BY <1>3, <2>1 DEF Spendable, IInv, TypeOK
  <2>3. row \in Receipt /\ row.status = "consumed"
    BY <2>1, <2>2 DEF Receipt
  <2>4. receipts' = [receipts EXCEPT ![a] = row]
    BY <1>3 DEF Spend
  <2> HIDE DEF row
  <2>5. ReceiptState' = [ReceiptState EXCEPT ![a] = "consumed"]
    BY <2>1, <2>3, <2>4, StatusMovesState
  <2>6. ReceiptState[a] = "approved"
    BY <2>1, <2>2 DEF ReceiptState
  <2>7. QED BY <1>1, <2>1, <2>5, <2>6 DEF Authority!Spend, Authority!Advance
<1>4. QED BY <1>2, <1>3 DEF Consume

\* The tool of a write request takes effect on the authority of the receipt it
\* presented, and nothing has taken effect on it before.
LEMMA InvokeTakesEffect ==
    ASSUME IInv, NEW r \in Request, Invoke(r)
    PROVE  \/ \E a \in Request : Authority!TakeEffect(a, r)
           \/ UNCHANGED <<ReceiptState, Effects>>
<1> DEFINE a == req[r].approval
<1>1. ReceiptState' = ReceiptState
  BY SameReceiptsSameState DEF Invoke
<1>2. pc[r] = "invoke" /\ ran' = ran \cup {r} /\ UNCHANGED req
  BY DEF Invoke, Goto
<1>3. CASE Level[req[r].tool] \in {"none", "read"}
  <2>1. Writes' = Writes
    BY <1>2, <1>3 DEF Writes
  <2>2. Effects' = Effects
    BY <1>2, <2>1 DEF Effects
  <2>3. QED BY <1>1, <2>2
<1>4. CASE Level[req[r].tool] \notin {"none", "read"}
  <2>1. PaidFor(r)
    BY <1>2, <1>4 DEF PaidFor
  <2>2. a \in Request /\ receipts[a] # None /\ receipts[a].status = "consumed"
    BY <1>2, <2>1 DEF IInv, ApprovalInv, PaidInv, OpenedInv, TypeOK, RequestBody
  <2>3. ReceiptState[a] = "consumed"
    BY <2>2 DEF ReceiptState
  <2>4. r \notin ran
    BY <1>2 DEF IInv, ApprovalInv, OpenedInv
  <2>5. ASSUME NEW s \in Writes PROVE req[s].approval # a
    <3>1. PaidFor(s) /\ s \in Request /\ s # r
      BY <2>4, <2>5 DEF Writes, PaidFor, IInv, TypeOK
    <3>2. QED BY <2>1, <3>1 DEF IInv, ApprovalInv, PaidInv
  <2>6. Effects[a] = {}
    BY <2>2, <2>5 DEF Effects
  <2>7. Writes' = Writes \cup {r}
    BY <1>2, <1>4 DEF Writes
  <2>8. Effects' = [Effects EXCEPT ![a] = {r}]
    BY <1>2, <2>2, <2>5, <2>7 DEF Effects
  <2>9. QED BY <1>1, <2>2, <2>3, <2>6, <2>8 DEF Authority!TakeEffect
<1>5. QED BY <1>3, <1>4

\* The coordinator implements one-shot authority: whatever the number of processes,
\* requests, crashes and clock corrections, receipts go absent, pending, approved,
\* consumed, and only a consumed one is the authority for an effect, once.
THEOREM FabricImplementsAuthority == Spec => ImplementsAuthority
<1>1. Init => Authority!Init
  BY DEF Init, Authority!Init, ReceiptState, Effects, Writes
<1>2. IInv /\ [Next]_vars => [Authority!Next]_<<ReceiptState, Effects>>
  <2> SUFFICES ASSUME IInv, [Next]_vars
               PROVE  Authority!Next \/ UNCHANGED <<ReceiptState, Effects>>
    OBVIOUS
  <2>1. ASSUME NEW r \in Request, Open(r) \/ OpenFails(r)
        PROVE  UNCHANGED <<ReceiptState, Effects>>
    BY <2>1, OpenChangesNoEffect
  <2>2. ASSUME NEW r \in Request, Challenge(r)
        PROVE  Authority!Next \/ UNCHANGED <<ReceiptState, Effects>>
    BY <2>2, ChallengeIssues DEF Authority!Next
  <2>3. ASSUME NEW r \in Request, Consume(r)
        PROVE  Authority!Next \/ UNCHANGED <<ReceiptState, Effects>>
    BY <2>3, ConsumeSpends DEF Authority!Next
  <2>4. ASSUME NEW r \in Request, Invoke(r)
        PROVE  Authority!Next \/ UNCHANGED <<ReceiptState, Effects>>
    BY <2>4, InvokeTakesEffect DEF Authority!Next
  <2>5. ASSUME NEW g \in grants, Grant(g)
        PROVE  Authority!Next \/ UNCHANGED <<ReceiptState, Effects>>
    BY <2>5, GrantGrants DEF Authority!Next
  <2>6. ASSUME NEW r \in Request,
               \/ Resolve(r) \/ Lookup(r) \/ Return(r)
               \/ Close(r) \/ CloseFails(r) \/ Answer(r) \/ Cancel(r)
        PROVE  UNCHANGED <<ReceiptState, Effects>>
    <3>1. UNCHANGED <<req, ran, receipts>>
      BY <2>6 DEF Resolve, Lookup, Return, Close, CloseFails, Answer, Cancel
    <3>2. QED BY <3>1, SameReceiptsSameState, SameRunsSameEffects
  <2>7. ASSUME \/ \E c \in Core : Crash(c)
               \/ \E a \in Request, c \in Core : AskGrant(a, c)
               \/ Tick \/ UNCHANGED vars
        PROVE  UNCHANGED <<ReceiptState, Effects>>
    <3>1. UNCHANGED <<req, ran, receipts>>
      BY <2>7 DEF Crash, AskGrant, Tick, vars
    <3>2. QED BY <3>1, SameReceiptsSameState, SameRunsSameEffects
  <2>8. QED
    BY <2>1, <2>2, <2>3, <2>4, <2>5, <2>6, <2>7 DEF Next, Serve
<1>3. QED
  BY Inductive, <1>1, <1>2, PTL DEF Spec, ImplementsAuthority, Authority!Spec

===============================================================================
