------------------------------ MODULE ToolFabric ------------------------------
(***************************************************************************)
(* The safe execution path of the Tool Fabric: every tool request goes     *)
(* through ToolExecutionCoordinator.execute, which writes an audit row,    *)
(* resolves and validates, asks Sentinel, spends an approval receipt when  *)
(* the decision is ASK, runs the tool and completes the audit row.         *)
(*                                                                         *)
(* The steps of a request are the stretches between two points where       *)
(* something else may happen: an await, or a transaction of the shared     *)
(* SQLite file.  A Core process runs many requests on one event loop and   *)
(* any number of Core processes may be pointed at the same file, one after *)
(* the other (restarts) or side by side, so the steps of all requests      *)
(* interleave freely; within one process this allows more orders than the  *)
(* event loop does, and never fewer.                                       *)
(*                                                                         *)
(* A Core process is identified with the HMAC key it drew when it started  *)
(* (ToolApprovalBindingService), and the digest of a request with the      *)
(* record of what is signed: HMAC-SHA256 is taken to be injective.         *)
(***************************************************************************)
EXTENDS Naturals, FiniteSets

CONSTANTS
    Request,        \* executions; r also names the audit row and the receipt r creates
    Caller,         \* routes in use: "tools" (api/routes/tools.py), "chat"
    Core,           \* Core process instances, each with its own HMAC key
    Tool,           \* tool names clients ask for
    Level,          \* side-effect level of each name, or "unregistered"
    Args,           \* argument payloads clients send
    Canon,          \* canonical JSON of a payload, or "invalid" / "nan"
    Lifetime,       \* APPROVAL_LIFETIME, in clock ticks
    MaxTime,        \* bound: the last clock tick
    MaxGrants,      \* bound: grant calls in progress at a time
    ClockMaySlip,   \* the wall clock may be set back
    StoreMayFail,   \* SQLite operations may fail
    None            \* Python's None

ASSUME ConstantsOK ==
    /\ Caller \subseteq {"tools", "chat"}
    /\ Level \in [Tool -> {"none", "read", "write", "dangerous", "unregistered"}]
    /\ Args = DOMAIN Canon
    /\ Lifetime \in Nat \ {0}
    /\ MaxTime \in Nat
    /\ MaxGrants \in Nat
    /\ ClockMaySlip \in BOOLEAN
    /\ StoreMayFail \in BOOLEAN
    /\ None \notin Nat
    /\ None \notin Request

VARIABLES
    now,        \* the wall clock, datetime.now(UTC)
    up,         \* Core processes that have not died
    req,        \* the request each execution serves, None before it opens
    pc,         \* where each execution is
    decision,   \* Sentinel's decision, a local of execute
    at,         \* the `now` of _resolve_direct_approval, a local
    verdict,    \* the result or error code the execution is about to report
    reply,      \* what the caller was told
    ran,        \* history: the executions whose tool was invoked
    audits,     \* table tool_execution_audits
    receipts,   \* table tool_approvals
    grants      \* calls of the grant endpoint that have read the clock

vars == <<now, up, req, pc, decision, at, verdict, reply, ran, audits, receipts, grants>>

-------------------------------------------------------------------------------
(* Values *)

Form == {Canon[a] : a \in Args}

\* The request body, with the correlation ID already resolved (the caller's,
\* or a fresh one, named after the execution), and the route it came by.
RequestBody == [core : Core, caller : Caller, tool : Tool, args : Args,
                corr : Request, approval : Request \cup {None}]

\* A call of the grant endpoint in progress, with the clock reading it will stamp.
GrantCall == [receipt : Request, core : Core, at : Nat]

Refusal == {"tool_not_found", "tool_invalid_arguments", "tool_denied",
            "tool_approval_required", "tool_approval_expired",
            "tool_approval_invalid", "sentinel_authorization_failed"}

ErrorCode == Refusal \cup {"tool_execution_failed", "tool_internal_error"}

\* "success" and "unsuccessful" are a ToolResult with success True and False.
Verdict == ErrorCode \cup {"success", "unsuccessful"}

Decision == {"allow", "ask", "deny"}

\* Slip: internal errors filed as tool failures.
OutcomeBlamesTool(v) == IF v = "success" THEN "succeeded" ELSE "tool_failed"

\* _audit_outcome_for, and the outcome of a returned ToolResult.
OutcomeOf(v) ==
    CASE v = "success"                       -> "succeeded"
      [] v = "unsuccessful"                  -> "tool_failed"
      [] v = "tool_execution_failed"         -> "tool_failed"
      [] v = "tool_not_found"                -> "tool_not_found"
      [] v = "tool_invalid_arguments"        -> "invalid_arguments"
      [] v = "tool_approval_required"        -> "approval_required"
      [] v = "tool_approval_expired"         -> "approval_expired"
      [] v = "tool_approval_invalid"         -> "approval_invalid"
      [] v = "tool_denied"                   -> "denied"
      [] v = "sentinel_authorization_failed" -> "authorization_failed"
      [] OTHER                               -> "internal_failure"

CodeOf(v) == CASE v = "success"      -> None
               [] v = "unsuccessful" -> "tool_execution_failed"
               [] OTHER              -> v

Outcome == {"started"} \cup {OutcomeOf(v) : v \in Verdict}

AuditRow == [corr : Request, tool : Tool,
             level : {"none", "read", "write", "dangerous", None},
             decision : Decision \cup {None}, outcome : Outcome,
             code : ErrorCode \cup {None},
             started : Nat, completed : Nat \cup {None}]

Binding == [core : Core, corr : Request, tool : Tool, form : Form]

Receipt == [binding : Binding, status : {"pending", "approved", "consumed"},
            created : Nat, expires : Nat,
            approved : Nat \cup {None}, consumed : Nat \cup {None}]

\* Slips: the digest covers the raw payload; leaves the payload out; uses a fixed key.
BindingOfRaw(q) == [core |-> q.core, corr |-> q.corr, tool |-> q.tool, form |-> q.args]
BindingOfCall(q) == [core |-> q.core, corr |-> q.corr, tool |-> q.tool]
BindingFixedKey(q) == [corr |-> q.corr, tool |-> q.tool, form |-> Canon[q.args]]

\* compute_binding: side-effect level and boundary are those of the tool.
BindingOf(q) == [core |-> q.core, corr |-> q.corr, tool |-> q.tool,
                 form |-> Canon[q.args]]

\* DefaultSentinelPolicy.authorize
PolicyDecision(level) == CASE level \in {"none", "read"} -> "allow"
                           [] level = "write"            -> "ask"
                           [] OTHER                      -> "deny"

\* Slip: chat passes allow_approval too.
AlwaysAllowsApproval(q) == q.caller \in Caller

\* The allow_approval argument each route passes.
AllowsApproval(q) == q.caller = "tools"

\* The challenge an approval-required error carries: the receipt just created,
\* or the pending one that was presented; a chat caller never gets one.
ChallengeOf(r) == CASE ~AllowsApproval(req[r])  -> None
                    [] req[r].approval = None -> r
                    [] OTHER                  -> req[r].approval

\* Approval IDs are random UUIDs: a client knows those it was challenged with.
Disclosed == {a \in Request : \E r \in Request :
                  reply[r] = "tool_approval_required" /\ ChallengeOf(r) = a}

\* None is a value of its own.
ASSUME NoneIsNothing ==
    /\ None \notin Verdict
    /\ None \notin RequestBody
    /\ None \notin AuditRow
    /\ None \notin Receipt

InFlight(r) == pc[r] \notin {"idle", "done", "lost"}

Goto(r, from, to) == pc[r] = from /\ pc' = [pc EXCEPT ![r] = to]

\* The locals of execute go with its frame.
Unwind(R) ==
    /\ decision' = [r \in Request |-> IF r \in R THEN None ELSE decision[r]]
    /\ at' = [r \in Request |-> IF r \in R THEN None ELSE at[r]]
    /\ verdict' = [r \in Request |-> IF r \in R THEN None ELSE verdict[r]]

\* resolve and _validate_arguments succeed.
Resolves(r) == Level[req[r].tool] # "unregistered" /\ Canon[req[r].args] # "invalid"

\* ... and Sentinel answers d.
Decides(r, d) ==
    /\ Resolves(r)
    /\ PolicyDecision(Level[req[r].tool]) = d
    /\ decision' = [decision EXCEPT ![r] = d]

\* Raise an error, or return a result, from anywhere before _complete_audit.
Conclude(r, from, v) == Goto(r, from, "close") /\ verdict' = [verdict EXCEPT ![r] = v]

-------------------------------------------------------------------------------
(* One request, from its audit row to its reply *)

\* What a caller may send: any tool and payload, the correlation ID of an
\* earlier exchange or a new one, a disclosed receipt, an unknown one (the ID of
\* a receipt that r itself has yet to create), or none.
Asks(r) == [core : up, caller : Caller, tool : Tool, args : Args,
            corr : {r} \cup {req[s].corr : s \in {s \in Request : req[s] # None}},
            approval : Disclosed \cup {r, None}]

\* execute: the started row is written before anything else is looked at.
Open(r) ==
    \E q \in Asks(r) :
        /\ AllowsApproval(q) \/ q.approval = None
        /\ Goto(r, "idle", "resolve")
        /\ req' = [req EXCEPT ![r] = q]
        /\ audits' = [audits EXCEPT ![r] =
               [corr |-> q.corr, tool |-> q.tool, level |-> None,
                decision |-> None, outcome |-> "started", code |-> None,
                started |-> now, completed |-> None]]
        /\ UNCHANGED <<now, up, grants, decision, at, verdict, reply, ran, receipts>>

\* The started row could not be written: nothing else happens.
OpenFails(r) ==
    /\ StoreMayFail
    /\ \E q \in Asks(r) :
        /\ AllowsApproval(q) \/ q.approval = None
        /\ Goto(r, "idle", "done")
        /\ req' = [req EXCEPT ![r] = q]
        /\ reply' = [reply EXCEPT ![r] = "tool_internal_error"]
    /\ UNCHANGED <<now, up, grants, decision, at, verdict, ran, audits, receipts>>

\* From the committed row to the next transaction, tool call or raised error there
\* is nothing another actor could see: registry.resolve, _validate_arguments (a
\* validator of a tool's own argument model may raise something other than
\* ValidationError), Sentinel, and the branch on its decision.
NotFound(r) ==
    /\ Level[req[r].tool] = "unregistered"
    /\ Conclude(r, "resolve", "tool_not_found")
    /\ UNCHANGED <<decision, at>>

Invalid(r) ==
    /\ Level[req[r].tool] # "unregistered"
    /\ \/ Canon[req[r].args] = "invalid" /\ Conclude(r, "resolve", "tool_invalid_arguments")
       \/ Conclude(r, "resolve", "tool_internal_error")
    /\ UNCHANGED <<decision, at>>

SentinelFails(r) ==
    /\ Resolves(r)
    /\ Conclude(r, "resolve", "sentinel_authorization_failed")
    /\ UNCHANGED <<decision, at>>

Allow(r) ==
    /\ Decides(r, "allow")
    /\ Goto(r, "resolve", "invoke")
    /\ UNCHANGED <<at, verdict>>

Deny(r) ==
    /\ Decides(r, "deny")
    /\ Conclude(r, "resolve", "tool_denied")
    /\ UNCHANGED at

\* ASK with allow_approval off raises; with it on, _resolve_direct_approval begins:
\* the digest of the request, and the clock reading the rest of it uses.
Ask(r) ==
    LET q == req[r] IN
    /\ Decides(r, "ask")
    /\ \/ /\ ~AllowsApproval(q)
          /\ Conclude(r, "resolve", "tool_approval_required") /\ UNCHANGED at
       \/ /\ AllowsApproval(q) /\ Canon[q.args] = "nan"
          /\ Conclude(r, "resolve", "tool_internal_error") /\ UNCHANGED at
       \/ /\ AllowsApproval(q) /\ Canon[q.args] # "nan"
          /\ Goto(r, "resolve", IF q.approval = None THEN "challenge" ELSE "lookup")
          /\ at' = [at EXCEPT ![r] = now]
          /\ UNCHANGED verdict

Resolve(r) ==
    /\ pc[r] = "resolve"
    /\ \/ NotFound(r) \/ Invalid(r) \/ SentinelFails(r)
       \/ Allow(r) \/ Deny(r) \/ Ask(r)
    /\ UNCHANGED <<now, up, grants, req, reply, ran, audits, receipts>>

\* No receipt presented: create a pending one and ask for approval.
Challenge(r) ==
    /\ \/ /\ Conclude(r, "challenge", "tool_approval_required")
          /\ receipts' = [receipts EXCEPT ![r] =
                 [binding |-> BindingOf(req[r]), status |-> "pending",
                  created |-> at[r], expires |-> at[r] + Lifetime,
                  approved |-> None, consumed |-> None]]
       \/ /\ StoreMayFail
          /\ Conclude(r, "challenge", "tool_internal_error") /\ UNCHANGED receipts
    /\ UNCHANGED <<now, up, grants, req, decision, at, reply, ran, audits>>

\* The checks on the record `get` returned, in the order the code makes them.
LookupVerdict(r) ==
    LET row == receipts[req[r].approval] IN
    CASE row = None                          -> "tool_approval_invalid"
      [] row # None /\ at[r] >= row.expires  -> "tool_approval_expired"
      [] row # None /\ at[r] < row.expires
         /\ row.binding # BindingOf(req[r])  -> "tool_approval_invalid"
      [] row # None /\ at[r] < row.expires
         /\ row.binding = BindingOf(req[r])  ->
            CASE row.status = "pending"  -> "tool_approval_required"
              [] row.status = "consumed" -> "tool_approval_invalid"
              [] row.status = "approved" -> "usable"

\* Slip: a pending receipt is waited for.
LookupWaits(r) ==
    /\ pc[r] = "lookup"
    /\ \/ LookupVerdict(r) = "usable" /\ Goto(r, "lookup", "consume") /\ UNCHANGED verdict
       \/ /\ LookupVerdict(r) \notin {"usable", "tool_approval_required"}
          /\ Conclude(r, "lookup", LookupVerdict(r))
    /\ UNCHANGED <<now, up, grants, req, decision, at, reply, ran, audits, receipts>>

\* get, which may fail, and the checks.
Lookup(r) ==
    /\ pc[r] = "lookup"
    /\ \/ LookupVerdict(r) = "usable" /\ Goto(r, "lookup", "consume") /\ UNCHANGED verdict
       \/ LookupVerdict(r) # "usable" /\ Conclude(r, "lookup", LookupVerdict(r))
       \/ StoreMayFail /\ Conclude(r, "lookup", "tool_internal_error")
    /\ UNCHANGED <<now, up, grants, req, decision, at, reply, ran, audits, receipts>>

\* Slip: the row's status is not looked at again.
SpendableTwice(r) == receipts[req[r].approval] # None

\* What the consuming transaction finds when it reads the row again.
Spendable(r) ==
    LET row == receipts[req[r].approval] IN
    /\ row # None
    /\ at[r] < row.expires
    /\ row.status = "approved"
    /\ row.binding = BindingOf(req[r])

\* Slip: the order of the stamps is not checked.
AnyStamp(r) == receipts[req[r].approval].approved # None

\* The table's CHECK (consumed_at >= approved_at).
StampedInOrder(r) == at[r] >= receipts[req[r].approval].approved

Spend(r) == receipts' = [receipts EXCEPT ![req[r].approval].status = "consumed",
                                         ![req[r].approval].consumed = at[r]]

\* Slip: the record is validated after the commit.
ConsumeThenCheck(r) ==
    /\ pc[r] = "consume"
    /\ Spend(r)
    /\ IF StampedInOrder(r) THEN Goto(r, "consume", "invoke") /\ UNCHANGED verdict
                            ELSE Conclude(r, "consume", "tool_internal_error")
    /\ UNCHANGED <<now, up, grants, req, decision, at, reply, ran, audits>>

\* consume: the receipt is spent before the tool is called, or rolled back.
Consume(r) ==
    LET row == receipts[req[r].approval] IN
    /\ pc[r] = "consume"
    /\ \/ /\ Spendable(r) /\ StampedInOrder(r)
          /\ Goto(r, "consume", "invoke")
          /\ Spend(r) /\ UNCHANGED verdict
       \/ /\ Spendable(r) /\ ~StampedInOrder(r)
          /\ Conclude(r, "consume", "tool_internal_error") /\ UNCHANGED receipts
       \/ /\ ~Spendable(r)
          /\ Conclude(r, "consume", IF row # None /\ at[r] >= row.expires
                                    THEN "tool_approval_expired" ELSE "tool_approval_invalid")
          /\ UNCHANGED receipts
       \/ /\ StoreMayFail
          /\ Conclude(r, "consume", "tool_internal_error") /\ UNCHANGED receipts
    /\ UNCHANGED <<now, up, grants, req, decision, at, reply, ran, audits>>

\* _execute_tool: the tool's coroutine is entered ...
Invoke(r) ==
    /\ Goto(r, "invoke", "running")
    /\ ran' = ran \cup {r}
    /\ UNCHANGED <<now, up, grants, req, decision, at, verdict, reply, audits, receipts>>

\* ... and returns a result, raises, or returns something else.
Return(r) ==
    /\ \E v \in {"success", "unsuccessful", "tool_execution_failed", "tool_internal_error"} :
           Conclude(r, "running", v)
    /\ UNCHANGED <<now, up, grants, req, decision, at, reply, ran, audits, receipts>>

\* Slip: a row completed within the tick it was started in is refused.
CompletesLater(r) == now > audits[r].started

\* ToolAuditRecord: completion cannot precede the start.
CompletesInOrder(r) == now >= audits[r].started

\* _complete_audit: the completed row is committed before the caller hears of it.
Close(r) ==
    LET v == verdict[r] IN
    /\ Goto(r, "close", "answer")
    /\ CompletesInOrder(r)
    /\ audits' = [audits EXCEPT
           ![r].level = IF v = "tool_not_found" THEN None ELSE Level[req[r].tool],
           ![r].decision = decision[r], ![r].outcome = OutcomeOf(v),
           ![r].code = CodeOf(v), ![r].completed = now]
    /\ UNCHANGED <<now, up, grants, req, decision, at, verdict, reply, ran, receipts>>

\* Slip: a failure to complete the row is ignored.
CloseFailsQuietly(r) ==
    /\ Goto(r, "close", "answer")
    /\ StoreMayFail \/ ~CompletesInOrder(r)
    /\ UNCHANGED <<now, up, grants, req, decision, at, verdict, reply, ran, audits, receipts>>

\* The update failed, or its record was refused: the error replaces whatever had
\* been concluded.
CloseFails(r) ==
    /\ Goto(r, "close", "answer")
    /\ StoreMayFail \/ ~CompletesInOrder(r)
    /\ verdict' = [verdict EXCEPT ![r] = "tool_internal_error"]
    /\ UNCHANGED <<now, up, grants, req, decision, at, reply, ran, audits, receipts>>

\* execute returns the result or raises the error.
Answer(r) ==
    /\ Goto(r, "answer", "done")
    /\ reply' = [reply EXCEPT ![r] = verdict[r]]
    /\ Unwind({r})
    /\ UNCHANGED <<now, up, grants, req, ran, audits, receipts>>

Serve(r) == \/ Resolve(r) \/ Challenge(r) \/ Lookup(r) \/ Consume(r)
            \/ Invoke(r) \/ Return(r) \/ Close(r) \/ CloseFails(r) \/ Answer(r)

-------------------------------------------------------------------------------
(* The rest of the world *)

\* grant_tool_approval reads the clock before the repository opens its transaction,
\* which may have to wait for another writer.
AskGrant(a, c) ==
    /\ a \in Disclosed /\ c \in up
    /\ Cardinality(grants) < MaxGrants
    /\ grants' = grants \cup {[receipt |-> a, core |-> c, at |-> now]}
    /\ UNCHANGED <<now, up, req, pc, decision, at, verdict, reply, ran, audits, receipts>>

\* Slip: the status of the row is not looked at.
GrantableAgain(g) == g.at < receipts[g.receipt].expires

\* What the granting transaction demands of the row, the table's CHECK included.
Grantable(g) ==
    /\ receipts[g.receipt] # None
    /\ receipts[g.receipt].status = "pending"
    /\ g.at < receipts[g.receipt].expires
    /\ g.at >= receipts[g.receipt].created

\* grant: an expired or no longer pending receipt, a stamp before the creation and a
\* failing store change nothing.
Grant(g) ==
    /\ g \in grants
    /\ grants' = grants \ {g}
    /\ \/ /\ Grantable(g)
          /\ receipts' = [receipts EXCEPT ![g.receipt].status = "approved",
                                          ![g.receipt].approved = g.at]
       \/ /\ StoreMayFail \/ ~Grantable(g)
          /\ UNCHANGED receipts
    /\ UNCHANGED <<now, up, req, pc, decision, at, verdict, reply, ran, audits>>

\* CancelledError at an await bypasses both except clauses of execute.
Cancel(r) ==
    /\ pc[r] \in {"resolve", "running"}
    /\ pc' = [pc EXCEPT ![r] = "lost"]
    /\ Unwind({r})
    /\ UNCHANGED <<now, up, grants, req, reply, ran, audits, receipts>>

\* The process dies with everything it was doing; what it committed stays.
Crash(c) ==
    /\ c \in up
    /\ up' = up \ {c}
    /\ grants' = {g \in grants : g.core # c}
    /\ LET dying == {r \in Request : InFlight(r) /\ req[r].core = c} IN
       /\ pc' = [r \in Request |-> IF r \in dying THEN "lost" ELSE pc[r]]
       /\ Unwind(dying)
    /\ UNCHANGED <<now, req, reply, ran, audits, receipts>>

Tick ==
    /\ now' \in 0..MaxTime
    /\ ClockMaySlip \/ now' > now
    /\ UNCHANGED <<up, grants, req, pc, decision, at, verdict, reply, ran, audits, receipts>>

Init ==
    /\ now = 0
    /\ up = Core
    /\ req = [r \in Request |-> None]
    /\ pc = [r \in Request |-> "idle"]
    /\ decision = [r \in Request |-> None]
    /\ at = [r \in Request |-> None]
    /\ verdict = [r \in Request |-> None]
    /\ reply = [r \in Request |-> None]
    /\ ran = {}
    /\ audits = [r \in Request |-> None]
    /\ receipts = [r \in Request |-> None]
    /\ grants = {}

Next ==
    \/ \E r \in Request : Open(r) \/ OpenFails(r) \/ Serve(r) \/ Cancel(r)
    \/ \E a \in Request, c \in Core : AskGrant(a, c)
    \/ \E g \in grants : Grant(g)
    \/ \E c \in Core : Crash(c)
    \/ Tick

Spec == Init /\ [][Next]_vars

\* The event loop keeps running what it has started and a tool returns; nobody
\* has to send a request, grant a receipt, cancel or crash.
FairSpec == Spec /\ \A r \in Request : WF_vars(Serve(r))

-------------------------------------------------------------------------------
(* Properties *)

Step == {"idle", "resolve", "challenge", "lookup", "consume",
         "invoke", "running", "close", "answer", "done", "lost"}

\* Every variable keeps its type.
TypeOK ==
    /\ now \in Nat
    /\ up \subseteq Core
    /\ req \in [Request -> RequestBody \cup {None}]
    /\ pc \in [Request -> Step]
    /\ decision \in [Request -> Decision \cup {None}]
    /\ at \in [Request -> Nat \cup {None}]
    /\ verdict \in [Request -> Verdict \cup {None}]
    /\ reply \in [Request -> Verdict \cup {None}]
    /\ ran \subseteq Request
    /\ audits \in [Request -> AuditRow \cup {None}]
    /\ receipts \in [Request -> Receipt \cup {None}]
    /\ grants \subseteq GrantCall

\* The executions that needed a receipt: their tool is not merely reading.
Writes == {r \in ran : Level[req[r].tool] \notin {"none", "read"}}

\* What a receipt must have in common with the request that presents it.
SameRequest(p, q) ==
    /\ p.core = q.core /\ p.corr = q.corr /\ p.tool = q.tool
    /\ Canon[p.args] = Canon[q.args]

\* A tool that is not read-only has run only if it is a write tool, the request
\* came through the direct API and it presented a receipt that this very process
\* issued for this very request, that was granted, and that was spent inside its
\* lifetime by a clock reading no earlier than the grant (execute lines 128-165,
\* _resolve_direct_approval, consume).
WritesWereApproved ==
    \A r \in Writes :
        /\ Level[req[r].tool] = "write"
        /\ req[r].caller = "tools"
        /\ req[r].approval # None
        /\ LET row == receipts[req[r].approval] IN
           /\ row # None
           /\ row.status = "consumed"
           /\ SameRequest(req[req[r].approval], req[r])
           /\ row.created <= row.approved
           /\ row.approved <= row.consumed
           /\ row.consumed < row.expires

\* A receipt pays for one execution, however many requests present it and
\* however their steps interleave (get and consume are separate transactions).
OneExecutionPerReceipt ==
    \A r, s \in Writes : req[r].approval = req[s].approval => r = s

\* The evidence never contradicts the effects: a tool that ran has a row, that row
\* is not a refusal, and a row says succeeded or tool_failed only of a tool that ran.
EvidenceIsHonest ==
    /\ \A r \in ran :
        /\ audits[r] # None
        /\ audits[r].outcome \in {"started", "succeeded", "tool_failed", "internal_failure"}
    /\ \A r \in Request :
        (audits[r] # None /\ audits[r].outcome \in {"succeeded", "tool_failed"}) => r \in ran

\* A caller is told a result, or any error but the internal one, only when the
\* completed row already says the same: the update of line 188, 213 or 169 is
\* committed before execute returns or raises, and its failure replaces whatever
\* had been concluded.
RepliesAreOnRecord ==
    \A r \in Request : (reply[r] \notin {None, "tool_internal_error"}) =>
        /\ audits[r] # None
        /\ audits[r].outcome = OutcomeOf(reply[r])
        /\ audits[r].code = CodeOf(reply[r])
        /\ audits[r].completed # None

\* With a healthy store and a clock that does not go back, every reply leaves a
\* completed row: only a crash or a cancellation may leave one open.
AnswersCloseRows ==
    (~StoreMayFail /\ ~ClockMaySlip) =>
        \A r \in Request : reply[r] # None =>
            audits[r] # None /\ audits[r].outcome = OutcomeOf(reply[r])

\* A receipt is never burnt for nothing: a consumed one was presented by a request
\* it is bound to that ran, is about to run, or was interrupted.
SpentReceiptsAreAccountedFor ==
    \A a \in Request : (receipts[a] # None /\ receipts[a].status = "consumed") =>
        \E r \in Request :
            /\ req[r] # None /\ req[r].approval = a
            /\ SameRequest(req[a], req[r])
            /\ r \in ran \/ pc[r] \in {"invoke", "lost"}

\* Why the two invariants above survive every step.  A receipt is the work of a
\* direct write request that presented none, bound to that request; an execution
\* that is past Sentinel and its receipt, if it is not a read, presented a
\* consumed receipt bound to its own request; and no two of them the same one.
PaidFor(r) ==
    /\ pc[r] \in {"invoke", "running"} \/ r \in ran
    /\ Level[req[r].tool] \notin {"none", "read"}

OpenedInv ==
    \A r \in Request :
        /\ pc[r] = "idle" => receipts[r] = None /\ r \notin ran
        /\ pc[r] # "idle" => req[r] # None
        /\ InFlight(r) => audits[r] # None
        /\ pc[r] \in {"close", "answer"} => verdict[r] # None
        /\ (InFlight(r) /\ Level[req[r].tool] = "unregistered") =>
               \/ pc[r] \in {"resolve", "answer"}
               \/ pc[r] = "close" /\ verdict[r] = "tool_not_found"
        /\ pc[r] \in {"resolve", "challenge", "lookup", "consume", "invoke"} => r \notin ran
        /\ pc[r] \in {"resolve", "challenge"} => receipts[r] = None

AskedInv ==
    \A r \in Request : pc[r] \in {"challenge", "lookup", "consume"} =>
        /\ Level[req[r].tool] = "write" /\ req[r].caller = "tools" /\ at[r] \in Nat
        /\ pc[r] = "challenge" <=> req[r].approval = None

IssuedInv ==
    \A a \in Request : receipts[a] # None =>
        /\ req[a] # None
        /\ receipts[a].binding = BindingOf(req[a])
        /\ receipts[a].created < receipts[a].expires
        /\ receipts[a].status \in {"approved", "consumed"} =>
               receipts[a].approved \in Nat /\ receipts[a].created <= receipts[a].approved
        /\ receipts[a].status = "consumed" =>
               /\ receipts[a].consumed \in Nat
               /\ receipts[a].approved <= receipts[a].consumed
               /\ receipts[a].consumed < receipts[a].expires

PaidInv ==
    \A r \in Request : PaidFor(r) =>
        /\ Level[req[r].tool] = "write" /\ req[r].caller = "tools"
        /\ req[r].approval # None
        /\ receipts[req[r].approval] # None
        /\ receipts[req[r].approval].status = "consumed"
        /\ receipts[req[r].approval].binding = BindingOf(req[r])
        /\ \A s \in Request :
               (PaidFor(s) /\ req[s].approval = req[r].approval) => s = r

ApprovalInv == OpenedInv /\ AskedInv /\ IssuedInv /\ PaidInv

\* The error codes api/routes/chat.py can translate into a status (_TOOL_ERROR_STATUS).
ChatStatusCodes == {"tool_not_found", "tool_invalid_arguments", "tool_approval_required",
                    "tool_denied", "tool_execution_failed",
                    "sentinel_authorization_failed", "tool_internal_error"}

\* Chat gets no approval capability: with allow_approval off no receipt is created,
\* and no error reaches the chat route that its status table has no entry for.
ChatHasNoApprovals ==
    \A r \in Request : (req[r] # None /\ req[r].caller = "chat") =>
        /\ receipts[r] = None
        /\ reply[r] \in {None, "success", "unsuccessful"} \cup ChatStatusCodes

\* Durable rows only move forward: a completed audit row never changes, a started
\* one keeps its identity, a receipt keeps its binding and window and goes from
\* pending to approved to consumed, one transition at a time, never back.
RowsOnlyMoveForward ==
    [][/\ \A r \in Request : audits[r] # None =>
            /\ audits'[r] # None
            /\ audits[r].outcome # "started" => audits'[r] = audits[r]
            /\ \A f \in {"corr", "tool", "started"} : audits'[r][f] = audits[r][f]
       /\ \A a \in Request : receipts[a] # None =>
            /\ receipts'[a] # None
            /\ \A f \in {"binding", "created", "expires"} : receipts'[a][f] = receipts[a][f]
            /\ \/ receipts'[a] = receipts[a]
               \/ /\ receipts[a].status = "pending" /\ receipts'[a].status = "approved"
                  /\ receipts'[a].consumed = None
               \/ /\ receipts[a].status = "approved" /\ receipts'[a].status = "consumed"
                  /\ receipts'[a].approved = receipts[a].approved]_vars

\* "Every outstanding receipt must fail closed after restart": once the process that
\* issued it is gone, whatever its status, no step spends it.
DeadKeysSpendNothing ==
    [][\A a \in Request :
        (receipts[a] # None /\ req[a].core \notin up) =>
            (receipts'[a].status = "consumed" => receipts[a].status = "consumed")]_vars

\* "Consume atomically changes approved to consumed once, before expiry": when the
\* change is made the receipt is still alive by the clock of that moment.
SpentBeforeExpiry ==
    [][\A a \in Request :
        (receipts[a] # None /\ receipts[a].status = "approved"
             /\ receipts'[a].status = "consumed") => now < receipts[a].expires]_vars

\* Every request that was opened is answered, unless its process dies or it is
\* cancelled.
EveryRequestIsAnswered ==
    \A r \in Request : InFlight(r) ~> (pc[r] \in {"done", "lost"})

ReceiptState == [a \in Request |-> IF receipts[a] = None THEN "absent"
                                 ELSE receipts[a].status]
Effects == [a \in Request \cup {None} |-> {r \in Writes : req[r].approval = a}]

\* What the approval flow promises, as the module ApprovalAuthority states it: the
\* write executions each receipt (or none) has been the authority for.
Authority == INSTANCE ApprovalAuthority WITH
    Id        <- Request,
    Execution <- Request,
    NoReceipt <- None,
    state     <- ReceiptState,
    effects   <- Effects

\* The coordinator, its repositories and Sentinel together implement one-shot authority.
ImplementsAuthority == Authority!Spec

===============================================================================
