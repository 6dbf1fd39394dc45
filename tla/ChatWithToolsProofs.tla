-------------------------- MODULE ChatWithToolsProofs --------------------------
(***************************************************************************)
(* Proofs about ChatWithTools: the composition implements each of its two  *)
(* parts, so that what is proved of ChatService and of ToolFabric holds of *)
(* it, and what the two promise together follows.                          *)
(***************************************************************************)
EXTENDS ChatWithTools, ChatServiceProofs

-------------------------------------------------------------------------------
(* The composition is a ChatService *)

\* Whatever the coordinator does in between, a chat does nothing that ChatService
\* does not allow (_chat_with_session_lock, _execute_routed_tool).
THEOREM ChatIsStillChat == CoreSpec => ImplementsChatService
<1>1. CoreInit => Init
  BY DEF CoreInit
<1>2. [CoreNext]_coreVars => [Next]_allVars
  <2> SUFFICES ASSUME [CoreNext]_coreVars PROVE Next \/ UNCHANGED allVars
    OBVIOUS
  <2>1. ASSUME NEW c \in Chat, ArriveAtCore(c) PROVE Next
    BY <2>1 DEF ArriveAtCore, Next
  <2>2. ASSUME NEW c \in Chat, Work(c) PROVE Next \/ UNCHANGED allVars
    <3>1. CASE GoOn(c)
      BY <3>1 DEF GoOn, Next, Run
    <3>2. CASE LoadAndRoute(c)
      BY <3>2 DEF LoadAndRoute, Next, Run
    <3>3. CASE RefuseTool(c)
      BY <3>3 DEF RefuseTool, UseTool, Next, Run
    <3>4. CASE OpenTool(c) \/ ServeTool(c)
      BY <3>4 DEF OpenTool, ServeTool
    <3>5. CASE ToolReturns(c)
      BY <3>5 DEF ToolReturns, Then, GoToProvider, UseTool, Next, Run
    <3>6. QED BY <2>2, <3>1, <3>2, <3>3, <3>4, <3>5 DEF Work
  <2>3. ASSUME NEW c \in Chat, CancelChat(c) PROVE Next
    BY <2>3 DEF CancelChat, Next
  <2>4. CASE RestartCore
    BY <2>4 DEF RestartCore, Next
  <2>5. CASE UNCHANGED coreVars
    BY <2>5 DEF coreVars
  <2>6. QED BY <2>1, <2>2, <2>3, <2>4, <2>5 DEF CoreNext
<1>3. QED BY <1>1, <1>2, PTL DEF CoreSpec, Spec, ImplementsChatService

-------------------------------------------------------------------------------
(* The composition is a ToolFabric *)

\* ToolFabric with its theorems, used as ChatWithTools uses it.
Proved == INSTANCE ToolFabricProofs WITH
    Request <- Chat, Caller <- {"chat"},
    Args <- {"empty"}, Canon <- [a \in {"empty"} |-> "{}"],
    Lifetime <- 1, MaxTime <- 0, MaxGrants <- 0, ClockMaySlip <- FALSE,
    now <- 0, grants <- {}, verdict <- fate

LEMMA FabricConstantsOK == Proved!ConstantsOK /\ Proved!NoneIsNothing
<1>1. Proved!ConstantsOK
  BY ToolConstantsOK, ChatConstantsOK, NoneIsNobody, NoneIsNoTool DEF Proved!ConstantsOK
<1>2. Proved!NoneIsNothing
  BY NoneIsNoTool DEF Proved!NoneIsNothing, Fabric!Verdict, Proved!Verdict, Fabric!ErrorCode, Proved!ErrorCode,
         Fabric!Refusal, Proved!Refusal, Fabric!RequestBody, Proved!RequestBody,
         Fabric!AuditRow, Proved!AuditRow, Fabric!Decision, Proved!Decision,
         Fabric!Outcome, Proved!Outcome, Fabric!OutcomeOf, Proved!OutcomeOf,
         Fabric!Receipt, Proved!Receipt, Fabric!Binding, Proved!Binding,
         Fabric!Form, Proved!Form
<1>3. QED BY <1>1, <1>2

\* Under its two names it is the same module.
LEMMA SameFabric ==
    /\ Fabric!Init => Proved!Init
    /\ Fabric!Next => Proved!Next
    /\ \A c \in Chat : /\ Fabric!Open(c) <=> Proved!Open(c)
                       /\ Fabric!OpenFails(c) <=> Proved!OpenFails(c)
                       /\ Fabric!Serve(c) <=> Proved!Serve(c)
                       /\ Fabric!Cancel(c) <=> Proved!Cancel(c)
    /\ \A p \in Core : Fabric!Crash(p) <=> Proved!Crash(p)
<1>1. Fabric!Init => Proved!Init
  BY DEF Fabric!Init, Proved!Init
<1> USE DEF Fabric!AllowsApproval, Proved!AllowsApproval, Fabric!Goto, Proved!Goto,
         Fabric!Conclude, Proved!Conclude
<1>2. ASSUME NEW c \in Chat PROVE Fabric!Open(c) <=> Proved!Open(c)
  BY DEF Fabric!Open, Proved!Open, Fabric!Asks, Proved!Asks, Fabric!Disclosed,
         Proved!Disclosed, Fabric!ChallengeOf, Proved!ChallengeOf
<1>3. ASSUME NEW c \in Chat PROVE Fabric!OpenFails(c) <=> Proved!OpenFails(c)
  BY DEF Fabric!OpenFails, Proved!OpenFails, Fabric!Asks, Proved!Asks,
         Fabric!Disclosed, Proved!Disclosed, Fabric!ChallengeOf,
         Proved!ChallengeOf
<1>4. ASSUME NEW c \in Chat PROVE Fabric!Cancel(c) <=> Proved!Cancel(c)
  BY DEF Fabric!Cancel, Proved!Cancel, Fabric!Unwind, Proved!Unwind
<1>5. ASSUME NEW p \in Core PROVE Fabric!Crash(p) <=> Proved!Crash(p)
  BY DEF Fabric!Crash, Proved!Crash, Fabric!Unwind, Proved!Unwind,
         Fabric!InFlight, Proved!InFlight
<1>6. ASSUME NEW c \in Chat PROVE Fabric!Serve(c) <=> Proved!Serve(c)
  <2>1. Fabric!Resolve(c) <=> Proved!Resolve(c)
    BY DEF Fabric!Resolve, Proved!Resolve, Fabric!NotFound, Proved!NotFound,
         Fabric!Invalid, Proved!Invalid, Fabric!SentinelFails,
         Proved!SentinelFails, Fabric!Allow, Proved!Allow, Fabric!Deny,
         Proved!Deny, Fabric!Ask, Proved!Ask, Fabric!Decides, Proved!Decides,
         Fabric!Resolves, Proved!Resolves, Fabric!PolicyDecision,
         Proved!PolicyDecision
  <2>2. Fabric!Challenge(c) <=> Proved!Challenge(c)
    BY DEF Fabric!Challenge, Proved!Challenge, Fabric!BindingOf, Proved!BindingOf
  <2>3. Fabric!Lookup(c) <=> Proved!Lookup(c)
    BY DEF Fabric!Lookup, Proved!Lookup, Fabric!LookupVerdict,
         Proved!LookupVerdict, Fabric!BindingOf, Proved!BindingOf
  <2>4. Fabric!Consume(c) <=> Proved!Consume(c)
    BY DEF Fabric!Consume, Proved!Consume, Fabric!Spendable, Proved!Spendable,
         Fabric!Spend, Proved!Spend, Fabric!StampedInOrder,
         Proved!StampedInOrder, Fabric!BindingOf, Proved!BindingOf
  <2>5. Fabric!Invoke(c) <=> Proved!Invoke(c)
    BY DEF Fabric!Invoke, Proved!Invoke
  <2>6. Fabric!Return(c) <=> Proved!Return(c)
    BY DEF Fabric!Return, Proved!Return
  <2>7. Fabric!Close(c) <=> Proved!Close(c)
    BY DEF Fabric!Close, Proved!Close, Fabric!CompletesInOrder,
         Proved!CompletesInOrder, Fabric!OutcomeOf, Proved!OutcomeOf,
         Fabric!CodeOf, Proved!CodeOf
  <2>8. Fabric!CloseFails(c) <=> Proved!CloseFails(c)
    BY DEF Fabric!CloseFails, Proved!CloseFails, Fabric!CompletesInOrder,
         Proved!CompletesInOrder
  <2>9. Fabric!Answer(c) <=> Proved!Answer(c)
    BY DEF Fabric!Answer, Proved!Answer, Fabric!Unwind, Proved!Unwind
  <2>10. QED
    BY <2>1, <2>2, <2>3, <2>4, <2>5, <2>6, <2>7, <2>8, <2>9 DEF Fabric!Serve, Proved!Serve
<1>7. Fabric!Next => Proved!Next
  <2>1. ASSUME NEW a \in Chat, NEW p \in Core PROVE Fabric!AskGrant(a, p) <=> Proved!AskGrant(a, p)
    BY DEF Fabric!AskGrant, Proved!AskGrant, Fabric!Disclosed, Proved!Disclosed,
         Fabric!ChallengeOf, Proved!ChallengeOf
  <2>2. Fabric!Tick <=> Proved!Tick
    BY DEF Fabric!Tick, Proved!Tick
  <2>3. QED BY <1>2, <1>3, <1>4, <1>5, <1>6, <2>1, <2>2 DEF Fabric!Next, Proved!Next
<1>8. QED BY <1>1, <1>2, <1>3, <1>4, <1>5, <1>6, <1>7

\* Nothing but a crash takes a process away.
LEMMA UpStaysInCore == CoreSpec => [](up \subseteq Core)
<1>1. CoreInit => up \subseteq Core
  BY DEF CoreInit, Fabric!Init
<1>2. up \subseteq Core /\ [CoreNext]_coreVars => (up \subseteq Core)'
  <2> SUFFICES ASSUME up \subseteq Core, [CoreNext]_coreVars PROVE up' \subseteq up
    OBVIOUS
  <2>1. ASSUME NEW c \in Chat, UNCHANGED toolVars \/ Fabric!Open(c) \/ Fabric!OpenFails(c)
                               \/ Fabric!Serve(c) \/ Fabric!Cancel(c)
        PROVE  up' = up
    BY <2>1 DEF toolVars, Fabric!Open, Fabric!OpenFails, Fabric!Cancel, Fabric!Serve,
                Fabric!Resolve, Fabric!Challenge, Fabric!Lookup, Fabric!Consume,
                Fabric!Invoke, Fabric!Return, Fabric!Close, Fabric!CloseFails,
                Fabric!Answer
  <2>2. CASE RestartCore
    BY <2>2 DEF RestartCore, Fabric!Crash
  <2>3. CASE UNCHANGED coreVars
    BY <2>3 DEF coreVars, toolVars
  <2>4. ASSUME NEW c \in Chat, ArriveAtCore(c) \/ Work(c) \/ CancelChat(c) PROVE up' = up
    BY <2>1, <2>4 DEF ArriveAtCore, Work, GoOn, LoadAndRoute, RefuseTool, OpenTool, ServeTool,
                      ToolReturns, Then, CancelChat
  <2>5. QED BY <2>2, <2>3, <2>4 DEF CoreNext
<1>3. QED BY <1>1, <1>2, PTL DEF CoreSpec

\* Chats use the coordinator only as any client of ToolFabric may: one request each, with
\* its own correlation ID and no receipt (_execute_routed_tool).
THEOREM ToolsGoThroughTheFabric == CoreSpec => Fabric!Spec
<1>1. CoreInit => Fabric!Init
  BY DEF CoreInit
<1>2. up \subseteq Core /\ [CoreNext]_coreVars => [Fabric!Next]_(Fabric!vars)
  <2> SUFFICES ASSUME up \subseteq Core, [CoreNext]_coreVars
               PROVE  Fabric!Next \/ UNCHANGED Fabric!vars
    OBVIOUS
  <2>1. ASSUME UNCHANGED toolVars PROVE UNCHANGED Fabric!vars
    BY <2>1 DEF toolVars, Fabric!vars
  <2>2. ASSUME NEW c \in Chat, Fabric!Open(c) \/ Fabric!OpenFails(c) \/ Fabric!Serve(c)
                               \/ Fabric!Cancel(c)
        PROVE  Fabric!Next
    BY <2>2 DEF Fabric!Next
  <2>3. CASE RestartCore
    <3>1. PICK p \in Core : Fabric!Crash(p)
      BY <2>3 DEF RestartCore, Fabric!Crash
    <3>2. QED BY <3>1 DEF Fabric!Next
  <2>4. CASE UNCHANGED coreVars
    BY <2>1, <2>4 DEF coreVars
  <2>5. ASSUME NEW c \in Chat, ArriveAtCore(c) \/ Work(c) \/ CancelChat(c)
        PROVE  Fabric!Next \/ UNCHANGED toolVars
    BY <2>2, <2>5 DEF ArriveAtCore, Work, GoOn, LoadAndRoute, RefuseTool, OpenTool, ServeTool,
                      ToolReturns, Then, CancelChat
  <2>6. QED BY <2>1, <2>3, <2>4, <2>5 DEF CoreNext
<1>3. QED BY <1>1, <1>2, UpStaysInCore, PTL DEF CoreSpec, Fabric!Spec

\* So what is proved of ToolFabric holds here.
FabricInv == Proved!TypeOK /\ Proved!ApprovalInv
Evidence == Proved!EvidenceIsHonest /\ Proved!RepliesAreOnRecord

LEMMA FabricTheoremsApply == CoreSpec => [](FabricInv /\ Evidence)
<1>1. Fabric!Spec => Proved!Spec
  <2>1. Fabric!Init => Proved!Init
    BY SameFabric
  <2>2. [Fabric!Next]_(Fabric!vars) => [Proved!Next]_(Proved!vars)
    BY SameFabric DEF Fabric!vars, Proved!vars
  <2>3. QED BY <2>1, <2>2, PTL DEF Fabric!Spec, Proved!Spec
<1>2. Proved!Spec => []Proved!TypeOK
  BY FabricConstantsOK, Proved!TypeCorrect
<1>3. Proved!Spec => []Proved!ApprovalInv
  BY FabricConstantsOK, Proved!ApprovalHolds
<1>4. Proved!Spec => []Proved!EvidenceIsHonest
  BY FabricConstantsOK, Proved!EvidenceHolds
<1>5. Proved!Spec => []Proved!RepliesAreOnRecord
  BY FabricConstantsOK, Proved!RepliesHold
<1>6. QED
  BY <1>1, <1>2, <1>3, <1>4, <1>5, ToolsGoThroughTheFabric, PTL DEF FabricInv, Evidence

-------------------------------------------------------------------------------
(* What the two promise together *)

\* A chat and the execution named after it keep step: no request before the message is
\* routed, none left in flight once the chat has moved on, and no provider, so no turn,
\* without the reply that let the chat go on.
RouteOK(c) ==
    /\ routed[c] \in Tool \cup {None}
    /\ stage[c] \in {"idle", "load"} => pc[c] = "idle" /\ routed[c] = None
    /\ pc[c] # "idle" =>
           /\ req[c].tool = routed[c] /\ Level[routed[c]] = "read"
           /\ c \in creating \/ wants[c] \in sessions
    /\ Fabric!InFlight(c) => stage[c] = "tool" /\ req[c].core = Running
    /\ reply[c] # None => pc[c] = "done"
    /\ (routed[c] # None /\ (stage[c] = "provider" \/ \E m \in messages : m.by = c)) =>
           reply[c] = "success"

RouteInv ==
    /\ routed \in [Chat -> Tool \cup {None}]
    /\ \A c \in Chat : RouteOK(c)

\* A step of the coordinator for one chat moves that chat's execution only, and gives a
\* reply only at its end.
LEMMA FabricStep ==
    ASSUME FabricInv, NEW c \in Chat,
           Fabric!Open(c) \/ Fabric!OpenFails(c) \/ Fabric!Serve(c) \/ Fabric!Cancel(c)
    PROVE  /\ UNCHANGED up
           /\ \A d \in Chat \ {c} : /\ pc'[d] = pc[d] /\ req'[d] = req[d]
                                    /\ reply'[d] = reply[d]
           /\ pc[c] \notin {"done", "lost"} /\ pc'[c] # "idle"
           /\ reply'[c] = reply[c] \/ pc'[c] = "done"
           /\ Fabric!Serve(c) \/ Fabric!Cancel(c) => pc[c] # "idle" /\ req' = req
           /\ Fabric!Cancel(c) => pc'[c] = "lost" /\ reply' = reply
<1> USE DEF FabricInv, Proved!TypeOK, Fabric!InFlight, Fabric!Goto, Fabric!Conclude
<1>0. Fabric!Serve(c) => pc[c] # "idle"
  BY DEF Fabric!Serve, Fabric!Resolve, Fabric!Challenge, Fabric!Lookup, Fabric!Consume,
         Fabric!Invoke, Fabric!Return, Fabric!Close, Fabric!CloseFails, Fabric!Answer
<1>1. CASE Fabric!Open(c) \/ Fabric!OpenFails(c)
  BY <1>0, <1>1 DEF Fabric!Open, Fabric!OpenFails, Fabric!Cancel
<1>2. CASE Fabric!Cancel(c)
  BY <1>2 DEF Fabric!Cancel
<1>3. CASE Fabric!Resolve(c)
  BY <1>3 DEF Fabric!Resolve, Fabric!NotFound, Fabric!Invalid, Fabric!SentinelFails,
              Fabric!Allow, Fabric!Deny, Fabric!Ask, Fabric!Decides, Fabric!Cancel
<1>4. CASE Fabric!Challenge(c) \/ Fabric!Lookup(c) \/ Fabric!Invoke(c) \/ Fabric!Return(c)
  BY <1>4 DEF Fabric!Challenge, Fabric!Lookup, Fabric!Invoke, Fabric!Return, Fabric!Cancel
<1>5. CASE Fabric!Consume(c)
  BY <1>5 DEF Fabric!Consume, Fabric!Cancel
<1>6. CASE Fabric!Close(c) \/ Fabric!CloseFails(c) \/ Fabric!Answer(c)
  BY <1>6 DEF Fabric!Close, Fabric!CloseFails, Fabric!Answer, Fabric!Cancel
<1>7. QED BY <1>1, <1>2, <1>3, <1>4, <1>5, <1>6 DEF Fabric!Serve

\* A chat whose execution and messages stand still keeps step if its stage moves on.
LEMMA KeptInStep ==
    ASSUME ChatInv, NEW d \in Chat, RouteOK(d), UNCHANGED up,
           pc'[d] = pc[d], req'[d] = req[d], reply'[d] = reply[d],
           routed'[d] = routed[d], wants'[d] = wants[d] \/ stage[d] = "idle",
           creating \subseteq creating', sessions \subseteq sessions',
           \A m \in messages' : m.by = d => m \in messages,
           \/ stage'[d] = stage[d]
           \/ stage[d] = "idle" /\ stage'[d] = "load"
           \/ /\ stage'[d] \notin {"idle", "load", "provider"}
              /\ pc[d] \in {"idle", "done", "lost"}
    PROVE  RouteOK(d)'
<1>1. Running' = Running
  BY DEF Running
<1>2. QED BY <1>1 DEF RouteOK, Fabric!InFlight

LEMMA ChatStepKeepsRoute ==
    ASSUME ChatInv, FabricInv, RouteInv, NEW c \in Chat,
           ArriveAtCore(c) \/ GoOn(c) \/ RefuseTool(c) \/ ToolReturns(c)
    PROVE  RouteInv'
<1> USE DEF RouteInv
<1>0. /\ UNCHANGED <<routed, up, req, pc, reply>>
      /\ stage \in [Chat -> {"idle", "load", "tool", "provider", "leaving", "answered", "lost"}]
      /\ wants \in [Chat -> Session \cup {None}]
  BY DEF ArriveAtCore, GoOn, RefuseTool, ToolReturns, Then, toolVars, ChatInv, ChatTypeOK,
         LocksTypeOK
<1>1. RouteOK(c)
  OBVIOUS
<1> SUFFICES \A d \in Chat : RouteOK(d)'
  BY <1>0
<1>2. CASE ArriveAtCore(c)
  <2>1. /\ stage[c] = "idle" /\ stage' = [stage EXCEPT ![c] = "load"]
        /\ creating \subseteq creating' /\ UNCHANGED <<sessions, messages>>
        /\ \E s \in Session : wants' = [wants EXCEPT ![c] = s]
    BY <1>2 DEF ArriveAtCore, Arrive, Enter
  <2>2. QED BY <1>0, <2>1, KeptInStep
<1>3. CASE GoOn(c) /\ ~Respond(c)
  <2>1. /\ \/ UNCHANGED stage
           \/ /\ stage[c] \notin {"idle", "load", "tool"}
              /\ \E x \in {"leaving", "answered"} : stage' = [stage EXCEPT ![c] = x]
           \/ stage' = [stage EXCEPT ![c] = stage[c]]
        /\ UNCHANGED <<creating, sessions, messages, wants>>
    BY <1>3 DEF GoOn, Proceed, chatVars, Acquire, ProviderFails, Leave, Release, Finish, Drop
  <2>2. QED BY <1>0, <1>1, <2>1, KeptInStep DEF RouteOK, Fabric!InFlight
<1>4. CASE Respond(c)
  <2>1. /\ stage[c] = "provider" /\ stage' = [stage EXCEPT ![c] = "leaving"]
        /\ UNCHANGED <<creating, wants>> /\ sessions \subseteq sessions'
        /\ \A m \in messages' : m \in messages \/ m.by = c
    BY <1>4 DEF Respond, Leave, Release, AppendTurn, TurnOf, TurnRolledBack
  <2>2. ASSUME NEW d \in Chat \ {c} PROVE RouteOK(d)'
    BY <1>0, <2>1, KeptInStep
  <2>3. RouteOK(c)'
    BY <1>0, <1>1, <2>1 DEF RouteOK, Fabric!InFlight
  <2>4. QED BY <2>2, <2>3
<1>5. CASE RefuseTool(c)
  <2>1. /\ stage[c] = "tool" /\ stage' = [stage EXCEPT ![c] = "leaving"]
        /\ UNCHANGED <<creating, wants, sessions, messages>>
        /\ pc[c] = "idle"
    BY <1>5 DEF RefuseTool, Leave, Release, FabricInv, Proved!ApprovalInv, Proved!OpenedInv
  <2>2. QED BY <1>0, <2>1, KeptInStep
<1>6. CASE ToolReturns(c)
  <2>1. /\ stage[c] = "tool" /\ reply[c] # None
        /\ \/ stage' = [stage EXCEPT ![c] = "leaving"]
           \/ stage' = [stage EXCEPT ![c] = "provider"] /\ reply[c] = "success"
        /\ UNCHANGED <<creating, wants, sessions, messages>>
    BY <1>6 DEF ToolReturns, Then, GoToProvider, Leave, Release, lockVars
  <2>2. ASSUME NEW d \in Chat \ {c} PROVE RouteOK(d)'
    BY <1>0, <2>1, KeptInStep
  <2>3. RouteOK(c)'
    BY <1>0, <1>1, <2>1 DEF RouteOK, Fabric!InFlight
  <2>4. QED BY <2>2, <2>3
<1>7. QED BY <1>2, <1>3, <1>4, <1>5, <1>6

LEMMA LoadKeepsRoute ==
    ASSUME ChatInv, RouteInv, NEW c \in Chat, LoadAndRoute(c)
    PROVE  RouteInv'
<1> USE DEF RouteInv
<1>1. /\ UNCHANGED <<up, req, pc, reply, wants, creating, sessions, messages>>
      /\ stage[c] = "load"
      /\ \E x \in {"tool", "provider", "leaving"} : stage' = [stage EXCEPT ![c] = x]
      /\ \/ stage'[c] = "tool" /\ \E t \in Tool : routed' = [routed EXCEPT ![c] = t]
         \/ UNCHANGED routed
      /\ stage \in [Chat -> {"idle", "load", "tool", "provider", "leaving", "answered", "lost"}]
  BY DEF LoadAndRoute, Load, Leave, Release, lockVars, toolVars, ChatInv, ChatTypeOK
<1>2. RouteOK(c) /\ \A m \in messages : m.by # c
  BY <1>1 DEF ChatInv, ChatOK, OriginOK
<1>3. routed' \in [Chat -> Tool \cup {None}]
  BY <1>1
<1>4. ASSUME NEW d \in Chat \ {c} PROVE RouteOK(d)'
  BY <1>1, KeptInStep
<1>5. RouteOK(c)'
  BY <1>1, <1>2, <1>3 DEF RouteOK, Fabric!InFlight
<1>6. QED BY <1>3, <1>4, <1>5

LEMMA ToolStepKeepsRoute ==
    ASSUME ChatInv, FabricInv, RouteInv, NEW c \in Chat, OpenTool(c) \/ ServeTool(c)
    PROVE  RouteInv'
<1> USE DEF RouteInv
<1>0. UNCHANGED allVars /\ UNCHANGED routed
  BY DEF OpenTool, ServeTool
<1>1. UNCHANGED <<routed, stage, wants, creating, sessions, messages>>
  BY <1>0 DEF allVars, lockVars, chatVars
<1>2. /\ UNCHANGED up
      /\ \A d \in Chat \ {c} : pc'[d] = pc[d] /\ req'[d] = req[d] /\ reply'[d] = reply[d]
      /\ pc[c] \notin {"done", "lost"} /\ pc'[c] # "idle"
      /\ reply'[c] = reply[c] \/ pc'[c] = "done"
      /\ \/ stage[c] = "tool" /\ req'[c] = ToolRequest(c) /\ AllowedFromChat(routed[c])
         \/ Fabric!InFlight(c) /\ req' = req
  BY FabricStep DEF OpenTool, ServeTool, Fabric!InFlight
<1>3. ASSUME NEW d \in Chat \ {c} PROVE RouteOK(d)'
  BY <1>1, <1>2, KeptInStep
<1>4. /\ Running' = Running /\ RouteOK(c)
      /\ stage[c] = "tool" =>
             (c \in creating \/ wants[c] \in sessions) /\ \A m \in messages : m.by # c
  BY <1>2 DEF Running, ChatInv, ChatOK, FreshOK, OriginOK
<1>5. RouteOK(c)'
  <2>1. CASE stage[c] = "tool" /\ req'[c] = ToolRequest(c) /\ AllowedFromChat(routed[c])
    <3>1. req'[c].core = Running /\ req'[c].tool = routed[c]
      BY <2>1 DEF ToolRequest
    <3>2. QED
      BY <1>1, <1>2, <1>4, <2>1, <3>1 DEF RouteOK, Fabric!InFlight, AllowedFromChat
  <2>2. CASE Fabric!InFlight(c) /\ req' = req
    BY <1>1, <1>2, <1>4, <2>2 DEF RouteOK, Fabric!InFlight
  <2>3. QED BY <1>2, <2>1, <2>2
<1>6. QED BY <1>1, <1>3, <1>5

LEMMA CancelKeepsRoute ==
    ASSUME ChatInv, FabricInv, RouteInv, NEW c \in Chat, CancelChat(c)
    PROVE  RouteInv'
<1> USE DEF RouteInv
<1>1. /\ UNCHANGED <<routed, wants, creating, sessions, messages>>
      /\ stage[c] # "idle" /\ stage' = [stage EXCEPT ![c] = "lost"]
      /\ stage \in [Chat -> {"idle", "load", "tool", "provider", "leaving", "answered", "lost"}]
  BY DEF CancelChat, Cancel, GiveUp, Release, lockVars, ChatInv, ChatTypeOK
<1>2. /\ UNCHANGED <<up, req>>
      /\ \A d \in Chat \ {c} : pc'[d] = pc[d] /\ reply'[d] = reply[d]
      /\ reply' = reply
      /\ \/ stage[c] = "tool" /\ pc'[c] = "lost" /\ pc[c] \notin {"idle", "done", "lost"}
         \/ stage[c] # "tool" /\ pc' = pc
  BY FabricStep DEF CancelChat, toolVars, Fabric!Cancel
<1>3. ASSUME NEW d \in Chat \ {c} PROVE RouteOK(d)'
  BY <1>1, <1>2, KeptInStep
<1>4. RouteOK(c)'
  BY <1>1, <1>2 DEF RouteOK, Fabric!InFlight
<1>5. QED BY <1>1, <1>3, <1>4

LEMMA RestartKeepsRoute ==
    ASSUME ChatInv, FabricInv, RouteInv, RestartCore
    PROVE  RouteInv'
<1> USE DEF RouteInv
<1>1. /\ UNCHANGED <<routed, wants, creating, sessions, messages, req, reply>>
      /\ stage' = [c \in Chat |-> IF stage[c] \in {"idle", "answered"} THEN stage[c] ELSE "lost"]
      /\ pc' = [r \in Chat |->
                   IF Fabric!InFlight(r) /\ req[r].core = Running THEN "lost" ELSE pc[r]]
  BY DEF RestartCore, Restart, Forget, Fabric!Crash
<1>2. ASSUME NEW c \in Chat PROVE RouteOK(c)'
  <2>1. RouteOK(c) /\ ~Fabric!InFlight(c)'
    BY <1>1 DEF RouteOK, Fabric!InFlight
  <2>2. QED BY <1>1, <2>1 DEF RouteOK, Fabric!InFlight
<1>3. QED BY <1>1, <1>2

LEMMA RouteInductive == CoreSpec => [](ChatInv /\ FabricInv /\ Evidence /\ RouteInv)
<1>1. CoreInit => RouteInv
  BY NoneIsNobody DEF CoreInit, Init, Fabric!Init, RouteInv, RouteOK, Fabric!InFlight
<1>2. ChatInv /\ FabricInv /\ RouteInv /\ [CoreNext]_coreVars => RouteInv'
  <2> SUFFICES ASSUME ChatInv, FabricInv, RouteInv, [CoreNext]_coreVars PROVE RouteInv'
    OBVIOUS
  <2>1. ASSUME NEW c \in Chat, ArriveAtCore(c) \/ Work(c) \/ CancelChat(c) PROVE RouteInv'
    BY <2>1, ChatStepKeepsRoute, LoadKeepsRoute, ToolStepKeepsRoute, CancelKeepsRoute
       DEF Work
  <2>2. CASE UNCHANGED coreVars
    <3>1. UNCHANGED <<routed, stage, wants, creating, sessions, messages, up, req, pc, reply>>
      BY <2>2 DEF coreVars, allVars, lockVars, chatVars, toolVars
    <3>2. ASSUME NEW d \in Chat PROVE RouteOK(d)'
      BY <3>1, KeptInStep DEF RouteInv
    <3>3. QED BY <3>1, <3>2 DEF RouteInv
  <2>3. QED BY <2>1, <2>2, RestartKeepsRoute DEF CoreNext
<1>3. CoreSpec => []ChatInv
  BY ChatIsStillChat, ChatInductive, PTL DEF ImplementsChatService
<1>4. QED BY <1>1, <1>2, <1>3, FabricTheoremsApply, PTL DEF CoreSpec

\* The coordinator works only for a chat that has its session's lock, in a session that
\* exists or is being created, and runs only tools that read (_execute_routed_tool, behind
\* _chat_with_session_lock), for any number of chats, tools, sessions and restarts.
THEOREM ToolsServeChats == CoreSpec => []ToolsServeTheChatAtHand
<1>1. ChatInv /\ FabricInv /\ RouteInv => ToolsServeTheChatAtHand
  BY DEF ToolsServeTheChatAtHand, Served, ChatInv, ChatOK, StageOK, RouteInv, RouteOK,
         FabricInv, Proved!ApprovalInv, Proved!OpenedInv, Fabric!InFlight
<1>2. QED BY <1>1, RouteInductive, PTL

\* A turn whose message called for a tool is remembered only with the evidence: the tool
\* ran, and its completed audit row says it succeeded.
THEOREM TurnsRestOnEvidence == CoreSpec => []AnswersRestOnEvidence
<1>1. ChatInv /\ FabricInv /\ Evidence /\ RouteInv => AnswersRestOnEvidence
  <2> SUFFICES ASSUME ChatInv, Evidence, RouteInv, NEW c \in Chat, routed[c] # None,
                      \E m \in messages : m.by = c
               PROVE  c \in ran /\ audits[c] # None /\ audits[c].outcome = "succeeded"
    BY DEF AnswersRestOnEvidence
  <2>1. reply[c] = "success"
    BY DEF RouteInv, RouteOK
  <2>2. "success" \notin {None, "tool_internal_error"} /\ Proved!OutcomeOf("success") = "succeeded"
    BY NoneIsNoTool DEF Proved!OutcomeOf, Fabric!Verdict
  <2>3. audits[c] # None /\ audits[c].outcome = "succeeded"
    BY <2>1, <2>2 DEF Evidence, Proved!RepliesAreOnRecord
  <2>4. QED BY <2>3 DEF Evidence, Proved!EvidenceIsHonest
<1>2. QED BY <1>1, RouteInductive, PTL

===============================================================================
