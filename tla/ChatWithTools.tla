----------------------------- MODULE ChatWithTools -----------------------------
(***************************************************************************)
(* ChatService and the Tool Fabric together: a chat whose message is       *)
(* routed to a tool sends its own request to the one coordinator           *)
(* (_execute_routed_tool), waits for its reply while it holds its          *)
(* session's lock, and puts the result before the provider.  They share    *)
(* the event loop, its cancellations, the process and its database.        *)
(*                                                                         *)
(* The execution of a chat is named after the chat.  Both modules are used *)
(* as they are; what a chat cannot touch (the clock, grants) stands still. *)
(***************************************************************************)
EXTENDS ChatService

CONSTANTS
    Core,       \* process instances: numbers, in the order they run
    Tool,       \* names the router knows
    Level       \* side-effect level each is registered with, or "unregistered"

ASSUME ToolConstantsOK ==
    /\ Core \subseteq Nat \ {0}
    /\ Level \in [Tool -> {"none", "read", "write", "dangerous", "unregistered"}]

VARIABLES
    routed,     \* the tool each chat's message was routed to, or None
    up, req, pc, decision, at, fate, reply, ran, audits, receipts   \* see ToolFabric

toolVars == <<up, req, pc, decision, at, fate, reply, ran, audits, receipts>>
coreVars == <<allVars, routed, toolVars>>

Fabric == INSTANCE ToolFabric WITH
    Request <- Chat, Caller <- {"chat"},
    Args <- {"empty"}, Canon <- [a \in {"empty"} |-> "{}"],
    Lifetime <- 1, MaxTime <- 0, MaxGrants <- 0, ClockMaySlip <- FALSE,
    now <- 0, grants <- {}, verdict <- fate

\* None is no value of ToolFabric either.
ASSUME NoneIsNoTool ==
    /\ None \notin Nat /\ None \notin Fabric!Verdict
    /\ None \notin Fabric!RequestBody /\ None \notin Fabric!AuditRow
    /\ None \notin Fabric!Receipt

-------------------------------------------------------------------------------

\* The process that is running: the last one started.
Running == CHOOSE c \in up : \A d \in up : c <= d

\* What a chat asks the coordinator for: no arguments, its own correlation ID, and
\* allow_approval off.
ToolRequest(c) == [core |-> Running, caller |-> "chat", tool |-> routed[c],
                   args |-> "empty", corr |-> c, approval |-> None]

\* Slip: whatever Sentinel allows is allowed.
AllowedBySentinel(tool) == Level[tool] # "unregistered"

\* The trusted descriptor: only what reads, within Core, is allowed from chat.
AllowedFromChat(tool) == Level[tool] = "read"

\* The message is routed when the session is known and its history is loaded.
LoadAndRoute(c) ==
    /\ Load(c)
    /\ IF stage'[c] = "tool"
       THEN \E t \in Tool : routed' = [routed EXCEPT ![c] = t]
       ELSE UNCHANGED routed
    /\ UNCHANGED toolVars

\* tool_not_found or tool_denied, before the coordinator is called.
RefuseTool(c) ==
    /\ stage[c] = "tool" /\ req[c] = None
    /\ ~AllowedFromChat(routed[c])
    /\ Leave(c, "tool_error")
    /\ UNCHANGED <<creating, history, sessions, messages, routed, toolVars>>

OpenTool(c) ==
    /\ stage[c] = "tool" /\ req[c] = None
    /\ AllowedFromChat(routed[c])
    /\ Fabric!Open(c) \/ Fabric!OpenFails(c)
    /\ req'[c] = ToolRequest(c)
    /\ UNCHANGED <<allVars, routed>>

\* execute goes on.
ServeTool(c) == Fabric!Serve(c) /\ UNCHANGED <<allVars, routed>>

\* The coordinator has replied, and the chat takes this step.
Then(c, step) ==
    /\ stage[c] = "tool" /\ reply[c] # None
    /\ step
    /\ UNCHANGED <<creating, history, sessions, messages, routed, toolVars>>

GoToProvider(c) ==
    /\ stage' = [stage EXCEPT ![c] = "provider"]
    /\ UNCHANGED <<lockVars, verdict>>

\* Slips: a result without success is one too; an error keeps the lock; nor is it told.
ToolReturnsAny(c) ==
    \/ reply[c] \in {"success", "unsuccessful"} /\ Then(c, GoToProvider(c))
    \/ reply[c] \notin {"success", "unsuccessful"} /\ Then(c, Leave(c, "tool_error"))
ToolReturnsLocked(c) ==
    \/ reply[c] = "success" /\ Then(c, GoToProvider(c))
    \/ reply[c] # "success" /\ Then(c, LeaveLocked(c, "tool_error"))
ToolReturnsOrHangs(c) == reply[c] = "success" /\ Then(c, GoToProvider(c))

\* execute returned, or raised; making a context message of what was found may raise too.
ToolReturns(c) ==
    \/ reply[c] = "success" /\ Then(c, GoToProvider(c))
    \/ Then(c, Leave(c, "tool_error"))

\* A cancellation ends the coordinator's coroutine with the chat's, at its awaits.
CancelChat(c) ==
    /\ Cancel(c)
    /\ IF stage[c] = "tool" THEN Fabric!Cancel(c) ELSE UNCHANGED toolVars
    /\ UNCHANGED routed

\* The process dies with its chats and executions, and another takes its place.
RestartCore ==
    /\ up # {Running}
    /\ Restart
    /\ Fabric!Crash(Running)
    /\ UNCHANGED routed

\* What concerns the chat alone.
ArriveAtCore(c) == Arrive(c) /\ UNCHANGED <<routed, toolVars>>
GoOn(c) ==
    /\ Proceed(c) \/ ProviderFails(c) \/ Respond(c) \/ Finish(c)
    /\ UNCHANGED <<routed, toolVars>>

CoreInit ==
    /\ Init
    /\ routed = [c \in Chat |-> None]
    /\ Fabric!Init

Work(c) == \/ GoOn(c) \/ LoadAndRoute(c)
           \/ RefuseTool(c) \/ OpenTool(c) \/ ServeTool(c) \/ ToolReturns(c)

CoreNext == \/ \E c \in Chat : ArriveAtCore(c) \/ Work(c) \/ CancelChat(c)
            \/ RestartCore

CoreSpec == CoreInit /\ [][CoreNext]_coreVars

\* Scheduled tasks run, tools return, and the provider answers or times out.
CoreFairSpec == CoreSpec /\ \A c \in Chat : WF_coreVars(Work(c))

-------------------------------------------------------------------------------
(* Properties *)

Served(c) == Fabric!InFlight(c) \/ c \in ran

\* "Unknown/malformed sessions must fail before collection": the coordinator is only
\* ever at work for the chat that has its session's lock, in a session that exists or
\* is being created, and only for tools that read (docs/tasks/
\* VISIBLE_APPLICATIONS_CONTEXT_V0.8.md; _chat_with_session_lock, lines 125-165).
ToolsServeTheChatAtHand ==
    \A c \in Chat :
        /\ Fabric!InFlight(c) => stage[c] = "tool" /\ phase[c] = "inside"
        /\ Served(c) => c \in creating \/ wants[c] \in sessions
        /\ c \in ran => Level[routed[c]] = "read"

\* A turn is remembered, and its answer given, only if the tool its message called for
\* has run and its audit row says so: nobody is told what a failed, refused or
\* unrecorded tool might have found.
AnswersRestOnEvidence ==
    \A c \in Chat : (routed[c] # None /\ \E m \in messages : m.by = c) =>
        /\ c \in ran
        /\ audits[c] # None /\ audits[c].outcome = "succeeded"

\* With the tool in between, a chat still does what ChatService says: its history is as
\* fresh, its lock as exclusive and its turn as whole as without one.
ImplementsChatService == Spec

===============================================================================
