----------------------------- MODULE ChatService ------------------------------
(***************************************************************************)
(* ChatService and SQLiteConversationRepository: a chat takes its          *)
(* session's lock, loads the recent messages, may run one read-only tool,  *)
(* asks the provider, and appends the user and assistant messages in one   *)
(* transaction; a failed turn is not remembered.                           *)
(*                                                                         *)
(* One Core process at a time, as the documents have it; it may crash and  *)
(* start again on the same database.  Between two suspensions a coroutine  *)
(* runs undisturbed; the steps here are those stretches, or shorter.       *)
(***************************************************************************)
EXTENDS SessionLocks

CONSTANTS
    Old,            \* sessions an earlier process left in the database, one turn each
    HistoryLimit,   \* JARVIS_CHAT_HISTORY_LIMIT
    StoreMayFail    \* SQLite operations may fail

ASSUME ChatConstantsOK ==
    /\ Old \subseteq Session
    /\ HistoryLimit \in Nat
    /\ StoreMayFail \in BOOLEAN

VARIABLES
    stage,      \* where each chat is in _chat_with_session_lock
    creating,   \* the chats that arrived without a session ID
    history,    \* what each chat loaded, and shows the provider; kept when it ends
    verdict,    \* the result or error a chat leaves with
    sessions,   \* table conversation_sessions
    messages    \* table conversation_messages

chatVars == <<stage, creating, history, verdict, sessions, messages>>
allVars == <<lockVars, chatVars>>

-------------------------------------------------------------------------------
(* The tables *)

Message == [session : Session, sequence : Nat \ {0},
            role : {"user", "assistant"}, by : Chat \cup {None}]

MessagesOf(s) == {m \in messages : m.session = s}

\* ORDER BY sequence DESC LIMIT n
Newest(rows, n) ==
    {m \in rows : Cardinality({k \in rows : k.sequence > m.sequence}) < n}

\* Slip: an answer whose question was cut off is kept.
RecentWithOrphan(s) == Newest(MessagesOf(s), HistoryLimit)

\* load_recent_messages: the window, without a leading assistant message.
Recent(s) ==
    LET window == Newest(MessagesOf(s), HistoryLimit) IN
    {m \in window : m.role = "user" \/ \E k \in window : k.sequence < m.sequence}

\* Slip: the greatest number is used again.
NextFromZero(c) ==
    LET used == {m.sequence : m \in MessagesOf(wants[c])} IN
    CHOOSE n \in {0} \cup used : \A u \in used : u <= n

\* _next_sequence: COALESCE(MAX(sequence), 0) + 1, read inside the transaction.
NextSequence(c) ==
    LET used == {m.sequence : m \in MessagesOf(wants[c])} IN
    CHOOSE n \in {1} \cup {u + 1 : u \in used} : \A u \in used : u < n

TurnOf(c) == {[session |-> wants[c], sequence |-> NextSequence(c),
               role |-> "user", by |-> c],
              [session |-> wants[c], sequence |-> NextSequence(c) + 1,
               role |-> "assistant", by |-> c]}

\* The UPDATE finds the session, and UNIQUE (session_id, sequence) is respected.
Appendable(c) ==
    /\ c \in creating \/ wants[c] \in sessions
    /\ \A m \in MessagesOf(wants[c]), t \in TurnOf(c) : m.sequence # t.sequence

\* Slip: nothing commits.
AppendUncommitted(c) == Appendable(c) /\ UNCHANGED <<sessions, messages>>

\* append_successful_turn commits.
AppendTurn(c) ==
    /\ Appendable(c)
    /\ sessions' = sessions \cup {wants[c]}
    /\ messages' = messages \cup TurnOf(c)

\* Slip: the messages are committed one by one.
HalfRolledBack(c) ==
    /\ StoreMayFail \/ ~Appendable(c)
    /\ messages' = messages \cup {m \in TurnOf(c) : m.role = "user"}
    /\ UNCHANGED sessions

\* ... or is rolled back.
TurnRolledBack(c) ==
    /\ StoreMayFail \/ ~Appendable(c)
    /\ UNCHANGED <<sessions, messages>>

-------------------------------------------------------------------------------
(* One chat *)

\* A session ID is told to the caller by a successful answer only; any other ID a
\* client may send was never generated here.
Generated == {wants[d] : d \in creating}
Told == {wants[d] : d \in {d \in creating : stage[d] = "answered" /\ verdict[d] = "ok"}}

\* chat: without a session ID, uuid4 generates a new one.
Arrive(c) ==
    /\ stage[c] = "idle"
    /\ \E s \in Session :
        /\ \/ /\ s \notin sessions /\ \A d \in Chat : wants[d] # s
              /\ creating' = creating \cup {c}
           \/ /\ s \in Generated => s \in Told
              /\ UNCHANGED creating
        /\ Enter(c, s)
    /\ stage' = [stage EXCEPT ![c] = "load"]
    /\ UNCHANGED <<history, verdict, sessions, messages>>

\* The lock becomes this chat's.
Proceed(c) == Acquire(c) /\ UNCHANGED chatVars

\* Slip: an error leaves the lock held.
LeaveLocked(c, v) ==
    /\ phase[c] = "inside"
    /\ phase' = [phase EXCEPT ![c] = "releasing"]
    /\ UNCHANGED <<wants, entry, table, references, locked, waiters, woken>>
    /\ stage' = [stage EXCEPT ![c] = "leaving"]
    /\ verdict' = [verdict EXCEPT ![c] = v]

\* The body of the lock ends with a result or an exception.
Leave(c, v) ==
    /\ Release(c)
    /\ stage' = [stage EXCEPT ![c] = "leaving"]
    /\ verdict' = [verdict EXCEPT ![c] = v]

\* Slip: history is loaded before the lock is taken.
LoadUnlocked(c) ==
    /\ stage[c] = "load"
    /\ history' = [history EXCEPT ![c] = IF c \in creating THEN {} ELSE Recent(wants[c])]
    /\ \E next \in {"tool", "provider"} : stage' = [stage EXCEPT ![c] = next]
    /\ UNCHANGED <<lockVars, creating, verdict, sessions, messages>>

\* session_exists, load_recent_messages and the routing of the message.
Load(c) ==
    /\ stage[c] = "load" /\ phase[c] = "inside"
    /\ \/ /\ c \in creating \/ wants[c] \in sessions
          /\ history' = [history EXCEPT ![c] =
                            IF c \in creating THEN {} ELSE Recent(wants[c])]
          /\ \E next \in {"tool", "provider"} : stage' = [stage EXCEPT ![c] = next]
          /\ UNCHANGED <<lockVars, verdict>>
       \/ /\ c \notin creating /\ wants[c] \notin sessions
          /\ Leave(c, "session_not_found") /\ UNCHANGED history
       \/ /\ c \notin creating /\ StoreMayFail
          /\ Leave(c, "persistence_error") /\ UNCHANGED history
    /\ UNCHANGED <<creating, sessions, messages>>

\* _execute_routed_tool: the tool's data joins the provider's messages, or the chat
\* fails; the execution itself is ToolFabric's, with a chat caller.
UseTool(c) ==
    /\ stage[c] = "tool"
    /\ \/ stage' = [stage EXCEPT ![c] = "provider"] /\ UNCHANGED <<lockVars, verdict>>
       \/ Leave(c, "tool_error")
    /\ UNCHANGED <<creating, history, sessions, messages>>

\* OllamaProvider.generate: a timeout, no connection, an error status, or a response
\* that is not JSON, has no message or a blank one ends the chat.
ProviderFails(c) ==
    /\ stage[c] = "provider"
    /\ Leave(c, "provider_error")
    /\ UNCHANGED <<creating, history, sessions, messages>>

\* ... otherwise its answer is appended with the question.
Respond(c) ==
    /\ stage[c] = "provider"
    /\ \/ Leave(c, "ok") /\ AppendTurn(c)
       \/ Leave(c, "persistence_error") /\ TurnRolledBack(c)
    /\ UNCHANGED <<creating, history>>

\* The reference is dropped, and the caller, if it is still there, answered.
Finish(c) ==
    /\ Drop(c)
    /\ stage' = [stage EXCEPT ![c] = IF @ = "leaving" THEN "answered" ELSE @]
    /\ UNCHANGED <<creating, history, verdict, sessions, messages>>

\* Cancellation at an await: for the lock, in the tool or the provider, or for the
\* shielded release, which goes on.
Cancel(c) ==
    /\ \/ stage[c] = "load" /\ GiveUp(c)
       \/ stage[c] \in {"tool", "provider"} /\ Release(c)
       \/ stage[c] = "leaving" /\ UNCHANGED lockVars
    /\ stage' = [stage EXCEPT ![c] = "lost"]
    /\ UNCHANGED <<creating, history, verdict, sessions, messages>>

\* The process dies and is started again: the database is what is left.
Restart ==
    /\ stage' = [c \in Chat |-> IF stage[c] \in {"idle", "answered"} THEN stage[c] ELSE "lost"]
    /\ Forget
    /\ UNCHANGED <<creating, history, verdict, sessions, messages>>

Init ==
    /\ LocksInit
    /\ stage = [c \in Chat |-> "idle"]
    /\ creating = {}
    /\ history = [c \in Chat |-> {}]
    /\ verdict = [c \in Chat |-> None]
    /\ sessions = Old
    /\ messages = {[session |-> s, sequence |-> 1, role |-> "user", by |-> None] : s \in Old}
             \cup {[session |-> s, sequence |-> 2, role |-> "assistant", by |-> None] : s \in Old}

Run(c) == Proceed(c) \/ Load(c) \/ UseTool(c) \/ ProviderFails(c) \/ Respond(c) \/ Finish(c)

Next == \/ \E c \in Chat : Arrive(c) \/ Run(c) \/ Cancel(c)
        \/ Restart

Spec == Init /\ [][Next]_allVars

\* Scheduled tasks run, tools return, and the provider answers or times out.
FairSpec == Spec /\ \A c \in Chat : WF_allVars(Run(c))

-------------------------------------------------------------------------------
(* Properties *)

Error == {"session_not_found", "persistence_error", "tool_error", "provider_error"}

\* Every variable keeps its type.
ChatTypeOK ==
    /\ LocksTypeOK
    /\ stage \in [Chat -> {"idle", "load", "tool", "provider", "leaving", "answered", "lost"}]
    /\ creating \subseteq Chat
    /\ history \in [Chat -> SUBSET Message]
    /\ verdict \in [Chat -> Error \cup {"ok", None}]
    /\ sessions \subseteq Session
    /\ messages \subseteq Message

\* A session is a list of whole turns: sequence numbers from 1 without a gap or a
\* repetition, a question at each odd one, the answer of the same chat at the next;
\* and a session has a row exactly when it has a turn (append_successful_turn).
SessionsAreWholeTurns ==
    /\ \A s \in Session :
        /\ {m.sequence : m \in MessagesOf(s)} = 1..Cardinality(MessagesOf(s))
        /\ \A m \in MessagesOf(s) :
               m.role = "user" <=> m.sequence % 2 = 1
        /\ \A m \in MessagesOf(s) : m.role = "user" =>
               \E k \in MessagesOf(s) : k.sequence = m.sequence + 1 /\ k.by = m.by
    /\ sessions = {m.session : m \in messages}

\* A failed turn is not remembered, a successful one is; only a cancelled or
\* interrupted caller cannot tell.
AnswersTellTheTruth ==
    \A c \in Chat : stage[c] = "answered" =>
        (verdict[c] = "ok" <=> \E m \in messages : m.by = c)

\* Whatever the limit cuts off, the provider is shown whole turns: no answer
\* without its question.
HistoryIsWholeTurns ==
    \A c \in Chat : \A m \in history[c] : m.role = "assistant" =>
        \E k \in history[c] : k.role = "user" /\ k.sequence = m.sequence - 1

\* Every chat that arrives is answered, unless it is cancelled or the process ends.
EveryChatIsAnswered ==
    \A c \in Chat : stage[c] = "load" ~> stage[c] \in {"answered", "lost"}

\* The chats of a set of rows, in the order of their questions.
Turns(rows) ==
    LET questions == {m \in rows : m.role = "user"}
        before(m) == {k \in questions : k.sequence < m.sequence}
    IN [i \in 1..Cardinality(questions) |->
            (CHOOSE m \in questions : Cardinality(before(m)) = i - 1).by]

\* Working memory, as the module Conversation states it.
Memory == INSTANCE Conversation WITH
    Exchange <- Chat,
    Past     <- [s \in Session |-> IF s \in Old THEN <<None>> ELSE <<>>],
    Window   <- HistoryLimit \div 2,
    NotYet   <- None,
    log      <- [s \in Session |-> Turns(MessagesOf(s))],
    seen     <- [c \in Chat |-> IF \E m \in messages : m.by = c
                                THEN Turns(history[c]) ELSE None]

\* Each exchange happens as if alone: it is answered from the turns that come right
\* before it in the table, however chats of the session interleave.
ImplementsConversation == Memory!Spec

===============================================================================
