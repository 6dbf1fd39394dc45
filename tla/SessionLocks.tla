----------------------------- MODULE SessionLocks -----------------------------
(***************************************************************************)
(* The per-session locks of ChatService: a dictionary from session IDs to  *)
(* reference-counted entries, each with an asyncio.Lock, under the guard   *)
(* _session_locks_guard.  No coroutine ever suspends while it holds the    *)
(* guard, so what is done under it is one step.                            *)
(*                                                                         *)
(* An entry object is named after the chat that created it.  The           *)
(* asyncio.Lock of an entry is modelled from how it is used here: a queue  *)
(* of waiting tasks whose first is woken on release, and a fast path that  *)
(* does not overtake anyone waiting.                                       *)
(***************************************************************************)
EXTENDS Naturals, Sequences, FiniteSets

CONSTANTS Chat,     \* calls of ChatService.chat
          Session,  \* session IDs
          None      \* Python's None

ASSUME NoneIsNobody == None \notin Chat \cup Session

VARIABLES
    wants,      \* the session each chat is about, None before it arrives
    phase,      \* where each chat is in `async with self._session_lock(...)`
    entry,      \* the entry object each chat reserved, a local
    table,      \* self._session_locks
    references, \* the reference count of each entry object
    locked,     \* the entries whose lock is held
    waiters,    \* the tasks queued on each entry's lock, first come first
    woken       \* queued tasks whose turn has come, but that have not run yet

lockVars == <<wants, phase, entry, table, references, locked, waiters, woken>>

\* The task at the head of a queue, as a set.
First(queue) == IF queue = <<>> THEN {} ELSE {Head(queue)}

\* Slip: whoever is queued is overtaken.
FreeUnlocked(e) == e \notin locked

\* asyncio.Lock.acquire does not wait.
Free(e) == e \notin locked /\ waiters[e] = <<>>

\* deque.remove: the first c in a queue goes, and those behind it move up.
Without(queue, c) ==
    LET at == CHOOSE i \in DOMAIN queue : queue[i] = c
    IN [i \in 1..(Len(queue) - 1) |-> queue[IF i < at THEN i ELSE i + 1]]

\* _reserve_session_lock: the session's entry, or a new one.
EntryFor(c, s) == IF table[s] = None THEN c ELSE table[s]

\* _reserve_session_lock, then the start of entry.lock.acquire().
Enter(c, s) ==
    LET e == EntryFor(c, s) IN
    /\ phase[c] = "outside"
    /\ wants' = [wants EXCEPT ![c] = s]
    /\ entry' = [entry EXCEPT ![c] = e]
    /\ table' = [table EXCEPT ![s] = e]
    /\ references' = [references EXCEPT ![e] = @ + 1]
    /\ \/ /\ Free(e)
          /\ phase' = [phase EXCEPT ![c] = "inside"]
          /\ locked' = locked \cup {e}
          /\ UNCHANGED waiters
       \/ /\ ~Free(e)
          /\ phase' = [phase EXCEPT ![c] = "waiting"]
          /\ waiters' = [waiters EXCEPT ![e] = Append(@, c)]
          /\ UNCHANGED locked
    /\ UNCHANGED woken

\* A task whose turn has come runs again.
Acquire(c) ==
    /\ phase[c] = "waiting" /\ c \in woken
    /\ phase' = [phase EXCEPT ![c] = "inside"]
    /\ locked' = locked \cup {entry[c]}
    /\ waiters' = [waiters EXCEPT ![entry[c]] = Without(@, c)]
    /\ woken' = woken \ {c}
    /\ UNCHANGED <<wants, entry, table, references>>

\* Slip: a woken task that gives up keeps its turn to itself.
GiveUpSilently(c) ==
    /\ phase[c] = "waiting"
    /\ phase' = [phase EXCEPT ![c] = "releasing"]
    /\ waiters' = [waiters EXCEPT ![entry[c]] = Without(@, c)]
    /\ woken' = woken \ {c}
    /\ UNCHANGED <<wants, entry, table, references, locked>>

\* A waiting task is cancelled: it leaves the queue, passes on its turn if it had
\* it, and goes to the finally clause without the lock.
GiveUp(c) ==
    LET queue == Without(waiters[entry[c]], c) IN
    /\ phase[c] = "waiting"
    /\ phase' = [phase EXCEPT ![c] = "releasing"]
    /\ waiters' = [waiters EXCEPT ![entry[c]] = queue]
    /\ woken' = (woken \ {c}) \cup (IF entry[c] \in locked THEN {} ELSE First(queue))
    /\ UNCHANGED <<wants, entry, table, references, locked>>

\* The body is left, by return, exception or cancellation: the lock is released and
\* the first waiter woken, and the release of the reference becomes a task of its own.
Release(c) ==
    /\ phase[c] = "inside"
    /\ phase' = [phase EXCEPT ![c] = "releasing"]
    /\ locked' = locked \ {entry[c]}
    /\ woken' = woken \cup First(waiters[entry[c]])
    /\ UNCHANGED <<wants, entry, table, references, waiters>>

\* Slips: the entry goes when its lock is free; it is never removed.
LastWhenUnlocked(e) == e \notin locked
NeverLast(e) == FALSE

\* No one else has reserved the entry.
LastReference(e) == references[e] = 1

\* _release_session_lock, shielded from cancellation.
Drop(c) ==
    LET e == entry[c] IN
    /\ phase[c] = "releasing"
    /\ phase' = [phase EXCEPT ![c] = "gone"]
    /\ references' = [references EXCEPT ![e] = @ - 1]
    /\ table' = IF LastReference(e) /\ table[wants[c]] = e
                THEN [table EXCEPT ![wants[c]] = None] ELSE table
    /\ UNCHANGED <<wants, entry, locked, waiters, woken>>

\* The process ends, and its memory with it.
Forget ==
    /\ phase' = [c \in Chat |-> IF phase[c] = "outside" THEN "outside" ELSE "gone"]
    /\ table' = [s \in Session |-> None]
    /\ references' = [e \in Chat |-> 0]
    /\ locked' = {} /\ woken' = {}
    /\ waiters' = [e \in Chat |-> <<>>]
    /\ UNCHANGED <<wants, entry>>

LocksInit ==
    /\ wants = [c \in Chat |-> None]
    /\ phase = [c \in Chat |-> "outside"]
    /\ entry = [c \in Chat |-> None]
    /\ table = [s \in Session |-> None]
    /\ references = [e \in Chat |-> 0]
    /\ locked = {} /\ woken = {}
    /\ waiters = [e \in Chat |-> <<>>]

\* The locks under any use.
LocksNext ==
    \/ \E c \in Chat : \/ \E s \in Session : Enter(c, s)
                       \/ Acquire(c) \/ GiveUp(c) \/ Release(c) \/ Drop(c)
    \/ Forget

LocksSpec == LocksInit /\ [][LocksNext]_lockVars

-------------------------------------------------------------------------------
(* Properties *)

Using == {c \in Chat : phase[c] \in {"waiting", "inside", "releasing"}}
Users(e) == {c \in Using : entry[c] = e}

\* Every variable keeps its type.
LocksTypeOK ==
    /\ wants \in [Chat -> Session \cup {None}]
    /\ phase \in [Chat -> {"outside", "waiting", "inside", "releasing", "gone"}]
    /\ entry \in [Chat -> Chat \cup {None}]
    /\ table \in [Session -> Chat \cup {None}]
    /\ references \in [Chat -> Nat]
    /\ locked \subseteq Chat
    /\ waiters \in [Chat -> Seq(Chat)]
    /\ woken \subseteq Chat

\* One chat at a time per session, although entries are deleted and created again
\* while chats come, wait, give up and go (_session_lock, lines 394-424).
OneChatPerSession ==
    \A c, d \in Chat :
        (phase[c] = "inside" /\ phase[d] = "inside" /\ wants[c] = wants[d]) => c = d

\* The dictionary holds exactly the entries in use: whoever is using a session's
\* lock is using the entry the next caller will find, an entry counts its users,
\* and one that has none left is gone.
TableIsExact ==
    /\ \A c \in Using : table[wants[c]] = entry[c]
    /\ \A s \in Session : table[s] # None =>
           /\ references[table[s]] = Cardinality(Users(table[s]))
           /\ Users(table[s]) # {}

\* No wake-up is lost: as long as someone is queued on a lock, it is held by a chat
\* that has yet to release it, or the first in the queue has been woken.
SomeoneMoves ==
    \A e \in Chat : waiters[e] # <<>> =>
        \/ \E c \in Chat : phase[c] = "inside" /\ entry[c] = e /\ e \in locked
        \/ e \notin locked /\ Head(waiters[e]) \in woken

\* No newcomer enters a session ahead of a chat that was already waiting for it.
NobodyOvertakes ==
    [][\A c, d \in Chat :
          (phase[d] = "waiting" /\ phase[c] = "outside" /\ phase'[c] = "inside")
              => wants'[c] # wants[d]]_lockVars

\* Whoever waits gets the lock or gives up, or the process ends.
WaitersAreServed ==
    \A c \in Chat : phase[c] = "waiting" ~> phase[c] # "waiting"

===============================================================================
