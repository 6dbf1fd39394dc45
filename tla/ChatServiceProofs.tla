--------------------------- MODULE ChatServiceProofs ---------------------------
(***************************************************************************)
(* Proofs about ChatService, for any number of chats and sessions and any  *)
(* history limit.                                                          *)
(***************************************************************************)
EXTENDS ChatService, SessionLocksProofs

-------------------------------------------------------------------------------
(* The invariant *)

\* Where a chat is in its body says where it is with the lock of its session.
StageOK(c) ==
    /\ stage[c] = "idle" => phase[c] = "outside" /\ wants[c] = None /\ c \notin creating
    /\ stage[c] = "load" => phase[c] \in {"waiting", "inside"}
    /\ stage[c] \in {"tool", "provider"} => phase[c] = "inside"
    /\ stage[c] = "leaving" => phase[c] = "releasing"
    /\ stage[c] = "answered" => phase[c] = "gone"
    /\ stage[c] = "lost" => phase[c] \in {"releasing", "gone"}
    /\ stage[c] # "idle" => wants[c] \in Session

\* A chat that has not left has no messages; one that is leaving has just what it says.
OriginOK(c) ==
    /\ stage[c] \in {"idle", "load", "tool", "provider"} => \A m \in messages : m.by # c
    /\ stage[c] \in {"leaving", "answered"} =>
           (verdict[c] = "ok" <=> \E m \in messages : m.by = c)

\* What a chat that is about to answer has loaded is still what the table holds, and
\* the session it creates is nobody else's.
FreshOK(c) ==
    /\ stage[c] \in {"tool", "provider"} =>
           /\ history[c] = Recent(wants[c])
           /\ c \in creating \/ wants[c] \in sessions
    /\ stage[c] \in {"load", "tool", "provider"} /\ c \in creating =>
           wants[c] \notin sessions /\ \A d \in Chat : wants[d] = wants[c] => d = c

ShownOK(c) == \A m \in history[c] : m.role = "assistant" =>
    \E k \in history[c] : k.role = "user" /\ k.sequence = m.sequence - 1

ChatOK(c) == StageOK(c) /\ OriginOK(c) /\ FreshOK(c) /\ ShownOK(c)

\* A session is whole turns, finitely many, and no sequence number is used twice.
TurnsInv ==
    /\ SessionsAreWholeTurns
    /\ \A s \in Session : /\ IsFiniteSet(MessagesOf(s))
                          /\ \A m, k \in MessagesOf(s) : m.sequence = k.sequence => m = k

ChatInv == ChatTypeOK /\ LocksInv /\ TurnsInv /\ \A c \in Chat : ChatOK(c)

-------------------------------------------------------------------------------
(* The tables *)

\* In a session of whole turns the last message is an answer.
LEMMA SessionsAreEven ==
    ASSUME TurnsInv, NEW s \in Session
    PROVE  \E n \in Nat : /\ n = Cardinality(MessagesOf(s)) /\ n % 2 = 0
                          /\ {m.sequence : m \in MessagesOf(s)} = 1..n
<1> DEFINE used == {m.sequence : m \in MessagesOf(s)}
<1>1. PICK n \in Nat : n = Cardinality(MessagesOf(s)) /\ used = 1..n
  BY FS_CardinalityType DEF TurnsInv, SessionsAreWholeTurns
<1>2. n % 2 = 0
  <2>1. CASE n = 0
    BY <2>1
  <2>2. CASE n # 0
    <3>1. PICK m \in MessagesOf(s) : m.sequence = n
      <4>1. n \in used
        BY <1>1, <2>2
      <4>2. QED BY <4>1
    <3>2. ASSUME n % 2 = 1 PROVE FALSE
      <4>1. m.role = "user"
        BY <3>1, <3>2 DEF TurnsInv, SessionsAreWholeTurns
      <4>2. PICK k \in MessagesOf(s) : k.sequence = m.sequence + 1
        BY <4>1 DEF TurnsInv, SessionsAreWholeTurns
      <4>3. n + 1 \in used
        BY <3>1, <4>2
      <4> HIDE DEF used
      <4>4. QED BY <1>1, <4>3
    <3>3. QED BY <3>2
  <2>3. QED BY <2>1, <2>2
<1>3. QED BY <1>1, <1>2

\* The next turn of a session of whole turns gets the two numbers after the last.
LEMMA NextTurnFollows ==
    ASSUME TurnsInv, NEW c \in Chat, wants[c] \in Session
    PROVE  \E n \in Nat : /\ n = Cardinality(MessagesOf(wants[c])) /\ n % 2 = 0
                          /\ {m.sequence : m \in MessagesOf(wants[c])} = 1..n
                          /\ NextSequence(c) = n + 1
<1> DEFINE s == wants[c]
           used == {m.sequence : m \in MessagesOf(s)}
<1>1. PICK n \in Nat : n = Cardinality(MessagesOf(s)) /\ n % 2 = 0 /\ used = 1..n
  BY SessionsAreEven
<1>2. NextSequence(c) = n + 1
  <2>1. NextSequence(c) =
          CHOOSE x \in {1} \cup {u + 1 : u \in 1..n} : \A u \in 1..n : u < x
    BY <1>1, Zenon DEF NextSequence
  <2>2. n + 1 \in {1} \cup {u + 1 : u \in 1..n} /\ \A u \in 1..n : u < n + 1
    BY <1>1
  <2>3. \A x \in {1} \cup {u + 1 : u \in 1..n} : (\A u \in 1..n : u < x) => x = n + 1
    BY <1>1
  <2>4. QED BY <2>1, <2>2, <2>3
<1>3. QED BY <1>1, <1>2

\* Whatever the limit cuts off, no answer is loaded without its question.
LEMMA RecentIsWholeTurns ==
    ASSUME TurnsInv, messages \subseteq Message, NEW s \in Session,
           NEW m \in Recent(s), m.role = "assistant"
    PROVE  \E k \in Recent(s) : k.role = "user" /\ k.sequence = m.sequence - 1
<1> DEFINE rows == MessagesOf(s)
           after(k) == {l \in rows : l.sequence > k.sequence}
<1>1. /\ m \in rows /\ m.sequence \in Nat \ {0}
      /\ \E k \in rows : Cardinality(after(k)) < HistoryLimit /\ k.sequence < m.sequence
  BY DEF Recent, Newest, MessagesOf, Message
<1>2. PICK k \in rows : Cardinality(after(k)) < HistoryLimit /\ k.sequence < m.sequence
  BY <1>1
<1>3. PICK u \in rows : u.sequence = m.sequence - 1
  <2>1. PICK n \in Nat : {l.sequence : l \in rows} = 1..n
    BY FS_CardinalityType DEF TurnsInv, SessionsAreWholeTurns
  <2>2. m.sequence \in 1..n /\ k.sequence \in 1..n
    BY <1>1, <2>1
  <2>3. m.sequence - 1 \in 1..n
    BY <1>2, <2>2
  <2>4. QED BY <2>1, <2>3
<1>4. u.role = "user"
  <2>1. m.sequence % 2 # 1
    BY <1>1 DEF TurnsInv, SessionsAreWholeTurns
  <2>2. u.sequence % 2 = 1
    BY <1>1, <1>3, <2>1
  <2>3. QED BY <2>2 DEF TurnsInv, SessionsAreWholeTurns
<1>5. Cardinality(after(u)) < HistoryLimit
  <2>1. \A l \in rows : l.sequence \in Nat
    BY DEF MessagesOf, Message
  <2>2. after(u) \subseteq after(k) /\ after(k) \subseteq rows
    BY <1>1, <1>2, <1>3, <2>1
  <2>3. IsFiniteSet(rows)
    BY DEF TurnsInv
  <2> HIDE DEF after, rows
  <2>4. IsFiniteSet(after(k))
    BY <2>2, <2>3, FS_Subset
  <2>5. /\ Cardinality(after(u)) <= Cardinality(after(k))
        /\ Cardinality(after(u)) \in Nat /\ Cardinality(after(k)) \in Nat
    BY <2>2, <2>4, FS_Subset, FS_CardinalityType
  <2>6. QED BY <1>2, <2>5, ChatConstantsOK
<1>6. u \in Recent(s)
  BY <1>4, <1>5 DEF Recent, Newest
<1>7. QED BY <1>3, <1>4, <1>6

\* What has no messages has no recent ones.
LEMMA NothingIsRecent ==
    ASSUME NEW s, MessagesOf(s) = {}
    PROVE  Recent(s) = {}
  BY DEF Recent, Newest

\* A turn that is appended makes a session of whole turns longer by one, and leaves the
\* others as they are.
LEMMA AppendAddsTurn ==
    ASSUME TurnsInv, messages \subseteq Message, sessions \subseteq Session,
           NEW c \in Chat, wants[c] \in Session, AppendTurn(c)
    PROVE  /\ TurnsInv' /\ messages' \subseteq Message /\ sessions' \subseteq Session
           /\ \A t \in Session \ {wants[c]} : MessagesOf(t)' = MessagesOf(t)
           /\ \A m \in messages' \ messages : m.by = c
           /\ \E m \in messages' : m.by = c
           /\ \E question, answer :
                /\ \A t \in Session : t = wants[c] =>
                       MessagesOf(t)' = MessagesOf(t) \cup {question, answer}
                /\ question.role = "user" /\ answer.role = "assistant" /\ question.by = c
                /\ question.sequence = Cardinality(MessagesOf(wants[c])) + 1
<1> DEFINE s == wants[c]
<1>1. PICK n \in Nat : /\ n = Cardinality(MessagesOf(s)) /\ n % 2 = 0
                       /\ {m.sequence : m \in MessagesOf(s)} = 1..n
                       /\ NextSequence(c) = n + 1
  BY NextTurnFollows
<1> DEFINE question == [session |-> s, sequence |-> n + 1, role |-> "user", by |-> c]
           answer   == [session |-> s, sequence |-> n + 2, role |-> "assistant", by |-> c]
<1>2. /\ messages' = messages \cup {question, answer}
      /\ sessions' = sessions \cup {s}
  BY <1>1 DEF AppendTurn, TurnOf
<1>3. question \in Message /\ answer \in Message
  BY <1>1 DEF Message
<1>4. /\ question.session = s /\ question.sequence = n + 1 /\ question.role = "user"
      /\ answer.session = s /\ answer.sequence = n + 2 /\ answer.role = "assistant"
      /\ question.by = c /\ answer.by = c
  OBVIOUS
<1> HIDE DEF question, answer
<1>5. \A m \in MessagesOf(s) : m.sequence \in 1..n
  BY <1>1
<1>6. question \notin MessagesOf(s) /\ answer \notin MessagesOf(s) \cup {question}
  BY <1>4, <1>5
<1>7. \A t \in Session : MessagesOf(t)' =
          IF t = s THEN MessagesOf(s) \cup {question, answer} ELSE MessagesOf(t)
  BY <1>2, <1>4 DEF MessagesOf
<1>8. /\ IsFiniteSet(MessagesOf(s) \cup {question, answer})
      /\ Cardinality(MessagesOf(s) \cup {question, answer}) = n + 2
  <2>1. IsFiniteSet(MessagesOf(s))
    BY DEF TurnsInv
  <2> DEFINE rows == MessagesOf(s)
             more == rows \cup {question}
  <2> HIDE DEF rows, more
  <2>2. IsFiniteSet(more) /\ Cardinality(more) = n + 1
    BY <1>1, <1>6, <2>1, FS_AddElement DEF rows, more
  <2>3. IsFiniteSet(more \cup {answer}) /\ Cardinality(more \cup {answer}) = n + 2
    <3>1. answer \notin more
      BY <1>6 DEF rows, more
    <3>2. n + 1 + 1 = n + 2
      BY <1>1
    <3>3. QED BY <2>2, <3>1, <3>2, FS_AddElement
  <2>4. (MessagesOf(s) \cup {question}) \cup {answer} = MessagesOf(s) \cup {question, answer}
    OBVIOUS
  <2>5. QED BY <2>3, <2>4 DEF rows, more
<1>9. SessionsAreWholeTurns'
  <2>1. ASSUME NEW t \in Session
        PROVE  /\ {m.sequence : m \in MessagesOf(t)'} = 1..Cardinality(MessagesOf(t)')
               /\ \A m \in MessagesOf(t)' : m.role = "user" <=> m.sequence % 2 = 1
               /\ \A m \in MessagesOf(t)' : m.role = "user" =>
                      \E k \in MessagesOf(t)' : k.sequence = m.sequence + 1 /\ k.by = m.by
    <3>1. CASE t # s
      BY <3>1, <1>7 DEF TurnsInv, SessionsAreWholeTurns
    <3>2. CASE t = s
      <4> DEFINE rows == MessagesOf(s) \cup {question, answer}
      <4>1. {m.sequence : m \in rows} = 1..(n + 2)
        <5>1. {m.sequence : m \in rows} = {m.sequence : m \in MessagesOf(s)} \cup {n + 1, n + 2}
          BY <1>4
        <5>2. 1..n \cup {n + 1, n + 2} = 1..(n + 2)
          OBVIOUS
        <5>3. QED BY <1>1, <5>1, <5>2
      <4>2. \A m \in rows : m.role = "user" <=> m.sequence % 2 = 1
        <5>1. \A m \in MessagesOf(s) : m.role = "user" <=> m.sequence % 2 = 1
          BY DEF TurnsInv, SessionsAreWholeTurns
        <5>2. (n + 1) % 2 = 1 /\ (n + 2) % 2 # 1
          BY <1>1
        <5>3. QED BY <1>4, <5>1, <5>2
      <4>3. ASSUME NEW m \in rows, m.role = "user"
            PROVE  \E k \in rows : k.sequence = m.sequence + 1 /\ k.by = m.by
        <5>1. CASE m \in MessagesOf(s)
          BY <4>3, <5>1 DEF TurnsInv, SessionsAreWholeTurns
        <5>2. CASE m = question
          <6>1. answer \in rows /\ answer.sequence = m.sequence + 1 /\ answer.by = m.by
            BY <1>4, <5>2
          <6>2. QED BY <6>1
        <5>3. QED BY <4>3, <5>1, <5>2, <1>4
      <4>4. MessagesOf(t)' = rows
        BY <3>2, <1>7
      <4> HIDE DEF rows
      <4>5. Cardinality(rows) = n + 2
        BY <1>8 DEF rows
      <4>6. QED BY <4>1, <4>2, <4>3, <4>4, <4>5
    <3>3. QED BY <3>1, <3>2
  <2>2. sessions' = {m.session : m \in messages'}
    BY <1>2, <1>4 DEF TurnsInv, SessionsAreWholeTurns
  <2>3. QED BY <2>1, <2>2 DEF SessionsAreWholeTurns
<1>10. ASSUME NEW t \in Session
       PROVE  /\ IsFiniteSet(MessagesOf(t)')
              /\ \A m, k \in MessagesOf(t)' : m.sequence = k.sequence => m = k
  <2>1. CASE t # s
    BY <2>1, <1>7 DEF TurnsInv
  <2>2. CASE t = s
    <3>1. MessagesOf(t)' = MessagesOf(s) \cup {question, answer}
      BY <2>2, <1>7
    <3>2. \A m, k \in MessagesOf(s) : m.sequence = k.sequence => m = k
      BY DEF TurnsInv
    <3>3. \A m \in MessagesOf(s) : m.sequence # n + 1 /\ m.sequence # n + 2
      BY <1>5
    <3>4. \A m, k \in MessagesOf(s) \cup {question, answer} : m.sequence = k.sequence => m = k
      BY <1>4, <3>2, <3>3
    <3>5. QED BY <1>8, <3>1, <3>4
  <2>3. QED BY <2>1, <2>2
<1>11. TurnsInv'
  BY <1>9, <1>10 DEF TurnsInv
<1>12. /\ \A t \in Session : t = s => MessagesOf(t)' = MessagesOf(t) \cup {question, answer}
       /\ question.sequence = Cardinality(MessagesOf(s)) + 1
  BY <1>1, <1>4, <1>7
<1>13. QED BY <1>2, <1>3, <1>4, <1>7, <1>11, <1>12

-------------------------------------------------------------------------------
(* Each step preserves the invariant *)

\* The service uses its locks as SessionLocks says.
LEMMA StepsUseLocks == [Next]_allVars => [LocksNext]_lockVars
<1> SUFFICES ASSUME [Next]_allVars PROVE LocksNext \/ UNCHANGED lockVars
  OBVIOUS
<1>1. ASSUME NEW c \in Chat, Arrive(c) PROVE LocksNext
  BY <1>1 DEF Arrive, LocksNext
<1>2. ASSUME NEW c \in Chat, Run(c) PROVE LocksNext \/ UNCHANGED lockVars
  BY <1>2 DEF Run, Proceed, Load, UseTool, ProviderFails, Respond, Finish, Leave, LocksNext
<1>3. ASSUME NEW c \in Chat, Cancel(c) PROVE LocksNext \/ UNCHANGED lockVars
  BY <1>3 DEF Cancel, LocksNext
<1>4. CASE Restart
  BY <1>4 DEF Restart, LocksNext
<1>5. CASE UNCHANGED allVars
  BY <1>5 DEF allVars
<1>6. QED BY <1>1, <1>2, <1>3, <1>4, <1>5 DEF Next

LEMMA SameRowsSameTurns ==
    ASSUME UNCHANGED <<sessions, messages>>
    PROVE  (TurnsInv => TurnsInv') /\ \A s : Recent(s)' = Recent(s)
  BY DEF TurnsInv, SessionsAreWholeTurns, Recent, Newest, MessagesOf

\* As long as a chat takes a step that leaves the tables alone, nothing changes for the
\* others.
LEMMA OthersAreUntouched ==
    ASSUME ChatInv, NEW c \in Chat, NEW d \in Chat \ {c},
           UNCHANGED <<wants, creating, sessions, messages>>,
           phase'[d] = phase[d], stage'[d] = stage[d], history'[d] = history[d],
           verdict'[d] = verdict[d]
    PROVE  ChatOK(d)'
<1>1. ChatOK(d)
  BY DEF ChatInv
<1>2. StageOK(d)' /\ OriginOK(d)' /\ ShownOK(d)'
  BY <1>1 DEF ChatOK, StageOK, OriginOK, ShownOK
<1>3. FreshOK(d)'
  BY <1>1, SameRowsSameTurns DEF ChatOK, FreshOK
<1>4. QED BY <1>2, <1>3 DEF ChatOK

LEMMA QuietStepPreserves ==
    ASSUME ChatInv, LocksInv', NEW c \in Chat,
           UNCHANGED <<wants, creating, sessions, messages>>,
           NEW p, NEW t \in {"tool", "provider", "leaving", "answered", "load", "lost"},
           NEW h \in SUBSET Message, NEW v \in Error \cup {"ok", None},
           phase' = [phase EXCEPT ![c] = p], stage' = [stage EXCEPT ![c] = t],
           history' = [history EXCEPT ![c] = h], verdict' = [verdict EXCEPT ![c] = v],
           ChatOK(c)'
    PROVE  ChatInv'
<1>1. ChatTypeOK'
  BY DEF ChatInv, ChatTypeOK, LocksInv
<1>2. TurnsInv'
  BY SameRowsSameTurns DEF ChatInv
<1>3. ASSUME NEW d \in Chat \ {c} PROVE ChatOK(d)'
  BY OthersAreUntouched DEF ChatInv, ChatTypeOK, LocksTypeOK
<1>4. QED BY <1>1, <1>2, <1>3 DEF ChatInv

\* A chat that fails leaves no trace in the tables.
LEMMA LeavingPreserves ==
    ASSUME ChatInv, LocksInv', NEW c \in Chat, NEW v \in Error, Leave(c, v),
           stage[c] \in {"load", "tool", "provider"},
           UNCHANGED <<creating, history, sessions, messages>>
    PROVE  ChatInv'
<1>1. /\ UNCHANGED wants /\ phase' = [phase EXCEPT ![c] = "releasing"]
      /\ stage' = [stage EXCEPT ![c] = "leaving"]
      /\ verdict' = [verdict EXCEPT ![c] = v]
      /\ history' = [history EXCEPT ![c] = history[c]]
  BY DEF Leave, Release, ChatInv, ChatTypeOK
<1>2. /\ phase'[c] = "releasing" /\ stage'[c] = "leaving" /\ verdict'[c] = v
      /\ history'[c] = history[c] /\ wants'[c] = wants[c] /\ messages' = messages
  BY <1>1 DEF ChatInv, ChatTypeOK, LocksTypeOK
<1>3. ChatOK(c)
  BY DEF ChatInv
<1>4. v # "ok"
  BY DEF Error
<1>5. ChatOK(c)'
  BY <1>2, <1>3, <1>4 DEF ChatOK, StageOK, OriginOK, FreshOK, ShownOK
<1>6. history[c] \in SUBSET Message
  BY DEF ChatInv, ChatTypeOK
<1>7. QED BY <1>1, <1>5, <1>6, QuietStepPreserves

LEMMA ArrivePreserves ==
    ASSUME ChatInv, LocksInv', NEW c \in Chat, Arrive(c)
    PROVE  ChatInv'
<1>1. PICK s \in Session :
        /\ \/ /\ s \notin sessions /\ \A d \in Chat : wants[d] # s
              /\ creating' = creating \cup {c}
           \/ /\ s \in Generated => s \in Told
              /\ creating' = creating
        /\ Enter(c, s)
  BY DEF Arrive
<1>2. PICK p \in {"waiting", "inside"} : phase' = [phase EXCEPT ![c] = p]
  BY <1>1 DEF Enter
<1>3. /\ stage[c] = "idle" /\ stage' = [stage EXCEPT ![c] = "load"]
      /\ history' = history /\ verdict' = verdict /\ sessions' = sessions
      /\ messages' = messages /\ wants' = [wants EXCEPT ![c] = s]
  BY <1>1 DEF Arrive, Enter
<1>4. stage \in [Chat -> {"idle", "load", "tool", "provider", "leaving", "answered", "lost"}]
  BY DEF ChatInv, ChatTypeOK
<1>5. wants \in [Chat -> Session \cup {None}] /\ phase \in [Chat -> {"outside", "waiting", "inside", "releasing", "gone"}]
  BY DEF ChatInv, ChatTypeOK, LocksTypeOK
<1>6. ChatTypeOK'
  <2>1. stage' \in [Chat -> {"idle", "load", "tool", "provider", "leaving", "answered", "lost"}]
    BY <1>3, <1>4
  <2>2. creating' \subseteq Chat
    BY <1>1 DEF ChatInv, ChatTypeOK
  <2>3. QED BY <1>3, <2>1, <2>2 DEF ChatInv, ChatTypeOK, LocksInv
<1>7. TurnsInv' /\ \A t : Recent(t)' = Recent(t)
  BY <1>3, SameRowsSameTurns DEF ChatInv
<1>8. ChatOK(c)'
  <2>1. ChatOK(c)
    BY DEF ChatInv
  <2>2. stage'[c] = "load" /\ wants'[c] = s /\ phase'[c] \in {"waiting", "inside"} /\ history'[c] = history[c]
    BY <1>2, <1>3, <1>4, <1>5
  <2>3. StageOK(c)' /\ OriginOK(c)' /\ ShownOK(c)'
    BY <2>1, <2>2, <1>3 DEF ChatOK, StageOK, OriginOK, ShownOK
  <2>4. c \in creating' => s \notin sessions /\ \A d \in Chat : wants[d] # s
    BY <2>1, <1>1, <1>3 DEF ChatOK, StageOK
  <2>5. FreshOK(c)'
    BY <2>2, <2>4, <1>3, <1>5 DEF FreshOK
  <2>6. QED BY <2>3, <2>5 DEF ChatOK
<1>9. ASSUME NEW d \in Chat \ {c} PROVE ChatOK(d)'
  <2>1. ChatOK(d)
    BY DEF ChatInv
  <2>2. /\ stage'[d] = stage[d] /\ wants'[d] = wants[d] /\ phase'[d] = phase[d]
        /\ d \in creating' <=> d \in creating
    BY <1>1, <1>2, <1>3, <1>4, <1>5
  <2>3. StageOK(d)' /\ OriginOK(d)' /\ ShownOK(d)'
    BY <2>1, <2>2, <1>3 DEF ChatOK, StageOK, OriginOK, ShownOK
  <2>4. ASSUME stage[d] \in {"load", "tool", "provider"}, d \in creating PROVE s # wants[d]
    <3>1. SUFFICES ASSUME s \in Told, s = wants[d] PROVE FALSE
      BY <1>1, <2>4 DEF Generated
    <3>2. PICK e \in creating : stage[e] = "answered" /\ wants[e] = s
      BY <3>1 DEF Told
    <3>3. e \in Chat
      BY <3>2 DEF ChatInv, ChatTypeOK
    <3>4. e = d
      BY <2>1, <2>4, <3>1, <3>2, <3>3 DEF ChatOK, FreshOK
    <3>5. QED BY <2>4, <3>2, <3>4
  <2>5. FreshOK(d)'
    <3>1. stage[d] \in {"load", "tool", "provider"} /\ d \in creating =>
              \A e \in Chat : wants'[e] = wants[d] => e = d
      BY <2>1, <2>4, <1>3, <1>5 DEF ChatOK, FreshOK
    <3>2. QED BY <3>1, <2>1, <2>2, <1>3, <1>7 DEF ChatOK, FreshOK
  <2>6. QED BY <2>3, <2>5 DEF ChatOK
<1>10. QED BY <1>6, <1>7, <1>8, <1>9 DEF ChatInv

LEMMA ProceedPreserves ==
    ASSUME ChatInv, LocksInv', NEW c \in Chat, Proceed(c)
    PROVE  ChatInv'
<1> USE DEF ChatInv, ChatTypeOK, LocksTypeOK
<1>1. /\ phase[c] = "waiting" /\ UNCHANGED <<wants, creating, sessions, messages>>
      /\ phase' = [phase EXCEPT ![c] = "inside"] /\ stage' = [stage EXCEPT ![c] = stage[c]]
      /\ history' = [history EXCEPT ![c] = history[c]]
      /\ verdict' = [verdict EXCEPT ![c] = verdict[c]]
  BY DEF Proceed, Acquire, chatVars
<1>2. ChatOK(c)
  OBVIOUS
<1>3. stage[c] = "load"
  BY <1>1, <1>2 DEF ChatOK, StageOK
<1>4. ChatOK(c)'
  <2>1. StageOK(c)' /\ OriginOK(c)' /\ ShownOK(c)'
    BY <1>1, <1>2, <1>3 DEF ChatOK, StageOK, OriginOK, ShownOK
  <2>2. FreshOK(c)'
    BY <1>1, <1>2, <1>3 DEF ChatOK, FreshOK
  <2>3. QED BY <2>1, <2>2 DEF ChatOK
<1>5. history[c] \in SUBSET Message /\ verdict[c] \in Error \cup {"ok", None}
  OBVIOUS
<1> USE <1>1, <1>3, <1>4, <1>5
<1> HIDE DEF ChatInv, ChatTypeOK, LocksTypeOK
<1>6. QED BY QuietStepPreserves

LEMMA LoadPreserves ==
    ASSUME ChatInv, LocksInv', NEW c \in Chat, Load(c)
    PROVE  ChatInv'
<1>1. ASSUME NEW v \in Error, Leave(c, v), stage[c] = "load", UNCHANGED <<creating, history, sessions, messages>>
      PROVE  ChatInv'
  BY <1>1, LeavingPreserves
<1>2. ASSUME stage[c] = "load", phase[c] = "inside", c \in creating \/ wants[c] \in sessions,
             history' = [history EXCEPT ![c] = IF c \in creating THEN {} ELSE Recent(wants[c])],
             NEW next \in {"tool", "provider"}, stage' = [stage EXCEPT ![c] = next],
             UNCHANGED <<lockVars, verdict, creating, sessions, messages>>
      PROVE  ChatInv'
  <2>1. ChatOK(c) /\ wants[c] \in Session
    BY <1>2 DEF ChatInv, ChatOK, StageOK
  <2>2. c \in creating => Recent(wants[c]) = {}
    <3>1. c \in creating => wants[c] \notin {m.session : m \in messages}
      BY <1>2, <2>1 DEF ChatOK, FreshOK, ChatInv, TurnsInv, SessionsAreWholeTurns
    <3>2. c \in creating => MessagesOf(wants[c]) = {}
      BY <3>1 DEF MessagesOf
    <3>3. QED BY <3>2, NothingIsRecent
  <2>3. history' = [history EXCEPT ![c] = Recent(wants[c])]
    BY <1>2, <2>2
  <2>4. Recent(wants[c]) \in SUBSET Message
    BY DEF Recent, Newest, MessagesOf, ChatInv, ChatTypeOK
  <2>5. /\ stage'[c] = next /\ history'[c] = Recent(wants[c]) /\ verdict' = verdict
        /\ wants' = wants /\ phase' = phase /\ Recent(wants[c])' = Recent(wants[c])
    BY <1>2, <2>3, SameRowsSameTurns DEF lockVars, ChatInv, ChatTypeOK
  <2>6. ChatOK(c)'
    <3>1. StageOK(c)' /\ OriginOK(c)'
      BY <1>2, <2>1, <2>5 DEF ChatOK, StageOK, OriginOK
    <3>2. FreshOK(c)'
      BY <1>2, <2>1, <2>5 DEF ChatOK, FreshOK
    <3>3. ShownOK(c)'
      BY <2>1, <2>5, RecentIsWholeTurns DEF ShownOK, ChatInv, ChatTypeOK
    <3>4. QED BY <3>1, <3>2, <3>3 DEF ChatOK
  <2>7. /\ phase' = [phase EXCEPT ![c] = phase[c]] /\ verdict' = [verdict EXCEPT ![c] = verdict[c]]
        /\ verdict[c] \in Error \cup {"ok", None}
    BY <2>5 DEF ChatInv, ChatTypeOK, LocksTypeOK
  <2>8. /\ UNCHANGED <<wants, creating, sessions, messages>>
        /\ next \in {"tool", "provider", "leaving", "answered", "load", "lost"}
    BY <1>2, <2>5
  <2>9. QED BY <1>2, <2>3, <2>4, <2>6, <2>7, <2>8, QuietStepPreserves
<1>3. QED BY <1>1, <1>2 DEF Load, Error

LEMMA UseToolPreserves ==
    ASSUME ChatInv, LocksInv', NEW c \in Chat, UseTool(c)
    PROVE  ChatInv'
<1>1. CASE Leave(c, "tool_error")
  BY <1>1, LeavingPreserves DEF UseTool, Error
<1>2. CASE stage' = [stage EXCEPT ![c] = "provider"] /\ UNCHANGED <<lockVars, verdict>>
  <2> USE DEF ChatInv, ChatTypeOK, LocksTypeOK
  <2>1. /\ UNCHANGED <<wants, creating, sessions, messages>>
        /\ phase' = [phase EXCEPT ![c] = phase[c]]
        /\ history' = [history EXCEPT ![c] = history[c]]
        /\ verdict' = [verdict EXCEPT ![c] = verdict[c]]
        /\ stage'[c] = "provider" /\ stage[c] = "tool"
    BY <1>2 DEF UseTool, lockVars
  <2>2. ChatOK(c)
    OBVIOUS
  <2>3. StageOK(c)' /\ OriginOK(c)' /\ ShownOK(c)'
    BY <2>1, <2>2 DEF ChatOK, StageOK, OriginOK, ShownOK
  <2>4. FreshOK(c)'
    BY <2>1, <2>2, SameRowsSameTurns DEF ChatOK, FreshOK
  <2>5. history[c] \in SUBSET Message /\ verdict[c] \in Error \cup {"ok", None}
    OBVIOUS
  <2>6. ChatOK(c)'
    BY <2>3, <2>4 DEF ChatOK
  <2> HIDE DEF ChatInv, ChatTypeOK, LocksTypeOK
  <2>7. QED BY <1>2, <2>1, <2>5, <2>6, QuietStepPreserves
<1>3. QED BY <1>1, <1>2 DEF UseTool

\* The one step that adds to the tables: the turn goes where no other chat is looking.
LEMMA AnswerPreserves ==
    ASSUME ChatInv, LocksInv', NEW c \in Chat, stage[c] = "provider", Leave(c, "ok"),
           AppendTurn(c), UNCHANGED <<creating, history>>
    PROVE  ChatInv'
<1>1. /\ UNCHANGED <<wants, creating, history>> /\ phase' = [phase EXCEPT ![c] = "releasing"]
      /\ stage' = [stage EXCEPT ![c] = "leaving"]
      /\ verdict' = [verdict EXCEPT ![c] = "ok"]
      /\ phase[c] = "inside"
  BY DEF Leave, Release
<1>2. ChatOK(c) /\ wants[c] \in Session
  BY DEF ChatInv, ChatOK, StageOK
<1>3. /\ TurnsInv' /\ messages' \subseteq Message /\ sessions' \subseteq Session
      /\ \A t \in Session \ {wants[c]} : MessagesOf(t)' = MessagesOf(t)
      /\ \A m \in messages' \ messages : m.by = c
      /\ \E m \in messages' : m.by = c
  BY <1>2, AppendAddsTurn DEF ChatInv, ChatTypeOK
<1>4. sessions' = sessions \cup {wants[c]} /\ messages \subseteq messages'
  BY DEF AppendTurn
<1>5. ChatTypeOK'
  BY <1>1, <1>3 DEF ChatInv, ChatTypeOK, LocksInv
<1>6. ChatOK(c)'
  <2>1. /\ stage'[c] = "leaving" /\ verdict'[c] = "ok" /\ phase'[c] = "releasing"
        /\ history'[c] = history[c] /\ wants'[c] = wants[c]
    BY <1>1 DEF ChatInv, ChatTypeOK, LocksTypeOK
  <2>2. QED BY <2>1, <1>2, <1>3 DEF ChatOK, StageOK, OriginOK, FreshOK, ShownOK
<1>7. ASSUME NEW d \in Chat \ {c} PROVE ChatOK(d)'
  <2>1. ChatOK(d)
    BY DEF ChatInv
  <2>2. /\ stage'[d] = stage[d] /\ verdict'[d] = verdict[d] /\ phase'[d] = phase[d]
        /\ history'[d] = history[d] /\ wants'[d] = wants[d]
    BY <1>1 DEF ChatInv, ChatTypeOK, LocksTypeOK
  <2>3. (\E m \in messages' : m.by = d) <=> (\E m \in messages : m.by = d)
    BY <1>3, <1>4
  <2>4. StageOK(d)' /\ OriginOK(d)' /\ ShownOK(d)'
    BY <2>1, <2>2, <2>3, <1>1 DEF ChatOK, StageOK, OriginOK, ShownOK
  <2>5. ASSUME stage[d] \in {"tool", "provider"} PROVE Recent(wants[d])' = Recent(wants[d])
    <3>1. wants[d] # wants[c] /\ wants[d] \in Session
      BY <2>1, <2>5, <1>1, InvariantSuffices DEF ChatInv, OneChatPerSession, ChatOK, StageOK
    <3>2. PICK t \in Session \ {wants[c]} : t = wants[d]
      BY <3>1
    <3>3. MessagesOf(t)' = MessagesOf(t)
      BY <1>3
    <3>4. Recent(t)' = Recent(t)
      BY <3>3 DEF Recent, Newest
    <3>5. QED BY <3>2, <3>4, <1>1
  <2>6. ASSUME stage[d] \in {"load", "tool", "provider"}, d \in creating PROVE wants[d] # wants[c]
    BY <2>1, <2>6 DEF ChatOK, FreshOK
  <2>7. FreshOK(d)'
    BY <2>1, <2>2, <2>5, <2>6, <1>1, <1>4 DEF ChatOK, FreshOK
  <2>8. QED BY <2>4, <2>7 DEF ChatOK
<1>8. QED BY <1>3, <1>5, <1>6, <1>7 DEF ChatInv

LEMMA RespondPreserves ==
    ASSUME ChatInv, LocksInv', NEW c \in Chat, Respond(c)
    PROVE  ChatInv'
<1>1. CASE Leave(c, "ok") /\ AppendTurn(c)
  BY <1>1, AnswerPreserves DEF Respond
<1>2. CASE Leave(c, "persistence_error") /\ TurnRolledBack(c)
  BY <1>2, LeavingPreserves DEF Respond, TurnRolledBack, Error
<1>3. QED BY <1>1, <1>2 DEF Respond

LEMMA FinishPreserves ==
    ASSUME ChatInv, LocksInv', NEW c \in Chat, Finish(c)
    PROVE  ChatInv'
<1> DEFINE t == IF stage[c] = "leaving" THEN "answered" ELSE stage[c]
<1>1. /\ phase[c] = "releasing" /\ UNCHANGED <<wants, creating, sessions, messages, history, verdict>>
      /\ phase' = [phase EXCEPT ![c] = "gone"]
      /\ stage' = [stage EXCEPT ![c] = t]
  BY DEF Finish, Drop
<1>2. ChatOK(c)
  BY DEF ChatInv
<1>3. stage[c] \in {"leaving", "lost"}
  BY <1>1, <1>2 DEF ChatInv, ChatTypeOK, ChatOK, StageOK
<1>4. /\ t \in {"answered", "lost"}
      /\ stage[c] = "leaving" <=> t = "answered"
      /\ stage'[c] = t /\ phase'[c] = "gone"
  BY <1>1, <1>3 DEF ChatInv, ChatTypeOK, LocksTypeOK
<1> HIDE DEF t
<1>5. ChatOK(c)'
  BY <1>1, <1>2, <1>3, <1>4 DEF ChatOK, StageOK, OriginOK, FreshOK, ShownOK
<1>6. /\ history' = [history EXCEPT ![c] = history[c]] /\ verdict' = [verdict EXCEPT ![c] = verdict[c]]
      /\ history[c] \in SUBSET Message /\ verdict[c] \in Error \cup {"ok", None}
  BY <1>1 DEF ChatInv, ChatTypeOK
<1>7. QED BY <1>1, <1>4, <1>5, <1>6, QuietStepPreserves

LEMMA CancelPreserves ==
    ASSUME ChatInv, LocksInv', NEW c \in Chat, Cancel(c)
    PROVE  ChatInv'
<1>1. PICK p \in {"releasing"} : phase' = [phase EXCEPT ![c] = p]
  <2>1. stage[c] = "leaving" => phase[c] = "releasing"
    BY DEF ChatInv, ChatOK, StageOK
  <2>2. QED BY <2>1 DEF Cancel, GiveUp, Release, lockVars, ChatInv, ChatTypeOK, LocksTypeOK
<1>2. /\ UNCHANGED <<wants, creating, sessions, messages, history, verdict>>
      /\ stage[c] \in {"load", "tool", "provider", "leaving"}
      /\ stage' = [stage EXCEPT ![c] = "lost"]
  BY DEF Cancel, GiveUp, Release, lockVars
<1>3. ChatOK(c)
  BY DEF ChatInv
<1>4. stage'[c] = "lost" /\ phase'[c] = "releasing"
  BY <1>1, <1>2 DEF ChatInv, ChatTypeOK, LocksTypeOK
<1>5. ChatOK(c)'
  BY <1>2, <1>3, <1>4 DEF ChatOK, StageOK, OriginOK, FreshOK, ShownOK
<1>6. /\ history' = [history EXCEPT ![c] = history[c]] /\ verdict' = [verdict EXCEPT ![c] = verdict[c]]
      /\ history[c] \in SUBSET Message /\ verdict[c] \in Error \cup {"ok", None}
  BY <1>2 DEF ChatInv, ChatTypeOK
<1>7. QED BY <1>1, <1>2, <1>5, <1>6, QuietStepPreserves

LEMMA RestartPreserves ==
    ASSUME ChatInv, LocksInv', Restart
    PROVE  ChatInv'
<1>1. /\ UNCHANGED <<wants, creating, sessions, messages, history, verdict>>
      /\ stage' = [c \in Chat |-> IF stage[c] \in {"idle", "answered"} THEN stage[c] ELSE "lost"]
      /\ phase' = [c \in Chat |-> IF phase[c] = "outside" THEN "outside" ELSE "gone"]
  BY DEF Restart, Forget
<1>2. ChatTypeOK'
  <2>1. stage' \in [Chat -> {"idle", "load", "tool", "provider", "leaving", "answered", "lost"}]
    BY <1>1
  <2>2. QED BY <1>1, <2>1 DEF ChatInv, ChatTypeOK, LocksInv
<1>3. TurnsInv'
  BY <1>1, SameRowsSameTurns DEF ChatInv
<1>4. ASSUME NEW c \in Chat PROVE ChatOK(c)'
  <2>1. ChatOK(c)
    BY DEF ChatInv
  <2>2. /\ stage'[c] = IF stage[c] \in {"idle", "answered"} THEN stage[c] ELSE "lost"
        /\ phase'[c] = IF phase[c] = "outside" THEN "outside" ELSE "gone"
        /\ stage[c] \in {"idle", "load", "tool", "provider", "leaving", "answered", "lost"}
    BY <1>1 DEF ChatInv, ChatTypeOK
  <2>3. QED BY <1>1, <2>1, <2>2 DEF ChatOK, StageOK, OriginOK, FreshOK, ShownOK
<1>5. QED BY <1>2, <1>3, <1>4 DEF ChatInv

LEMMA ChatStepPreserves == ChatInv /\ [Next]_allVars => ChatInv'
<1> SUFFICES ASSUME ChatInv, [Next]_allVars PROVE ChatInv'
  OBVIOUS
<1>1. LocksInv'
  BY StepsUseLocks, NextPreserves DEF ChatInv
<1>2. ASSUME NEW c \in Chat, Arrive(c) PROVE ChatInv'
  BY <1>1, <1>2, ArrivePreserves
<1>3. ASSUME NEW c \in Chat, Run(c) PROVE ChatInv'
  <2>1. CASE Proceed(c)
    BY <1>1, <2>1, ProceedPreserves
  <2>2. CASE Load(c)
    BY <1>1, <2>2, LoadPreserves
  <2>3. CASE UseTool(c)
    BY <1>1, <2>3, UseToolPreserves
  <2>4. CASE ProviderFails(c)
    BY <1>1, <2>4, LeavingPreserves DEF ProviderFails, Error
  <2>5. CASE Respond(c)
    BY <1>1, <2>5, RespondPreserves
  <2>6. CASE Finish(c)
    BY <1>1, <2>6, FinishPreserves
  <2>7. QED BY <1>3, <2>1, <2>2, <2>3, <2>4, <2>5, <2>6 DEF Run
<1>4. ASSUME NEW c \in Chat, Cancel(c) PROVE ChatInv'
  BY <1>1, <1>4, CancelPreserves
<1>5. CASE Restart
  BY <1>1, <1>5, RestartPreserves
<1>6. CASE UNCHANGED allVars
  <2> USE <1>6 DEF allVars, chatVars, lockVars
  <2>1. TurnsInv'
    BY SameRowsSameTurns DEF ChatInv
  <2>2. ASSUME NEW c \in Chat PROVE ChatOK(c)'
    <3>1. Recent(wants[c])' = Recent(wants[c])
      BY SameRowsSameTurns
    <3>2. ChatOK(c)
      BY DEF ChatInv
    <3>3. QED BY <3>1, <3>2 DEF ChatOK, StageOK, OriginOK, FreshOK, ShownOK
  <2>3. ChatTypeOK'
    BY <1>1 DEF ChatInv, ChatTypeOK, LocksInv
  <2>4. QED BY <1>1, <2>1, <2>2, <2>3 DEF ChatInv
<1>7. QED BY <1>2, <1>3, <1>4, <1>5, <1>6 DEF Next

\* What the database holds at the start is one whole turn per old session.
LEMMA StartsWithWholeTurns ==
    ASSUME Init
    PROVE  ChatInv
<1> DEFINE question(s) == [session |-> s, sequence |-> 1, role |-> "user", by |-> None]
           answer(s)   == [session |-> s, sequence |-> 2, role |-> "assistant", by |-> None]
<1>1. messages = {question(s) : s \in Old} \cup {answer(s) : s \in Old}
  BY DEF Init
<1>2. LocksInv
  BY InitEstablishes DEF Init
<1>3. ASSUME NEW s \in Old PROVE MessagesOf(s) = {question(s), answer(s)}
  BY <1>1 DEF MessagesOf
<1>4. ASSUME NEW s \in Session \ Old PROVE MessagesOf(s) = {}
  BY <1>1 DEF MessagesOf
<1>5. ASSUME NEW s \in Session
      PROVE  /\ {m.sequence : m \in MessagesOf(s)} = 1..Cardinality(MessagesOf(s))
             /\ \A m \in MessagesOf(s) : m.role = "user" <=> m.sequence % 2 = 1
             /\ \A m \in MessagesOf(s) : m.role = "user" =>
                    \E k \in MessagesOf(s) : k.sequence = m.sequence + 1 /\ k.by = m.by
             /\ IsFiniteSet(MessagesOf(s))
             /\ \A m, k \in MessagesOf(s) : m.sequence = k.sequence => m = k
  <2>1. CASE s \in Old
    <3> DEFINE rows == {question(s), answer(s)}
    <3>1. IsFiniteSet(rows) /\ Cardinality(rows) = 2
      <4>1. question(s) # answer(s)
        <5>1. question(s).sequence = 1 /\ answer(s).sequence = 2
          OBVIOUS
        <5>2. QED BY <5>1
      <4>2. IsFiniteSet({question(s)}) /\ Cardinality({question(s)}) = 1
        BY FS_Singleton
      <4>3. IsFiniteSet({question(s)} \cup {answer(s)}) /\ Cardinality({question(s)} \cup {answer(s)}) = 1 + 1
        BY <4>1, <4>2, FS_AddElement
      <4>4. {question(s)} \cup {answer(s)} = rows
        OBVIOUS
      <4>5. QED BY <4>3, <4>4
    <3>2. /\ {m.sequence : m \in rows} = 1..2
          /\ \A m \in rows : m.role = "user" <=> m.sequence % 2 = 1
          /\ \A m \in rows : m.role = "user" =>
                 \E k \in rows : k.sequence = m.sequence + 1 /\ k.by = m.by
          /\ \A m, k \in rows : m.sequence = k.sequence => m = k
      OBVIOUS
    <3>3. MessagesOf(s) = rows
      BY <2>1, <1>3
    <3> HIDE DEF rows
    <3>4. QED BY <3>1, <3>2, <3>3
  <2>2. CASE s \notin Old
    BY <2>2, <1>4, FS_EmptySet
  <2>3. QED BY <2>1, <2>2
<1>6. TurnsInv
  <2>1. sessions = {m.session : m \in messages}
    <3>1. \A s \in Old : question(s).session = s /\ answer(s).session = s
      OBVIOUS
    <3> HIDE DEF question, answer
    <3>2. QED BY <1>1, <3>1 DEF Init
  <2>2. QED BY <1>5, <2>1 DEF TurnsInv, SessionsAreWholeTurns
<1>7. ChatTypeOK
  <2>1. ASSUME NEW s \in Old PROVE question(s) \in Message /\ answer(s) \in Message
    BY ChatConstantsOK DEF Message
  <2>2. messages \subseteq Message
    BY <1>1, <2>1
  <2>3. QED BY <1>2, <2>2, ChatConstantsOK DEF Init, ChatTypeOK, LocksInv
<1>8. ASSUME NEW c \in Chat PROVE ChatOK(c)
  <2>1. \A m \in messages : m.by # c
    BY <1>1, NoneIsNobody
  <2>2. stage[c] = "idle" /\ phase[c] = "outside" /\ wants[c] = None /\ history[c] = {} /\ creating = {}
    BY DEF Init, LocksInit
  <2>3. QED BY <2>1, <2>2 DEF ChatOK, StageOK, OriginOK, FreshOK, ShownOK
<1>9. QED BY <1>2, <1>6, <1>7, <1>8 DEF ChatInv

LEMMA ChatInductive == Spec => []ChatInv
<1>1. Init => ChatInv
  BY StartsWithWholeTurns
<1>2. QED BY <1>1, ChatStepPreserves, PTL DEF Spec

-------------------------------------------------------------------------------
(* What follows *)

LEMMA ChatInvSuffices ==
    ChatInv => ChatTypeOK /\ SessionsAreWholeTurns /\ AnswersTellTheTruth /\ HistoryIsWholeTurns
<1> SUFFICES ASSUME ChatInv
             PROVE  ChatTypeOK /\ SessionsAreWholeTurns /\ AnswersTellTheTruth /\ HistoryIsWholeTurns
  OBVIOUS
<1>1. AnswersTellTheTruth
  BY DEF ChatInv, ChatOK, OriginOK, AnswersTellTheTruth
<1>2. HistoryIsWholeTurns
  BY DEF ChatInv, ChatOK, ShownOK, HistoryIsWholeTurns
<1>3. QED BY <1>1, <1>2 DEF ChatInv, TurnsInv

\* Every variable of the chat service keeps its type.
THEOREM ChatTypeCorrect == Spec => []ChatTypeOK
<1>1. QED BY ChatInductive, ChatInvSuffices, PTL

\* However chats of a session interleave, fail, are cancelled or are interrupted, what
\* the tables hold is whole turns, numbered without a gap (append_successful_turn).
THEOREM OnlyWholeTurnsArePersisted == Spec => []SessionsAreWholeTurns
<1>1. QED BY ChatInductive, ChatInvSuffices, PTL

\* A chat that is answered is told "ok" exactly if its turn is in the table.
THEOREM FailedTurnsAreForgotten == Spec => []AnswersTellTheTruth
<1>1. QED BY ChatInductive, ChatInvSuffices, PTL

\* Whatever the history limit, the provider is shown no answer without its question
\* (load_recent_messages).
THEOREM OnlyWholeTurnsAreShown == Spec => []HistoryIsWholeTurns
<1>1. QED BY ChatInductive, ChatInvSuffices, PTL

\* The chat service uses the locks of SessionLocks as any client may: all that is proved
\* of them holds of it.
THEOREM ServiceUsesLocks == Spec => LocksSpec
<1>1. Init => LocksInit
  BY DEF Init
<1>2. QED BY <1>1, StepsUseLocks, PTL DEF Spec, LocksSpec

===============================================================================
