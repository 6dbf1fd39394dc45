-------------------------- MODULE SessionLocksProofs --------------------------
(***************************************************************************)
(* Proofs about SessionLocks, for any number of chats and sessions.        *)
(***************************************************************************)
EXTENDS SessionLocks, FiniteSetTheorems, SequenceTheorems, TLAPS

-------------------------------------------------------------------------------
(* The invariant *)

Positions(e) == 1..Len(waiters[e])

\* Whoever uses a session's lock uses the entry in the table, and an entry in the
\* table counts its users, who are all there for that session.
TableInv ==
    /\ \A c \in Using : wants[c] \in Session /\ entry[c] \in Chat /\ table[wants[c]] = entry[c]
    /\ \A s \in Session, e \in Chat : table[s] = e =>
           /\ IsFiniteSet(Users(e)) /\ references[e] = Cardinality(Users(e))
           /\ Users(e) # {}
           /\ \A c \in Users(e) : wants[c] = s

\* The entry that a chat may yet create does not exist.
FreshInv == \A c \in Chat : phase[c] = "outside" =>
    /\ references[c] = 0 /\ c \notin locked /\ waiters[c] = <<>>
    /\ \A s \in Session : table[s] # c

\* A lock is held by the one chat that is inside with its entry.
HeldInv ==
    /\ \A e \in locked : \E c \in Chat : phase[c] = "inside" /\ entry[c] = e
    /\ \A c \in Chat : phase[c] = "inside" => entry[c] \in locked
    /\ \A c, d \in Chat :
           phase[c] = "inside" /\ phase[d] = "inside" /\ entry[c] = entry[d] => c = d

\* The queue of an entry is the chats that wait for it, each once.
QueueInv ==
    /\ \A e \in Chat : \A i \in Positions(e) :
           phase[waiters[e][i]] = "waiting" /\ entry[waiters[e][i]] = e
    /\ \A e \in Chat : \A i, j \in Positions(e) : waiters[e][i] = waiters[e][j] => i = j
    /\ \A c \in Chat : phase[c] = "waiting" =>
           \E i \in Positions(entry[c]) : waiters[entry[c]][i] = c

\* Only the head of the queue of a free lock is woken, and it is.
WokenInv ==
    /\ \A c \in woken : /\ phase[c] = "waiting" /\ entry[c] \notin locked
                        /\ waiters[entry[c]] # <<>> /\ Head(waiters[entry[c]]) = c
    /\ \A e \in Chat : waiters[e] # <<>> /\ e \notin locked => Head(waiters[e]) \in woken

LocksInv == LocksTypeOK /\ TableInv /\ FreshInv /\ HeldInv /\ QueueInv /\ WokenInv

-------------------------------------------------------------------------------
(* Queues *)

NoRepetition(q) == \A i, j \in 1..Len(q) : q[i] = q[j] => i = j

\* Who leaves a queue that it stands in once is no longer in it, everybody else is, and
\* the head stays unless it was the head that left.
LEMMA WithoutRemoves ==
    ASSUME NEW q \in Seq(Chat), NoRepetition(q), NEW k \in 1..Len(q)
    PROVE  LET w == Without(q, q[k]) IN
           /\ w \in Seq(Chat)
           /\ NoRepetition(w)
           /\ \A i \in 1..Len(w) : \E j \in 1..Len(q) : w[i] = q[j] /\ q[j] # q[k]
           /\ \A j \in 1..Len(q) : q[j] # q[k] => \E i \in 1..Len(w) : w[i] = q[j]
           /\ k # 1 => w # <<>> /\ Head(w) = Head(q)
<1> DEFINE at == CHOOSE i \in DOMAIN q : q[i] = q[k]
           w  == Without(q, q[k])
<1>1. at = k
  BY DEF NoRepetition
<1>2. w = [i \in 1..(Len(q) - 1) |-> q[IF i < k THEN i ELSE i + 1]]
  BY <1>1 DEF Without
<1> HIDE DEF at, w
<1>3. Len(q) - 1 \in Nat /\ \A i \in 1..(Len(q) - 1) : (IF i < k THEN i ELSE i + 1) \in 1..Len(q)
  OBVIOUS
<1>4. w \in Seq(Chat) /\ Len(w) = Len(q) - 1
  BY <1>2, <1>3
<1>5. \A i \in 1..(Len(q) - 1) : w[i] = q[IF i < k THEN i ELSE i + 1]
  BY <1>2
<1>6. NoRepetition(w)
  <2> SUFFICES ASSUME NEW i \in 1..Len(w), NEW j \in 1..Len(w), w[i] = w[j]
               PROVE  i = j
    BY DEF NoRepetition
  <2> DEFINE old(n) == IF n < k THEN n ELSE n + 1
  <2>1. old(i) \in 1..Len(q) /\ old(j) \in 1..Len(q) /\ q[old(i)] = q[old(j)]
    BY <1>3, <1>4, <1>5
  <2>2. old(i) = old(j)
    BY <2>1 DEF NoRepetition
  <2>3. QED BY <2>2
<1>7. ASSUME NEW i \in 1..Len(w)
      PROVE  \E j \in 1..Len(q) : w[i] = q[j] /\ q[j] # q[k]
  <2> DEFINE old == IF i < k THEN i ELSE i + 1
  <2>1. old \in 1..Len(q) /\ old # k /\ w[i] = q[old]
    BY <1>3, <1>4, <1>5
  <2>2. q[old] # q[k]
    BY <2>1 DEF NoRepetition
  <2>3. QED BY <2>1, <2>2
<1>8. ASSUME NEW j \in 1..Len(q), q[j] # q[k]
      PROVE  \E i \in 1..Len(w) : w[i] = q[j]
  <2>1. CASE j < k
    BY <2>1, <1>4, <1>5
  <2>2. CASE j > k
    <3>1. j - 1 \in 1..Len(w) /\ w[j - 1] = q[j]
      BY <2>2, <1>4, <1>5
    <3>2. QED BY <3>1
  <2>3. QED BY <1>8, <2>1, <2>2
<1>9. k # 1 => w # <<>> /\ Head(w) = Head(q)
  BY <1>4, <1>5
<1>10. QED BY <1>4, <1>6, <1>7, <1>8, <1>9 DEF w

\* Joining a queue puts the newcomer behind everybody else.
LEMMA AppendAdds ==
    ASSUME NEW q \in Seq(Chat), NoRepetition(q), NEW c \in Chat, \A i \in 1..Len(q) : q[i] # c
    PROVE  LET w == Append(q, c) IN
           /\ w \in Seq(Chat) /\ w # <<>>
           /\ NoRepetition(w)
           /\ Len(w) = Len(q) + 1
           /\ \A i \in 1..Len(q) : w[i] = q[i]
           /\ w[Len(q) + 1] = c
           /\ Head(w) = IF q = <<>> THEN c ELSE Head(q)
<1> DEFINE w == Append(q, c)
<1>1. /\ w \in Seq(Chat) /\ w # <<>> /\ Len(w) = Len(q) + 1
      /\ \A i \in 1..Len(q) : w[i] = q[i]
      /\ w[Len(q) + 1] = c
  BY AppendProperties
<1>2. NoRepetition(w)
  BY <1>1 DEF NoRepetition
<1>3. Head(w) = IF q = <<>> THEN c ELSE Head(q)
  BY <1>1
<1>4. QED BY <1>1, <1>2, <1>3

LEMMA QueuesAreTyped ==
    ASSUME LocksTypeOK, NEW e \in Chat
    PROVE  /\ waiters[e] \in Seq(Chat) /\ Len(waiters[e]) \in Nat
           /\ \A i \in 1..Len(waiters[e]) : waiters[e][i] \in Chat
           /\ waiters[e] # <<>> => /\ 1 \in 1..Len(waiters[e])
                                   /\ Head(waiters[e]) = waiters[e][1]
<1>1. waiters[e] \in Seq(Chat)
  BY DEF LocksTypeOK
<1> DEFINE q == waiters[e]
<1>2. q \in Seq(Chat)
  BY <1>1
<1> HIDE DEF q
<1>3. /\ Len(q) \in Nat /\ \A i \in 1..Len(q) : q[i] \in Chat
      /\ q # <<>> => 1 \in 1..Len(q) /\ Head(q) = q[1]
  BY <1>2
<1>4. QED BY <1>2, <1>3 DEF q

-------------------------------------------------------------------------------
(* Each step preserves the invariant *)

LEMMA InitEstablishes == LocksInit => LocksInv
<1> SUFFICES ASSUME LocksInit PROVE LocksInv
  OBVIOUS
<1> USE DEF LocksInit
<1>1. LocksTypeOK
  BY DEF LocksTypeOK
<1>2. TableInv
  BY NoneIsNobody DEF TableInv, Using
<1>3. FreshInv /\ HeldInv
  BY NoneIsNobody DEF FreshInv, HeldInv
<1>4. QueueInv /\ WokenInv
  BY DEF QueueInv, WokenInv, Positions
<1>5. QED BY <1>1, <1>2, <1>3, <1>4 DEF LocksInv

\* The entry a newcomer reserves counts its users, and no other session has it.
LEMMA EntryForIsExact ==
    ASSUME LocksInv, NEW c \in Chat, NEW s \in Session, phase[c] = "outside"
    PROVE  \E e \in Chat :
           /\ e = EntryFor(c, s)
           /\ IsFiniteSet(Users(e)) /\ references[e] = Cardinality(Users(e))
           /\ \A d \in Users(e) : wants[d] = s
           /\ \A t \in Session : table[t] = e => t = s
<1>1. CASE table[s] = None
  <2>1. EntryFor(c, s) = c
    BY <1>1 DEF EntryFor
  <2>2. Users(c) = {}
    BY DEF LocksInv, TableInv, FreshInv, Users
  <2>3. QED
    BY <2>1, <2>2, FS_EmptySet DEF LocksInv, FreshInv
<1>2. CASE table[s] # None
  <2>1. EntryFor(c, s) = table[s] /\ table[s] \in Chat
    BY <1>2 DEF EntryFor, LocksInv, LocksTypeOK
  <2>2. PICK d \in Users(table[s]) : wants[d] = s
    BY <2>1 DEF LocksInv, TableInv
  <2>3. \A t \in Session : table[t] = table[s] => t = s
    BY <2>1, <2>2 DEF LocksInv, TableInv
  <2>4. QED
    BY <2>1, <2>3 DEF LocksInv, TableInv
<1>3. QED BY <1>1, <1>2

LEMMA EnterPreserves ==
    ASSUME LocksInv, NEW c \in Chat, NEW s \in Session, Enter(c, s)
    PROVE  LocksInv'
<1>2. PICK e \in Chat :
        /\ e = EntryFor(c, s)
        /\ IsFiniteSet(Users(e)) /\ references[e] = Cardinality(Users(e))
        /\ \A d \in Users(e) : wants[d] = s
        /\ \A t \in Session : table[t] = e => t = s
  BY EntryForIsExact DEF Enter
<1>1. /\ phase[c] = "outside"
      /\ wants' = [wants EXCEPT ![c] = s]
      /\ entry' = [entry EXCEPT ![c] = e]
      /\ table' = [table EXCEPT ![s] = e]
      /\ references' = [references EXCEPT ![e] = @ + 1]
      /\ \/ /\ Free(e)
            /\ phase' = [phase EXCEPT ![c] = "inside"]
            /\ locked' = locked \cup {e}
            /\ waiters' = waiters
         \/ /\ ~Free(e)
            /\ phase' = [phase EXCEPT ![c] = "waiting"]
            /\ waiters' = [waiters EXCEPT ![e] = Append(@, c)]
            /\ locked' = locked
      /\ woken' = woken
  BY <1>2 DEF Enter
<1>3. table[s] # None => table[s] = e
  BY <1>2 DEF EntryFor
<1>4. table[s] = None => e = c
  BY <1>2 DEF EntryFor
<1>5. LocksTypeOK'
  <2>1. waiters[e] \in Seq(Chat)
    BY <1>2 DEF LocksInv, LocksTypeOK
  <2>2. Append(waiters[e], c) \in Seq(Chat)
    BY <2>1, AppendProperties
  <2>3. waiters' \in [Chat -> Seq(Chat)]
    BY <1>1, <2>2 DEF LocksInv, LocksTypeOK
  <2>4. references' \in [Chat -> Nat] /\ locked' \subseteq Chat
    BY <1>1, <1>2 DEF LocksInv, LocksTypeOK
  <2>5. phase' \in [Chat -> {"outside", "waiting", "inside", "releasing", "gone"}]
    BY <1>1 DEF LocksInv, LocksTypeOK
  <2>6. QED BY <1>1, <1>2, <2>3, <2>4, <2>5 DEF LocksInv, LocksTypeOK
<1>6. /\ Using' = Using \cup {c} /\ c \notin Using
      /\ Users(e)' = Users(e) \cup {c} /\ c \notin Users(e)
      /\ \A f \in Chat \ {e} : Users(f)' = Users(f)
  BY <1>1, <1>2 DEF LocksInv, LocksTypeOK, Using, Users
<1>7. TableInv'
  <2>1. ASSUME NEW d \in Using'
        PROVE  wants'[d] \in Session /\ entry'[d] \in Chat /\ table'[wants'[d]] = entry'[d]
    <3>1. CASE d = c
      BY <3>1, <1>1, <1>2 DEF LocksInv, LocksTypeOK
    <3>2. CASE d # c
      <4>1. d \in Using /\ d \in Chat /\ wants'[d] = wants[d] /\ entry'[d] = entry[d]
        BY <2>1, <3>2, <1>1, <1>6 DEF LocksInv, LocksTypeOK, Using
      <4>2. wants[d] \in Session /\ entry[d] \in Chat /\ table[wants[d]] = entry[d]
        BY <4>1 DEF LocksInv, TableInv
      <4>3. wants[d] = s => entry[d] = e
        BY <4>2, <1>3, NoneIsNobody
      <4>4. QED BY <4>1, <4>2, <4>3, <1>1 DEF LocksInv, LocksTypeOK
    <3>3. QED BY <3>1, <3>2
  <2>2. ASSUME NEW t \in Session, NEW f \in Chat, table'[t] = f
        PROVE  /\ IsFiniteSet(Users(f)') /\ references'[f] = Cardinality(Users(f)')
               /\ Users(f)' # {}
               /\ \A d \in Users(f)' : wants'[d] = t
    <3>1. CASE t = s
      <4>1. f = e
        BY <2>2, <3>1, <1>1 DEF LocksInv, LocksTypeOK
      <4>2. IsFiniteSet(Users(e) \cup {c}) /\ Cardinality(Users(e) \cup {c}) = references[e] + 1
        BY <1>2, <1>6, FS_AddElement
      <4>3. references'[e] = references[e] + 1
        BY <1>1, <1>2 DEF LocksInv, LocksTypeOK
      <4>4. \A d \in Users(e) \cup {c} : wants'[d] = s
        BY <1>1, <1>2, <1>6 DEF LocksInv, LocksTypeOK, Users, Using
      <4>5. QED BY <3>1, <4>1, <4>2, <4>3, <4>4, <1>6
    <3>2. CASE t # s
      <4>1. table[t] = f /\ f # e
        BY <2>2, <3>2, <1>1, <1>2 DEF LocksInv, LocksTypeOK
      <4>2. Users(f)' = Users(f) /\ references'[f] = references[f]
        BY <4>1, <1>1, <1>2, <1>6 DEF LocksInv, LocksTypeOK
      <4>3. \A d \in Users(f) : wants'[d] = wants[d]
        BY <1>1, <1>6 DEF LocksInv, LocksTypeOK, Users, Using
      <4>4. QED BY <4>1, <4>2, <4>3 DEF LocksInv, TableInv
    <3>3. QED BY <3>1, <3>2
  <2>3. QED BY <2>1, <2>2 DEF TableInv
<1>8. FreshInv'
  <2> SUFFICES ASSUME NEW d \in Chat, phase'[d] = "outside"
               PROVE  /\ references'[d] = 0 /\ d \notin locked' /\ waiters'[d] = <<>>
                      /\ \A t \in Session : table'[t] # d
    BY DEF FreshInv
  <2>1. phase[d] = "outside" /\ d # c
    BY <1>1 DEF LocksInv, LocksTypeOK
  <2>2. references[d] = 0 /\ d \notin locked /\ waiters[d] = <<>> /\ \A t \in Session : table[t] # d
    BY <2>1 DEF LocksInv, FreshInv
  <2>3. d # e
    BY <2>1, <2>2, <1>3, <1>4
  <2>4. QED BY <2>1, <2>2, <2>3, <1>1, <1>2 DEF LocksInv, LocksTypeOK
<1>9. CASE /\ Free(e)
           /\ phase' = [phase EXCEPT ![c] = "inside"]
           /\ locked' = locked \cup {e}
           /\ waiters' = waiters
  <2>1. HeldInv'
    BY <1>1, <1>2, <1>9 DEF LocksInv, LocksTypeOK, HeldInv, Free
  <2>2. QueueInv'
    BY <1>1, <1>9, QueuesAreTyped DEF LocksInv, LocksTypeOK, QueueInv, Positions, TableInv, Using
  <2>3. WokenInv'
    BY <1>1, <1>9 DEF LocksInv, LocksTypeOK, WokenInv, Free
  <2>4. QED BY <1>5, <1>7, <1>8, <2>1, <2>2, <2>3 DEF LocksInv
<1>10. CASE /\ ~Free(e)
            /\ phase' = [phase EXCEPT ![c] = "waiting"]
            /\ waiters' = [waiters EXCEPT ![e] = Append(@, c)]
            /\ locked' = locked
  <2>1. HeldInv'
    BY <1>1, <1>2, <1>10 DEF LocksInv, LocksTypeOK, HeldInv
  <2>2. /\ waiters[e] \in Seq(Chat) /\ NoRepetition(waiters[e])
        /\ \A i \in 1..Len(waiters[e]) : waiters[e][i] # c
    BY <1>1, <1>2, QueuesAreTyped DEF LocksInv, QueueInv, Positions, NoRepetition
  <2> DEFINE w == Append(waiters[e], c)
  <2>3. /\ w \in Seq(Chat) /\ w # <<>> /\ NoRepetition(w) /\ Len(w) = Len(waiters[e]) + 1
        /\ \A i \in 1..Len(waiters[e]) : w[i] = waiters[e][i]
        /\ w[Len(waiters[e]) + 1] = c
        /\ Head(w) = IF waiters[e] = <<>> THEN c ELSE Head(waiters[e])
    BY <2>2, AppendAdds
  <2>4. waiters'[e] = w /\ \A f \in Chat \ {e} : waiters'[f] = waiters[f]
    BY <1>2, <1>10 DEF LocksInv, LocksTypeOK
  <2> HIDE DEF w
  <2>5. QueueInv'
    <3>1. ASSUME NEW f \in Chat, NEW i \in 1..Len(waiters'[f])
          PROVE  phase'[waiters'[f][i]] = "waiting" /\ entry'[waiters'[f][i]] = f
      <4>1. CASE f # e
        BY <4>1, <2>4, <1>1, <1>10 DEF LocksInv, LocksTypeOK, QueueInv, Positions
      <4>2. CASE f = e /\ i \in 1..Len(waiters[e])
        <5> DEFINE d == waiters[e][i]
        <5>1. d \in Chat /\ d # c
          BY <4>2, <2>2, QueuesAreTyped DEF LocksInv
        <5>2. phase[d] = "waiting" /\ entry[d] = e
          BY <4>2 DEF LocksInv, QueueInv, Positions
        <5>3. waiters'[f][i] = d
          BY <4>2, <2>3, <2>4
        <5> HIDE DEF d
        <5>4. QED BY <4>2, <5>1, <5>2, <5>3, <1>1, <1>10 DEF LocksInv, LocksTypeOK
      <4>3. CASE f = e /\ i = Len(waiters[e]) + 1
        BY <4>3, <2>3, <2>4, <1>1, <1>10 DEF LocksInv, LocksTypeOK
      <4>4. Len(waiters[e]) \in Nat
        BY <2>2
      <4>5. QED BY <4>1, <4>2, <4>3, <4>4, <2>3, <2>4
    <3>2. ASSUME NEW f \in Chat
          PROVE  NoRepetition(waiters'[f])
      BY <2>3, <2>4 DEF LocksInv, QueueInv, Positions, NoRepetition
    <3>3. ASSUME NEW d \in Chat, phase'[d] = "waiting"
          PROVE  \E i \in 1..Len(waiters'[entry'[d]]) : waiters'[entry'[d]][i] = d
      <4>1. CASE d = c
        <5>1. entry'[d] = e /\ Len(waiters[e]) + 1 \in 1..Len(w)
          BY <4>1, <1>1, <2>2, <2>3 DEF LocksInv, LocksTypeOK
        <5>2. QED BY <4>1, <5>1, <2>3, <2>4
      <4>2. CASE d # c
        <5>1. phase[d] = "waiting" /\ entry'[d] = entry[d] /\ entry[d] \in Chat
          BY <3>3, <4>2, <1>1, <1>10 DEF LocksInv, LocksTypeOK, TableInv, Using
        <5>2. PICK i \in 1..Len(waiters[entry[d]]) : waiters[entry[d]][i] = d
          BY <5>1 DEF LocksInv, QueueInv, Positions
        <5>3. i \in 1..Len(waiters'[entry[d]]) /\ waiters'[entry[d]][i] = d
          BY <5>1, <5>2, <2>2, <2>3, <2>4
        <5>4. QED BY <5>1, <5>3
      <4>3. QED BY <4>1, <4>2
    <3>4. QED BY <3>1, <3>2, <3>3 DEF QueueInv, Positions, NoRepetition
  <2>6. WokenInv'
    <3>1. ASSUME NEW d \in woken
          PROVE  /\ phase'[d] = "waiting" /\ entry'[d] \notin locked'
                 /\ waiters'[entry'[d]] # <<>> /\ Head(waiters'[entry'[d]]) = d
      <4>1. /\ d \in Chat /\ phase[d] = "waiting" /\ entry[d] \notin locked
            /\ waiters[entry[d]] # <<>> /\ Head(waiters[entry[d]]) = d
        BY DEF LocksInv, LocksTypeOK, WokenInv
      <4>2. d # c /\ entry[d] \in Chat
        BY <4>1, <1>1 DEF LocksInv, TableInv, Using
      <4>3. /\ phase'[d] = "waiting" /\ entry'[d] = entry[d]
            /\ entry[d] \notin locked'
        BY <4>1, <4>2, <1>1, <1>10 DEF LocksInv, LocksTypeOK
      <4>4. QED BY <4>1, <4>2, <4>3, <2>3, <2>4
    <3>2. ASSUME NEW f \in Chat, waiters'[f] # <<>>, f \notin locked'
          PROVE  Head(waiters'[f]) \in woken
      <4>1. waiters[f] # <<>>
        BY <3>2, <1>10, <2>4 DEF Free
      <4>2. Head(waiters[f]) \in woken
        BY <4>1, <3>2, <1>10 DEF LocksInv, WokenInv
      <4>3. QED BY <4>1, <4>2, <2>3, <2>4
    <3>3. QED BY <3>1, <3>2, <1>1 DEF WokenInv
  <2>7. QED BY <1>5, <1>7, <1>8, <2>1, <2>5, <2>6 DEF LocksInv
<1>11. QED BY <1>1, <1>9, <1>10

\* As long as nobody comes or goes for good, the table stays exact.
LEMMA SameUsersSameTable ==
    ASSUME LocksInv, Using' = Using, UNCHANGED <<wants, entry, table, references>>
    PROVE  TableInv'
<1>1. ASSUME NEW e \in Chat PROVE Users(e)' = Users(e)
  BY DEF Users
<1>2. QED BY <1>1 DEF LocksInv, TableInv

\* The entry that someone uses is not one that may yet be created.
LEMMA UsedIsNotFresh ==
    ASSUME LocksInv, NEW c \in Using
    PROVE  c \in Chat /\ entry[c] \in Chat /\ phase[entry[c]] # "outside"
  BY DEF LocksInv, TableInv, FreshInv, Using

\* As long as nobody begins or ceases to wait, the queues stay right.
LEMMA SameWaitersSameQueues ==
    ASSUME LocksInv, UNCHANGED <<waiters, entry>>,
           \A c \in Chat : phase'[c] = "waiting" <=> phase[c] = "waiting"
    PROVE  QueueInv'
<1>1. \A e \in Chat : \A i \in 1..Len(waiters[e]) :
          /\ waiters[e][i] \in Chat
          /\ phase[waiters[e][i]] = "waiting" /\ entry[waiters[e][i]] = e
  BY QueuesAreTyped DEF LocksInv, QueueInv, Positions
<1>2. \A e \in Chat : \A i \in 1..Len(waiters[e]) :
          phase'[waiters[e][i]] = "waiting" /\ entry[waiters[e][i]] = e
  BY <1>1
<1>3. QED BY <1>2 DEF LocksInv, QueueInv, Positions

\* A chat leaves the queue it waits in.
LEMMA LeavingKeepsQueues ==
    ASSUME LocksInv, NEW c \in Chat, NEW e \in Chat, NEW to,
           phase[c] = "waiting", to # "waiting", entry[c] = e,
           phase' = [phase EXCEPT ![c] = to], entry' = entry,
           waiters' = [waiters EXCEPT ![e] = Without(waiters[e], c)]
    PROVE  /\ waiters' \in [Chat -> Seq(Chat)]
           /\ QueueInv'
           /\ \A f \in Chat \ {e} : waiters'[f] = waiters[f]
           /\ waiters[e] # <<>>
           /\ Head(waiters[e]) # c =>
                  waiters'[e] # <<>> /\ Head(waiters'[e]) = Head(waiters[e])
<1>1. /\ waiters[e] \in Seq(Chat) /\ NoRepetition(waiters[e])
      /\ \A i \in 1..Len(waiters[e]) : waiters[e][i] \in Chat
      /\ waiters[e] # <<>> => Head(waiters[e]) = waiters[e][1]
  BY QueuesAreTyped DEF LocksInv, QueueInv, Positions, NoRepetition
<1>2. PICK k \in 1..Len(waiters[e]) : waiters[e][k] = c
  BY DEF LocksInv, QueueInv, Positions
<1> DEFINE w == Without(waiters[e], c)
<1>3. /\ w \in Seq(Chat)
      /\ NoRepetition(w)
      /\ \A i \in 1..Len(w) : \E j \in 1..Len(waiters[e]) :
             w[i] = waiters[e][j] /\ waiters[e][j] # c
      /\ \A j \in 1..Len(waiters[e]) : waiters[e][j] # c =>
             \E i \in 1..Len(w) : w[i] = waiters[e][j]
      /\ k # 1 => w # <<>> /\ Head(w) = Head(waiters[e])
  <2> DEFINE q == waiters[e]
  <2>1. q \in Seq(Chat) /\ NoRepetition(q) /\ k \in 1..Len(q) /\ q[k] = c
    BY <1>1, <1>2
  <2>2. w = Without(q, q[k])
    BY <2>1
  <2> HIDE DEF q, w
  <2>3. /\ w \in Seq(Chat)
        /\ NoRepetition(w)
        /\ \A i \in 1..Len(w) : \E j \in 1..Len(q) : w[i] = q[j] /\ q[j] # q[k]
        /\ \A j \in 1..Len(q) : q[j] # q[k] => \E i \in 1..Len(w) : w[i] = q[j]
        /\ k # 1 => w # <<>> /\ Head(w) = Head(q)
    <3>1. LET v == Without(q, q[k]) IN
          /\ v \in Seq(Chat)
          /\ NoRepetition(v)
          /\ \A i \in 1..Len(v) : \E j \in 1..Len(q) : v[i] = q[j] /\ q[j] # q[k]
          /\ \A j \in 1..Len(q) : q[j] # q[k] => \E i \in 1..Len(v) : v[i] = q[j]
          /\ k # 1 => v # <<>> /\ Head(v) = Head(q)
      BY <2>1, WithoutRemoves
    <3>2. QED BY <3>1, <2>2, Zenon
  <2>4. QED BY <2>1, <2>3, Zenon DEF q
<1>4. waiters'[e] = w /\ \A f \in Chat \ {e} : waiters'[f] = waiters[f]
  BY DEF LocksInv, LocksTypeOK
<1>5. waiters' \in [Chat -> Seq(Chat)]
  BY <1>3 DEF LocksInv, LocksTypeOK
<1> HIDE DEF w
<1>6. QueueInv'
  <2>1. ASSUME NEW f \in Chat, NEW i \in 1..Len(waiters'[f])
        PROVE  phase'[waiters'[f][i]] = "waiting" /\ entry'[waiters'[f][i]] = f
    <3>1. \E j \in 1..Len(waiters[f]) : waiters'[f][i] = waiters[f][j] /\ waiters[f][j] # c
      <4>1. CASE f = e
        <5>1. waiters'[f] = w /\ i \in 1..Len(w)
          BY <4>1, <1>4
        <5>2. \E j \in 1..Len(waiters[e]) : w[i] = waiters[e][j] /\ waiters[e][j] # c
          BY <5>1, <1>3, Zenon
        <5>3. QED BY <4>1, <5>1, <5>2, Zenon
      <4>2. CASE f # e
        BY <4>2, <1>4 DEF LocksInv, QueueInv, Positions
      <4>3. QED BY <4>1, <4>2
    <3>2. PICK j \in 1..Len(waiters[f]) : waiters'[f][i] = waiters[f][j] /\ waiters[f][j] # c
      BY <3>1
    <3>3. waiters[f][j] \in Chat /\ phase[waiters[f][j]] = "waiting" /\ entry[waiters[f][j]] = f
      BY QueuesAreTyped DEF LocksInv, QueueInv, Positions
    <3>4. QED BY <3>2, <3>3 DEF LocksInv, LocksTypeOK
  <2>2. ASSUME NEW f \in Chat
        PROVE  NoRepetition(waiters'[f])
    <3>1. CASE f = e
      BY <3>1, <1>3, <1>4
    <3>2. CASE f # e
      <4>1. waiters'[f] = waiters[f]
        BY <3>2, <1>4
      <4>2. QED BY <4>1 DEF LocksInv, QueueInv, Positions, NoRepetition
    <3>3. QED BY <3>1, <3>2
  <2>3. ASSUME NEW d \in Chat, phase'[d] = "waiting"
        PROVE  \E i \in 1..Len(waiters'[entry'[d]]) : waiters'[entry'[d]][i] = d
    <3>1. phase[d] = "waiting" /\ d # c /\ entry[d] \in Chat
      BY <2>3 DEF LocksInv, LocksTypeOK, TableInv, Using
    <3>2. PICK j \in 1..Len(waiters[entry[d]]) : waiters[entry[d]][j] = d
      BY <3>1 DEF LocksInv, QueueInv, Positions
    <3>3. CASE entry[d] = e
      <4>1. j \in 1..Len(waiters[e]) /\ waiters[e][j] = d
        BY <3>2, <3>3
      <4>2. \E i \in 1..Len(w) : w[i] = d
        BY <4>1, <3>1, <1>3, Zenon
      <4>3. waiters'[entry'[d]] = w
        BY <3>3, <1>4
      <4>4. QED BY <4>2, <4>3, Zenon
    <3>4. CASE entry[d] # e
      BY <3>1, <3>2, <3>4, <1>4
    <3>5. QED BY <3>3, <3>4
  <2>4. QED BY <2>1, <2>2, <2>3 DEF QueueInv, Positions, NoRepetition
<1>7. waiters[e] # <<>>
  BY <1>1, <1>2
<1>8. ASSUME Head(waiters[e]) # c
      PROVE  waiters'[e] # <<>> /\ Head(waiters'[e]) = Head(waiters[e])
  BY <1>8, <1>1, <1>2, <1>3, <1>4, <1>7
<1>9. QED BY <1>4, <1>5, <1>6, <1>7, <1>8

LEMMA AcquirePreserves ==
    ASSUME LocksInv, NEW c \in Chat, Acquire(c)
    PROVE  LocksInv'
<1>1. PICK e \in Chat : e = entry[c]
  BY DEF Acquire, LocksInv, TableInv, Using
<1>2. /\ phase[c] = "waiting" /\ c \in woken
      /\ phase' = [phase EXCEPT ![c] = "inside"]
      /\ locked' = locked \cup {e}
      /\ waiters' = [waiters EXCEPT ![e] = Without(waiters[e], c)]
      /\ woken' = woken \ {c}
      /\ wants' = wants /\ entry' = entry /\ table' = table /\ references' = references
  BY <1>1 DEF Acquire
<1>3. /\ waiters' \in [Chat -> Seq(Chat)]
      /\ QueueInv'
      /\ \A f \in Chat \ {e} : waiters'[f] = waiters[f]
  BY <1>1, <1>2, LeavingKeepsQueues
<1>4. e \notin locked /\ Head(waiters[e]) = c
  BY <1>1, <1>2 DEF LocksInv, WokenInv
<1>5. LocksTypeOK'
  BY <1>2, <1>3 DEF LocksInv, LocksTypeOK
<1>6. Using' = Using
  BY <1>2 DEF LocksInv, LocksTypeOK, Using
<1>7. TableInv'
  BY <1>2, <1>6, SameUsersSameTable
<1>8. FreshInv'
  <2>1. phase[e] # "outside"
    BY <1>1, <1>2, UsedIsNotFresh DEF Using
  <2>2. QED BY <2>1, <1>2, <1>3 DEF LocksInv, LocksTypeOK, FreshInv
<1>9. HeldInv'
  BY <1>1, <1>2, <1>4 DEF LocksInv, LocksTypeOK, HeldInv
<1>10. WokenInv'
  <2>1. ASSUME NEW d \in woken'
        PROVE  /\ phase'[d] = "waiting" /\ entry'[d] \notin locked'
               /\ waiters'[entry'[d]] # <<>> /\ Head(waiters'[entry'[d]]) = d
    <3>1. /\ d \in Chat /\ d # c /\ phase[d] = "waiting" /\ entry[d] \in Chat
          /\ entry[d] \notin locked
          /\ waiters[entry[d]] # <<>> /\ Head(waiters[entry[d]]) = d
      BY <1>2 DEF LocksInv, LocksTypeOK, WokenInv, TableInv, Using
    <3>2. entry[d] # e
      BY <3>1, <1>4
    <3>3. QED BY <3>1, <3>2, <1>2, <1>3 DEF LocksInv, LocksTypeOK
  <2>2. ASSUME NEW f \in Chat, waiters'[f] # <<>>, f \notin locked'
        PROVE  Head(waiters'[f]) \in woken'
    <3>1. f # e /\ waiters'[f] = waiters[f] /\ f \notin locked
      BY <2>2, <1>2, <1>3
    <3>2. Head(waiters[f]) \in woken
      BY <2>2, <3>1 DEF LocksInv, WokenInv
    <3>3. Head(waiters[f]) # c
      BY <3>1, <2>2, <1>1, QueuesAreTyped DEF LocksInv, QueueInv, Positions
    <3>4. QED BY <3>1, <3>2, <3>3, <1>2
  <2>3. QED BY <2>1, <2>2 DEF WokenInv
<1>11. QED BY <1>3, <1>5, <1>7, <1>8, <1>9, <1>10 DEF LocksInv

LEMMA GiveUpPreserves ==
    ASSUME LocksInv, NEW c \in Chat, GiveUp(c)
    PROVE  LocksInv'
<1>1. PICK e \in Chat : e = entry[c]
  BY DEF GiveUp, LocksInv, TableInv, Using
<1> DEFINE queue == Without(waiters[e], c)
<1>2. /\ phase[c] = "waiting"
      /\ phase' = [phase EXCEPT ![c] = "releasing"]
      /\ waiters' = [waiters EXCEPT ![e] = queue]
      /\ woken' = (woken \ {c}) \cup (IF e \in locked THEN {} ELSE First(queue))
      /\ wants' = wants /\ entry' = entry /\ table' = table /\ references' = references
      /\ locked' = locked
  BY <1>1 DEF GiveUp
<1>3. /\ waiters' \in [Chat -> Seq(Chat)]
      /\ QueueInv'
      /\ \A f \in Chat \ {e} : waiters'[f] = waiters[f]
      /\ waiters[e] # <<>>
      /\ Head(waiters[e]) # c => waiters'[e] # <<>> /\ Head(waiters'[e]) = Head(waiters[e])
  BY <1>1, <1>2, LeavingKeepsQueues
<1>4. queue = waiters'[e]
  BY <1>2 DEF LocksInv, LocksTypeOK
<1> HIDE DEF queue
<1>5. queue # <<>> => Head(queue) \in Chat /\ phase'[Head(queue)] = "waiting" /\ entry[Head(queue)] = e
  <2> DEFINE q == waiters'[e]
  <2>1. q \in Seq(Chat)
    BY <1>3
  <2>2. q # <<>> => 1 \in 1..Len(q) /\ Head(q) = q[1] /\ Head(q) \in Chat
    <3> HIDE DEF q
    <3> QED BY <2>1
  <2>3. \A i \in 1..Len(q) : phase'[q[i]] = "waiting" /\ entry'[q[i]] = e
    BY <1>3 DEF QueueInv, Positions
  <2> HIDE DEF q
  <2>4. q # <<>> => Head(q) \in Chat /\ phase'[Head(q)] = "waiting" /\ entry'[Head(q)] = e
    BY <2>2, <2>3
  <2>5. QED BY <2>4, <1>2, <1>4 DEF q
<1>6. LocksTypeOK'
  BY <1>2, <1>3, <1>5 DEF LocksInv, LocksTypeOK, First
<1>7. Using' = Using
  BY <1>2 DEF LocksInv, LocksTypeOK, Using
<1>8. TableInv'
  BY <1>2, <1>7, SameUsersSameTable
<1>9. FreshInv'
  <2>1. phase[e] # "outside"
    BY <1>1, <1>2, UsedIsNotFresh DEF Using
  <2>2. QED BY <2>1, <1>2, <1>3 DEF LocksInv, LocksTypeOK, FreshInv
<1>10. HeldInv'
  BY <1>2 DEF LocksInv, LocksTypeOK, HeldInv
<1>11. WokenInv'
  <2>1. ASSUME NEW d \in woken'
        PROVE  /\ phase'[d] = "waiting" /\ entry'[d] \notin locked'
               /\ waiters'[entry'[d]] # <<>> /\ Head(waiters'[entry'[d]]) = d
    <3>1. CASE d \in woken \ {c}
      <4>1. /\ d \in Chat /\ d # c /\ phase[d] = "waiting" /\ entry[d] \in Chat
            /\ entry[d] \notin locked
            /\ waiters[entry[d]] # <<>> /\ Head(waiters[entry[d]]) = d
        BY <3>1 DEF LocksInv, LocksTypeOK, WokenInv, TableInv, Using
      <4>2. phase'[d] = "waiting"
        BY <4>1, <1>2 DEF LocksInv, LocksTypeOK
      <4>3. CASE entry[d] = e
        BY <4>1, <4>2, <4>3, <1>2, <1>3
      <4>4. CASE entry[d] # e
        BY <4>1, <4>2, <4>4, <1>2, <1>3
      <4>5. QED BY <4>3, <4>4
    <3>2. CASE e \notin locked /\ d \in First(queue)
      <4>1. queue # <<>> /\ d = Head(queue)
        BY <3>2 DEF First
      <4>2. QED BY <3>2, <4>1, <1>2, <1>4, <1>5
    <3>3. QED BY <2>1, <3>1, <3>2, <1>2
  <2>2. ASSUME NEW f \in Chat, waiters'[f] # <<>>, f \notin locked'
        PROVE  Head(waiters'[f]) \in woken'
    <3>1. CASE f = e
      BY <2>2, <3>1, <1>2, <1>4 DEF First
    <3>2. CASE f # e
      <4>1. waiters'[f] = waiters[f] /\ f \notin locked
        BY <2>2, <3>2, <1>2, <1>3
      <4>2. Head(waiters[f]) \in woken
        BY <2>2, <4>1 DEF LocksInv, WokenInv
      <4>3. Head(waiters[f]) # c
        BY <3>2, <4>1, <2>2, <1>1, QueuesAreTyped DEF LocksInv, QueueInv, Positions
      <4>4. QED BY <4>1, <4>2, <4>3, <1>2
    <3>3. QED BY <3>1, <3>2
  <2>3. QED BY <2>1, <2>2 DEF WokenInv
<1>12. QED BY <1>3, <1>6, <1>8, <1>9, <1>10, <1>11 DEF LocksInv

LEMMA ReleasePreserves ==
    ASSUME LocksInv, NEW c \in Chat, Release(c)
    PROVE  LocksInv'
<1>1. PICK e \in Chat : e = entry[c]
  BY DEF Release, LocksInv, TableInv, Using
<1>2. /\ phase[c] = "inside"
      /\ phase' = [phase EXCEPT ![c] = "releasing"]
      /\ locked' = locked \ {e}
      /\ woken' = woken \cup First(waiters[e])
      /\ wants' = wants /\ entry' = entry /\ table' = table /\ references' = references
      /\ waiters' = waiters
  BY <1>1 DEF Release
<1>3. waiters[e] # <<>> => /\ Head(waiters[e]) \in Chat
                           /\ phase[Head(waiters[e])] = "waiting" /\ entry[Head(waiters[e])] = e
  BY QueuesAreTyped DEF LocksInv, QueueInv, Positions
<1>4. LocksTypeOK'
  BY <1>2, <1>3 DEF LocksInv, LocksTypeOK, First
<1>5. Using' = Using
  BY <1>2 DEF LocksInv, LocksTypeOK, Using
<1>6. TableInv'
  BY <1>2, <1>5, SameUsersSameTable
<1>7. FreshInv'
  BY <1>2 DEF LocksInv, LocksTypeOK, FreshInv
<1>8. HeldInv'
  BY <1>1, <1>2 DEF LocksInv, LocksTypeOK, HeldInv
<1>9. QueueInv'
  BY <1>2, SameWaitersSameQueues DEF LocksInv, LocksTypeOK
<1>10. WokenInv'
  <2>1. ASSUME NEW d \in woken'
        PROVE  /\ phase'[d] = "waiting" /\ entry'[d] \notin locked'
               /\ waiters'[entry'[d]] # <<>> /\ Head(waiters'[entry'[d]]) = d
    <3>1. CASE d \in woken
      BY <3>1, <1>2 DEF LocksInv, LocksTypeOK, WokenInv
    <3>2. CASE d \in First(waiters[e])
      BY <3>2, <1>2, <1>3 DEF First, LocksInv, LocksTypeOK
    <3>3. QED BY <2>1, <3>1, <3>2, <1>2
  <2>2. ASSUME NEW f \in Chat, waiters'[f] # <<>>, f \notin locked'
        PROVE  Head(waiters'[f]) \in woken'
    BY <2>2, <1>2 DEF LocksInv, WokenInv, First
  <2>3. QED BY <2>1, <2>2 DEF WokenInv
<1>11. QED BY <1>4, <1>6, <1>7, <1>8, <1>9, <1>10 DEF LocksInv

LEMMA DropPreserves ==
    ASSUME LocksInv, NEW c \in Chat, Drop(c)
    PROVE  LocksInv'
<1>1. PICK e \in Chat, s \in Session : e = entry[c] /\ s = wants[c] /\ table[s] = e
  BY DEF Drop, LocksInv, TableInv, Using
<1>2. /\ phase[c] = "releasing"
      /\ phase' = [phase EXCEPT ![c] = "gone"]
      /\ references' = [references EXCEPT ![e] = @ - 1]
      /\ table' = IF references[e] = 1 THEN [table EXCEPT ![s] = None] ELSE table
      /\ wants' = wants /\ entry' = entry /\ locked' = locked /\ waiters' = waiters
      /\ woken' = woken
  BY <1>1 DEF Drop, LastReference
<1>3. /\ Using' = Using \ {c} /\ c \in Using /\ c \in Users(e)
      /\ Users(e)' = Users(e) \ {c}
      /\ \A f \in Chat \ {e} : Users(f)' = Users(f)
  BY <1>1, <1>2 DEF LocksInv, LocksTypeOK, Using, Users
<1>4. /\ IsFiniteSet(Users(e)) /\ references[e] = Cardinality(Users(e))
      /\ \A d \in Users(e) : wants[d] = s
  BY <1>1 DEF LocksInv, TableInv
<1>5. /\ IsFiniteSet(Users(e) \ {c})
      /\ Cardinality(Users(e) \ {c}) = references[e] - 1
      /\ references[e] = 1 <=> Users(e) \ {c} = {}
      /\ references[e] - 1 \in Nat
  <2>1. IsFiniteSet(Users(e) \ {c}) /\ Cardinality(Users(e) \ {c}) = references[e] - 1
    BY <1>3, <1>4, FS_RemoveElement
  <2>2. references[e] - 1 \in Nat
    BY <2>1, FS_CardinalityType
  <2>3. references[e] - 1 = 0 <=> Users(e) \ {c} = {}
    BY <2>1, FS_EmptySet
  <2>4. references[e] \in Nat
    BY DEF LocksInv, LocksTypeOK
  <2>5. QED BY <2>1, <2>2, <2>3, <2>4
<1>6. LocksTypeOK'
  <2>1. references' \in [Chat -> Nat] /\ table' \in [Session -> Chat \cup {None}]
    BY <1>2, <1>5 DEF LocksInv, LocksTypeOK
  <2>2. QED BY <1>2, <2>1 DEF LocksInv, LocksTypeOK
<1>7. TableInv'
  <2>1. ASSUME NEW d \in Using'
        PROVE  wants'[d] \in Session /\ entry'[d] \in Chat /\ table'[wants'[d]] = entry'[d]
    <3>1. d \in Using /\ d # c
      BY <1>3
    <3>2. wants[d] \in Session /\ entry[d] \in Chat /\ table[wants[d]] = entry[d]
      BY <3>1 DEF LocksInv, TableInv
    <3>3. references[e] = 1 => wants[d] # s
      BY <3>1, <3>2, <1>1, <1>5 DEF Users
    <3>4. QED BY <3>2, <3>3, <1>2 DEF LocksInv, LocksTypeOK
  <2>2. ASSUME NEW t \in Session, NEW f \in Chat, table'[t] = f
        PROVE  /\ IsFiniteSet(Users(f)') /\ references'[f] = Cardinality(Users(f)')
               /\ Users(f)' # {}
               /\ \A d \in Users(f)' : wants'[d] = t
    <3>1. table[t] = f
      BY <2>2, <1>2, NoneIsNobody DEF LocksInv, LocksTypeOK
    <3>2. CASE f = e
      <4>1. t = s
        BY <3>1, <3>2, <1>1, <1>3 DEF LocksInv, TableInv
      <4>2. references[e] # 1
        BY <4>1, <2>2, <1>2, NoneIsNobody DEF LocksInv, LocksTypeOK
      <4>3. references'[e] = references[e] - 1
        BY <1>2 DEF LocksInv, LocksTypeOK
      <4>4. QED BY <3>2, <4>1, <4>2, <4>3, <1>2, <1>3, <1>4, <1>5
    <3>3. CASE f # e
      <4>1. Users(f)' = Users(f) /\ references'[f] = references[f]
        BY <3>3, <1>2, <1>3 DEF LocksInv, LocksTypeOK
      <4>2. QED BY <3>1, <4>1, <1>2 DEF LocksInv, TableInv
    <3>4. QED BY <3>2, <3>3
  <2>3. QED BY <2>1, <2>2 DEF TableInv
<1>8. FreshInv'
  <2>1. phase[e] # "outside"
    BY <1>1, <1>2, UsedIsNotFresh DEF Using
  <2>2. \A t \in Session : table'[t] = table[t] \/ table'[t] = None
    BY <1>2 DEF LocksInv, LocksTypeOK
  <2>3. QED BY <2>1, <2>2, <1>2, NoneIsNobody DEF LocksInv, LocksTypeOK, FreshInv
<1>9. HeldInv'
  BY <1>2 DEF LocksInv, LocksTypeOK, HeldInv
<1>10. QueueInv'
  BY <1>2, SameWaitersSameQueues DEF LocksInv, LocksTypeOK
<1>11. WokenInv'
  BY <1>2 DEF LocksInv, LocksTypeOK, WokenInv
<1>12. QED BY <1>6, <1>7, <1>8, <1>9, <1>10, <1>11 DEF LocksInv

LEMMA ForgetPreserves ==
    ASSUME LocksInv, Forget
    PROVE  LocksInv'
<1> USE DEF Forget
<1>1. LocksTypeOK'
  BY DEF LocksInv, LocksTypeOK
<1>2. \A c \in Chat : phase'[c] \in {"outside", "gone"}
  BY DEF LocksInv, LocksTypeOK
<1>3. TableInv' /\ FreshInv' /\ HeldInv'
  BY <1>2, NoneIsNobody DEF LocksInv, LocksTypeOK, TableInv, FreshInv, HeldInv, Using, Users
<1>4. QueueInv' /\ WokenInv'
  BY <1>2 DEF QueueInv, WokenInv, Positions
<1>5. QED BY <1>1, <1>3, <1>4 DEF LocksInv

LEMMA NextPreserves == LocksInv /\ [LocksNext]_lockVars => LocksInv'
<1> SUFFICES ASSUME LocksInv, [LocksNext]_lockVars PROVE LocksInv'
  OBVIOUS
<1>1. ASSUME NEW c \in Chat, NEW s \in Session, Enter(c, s) PROVE LocksInv'
  BY <1>1, EnterPreserves
<1>2. ASSUME NEW c \in Chat, Acquire(c) PROVE LocksInv'
  BY <1>2, AcquirePreserves
<1>3. ASSUME NEW c \in Chat, GiveUp(c) PROVE LocksInv'
  BY <1>3, GiveUpPreserves
<1>4. ASSUME NEW c \in Chat, Release(c) PROVE LocksInv'
  BY <1>4, ReleasePreserves
<1>5. ASSUME NEW c \in Chat, Drop(c) PROVE LocksInv'
  BY <1>5, DropPreserves
<1>6. CASE Forget
  BY <1>6, ForgetPreserves
<1>7. CASE UNCHANGED lockVars
  <2> USE <1>7 DEF lockVars
  <2>1. TableInv'
    BY SameUsersSameTable DEF Using
  <2>2. QueueInv'
    BY SameWaitersSameQueues
  <2>3. LocksTypeOK' /\ FreshInv' /\ HeldInv' /\ WokenInv'
    BY DEF LocksInv, LocksTypeOK, FreshInv, HeldInv, WokenInv
  <2>4. QED BY <2>1, <2>2, <2>3 DEF LocksInv
<1>8. QED BY <1>1, <1>2, <1>3, <1>4, <1>5, <1>6, <1>7 DEF LocksNext

-------------------------------------------------------------------------------
(* What follows *)

\* The invariant implies what the runs check of each state.
LEMMA InvariantSuffices == LocksInv => OneChatPerSession /\ TableIsExact /\ SomeoneMoves
<1> SUFFICES ASSUME LocksInv PROVE OneChatPerSession /\ TableIsExact /\ SomeoneMoves
  OBVIOUS
<1>1. OneChatPerSession
  BY DEF LocksInv, TableInv, HeldInv, OneChatPerSession, Using
<1>2. TableIsExact
  BY DEF LocksInv, LocksTypeOK, TableInv, TableIsExact
<1>3. SomeoneMoves
  BY DEF LocksInv, HeldInv, WokenInv, SomeoneMoves
<1>4. QED BY <1>1, <1>2, <1>3

LEMMA LocksInductive == LocksSpec => []LocksInv
<1>1. QED BY InitEstablishes, NextPreserves, PTL DEF LocksSpec

\* Every variable of the lock table keeps its type.
THEOREM LocksTypeCorrect == LocksSpec => []LocksTypeOK
<1>1. LocksInv => LocksTypeOK
  BY DEF LocksInv
<1>2. QED BY <1>1, LocksInductive, PTL

\* One chat at a time per session, however many chats come, wait, give up and go, and
\* although entries are deleted and created again in the meantime (_session_lock).
THEOREM MutualExclusion == LocksSpec => []OneChatPerSession
<1>1. QED BY LocksInductive, InvariantSuffices, PTL

\* The dictionary holds exactly the entries in use, each with the count of its users
\* (_reserve_session_lock, _release_session_lock).
THEOREM NoEntryLeaks == LocksSpec => []TableIsExact
<1>1. QED BY LocksInductive, InvariantSuffices, PTL

\* Whenever a chat is queued on a lock, the lock is held by a chat that will release
\* it or the head of the queue has been woken: cancellations lose no wake-up.
THEOREM NoWakeUpIsLost == LocksSpec => []SomeoneMoves
<1>1. QED BY LocksInductive, InvariantSuffices, PTL

\* No newcomer enters a session ahead of a chat that was already waiting for it.
THEOREM FirstComeFirstServed == LocksSpec => NobodyOvertakes
<1>1. ASSUME LocksInv, [LocksNext]_lockVars, NEW c \in Chat, NEW d \in Chat,
             phase[d] = "waiting", phase[c] = "outside", phase'[c] = "inside"
      PROVE  wants'[c] # wants[d]
  <2>1. PICK s \in Session : Enter(c, s)
    BY <1>1 DEF LocksNext, lockVars, Acquire, GiveUp, Release, Drop, Forget, Enter,
                LocksInv, LocksTypeOK
  <2>2. Free(EntryFor(c, s)) /\ wants'[c] = s
    BY <2>1, <1>1 DEF Enter, LocksInv, LocksTypeOK
  <2>3. ASSUME wants[d] = s PROVE FALSE
    <3>1. table[s] = entry[d] /\ entry[d] \in Chat
      BY <1>1, <2>3 DEF LocksInv, TableInv, Using
    <3>2. EntryFor(c, s) = entry[d]
      BY <3>1, NoneIsNobody DEF EntryFor
    <3>3. waiters[entry[d]] # <<>>
      BY <1>1, <3>1 DEF LocksInv, QueueInv, Positions
    <3>4. QED BY <2>2, <3>2, <3>3 DEF Free
  <2>4. QED BY <2>2, <2>3
<1>2. LocksInv /\ [LocksNext]_lockVars =>
          [\A c, d \in Chat :
              (phase[d] = "waiting" /\ phase[c] = "outside" /\ phase'[c] = "inside")
                  => wants'[c] # wants[d]]_lockVars
  BY <1>1
<1>3. QED BY <1>2, LocksInductive, PTL DEF LocksSpec, NobodyOvertakes

===============================================================================
