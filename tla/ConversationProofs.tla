-------------------------- MODULE ConversationProofs --------------------------
(***************************************************************************)
(* ChatService implements Conversation: working memory is a list of        *)
(* exchanges, each answered from those that come right before it.          *)
(***************************************************************************)
EXTENDS ChatServiceProofs

-------------------------------------------------------------------------------
(* Turns *)

\* q numbers the questions of a set of rows in their order.
Orders(q, n, rows) ==
    /\ q \in [1..n -> rows]
    /\ \A i \in 1..n : q[i].role = "user" /\ q[i].sequence \in Nat
    /\ \A m \in rows : m.role = "user" => \E i \in 1..n : m = q[i]
    /\ \A i, j \in 1..n : i < j => q[i].sequence < q[j].sequence

\* Whoever numbers the questions of a set of rows in their order has its turns.
LEMMA TurnsAreTheQuestions ==
    ASSUME NEW rows, NEW n \in Nat, NEW q, Orders(q, n, rows)
    PROVE  Turns(rows) = [i \in 1..n |-> q[i].by]
<1> DEFINE questions == {m \in rows : m.role = "user"}
           before(m) == {k \in questions : k.sequence < m.sequence}
<1> USE DEF Orders
<1>0. q \in [1..n -> questions]
  OBVIOUS
<1>1. \A i, j \in 1..n : q[i].sequence < q[j].sequence <=> i < j
  OBVIOUS
<1>2. \A i, j \in 1..n : q[i] = q[j] => i = j
  BY <1>1
<1>3. IsFiniteSet(questions) /\ Cardinality(questions) = n
  <2>1. q \in Bijection(1..n, questions)
    BY <1>0, <1>2 DEF Bijection, Injection, Surjection, IsInjective
  <2>2. IsFiniteSet(1..n) /\ Cardinality(1..n) = n
    BY FS_Interval
  <2>3. QED BY <2>1, <2>2, FS_Bijection DEF ExistsBijection
<1>4. ASSUME NEW i \in 1..n PROVE Cardinality(before(q[i])) = i - 1
  <2> DEFINE f == [j \in 1..(i - 1) |-> q[j]]
  <2>1. \A j \in 1..(i - 1) : j \in 1..n /\ q[j] \in before(q[i])
    BY <1>1
  <2>2. \A k \in before(q[i]) : \E j \in 1..(i - 1) : k = q[j]
    BY <1>1
  <2>3. f \in Bijection(1..(i - 1), before(q[i]))
    <3> HIDE DEF before
    <3>1. f \in [1..(i - 1) -> before(q[i])]
      BY <2>1
    <3>2. \A j, k \in 1..(i - 1) : f[j] = f[k] => j = k
      BY <1>2, <2>1
    <3>3. \A k \in before(q[i]) : \E j \in 1..(i - 1) : f[j] = k
      BY <2>2
    <3> HIDE DEF f
    <3>4. QED BY <3>1, <3>2, <3>3 DEF Bijection, Injection, Surjection, IsInjective
  <2>4. IsFiniteSet(1..(i - 1)) /\ Cardinality(1..(i - 1)) = i - 1
    BY FS_Interval
  <2> HIDE DEF f, before
  <2>5. QED BY <2>3, <2>4, FS_Bijection DEF ExistsBijection
<1>5. ASSUME NEW i \in 1..n PROVE (CHOOSE m \in questions : Cardinality(before(m)) = i - 1) = q[i]
  <2>1. q[i] \in questions /\ Cardinality(before(q[i])) = i - 1
    BY <1>4
  <2>2. ASSUME NEW m \in questions, Cardinality(before(m)) = i - 1 PROVE m = q[i]
    <3>1. PICK j \in 1..n : m = q[j]
      OBVIOUS
    <3>2. j - 1 = i - 1
      BY <3>1, <2>2, <1>4
    <3>3. QED BY <3>1, <3>2
  <2> HIDE DEF questions, before
  <2>3. QED BY <2>1, <2>2
<1>6. Turns(rows) = [i \in 1..Cardinality(questions) |->
                        (CHOOSE m \in questions : Cardinality(before(m)) = i - 1).by]
  BY Zenon DEF Turns
<1> HIDE DEF questions, before
<1>7. QED BY <1>3, <1>5, <1>6

\* The numbers at which a session has its questions.
LEMMA OddNumbers ==
    ASSUME NEW n \in Nat, NEW k \in 1..(2 * n), k % 2 = 1
    PROVE  \E j \in 1..n : k = 2 * j - 1
<1>1. (k + 1) \div 2 \in 1..n /\ k = 2 * ((k + 1) \div 2) - 1
  OBVIOUS
<1>2. QED BY <1>1

\* The rows of a session of whole turns, by number: the questions are at the odd ones.
LEMMA RowsByNumber ==
    ASSUME TurnsInv, messages \subseteq Message, NEW s \in Session
    PROVE  \E n \in Nat : \E at \in [1..(2 * n) -> MessagesOf(s)] :
               /\ Cardinality(MessagesOf(s)) = 2 * n
               /\ \A m \in MessagesOf(s) : m.sequence \in 1..(2 * n) /\ m = at[m.sequence]
               /\ \A i \in 1..(2 * n) : at[i].sequence = i
               /\ \A i \in 1..(2 * n) : at[i].role = "user" <=> i % 2 = 1
<1> DEFINE rows == MessagesOf(s)
<1>1. PICK l \in Nat : l = Cardinality(rows) /\ l % 2 = 0 /\ {m.sequence : m \in rows} = 1..l
  BY SessionsAreEven
<1>2. PICK n \in Nat : l = 2 * n
  <2>1. l \div 2 \in Nat /\ l = 2 * (l \div 2)
    BY <1>1
  <2>2. QED BY <2>1
<1> DEFINE at == [i \in 1..(2 * n) |-> CHOOSE m \in rows : m.sequence = i]
<1>3. ASSUME NEW i \in 1..(2 * n) PROVE at[i] \in rows /\ at[i].sequence = i
  <2>1. \E m \in rows : m.sequence = i
    BY <1>1, <1>2
  <2>2. at[i] = CHOOSE m \in rows : m.sequence = i
    OBVIOUS
  <2> HIDE DEF at
  <2>3. QED BY <2>1, <2>2
<1>4. at \in [1..(2 * n) -> rows]
  BY <1>3
<1> HIDE DEF at
<1>5. ASSUME NEW m \in rows PROVE m.sequence \in 1..(2 * n) /\ m = at[m.sequence]
  <2>1. m.sequence \in 1..(2 * n)
    BY <1>1, <1>2
  <2>2. at[m.sequence] \in rows /\ at[m.sequence].sequence = m.sequence
    BY <1>3, <2>1
  <2>3. QED BY <2>1, <2>2 DEF TurnsInv
<1>6. ASSUME NEW i \in 1..(2 * n) PROVE at[i].role = "user" <=> i % 2 = 1
  BY <1>3 DEF TurnsInv, SessionsAreWholeTurns
<1>7. QED BY <1>1, <1>2, <1>3, <1>4, <1>5, <1>6

LEMMA TurnsOfSession ==
    ASSUME TurnsInv, messages \subseteq Message, NEW s \in Session, NEW n \in Nat,
           NEW at \in [1..(2 * n) -> MessagesOf(s)],
           \A m \in MessagesOf(s) : m.sequence \in 1..(2 * n) /\ m = at[m.sequence],
           \A i \in 1..(2 * n) : at[i].sequence = i,
           \A i \in 1..(2 * n) : at[i].role = "user" <=> i % 2 = 1
    PROVE  Turns(MessagesOf(s)) = [i \in 1..n |-> at[2 * i - 1].by]
<1> DEFINE rows == MessagesOf(s)
           q == [i \in 1..n |-> at[2 * i - 1]]
<1>1. \A i \in 1..n : 2 * i - 1 \in 1..(2 * n) /\ (2 * i - 1) % 2 = 1
  OBVIOUS
<1>2. q \in [1..n -> rows] /\ \A i \in 1..n : q[i].role = "user"
  BY <1>1
<1>3. ASSUME NEW m \in rows, m.role = "user" PROVE \E i \in 1..n : m = q[i]
  <2>1. m.sequence \in 1..(2 * n) /\ m.sequence % 2 = 1 /\ m = at[m.sequence]
    BY <1>3
  <2>2. PICK i \in 1..n : m.sequence = 2 * i - 1
    BY <2>1, OddNumbers
  <2>3. QED BY <2>1, <2>2
<1>4. \A i \in 1..n : q[i].sequence = 2 * i - 1
  BY <1>1
<1>5. \A i \in 1..n : q[i].by = at[2 * i - 1].by
  OBVIOUS
<1> HIDE DEF q
<1>6. Orders(q, n, rows)
  <2>1. \A i, j \in 1..n : i < j => q[i].sequence < q[j].sequence
    BY <1>4
  <2>2. \A i \in 1..n : q[i].sequence \in Nat
    BY <1>4
  <2> HIDE DEF rows
  <2>3. QED BY <1>2, <1>3, <2>1, <2>2 DEF Orders
<1> HIDE DEF rows
<1>7. Turns(rows) = [i \in 1..n |-> q[i].by]
  BY <1>6, TurnsAreTheQuestions
<1>8. QED BY <1>5, <1>7 DEF rows

\* Behind a row of a session come as many rows as its number is short of the last.
LEMMA RowsBehind ==
    ASSUME NEW rows, NEW l \in Nat, NEW at \in [1..l -> rows],
           \A m \in rows : m.sequence \in 1..l /\ m = at[m.sequence],
           \A i \in 1..l : at[i].sequence = i,
           NEW m \in rows
    PROVE  Cardinality({k \in rows : k.sequence > m.sequence}) = l - m.sequence
<1> DEFINE behind == {k \in rows : k.sequence > m.sequence}
           numbers == (m.sequence + 1)..l
           f == [i \in numbers |-> at[i]]
<1>1. m.sequence \in 1..l
  OBVIOUS
<1>2. \A i \in numbers : i \in 1..l /\ at[i] \in behind
  BY <1>1
<1>3. \A k \in behind : k.sequence \in numbers /\ k = at[k.sequence]
  BY <1>1
<1>4. f \in Bijection(numbers, behind)
  <2> HIDE DEF behind
  <2>1. f \in [numbers -> behind]
    BY <1>2
  <2>2. \A i, j \in numbers : f[i] = f[j] => i = j
    BY <1>2
  <2>3. \A k \in behind : \E i \in numbers : f[i] = k
    BY <1>3
  <2> HIDE DEF f, numbers
  <2>4. QED BY <2>1, <2>2, <2>3 DEF Bijection, Injection, Surjection, IsInjective
<1>5. IsFiniteSet(numbers) /\ Cardinality(numbers) = l - m.sequence
  <2>1. m.sequence + 1 \in Int /\ l \in Int
    BY <1>1
  <2>2. /\ IsFiniteSet(numbers)
        /\ Cardinality(numbers) = IF m.sequence + 1 > l THEN 0 ELSE l - (m.sequence + 1) + 1
    BY <2>1, FS_Interval
  <2>3. QED BY <1>1, <2>2
<1> HIDE DEF f, numbers, behind
<1>6. Cardinality(behind) = l - m.sequence
  BY <1>4, <1>5, FS_Bijection DEF ExistsBijection
<1>7. QED BY <1>6 DEF behind

\* Where the window begins: a limit on messages cuts off whole turns.
LEMMA WindowCutsTurns ==
    ASSUME NEW n \in Nat, NEW limit \in Nat, NEW i \in 1..n
    PROVE  2 * n - (2 * i - 1) < limit <=> n - i < limit \div 2
<1> DEFINE w == limit \div 2
<1>1. w \in Nat /\ (limit = 2 * w \/ limit = 2 * w + 1)
  OBVIOUS
<1> HIDE DEF w
<1>2. 2 * n - (2 * i - 1) < limit <=> n - i < w
  BY <1>1
<1>3. QED BY <1>2 DEF w

\* The turns that are loaded are the latest of the session.
LEMMA RecentTurnsAreTheLatest ==
    ASSUME TurnsInv, messages \subseteq Message, NEW s \in Session
    PROVE  Turns(Recent(s)) = Memory!Latest(Turns(MessagesOf(s)))
<1> DEFINE rows == MessagesOf(s)
           w == HistoryLimit \div 2
<1>0. PICK n \in Nat : \E at \in [1..(2 * n) -> rows] :
          /\ Cardinality(rows) = 2 * n
          /\ \A m \in rows : m.sequence \in 1..(2 * n) /\ m = at[m.sequence]
          /\ \A i \in 1..(2 * n) : at[i].sequence = i
          /\ \A i \in 1..(2 * n) : at[i].role = "user" <=> i % 2 = 1
  BY RowsByNumber
<1>1. PICK at \in [1..(2 * n) -> rows] :
          /\ Cardinality(rows) = 2 * n
          /\ \A m \in rows : m.sequence \in 1..(2 * n) /\ m = at[m.sequence]
          /\ \A i \in 1..(2 * n) : at[i].sequence = i
          /\ \A i \in 1..(2 * n) : at[i].role = "user" <=> i % 2 = 1
  BY <1>0
<1> DEFINE turns == [i \in 1..n |-> at[2 * i - 1].by]
           cut == IF n > w THEN n - w ELSE 0
           q == [i \in 1..(n - cut) |-> at[2 * (cut + i) - 1]]
<1>2. Turns(rows) = turns
  BY <1>1, TurnsOfSession
<1>3. w \in Nat /\ cut \in 0..n
  BY ChatConstantsOK
<1>4. \A i \in 1..n : 2 * n - (2 * i - 1) < HistoryLimit <=> i > cut
  BY <1>3, WindowCutsTurns, ChatConstantsOK
<1> HIDE DEF cut, w
<1>5. \A i \in 1..(n - cut) : cut + i \in 1..n /\ 2 * (cut + i) - 1 \in 1..(2 * n)
                              /\ (2 * (cut + i) - 1) % 2 = 1
  BY <1>3
<1>6. \A m \in rows : m.role = "user" =>
          (m \in Recent(s) <=> 2 * n - m.sequence < HistoryLimit)
  <2>1. ASSUME NEW m \in rows
        PROVE  Cardinality({k \in rows : k.sequence > m.sequence}) = 2 * n - m.sequence
    <3>1. 2 * n \in Nat
      OBVIOUS
    <3> HIDE DEF rows
    <3>2. QED BY <1>1, <3>1, RowsBehind
  <2>2. QED BY <2>1 DEF Recent, Newest
<1>7. ASSUME NEW i \in 1..(n - cut)
      PROVE  /\ q[i] \in Recent(s) /\ q[i].role = "user" /\ q[i].sequence = 2 * (cut + i) - 1
             /\ q[i].by = at[2 * (cut + i) - 1].by
  <2> DEFINE j == 2 * (cut + i) - 1
  <2>1. j \in 1..(2 * n) /\ j % 2 = 1 /\ cut + i \in 1..n /\ cut + i > cut
    BY <1>3, <1>5
  <2>2. q[i] = at[j]
    OBVIOUS
  <2>3. 2 * n - j < HistoryLimit
    BY <1>4, <2>1
  <2> HIDE DEF j, q
  <2>4. at[j] \in rows /\ at[j].sequence = j /\ at[j].role = "user"
    BY <1>1, <2>1
  <2>5. QED BY <1>6, <2>2, <2>3, <2>4 DEF j
<1>8. ASSUME NEW m \in Recent(s), m.role = "user" PROVE \E i \in 1..(n - cut) : m = q[i]
  <2>1. m \in rows
    BY DEF Recent, Newest
  <2>2. m.sequence \in 1..(2 * n) /\ m = at[m.sequence] /\ m.sequence % 2 = 1
    BY <1>1, <1>8, <2>1
  <2>3. PICK j \in 1..n : m.sequence = 2 * j - 1
    BY <2>2, OddNumbers
  <2>4. j > cut
    BY <1>4, <1>6, <1>8, <2>1, <2>3
  <2>5. j - cut \in 1..(n - cut) /\ q[j - cut] = at[2 * j - 1]
    BY <1>3, <2>4
  <2>6. QED BY <2>2, <2>3, <2>5
<1>9. Turns(Recent(s)) = [i \in 1..(n - cut) |-> q[i].by]
  <2>1. n - cut \in Nat
    BY <1>3
  <2>2. q \in [1..(n - cut) -> Recent(s)]
    BY <1>7
  <2>3. \A i \in 1..(n - cut) : q[i].role = "user" /\ q[i].sequence \in Nat
    BY <1>5, <1>7
  <2>4. \A i, j \in 1..(n - cut) : i < j => q[i].sequence < q[j].sequence
    BY <1>3, <1>7
  <2> HIDE DEF q
  <2>5. Orders(q, n - cut, Recent(s))
    BY <1>8, <2>2, <2>3, <2>4 DEF Orders
  <2>6. QED BY <2>1, <2>5, TurnsAreTheQuestions
<1>10. turns \in Seq(Chat \cup {None}) /\ Len(turns) = n
       /\ \A i \in 1..n : turns[i] = at[2 * i - 1].by
  <2>1. \A i \in 1..n : at[2 * i - 1].by \in Chat \cup {None}
    <3>1. \A i \in 1..n : 2 * i - 1 \in 1..(2 * n)
      OBVIOUS
    <3>2. \A i \in 1..n : at[2 * i - 1] \in Message
      BY <3>1 DEF MessagesOf
    <3>3. QED BY <3>2 DEF Message
  <2>2. QED BY <2>1
<1> HIDE DEF turns
<1>11. Memory!Latest(turns) = SubSeq(turns, cut + 1, n)
  <2>1. (IF n > w THEN n - w + 1 ELSE 1) = cut + 1
    BY <1>3 DEF cut
  <2>2. Memory!Latest(turns) = SubSeq(turns, IF n > w THEN n - w + 1 ELSE 1, n)
    BY <1>10, Zenon DEF Memory!Latest, w
  <2>3. QED BY <2>1, <2>2
<1>12. SubSeq(turns, cut + 1, n) = [i \in 1..(n - cut) |-> q[i].by]
  <2> DEFINE right == [i \in 1..(n - cut) |-> q[i].by]
             left == SubSeq(turns, cut + 1, n)
  <2>1. /\ left \in Seq(Chat \cup {None}) /\ Len(left) = n - cut
        /\ \A i \in 1..(n - cut) : left[i] = turns[cut + i]
    <3>1. \A i \in (cut + 1)..n : turns[i] \in Chat \cup {None}
      BY <1>3, <1>10
    <3>2. cut + 1 \in Int /\ n \in Int
      BY <1>3
    <3>3. /\ left \in Seq(Chat \cup {None})
          /\ Len(left) = IF cut + 1 <= n THEN n - (cut + 1) + 1 ELSE 0
          /\ \A i \in 1..(n - (cut + 1) + 1) : left[i] = turns[cut + 1 + i - 1]
      BY <3>1, <3>2, SubSeqProperties
    <3> HIDE DEF left
    <3>4. n - (cut + 1) + 1 = n - cut /\ \A i \in 1..(n - cut) : cut + 1 + i - 1 = cut + i
      BY <1>3
    <3>5. QED BY <1>3, <3>3, <3>4
  <2> HIDE DEF left, q
  <2>2. \A i \in 1..(n - cut) : q[i].by = turns[cut + i]
    BY <1>5, <1>7, <1>10
  <2>3. \A i \in 1..(n - cut) : q[i].by \in Chat \cup {None}
    BY <1>3, <1>10, <2>2
  <2>4. n - cut \in Nat
    BY <1>3
  <2>5. right \in Seq(Chat \cup {None}) /\ Len(right) = n - cut /\ \A i \in 1..(n - cut) : right[i] = q[i].by
    BY <2>3, <2>4
  <2> HIDE DEF right
  <2>6. left = right
    BY <2>1, <2>2, <2>5, SeqEqual
  <2>7. QED BY <2>6 DEF left, right
<1>13. QED BY <1>2, <1>9, <1>11, <1>12

\* A turn that is appended comes last.
LEMMA AppendedTurnComesLast ==
    ASSUME TurnsInv, messages \subseteq Message, NEW s \in Session, NEW c \in Chat,
           NEW question, NEW answer, question.role = "user", answer.role = "assistant",
           question.by = c, question.sequence = Cardinality(MessagesOf(s)) + 1
    PROVE  Turns(MessagesOf(s) \cup {question, answer}) = Append(Turns(MessagesOf(s)), c)
<1> DEFINE rows == MessagesOf(s)
           more == rows \cup {question, answer}
<1>1. PICK n \in Nat : \E at \in [1..(2 * n) -> rows] :
          /\ Cardinality(rows) = 2 * n
          /\ \A m \in rows : m.sequence \in 1..(2 * n) /\ m = at[m.sequence]
          /\ \A i \in 1..(2 * n) : at[i].sequence = i
          /\ \A i \in 1..(2 * n) : at[i].role = "user" <=> i % 2 = 1
  BY RowsByNumber
<1>2. PICK at \in [1..(2 * n) -> rows] :
          /\ Cardinality(rows) = 2 * n
          /\ \A m \in rows : m.sequence \in 1..(2 * n) /\ m = at[m.sequence]
          /\ \A i \in 1..(2 * n) : at[i].sequence = i
          /\ \A i \in 1..(2 * n) : at[i].role = "user" <=> i % 2 = 1
  BY <1>1
<1> DEFINE turns == [i \in 1..n |-> at[2 * i - 1].by]
           q == [i \in 1..(n + 1) |-> IF i <= n THEN at[2 * i - 1] ELSE question]
<1>3. Turns(rows) = turns
  BY <1>2, TurnsOfSession
<1>4. \A i \in 1..n : 2 * i - 1 \in 1..(2 * n) /\ (2 * i - 1) % 2 = 1
  OBVIOUS
<1>5. /\ \A i \in 1..n : q[i] = at[2 * i - 1] /\ q[i] \in rows /\ q[i].role = "user"
                         /\ q[i].sequence = 2 * i - 1
      /\ q[n + 1] = question /\ question.sequence = 2 * n + 1
  BY <1>2, <1>4
<1>6. q \in [1..(n + 1) -> more]
  <2>1. \A i \in 1..n : at[2 * i - 1] \in rows
    BY <1>4
  <2>2. QED BY <2>1
<1>7. \A i \in 1..(n + 1) : i \in 1..n \/ i = n + 1
  OBVIOUS
<1> HIDE DEF q
<1>8. ASSUME NEW m \in more, m.role = "user" PROVE \E i \in 1..(n + 1) : m = q[i]
  <2>1. CASE m \in rows
    <3>1. m.sequence \in 1..(2 * n) /\ m = at[m.sequence] /\ m.sequence % 2 = 1
      BY <1>2, <1>8, <2>1
    <3>2. PICK j \in 1..n : m.sequence = 2 * j - 1
      BY <3>1, OddNumbers
    <3>3. j \in 1..(n + 1) /\ m = q[j]
      BY <1>5, <3>1, <3>2
    <3>4. QED BY <3>3
  <2>2. CASE m = question
    BY <1>5, <2>2
  <2>3. QED BY <1>8, <2>1, <2>2
<1>9. Orders(q, n + 1, more)
  <2>1. ASSUME NEW i \in 1..(n + 1) PROVE q[i].role = "user" /\ q[i].sequence = 2 * i - 1
    <3>1. CASE i \in 1..n
      BY <1>5, <3>1
    <3>2. CASE i = n + 1
      <4>1. 2 * n + 1 = 2 * (n + 1) - 1
        OBVIOUS
      <4>2. QED BY <1>5, <3>2, <4>1
    <3>3. QED BY <1>7, <3>1, <3>2
  <2>2. \A i, j \in 1..(n + 1) : i < j => q[i].sequence < q[j].sequence
    BY <2>1
  <2>3. \A i \in 1..(n + 1) : q[i].sequence \in Nat
    BY <2>1
  <2> HIDE DEF more
  <2>4. QED BY <1>6, <1>8, <2>1, <2>2, <2>3 DEF Orders
<1> HIDE DEF more
<1>10. Turns(more) = [i \in 1..(n + 1) |-> q[i].by]
  BY <1>9, TurnsAreTheQuestions
<1>11. turns \in Seq(Chat \cup {None}) /\ Len(turns) = n /\ \A i \in 1..n : turns[i] = q[i].by
  <2>1. \A i \in 1..n : at[2 * i - 1] \in Message /\ at[2 * i - 1].by = q[i].by
    BY <1>4, <1>5 DEF MessagesOf
  <2>2. \A i \in 1..n : at[2 * i - 1].by \in Chat \cup {None}
    BY <2>1 DEF Message
  <2>3. QED BY <2>1, <2>2
<1> HIDE DEF turns
<1>12. Append(turns, c) = [i \in 1..(n + 1) |-> q[i].by]
  <2> DEFINE left == Append(turns, c)
             right == [i \in 1..(n + 1) |-> q[i].by]
  <2>1. /\ left \in Seq(Chat \cup {None}) /\ Len(left) = n + 1
        /\ \A i \in 1..n : left[i] = q[i].by
        /\ left[n + 1] = c
    BY <1>11, AppendProperties
  <2>2. \A i \in 1..(n + 1) : q[i].by \in Chat \cup {None}
    BY <1>5, <1>7, <1>11
  <2>3. /\ right \in Seq(Chat \cup {None}) /\ Len(right) = n + 1
        /\ \A i \in 1..(n + 1) : right[i] = q[i].by
    BY <2>2
  <2> HIDE DEF left, right
  <2>4. \A i \in 1..(n + 1) : left[i] = right[i]
    BY <1>5, <1>7, <2>1, <2>3
  <2>5. left = right
    BY <2>1, <2>3, <2>4, SeqEqual
  <2>6. QED BY <2>5 DEF left, right
<1>13. QED BY <1>3, <1>10, <1>12 DEF more

-------------------------------------------------------------------------------
(* The refinement *)

Log  == [s \in Session |-> Turns(MessagesOf(s))]
Seen == [c \in Chat |-> IF \E m \in messages : m.by = c THEN Turns(history[c]) ELSE None]

\* A session that was never used, or once before, begins with what it held.
LEMMA InitialMemory == Init => Memory!Init
<1> SUFFICES ASSUME Init PROVE Memory!Init
  OBVIOUS
<1> DEFINE question(s) == [session |-> s, sequence |-> 1, role |-> "user", by |-> None]
           answer(s)   == [session |-> s, sequence |-> 2, role |-> "assistant", by |-> None]
<1>1. messages = {question(s) : s \in Old} \cup {answer(s) : s \in Old}
  BY DEF Init
<1>2. ASSUME NEW s \in Session
      PROVE  Turns(MessagesOf(s)) = IF s \in Old THEN <<None>> ELSE <<>>
  <2>1. CASE s \in Old
    <3> DEFINE rows == {question(s), answer(s)}
               q == [i \in 1..1 |-> question(s)]
    <3>1. MessagesOf(s) = rows
      BY <2>1, <1>1 DEF MessagesOf
    <3>2. Orders(q, 1, rows)
      BY DEF Orders
    <3>3. \A i \in 1..1 : q[i].by = None
      OBVIOUS
    <3> HIDE DEF q, rows
    <3>4. Turns(rows) = [i \in 1..1 |-> q[i].by]
      BY <3>2, TurnsAreTheQuestions
    <3>5. QED BY <2>1, <3>1, <3>3, <3>4
  <2>2. CASE s \notin Old
    <3>1. MessagesOf(s) = {}
      BY <2>2, <1>1 DEF MessagesOf
    <3> DEFINE q == [i \in 1..0 |-> None]
    <3>2. Orders(q, 0, {})
      BY DEF Orders
    <3> HIDE DEF q
    <3>3. Turns({}) = [i \in 1..0 |-> q[i].by]
      BY <3>2, TurnsAreTheQuestions
    <3>4. QED BY <2>2, <3>1, <3>3
  <2>3. QED BY <2>1, <2>2
<1>3. \A c \in Chat : ~ \E m \in messages : m.by = c
  BY <1>1, NoneIsNobody
<1>4. QED BY <1>2, <1>3 DEF Memory!Init

\* The commit of its turn is when an exchange happens.
LEMMA AnswerHappens ==
    ASSUME ChatInv, NEW c \in Chat, stage[c] = "provider", Leave(c, "ok"),
           AppendTurn(c), UNCHANGED <<creating, history>>
    PROVE  \E s \in Session : Memory!Happen(c, s)
<1>1. PICK s \in Session : s = wants[c]
  BY DEF ChatInv, ChatOK, StageOK
<1>2. messages \subseteq Message /\ TurnsInv /\ ChatOK(c)
  BY DEF ChatInv, ChatTypeOK
<1>3. /\ \A t \in Session \ {s} : MessagesOf(t)' = MessagesOf(t)
      /\ \A m \in messages' \ messages : m.by = c
      /\ \E m \in messages' : m.by = c
      /\ \E question, answer :
           /\ MessagesOf(s)' = MessagesOf(s) \cup {question, answer}
           /\ question.role = "user" /\ answer.role = "assistant" /\ question.by = c
           /\ question.sequence = Cardinality(MessagesOf(s)) + 1
  <2>1. wants[c] \in Session /\ messages \subseteq Message /\ sessions \subseteq Session
    BY <1>1 DEF ChatInv, ChatTypeOK
  <2>2. PICK question, answer :
           /\ \A t \in Session : t = wants[c] =>
                  MessagesOf(t)' = MessagesOf(t) \cup {question, answer}
           /\ question.role = "user" /\ answer.role = "assistant" /\ question.by = c
           /\ question.sequence = Cardinality(MessagesOf(wants[c])) + 1
    BY <1>2, <2>1, AppendAddsTurn
  <2>3. MessagesOf(s)' = MessagesOf(s) \cup {question, answer}
    BY <1>1, <2>2
  <2>4. QED BY <1>1, <1>2, <2>1, <2>2, <2>3, AppendAddsTurn
<1>4. messages \subseteq messages'
  BY DEF AppendTurn
<1>5. ~ \E m \in messages : m.by = c
  BY <1>2 DEF ChatOK, OriginOK
<1>6. Turns(MessagesOf(s))' = Append(Turns(MessagesOf(s)), c)
  <2>1. Turns(MessagesOf(s)') = Append(Turns(MessagesOf(s)), c)
    BY <1>2, <1>3, AppendedTurnComesLast
  <2>2. Turns(MessagesOf(s))' = Turns(MessagesOf(s)')
    BY DEF Turns
  <2>3. QED BY <2>1, <2>2
<1>7. ASSUME NEW t \in Session \ {s} PROVE Turns(MessagesOf(t))' = Turns(MessagesOf(t))
  <2>1. Turns(MessagesOf(t)') = Turns(MessagesOf(t))
    BY <1>3
  <2>2. QED BY <2>1 DEF Turns
<1>8. Log' = [Log EXCEPT ![s] = Append(@, c)]
  BY <1>6, <1>7 DEF Log
<1>9. Turns(history[c]) = Memory!Latest(Log[s])
  BY <1>1, <1>2, RecentTurnsAreTheLatest DEF ChatOK, FreshOK, Log
<1>10. Seen[c] = None
  BY <1>5 DEF Seen
<1>11. ASSUME NEW d \in Chat \ {c}
       PROVE  (\E m \in messages' : m.by = d) <=> (\E m \in messages : m.by = d)
  BY <1>3, <1>4
<1>12. Seen' = [Seen EXCEPT ![c] = Memory!Latest(Log[s])]
  <2>1. \A d \in Chat : Turns(history[d])' = Turns(history[d])
    BY DEF Turns
  <2>2. Seen' = [d \in Chat |-> IF \E m \in messages' : m.by = d THEN Turns(history[d]) ELSE None]
    BY <2>1 DEF Seen
  <2>3. ASSUME NEW d \in Chat
        PROVE  (IF \E m \in messages' : m.by = d THEN Turns(history[d]) ELSE None)
                   = IF d = c THEN Memory!Latest(Log[s]) ELSE Seen[d]
    BY <1>3, <1>9, <1>11 DEF Seen
  <2>4. QED BY <2>2, <2>3 DEF Seen
<1>13. Memory!Happen(c, s)
  BY <1>8, <1>10, <1>12 DEF Memory!Happen, Log, Seen
<1>14. QED BY <1>13

\* What a chat has loaded shows only when its turn is appended.
LEMMA MemoryIsUntouched ==
    ASSUME ChatInv, UNCHANGED messages,
           \A c \in Chat : history'[c] = history[c] \/ ~ \E m \in messages : m.by = c
    PROVE  UNCHANGED <<Log, Seen>>
<1>1. ASSUME NEW s \in Session PROVE Turns(MessagesOf(s))' = Turns(MessagesOf(s))
  BY DEF Turns, MessagesOf
<1>2. Log' = Log
  BY <1>1 DEF Log
<1>3. ASSUME NEW c \in Chat, \E m \in messages : m.by = c
      PROVE  Turns(history[c])' = Turns(history[c])
  <2>1. Turns(history'[c]) = Turns(history[c])
    BY <1>3
  <2>2. QED BY <2>1 DEF Turns
<1>4. Seen' = Seen
  BY <1>3 DEF Seen
<1>5. QED BY <1>2, <1>4

LEMMA StepIsAnExchange ==
    ChatInv /\ [Next]_allVars => [Memory!Next]_<<Log, Seen>>
<1> SUFFICES ASSUME ChatInv, [Next]_allVars
             PROVE  Memory!Next \/ UNCHANGED <<Log, Seen>>
  OBVIOUS
<1>1. ASSUME NEW c \in Chat, Respond(c) PROVE Memory!Next \/ UNCHANGED <<Log, Seen>>
  <2>1. CASE Leave(c, "ok") /\ AppendTurn(c)
    <3>1. \E s \in Session : Memory!Happen(c, s)
      BY <1>1, <2>1, AnswerHappens DEF Respond
    <3>2. QED BY <3>1 DEF Memory!Next
  <2>2. CASE TurnRolledBack(c)
    BY <1>1, <2>2, MemoryIsUntouched DEF Respond, TurnRolledBack
  <2>3. QED BY <1>1, <2>1, <2>2 DEF Respond
<1>2. ASSUME NEW c \in Chat, Load(c) PROVE UNCHANGED <<Log, Seen>>
  <2>1. stage[c] = "load" /\ messages' = messages
    BY <1>2 DEF Load
  <2>2. ~ \E m \in messages : m.by = c
    BY <2>1 DEF ChatInv, ChatOK, OriginOK
  <2>3. \A d \in Chat \ {c} : history'[d] = history[d]
    BY <1>2 DEF Load, ChatInv, ChatTypeOK
  <2>4. QED BY <2>1, <2>2, <2>3, MemoryIsUntouched
<1>3. ASSUME UNCHANGED <<history, messages>> PROVE UNCHANGED <<Log, Seen>>
  BY <1>3, MemoryIsUntouched
<1>4. CASE UNCHANGED allVars
  BY <1>3, <1>4 DEF allVars, chatVars
<1>5. CASE Restart
  BY <1>3, <1>5 DEF Restart
<1>6. ASSUME NEW c \in Chat, Arrive(c) \/ Cancel(c) \/ Proceed(c) \/ UseTool(c)
                             \/ ProviderFails(c) \/ Finish(c)
      PROVE  UNCHANGED <<Log, Seen>>
  BY <1>3, <1>6 DEF Arrive, Cancel, Proceed, chatVars, UseTool, ProviderFails, Finish
<1>7. QED BY <1>1, <1>2, <1>4, <1>5, <1>6 DEF Next, Run

\* Each exchange happens as if alone, for any number of chats, sessions and messages
\* and any history limit: it is answered from the turns that come right before it
\* (ChatService._chat_with_session_lock, load_recent_messages, append_successful_turn).
THEOREM MemoryIsSerial == Spec => ImplementsConversation
<1>1. QED BY StepIsAnExchange, InitialMemory, ChatInductive, PTL
         DEF Spec, ImplementsConversation, Memory!Spec, Log, Seen

===============================================================================
