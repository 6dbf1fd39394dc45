---------------------------- MODULE MigrationsProofs ----------------------------
(***************************************************************************)
(* Proofs about Migrations, for any number of Core processes that start on *)
(* one file.                                                               *)
(***************************************************************************)
EXTENDS Migrations, FiniteSetTheorems, TLAPS

-------------------------------------------------------------------------------
(* The scripts, statement by statement *)

Sessions == "conversation_sessions"
Messages == "conversation_messages"
MessageIndex == "idx_conversation_messages_session_sequence"
Approvals == "tool_approvals"

LEMMA ScriptLengths ==
    /\ Last = 4
    /\ Len(Statements(1)) = 2 /\ Len(Statements(2)) = 4
    /\ Len(Statements(3)) = 3 /\ Len(Statements(4)) = 8
<1> USE DEF Scripts, BootstrapScript, WorkingMemoryScript, ToolAuditScript,
            SentinelApprovalScript
<1>1. Last = 4
  BY DEF Last
<1>2. /\ Scripts[1] = BootstrapScript /\ Scripts[2] = WorkingMemoryScript
      /\ Scripts[3] = ToolAuditScript /\ Scripts[4] = SentinelApprovalScript
  OBVIOUS
<1>3. QED BY <1>1, <1>2 DEF Statements

LEMMA StatementsOfFirst ==
    /\ Statements(1)[1] = CreateIfMissing(MigrationTable, "v0.1")
    /\ Statements(1)[2] = RecordMigration
BY DEF Statements, Scripts, BootstrapScript

LEMMA StatementsOfSecond ==
    /\ Statements(2)[1] = CreateIfMissing(Sessions, "v0.3")
    /\ Statements(2)[2] = CreateIfMissing(Messages, "v0.3")
    /\ Statements(2)[3] = CreateIfMissing(MessageIndex, "v0.3")
    /\ Statements(2)[4] = RecordMigration
BY DEF Statements, Scripts, WorkingMemoryScript, Sessions, Messages, MessageIndex

LEMMA StatementsOfThird ==
    /\ Statements(3)[1] = CreateIfMissing(Audits, "v0.9")
    /\ Statements(3)[2] = CreateIfMissing(AuditIndex, "v0.9")
    /\ Statements(3)[3] = RecordMigration
BY DEF Statements, Scripts, ToolAuditScript

LEMMA StatementsOfFourth ==
    /\ Statements(4)[1] = DropIfExists(AuditIndex)
    /\ Statements(4)[2] = Rename(Audits, AuditsOld)
    /\ Statements(4)[3] = Create(Audits, "v0.10")
    /\ Statements(4)[4] = CopyRows(Audits, AuditsOld)
    /\ Statements(4)[5] = DropTable(AuditsOld)
    /\ Statements(4)[6] = Create(AuditIndex, "v0.9")
    /\ Statements(4)[7] = CreateIfMissing(Approvals, "v0.10")
    /\ Statements(4)[8] = RecordMigration
BY DEF Statements, Scripts, SentinelApprovalScript, Approvals

\* What the statements do to a database: one object comes, goes, gets another name, or
\* gains rows, and the others stay as they are.
Shape == {"v0.1", "v0.3", "v0.9", "v0.10"}
StaysBut(d, e, N) == \A o \in DOMAIN d \ N : o \in DOMAIN e /\ e[o] = d[o]

Adds(d, e, n, s) ==
    /\ IsDatabase(e) /\ StaysBut(d, e, {n})
    /\ DOMAIN e = DOMAIN d \cup {n}
    /\ e[n].shape = s /\ e[n].rows = {}
Removes(d, e, n) ==
    /\ IsDatabase(e) /\ StaysBut(d, e, {n})
    /\ DOMAIN e = DOMAIN d \ {n}
Renames(d, e, n, to) ==
    /\ IsDatabase(e) /\ StaysBut(d, e, {n})
    /\ DOMAIN e = (DOMAIN d \ {n}) \cup {to}
    /\ e[to] = d[n]
GainsRows(d, e, n, R) ==
    /\ IsDatabase(e) /\ StaysBut(d, e, {n})
    /\ DOMAIN e = DOMAIN d
    /\ e[n].shape = d[n].shape /\ e[n].rows = d[n].rows \cup R

LEMMA EffectOfCreate ==
    ASSUME NEW d, IsDatabase(d), NEW n \in Name, n \notin DOMAIN d, NEW s \in Shape, NEW m
    PROVE  /\ Adds(d, Effect(d, CreateIfMissing(n, s), m), n, s)
           /\ Adds(d, Effect(d, Create(n, s), m), n, s)
<1> DEFINE e == With(d, n, [shape |-> s, rows |-> {}])
<1>1. Effect(d, CreateIfMissing(n, s), m) = e /\ Effect(d, Create(n, s), m) = e
  BY DEF Effect, OnlyReads, Exists, CreateIfMissing, Create
<1>2. Adds(d, e, n, s)
  BY DEF Adds, StaysBut, With, IsDatabase, Object, Shape
<1>3. QED BY <1>1, <1>2, Zenon

LEMMA EffectOfDrop ==
    ASSUME NEW d, IsDatabase(d), NEW n \in DOMAIN d, NEW m
    PROVE  /\ Removes(d, Effect(d, DropIfExists(n), m), n)
           /\ Removes(d, Effect(d, DropTable(n), m), n)
<1>1. /\ Effect(d, DropIfExists(n), m) = Without(d, n)
      /\ Effect(d, DropTable(n), m) = Without(d, n)
  BY DEF Effect, OnlyReads, Exists, DropIfExists, DropTable
<1>2. Removes(d, Without(d, n), n)
  BY DEF Removes, StaysBut, Without, IsDatabase
<1>3. QED BY <1>1, <1>2, Zenon

LEMMA EffectOfRename ==
    ASSUME NEW d, IsDatabase(d), NEW n \in DOMAIN d, NEW to \in Name, to \notin DOMAIN d, NEW m
    PROVE  Renames(d, Effect(d, Rename(n, to), m), n, to)
<1>1. Effect(d, Rename(n, to), m) = With(Without(d, n), to, d[n])
  BY DEF Effect, OnlyReads, Exists, Rename
<1>2. Renames(d, With(Without(d, n), to, d[n]), n, to)
  BY DEF Renames, StaysBut, With, Without, IsDatabase
<1>3. QED BY <1>1, <1>2, Zenon

LEMMA RowsAreGained ==
    ASSUME NEW d, IsDatabase(d), NEW n \in DOMAIN d,
           NEW R \in SUBSET ((1..Last) \cup Process \cup {OldRow})
    PROVE  GainsRows(d, [d EXCEPT ![n].rows = @ \cup R], n, R)
BY DEF GainsRows, StaysBut, IsDatabase, Object

LEMMA EffectOfCopy ==
    ASSUME NEW d, IsDatabase(d), NEW n \in DOMAIN d, NEW from \in DOMAIN d, NEW m
    PROVE  GainsRows(d, Effect(d, CopyRows(n, from), m), n, d[from].rows)
<1>1. Effect(d, CopyRows(n, from), m) = [d EXCEPT ![n].rows = @ \cup d[from].rows]
  BY DEF Effect, OnlyReads, Exists, CopyRows
<1>2. d[from].rows \in SUBSET ((1..Last) \cup Process \cup {OldRow})
  BY DEF IsDatabase, Object
<1>3. GainsRows(d, [d EXCEPT ![n].rows = @ \cup d[from].rows], n, d[from].rows)
  BY <1>2, RowsAreGained
<1>4. QED BY <1>1, <1>3, Zenon

LEMMA EffectOfRecord ==
    ASSUME NEW d, IsDatabase(d), MigrationTable \in DOMAIN d, NEW m \in 1..Last
    PROVE  GainsRows(d, Effect(d, RecordMigration, m), MigrationTable, {m})
<1>1. Effect(d, RecordMigration, m) = [d EXCEPT ![MigrationTable].rows = @ \cup {m}]
  BY DEF Effect, OnlyReads, Exists, RecordMigration
<1>2. GainsRows(d, [d EXCEPT ![MigrationTable].rows = @ \cup {m}], MigrationTable, {m})
  <2>1. {m} \in SUBSET ((1..Last) \cup Process \cup {OldRow})
    OBVIOUS
  <2>2. QED BY <2>1, RowsAreGained
<1>3. QED BY <1>1, <1>2, Zenon

-------------------------------------------------------------------------------
(* The schema of a release *)

\* The migration that first creates an object; the old audit table is never left behind.
Since(n) == CASE n = MigrationTable                      -> 0
              [] n \in {Sessions, Messages, MessageIndex} -> 2
              [] n \in {Audits, AuditIndex}              -> 3
              [] n = Approvals                           -> 4
              [] OTHER                                   -> 5

ShapeIn(k, n) == CASE n = MigrationTable                      -> "v0.1"
                   [] n \in {Sessions, Messages, MessageIndex} -> "v0.3"
                   [] n = Audits                              -> IF k >= 4 THEN "v0.10" ELSE "v0.9"
                   [] n = AuditIndex                          -> "v0.9"
                   [] OTHER                                   -> "v0.10"

LEMMA SchemaOfRelease ==
    ASSUME NEW k \in 0..4
    PROVE  Released(k) = [n \in {n \in Name : Since(n) <= k} |-> ShapeIn(k, n)]
<1> USE DEF MigrationTable, Sessions, Messages, MessageIndex, Audits, AuditsOld, AuditIndex,
            Approvals
<1>1. {t.name : t \in {WorkingMemoryScript[i] : i \in 1..3}}
        = {Sessions, Messages, MessageIndex}
  BY DEF WorkingMemoryScript, CreateIfMissing
<1>2. QED
  BY <1>1 DEF Released, Name, Since, ShapeIn

-------------------------------------------------------------------------------
(* The invariant *)

\* The file of release k.
Whole(d, k) ==
    /\ IsDatabase(d)
    /\ DOMAIN d = {n \in Name : Since(n) <= k}
    /\ \A n \in DOMAIN d : d[n].shape = ShapeIn(k, n)
    /\ d[MigrationTable].rows = 1..k
    /\ Audits \in DOMAIN d => d[Audits].rows \subseteq Process \cup {OldRow}

\* What the first i - 1 statements of migration m make of a file d: the objects they
\* create are there, with nothing in them if they are new ...
Creates(m, n, i) == \E j \in 1..(i - 1) : Statements(m)[j] = CreateIfMissing(n, ShapeIn(3, n))

Extended(d, e, m, i) ==
    /\ \A n \in Name : n \in DOMAIN e <=> (n \in DOMAIN d \/ Creates(m, n, i))
    /\ StaysBut(d, e, {MigrationTable})
    /\ \A n \in DOMAIN e \ DOMAIN d : e[n].shape = ShapeIn(3, n) /\ e[n].rows = {}

\* ... or the audit table is rebuilt under its old name.
Rebuilt(d, e, i) ==
    /\ StaysBut(d, e, {MigrationTable, Audits, AuditIndex})
    /\ AuditIndex \in DOMAIN e <=> i \in {1, 7, 8, 9}
    /\ AuditsOld \in DOMAIN e <=> i \in {3, 4, 5}
    /\ Audits \in DOMAIN e <=> i # 3
    /\ Approvals \in DOMAIN e <=> (Approvals \in DOMAIN d \/ i \in {8, 9})
    /\ i \in {1, 2} => e[Audits] = d[Audits]
    /\ i \in {3, 4, 5} => e[AuditsOld].rows = d[Audits].rows
    /\ i = 4 => e[Audits].rows = {}
    /\ i \in 4..9 => e[Audits].shape = "v0.10"
    /\ i \in 5..9 => e[Audits].rows = d[Audits].rows
    /\ i \in 7..9 => e[AuditIndex].shape = "v0.9"
    /\ i \in {8, 9} => e[Approvals].shape = "v0.10"

Progress(d, e, m, i) ==
    /\ IsDatabase(e)
    /\ MigrationTable \in DOMAIN e
    /\ e[MigrationTable].shape = d[MigrationTable].shape
    /\ e[MigrationTable].rows = d[MigrationTable].rows \cup
           (IF i > Len(Statements(m)) THEN {m} ELSE {})
    /\ IF m = 4 THEN Rebuilt(d, e, i) ELSE Extended(d, e, m, i)

\* A start comes to its turn only when the migrations before it are recorded; its
\* transaction has done the statements before its line to the file as it is now, and
\* only reads as long as it has not written.
StartOK(p) ==
    /\ phase[p] \notin {"apply", "commit"} => lock[p] = "none"
    /\ phase[p] \in {"down", "ensure"} => turn[p] = 1
    /\ phase[p] \in {"look", "apply", "commit"} =>
           /\ turn[p] \in 1..Last /\ db # <<>>
           /\ \A m \in 1..(turn[p] - 1) : m \in Recorded
    /\ phase[p] = "ready" => Recorded = 1..Last
    /\ phase[p] = "apply" =>
           /\ line[p] \in 1..Len(Statements(turn[p])) /\ lock[p] # "pending"
           /\ lock[p] = "none" => line[p] = 1
           /\ lock[p] # "none" => Progress(db, View(p), turn[p], line[p])
    /\ phase[p] = "commit" =>
           /\ Writing(p) /\ turn[p] \notin Recorded
           /\ Progress(db, draft, turn[p], Len(Statements(turn[p])) + 1)
    /\ reason[p] = "refused" => phase[p] = "failed" /\ turn[p] \in Recorded

TypesInv ==
    /\ draft = Nothing \/ IsDatabase(draft)
    /\ lock \in [Process -> {"none", "shared", "reserved", "pending"}]
    /\ phase \in [Process -> {"down", "ensure", "look", "apply", "commit",
                              "ready", "failed", "dead"}]
    /\ turn \in [Process -> 1..(Last + 1)]
    /\ line \in [Process -> 1..10]
    /\ reason \in [Process -> {"", "refused", "busy", "timeout", "disk"}]
    /\ \A p, q \in Process : Writing(p) /\ Writing(q) => p = q
    /\ draft = Nothing <=> \A p \in Process : ~Writing(p)

FileInv == db = <<>> \/ \E k \in 0..Last : Whole(db, k)

IInv == TypesInv /\ FileInv /\ \A p \in Process : StartOK(p)

-------------------------------------------------------------------------------
(* One migration *)

\* What precedes the record of the first three migrations only creates what is missing.
LEMMA TheyCreateIfMissing ==
    ASSUME NEW m \in 1..3, NEW i \in 1..(Len(Statements(m)) - 1)
    PROVE  \E n \in Name \ {AuditsOld, Approvals} :
               Statements(m)[i] = CreateIfMissing(n, ShapeIn(3, n))
<1> USE DEF Name, ShapeIn, MigrationTable, Sessions, Messages, MessageIndex, Audits,
            AuditsOld, AuditIndex, Approvals
<1>1. CASE m = 1
  <2>1. i = 1
    <3>1. Len(Statements(m)) = 2
      BY <1>1, ScriptLengths
    <3>2. QED BY <3>1
  <2>2. QED BY <1>1, <2>1, StatementsOfFirst
<1>2. CASE m = 2
  <2>1. i \in {1, 2, 3}
    <3>1. Len(Statements(m)) = 4
      BY <1>2, ScriptLengths
    <3>2. QED BY <3>1
  <2>2. QED BY <1>2, <2>1, StatementsOfSecond
<1>3. CASE m = 3
  <2>1. i \in {1, 2}
    <3>1. Len(Statements(m)) = 3
      BY <1>3, ScriptLengths
    <3>2. QED BY <3>1
  <2>2. ShapeIn(3, Audits) = "v0.9" /\ ShapeIn(3, AuditIndex) = "v0.9"
    OBVIOUS
  <2>3. Statements(3)[i] \in {CreateIfMissing(Audits, "v0.9"), CreateIfMissing(AuditIndex, "v0.9")}
    BY <2>1, StatementsOfThird
  <2>4. QED BY <1>3, <2>2, <2>3
<1>4. QED BY <1>1, <1>2, <1>3

\* The last statement of each is the record.
LEMMA TheyRecord ==
    ASSUME NEW m \in 1..4
    PROVE  /\ Len(Statements(m)) \in 2..8
           /\ Statements(m)[Len(Statements(m))] = RecordMigration
<1>1. CASE m = 1 BY <1>1, ScriptLengths, StatementsOfFirst
<1>2. CASE m = 2 BY <1>2, ScriptLengths, StatementsOfSecond
<1>3. CASE m = 3 BY <1>3, ScriptLengths, StatementsOfThird
<1>4. CASE m = 4 BY <1>4, ScriptLengths, StatementsOfFourth
<1>5. QED BY <1>1, <1>2, <1>3, <1>4

\* A migration starts from the file as it is.
LEMMA NothingDoneYet ==
    ASSUME NEW k \in 0..4, NEW d, Whole(d, k), NEW m \in 1..4, k >= m - 1
    PROVE  Progress(d, d, m, 1)
<1>1. MigrationTable \in DOMAIN d /\ IsDatabase(d)
  <2>1. MigrationTable \in Name /\ Since(MigrationTable) <= k
    BY DEF Since, Name, MigrationTable, Sessions, Messages, MessageIndex, Audits, AuditIndex,
           Approvals
  <2>2. QED BY <2>1 DEF Whole
<1>2. ~(1 > Len(Statements(m)))
  <2>1. Len(Statements(m)) \in 2..8
    BY TheyRecord
  <2>2. \A n \in 2..8 : ~(1 > n)
    OBVIOUS
  <2>3. QED BY <2>1, <2>2
<1>3. ASSUME m # 4 PROVE Extended(d, d, m, 1)
  BY <1>1 DEF Extended, Creates, StaysBut, IsDatabase
<1>4. ASSUME m = 4 PROVE Rebuilt(d, d, 1)
  BY <1>4 DEF Rebuilt, StaysBut, Whole, Since, Name, MigrationTable, Sessions, Messages,
              MessageIndex, Audits, AuditsOld, AuditIndex, Approvals
<1>5. QED BY <1>1, <1>2, <1>3, <1>4 DEF Progress

\* Creating what is missing is never refused, and takes the migration one line further.
LEMMA CreateAdvances ==
    ASSUME NEW d, NEW e, NEW m \in 1..3, NEW i \in 1..(Len(Statements(m)) - 1),
           Progress(d, e, m, i)
    PROVE  /\ ~Refused(e, Statements(m)[i], m)
           /\ Progress(d, Effect(e, Statements(m)[i], m), m, i + 1)
<1>1. PICK n \in Name \ {AuditsOld, Approvals} :
          Statements(m)[i] = CreateIfMissing(n, ShapeIn(3, n))
  BY TheyCreateIfMissing
<1>2. ~Refused(e, Statements(m)[i], m)
  BY <1>1 DEF Refused, CreateIfMissing
<1>3. \A o \in Name : Creates(m, o, i + 1) <=> (Creates(m, o, i) \/ o = n)
  <2>1. \A o \in Name : Statements(m)[i] = CreateIfMissing(o, ShapeIn(3, o)) <=> o = n
    BY <1>1 DEF CreateIfMissing
  <2>2. \A j : j \in 1..((i + 1) - 1) <=> (j \in 1..(i - 1) \/ j = i)
    BY TheyRecord
  <2>3. QED BY <2>1, <2>2 DEF Creates
<1>4. ~(i > Len(Statements(m))) /\ ~(i + 1 > Len(Statements(m)))
  BY TheyRecord
<1>5. CASE n \in DOMAIN e
  <2>1. Effect(e, Statements(m)[i], m) = e
    BY <1>1, <1>5 DEF Effect, OnlyReads, Exists, CreateIfMissing
  <2>2. Extended(d, e, m, i) => Extended(d, e, m, i + 1)
    BY <1>3, <1>5 DEF Extended
  <2>3. QED BY <1>2, <1>4, <2>1, <2>2 DEF Progress
<1>6. CASE n \notin DOMAIN e
  <2> DEFINE f == Effect(e, Statements(m)[i], m)
  <2>1. Adds(e, f, n, ShapeIn(3, n))
    BY <1>1, <1>6, EffectOfCreate DEF Progress, Shape, ShapeIn
  <2> HIDE DEF f
  <2>2. Extended(d, e, m, i) /\ MigrationTable \in DOMAIN e
    BY DEF Progress
  <2>3. Extended(d, f, m, i + 1)
    BY <1>3, <1>6, <2>1, <2>2 DEF Extended, Adds, StaysBut, Progress, IsDatabase
  <2>4. QED BY <1>2, <1>4, <1>6, <2>1, <2>2, <2>3 DEF Progress, Adds, StaysBut, f
<1>7. QED BY <1>5, <1>6

\* The rebuild of the audit table is never refused before its record either.
LEMMA RebuildAdvances ==
    ASSUME NEW d, NEW e, NEW k \in {3, 4}, Whole(d, k), NEW i \in 1..7, Progress(d, e, 4, i)
    PROVE  /\ ~Refused(e, Statements(4)[i], 4)
           /\ Progress(d, Effect(e, Statements(4)[i], 4), 4, i + 1)
<1> USE DEF MigrationTable, Sessions, Messages, MessageIndex, Audits, AuditsOld, AuditIndex,
            Approvals
<1> DEFINE st == Statements(4)[i]
           f  == Effect(e, st, 4)
<1>1. /\ IsDatabase(e) /\ Rebuilt(d, e, i) /\ MigrationTable \in DOMAIN e
      /\ e[MigrationTable].shape = d[MigrationTable].shape
      /\ e[MigrationTable].rows = d[MigrationTable].rows
  <2>1. Len(Statements(4)) = 8 /\ ~(i > 8)
    BY ScriptLengths
  <2>2. QED BY <2>1 DEF Progress
<1>2. /\ {MigrationTable, Audits, AuditIndex} \subseteq DOMAIN d /\ AuditsOld \notin DOMAIN d
      /\ DOMAIN d \subseteq Name
      /\ Approvals \in DOMAIN d => d[Approvals].shape = "v0.10"
      /\ k = 4 => d[Audits].shape = "v0.10"
  BY DEF Whole, Since, ShapeIn, Name
<1>3. SUFFICES ~Refused(e, st, 4) /\ IsDatabase(f) /\ StaysBut(e, f, {Audits, AuditsOld, AuditIndex})
               /\ Rebuilt(d, f, i + 1)
  <2>1. Len(Statements(4)) = 8 /\ ~(i + 1 > 8)
    BY ScriptLengths
  <2>2. QED BY <1>1, <2>1 DEF Progress, StaysBut
<1> HIDE DEF f, st
<1>4. AuditsOld \in Name /\ Audits \in Name /\ AuditIndex \in Name /\ Approvals \in Name
  BY DEF Name
<1>5. CASE i = 1
  <2>1. AuditIndex \in DOMAIN e /\ st = DropIfExists(AuditIndex)
    BY <1>1, <1>5, StatementsOfFourth DEF Rebuilt, st
  <2>2. ~Refused(e, st, 4) /\ Removes(e, f, AuditIndex)
    BY <1>1, <2>1, EffectOfDrop DEF Refused, DropIfExists, f
  <2>3. QED BY <1>1, <1>2, <1>5, <2>2 DEF Rebuilt, Removes, StaysBut
<1>6. CASE i = 2
  <2>1. /\ Audits \in DOMAIN e /\ AuditsOld \notin DOMAIN e
        /\ st = Rename(Audits, AuditsOld)
    BY <1>1, <1>6, StatementsOfFourth DEF Rebuilt, st
  <2>2. ~Refused(e, st, 4) /\ Renames(e, f, Audits, AuditsOld)
    BY <1>1, <1>4, <2>1, EffectOfRename DEF Refused, Rename, Exists, f
  <2>3. QED BY <1>1, <1>2, <1>6, <2>2 DEF Rebuilt, Renames, StaysBut
<1>7. CASE i = 3
  <2>1. Audits \notin DOMAIN e /\ st = Create(Audits, "v0.10")
    BY <1>1, <1>7, StatementsOfFourth DEF Rebuilt, st
  <2>2. ~Refused(e, st, 4) /\ Adds(e, f, Audits, "v0.10")
    BY <1>1, <1>4, <2>1, EffectOfCreate DEF Refused, Create, Exists, Shape, f
  <2>3. QED BY <1>1, <1>2, <1>7, <2>2 DEF Rebuilt, Adds, StaysBut
<1>8. CASE i = 4
  <2>1. /\ Audits \in DOMAIN e /\ AuditsOld \in DOMAIN e /\ e[Audits].rows = {}
        /\ st = CopyRows(Audits, AuditsOld)
    BY <1>1, <1>8, StatementsOfFourth DEF Rebuilt, st
  <2>2. ~Refused(e, st, 4) /\ GainsRows(e, f, Audits, e[AuditsOld].rows)
    BY <1>1, <2>1, EffectOfCopy DEF Refused, CopyRows, f
  <2>3. QED BY <1>1, <1>2, <1>8, <2>1, <2>2 DEF Rebuilt, GainsRows, StaysBut
<1>9. CASE i = 5
  <2>1. AuditsOld \in DOMAIN e /\ st = DropTable(AuditsOld)
    BY <1>1, <1>9, StatementsOfFourth DEF Rebuilt, st
  <2>2. ~Refused(e, st, 4) /\ Removes(e, f, AuditsOld)
    BY <1>1, <2>1, EffectOfDrop DEF Refused, DropTable, Exists, f
  <2>3. QED BY <1>1, <1>2, <1>9, <2>2 DEF Rebuilt, Removes, StaysBut
<1>10. CASE i = 6
  <2>1. AuditIndex \notin DOMAIN e /\ st = Create(AuditIndex, "v0.9")
    BY <1>1, <1>10, StatementsOfFourth DEF Rebuilt, st
  <2>2. ~Refused(e, st, 4) /\ Adds(e, f, AuditIndex, "v0.9")
    BY <1>1, <1>4, <2>1, EffectOfCreate DEF Refused, Create, Exists, Shape, f
  <2>3. QED BY <1>1, <1>2, <1>10, <2>2 DEF Rebuilt, Adds, StaysBut
<1>11. CASE i = 7
  <2>1. st = CreateIfMissing(Approvals, "v0.10")
    BY <1>11, StatementsOfFourth DEF st
  <2>2. ~Refused(e, st, 4)
    BY <2>1 DEF Refused, CreateIfMissing
  <2>3. CASE Approvals \in DOMAIN e
    <3>1. f = e
      BY <2>1, <2>3 DEF f, Effect, OnlyReads, Exists, CreateIfMissing
    <3>2. QED BY <1>1, <1>2, <1>11, <2>2, <2>3, <3>1 DEF Rebuilt, StaysBut
  <2>4. CASE Approvals \notin DOMAIN e
    <3>1. Adds(e, f, Approvals, "v0.10")
      BY <1>1, <1>4, <2>1, <2>4, EffectOfCreate DEF Shape, f
    <3>2. QED BY <1>1, <1>2, <1>11, <2>2, <2>4, <3>1 DEF Rebuilt, Adds, StaysBut
  <2>5. QED BY <2>3, <2>4
<1>12. QED BY <1>5, <1>6, <1>7, <1>8, <1>9, <1>10, <1>11

\* The record is refused exactly when the migration is recorded already.
LEMMA RecordAdvances ==
    ASSUME NEW d, MigrationTable \in DOMAIN d, NEW e, NEW m \in 1..4, NEW i,
           i = Len(Statements(m)), Progress(d, e, m, i)
    PROVE  LET st == Statements(m)[i] IN
           /\ ~OnlyReads(e, st)
           /\ Refused(e, st, m) <=> m \in d[MigrationTable].rows
           /\ Progress(d, Effect(e, st, m), m, i + 1)
<1> DEFINE st == Statements(m)[i]
           f  == Effect(e, st, m)
<1>1. st = RecordMigration /\ i \in 2..8
  BY TheyRecord
<1>2. IsDatabase(e) /\ MigrationTable \in DOMAIN e
      /\ e[MigrationTable].shape = d[MigrationTable].shape
      /\ e[MigrationTable].rows = d[MigrationTable].rows
  BY <1>1 DEF Progress
<1>3. /\ ~OnlyReads(e, st)
      /\ Refused(e, st, m) <=> m \in d[MigrationTable].rows
  <2>1. ~OnlyReads(e, RecordMigration)
    BY DEF OnlyReads, RecordMigration
  <2>2. Refused(e, RecordMigration, m) <=> m \in e[MigrationTable].rows
    BY DEF Refused, RecordMigration
  <2>3. QED BY <1>1, <1>2, <2>1, <2>2
<1>4. GainsRows(e, f, MigrationTable, {m})
  BY <1>1, <1>2, EffectOfRecord, ScriptLengths
<1> HIDE DEF f, st
<1>5. IsDatabase(f) /\ MigrationTable \in DOMAIN f
      /\ f[MigrationTable].shape = d[MigrationTable].shape
      /\ f[MigrationTable].rows = d[MigrationTable].rows \cup {m}
  BY <1>2, <1>4 DEF GainsRows
<1>6. ASSUME m # 4 PROVE Extended(d, f, m, i + 1)
  <2>1. \A n \in Name : Creates(m, n, i + 1) <=> Creates(m, n, i)
    <3>1. \A n \in Name : RecordMigration # CreateIfMissing(n, ShapeIn(3, n))
      BY DEF RecordMigration, CreateIfMissing
    <3>2. \A j : j \in 1..((i + 1) - 1) <=> (j \in 1..(i - 1) \/ j = i)
      BY <1>1
    <3>3. QED BY <1>1, <3>1, <3>2 DEF Creates, st
  <2>2. Extended(d, e, m, i)
    BY <1>6 DEF Progress
  <2>3. QED BY <1>2, <1>4, <2>1, <2>2 DEF Extended, GainsRows, StaysBut
<1>7. ASSUME m = 4 PROVE Rebuilt(d, f, i + 1)
  <2>1. i = 8 /\ Rebuilt(d, e, 8)
    <3>1. i = 8
      BY <1>7, ScriptLengths
    <3>2. QED BY <1>7, <3>1 DEF Progress
  <2>2. QED BY <1>2, <1>4, <2>1 DEF Rebuilt, GainsRows, StaysBut, MigrationTable, Audits,
                                  AuditsOld, AuditIndex, Approvals
<1>8. i + 1 > Len(Statements(m))
  BY <1>1
<1>9. Progress(d, f, m, i + 1)
  BY <1>5, <1>6, <1>7, <1>8 DEF Progress
<1>10. QED BY <1>3, <1>9 DEF f, st

\* So a statement is refused only to a migration that has been recorded meanwhile, and
\* any other goes one line further.
LEMMA StatementAdvances ==
    ASSUME NEW k \in 0..4, NEW d, Whole(d, k), NEW m \in 1..4, k >= m - 1, NEW e,
           NEW i \in 1..Len(Statements(m)), Progress(d, e, m, i)
    PROVE  LET st == Statements(m)[i] IN
           /\ IsDatabase(Effect(e, st, m))
           /\ OnlyReads(e, st) => Effect(e, st, m) = e
           /\ i = Len(Statements(m)) => ~OnlyReads(e, st)
           /\ Refused(e, st, m) => m \in d[MigrationTable].rows
           /\ ~Refused(e, st, m) =>
                  /\ Progress(d, Effect(e, st, m), m, i + 1)
                  /\ i = Len(Statements(m)) => m \notin d[MigrationTable].rows
<1> DEFINE st == Statements(m)[i]
<1>1. MigrationTable \in DOMAIN d
  <2>1. MigrationTable \in Name /\ Since(MigrationTable) <= k
    BY DEF Since, Name, MigrationTable, Sessions, Messages, MessageIndex, Audits, AuditIndex,
           Approvals
  <2>2. QED BY <2>1 DEF Whole
<1>2. OnlyReads(e, st) => Effect(e, st, m) = e
  BY DEF Effect, OnlyReads
<1>3. CASE i = Len(Statements(m))
  <2>1. /\ ~OnlyReads(e, st)
        /\ Refused(e, st, m) <=> m \in d[MigrationTable].rows
        /\ Progress(d, Effect(e, st, m), m, i + 1)
    BY <1>1, <1>3, RecordAdvances
  <2>2. QED BY <1>2, <2>1 DEF Progress
<1>4. CASE i # Len(Statements(m))
  <2>1. i \in 1..(Len(Statements(m)) - 1)
    BY <1>4, TheyRecord
  <2>2. ~Refused(e, st, m) /\ Progress(d, Effect(e, st, m), m, i + 1)
    <3>1. CASE m = 4
      <4>1. Len(Statements(m)) = 8
        BY <3>1, ScriptLengths
      <4>2. i \in 1..7
        BY <2>1, <4>1
      <4>3. k \in {3, 4}
        BY <3>1
      <4>4. QED BY <3>1, <4>2, <4>3, RebuildAdvances
    <3>2. CASE m # 4
      <4>1. m \in 1..3
        BY <3>2
      <4>2. QED BY <2>1, <4>1, CreateAdvances
    <3>3. QED BY <3>1, <3>2
  <2>3. QED BY <1>2, <1>4, <2>2 DEF Progress
<1>5. QED BY <1>3, <1>4

\* The objects the first three migrations create.
LEMMA WhatTheyCreate ==
    ASSUME NEW n \in Name
    PROVE  /\ Creates(1, n, 3) <=> n = MigrationTable
           /\ Creates(2, n, 5) <=> n \in {Sessions, Messages, MessageIndex}
           /\ Creates(3, n, 4) <=> n \in {Audits, AuditIndex}
<1> USE DEF MigrationTable, Sessions, Messages, MessageIndex, Audits, AuditsOld, AuditIndex,
            Approvals
<1>1. \A o, q \in Name, s, t \in Shape : CreateIfMissing(o, s) = CreateIfMissing(q, t) <=> (o = q /\ s = t)
  BY DEF CreateIfMissing
<1>2. \A o \in Name, s \in Shape : RecordMigration # CreateIfMissing(o, s)
  BY DEF CreateIfMissing, RecordMigration
<1>3. /\ ShapeIn(3, n) \in Shape
      /\ n = MigrationTable => ShapeIn(3, n) = "v0.1"
      /\ n \in {Sessions, Messages, MessageIndex} => ShapeIn(3, n) = "v0.3"
      /\ n \in {Audits, AuditIndex} => ShapeIn(3, n) = "v0.9"
  BY DEF ShapeIn, Shape
<1>4. {MigrationTable, Sessions, Messages, MessageIndex, Audits, AuditIndex} \subseteq Name
      /\ {"v0.1", "v0.3", "v0.9"} \subseteq Shape
  BY DEF Name, Shape
<1> HIDE DEF MigrationTable, Sessions, Messages, MessageIndex, Audits, AuditsOld, AuditIndex,
             Approvals
<1>5. Creates(1, n, 3) <=> n = MigrationTable
  <2>1. Creates(1, n, 3) <=> \/ Statements(1)[1] = CreateIfMissing(n, ShapeIn(3, n))
                             \/ Statements(1)[2] = CreateIfMissing(n, ShapeIn(3, n))
    BY DEF Creates
  <2>2. QED BY <1>1, <1>2, <1>3, <1>4, <2>1, StatementsOfFirst
<1>6. Creates(2, n, 5) <=> n \in {Sessions, Messages, MessageIndex}
  <2>1. Creates(2, n, 5) <=> \/ Statements(2)[1] = CreateIfMissing(n, ShapeIn(3, n))
                             \/ Statements(2)[2] = CreateIfMissing(n, ShapeIn(3, n))
                             \/ Statements(2)[3] = CreateIfMissing(n, ShapeIn(3, n))
                             \/ Statements(2)[4] = CreateIfMissing(n, ShapeIn(3, n))
    BY DEF Creates
  <2>2. QED BY <1>1, <1>2, <1>3, <1>4, <2>1, StatementsOfSecond
<1>7. Creates(3, n, 4) <=> n \in {Audits, AuditIndex}
  <2>1. Creates(3, n, 4) <=> \/ Statements(3)[1] = CreateIfMissing(n, ShapeIn(3, n))
                             \/ Statements(3)[2] = CreateIfMissing(n, ShapeIn(3, n))
                             \/ Statements(3)[3] = CreateIfMissing(n, ShapeIn(3, n))
    BY DEF Creates
  <2>2. QED BY <1>1, <1>2, <1>3, <1>4, <2>1, StatementsOfThird
<1>8. QED BY <1>5, <1>6, <1>7

\* The audit rows of a file, wherever they are.
AuditRows(d) == UNION {d[n].rows : n \in DOMAIN d \cap {Audits, AuditsOld}}

\* A migration that went through made the next release of the file, and kept its rows.
LEMMA MigrationCompletes ==
    ASSUME NEW m \in 1..4, NEW d, Whole(d, m - 1), NEW e,
           Progress(d, e, m, Len(Statements(m)) + 1)
    PROVE  Whole(e, m) /\ AuditRows(e) = AuditRows(d)
<1> USE DEF MigrationTable, Sessions, Messages, MessageIndex, Audits, AuditsOld, AuditIndex,
            Approvals
<1>1. /\ IsDatabase(e) /\ MigrationTable \in DOMAIN e
      /\ e[MigrationTable].shape = "v0.1" /\ e[MigrationTable].rows = 1..m
  <2>1. Len(Statements(m)) + 1 > Len(Statements(m))
    BY TheyRecord
  <2>2. /\ d[MigrationTable].rows = 1..(m - 1)
        /\ d[MigrationTable].shape = "v0.1"
    BY DEF Whole, Since, ShapeIn, Name
  <2>3. 1..m = (1..(m - 1)) \cup {m}
    OBVIOUS
  <2>4. QED BY <2>1, <2>2, <2>3 DEF Progress
<1>2. CASE m = 4
  <2>1. Rebuilt(d, e, 9)
    <3>1. Len(Statements(m)) = 8
      BY <1>2, ScriptLengths
    <3>2. Len(Statements(m)) + 1 = 9
      BY <3>1
    <3>3. QED BY <1>2, <3>2 DEF Progress
  <2>2. Whole(e, 4)
    <3>1. /\ \A n \in Name : n \in DOMAIN d <=> Since(n) <= 3
          /\ \A n \in DOMAIN d : d[n].shape = ShapeIn(3, n)
          /\ d[Audits].rows \subseteq Process \cup {OldRow}
      BY <1>2 DEF Whole, Since, Name
    <3>2. \A n \in Name : n \in DOMAIN e <=> Since(n) <= 4
      BY <1>1, <2>1, <3>1 DEF Rebuilt, StaysBut, Since, Name
    <3>3. \A n \in DOMAIN e : e[n].shape = ShapeIn(4, n)
      <4>1. DOMAIN e \subseteq Name \ {AuditsOld}
        BY <1>1, <2>1 DEF IsDatabase, Rebuilt
      <4>2. \A n \in {Sessions, Messages, MessageIndex} :
                n \in DOMAIN e /\ e[n].shape = ShapeIn(4, n)
        BY <2>1, <3>1 DEF Rebuilt, StaysBut, Since, Name, ShapeIn
      <4>3. \A n \in {MigrationTable, Audits, AuditIndex, Approvals} :
                e[n].shape = ShapeIn(4, n)
        BY <1>1, <2>1 DEF Rebuilt, ShapeIn
      <4>4. QED BY <4>1, <4>2, <4>3 DEF Name
    <3>4. DOMAIN e = {n \in Name : Since(n) <= 4}
      BY <1>1, <3>2 DEF IsDatabase
    <3>5. e[Audits].rows \subseteq Process \cup {OldRow}
      BY <2>1, <3>1 DEF Rebuilt
    <3>6. QED BY <1>1, <1>2, <3>3, <3>4, <3>5 DEF Whole
  <2>3. AuditRows(e) = e[Audits].rows /\ AuditRows(d) = d[Audits].rows
    BY <1>2, <2>1, <2>2 DEF AuditRows, Whole, Since, Rebuilt, Name
  <2>4. QED BY <1>2, <2>1, <2>2, <2>3 DEF Rebuilt
<1>3. CASE m # 4
  <2>1. Extended(d, e, m, Len(Statements(m)) + 1)
    BY <1>3 DEF Progress
  <2>2. \A n \in Name : Creates(m, n, Len(Statements(m)) + 1) <=>
            (Since(n) <= m /\ (Since(n) = m \/ (n = MigrationTable /\ m = 1)))
    <3>1. CASE m = 1
      <4>1. Len(Statements(m)) = 2
        BY <3>1, ScriptLengths
      <4>2. Len(Statements(m)) + 1 = 3
        BY <4>1
      <4>3. QED BY <3>1, <4>2, WhatTheyCreate DEF Since, Name
    <3>2. CASE m = 2
      <4>1. Len(Statements(m)) = 4
        BY <3>2, ScriptLengths
      <4>2. Len(Statements(m)) + 1 = 5
        BY <4>1
      <4>3. QED BY <3>2, <4>2, WhatTheyCreate DEF Since, Name
    <3>3. CASE m = 3
      <4>1. Len(Statements(m)) = 3
        BY <3>3, ScriptLengths
      <4>2. Len(Statements(m)) + 1 = 4
        BY <4>1
      <4>3. QED BY <3>3, <4>2, WhatTheyCreate DEF Since, Name
    <3>4. QED BY <1>3, <3>1, <3>2, <3>3
  <2>3. \A n \in Name : Since(n) \in 0..5 /\ (m <= 3 => ShapeIn(m, n) = ShapeIn(3, n))
    BY DEF Since, ShapeIn
  <2>4. /\ \A n \in Name : n \in DOMAIN e <=> Since(n) <= m
        /\ DOMAIN e = {n \in Name : Since(n) <= m}
    <3>1. \A n \in Name : n \in DOMAIN d <=> Since(n) <= m - 1
      BY DEF Whole
    <3>2. Since(MigrationTable) = 0 /\ MigrationTable \in Name
      BY DEF Since, Name
    <3>3. \A n \in Name : n \in DOMAIN e <=> Since(n) <= m
      BY <2>1, <2>2, <2>3, <3>1, <3>2 DEF Extended
    <3>4. QED BY <1>1, <3>3 DEF IsDatabase
  <2>5. \A n \in DOMAIN e : e[n].shape = ShapeIn(m, n)
    BY <1>1, <1>3, <2>1, <2>3, <2>4 DEF Extended, Whole, StaysBut, ShapeIn, IsDatabase
  <2>6. /\ AuditsOld \notin DOMAIN e /\ AuditsOld \notin DOMAIN d
        /\ IF Audits \in DOMAIN d
           THEN Audits \in DOMAIN e /\ e[Audits] = d[Audits]
           ELSE Audits \in DOMAIN e => e[Audits].rows = {}
    BY <2>1, <2>4 DEF Extended, Whole, StaysBut, Since, Name
  <2>7. AuditRows(e) = AuditRows(d)
    BY <2>6 DEF AuditRows
  <2>8. QED BY <1>1, <2>4, <2>5, <2>6, <2>7 DEF Whole
<1>4. QED BY <1>2, <1>3

-------------------------------------------------------------------------------
(* Every step *)

LEMMA RecordedInFile ==
    /\ db = <<>> => Recorded = {}
    /\ \A k \in 0..Last : Whole(db, k) => /\ Recorded = 1..k /\ db # <<>>
                                          /\ MigrationTable \in DOMAIN db
<1>1. db = <<>> => Recorded = {}
  BY DEF Recorded, Exists
<1>2. ASSUME NEW k \in 0..Last, Whole(db, k)
      PROVE  Recorded = 1..k /\ db # <<>> /\ MigrationTable \in DOMAIN db
  <2>1. MigrationTable \in Name /\ Since(MigrationTable) <= k
    BY ScriptLengths
       DEF Since, Name, MigrationTable, Sessions, Messages, MessageIndex, Audits, AuditIndex,
           Approvals
  <2>2. MigrationTable \in DOMAIN db
    BY <1>2, <2>1 DEF Whole
  <2>3. QED BY <1>2, <2>2 DEF Whole, Recorded, Exists
<1>3. QED BY <1>1, <1>2

\* A start that a step does not concern.
LEMMA BystanderKeeps ==
    ASSUME NEW q \in Process, StartOK(q), UNCHANGED db,
           lock'[q] = lock[q], phase'[q] = phase[q], turn'[q] = turn[q],
           line'[q] = line[q], reason'[q] = reason[q],
           Writing(q) => draft' = draft
    PROVE  StartOK(q)'
<1>1. UNCHANGED Recorded
  BY DEF Recorded, Exists
<1>2. Writing(q)' <=> Writing(q)
  BY DEF Writing
<1>3. View(q)' = View(q)
  BY <1>2 DEF View
<1>4. \A e, m, i : Progress(db, e, m, i)' <=> Progress(db, e, m, i)
  BY DEF Progress, Extended, Rebuilt, StaysBut
<1>5. QED BY <1>1, <1>2, <1>3, <1>4 DEF StartOK

\* A start that holds no lock when the file goes on.
LEMMA OnlookerKeeps ==
    ASSUME NEW q \in Process, StartOK(q), lock[q] = "none", db' # <<>>,
           Recorded \subseteq Recorded', Recorded' \subseteq 1..Last,
           lock'[q] = lock[q], phase'[q] = phase[q], turn'[q] = turn[q],
           line'[q] = line[q], reason'[q] = reason[q]
    PROVE  StartOK(q)'
BY DEF StartOK, Writing

\* A transaction that ends takes its draft and its lock with it.
LEMMA LettingGo ==
    ASSUME TypesInv, NEW p \in Process, LetGo(p)
    PROVE  /\ lock' \in [Process -> {"none", "shared", "reserved", "pending"}]
           /\ draft' = Nothing \/ (IsDatabase(draft)' /\ draft' = draft)
           /\ \A q, r \in Process : Writing(q)' /\ Writing(r)' => q = r
           /\ draft' = Nothing <=> \A q \in Process : ~Writing(q)'
           /\ lock'[p] = "none" /\ ~Writing(p)'
           /\ \A q \in Process \ {p} : /\ lock'[q] = lock[q]
                                       /\ Writing(q) => draft' = draft
<1>1. /\ lock' = [lock EXCEPT ![p] = "none"]
      /\ lock \in [Process -> {"none", "shared", "reserved", "pending"}]
      /\ \A q, r \in Process : Writing(q) /\ Writing(r) => q = r
      /\ draft = Nothing <=> \A q \in Process : ~Writing(q)
      /\ draft = Nothing \/ IsDatabase(draft)
      /\ draft' = IF Writing(p) THEN Nothing ELSE draft
  BY DEF LetGo, TypesInv
<1>2. ~Writing(p)' /\ \A q \in Process \ {p} : Writing(q)' <=> Writing(q)
  BY <1>1 DEF Writing
<1>3. draft' = draft => IsDatabase(draft)' = IsDatabase(draft)
  BY DEF IsDatabase
<1>4. QED BY <1>1, <1>2, <1>3

\* A start that ends, by an error or with its process.
LEMMA LeavePreserves ==
    ASSUME IInv, NEW p \in Process, LetGo(p), UNCHANGED <<db, turn, line>>,
           NEW x \in {"failed", "dead"}, phase' = [phase EXCEPT ![p] = x],
           \/ UNCHANGED reason /\ reason[p] # "refused"
           \/ \E why \in {"busy", "timeout", "disk"} : reason' = [reason EXCEPT ![p] = why]
           \/ /\ x = "failed" /\ reason' = [reason EXCEPT ![p] = "refused"]
              /\ turn[p] \in Recorded
    PROVE  IInv'
<1>0. /\ lock' \in [Process -> {"none", "shared", "reserved", "pending"}]
      /\ draft' = Nothing \/ IsDatabase(draft)'
      /\ \A q, r \in Process : Writing(q)' /\ Writing(r)' => q = r
      /\ draft' = Nothing <=> \A q \in Process : ~Writing(q)'
      /\ lock'[p] = "none" /\ ~Writing(p)'
      /\ \A q \in Process \ {p} : /\ lock'[q] = lock[q]
                                  /\ Writing(q) => draft' = draft
  BY LettingGo DEF IInv
<1>1. TypesInv'
  <2>1. /\ phase' \in [Process -> {"down", "ensure", "look", "apply", "commit",
                                  "ready", "failed", "dead"}]
        /\ reason' \in [Process -> {"", "refused", "busy", "timeout", "disk"}]
        /\ turn' \in [Process -> 1..(Last + 1)] /\ line' \in [Process -> 1..10]
    BY DEF IInv, TypesInv
  <2>2. QED BY <1>0, <2>1 DEF TypesInv
<1>2. ASSUME NEW q \in Process \ {p} PROVE StartOK(q)'
  <2>1. /\ phase'[q] = phase[q] /\ turn'[q] = turn[q] /\ line'[q] = line[q]
        /\ reason'[q] = reason[q] /\ StartOK(q)
    BY DEF IInv, TypesInv
  <2>2. QED BY <1>0, <2>1, BystanderKeeps
<1>3. UNCHANGED Recorded
  BY DEF Recorded, Exists
<1>4. StartOK(p)'
  <2>1. /\ phase'[p] = x /\ turn'[p] = turn[p]
        /\ reason'[p] = "refused" => x = "failed" /\ turn[p] \in Recorded
    BY DEF IInv, TypesInv
  <2>2. QED BY <1>0, <1>3, <2>1 DEF StartOK
<1>5. FileInv'
  BY DEF IInv, FileInv, Whole, IsDatabase
<1>6. QED BY <1>1, <1>2, <1>4, <1>5 DEF IInv

\* A step of p that leaves the file and its locks alone.
LEMMA QuietStepPreserves ==
    ASSUME IInv, NEW p \in Process, UNCHANGED <<fileVars, reason>>,
           \A q \in Process \ {p} : /\ phase'[q] = phase[q] /\ turn'[q] = turn[q]
                                    /\ line'[q] = line[q],
           phase' \in [Process -> {"down", "ensure", "look", "apply", "commit",
                                   "ready", "failed", "dead"}],
           turn' \in [Process -> 1..(Last + 1)], line' \in [Process -> 1..10],
           StartOK(p)'
    PROVE  IInv'
<1>1. UNCHANGED <<db, draft, lock, reason>>
  BY DEF fileVars
<1>2. \A q \in Process : Writing(q)' <=> Writing(q)
  BY <1>1 DEF Writing
<1>3. TypesInv'
  BY <1>1, <1>2 DEF IInv, TypesInv, IsDatabase
<1>4. FileInv'
  BY <1>1 DEF IInv, FileInv, Whole, IsDatabase
<1>5. ASSUME NEW q \in Process \ {p} PROVE StartOK(q)'
  BY <1>1, BystanderKeeps DEF IInv
<1>6. QED BY <1>3, <1>4, <1>5 DEF IInv

LEMMA StartPreserves ==
    ASSUME IInv, NEW p \in Process, Start(p)
    PROVE  IInv'
<1>1. /\ phase[p] = "down" /\ phase' = [phase EXCEPT ![p] = "ensure"]
      /\ UNCHANGED <<fileVars, turn, line, reason>> /\ UNCHANGED lock
  BY DEF Start, fileVars
<1>2. StartOK(p)'
  BY <1>1 DEF IInv, TypesInv, StartOK
<1>3. QED BY <1>1, <1>2, QuietStepPreserves DEF IInv, TypesInv

LEMMA LookPreserves ==
    ASSUME IInv, NEW p \in Process, Look(p)
    PROVE  IInv'
<1>1. /\ phase[p] = "look" /\ UNCHANGED <<fileVars, reason>>
      /\ UNCHANGED <<db, draft, lock>>
      /\ \/ /\ turn[p] \in Recorded /\ turn' = [turn EXCEPT ![p] = @ + 1]
            /\ phase' = [phase EXCEPT ![p] = IF turn[p] = Last THEN "ready" ELSE "look"]
            /\ UNCHANGED line
         \/ /\ phase' = [phase EXCEPT ![p] = "apply"] /\ UNCHANGED turn
            /\ line' = [line EXCEPT ![p] = 1]
  <2>1. db # <<>> /\ phase[p] = "look"
    BY DEF Look, IInv, StartOK
  <2>2. Done(p) = Recorded
    BY <2>1, RecordedInFile DEF IInv, FileInv, Done, Recorded, Exists
  <2>3. QED BY <2>1, <2>2 DEF Look, Proceed, fileVars
<1>2. UNCHANGED Recorded
  BY <1>1 DEF Recorded, Exists
<1>3. /\ turn[p] \in 1..Last /\ db # <<>> /\ lock[p] = "none" /\ reason[p] # "refused"
      /\ \A m \in 1..(turn[p] - 1) : m \in Recorded
      /\ turn \in [Process -> 1..(Last + 1)] /\ line \in [Process -> 1..10]
      /\ phase \in [Process -> {"down", "ensure", "look", "apply", "commit",
                                "ready", "failed", "dead"}]
  BY <1>1 DEF IInv, TypesInv, StartOK
<1>4. StartOK(p)'
  <2>1. CASE line' = [line EXCEPT ![p] = 1] /\ phase' = [phase EXCEPT ![p] = "apply"]
             /\ UNCHANGED turn
    <3>1. 1 \in 1..Len(Statements(turn[p]))
      <4>1. Len(Statements(turn[p])) \in 2..8
        BY <1>3, TheyRecord, ScriptLengths
      <4>2. \A n \in 2..8 : 1 \in 1..n
        OBVIOUS
      <4>3. QED BY <4>1, <4>2
    <3>2. QED BY <1>1, <1>2, <1>3, <2>1, <3>1 DEF StartOK
  <2>2. CASE /\ turn[p] \in Recorded /\ turn' = [turn EXCEPT ![p] = @ + 1]
             /\ phase' = [phase EXCEPT ![p] = IF turn[p] = Last THEN "ready" ELSE "look"]
    <3>1. turn'[p] = turn[p] + 1 /\ Last = 4
      BY <1>3, <2>2, ScriptLengths
    <3>2. \A m \in 1..(turn'[p] - 1) : m \in Recorded
      BY <1>3, <2>2, <3>1
    <3>3. turn[p] = Last => Recorded = 1..Last
      <4>1. Recorded \subseteq 1..Last
        BY RecordedInFile, ScriptLengths DEF IInv, FileInv
      <4>2. QED BY <3>1, <3>2, <4>1
    <3>4. turn[p] # Last => turn'[p] \in 1..Last
      BY <1>3, <3>1
    <3>5. phase'[p] \in {"ready", "look"} /\ (phase'[p] = "ready" <=> turn[p] = Last)
      BY <1>3, <2>2
    <3>6. QED BY <1>1, <1>2, <1>3, <3>2, <3>3, <3>4, <3>5 DEF StartOK
  <2>3. QED BY <1>1, <2>1, <2>2
<1>5. /\ turn' \in [Process -> 1..(Last + 1)] /\ line' \in [Process -> 1..10]
      /\ phase' \in [Process -> {"down", "ensure", "look", "apply", "commit",
                                 "ready", "failed", "dead"}]
      /\ \A q \in Process \ {p} : /\ phase'[q] = phase[q] /\ turn'[q] = turn[q]
                                  /\ line'[q] = line[q]
  BY <1>1, <1>3, ScriptLengths
<1>6. QED BY <1>1, <1>4, <1>5, QuietStepPreserves

LEMMA EnsurePreserves ==
    ASSUME IInv, NEW p \in Process, Ensure(p)
    PROVE  IInv' /\ UNCHANGED <<Recorded, AuditRows(db)>>
<1> DEFINE create == BootstrapScript[1]
<1>1. create = CreateIfMissing(MigrationTable, "v0.1")
  BY DEF BootstrapScript
<1>2. /\ phase[p] = "ensure" /\ phase' = [phase EXCEPT ![p] = "look"]
      /\ db' = Effect(db, create, 0) /\ UNCHANGED <<draft, lock, turn, line, reason>>
      /\ ~OnlyReads(db, create) => MayCommit(p)
  BY DEF Ensure
<1>3. /\ turn[p] = 1 /\ lock[p] = "none" /\ reason[p] # "refused"
      /\ phase \in [Process -> {"down", "ensure", "look", "apply", "commit",
                                "ready", "failed", "dead"}]
  BY <1>2 DEF IInv, TypesInv, StartOK
<1>4. CASE OnlyReads(db, create)
  <2>1. UNCHANGED <<fileVars, reason>>
    BY <1>2, <1>4 DEF Effect, OnlyReads, fileVars
  <2>2. db # <<>> /\ UNCHANGED Recorded
    BY <1>1, <1>4, <2>1 DEF OnlyReads, Exists, CreateIfMissing, fileVars, Recorded
  <2>3. StartOK(p)'
    BY <1>2, <1>3, <2>1, <2>2, ScriptLengths DEF StartOK, fileVars
  <2>4. IInv'
    BY <1>2, <1>3, <2>1, <2>3, QuietStepPreserves DEF IInv, TypesInv
  <2>5. UNCHANGED AuditRows(db)
    BY <2>1 DEF fileVars, AuditRows
  <2>6. QED BY <2>2, <2>4, <2>5
<1>5. CASE ~OnlyReads(db, create)
  <2>1. db = <<>> /\ IsDatabase(db) /\ MigrationTable \notin DOMAIN db
    <3>1. MigrationTable \notin DOMAIN db
      BY <1>1, <1>5 DEF OnlyReads, Exists, CreateIfMissing
    <3>2. db = <<>>
      BY <3>1, RecordedInFile DEF IInv, FileInv
    <3>3. QED BY <3>1, <3>2 DEF IsDatabase
  <2>2. Whole(db', 0)
    <3>1. Adds(db, db', MigrationTable, "v0.1")
      BY <1>1, <1>2, <2>1, EffectOfCreate DEF Shape, Name
    <3>2. DOMAIN db' = {MigrationTable}
      BY <2>1, <3>1 DEF Adds
    <3>3. {MigrationTable} = {n \in Name : Since(n) <= 0} /\ ShapeIn(0, MigrationTable) = "v0.1"
      BY DEF Name, Since, ShapeIn, MigrationTable, Sessions, Messages, MessageIndex, Audits,
             AuditsOld, AuditIndex, Approvals
    <3>4. Audits \notin {MigrationTable} /\ 1..0 = {}
      BY DEF MigrationTable, Audits
    <3>5. QED BY <3>1, <3>2, <3>3, <3>4 DEF Adds, Whole
  <2>3. \A q \in Process : lock[q] = "none"
    BY <1>2, <1>3, <1>5 DEF MayCommit, NoneOf, Others, IInv, TypesInv
  <2>4. /\ db' # <<>> /\ Recorded' = {} /\ Recorded = {}
        /\ FileInv'
    <3>1. Whole(db, 0)'
      BY <2>2 DEF Whole, IsDatabase
    <3>2. Recorded = {}
      BY <2>1, RecordedInFile
    <3>3. (db # <<>> /\ Recorded = 1..0)'
      <4>1. MigrationTable \in DOMAIN db' /\ db'[MigrationTable].rows = 1..0
        BY <2>2 DEF Whole, Since, Name, MigrationTable, Sessions, Messages, MessageIndex,
                    Audits, AuditsOld, AuditIndex, Approvals
      <4>2. QED BY <4>1 DEF Recorded, Exists
    <3>4. QED BY <3>1, <3>2, <3>3, ScriptLengths DEF FileInv
  <2>5. TypesInv'
    <3>1. \A q \in Process : Writing(q)' <=> Writing(q)
      BY <1>2 DEF Writing
    <3>2. QED BY <1>2, <1>3, <3>1 DEF IInv, TypesInv, IsDatabase
  <2>6. ASSUME NEW q \in Process \ {p} PROVE StartOK(q)'
    BY <1>2, <1>3, <2>3, <2>4, <2>6, OnlookerKeeps DEF IInv
  <2>7. StartOK(p)'
    BY <1>2, <1>3, <2>3, <2>4, ScriptLengths DEF StartOK
  <2>8. UNCHANGED AuditRows(db)
    <3>1. {Audits, AuditsOld} \cap DOMAIN db = {} /\ {Audits, AuditsOld} \cap DOMAIN db' = {}
      BY <2>1, <2>2 DEF Whole, Since, MigrationTable, Sessions, Messages, MessageIndex, Audits,
                        AuditsOld, AuditIndex, Approvals
    <3>2. QED BY <3>1 DEF AuditRows
  <2>9. QED BY <2>4, <2>5, <2>6, <2>7, <2>8 DEF IInv
<1>6. QED BY <1>4, <1>5

\* Core, once it is ready, adds an audit row of its own.
LEMMA RecordPreserves ==
    ASSUME IInv, NEW p \in Process, Record(p)
    PROVE  /\ IInv' /\ Recorded' = 1..Last /\ Recorded = 1..Last
           /\ AuditRows(db') = AuditRows(db) \cup {p}
<1>1. /\ phase[p] = "ready" /\ MayCommit(p) /\ Audits \in DOMAIN db
      /\ db' = [db EXCEPT ![Audits].rows = @ \cup {p}]
      /\ UNCHANGED <<draft, lock, startVars>>
      /\ UNCHANGED <<phase, turn, line, reason>>
  BY DEF Record, Exists, startVars
<1>2. Recorded = 1..4 /\ Last = 4 /\ \A q \in Process : lock[q] = "none"
  <2>1. Last = 4
    BY ScriptLengths
  <2>2. Recorded = 1..Last /\ lock[p] = "none"
    BY <1>1 DEF IInv, StartOK
  <2>3. lock \in [Process -> {"none", "shared", "reserved", "pending"}]
    BY DEF IInv, TypesInv
  <2>4. \A q \in Process \ {p} : lock[q] = "none"
    BY <1>1, <2>3 DEF MayCommit, NoneOf, Others
  <2>5. QED BY <2>1, <2>2, <2>4
<1>3. PICK k \in 0..4 : Whole(db, k)
  BY <1>2, RecordedInFile DEF IInv, FileInv
<1>4. k = 4 /\ IsDatabase(db) /\ MigrationTable \in DOMAIN db
  <2>1. 1..k = 1..4 /\ MigrationTable \in DOMAIN db
    BY <1>2, <1>3, RecordedInFile
  <2>2. k = 4
    <3>1. 4 \in 1..k
      BY <2>1
    <3>2. QED BY <3>1
  <2>3. QED BY <1>3, <2>1, <2>2 DEF Whole
<1>5. GainsRows(db, db', Audits, {p})
  <2>1. {p} \in SUBSET ((1..Last) \cup Process \cup {OldRow})
    OBVIOUS
  <2>2. QED BY <1>1, <1>4, <2>1, RowsAreGained
<1>6. Whole(db', 4)
  <2>1. Audits # MigrationTable
    BY DEF Audits, MigrationTable
  <2>2. QED BY <1>1, <1>3, <1>4, <1>5, <2>1 DEF Whole, GainsRows, StaysBut
<1>7. AuditRows(db') = AuditRows(db) \cup {p}
  <2>1. AuditsOld \notin DOMAIN db
    BY <1>3, <1>4 DEF Whole, Since, MigrationTable, Sessions, Messages, MessageIndex, Audits,
                      AuditsOld, AuditIndex, Approvals
  <2>2. AuditRows(db') = db'[Audits].rows /\ AuditRows(db) = db[Audits].rows
    BY <1>1, <1>5, <2>1 DEF AuditRows, GainsRows
  <2>3. QED BY <1>5, <2>2 DEF GainsRows
<1>8. Recorded' = 1..4 /\ db' # <<>> /\ FileInv'
  <2>1. Whole(db, 4)'
    BY <1>6 DEF Whole, IsDatabase
  <2>2. MigrationTable \in DOMAIN db' /\ db'[MigrationTable].rows = 1..4
    BY <1>4, <1>5, <1>6 DEF GainsRows, Whole
  <2>3. Recorded' = 1..4 /\ db' # <<>>
    BY <2>2 DEF Recorded, Exists
  <2>4. QED BY <1>2, <2>1, <2>3 DEF FileInv
<1>9. ASSUME NEW q \in Process PROVE StartOK(q)'
  BY <1>1, <1>2, <1>8, OnlookerKeeps DEF IInv
<1>10. TypesInv'
  <2>1. \A q \in Process : Writing(q)' <=> Writing(q)
    BY <1>1 DEF Writing
  <2>2. QED BY <1>1, <2>1 DEF IInv, TypesInv, IsDatabase
<1>11. QED BY <1>2, <1>7, <1>8, <1>9, <1>10 DEF IInv

\* What a transaction that is about to do its next statement has before it.
LEMMA BeforeExecute ==
    ASSUME IInv, NEW p \in Process, phase[p] = "apply",
           OnlyReads(View(p), Statements(turn[p])[line[p]]) => MayRead(p)
    PROVE  /\ turn[p] \in 1..4 /\ line[p] \in 1..Len(Statements(turn[p])) /\ line[p] \in 1..8
           /\ \E k \in 0..4 : Whole(db, k) /\ k >= turn[p] - 1 /\ Recorded = 1..k
           /\ Progress(db, View(p), turn[p], line[p])
           /\ db # <<>> /\ lock[p] # "pending" /\ reason[p] # "refused"
           /\ \A m \in 1..(turn[p] - 1) : m \in Recorded
<1>1. Last = 4 /\ StartOK(p) /\ FileInv
  BY ScriptLengths DEF IInv
<1>2. /\ turn[p] \in 1..4 /\ line[p] \in 1..Len(Statements(turn[p])) /\ db # <<>>
      /\ lock[p] # "pending" /\ reason[p] # "refused"
      /\ \A m \in 1..(turn[p] - 1) : m \in Recorded
      /\ lock[p] = "none" => line[p] = 1
      /\ lock[p] # "none" => Progress(db, View(p), turn[p], line[p])
  BY <1>1 DEF StartOK
<1>3. line[p] \in 1..8
  <2>1. Len(Statements(turn[p])) \in 2..8
    BY <1>2, TheyRecord
  <2>2. \A n \in 2..8 : 1..n \subseteq 1..8
    OBVIOUS
  <2>3. QED BY <1>2, <2>1, <2>2
<1>4. PICK k \in 0..4 : Whole(db, k) /\ Recorded = 1..k
  BY <1>1, <1>2, RecordedInFile DEF FileInv
<1>5. k >= turn[p] - 1
  <2>1. CASE turn[p] = 1
    BY <1>4, <2>1
  <2>2. CASE turn[p] # 1
    <3>1. turn[p] - 1 \in 1..(turn[p] - 1)
      BY <1>2, <2>2
    <3>2. turn[p] - 1 \in 1..k
      BY <1>2, <1>4, <3>1
    <3>3. QED BY <3>2
  <2>3. QED BY <2>1, <2>2
<1>6. Progress(db, View(p), turn[p], line[p])
  <2>1. CASE lock[p] = "none"
    <3>1. View(p) = db
      BY <2>1 DEF View, Writing
    <3>2. Progress(db, db, turn[p], 1)
      BY <1>2, <1>4, <1>5, NothingDoneYet
    <3>3. QED BY <1>2, <2>1, <3>1, <3>2
  <2>2. QED BY <1>2, <2>1
<1>7. QED BY <1>2, <1>3, <1>4, <1>5, <1>6

\* It gets on, by a line, with what the statement made of its view.
LEMMA StepPreserves ==
    ASSUME IInv, NEW p \in Process, phase[p] = "apply",
           turn[p] \in 1..4, line[p] \in 1..Len(Statements(turn[p])), line[p] \in 1..8,
           db # <<>>, reason[p] # "refused", \A m \in 1..(turn[p] - 1) : m \in Recorded,
           UNCHANGED db, Step(p),
           Progress(db, View(p)', turn[p], line[p] + 1),
           line[p] = Len(Statements(turn[p])) => Writing(p)' /\ turn[p] \notin Recorded,
           NEW x \in {"shared", "reserved"}, lock' = [lock EXCEPT ![p] = x],
           draft' = Nothing \/ IsDatabase(draft'),
           \A q, r \in Process : Writing(q)' /\ Writing(r)' => q = r,
           draft' = Nothing <=> \A q \in Process : ~Writing(q)',
           \A q \in Process \ {p} : Writing(q) => draft' = draft
    PROVE  IInv'
<1>1. /\ phase' = [phase EXCEPT ![p] = IF line[p] = Len(Statements(turn[p]))
                                       THEN "commit" ELSE "apply"]
      /\ line' = [line EXCEPT ![p] = @ + 1]
      /\ UNCHANGED <<turn, reason>>
  BY DEF Step
<1>2. /\ lock \in [Process -> {"none", "shared", "reserved", "pending"}]
      /\ phase \in [Process -> {"down", "ensure", "look", "apply", "commit",
                                "ready", "failed", "dead"}]
      /\ turn \in [Process -> 1..(Last + 1)]
      /\ line \in [Process -> 1..10]
      /\ reason \in [Process -> {"", "refused", "busy", "timeout", "disk"}]
  BY DEF IInv, TypesInv
<1>3. TypesInv'
  <2>1. line[p] + 1 \in 1..10
    OBVIOUS
  <2>2. line' \in [Process -> 1..10]
    BY <1>1, <1>2, <2>1
  <2>3. /\ lock' \in [Process -> {"none", "shared", "reserved", "pending"}]
        /\ phase' \in [Process -> {"down", "ensure", "look", "apply", "commit",
                                   "ready", "failed", "dead"}]
    BY <1>1, <1>2
  <2>4. draft' = Nothing \/ IsDatabase(draft)'
    BY DEF IsDatabase
  <2>5. QED BY <1>1, <1>2, <2>2, <2>3, <2>4 DEF TypesInv
<1>4. UNCHANGED Recorded
  BY DEF Recorded, Exists
<1>5. FileInv'
  BY DEF IInv, FileInv, Whole, IsDatabase
<1>6. ASSUME NEW q \in Process \ {p} PROVE StartOK(q)'
  <2>1. /\ phase'[q] = phase[q] /\ turn'[q] = turn[q] /\ line'[q] = line[q]
        /\ reason'[q] = reason[q] /\ lock'[q] = lock[q] /\ StartOK(q)
    BY <1>1, <1>2 DEF IInv
  <2>2. Writing(q) => draft' = draft
    OBVIOUS
  <2>3. QED BY <2>1, <2>2, BystanderKeeps
<1>7. StartOK(p)'
  <2>1. /\ lock'[p] = x /\ turn'[p] = turn[p] /\ line'[p] = line[p] + 1
        /\ reason'[p] # "refused"
        /\ phase'[p] = IF line[p] = Len(Statements(turn[p])) THEN "commit" ELSE "apply"
    BY <1>1, <1>2
  <2>2. Last = 4 /\ Len(Statements(turn[p])) \in 2..8
    BY ScriptLengths, TheyRecord
  <2>3. /\ turn'[p] \in 1..Last /\ db' # <<>>
        /\ \A m \in 1..(turn'[p] - 1) : m \in Recorded'
    BY <1>4, <2>1, <2>2
  <2>4. Progress(db, View(p), turn[p], line[p])' /\ turn'[p] = turn[p]
    <3>1. Progress(db', View(p)', turn'[p], line'[p])
      BY <2>1
    <3>2. QED BY <2>1, <3>1 DEF Progress, Extended, Rebuilt, StaysBut
  <2>5. CASE line[p] = Len(Statements(turn[p]))
    <3>1. Writing(p)' /\ turn'[p] \notin Recorded' /\ phase'[p] = "commit"
      BY <1>4, <2>1, <2>5
    <3>2. View(p)' = draft'
      BY <3>1 DEF View
    <3>3. (Progress(db, draft, turn[p], Len(Statements(turn[p])) + 1))'
      BY <2>1, <2>4, <2>5, <3>2
    <3>4. QED BY <2>1, <2>3, <3>1, <3>3 DEF StartOK
  <2>6. CASE line[p] # Len(Statements(turn[p]))
    <3>1. line'[p] \in 1..Len(Statements(turn'[p])) /\ phase'[p] = "apply"
      <4>1. \A n \in 2..8 : \A i \in 1..n : i # n => i + 1 \in 1..n
        OBVIOUS
      <4>2. QED BY <2>1, <2>2, <2>6, <4>1
    <3>2. lock'[p] # "pending" /\ lock'[p] # "none"
      BY <2>1
    <3>3. QED BY <2>1, <2>3, <2>4, <3>1, <3>2 DEF StartOK
  <2>7. QED BY <2>5, <2>6
<1>8. QED BY <1>3, <1>5, <1>6, <1>7 DEF IInv

LEMMA ExecutePreserves ==
    ASSUME IInv, NEW p \in Process, Execute(p)
    PROVE  IInv'
<1> DEFINE m  == turn[p]
           st == Statements(m)[line[p]]
           d  == View(p)
<1>1. /\ phase[p] = "apply"
      /\ \/ /\ OnlyReads(d, st) /\ MayRead(p)
            /\ lock' = [lock EXCEPT ![p] = IF @ = "none" THEN "shared" ELSE @]
            /\ UNCHANGED <<db, draft>>
            /\ Step(p)
         \/ /\ ~OnlyReads(d, st) /\ MayWrite(p) /\ ~Refused(d, st, m)
            /\ WriteDraft(p, Effect(d, st, m))
            /\ Step(p)
         \/ ~OnlyReads(d, st) /\ MayWrite(p) /\ Refused(d, st, m) /\ Fail(p, "refused")
         \/ ~OnlyReads(d, st) /\ BusyAtOnce(p) /\ Fail(p, "busy")
  BY DEF Execute
<1> HIDE DEF st, d
<1>2. OnlyReads(d, st) => MayRead(p)
  BY <1>1
<1>3. /\ m \in 1..4 /\ line[p] \in 1..Len(Statements(m)) /\ line[p] \in 1..8
      /\ \E k \in 0..4 : Whole(db, k) /\ k >= m - 1 /\ Recorded = 1..k
      /\ Progress(db, d, m, line[p])
      /\ db # <<>> /\ lock[p] # "pending" /\ reason[p] # "refused"
      /\ \A n \in 1..(m - 1) : n \in Recorded
  BY <1>1, <1>2, BeforeExecute DEF d, st
<1>4. PICK k \in 0..4 : Whole(db, k) /\ k >= m - 1 /\ Recorded = 1..k
  BY <1>3
<1>5. /\ IsDatabase(Effect(d, st, m))
      /\ OnlyReads(d, st) => Effect(d, st, m) = d
      /\ line[p] = Len(Statements(m)) => ~OnlyReads(d, st)
      /\ Refused(d, st, m) => m \in db[MigrationTable].rows
      /\ ~Refused(d, st, m) =>
             /\ Progress(db, Effect(d, st, m), m, line[p] + 1)
             /\ line[p] = Len(Statements(m)) => m \notin db[MigrationTable].rows
  BY <1>3, <1>4, StatementAdvances DEF st
<1>6. db[MigrationTable].rows = Recorded
  BY <1>4 DEF Whole
<1>7. /\ lock \in [Process -> {"none", "shared", "reserved", "pending"}]
      /\ \A q, r \in Process : Writing(q) /\ Writing(r) => q = r
      /\ draft = Nothing <=> \A q \in Process : ~Writing(q)
      /\ draft = Nothing \/ IsDatabase(draft)
  BY DEF IInv, TypesInv
<1>8. CASE /\ OnlyReads(d, st) /\ Step(p) /\ UNCHANGED <<db, draft>>
           /\ lock' = [lock EXCEPT ![p] = IF @ = "none" THEN "shared" ELSE @]
  <2> DEFINE x == IF lock[p] = "none" THEN "shared" ELSE lock[p]
  <2>1. x \in {"shared", "reserved"} /\ lock' = [lock EXCEPT ![p] = x]
    BY <1>3, <1>7, <1>8
  <2>2. \A q \in Process : Writing(q)' <=> Writing(q)
    BY <1>7, <1>8 DEF Writing
  <2>3. View(p)' = d
    BY <1>8, <2>2 DEF View, d
  <2>4. ~Refused(d, st, m)
    BY <1>8 DEF OnlyReads, Refused
  <2>5. Progress(db, View(p)', m, line[p] + 1)
    BY <1>5, <1>8, <2>3, <2>4
  <2>6. line[p] # Len(Statements(m))
    BY <1>5, <1>8
  <2> HIDE DEF x
  <2>7. QED BY <1>1, <1>3, <1>7, <1>8, <2>1, <2>2, <2>5, <2>6, StepPreserves
<1>9. CASE /\ MayWrite(p) /\ ~Refused(d, st, m) /\ Step(p)
           /\ WriteDraft(p, Effect(d, st, m))
  <2>1. /\ draft' = Effect(d, st, m) /\ lock' = [lock EXCEPT ![p] = "reserved"]
        /\ UNCHANGED db
    BY <1>9 DEF WriteDraft
  <2>2. \A q \in Process \ {p} : ~Writing(q)
    BY <1>9 DEF MayWrite, NoneOf, Others, Writing
  <2>3. Writing(p)' /\ \A q \in Process \ {p} : ~Writing(q)'
    BY <1>7, <2>1, <2>2 DEF Writing
  <2>4. draft' # Nothing /\ IsDatabase(draft')
    <3>1. IsDatabase(draft')
      BY <1>5, <2>1
    <3>2. QED BY <3>1, NothingIsNoDatabase DEF IsDatabase
  <2>5. View(p)' = Effect(d, st, m)
    BY <2>1, <2>3 DEF View
  <2>6. Progress(db, View(p)', m, line[p] + 1)
    BY <1>5, <1>9, <2>5
  <2>7. line[p] = Len(Statements(m)) => m \notin Recorded
    BY <1>5, <1>6, <1>9
  <2>8. QED BY <1>1, <1>3, <1>9, <2>1, <2>2, <2>3, <2>4, <2>6, <2>7, StepPreserves
<1>10. CASE Refused(d, st, m) /\ Fail(p, "refused")
  BY <1>5, <1>6, <1>10, LeavePreserves DEF Fail
<1>11. CASE Fail(p, "busy")
  BY <1>11, LeavePreserves DEF Fail
<1>12. QED BY <1>1, <1>8, <1>9, <1>10, <1>11

\* The transaction ends with the next release in the file, and all its audit rows.
LEMMA CommitPreserves ==
    ASSUME IInv, NEW p \in Process, Commit(p)
    PROVE  /\ IInv'
           /\ UNCHANGED db \/ \E m \in 1..4 : /\ Whole(db, m - 1) /\ Whole(db', m)
                                              /\ Recorded = 1..(m - 1) /\ Recorded' = 1..m
                                              /\ AuditRows(db') = AuditRows(db)
<1> DEFINE m == turn[p]
<1>1. /\ phase[p] = "commit"
      /\ \/ /\ MayCommit(p) /\ db' = draft /\ LetGo(p)
            /\ turn' = [turn EXCEPT ![p] = @ + 1]
            /\ phase' = [phase EXCEPT ![p] = IF turn[p] = Last THEN "ready" ELSE "look"]
            /\ UNCHANGED <<line, reason>>
         \/ /\ lock[p] = "reserved" /\ lock' = [lock EXCEPT ![p] = "pending"]
            /\ UNCHANGED <<db, draft, phase, turn, line, reason>>
  BY DEF Commit, Proceed, startVars
<1>2. /\ Last = 4 /\ m \in 1..4 /\ db # <<>> /\ Writing(p) /\ m \notin Recorded
      /\ Progress(db, draft, m, Len(Statements(m)) + 1)
      /\ \A n \in 1..(m - 1) : n \in Recorded
      /\ reason[p] # "refused"
  BY <1>1, ScriptLengths DEF IInv, StartOK
<1>3. /\ lock \in [Process -> {"none", "shared", "reserved", "pending"}]
      /\ phase \in [Process -> {"down", "ensure", "look", "apply", "commit",
                                "ready", "failed", "dead"}]
      /\ turn \in [Process -> 1..(Last + 1)]
      /\ line \in [Process -> 1..10]
      /\ reason \in [Process -> {"", "refused", "busy", "timeout", "disk"}]
      /\ \A q, r \in Process : Writing(q) /\ Writing(r) => q = r
      /\ draft = Nothing <=> \A q \in Process : ~Writing(q)
      /\ draft = Nothing \/ IsDatabase(draft)
  BY DEF IInv, TypesInv
<1>4. CASE /\ lock[p] = "reserved" /\ lock' = [lock EXCEPT ![p] = "pending"]
           /\ UNCHANGED <<db, draft, phase, turn, line, reason>>
  <2>1. \A q \in Process : Writing(q)' <=> Writing(q)
    BY <1>3, <1>4 DEF Writing
  <2>2. TypesInv'
    <3>1. lock' \in [Process -> {"none", "shared", "reserved", "pending"}]
      BY <1>3, <1>4
    <3>2. QED BY <1>3, <1>4, <2>1, <3>1 DEF TypesInv, IsDatabase
  <2>3. FileInv'
    BY <1>4 DEF IInv, FileInv, Whole, IsDatabase
  <2>4. ASSUME NEW q \in Process \ {p} PROVE StartOK(q)'
    BY <1>3, <1>4, BystanderKeeps DEF IInv
  <2>5. StartOK(p)'
    <3>1. UNCHANGED Recorded
      BY <1>4 DEF Recorded, Exists
    <3>2. (Progress(db, draft, turn[p], Len(Statements(turn[p])) + 1))'
      BY <1>2, <1>4 DEF Progress, Extended, Rebuilt, StaysBut
    <3>3. StartOK(p)
      BY DEF IInv
    <3>4. QED BY <1>1, <1>2, <1>3, <1>4, <2>1, <3>1, <3>2, <3>3 DEF StartOK
  <2>6. QED BY <1>4, <2>2, <2>3, <2>4, <2>5 DEF IInv
<1>5. CASE /\ MayCommit(p) /\ db' = draft /\ LetGo(p)
           /\ turn' = [turn EXCEPT ![p] = @ + 1]
           /\ phase' = [phase EXCEPT ![p] = IF turn[p] = Last THEN "ready" ELSE "look"]
           /\ UNCHANGED <<line, reason>>
  <2>1. \A q \in Process \ {p} : lock[q] = "none"
    BY <1>3, <1>5 DEF MayCommit, NoneOf, Others
  <2>2. PICK k \in 0..4 : Whole(db, k) /\ Recorded = 1..k
    BY <1>2, RecordedInFile DEF IInv, FileInv
  <2>3. k = m - 1
    <3>1. k < m
      BY <1>2, <2>2
    <3>2. m = 1 \/ m - 1 \in 1..(m - 1)
      BY <1>2
    <3>3. m = 1 \/ m - 1 \in 1..k
      BY <1>2, <2>2, <3>2
    <3>4. QED BY <1>2, <3>1, <3>3
  <2>4. Whole(db', m) /\ AuditRows(db') = AuditRows(db)
    BY <1>2, <1>5, <2>2, <2>3, MigrationCompletes
  <2>5. Recorded' = 1..m /\ db' # <<>>
    <3>1. MigrationTable \in Name /\ Since(MigrationTable) <= m
      BY <1>2 DEF Since, Name, MigrationTable, Sessions, Messages, MessageIndex, Audits,
                  AuditIndex, Approvals
    <3>2. MigrationTable \in DOMAIN db' /\ db'[MigrationTable].rows = 1..m
      BY <2>4, <3>1 DEF Whole
    <3>3. QED BY <3>2 DEF Recorded, Exists
  <2>6. FileInv'
    <3>1. \A j : (Whole(db, j))' <=> Whole(db', j)
      BY DEF Whole, IsDatabase
    <3>2. \E j \in 0..4 : (Whole(db, j))'
      BY <1>2, <2>4, <3>1
    <3>3. QED BY <1>2, <3>2 DEF FileInv
  <2>7. Recorded = 1..(m - 1) /\ Recorded \subseteq Recorded' /\ Recorded' \subseteq 1..Last
    BY <1>2, <2>2, <2>3, <2>5
  <2>8. /\ lock' \in [Process -> {"none", "shared", "reserved", "pending"}]
        /\ draft' = Nothing \/ (IsDatabase(draft)' /\ draft' = draft)
        /\ \A q, r \in Process : Writing(q)' /\ Writing(r)' => q = r
        /\ draft' = Nothing <=> \A q \in Process : ~Writing(q)'
        /\ lock'[p] = "none" /\ ~Writing(p)'
        /\ \A q \in Process \ {p} : lock'[q] = lock[q]
    BY <1>5, LettingGo DEF IInv
  <2>9. TypesInv'
    <3>1. turn' \in [Process -> 1..(Last + 1)]
      <4>1. turn[p] + 1 \in 1..(Last + 1) /\ turn' = [turn EXCEPT ![p] = turn[p] + 1]
        BY <1>2, <1>5
      <4>2. QED BY <1>3, <4>1
    <3>2. phase' \in [Process -> {"down", "ensure", "look", "apply", "commit",
                                  "ready", "failed", "dead"}]
      BY <1>3, <1>5
    <3>3. QED BY <1>3, <1>5, <2>8, <3>1, <3>2 DEF TypesInv
  <2>10. ASSUME NEW q \in Process \ {p} PROVE StartOK(q)'
    <3>1. /\ phase'[q] = phase[q] /\ turn'[q] = turn[q] /\ line'[q] = line[q]
          /\ reason'[q] = reason[q] /\ lock'[q] = lock[q] /\ StartOK(q)
      BY <1>3, <1>5, <2>8 DEF IInv
    <3>2. QED BY <2>1, <2>5, <2>7, <3>1, OnlookerKeeps
  <2>11. StartOK(p)'
    <3>1. /\ turn'[p] = m + 1 /\ reason'[p] # "refused" /\ lock'[p] = "none"
          /\ phase'[p] = IF m = 4 THEN "ready" ELSE "look"
      BY <1>2, <1>3, <1>5, <2>8
    <3>2. \A n \in 1..(turn'[p] - 1) : n \in Recorded'
      BY <1>2, <2>5, <3>1
    <3>3. m # 4 => turn'[p] \in 1..Last
      BY <1>2, <3>1
    <3>4. QED BY <1>2, <2>5, <3>1, <3>2, <3>3 DEF StartOK
  <2>12. QED BY <1>2, <2>2, <2>3, <2>4, <2>5, <2>6, <2>7, <2>9, <2>10, <2>11 DEF IInv
<1>6. QED BY <1>1, <1>4, <1>5

LEMMA InitEstablishes == Init => IInv
<1> SUFFICES ASSUME Init PROVE IInv
  OBVIOUS
<1>1. /\ draft = Nothing
      /\ lock = [p \in Process |-> "none"] /\ phase = [p \in Process |-> "down"]
      /\ turn = [p \in Process |-> 1] /\ line = [p \in Process |-> 1]
      /\ reason = [p \in Process |-> ""]
  BY DEF Init
<1>2. Last = 4
  BY ScriptLengths
<1>3. TypesInv
  <2>1. \A p \in Process : ~Writing(p)
    BY <1>1 DEF Writing
  <2>2. 1 \in 1..(Last + 1) /\ 1 \in 1..10
    BY <1>2
  <2>3. /\ lock \in [Process -> {"none", "shared", "reserved", "pending"}]
        /\ phase \in [Process -> {"down", "ensure", "look", "apply", "commit",
                                  "ready", "failed", "dead"}]
        /\ reason \in [Process -> {"", "refused", "busy", "timeout", "disk"}]
        /\ turn \in [Process -> 1..(Last + 1)] /\ line \in [Process -> 1..10]
    BY <1>1, <2>2
  <2>4. QED BY <1>1, <2>1, <2>3 DEF TypesInv
<1>4. FileInv
  <2>1. CASE db = <<>>
    BY <2>1 DEF FileInv
  <2>2. CASE db # <<>>
    <3>1. PICK k \in 0..4 : \E old \in SUBSET {OldRow} :
              db = [n \in DOMAIN Released(k) |->
                      [shape |-> Released(k)[n],
                       rows |-> CASE n = MigrationTable -> 1..k
                                  [] n = Audits         -> old
                                  [] OTHER              -> {}]]
      BY <1>2, <2>2 DEF Init
    <3>2. PICK old \in SUBSET {OldRow} :
              db = [n \in DOMAIN Released(k) |->
                      [shape |-> Released(k)[n],
                       rows |-> CASE n = MigrationTable -> 1..k
                                  [] n = Audits         -> old
                                  [] OTHER              -> {}]]
      BY <3>1
    <3> DEFINE Rows(n) == CASE n = MigrationTable -> 1..k
                            [] n = Audits         -> old
                            [] OTHER              -> {}
               D == {n \in Name : Since(n) <= k}
    <3>3. db = [n \in D |-> [shape |-> ShapeIn(k, n), rows |-> Rows(n)]]
      BY <3>2, SchemaOfRelease
    <3>4. MigrationTable \in D /\ MigrationTable # Audits
      BY DEF Since, Name, MigrationTable, Sessions, Messages, MessageIndex, Audits, AuditIndex,
             Approvals
    <3>5. /\ Rows(MigrationTable) = 1..k /\ Rows(Audits) = old
          /\ \A n \in D : Rows(n) \in SUBSET ((1..Last) \cup Process \cup {OldRow})
      BY <1>2, <3>4
    <3> HIDE DEF Rows
    <3>6. /\ db[MigrationTable].rows = 1..k
          /\ Audits \in D => db[Audits].rows \subseteq Process \cup {OldRow}
      BY <3>3, <3>4, <3>5
    <3>7. IsDatabase(db)
      <4>1. \A n \in D : ShapeIn(k, n) \in {"v0.1", "v0.3", "v0.9", "v0.10"}
        BY DEF ShapeIn
      <4>2. \A n \in D : [shape |-> ShapeIn(k, n), rows |-> Rows(n)] \in Object
        BY <3>5, <4>1 DEF Object
      <4>3. D \subseteq Name /\ DOMAIN db = D
        BY <3>3
      <4> HIDE DEF D
      <4>4. QED BY <3>3, <4>2, <4>3 DEF IsDatabase
    <3>8. Whole(db, k)
      BY <3>3, <3>6, <3>7 DEF Whole
    <3>9. QED BY <1>2, <3>8 DEF FileInv
  <2>3. QED BY <2>1, <2>2
<1>5. ASSUME NEW p \in Process PROVE StartOK(p)
  BY <1>1, <1>2 DEF StartOK
<1>6. QED BY <1>3, <1>4, <1>5 DEF IInv

\* A process that is not in the middle of its start was not refused anything.
LEMMA NotRefusedYet ==
    ASSUME IInv, NEW p \in Process, phase[p] # "failed"
    PROVE  reason[p] # "refused"
BY DEF IInv, StartOK

LEMMA NextPreserves == IInv /\ [Next]_vars => IInv'
<1> SUFFICES ASSUME IInv, [Next]_vars PROVE IInv'
  OBVIOUS
<1>1. CASE UNCHANGED vars
  <2>1. UNCHANGED <<db, draft, lock, phase, turn, line, reason>>
    BY <1>1 DEF vars, fileVars, startVars
  <2>2. \A p \in Process : Writing(p)' <=> Writing(p)
    BY <2>1 DEF Writing
  <2>3. TypesInv' /\ FileInv'
    BY <2>1, <2>2 DEF IInv, TypesInv, FileInv, Whole, IsDatabase
  <2>4. ASSUME NEW p \in Process PROVE StartOK(p)'
    BY <2>1, BystanderKeeps DEF IInv
  <2>5. QED BY <2>3, <2>4 DEF IInv
<1>2. ASSUME NEW p \in Process, Start(p) PROVE IInv'
  BY <1>2, StartPreserves
<1>3. ASSUME NEW p \in Process, Run(p) PROVE IInv'
  BY <1>3, EnsurePreserves, LookPreserves, ExecutePreserves, CommitPreserves DEF Run
<1>4. ASSUME NEW p \in Process, Record(p) PROVE IInv'
  BY <1>4, RecordPreserves
<1>5. ASSUME NEW p \in Process, TimeOut(p) PROVE IInv'
  BY <1>5, LeavePreserves DEF TimeOut, Fail
<1>6. ASSUME NEW p \in Process, DiskFails(p) PROVE IInv'
  BY <1>6, LeavePreserves DEF DiskFails, Fail
<1>7. ASSUME NEW p \in Process, Crash(p) PROVE IInv'
  <2>1. phase[p] # "failed"
    BY <1>7 DEF Crash, Starting
  <2>2. reason[p] # "refused"
    BY <2>1, NotRefusedYet
  <2>3. QED BY <1>7, <2>2, LeavePreserves DEF Crash
<1>8. QED BY <1>1, <1>2, <1>3, <1>4, <1>5, <1>6, <1>7 DEF Next

LEMMA Inductive == Spec => []IInv
<1>1. QED BY InitEstablishes, NextPreserves, PTL DEF Spec

-------------------------------------------------------------------------------
(* What follows *)

\* Every variable keeps its type, and the draft belongs to the one writing transaction
\* there is at most (SQLite's RESERVED lock, as _apply_migration takes it).
THEOREM MigrationsTypeCorrect == Spec => []TypeOK
<1>1. ASSUME IInv PROVE TypeOK
  <2>1. IsDatabase(db)
    <3>1. CASE db = <<>>
      BY <3>1 DEF IsDatabase
    <3>2. CASE db # <<>>
      BY <1>1, <3>2 DEF IInv, FileInv, Whole
    <3>3. QED BY <3>1, <3>2
  <2>2. Cardinality({p \in Process : Writing(p)}) = IF draft = Nothing THEN 0 ELSE 1
    <3>1. CASE draft = Nothing
      <4>1. {p \in Process : Writing(p)} = {}
        BY <1>1, <3>1 DEF IInv, TypesInv
      <4>2. QED BY <3>1, <4>1, FS_EmptySet
    <3>2. CASE draft # Nothing
      <4>1. PICK w \in Process : Writing(w)
        BY <1>1, <3>2 DEF IInv, TypesInv
      <4>2. {p \in Process : Writing(p)} = {w}
        BY <1>1, <4>1 DEF IInv, TypesInv
      <4>3. QED BY <3>2, <4>2, FS_Singleton
    <3>3. QED BY <3>1, <3>2
  <2>3. QED BY <1>1, <2>1, <2>2 DEF IInv, TypesInv, TypeOK
<1>2. IInv => TypeOK
  BY <1>1
<1>3. QED BY <1>2, Inductive, PTL

\* At every moment, after any crashes, errors, timeouts and races, the file holds the
\* schema of a release, whole, with exactly its migrations on record, and Core is ready
\* only on the newest (initialize_sqlite).
THEOREM SchemaStaysWhole == Spec => []SchemaIsWhole
<1>1. ASSUME IInv PROVE SchemaIsWhole
  <2>1. ASSUME db # <<>>
        PROVE  \E k \in 0..Last :
                   Recorded = 1..k /\ [n \in DOMAIN db |-> db[n].shape] = Released(k)
    <3>1. PICK k \in 0..4 : Whole(db, k)
      BY <1>1, <2>1, ScriptLengths DEF IInv, FileInv
    <3>2. Recorded = 1..k
      BY <3>1, RecordedInFile, ScriptLengths
    <3>3. [n \in DOMAIN db |-> db[n].shape] = Released(k)
      <4>1. Released(k) = [n \in {n \in Name : Since(n) <= k} |-> ShapeIn(k, n)]
        BY SchemaOfRelease
      <4>2. /\ DOMAIN db = {n \in Name : Since(n) <= k}
            /\ \A n \in DOMAIN db : db[n].shape = ShapeIn(k, n)
        BY <3>1 DEF Whole
      <4>3. QED BY <4>1, <4>2
    <3>4. QED BY <3>2, <3>3, ScriptLengths
  <2>2. \A p \in Process : phase[p] = "ready" => Recorded = 1..Last
    BY <1>1 DEF IInv, StartOK
  <2>3. QED BY <2>1, <2>2 DEF SchemaIsWhole
<1>2. IInv => SchemaIsWhole
  BY <1>1
<1>3. QED BY <1>2, Inductive, PTL

\* No statement of a migration is refused but to the loser of a race for it: each finds
\* what the one before it left (_apply_migration).
THEOREM RefusedOnlyToLosers == Spec => []OnlyLosersAreRefused
<1>1. IInv => OnlyLosersAreRefused
  BY DEF IInv, StartOK, OnlyLosersAreRefused
<1>2. QED BY <1>1, Inductive, PTL

LEMMA CountTo == \A k \in 0..4 : Cardinality(1..k) = k
<1>1. \A a, b \in Int : Cardinality(a..b) = IF a > b THEN 0 ELSE b - a + 1
  BY FS_Interval, Zenon
<1>2. \A k \in 0..4 : 1 \in Int /\ k \in Int /\ (IF 1 > k THEN 0 ELSE k - 1 + 1) = k
  OBVIOUS
<1>3. QED BY <1>1, <1>2

\* A release of the file, in the terms of the abstract specification.
LEMMA VersionOfFile ==
    ASSUME NEW k \in 0..4, Recorded = 1..k
    PROVE  Cardinality(Recorded) = k
BY CountTo

LEMMA VersionInInv ==
    ASSUME IInv
    PROVE  \E k \in 0..4 : Recorded = 1..k
<1>1. Last = 4
  BY ScriptLengths
<1>2. CASE db = <<>>
  <2>1. Recorded = 1..0
    BY <1>2, RecordedInFile
  <2>2. QED BY <2>1
<1>3. CASE db # <<>>
  BY <1>1, <1>3, RecordedInFile DEF IInv, FileInv
<1>4. QED BY <1>2, <1>3

\* Starts and the executions recorded between them implement upgrades by whole versions
\* that keep every audit row.
THEOREM UpgradesKeepRows == Spec => ImplementsUpgrade
<1>1. Last = 4
  BY ScriptLengths
<1>2. UNION {db[n].rows : n \in DOMAIN db \cap {Audits, AuditsOld}} = AuditRows(db)
  BY DEF AuditRows
<1>3. ASSUME Init PROVE Upgrades!Init
  <2>1. IInv
    BY <1>3, InitEstablishes
  <2>2. Cardinality(Recorded) \in 0..Last
    BY <1>1, <2>1, VersionInInv, VersionOfFile
  <2>3. AuditRows(db) \subseteq Process \cup {OldRow}
    <3>1. CASE db = <<>>
      BY <3>1 DEF AuditRows
    <3>2. CASE db # <<>>
      <4>1. PICK k \in 0..4 : Whole(db, k)
        BY <1>1, <2>1, <3>2 DEF IInv, FileInv
      <4>2. AuditsOld \notin DOMAIN db
        BY <4>1 DEF Whole, Since, MigrationTable, Sessions, Messages, MessageIndex, Audits,
                    AuditsOld, AuditIndex, Approvals
      <4>3. QED BY <4>1, <4>2 DEF AuditRows, Whole
    <3>3. QED BY <3>1, <3>2
  <2>4. QED BY <1>2, <2>2, <2>3 DEF Upgrades!Init
<1>4. ASSUME IInv, [Next]_vars
      PROVE  [Upgrades!Next]_(<<Cardinality(Recorded),
                 UNION {db[n].rows : n \in DOMAIN db \cap {Audits, AuditsOld}}>>)
  <2>1. CASE UNCHANGED db
    BY <2>1 DEF Recorded, Exists
  <2>2. ASSUME NEW p \in Process, Ensure(p)
        PROVE  UNCHANGED <<Cardinality(Recorded), AuditRows(db)>>
    BY <1>4, <2>2, EnsurePreserves
  <2>3. ASSUME NEW p \in Process, Record(p) PROVE Upgrades!Next
    <3>1. Recorded = 1..4 /\ Recorded' = 1..4 /\ AuditRows(db') = AuditRows(db) \cup {p}
      BY <1>1, <1>4, <2>3, RecordPreserves
    <3>2. Cardinality(Recorded) = Last /\ Cardinality(Recorded)' = Cardinality(Recorded)
      BY <1>1, <3>1, VersionOfFile
    <3>3. QED BY <3>1, <3>2 DEF Upgrades!Next, Upgrades!Store, AuditRows
  <2>4. ASSUME NEW p \in Process, Commit(p), db' # db PROVE Upgrades!Next
    <3>1. PICK m \in 1..4 : /\ Recorded = 1..(m - 1) /\ Recorded' = 1..m
                            /\ AuditRows(db') = AuditRows(db)
      BY <1>4, <2>4, CommitPreserves
    <3>2. Cardinality(1..(m - 1)) = m - 1 /\ Cardinality(1..m) = m
      <4>1. m - 1 \in 0..4 /\ m \in 0..4
        OBVIOUS
      <4>2. QED BY <4>1, CountTo
    <3>3. QED BY <1>1, <3>1, <3>2 DEF Upgrades!Next, Upgrades!Upgrade, AuditRows
  <2>5. ASSUME NEW p \in Process,
               Start(p) \/ Look(p) \/ Execute(p) \/ TimeOut(p) \/ DiskFails(p) \/ Crash(p)
        PROVE  UNCHANGED db
    BY <2>5 DEF Start, Look, Execute, WriteDraft, Fail, TimeOut, DiskFails, Crash, fileVars
  <2>6. CASE UNCHANGED vars
    BY <2>1, <2>6 DEF vars, fileVars
  <2>7. QED BY <1>4, <2>1, <2>2, <2>3, <2>4, <2>5, <2>6 DEF Next, Run, AuditRows
<1>5. QED BY <1>3, <1>4, Inductive, PTL DEF Spec, ImplementsUpgrade, Upgrades!Spec

===============================================================================
