------------------------------ MODULE Migrations ------------------------------
(***************************************************************************)
(* initialize_sqlite: when a Core process starts it makes sure the table   *)
(* of migrations exists and, for each migration in turn, looks whether it  *)
(* is recorded and, if not, applies and records it in one transaction.     *)
(* The look and the transaction are apart, and nothing keeps several       *)
(* processes from starting on one file.                                    *)
(*                                                                         *)
(* SQLite's rollback-journal locking is modelled from how it is used here: *)
(* a deferred transaction takes SHARED with its first statement that only  *)
(* reads and RESERVED with its first that writes, there is one writer, and *)
(* a commit needs every other SHARED gone.  A lock is waited for, except   *)
(* by a reader that wants to write, which fails at once.                   *)
(***************************************************************************)
EXTENDS Naturals, FiniteSets, Sequences

CONSTANTS Process,      \* Core processes that start
          OldRow,       \* an audit row an earlier release left behind
          MayTimeOut,   \* a lock may stay taken for longer than the busy timeout
          StoreMayFail, \* SQLite statements may fail
          Nothing       \* no draft

ASSUME MigrationConstantsOK ==
    /\ OldRow \notin Process
    /\ MayTimeOut \in BOOLEAN
    /\ StoreMayFail \in BOOLEAN

VARIABLES
    db,         \* the committed database: each table or index, its shape and rows
    draft,      \* what the one writing transaction has made of it
    lock,       \* the lock of each process: none, shared, reserved or pending
    phase,      \* where each process is in initialize_sqlite
    turn,       \* the migration it has come to
    line,       \* the next statement of that migration
    reason      \* why a start failed

fileVars == <<db, draft, lock>>
startVars == <<phase, turn, line, reason>>
vars == <<fileVars, startVars>>

-------------------------------------------------------------------------------
(* The migrations: an index is an object without rows *)

MigrationTable == "schema_migrations"
Audits == "tool_execution_audits"
AuditsOld == "tool_execution_audits_v0_9"
AuditIndex == "idx_tool_execution_audits_correlation_started_audit"

CreateIfMissing(n, s) == [op |-> "create_if_missing", name |-> n, with |-> s]
Create(n, s) == [op |-> "create", name |-> n, with |-> s]
DropIfExists(n) == [op |-> "drop_if_exists", name |-> n, with |-> ""]
DropTable(n) == [op |-> "drop", name |-> n, with |-> ""]
Rename(n, to) == [op |-> "rename", name |-> n, with |-> to]
CopyRows(n, from) == [op |-> "copy", name |-> n, with |-> from]
RecordMigration == [op |-> "record", name |-> MigrationTable, with |-> ""]

BootstrapScript == <<CreateIfMissing(MigrationTable, "v0.1")>>

WorkingMemoryScript == <<
    CreateIfMissing("conversation_sessions", "v0.3"),
    CreateIfMissing("conversation_messages", "v0.3"),
    CreateIfMissing("idx_conversation_messages_session_sequence", "v0.3")>>

ToolAuditScript == <<
    CreateIfMissing(Audits, "v0.9"),
    CreateIfMissing(AuditIndex, "v0.9")>>

\* Slips: the rows of the old table are left in it; the old index is still there.
ScriptWithoutCopy == <<
    DropIfExists(AuditIndex), Rename(Audits, AuditsOld), Create(Audits, "v0.10"),
    DropTable(AuditsOld), Create(AuditIndex, "v0.9"),
    CreateIfMissing("tool_approvals", "v0.10")>>
ScriptKeepingIndex == <<
    Rename(Audits, AuditsOld), Create(Audits, "v0.10"), CopyRows(Audits, AuditsOld),
    Create(AuditIndex, "v0.9"), DropTable(AuditsOld),
    CreateIfMissing("tool_approvals", "v0.10")>>

SentinelApprovalScript == <<
    DropIfExists(AuditIndex),
    Rename(Audits, AuditsOld),
    Create(Audits, "v0.10"),
    CopyRows(Audits, AuditsOld),
    DropTable(AuditsOld),
    Create(AuditIndex, "v0.9"),
    CreateIfMissing("tool_approvals", "v0.10")>>

Scripts == <<BootstrapScript, WorkingMemoryScript, ToolAuditScript, SentinelApprovalScript>>
Last == Len(Scripts)

\* _apply_migration: the statements, and the record of them.
Statements(m) == Append(Scripts[m], RecordMigration)

\* The files this leads to.
Name == {MigrationTable, "conversation_sessions", "conversation_messages",
         "idx_conversation_messages_session_sequence", Audits, AuditsOld, AuditIndex,
         "tool_approvals"}
Object == [shape : {"v0.1", "v0.3", "v0.9", "v0.10"},
           rows  : SUBSET ((1..Last) \cup Process \cup {OldRow})]
IsDatabase(d) == DOMAIN d \subseteq Name /\ d \in [DOMAIN d -> Object]

ASSUME NothingIsNoDatabase == \A N \in SUBSET Name : Nothing \notin [N -> Object]

Exists(d, n) == n \in DOMAIN d

\* The statement finds nothing to do.
OnlyReads(d, st) == \/ st.op = "create_if_missing" /\ Exists(d, st.name)
                    \/ st.op = "drop_if_exists" /\ ~Exists(d, st.name)

\* The statement is an error: a name is taken or missing, or a key is there already.
Refused(d, st, m) ==
    \/ st.op = "create" /\ Exists(d, st.name)
    \/ st.op \in {"rename", "drop"} /\ ~Exists(d, st.name)
    \/ st.op = "rename" /\ Exists(d, st.with)
    \/ st.op = "copy" /\ d[st.name].rows \cap d[st.with].rows # {}
    \/ st.op = "record" /\ m \in d[st.name].rows

Without(d, n) == [o \in DOMAIN d \ {n} |-> d[o]]
With(d, n, content) == [o \in DOMAIN d \cup {n} |-> IF o = n THEN content ELSE d[o]]

\* What a statement that is not refused makes of the database.
Effect(d, st, m) ==
    CASE OnlyReads(d, st) -> d
      [] st.op \in {"create", "create_if_missing"} /\ ~Exists(d, st.name) ->
             With(d, st.name, [shape |-> st.with, rows |-> {}])
      [] st.op \in {"drop", "drop_if_exists"} /\ Exists(d, st.name) -> Without(d, st.name)
      [] st.op = "rename" -> With(Without(d, st.name), st.with, d[st.name])
      [] st.op = "copy"   -> [d EXCEPT ![st.name].rows = @ \cup d[st.with].rows]
      [] st.op = "record" -> [d EXCEPT ![st.name].rows = @ \cup {m}]

-------------------------------------------------------------------------------
(* The locks of the file *)

Others(p) == Process \ {p}
Writing(q) == lock[q] \in {"reserved", "pending"}
NoneOf(P, locks) == \A q \in P : lock[q] \notin locks

MayRead(p) == lock[p] = "none" => NoneOf(Others(p), {"pending"})
MayWrite(p) == NoneOf(Others(p), {"reserved", "pending"})
MayCommit(p) == NoneOf(Others(p), {"shared", "reserved", "pending"})

\* What p's transaction sees.
View(p) == IF Writing(p) THEN draft ELSE db

\* Slips: every statement is committed by itself; it is not part of a transaction.
WriteThrough(p, d) == db' = d /\ draft' = d /\ lock' = [lock EXCEPT ![p] = "reserved"]
WriteUnlocked(p, d) == draft' = d /\ UNCHANGED <<db, lock>>

\* p's transaction writes.
WriteDraft(p, d) ==
    /\ draft' = d
    /\ lock' = [lock EXCEPT ![p] = "reserved"]
    /\ UNCHANGED db

\* p's transaction is over, rolled back, or dead with its process.
LetGo(p) ==
    /\ lock' = [lock EXCEPT ![p] = "none"]
    /\ draft' = IF Writing(p) THEN Nothing ELSE draft

-------------------------------------------------------------------------------
(* Starting *)

Starting(p) == phase[p] \in {"ensure", "look", "apply", "commit"}
Done(p) == db[MigrationTable].rows

\* Slip: without ROLLBACK.
FailInTransaction(p, why) ==
    /\ phase' = [phase EXCEPT ![p] = "failed"]
    /\ reason' = [reason EXCEPT ![p] = why]
    /\ UNCHANGED <<fileVars, turn, line>>

\* Any exception: ROLLBACK, and Core does not start.
Fail(p, why) ==
    /\ phase' = [phase EXCEPT ![p] = "failed"]
    /\ reason' = [reason EXCEPT ![p] = why]
    /\ LetGo(p)
    /\ UNCHANGED <<db, turn, line>>

Start(p) ==
    /\ phase[p] = "down"
    /\ phase' = [phase EXCEPT ![p] = "ensure"]
    /\ UNCHANGED <<fileVars, turn, line, reason>>

\* _ensure_migration_table, a transaction of its own.
Ensure(p) ==
    LET create == BootstrapScript[1] IN
    /\ phase[p] = "ensure"
    /\ IF OnlyReads(db, create) THEN MayRead(p) ELSE MayCommit(p)
    /\ db' = Effect(db, create, 0)
    /\ phase' = [phase EXCEPT ![p] = "look"]
    /\ UNCHANGED <<draft, lock, turn, line, reason>>

\* The migration has taken effect; the next one, or the application, follows.
Proceed(p) ==
    /\ turn' = [turn EXCEPT ![p] = @ + 1]
    /\ phase' = [phase EXCEPT ![p] = IF turn[p] = Last THEN "ready" ELSE "look"]
    /\ UNCHANGED <<line, reason>>

\* SELECT 1 FROM schema_migrations: is it recorded?
Look(p) ==
    /\ phase[p] = "look" /\ MayRead(p)
    /\ \/ turn[p] \in Done(p) /\ Proceed(p)
       \/ /\ turn[p] \notin Done(p)
          /\ phase' = [phase EXCEPT ![p] = "apply"]
          /\ line' = [line EXCEPT ![p] = 1]
          /\ UNCHANGED <<turn, reason>>
    /\ UNCHANGED fileVars

\* Slip: it waits all the same.
NeverBusy(p) == FALSE

\* A transaction that has read cannot wait for the writer, whose commit waits for it.
BusyAtOnce(p) == lock[p] = "shared" /\ ~MayWrite(p)

Step(p) ==
    /\ phase' = [phase EXCEPT ![p] = IF line[p] = Len(Statements(turn[p]))
                                     THEN "commit" ELSE "apply"]
    /\ line' = [line EXCEPT ![p] = @ + 1]
    /\ UNCHANGED <<turn, reason>>

\* BEGIN takes no lock, so it is part of the first statement.
Execute(p) ==
    LET st == Statements(turn[p])[line[p]]
        d  == View(p)
    IN
    /\ phase[p] = "apply"
    /\ \/ /\ OnlyReads(d, st) /\ MayRead(p)
          /\ lock' = [lock EXCEPT ![p] = IF @ = "none" THEN "shared" ELSE @]
          /\ UNCHANGED <<db, draft>>
          /\ Step(p)
       \/ /\ ~OnlyReads(d, st) /\ MayWrite(p) /\ ~Refused(d, st, turn[p])
          /\ WriteDraft(p, Effect(d, st, turn[p]))
          /\ Step(p)
       \/ ~OnlyReads(d, st) /\ MayWrite(p) /\ Refused(d, st, turn[p]) /\ Fail(p, "refused")
       \/ ~OnlyReads(d, st) /\ BusyAtOnce(p) /\ Fail(p, "busy")

\* COMMIT: readers that are still there are waited for, and new ones kept out.
Commit(p) ==
    /\ phase[p] = "commit"
    /\ \/ /\ MayCommit(p)
          /\ db' = draft
          /\ LetGo(p)
          /\ Proceed(p)
       \/ /\ ~MayCommit(p) /\ lock[p] = "reserved"
          /\ lock' = [lock EXCEPT ![p] = "pending"]
          /\ UNCHANGED <<db, draft, startVars>>

Run(p) == Ensure(p) \/ Look(p) \/ Execute(p) \/ Commit(p)

\* What p does next has to wait for another process.
Waiting(p) ==
    \/ phase[p] = "ensure" /\ ~MayCommit(p) /\ (Exists(db, MigrationTable) => ~MayRead(p))
    \/ phase[p] = "look" /\ ~MayRead(p)
    \/ /\ phase[p] = "apply"
       /\ IF OnlyReads(View(p), Statements(turn[p])[line[p]]) THEN ~MayRead(p) ELSE ~MayWrite(p)
    \/ phase[p] = "commit" /\ ~MayCommit(p)

TimeOut(p) == MayTimeOut /\ Waiting(p) /\ Fail(p, "timeout")

DiskFails(p) == StoreMayFail /\ Starting(p) /\ Fail(p, "disk")

Crash(p) ==
    /\ Starting(p) \/ phase[p] = "ready"
    /\ phase' = [phase EXCEPT ![p] = "dead"]
    /\ LetGo(p)
    /\ UNCHANGED <<db, turn, line, reason>>

\* Core, once ready, records a tool execution: BEGIN IMMEDIATE, INSERT, COMMIT.
Record(p) ==
    /\ phase[p] = "ready" /\ MayCommit(p)
    /\ Exists(db, Audits) /\ p \notin db[Audits].rows
    /\ db' = [db EXCEPT ![Audits].rows = @ \cup {p}]
    /\ UNCHANGED <<draft, lock, startVars>>

-------------------------------------------------------------------------------

\* The schema after the first k migrations, as the releases of Core left it.
Released(k) ==
    LET names == (IF k >= 0 THEN {MigrationTable} ELSE {})
            \cup (IF k >= 2 THEN {s.name : s \in {WorkingMemoryScript[i] : i \in 1..3}} ELSE {})
            \cup (IF k >= 3 THEN {Audits, AuditIndex} ELSE {})
            \cup (IF k >= 4 THEN {"tool_approvals"} ELSE {})
        shape(n) == CASE n = MigrationTable -> "v0.1"
                      [] n = Audits         -> IF k >= 4 THEN "v0.10" ELSE "v0.9"
                      [] n = AuditIndex     -> "v0.9"
                      [] n = "tool_approvals" -> "v0.10"
                      [] OTHER              -> "v0.3"
    IN [n \in names |-> shape(n)]

\* A file of any release, with an audit row if there is a table for it, or no file.
Init ==
    /\ \E k \in 0..Last, old \in SUBSET {OldRow} :
           \/ db = [n \in DOMAIN Released(k) |->
                      [shape |-> Released(k)[n],
                       rows |-> CASE n = MigrationTable -> 1..k
                                  [] n = Audits         -> old
                                  [] OTHER              -> {}]]
           \/ db = <<>>
    /\ draft = Nothing
    /\ lock = [p \in Process |-> "none"]
    /\ phase = [p \in Process |-> "down"]
    /\ turn = [p \in Process |-> 1]
    /\ line = [p \in Process |-> 1]
    /\ reason = [p \in Process |-> ""]

Next == \E p \in Process :
            \/ Start(p) \/ Run(p) \/ Record(p)
            \/ TimeOut(p) \/ DiskFails(p) \/ Crash(p)

Spec == Init /\ [][Next]_vars

\* A starting process keeps running; no lock need ever time out.
FairSpec == Spec /\ \A p \in Process : WF_vars(Run(p))

-------------------------------------------------------------------------------
(* Properties *)

Recorded == IF Exists(db, MigrationTable) THEN db[MigrationTable].rows ELSE {}

\* Every variable keeps its type, there is one writer, and it has the draft.
TypeOK ==
    /\ IsDatabase(db) /\ (draft = Nothing \/ IsDatabase(draft))
    /\ lock \in [Process -> {"none", "shared", "reserved", "pending"}]
    /\ phase \in [Process -> {"down", "ensure", "look", "apply", "commit",
                              "ready", "failed", "dead"}]
    /\ turn \in [Process -> 1..(Last + 1)]
    /\ line \in [Process -> 1..10]
    /\ reason \in [Process -> {"", "refused", "busy", "timeout", "disk"}]
    /\ Cardinality({p \in Process : Writing(p)}) = IF draft = Nothing THEN 0 ELSE 1

\* Whatever was interrupted, and whoever raced, the file holds the schema of a release:
\* the first k migrations whole and recorded, none of the others in part; and a process
\* that has started has the newest one under it (lines 221-239, 252-261).
SchemaIsWhole ==
    /\ db # <<>> => \E k \in 0..Last :
           Recorded = 1..k /\ [n \in DOMAIN db |-> db[n].shape] = Released(k)
    /\ \A p \in Process : phase[p] = "ready" => Recorded = 1..Last

\* A statement is refused only to a process that lost the race for the migration: the
\* file that a crash, an error or an earlier release left behind is never the reason
\* (IF NOT EXISTS, and the rebuild of the audit table, are up to all of them).
OnlyLosersAreRefused == \A p \in Process : reason[p] = "refused" => turn[p] \in Recorded

\* Every start ends, with Core ready or with an error: no two processes wait for each
\* other's locks.
EveryStartEnds == \A p \in Process : Starting(p) ~> ~Starting(p)

\* Starting Core moves the schema up whole versions and keeps every audit row,
\* those that a process which won the race has recorded in the meantime included.
Upgrades == INSTANCE SchemaUpgrade WITH
    Last    <- Last,
    Row     <- Process \cup {OldRow},
    version <- Cardinality(Recorded),
    rows    <- UNION {db[n].rows : n \in DOMAIN db \cap {Audits, AuditsOld}}

ImplementsUpgrade == Upgrades!Spec

===============================================================================
