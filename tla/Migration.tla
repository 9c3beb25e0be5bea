----------------------------- MODULE Migration -----------------------------
(***************************************************************************)
(* migrate.py on a V1 database: live runs, dry runs and rollbacks, each a  *)
(* process that can be killed, and the V1 gateway, which writes rows       *)
(* before and between them and can crash.                                  *)
(*                                                                         *)
(* The database is in WAL mode, as the V1 gateway leaves it: what is       *)
(* committed goes to the log first and reaches the file when the last      *)
(* connection is closed.  copy2 sees the file alone.  Python's sqlite3     *)
(* opens a transaction before the first UPDATE: the DDL before it commits  *)
(* by itself, all that follows commits together.                           *)
(***************************************************************************)
EXTENDS Integers, Sequences

CONSTANTS
    Scripts,   \* what MIGRATION_SQL may hold
    NoFile,    \* there is no such file, or no log
    Torn,      \* a file that holds nothing anybody committed
    MaxRows,   \* bound: rows the gateway inserts
    MaxRuns    \* bound: runs of the tool

\* A statement as the tool meets it after the split at semicolons: DDL or
\* UPDATE, the statements whose columns it needs, whether a comment precedes
\* it, and whether SQLite accepts its syntax.
Statement == [kind : {"ddl", "dml"}, needs : SUBSET Nat,
              commented : BOOLEAN, valid : BOOLEAN]

ASSUME MigrationAssumption ==
    /\ Scripts \subseteq Seq(Statement)
    /\ MaxRows \in Nat /\ MaxRuns \in Nat

\* What a database holds: how much of the script, and the gateway's rows.
ContentOf(s) == [applied : SUBSET (1..Len(s)), rows : 0..MaxRows]

\* The sentinels are neither contents nor logs.
ASSUME SentinelAssumption ==
    /\ NoFile # Torn
    /\ \A s \in Scripts :
          /\ NoFile \notin ContentOf(s) /\ Torn \notin ContentOf(s)
          /\ NoFile \notin [base : ContentOf(s), content : ContentOf(s)]

VARIABLES
    script,   \* the statements of the script
    main,     \* the content of the source file
    wal,      \* the source's log: with which file it gives which content
    snapshot, \* the content of the snapshot file
    gateway,  \* the V1 gateway has the database open
    tool,     \* what the tool is doing
    mode,     \* the flags of its run
    next,     \* the statement it executes next
    tx,       \* what its open transaction would commit
    exit,     \* the exit code of the last run, 9 if it was killed
    runs,     \* runs of the tool so far
    before,   \* the content when the last snapshot was begun (history)
    cold      \* that snapshot and the rollbacks since met a file without a log
              \* (history)

vars == <<script, main, wal, snapshot, gateway, tool, mode, next, tx, exit,
          runs, before, cold>>

Content == ContentOf(script)

\* What a connection reads.
Source == IF wal = NoFile THEN main
          ELSE IF main = wal.base THEN wal.content ELSE Torn

Log(content) == wal' = [base |-> main, content |-> content]

\* The type invariant: files and process; a transaction is open only while statements are run.
TypeOK ==
    /\ script \in Scripts
    /\ main \in Content \cup {Torn}
    /\ wal \in [base : Content, content : Content] \cup {NoFile}
    /\ snapshot \in Content \cup {Torn, NoFile}
    /\ gateway \in BOOLEAN
    /\ tool \in {"off", "copying", "copied", "running", "committed", "restoring"}
    /\ mode \in {"live", "dry", "rollback"}
    /\ next \in 1..(Len(script) + 1)
    /\ tx \in Content \cup {NoFile}
    /\ tx # NoFile => tool = "running"
    /\ exit \in {0, 1, 2, 3, 9}
    /\ runs \in 0..MaxRuns
    /\ before \in Content
    /\ cold \in BOOLEAN

Init ==
    /\ script \in Scripts
    /\ main = [applied |-> {}, rows |-> 0] /\ wal = NoFile /\ snapshot = NoFile
    /\ gateway = FALSE
    /\ tool = "off" /\ mode = "live" /\ next = 1 /\ tx = NoFile
    /\ exit = 0 /\ runs = 0
    /\ before = main /\ cold = TRUE

process == <<tool, mode, next, tx, exit, runs>>

-----------------------------------------------------------------------------
(* The V1 gateway, which is not running while the tool is                   *)

GatewayStart ==
    /\ ~gateway /\ tool = "off" /\ Source # Torn
    /\ gateway' = TRUE
    /\ UNCHANGED <<script, main, wal, snapshot, process, before, cold>>

GatewayInsert ==
    /\ gateway /\ Source.rows < MaxRows
    /\ Log([Source EXCEPT !.rows = @ + 1])
    /\ UNCHANGED <<script, main, snapshot, gateway, process, before, cold>>

\* The last connection to be closed moves the log into the file.
Checkpoint == main' = Source /\ wal' = NoFile

GatewayStop ==
    /\ gateway /\ gateway' = FALSE
    /\ Checkpoint
    /\ UNCHANGED <<script, snapshot, process, before, cold>>

GatewayCrash ==
    /\ gateway /\ gateway' = FALSE
    /\ UNCHANGED <<script, main, wal, snapshot, process, before, cold>>

-----------------------------------------------------------------------------
(* main                                                                     *)

Start(flag) ==
    /\ tool = "off" /\ ~gateway /\ runs < MaxRuns
    /\ runs' = runs + 1 /\ mode' = flag
    /\ next' = 1 /\ tx' = NoFile

\* copy2 truncates the snapshot before it writes it.
StartLive ==
    /\ Start("live")
    /\ tool' = "copying" /\ snapshot' = Torn
    /\ before' = IF Source = Torn THEN before ELSE Source
    /\ cold' = (wal = NoFile /\ main # Torn)
    /\ UNCHANGED <<script, main, wal, gateway, exit>>

Copied ==
    /\ tool = "copying" /\ tool' = "copied"
    /\ snapshot' = main
    /\ UNCHANGED <<script, main, wal, gateway, mode, next, tx, exit, runs,
                   before, cold>>

\* The last connection is closed without a commit: the transaction is gone.
Close(code) ==
    /\ tool' = "off" /\ exit' = code /\ tx' = NoFile
    /\ Checkpoint
    /\ UNCHANGED <<script, snapshot, gateway, mode, next, runs, before, cold>>

\* Nothing can be read from the file.
Unreadable ==
    /\ tool = "copied" /\ Source = Torn
    /\ tool' = "off" /\ exit' = 1
    /\ UNCHANGED <<script, main, wal, snapshot, gateway, mode, next, tx, runs,
                   before, cold>>

Open ==
    /\ tool = "copied" /\ Source # Torn
    /\ tool' = "running"
    /\ UNCHANGED <<script, main, wal, snapshot, gateway, mode, next, tx, exit,
                   runs, before, cold>>

\* No snapshot is taken.
StartDry ==
    /\ Start("dry")
    /\ tool' = "copied"
    /\ UNCHANGED <<script, main, wal, snapshot, gateway, exit, before, cold>>

-----------------------------------------------------------------------------
(* _run_migration                                                           *)

\* What the next statement sees.
Seen == IF tx = NoFile THEN Source ELSE tx

Skipped == script[next].commented

\* Its syntax is wrong, or a column it needs is missing.
Fails ==
    ~script[next].valid \/ ~(script[next].needs \subseteq Seen.applied)

Done == [Seen EXCEPT !.applied = @ \cup {next}]

\* A bug: every statement of a live run commits by itself.
AppliesAlone ==
    IF mode = "dry" THEN tx' = Done /\ UNCHANGED wal
                    ELSE Log(Done) /\ UNCHANGED tx

\* A bug: nothing opens a transaction for the dry run.
AppliesUnsaved ==
    IF tx # NoFile \/ script[next].kind = "dml"
    THEN tx' = Done /\ UNCHANGED wal
    ELSE Log(Done) /\ UNCHANGED tx

\* In a transaction, which an UPDATE or the SAVEPOINT of a dry run opens;
\* otherwise DDL commits.  A column that exists is no error, and no change.
Applies ==
    IF tx # NoFile \/ script[next].kind = "dml" \/ mode = "dry"
    THEN tx' = Done /\ UNCHANGED wal
    ELSE Log(Done) /\ UNCHANGED tx

Execute ==
    /\ tool = "running" /\ next <= Len(script)
    /\ Skipped \/ ~Fails
    /\ IF Skipped THEN UNCHANGED <<tx, wal>> ELSE Applies
    /\ next' = next + 1
    /\ UNCHANGED <<script, main, snapshot, gateway, tool, mode, exit, runs,
                   before, cold>>

\* The exception ends the run; a database that is locked fails any statement.
Fail ==
    /\ tool = "running" /\ next <= Len(script) /\ ~Skipped
    /\ Close(1)

FinishDry ==
    /\ tool = "running" /\ mode = "dry" /\ next > Len(script)
    /\ Close(0)

\* conn.commit().
Commit ==
    /\ tool = "running" /\ mode = "live" /\ next > Len(script)
    /\ tool' = "committed"
    /\ IF tx = NoFile THEN UNCHANGED wal ELSE Log(tx)
    /\ tx' = NoFile
    /\ UNCHANGED <<script, main, snapshot, gateway, mode, next, exit, runs,
                   before, cold>>

\* _integrity_check compares a Row with a tuple: it is never satisfied.
CheckFails ==
    /\ tool = "committed"
    /\ Close(2)

-----------------------------------------------------------------------------
(* --rollback                                                               *)

\* copy2 truncates the source before it writes it; the log stays.
StartRollback ==
    /\ Start("rollback") /\ snapshot # NoFile
    /\ tool' = "restoring"
    /\ main' = Torn
    /\ cold' = (cold /\ wal = NoFile)
    /\ UNCHANGED <<script, wal, snapshot, gateway, exit, before>>

Restored ==
    /\ tool = "restoring" /\ tool' = "off" /\ exit' = 0
    /\ main' = snapshot
    /\ UNCHANGED <<script, wal, snapshot, gateway, mode, next, tx, runs,
                   before, cold>>

NoSnapshot ==
    /\ Start("rollback") /\ snapshot = NoFile
    /\ exit' = 3
    /\ UNCHANGED <<script, main, wal, snapshot, gateway, tool, before, cold>>

-----------------------------------------------------------------------------
\* A bug: what the open transaction wrote is still there.
KillKeeping ==
    /\ tool # "off" /\ tool' = "off" /\ exit' = 9 /\ UNCHANGED tx
    /\ UNCHANGED <<script, main, wal, snapshot, gateway, mode, next, runs,
                   before, cold>>

\* The process dies: the transaction is gone, half-written files and the log stay.
Kill ==
    /\ tool # "off" /\ tool' = "off" /\ exit' = 9 /\ tx' = NoFile
    /\ UNCHANGED <<script, main, wal, snapshot, gateway, mode, next, runs,
                   before, cold>>

Next ==
    \/ GatewayStart \/ GatewayInsert \/ GatewayStop \/ GatewayCrash
    \/ StartLive \/ Copied \/ Unreadable \/ Open \/ StartDry
    \/ Execute \/ Fail \/ FinishDry \/ Commit \/ CheckFails
    \/ StartRollback \/ Restored \/ NoSnapshot
    \/ Kill

Spec == Init /\ [][Next]_vars

-----------------------------------------------------------------------------
(* Properties                                                              *)

\* main's exit codes and the transaction of _run_migration: the source holds
\* what the script's DDL before its first UPDATE left when a run ended early,
\* or all of the script, or nothing - never a part of the backfills.
OnlyPrefixOrAll ==
    Source # Torn =>
        \E k \in 0..Len(script) :
            /\ Source.applied = {i \in 1..k : ~script[i].commented}
            /\ \/ k = Len(script)
               \/ \A i \in Source.applied : script[i].kind = "ddl"

\* "--dry-run ... without writing" and "--rollback Restore from the snapshot
\* taken by the last run": a dry run changes nothing, and a rollback brings
\* back the content before the last live run, unless a log lay beside the file
\* when it was copied in either direction, or copying the snapshot was cut off.
DryAndRollbackKeepContent ==
    [][/\ tool \in {"copied", "running"} /\ mode = "dry" => Source' = Source
       /\ Restored /\ cold /\ snapshot # Torn => Source' = before]_vars
=============================================================================
