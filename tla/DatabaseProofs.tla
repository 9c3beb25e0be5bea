------------------------- MODULE DatabaseProofs -------------------------
(***************************************************************************)
(* Theorems about the first gateway's database: Migration, which brings it *)
(* to the second version, for every script, any number of rows and runs;   *)
(* and FleetHealth, which scores and sums up what is in it, for any        *)
(* heartbeats, any length of a day and any number of rows the trigger      *)
(* leaves.                                                                 *)
(***************************************************************************)
EXTENDS Migration, FleetHealth, SequenceTheorems, FiniteSetTheorems, WellFoundedInduction, TLAPS

-----------------------------------------------------------------------------
(* Migration: the script and the constants                                  *)

\* A script is a sequence of statements.
LEMMA ScriptType ==
  ASSUME NEW s \in Scripts
  PROVE  /\ Len(s) \in Nat
         /\ \A i \in 1..Len(s) : s[i].kind \in {"ddl", "dml"} /\ s[i].commented \in BOOLEAN
<1>1. s \in Seq(Statement)
  BY MigrationAssumption DEF MigrationAssumption
<1>2. \A i \in 1..Len(s) : s[i] \in Statement
  BY <1>1, ElementOfSeq
<1> QED
  BY <1>1, <1>2 DEF Statement

\* The bounds are numbers, and a sentinel is no content and no log.
LEMMA ConstantTypes ==
    /\ MaxRows \in Nat /\ MaxRuns \in Nat
    /\ NoFile # Torn
    /\ \A s \in Scripts : /\ NoFile \notin ContentOf(s) /\ Torn \notin ContentOf(s)
                          /\ NoFile \notin [base : ContentOf(s), content : ContentOf(s)]
  BY MigrationAssumption, SentinelAssumption DEF MigrationAssumption, SentinelAssumption

\* What a connection reads is a content, unless the file is torn.
LEMMA SourceType ==
  ASSUME TypeOK
  PROVE  Source \in Content \cup {Torn}
  BY DEF TypeOK, Source

\* The content a statement leaves is a content.
LEMMA DoneType ==
  ASSUME TypeOK, tool = "running", next <= Len(script), Source # Torn
  PROVE  Done \in Content
<1>1. Seen \in Content
  BY SourceType DEF Seen, TypeOK
<1>2. next \in 1..Len(script)
  BY ScriptType DEF TypeOK
<1> QED
  BY <1>1, <1>2 DEF Done, Content, ContentOf

-----------------------------------------------------------------------------
(* Type correctness                                                         *)

\* While the gateway or the tool has the database open it can be read, and
\* both do not have it open at once; a rollback has a snapshot to restore.
OpenInv ==
    /\ tool = "restoring" => snapshot # NoFile
    /\ gateway => tool = "off" /\ Source # Torn
    /\ tool \in {"running", "committed"} => Source # Torn

\* The process and the files the actions of the tool and of the gateway change.
LEMMA TypeInductive == TypeOK /\ OpenInv /\ [Next]_vars => TypeOK' /\ OpenInv'
<1> SUFFICES ASSUME TypeOK, OpenInv, [Next]_vars PROVE TypeOK' /\ OpenInv'
  OBVIOUS
<1> USE ConstantTypes
<1>s. script \in Scripts /\ Len(script) \in Nat
  BY ScriptType DEF TypeOK
<1>1. CASE GatewayStart
  BY <1>1 DEF GatewayStart, TypeOK, OpenInv, Content, process, Source
<1>2. CASE GatewayInsert
  <2>1. Source \in Content /\ main \in Content
    BY SourceType, <1>2 DEF GatewayInsert, OpenInv, TypeOK, Source
  <2>2. [Source EXCEPT !.rows = @ + 1] \in Content
    BY <2>1, <1>2 DEF GatewayInsert, Content, ContentOf
  <2> QED
    BY <1>2, <2>1, <2>2, <1>s DEF GatewayInsert, Log, TypeOK, OpenInv, Content, process, Source
<1>3. CASE GatewayStop
  BY <1>3, SourceType, <1>s DEF GatewayStop, Checkpoint, TypeOK, OpenInv, Content, process
<1>4. CASE GatewayCrash
  BY <1>4, <1>s DEF GatewayCrash, TypeOK, OpenInv, Content, process
<1>5. CASE StartLive
  BY <1>5, <1>s, SourceType DEF StartLive, Start, TypeOK, OpenInv, Content
<1>6. CASE Copied
  BY <1>6, <1>s DEF Copied, TypeOK, OpenInv, Content
<1>7. CASE Unreadable
  BY <1>7, <1>s DEF Unreadable, TypeOK, OpenInv, Content
<1>8. CASE Open
  BY <1>8, <1>s DEF Open, TypeOK, OpenInv, Content, Source
<1>9. CASE StartDry
  BY <1>9, <1>s DEF StartDry, Start, TypeOK, OpenInv, Content
<1>10. CASE Execute
  <2>1. Done \in Content /\ Source \in Content /\ main \in Content
    BY <1>10, DoneType, SourceType DEF Execute, OpenInv, TypeOK, Source
  <2>2. TypeOK'
    BY <1>10, <2>1, <1>s DEF Execute, Applies, Log, TypeOK, Content
  <2> QED
    BY <1>10, <2>1, <2>2, <1>s DEF Execute, Applies, Log, TypeOK, OpenInv, Content, Source
<1>11. CASE Fail \/ FinishDry \/ CheckFails
  <2>1. \E code \in {0, 1, 2} : Close(code)
    BY <1>11 DEF Fail, FinishDry, CheckFails
  <2>2. Source \in Content \cup {Torn}
    BY SourceType
  <2> QED
    BY <2>1, <2>2, <1>s, <1>11
       DEF Close, Checkpoint, TypeOK, OpenInv, Content, Fail, FinishDry, CheckFails
<1>12. CASE Commit
  <2>1. Source \in Content /\ main \in Content
    BY <1>12, SourceType DEF Commit, OpenInv, TypeOK, Source
  <2>2. TypeOK'
    BY <1>12, <2>1, <1>s DEF Commit, Log, TypeOK, Content
  <2> QED
    BY <1>12, <2>1, <2>2, <1>s DEF Commit, Log, TypeOK, OpenInv, Content, Source
<1>13. CASE StartRollback
  BY <1>13, <1>s DEF StartRollback, Start, TypeOK, OpenInv, Content
<1>14. CASE Restored
  BY <1>14, <1>s DEF Restored, TypeOK, OpenInv, Content
<1>15. CASE NoSnapshot
  BY <1>15, <1>s DEF NoSnapshot, Start, TypeOK, OpenInv, Content
<1>16. CASE Kill
  BY <1>16, <1>s DEF Kill, TypeOK, OpenInv, Content
<1>17. CASE UNCHANGED vars
  BY <1>17 DEF vars, TypeOK, OpenInv, Content, Source
<1> QED
  BY <1>1, <1>2, <1>3, <1>4, <1>5, <1>6, <1>7, <1>8, <1>9, <1>10, <1>11, <1>12,
     <1>13, <1>14, <1>15, <1>16, <1>17 DEF Next

\* The initial states are well typed.
LEMMA InitialTypes == Init => TypeOK /\ OpenInv
<1> SUFFICES ASSUME Init PROVE TypeOK /\ OpenInv
  OBVIOUS
<1>1. script \in Scripts /\ Len(script) \in Nat
  BY ScriptType DEF Init
<1>2. main \in Content
  BY ConstantTypes DEF Init, Content, ContentOf
<1>3. 1 \in 1..(Len(script) + 1) /\ 0 \in 0..MaxRuns
  BY <1>1, ConstantTypes
<1> QED
  BY <1>1, <1>2, <1>3 DEF Init, TypeOK, OpenInv

\* Every reachable state of a migration is well typed.
THEOREM MigrationTypeCorrect == Spec => []TypeOK
  BY InitialTypes, TypeInductive, PTL DEF Spec

-----------------------------------------------------------------------------
(* What a file may hold                                                     *)

\* What the first k statements leave.
Executed(k) == {i \in 1..k : ~script[i].commented}

AllDDL(c) == \A i \in c.applied : script[i].kind = "ddl"

\* A content that holds a prefix of DDL, or all of the script.
Legal(c) ==
    \E k \in 0..Len(script) :
        c.applied = Executed(k) /\ (k = Len(script) \/ AllDDL(c))

\* Every file that can be read is legal, the log and the snapshot among them,
\* and a run of the tool has come as far as its next statement, or found it
\* executed already; outside of a transaction what it sees is legal, too.
PrefixInv ==
    /\ main # Torn => Legal(main)
    /\ wal # NoFile => Legal(wal.content)
    /\ snapshot \notin {Torn, NoFile} => Legal(snapshot)
    /\ tool \in {"copying", "copied"} => next = 1
    /\ tool = "running" =>
          \E k \in (next - 1)..Len(script) :
              /\ Seen.applied = Executed(k)
              /\ tx = NoFile => k = Len(script) \/ AllDDL(Seen)

\* What can be read is legal.
LEMMA LegalSource ==
  ASSUME TypeOK, PrefixInv, Source # Torn
  PROVE  Legal(Source)
  BY DEF TypeOK, PrefixInv, Source

\* The statement that is executed next ends a prefix.
LEMMA NextPrefix ==
  ASSUME TypeOK, NEW k \in Nat
  PROVE  Executed(k + 1) = IF script[k + 1].commented
                           THEN Executed(k) ELSE Executed(k) \cup {k + 1}
  BY DEF Executed

\* What is legal stays so in every file and every transaction that is left
\* alone, moved or dropped.
LEMMA PrefixInductive ==
  TypeOK /\ OpenInv /\ PrefixInv /\ [Next]_vars => PrefixInv'
<1> SUFFICES ASSUME TypeOK, OpenInv, PrefixInv, [Next]_vars PROVE PrefixInv'
  OBVIOUS
<1> USE ConstantTypes
<1>s. script \in Scripts /\ Len(script) \in Nat /\ next \in 1..(Len(script) + 1)
  BY ScriptType DEF TypeOK
<1>l. Source # Torn => Legal(Source)
  BY LegalSource
<1>1. CASE GatewayStart
  BY <1>1 DEF GatewayStart, process, PrefixInv, Legal, Executed, AllDDL
<1>2. CASE GatewayInsert
  <2>1. Source # Torn /\ Source \in Content
    BY <1>2, SourceType DEF GatewayInsert, OpenInv
  <2>2. [Source EXCEPT !.rows = @ + 1].applied = Source.applied
    BY <2>1 DEF Content, ContentOf
  <2> QED
    BY <1>2, <1>l, <2>1, <2>2
       DEF GatewayInsert, Log, process, OpenInv, PrefixInv, Legal, Executed, AllDDL
<1>3. CASE GatewayStop
  BY <1>3, <1>l DEF GatewayStop, Checkpoint, process, OpenInv, PrefixInv, Legal,
                    Executed, AllDDL
<1>4. CASE GatewayCrash
  BY <1>4 DEF GatewayCrash, process, OpenInv, PrefixInv, Legal, Executed, AllDDL
<1>5. CASE StartLive
  BY <1>5 DEF StartLive, Start, PrefixInv, Legal, Executed, AllDDL
<1>6. CASE Copied
  BY <1>6 DEF Copied, PrefixInv, Legal, Executed, AllDDL, TypeOK
<1>7. CASE Unreadable
  BY <1>7 DEF Unreadable, PrefixInv, Legal, Executed, AllDDL
<1>8. CASE Open
  <2>1. next = 1 /\ Seen' = Source /\ tx' = tx /\ tx = NoFile
    BY <1>8 DEF Open, PrefixInv, TypeOK, Seen, Source
  <2>2. PICK k \in 0..Len(script) : /\ Source.applied = Executed(k)
                                    /\ k = Len(script) \/ AllDDL(Source)
    BY <1>8, <1>l DEF Open, Legal
  <2> QED
    BY <1>8, <2>1, <2>2, <1>s DEF Open, PrefixInv, Legal, Executed, AllDDL
<1>9. CASE StartDry
  BY <1>9 DEF StartDry, Start, PrefixInv, Legal, Executed, AllDDL
<1>10. CASE Execute
  <2>1. PICK k \in (next - 1)..Len(script) :
          /\ Seen.applied = Executed(k)
          /\ tx = NoFile => k = Len(script) \/ AllDDL(Seen)
    BY <1>10 DEF Execute, PrefixInv
  <2> DEFINE m == IF k >= next THEN k ELSE next
  <2>2. /\ next \in 1..Len(script) /\ k \in 0..Len(script)
        /\ m \in next..Len(script) /\ next' = next + 1 /\ script' = script
        /\ k # m => k = next - 1 /\ m = next
    BY <1>10, <1>s, <2>1 DEF Execute
  <2>3. Source \in Content /\ Seen \in Content /\ main \in Content
    BY <1>10, SourceType DEF Execute, OpenInv, Seen, TypeOK, Source
  <2>4. Executed(next) = IF Skipped THEN Executed(next - 1) ELSE Executed(next - 1) \cup {next}
    <3>1. next - 1 \in Nat /\ next - 1 + 1 = next
      BY <2>2
    <3> QED
      BY <3>1, NextPrefix DEF Skipped
  <2>5. CASE Skipped
    <3>1. Seen' = Seen /\ tx' = tx /\ wal' = wal /\ main' = main
      BY <1>10, <2>5 DEF Execute, Seen, Source
    <3>2. Seen.applied = Executed(m) /\ (k = Len(script) => m = k)
      BY <2>1, <2>2, <2>4, <2>5
    <3>3. m \in (next' - 1)..Len(script)
      BY <2>2
    <3> HIDE DEF m
    <3> QED
      BY <1>10, <2>1, <2>2, <3>1, <3>2, <3>3
         DEF Execute, PrefixInv, Legal, Executed, AllDDL
  <2>6. CASE ~Skipped
    <3>1. Done \in Content /\ Done.applied = Seen.applied \cup {next}
      BY <1>10, <2>3, DoneType DEF Done, Content, ContentOf, Execute, OpenInv
    <3>2. Done.applied = Executed(m) /\ (k = Len(script) => m = k)
      <4>1. k >= next => next \in Executed(k)
        BY <2>2, <2>6 DEF Executed, Skipped
      <4> QED
        BY <2>1, <2>2, <2>4, <2>6, <3>1, <4>1
    <3>3. m \in (next' - 1)..Len(script) /\ m \in 0..Len(script)
      BY <2>2
    <3> HIDE DEF m
    <3>4. CASE tx' = Done /\ UNCHANGED wal
      <4>1. tx' # NoFile /\ Seen' = Done
        BY <1>s, <3>1, <3>4 DEF Seen, Content
      <4> QED
        BY <1>10, <2>2, <3>2, <3>3, <3>4, <4>1
           DEF Execute, PrefixInv, Legal, Executed, AllDDL
    <3>5. CASE Log(Done) /\ UNCHANGED tx /\ tx = NoFile /\ script[next].kind = "ddl"
      <4>1. m = Len(script) \/ AllDDL(Done)
        BY <2>1, <3>1, <3>2, <3>5 DEF AllDDL
      <4>2. /\ wal' = [base |-> main, content |-> Done] /\ main' = main
            /\ wal' \in [base : Content, content : Content]
        BY <1>10, <2>3, <3>1, <3>5 DEF Execute, Log
      <4>3. Seen' = Done /\ wal' # NoFile /\ wal'.content = Done
        BY <1>10, <1>s, <3>5, <4>2 DEF Execute, Seen, Source, Content
      <4> QED
        BY <1>10, <2>2, <3>2, <3>3, <3>5, <4>1, <4>2, <4>3
           DEF Execute, PrefixInv, Legal, Executed, AllDDL
    <3>6. script[next].kind \in {"ddl", "dml"}
      BY <1>s, <2>2, ScriptType
    <3> QED
      BY <1>10, <2>6, <3>4, <3>5, <3>6 DEF Execute, Applies
  <2> QED
    BY <2>5, <2>6
<1>11. CASE Fail \/ FinishDry \/ CheckFails
  <2>1. \E code \in {0, 1, 2} : Close(code)
    BY <1>11 DEF Fail, FinishDry, CheckFails
  <2> QED
    BY <2>1, <1>l DEF Close, Checkpoint, PrefixInv, Legal, Executed, AllDDL
<1>12. CASE Commit
  <2>1. tx # NoFile => Legal(tx)
    BY <1>12, <1>s DEF Commit, TypeOK, PrefixInv, Legal, Seen
  <2> QED
    BY <1>12, <2>1 DEF Commit, Log, PrefixInv, Legal, Executed, AllDDL
<1>13. CASE StartRollback
  BY <1>13 DEF StartRollback, Start, PrefixInv, Legal, Executed, AllDDL
<1>14. CASE Restored
  BY <1>14 DEF Restored, OpenInv, PrefixInv, Legal, Executed, AllDDL
<1>15. CASE NoSnapshot
  BY <1>15 DEF NoSnapshot, Start, PrefixInv, Legal, Executed, AllDDL
<1>16. CASE Kill
  BY <1>16 DEF Kill, PrefixInv, Legal, Executed, AllDDL
<1>17. CASE UNCHANGED vars
  BY <1>17 DEF vars, PrefixInv, Legal, Executed, AllDDL, Seen, Source
<1> QED
  BY <1>1, <1>2, <1>3, <1>4, <1>5, <1>6, <1>7, <1>8, <1>9, <1>10, <1>11, <1>12,
     <1>13, <1>14, <1>15, <1>16, <1>17 DEF Next

\* The source never holds a part of the script's backfills: what the script's
\* DDL before its first UPDATE left, all of the script, or nothing.
THEOREM MigrationOnlyPrefixOrAll == Spec => []OnlyPrefixOrAll
<1>1. Init => TypeOK /\ OpenInv /\ PrefixInv
  <2> SUFFICES ASSUME Init PROVE PrefixInv
    BY InitialTypes
  <2>1. Len(script) \in Nat /\ Executed(0) = {} /\ main.applied = {}
    BY ScriptType DEF Init, Executed
  <2> QED
    BY <2>1 DEF Init, PrefixInv, Legal, AllDDL
<1>2. TypeOK /\ PrefixInv => OnlyPrefixOrAll
  BY LegalSource DEF OnlyPrefixOrAll, Legal, Executed, AllDDL
<1> QED
  BY <1>1, <1>2, TypeInductive, PrefixInductive, PTL DEF Spec

-----------------------------------------------------------------------------
(* Dry runs and rollbacks                                                   *)

\* A snapshot that was copied from, and is copied to, a file without a log
\* holds the content before the run that took it.
SnapshotInv ==
    /\ tool = "copying" => snapshot = Torn /\ (cold => main = before)
    /\ cold /\ snapshot \notin {Torn, NoFile} => snapshot = before
    /\ tool = "restoring" /\ cold => wal = NoFile

\* No step of the gateway or of the tool comes between a snapshot and its use.
LEMMA SnapshotInductive ==
  TypeOK /\ OpenInv /\ SnapshotInv /\ [Next]_vars => SnapshotInv'
<1> SUFFICES ASSUME TypeOK, OpenInv, SnapshotInv, [Next]_vars PROVE SnapshotInv'
  OBVIOUS
<1> USE DEF SnapshotInv
<1>1. CASE GatewayStart \/ GatewayInsert \/ GatewayStop \/ GatewayCrash
  BY <1>1 DEF GatewayStart, GatewayInsert, GatewayStop, GatewayCrash, process, OpenInv
<1>2. CASE StartLive
  BY <1>2 DEF StartLive, Start, Source
<1>3. CASE Copied \/ Unreadable \/ Open
  BY <1>3 DEF Copied, Unreadable, Open
<1>4. CASE StartDry \/ NoSnapshot
  BY <1>4 DEF StartDry, NoSnapshot, Start
<1>5. CASE Execute \/ Commit
  BY <1>5 DEF Execute, Commit
<1>6. CASE Fail \/ FinishDry \/ CheckFails
  BY <1>6 DEF Fail, FinishDry, CheckFails, Close
<1>7. CASE StartRollback
  BY <1>7 DEF StartRollback, Start
<1>8. CASE Restored
  BY <1>8 DEF Restored
<1>9. CASE Kill
  BY <1>9 DEF Kill
<1>10. CASE UNCHANGED vars
  BY <1>10 DEF vars
<1> QED
  BY <1>1, <1>2, <1>3, <1>4, <1>5, <1>6, <1>7, <1>8, <1>9, <1>10 DEF Next

\* What one step of a dry run, or the end of a rollback, does to the source.
LEMMA StepKeepsContent ==
  ASSUME TypeOK, OpenInv, SnapshotInv, [Next]_vars
  PROVE  /\ tool \in {"copied", "running"} /\ mode = "dry" => Source' = Source
         /\ Restored /\ cold /\ snapshot # Torn => Source' = before
<1>1. ASSUME tool \in {"copied", "running"}, mode = "dry" PROVE Source' = Source
  <2>1. CASE Fail \/ FinishDry \/ CheckFails
    BY <2>1 DEF Fail, FinishDry, CheckFails, Close, Checkpoint, Source
  <2>2. CASE Execute
    BY <1>1, <2>2 DEF Execute, Applies, Source
  <2>3. CASE Unreadable \/ Open \/ Kill
    BY <2>3 DEF Unreadable, Open, Kill, Source
  <2>4. CASE UNCHANGED vars
    BY <2>4 DEF vars, Source
  <2> QED
    BY <1>1, <2>1, <2>2, <2>3, <2>4
       DEF Next, GatewayStart, GatewayInsert, GatewayStop, GatewayCrash, OpenInv,
           StartLive, StartDry, StartRollback, NoSnapshot, Start, Copied, Commit,
           Restored
<1>2. ASSUME Restored, cold, snapshot # Torn PROVE Source' = before
  BY <1>2 DEF Restored, SnapshotInv, OpenInv, Source
<1> QED
  BY <1>1, <1>2

\* A dry run changes nothing, and a rollback brings the last snapshot's content
\* back whenever no log lay beside the file.
THEOREM MigrationKeepsContent == Spec => DryAndRollbackKeepContent
<1>1. Init => TypeOK /\ OpenInv /\ SnapshotInv
  BY InitialTypes DEF Init, SnapshotInv
<1>2. TypeOK /\ OpenInv /\ SnapshotInv /\ [Next]_vars =>
         [/\ tool \in {"copied", "running"} /\ mode = "dry" => Source' = Source
          /\ Restored /\ cold /\ snapshot # Torn => Source' = before]_vars
  BY StepKeepsContent
<1> QED
  BY <1>1, <1>2, TypeInductive, SnapshotInductive, PTL
     DEF Spec, DryAndRollbackKeepContent

-----------------------------------------------------------------------------
(* FleetHealth: the constants and the least element of a set                *)

\* The least-number principle, for a set.
LEMMA LeastElement ==
  ASSUME NEW S, S \subseteq Nat, S # {}
  PROVE  \E x \in S : \A y \in S : x <= y
<1> DEFINE Less == OpToRel(<, Nat)
<1>1. IsWellFoundedOn(Less, Nat)
  BY NatLessThanWellFounded
<1>2. \A x, y \in Nat : x < y => <<x, y>> \in Less
  BY DEF OpToRel
<1> HIDE DEF Less
<1>3. PICK x \in S : \A y \in S : ~ (<<y, x>> \in Less)
  BY <1>1, WFMin
<1>4. x \in Nat /\ \A y \in S : y \in Nat /\ ~(y < x)
  BY <1>2, <1>3
<1>5. \A y \in S : x <= y
  BY <1>4
<1> QED
  BY <1>5

\* What is assumed of the constants.
LEMMA FleetConstants ==
    /\ OfflineAfter \in Nat \ {0} /\ DayLength \in Nat \ {0} /\ KeepBeats \in Nat \ {0}
    /\ RecentLimit \in Nat \ {0} /\ FewBeats \in Nat /\ QueueWindow \in Nat \ {0}
    /\ MaxClock \in Nat /\ Beats \subseteq [queue : Int, rssi : Int \cup {Unknown}]
    /\ FirstSeen \in [Nodes -> 0..MaxClock \cup {Never, Garbled}]
    /\ AnomalyLimit \in Nat
    /\ Anomalies \subseteq [node : Nodes, category : Categories, rank : Nat]
  BY BoundsAssumption DEF BoundsAssumption

-----------------------------------------------------------------------------
(* Sums                                                                     *)

\* The recursive function that Total sums up with exists, and its values are integers.
LEMMA TotalIsInt ==
  ASSUME NEW s, Len(s) \in Nat, NEW is,
         \A i \in 1..Len(s) : i \in is => s[i] \in Int
  PROVE  Total(s, is) \in Int
<1> DEFINE k == Len(s)
           x(i) == IF i \in is THEN s[i] ELSE 0
           IsSum(f, n) == /\ f \in [0..n -> Int] /\ f[0] = 0
                          /\ \A i \in 1..n : f[i] = f[i - 1] + x(i)
<1>1. \A i \in 1..k : x(i) \in Int
  OBVIOUS
<1>2. \E f : IsSum(f, k)
  <2> DEFINE Without == {n \in 0..k : ~ \E f : IsSum(f, n)}
  <2> SUFFICES ASSUME Without # {} PROVE FALSE
    OBVIOUS
  <2>1. PICK n \in Without : \A m \in Without : n <= m
    <3>1. Without \subseteq Nat
      OBVIOUS
    <3> HIDE DEF Without
    <3> QED
      BY <3>1, LeastElement
  <2>2. IsSum([i \in 0..0 |-> 0], 0)
    OBVIOUS
  <2>n. n \in 0..k /\ ~ \E f : IsSum(f, n)
    BY <2>1
  <2>3. n \in 1..k
    <3>1. \E f : IsSum(f, 0)
      BY <2>2
    <3> HIDE DEF IsSum
    <3>2. n # 0
      BY <2>n, <3>1
    <3> QED
      BY <2>n, <3>2
  <2>4. n - 1 \in 0..k /\ ~(n <= n - 1)
    BY <2>3
  <2>5. PICK f : IsSum(f, n - 1)
    <3> HIDE DEF IsSum
    <3> QED
      BY <2>1, <2>4
  <2> DEFINE g == [i \in 0..n |-> IF i = n THEN f[n - 1] + x(n) ELSE f[i]]
  <2>6. f[n - 1] + x(n) \in Int /\ \A i \in 0..(n - 1) : f[i] \in Int
    BY <1>1, <2>3, <2>5
  <2>7. g \in [0..n -> Int] /\ g[0] = 0
    BY <2>3, <2>5, <2>6
  <2>8. ASSUME NEW i \in 1..n PROVE g[i] = g[i - 1] + x(i)
    <3>1. CASE i = n
      BY <2>3, <3>1
    <3>2. CASE i # n
      <4>1. i \in 1..(n - 1) /\ i - 1 # n /\ i - 1 \in 0..n
        BY <2>3, <3>2
      <4>2. f[i] = f[i - 1] + x(i)
        BY <2>5, <4>1
      <4> QED
        BY <3>2, <4>1, <4>2
    <3> QED
      BY <3>1, <3>2
  <2>9. IsSum(g, n)
    BY <2>7, <2>8
  <2> HIDE DEF IsSum, g
  <2> QED
    BY <2>n, <2>9
<1> DEFINE Sums(f) == f = [i \in 0..k |-> IF i = 0 THEN 0 ELSE f[i - 1] + x(i)]
           sum == CHOOSE f : Sums(f)
<1>3. PICK f : IsSum(f, k)
  BY <1>2
<1>4. Sums(f)
  BY <1>3
<1>5. Sums(sum)
  BY <1>4
<1>6. Total(s, is) = sum[k]
  BY DEF Total
<1> HIDE DEF sum
<1>7. sum[0] = 0 /\ \A i \in 1..k : sum[i] = sum[i - 1] + x(i)
  <2>1. \A i \in 0..k : sum[i] = IF i = 0 THEN 0 ELSE sum[i - 1] + x(i)
    BY <1>5
  <2> QED
    BY <2>1
<1>8. \A i \in 0..k : sum[i] \in Int
  <2> DEFINE Wrong == {i \in 0..k : sum[i] \notin Int}
  <2> SUFFICES ASSUME Wrong # {} PROVE FALSE
    OBVIOUS
  <2>1. PICK n \in Wrong : \A m \in Wrong : n <= m
    <3>1. Wrong \subseteq Nat
      OBVIOUS
    <3> HIDE DEF Wrong
    <3> QED
      BY <3>1, LeastElement
  <2>2. n \in 1..k
    BY <1>7, <2>1
  <2>3. n - 1 \in 0..k /\ n - 1 \notin Wrong
    BY <2>1, <2>2
  <2> QED
    BY <1>1, <1>7, <2>1, <2>2, <2>3
<1> QED
  BY <1>6, <1>8

\* Rounding down keeps the order.
LEMMA DivTypes ==
  ASSUME NEW a \in Int, NEW d \in Nat \ {0}
  PROVE  a \div d \in Int /\ d * (a \div d) <= a /\ a < d * (a \div d) + d
  OBVIOUS

LEMMA DivMonotone ==
  ASSUME NEW a \in Int, NEW b \in Int, a <= b, NEW d \in Nat \ {0}
  PROVE  a \div d <= b \div d
<1> DEFINE q == a \div d
           r == b \div d
<1>1. q \in Int /\ r \in Int /\ d * q <= a /\ b < d * r + d
  BY DivTypes
<1> HIDE DEF q, r
<1> SUFFICES ASSUME ~(q <= r) PROVE FALSE
  BY DEF q, r
<1>2. q >= r + 1
  BY <1>1
<1>3. d * q >= d * (r + 1)
  BY <1>1, <1>2
<1>4. d * (r + 1) = d * r + d
  BY <1>1
<1> QED
  BY <1>1, <1>3, <1>4

\* A mean of integers is one.
LEMMA AverageIsInt ==
  ASSUME NEW n \in Nat, NEW s, DOMAIN s = 1..n, NEW is \in SUBSET (1..n), is # {},
         \A i \in is : s[i] \in Int
  PROVE  Average(s, is) \in Int /\ IsFiniteSet(is) /\ Cardinality(is) \in Nat \ {0}
<1>1. Len(s) = n
  BY LenProperties
<1>2. Total(s, is) \in Int
  BY <1>1, TotalIsInt
<1>3. IsFiniteSet(is) /\ Cardinality(is) \in Nat \ {0}
  <2>1. IsFiniteSet(1..n)
    BY FS_Interval
  <2>2. IsFiniteSet(is)
    BY <2>1, FS_Subset
  <2>3. Cardinality(is) \in Nat /\ Cardinality(is) # 0
    BY <2>2, FS_CardinalityType, FS_EmptySet
  <2> QED
    BY <2>2, <2>3
<1>4. 1000 * Total(s, is) \in Int
  BY <1>2
<1> QED
  BY <1>3, <1>4, DivTypes DEF Average

-----------------------------------------------------------------------------
(* The scores                                                               *)

LastSeen == 0..MaxClock \cup {Never, Garbled}
NodeRow == [status : Statuses, seen : LastSeen]
BeatRow == [at : 0..MaxClock, queue : Int, rssi : Int \cup {Unknown}]

LEMMA FullIsNat == Full \in Nat
  BY DEF Full

LEMMA PointsInRange ==
  ASSUME NEW x \in Int
  PROVE  Points(x) \in 0..Full
  BY FullIsNat DEF Points, AtMost

LEMMA PointsMonotone ==
  ASSUME NEW x \in Int, NEW y \in Int, x <= y
  PROVE  Points(x) <= Points(y)
  BY FullIsNat DEF Points, AtMost

LEMMA AtMostMonotone ==
  ASSUME NEW c \in Int, NEW x \in Int, NEW y \in Int, x <= y
  PROVE  AtMost(c, x) \in Int /\ AtMost(c, y) \in Int /\ AtMost(c, x) <= AtMost(c, y)
  BY DEF AtMost

\* What the newest k elements of a sequence are.
LEMMA NewestFits ==
  ASSUME NEW S, NEW s \in Seq(S), NEW k \in Nat \ {0}
  PROVE  /\ Newest(s, k) \in Seq(S) /\ Len(Newest(s, k)) \in Nat /\ Len(Newest(s, k)) <= k
         /\ Len(s) > k => Len(Newest(s, k)) = k
         /\ Len(s) <= k => Newest(s, k) = s
         /\ s # <<>> => Newest(s, k) # <<>>
<1> DEFINE m == IF Len(s) > k THEN Len(s) - k + 1 ELSE 1
<1>1. Len(s) \in Nat /\ m \in 1..(Len(s) + 1) /\ (s # <<>> => Len(s) >= 1)
  OBVIOUS
<1>2. Newest(s, k) = SubSeq(s, m, Len(s))
  BY DEF Newest
<1>3. Newest(s, k) \in Seq(S) /\ Len(Newest(s, k)) = Len(s) - m + 1
  <2>1. Len(s) \in (m - 1)..Len(s)
    BY <1>1
  <2> HIDE DEF m
  <2> QED
    BY <1>1, <1>2, <2>1, SubSeqProperties
<1>4. ASSUME Len(s) <= k PROVE Newest(s, k) = s
  <2>1. m = 1
    BY <1>1, <1>4
  <2> HIDE DEF m
  <2> QED
    BY <1>2, <2>1, SubSeqFull
<1>5. Len(s) \in Nat /\ k \in Nat /\ k >= 1
  OBVIOUS
<1>6. /\ Len(Newest(s, k)) \in Nat /\ Len(Newest(s, k)) <= k
      /\ Len(s) > k => Len(Newest(s, k)) = k
      /\ s # <<>> => Len(Newest(s, k)) >= 1
  BY <1>1, <1>3, <1>5
<1>7. s # <<>> => Newest(s, k) # <<>>
  <2>1. Len(<<>>) = 0
    OBVIOUS
  <2> QED
    BY <1>6, <2>1
<1> QED
  BY <1>3, <1>4, <1>6, <1>7

\* The penalties are numbers.
LEMMA PenaltyTypes ==
  ASSUME NEW recent \in Seq(BeatRow), recent # <<>>
  PROVE  QueuePenalty(recent) \in Int /\ SignalPenalty(recent) \in Int
<1> DEFINE n == Len(recent)
           queue == [i \in DOMAIN recent |-> recent[i].queue]
           rssi == [i \in DOMAIN recent |-> recent[i].rssi]
           told == {i \in DOMAIN recent : recent[i].rssi # Unknown}
<1>1. n \in Nat /\ n >= 1 /\ DOMAIN recent = 1..n /\ \A i \in 1..n : recent[i] \in BeatRow
  OBVIOUS
<1>2. \A i \in 1..n : recent[i].queue \in Int /\ recent[i].rssi \in Int \cup {Unknown}
  BY <1>1 DEF BeatRow
<1>3. DOMAIN queue = 1..n /\ \A i \in 1..n : queue[i] \in Int
  BY <1>1, <1>2
<1>4. DOMAIN rssi = 1..n /\ told \subseteq 1..n /\ \A i \in told : rssi[i] \in Int
  BY <1>1, <1>2
<1>5. 1..n # {}
  BY <1>1
<1>6. Average(queue, 1..n) \in Int
  <2> HIDE DEF queue, n
  <2> QED
    BY <1>1, <1>3, <1>5, AverageIsInt
<1>7. told # {} => Average(rssi, told) \in Int
  <2> HIDE DEF rssi, told, n
  <2> QED
    BY <1>1, <1>4, AverageIsInt
<1>8. QueuePenalty(recent) \in Int
  <2>1. QueuePenalty(recent) =
           LET avg == Average(queue, 1..n)
           IN Cost(avg > 10000, AtMost(30000, 2 * (avg - 10000)))
    BY <1>1 DEF QueuePenalty
  <2> HIDE DEF queue, n
  <2> QED
    BY <1>6, <2>1 DEF Cost, AtMost
<1>9. SignalPenalty(recent) \in Int
  <2> DEFINE avg == Average(rssi, told)
  <2>1. SignalPenalty(recent) =
           IF told = {} THEN 0
           ELSE Cost(avg > 80000, AtMost(25000, ((avg - 80000) * 3) \div 2))
    BY DEF SignalPenalty
  <2>2. told # {} => ((avg - 80000) * 3) \div 2 \in Int
    <3> HIDE DEF avg
    <3> QED
      BY <1>7, DivTypes DEF avg
  <2> HIDE DEF avg, told
  <2> QED
    BY <2>1, <2>2 DEF Cost, AtMost
<1> QED
  BY <1>8, <1>9

\* How many of the anomalies that are read are of a category.
OpenIn(anomalies) ==
    [c \in Categories |-> Cardinality({a \in anomalies : a.category = c})]

LEMMA OpenGrows ==
  ASSUME NEW X, NEW Y, X \subseteq Y, IsFiniteSet(Y), NEW c \in Categories
  PROVE  /\ OpenIn(X)[c] \in Nat /\ OpenIn(Y)[c] \in Nat
         /\ OpenIn(X)[c] <= OpenIn(Y)[c]
<1> DEFINE Of(Z) == {a \in Z : a.category = c}
<1>1. Of(Y) \subseteq Y /\ Of(X) \subseteq Of(Y)
  OBVIOUS
<1>2. OpenIn(X)[c] = Cardinality(Of(X)) /\ OpenIn(Y)[c] = Cardinality(Of(Y))
  BY DEF OpenIn
<1> HIDE DEF Of
<1>3. IsFiniteSet(Of(Y))
  BY <1>1, FS_Subset
<1>4. IsFiniteSet(Of(X)) /\ Cardinality(Of(X)) <= Cardinality(Of(Y))
  BY <1>1, <1>3, FS_Subset
<1> QED
  BY <1>2, <1>3, <1>4, FS_CardinalityType

\* A row of the table of anomalies.
AnomalyRow == [node : Nodes, category : Categories, rank : Nat, at : 0..MaxClock]

\* What a score reads are some of the node's anomalies.
LEMMA ReadAreActive ==
  ASSUME NEW n, NEW X, IsFiniteSet(X)
  PROVE  /\ AnomaliesRead(n, X) \subseteq ActiveAt(n, X)
         /\ IsFiniteSet(ActiveAt(n, X)) /\ IsFiniteSet(AnomaliesRead(n, X))
<1>1. AnomaliesRead(n, X) \subseteq ActiveAt(n, X) /\ ActiveAt(n, X) \subseteq X
  BY DEF AnomaliesRead, ActiveAt
<1> QED
  BY <1>1, FS_Subset

\* Where there are no more than a score reads, it reads all: of no more than
\* AnomalyLimit rows fewer than AnomalyLimit are before one of them.
LEMMA FewAreAllRead ==
  ASSUME NEW n, NEW X \in SUBSET AnomalyRow, IsFiniteSet(X),
         Cardinality(ActiveAt(n, X)) <= AnomalyLimit
  PROVE  AnomaliesRead(n, X) = ActiveAt(n, X)
<1> DEFINE rows == ActiveAt(n, X)
<1>1. IsFiniteSet(rows) /\ rows \subseteq AnomalyRow
  BY ReadAreActive DEF ActiveAt
<1>2. ASSUME NEW a \in rows
      PROVE  Cardinality({b \in rows : Before(b, a)}) < AnomalyLimit
  <2> DEFINE first == {b \in rows : Before(b, a)}
  <2>1. a.at \in 0..MaxClock /\ a.rank \in Nat
    BY <1>1 DEF AnomalyRow
  <2>2. ~Before(a, a)
    BY <2>1, FleetConstants DEF Before
  <2>3. first \subseteq rows /\ first # rows
    BY <2>2
  <2> HIDE DEF first, rows
  <2>4. /\ Cardinality(first) \in Nat /\ Cardinality(rows) \in Nat
        /\ Cardinality(first) < Cardinality(rows)
    BY <1>1, <2>3, FS_Subset, FS_CardinalityType
  <2>5. AnomalyLimit \in Nat /\ Cardinality(rows) <= AnomalyLimit
    BY FleetConstants DEF rows
  <2>6. Cardinality(first) < AnomalyLimit
    BY <2>4, <2>5
  <2> QED
    BY <2>6 DEF first
<1>3. AnomaliesRead(n, X) = {a \in rows : Cardinality({b \in rows : Before(b, a)}) < AnomalyLimit}
  BY DEF AnomaliesRead
<1> HIDE DEF rows
<1>4. AnomaliesRead(n, X) = rows
  BY <1>2, <1>3
<1> QED
  BY <1>4 DEF rows

LEMMA CategoryNames ==
    {"reliability", "connectivity", "performance", "security"} \subseteq Categories
  BY DEF Categories

\* Anomalies cost no more than they did before there were more of them.
LEMMA CostsGrow ==
  ASSUME NEW X, NEW Y, X \subseteq Y, IsFiniteSet(Y), NEW c \in Int, NEW k \in Nat
  PROVE  /\ \A d \in Categories :
              /\ AtMost(c, k * OpenIn(X)[d]) \in Int
              /\ AtMost(c, k * OpenIn(Y)[d]) \in Int
              /\ AtMost(c, k * OpenIn(X)[d]) <= AtMost(c, k * OpenIn(Y)[d])
         /\ \A d, e \in Categories :
              /\ AtMost(c, k * (OpenIn(X)[d] + OpenIn(X)[e])) \in Int
              /\ AtMost(c, k * (OpenIn(Y)[d] + OpenIn(Y)[e])) \in Int
              /\ AtMost(c, k * (OpenIn(X)[d] + OpenIn(X)[e]))
                   <= AtMost(c, k * (OpenIn(Y)[d] + OpenIn(Y)[e]))
<1>1. \A d \in Categories :
        OpenIn(X)[d] \in Nat /\ OpenIn(Y)[d] \in Nat /\ OpenIn(X)[d] <= OpenIn(Y)[d]
  BY OpenGrows
<1>2. \A x, y \in Nat : x <= y => k * x \in Int /\ k * y \in Int /\ k * x <= k * y
  OBVIOUS
<1>3. \A x, y \in Int :
        x <= y => AtMost(c, x) \in Int /\ AtMost(c, y) \in Int /\ AtMost(c, x) <= AtMost(c, y)
  BY AtMostMonotone
<1>4. ASSUME NEW d \in Categories
      PROVE  /\ AtMost(c, k * OpenIn(X)[d]) \in Int /\ AtMost(c, k * OpenIn(Y)[d]) \in Int
             /\ AtMost(c, k * OpenIn(X)[d]) <= AtMost(c, k * OpenIn(Y)[d])
  <2>1. PICK x \in Nat, y \in Nat : x = OpenIn(X)[d] /\ y = OpenIn(Y)[d] /\ x <= y
    BY <1>1
  <2>2. k * x \in Int /\ k * y \in Int /\ k * x <= k * y
    BY <1>2, <2>1
  <2>3. /\ AtMost(c, k * x) \in Int /\ AtMost(c, k * y) \in Int
        /\ AtMost(c, k * x) <= AtMost(c, k * y)
    BY <1>3, <2>2
  <2> QED
    BY <2>1, <2>3
<1>5. ASSUME NEW d \in Categories, NEW e \in Categories
      PROVE  /\ AtMost(c, k * (OpenIn(X)[d] + OpenIn(X)[e])) \in Int
             /\ AtMost(c, k * (OpenIn(Y)[d] + OpenIn(Y)[e])) \in Int
             /\ AtMost(c, k * (OpenIn(X)[d] + OpenIn(X)[e]))
                  <= AtMost(c, k * (OpenIn(Y)[d] + OpenIn(Y)[e]))
  <2>1. PICK x \in Nat, y \in Nat : /\ x = OpenIn(X)[d] + OpenIn(X)[e]
                                    /\ y = OpenIn(Y)[d] + OpenIn(Y)[e] /\ x <= y
    BY <1>1
  <2>2. k * x \in Int /\ k * y \in Int /\ k * x <= k * y
    BY <1>2, <2>1
  <2>3. /\ AtMost(c, k * x) \in Int /\ AtMost(c, k * y) \in Int
        /\ AtMost(c, k * x) <= AtMost(c, k * y)
    BY <1>3, <2>2
  <2> QED
    BY <2>1, <2>3
<1> QED
  BY <1>4, <1>5

LEMMA ReliabilityFalls ==
  ASSUME NEW hb, NEW X, NEW Y, X \subseteq Y, IsFiniteSet(Y),
         NEW st \in Statuses, NEW tt \in Statuses, NotBetter(st, tt)
  PROVE  /\ ReliabilityScore(hb, OpenIn(X), st) \in 0..Full
         /\ ReliabilityScore(hb, OpenIn(Y), tt) \in 0..Full
         /\ ReliabilityScore(hb, OpenIn(Y), tt) <= ReliabilityScore(hb, OpenIn(X), st)
<1> DEFINE x == AtMost(40000, 15000 * (OpenIn(X)["reliability"]
                                       + OpenIn(X)["connectivity"]))
           y == AtMost(40000, 15000 * (OpenIn(Y)["reliability"]
                                       + OpenIn(Y)["connectivity"]))
           few == Cost(Len(hb) < FewBeats, 30000)
           Off(s) == Cost(s = "offline", 25000)
           Bad(s) == Cost(s = "degraded", 10000)
           p == Full - few - x - Off(st) - Bad(st)
           q == Full - few - y - Off(tt) - Bad(tt)
<1>1. x \in Int /\ y \in Int /\ x <= y
  <2> DEFINE c == 40000
             k == 15000
  <2>1. c \in Int /\ k \in Nat /\ {"reliability", "connectivity"} \subseteq Categories
    BY CategoryNames
  <2>2. /\ x = AtMost(c, k * (OpenIn(X)["reliability"] + OpenIn(X)["connectivity"]))
        /\ y = AtMost(c, k * (OpenIn(Y)["reliability"] + OpenIn(Y)["connectivity"]))
    OBVIOUS
  <2> HIDE DEF c, k, x, y
  <2> QED
    BY <2>1, <2>2, CostsGrow
<1>2. few \in Int
  BY DEF Cost
<1>3. /\ Off(st) \in Int /\ Bad(st) \in Int /\ Off(tt) \in Int /\ Bad(tt) \in Int
      /\ Off(st) + Bad(st) <= Off(tt) + Bad(tt)
  BY DEF Cost, NotBetter
<1>4. /\ ReliabilityScore(hb, OpenIn(X), st) = IF hb = <<>> THEN 0 ELSE Points(p)
      /\ ReliabilityScore(hb, OpenIn(Y), tt) = IF hb = <<>> THEN 0 ELSE Points(q)
  BY DEF ReliabilityScore
<1> HIDE DEF x, y, few, Off, Bad
<1>5. p \in Int /\ q \in Int /\ q <= p
  BY <1>1, <1>2, <1>3, FullIsNat
<1> HIDE DEF p, q
<1>6. Points(p) \in 0..Full /\ Points(q) \in 0..Full /\ Points(q) <= Points(p)
  BY <1>5, PointsInRange, PointsMonotone
<1> QED
  BY <1>4, <1>6, FullIsNat

LEMMA PerformanceFalls ==
  ASSUME NEW hb \in Seq(BeatRow), NEW X, NEW Y, X \subseteq Y, IsFiniteSet(Y)
  PROVE  /\ PerformanceScore(hb, OpenIn(X)) \in 0..Full
         /\ PerformanceScore(hb, OpenIn(Y)) \in 0..Full
         /\ PerformanceScore(hb, OpenIn(Y)) <= PerformanceScore(hb, OpenIn(X))
<1>1. CASE hb = <<>>
  <2>1. 50000 <= Full
    BY DEF Full
  <2>2. /\ PerformanceScore(hb, OpenIn(X)) = 50000
        /\ PerformanceScore(hb, OpenIn(Y)) = 50000
    BY <1>1 DEF PerformanceScore
  <2> QED
    BY <2>1, <2>2, FullIsNat
<1>2. CASE hb # <<>>
  <2> DEFINE recent == Newest(hb, QueueWindow)
             pen == QueuePenalty(recent)
             sig == SignalPenalty(recent)
             x == AtMost(20000, 10000 * OpenIn(X)["performance"])
             y == AtMost(20000, 10000 * OpenIn(Y)["performance"])
             p == Full - pen - sig - x
             q == Full - pen - sig - y
  <2>1. recent \in Seq(BeatRow) /\ recent # <<>>
    BY <1>2, NewestFits, FleetConstants
  <2>2. pen \in Int /\ sig \in Int
    BY <2>1, PenaltyTypes
  <2>3. x \in Int /\ y \in Int /\ x <= y
    <3> DEFINE c == 20000
               k == 10000
    <3>1. c \in Int /\ k \in Nat /\ {"performance"} \subseteq Categories
      BY CategoryNames
    <3>2. /\ x = AtMost(c, k * OpenIn(X)["performance"])
          /\ y = AtMost(c, k * OpenIn(Y)["performance"])
      OBVIOUS
    <3> HIDE DEF c, k, x, y
    <3> QED
      BY <3>1, <3>2, CostsGrow
  <2>4. /\ PerformanceScore(hb, OpenIn(X)) = Points(p)
        /\ PerformanceScore(hb, OpenIn(Y)) = Points(q)
    BY <1>2 DEF PerformanceScore
  <2> HIDE DEF pen, sig, x, y, recent
  <2>5. p \in Int /\ q \in Int /\ q <= p
    BY <2>2, <2>3, FullIsNat
  <2> HIDE DEF p, q
  <2> QED
    BY <2>4, <2>5, PointsInRange, PointsMonotone
<1> QED
  BY <1>1, <1>2

LEMMA SecurityFalls ==
  ASSUME NEW profile, NEW X, NEW Y, X \subseteq Y, IsFiniteSet(Y)
  PROVE  /\ SecurityScore(profile, OpenIn(X)) \in 0..Full
         /\ SecurityScore(profile, OpenIn(Y)) \in 0..Full
         /\ SecurityScore(profile, OpenIn(Y)) <= SecurityScore(profile, OpenIn(X))
<1> DEFINE x == AtMost(60000, 30000 * OpenIn(X)["security"])
           y == AtMost(60000, 30000 * OpenIn(Y)["security"])
           ota == Cost(~profile.ota, 10000)
           firmware == Cost(~profile.firmware, 5000)
           p == Full - ota - firmware - x
           q == Full - ota - firmware - y
<1>1. x \in Int /\ y \in Int /\ x <= y
  <2> DEFINE c == 60000
             k == 30000
  <2>1. c \in Int /\ k \in Nat /\ {"security"} \subseteq Categories
    BY CategoryNames
  <2>2. /\ x = AtMost(c, k * OpenIn(X)["security"])
        /\ y = AtMost(c, k * OpenIn(Y)["security"])
    OBVIOUS
  <2> HIDE DEF c, k, x, y
  <2> QED
    BY <2>1, <2>2, CostsGrow
<1>2. ota \in Int /\ firmware \in Int
  BY DEF Cost
<1>3. /\ SecurityScore(profile, OpenIn(X)) = Points(p)
      /\ SecurityScore(profile, OpenIn(Y)) = Points(q)
  BY DEF SecurityScore
<1> HIDE DEF x, y, ota, firmware
<1>4. p \in Int /\ q \in Int /\ q <= p
  BY <1>1, <1>2, FullIsNat
<1> HIDE DEF p, q
<1> QED
  BY <1>3, <1>4, PointsInRange, PointsMonotone

LEMMA MaintainabilityInRange ==
  ASSUME NEW profile
  PROVE  MaintainabilityScore(profile) \in 0..Full
<1>1. Full - Cost(~profile.ota, 20000) - Cost(~profile.uid, 15000)
      - Cost(~profile.hardware, 10000) \in Int
  BY FullIsNat DEF Cost
<1> QED
  BY <1>1, PointsInRange DEF MaintainabilityScore

\* A node that keeps silent is not the more responsive for it.
LEMMA ResponsivenessFalls ==
  ASSUME NEW seen \in LastSeen, NEW t \in Nat, NEW u \in Nat, t <= u
  PROVE  /\ ResponsivenessScore(seen, t) \in 0..Full
         /\ ResponsivenessScore(seen, u) \in 0..Full
         /\ ResponsivenessScore(seen, u) <= ResponsivenessScore(seen, t)
<1> DEFINE d == OfflineAfter
           Within(a) == (30000 * a) \div d
           After(a) == (30000 * (a - d)) \div d
           In(a) == Points(Full - Within(a))
           Out(a) == Points(30000 - After(a))
           Score(a) == IF a <= d THEN In(a) ELSE Out(a)
<1>0. d \in Nat \ {0} /\ 60000 <= Full /\ Full \in Nat
  BY FleetConstants, FullIsNat DEF Full
<1>1. CASE seen = Never
  BY <1>1, FullIsNat DEF ResponsivenessScore
<1>2. CASE seen # Never /\ seen = Garbled
  <2>1. /\ ResponsivenessScore(seen, t) = 50000 /\ ResponsivenessScore(seen, u) = 50000
        /\ 50000 \in 0..Full
    BY <1>2, FullIsNat DEF ResponsivenessScore, Full
  <2> QED
    BY <2>1
<1>3. CASE seen # Never /\ seen # Garbled
  <2> DEFINE a == t - seen
             b == u - seen
  <2>1. seen \in Int /\ a \in Int /\ b \in Int /\ a <= b
    BY <1>3, FleetConstants DEF LastSeen
  <2>2. ResponsivenessScore(seen, t) = Score(a) /\ ResponsivenessScore(seen, u) = Score(b)
    BY <1>3 DEF ResponsivenessScore
  <2> HIDE DEF a, b
  <2>3. /\ Within(a) \in Int /\ Within(b) \in Int /\ After(a) \in Int /\ After(b) \in Int
        /\ Within(a) <= Within(b) /\ After(a) <= After(b)
    <3>1. /\ 30000 * a \in Int /\ 30000 * b \in Int /\ 30000 * a <= 30000 * b
          /\ 30000 * (a - d) \in Int /\ 30000 * (b - d) \in Int
          /\ 30000 * (a - d) <= 30000 * (b - d)
      BY <1>0, <2>1
    <3> QED
      BY <1>0, <3>1, DivTypes, DivMonotone
  <2>4. a <= d => Within(a) <= 30000
    <3> SUFFICES ASSUME a <= d, ~(Within(a) <= 30000) PROVE FALSE
      OBVIOUS
    <3>1. d * Within(a) <= 30000 * a
      BY <1>0, <2>1, DivTypes
    <3> DEFINE w == Within(a)
    <3>2. w \in Int /\ w >= 30001 /\ d * w <= 30000 * a
      BY <2>3, <3>1
    <3> HIDE DEF w
    <3>3. d * w >= d * 30001
      BY <1>0, <3>2
    <3>4. 30000 * a <= 30000 * d
      BY <1>0, <2>1
    <3> QED
      BY <1>0, <2>1, <3>2, <3>3, <3>4
  <2>5. b > d => After(b) >= 0
    <3> SUFFICES ASSUME b > d, ~(After(b) >= 0) PROVE FALSE
      OBVIOUS
    <3> DEFINE w == After(b)
    <3>1. 30000 * (b - d) < d * w + d /\ w \in Int
      BY <1>0, <2>1, <2>3, DivTypes
    <3>2. w \in Int /\ w <= -1
      BY <3>1
    <3> HIDE DEF w
    <3>3. d * w <= d * (-1)
      BY <1>0, <3>2
    <3> QED
      BY <1>0, <2>1, <3>1, <3>2, <3>3
  <2> HIDE DEF Within, After
  <2>6. /\ In(a) \in 0..Full /\ In(b) \in 0..Full /\ Out(a) \in 0..Full /\ Out(b) \in 0..Full
        /\ In(b) <= In(a) /\ Out(b) <= Out(a)
    <3>1. /\ Full - Within(a) \in Int /\ Full - Within(b) \in Int
          /\ 30000 - After(a) \in Int /\ 30000 - After(b) \in Int
          /\ Full - Within(b) <= Full - Within(a) /\ 30000 - After(b) <= 30000 - After(a)
      BY <1>0, <2>3
    <3> QED
      BY <3>1, PointsInRange, PointsMonotone
  <2>7. a <= d /\ b > d => Out(b) <= In(a)
    <3> SUFFICES ASSUME a <= d, b > d PROVE Out(b) <= In(a)
      OBVIOUS
    <3>1. /\ 30000 - After(b) \in Int /\ Full - Within(a) \in Int
          /\ 30000 - After(b) <= Full - Within(a)
      BY <1>0, <2>3, <2>4, <2>5
    <3> QED
      BY <3>1, PointsMonotone
  <2> HIDE DEF In, Out
  <2> QED
    BY <1>0, <2>1, <2>2, <2>6, <2>7
<1> QED
  BY <1>1, <1>2, <1>3

-----------------------------------------------------------------------------
(* The scores of a node                                                     *)

Scores == {"reliability", "performance", "security", "maintainability", "responsiveness"}

LEMMA SubScoresFall ==
  ASSUME NEW n, NEW rows \in Seq(BeatRow), NEW X, NEW Y,
         AnomaliesRead(n, X) \subseteq AnomaliesRead(n, Y), IsFiniteSet(AnomaliesRead(n, Y)),
         NEW r \in NodeRow, NEW q \in NodeRow, q.seen = r.seen, NotBetter(r.status, q.status),
         NEW t \in Nat, NEW u \in Nat, t <= u
  PROVE  /\ DOMAIN SubScores(n, rows, X, r, t) = Scores
         /\ DOMAIN SubScores(n, rows, Y, q, u) = Scores
         /\ \A f \in Scores : /\ SubScores(n, rows, X, r, t)[f] \in 0..Full
                              /\ SubScores(n, rows, Y, q, u)[f] \in 0..Full
                              /\ SubScores(n, rows, Y, q, u)[f]
                                   <= SubScores(n, rows, X, r, t)[f]
<1> DEFINE hb == Newest(rows, RecentLimit)
           readX == AnomaliesRead(n, X)
           readY == AnomaliesRead(n, Y)
           a == SubScores(n, rows, X, r, t)
           b == SubScores(n, rows, Y, q, u)
<1>1. hb \in Seq(BeatRow)
  BY NewestFits, FleetConstants
<1>2. r.status \in Statuses /\ q.status \in Statuses /\ r.seen \in LastSeen
  BY DEF NodeRow
<1>3. /\ a = [reliability |-> ReliabilityScore(hb, OpenIn(readX), r.status),
              performance |-> PerformanceScore(hb, OpenIn(readX)),
              security |-> SecurityScore(Profile[n], OpenIn(readX)),
              maintainability |-> MaintainabilityScore(Profile[n]),
              responsiveness |-> ResponsivenessScore(r.seen, t)]
      /\ b = [reliability |-> ReliabilityScore(hb, OpenIn(readY), q.status),
              performance |-> PerformanceScore(hb, OpenIn(readY)),
              security |-> SecurityScore(Profile[n], OpenIn(readY)),
              maintainability |-> MaintainabilityScore(Profile[n]),
              responsiveness |-> ResponsivenessScore(r.seen, u)]
  BY DEF SubScores, OpenIn
<1>r. readX \subseteq readY /\ IsFiniteSet(readY)
  OBVIOUS
<1> HIDE DEF hb, readX, readY, a, b
<1>4. /\ a.reliability \in 0..Full /\ b.reliability \in 0..Full
      /\ b.reliability <= a.reliability
  BY <1>2, <1>3, <1>r, ReliabilityFalls
<1>5. /\ a.performance \in 0..Full /\ b.performance \in 0..Full
      /\ b.performance <= a.performance
  BY <1>1, <1>3, <1>r, PerformanceFalls
<1>6. /\ a.security \in 0..Full /\ b.security \in 0..Full /\ b.security <= a.security
  BY <1>3, <1>r, SecurityFalls
<1>7. /\ a.maintainability \in 0..Full /\ b.maintainability = a.maintainability
  BY <1>3, MaintainabilityInRange
<1>8. /\ a.responsiveness \in 0..Full /\ b.responsiveness \in 0..Full
      /\ b.responsiveness <= a.responsiveness
  BY <1>2, <1>3, ResponsivenessFalls
<1>9. DOMAIN a = Scores /\ DOMAIN b = Scores
  BY <1>3 DEF Scores
<1>10. \A f \in Scores : a[f] \in 0..Full /\ b[f] \in 0..Full /\ b[f] <= a[f]
  BY <1>4, <1>5, <1>6, <1>7, <1>8, FullIsNat DEF Scores
<1> QED
  BY <1>9, <1>10 DEF a, b

LEMMA SubScoresInRange ==
  ASSUME NEW n, NEW rows \in Seq(BeatRow), NEW X, IsFiniteSet(X), NEW r \in NodeRow,
         NEW t \in Nat
  PROVE  /\ DOMAIN SubScores(n, rows, X, r, t) = Scores
         /\ \A f \in Scores : SubScores(n, rows, X, r, t)[f] \in 0..Full
<1> DEFINE Y == X
           q == r
           u == t
<1>1. /\ AnomaliesRead(n, X) \subseteq AnomaliesRead(n, Y)
      /\ IsFiniteSet(AnomaliesRead(n, Y))
      /\ q \in NodeRow /\ q.seen = r.seen
      /\ NotBetter(r.status, q.status) /\ u \in Nat /\ t <= u
  BY ReadAreActive DEF NotBetter
<1> HIDE DEF Y, q, u
<1>2. /\ DOMAIN SubScores(n, rows, X, r, t) = Scores
      /\ DOMAIN SubScores(n, rows, Y, q, u) = Scores
      /\ \A f \in Scores : /\ SubScores(n, rows, X, r, t)[f] \in 0..Full
                           /\ SubScores(n, rows, Y, q, u)[f] \in 0..Full
                           /\ SubScores(n, rows, Y, q, u)[f]
                                <= SubScores(n, rows, X, r, t)[f]
  BY <1>1, SubScoresFall
<1> QED
  BY <1>2

\* The weights are not negative.
LEMMA WeightedMonotone ==
  ASSUME NEW a, NEW b, \A f \in Scores : a[f] \in 0..Full /\ b[f] \in 0..Full /\ b[f] <= a[f]
  PROVE  Weighted(b) <= Weighted(a)
<1> DEFINE Sum(s) == 35 * s.reliability + 25 * s.performance + 20 * s.security
                     + 10 * s.maintainability + 10 * s.responsiveness
<1>1. \A f \in Scores : a[f] \in Int /\ b[f] \in Int /\ b[f] <= a[f]
  BY FullIsNat
<1>2. Sum(a) \in Int /\ Sum(b) \in Int /\ Sum(b) <= Sum(a)
  BY <1>1 DEF Scores
<1>3. Weighted(a) = Sum(a) \div 100 /\ Weighted(b) = Sum(b) \div 100
  BY DEF Weighted
<1> HIDE DEF Sum
<1> QED
  BY <1>2, <1>3, DivMonotone

-----------------------------------------------------------------------------
(* The tables hold what their columns say.                                  *)

FleetTypeInv ==
    /\ clock \in 0..MaxClock
    /\ node \in [Nodes -> NodeRow]
    /\ beats \in [Nodes -> Seq(BeatRow)]
    /\ \A n \in Nodes : Len(beats[n]) <= KeepBeats
    /\ active \subseteq AnomalyRow /\ IsFiniteSet(active)

LEMMA FleetTypeInit ==
  ASSUME FleetInit
  PROVE  FleetTypeInv
<1>1. clock \in 0..MaxClock
  BY FleetConstants DEF FleetInit
<1>2. node \in [Nodes -> NodeRow]
  BY FleetConstants DEF FleetInit, NodeRow, LastSeen, Statuses
<1>3. beats \in [Nodes -> Seq(BeatRow)] /\ \A n \in Nodes : Len(beats[n]) <= KeepBeats
  BY FleetConstants DEF FleetInit
<1>4. active \subseteq AnomalyRow /\ IsFiniteSet(active)
  BY FS_EmptySet DEF FleetInit
<1> QED
  BY <1>1, <1>2, <1>3, <1>4 DEF FleetTypeInv

\* What a heartbeat adds, and what the trigger leaves.
BeatOf(b) == [at |-> clock, queue |-> b.queue, rssi |-> b.rssi]

LEMMA HeartbeatAppends ==
  ASSUME FleetTypeInv, NEW n \in Nodes, NEW b \in Beats, Heartbeat(n, b)
  PROVE  /\ BeatOf(b) \in BeatRow
         /\ beats' = [beats EXCEPT ![n] = Newest(Append(beats[n], BeatOf(b)), KeepBeats)]
         /\ beats'[n] \in Seq(BeatRow) /\ Len(beats'[n]) <= KeepBeats
         /\ Len(beats'[n]) < KeepBeats => beats'[n] = Append(beats[n], BeatOf(b))
<1>1. b.queue \in Int /\ b.rssi \in Int \cup {Unknown}
  BY FleetConstants
<1>2. BeatOf(b) \in BeatRow
  BY <1>1 DEF BeatOf, BeatRow, FleetTypeInv
<1>3. beats' = [beats EXCEPT ![n] = Newest(Append(beats[n], BeatOf(b)), KeepBeats)]
  BY DEF Heartbeat, Trimmed, BeatOf
<1>4. beats'[n] = Newest(Append(beats[n], BeatOf(b)), KeepBeats)
  BY <1>3 DEF FleetTypeInv
<1> DEFINE s == Append(beats[n], BeatOf(b))
<1>5. s \in Seq(BeatRow) /\ Len(s) \in Nat
  BY <1>2 DEF FleetTypeInv
<1> HIDE DEF s
<1>6. /\ Newest(s, KeepBeats) \in Seq(BeatRow) /\ Len(Newest(s, KeepBeats)) <= KeepBeats
      /\ Len(s) > KeepBeats => Len(Newest(s, KeepBeats)) = KeepBeats
      /\ Len(s) <= KeepBeats => Newest(s, KeepBeats) = s
  BY <1>5, FleetConstants, NewestFits
<1>7. KeepBeats \in Nat
  BY FleetConstants
<1> QED
  BY <1>2, <1>3, <1>4, <1>5, <1>6, <1>7 DEF s

LEMMA FleetTypeStep ==
  ASSUME FleetTypeInv, [FleetNext]_fleetVars
  PROVE  FleetTypeInv'
<1>1. ASSUME NEW n \in Nodes, NEW b \in Beats, Heartbeat(n, b) PROVE FleetTypeInv'
  <2>1. clock' = clock /\ active' = active
    BY <1>1 DEF Heartbeat
  <2>2. node' \in [Nodes -> NodeRow]
    BY <1>1 DEF Heartbeat, FleetTypeInv, NodeRow, LastSeen, Statuses
  <2>3. /\ beats' \in [Nodes -> Seq(BeatRow)]
        /\ \A m \in Nodes : Len(beats'[m]) <= KeepBeats
    <3>1. /\ beats' = [beats EXCEPT ![n] = Newest(Append(beats[n], BeatOf(b)), KeepBeats)]
          /\ beats'[n] \in Seq(BeatRow) /\ Len(beats'[n]) <= KeepBeats
      BY <1>1, HeartbeatAppends
    <3>2. \A m \in Nodes : m # n => beats'[m] = beats[m]
      BY <3>1 DEF FleetTypeInv
    <3> QED
      BY <3>1, <3>2 DEF FleetTypeInv
  <2> QED
    BY <2>1, <2>2, <2>3 DEF FleetTypeInv
<1>2. ASSUME NEW n \in Nodes, NEW st \in Statuses, SetStatus(n, st) PROVE FleetTypeInv'
  BY <1>2 DEF SetStatus, FleetTypeInv, NodeRow
<1>3. ASSUME NEW a \in Anomalies, OpenAnomaly(a) PROVE FleetTypeInv'
  <2> DEFINE row == [node |-> a.node, category |-> a.category, rank |-> a.rank, at |-> clock]
  <2>1. active' = active \cup {row} /\ clock' = clock /\ node' = node /\ beats' = beats
    BY <1>3 DEF OpenAnomaly
  <2>2. row \in AnomalyRow
    BY FleetConstants DEF AnomalyRow, FleetTypeInv
  <2> HIDE DEF row
  <2>3. IsFiniteSet(active \cup {row})
    BY FS_AddElement DEF FleetTypeInv
  <2> QED
    BY <2>1, <2>2, <2>3 DEF FleetTypeInv
<1>c. ASSUME NEW a \in active, CloseAnomaly(a) PROVE FleetTypeInv'
  <2>1. active' = active \ {a} /\ clock' = clock /\ node' = node /\ beats' = beats
    BY <1>c DEF CloseAnomaly
  <2>2. IsFiniteSet(active \ {a})
    BY FS_Subset DEF FleetTypeInv
  <2> QED
    BY <2>1, <2>2 DEF FleetTypeInv
<1>4. CASE Tick
  BY <1>4, FleetConstants DEF Tick, tables, FleetTypeInv
<1>5. CASE \/ StartAggregation \/ NextNode \/ ReadDay \/ WriteDay \/ ScoreNode \/ ServiceRaises
           \/ UNCHANGED fleetVars
  <2>1. UNCHANGED <<clock, node, beats, active>>
    BY <1>5 DEF StartAggregation, NextNode, ReadDay, WriteDay, ScoreNode,
                ServiceRaises, fleetVars, tables
  <2> QED
    BY <2>1 DEF FleetTypeInv
<1> QED
  BY <1>1, <1>2, <1>3, <1>c, <1>4, <1>5 DEF FleetNext

\* The tables hold what their columns allow, and every score of every node is one
\* the CHECK clauses accept (compute_node_score, trim_heartbeats).
THEOREM FleetTypeCorrect == FleetSpec => []FleetTypeOK
<1>1. FleetInit => FleetTypeInv
  BY FleetTypeInit
<1>2. FleetTypeInv /\ [FleetNext]_fleetVars => FleetTypeInv'
  BY FleetTypeStep
<1>3. FleetTypeInv => FleetTypeOK
  <2> SUFFICES ASSUME FleetTypeInv PROVE FleetTypeOK
    OBVIOUS
  <2>1. ASSUME NEW n \in Nodes
        PROVE  /\ node[n].status \in Statuses
               /\ node[n].seen \in 0..MaxClock \cup {Never, Garbled}
               /\ \A f \in DOMAIN SubScores(n, beats[n], active, node[n], clock) :
                     SubScores(n, beats[n], active, node[n], clock)[f] \in 0..Full
    <3>1. node[n] \in NodeRow /\ beats[n] \in Seq(BeatRow) /\ clock \in Nat
      BY FleetConstants DEF FleetTypeInv
    <3>2. IsFiniteSet(active)
      BY DEF FleetTypeInv
    <3>3. /\ DOMAIN SubScores(n, beats[n], active, node[n], clock) = Scores
          /\ \A f \in Scores : SubScores(n, beats[n], active, node[n], clock)[f] \in 0..Full
      BY <3>1, <3>2, SubScoresInRange
    <3> QED
      BY <3>1, <3>3 DEF NodeRow, LastSeen
  <2> QED
    BY <2>1 DEF FleetTypeInv, FleetTypeOK, AnomalyRow
<1> QED
  BY <1>1, <1>2, <1>3, PTL DEF FleetSpec

\* An anomaly that a score read is read again, at a node that has the same active
\* anomalies as before or no more than a score reads.
LEMMA ReadsGrow ==
  ASSUME FleetTypeInv, FleetTypeInv', active \subseteq active', NEW n \in Nodes,
         \/ ActiveAt(n, active') = ActiveAt(n, active)
         \/ Cardinality(ActiveAt(n, active')) <= AnomalyLimit
  PROVE  AnomaliesRead(n, active) \subseteq AnomaliesRead(n, active')
<1>1. CASE ActiveAt(n, active') = ActiveAt(n, active)
  BY <1>1 DEF AnomaliesRead
<1>2. CASE Cardinality(ActiveAt(n, active')) <= AnomalyLimit
  <2>1. active' \in SUBSET AnomalyRow /\ IsFiniteSet(active') /\ IsFiniteSet(active)
    BY DEF FleetTypeInv
  <2>2. AnomaliesRead(n, active') = ActiveAt(n, active')
    BY <1>2, <2>1, FewAreAllRead
  <2>3. AnomaliesRead(n, active) \subseteq ActiveAt(n, active)
    BY <2>1, ReadAreActive
  <2>4. ActiveAt(n, active) \subseteq ActiveAt(n, active')
    BY DEF ActiveAt
  <2> QED
    BY <2>2, <2>3, <2>4
<1> QED
  BY <1>1, <1>2

\* Nothing that only gets worse, be it the passing of time, an anomaly or a status
\* on its way to 'offline', raises a node's score, but for an anomaly that pushes
\* another out of those the score reads (compute_node_score, get_anomalies).
THEOREM BadNewsLowersScores == FleetSpec => BadNewsNeverImproves
<1> DEFINE Bad == /\ agg' = agg /\ beats' = beats
                  /\ active \subseteq active'
                  /\ \A n \in Nodes : /\ node'[n].seen = node[n].seen
                                      /\ NotBetter(node[n].status, node'[n].status)
           Falls == \A n \in Nodes :
                       \/ Weighted(SubScores(n, beats'[n], active', node'[n], clock'))
                          <= Weighted(SubScores(n, beats[n], active, node[n], clock))
                       \/ /\ ActiveAt(n, active') # ActiveAt(n, active)
                          /\ Cardinality(ActiveAt(n, active')) > AnomalyLimit
<1>1. FleetInit => FleetTypeInv
  BY FleetTypeInit
<1>2. FleetTypeInv /\ [FleetNext]_fleetVars => FleetTypeInv'
  BY FleetTypeStep
<1>3. FleetTypeInv /\ FleetTypeInv' /\ [FleetNext]_fleetVars => [Bad => Falls]_fleetVars
  <2> SUFFICES ASSUME FleetTypeInv, FleetTypeInv', [FleetNext]_fleetVars, Bad, NEW n \in Nodes,
                      \/ ActiveAt(n, active') = ActiveAt(n, active)
                      \/ ~(Cardinality(ActiveAt(n, active')) > AnomalyLimit)
               PROVE  Weighted(SubScores(n, beats'[n], active', node'[n], clock'))
                      <= Weighted(SubScores(n, beats[n], active, node[n], clock))
    OBVIOUS
  <2>1. clock \in Nat /\ clock' \in Nat /\ clock <= clock'
    <3>1. clock \in Nat
      BY FleetConstants DEF FleetTypeInv
    <3>2. clock' = clock \/ clock' = clock + 1
      BY DEF FleetNext, Heartbeat, SetStatus, OpenAnomaly, CloseAnomaly, StartAggregation,
             NextNode, ReadDay, WriteDay, ScoreNode, ServiceRaises, Tick, fleetVars, tables
    <3> QED
      BY <3>1, <3>2
  <2>2. /\ node[n] \in NodeRow /\ node'[n] \in NodeRow /\ node'[n].seen = node[n].seen
        /\ beats[n] \in Seq(BeatRow) /\ beats'[n] = beats[n] /\ IsFiniteSet(active')
    BY DEF FleetTypeInv
  <2>3. NotBetter(node[n].status, node'[n].status)
    OBVIOUS
  <2>4. AnomaliesRead(n, active) \subseteq AnomaliesRead(n, active')
    <3>1. Cardinality(ActiveAt(n, active')) \in Nat /\ AnomalyLimit \in Nat
      BY <2>2, ReadAreActive, FS_CardinalityType, FleetConstants
    <3>2. \/ ActiveAt(n, active') = ActiveAt(n, active)
          \/ Cardinality(ActiveAt(n, active')) <= AnomalyLimit
      BY <3>1
    <3> QED
      BY <3>2, ReadsGrow
  <2>5. IsFiniteSet(AnomaliesRead(n, active'))
    BY <2>2, ReadAreActive
  <2> DEFINE a == SubScores(n, beats[n], active, node[n], clock)
             b == SubScores(n, beats[n], active', node'[n], clock')
  <2>6. \A f \in Scores : a[f] \in 0..Full /\ b[f] \in 0..Full /\ b[f] <= a[f]
    BY <2>1, <2>2, <2>3, <2>4, <2>5, SubScoresFall
  <2> HIDE DEF a, b
  <2>7. Weighted(b) <= Weighted(a)
    BY <2>6, WeightedMonotone
  <2> QED
    BY <2>2, <2>7 DEF a, b
<1>4. [][Bad => Falls]_fleetVars => BadNewsNeverImproves
  BY DEF BadNewsNeverImproves
<1> QED
  BY <1>1, <1>2, <1>3, <1>4, PTL DEF FleetSpec

-----------------------------------------------------------------------------
(* The daily summaries                                                      *)

\* As long as a node has fewer rows than the trigger leaves, a day has at least as
\* many rows as its summary counted, and a record that is about to be written lies
\* between the two.
Counted(n, d) ==
    /\ summary[<<n, d>>] # None =>
          /\ summary[<<n, d>>].count \in Nat
          /\ summary[<<n, d>>].count <= Cardinality(RowsOf(n, d))
    /\ agg.step = "write" /\ agg.node = n /\ agg.day = d /\ agg.record # None =>
          /\ agg.record.count \in Nat
          /\ agg.record.count <= Cardinality(RowsOf(n, d))
          /\ summary[<<n, d>>] # None => summary[<<n, d>>].count <= agg.record.count

ShrinkInv ==
    /\ DOMAIN summary = Nodes \X Days
    /\ DOMAIN agg = {"step", "todo", "node", "day", "today", "record"}
    /\ \A n \in Nodes, d \in Days : Len(beats[n]) < KeepBeats => Counted(n, d)

LEMMA RowsAreFinite ==
  ASSUME FleetTypeInv, NEW n \in Nodes, NEW d
  PROVE  /\ RowsOf(n, d) \subseteq 1..Len(beats[n]) /\ IsFiniteSet(RowsOf(n, d))
         /\ Cardinality(RowsOf(n, d)) \in Nat
<1>1. RowsOf(n, d) \subseteq 1..Len(beats[n]) /\ Len(beats[n]) \in Nat
  BY DEF FleetTypeInv, RowsOf
<1>2. IsFiniteSet(1..Len(beats[n]))
  BY <1>1, FS_Interval
<1> QED
  BY <1>1, <1>2, FS_Subset, FS_CardinalityType

LEMMA ShrinkInit ==
  ASSUME FleetInit
  PROVE  ShrinkInv
<1>1. DOMAIN agg = {"step", "todo", "node", "day", "today", "record"} /\ agg.step = "idle"
  BY DEF FleetInit, Resting
<1>2. summary = [s \in Nodes \X Days |-> None]
  BY DEF FleetInit
<1> QED
  BY <1>1, <1>2 DEF ShrinkInv, Counted

\* While a node stays below its limit the rows of a day only grow.
LEMMA RowsOnlyGrow ==
  ASSUME FleetTypeInv, FleetTypeInv', NEW n \in Nodes, NEW b \in Beats,
         Heartbeat(n, b), NEW m \in Nodes, NEW d, Len(beats'[m]) < KeepBeats
  PROVE  /\ Len(beats[m]) < KeepBeats
         /\ Cardinality(RowsOf(m, d)) <= Cardinality(RowsOf(m, d)')
<1>1. CASE m # n
  <2>1. beats'[m] = beats[m]
    BY <1>1 DEF Heartbeat, FleetTypeInv
  <2>2. RowsOf(m, d)' = RowsOf(m, d)
    BY <2>1 DEF RowsOf
  <2>3. Cardinality(RowsOf(m, d)) \in Nat
    BY RowsAreFinite
  <2> QED
    BY <2>1, <2>2, <2>3
<1>2. CASE m = n
  <2>1. BeatOf(b) \in BeatRow /\ beats'[m] = Append(beats[m], BeatOf(b))
    BY <1>2, HeartbeatAppends
  <2>2. beats[m] \in Seq(BeatRow)
    BY DEF FleetTypeInv
  <2>3. /\ Len(beats'[m]) = Len(beats[m]) + 1 /\ Len(beats[m]) \in Nat
        /\ \A i \in 1..Len(beats[m]) : beats'[m][i] = beats[m][i]
    BY <2>1, <2>2
  <2>4. DOMAIN beats[m] = 1..Len(beats[m]) /\ DOMAIN beats'[m] = 1..Len(beats'[m])
    BY <2>2 DEF FleetTypeInv
  <2>5. RowsOf(m, d) \subseteq RowsOf(m, d)'
    BY <2>3, <2>4 DEF RowsOf
  <2>6. IsFiniteSet(RowsOf(m, d)')
    <3>1. RowsOf(m, d)' \subseteq 1..Len(beats'[m])
      BY <2>4 DEF RowsOf
    <3>2. IsFiniteSet(1..Len(beats'[m]))
      BY <2>3, FS_Interval
    <3> QED
      BY <3>1, <3>2, FS_Subset
  <2>7. Cardinality(RowsOf(m, d)) <= Cardinality(RowsOf(m, d)')
    BY <2>5, <2>6, FS_Subset
  <2>8. KeepBeats \in Nat
    BY FleetConstants
  <2> QED
    BY <2>3, <2>7, <2>8
<1> QED
  BY <1>1, <1>2

LEMMA ShrinkStep ==
  ASSUME ShrinkInv, FleetTypeInv, FleetTypeInv', [FleetNext]_fleetVars
  PROVE  ShrinkInv'
<1>1. ASSUME NEW n \in Nodes, NEW b \in Beats, Heartbeat(n, b) PROVE ShrinkInv'
  <2>1. summary' = summary /\ agg' = agg
    BY <1>1 DEF Heartbeat
  <2>2. ASSUME NEW m \in Nodes, NEW d \in Days, Len(beats'[m]) < KeepBeats
        PROVE  Counted(m, d)'
    <3> DEFINE old == Cardinality(RowsOf(m, d))
               new == Cardinality(RowsOf(m, d)')
    <3>1. Len(beats[m]) < KeepBeats /\ old <= new
      BY <1>1, <2>2, RowsOnlyGrow
    <3>2. old \in Nat /\ new \in Nat
      <4>1. RowsOf(m, d)' \subseteq 1..Len(beats'[m]) /\ Len(beats'[m]) \in Nat
        BY DEF FleetTypeInv, RowsOf
      <4>2. IsFiniteSet(1..Len(beats'[m]))
        BY <4>1, FS_Interval
      <4> QED
        BY <4>1, <4>2, FS_Subset, FS_CardinalityType, RowsAreFinite
    <3>3. Counted(m, d)
      BY <3>1 DEF ShrinkInv
    <3>4. /\ summary[<<m, d>>] # None =>
                summary[<<m, d>>].count \in Nat /\ summary[<<m, d>>].count <= old
          /\ agg.step = "write" /\ agg.node = m /\ agg.day = d /\ agg.record # None =>
                /\ agg.record.count \in Nat
                /\ agg.record.count <= old
                /\ summary[<<m, d>>] # None => summary[<<m, d>>].count <= agg.record.count
      BY <3>3 DEF Counted
    <3>5. new = Cardinality(RowsOf(m, d))'
      OBVIOUS
    <3> HIDE DEF old, new
    <3>6. /\ summary[<<m, d>>] # None =>
                summary[<<m, d>>].count \in Nat /\ summary[<<m, d>>].count <= new
          /\ agg.step = "write" /\ agg.node = m /\ agg.day = d /\ agg.record # None =>
                /\ agg.record.count \in Nat
                /\ agg.record.count <= new
                /\ summary[<<m, d>>] # None => summary[<<m, d>>].count <= agg.record.count
      BY <3>1, <3>2, <3>4
    <3> QED
      BY <2>1, <3>5, <3>6 DEF Counted
  <2> QED
    BY <2>1, <2>2 DEF ShrinkInv
<1>2. ASSUME beats' = beats, summary' = summary, agg'.step # "write" \/ agg' = agg,
             DOMAIN agg' = DOMAIN agg
      PROVE  ShrinkInv'
  <2>1. \A m, d : RowsOf(m, d)' = RowsOf(m, d)
    BY <1>2 DEF RowsOf
  <2> QED
    BY <1>2, <2>1 DEF ShrinkInv, Counted
<1>3. ASSUME NEW n \in Nodes, NEW st \in Statuses, SetStatus(n, st) PROVE ShrinkInv'
  BY <1>2, <1>3 DEF SetStatus
<1>4. ASSUME NEW a \in Anomalies, OpenAnomaly(a) PROVE ShrinkInv'
  BY <1>2, <1>4 DEF OpenAnomaly
<1>c. ASSUME NEW a \in active, CloseAnomaly(a) PROVE ShrinkInv'
  BY <1>2, <1>c DEF CloseAnomaly
<1>5. CASE StartAggregation
  <2>1. agg'.step # "write" /\ DOMAIN agg' = DOMAIN agg
    BY <1>5 DEF StartAggregation, Resting, ShrinkInv
  <2> QED
    BY <1>2, <1>5, <2>1 DEF StartAggregation, tables
<1>6. CASE NextNode
  <2>1. agg'.step # "write" /\ DOMAIN agg' = DOMAIN agg
    BY <1>6 DEF NextNode, Resting, ShrinkInv
  <2> QED
    BY <1>2, <1>6, <2>1 DEF NextNode, tables
<1>7. CASE ReadDay
  <2>1. beats' = beats /\ summary' = summary
    BY <1>7 DEF ReadDay, tables
  <2>2. /\ DOMAIN agg' = DOMAIN agg /\ agg'.node = agg.node /\ agg'.day = agg.day
        /\ agg'.record = DayRecord(agg.node, agg.day)
    BY <1>7 DEF ReadDay, ShrinkInv
  <2>3. \A m, d : RowsOf(m, d)' = RowsOf(m, d)
    BY <2>1 DEF RowsOf
  <2>4. ASSUME NEW m \in Nodes, NEW d \in Days, Len(beats'[m]) < KeepBeats
        PROVE  Counted(m, d)'
    <3>1. /\ summary[<<m, d>>] # None =>
                summary[<<m, d>>].count \in Nat
                /\ summary[<<m, d>>].count <= Cardinality(RowsOf(m, d))
      BY <2>1, <2>4 DEF ShrinkInv, Counted
    <3>2. agg.node = m /\ agg.day = d /\ agg'.record # None =>
             agg'.record.count = Cardinality(RowsOf(m, d))
      BY <2>2 DEF DayRecord
    <3>3. Cardinality(RowsOf(m, d)) \in Nat
      BY RowsAreFinite
    <3> DEFINE k == Cardinality(RowsOf(m, d))
    <3>4. k = Cardinality(RowsOf(m, d))' /\ k \in Nat
      BY <2>3, <3>3
    <3> HIDE DEF k
    <3>5. /\ summary[<<m, d>>] # None =>
                summary[<<m, d>>].count \in Nat /\ summary[<<m, d>>].count <= k
          /\ agg'.node = m /\ agg'.day = d /\ agg'.record # None =>
                /\ agg'.record.count \in Nat /\ agg'.record.count <= k
                /\ summary[<<m, d>>] # None => summary[<<m, d>>].count <= agg'.record.count
      BY <2>2, <3>1, <3>2, <3>4 DEF k
    <3> QED
      BY <2>1, <3>4, <3>5 DEF Counted
  <2> QED
    BY <2>1, <2>2, <2>4 DEF ShrinkInv
<1>8. CASE WriteDay
  <2>1. /\ beats' = beats /\ agg.step = "write"
        /\ summary' = IF agg.record = None THEN summary
                      ELSE [summary EXCEPT ![<<agg.node, agg.day>>] = agg.record]
    BY <1>8 DEF WriteDay, tables
  <2>2. agg'.step # "write" /\ DOMAIN agg' = DOMAIN agg /\ DOMAIN summary' = DOMAIN summary
    BY <1>8, <2>1 DEF WriteDay, ShrinkInv
  <2>3. \A m, d : RowsOf(m, d)' = RowsOf(m, d)
    BY <2>1 DEF RowsOf
  <2>4. ASSUME NEW m \in Nodes, NEW d \in Days, Len(beats'[m]) < KeepBeats
        PROVE  Counted(m, d)'
    <3>1. Counted(m, d)
      BY <2>1, <2>4 DEF ShrinkInv
    <3>2. \/ summary'[<<m, d>>] = summary[<<m, d>>]
          \/ /\ summary'[<<m, d>>] = agg.record
             /\ agg.node = m /\ agg.day = d /\ agg.record # None
      BY <2>1 DEF ShrinkInv
    <3>3. summary'[<<m, d>>] # None =>
             /\ summary'[<<m, d>>].count \in Nat
             /\ summary'[<<m, d>>].count <= Cardinality(RowsOf(m, d))
      BY <2>1, <3>1, <3>2 DEF Counted
    <3> QED
      BY <2>2, <2>3, <3>3 DEF Counted
  <2> QED
    BY <2>2, <2>4 DEF ShrinkInv
<1>9. CASE ScoreNode
  <2>1. agg'.step # "write" /\ DOMAIN agg' = DOMAIN agg
    BY <1>9 DEF ScoreNode, ShrinkInv
  <2> QED
    BY <1>2, <1>9, <2>1 DEF ScoreNode, tables
<1>10. CASE ServiceRaises
  <2>1. agg'.step # "write" /\ DOMAIN agg' = DOMAIN agg
    BY <1>10 DEF ServiceRaises, ShrinkInv
  <2> QED
    BY <1>2, <1>10, <2>1 DEF ServiceRaises, tables
<1>11. CASE Tick
  BY <1>2, <1>11 DEF Tick, tables
<1>12. CASE UNCHANGED fleetVars
  BY <1>2, <1>12 DEF fleetVars, tables
<1> QED
  BY <1>1, <1>3, <1>4, <1>c, <1>5, <1>6, <1>7, <1>8, <1>9, <1>10, <1>11, <1>12 DEF FleetNext

\* The hourly aggregation never counts fewer heartbeats than it did, unless the trim
\* trigger has begun to delete them (run_daily_aggregation, upsert_daily_summary).
THEOREM SummariesOnlyShrinkByTrimming == FleetSpec => ShrinksOnlyByTrimming
<1> DEFINE Shrinks == \A s \in Nodes \X Days :
                         summary[s] # None /\ summary'[s].count < summary[s].count
                         => Len(beats[s[1]]) = KeepBeats
<1>1. FleetInit => FleetTypeInv /\ ShrinkInv
  BY FleetTypeInit, ShrinkInit
<1>2. FleetTypeInv /\ ShrinkInv /\ [FleetNext]_fleetVars => (FleetTypeInv /\ ShrinkInv)'
  BY FleetTypeStep, ShrinkStep
<1>3. FleetTypeInv /\ ShrinkInv /\ [FleetNext]_fleetVars => [Shrinks]_fleetVars
  <2> SUFFICES ASSUME FleetTypeInv, ShrinkInv, [FleetNext]_fleetVars,
                      NEW n \in Nodes, NEW d \in Days,
                      summary[<<n, d>>] # None,
                      summary'[<<n, d>>].count < summary[<<n, d>>].count
               PROVE  Len(beats[n]) = KeepBeats
    <3>1. Shrinks <=> \A n \in Nodes, d \in Days :
             summary[<<n, d>>] # None /\ summary'[<<n, d>>].count < summary[<<n, d>>].count
             => Len(beats[n]) = KeepBeats
      OBVIOUS
    <3> HIDE DEF Shrinks
    <3> QED
      BY <3>1
  <2> SUFFICES ASSUME Len(beats[n]) < KeepBeats PROVE FALSE
    <3>1. Len(beats[n]) \in Nat /\ Len(beats[n]) <= KeepBeats /\ KeepBeats \in Nat
      BY FleetConstants DEF FleetTypeInv
    <3> QED
      BY <3>1
  <2>1. Counted(n, d)
    BY DEF ShrinkInv
  <2>2. \/ summary' = summary
        \/ /\ agg.step = "write" /\ agg.record # None
           /\ summary' = [summary EXCEPT ![<<agg.node, agg.day>>] = agg.record]
    BY DEF FleetNext, Heartbeat, SetStatus, OpenAnomaly, CloseAnomaly, StartAggregation,
           NextNode, ReadDay,
           WriteDay, ScoreNode, ServiceRaises, Tick, fleetVars, tables
  <2>3. \/ summary'[<<n, d>>] = summary[<<n, d>>]
        \/ /\ summary'[<<n, d>>] = agg.record
           /\ agg.step = "write" /\ agg.record # None /\ agg.node = n /\ agg.day = d
    BY <2>2 DEF ShrinkInv
  <2>4. summary[<<n, d>>].count \in Nat /\ summary'[<<n, d>>].count \in Nat
        /\ summary[<<n, d>>].count <= summary'[<<n, d>>].count
    BY <2>1, <2>3 DEF Counted
  <2> QED
    BY <2>4
<1>4. [][Shrinks]_fleetVars => ShrinksOnlyByTrimming
  BY DEF ShrinksOnlyByTrimming
<1> QED
  BY <1>1, <1>2, <1>3, <1>4, PTL DEF FleetSpec
=============================================================================
