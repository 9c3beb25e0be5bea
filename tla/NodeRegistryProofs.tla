----------------------- MODULE NodeRegistryProofs ------------------------
(***************************************************************************)
(* Theorems about NodeRegistry for any number of nodes, any time-out and   *)
(* any period of the watcher.                                              *)
(***************************************************************************)
EXTENDS NodeRegistry, TLAPS

\* The part of RegistryAssumption that the arithmetic rests on.
LEMMA ConstantTypes ==
    /\ OfflineAfter \in Nat /\ Period \in Nat /\ Period > 0
    /\ MaxClock \in Nat /\ MaxClock > OfflineAfter /\ MaxRestarts \in Nat
    /\ "online" \in Reports /\ "absent" \notin Reports /\ MaxAhead \in Nat
  BY RegistryAssumption DEF RegistryAssumption

\* Whatever a node writes into ts_utc is one of the model's stamps, and so is
\* the gateway's own clock.
LEMMA StampType ==
  ASSUME TypeOK
  PROVE  Stamps \subseteq Stamp /\ clock \in Stamp
  BY ConstantTypes DEF TypeOK, Stamp, Stamps, Empty, Garbled, LongAgo

-----------------------------------------------------------------------------
(* Type correctness                                                         *)

\* Every step of the registry keeps the types.
LEMMA TypeInductive == TypeOK /\ [Next]_vars => TypeOK'
<1> SUFFICES ASSUME TypeOK, [Next]_vars PROVE TypeOK'
  OBVIOUS
<1> USE ConstantTypes DEF TypeOK, Status, Message, table, watcher
<1>1. ASSUME NEW n \in Nodes, NEW k \in {"hello", "heartbeat", "state"},
             NEW s \in Reports, NEW t \in Stamps, Send(n, k, s, t)
      PROVE  TypeOK'
  BY <1>1, StampType DEF Send
<1>2. ASSUME NEW m \in net, Lose(m) PROVE TypeOK'
  BY <1>2 DEF Lose
<1>3. ASSUME NEW m \in net, UpsertNode(m) PROVE TypeOK'
  BY <1>3 DEF UpsertNode, Received, Write
<1>4. ASSUME NEW m \in net, UpdateHeartbeat(m) PROVE TypeOK'
  BY <1>4 DEF UpdateHeartbeat, Received, Write
<1>5. ASSUME NEW m \in net, HandleState(m) PROVE TypeOK'
  BY <1>5, StampType DEF HandleState, Received, Write
<1>6. CASE Scan
  BY <1>6 DEF Scan
<1>7. CASE MarkOffline
  BY <1>7 DEF MarkOffline
<1>8. CASE Start \/ Stop
  BY <1>8 DEF Start, Stop
<1>9. CASE Tick
  BY <1>9 DEF Tick
<1>10. CASE UNCHANGED vars
  BY <1>10 DEF vars
<1> QED
  BY <1>1, <1>2, <1>3, <1>4, <1>5, <1>6, <1>7, <1>8, <1>9, <1>10 DEF Next

\* Every reachable state of the registry is well typed.
THEOREM RegistryTypeCorrect == Spec => []TypeOK
<1>1. Init => TypeOK
  BY ConstantTypes DEF Init, TypeOK, Status, Stamp, Empty, LongAgo
<1> QED
  BY <1>1, TypeInductive, PTL DEF Spec

-----------------------------------------------------------------------------
(* What a scan knows                                                        *)

\* No message is heard in the future.  Between the SELECT and the UPDATE, a node
\* outside late has given a sign in time or has no stamp; while the watcher
\* sleeps, so had what the last scan (at wake - Period) left alone.
ScanInv ==
    /\ \A n \in Nodes : heard[n] <= clock
    /\ late # {} => pc = "marking"
    /\ OnlyRacedIsOverwritten
    /\ pc = "marking" =>
          \A n \in Nodes :
              status[n] \notin {"absent", "retired"} /\ n \notin late /\ seen[n] # Empty =>
              clock - LastSign(n) <= OfflineAfter
    /\ pc = "asleep" =>
          /\ clock <= wake /\ wake - Period <= clock
          /\ \A n \in Nodes :
                 status[n] \notin {"absent", "retired", "offline"} /\ seen[n] # Empty =>
                 wake - Period - LastSign(n) <= OfflineAfter

\* LastSign is no earlier than either of what it compares.
LEMMA LastSignBounds ==
  ASSUME TypeOK, NEW n \in Nodes
  PROVE  LastSign(n) \in Int /\ LastSign(n) >= heard[n] /\ LastSign(n) >= seen[n]
<1>1. heard[n] \in Int /\ seen[n] \in Int
  BY ConstantTypes DEF TypeOK, Stamp, Empty
<1> QED
  BY <1>1 DEF LastSign

\* A handler's write keeps ScanInv: the node has been heard from now.
LEMMA WriteKeepsScanInv ==
  ASSUME TypeOK, TypeOK', ScanInv, NEW m \in net, NEW s, NEW t,
         Write(m, s, t), Received(m)
  PROVE  ScanInv'
<1> USE ConstantTypes
<1>1. m.node \in Nodes /\ UNCHANGED <<clock, pc, wake, late>>
  BY DEF TypeOK, Message, Received, watcher
<1>2. \A n \in Nodes : \/ n = m.node /\ heard'[n] = clock
                       \/ UNCHANGED <<heard[n], seen[n], status[n], LastSign(n)>>
  BY <1>1 DEF Write, TypeOK, LastSign
<1>3. clock \in Int /\ wake \in Int /\ OfflineAfter \in Nat
  BY DEF TypeOK
<1>4. OnlyRacedIsOverwritten'
  BY <1>1, <1>2 DEF ScanInv, OnlyRacedIsOverwritten, TimedOut, TypeOK
<1>5. \A n \in Nodes : heard'[n] <= clock
  BY <1>2, <1>3 DEF ScanInv
<1>6. \A n \in Nodes : LastSign(n)' \in Int /\ LastSign(n)' >= heard'[n]
  <2> SUFFICES ASSUME NEW n \in Nodes
               PROVE  LastSign(n)' \in Int /\ LastSign(n)' >= heard'[n]
    OBVIOUS
  <2>1. heard'[n] \in Int /\ seen'[n] \in Int
    BY DEF TypeOK, Stamp, Empty
  <2> QED
    BY <2>1 DEF LastSign
<1>7. ASSUME pc = "marking", NEW n \in Nodes, status'[n] \notin {"absent", "retired"},
             n \notin late, seen'[n] # Empty
      PROVE  clock - LastSign(n)' <= OfflineAfter
  <2>1. CASE heard'[n] = clock
    BY <1>3, <1>6, <2>1
  <2>2. CASE UNCHANGED <<heard[n], seen[n], status[n], LastSign(n)>>
    BY <1>7, <2>2 DEF ScanInv
  <2> QED
    BY <1>2, <2>1, <2>2
<1>8. ASSUME pc = "asleep", NEW n \in Nodes, seen'[n] # Empty,
             status'[n] \notin {"absent", "retired", "offline"}
      PROVE  wake - Period - LastSign(n)' <= OfflineAfter
  <2>1. CASE heard'[n] = clock
    BY <1>3, <1>6, <1>8, <2>1 DEF ScanInv
  <2>2. CASE UNCHANGED <<heard[n], seen[n], status[n], LastSign(n)>>
    BY <1>8, <2>2 DEF ScanInv
  <2> QED
    BY <1>2, <2>1, <2>2
<1> QED
  BY <1>1, <1>4, <1>5, <1>7, <1>8 DEF ScanInv

\* No handler of a message disturbs ScanInv.
LEMMA HandlersKeepScanInv ==
  ASSUME TypeOK, TypeOK', ScanInv, NEW m \in net,
         UpsertNode(m) \/ UpdateHeartbeat(m) \/ HandleState(m) \/ Lose(m)
  PROVE  ScanInv'
<1>2. CASE UpsertNode(m)
  BY <1>2, WriteKeepsScanInv DEF UpsertNode
<1>3. ASSUME UNCHANGED <<clock, table, watcher>>
      PROVE  ScanInv'
  BY <1>3 DEF ScanInv, OnlyRacedIsOverwritten, TimedOut, LastSign, table, watcher
<1>4. CASE UpdateHeartbeat(m)
  BY <1>3, <1>4, WriteKeepsScanInv DEF UpdateHeartbeat, Received
<1>5. CASE HandleState(m)
  BY <1>3, <1>5, WriteKeepsScanInv DEF HandleState, Received
<1>6. CASE Lose(m)
  BY <1>3, <1>6 DEF Lose
<1> QED
  BY <1>2, <1>4, <1>5, <1>6

\* Every step keeps ScanInv.
LEMMA ScanInductive ==
  ASSUME TypeOK, TypeOK', ScanInv, [Next]_vars
  PROVE  ScanInv'
<1> USE ConstantTypes DEF table, watcher
<1>0. clock \in Int /\ wake \in Int /\ \A n \in Nodes : heard[n] \in Int /\ seen[n] \in Int
  BY DEF TypeOK, Stamp, Empty
<1>1. ASSUME UNCHANGED <<clock, table, watcher>> PROVE ScanInv'
  BY <1>1 DEF ScanInv, OnlyRacedIsOverwritten, TimedOut, LastSign
<1>2. CASE Scan
  <2>1. UNCHANGED <<clock, status, seen, heard, wake>>
    BY <1>2 DEF Scan
  <2>2. CASE pc' = "dead" /\ late' = {}
    BY <2>1, <2>2 DEF ScanInv, OnlyRacedIsOverwritten
  <2>3. CASE pc' = "marking" /\ late' = {n \in Nodes : InService(n) /\ TimedOut(n)}
    <3>1. OnlyRacedIsOverwritten'
      BY <2>1, <2>3 DEF OnlyRacedIsOverwritten, InService, TimedOut
    <3>2. ASSUME NEW n \in Nodes, status[n] \notin {"absent", "retired"}, n \notin late',
                 seen[n] # Empty
          PROVE  clock - LastSign(n) <= OfflineAfter
      <4>1. clock - seen[n] <= OfflineAfter
        BY <1>0, <2>3, <3>2 DEF InService, TimedOut
      <4> QED
        BY <1>0, <4>1, LastSignBounds
    <3> QED
      BY <2>1, <2>3, <3>1, <3>2 DEF ScanInv, LastSign
  <2> QED
    BY <1>2, <2>2, <2>3 DEF Scan
<1>3. CASE MarkOffline
  <2>1. /\ UNCHANGED <<clock, seen, heard>>
        /\ pc' = "asleep" /\ wake' = clock + Period /\ late' = {} /\ pc = "marking"
    BY <1>3 DEF MarkOffline
  <2>2. \A n \in Nodes : status'[n] = IF n \in late THEN "offline" ELSE status[n]
    BY <1>3 DEF MarkOffline
  <2>3. \A n \in Nodes :
            status'[n] \notin {"absent", "retired", "offline"} /\ seen[n] # Empty =>
            clock - LastSign(n) <= OfflineAfter
    BY <2>1, <2>2 DEF ScanInv
  <2>4. clock <= wake' /\ wake' - Period = clock
    BY <1>0, <2>1
  <2> QED
    BY <1>0, <2>1, <2>3, <2>4 DEF ScanInv, OnlyRacedIsOverwritten, LastSign
<1>4. CASE Start
  BY <1>4 DEF Start, ScanInv, OnlyRacedIsOverwritten
<1>5. CASE Stop
  BY <1>5 DEF Stop, ScanInv, OnlyRacedIsOverwritten
<1>6. CASE Tick
  <2>1. /\ UNCHANGED <<status, seen, heard, pc, wake, late>>
        /\ clock' = clock + 1 /\ pc # "marking" /\ ~Due
    BY <1>6 DEF Tick
  <2>2. late = {}
    BY <2>1 DEF ScanInv
  <2>3. pc = "asleep" => clock' <= wake /\ wake - Period <= clock'
    BY <1>0, <2>1 DEF Due, ScanInv
  <2>4. \A n \in Nodes : heard[n] <= clock'
    BY <1>0, <2>1 DEF ScanInv
  <2> QED
    BY <2>1, <2>2, <2>3, <2>4 DEF ScanInv, OnlyRacedIsOverwritten, LastSign
<1>7. ASSUME NEW n \in Nodes, NEW k \in {"hello", "heartbeat", "state"},
             NEW s \in Reports, NEW t \in Stamps, Send(n, k, s, t)
      PROVE  ScanInv'
  BY <1>1, <1>7 DEF Send
<1>8. CASE UNCHANGED vars
  BY <1>1, <1>8 DEF vars
<1> QED
  BY <1>2, <1>3, <1>4, <1>5, <1>6, <1>7, <1>8, HandlersKeepScanInv DEF Next

\* ScanInv holds in every reachable state.
LEMMA ScanCorrect == Spec => [](TypeOK /\ ScanInv)
<1>1. Init => ScanInv
  BY ConstantTypes DEF Init, ScanInv, OnlyRacedIsOverwritten, LongAgo
<1>2. TypeOK /\ TypeOK' /\ ScanInv /\ [Next]_vars => ScanInv'
  BY ScanInductive
<1> QED
  BY <1>1, <1>2, RegistryTypeCorrect, PTL DEF Spec

\* Nothing but a message in the same scan is ever overwritten by the watcher.
THEOREM WatcherOverwritesOnlyRaces == Spec => []OnlyRacedIsOverwritten
<1>1. ScanInv => OnlyRacedIsOverwritten
  BY DEF ScanInv
<1> QED
  BY <1>1, ScanCorrect, PTL

-----------------------------------------------------------------------------
(* Silence                                                                  *)

\* A node in service with a stamp that has given no sign of life for the time-out
\* and one period is offline while the watcher lives, for every time-out, period
\* and number of nodes, and whatever stamps the nodes send.
THEOREM SilentNodesGoOffline == Spec => []SilentIsOffline
<1>1. TypeOK /\ ScanInv => SilentIsOffline
  <2> SUFFICES ASSUME TypeOK, ScanInv, pc = "asleep", NEW n \in Nodes,
                      status[n] \notin {"absent", "retired"}, seen[n] # Empty,
                      status[n] # "offline"
               PROVE  ~(clock - LastSign(n) > OfflineAfter + Period)
    BY DEF SilentIsOffline
  <2>1. clock <= wake /\ wake - Period - LastSign(n) <= OfflineAfter
    BY DEF ScanInv
  <2>2. clock \in Int /\ wake \in Int /\ LastSign(n) \in Int
    BY LastSignBounds DEF TypeOK
  <2> QED
    BY <2>1, <2>2, ConstantTypes
<1> QED
  BY <1>1, ScanCorrect, PTL
=============================================================================
