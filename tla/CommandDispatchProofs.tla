---------------------- MODULE CommandDispatchProofs ----------------------
(***************************************************************************)
(* Theorems about CommandDispatch for any number of commands, nodes and    *)
(* poll requests.                                                          *)
(***************************************************************************)
EXTENDS CommandDispatch, TLAPS

(***************************************************************************)
(* One poll request at a time and node, and no node that both polls and    *)
(* subscribes: the deployment the polling protocol is made for.            *)
(***************************************************************************)
OnePollPerNode == \A p, q \in Pollers : PollerNode[p] = PollerNode[q] => p = q
SeparateTransports == MqttNodes \cap PollNodes = {}

\* The part of CommandAssumption that gives the constants their types.
LEMMA ConstantTypes ==
    /\ Target \in [Commands -> Nodes]
    /\ PollerNode \in [Pollers -> PollNodes]
    /\ NoCommand \notin Commands
    /\ Outcomes \cap {"absent", "queued", "pending"} = {}
    /\ MaxClock \in Nat /\ MaxRestarts \in Nat
  BY CommandAssumption DEF CommandAssumption

-----------------------------------------------------------------------------
(* Type correctness                                                         *)

\* Every reachable state of the dispatch model is well typed.
THEOREM TypeCorrect == Spec => []TypeOK
<1> USE ConstantTypes
<1>1. Init => TypeOK
  <2> SUFFICES ASSUME Init PROVE TypeOK
    OBVIOUS
  <2>1. row \in [Commands -> Status] /\ poll \in [Pollers -> {IdlePoll} \cup BusyPoll]
    BY DEF Init, Status
  <2>2. /\ sender \in [Commands -> {"idle", "checked", "inserted", "accepted",
                                   "refused", "failed"}]
        /\ outcomes \in [Commands -> SUBSET Outcomes]
    BY DEF Init
  <2>3. /\ clock \in 0..MaxClock /\ restarts \in 0..MaxRestarts
        /\ issued \in [Commands -> 0..MaxClock]
    BY DEF Init
  <2>4. /\ known \subseteq Nodes /\ cmdIn \subseteq Commands
        /\ inbox \subseteq Commands /\ results \subseteq Result
        /\ client \in BOOLEAN
    BY DEF Init
  <2> QED
    BY <2>1, <2>2, <2>3, <2>4 DEF TypeOK
<1>2. TypeOK /\ [Next]_vars => TypeOK'
  <2> SUFFICES ASSUME TypeOK, [Next]_vars PROVE TypeOK'
    OBVIOUS
  <2> USE DEF TypeOK, Status, gatewayVars, nodeVars
  <2>1. ASSUME NEW n \in Nodes, UpsertNode(n) PROVE TypeOK'
    BY <2>1 DEF UpsertNode
  <2>2. CASE Tick
    BY <2>2 DEF Tick
  <2>3. ASSUME NEW c \in Commands, SendCommand(c) PROVE TypeOK'
    BY <2>3 DEF SendCommand
  <2>4. ASSUME NEW c \in Commands, CreateCommand(c) PROVE TypeOK'
    BY <2>4 DEF CreateCommand
  <2>5. ASSUME NEW c \in Commands, PublishCommand(c) PROVE TypeOK'
    BY <2>5 DEF PublishCommand, Brokered
  <2>6. ASSUME NEW c \in Commands, LoseCommand(c) PROVE TypeOK'
    BY <2>6 DEF LoseCommand
  <2>7. ASSUME NEW c \in Commands, NEW o \in Outcomes, OnMqttMessage(c, o)
        PROVE TypeOK'
    BY <2>7 DEF OnMqttMessage, AfterDelivery, Result
  <2>8. ASSUME NEW c \in Commands, OnUnparsedMessage(c) PROVE TypeOK'
    BY <2>8 DEF OnUnparsedMessage, AfterDelivery, Result
  <2>9. ASSUME NEW r \in results, LoseResult(r) PROVE TypeOK'
    BY <2>9 DEF LoseResult
  <2>10. ASSUME NEW r \in results, UpsertCommandResult(r) PROVE TypeOK'
    <3>1. r.cmd \in Commands => r.status \in Outcomes
      BY DEF Result
    <3>2. row' \in [Commands -> Status]
      BY <2>10, <3>1 DEF UpsertCommandResult, Recorded
    <3> QED
      BY <2>10, <3>2 DEF UpsertCommandResult
  <2>11. ASSUME NEW p \in Pollers, NEW c \in Commands, PollSelect(p, c)
         PROVE TypeOK'
    BY <2>11 DEF PollSelect, BusyPoll
  <2>12. ASSUME NEW p \in Pollers, PollMarkPending(p) PROVE TypeOK'
    BY <2>12 DEF PollMarkPending, IdlePoll, BusyPoll
  <2>13. ASSUME NEW p \in Pollers, PollRespond(p) PROVE TypeOK'
    BY <2>13 DEF PollRespond, IdlePoll, BusyPoll
  <2>14. ASSUME NEW c \in Commands, NEW o \in Outcomes, HandleCommand(c, o)
         PROVE TypeOK'
    BY <2>14 DEF HandleCommand, Result
  <2>15. CASE BridgeConnect \/ BridgeLost
    BY <2>15 DEF BridgeConnect, BridgeLost
  <2>16. CASE Restart
    <3>1. restarts' \in 0..MaxRestarts
      BY <2>16 DEF Restart
    <3>2. sender' \in [Commands -> {"idle", "checked", "inserted", "accepted",
                                    "refused", "failed"}]
      BY <2>16 DEF Restart
    <3>3. poll' \in [Pollers -> {IdlePoll} \cup BusyPoll] /\ client' \in BOOLEAN
      BY <2>16 DEF Restart
    <3>4. UNCHANGED <<known, row, issued, clock, cmdIn, results, nodeVars>>
      BY <2>16 DEF Restart
    <3> QED
      BY <3>1, <3>2, <3>3, <3>4
  <2>17. CASE UNCHANGED vars
    BY <2>17 DEF vars
  <2> QED
    BY <2>1, <2>2, <2>3, <2>4, <2>5, <2>6, <2>7, <2>8, <2>9, <2>10, <2>11,
       <2>12, <2>13, <2>14, <2>15, <2>16, <2>17 DEF Next
<1> QED
  BY <1>1, <1>2, PTL DEF Spec

-----------------------------------------------------------------------------
(* A command under way has its row                                          *)

\* DispatchHasRow is not inductive alone: the insert and the SELECT of a poll
\* rely on the 404 test made before, which these two conjuncts carry along.
DispatchInv ==
    /\ DispatchHasRow
    /\ \A c \in Commands :
          row[c] # "absent" \/ sender[c] = "checked" => Target[c] \in known
    /\ \A c \in Commands : sender[c] \in {"idle", "checked"} => row[c] = "absent"

\* The cmd of a busy poll is a command, that of an idle poll is not.
LEMMA PollCommand ==
  ASSUME TypeOK, NEW p \in Pollers
  PROVE  /\ poll[p] = IdlePoll => poll[p].cmd \notin Commands
         /\ poll[p].pc \in {"selected", "marked"} => poll[p].cmd \in Commands
  BY ConstantTypes DEF TypeOK, IdlePoll, BusyPoll

\* Every step keeps TypeOK's companion DispatchInv: the 404 test precedes the
\* insert, and the insert precedes everything else.
LEMMA DispatchInductive == TypeOK /\ DispatchInv /\ [Next]_vars => DispatchInv'
<1> SUFFICES ASSUME TypeOK, DispatchInv, [Next]_vars PROVE DispatchInv'
  OBVIOUS
<1> USE ConstantTypes DEF DispatchInv, DispatchHasRow, UnderWay, gatewayVars, nodeVars
<1>1. ASSUME NEW n \in Nodes, UpsertNode(n) PROVE DispatchInv'
  BY <1>1 DEF UpsertNode
<1>2. CASE Tick \/ BridgeConnect \/ BridgeLost
  BY <1>2 DEF Tick, BridgeConnect, BridgeLost
<1>3. ASSUME NEW c \in Commands, SendCommand(c) PROVE DispatchInv'
  BY <1>3 DEF SendCommand, TypeOK
<1>4. ASSUME NEW c \in Commands, CreateCommand(c) PROVE DispatchInv'
  BY <1>4 DEF CreateCommand, TypeOK
<1>5. ASSUME NEW c \in Commands, PublishCommand(c) PROVE DispatchInv'
  BY <1>5 DEF PublishCommand, Brokered, TypeOK
<1>6. ASSUME NEW c \in Commands, LoseCommand(c) PROVE DispatchInv'
  BY <1>6 DEF LoseCommand
<1>7. ASSUME NEW c \in Commands, NEW o \in Outcomes, OnMqttMessage(c, o)
      PROVE DispatchInv'
  BY <1>7 DEF OnMqttMessage, AfterDelivery, TypeOK
<1>8. ASSUME NEW c \in Commands, OnUnparsedMessage(c) PROVE DispatchInv'
  BY <1>8 DEF OnUnparsedMessage, AfterDelivery
<1>9. ASSUME NEW r \in results, LoseResult(r) PROVE DispatchInv'
  BY <1>9 DEF LoseResult
<1>10. ASSUME NEW r \in results, UpsertCommandResult(r) PROVE DispatchInv'
  <2>1. \A c \in Commands : row'[c] = "absent" <=> row[c] = "absent"
    BY <1>10 DEF UpsertCommandResult, Recorded, Result, TypeOK
  <2> QED
    BY <1>10, <2>1 DEF UpsertCommandResult
<1>11. ASSUME NEW p \in Pollers, NEW c \in Commands, PollSelect(p, c)
       PROVE DispatchInv'
  <2>1. \A q \in Pollers : poll'[q].cmd = poll[q].cmd \/ poll'[q].cmd = c
    BY <1>11 DEF PollSelect, TypeOK
  <2> QED
    BY <1>11, <2>1 DEF PollSelect
<1>12. ASSUME NEW p \in Pollers, PollMarkPending(p) PROVE DispatchInv'
  <2>1. \A q \in Pollers : poll'[q].cmd = poll[q].cmd
    BY <1>12 DEF PollMarkPending, TypeOK
  <2>2. poll[p].cmd \in Commands
    BY <1>12, PollCommand DEF PollMarkPending
  <2>3. \A c \in Commands : row'[c] = "absent" <=> row[c] = "absent"
    BY <1>12, <2>2 DEF PollMarkPending, TypeOK
  <2> QED
    BY <1>12, <2>1, <2>3 DEF PollMarkPending
<1>13. ASSUME NEW p \in Pollers, PollRespond(p) PROVE DispatchInv'
  <2>1. poll[p].cmd \in Commands
    BY <1>13, PollCommand DEF PollRespond
  <2>2. \A q \in Pollers : poll'[q].cmd \in Commands => poll'[q].cmd = poll[q].cmd
    BY <1>13 DEF PollRespond, TypeOK, IdlePoll
  <2> QED
    BY <1>13, <2>1, <2>2 DEF PollRespond
<1>14. ASSUME NEW c \in Commands, NEW o \in Outcomes, HandleCommand(c, o)
       PROVE DispatchInv'
  BY <1>14 DEF HandleCommand, TypeOK
<1>15. CASE Restart
  <2>1. \A q \in Pollers : poll'[q].cmd \notin Commands
    BY <1>15 DEF Restart, IdlePoll
  <2> QED
    BY <1>15, <2>1 DEF Restart, TypeOK
<1>16. CASE UNCHANGED vars
  BY <1>16 DEF vars
<1> QED
  BY <1>1, <1>2, <1>3, <1>4, <1>5, <1>6, <1>7, <1>8, <1>9, <1>10, <1>11, <1>12,
     <1>13, <1>14, <1>15, <1>16 DEF Next

\* Nothing is under way when the gateway has never run.
LEMMA DispatchInit == Init => DispatchInv
  BY ConstantTypes DEF Init, DispatchInv, DispatchHasRow, UnderWay, IdlePoll

\* With any number of requests, polls, nodes, losses and restarts, a command on
\* its way has a committed row of a known node.
THEOREM CommandsUnderWayHaveRows == Spec => []DispatchHasRow
<1>1. DispatchInv => DispatchHasRow
  BY DEF DispatchInv
<1> QED
  BY <1>1, DispatchInit, TypeCorrect, DispatchInductive, PTL DEF Spec

-----------------------------------------------------------------------------
(* A recorded status comes from the node                                    *)

\* The results still on their way have to be reported ones as well.
ReportInv ==
    /\ RecordedWasReported
    /\ \A r \in results : r.cmd \in Commands => r.status \in outcomes[r.cmd]

\* Every step keeps ReportInv: a result and a final status come from a node.
LEMMA ReportInductive == TypeOK /\ ReportInv /\ [Next]_vars => ReportInv'
<1> SUFFICES ASSUME TypeOK, ReportInv, [Next]_vars PROVE ReportInv'
  OBVIOUS
<1> USE ConstantTypes DEF ReportInv, RecordedWasReported, gatewayVars, nodeVars
<1>1. ASSUME UNCHANGED <<row, outcomes>>, results' \subseteq results
      PROVE  ReportInv'
  BY <1>1
<1>2. ASSUME NEW c \in Commands, CreateCommand(c) PROVE ReportInv'
  BY <1>2 DEF CreateCommand, TypeOK
<1>3. ASSUME NEW c \in Commands, NEW o \in Outcomes,
             OnMqttMessage(c, o) \/ HandleCommand(c, o)
      PROVE  ReportInv'
  <2>1. /\ outcomes' = [outcomes EXCEPT ![c] = @ \cup {o}]
        /\ results' = results \cup {[cmd |-> c, status |-> o]}
        /\ UNCHANGED row
    BY <1>3 DEF OnMqttMessage, HandleCommand
  <2> QED
    BY <2>1 DEF TypeOK
<1>4. ASSUME NEW c \in Commands, OnUnparsedMessage(c) PROVE ReportInv'
  BY <1>4 DEF OnUnparsedMessage
<1>5. ASSUME NEW r \in results, UpsertCommandResult(r) PROVE ReportInv'
  BY <1>5 DEF UpsertCommandResult, Recorded, TypeOK
<1>6. ASSUME NEW p \in Pollers, PollMarkPending(p) PROVE ReportInv'
  BY <1>6 DEF PollMarkPending, TypeOK
<1>7. ASSUME NEW p \in Pollers, PollRespond(p) PROVE ReportInv'
  BY <1>7, <1>1 DEF PollRespond
<1>8. ASSUME NEW c \in Commands,
             SendCommand(c) \/ PublishCommand(c) \/ LoseCommand(c)
      PROVE  ReportInv'
  BY <1>8, <1>1 DEF SendCommand, PublishCommand, LoseCommand
<1>9. ASSUME NEW n \in Nodes, UpsertNode(n) PROVE ReportInv'
  BY <1>9, <1>1 DEF UpsertNode
<1>10. CASE Tick \/ BridgeConnect \/ BridgeLost \/ Restart \/ UNCHANGED vars
  BY <1>10, <1>1 DEF Tick, BridgeConnect, BridgeLost, Restart, vars
<1>11. ASSUME NEW r \in results, LoseResult(r) PROVE ReportInv'
  BY <1>11, <1>1 DEF LoseResult
<1>12. ASSUME NEW p \in Pollers, NEW c \in Commands, PollSelect(p, c)
       PROVE  ReportInv'
  BY <1>12, <1>1 DEF PollSelect
<1> QED
  BY <1>2, <1>3, <1>4, <1>5, <1>6, <1>7, <1>8, <1>9, <1>10, <1>11, <1>12 DEF Next

\* The commands table never shows a final status the node did not produce for
\* that command.
THEOREM RecordedStatusIsReported == Spec => []RecordedWasReported
<1>1. Init => ReportInv
  BY ConstantTypes DEF Init, ReportInv, RecordedWasReported
<1>2. ReportInv => RecordedWasReported
  BY DEF ReportInv
<1> QED
  BY <1>1, <1>2, TypeCorrect, ReportInductive, PTL DEF Spec

-----------------------------------------------------------------------------
(* Polled commands are not offered again once they are out                  *)

\* c is past the UPDATE of a poll: answered, at the node, run or reported.
HandedOut(c) ==
    \/ c \in inbox
    \/ outcomes[c] # {}
    \/ \E r \in results : r.cmd = c
    \/ \E p \in Pollers : poll[p].pc = "marked" /\ poll[p].cmd = c

OfferInv ==
    /\ \A c \in Polled : HandedOut(c) => row[c] \notin {"absent", "queued"}
    /\ cmdIn \cap Polled = {}
    /\ \A p \in Pollers : poll[p].cmd \in Commands =>
          Target[poll[p].cmd] = PollerNode[p]

\* Every step keeps OfferInv: past its UPDATE, a command is never queued again.
LEMMA OfferInductive ==
  ASSUME SeparateTransports, TypeOK, DispatchInv, OfferInv, [Next]_vars
  PROVE  OfferInv'
<1> USE ConstantTypes DEF OfferInv, Polled, HandedOut, gatewayVars, nodeVars
<1>1. ASSUME UNCHANGED <<row, outcomes, inbox, poll>>, results' \subseteq results,
             cmdIn' \subseteq cmdIn
      PROVE  OfferInv'
  BY <1>1
<1>2. ASSUME NEW c \in Commands, CreateCommand(c) PROVE OfferInv'
  <2>1. row[c] = "absent" /\ ~UnderWay(c)
    BY <1>2 DEF CreateCommand, DispatchInv, DispatchHasRow
  <2> QED
    BY <1>2, <2>1 DEF CreateCommand, UnderWay, TypeOK
<1>3. ASSUME NEW c \in Commands, PublishCommand(c) PROVE OfferInv'
  BY <1>3 DEF PublishCommand, Brokered, SeparateTransports
<1>4. ASSUME NEW c \in Commands, NEW o \in Outcomes, OnMqttMessage(c, o)
      PROVE  OfferInv'
  <2>1. c \notin Polled
    BY <1>4 DEF OnMqttMessage
  <2> QED
    BY <1>4, <2>1 DEF OnMqttMessage, AfterDelivery, TypeOK
<1>5. ASSUME NEW c \in Commands, NEW o \in Outcomes, HandleCommand(c, o)
      PROVE  OfferInv'
  BY <1>5 DEF HandleCommand, TypeOK
<1>6. ASSUME NEW c \in Commands, OnUnparsedMessage(c) PROVE OfferInv'
  BY <1>6 DEF OnUnparsedMessage, AfterDelivery
<1>7. ASSUME NEW r \in results, UpsertCommandResult(r) PROVE OfferInv'
  <2>1. \A c \in Commands : row'[c] = row[c] \/ row'[c] \in Outcomes
    BY <1>7 DEF UpsertCommandResult, Recorded, Result, TypeOK
  <2> QED
    BY <1>7, <2>1 DEF UpsertCommandResult
<1>8. ASSUME NEW p \in Pollers, NEW c \in Commands, PollSelect(p, c)
      PROVE  OfferInv'
  BY <1>8 DEF PollSelect, TypeOK
<1>9. ASSUME NEW p \in Pollers, PollMarkPending(p) PROVE OfferInv'
  <2>1. poll[p].cmd \in Commands
    BY <1>9, PollCommand DEF PollMarkPending
  <2>2. row' = [row EXCEPT ![poll[p].cmd] = "pending"]
    BY <1>9 DEF PollMarkPending
  <2>3. \A q \in Pollers : /\ poll'[q].cmd = poll[q].cmd
                           /\ q # p => poll'[q] = poll[q]
    BY <1>9 DEF PollMarkPending, TypeOK
  <2> QED
    BY <1>9, <2>1, <2>2, <2>3 DEF PollMarkPending, TypeOK
<1>10. ASSUME NEW p \in Pollers, PollRespond(p) PROVE OfferInv'
  <2>1. poll[p].cmd \in Commands /\ poll[p].pc = "marked"
    BY <1>10, PollCommand DEF PollRespond
  <2>2. \A q \in Pollers : poll'[q] = poll[q] \/ poll'[q] = IdlePoll
    BY <1>10 DEF PollRespond, TypeOK
  <2> QED
    BY <1>10, <2>1, <2>2 DEF PollRespond, IdlePoll
<1>11. CASE Restart
  BY <1>11 DEF Restart, IdlePoll
<1>12. ASSUME NEW c \in Commands, SendCommand(c) \/ LoseCommand(c) PROVE OfferInv'
  BY <1>12, <1>1 DEF SendCommand, LoseCommand
<1>13. ASSUME NEW n \in Nodes, UpsertNode(n) PROVE OfferInv'
  BY <1>13, <1>1 DEF UpsertNode
<1>14. CASE Tick \/ BridgeConnect \/ BridgeLost \/ UNCHANGED vars
  BY <1>14, <1>1 DEF Tick, BridgeConnect, BridgeLost, vars
<1>15. ASSUME NEW r \in results, LoseResult(r) PROVE OfferInv'
  BY <1>15, <1>1 DEF LoseResult
<1> QED
  BY <1>2, <1>3, <1>4, <1>5, <1>6, <1>7, <1>8, <1>9, <1>10, <1>11, <1>12, <1>13,
     <1>14, <1>15 DEF Next

\* OfferInv holds in every reachable state, if no node both polls and subscribes.
LEMMA OfferCorrect ==
  ASSUME SeparateTransports
  PROVE  Spec => [](TypeOK /\ DispatchInv /\ OfferInv)
<1>1. Init => OfferInv
  <2> SUFFICES ASSUME Init PROVE OfferInv
    OBVIOUS
  <2>1. \A p \in Pollers : poll[p].pc = "idle" /\ poll[p].cmd \notin Commands
    BY ConstantTypes DEF Init, IdlePoll
  <2>2. \A c \in Commands : ~HandedOut(c)
    BY <2>1 DEF Init, HandedOut
  <2> QED
    BY <2>1, <2>2 DEF Init, OfferInv, Polled
<1>2. TypeOK /\ DispatchInv /\ OfferInv /\ [Next]_vars => OfferInv'
  BY OfferInductive
<1> QED
  BY <1>1, <1>2, DispatchInit, TypeCorrect, DispatchInductive, PTL DEF Spec

\* Whatever the polls of a node overlap with: once the node has run a command,
\* no poll finds it queued.
THEOREM RunCommandsAreNotOfferedAgain ==
  ASSUME SeparateTransports
  PROVE  Spec => []RunIsNotOfferedAgain
<1>1. OfferInv => RunIsNotOfferedAgain
  BY DEF OfferInv, RunIsNotOfferedAgain, Polled, HandedOut
<1> QED
  BY <1>1, OfferCorrect, PTL

-----------------------------------------------------------------------------
(* One poll at a time: each command runs once and its result is final       *)

\* At most one of these holds for a polled command, and each one says what the
\* row and the node's record of the command are: a poll selected it, a poll is
\* about to answer with it, the node has it, or its one result is on the way.
FreshInv ==
    /\ \A p \in Pollers :
          /\ poll[p].pc = "selected" => row[poll[p].cmd] = "queued"
          /\ poll[p].pc = "marked" =>
                /\ row[poll[p].cmd] = "pending"
                /\ outcomes[poll[p].cmd] = {} /\ poll[p].cmd \notin inbox
    /\ \A c \in Polled : c \in inbox => row[c] = "pending" /\ outcomes[c] = {}
    /\ \A r \in results : r.cmd \in Polled =>
          row[r.cmd] = "pending" /\ outcomes[r.cmd] = {r.status}

\* Two busy polls hold different commands.
LEMMA PollsDiffer ==
  ASSUME OnePollPerNode, OfferInv, NEW p \in Pollers, NEW q \in Pollers,
         poll[p].cmd \in Commands, poll[p].cmd = poll[q].cmd
  PROVE  p = q
  BY DEF OnePollPerNode, OfferInv

\* The command a busy poll holds is a polled one.
LEMMA PollCommandPolled ==
  ASSUME OfferInv, NEW p \in Pollers, poll[p].cmd \in Commands
  PROVE  poll[p].cmd \in Polled
  BY ConstantTypes DEF OfferInv, Polled

\* Every step keeps the invariant of a node that waits for each answer.
LEMMA FreshInductive ==
  ASSUME OnePollPerNode, SeparateTransports, TypeOK, DispatchInv, OfferInv,
         FreshInv, [Next]_vars
  PROVE  FreshInv'
<1> USE ConstantTypes DEF FreshInv, gatewayVars, nodeVars
<1>1. ASSUME UNCHANGED <<row, outcomes, inbox, poll>>, results' \subseteq results
      PROVE  FreshInv'
  BY <1>1 DEF Polled
<1>2. ASSUME NEW c \in Commands, CreateCommand(c) PROVE FreshInv'
  <2>1. row[c] = "absent" /\ ~UnderWay(c)
    BY <1>2 DEF CreateCommand, DispatchInv, DispatchHasRow
  <2> QED
    BY <1>2, <2>1, PollCommand DEF CreateCommand, UnderWay, TypeOK, Polled
<1>3. ASSUME NEW c \in Commands, NEW o \in Outcomes, OnMqttMessage(c, o)
      PROVE  FreshInv'
  <2>1. c \notin Polled
    BY <1>3 DEF OnMqttMessage, OfferInv
  <2>2. \A p \in Pollers : poll[p].cmd # c
    BY <2>1, PollCommandPolled
  <2> QED
    BY <1>3, <2>1, <2>2 DEF OnMqttMessage, TypeOK, Polled
<1>4. ASSUME NEW c \in Commands, NEW o \in Outcomes, HandleCommand(c, o)
      PROVE  FreshInv'
  <2>1. \A p \in Pollers : poll[p].pc = "marked" => poll[p].cmd # c
    BY <1>4 DEF HandleCommand
  <2>2. c \in Polled => row[c] = "pending" /\ outcomes[c] = {}
    BY <1>4 DEF HandleCommand
  <2>3. \A r \in results : r.cmd \in Polled => r.cmd # c
    <3> SUFFICES ASSUME NEW r \in results, r.cmd \in Polled, r.cmd = c
                 PROVE  FALSE
      OBVIOUS
    <3>1. outcomes[c] = {r.status}
      OBVIOUS
    <3>2. outcomes[c] = {}
      BY <2>2
    <3> QED
      BY <3>1, <3>2
  <2> QED
    BY <1>4, <2>1, <2>2, <2>3 DEF HandleCommand, TypeOK, Polled
<1>5. ASSUME NEW c \in Commands, OnUnparsedMessage(c) PROVE FreshInv'
  BY <1>5 DEF OnUnparsedMessage, Polled
<1>6. ASSUME NEW r \in results, UpsertCommandResult(r) PROVE FreshInv'
  <2>1. \A c \in Commands : c # r.cmd => row'[c] = row[c]
    BY <1>6 DEF UpsertCommandResult, Recorded, TypeOK
  <2>2. r.cmd \in Polled => row[r.cmd] = "pending" /\ outcomes[r.cmd] = {r.status}
    OBVIOUS
  <2>3. \A p \in Pollers : poll[p].pc \in {"selected", "marked"} =>
           /\ poll[p].cmd \in Commands
           /\ poll[p].cmd # r.cmd
    BY <2>2, PollCommand, PollCommandPolled
  <2>4. r.cmd \in Polled => r.cmd \notin inbox
    BY <2>2
  <2>5. \A s \in results : s.cmd = r.cmd /\ r.cmd \in Polled => s = r
    <3> SUFFICES ASSUME NEW s \in results, s.cmd = r.cmd, r.cmd \in Polled
                 PROVE  s = r
      OBVIOUS
    <3>1. outcomes[r.cmd] = {s.status} /\ outcomes[r.cmd] = {r.status}
      OBVIOUS
    <3>2. s.status \in {r.status}
      <4>1. s.status \in {s.status}
        OBVIOUS
      <4> QED
        BY <3>1, <4>1
    <3>3. r \in Result /\ s \in Result
      BY DEF TypeOK
    <3> QED
      BY <3>2, <3>3 DEF Result
  <2> QED
    BY <1>6, <2>1, <2>3, <2>4, <2>5 DEF UpsertCommandResult, Polled, TypeOK
<1>7. ASSUME NEW p \in Pollers, NEW c \in Commands, PollSelect(p, c)
      PROVE  FreshInv'
  BY <1>7 DEF PollSelect, TypeOK, Polled
<1>8. ASSUME NEW p \in Pollers, PollMarkPending(p) PROVE FreshInv'
  <2> DEFINE d == poll[p].cmd
  <2>1. d \in Polled /\ d \in Commands /\ row[d] = "queued"
    BY <1>8, PollCommand, PollCommandPolled DEF PollMarkPending
  <2>2. ~HandedOut(d)
    BY <2>1 DEF OfferInv
  <2>3. \A q \in Pollers : q # p => poll[q].cmd # d
    BY <2>1, PollsDiffer
  <2>4. row' = [row EXCEPT ![d] = "pending"]
    BY <1>8 DEF PollMarkPending
  <2>5. \A q \in Pollers : /\ poll'[q].cmd = poll[q].cmd
                           /\ q # p => poll'[q] = poll[q]
    BY <1>8 DEF PollMarkPending, TypeOK
  <2>6. poll'[p].pc = "marked"
    BY <1>8 DEF PollMarkPending, TypeOK
  <2>7. UNCHANGED <<results, inbox, outcomes>>
    BY <1>8 DEF PollMarkPending
  <2>8. \A c : c # d => (c \in Commands => row'[c] = row[c])
    BY <2>4 DEF TypeOK
  <2>9. row'[d] = "pending"
    BY <2>1, <2>4 DEF TypeOK
  <2>10. \A q \in Pollers : poll[q].pc \in {"selected", "marked"} =>
             poll[q].cmd \in Commands
    BY PollCommand
  <2>11. d \notin inbox /\ outcomes[d] = {} /\ \A r \in results : r.cmd # d
    BY <2>1, <2>2 DEF HandedOut
  <2>12. poll'[p].cmd = d
    BY <2>5
  <2> HIDE DEF d
  <2>13. \A q \in Pollers :
            /\ poll'[q].pc = "selected" => row'[poll'[q].cmd] = "queued"
            /\ poll'[q].pc = "marked" =>
                  /\ row'[poll'[q].cmd] = "pending"
                  /\ outcomes'[poll'[q].cmd] = {} /\ poll'[q].cmd \notin inbox'
    <3> TAKE q \in Pollers
    <3>1. CASE q = p
      BY <3>1, <2>6, <2>7, <2>9, <2>11, <2>12
    <3>2. CASE q # p
      BY <3>2, <2>3, <2>5, <2>7, <2>8, <2>10
    <3> QED
      BY <3>1, <3>2
  <2>14. Polled \subseteq Commands
    BY DEF Polled
  <2>15. \A c \in Polled : c \in inbox' => row'[c] = "pending" /\ outcomes'[c] = {}
    BY <2>7, <2>8, <2>9, <2>14
  <2>16. \A r \in results' : r.cmd \in Polled =>
            row'[r.cmd] = "pending" /\ outcomes'[r.cmd] = {r.status}
    BY <2>7, <2>8, <2>9, <2>14
  <2>17. Polled' = Polled
    BY DEF Polled
  <2> QED
    BY <2>13, <2>15, <2>16, <2>17
<1>9. ASSUME NEW p \in Pollers, PollRespond(p) PROVE FreshInv'
  <2>1. poll[p].cmd \in Commands /\ poll[p].pc = "marked"
    BY <1>9, PollCommand DEF PollRespond
  <2>2. \A q \in Pollers : q # p => poll'[q] = poll[q] /\ poll[q].cmd # poll[p].cmd
    BY <1>9, <2>1, PollsDiffer DEF PollRespond, TypeOK
  <2>3. poll'[p].pc = "idle"
    BY <1>9 DEF PollRespond, TypeOK, IdlePoll
  <2>4. UNCHANGED <<row, outcomes, results>> /\ Polled' = Polled
    BY <1>9 DEF PollRespond, Polled
  <2>5. \A c \in inbox' : c \in inbox \/ c = poll[p].cmd
    BY <1>9 DEF PollRespond
  <2>6. row[poll[p].cmd] = "pending" /\ outcomes[poll[p].cmd] = {}
    BY <2>1
  <2>7. \A c \in Polled : c \in inbox' => row[c] = "pending" /\ outcomes[c] = {}
    BY <2>5, <2>6
  <2>8. \A q \in Pollers : poll'[q].pc = "marked" =>
           q # p /\ poll'[q] = poll[q] /\ poll[q].cmd \notin inbox'
    BY <2>2, <2>3, <2>5
  <2> QED
    BY <2>2, <2>3, <2>4, <2>7, <2>8
<1>10. CASE Restart
  BY <1>10 DEF Restart, IdlePoll, Polled
<1>11. ASSUME NEW c \in Commands,
              SendCommand(c) \/ PublishCommand(c) \/ LoseCommand(c)
       PROVE  FreshInv'
  BY <1>11, <1>1 DEF SendCommand, PublishCommand, LoseCommand
<1>12. ASSUME NEW n \in Nodes, UpsertNode(n) PROVE FreshInv'
  BY <1>12, <1>1 DEF UpsertNode
<1>13. CASE Tick \/ BridgeConnect \/ BridgeLost \/ UNCHANGED vars
  BY <1>13, <1>1 DEF Tick, BridgeConnect, BridgeLost, vars
<1>14. ASSUME NEW r \in results, LoseResult(r) PROVE FreshInv'
  BY <1>14, <1>1 DEF LoseResult
<1> QED
  BY <1>2, <1>3, <1>4, <1>5, <1>6, <1>7, <1>8, <1>9, <1>10, <1>11, <1>12, <1>13,
     <1>14 DEF Next

PolledInv == TypeOK /\ DispatchInv /\ OfferInv /\ FreshInv

\* The invariants of the polled commands hold in every reachable state.
LEMMA PolledCorrect ==
  ASSUME OnePollPerNode, SeparateTransports
  PROVE  Spec => []PolledInv
<1>1. Init => FreshInv
  BY DEF Init, FreshInv, IdlePoll
<1>2. TypeOK /\ DispatchInv /\ OfferInv /\ FreshInv /\ [Next]_vars => FreshInv'
  BY FreshInductive
<1> QED
  BY <1>1, <1>2, OfferCorrect, PTL DEF Spec, PolledInv

\* A node that waits for each poll's answer never races with itself: when the
\* UPDATE of a poll runs, the command is still queued and nobody has run it.
THEOREM SelectionsAreFresh ==
  ASSUME OnePollPerNode, SeparateTransports
  PROVE  Spec => []SelectionIsFresh
<1>1. PolledInv => SelectionIsFresh
  <2> SUFFICES ASSUME PolledInv, NEW p \in Pollers, poll[p].pc = "selected"
               PROVE  row[poll[p].cmd] = "queued" /\ outcomes[poll[p].cmd] = {}
    BY DEF SelectionIsFresh
  <2>1. row[poll[p].cmd] = "queued"
    BY DEF PolledInv, FreshInv
  <2>2. poll[p].cmd \in Polled
    BY PollCommand, PollCommandPolled DEF PolledInv
  <2> QED
    BY <2>1, <2>2 DEF PolledInv, OfferInv, HandedOut
<1> QED
  BY <1>1, PolledCorrect, PTL
-----------------------------------------------------------------------------
(* Refinement                                                               *)

\* The abstract state of the polled commands.
LifeStatus == [c \in Polled |-> row[c]]
LifeRan == [c \in Polled |-> outcomes[c]]

\* A step that leaves the rows and the outcomes of polled commands alone is a
\* stuttering step of CommandLifecycle.
LEMMA LifeStutter ==
  ASSUME \A c \in Polled : row'[c] = row[c] /\ outcomes'[c] = outcomes[c]
  PROVE  UNCHANGED <<LifeStatus, LifeRan>>
<1>1. Polled' = Polled
  BY DEF Polled
<1> QED
  BY <1>1 DEF LifeStatus, LifeRan

\* Every step of the handlers maps to a step of CommandLifecycle or to none.
LEMMA LifeStep ==
  ASSUME OnePollPerNode, SeparateTransports, PolledInv, [Next]_vars
  PROVE  Lifecycle!Next \/ UNCHANGED <<LifeStatus, LifeRan>>
<1> USE ConstantTypes DEF gatewayVars, nodeVars
<1> USE DEF PolledInv
<1>0. Polled' = Polled /\ Polled \subseteq Commands
  BY DEF Polled
<1>1. ASSUME UNCHANGED <<row, outcomes>>
      PROVE  UNCHANGED <<LifeStatus, LifeRan>>
  BY <1>1, LifeStutter
<1>2. ASSUME NEW c \in Commands, CreateCommand(c)
      PROVE  Lifecycle!Next \/ UNCHANGED <<LifeStatus, LifeRan>>
  <2>1. /\ row[c] = "absent" /\ UNCHANGED outcomes
        /\ row' = [row EXCEPT ![c] = "queued"]
    BY <1>2 DEF CreateCommand, DispatchInv, DispatchHasRow
  <2>2. CASE c \in Polled
    <3>1. LifeStatus' = [LifeStatus EXCEPT ![c] = "queued"]
      BY <1>0, <2>1, <2>2 DEF LifeStatus, TypeOK
    <3>2. LifeStatus[c] = "absent" /\ LifeRan' = LifeRan
      BY <1>0, <2>1, <2>2 DEF LifeStatus, LifeRan
    <3> QED
      BY <2>2, <3>1, <3>2
         DEF Lifecycle!Next, Lifecycle!Submit, LifeStatus, LifeRan
  <2>3. CASE c \notin Polled
    BY <1>0, <2>1, <2>3, LifeStutter DEF TypeOK
  <2> QED
    BY <2>2, <2>3
<1>3. ASSUME NEW c \in Commands, NEW o \in Outcomes, OnMqttMessage(c, o)
      PROVE  UNCHANGED <<LifeStatus, LifeRan>>
  <2>1. c \notin Polled
    BY <1>3 DEF OnMqttMessage, OfferInv
  <2> QED
    BY <1>0, <1>3, <2>1, LifeStutter DEF OnMqttMessage, TypeOK
<1>4. ASSUME NEW c \in Commands, NEW o \in Outcomes, HandleCommand(c, o)
      PROVE  Lifecycle!Next \/ UNCHANGED <<LifeStatus, LifeRan>>
  <2>1. c \in inbox /\ UNCHANGED row
        /\ outcomes' = [outcomes EXCEPT ![c] = @ \cup {o}]
    BY <1>4 DEF HandleCommand
  <2>2. CASE c \in Polled
    <3>1. row[c] = "pending" /\ outcomes[c] = {}
      BY <2>1, <2>2 DEF FreshInv
    <3>2. LifeRan' = [LifeRan EXCEPT ![c] = {o}]
      BY <1>0, <2>1, <2>2, <3>1 DEF LifeRan, TypeOK
    <3>3. /\ LifeStatus[c] = "pending" /\ LifeRan[c] = {}
          /\ LifeStatus' = LifeStatus
      BY <1>0, <2>1, <2>2, <3>1 DEF LifeStatus, LifeRan
    <3> QED
      BY <2>2, <3>2, <3>3
         DEF Lifecycle!Next, Lifecycle!Run, LifeStatus, LifeRan
  <2>3. CASE c \notin Polled
    BY <1>0, <2>1, <2>3, LifeStutter DEF TypeOK
  <2> QED
    BY <2>2, <2>3
<1>5. ASSUME NEW r \in results, UpsertCommandResult(r)
      PROVE  Lifecycle!Next \/ UNCHANGED <<LifeStatus, LifeRan>>
  <2>1. row' = Recorded(r) /\ UNCHANGED outcomes
    BY <1>5 DEF UpsertCommandResult
  <2>2. \A c \in Commands : c # r.cmd => row'[c] = row[c]
    BY <2>1 DEF Recorded
  <2>3. CASE r.cmd \in Polled /\ row'[r.cmd] # row[r.cmd]
    <3>1. row[r.cmd] = "pending" /\ outcomes[r.cmd] = {r.status}
      BY <2>3 DEF FreshInv
    <3>2. row'[r.cmd] = r.status
      BY <1>0, <2>1, <2>3 DEF Recorded
    <3>3. LifeStatus' = [LifeStatus EXCEPT ![r.cmd] = r.status]
      BY <1>0, <2>2, <2>3, <3>2 DEF LifeStatus, TypeOK
    <3>4. /\ LifeStatus[r.cmd] = "pending" /\ r.status \in LifeRan[r.cmd]
          /\ LifeRan' = LifeRan
      BY <1>0, <2>1, <2>3, <3>1 DEF LifeStatus, LifeRan
    <3> QED
      BY <2>3, <3>3, <3>4
         DEF Lifecycle!Next, Lifecycle!Record, LifeStatus, LifeRan
  <2>4. CASE r.cmd \notin Polled \/ row'[r.cmd] = row[r.cmd]
    BY <1>0, <2>1, <2>2, <2>4, LifeStutter
  <2> QED
    BY <2>3, <2>4
<1>6. ASSUME NEW p \in Pollers, PollMarkPending(p)
      PROVE  Lifecycle!Next \/ UNCHANGED <<LifeStatus, LifeRan>>
  <2> DEFINE d == poll[p].cmd
  <2>1. d \in Polled /\ row[d] = "queued"
    BY <1>6, PollCommand, PollCommandPolled DEF PollMarkPending, FreshInv
  <2>2. row' = [row EXCEPT ![d] = "pending"] /\ UNCHANGED outcomes
    BY <1>6 DEF PollMarkPending
  <2> HIDE DEF d
  <2>3. LifeStatus' = [LifeStatus EXCEPT ![d] = "pending"]
    BY <1>0, <2>1, <2>2 DEF LifeStatus, TypeOK
  <2>4. LifeStatus[d] = "queued" /\ LifeRan' = LifeRan
    BY <1>0, <2>1, <2>2 DEF LifeStatus, LifeRan
  <2> QED
    BY <2>1, <2>3, <2>4
       DEF Lifecycle!Next, Lifecycle!HandOut, LifeStatus, LifeRan
<1>7. ASSUME NEW c \in Commands,
             \/ SendCommand(c) \/ PublishCommand(c) \/ LoseCommand(c)
             \/ OnUnparsedMessage(c)
      PROVE  UNCHANGED <<row, outcomes>>
  BY <1>7 DEF SendCommand, PublishCommand, LoseCommand, OnUnparsedMessage
<1>8. ASSUME NEW p \in Pollers,
             (\E c \in Commands : PollSelect(p, c)) \/ PollRespond(p)
      PROVE  UNCHANGED <<row, outcomes>>
  BY <1>8 DEF PollSelect, PollRespond
<1>9. ASSUME NEW n \in Nodes, UpsertNode(n) PROVE UNCHANGED <<row, outcomes>>
  BY <1>9 DEF UpsertNode
<1>10. ASSUME NEW r \in results, LoseResult(r) PROVE UNCHANGED <<row, outcomes>>
  BY <1>10 DEF LoseResult
<1>11. ASSUME Tick \/ BridgeConnect \/ BridgeLost \/ Restart \/ UNCHANGED vars
       PROVE  UNCHANGED <<row, outcomes>>
  BY <1>11 DEF Tick, BridgeConnect, BridgeLost, Restart, vars
<1> QED
  BY <1>1, <1>2, <1>3, <1>4, <1>5, <1>6, <1>7, <1>8, <1>9, <1>10, <1>11 DEF Next

\* For nodes that poll, one request at a time, the gateway's handlers and the
\* node together implement CommandLifecycle.
THEOREM PollingImplementsLifecycle ==
  ASSUME OnePollPerNode, SeparateTransports
  PROVE  Spec => ImplementsLifecycle
<1>1. Init => Lifecycle!Init
  BY DEF Init, Lifecycle!Init, Polled
<1>2. PolledInv /\ [Next]_vars => [Lifecycle!Next]_<<LifeStatus, LifeRan>>
  BY LifeStep
<1> QED
  BY <1>1, <1>2, PolledCorrect, PTL
     DEF Spec, ImplementsLifecycle, Lifecycle!Spec, LifeStatus, LifeRan
=============================================================================
