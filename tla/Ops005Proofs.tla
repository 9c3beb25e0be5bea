---------------------------- MODULE Ops005Proofs ---------------------------
(***************************************************************************)
(* Theorems about Ops005 for any number of evaluators and commands, any    *)
(* thresholds of the rules and any number of messages, calls and faults.   *)
(***************************************************************************)
EXTENDS Ops005, SequenceTheorems, FiniteSetTheorems, TLAPS

Row == [rule : Rules, status : {"open", "acknowledged", "resolved"},
        by : {"analyze", "simulate"}, saw : Nat, reopened : BOOLEAN]

\* The part of the assumptions that the types rest on.
LEMMA ConstantTypes ==
    /\ MaxClock \in Nat /\ MaxMessages \in Nat /\ MaxEvals \in Nat
    /\ MaxOperations \in Nat /\ MaxFaults \in Nat
    /\ Beats \subseteq Beat
    /\ {"absent", "online", "degraded", "offline"} \subseteq Statuses
    /\ Reports \subseteq Statuses
    /\ NoMessage \notin Message
  BY OpsAssumption, NoMessageAssumption DEF OpsAssumption, Statuses

\* The rules that fire, one after the other, are a sequence of rules.
LEMMA FindingsType ==
  ASSUME NEW now \in Times
  PROVE  Findings(now) \in Seq(Rules)
<1>1. \A rule \in Rules : \A fires : If(rule, fires) \in Seq(Rules)
  BY DEF If
<1>2. \A s, t \in Seq(Rules) : s \o t \in Seq(Rules)
  BY ConcatProperties
<1>3. {"A-001", "A-002", "A-003", "A-004", "A-005"} \subseteq Rules
  BY DEF Rules
<1> QED
  BY <1>1, <1>2, <1>3 DEF Findings

\* What an evaluation holds while it is at work.
Working(v) ==
    /\ v \in Evaluation
    /\ v.pc = "idle" => v = Idle
    /\ v.op = "none" => v = Idle
    /\ v.pc \in {"look", "insert"} => v.todo # <<>>
    /\ v.pc \in {"heal", "executed", "failed"} => v.op = "analyze" /\ v.found # <<>>

\* An evaluation goes on with what it has, or is over.
LEMMA ContinueType ==
  ASSUME NEW v \in Evaluation, v.op # "none"
  PROVE  /\ Working(Continue(v))
         /\ \/ Continue(v) = Idle /\ (v.op = "simulate" \/ v.found = <<>>)
            \/ /\ Continue(v).found = v.found /\ Continue(v).op = v.op
               /\ Continue(v).todo = v.todo
               /\ Continue(v).pc \in {"look", "heal"}
<1>1. Idle \in Evaluation /\ Working(Idle)
  BY DEF Idle, Evaluation, Working
<1> QED
  BY <1>1 DEF Continue, Evaluation, Working, Idle

-----------------------------------------------------------------------------
(* Type correctness                                                         *)

\* TypeOK in the parts that the actions change.
NodeType ==
    /\ clock \in Times
    /\ status \in Statuses
    /\ seen \in Times
    /\ beats \in Seq([at : Times, beat : Beats])
    /\ fleet \in Seq([event : {"node_online", "node_offline"}, at : Times])

CommandType ==
    command \in [Commands ->
        [status : {"none", "queued", "executed", "timeout", "retired"},
         issued : Times, completed : Times]]

GatewayType ==
    /\ bridge \in [msg : Message \cup {NoMessage}, before : Statuses]
    /\ alive \in BOOLEAN /\ late \in BOOLEAN

OpsType ==
    /\ eval \in [Evaluators -> Evaluation]
    /\ \A e \in Evaluators : eval[e].pc = "idle" => eval[e] = Idle
    /\ rows \in Seq(Row)
    /\ actions \in Seq([anomaly : DOMAIN rows,
                        status : {"executed", "failed", "cancelled"}])
    /\ cut \subseteq DOMAIN rows

CountType ==
    count \in [messages : 0..MaxMessages, evals : 0..MaxEvals,
               operations : 0..MaxOperations, faults : 0..MaxFaults]

\* The parts make up the type invariant.
LEMMA TypeParts ==
    /\ TypeOK <=> NodeType /\ CommandType /\ GatewayType /\ OpsType /\ CountType
    /\ TypeOK' <=> NodeType' /\ CommandType' /\ GatewayType' /\ OpsType' /\ CountType'
  BY DEF TypeOK, NodeType, CommandType, GatewayType, OpsType, CountType, Row

\* What an action leaves alone keeps its type.
LEMMA TypesStay ==
    /\ NodeType /\ UNCHANGED <<clock, node, beats>> => NodeType'
    /\ CommandType /\ UNCHANGED command => CommandType'
    /\ GatewayType /\ UNCHANGED gateway => GatewayType'
    /\ OpsType /\ UNCHANGED ops => OpsType'
    /\ CountType /\ UNCHANGED count => CountType'
  BY DEF NodeType, CommandType, GatewayType, OpsType, CountType, node, gateway, ops

\* A counter is raised only while it is below its bound.
LEMMA CountStep ==
    CountType
    /\ (\/ count.messages < MaxMessages /\ count' = [count EXCEPT !.messages = @ + 1]
        \/ count.evals < MaxEvals /\ count' = [count EXCEPT !.evals = @ + 1]
        \/ Operate
        \/ Fault)
    => CountType'
<1> SUFFICES
      ASSUME CountType,
             \/ count.messages < MaxMessages /\ count' = [count EXCEPT !.messages = @ + 1]
             \/ count.evals < MaxEvals /\ count' = [count EXCEPT !.evals = @ + 1]
             \/ Operate
             \/ Fault
      PROVE  CountType'
  OBVIOUS
<1> USE ConstantTypes DEF CountType
<1>1. CASE count.messages < MaxMessages /\ count' = [count EXCEPT !.messages = @ + 1]
  <2>1. count.messages + 1 \in 0..MaxMessages
    BY <1>1
  <2> QED
    BY <1>1, <2>1
<1>2. CASE count.evals < MaxEvals /\ count' = [count EXCEPT !.evals = @ + 1]
  <2>1. count.evals + 1 \in 0..MaxEvals
    BY <1>2
  <2> QED
    BY <1>2, <2>1
<1>3. CASE Operate
  <2>1. count.operations + 1 \in 0..MaxOperations
    BY <1>3 DEF Operate
  <2> QED
    BY <1>3, <2>1 DEF Operate
<1>4. CASE Fault
  <2>1. count.faults + 1 \in 0..MaxFaults
    BY <1>4 DEF Fault
  <2> QED
    BY <1>4, <2>1 DEF Fault
<1> QED
  BY <1>1, <1>2, <1>3, <1>4

\* Every evaluator is idle or at work, with anomalies that it has inserted.
EvalInv ==
    \A e \in Evaluators :
        /\ Working(eval[e])
        /\ \A p \in 1..Len(eval[e].found) : eval[e].found[p] \in 1..Len(rows)

\* The bridge, the watcher and the operators leave the evaluations alone.
LEMMA EvalStays ==
  ASSUME EvalInv, eval' = eval, Len(rows') = Len(rows)
  PROVE  EvalInv'
  BY DEF EvalInv

\* A step of an evaluation that keeps the table goes on with it or ends it.
LEMMA EvalStep ==
  ASSUME OpsType, EvalInv, NEW e \in Evaluators, NEW v,
         eval' = [eval EXCEPT ![e] = v], Len(rows') >= Len(rows), Len(rows') \in Nat,
         Working(v), \A p \in 1..Len(v.found) : v.found[p] \in 1..Len(rows')
  PROVE  /\ EvalInv'
         /\ eval' \in [Evaluators -> Evaluation]
         /\ \A f \in Evaluators : eval'[f].pc = "idle" => eval'[f] = Idle
<1>1. eval \in [Evaluators -> Evaluation] /\ Len(rows) \in Nat
  BY LenProperties DEF OpsType
<1>2. \A f \in Evaluators : eval'[f] = IF f = e THEN v ELSE eval[f]
  BY <1>1
<1> QED
  BY <1>1, <1>2 DEF EvalInv, Working

\* A fleet event has the type of the table.
LEMMA FleetType ==
  ASSUME NodeType, NEW event \in {"node_online", "node_offline"}, NEW at \in Times,
         FleetEvent(event, at)
  PROVE  fleet' \in Seq([event : {"node_online", "node_offline"}, at : Times])
  BY DEF NodeType, FleetEvent

\* The bridge's steps keep the types.
LEMMA BridgeTypes ==
  ASSUME TypeOK, EvalInv,
         \/ \E m \in Message : Receive(m)
         \/ UpsertNode \/ UpdateHeartbeat \/ FailHandling
         \/ \E c \in Commands, r \in {"executed", "timeout"} : UpsertCommandResult(c, r)
  PROVE  TypeOK' /\ EvalInv'
<1> USE ConstantTypes
<1>t. NodeType /\ CommandType /\ GatewayType /\ OpsType /\ CountType
  BY TypeParts
<1>1. ASSUME NEW m \in Message, Receive(m) PROVE TypeOK'
  <2>1. GatewayType'
    BY <1>t, <1>1 DEF Receive, GatewayType, NodeType
  <2> QED
    BY <1>t, TypeParts, TypesStay, CountStep, <1>1, <2>1 DEF Receive
<1>2. ASSUME UpsertNode PROVE TypeOK'
  <2>1. bridge.msg \in Hello
    BY <1>t, <1>2 DEF UpsertNode, GatewayType, Message, Heartbeat
  <2>2. fleet' \in Seq([event : {"node_online", "node_offline"}, at : Times])
    BY <1>t, <1>2, <2>1, FleetType DEF UpsertNode, NodeType, Hello
  <2>3. NodeType'
    BY <1>t, <1>2, <2>1, <2>2 DEF UpsertNode, Handled, NodeType, Hello
  <2>4. GatewayType'
    BY <1>t, <1>2 DEF UpsertNode, Handled, GatewayType
  <2>5. UNCHANGED <<command, ops, count>>
    BY <1>2 DEF UpsertNode, Handled
  <2> QED
    BY <1>t, <2>3, <2>4, <2>5, TypeParts, TypesStay
<1>3. ASSUME UpdateHeartbeat PROVE TypeOK'
  <2>1. bridge.msg \in Heartbeat /\ bridge.msg.beat.status \in Statuses
    BY <1>t, <1>3, ConstantTypes DEF UpdateHeartbeat, GatewayType, Message, Hello, Heartbeat, Beat
  <2>2. beats' \in Seq([at : Times, beat : Beats])
    BY <1>t, <1>3, <2>1, ConcatProperties DEF UpdateHeartbeat, NodeType, Heartbeat
  <2>3. fleet' \in Seq([event : {"node_online", "node_offline"}, at : Times])
    BY <1>t, <1>3, <2>1, FleetType DEF UpdateHeartbeat, NodeType, Heartbeat
  <2>4. NodeType'
    BY <1>t, <1>3, <2>1, <2>2, <2>3 DEF UpdateHeartbeat, Handled, NodeType, Heartbeat
  <2>5. GatewayType'
    BY <1>t, <1>3 DEF UpdateHeartbeat, Handled, GatewayType
  <2>6. UNCHANGED <<command, ops, count>>
    BY <1>3 DEF UpdateHeartbeat, Handled
  <2> QED
    BY <1>t, <2>4, <2>5, <2>6, TypeParts, TypesStay
<1>4. ASSUME FailHandling PROVE TypeOK'
  <2>1. GatewayType'
    BY <1>t, <1>4 DEF FailHandling, GatewayType
  <2>2. CountType'
    BY <1>t, <1>4, CountStep DEF FailHandling
  <2> QED
    BY <1>t, TypeParts, TypesStay, <1>4, <2>1, <2>2 DEF FailHandling
<1>5. ASSUME NEW c \in Commands, NEW r \in {"executed", "timeout"},
             UpsertCommandResult(c, r)
      PROVE  TypeOK'
  <2>1. CommandType'
    <3> DEFINE row == [command[c] EXCEPT !.status = r, !.completed = clock]
    <3>1. command' = [command EXCEPT ![c] = row]
      BY <1>5 DEF UpsertCommandResult
    <3>2. row \in [status : {"none", "queued", "executed", "timeout", "retired"},
                   issued : Times, completed : Times]
      BY <1>t DEF CommandType, NodeType
    <3> HIDE DEF row
    <3> QED
      BY <1>t, <3>1, <3>2 DEF CommandType
  <2> QED
    BY <1>t, TypeParts, TypesStay, CountStep, <1>5, <2>1 DEF UpsertCommandResult
<1>6. eval' = eval /\ rows' = rows
  BY DEF Receive, UpsertNode, UpdateHeartbeat, FailHandling, UpsertCommandResult,
         Handled, ops
<1> QED
  BY <1>1, <1>2, <1>3, <1>4, <1>5, <1>6, EvalStays

\* An operator changes one row's status, and marks what is opened again.
LEMMA OperatorShape ==
  ASSUME OpsType, NEW i \in DOMAIN rows, Acknowledge(i) \/ Resolve(i)
  PROVE  /\ rows' \in Seq(Row) /\ Len(rows') = Len(rows) /\ DOMAIN rows' = DOMAIN rows
         /\ \A j \in DOMAIN rows :
               /\ rows'[j].rule = rows[j].rule /\ rows'[j].saw = rows[j].saw
               /\ rows'[j].by = rows[j].by
               /\ rows[j].status = "resolved" \/ rows[j].reopened
                  => rows'[j].status = "resolved" \/ rows'[j].reopened
<1> DEFINE ack == [rows[i] EXCEPT !.status = "acknowledged",
                                  !.reopened = @ \/ rows[i].status = "resolved"]
           res == [rows[i] EXCEPT !.status = "resolved"]
<1>1. rows \in Seq(Row) /\ rows[i] \in Row /\ i \in 1..Len(rows)
      /\ DOMAIN rows = 1..Len(rows)
  BY ElementOfSeq, LenProperties DEF OpsType
<1>2. /\ ack \in Row /\ ack.rule = rows[i].rule /\ ack.saw = rows[i].saw
      /\ ack.by = rows[i].by
      /\ rows[i].status = "resolved" \/ rows[i].reopened => ack.reopened
  BY <1>1 DEF Row
<1>3. /\ res \in Row /\ res.rule = rows[i].rule /\ res.saw = rows[i].saw
      /\ res.by = rows[i].by /\ res.status = "resolved"
  BY <1>1 DEF Row
<1>4. rows' = [rows EXCEPT ![i] = ack] \/ rows' = [rows EXCEPT ![i] = res]
  BY DEF Acknowledge, Resolve
<1> HIDE DEF ack, res
<1>5. rows' \in Seq(Row) /\ Len(rows') = Len(rows)
  BY <1>1, <1>2, <1>3, <1>4, ExceptSeq
<1>6. DOMAIN rows' = DOMAIN rows
  BY <1>1, <1>5, LenProperties
<1>7. \A j \in DOMAIN rows : rows'[j] = rows[j] \/ (j = i /\ rows'[j] \in {ack, res})
  BY <1>1, <1>4
<1> QED
  BY <1>2, <1>3, <1>5, <1>6, <1>7

\* The steps of the watcher, of the operators and of the process keep the types.
LEMMA OperatorTypes ==
  ASSUME TypeOK, EvalInv,
         \/ Scan \/ MarkOffline
         \/ \E c \in Commands : SendCommand(c)
         \/ \E i \in DOMAIN rows : Acknowledge(i) \/ Resolve(i)
         \/ \E a \in DOMAIN actions : CancelAction(a)
         \/ Restart \/ Tick
  PROVE  TypeOK' /\ EvalInv'
<1> USE ConstantTypes
<1>t. NodeType /\ CommandType /\ GatewayType /\ OpsType /\ CountType
  BY TypeParts
<1>1. CASE Scan
  <2>1. GatewayType'
    BY <1>t, <1>1 DEF Scan, GatewayType
  <2> QED
    BY <1>t, TypeParts, TypesStay, CountStep, <1>1, <2>1, EvalStays DEF Scan, ops
<1>2. CASE MarkOffline
  <2>1. NodeType' /\ GatewayType'
    BY <1>t, <1>2, FleetType DEF MarkOffline, NodeType, GatewayType
  <2> QED
    BY <1>t, TypeParts, TypesStay, CountStep, <1>2, <2>1, EvalStays DEF MarkOffline, ops
<1>3. ASSUME NEW c \in Commands, SendCommand(c) PROVE TypeOK' /\ EvalInv'
  <2>1. CommandType'
    BY <1>t, <1>3 DEF SendCommand, CommandType, NodeType
  <2> QED
    BY <1>t, TypeParts, TypesStay, CountStep, <1>3, <2>1, EvalStays DEF SendCommand, ops
<1>4. ASSUME NEW i \in DOMAIN rows, Acknowledge(i) \/ Resolve(i)
      PROVE  TypeOK' /\ EvalInv'
  <2>2. rows' \in Seq(Row) /\ Len(rows') = Len(rows) /\ DOMAIN rows' = DOMAIN rows
    BY <1>t, <1>4, OperatorShape
  <2>3. OpsType' /\ EvalInv'
    BY <1>t, <1>4, <2>2, EvalStays DEF Acknowledge, Resolve, OpsType
  <2> QED
    BY <1>t, TypeParts, TypesStay, CountStep, <1>4, <2>3 DEF Acknowledge, Resolve
<1>5. ASSUME NEW a \in DOMAIN actions, CancelAction(a) PROVE TypeOK' /\ EvalInv'
  <2> DEFINE Act == [anomaly : DOMAIN rows, status : {"executed", "failed", "cancelled"}]
  <2>a. actions \in Seq(Act) /\ actions[a] \in Act /\ a \in 1..Len(actions)
    BY <1>t, ElementOfSeq, LenProperties DEF OpsType
  <2>b. [actions[a] EXCEPT !.status = "cancelled"] \in Act
    BY <2>a
  <2>c. actions' = [actions EXCEPT ![a] = [actions[a] EXCEPT !.status = "cancelled"]]
    BY <1>5 DEF CancelAction
  <2>d. actions' \in Seq(Act)
    BY <2>a, <2>b, <2>c, ExceptSeq
  <2>1. OpsType'
    BY <1>t, <1>5, <2>d DEF CancelAction, OpsType
  <2> QED
    BY <1>t, TypeParts, TypesStay, CountStep, <1>5, <2>1, EvalStays DEF CancelAction
<1>6. CASE Restart
  <2>1. eval' \in [Evaluators -> Evaluation] /\ \A e \in Evaluators : eval'[e] = Idle
    BY <1>t, <1>6 DEF Restart, Evaluation, Idle
  <2>2. cut' \subseteq DOMAIN rows
    <3>1. \A e \in Evaluators : ToSet(eval[e].found) \subseteq DOMAIN rows
      <4> TAKE e \in Evaluators
      <4>1. eval[e].found \in Seq(Nat \ {0}) /\ rows \in Seq(Row)
        BY <1>t DEF OpsType, Evaluation
      <4>2. DOMAIN eval[e].found = 1..Len(eval[e].found) /\ DOMAIN rows = 1..Len(rows)
        BY <4>1, LenProperties
      <4> QED
        BY <4>2 DEF EvalInv, ToSet
    <3> QED
      BY <1>t, <1>6, <3>1 DEF Restart, OpsType
  <2>3. Working(Idle) /\ Len(Idle.found) = 0
    BY DEF Working, Idle, Evaluation
  <2>4. EvalInv'
    BY <1>t, <2>1, <2>3 DEF EvalInv
  <2>5. OpsType' /\ GatewayType'
    BY <1>t, <1>6, <2>1, <2>2 DEF Restart, OpsType, GatewayType
  <2> QED
    BY <1>t, TypeParts, TypesStay, CountStep, <1>6, <2>4, <2>5 DEF Restart
<1>7. CASE Tick
  <2>1. NodeType'
    BY <1>t, <1>7 DEF Tick, NodeType, node, Times
  <2> QED
    BY <1>t, TypeParts, TypesStay, CountStep, <1>7, <2>1, EvalStays DEF Tick, ops
<1> QED
  BY <1>1, <1>2, <1>3, <1>4, <1>5, <1>6, <1>7

\* What an evaluator that is not idle holds.
LEMMA EvalParts ==
  ASSUME OpsType, EvalInv, NEW e \in Evaluators
  PROVE  /\ eval[e] \in Evaluation /\ Working(eval[e])
         /\ eval[e].todo \in Seq(Rules) /\ eval[e].found \in Seq(Nat \ {0})
         /\ Len(rows) \in Nat /\ DOMAIN rows = 1..Len(rows)
         /\ eval[e].pc # "idle" => eval[e].op \in {"analyze", "simulate"}
  BY LenProperties DEF OpsType, EvalInv, Working, Evaluation, Idle

\* A new evaluation has found nothing yet.
LEMMA DetectShape ==
  ASSUME OpsType, EvalInv, NEW e \in Evaluators, NEW op \in {"analyze", "simulate"},
         NEW now \in Times, Detect(e, op, now)
  PROVE  \E v \in Evaluation :
            /\ eval' = [eval EXCEPT ![e] = v] /\ Working(v)
            /\ v.found = <<>> /\ v.pc # "insert"
<1> DEFINE v0 == [Idle EXCEPT !.op = op, !.todo = Findings(now)]
<1>1. v0 \in Evaluation /\ v0.op # "none" /\ v0.found = <<>>
  <2>1. Idle \in Evaluation /\ Idle.found = <<>>
    BY DEF Idle, Evaluation
  <2>2. Findings(now) \in Seq(Rules)
    BY FindingsType
  <2> QED
    BY <2>1, <2>2 DEF Evaluation
<1>2. eval' = [eval EXCEPT ![e] = Continue(v0)]
  BY DEF Detect
<1> HIDE DEF v0
<1>3. Idle.found = <<>> /\ Idle.pc # "insert"
  BY DEF Idle
<1> QED
  BY <1>1, <1>2, <1>3, ContinueType DEF Working

\* Looking for an unresolved anomaly adds nothing to what was found.
LEMMA LookShape ==
  ASSUME OpsType, EvalInv, NEW e \in Evaluators, Look(e)
  PROVE  \E v \in Evaluation :
            /\ eval' = [eval EXCEPT ![e] = v] /\ Working(v)
            /\ \/ v = Idle /\ (eval[e].op = "simulate" \/ eval[e].found = <<>>)
               \/ v.found = eval[e].found /\ v.op = eval[e].op
            /\ v.pc = "insert" => /\ v.saw = Len(rows)
                                 /\ ~Unresolved(Head(v.todo))
<1>1. eval[e] \in Evaluation /\ Working(eval[e]) /\ Len(rows) \in Nat
      /\ eval[e].op \in {"analyze", "simulate"} /\ eval[e].todo # <<>>
  BY EvalParts DEF Look, Working
<1>2. CASE Unresolved(Head(eval[e].todo))
  <2> DEFINE v0 == [eval[e] EXCEPT !.todo = Tail(@)]
  <2>1. v0 \in Evaluation /\ v0.op = eval[e].op /\ v0.found = eval[e].found
    BY <1>1, HeadTailProperties DEF Evaluation
  <2>2. eval' = [eval EXCEPT ![e] = Continue(v0)]
    BY <1>2 DEF Look
  <2> HIDE DEF v0
  <2>3. /\ Working(Continue(v0))
        /\ \/ Continue(v0) = Idle /\ (v0.op = "simulate" \/ v0.found = <<>>)
           \/ Continue(v0).found = v0.found /\ Continue(v0).op = v0.op
        /\ Continue(v0).pc # "insert"
    <3>1. Idle.pc # "insert"
      BY DEF Idle
    <3>2. v0.op # "none"
      BY <1>1, <2>1
    <3> QED
      BY <2>1, <3>1, <3>2, ContinueType
  <2>4. Continue(v0) \in Evaluation
    BY <2>3 DEF Working
  <2> QED
    BY <2>1, <2>2, <2>3, <2>4
<1>3. CASE ~Unresolved(Head(eval[e].todo))
  <2> DEFINE v0 == [eval[e] EXCEPT !.pc = "insert", !.saw = Len(rows)]
  <2>1. v0 \in Evaluation /\ Working(v0) /\ v0.op = eval[e].op /\ v0.found = eval[e].found
        /\ v0.saw = Len(rows) /\ v0.todo = eval[e].todo
    BY <1>1 DEF Evaluation, Working, Idle
  <2>2. eval' = [eval EXCEPT ![e] = v0]
    BY <1>3 DEF Look
  <2> HIDE DEF v0
  <2> QED
    BY <1>3, <2>1, <2>2
<1> QED
  BY <1>2, <1>3

\* An insertion adds the new row to the table and to what was found.
LEMMA InsertShape ==
  ASSUME OpsType, EvalInv, NEW e \in Evaluators, Insert(e)
  PROVE  /\ \E v \in Evaluation :
               /\ eval' = [eval EXCEPT ![e] = v] /\ Working(v) /\ v.pc # "insert"
               /\ \/ v = Idle /\ eval[e].op = "simulate"
                  \/ v.found = Append(eval[e].found, Len(rows) + 1) /\ v.op = eval[e].op
         /\ \E row \in Row :
               /\ rows' = Append(rows, row) /\ row.by = eval[e].op
               /\ row.rule = Head(eval[e].todo) /\ row.saw = eval[e].saw
         /\ rows' \in Seq(Row) /\ Len(rows') = Len(rows) + 1
         /\ \A i \in 1..Len(rows) : rows'[i] = rows[i]
<1>1. eval[e] \in Evaluation /\ Working(eval[e]) /\ Len(rows) \in Nat
      /\ eval[e].op \in {"analyze", "simulate"} /\ eval[e].todo # <<>>
  BY EvalParts DEF Insert, Working
<1>2. Head(eval[e].todo) \in Rules /\ Tail(eval[e].todo) \in Seq(Rules)
  BY <1>1, HeadTailProperties DEF Evaluation
<1> DEFINE row == [rule |-> Head(eval[e].todo), status |-> "open", by |-> eval[e].op,
                   saw |-> eval[e].saw, reopened |-> FALSE]
<1>3. row \in Row /\ rows' = Append(rows, row)
  BY <1>1, <1>2 DEF Insert, Row, Evaluation
<1>4. rows' \in Seq(Row) /\ Len(rows') = Len(rows) + 1
      /\ \A i \in 1..Len(rows) : rows'[i] = rows[i]
  BY <1>3 DEF OpsType
<1> DEFINE v0 == [eval[e] EXCEPT !.todo = Tail(@), !.saw = 0,
                                 !.found = Append(@, Len(rows'))]
<1>5. v0 \in Evaluation /\ v0.op = eval[e].op
      /\ v0.found = Append(eval[e].found, Len(rows) + 1)
  <2>1. Len(rows) + 1 \in Nat \ {0} /\ eval[e].found \in Seq(Nat \ {0})
    BY <1>1 DEF Evaluation
  <2>2. Append(eval[e].found, Len(rows) + 1) \in Seq(Nat \ {0})
    BY <2>1
  <2>3. Len(rows') = Len(rows) + 1
    BY <1>4
  <2> QED
    BY <1>1, <1>2, <2>2, <2>3 DEF Evaluation
<1>6. eval' = [eval EXCEPT ![e] = Continue(v0)]
  BY DEF Insert
<1>7. v0.found # <<>>
  <2>1. eval[e].found \in Seq(Nat \ {0}) /\ Len(rows) + 1 \in Nat \ {0}
    BY <1>1 DEF Evaluation
  <2> QED
    BY <1>5, <2>1
<1>8. Idle.pc # "insert"
  BY DEF Idle
<1>9. \E v \in Evaluation :
         /\ eval' = [eval EXCEPT ![e] = v] /\ Working(v) /\ v.pc # "insert"
         /\ \/ v = Idle /\ eval[e].op = "simulate"
            \/ v.found = Append(eval[e].found, Len(rows) + 1) /\ v.op = eval[e].op
  <2> HIDE DEF v0
  <2> QED
    <3>1. Working(Continue(v0)) /\ Continue(v0) \in Evaluation
      BY <1>1, <1>5, ContinueType DEF Working
    <3>2. \/ Continue(v0) = Idle /\ v0.op = "simulate"
          \/ /\ Continue(v0).found = v0.found /\ Continue(v0).op = v0.op
             /\ Continue(v0).pc \in {"look", "heal"}
      BY <1>1, <1>5, <1>7, ContinueType
    <3> QED
      BY <1>5, <1>6, <1>8, <3>1, <3>2
<1>10. \E r \in Row : /\ rows' = Append(rows, r) /\ r.by = eval[e].op
                      /\ r.rule = Head(eval[e].todo) /\ r.saw = eval[e].saw
  <2>1. row.by = eval[e].op /\ row.rule = Head(eval[e].todo) /\ row.saw = eval[e].saw
    OBVIOUS
  <2> QED
    BY <1>3, <2>1
<1> QED
  BY <1>4, <1>9, <1>10

\* Executing a plan keeps what was found and may change the node or commands.
LEMMA ExecuteShape ==
  ASSUME OpsType, EvalInv, NEW e \in Evaluators, Execute(e) \/ ExecuteFails(e)
  PROVE  \E v \in Evaluation :
            /\ eval' = [eval EXCEPT ![e] = v] /\ Working(v) /\ v.pc # "insert"
            /\ v.found = eval[e].found /\ v.op = eval[e].op
<1>1. eval[e] \in Evaluation /\ Working(eval[e]) /\ eval[e].pc = "heal"
  BY EvalParts DEF Execute, ExecuteFails
<1>2. PICK pc \in {"executed", "failed"} : eval' = [eval EXCEPT ![e].pc = pc]
  BY DEF Execute, ExecuteFails
<1> DEFINE v0 == [eval[e] EXCEPT !.pc = pc]
<1>3. v0 \in Evaluation /\ Working(v0) /\ v0.pc # "insert"
      /\ v0.found = eval[e].found /\ v0.op = eval[e].op
  BY <1>1 DEF Evaluation, Working, Idle
<1>4. eval' = [eval EXCEPT ![e] = v0]
  BY <1>2
<1> QED
  BY <1>3, <1>4

\* Recording an action takes the first anomaly from what was found.
LEMMA PersistShape ==
  ASSUME OpsType, EvalInv, NEW e \in Evaluators, PersistAction(e)
  PROVE  /\ eval[e].found # <<>> /\ eval[e].op = "analyze"
         /\ Tail(eval[e].found) \in Seq(Nat \ {0})
         /\ \E v \in Evaluation :
               /\ eval' = [eval EXCEPT ![e] = v] /\ Working(v) /\ v.pc # "insert"
               /\ v.found = Tail(eval[e].found)
               /\ v = Idle \/ v.op = eval[e].op
<1>1. eval[e] \in Evaluation /\ Working(eval[e]) /\ eval[e].op = "analyze"
      /\ eval[e].found # <<>> /\ eval[e].found \in Seq(Nat \ {0})
  BY EvalParts DEF PersistAction, Working
<1>2. Tail(eval[e].found) \in Seq(Nat \ {0})
  BY <1>1, HeadTailProperties
<1> DEFINE v0 == [eval[e] EXCEPT !.found = Tail(@)]
<1>3. v0 \in Evaluation /\ v0.op = "analyze" /\ v0.found = Tail(eval[e].found)
  BY <1>1, <1>2 DEF Evaluation
<1>4. eval' = [eval EXCEPT ![e] = Continue(v0)]
  BY DEF PersistAction
<1>5. Idle.found = <<>> /\ Idle.pc # "insert"
  BY DEF Idle
<1> HIDE DEF v0
<1>6. Working(Continue(v0)) /\ Continue(v0) \in Evaluation
  BY <1>3, ContinueType DEF Working
<1>7. \/ Continue(v0) = Idle /\ v0.found = <<>>
      \/ /\ Continue(v0).found = v0.found /\ Continue(v0).op = v0.op
         /\ Continue(v0).pc \in {"look", "heal"}
  BY <1>3, ContinueType
<1> QED
  BY <1>1, <1>2, <1>3, <1>4, <1>5, <1>6, <1>7

\* The actions of an evaluator.
Evaluate(e) ==
    \/ \E op \in {"analyze", "simulate"}, now \in Times : Detect(e, op, now)
    \/ Look(e) \/ Insert(e) \/ Execute(e) \/ ExecuteFails(e)
    \/ PersistAction(e) \/ FailEvaluation(e)

\* What is left alone by the actions of an evaluator.
LEMMA EvaluateFrame ==
  ASSUME NEW e \in Evaluators, Evaluate(e)
  PROVE  /\ UNCHANGED <<clock, seen, fleet, beats, bridge, alive, late>>
         /\ Insert(e) \/ rows' = rows
         /\ PersistAction(e) \/ actions' = actions
         /\ FailEvaluation(e) \/ cut' = cut
         /\ Execute(e) \/ UNCHANGED <<status, command>>
  BY DEF Evaluate, Detect, Look, Insert, Execute, ExecuteFails, PersistAction,
         FailEvaluation, node, gateway

\* The evaluation of e goes on with anomalies of the table, or ends.
GoesOn(e) ==
    \E v \in Evaluation :
        /\ eval' = [eval EXCEPT ![e] = v] /\ Working(v)
        /\ \A p \in 1..Len(v.found) : v.found[p] \in 1..Len(rows')

\* The steps of an evaluation keep the types.
LEMMA EvaluateTypes ==
  ASSUME TypeOK, EvalInv, NEW e \in Evaluators, Evaluate(e)
  PROVE  TypeOK' /\ EvalInv'
<1> USE ConstantTypes
<1>t. NodeType /\ CommandType /\ GatewayType /\ OpsType /\ CountType
  BY TypeParts
<1>p. /\ eval[e] \in Evaluation /\ Working(eval[e]) /\ Len(rows) \in Nat
      /\ eval[e].found \in Seq(Nat \ {0}) /\ DOMAIN rows = 1..Len(rows)
      /\ \A p \in 1..Len(eval[e].found) : eval[e].found[p] \in 1..Len(rows)
  BY <1>t, EvalParts DEF EvalInv
<1>i. Idle.found = <<>> /\ Idle \in Evaluation /\ Working(Idle)
  BY DEF Idle, Evaluation, Working
<1>1. GatewayType'
  BY <1>t, EvaluateFrame, TypesStay DEF gateway
<1>2. NodeType'
  BY <1>t, EvaluateFrame DEF NodeType, Execute
<1>3. CommandType'
  <2>1. CASE Execute(e)
    BY <1>t, <2>1 DEF Execute, CommandType, RetireStale
  <2> QED
    BY <1>t, <2>1, EvaluateFrame, TypesStay
<1>4. CountType'
  BY <1>t, CountStep, TypesStay
     DEF Evaluate, Detect, Look, Insert, Execute, ExecuteFails, PersistAction, FailEvaluation
<1>5. rows' \in Seq(Row) /\ Len(rows') \in Nat /\ Len(rows') >= Len(rows)
      /\ DOMAIN rows' = 1..Len(rows') /\ DOMAIN rows \subseteq DOMAIN rows'
  <2>1. CASE Insert(e)
    <3>1. rows' \in Seq(Row) /\ Len(rows') = Len(rows) + 1
      BY <1>t, <2>1, InsertShape
    <3> QED
      BY <1>p, <3>1, LenProperties
  <2>2. CASE rows' = rows
    BY <1>t, <1>p, <2>2 DEF OpsType
  <2> QED
    BY <2>1, <2>2, EvaluateFrame
<1>6. GoesOn(e)
  <2>0. Len(<<>>) = 0 /\ Len(Idle.found) = 0
    BY <1>i
  <2>8. \A p \in 1..Len(Idle.found) : Idle.found[p] \in 1..Len(rows')
    BY <2>0
  <2>1. \A p \in 1..Len(eval[e].found) : eval[e].found[p] \in 1..Len(rows')
    BY <1>p, <1>5
  <2>2. ASSUME NEW op \in {"analyze", "simulate"}, NEW now \in Times, Detect(e, op, now)
        PROVE  GoesOn(e)
    BY <1>t, <2>0, <2>2, DetectShape DEF GoesOn
  <2>3. CASE Look(e)
    BY <1>t, <1>i, <2>0, <2>1, <2>3, LookShape DEF GoesOn
  <2>4. CASE Insert(e)
    <3>1. \A p \in 1..Len(Append(eval[e].found, Len(rows) + 1)) :
             Append(eval[e].found, Len(rows) + 1)[p] \in 1..Len(rows')
      BY <1>t, <1>p, <2>1, <2>4, InsertShape
    <3>2. PICK v \in Evaluation :
             /\ eval' = [eval EXCEPT ![e] = v] /\ Working(v)
             /\ v = Idle \/ v.found = Append(eval[e].found, Len(rows) + 1)
      BY <1>t, <2>4, InsertShape
    <3> QED
      BY <2>8, <3>1, <3>2 DEF GoesOn
  <2>5. CASE Execute(e) \/ ExecuteFails(e)
    BY <1>t, <2>1, <2>5, ExecuteShape DEF GoesOn
  <2>6. CASE PersistAction(e)
    <3>1. \A p \in 1..Len(Tail(eval[e].found)) : Tail(eval[e].found)[p] \in 1..Len(rows')
      BY <1>t, <1>p, <2>1, <2>6, PersistShape, HeadTailProperties
    <3> QED
      BY <1>t, <2>6, <3>1, PersistShape DEF GoesOn
  <2>7. CASE FailEvaluation(e)
    <3>1. eval' = [eval EXCEPT ![e] = Idle]
      BY <2>7 DEF FailEvaluation
    <3> QED
      BY <1>i, <2>8, <3>1 DEF GoesOn
  <2> QED
    BY <2>2, <2>3, <2>4, <2>5, <2>6, <2>7 DEF Evaluate
<1>7. EvalInv' /\ eval' \in [Evaluators -> Evaluation]
      /\ \A f \in Evaluators : eval'[f].pc = "idle" => eval'[f] = Idle
  BY <1>t, <1>5, <1>6, EvalStep DEF GoesOn
<1>8. actions' \in Seq([anomaly : DOMAIN rows', status : {"executed", "failed", "cancelled"}])
  <2> DEFINE Act(d) == [anomaly : d, status : {"executed", "failed", "cancelled"}]
  <2>1. actions \in Seq(Act(DOMAIN rows))
    BY <1>t DEF OpsType
  <2>2. Act(DOMAIN rows) \subseteq Act(DOMAIN rows')
    BY <1>5
  <2>3. actions \in Seq(Act(DOMAIN rows'))
    BY <2>1, <2>2, SeqMonotonic
  <2>4. CASE PersistAction(e)
    <3>1. Head(eval[e].found) \in DOMAIN rows'
      BY <1>t, <1>p, <1>5, <2>4, PersistShape
    <3>2. eval[e].pc \in {"executed", "failed"}
      BY <2>4 DEF PersistAction
    <3>3. [anomaly |-> Head(eval[e].found), status |-> eval[e].pc] \in Act(DOMAIN rows')
      BY <3>1, <3>2
    <3> QED
      BY <2>3, <2>4, <3>3 DEF PersistAction
  <2> QED
    BY <2>3, <2>4, EvaluateFrame
<1>9. cut' \subseteq DOMAIN rows'
  <2>1. CASE FailEvaluation(e)
    BY <1>t, <1>p, <1>5, <2>1, LenProperties DEF FailEvaluation, OpsType, ToSet
  <2> QED
    BY <1>t, <1>5, <2>1, EvaluateFrame DEF OpsType
<1>10. OpsType'
  BY <1>5, <1>7, <1>8, <1>9 DEF OpsType
<1> QED
  BY <1>1, <1>2, <1>3, <1>4, <1>7, <1>10, TypeParts

\* Every step keeps the types.
LEMMA TypeInductive == TypeOK /\ EvalInv /\ [Next]_vars => TypeOK' /\ EvalInv'
<1> SUFFICES ASSUME TypeOK, EvalInv, [Next]_vars PROVE TypeOK' /\ EvalInv'
  OBVIOUS
<1>1. ASSUME NEW e \in Evaluators, Evaluate(e) PROVE TypeOK' /\ EvalInv'
  BY <1>1, EvaluateTypes
<1>2. CASE UNCHANGED vars
  <2>1. UNCHANGED <<clock, node, beats, command, gateway, ops, count, rows, eval>>
    BY <1>2 DEF vars, node, gateway, ops
  <2> QED
    BY <2>1, TypeParts, TypesStay, EvalStays
<1> QED
  BY <1>1, <1>2, BridgeTypes, OperatorTypes DEF Next, Evaluate

\* The initial state is well typed.
LEMMA InitialTypes == Init => TypeOK /\ EvalInv
<1> SUFFICES ASSUME Init PROVE TypeOK /\ EvalInv
  OBVIOUS
<1> USE ConstantTypes DEF Init
<1>0. 0 \in Times
  BY DEF Times
<1>1. NodeType /\ CommandType /\ GatewayType
  <2>1. NodeType
    BY <1>0 DEF NodeType
  <2>2. CommandType
    BY <1>0 DEF CommandType
  <2>3. GatewayType
    BY DEF GatewayType
  <2> QED
    BY <2>1, <2>2, <2>3
<1>2. Working(Idle) /\ Idle \in Evaluation /\ Len(Idle.found) = 0
  BY DEF Working, Idle, Evaluation
<1>3. OpsType
  BY <1>2 DEF OpsType
<1>4. CountType
  BY DEF CountType
<1> QED
  BY <1>1, <1>2, <1>3, <1>4, TypeParts DEF EvalInv

\* Every reachable state of the CNP-OPS-005 gateway is well typed.
THEOREM Ops005TypeCorrect == Spec => []TypeOK
  BY InitialTypes, TypeInductive, PTL DEF Spec

-----------------------------------------------------------------------------
(* Fleet events                                                             *)

\* No step leaves a node offline behind another event, and another heartbeat,
\* than that.
LEMMA AnnouncedInductive ==
  TypeOK /\ EvalInv /\ OfflineIsAnnounced /\ [Next]_vars => OfflineIsAnnounced'
<1> SUFFICES ASSUME TypeOK, EvalInv, OfflineIsAnnounced, [Next]_vars
             PROVE  OfflineIsAnnounced'
  OBVIOUS
<1> USE DEF OfflineIsAnnounced
<1>t. NodeType /\ GatewayType
  BY TypeParts
<1>1. CASE UpsertNode
  BY <1>1 DEF UpsertNode
<1>2. CASE UpdateHeartbeat
  <2> DEFINE b == [at |-> bridge.msg.at, beat |-> bridge.msg.beat]
  <2>1. b \in [at : Times, beat : Beats] /\ beats \in Seq([at : Times, beat : Beats])
        /\ beats' = <<b>> \o beats
    BY <1>t, <1>2 DEF UpdateHeartbeat, NodeType, GatewayType, Message, Hello, Heartbeat
  <2>2. beats' # <<>> /\ Head(beats') = b
    BY <2>1, ConcatProperties
  <2>3. status' = "offline" => b.beat.status = "offline" \/ status = "absent"
    BY <1>2 DEF UpdateHeartbeat
  <2>4. status = "absent" => status' = "absent"
    BY <1>2 DEF UpdateHeartbeat
  <2> QED
    BY <2>2, <2>3, <2>4
<1>3. CASE MarkOffline
  <2>1. /\ fleet \in Seq([event : {"node_online", "node_offline"}, at : Times])
        /\ fleet' = Append(fleet, [event |-> "node_offline", at |-> clock])
    BY <1>t, <1>3 DEF MarkOffline, NodeType, FleetEvent
  <2>2. Len(fleet') = Len(fleet) + 1 /\ fleet' # <<>>
        /\ fleet'[Len(fleet) + 1] = [event |-> "node_offline", at |-> clock]
    BY <2>1
  <2> QED
    BY <2>2 DEF Last
<1>4. ASSUME NEW e \in Evaluators, Evaluate(e) PROVE OfflineIsAnnounced'
  BY <1>4, EvaluateFrame DEF Execute
<1>5. ASSUME UNCHANGED <<status, fleet, beats>> PROVE OfflineIsAnnounced'
  BY <1>5
<1>6. CASE \/ \E m \in Message : Receive(m)
           \/ FailHandling \/ Scan \/ Restart \/ Tick
           \/ \E c \in Commands : SendCommand(c)
           \/ \E c \in Commands, r \in {"executed", "timeout"} : UpsertCommandResult(c, r)
           \/ \E i \in DOMAIN rows : Acknowledge(i) \/ Resolve(i)
           \/ \E a \in DOMAIN actions : CancelAction(a)
           \/ UNCHANGED vars
  BY <1>5, <1>6 DEF Receive, FailHandling, Scan, Restart, Tick, SendCommand,
                    UpsertCommandResult, Acknowledge, Resolve, CancelAction, vars, node
<1> QED
  BY <1>1, <1>2, <1>3, <1>4, <1>6 DEF Next, Evaluate

\* Whatever races the watcher, an offline node's last fleet event says so, or its
\* last heartbeat does.
THEOREM Ops005OfflineIsAnnounced == Spec => []OfflineIsAnnounced
<1>1. Init => OfflineIsAnnounced
  BY DEF Init, OfflineIsAnnounced
<1> QED
  BY <1>1, InitialTypes, TypeInductive, AnnouncedInductive, PTL DEF Spec

-----------------------------------------------------------------------------
(* Doubled anomalies                                                        *)

\* A row that no search for an unresolved anomaly has found unresolved, or
\* that was resolved before.
Past(i) == rows[i].status = "resolved" \/ rows[i].reopened

\* What a row's evaluation saw, or an evaluation that is about to insert has
\* seen, of the same rule is past.
OverlapInv ==
    /\ \A i, j \in DOMAIN rows :
          i < j /\ rows[i].rule = rows[j].rule /\ i <= rows[j].saw => Past(i)
    /\ \A e \in Evaluators :
          eval[e].pc = "insert" =>
              /\ eval[e].saw <= Len(rows)
              /\ \A i \in DOMAIN rows :
                    i <= eval[e].saw /\ rows[i].rule = Head(eval[e].todo) => Past(i)

\* The fields of a row that the arguments below are about.
LEMMA RowType ==
  ASSUME OpsType, NEW i \in DOMAIN rows
  PROVE  /\ rows[i].saw \in Nat /\ rows[i].by \in {"analyze", "simulate"}
         /\ rows[i].status \in {"open", "acknowledged", "resolved"}
<1>1. rows \in Seq(Row) /\ i \in 1..Len(rows)
  BY LenProperties DEF OpsType
<1>2. rows[i] \in Row
  BY <1>1, ElementOfSeq
<1> QED
  BY <1>2 DEF Row

\* Acknowledging or resolving an anomaly leaves what is past past.
LEMMA OperatorsKeepOverlap ==
  ASSUME TypeOK, OverlapInv, NEW i \in DOMAIN rows, Acknowledge(i) \/ Resolve(i)
  PROVE  OverlapInv'
<1>1. OpsType /\ eval' = eval
  BY TypeParts DEF Acknowledge, Resolve
<1>2. /\ Len(rows') = Len(rows) /\ DOMAIN rows' = DOMAIN rows
      /\ \A j \in DOMAIN rows : rows'[j].rule = rows[j].rule /\ rows'[j].saw = rows[j].saw
      /\ \A j \in DOMAIN rows : Past(j) => rows'[j].status = "resolved" \/ rows'[j].reopened
  BY <1>1, OperatorShape DEF Past
<1> QED
  BY <1>1, <1>2 DEF OverlapInv, Past

\* An evaluation inserts a row only after it has seen what came before.
LEMMA EvaluateKeepsOverlap ==
  ASSUME TypeOK, EvalInv, OverlapInv, NEW e \in Evaluators, Evaluate(e)
  PROVE  OverlapInv'
<1>t. OpsType /\ eval \in [Evaluators -> Evaluation] /\ Len(rows) \in Nat
      /\ DOMAIN rows = 1..Len(rows)
  BY TypeParts, LenProperties DEF OpsType
<1>1. ASSUME rows' = rows, NEW v \in Evaluation, eval' = [eval EXCEPT ![e] = v],
             v.pc # "insert"
      PROVE  OverlapInv'
  <2>1. \A f \in Evaluators : eval'[f] = IF f = e THEN v ELSE eval[f]
    BY <1>t, <1>1
  <2> QED
    BY <1>1, <2>1 DEF OverlapInv, Past
<1>2. CASE Look(e)
  <2>1. rows' = rows
    BY <1>2 DEF Look
  <2>2. PICK v \in Evaluation :
           /\ eval' = [eval EXCEPT ![e] = v]
           /\ v.pc = "insert" => v.saw = Len(rows) /\ ~Unresolved(Head(v.todo))
    BY <1>t, <1>2, LookShape
  <2>3. \A f \in Evaluators : eval'[f] = IF f = e THEN v ELSE eval[f]
    BY <1>t, <2>2
  <2>4. v.pc = "insert" =>
           /\ v.saw <= Len(rows)
           /\ \A i \in DOMAIN rows : rows[i].rule = Head(v.todo) => Past(i)
    <3>1. \A i \in DOMAIN rows : rows[i].status \in {"open", "acknowledged", "resolved"}
      BY <1>t, RowType
    <3> QED
      BY <1>t, <2>2, <3>1 DEF Unresolved, Past
  <2> QED
    BY <2>1, <2>3, <2>4 DEF OverlapInv, Past
<1>3. CASE Insert(e)
  <2>1. PICK v \in Evaluation : eval' = [eval EXCEPT ![e] = v] /\ v.pc # "insert"
    BY <1>t, <1>3, InsertShape
  <2>2. \A f \in Evaluators : eval'[f] = IF f = e THEN v ELSE eval[f]
    BY <1>t, <2>1
  <2>3. PICK row \in Row : /\ rows' = Append(rows, row)
                          /\ row.rule = Head(eval[e].todo) /\ row.saw = eval[e].saw
    BY <1>t, <1>3, InsertShape
  <2>4. /\ Len(rows') = Len(rows) + 1 /\ DOMAIN rows' = 1..(Len(rows) + 1)
        /\ \A i \in DOMAIN rows : rows'[i] = rows[i]
        /\ rows'[Len(rows) + 1] = row
    BY <1>t, <2>3 DEF OpsType
  <2>5. /\ eval[e].saw <= Len(rows)
        /\ \A i \in DOMAIN rows : i <= row.saw /\ rows[i].rule = row.rule => Past(i)
    BY <1>3, <2>3 DEF Insert, OverlapInv
  <2>6. \A i, j \in DOMAIN rows' :
           i < j /\ rows'[i].rule = rows'[j].rule /\ i <= rows'[j].saw
           => rows'[i].status = "resolved" \/ rows'[i].reopened
    <3> TAKE i, j \in DOMAIN rows'
    <3>1. CASE j \in DOMAIN rows
      BY <1>t, <2>4, <3>1 DEF OverlapInv, Past
    <3>2. CASE j = Len(rows) + 1
      BY <1>t, <2>4, <2>5, <3>2 DEF Past
    <3> QED
      BY <1>t, <2>4, <3>1, <3>2
  <2>7. \A f \in Evaluators : eval[f].saw \in Nat
    BY <1>t DEF Evaluation
  <2>8. \A f \in Evaluators :
           eval'[f].pc = "insert" =>
               /\ eval'[f].saw <= Len(rows')
               /\ \A i \in DOMAIN rows' :
                     i <= eval'[f].saw /\ rows'[i].rule = Head(eval'[f].todo)
                     => rows'[i].status = "resolved" \/ rows'[i].reopened
    BY <1>t, <2>1, <2>2, <2>4, <2>7 DEF OverlapInv, Past
  <2> QED
    BY <2>6, <2>8 DEF OverlapInv, Past
<1>4. Idle \in Evaluation /\ Idle.pc # "insert"
  BY DEF Idle, Evaluation
<1>5. CASE \E op \in {"analyze", "simulate"}, now \in Times : Detect(e, op, now)
  <2>1. rows' = rows
    BY <1>5 DEF Detect
  <2> QED
    BY <1>t, <1>1, <1>5, <2>1, DetectShape
<1>6. CASE Execute(e) \/ ExecuteFails(e)
  <2>1. rows' = rows
    BY <1>6 DEF Execute, ExecuteFails
  <2> QED
    BY <1>t, <1>1, <1>6, <2>1, ExecuteShape
<1>7. CASE PersistAction(e)
  <2>1. rows' = rows
    BY <1>7 DEF PersistAction
  <2> QED
    BY <1>t, <1>1, <1>7, <2>1, PersistShape
<1>8. CASE FailEvaluation(e)
  BY <1>1, <1>4, <1>8 DEF FailEvaluation
<1> QED
  BY <1>2, <1>3, <1>5, <1>6, <1>7, <1>8 DEF Evaluate

\* No step lets two searches of one rule overlook an unresolved anomaly.
LEMMA OverlapInductive ==
  TypeOK /\ EvalInv /\ OverlapInv /\ [Next]_vars => OverlapInv'
<1> SUFFICES ASSUME TypeOK, EvalInv, OverlapInv, [Next]_vars PROVE OverlapInv'
  OBVIOUS
<1>1. ASSUME NEW i \in DOMAIN rows, Acknowledge(i) \/ Resolve(i) PROVE OverlapInv'
  BY <1>1, OperatorsKeepOverlap
<1>2. ASSUME NEW e \in Evaluators, Evaluate(e) PROVE OverlapInv'
  BY <1>2, EvaluateKeepsOverlap
<1>3. CASE Restart
  BY <1>3 DEF Restart, Idle, OverlapInv, Past
<1>4. ASSUME UNCHANGED <<rows, eval>> PROVE OverlapInv'
  BY <1>4 DEF OverlapInv, Past
<1>5. CASE \/ \E m \in Message : Receive(m)
           \/ UpsertNode \/ UpdateHeartbeat
           \/ FailHandling \/ Scan \/ MarkOffline \/ Tick
           \/ \E c \in Commands : SendCommand(c)
           \/ \E c \in Commands, r \in {"executed", "timeout"} : UpsertCommandResult(c, r)
           \/ \E a \in DOMAIN actions : CancelAction(a)
           \/ UNCHANGED vars
  BY <1>4, <1>5 DEF Receive, UpsertNode, UpdateHeartbeat, Handled, FailHandling, Scan,
                    MarkOffline, Tick, SendCommand, UpsertCommandResult, CancelAction,
                    vars, ops
<1> QED
  BY <1>1, <1>2, <1>3, <1>5 DEF Next, Evaluate

\* Two unresolved anomalies of a rule come only from evaluations that overlap,
\* or from an acknowledgement of a resolved one.
THEOREM Ops005OnlyOverlapIsDoubled == Spec => []OnlyOverlapIsDoubled
<1>1. Init => OverlapInv
  BY DEF Init, OverlapInv, Idle
<1>2. TypeOK /\ OverlapInv => OnlyOverlapIsDoubled
  <2> SUFFICES ASSUME TypeOK, OverlapInv PROVE OnlyOverlapIsDoubled
    OBVIOUS
  <2>1. rows \in Seq(Row) /\ DOMAIN rows = 1..Len(rows) /\ Len(rows) \in Nat
    BY TypeParts, LenProperties DEF OpsType
  <2>2. \A i \in DOMAIN rows : rows[i].saw \in Nat
    BY TypeParts, RowType
  <2> QED
    BY <2>1, <2>2 DEF OverlapInv, OnlyOverlapIsDoubled, Past
<1> QED
  BY <1>1, <1>2, InitialTypes, TypeInductive, OverlapInductive, PTL DEF Spec

-----------------------------------------------------------------------------
(* Healing                                                                  *)

Found(e) == 1..Len(eval[e].found)

\* An anomaly that somebody has still to heal is held once, was inserted by
\* that evaluation, and has no action; no anomaly has two; what an analysis
\* inserted is cut off, still held, or acted on.
HealInv ==
    /\ \A e, f \in Evaluators : \A p \in Found(e), q \in Found(f) :
          eval[e].found[p] = eval[f].found[q] => e = f /\ p = q
    /\ \A e \in Evaluators : \A p \in Found(e) :
          /\ rows[eval[e].found[p]].by = eval[e].op
          /\ eval[e].found[p] \notin cut
          /\ \A a \in DOMAIN actions : actions[a].anomaly # eval[e].found[p]
    /\ \A a, b \in DOMAIN actions : actions[a].anomaly = actions[b].anomaly => a = b
    /\ \A i \in DOMAIN rows :
          rows[i].by = "analyze" /\ i \notin cut =>
              \/ \E e \in Evaluators : \E p \in Found(e) : eval[e].found[p] = i
              \/ \E a \in DOMAIN actions : actions[a].anomaly = i

\* What the steps of an evaluation rest on.
LEMMA HealFacts ==
  ASSUME TypeOK, EvalInv
  PROVE  /\ OpsType /\ eval \in [Evaluators -> Evaluation]
         /\ Len(rows) \in Nat /\ DOMAIN rows = 1..Len(rows)
         /\ cut \subseteq 1..Len(rows)
         /\ Len(actions) \in Nat /\ DOMAIN actions = 1..Len(actions)
         /\ \A a \in DOMAIN actions : actions[a].anomaly \in 1..Len(rows)
         /\ \A f \in Evaluators :
               /\ eval[f].found \in Seq(Nat \ {0}) /\ Len(eval[f].found) \in Nat
               /\ DOMAIN eval[f].found = Found(f)
               /\ \A p \in Found(f) : eval[f].found[p] \in 1..Len(rows)
<1>1. OpsType /\ eval \in [Evaluators -> Evaluation]
  BY TypeParts DEF OpsType
<1>2. Len(rows) \in Nat /\ DOMAIN rows = 1..Len(rows) /\ cut \subseteq 1..Len(rows)
  BY <1>1, LenProperties DEF OpsType
<1>3. Len(actions) \in Nat /\ DOMAIN actions = 1..Len(actions)
  BY <1>1, LenProperties DEF OpsType
<1>4. ASSUME NEW a \in DOMAIN actions PROVE actions[a].anomaly \in 1..Len(rows)
  <2>1. actions[a] \in [anomaly : DOMAIN rows, status : {"executed", "failed", "cancelled"}]
    BY <1>1, <1>3, ElementOfSeq DEF OpsType
  <2> QED
    BY <1>2, <2>1
<1>5. ASSUME NEW f \in Evaluators
      PROVE  /\ eval[f].found \in Seq(Nat \ {0}) /\ Len(eval[f].found) \in Nat
             /\ DOMAIN eval[f].found = Found(f)
             /\ \A p \in Found(f) : eval[f].found[p] \in 1..Len(rows)
  <2>1. eval[f].found \in Seq(Nat \ {0})
    BY <1>1 DEF Evaluation
  <2> QED
    BY <2>1, LenProperties DEF EvalInv, Found
<1> QED
  BY <1>1, <1>2, <1>3, <1>4, <1>5

\* An evaluation that keeps what it found, or had nothing an analysis found,
\* disturbs no promise.
LEMMA HealKept ==
  ASSUME TypeOK, EvalInv, HealInv, NEW e \in Evaluators, NEW v \in Evaluation,
         eval' = [eval EXCEPT ![e] = v], UNCHANGED <<rows, actions, cut>>,
         \/ v.found = eval[e].found /\ v.op = eval[e].op
         \/ v.found = <<>> /\ (eval[e].op = "simulate" \/ eval[e].found = <<>>)
  PROVE  HealInv'
<1>1. \A f \in Evaluators : eval'[f] = IF f = e THEN v ELSE eval[f]
  BY HealFacts
<1>2. CASE v.found = eval[e].found /\ v.op = eval[e].op
  BY <1>1, <1>2 DEF HealInv, Found
<1>3. CASE v.found = <<>> /\ (eval[e].op = "simulate" \/ eval[e].found = <<>>)
  <2>1. \A p \in 1..Len(v.found) : FALSE
    BY <1>3
  <2>2. \A p \in Found(e) : rows[eval[e].found[p]].by # "analyze"
    BY <1>3 DEF HealInv, Found
  <2> QED
    BY <1>1, <2>1, <2>2 DEF HealInv, Found
<1> QED
  BY <1>2, <1>3

\* The row that is inserted is new to every evaluation and every action.
LEMMA HealInsert ==
  ASSUME TypeOK, EvalInv, HealInv, NEW e \in Evaluators, Insert(e)
  PROVE  HealInv'
<1> DEFINE n == Len(rows) + 1
<1>t. OpsType /\ Len(rows) \in Nat /\ DOMAIN rows = 1..Len(rows) /\ n \notin 1..Len(rows)
  BY HealFacts
<1>1. PICK row \in Row : rows' = Append(rows, row) /\ row.by = eval[e].op
  BY <1>t, InsertShape
<1>2. /\ DOMAIN rows' = 1..n /\ rows'[n] = row
      /\ \A i \in 1..Len(rows) : rows'[i] = rows[i]
  BY <1>t, <1>1 DEF OpsType
<1>3. UNCHANGED <<actions, cut>>
  BY DEF Insert
<1>4. PICK v \in Evaluation :
         /\ eval' = [eval EXCEPT ![e] = v]
         /\ \/ v = Idle /\ eval[e].op = "simulate"
            \/ v.found = Append(eval[e].found, n) /\ v.op = eval[e].op
  BY <1>t, InsertShape
<1>5. \A f \in Evaluators : eval'[f] = IF f = e THEN v ELSE eval[f]
  BY <1>4, HealFacts
<1> HIDE DEF n
<1>6. CASE v = Idle /\ eval[e].op = "simulate"
  <2>1. \A p \in 1..Len(v.found) : FALSE
    BY <1>6 DEF Idle
  <2>2. \A p \in Found(e) : rows[eval[e].found[p]].by # "analyze"
    BY <1>6 DEF HealInv, Found
  <2>3. \A f \in Evaluators \ {e} : eval'[f] = eval[f]
    BY <1>5
  <2>4. eval'[e] = v
    BY <1>5
  <2>5. \A i \in DOMAIN rows' : rows'[i].by = "analyze" => i \in DOMAIN rows
    BY <1>t, <1>1, <1>2, <1>6 DEF n
  <2>6. \A f \in Evaluators : \A p \in 1..Len(eval'[f].found) :
           f # e /\ p \in Found(f) /\ eval'[f] = eval[f]
    BY <2>1, <2>3, <2>4 DEF Found
  <2>7. \A f \in Evaluators : \A p \in Found(f) :
           rows'[eval[f].found[p]] = rows[eval[f].found[p]]
    BY <1>2, HealFacts
  <2>8. ASSUME NEW i \in DOMAIN rows', rows'[i].by = "analyze", i \notin cut'
        PROVE  \/ \E f \in Evaluators : \E p \in 1..Len(eval'[f].found) : eval'[f].found[p] = i
               \/ \E a \in DOMAIN actions' : actions'[a].anomaly = i
    <3>1. i \in DOMAIN rows /\ rows[i].by = "analyze" /\ i \notin cut
      BY <1>t, <1>2, <1>3, <2>5, <2>8
    <3>2. \A f \in Evaluators : \A p \in Found(f) : eval[f].found[p] = i => f # e
      BY <2>2, <3>1
    <3> QED
      BY <1>3, <2>3, <3>1, <3>2 DEF HealInv, Found
  <2>9. \A f, g \in Evaluators : \A p \in 1..Len(eval'[f].found), q \in 1..Len(eval'[g].found) :
           eval'[f].found[p] = eval'[g].found[q] => f = g /\ p = q
    BY <2>6 DEF HealInv
  <2>10. \A f \in Evaluators : \A p \in 1..Len(eval'[f].found) :
            /\ rows'[eval'[f].found[p]].by = eval'[f].op
            /\ eval'[f].found[p] \notin cut
            /\ \A a \in DOMAIN actions : actions[a].anomaly # eval'[f].found[p]
    BY <2>6, <2>7 DEF HealInv
  <2> QED
    BY <1>3, <2>8, <2>9, <2>10 DEF HealInv, Found
<1>7. CASE v.found = Append(eval[e].found, n) /\ v.op = eval[e].op
  <2> DEFINE k == Len(eval[e].found)
  <2>1. /\ Len(v.found) = k + 1 /\ k \in Nat /\ v.found[k + 1] = n
        /\ \A p \in 1..k : v.found[p] = eval[e].found[p]
        /\ Found(e) = 1..k
    BY <1>7, HealFacts DEF Found
  <2> HIDE DEF k
  <2>2. n \notin cut /\ \A a \in DOMAIN actions : actions[a].anomaly # n
    BY <1>t, HealFacts
  <2>3. \A f \in Evaluators : \A p \in Found(f) : eval[f].found[p] # n
    BY <1>t, HealFacts
  <2>4. \A p \in 1..Len(v.found) :
           \/ p \in Found(e) /\ v.found[p] = eval[e].found[p]
           \/ p = k + 1 /\ v.found[p] = n
    BY <2>1
  <2>5. ASSUME NEW f \in Evaluators, NEW g \in Evaluators,
               NEW p \in 1..Len(eval'[f].found), NEW q \in 1..Len(eval'[g].found),
               eval'[f].found[p] = eval'[g].found[q]
        PROVE  f = g /\ p = q
    <3>1. \/ p \in Found(f) /\ eval'[f].found[p] = eval[f].found[p]
          \/ f = e /\ p = k + 1 /\ eval'[f].found[p] = n
      BY <1>5, <2>4, <2>5 DEF Found
    <3>2. \/ q \in Found(g) /\ eval'[g].found[q] = eval[g].found[q]
          \/ g = e /\ q = k + 1 /\ eval'[g].found[q] = n
      BY <1>5, <2>4, <2>5 DEF Found
    <3> QED
      BY <2>3, <2>5, <3>1, <3>2 DEF HealInv
  <2>6. ASSUME NEW f \in Evaluators, NEW p \in 1..Len(eval'[f].found)
        PROVE  /\ rows'[eval'[f].found[p]].by = eval'[f].op
               /\ eval'[f].found[p] \notin cut'
               /\ \A a \in DOMAIN actions' : actions'[a].anomaly # eval'[f].found[p]
    <3>1. CASE f # e \/ p # k + 1
      <4>1. p \in Found(f) /\ eval'[f].found[p] = eval[f].found[p] /\ eval'[f].op = eval[f].op
        BY <1>5, <1>7, <2>4, <2>6, <3>1 DEF Found
      <4> QED
        BY <1>2, <1>3, <4>1, HealFacts DEF HealInv
    <3>2. CASE f = e /\ p = k + 1
      BY <1>1, <1>2, <1>3, <1>5, <1>7, <2>1, <2>2, <3>2
    <3> QED
      BY <3>1, <3>2
  <2>7. ASSUME NEW i \in DOMAIN rows', rows'[i].by = "analyze", i \notin cut'
        PROVE  \/ \E f \in Evaluators : \E p \in 1..Len(eval'[f].found) : eval'[f].found[p] = i
               \/ \E a \in DOMAIN actions' : actions'[a].anomaly = i
    <3>1. CASE i = n
      <4>1. k + 1 \in 1..Len(eval'[e].found) /\ eval'[e].found[k + 1] = n
        BY <1>5, <2>1
      <4> QED
        BY <3>1, <4>1
    <3>2. CASE i \in DOMAIN rows
      <4>1. \A f \in Evaluators : \A p \in Found(f) :
               p \in 1..Len(eval'[f].found) /\ eval'[f].found[p] = eval[f].found[p]
        BY <1>5, <2>1 DEF Found
      <4> QED
        BY <1>2, <1>3, <1>t, <2>7, <3>2, <4>1 DEF HealInv
    <3> QED
      BY <1>t, <1>2, <3>1, <3>2 DEF n
  <2> QED
    BY <1>3, <2>5, <2>6, <2>7 DEF HealInv, Found
<1> QED
  BY <1>4, <1>6, <1>7

\* An action takes over what the evaluation held first.
LEMMA HealPersist ==
  ASSUME TypeOK, EvalInv, HealInv, NEW e \in Evaluators, PersistAction(e)
  PROVE  HealInv'
<1> DEFINE found == eval[e].found
           h == Head(found)
           k == Len(actions) + 1
<1>t. OpsType /\ eval \in [Evaluators -> Evaluation]
  BY HealFacts
<1>1. /\ found \in Seq(Nat \ {0}) /\ found # <<>>
      /\ Len(found) \in Nat /\ Len(found) # 0 /\ Found(e) = 1..Len(found)
  BY HealFacts, PersistShape DEF Found
<1>2. /\ Len(Tail(found)) = Len(found) - 1 /\ h = found[1] /\ 1 \in Found(e)
      /\ \A p \in 1..Len(Tail(found)) : Tail(found)[p] = found[p + 1] /\ p + 1 \in Found(e)
  BY <1>1, HeadTailProperties DEF Found
<1>3. UNCHANGED <<rows, cut>>
  BY DEF PersistAction
<1>4. PICK v \in Evaluation :
         /\ eval' = [eval EXCEPT ![e] = v] /\ v.found = Tail(found)
         /\ v = Idle \/ v.op = eval[e].op
  BY <1>t, PersistShape
<1>5. \A f \in Evaluators : eval'[f] = IF f = e THEN v ELSE eval[f]
  BY <1>t, <1>4
<1>6. /\ DOMAIN actions' = 1..k /\ actions'[k].anomaly = h
      /\ \A a \in DOMAIN actions : actions'[a] = actions[a]
      /\ DOMAIN actions = 1..(k - 1) /\ k \in Nat \ {0}
  BY <1>t, HealFacts DEF PersistAction, OpsType
<1> HIDE DEF k, h, found
<1>7. \A f \in Evaluators : \A p \in 1..Len(eval'[f].found) :
         \/ f # e /\ p \in Found(f) /\ eval'[f].found[p] = eval[f].found[p]
            /\ eval'[f].op = eval[f].op
         \/ /\ f = e /\ p + 1 \in Found(e) /\ eval'[e].found[p] = eval[e].found[p + 1]
            /\ eval'[e].op = eval[e].op /\ p \in Nat \ {0}
  <2>1. Idle.found = <<>>
    BY DEF Idle
  <2>2. v = Idle => \A p \in 1..Len(v.found) : FALSE
    BY <2>1
  <2> TAKE f \in Evaluators
  <2>3. CASE f # e
    BY <1>5, <2>3 DEF Found
  <2>4. CASE f = e
    <3>1. \A p \in 1..Len(v.found) : /\ p + 1 \in Found(e) /\ p \in Nat \ {0}
                                    /\ v.found[p] = eval[e].found[p + 1]
      <4>1. v.found = Tail(found)
        BY <1>4
      <4>2. \A p \in 1..Len(Tail(found)) : p \in Nat \ {0}
        BY <1>1, <1>2
      <4> QED
        BY <1>2, <4>1, <4>2 DEF found
    <3> QED
      BY <1>4, <1>5, <2>2, <2>4, <3>1
  <2> QED
    BY <2>3, <2>4
<1>8. \A f \in Evaluators : \A p \in 1..Len(eval'[f].found) : eval'[f].found[p] # h
  BY <1>2, <1>7 DEF HealInv, found
<1>9. /\ h \notin cut
      /\ \A a \in DOMAIN actions : actions[a].anomaly # h
  BY <1>2 DEF HealInv, found
<1>10. ASSUME NEW f \in Evaluators, NEW g \in Evaluators,
              NEW p \in 1..Len(eval'[f].found), NEW q \in 1..Len(eval'[g].found),
              eval'[f].found[p] = eval'[g].found[q]
       PROVE  f = g /\ p = q
  BY <1>7, <1>10 DEF HealInv
<1>11. ASSUME NEW f \in Evaluators, NEW p \in 1..Len(eval'[f].found)
       PROVE  /\ rows'[eval'[f].found[p]].by = eval'[f].op
              /\ eval'[f].found[p] \notin cut'
              /\ \A a \in DOMAIN actions' : actions'[a].anomaly # eval'[f].found[p]
  <2>1. /\ rows[eval'[f].found[p]].by = eval'[f].op
        /\ eval'[f].found[p] \notin cut
        /\ \A a \in DOMAIN actions : actions[a].anomaly # eval'[f].found[p]
    <3>1. \E q \in Found(f) :
             eval'[f].found[p] = eval[f].found[q] /\ eval'[f].op = eval[f].op
      BY <1>7, <1>11
    <3>2. \A q \in Found(f) :
             /\ rows[eval[f].found[q]].by = eval[f].op
             /\ eval[f].found[q] \notin cut
             /\ \A a \in DOMAIN actions : actions[a].anomaly # eval[f].found[q]
      BY <1>11 DEF HealInv
    <3> QED
      BY ONLY <3>1, <3>2
  <2>2. \A a \in DOMAIN actions' : a \in DOMAIN actions \/ a = k
    BY <1>6
  <2>3. \A a \in DOMAIN actions' : actions'[a].anomaly # eval'[f].found[p]
    BY ONLY <1>6, <1>8, <1>11, <2>1, <2>2
  <2> QED
    BY ONLY <1>3, <2>1, <2>3
<1>12. ASSUME NEW a \in DOMAIN actions', NEW b \in DOMAIN actions',
              actions'[a].anomaly = actions'[b].anomaly
       PROVE  a = b
  BY <1>6, <1>9, <1>12 DEF HealInv
<1>13. ASSUME NEW i \in DOMAIN rows', rows'[i].by = "analyze", i \notin cut'
       PROVE  \/ \E f \in Evaluators : \E p \in 1..Len(eval'[f].found) : eval'[f].found[p] = i
              \/ \E a \in DOMAIN actions' : actions'[a].anomaly = i
  <2>1. CASE i = h
    <3>1. k \in DOMAIN actions'
      BY <1>6
    <3> QED
      BY <1>6, <2>1, <3>1
  <2>2. ASSUME NEW a \in DOMAIN actions, actions[a].anomaly = i
        PROVE  \E b \in DOMAIN actions' : actions'[b].anomaly = i
    BY <1>6, <2>2
  <2>3. ASSUME NEW f \in Evaluators, NEW p \in Found(f), eval[f].found[p] = i, i # h
        PROVE  \E g \in Evaluators : \E q \in 1..Len(eval'[g].found) : eval'[g].found[q] = i
    <3>1. CASE f = e
      <4>1. p - 1 \in 1..Len(Tail(found)) /\ Tail(found)[p - 1] = i
        BY <1>1, <1>2, <2>3, <3>1 DEF Found, found
      <4>2. eval'[e].found = Tail(found)
        BY <1>4, <1>5
      <4> QED
        BY <4>1, <4>2
    <3>2. CASE f # e
      BY <1>5, <2>3, <3>2 DEF Found
    <3> QED
      BY <3>1, <3>2
  <2> QED
    BY <1>3, <1>13, <2>1, <2>2, <2>3 DEF HealInv
<1> QED
  BY <1>10, <1>11, <1>12, <1>13 DEF HealInv, Found

\* What an evaluation still held when it is cut off counts as cut off.
LEMMA HealCut ==
  ASSUME TypeOK, EvalInv, HealInv, NEW E \in SUBSET Evaluators,
         eval' = [e \in Evaluators |-> IF e \in E THEN Idle ELSE eval[e]],
         cut' = cut \cup UNION {ToSet(eval[e].found) : e \in E},
         UNCHANGED <<rows, actions>>
  PROVE  HealInv'
<1>1. \A i : i \in cut' <=> i \in cut \/ \E e \in E : \E p \in Found(e) : eval[e].found[p] = i
  BY HealFacts DEF ToSet
<1>2. \A e \in Evaluators : \A p \in 1..Len(eval'[e].found) :
         e \notin E /\ p \in Found(e) /\ eval'[e] = eval[e]
  <2>1. \A p \in 1..Len(Idle.found) : FALSE
    BY DEF Idle
  <2> QED
    BY <2>1 DEF Found
<1>3. \A e \in Evaluators \ E : eval'[e] = eval[e]
  OBVIOUS
<1>4. \A e \in Evaluators \ E : \A p \in Found(e) : eval[e].found[p] \notin cut'
  BY <1>1 DEF HealInv
<1>5. \A f, g \in Evaluators : \A p \in 1..Len(eval'[f].found), q \in 1..Len(eval'[g].found) :
         eval'[f].found[p] = eval'[g].found[q] => f = g /\ p = q
  BY <1>2 DEF HealInv
<1>6. \A e \in Evaluators : \A p \in 1..Len(eval'[e].found) :
         /\ rows[eval'[e].found[p]].by = eval'[e].op
         /\ eval'[e].found[p] \notin cut'
         /\ \A a \in DOMAIN actions : actions[a].anomaly # eval'[e].found[p]
  BY <1>2, <1>4 DEF HealInv
<1>7. ASSUME NEW i \in DOMAIN rows, rows[i].by = "analyze", i \notin cut'
      PROVE  \/ \E e \in Evaluators : \E p \in 1..Len(eval'[e].found) : eval'[e].found[p] = i
             \/ \E a \in DOMAIN actions : actions[a].anomaly = i
  BY <1>1, <1>3, <1>7 DEF HealInv, Found
<1> QED
  BY <1>5, <1>6, <1>7 DEF HealInv, Found

\* Every step of an evaluation passes an anomaly on or acts on it.
LEMMA EvaluateHeals ==
  ASSUME TypeOK, EvalInv, HealInv, NEW e \in Evaluators, Evaluate(e)
  PROVE  HealInv'
<1>t. OpsType /\ eval \in [Evaluators -> Evaluation]
  BY HealFacts
<1>0. Idle.found = <<>> /\ Idle \in Evaluation
  BY DEF Idle, Evaluation
<1>1. ASSUME NEW op \in {"analyze", "simulate"}, NEW now \in Times, Detect(e, op, now)
      PROVE  HealInv'
  <2>1. eval[e].found = <<>> /\ UNCHANGED <<rows, actions, cut>>
    BY <1>0, <1>1 DEF Detect
  <2> QED
    BY <1>t, <1>1, <2>1, DetectShape, HealKept
<1>2. CASE Look(e)
  <2>1. UNCHANGED <<rows, actions, cut>>
    BY <1>2 DEF Look
  <2> QED
    BY <1>t, <1>0, <1>2, <2>1, LookShape, HealKept
<1>3. CASE Insert(e)
  BY <1>3, HealInsert
<1>4. CASE Execute(e) \/ ExecuteFails(e)
  <2>1. UNCHANGED <<rows, actions, cut>>
    BY <1>4 DEF Execute, ExecuteFails
  <2> QED
    BY <1>t, <1>4, <2>1, ExecuteShape, HealKept
<1>5. CASE PersistAction(e)
  BY <1>5, HealPersist
<1>6. CASE FailEvaluation(e)
  <2>1. UNION {ToSet(eval[f].found) : f \in {e}} = ToSet(eval[e].found)
    OBVIOUS
  <2>2. eval' = [f \in Evaluators |-> IF f \in {e} THEN Idle ELSE eval[f]]
    BY <1>t, <1>6 DEF FailEvaluation
  <2>3. {e} \in SUBSET Evaluators /\ UNCHANGED <<rows, actions>>
    BY <1>6 DEF FailEvaluation
  <2>4. cut' = cut \cup UNION {ToSet(eval[f].found) : f \in {e}}
    BY <1>6, <2>1 DEF FailEvaluation
  <2> QED
    BY <2>2, <2>3, <2>4, HealCut
<1> QED
  BY <1>1, <1>2, <1>3, <1>4, <1>5, <1>6 DEF Evaluate

\* Nobody else takes an anomaly from an evaluation, or acts on it.
LEMMA HealInductive == TypeOK /\ EvalInv /\ HealInv /\ [Next]_vars => HealInv'
<1> SUFFICES ASSUME TypeOK, EvalInv, HealInv, [Next]_vars PROVE HealInv'
  OBVIOUS
<1>1. ASSUME NEW e \in Evaluators, Evaluate(e) PROVE HealInv'
  BY <1>1, EvaluateHeals
<1>2. CASE Restart
  <2>1. eval' = [e \in Evaluators |-> IF e \in Evaluators THEN Idle ELSE eval[e]]
    BY <1>2 DEF Restart
  <2>2. /\ Evaluators \in SUBSET Evaluators /\ UNCHANGED <<rows, actions>>
        /\ cut' = cut \cup UNION {ToSet(eval[e].found) : e \in Evaluators}
    BY <1>2 DEF Restart
  <2> QED
    BY <2>1, <2>2, HealCut
<1>3. ASSUME NEW i \in DOMAIN rows, Acknowledge(i) \/ Resolve(i) PROVE HealInv'
  <2>1. UNCHANGED <<eval, actions, cut>>
    BY <1>3 DEF Acknowledge, Resolve
  <2>2. DOMAIN rows' = DOMAIN rows /\ \A j \in DOMAIN rows : rows'[j].by = rows[j].by
    BY <1>3, HealFacts, OperatorShape
  <2>3. \A e \in Evaluators : \A p \in Found(e) : eval[e].found[p] \in DOMAIN rows
    BY HealFacts
  <2> QED
    BY <2>1, <2>2, <2>3 DEF HealInv, Found
<1>4. ASSUME NEW a \in DOMAIN actions, CancelAction(a) PROVE HealInv'
  <2>1. UNCHANGED <<eval, rows, cut>>
    BY <1>4 DEF CancelAction
  <2>2. DOMAIN actions' = DOMAIN actions
        /\ \A b \in DOMAIN actions : actions'[b].anomaly = actions[b].anomaly
    <3>1. actions[a] \in [anomaly : DOMAIN rows, status : {"executed", "failed", "cancelled"}]
      BY HealFacts, ElementOfSeq DEF OpsType
    <3> QED
      BY <1>4, <3>1 DEF CancelAction
  <2> QED
    BY <2>1, <2>2 DEF HealInv, Found
<1>5. ASSUME UNCHANGED <<rows, eval, actions, cut>> PROVE HealInv'
  BY <1>5 DEF HealInv, Found
<1>6. CASE \/ \E m \in Message : Receive(m)
           \/ UpsertNode \/ UpdateHeartbeat
           \/ FailHandling \/ Scan \/ MarkOffline \/ Tick
           \/ \E c \in Commands : SendCommand(c)
           \/ \E c \in Commands, r \in {"executed", "timeout"} : UpsertCommandResult(c, r)
           \/ UNCHANGED vars
  BY <1>5, <1>6 DEF Receive, UpsertNode, UpdateHeartbeat, Handled, FailHandling, Scan,
                    MarkOffline, Tick, SendCommand, UpsertCommandResult, vars, ops
<1> QED
  BY <1>1, <1>2, <1>3, <1>4, <1>6 DEF Next, Evaluate

\* What has one element at most has at most the cardinality 1.
LEMMA AtMostOne ==
  ASSUME NEW S, \A x, y \in S : x = y
  PROVE  Cardinality(S) = IF S = {} THEN 0 ELSE 1
<1>1. CASE S = {}
  BY <1>1, FS_EmptySet
<1>2. CASE S # {}
  <2>1. PICK x : S = {x}
    BY <1>2
  <2> QED
    BY <2>1, FS_Singleton
<1> QED
  BY <1>1, <1>2

\* An anomaly that an analysis inserted gets exactly one action, unless the
\* analysis is under way or was cut off.
THEOREM Ops005HealedExactlyOnce == Spec => []HealedExactlyOnce
<1>1. Init => HealInv
  BY DEF Init, HealInv, Found, Idle
<1>2. TypeOK /\ EvalInv /\ HealInv => HealedExactlyOnce
  <2> SUFFICES ASSUME TypeOK, EvalInv, HealInv, NEW i \in DOMAIN rows
               PROVE  LET acted == {a \in DOMAIN actions : actions[a].anomaly = i}
                          held  == {e \in Evaluators : i \in ToSet(eval[e].found)}
                      IN  /\ Cardinality(acted) <= 1
                          /\ rows[i].by = "analyze" /\ i \notin cut
                             => Cardinality(acted) + Cardinality(held) = 1
    BY DEF HealedExactlyOnce
  <2> DEFINE acted == {a \in DOMAIN actions : actions[a].anomaly = i}
             held  == {e \in Evaluators : i \in ToSet(eval[e].found)}
  <2>1. \A e \in Evaluators : e \in held <=> \E p \in Found(e) : eval[e].found[p] = i
    BY HealFacts DEF ToSet
  <2>2. Cardinality(acted) = IF acted = {} THEN 0 ELSE 1
    BY AtMostOne DEF HealInv
  <2>3. Cardinality(held) = IF held = {} THEN 0 ELSE 1
    BY <2>1, AtMostOne DEF HealInv
  <2>4. acted = {} \/ held = {}
    BY <2>1 DEF HealInv
  <2>5. rows[i].by = "analyze" /\ i \notin cut => acted # {} \/ held # {}
    BY <2>1 DEF HealInv
  <2> QED
    BY <2>2, <2>3, <2>4, <2>5
<1> QED
  BY <1>1, <1>2, InitialTypes, TypeInductive, HealInductive, PTL DEF Spec
=============================================================================
