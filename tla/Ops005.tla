------------------------------- MODULE Ops005 ------------------------------
(***************************************************************************)
(* The CNP-OPS-005 gateway and one node: the MQTT bridge and the offline   *)
(* watcher write the node's row and its fleet events, analyses read them,  *)
(* persist the anomalies they find and heal them, and operators            *)
(* acknowledge, resolve and cancel.                                        *)
(*                                                                         *)
(* Every function opens its own connection, and a SELECT is outside the    *)
(* transaction of the write that follows: reading and writing are two      *)
(* steps.  The score that an analysis stores at its end, and the events,   *)
(* errors and acks that no rule reads, are left out.                       *)
(***************************************************************************)
EXTENDS Integers, Sequences, FiniteSets, SequencesExt

CONSTANTS
    Evaluators,   \* tasks that analyse the node or simulate a rule
    Commands,     \* the commands sent to the node
    Reports,      \* the statuses that heartbeats carry: nothing checks them
    Beats,        \* the heartbeats: [queue, heap, weak, status]
    OfflineAfter, \* offline_after_seconds
    Hits,         \* A-001: consecutive_hits
    HeapMin,      \* A-002: the least number of values
    HeapLast,     \* A-002: the values looked at
    RssiWindow,   \* A-003: window_sec
    RssiMin,      \* A-003: min_samples
    LagMax,       \* A-004: ops_command_lag_threshold_ms
    LagMin,       \* A-004: min_samples
    FlapWindow,   \* A-005: window_sec
    Flaps,        \* A-005: transitions
    Grace,        \* retire_stale_commands: grace_minutes
    NoMessage,    \* the bridge is not handling a message
    MaxClock,     \* bound: the clock
    MaxMessages,  \* bound: hellos, heartbeats and results
    MaxEvals,     \* bound: evaluations
    MaxOperations, \* bound: calls of acknowledge, resolve and cancel
    MaxFaults     \* bound: errors that end a task or an evaluation, restarts

Times == 0..MaxClock
Beat == [queue : BOOLEAN, heap : Nat, weak : BOOLEAN, status : Reports]

ASSUME OpsAssumption ==
    /\ Beats \subseteq Beat /\ "absent" \notin Reports
    /\ OfflineAfter \in Nat /\ RssiWindow \in Nat /\ LagMax \in Nat
    /\ FlapWindow \in Nat /\ Grace \in Nat
    /\ Hits \in Nat \ {0} /\ HeapMin \in Nat /\ HeapLast \in Nat
    /\ RssiMin \in Nat /\ LagMin \in Nat \ {0} /\ Flaps \in Nat \ {0}
    /\ MaxClock \in Nat /\ MaxMessages \in Nat /\ MaxEvals \in Nat
    /\ MaxOperations \in Nat /\ MaxFaults \in Nat

Statuses == {"absent", "online", "degraded", "offline"} \cup Reports
Rules == {"A-001", "A-002", "A-003", "A-004", "A-005"}
Hello == [kind : {"hello"}, at : Times]
Heartbeat == [kind : {"heartbeat"}, at : Times, beat : Beats]
Message == Hello \cup Heartbeat
ASSUME NoMessageAssumption == NoMessage \notin Message

VARIABLES
    clock,    \* the gateway's and the node's clock
    status,   \* nodes.status, "absent" before the first hello
    seen,     \* nodes.last_seen_utc
    beats,    \* heartbeats, the newest first
    fleet,    \* fleet_events of the node, in the order of their commits
    command,  \* command[c]: the row of commands
    bridge,   \* the message being handled, and the status it found
    alive,    \* the bridge's task is running
    late,     \* the watcher has read a row that has timed out
    eval,     \* eval[e]: the evaluation of e
    rows,     \* ops_anomalies
    actions,  \* ops_reflex_actions
    cut,      \* rows whose evaluation was cut off by an error or a stop (history)
    count     \* messages, evaluations, operations and faults so far

vars == <<clock, status, seen, beats, fleet, command, bridge, alive, late,
          eval, rows, actions, cut, count>>
node == <<status, seen, fleet>>
gateway == <<bridge, alive, late>>
ops == <<eval, rows, actions, cut>>

Idle == [op |-> "none", pc |-> "idle", todo |-> <<>>, saw |-> 0, found |-> <<>>]
Evaluation == [op : {"none", "analyze", "simulate"},
               pc : {"idle", "look", "insert", "heal", "executed", "failed"},
               todo : Seq(Rules), saw : Nat, found : Seq(Nat \ {0})]

\* The type invariant: tables, tasks and evaluations; an idle evaluator holds nothing.
TypeOK ==
    /\ clock \in Times
    /\ status \in Statuses
    /\ seen \in Times
    /\ beats \in Seq([at : Times, beat : Beats])
    /\ fleet \in Seq([event : {"node_online", "node_offline"}, at : Times])
    /\ command \in [Commands ->
          [status : {"none", "queued", "executed", "timeout", "retired"},
           issued : Times, completed : Times]]
    /\ bridge \in [msg : Message \cup {NoMessage}, before : Statuses]
    /\ alive \in BOOLEAN /\ late \in BOOLEAN
    /\ eval \in [Evaluators -> Evaluation]
    /\ \A e \in Evaluators : eval[e].pc = "idle" => eval[e] = Idle
    /\ rows \in Seq([rule : Rules, status : {"open", "acknowledged", "resolved"},
                     by : {"analyze", "simulate"}, saw : Nat, reopened : BOOLEAN])
    /\ actions \in Seq([anomaly : DOMAIN rows,
                        status : {"executed", "failed", "cancelled"}])
    /\ cut \subseteq DOMAIN rows
    /\ count \in [messages : 0..MaxMessages, evals : 0..MaxEvals,
                  operations : 0..MaxOperations, faults : 0..MaxFaults]

Init ==
    /\ clock = 0 /\ status = "absent" /\ seen = 0
    /\ beats = <<>> /\ fleet = <<>>
    /\ command = [c \in Commands |->
                    [status |-> "none", issued |-> 0, completed |-> 0]]
    /\ bridge = [msg |-> NoMessage, before |-> "absent"]
    /\ alive = TRUE /\ late = FALSE
    /\ eval = [e \in Evaluators |-> Idle]
    /\ rows = <<>> /\ actions = <<>> /\ cut = {}
    /\ count = [messages |-> 0, evals |-> 0, operations |-> 0,
                faults |-> 0]

Fault ==
    /\ count.faults < MaxFaults
    /\ count' = [count EXCEPT !.faults = @ + 1]

FleetEvent(event, at) == fleet' = Append(fleet, [event |-> event, at |-> at])

-----------------------------------------------------------------------------
(* GatewayMqttBridge: one message after the other                           *)

\* The SELECT of upsert_node and update_heartbeat.
Receive(m) ==
    /\ alive /\ bridge.msg = NoMessage
    /\ count.messages < MaxMessages
    /\ m.at = clock
    /\ bridge' = [msg |-> m, before |-> status]
    /\ count' = [count EXCEPT !.messages = @ + 1]
    /\ UNCHANGED <<clock, node, beats, command, alive, late, ops>>

\* Only CancelledError and MqttError are caught: what _handle cannot read, or
\* a database that stays locked, ends the task.
FailHandling ==
    /\ Fault
    /\ alive /\ alive' = FALSE
    /\ bridge' = [msg |-> NoMessage, before |-> "absent"]
    /\ UNCHANGED <<clock, node, beats, command, late, ops>>

Handled ==
    /\ bridge' = [msg |-> NoMessage, before |-> "absent"]
    /\ UNCHANGED <<clock, command, alive, late, ops, count>>

UpsertNode ==
    /\ bridge.msg # NoMessage /\ bridge.msg.kind = "hello"
    /\ status' = "online" /\ seen' = bridge.msg.at
    /\ IF bridge.before # "online"
       THEN FleetEvent("node_online", bridge.msg.at) ELSE UNCHANGED fleet
    /\ UNCHANGED beats
    /\ Handled

\* A heartbeat of an unknown node is kept: no foreign key is enforced.
UpdateHeartbeat ==
    /\ bridge.msg # NoMessage /\ bridge.msg.kind = "heartbeat"
    /\ beats' = <<[at |-> bridge.msg.at, beat |-> bridge.msg.beat]>> \o beats
    /\ IF status = "absent"
       THEN UNCHANGED <<status, seen>>
       ELSE status' = bridge.msg.beat.status /\ seen' = bridge.msg.at
    /\ IF bridge.before = "offline" /\ bridge.msg.beat.status = "online"
       THEN FleetEvent("node_online", bridge.msg.at) ELSE UNCHANGED fleet
    /\ Handled

-----------------------------------------------------------------------------
(* mark_offline_nodes                                                       *)

\* A node may have retired itself, by a heartbeat.
Scan ==
    /\ ~late
    /\ late' = TRUE
    /\ status \notin {"absent", "retired", "offline"} /\ clock - seen > OfflineAfter
    /\ UNCHANGED <<clock, node, beats, command, bridge, alive, ops, count>>

\* A bug: the event is inserted after the commit.
MarkOfflineSilently ==
    /\ late /\ late' = FALSE
    /\ status' = "offline"
    /\ UNCHANGED <<fleet, clock, seen, beats, command, bridge, alive, ops, count>>

MarkOffline ==
    /\ late /\ late' = FALSE
    /\ status' = "offline"
    /\ FleetEvent("node_offline", clock)
    /\ UNCHANGED <<clock, seen, beats, command, bridge, alive, ops, count>>

-----------------------------------------------------------------------------
(* Commands                                                                 *)

SendCommand(c) ==
    /\ command[c].status = "none"
    /\ command' = [command EXCEPT ![c].status = "queued", ![c].issued = clock]
    /\ UNCHANGED <<clock, node, beats, gateway, ops, count>>

\* The node answers, as often as it likes, also for a retired command.
UpsertCommandResult(c, result) ==
    /\ alive /\ bridge.msg = NoMessage
    /\ command[c].status # "none"
    /\ count.messages < MaxMessages
    /\ count' = [count EXCEPT !.messages = @ + 1]
    /\ command' = [command EXCEPT ![c].status = result, ![c].completed = clock]
    /\ UNCHANGED <<clock, node, beats, gateway, ops>>

-----------------------------------------------------------------------------
(* AnomalyDetector: the five rules                                          *)

QueueCongestion ==
    Len(beats) >= Hits /\ \A i \in 1..Hits : beats[i].beat.queue

\* The newest values, each below the one before it, the last below the average.
MemoryLeak ==
    LET last == SubSeq(beats, 1, IF Len(beats) < HeapLast THEN Len(beats) ELSE HeapLast)
    IN  /\ Len(last) >= HeapMin
        /\ \A i \in 1..(Len(last) - 1) : last[i].beat.heap < last[i + 1].beat.heap

WeakConnectivity(now) ==
    LET recent == SelectSeq(beats, LAMBDA b : b.at >= now - RssiWindow)
    IN  /\ Len(recent) >= RssiMin
        /\ \A i \in 1..RssiMin : recent[i].beat.weak

\* With fewer than 20 samples the 95th percentile is the largest.
CommandLag ==
    LET done == {c \in Commands : command[c].status = "executed"}
    IN  /\ Cardinality(done) >= LagMin
        /\ \E c \in done : command[c].completed - command[c].issued > LagMax

OfflineFlapping(now) ==
    Cardinality({i \in DOMAIN fleet : fleet[i].at >= now - FlapWindow}) >= Flaps

\* What the rules find, in the order of their evaluation.
If(rule, fires) == IF fires THEN <<rule>> ELSE <<>>
Findings(now) ==
    If("A-001", QueueCongestion) \o If("A-002", MemoryLeak)
    \o If("A-003", WeakConnectivity(now)) \o If("A-004", CommandLag)
    \o If("A-005", OfflineFlapping(now))

-----------------------------------------------------------------------------
(* analyze_node and simulate_rule                                           *)

\* A bug: the list of what was found outlives the evaluation.
ContinueKeeping(v) ==
    IF v.todo # <<>> THEN [v EXCEPT !.pc = "look"]
    ELSE IF v.op = "analyze" /\ v.found # <<>> THEN [v EXCEPT !.pc = "heal"]
    ELSE [Idle EXCEPT !.found = v.found]

\* What an evaluation does next: persist, then heal if it is an analysis.
Continue(v) ==
    IF v.todo # <<>> THEN [v EXCEPT !.pc = "look"]
    ELSE IF v.op = "analyze" /\ v.found # <<>> THEN [v EXCEPT !.pc = "heal"]
    ELSE Idle

\* The SELECTs of detect_node_anomalies are one step: a rule reads one table.
\* A simulation, or an analysis without auto_heal, only detects, and a
\* simulation may be given its time.
Detect(e, op, now) ==
    /\ eval[e] = Idle /\ count.evals < MaxEvals
    /\ status # "absent"
    /\ op = "analyze" => now = clock
    /\ eval' = [eval EXCEPT ![e] = Continue([Idle EXCEPT !.op = op, !.todo = Findings(now)])]
    /\ count' = [count EXCEPT !.evals = @ + 1]
    /\ UNCHANGED <<clock, node, beats, command, gateway, rows, actions, cut>>

\* A bug: an acknowledged anomaly is not looked for.
OpenOnly(rule) == \E i \in DOMAIN rows : rows[i].rule = rule /\ rows[i].status = "open"

Unresolved(rule) ==
    \E i \in DOMAIN rows :
        rows[i].rule = rule /\ rows[i].status \in {"open", "acknowledged"}

\* The SELECT of _persist_if_new.
Look(e) ==
    /\ eval[e].pc = "look"
    /\ eval' = [eval EXCEPT ![e] =
                  IF Unresolved(Head(eval[e].todo))
                  THEN Continue([eval[e] EXCEPT !.todo = Tail(@)])
                  ELSE [eval[e] EXCEPT !.pc = "insert", !.saw = Len(rows)]]
    /\ UNCHANGED <<clock, node, beats, command, gateway, rows, actions, cut, count>>

\* Its INSERT, in a transaction of its own.
Insert(e) ==
    /\ eval[e].pc = "insert"
    /\ rows' = Append(rows, [rule |-> Head(eval[e].todo), status |-> "open",
                             by |-> eval[e].op, saw |-> eval[e].saw,
                             reopened |-> FALSE])
    /\ eval' = [eval EXCEPT ![e] =
                  Continue([eval[e] EXCEPT !.todo = Tail(@), !.saw = 0,
                                           !.found = Append(@, Len(rows'))])]
    /\ UNCHANGED <<clock, node, beats, command, gateway, actions, cut, count>>

-----------------------------------------------------------------------------
(* AutoHealingExecutor and ReflexEngine                                     *)

RetireStale ==
    command' = [c \in Commands |->
        IF command[c].status = "timeout" /\ clock - command[c].completed > Grace
        THEN [command[c] EXCEPT !.status = "retired"] ELSE command[c]]

\* The effect comes first: of the five plans two have one.
Execute(e) ==
    /\ eval[e].pc = "heal"
    /\ LET rule == rows[Head(eval[e].found)].rule IN
       /\ IF rule = "A-005" THEN status' = "degraded" ELSE UNCHANGED status
       /\ IF rule = "A-004" THEN RetireStale ELSE UNCHANGED command
    /\ eval' = [eval EXCEPT ![e].pc = "executed"]
    /\ UNCHANGED <<clock, seen, fleet, beats, gateway, rows, actions, cut, count>>

\* What execute's try catches.
ExecuteFails(e) ==
    /\ Fault
    /\ eval[e].pc = "heal"
    /\ rows[Head(eval[e].found)].rule \in {"A-004", "A-005"}
    /\ eval' = [eval EXCEPT ![e].pc = "failed"]
    /\ UNCHANGED <<clock, node, command, beats, gateway, rows, actions, cut>>

\* A bug: only the first anomaly of an analysis is healed.
PersistActionOnce(e) ==
    /\ eval[e].pc \in {"executed", "failed"}
    /\ actions' = Append(actions, [anomaly |-> Head(eval[e].found),
                                   status |-> eval[e].pc])
    /\ eval' = [eval EXCEPT ![e] = Idle]
    /\ UNCHANGED <<clock, node, beats, command, gateway, rows, cut, count>>

\* Then the action is recorded, in a transaction of its own.
PersistAction(e) ==
    /\ eval[e].pc \in {"executed", "failed"}
    /\ actions' = Append(actions, [anomaly |-> Head(eval[e].found),
                                   status |-> eval[e].pc])
    /\ eval' = [eval EXCEPT ![e] = Continue([eval[e] EXCEPT !.found = Tail(@)])]
    /\ UNCHANGED <<clock, node, beats, command, gateway, rows, cut, count>>

\* A statement raises outside of execute's try, as when the database is locked.
FailEvaluation(e) ==
    /\ Fault
    /\ eval[e] # Idle
    /\ cut' = cut \cup ToSet(eval[e].found)
    /\ eval' = [eval EXCEPT ![e] = Idle]
    /\ UNCHANGED <<clock, node, beats, command, gateway, rows, actions>>

-----------------------------------------------------------------------------
(* The operations API                                                       *)

Operate ==
    /\ count.operations < MaxOperations
    /\ count' = [count EXCEPT !.operations = @ + 1]

Acknowledge(i) ==
    /\ Operate
    /\ rows' = [rows EXCEPT ![i].status = "acknowledged",
                            ![i].reopened = @ \/ rows[i].status = "resolved"]
    /\ UNCHANGED <<clock, node, beats, command, gateway, eval, actions, cut>>

Resolve(i) ==
    /\ Operate
    /\ rows' = [rows EXCEPT ![i].status = "resolved"]
    /\ UNCHANGED <<clock, node, beats, command, gateway, eval, actions, cut>>

CancelAction(a) ==
    /\ Operate
    /\ actions' = [actions EXCEPT ![a].status = "cancelled"]
    /\ UNCHANGED <<clock, node, beats, command, gateway, eval, rows, cut>>

-----------------------------------------------------------------------------
\* The process stops, by itself or not, and starts again: the tables remain.
Restart ==
    /\ Fault
    /\ bridge' = [msg |-> NoMessage, before |-> "absent"]
    /\ alive' = TRUE /\ late' = FALSE
    /\ cut' = cut \cup UNION {ToSet(eval[e].found) : e \in Evaluators}
    /\ eval' = [e \in Evaluators |-> Idle]
    /\ UNCHANGED <<clock, node, beats, command, rows, actions>>

Tick ==
    /\ clock < MaxClock
    /\ clock' = clock + 1
    /\ UNCHANGED <<node, beats, command, gateway, ops, count>>

Next ==
    \/ \E m \in Message : Receive(m)
    \/ UpsertNode \/ UpdateHeartbeat \/ FailHandling
    \/ Scan \/ MarkOffline
    \/ \E c \in Commands : SendCommand(c)
    \/ \E c \in Commands, r \in {"executed", "timeout"} : UpsertCommandResult(c, r)
    \/ \E e \in Evaluators :
          \/ \E op \in {"analyze", "simulate"}, now \in Times : Detect(e, op, now)
          \/ Look(e) \/ Insert(e) \/ Execute(e) \/ ExecuteFails(e)
          \/ PersistAction(e) \/ FailEvaluation(e)
    \/ \E i \in DOMAIN rows : Acknowledge(i) \/ Resolve(i)
    \/ \E a \in DOMAIN actions : CancelAction(a)
    \/ Restart
    \/ Tick

Spec == Init /\ [][Next]_vars

-----------------------------------------------------------------------------
(* Properties                                                              *)

\* _persist_if_new: a rule has two unresolved anomalies only if the first was
\* inserted after the other evaluation had looked for one, or was resolved then
\* and has been acknowledged since.
OnlyOverlapIsDoubled ==
    \A i, j \in DOMAIN rows :
        /\ i < j /\ rows[i].rule = rows[j].rule
        /\ rows[i].status # "resolved" /\ rows[j].status # "resolved"
        => rows[j].saw < i \/ rows[i].reopened

\* AutoHealingExecutor: an anomaly that an analysis inserted gets exactly one
\* action, unless the analysis is still under way or was cut off.
HealedExactlyOnce ==
    \A i \in DOMAIN rows :
        LET acted == {a \in DOMAIN actions : actions[a].anomaly = i}
            held  == {e \in Evaluators : i \in ToSet(eval[e].found)}
        IN  /\ Cardinality(acted) <= 1
            /\ rows[i].by = "analyze" /\ i \notin cut
               => Cardinality(acted) + Cardinality(held) = 1

\* fleet_events against nodes: the last event of an offline node says so, whatever
\* raced the watcher, unless the node's last heartbeat was the one to say so: no
\* event is recorded for that, and the watcher passes the node by.
OfflineIsAnnounced ==
    status = "offline" =>
        \/ fleet # <<>> /\ Last(fleet).event = "node_offline"
        \/ beats # <<>> /\ Head(beats).beat.status = "offline"
=============================================================================
