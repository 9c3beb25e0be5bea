--------------------------- MODULE OpsPipeline ---------------------------
(***************************************************************************)
(* The operations layer: a heartbeat that matches a rule raises an         *)
(* anomaly, the anomaly goes through a bounded queue to the healer, the    *)
(* healer executes the rule's reflex, and operators acknowledge, resolve   *)
(* and cancel through the API meanwhile.  Everything between two awaits    *)
(* is one action.  The tables survive Restart, memory does not.            *)
(***************************************************************************)
EXTENDS Integers, Sequences, FiniteSets

CONSTANTS
    Nodes, Anomalies, Requests,
    Snapshots,      \* heartbeats: [queue, heap, rssi], rssi as a distance below 0
    Unknown,        \* a heap or rssi the node did not send (None)
    Nothing,        \* no anomaly, node or action
    Reflex,         \* Reflex[r]: the default_reflex of the rule catalogue
    Level,          \* Level[r]: its safety_level
    AutoMax,        \* AUTO_EXECUTE_MAX_LEVEL
    Suppress,       \* Suppress[r]: suppress_for_sec
    Required,       \* consecutive_hits of A-001 and A-003, A-002's three
    QueueLimit,     \* deep queue: A-001
    WeakRssi,       \* weak signal: A-003
    FlapMin, FlapSec,   \* A-005
    WindowSize, FlapLog, QueueMax,
    MaxClock,
    MaxMishaps      \* restarts and statements that raise

Rules == {"A-001", "A-002", "A-003", "A-005"}
Scopes == Rules \X Nodes

Reflexes == {"none", "observe_only", "publish_config_update",
             "set_node_degraded", "pause_zone_automation"}
AnomalyStatuses == {"active", "acknowledged", "escalated", "resolved"}
ActionStatuses == {"pending", "completed", "failed", "cancelled"}

ASSUME CatalogueAssumption ==
    /\ Reflex \in [Rules -> Reflexes] /\ Level \in [Rules -> 0..4]
    /\ Suppress \in [Rules -> Nat] /\ AutoMax \in 0..4
ASSUME BoundsAssumption ==
    /\ QueueMax \in Nat \ {0} /\ WindowSize \in Nat /\ FlapLog \in Nat \ {0}
    /\ Required \in Nat \ {0} /\ FlapSec \in Nat /\ FlapMin \in Nat /\ MaxClock \in Nat
    /\ MaxMishaps \in Nat
ASSUME NothingAssumption == Nothing \notin Anomalies \cup Nodes

VARIABLES
    clock,
    window,     \* window[n]: the heartbeats in _windows
    flaps,      \* flaps[n]: times in _flap_log
    rows,       \* rows[a]: ops_anomalies
    until,      \* until[<<r, n>>]: suppression_until_ts_utc in ops_rule_state
    task,       \* what the bridge's and the watcher's call of the detector does
    queue,      \* AnomalyQueue
    healer,     \* HealerService.run
    action,     \* action[a]: ops_reflex_actions, the action issued for a
    issued,     \* history: how many actions were issued for a
    dropped,    \* history: the anomalies the full queue refused
    status,     \* nodes.status
    request,    \* request[q]: an operator's call between reading and writing; late
                \* is history: what it read was over already
    mishaps

detection == <<window, flaps, task>>
effects == <<action, issued, status>>
vars == <<clock, window, flaps, rows, until, task, queue, healer, action,
          issued, dropped, status, request, mishaps>>

Workers == {"bridge", "watcher"}
Idle == [step |-> "idle", todo |-> {}, rule |-> "none", node |-> Nothing, anomaly |-> Nothing]
AtRest == [step |-> "idle", anomaly |-> Nothing]
NoRequest == [op |-> "none", anomaly |-> Nothing, late |-> FALSE]
Absent == [rule |-> "none", node |-> Nothing, at |-> 0, status |-> "absent",
           cooled |-> FALSE]

RowType == [rule : Rules, node : Nodes, at : 0..MaxClock,
            status : AnomalyStatuses, cooled : BOOLEAN] \cup {Absent}
TaskType == [step : {"check", "persist", "enqueue", "cooldown"}, todo : SUBSET Rules, rule : Rules,
             node : Nodes, anomaly : Anomalies \cup {Nothing}] \cup {Idle}

Init ==
    /\ clock = 0
    /\ window = [n \in Nodes |-> <<>>]
    /\ flaps = [n \in Nodes |-> <<>>]
    /\ rows = [a \in Anomalies |-> Absent]
    /\ until = [s \in Scopes |-> 0]
    /\ task = [w \in Workers |-> Idle]
    /\ queue = <<>>
    /\ healer = AtRest
    /\ action = [a \in Anomalies |-> "absent"]
    /\ issued = [a \in Anomalies |-> 0]
    /\ dropped = {}
    /\ status = [n \in Nodes |-> "online"]
    /\ request = [q \in Requests |-> NoRequest]
    /\ mishaps = 0

-----------------------------------------------------------------------------
(* The detector's windows and rules.                                       *)

\* A bug: nothing is pushed out.
KeepAll(s, x, k) == Append(s, x)

\* deque(maxlen=k).append
Keep(s, x, k) == LET t == Append(s, x)
                 IN SubSeq(t, IF Len(t) > k THEN Len(t) - k + 1 ELSE 1, Len(t))

\* window[-required:], when there are as many
Recent(w) == SubSeq(w, Len(w) - Required + 1, Len(w))

Congested(w) == \A i \in 1..Required : w[i].queue > QueueLimit

\* A strict decline of at least 5%, and no value missing.
Leaking(w) ==
    /\ \A i \in 1..Required : w[i].heap # Unknown
    /\ \A i \in 1..(Required - 1) : w[i].heap > w[i + 1].heap
    /\ 20 * (w[1].heap - w[Required].heap) >= w[1].heap

WeaklyConnected(w) ==
    \A i \in 1..Required : w[i].rssi # Unknown /\ w[i].rssi > WeakRssi

\* Does rule r fire on window w?
Fires(r, w) ==
    /\ Len(w) >= Required
    /\ CASE r = "A-001" -> Congested(Recent(w))
         [] r = "A-002" -> Leaking(Recent(w))
         [] r = "A-003" -> WeaklyConnected(Recent(w))

\* A-005 on the times of log.
Flapping(log) == Cardinality({i \in DOMAIN log : log[i] >= clock - FlapSec}) >= FlapMin

IsSuppressed(r, n) == until[<<r, n>>] > clock

\* The rules are checked one after the other, on a copy of the window.
Rank == [r \in Rules |-> CASE r = "A-001" -> 1 [] r = "A-002" -> 2
                            [] r = "A-003" -> 3 [] r = "A-005" -> 4]
First(rs) == CHOOSE r \in rs : \A s \in rs : Rank[r] <= Rank[s]
StartCheck(rs, n) ==
    IF rs = {} THEN Idle
    ELSE [step |-> "check", todo |-> rs, rule |-> First(rs), node |-> n, anomaly |-> Nothing]
Continue(t) == StartCheck(t.todo \ {t.rule}, t.node)

\* on_heartbeat: one message at a time, because the bridge awaits it.
OnHeartbeat(n, s) ==
    /\ task["bridge"] = Idle
    /\ window' = [window EXCEPT ![n] = Keep(@, s, WindowSize)]
    /\ task' = [task EXCEPT !["bridge"] =
                    StartCheck({r \in {"A-001", "A-002", "A-003"} :
                                   Fires(r, Keep(window[n], s, WindowSize))}, n)]
    /\ UNCHANGED <<clock, flaps, rows, until, queue, healer, effects, dropped,
                   request, mishaps>>

\* A-010, asked for next, never fires: only A-005 writes a zone into its rows, and
\* the zone's rule wants two types of anomaly.
OnNodeOffline(n) ==
    /\ task["watcher"] = Idle
    /\ flaps' = [flaps EXCEPT ![n] = Keep(@, clock, FlapLog)]
    /\ task' = [task EXCEPT !["watcher"] =
                    StartCheck({r \in {"A-005"} : Flapping(Keep(flaps[n], clock, FlapLog))}, n)]
    /\ UNCHANGED <<clock, window, rows, until, queue, healer, effects,
                   dropped, request, mishaps>>

OnNodeOnline(n) ==
    /\ flaps' = [flaps EXCEPT ![n] = Keep(@, clock, FlapLog)]
    /\ UNCHANGED <<clock, window, rows, until, task, queue, healer, effects,
                   dropped, request, mishaps>>

\* The await of is_suppressed, for a rule whose condition holds.
CheckRule(w) ==
    LET t == task[w] IN
    /\ t.step = "check"
    /\ task' = [task EXCEPT ![w] = IF IsSuppressed(t.rule, t.node) THEN Continue(t)
                                   ELSE [t EXCEPT !.step = "persist"]]
    /\ UNCHANGED <<clock, window, flaps, rows, until, queue, healer, effects,
                   dropped, request, mishaps>>

\* _raise_anomaly, up to the commit of persist_anomaly.
PersistAnomaly(w, a) ==
    LET t == task[w] IN
    /\ t.step = "persist"
    /\ rows[a].status = "absent"
    /\ rows' = [rows EXCEPT ![a] = [rule |-> t.rule, node |-> t.node, at |-> clock,
                                    status |-> "active", cooled |-> FALSE]]
    /\ task' = [task EXCEPT ![w] = [t EXCEPT !.step = "enqueue", !.anomaly = a]]
    /\ UNCHANGED <<clock, window, flaps, until, queue, healer, effects,
                   dropped, request, mishaps>>

\* AnomalyQueue.put: what does not fit is dropped.
Enqueue(w) ==
    LET t == task[w] IN
    /\ t.step = "enqueue"
    /\ IF Len(queue) < QueueMax
       THEN queue' = Append(queue, t.anomaly) /\ UNCHANGED dropped
       ELSE dropped' = dropped \cup {t.anomaly} /\ UNCHANGED queue
    /\ task' = [task EXCEPT ![w] = [t EXCEPT !.step = "cooldown"]]
    /\ UNCHANGED <<clock, window, flaps, rows, until, healer, effects,
                   request, mishaps>>

\* upsert_rule_state: one row per rule and scope, whatever it said before.
RuleStateAfter(r, n) == [until EXCEPT ![<<r, n>>] = clock + Suppress[r]]

\* The end of _raise_anomaly; cooled is history.
SetCooldown(w) ==
    LET t == task[w] IN
    /\ t.step = "cooldown"
    /\ until' = RuleStateAfter(t.rule, t.node)
    /\ rows' = [rows EXCEPT ![t.anomaly].cooled = TRUE]
    /\ task' = [task EXCEPT ![w] = Continue(t)]
    /\ UNCHANGED <<clock, window, flaps, queue, healer, effects, dropped,
                   request, mishaps>>

-----------------------------------------------------------------------------
(* The healer.                                                             *)

\* A bug: the first anomaly is looked at and stays in the queue.
TakePeek ==
    /\ healer.step = "idle" /\ queue # <<>>
    /\ healer' = [step |-> "issue", anomaly |-> Head(queue)]
    /\ UNCHANGED <<clock, detection, rows, until, queue, effects, dropped, request,
                   mishaps>>

\* A bug: the highest automatic level is escalated too.
TakeStrict ==
    /\ healer.step = "idle" /\ queue # <<>>
    /\ queue' = Tail(queue)
    /\ healer' = [step |-> IF Level[rows[Head(queue)].rule] >= AutoMax
                           THEN "escalate" ELSE "issue", anomaly |-> Head(queue)]
    /\ UNCHANGED <<clock, detection, rows, until, effects, dropped, request,
                   mishaps>>

\* queue.get, and the part of _process before its first await.
Take ==
    /\ healer.step = "idle" /\ queue # <<>>
    /\ queue' = Tail(queue)
    /\ LET a == Head(queue)
           r == rows[a].rule
       IN healer' = IF Reflex[r] = "none" THEN AtRest
                    ELSE [step |-> IF Level[r] > AutoMax THEN "escalate" ELSE "issue",
                          anomaly |-> a]
    /\ UNCHANGED <<clock, detection, rows, until, effects, dropped, request,
                   mishaps>>

\* update_anomaly_status, whatever the status is by now.
WithStatus(a, st) == [rows EXCEPT ![a].status = st]

Escalate ==
    /\ healer.step = "escalate"
    /\ rows' = WithStatus(healer.anomaly, "escalated")
    /\ healer' = AtRest
    /\ UNCHANGED <<clock, detection, until, queue, effects, dropped, request,
                   mishaps>>

\* persist_reflex_action
IssueAction ==
    /\ healer.step = "issue"
    /\ action' = [action EXCEPT ![healer.anomaly] = "pending"]
    /\ issued' = [issued EXCEPT ![healer.anomaly] = @ + 1]
    /\ healer' = [healer EXCEPT !.step = "execute"]
    /\ UNCHANGED <<clock, detection, rows, until, queue, dropped,
                   status, request, mishaps>>

\* _execute: a configuration is published and kept nowhere; observing, an alert,
\* and an action that is not implemented change nothing.
Execute ==
    LET a == healer.anomaly
        r == rows[a].rule
        n == rows[a].node
    IN
    /\ healer.step = "execute"
    /\ status' = IF Reflex[r] = "set_node_degraded" /\ status[n] = "online"
                 THEN [status EXCEPT ![n] = "degraded"] ELSE status
    /\ healer' = [healer EXCEPT !.step = "complete"]
    /\ UNCHANGED <<clock, detection, rows, until, queue, action, issued, dropped,
                   request, mishaps>>

\* update_reflex_status, whatever the status is by now.
RecordAction(step, result) ==
    /\ healer.step = step
    /\ action' = [action EXCEPT ![healer.anomaly] = result]
    /\ healer' = AtRest
    /\ UNCHANGED <<clock, detection, rows, until, queue, issued,
                   dropped, status, request, mishaps>>

\* A statement or a publish raises: inside the inner try the action is recorded
\* as failed, elsewhere run() logs it and takes the next anomaly.
HealerRaises ==
    /\ healer.step # "idle" /\ mishaps < MaxMishaps
    /\ mishaps' = mishaps + 1
    /\ healer' = IF healer.step \in {"execute", "complete"}
                 THEN [healer EXCEPT !.step = "fail"] ELSE AtRest
    /\ UNCHANGED <<clock, detection, rows, until, queue, effects, dropped,
                   request>>

HealerStep ==
    \/ Take \/ Escalate \/ IssueAction \/ Execute
    \/ RecordAction("complete", "completed") \/ RecordAction("fail", "failed")
    \/ HealerRaises

-----------------------------------------------------------------------------
(* The operations API: each endpoint reads the row, awaits, and writes.    *)

\* A bug: only a second acknowledgement is refused.
RefusesRepeats(op, st) == op = "acknowledge" /\ st = "acknowledged"

\* The 404 and 409 tests of acknowledge_anomaly and resolve_anomaly.
Refuses(op, st) ==
    CASE op = "acknowledge" -> st \in {"resolved", "acknowledged"}
      [] op = "resolve" -> st = "resolved"

ReadAnomaly(q, op, a) ==
    /\ request[q] = NoRequest
    /\ rows[a].status # "absent"
    /\ ~Refuses(op, rows[a].status)
    /\ request' = [request EXCEPT ![q] =
                      [op |-> op, anomaly |-> a, late |-> rows[a].status = "resolved"]]
    /\ UNCHANGED <<clock, detection, rows, until, queue, healer, effects, dropped,
                   mishaps>>

\* update_anomaly_status(ACKNOWLEDGED or RESOLVED)
WriteAnomaly(q, op, st) ==
    /\ request[q].op = op
    /\ rows' = WithStatus(request[q].anomaly, st)
    /\ request' = [request EXCEPT ![q] = NoRequest]
    /\ UNCHANGED <<clock, detection, until, queue, healer, effects, dropped,
                   mishaps>>

\* A bug: any action can be cancelled.
ReadAnyAction(q, a) ==
    /\ request[q] = NoRequest
    /\ action[a] # "absent"
    /\ request' = [request EXCEPT ![q] =
                      [op |-> "cancel", anomaly |-> a, late |-> action[a] # "pending"]]
    /\ UNCHANGED <<clock, detection, rows, until, queue, healer, effects, dropped,
                   mishaps>>

\* cancel_reflex_action
ReadAction(q, a) ==
    /\ request[q] = NoRequest
    /\ action[a] = "pending"
    /\ request' = [request EXCEPT ![q] =
                      [op |-> "cancel", anomaly |-> a, late |-> action[a] # "pending"]]
    /\ UNCHANGED <<clock, detection, rows, until, queue, healer, effects, dropped,
                   mishaps>>

CancelAction(q) ==
    /\ request[q].op = "cancel"
    /\ action' = [action EXCEPT ![request[q].anomaly] = "cancelled"]
    /\ request' = [request EXCEPT ![q] = NoRequest]
    /\ UNCHANGED <<clock, detection, rows, until, queue, healer, issued,
                   dropped, status, mishaps>>

-----------------------------------------------------------------------------
Tick ==
    /\ clock < MaxClock
    /\ clock' = clock + 1
    /\ UNCHANGED <<detection, rows, until, queue, healer, effects, dropped,
                   request, mishaps>>

\* A bug: the cooldowns are kept in memory.
RestartForgets ==
    /\ mishaps < MaxMishaps
    /\ mishaps' = mishaps + 1
    /\ until' = [s \in Scopes |-> 0]
    /\ task' = [w \in Workers |-> Idle]
    /\ UNCHANGED <<clock, window, flaps, rows, queue, healer, effects, dropped, request>>

\* The process ends and starts again: OpsServices.__init__ makes new windows
\* and a new queue.
Restart ==
    /\ mishaps < MaxMishaps
    /\ mishaps' = mishaps + 1
    /\ window' = [n \in Nodes |-> <<>>]
    /\ flaps' = [n \in Nodes |-> <<>>]
    /\ task' = [w \in Workers |-> Idle]
    /\ queue' = <<>>
    /\ healer' = AtRest
    /\ request' = [q \in Requests |-> NoRequest]
    /\ UNCHANGED <<clock, rows, until, effects, dropped>>

Next ==
    \/ \E n \in Nodes :
        \/ \E s \in Snapshots : OnHeartbeat(n, s)
        \/ OnNodeOffline(n) \/ OnNodeOnline(n)
    \/ \E w \in Workers :
        \/ CheckRule(w) \/ Enqueue(w) \/ SetCooldown(w)
        \/ \E a \in Anomalies : PersistAnomaly(w, a)
    \/ HealerStep
    \/ \E q \in Requests :
        \/ \E a \in Anomalies : \/ ReadAnomaly(q, "acknowledge", a)
                                \/ ReadAnomaly(q, "resolve", a)
                                \/ ReadAction(q, a)
        \/ WriteAnomaly(q, "acknowledge", "acknowledged")
        \/ WriteAnomaly(q, "resolve", "resolved")
        \/ CancelAction(q)
    \/ Tick \/ Restart

Spec == Init /\ [][Next]_vars

-----------------------------------------------------------------------------
(* Properties.                                                             *)

TypeOK ==
    /\ clock \in 0..MaxClock
    /\ \A n \in Nodes : /\ window[n] \in Seq(Snapshots) /\ Len(window[n]) <= WindowSize
                        /\ flaps[n] \in Seq(0..MaxClock) /\ Len(flaps[n]) <= FlapLog
    /\ rows \in [Anomalies -> RowType]
    /\ until \in [Scopes -> Nat]
    /\ task \in [Workers -> TaskType]
    /\ queue \in Seq(Anomalies) /\ Len(queue) <= QueueMax
    /\ healer \in [step : {"idle", "escalate", "issue", "execute", "complete", "fail"},
                   anomaly : Anomalies \cup {Nothing}]
    /\ action \in [Anomalies -> ActionStatuses \cup {"absent"}]
    /\ issued \in [Anomalies -> Nat]
    /\ dropped \subseteq Anomalies
    /\ status \in [Nodes -> {"online", "degraded"}]
    /\ request \in [Requests -> [op : {"none", "acknowledge", "resolve", "cancel"},
                                 anomaly : Anomalies \cup {Nothing}, late : BOOLEAN]]
    /\ mishaps \in 0..MaxMishaps

SameScope(a, b) == rows[a].rule = rows[b].rule /\ rows[a].node = rows[b].node

\* Two anomalies of one rule and node whose _raise_anomaly went to its end are
\* at least suppress_for_sec apart: the cooldown is read before three awaits and
\* written after them, and it survives a restart.
CooldownSeparates ==
    \A a, b \in Anomalies :
        /\ a # b /\ rows[a].cooled /\ rows[b].cooled /\ SameScope(a, b)
        => \/ rows[a].at + Suppress[rows[a].rule] <= rows[b].at
           \/ rows[b].at + Suppress[rows[b].rule] <= rows[a].at

\* The healer issues at most one reflex action for an anomaly, through restarts,
\* failed statements and everything operators do to its row.
ActedOnce == \A a \in Anomalies : issued[a] <= 1

\* While the process has not restarted and no statement has failed, an anomaly
\* with an automatic reflex has its action unless the full queue refused it or
\* somebody is about to deal with it.
NothingForgotten ==
    mishaps = 0 =>
        \A a \in Anomalies :
            rows[a].status # "absent" /\ Reflex[rows[a].rule] # "none"
                /\ Level[rows[a].rule] <= AutoMax
            => \/ action[a] # "absent" \/ a \in dropped
               \/ healer.step = "issue" /\ healer.anomaly = a
               \/ \E i \in DOMAIN queue : queue[i] = a
               \/ \E w \in Workers : task[w].step = "enqueue" /\ task[w].anomaly = a

\* A resolved anomaly stays resolved but for an acknowledgement that read its row
\* before it was resolved, and for the healer's escalation, which reads no row.
OnlyRacedIsReopened ==
    [][\A a \in Anomalies :
          rows[a].status = "resolved" /\ rows'[a].status # "resolved"
          => \/ healer = [step |-> "escalate", anomaly |-> a]
             \/ \E q \in Requests : request[q] = [op |-> "acknowledge", anomaly |-> a, late |-> FALSE]]_vars

\* What the healer has recorded of an action it finished is only overwritten by a
\* cancellation that read the action before it was finished.
OnlyRacedIsCancelled ==
    [][\A a \in Anomalies :
          action[a] \in {"completed", "failed"} /\ action'[a] # action[a]
          => \E q \in Requests : request[q] = [op |-> "cancel", anomaly |-> a, late |-> FALSE]]_vars
=============================================================================
