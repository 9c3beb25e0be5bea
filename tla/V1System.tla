---------------------------- MODULE V1System -----------------------------
(***************************************************************************)
(* The first gateway, one file over a SQLite registry, and the skeleton of *)
(* a node that talks to it.  A handler has no await after it has read the  *)
(* body and runs as one transaction, so it is one action, and so is a step *)
(* of the node between two requests.  A request may be lost, and may be    *)
(* served after the node has stopped waiting for it.                       *)
(***************************************************************************)
EXTENDS Integers, FiniteSets

CONSTANTS
    Nodes, Commands,
    Target,         \* Target[c]: the node command c is for
    Readings,       \* what a sensor can report
    Reports,        \* the statuses a node can report
    None,
    Intervals, DefaultInterval,     \* heartbeat_interval_sec
    OfflineAfter,   \* NODE_OFFLINE_SEC
    Period,         \* between two scans of the watcher
    MaxClock,
    MaxEvents,      \* events of one boot
    MaxFlight,      \* requests of a node under way
    MaxRestarts     \* of the gateway

ASSUME CommandsAssumption == Target \in [Commands -> Nodes]
ASSUME IntervalsAssumption == DefaultInterval \in Intervals
ASSUME BoundsAssumption ==
    {OfflineAfter, Period, MaxClock, MaxEvents, MaxFlight, MaxRestarts} \subseteq Nat
ASSUME NoneAssumption ==
    /\ None \notin Commands \cup Intervals \cup Nodes \cup Reports
    /\ "null" \notin Commands

VARIABLES
    clock,
    nodes,      \* nodes[n]: [status, seen] of its row
    config,     \* config[n]: heartbeat_interval_sec in node_config
    events,     \* events[id]: [node, data] of the row with that event_id
    commands,   \* commands[c]: the status of its row
    scan,       \* when the watcher went to sleep
    device,     \* device[n]: what the node itself knows
    requests,   \* under way from nodes to the gateway
    restarts,
    heard,      \* history: [status, at] of the last report of n that was served
    runs        \* history: how often c was executed

tables == <<nodes, config, events, commands>>
gateway == <<scan, restarts>>
history == <<heard, runs>>
vars == <<clock, tables, gateway, device, requests, history>>

\* CHECK(status IN ...)
Statuses == {"online", "degraded", "offline"}
EventIds == 1..MaxEvents
NoRow == [status |-> "absent", seen |-> 0]

\* A node before setup: its counter and interval are those of the program text.
Off == [phase |-> "off", registered |-> FALSE, counter |-> 0,
        interval |-> DefaultInterval, answer |-> None]

Request ==
    [kind : {"hello", "error", "poll"}, node : Nodes]
    \cup [kind : {"heartbeat", "state"}, node : Nodes, status : Reports]
    \cup [kind : {"event"}, node : Nodes, id : EventIds, data : Readings]
    \cup [kind : {"result"}, node : Nodes, command : Commands \cup {None}]

Init ==
    /\ clock = 0
    /\ nodes = [n \in Nodes |-> NoRow]
    /\ config = [n \in Nodes |-> None]
    /\ events = [i \in EventIds |-> None]
    /\ commands = [c \in Commands |-> "absent"]
    /\ scan = 0 /\ restarts = 0
    /\ device = [n \in Nodes |-> Off]
    /\ requests = {}
    /\ heard = [n \in Nodes |-> [status |-> None, at |-> 0]]
    /\ runs = [c \in Commands |-> 0]

-----------------------------------------------------------------------------
(* The node.  It waits for the answer to hello, in setup, and to a poll; to *)
(* go on at once after another message is to have given up on its answer.   *)

MayPost(n) == Cardinality({r \in requests : r.node = n}) < MaxFlight

\* sendMessage and http.GET
Post(n, r, d) ==
    /\ MayPost(n)
    /\ requests' = requests \cup {r}
    /\ device' = [device EXCEPT ![n] = d]

SendHello(n) ==
    /\ device[n].phase = "off"
    /\ Post(n, [kind |-> "hello", node |-> n], [Off EXCEPT !.phase = "setup"])
    /\ UNCHANGED <<clock, tables, gateway, history>>

\* sendHeartbeat and sendStateUpdate.  The status is "online" in the skeleton; a
\* node built on it may report another.
SendReport(n, k) ==
    /\ device[n].phase = "loop"
    /\ \E s \in Reports :
          Post(n, [kind |-> k, node |-> n, status |-> s], device[n])
    /\ UNCHANGED <<clock, tables, gateway, history>>

\* eventCounter lives in RAM: the first event after a boot is 1.
SendEvent(n) ==
    /\ device[n].phase = "loop" /\ device[n].counter < MaxEvents
    /\ LET id == device[n].counter + 1
       IN \E x \in Readings :
             Post(n, [kind |-> "event", node |-> n, id |-> id, data |-> x],
                  [device[n] EXCEPT !.counter = id])
    /\ UNCHANGED <<clock, tables, gateway, history>>

\* A failed reading is reported instead of an event.
SendError(n) ==
    /\ device[n].phase = "loop"
    /\ Post(n, [kind |-> "error", node |-> n], device[n])
    /\ UNCHANGED <<clock, tables, gateway, history>>

PollCommands(n) ==
    /\ device[n].phase = "loop"
    /\ Post(n, [kind |-> "poll", node |-> n], [device[n] EXCEPT !.phase = "polling"])
    /\ UNCHANGED <<clock, tables, gateway, history>>

\* No answer within HTTP_TIMEOUT_MS.  A hello is not sent again before a restart.
TimesOut(n) ==
    /\ device[n].phase \in {"setup", "polling"}
    /\ device' = [device EXCEPT ![n].phase = "loop", ![n].answer = None]
    /\ UNCHANGED <<clock, tables, gateway, requests, history>>

TakeConfig(n) ==
    /\ device[n].phase = "setup" /\ device[n].answer # None
    /\ device' = [device EXCEPT ![n].phase = "loop", ![n].registered = TRUE,
                                ![n].interval = device[n].answer, ![n].answer = None]
    /\ UNCHANGED <<clock, tables, gateway, requests, history>>

\* handleCommand: a reboot or a sleep ends the program before the acknowledgement.
HandleCommand(n) ==
    /\ device[n].phase = "polling" /\ device[n].answer \in Commands
    /\ LET c == device[n].answer
       IN /\ runs' = [runs EXCEPT ![c] = @ + 1]
          /\ \/ device' = [device EXCEPT ![n] = Off] /\ UNCHANGED requests
             \/ Post(n, [kind |-> "result", node |-> n, command |-> c],
                     [device[n] EXCEPT !.phase = "loop", !.answer = None])
    /\ UNCHANGED <<clock, tables, gateway, heard>>

\* The answer without a command has the key "command" too, and its type is a null
\* pointer that strcmp reads: the node panics and restarts, or no comparison
\* matches and it acknowledges a command without an id.
HandleNoCommand(n) ==
    /\ device[n].phase = "polling" /\ device[n].answer = "null"
    /\ \/ device' = [device EXCEPT ![n] = Off] /\ UNCHANGED requests
       \/ Post(n, [kind |-> "result", node |-> n, command |-> None],
               [device[n] EXCEPT !.phase = "loop", !.answer = None])
    /\ UNCHANGED <<clock, tables, gateway, history>>

\* Power is cut, or WiFi does not come up within WIFI_TIMEOUT_MS of setup.
PowerCut(n) ==
    /\ device[n].phase # "off"
    /\ device' = [device EXCEPT ![n] = Off]
    /\ UNCHANGED <<clock, tables, gateway, requests, history>>

Lose(r) ==
    /\ r \in requests
    /\ requests' = requests \ {r}
    /\ UNCHANGED <<clock, tables, gateway, device, history>>

-----------------------------------------------------------------------------
(* The gateway's handlers.                                                  *)

Known(n) == nodes[n] # NoRow
Answered(n, phase, a) ==
    IF device[n].phase = phase /\ device[n].answer = None
    THEN [device EXCEPT ![n].answer = a] ELSE device

\* status and last_seen, and for the properties what was said and when.
Reported(n, s) ==
    /\ nodes' = [nodes EXCEPT ![n] = [status |-> s, seen |-> clock]]
    /\ heard' = [heard EXCEPT ![n] = [status |-> s, at |-> clock]]

\* The upsert, INSERT OR IGNORE of a default configuration, and the one stored.
Hello(r) ==
    /\ requests' = requests \ {r}
    /\ Reported(r.node, "online")
    /\ config' = [config EXCEPT ![r.node] = IF @ = None THEN DefaultInterval ELSE @]
    /\ device' = Answered(r.node, "setup", config'[r.node])
    /\ UNCHANGED <<clock, events, commands, gateway, runs>>

\* A bug: last_seen is left as it is.
ReportUnseen(r) ==
    /\ requests' = requests \ {r}
    /\ IF Known(r.node) /\ r.status \in Statuses
       THEN /\ nodes' = [nodes EXCEPT ![r.node].status = r.status]
            /\ heard' = [heard EXCEPT ![r.node] = [status |-> r.status, at |-> clock]]
       ELSE UNCHANGED <<nodes, heard>>
    /\ UNCHANGED <<clock, config, events, commands, gateway, device, runs>>

\* node_heartbeat and node_state write the status the payload has; the table's
\* CHECK refuses one that is no status: the handler raises, nothing is committed.
\* So it does when the heartbeat of a node without a row breaks the foreign key
\* of heartbeats; node_state's UPDATE just matches no row.
Report(r) ==
    /\ requests' = requests \ {r}
    /\ IF Known(r.node) /\ r.status \in Statuses THEN Reported(r.node, r.status)
                                                ELSE UNCHANGED <<nodes, heard>>
    /\ UNCHANGED <<clock, config, events, commands, gateway, device, runs>>

\* INSERT OR IGNORE: whoever used the id first has the row, the answer is "ok"
\* all the same.  OR IGNORE does not cover the foreign key: a stranger's raises.
Event(r) ==
    /\ requests' = requests \ {r}
    /\ IF Known(r.node)
       THEN /\ nodes' = [nodes EXCEPT ![r.node].seen = clock]
            /\ events' = [events EXCEPT ![r.id] =
                   IF @ = None THEN [node |-> r.node, data |-> r.data] ELSE @]
       ELSE UNCHANGED <<nodes, events>>
    /\ UNCHANGED <<clock, config, commands, gateway, device, history>>

\* A row of errors, which nothing reads: neither last_seen nor the status change.
ReportError(r) ==
    /\ requests' = requests \ {r}
    /\ UNCHANGED <<clock, tables, gateway, device, history>>

\* The UPDATE by command_id: NULL matches no row.
CommandResult(r) ==
    /\ requests' = requests \ {r}
    /\ commands' = IF r.command = None THEN commands
                   ELSE [commands EXCEPT ![r.command] = "executed"]
    /\ UNCHANGED <<clock, nodes, config, events, gateway, device, history>>

Pending(n) == {c \in Commands : Target[c] = n /\ commands[c] = "pending"}

\* A bug: the UPDATE is not committed before the connection closes.
PollUncommitted(r) ==
    /\ requests' = requests \ {r}
    /\ IF Pending(r.node) = {}
       THEN device' = Answered(r.node, "polling", "null")
       ELSE \E c \in Pending(r.node) : device' = Answered(r.node, "polling", c)
    /\ UNCHANGED <<clock, tables, gateway, history>>

\* A bug: the command counts as executed when it is handed out.
PollExecuted(r) ==
    /\ requests' = requests \ {r}
    /\ \/ /\ Pending(r.node) = {}
          /\ device' = Answered(r.node, "polling", "null")
          /\ UNCHANGED commands
       \/ \E c \in Pending(r.node) :
             /\ commands' = [commands EXCEPT ![c] = "executed"]
             /\ device' = Answered(r.node, "polling", c)
    /\ UNCHANGED <<clock, nodes, config, events, gateway, history>>

\* SELECT, UPDATE and answer; nobody may be waiting for it any more.  Which
\* command is the oldest is left open: issued_at has seconds, and ties.
Poll(r) ==
    /\ requests' = requests \ {r}
    /\ \/ /\ Pending(r.node) = {}
          /\ device' = Answered(r.node, "polling", "null")
          /\ UNCHANGED commands
       \/ \E c \in Pending(r.node) :
             /\ commands' = [commands EXCEPT ![c] = "queued"]
             /\ device' = Answered(r.node, "polling", c)
    /\ UNCHANGED <<clock, nodes, config, events, gateway, history>>

Serve(r) ==
    \/ r.kind = "hello" /\ Hello(r)
    \/ r.kind \in {"heartbeat", "state"} /\ Report(r)
    \/ r.kind = "event" /\ Event(r)
    \/ r.kind = "error" /\ ReportError(r)
    \/ r.kind = "result" /\ CommandResult(r)
    \/ r.kind = "poll" /\ Poll(r)

\* A bug: a connection without PRAGMA foreign_keys.
IssueCommandUnchecked(c) ==
    /\ commands[c] = "absent"
    /\ commands' = [commands EXCEPT ![c] = "pending"]
    /\ UNCHANGED <<clock, nodes, config, events, gateway, device, requests, history>>

\* POST /api/commands.  The foreign key refuses a node without a row.
IssueCommand(c) ==
    /\ commands[c] = "absent" /\ Known(Target[c])
    /\ commands' = [commands EXCEPT ![c] = "pending"]
    /\ UNCHANGED <<clock, nodes, config, events, gateway, device, requests, history>>

\* PATCH: a body without the field sets it to its default.
UpdateNodeConfig(n, i) ==
    /\ Known(n)
    /\ config' = [config EXCEPT ![n] = i]
    /\ UNCHANGED <<clock, nodes, events, commands, gateway, device, requests, history>>

\* Every node that is online and was not seen in time; a degraded one stays so.
OfflineWatcher ==
    /\ clock >= scan + Period
    /\ scan' = clock
    /\ nodes' = [n \in Nodes |->
          IF nodes[n].status = "online" /\ clock - nodes[n].seen > OfflineAfter
          THEN [nodes[n] EXCEPT !.status = "offline"] ELSE nodes[n]]
    /\ UNCHANGED <<clock, config, events, commands, restarts, device, requests, history>>

\* The watcher's sleep is over in time.
Tick ==
    /\ clock < MaxClock /\ clock < scan + Period
    /\ clock' = clock + 1
    /\ UNCHANGED <<tables, gateway, device, requests, history>>

\* The database is on disk; the watcher sleeps before its first scan.
Restart ==
    /\ restarts < MaxRestarts
    /\ restarts' = restarts + 1
    /\ scan' = clock
    /\ requests' = {}
    /\ UNCHANGED <<clock, tables, device, history>>

Next ==
    \/ \E n \in Nodes :
          \/ SendHello(n) \/ SendReport(n, "heartbeat") \/ SendReport(n, "state")
          \/ SendEvent(n) \/ SendError(n) \/ PollCommands(n) \/ TimesOut(n)
          \/ TakeConfig(n) \/ HandleCommand(n) \/ HandleNoCommand(n) \/ PowerCut(n)
          \/ \E i \in Intervals : UpdateNodeConfig(n, i)
    \/ \E r \in requests : Serve(r) \/ Lose(r)
    \/ \E c \in Commands : IssueCommand(c)
    \/ OfflineWatcher \/ Tick \/ Restart

Spec == Init /\ [][Next]_vars

-----------------------------------------------------------------------------
(* Properties                                                              *)

\* The type invariant, with the tables' foreign keys.
ForeignKeys ==
    /\ \A n \in Nodes : config[n] # None => Known(n)
    /\ \A c \in Commands : commands[c] # "absent" => Known(Target[c])
    /\ \A i \in EventIds : events[i] # None => Known(events[i].node)
TypeOK ==
    /\ clock \in 0..MaxClock
    /\ nodes \in [Nodes -> [status : Statuses, seen : 0..MaxClock] \cup {NoRow}]
    /\ config \in [Nodes -> Intervals \cup {None}]
    /\ events \in [EventIds -> [node : Nodes, data : Readings] \cup {None}]
    /\ commands \in [Commands -> {"absent", "pending", "queued", "executed"}]
    /\ scan \in 0..clock /\ restarts \in 0..MaxRestarts
    /\ device \in [Nodes -> [phase : {"off", "setup", "loop", "polling"},
                             registered : BOOLEAN, counter : 0..MaxEvents,
                             interval : Intervals,
                             answer : Intervals \cup Commands \cup {"null", None}]]
    /\ requests \subseteq Request
    /\ heard \in [Nodes -> [status : Statuses \cup {None}, at : 0..MaxClock]]
    /\ runs \in [Commands -> Nat]
    /\ ForeignKeys

\* A command is executed at most once, whatever was lost, came late or restarted:
\* the poll takes the row out of 'pending' before the node can have the command.
RunsAtMostOnce == \A c \in Commands : runs[c] <= 1

\* gateway.py's statuses 'pending', 'queued', 'executed' are the queued, pending and
\* final ones of the lifecycle, and its handlers implement it.
LifeStatus == [c \in Commands |-> CASE commands[c] = "pending" -> "queued"
                                    [] commands[c] = "queued" -> "pending"
                                    [] OTHER -> commands[c]]
LifeRan == [c \in Commands |-> IF runs[c] = 0 THEN {} ELSE {"executed"}]
Lifecycle == INSTANCE CommandLifecycle WITH
    Outcomes <- {"executed"}, status <- LifeStatus, ran <- LifeRan
ImplementsLifecycle == Lifecycle!Spec

\* A node has the status it last reported - in a hello, a heartbeat or a state
\* update - unless it said 'online' and then nothing for NODE_OFFLINE_SEC: only
\* then is it 'offline' without having said so.  The watcher decides and writes
\* in one statement, and events only postpone it.
OnlySilenceOverrules ==
    \A n \in Nodes : Known(n) =>
        \/ nodes[n].status = heard[n].status
        \/ /\ nodes[n].status = "offline" /\ heard[n].status = "online"
           /\ clock - heard[n].at > OfflineAfter
=============================================================================
