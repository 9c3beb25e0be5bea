--------------------------- MODULE NodeRegistry ---------------------------
(***************************************************************************)
(* The nodes table as the messages of the nodes and the gateway's offline  *)
(* watcher write it.  A handler is one UPDATE and its commit; the watcher  *)
(* reads the table in one statement and writes what it concluded in        *)
(* another transaction, and messages are handled in between.               *)
(*                                                                         *)
(* Time is counted in units of the watcher's scan: a scan finishes before  *)
(* the clock moves on, so that the bounds below are the code's.            *)
(***************************************************************************)
EXTENDS Integers, FiniteSets

CONSTANTS
    Nodes,         \* node ids
    Reports,       \* statuses that a heartbeat or state_update carries
    MaxAhead,      \* how far the clock of a node may run ahead of the gateway's
    OfflineAfter,  \* settings.offline_after_seconds
    Period,        \* the watcher's sleep
    MaxClock,      \* bound: the clock
    MaxInFlight,   \* bound: messages on their way to the gateway
    MaxRestarts    \* bound: stops of the gateway

ASSUME RegistryAssumption ==
    /\ "online" \in Reports /\ "absent" \notin Reports
    /\ MaxAhead \in Nat /\ OfflineAfter \in Nat /\ Period \in Nat \ {0}
    /\ MaxClock \in Nat /\ MaxClock > OfflineAfter
    /\ MaxInFlight \in Nat /\ MaxRestarts \in Nat

VARIABLES
    clock,     \* the gateway's clock
    status,    \* status[n]: the status column, "absent" without a row
    seen,      \* seen[n]: last_seen_utc
    heard,     \* heard[n]: when the gateway last wrote a message of n (history)
    net,       \* messages on their way to the gateway
    pc,        \* the gateway is down, or what its watcher is doing
    wake,      \* when the watcher's sleep ends
    late,      \* the nodes the scan in progress found timed out
    restarts

vars == <<clock, status, seen, heard, net, pc, wake, late, restarts>>
table == <<status, seen, heard>>
watcher == <<pc, wake, late, restarts>>

Empty == -2
Garbled == -1
LongAgo == 0
Stamp == Empty..(MaxClock + MaxAhead)

\* The ts_utc a node may send now: its clock's, which agrees with the gateway's
\* or runs ahead of it; the firmware's placeholder, if its clock was never set
\* (the gateway's clock starts so late that this date has timed out); a text
\* that datetime.fromisoformat rejects; or none, which only POST /v1/node/*
\* refuses - the MQTT bridge and /v1/compat store any ts_utc.
Stamps == {Empty, Garbled, LongAgo} \cup clock..(clock + MaxAhead)

Status == {"absent", "offline"} \cup Reports
Message ==
    [kind: {"hello", "heartbeat", "state"}, node: Nodes,
     stamp: Stamp, status: Reports]

\* The type invariant: table, messages and watcher.
TypeOK ==
    /\ clock \in 0..MaxClock
    /\ status \in [Nodes -> Status]
    /\ seen \in [Nodes -> Stamp]
    /\ heard \in [Nodes -> 0..MaxClock]
    /\ net \subseteq Message
    /\ pc \in {"down", "starting", "marking", "asleep", "dead"}
    /\ wake \in Nat
    /\ late \subseteq Nodes
    /\ restarts \in 0..MaxRestarts

Init ==
    /\ clock = OfflineAfter + 1
    /\ status = [n \in Nodes |-> "absent"]
    /\ seen = [n \in Nodes |-> LongAgo]
    /\ heard = [n \in Nodes |-> LongAgo]
    /\ net = {}
    /\ pc = "down" /\ wake = 0 /\ late = {} /\ restarts = 0

-----------------------------------------------------------------------------
(* Nodes and transport                                                      *)

Send(n, k, s, t) ==
    /\ Cardinality(net) < MaxInFlight
    /\ k = "hello" => s = "online"
    /\ k = "state" => t = Empty             \* nobody reads it
    /\ net' = net \cup {[kind |-> k, node |-> n, stamp |-> t, status |-> s]}
    /\ UNCHANGED <<clock, table, watcher>>

Lose(m) ==
    /\ net' = net \ {m}
    /\ UNCHANGED <<clock, table, watcher>>

-----------------------------------------------------------------------------
(* The handlers, over MQTT or HTTP                                          *)

Write(m, s, t) ==
    /\ status' = [status EXCEPT ![m.node] = s]
    /\ seen' = [seen EXCEPT ![m.node] = t]
    /\ heard' = [heard EXCEPT ![m.node] = clock]

Received(m) ==
    /\ pc # "down"
    /\ net' = net \ {m}
    /\ UNCHANGED <<clock, watcher>>

UpsertNode(m) ==
    /\ m.kind = "hello"
    /\ Received(m)
    /\ Write(m, "online", m.stamp)

\* A bug: a payload without a status has no default.
HeartbeatWithoutDefault(m) ==
    /\ m.kind = "heartbeat"
    /\ Received(m)
    /\ IF status[m.node] = "absent" THEN UNCHANGED table
       ELSE Write(m, IF m.status = "online" THEN "null" ELSE m.status, m.stamp)

\* The UPDATE of a node without a row changes nothing.
UpdateHeartbeat(m) ==
    /\ m.kind = "heartbeat"
    /\ Received(m)
    /\ IF status[m.node] = "absent" THEN UNCHANGED table
                                    ELSE Write(m, m.status, m.stamp)

\* A state_update is stamped by the gateway.
HandleState(m) ==
    /\ m.kind = "state"
    /\ Received(m)
    /\ IF status[m.node] = "absent" THEN UNCHANGED table
                                    ELSE Write(m, m.status, clock)

-----------------------------------------------------------------------------
(* The offline watcher                                                      *)

Due == pc = "starting" \/ (pc = "asleep" /\ clock >= wake)

\* A bug: the scan takes retired nodes too.
InServiceAll(n) == status[n] # "absent"

\* WHERE status != 'retired'
InService(n) == status[n] \notin {"absent", "retired"}
\* if not last_seen: continue
TimedOut(n) == seen[n] # Empty /\ clock - seen[n] > OfflineAfter

\* A bug: what the stamp raises is caught around the loop, not in it.
ScanGivesUp ==
    /\ Due
    /\ pc' = "marking"
    /\ late' = IF \E n \in Nodes : InService(n) /\ seen[n] = Garbled THEN {}
               ELSE {n \in Nodes : InService(n) /\ TimedOut(n)}
    /\ UNCHANGED <<clock, table, net, wake, restarts>>

\* now, and the SELECT.  A stamp that does not parse raises out of the scan
\* (updates of earlier rows are rolled back) and ends the watcher's task.
Scan ==
    /\ Due
    /\ IF \E n \in Nodes : InService(n) /\ seen[n] = Garbled
       THEN pc' = "dead" /\ late' = {}
       ELSE pc' = "marking" /\ late' = {n \in Nodes : InService(n) /\ TimedOut(n)}
    /\ UNCHANGED <<clock, table, net, wake, restarts>>

\* The UPDATEs, their commit, and the sleep.
MarkOffline ==
    /\ pc = "marking"
    /\ status' = [n \in Nodes |-> IF n \in late THEN "offline" ELSE status[n]]
    /\ pc' = "asleep" /\ wake' = clock + Period /\ late' = {}
    /\ UNCHANGED <<clock, seen, heard, net, restarts>>

Start ==
    /\ pc = "down"
    /\ pc' = "starting"
    /\ UNCHANGED <<clock, table, net, wake, late, restarts>>

Stop ==
    /\ pc # "down" /\ restarts < MaxRestarts
    /\ pc' = "down" /\ late' = {} /\ restarts' = restarts + 1
    /\ UNCHANGED <<clock, table, net, wake>>

Tick ==
    /\ clock < MaxClock
    /\ ~Due /\ pc # "marking"
    /\ clock' = clock + 1
    /\ UNCHANGED <<table, net, watcher>>

Next ==
    \/ \E n \in Nodes, k \in {"hello", "heartbeat", "state"}, s \in Reports :
          \E t \in Stamps : Send(n, k, s, t)
    \/ \E m \in net :
          Lose(m) \/ UpsertNode(m) \/ UpdateHeartbeat(m) \/ HandleState(m)
    \/ Scan \/ MarkOffline \/ Start \/ Stop \/ Tick

Spec == Init /\ [][Next]_vars

-----------------------------------------------------------------------------
(* Properties                                                              *)

\* The later of the last message of n and the time its stamp named.
LastSign(n) == IF seen[n] > heard[n] THEN seen[n] ELSE heard[n]

\* docs/TEST_FLOW.md, scenario 4: a node that is powered off is offline after
\* offline_after_sec and one period of the watcher - whatever it reported last,
\* however late its messages came, and for as long as the watcher lives.  The
\* time counts from the node's own stamp if that is ahead of the gateway, and
\* the watcher never looks at a node whose last stamp was empty.
SilentIsOffline ==
    pc = "asleep" =>
        \A n \in Nodes :
            /\ status[n] \notin {"absent", "retired"} /\ seen[n] # Empty
            /\ clock - LastSign(n) > OfflineAfter + Period
            => status[n] = "offline"

\* What the UPDATE writes over is what the SELECT saw - a timed out node that
\* is in service - or a message of that node came in between.
OnlyRacedIsOverwritten ==
    \A n \in late :
        heard[n] = clock \/ (status[n] # "retired" /\ TimedOut(n))
=============================================================================
