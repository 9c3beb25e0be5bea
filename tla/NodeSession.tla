--------------------------- MODULE NodeSession ---------------------------
(***************************************************************************)
(* What a node and the gateway keep for each other: the firmware's queue   *)
(* of messages, the log the gateway stores them in, the configuration that *)
(* hello returns and operators change, and the summary of the fleet.  An   *)
(* HTTP handler is split where it awaits a statement of its own.           *)
(***************************************************************************)
EXTENDS Integers, Sequences, FiniteSets

CONSTANTS
    Nodes, Requests, Messages, None,
    Posted,         \* the messages that are posted
    Legacy,         \* the messages of V1 nodes, which /v1/compat translates
    MessageId,      \* MessageId[m]: its message_id, None if a V1 message has none
    EventId,        \* EventId[m]: its payload's event_id; V1 nodes count them from 1
    Sender,         \* Sender[m]
    Confirmed,      \* the messages with requires_ack
    Capacity,       \* of the firmware's EventQueue
    Default,        \* the interval of a new row of node_config
    Intervals,      \* what PATCH accepts
    MaxReboots,
    MaxChanges      \* changes of a status while a summary is read

ASSUME MessagesAssumption ==
    /\ Sender \in [Messages -> Nodes] /\ Confirmed \cup Posted \cup Legacy \subseteq Messages
    /\ \A m \in Messages \ Legacy : MessageId[m] # None
ASSUME NodesAssumption == IsFiniteSet(Nodes) /\ None \notin Nodes
ASSUME IntervalsAssumption == Default \in Intervals /\ None \notin Intervals
ASSUME BoundsAssumption == {Capacity, MaxReboots, MaxChanges} \subseteq Nat

VARIABLES
    status,     \* status[n]: nodes.status, "absent" without a row
    config,     \* config[n]: heartbeat_interval_sec in node_config
    log,        \* the messages with a row in events, errors or acks
    request,    \* request[r]: a handler under way
    queue,      \* queue[n]: the node's EventQueue
    link,       \* messages published and not yet handled
    made,       \* the messages the firmware has made
    reboots,
    wish,       \* history: wish[n], the last interval PATCH stored
    held        \* history: held[r], what the node's row held since the hello began

firmware == <<queue, link, made, reboots>>
history == <<wish, held>>
vars == <<status, config, log, request, firmware, history>>

Statuses == {"online", "offline", "degraded", "retired"}
Idle == [op |-> "none", step |-> "none", node |-> None, body |-> None, counts |-> <<>>, changes |-> 0]

Init ==
    /\ status = [n \in Nodes |-> "absent"]
    /\ config = [n \in Nodes |-> None]
    /\ log = {}
    /\ request = [r \in Requests |-> Idle]
    /\ queue = [n \in Nodes |-> <<>>]
    /\ link = {} /\ made = {} /\ reboots = 0
    /\ wish = [n \in Nodes |-> None]
    /\ held = [r \in Requests |-> {}]

-----------------------------------------------------------------------------
(* The firmware.                                                            *)

\* A bug: the queue takes what it is given.
EnqueueAll(m) ==
    /\ m \notin made \cup Legacy
    /\ made' = made \cup {m}
    /\ queue' = [queue EXCEPT ![Sender[m]] = Append(@, m)]
    /\ UNCHANGED <<status, config, log, request, link, reboots, history>>

\* A module builds a message; a full queue refuses it.
Enqueue(m) ==
    LET n == Sender[m]
    IN /\ m \notin made \cup Legacy
       /\ made' = made \cup {m}
       /\ queue' = IF Len(queue[n]) >= Capacity THEN queue
                   ELSE [queue EXCEPT ![n] = Append(@, m)]
       /\ UNCHANGED <<status, config, log, request, link, reboots, history>>

\* One turn of flushQueue: a message that asks for confirmation stays at the head,
\* and is published again in every loop.  Nothing calls markAcknowledged.
FlushQueue(n) ==
    /\ queue[n] # <<>>
    /\ link' = link \cup {Head(queue[n])}
    /\ queue' = IF Head(queue[n]) \in Confirmed THEN queue
                ELSE [queue EXCEPT ![n] = Tail(@)]
    /\ UNCHANGED <<status, config, log, request, made, reboots, history>>

\* The queue is in RAM.
Reboot(n) ==
    /\ reboots < MaxReboots
    /\ reboots' = reboots + 1
    /\ queue' = [queue EXCEPT ![n] = <<>>]
    /\ UNCHANGED <<status, config, log, request, link, made, history>>

\* The firmware publishes with QoS 0.
Lose(m) ==
    /\ m \in link
    /\ link' = link \ {m}
    /\ UNCHANGED <<status, config, log, request, queue, made, reboots, history>>

-----------------------------------------------------------------------------
(* The log.                                                                 *)

\* The id a message is stored by: _translate_envelope prefers event_id, and makes up
\* a new id at each attempt for a V1 message that has neither (None).
Id == [m \in Messages |->
          IF m \in Legacy /\ EventId[m] # None THEN EventId[m] ELSE MessageId[m]]

\* Its id has a row, of m or of another message; an id made up has none.
Stored(m) == Id[m] # None /\ \E k \in log : Id[k] = Id[m]

\* insert_event, insert_error, insert_ack: INSERT OR IGNORE, unique by message_id.
Inserted(m) == IF Stored(m) THEN log ELSE log \cup {m}

\* _handle_event, _handle_error
HandleMessage(m) ==
    /\ m \in link
    /\ link' = link \ {m}
    /\ log' = Inserted(m)
    /\ UNCHANGED <<status, config, request, queue, made, reboots, history>>

\* POST /api/node/event or error, for the first time or again.
PostMessage(m) ==
    /\ m \notin Legacy
    /\ log' = Inserted(m)
    /\ UNCHANGED <<status, config, request, firmware, history>>

\* POST /v1/compat/node/event or error: the same, once it is translated.
CompatPost(m) ==
    /\ m \in Legacy
    /\ log' = Inserted(m)
    /\ UNCHANGED <<status, config, request, firmware, history>>

-----------------------------------------------------------------------------
(* The registry, as far as the summary and hello see it.                    *)

\* The requests after a status changed: those that count are told.
Changed == [r \in Requests |->
    IF request[r].op = "summary" THEN [request[r] EXCEPT !.changes = @ + 1] ELSE request[r]]
Bounded == \A r \in Requests : request[r].changes < MaxChanges

\* Heartbeats, the watcher and whoever retires a node: one statement each.
SetStatus(n, s) ==
    /\ status[n] \notin {"absent", s} /\ Bounded
    /\ status' = [status EXCEPT ![n] = s]
    /\ request' = Changed
    /\ UNCHANGED <<config, log, firmware, history>>

\* upsert_node, as _handle_hello calls it: whatever the row says, the node is online
\* again.  The ack it publishes holds no configuration of the node.
HandleHello(n) ==
    /\ Bounded
    /\ status' = [status EXCEPT ![n] = "online"]
    /\ request' = Changed
    /\ UNCHANGED <<config, log, firmware, history>>

\* upsert_node, as the handlers of POST /node/hello call it, with the step they take next.
Greet(r, n, step) ==
    /\ request[r] = Idle /\ Bounded
    /\ status' = [status EXCEPT ![n] = "online"]
    /\ request' = [Changed EXCEPT ![r] =
          [Idle EXCEPT !.op = "hello", !.step = step, !.node = n]]
    /\ held' = [held EXCEPT ![r] = {config[n]}]
    /\ UNCHANGED <<config, log, firmware, wish>>

\* The canonical handler looks for a configuration first, that of /v1/compat inserts one.
NodeHello(r, n) == Greet(r, n, "select")
CompatHello(r, n) == Greet(r, n, "insert")

\* With a row the canonical handler is ready to answer.
SelectConfig(r) ==
    /\ request[r].step = "select"
    /\ LET i == config[request[r].node]
       IN request' = [request EXCEPT ![r].step = IF i = None THEN "insert" ELSE "answer",
                                     ![r].body = i]
    /\ UNCHANGED <<status, config, log, firmware, history>>

\* What the hellos under way have held once the row of n holds i.
HeldWith(n, i) == [r \in Requests |->
    IF request[r].op = "hello" /\ request[r].node = n THEN held[r] \cup {i} ELSE held[r]]

\* A bug: INSERT OR REPLACE of the default.
InsertReplacing(r) ==
    /\ request[r].step = "insert"
    /\ LET n == request[r].node
       IN /\ config' = [config EXCEPT ![n] = Default]
          /\ held' = HeldWith(n, Default)
    /\ request' = [request EXCEPT ![r].step = "reselect"]
    /\ UNCHANGED <<status, log, firmware, wish>>

\* INSERT OR IGNORE of the default
InsertDefault(r) ==
    /\ request[r].step = "insert"
    /\ LET n == request[r].node
           i == IF config[n] = None THEN Default ELSE config[n]
       IN /\ config' = [config EXCEPT ![n] = i]
          /\ held' = HeldWith(n, i)
    /\ request' = [request EXCEPT ![r].step = "reselect"]
    /\ UNCHANGED <<status, log, firmware, wish>>

\* A bug: the answer holds the default that was to be inserted.
ReselectDefault(r) ==
    /\ request[r].step = "reselect"
    /\ request' = [request EXCEPT ![r].step = "answer", ![r].body = Default]
    /\ UNCHANGED <<status, config, log, firmware, history>>

Reselect(r) ==
    /\ request[r].step = "reselect"
    /\ request' = [request EXCEPT ![r].step = "answer", ![r].body = config[request[r].node]]
    /\ UNCHANGED <<status, config, log, firmware, history>>

\* The answer is sent, whether the node still waits for it or not.
Answer(r) ==
    /\ request[r].step = "answer"
    /\ request' = [request EXCEPT ![r] = Idle]
    /\ held' = [held EXCEPT ![r] = {}]
    /\ UNCHANGED <<status, config, log, firmware, wish>>

\* PATCH /nodes/{node_id}/config: a field left out gets its default; 404 without the
\* node, or on to the write.
PatchConfig(r, n, i) ==
    /\ request[r] = Idle
    /\ status[n] # "absent"
    /\ request' = [request EXCEPT ![r] = [Idle EXCEPT !.op = "patch", !.step = "write",
                                                      !.node = n, !.body = i]]
    /\ UNCHANGED <<status, config, log, firmware, history>>

WriteConfig(r) ==
    /\ request[r].step = "write"
    /\ LET n == request[r].node
           i == request[r].body
       IN /\ config' = [config EXCEPT ![n] = i]
          /\ wish' = [wish EXCEPT ![n] = i]
          /\ held' = HeldWith(n, i)
          /\ request' = [request EXCEPT ![r] = Idle]
    /\ UNCHANGED <<status, log, firmware>>

-----------------------------------------------------------------------------
(* GET /summary: one SELECT after the other, not in one transaction.        *)

HowMany(S) == Cardinality({n \in Nodes : status[n] \in S})

\* A bug: the total leaves out the nodes that are offline.
CountedInService == <<{"online", "degraded"}, {"online"}, {"offline"}>>

\* total_nodes, online_count, offline_count
Counted == <<Statuses \ {"retired"}, {"online"}, {"offline"}>>

StartSummary(r) ==
    /\ request[r] = Idle
    /\ request' = [request EXCEPT ![r] =
          [Idle EXCEPT !.op = "summary", !.step = "count", !.counts = <<HowMany(Counted[1])>>]]
    /\ UNCHANGED <<status, config, log, firmware, history>>

CountNext(r) ==
    /\ request[r].step = "count"
    /\ LET c == Append(request[r].counts, HowMany(Counted[Len(request[r].counts) + 1]))
       IN request' = [request EXCEPT ![r].counts = c,
                          ![r].step = IF Len(c) = Len(Counted) THEN "answer" ELSE "count"]
    /\ UNCHANGED <<status, config, log, firmware, history>>

Next ==
    \/ \E m \in Messages : Enqueue(m) \/ Lose(m) \/ HandleMessage(m)
    \/ \E m \in Posted : PostMessage(m) \/ CompatPost(m)
    \/ \E n \in Nodes :
          \/ FlushQueue(n) \/ Reboot(n) \/ HandleHello(n)
          \/ \E s \in Statuses : SetStatus(n, s)
    \/ \E r \in Requests :
          \/ \E n \in Nodes :
                \/ NodeHello(r, n) \/ CompatHello(r, n)
                \/ \E i \in Intervals : PatchConfig(r, n, i)
          \/ SelectConfig(r) \/ InsertDefault(r) \/ Reselect(r) \/ Answer(r) \/ WriteConfig(r)
          \/ StartSummary(r) \/ CountNext(r)

Spec == Init /\ [][Next]_vars

-----------------------------------------------------------------------------
(* Properties                                                              *)

\* The type invariant.
TypeOK ==
    /\ status \in [Nodes -> Statuses \cup {"absent"}]
    /\ config \in [Nodes -> Intervals \cup {None}]
    /\ log \subseteq Messages
    /\ \A n \in Nodes : queue[n] \in Seq(Messages) /\ Len(queue[n]) <= Capacity
    /\ link \subseteq Messages /\ made \subseteq Messages
    /\ reboots \in 0..MaxReboots
    /\ wish \in [Nodes -> Intervals \cup {None}]
    /\ held \in [Requests -> SUBSET (Intervals \cup {None})]
    /\ request \in [Requests ->
          [op : {"none", "hello", "patch", "summary"},
           step : {"none", "insert", "select", "reselect", "answer", "write", "count"},
           node : Nodes \cup {None}, body : Intervals \cup {None},
           counts : Seq(Nat), changes : Nat]]

\* An interval that PATCH stored is not reset by the default of a hello that looked
\* before it was there.
PatchIsKept == \A n \in Nodes : wish[n] # None => config[n] = wish[n]

\* A hello tells its node an interval that the node's row held since the hello began:
\* neither nothing, nor the default where a PATCH came first, nor what the row held
\* before a PATCH that was answered already.
HelloTellsTheStored ==
    \A r \in Requests : request[r].op = "hello" /\ request[r].step = "answer" =>
        request[r].body \in held[r] \ {None}

\* The counts of a summary are taken one by one; their sum is wrong by no more
\* than the changes in between.
SummaryNearlyAdds ==
    \A r \in Requests : request[r].op = "summary" /\ request[r].step = "answer" =>
        request[r].counts[2] + request[r].counts[3]
            <= request[r].counts[1] + request[r].changes
=============================================================================
