------------------------- MODULE CommandDispatch -------------------------
(***************************************************************************)
(* How a command travels from the operator's POST /nodes/{id}/commands to  *)
(* a node and how its result comes back.  A handler of the gateway awaits  *)
(* between its database statements and its MQTT calls, so each stretch     *)
(* between two awaits is an action of its own and the stretches of several *)
(* requests interleave.  The commands table survives a restart of the      *)
(* gateway; the requests being handled and the MQTT session do not.        *)
(***************************************************************************)
EXTENDS Naturals

CONSTANTS
    Commands,     \* the uuids of the commands, one per send request
    Nodes,        \* node ids
    Target,       \* Target[c]: the node a send request is addressed to
    MqttNodes,    \* nodes that run firmware/: they subscribe to cmd/in
    PollNodes,    \* nodes that GET /node/commands/{id}
    LegacyNodes,  \* polling nodes whose results carry no "code"
    Pollers,      \* poll requests that can be in progress at the same time
    PollerNode,   \* PollerNode[p]: the node poll request p comes from
    Outcomes,     \* the statuses a node reports in a command_result
    NoCommand,    \* the empty command_id of a command that did not parse
    MaxClock,     \* bound: seconds that issued_ts_utc can tell apart
    MaxRestarts   \* bound: restarts of the gateway

ASSUME CommandAssumption ==
    /\ Target \in [Commands -> Nodes]
    /\ PollerNode \in [Pollers -> PollNodes]
    /\ MqttNodes \subseteq Nodes /\ PollNodes \subseteq Nodes
    /\ LegacyNodes \subseteq PollNodes
    /\ Outcomes \cap {"absent", "queued", "pending"} = {}
    /\ NoCommand \notin Commands
    /\ MaxClock \in Nat /\ MaxRestarts \in Nat

VARIABLES
    known,     \* node ids with a row in the nodes table
    row,       \* row[c]: status column of command c, "absent" without a row
    issued,    \* issued[c]: its issued_ts_utc
    clock,     \* the gateway's wall clock, in the seconds it is printed with
    sender,    \* sender[c]: how far the send request of c has come
    client,    \* the bridge has an MQTT client
    cmdIn,     \* commands the broker still has to deliver on cmd/in
    inbox,     \* commands a polling node has been answered and not yet run
    outcomes,  \* outcomes[c]: statuses the nodes have produced for c
    results,   \* command_result messages on their way to the gateway
    poll,      \* poll[p]: progress of poll request p
    restarts

vars == <<known, row, issued, clock, sender, client, cmdIn, inbox, outcomes,
          results, poll, restarts>>
nodeVars == <<inbox, outcomes>>
gatewayVars == <<known, clock, client, restarts>>

Status == {"absent", "queued", "pending"} \cup Outcomes
Result == [cmd: Commands, status: Outcomes] \cup
          [cmd: {NoCommand}, status: {"rejected"}]
IdlePoll == [pc |-> "idle", cmd |-> NoCommand]
BusyPoll == [pc: {"selected", "marked"}, cmd: Commands]

\* The type invariant: rows, requests, polls and messages.
TypeOK ==
    /\ known \subseteq Nodes
    /\ row \in [Commands -> Status]
    /\ issued \in [Commands -> 0..MaxClock]
    /\ clock \in 0..MaxClock
    /\ sender \in [Commands -> {"idle", "checked", "inserted", "accepted",
                                "refused", "failed"}]
    /\ client \in BOOLEAN
    /\ cmdIn \subseteq Commands
    /\ inbox \subseteq Commands
    /\ outcomes \in [Commands -> SUBSET Outcomes]
    /\ results \subseteq Result
    /\ poll \in [Pollers -> {IdlePoll} \cup BusyPoll]
    /\ restarts \in 0..MaxRestarts

Init ==
    /\ known = {}
    /\ row = [c \in Commands |-> "absent"]
    /\ issued = [c \in Commands |-> 0]
    /\ clock = 0
    /\ sender = [c \in Commands |-> "idle"]
    /\ client = FALSE
    /\ cmdIn = {} /\ inbox = {} /\ results = {}
    /\ outcomes = [c \in Commands |-> {}]
    /\ poll = [p \in Pollers |-> IdlePoll]
    /\ restarts = 0

-----------------------------------------------------------------------------
(* The node table and the clock, as far as a command sees them.            *)

UpsertNode(n) ==
    /\ n \notin known
    /\ known' = known \cup {n}
    /\ UNCHANGED <<row, issued, clock, sender, client, cmdIn, results, poll,
                   restarts, nodeVars>>

Tick ==
    /\ clock < MaxClock
    /\ clock' = clock + 1
    /\ UNCHANGED <<known, row, issued, sender, client, cmdIn, results, poll,
                   restarts, nodeVars>>

-----------------------------------------------------------------------------
(* POST /nodes/{node_id}/commands                                           *)

\* The 404 test, then the payload with its uuid and time stamp.
SendCommand(c) ==
    /\ sender[c] = "idle"
    /\ \/ /\ Target[c] \in known
          /\ sender' = [sender EXCEPT ![c] = "checked"]
          /\ issued' = [issued EXCEPT ![c] = clock]
       \/ /\ Target[c] \notin known
          /\ sender' = [sender EXCEPT ![c] = "refused"]
          /\ UNCHANGED issued
    /\ UNCHANGED <<row, cmdIn, results, poll, gatewayVars, nodeVars>>

CreateCommand(c) ==
    /\ sender[c] = "checked"
    /\ row' = [row EXCEPT ![c] = "queued"]
    /\ sender' = [sender EXCEPT ![c] = "inserted"]
    /\ UNCHANGED <<issued, cmdIn, results, poll, gatewayVars, nodeVars>>

\* A message on cmd/in of a node without a subscription is dropped.
Brokered(c) == IF Target[c] \in MqttNodes THEN cmdIn \cup {c} ELSE cmdIn

\* A bug: the command is published before its row is written.
PublishBeforeInsert(c) ==
    /\ sender[c] \in {"checked", "inserted"} /\ client
    /\ cmdIn' = Brokered(c)
    /\ sender' = IF sender[c] = "inserted"
                 THEN [sender EXCEPT ![c] = "accepted"] ELSE sender
    /\ UNCHANGED <<row, issued, results, poll, gatewayVars, nodeVars>>

\* The answer is 200 once the broker confirms.  Without a client, or when the
\* connection breaks (the broker may have the message by then), the handler
\* raises and the answer is 500; the row stays as it is.
PublishCommand(c) ==
    /\ sender[c] = "inserted"
    /\ \/ /\ client
          /\ cmdIn' = Brokered(c)
          /\ sender' = [sender EXCEPT ![c] = "accepted"]
       \/ /\ cmdIn' \in (IF client THEN {cmdIn, Brokered(c)} ELSE {cmdIn})
          /\ sender' = [sender EXCEPT ![c] = "failed"]
    /\ UNCHANGED <<row, issued, results, poll, gatewayVars, nodeVars>>

-----------------------------------------------------------------------------
(* The broker and the node that listens on cmd/in                          *)

\* The gateway publishes with QoS 1, so the broker may hand over a second copy;
\* the node subscribes with QoS 0, so it may also get none.
AfterDelivery(c) == {cmdIn, cmdIn \ {c}}

LoseCommand(c) ==
    /\ c \in cmdIn
    /\ cmdIn' = cmdIn \ {c}
    /\ UNCHANGED <<row, issued, sender, results, poll, gatewayVars, nodeVars>>

\* The node runs what it is told, whether or not it has run it before.
OnMqttMessage(c, o) ==
    /\ c \in cmdIn
    /\ cmdIn' \in AfterDelivery(c)
    /\ outcomes' = [outcomes EXCEPT ![c] = @ \cup {o}]
    /\ results' = results \cup {[cmd |-> c, status |-> o]}
    /\ UNCHANGED <<row, issued, sender, inbox, poll, gatewayVars>>

\* A command too large for the node's JSON document does not parse: the
\* rejection goes out with an empty command_id.
OnUnparsedMessage(c) ==
    /\ c \in cmdIn
    /\ cmdIn' \in AfterDelivery(c)
    /\ results' = results \cup {[cmd |-> NoCommand, status |-> "rejected"]}
    /\ UNCHANGED <<row, issued, sender, poll, gatewayVars, nodeVars>>

-----------------------------------------------------------------------------
(* command_result, over MQTT cmd/out or POST /node/command_result          *)

LoseResult(r) ==
    /\ r \in results
    /\ results' = results \ {r}
    /\ UNCHANGED <<row, issued, sender, cmdIn, poll, gatewayVars, nodeVars>>

\* A bug: the UPDATE lost its WHERE clause.
RecordedEverywhere(r) ==
    [c \in Commands |->
        IF r.cmd # NoCommand /\ row[c] # "absent" THEN r.status ELSE row[c]]

\* A bug: the result is inserted when its id has no row.
RecordedAnyId(r) ==
    [c \in Commands \cup {r.cmd} |-> IF c = r.cmd THEN r.status ELSE row[c]]

\* The UPDATE by command_id, whatever the status of the row is.  An id without
\* a row changes nothing, and without "code" in the payload the handler raises.
Recorded(r) ==
    [c \in Commands |->
        IF r.cmd = c /\ row[c] # "absent" /\ Target[c] \notin LegacyNodes
        THEN r.status ELSE row[c]]

UpsertCommandResult(r) ==
    /\ r \in results
    /\ r.cmd = NoCommand \/ Target[r.cmd] \in MqttNodes => client
    /\ results' = results \ {r}
    /\ row' = Recorded(r)
    /\ UNCHANGED <<issued, sender, cmdIn, poll, gatewayVars, nodeVars>>

-----------------------------------------------------------------------------
(* GET /node/commands/{node_id}, and its twin under /v1/compat              *)

Oldest(c) == \A d \in Commands :
    row[d] = "queued" /\ Target[d] = Target[c] => issued[c] <= issued[d]

\* A bug: every command without a result is selected, handed out or not.
PollSelectOpen(p, c) ==
    /\ poll[p] = IdlePoll
    /\ Target[c] = PollerNode[p]
    /\ row[c] \in {"queued", "pending"}
    /\ poll' = [poll EXCEPT ![p] = [pc |-> "selected", cmd |-> c]]
    /\ UNCHANGED <<row, issued, sender, cmdIn, results, gatewayVars, nodeVars>>

\* The SELECT.  A poll that finds nothing answers at once and changes nothing.
PollSelect(p, c) ==
    /\ poll[p] = IdlePoll
    /\ Target[c] = PollerNode[p]
    /\ row[c] = "queued"
    /\ Oldest(c)
    /\ poll' = [poll EXCEPT ![p] = [pc |-> "selected", cmd |-> c]]
    /\ UNCHANGED <<row, issued, sender, cmdIn, results, gatewayVars, nodeVars>>

\* A bug: the answer is built from the SELECT and the UPDATE is left out.
PollForgetMark(p) ==
    /\ poll[p].pc = "selected"
    /\ poll' = [poll EXCEPT ![p].pc = "marked"]
    /\ UNCHANGED <<row, issued, sender, cmdIn, results, gatewayVars, nodeVars>>

\* The UPDATE and its commit: it does not look at the status again.
PollMarkPending(p) ==
    /\ poll[p].pc = "selected"
    /\ row' = [row EXCEPT ![poll[p].cmd] = "pending"]
    /\ poll' = [poll EXCEPT ![p].pc = "marked"]
    /\ UNCHANGED <<issued, sender, cmdIn, results, gatewayVars, nodeVars>>

\* The answer reaches the node, or the node has stopped waiting for it.
PollRespond(p) ==
    /\ poll[p].pc = "marked"
    /\ inbox' \in {inbox, inbox \cup {poll[p].cmd}}
    /\ poll' = [poll EXCEPT ![p] = IdlePoll]
    /\ UNCHANGED <<row, issued, sender, cmdIn, outcomes, results, gatewayVars>>

\* The polling node runs the command and posts the result.
HandleCommand(c, o) ==
    /\ c \in inbox
    /\ inbox' = inbox \ {c}
    /\ outcomes' = [outcomes EXCEPT ![c] = @ \cup {o}]
    /\ results' = results \cup {[cmd |-> c, status |-> o]}
    /\ UNCHANGED <<row, issued, sender, cmdIn, poll, gatewayVars>>

-----------------------------------------------------------------------------
(* The bridge's connection and the gateway process                         *)

BridgeConnect ==
    /\ ~client
    /\ client' = TRUE
    /\ UNCHANGED <<known, row, issued, clock, sender, cmdIn, results, poll,
                   restarts, nodeVars>>

BridgeLost ==
    /\ client
    /\ client' = FALSE
    /\ UNCHANGED <<known, row, issued, clock, sender, cmdIn, results, poll,
                   restarts, nodeVars>>

Restart ==
    /\ restarts < MaxRestarts
    /\ restarts' = restarts + 1
    /\ client' = FALSE
    /\ sender' = [c \in Commands |-> IF sender[c] \in {"checked", "inserted"}
                                     THEN "failed" ELSE sender[c]]
    /\ poll' = [p \in Pollers |-> IdlePoll]
    /\ UNCHANGED <<known, row, issued, clock, cmdIn, results, nodeVars>>

Next ==
    \/ \E n \in Nodes : UpsertNode(n)
    \/ Tick
    \/ \E c \in Commands :
          SendCommand(c) \/ CreateCommand(c) \/ PublishCommand(c)
    \/ \E c \in Commands :
          \/ LoseCommand(c) \/ OnUnparsedMessage(c)
          \/ \E o \in Outcomes : OnMqttMessage(c, o) \/ HandleCommand(c, o)
    \/ \E r \in results : LoseResult(r) \/ UpsertCommandResult(r)
    \/ \E p \in Pollers :
          \/ \E c \in Commands : PollSelect(p, c)
          \/ PollMarkPending(p) \/ PollRespond(p)
    \/ BridgeConnect \/ BridgeLost \/ Restart

Spec == Init /\ [][Next]_vars

\* The event loop runs every handler it has started to its end, and a polling
\* node keeps polling.  Nothing is assumed of operators, of MQTT or of results.
FairSpec ==
    /\ Spec
    /\ \A p \in Pollers :
          /\ WF_vars(\E c \in Commands : PollSelect(p, c))
          /\ WF_vars(PollMarkPending(p))
          /\ WF_vars(PollRespond(p))

-----------------------------------------------------------------------------
(* Properties                                                              *)

\* Whatever is under way for a command - its request answered 200, a copy at
\* the broker or at a node, a poll that selected it, a result coming back -
\* its row is already committed, for a node the gateway knows.  The UPDATEs by
\* command_id of the poll and of the result therefore never miss.
UnderWay(c) ==
    \/ sender[c] \in {"inserted", "accepted"}
    \/ c \in cmdIn \cup inbox
    \/ outcomes[c] # {}
    \/ \E r \in results : r.cmd = c
    \/ \E p \in Pollers : poll[p].cmd = c
DispatchHasRow ==
    \A c \in Commands : UnderWay(c) => row[c] # "absent" /\ Target[c] \in known

\* A final status in the commands table is one that a node really produced for
\* that very command, whatever was lost, repeated or reordered on the way.
RecordedWasReported ==
    \A c \in Commands : row[c] \in Outcomes => row[c] \in outcomes[c]

\* What a poll selected is still what its UPDATE expects to find: a queued
\* command that no node has run.
SelectionIsFresh ==
    \A p \in Pollers : poll[p].pc = "selected" =>
        row[poll[p].cmd] = "queued" /\ outcomes[poll[p].cmd] = {}

\* A polled command that some node has run is not offered to a poll again.
RunIsNotOfferedAgain ==
    \A c \in Commands : Target[c] \in PollNodes /\ outcomes[c] # {} =>
        row[c] # "queued"

\* For polling nodes the handlers implement CommandLifecycle: each command is
\* handed out once, run once, and its recorded status is final.
Polled == {c \in Commands : Target[c] \in PollNodes}
Lifecycle == INSTANCE CommandLifecycle WITH
    Commands <- Polled,
    status <- [c \in Polled |-> row[c]],
    ran <- [c \in Polled |-> outcomes[c]]
ImplementsLifecycle == Lifecycle!Spec

\* A polling node's commands do not starve: each queued one is handed over.
QueuedIsPicked ==
    \A c \in Commands :
        (row[c] = "queued" /\ Target[c] \in PollNodes) ~> (row[c] # "queued")

\* docs/schemas/node_registry_schema.md, "Registry update rules" 5: a
\* command_result is persisted immutably.
ResultIsImmutable ==
    [][\A c \in Commands : row[c] \in Outcomes => row'[c] = row[c]]_vars
=============================================================================
