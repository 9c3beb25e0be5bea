---------------------------- MODULE MqttIngest -----------------------------
(***************************************************************************)
(* The gateway's MQTT bridge: one task reads the messages under            *)
(* cnp/v1/nodes/+/# one after the other, in front of it a rate limit and a *)
(* quarantine for every client id, and a reconnection when the connection  *)
(* or the task's own code fails.  The gateway publishes under the same     *)
(* topics and so receives what it sends.                                   *)
(***************************************************************************)
EXTENDS Integers, Sequences, FiniteSets

CONSTANTS
    Nodes,           \* client ids: the node_id of the topic
    Second,          \* steps of time.monotonic() in a second
    PerSecMax,       \* _MQTT_PER_CLIENT_MAX_PER_SEC
    BurstMax,        \* _MQTT_BURST_MAX_PER_5S
    BurstSec,        \* _MQTT_BURST_WINDOW_SEC
    InvalidMax,      \* _MQTT_INVALID_THRESHOLD
    BreachSec,       \* _MQTT_BREACH_WINDOW_SEC
    QuarantineSec,   \* _MQTT_QUARANTINE_SEC
    MqttRetrySec,    \* the pause after an MqttError
    ErrorRetrySec,   \* the pause after any other exception
    Nobody,          \* no handler is being awaited
    MaxClock,        \* bound: the clock
    MaxMessages,     \* bound: messages published under a node's topics
    MaxInbox         \* bound: messages waiting in filtered_messages

ASSUME IngestAssumption ==
    /\ Second \in Nat \ {0}
    /\ PerSecMax \in Nat /\ BurstMax \in Nat /\ InvalidMax \in Nat \ {0}
    /\ BurstSec \in Nat \ {0} /\ BreachSec \in Nat /\ QuarantineSec \in Nat
    /\ MqttRetrySec \in Nat /\ ErrorRetrySec \in Nat
    /\ MaxClock \in Nat /\ MaxMessages \in Nat /\ MaxInbox \in Nat

\* What a payload turns out to be: not UTF-8, not JSON, JSON but no object, a
\* hello, or another message; what the gateway itself publishes is of the last
\* kind.
Kinds == {"undecodable", "unparsed", "scalar", "hello", "other"}
Message == [node : Nodes, kind : Kinds]
ASSUME NobodyAssumption == Nobody \notin Message

VARIABLES
    clock,     \* time.monotonic()
    link,      \* the bridge iterates over messages, or sleeps
    retryAt,   \* when it wakes up, 0 unless it sleeps
    inbox,     \* the queue of filtered_messages
    busy,      \* the message whose handler is being awaited
    published, \* published[n]: messages under n's topics so far
    stamps,    \* message_timestamps
    invalid,   \* invalid_timestamps
    until,     \* quarantined_until
    passed,    \* passed[n]: when messages were let through (history)
    rejected   \* rejected[n]: when payloads were recorded as invalid (history)

vars == <<clock, link, retryAt, inbox, busy, published, stamps, invalid,
          until, passed, rejected>>
clients == <<published, stamps, invalid, until, passed, rejected>>

Times == 0..MaxClock

\* The type invariant: connection, queue and rate states; nothing waits while the link is down.
TypeOK ==
    /\ clock \in Times
    /\ link \in {"up", "down"}
    /\ retryAt \in Nat
    /\ inbox \in Seq(Message)
    /\ busy \in Message \cup {Nobody}
    /\ link = "down" => inbox = <<>> /\ busy = Nobody
    /\ published \in [Nodes -> 0..MaxMessages]
    /\ stamps \in [Nodes -> Seq(Times)]
    /\ invalid \in [Nodes -> Seq(Times)]
    /\ until \in [Nodes -> Nat]
    /\ passed \in [Nodes -> Seq(Times)]
    /\ rejected \in [Nodes -> Seq(Times)]

Init ==
    /\ clock = 0 /\ link = "up" /\ retryAt = 0
    /\ inbox = <<>> /\ busy = Nobody
    /\ published = [n \in Nodes |-> 0]
    /\ stamps = [n \in Nodes |-> <<>>]
    /\ invalid = [n \in Nodes |-> <<>>]
    /\ until = [n \in Nodes |-> 0]
    /\ passed = [n \in Nodes |-> <<>>]
    /\ rejected = [n \in Nodes |-> <<>>]

-----------------------------------------------------------------------------
(* _ClientRateState                                                         *)

\* The deque with what is older than the window popped.
Trim(dq, window) ==
    LET first == CHOOSE f \in 1..(Len(dq) + 1) :
                    /\ \A i \in 1..(f - 1) : dq[i] < clock - window
                    /\ f <= Len(dq) => dq[f] >= clock - window
    IN  SubSeq(dq, first, Len(dq))

Quarantined(n) == clock < until[n]

\* message_timestamps once the message has been recorded and both windows have
\* been counted: the second count finds what the first one left.
LastSecond(n) == Trim(Append(stamps[n], clock), Second)
Burst(n) == Trim(LastSecond(n), BurstSec * Second)

\* A bug: the message is counted before it is recorded.
OverRateLate(n) == Len(LastSecond(n)) > PerSecMax + 1

OverRate(n) ==
    \/ Len(LastSecond(n)) > PerSecMax
    \/ Len(Burst(n)) > BurstMax

\* A bug: one invalid message more than the threshold is waited for.
RecordInvalidOver(n) ==
    LET dq == Trim(Append(invalid[n], clock), BreachSec * Second) IN
    /\ invalid' = [invalid EXCEPT ![n] = dq]
    /\ until' = IF Len(dq) > InvalidMax
                THEN [until EXCEPT ![n] = clock + QuarantineSec * Second]
                ELSE until
    /\ rejected' = [rejected EXCEPT ![n] = Append(@, clock)]

RecordInvalid(n) ==
    LET dq == Trim(Append(invalid[n], clock), BreachSec * Second) IN
    /\ invalid' = [invalid EXCEPT ![n] = dq]
    /\ until' = IF Len(dq) >= InvalidMax
                THEN [until EXCEPT ![n] = clock + QuarantineSec * Second]
                ELSE until
    /\ rejected' = [rejected EXCEPT ![n] = Append(@, clock)]

-----------------------------------------------------------------------------
(* The broker                                                               *)

\* A node publishes, or publish_command does and the bridge receives the copy.
Publish(n, kind) ==
    /\ link = "up" /\ Len(inbox) < MaxInbox /\ published[n] < MaxMessages
    /\ inbox' = Append(inbox, [node |-> n, kind |-> kind])
    /\ published' = [published EXCEPT ![n] = @ + 1]
    /\ UNCHANGED <<clock, link, retryAt, busy, stamps, invalid, until,
                   passed, rejected>>

-----------------------------------------------------------------------------
(* _run and _ingest                                                         *)

Taken(m) ==
    /\ link = "up" /\ busy = Nobody
    /\ inbox # <<>> /\ m = Head(inbox)

DropUndecodable(m) ==
    /\ Taken(m) /\ m.kind = "undecodable"
    /\ inbox' = Tail(inbox)
    /\ RecordInvalid(m.node)
    /\ UNCHANGED <<clock, link, retryAt, busy, published, stamps, passed>>

DropQuarantined(m) ==
    /\ Taken(m) /\ m.kind # "undecodable" /\ Quarantined(m.node)
    /\ inbox' = Tail(inbox)
    /\ UNCHANGED <<clock, link, retryAt, busy, clients>>

\* The message is counted, whether or not it is then let through.
Check(m, ok) ==
    /\ Taken(m) /\ m.kind # "undecodable" /\ ~Quarantined(m.node)
    /\ ok <=> ~OverRate(m.node)
    /\ stamps' = [stamps EXCEPT ![m.node] =
                    IF Len(LastSecond(m.node)) > PerSecMax
                    THEN LastSecond(m.node) ELSE Burst(m.node)]
    /\ passed' = IF ok THEN [passed EXCEPT ![m.node] = Append(@, clock)] ELSE passed
    /\ UNCHANGED <<clock, published>>

DropOverRate(m) ==
    /\ Check(m, FALSE)
    /\ inbox' = Tail(inbox)
    /\ UNCHANGED <<link, retryAt, busy, invalid, until, rejected>>

RejectUnparsed(m) ==
    /\ Check(m, TRUE) /\ m.kind = "unparsed"
    /\ inbox' = Tail(inbox)
    /\ RecordInvalid(m.node)
    /\ UNCHANGED <<link, retryAt, busy>>

\* The task leaves the client's context: what waited in its queue is gone.
Disconnect(sec) ==
    /\ link' = "down" /\ retryAt' = clock + sec * Second
    /\ inbox' = <<>>

\* A bug: the messages that wait are kept for a client that is gone.
FailOnScalarKeeping(m) ==
    /\ Check(m, TRUE) /\ m.kind = "scalar"
    /\ link' = "down" /\ retryAt' = clock + ErrorRetrySec * Second
    /\ inbox' = Tail(inbox)
    /\ UNCHANGED <<busy, invalid, until, rejected>>

\* envelope.get outside of the try: the exception ends the iteration.
FailOnScalar(m) ==
    /\ Check(m, TRUE) /\ m.kind = "scalar"
    /\ Disconnect(ErrorRetrySec)
    /\ UNCHANGED <<busy, invalid, until, rejected>>

Dispatch(m) ==
    /\ Check(m, TRUE) /\ m.kind \in {"hello", "other"}
    /\ inbox' = Tail(inbox)
    /\ busy' = m
    /\ UNCHANGED <<link, retryAt, invalid, until, rejected>>

\* The handler returns, or its exception is logged.  After a hello it has
\* published register_ack under the node's topics, unless something failed.
Finish ==
    /\ busy # Nobody
    /\ busy' = Nobody
    /\ \/ UNCHANGED <<inbox, published>>
       \/ /\ busy.kind = "hello"
          /\ Len(inbox) < MaxInbox /\ published[busy.node] < MaxMessages
          /\ inbox' = Append(inbox, [node |-> busy.node, kind |-> "other"])
          /\ published' = [published EXCEPT ![busy.node] = @ + 1]
    /\ UNCHANGED <<clock, link, retryAt, stamps, invalid, until, passed, rejected>>

ConnectionLost ==
    /\ link = "up" /\ busy = Nobody
    /\ Disconnect(MqttRetrySec)
    /\ UNCHANGED <<clock, busy, clients>>

\* The broker is reached, or the client fails again.
Reconnect ==
    /\ link = "down" /\ clock >= retryAt
    /\ \/ link' = "up" /\ retryAt' = 0
       \/ retryAt' = clock + MqttRetrySec * Second /\ UNCHANGED link
    /\ UNCHANGED <<clock, inbox, busy, clients>>

Tick ==
    /\ clock < MaxClock
    /\ clock' = clock + 1
    /\ UNCHANGED <<link, retryAt, inbox, busy, clients>>

Next ==
    \/ \E n \in Nodes, kind \in Kinds : Publish(n, kind)
    \/ \E m \in Message :
          \/ DropUndecodable(m) \/ DropQuarantined(m) \/ DropOverRate(m)
          \/ RejectUnparsed(m) \/ FailOnScalar(m) \/ Dispatch(m)
    \/ Finish
    \/ ConnectionLost \/ Reconnect
    \/ Tick

Spec == Init /\ [][Next]_vars

-----------------------------------------------------------------------------
(* Properties                                                              *)

\* Of the messages under a client id at most PerSecMax are let through in any
\* second, closed at both ends, whatever is dropped in between.
PerSecondHolds ==
    \A n \in Nodes :
        \A i \in 1..(Len(passed[n]) - PerSecMax) :
            passed[n][i + PerSecMax] - passed[n][i] > Second

\* The times at which the threshold is reached within the breach window.
Breaches(times) ==
    {times[i + InvalidMax - 1] : i \in
        {j \in 1..(Len(times) - InvalidMax + 1) :
            times[j + InvalidMax - 1] - times[j] <= BreachSec * Second}}

LetThrough(n, from, to) ==
    \E i \in 1..Len(passed[n]) : from < passed[n][i] /\ passed[n][i] < to

\* After a breach nothing of the client is let through for QuarantineSec, even
\* across reconnections and whatever else is rejected meanwhile.
BreachesAreQuarantined ==
    \A n \in Nodes : \A t \in Breaches(rejected[n]) :
        ~LetThrough(n, t, t + QuarantineSec * Second)
=============================================================================
