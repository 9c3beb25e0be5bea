--------------------------- MODULE V1SystemProofs --------------------------
(***************************************************************************)
(* Theorems about V1System for any number of nodes, commands, events,      *)
(* requests under way and restarts.                                        *)
(***************************************************************************)
EXTENDS V1System, TLAPS

\* The part of the assumptions the proofs rest on.
LEMMA ConstantTypes ==
    /\ Target \in [Commands -> Nodes] /\ DefaultInterval \in Intervals
    /\ OfflineAfter \in Nat /\ Period \in Nat /\ MaxClock \in Nat
    /\ MaxEvents \in Nat /\ MaxRestarts \in Nat
    /\ None \notin Commands /\ None \notin Intervals /\ None \notin Nodes
    /\ None \notin Reports
    /\ "null" \notin Commands
  BY CommandsAssumption, IntervalsAssumption, BoundsAssumption, NoneAssumption
     DEF CommandsAssumption, IntervalsAssumption, BoundsAssumption, NoneAssumption

-----------------------------------------------------------------------------
(* Type correctness                                                         *)

Device == [phase : {"off", "setup", "loop", "polling"}, registered : BOOLEAN,
           counter : 0..MaxEvents, interval : Intervals,
           answer : Intervals \cup Commands \cup {"null", None}]
Row == [status : Statuses, seen : 0..MaxClock]
Heard == [status : Statuses \cup {None}, at : 0..MaxClock]
Stored == [node : Nodes, data : Readings]

\* A node has an answer only while it waits for one, and one of the kind it
\* waits for.
Awaits(d) ==
    /\ d.phase \in {"off", "loop"} => d.answer = None
    /\ d.phase = "setup" => d.answer \in Intervals \cup {None}
    /\ d.phase = "polling" => d.answer \in Commands \cup {"null", None}

\* TypeOK in parts, with what nodes wait for: it is inductive with that.
TableType ==
    /\ nodes \in [Nodes -> Row \cup {NoRow}]
    /\ config \in [Nodes -> Intervals \cup {None}]
    /\ events \in [EventIds -> Stored \cup {None}]
    /\ commands \in [Commands -> {"absent", "pending", "queued", "executed"}]
DeviceType ==
    /\ device \in [Nodes -> Device]
    /\ \A n \in Nodes : Awaits(device[n])
OtherType ==
    /\ clock \in 0..MaxClock
    /\ scan \in 0..clock /\ restarts \in 0..MaxRestarts
    /\ requests \subseteq Request
    /\ heard \in [Nodes -> Heard]
    /\ runs \in [Commands -> Nat]
TypeInv == TableType /\ DeviceType /\ OtherType /\ ForeignKeys

\* The parts imply the type invariant.
LEMMA TypeParts == TypeInv => TypeOK
  BY DEF TypeInv, TableType, DeviceType, OtherType, TypeOK, Device, Row, Heard, Stored

\* A request has the fields of its kind.
LEMMA RequestFields ==
  ASSUME NEW r \in Request
  PROVE  /\ r.node \in Nodes
         /\ r.kind \in {"heartbeat", "state"} => r.status \in Reports
         /\ r.kind = "event" => r.id \in EventIds /\ r.data \in Readings
         /\ r.kind = "result" => r.command \in Commands \cup {None}
  BY DEF Request

\* What a node posts is a request.
LEMMA Posted ==
  ASSUME NEW n \in Nodes
  PROVE  /\ \A k \in {"hello", "error", "poll"} : [kind |-> k, node |-> n] \in Request
         /\ \A k \in {"heartbeat", "state"}, s \in Reports :
               [kind |-> k, node |-> n, status |-> s] \in Request
         /\ \A i \in EventIds, x \in Readings :
               [kind |-> "event", node |-> n, id |-> i, data |-> x] \in Request
         /\ \A c \in Commands \cup {None} :
               [kind |-> "result", node |-> n, command |-> c] \in Request
  BY DEF Request

\* A node that is off, or in setup, is a device that waits for nothing.
LEMMA OffDevice ==
    /\ Off \in Device /\ Awaits(Off)
    /\ [Off EXCEPT !.phase = "setup"] \in Device
    /\ Awaits([Off EXCEPT !.phase = "setup"])
<1>1. 0 \in 0..MaxEvents /\ DefaultInterval \in Intervals
  BY ConstantTypes
<1>2. Off \in Device
  BY <1>1 DEF Off, Device
<1>3. [Off EXCEPT !.phase = "setup"] \in Device
  BY <1>2 DEF Device
<1>4. Awaits(Off) /\ Awaits([Off EXCEPT !.phase = "setup"])
  BY DEF Off, Awaits
<1> QED
  BY <1>2, <1>3, <1>4

\* An answer of the right kind keeps the device well typed.
LEMMA AnsweredTypes ==
  ASSUME DeviceType, NEW n \in Nodes, NEW a, NEW phase,
         \/ phase = "setup" /\ a \in Intervals
         \/ phase = "polling" /\ a \in Commands \cup {"null"}
  PROVE  /\ Answered(n, phase, a) \in [Nodes -> Device]
         /\ \A k \in Nodes : Awaits(Answered(n, phase, a)[k])
<1>1. device \in [Nodes -> Device] /\ \A k \in Nodes : Awaits(device[k])
  BY DEF DeviceType
<1>2. CASE device[n].phase = phase /\ device[n].answer = None
  <2>1. /\ [device[n] EXCEPT !.answer = a] \in Device
        /\ Awaits([device[n] EXCEPT !.answer = a])
    BY <1>1, <1>2 DEF Device, Awaits
  <2>2. Answered(n, phase, a) = [device EXCEPT ![n].answer = a]
    BY <1>2 DEF Answered
  <2> QED
    BY <1>1, <2>1, <2>2
<1>3. CASE ~(device[n].phase = phase /\ device[n].answer = None)
  BY <1>1, <1>3 DEF Answered
<1> QED
  BY <1>2, <1>3

\* What a node does between two requests keeps the devices well typed.
LEMMA DeviceStep ==
  ASSUME DeviceType, NEW n \in Nodes, NEW d \in Device, Awaits(d),
         device' = [device EXCEPT ![n] = d]
  PROVE  DeviceType'
  BY DEF DeviceType

\* Posting a request keeps the requests well typed.
LEMMA PostTypes ==
  ASSUME OtherType, DeviceType, NEW n \in Nodes, NEW r \in Request, NEW d \in Device,
         Awaits(d), Post(n, r, d)
  PROVE  requests' \subseteq Request /\ DeviceType'
<1>1. device' = [device EXCEPT ![n] = d] /\ requests' = requests \cup {r}
  BY DEF Post
<1> QED
  BY <1>1, DeviceStep DEF OtherType

\* A node's own steps keep the types: the tables are not touched.
LEMMA NodeStepTypes ==
  ASSUME TypeInv, NEW n \in Nodes,
         \/ SendHello(n) \/ (\E k \in {"heartbeat", "state"} : SendReport(n, k))
         \/ SendEvent(n) \/ SendError(n)
         \/ PollCommands(n) \/ TimesOut(n) \/ TakeConfig(n)
         \/ HandleCommand(n) \/ HandleNoCommand(n) \/ PowerCut(n)
  PROVE  TypeInv'
<1>t. TableType /\ DeviceType /\ OtherType /\ ForeignKeys
  BY DEF TypeInv
<1>d. device[n] \in Device /\ Awaits(device[n])
  BY <1>t DEF DeviceType
<1>u. ASSUME UNCHANGED <<clock, tables, gateway, heard>>,
             requests' \subseteq Request, DeviceType', runs' \in [Commands -> Nat]
      PROVE TypeInv'
  BY <1>t, <1>u DEF TypeInv, TableType, OtherType, ForeignKeys, Known, tables, gateway
<1>r. runs \in [Commands -> Nat] /\ requests \subseteq Request
  BY <1>t DEF OtherType
<1>1. CASE SendHello(n)
  <2>1. [kind |-> "hello", node |-> n] \in Request
    BY Posted
  <2>2. /\ Post(n, [kind |-> "hello", node |-> n], [Off EXCEPT !.phase = "setup"])
        /\ UNCHANGED <<clock, tables, gateway, heard, runs>>
    BY <1>1 DEF SendHello, history
  <2> QED
    BY <1>t, <1>u, <1>r, <2>1, <2>2, PostTypes, OffDevice
<1>2. ASSUME NEW k \in {"heartbeat", "state"}, SendReport(n, k) PROVE TypeInv'
  <2>1. PICK s \in Reports :
           Post(n, [kind |-> k, node |-> n, status |-> s], device[n])
    BY <1>2 DEF SendReport
  <2>2. [kind |-> k, node |-> n, status |-> s] \in Request
    BY Posted
  <2>3. UNCHANGED <<clock, tables, gateway, heard, runs>>
    BY <1>2 DEF SendReport, history
  <2>4. requests' \subseteq Request /\ DeviceType'
    BY <1>t, <1>d, <2>1, <2>2, PostTypes
  <2> QED
    BY <1>u, <1>r, <2>3, <2>4
<1>3. CASE SendEvent(n)
  <2> DEFINE id == device[n].counter + 1
             d == [device[n] EXCEPT !.counter = id]
  <2>1. PICK x \in Readings :
           Post(n, [kind |-> "event", node |-> n, id |-> id, data |-> x], d)
    BY <1>3 DEF SendEvent
  <2>2. id \in EventIds /\ d \in Device /\ Awaits(d)
    <3>1. device[n].counter \in 0..MaxEvents /\ device[n].counter < MaxEvents
      BY <1>d, <1>3 DEF SendEvent, Device
    <3>2. id \in 1..MaxEvents /\ id \in 0..MaxEvents
      BY <3>1, ConstantTypes
    <3> QED
      BY <1>d, <3>2 DEF Device, Awaits, EventIds
  <2>3. [kind |-> "event", node |-> n, id |-> id, data |-> x] \in Request
    BY <2>2, Posted
  <2>4. UNCHANGED <<clock, tables, gateway, heard, runs>>
    BY <1>3 DEF SendEvent, history
  <2>5. requests' \subseteq Request /\ DeviceType'
    BY <1>t, <2>1, <2>2, <2>3, PostTypes
  <2> QED
    BY <1>u, <1>r, <2>4, <2>5
<1>4. CASE SendError(n)
  <2>1. Post(n, [kind |-> "error", node |-> n], device[n])
        /\ UNCHANGED <<clock, tables, gateway, heard, runs>>
    BY <1>4 DEF SendError, history
  <2>2. requests' \subseteq Request /\ DeviceType'
    BY <1>t, <1>d, <2>1, Posted, PostTypes
  <2> QED
    BY <1>u, <1>r, <2>1, <2>2
<1>5. CASE PollCommands(n)
  <2> DEFINE d == [device[n] EXCEPT !.phase = "polling"]
  <2>1. Post(n, [kind |-> "poll", node |-> n], d)
        /\ UNCHANGED <<clock, tables, gateway, heard, runs>>
    BY <1>5 DEF PollCommands, history
  <2>2. d \in Device /\ Awaits(d)
    BY <1>d, <1>5 DEF PollCommands, Device, Awaits
  <2>3. requests' \subseteq Request /\ DeviceType'
    BY <1>t, <2>1, <2>2, Posted, PostTypes
  <2> QED
    BY <1>u, <1>r, <2>1, <2>3
<1>6. CASE TimesOut(n)
  <2> DEFINE d == [device[n] EXCEPT !.phase = "loop", !.answer = None]
  <2>1. d \in Device /\ Awaits(d)
    BY <1>d DEF Device, Awaits
  <2>2. device' = [device EXCEPT ![n] = d]
    BY <1>6 DEF TimesOut
  <2>3. DeviceType'
    BY <1>t, <2>1, <2>2, DeviceStep
  <2> QED
    BY <1>6, <1>u, <1>r, <2>3 DEF TimesOut, history
<1>7. CASE TakeConfig(n)
  <2> DEFINE d == [device[n] EXCEPT !.phase = "loop", !.registered = TRUE,
                                    !.interval = device[n].answer, !.answer = None]
  <2>1. device[n].answer \in Intervals
    BY <1>d, <1>7 DEF TakeConfig, Awaits
  <2>2. d \in Device /\ Awaits(d)
    BY <1>d, <2>1 DEF Device, Awaits
  <2>3. device' = [device EXCEPT ![n] = d]
    BY <1>7 DEF TakeConfig
  <2>4. DeviceType'
    BY <1>t, <2>2, <2>3, DeviceStep
  <2> QED
    BY <1>7, <1>u, <1>r, <2>4 DEF TakeConfig, history
<1>8. ASSUME NEW c \in Commands \cup {None},
             \/ device' = [device EXCEPT ![n] = Off] /\ UNCHANGED requests
             \/ Post(n, [kind |-> "result", node |-> n, command |-> c],
                     [device[n] EXCEPT !.phase = "loop", !.answer = None])
      PROVE  requests' \subseteq Request /\ DeviceType'
  <2> DEFINE d == [device[n] EXCEPT !.phase = "loop", !.answer = None]
  <2>1. d \in Device /\ Awaits(d)
    BY <1>d DEF Device, Awaits
  <2>2. CASE device' = [device EXCEPT ![n] = Off] /\ UNCHANGED requests
    BY <1>t, <1>r, <2>2, OffDevice, DeviceStep
  <2>3. CASE Post(n, [kind |-> "result", node |-> n, command |-> c], d)
    BY <1>t, <2>1, <2>3, Posted, PostTypes
  <2> QED
    BY <1>8, <2>2, <2>3
<1>9. CASE HandleCommand(n)
  <2>1. device[n].answer \in Commands
    BY <1>9 DEF HandleCommand
  <2>2. runs' \in [Commands -> Nat]
    BY <1>9, <1>r, <2>1 DEF HandleCommand
  <2>3. requests' \subseteq Request /\ DeviceType'
    BY <1>8, <1>9, <2>1 DEF HandleCommand
  <2> QED
    BY <1>9, <1>u, <2>2, <2>3 DEF HandleCommand
<1>10. CASE HandleNoCommand(n)
  <2>1. requests' \subseteq Request /\ DeviceType'
    BY <1>8, <1>10 DEF HandleNoCommand
  <2> QED
    BY <1>10, <1>u, <1>r, <2>1 DEF HandleNoCommand, history
<1>11. CASE PowerCut(n)
  <2>1. DeviceType'
    BY <1>t, <1>11, OffDevice, DeviceStep DEF PowerCut
  <2> QED
    BY <1>11, <1>u, <1>r, <2>1 DEF PowerCut, history
<1> QED
  BY <1>1, <1>2, <1>3, <1>4, <1>5, <1>6, <1>7, <1>9, <1>10, <1>11

\* Who has a command, and what has become of it: it is in one node's hands after
\* its row has left 'pending' and before it ran, and it is acknowledged after.
Holds(n, c) == device[n].phase = "polling" /\ device[n].answer = c
RunOnce(c) ==
    /\ runs[c] \in {0, 1}
    /\ runs[c] = 1 => commands[c] \in {"queued", "executed"}
    /\ commands[c] = "executed" => runs[c] = 1
HeldFresh(n, c) ==
    Holds(n, c) => commands[c] = "queued" /\ runs[c] = 0 /\ Target[c] = n
AcknowledgedRan ==
    \A r \in requests : r.kind = "result" /\ r.command \in Commands => runs[r.command] = 1
HandInv ==
    /\ \A c \in Commands : RunOnce(c)
    /\ \A n \in Nodes, c \in Commands : HeldFresh(n, c)
    /\ AcknowledgedRan

\* The handlers keep the tables, and with them the foreign keys, well typed.
LEMMA HandlerTypes ==
  ASSUME TypeInv, HandInv, NEW r \in requests, Serve(r)
  PROVE  TypeInv'
<1>t. TableType /\ DeviceType /\ OtherType /\ ForeignKeys
  BY DEF TypeInv
<1>f. r \in Request /\ r.node \in Nodes
  BY <1>t, RequestFields DEF OtherType
<1>c. /\ clock \in 0..MaxClock /\ heard \in [Nodes -> Heard]
      /\ nodes \in [Nodes -> Row \cup {NoRow}]
      /\ config \in [Nodes -> Intervals \cup {None}]
      /\ events \in [EventIds -> Stored \cup {None}]
      /\ commands \in [Commands -> {"absent", "pending", "queued", "executed"}]
  BY <1>t DEF OtherType, TableType
<1>o. ASSUME UNCHANGED <<clock, gateway, runs>>, requests' = requests \ {r},
             heard' \in [Nodes -> Heard]
      PROVE OtherType'
  BY <1>t, <1>o DEF OtherType, gateway
<1>n. ASSUME NEW s \in Statuses
      PROVE  /\ [status |-> s, seen |-> clock] \in Row /\ [status |-> s, seen |-> clock] # NoRow
             /\ [status |-> s, at |-> clock] \in Heard
  BY <1>c, <1>n DEF Row, NoRow, Heard, Statuses
<1>1. CASE r.kind = "hello" /\ Hello(r)
  <2>1. nodes' \in [Nodes -> Row \cup {NoRow}] /\ nodes'[r.node] # NoRow
        /\ \A n \in Nodes : n # r.node => nodes'[n] = nodes[n]
    <3>1. nodes' = [nodes EXCEPT ![r.node] = [status |-> "online", seen |-> clock]]
      BY <1>1 DEF Hello, Reported
    <3>2. "online" \in Statuses
      BY DEF Statuses
    <3> QED
      BY <1>c, <1>f, <1>n, <3>1, <3>2
  <2>2. config' \in [Nodes -> Intervals \cup {None}] /\ config'[r.node] \in Intervals
        /\ \A n \in Nodes : n # r.node => config'[n] = config[n]
    BY <1>c, <1>f, <1>1, ConstantTypes DEF Hello
  <2>3. DeviceType'
    <3>1. device' = Answered(r.node, "setup", config'[r.node])
      BY <1>1 DEF Hello
    <3> QED
      BY <1>t, <1>f, <2>2, <3>1, AnsweredTypes DEF DeviceType
  <2>4. OtherType'
    <3>1. "online" \in Statuses
      BY DEF Statuses
    <3>2. heard' = [heard EXCEPT ![r.node] = [status |-> "online", at |-> clock]]
      BY <1>1 DEF Hello, Reported
    <3>3. heard' \in [Nodes -> Heard]
      BY <1>c, <1>n, <3>1, <3>2
    <3> QED
      BY <1>o, <1>1, <3>3 DEF Hello
  <2>5. UNCHANGED <<events, commands>>
    BY <1>1 DEF Hello
  <2>6. ForeignKeys'
    <3>1. \A n \in Nodes : nodes[n] # NoRow => nodes'[n] # NoRow
      BY <2>1
    <3>2. \A n \in Nodes : config'[n] # None => nodes'[n] # NoRow
      BY <1>t, <2>1, <2>2 DEF ForeignKeys, Known
    <3>3. \A c \in Commands : commands[c] # "absent" => nodes'[Target[c]] # NoRow
      BY <1>t, <3>1, ConstantTypes DEF ForeignKeys, Known
    <3>4. \A i \in EventIds : events[i] # None => nodes'[events[i].node] # NoRow
      BY <1>t, <1>c, <3>1 DEF ForeignKeys, Known, Stored
    <3> QED
      BY <2>5, <3>2, <3>3, <3>4 DEF ForeignKeys, Known
  <2> QED
    BY <1>c, <2>1, <2>2, <2>3, <2>4, <2>5, <2>6 DEF TypeInv, TableType
<1>k. ASSUME \A n \in Nodes : nodes[n] # NoRow => nodes'[n] # NoRow,
             UNCHANGED <<config, events, commands>>
      PROVE  ForeignKeys'
  BY <1>t, <1>c, <1>k, ConstantTypes DEF ForeignKeys, Known, Stored
<1>2. CASE r.kind \in {"heartbeat", "state"} /\ Report(r)
  <2>1. /\ nodes' \in [Nodes -> Row \cup {NoRow}]
        /\ \A n \in Nodes : nodes[n] # NoRow => nodes'[n] # NoRow
        /\ heard' \in [Nodes -> Heard]
    <3>1. CASE Known(r.node) /\ r.status \in Statuses
      <4>1. /\ nodes' = [nodes EXCEPT ![r.node] = [status |-> r.status, seen |-> clock]]
            /\ heard' = [heard EXCEPT ![r.node] = [status |-> r.status, at |-> clock]]
        BY <1>2, <3>1 DEF Report, Reported
      <4> QED
        BY <1>c, <1>f, <1>n, <3>1, <4>1
    <3>2. CASE ~(Known(r.node) /\ r.status \in Statuses)
      BY <1>c, <1>2, <3>2 DEF Report
    <3> QED
      BY <3>1, <3>2
  <2>2. OtherType'
    BY <1>o, <1>2, <2>1 DEF Report
  <2>3. UNCHANGED <<config, events, commands, device>>
    BY <1>2 DEF Report
  <2> QED
    BY <1>t, <1>c, <1>k, <2>1, <2>2, <2>3 DEF TypeInv, TableType, DeviceType
<1>3. CASE r.kind = "event" /\ Event(r)
  <2>1. r.id \in EventIds /\ r.data \in Readings
    BY <1>f, <1>3, RequestFields
  <2>2. OtherType' /\ UNCHANGED <<config, commands, device>>
    BY <1>c, <1>o, <1>3 DEF Event, history
  <2>3. CASE ~Known(r.node)
    <3>1. UNCHANGED <<nodes, events>>
      BY <1>3, <2>3 DEF Event
    <3> QED
      BY <1>t, <1>c, <1>k, <2>2, <3>1 DEF TypeInv, TableType, DeviceType
  <2>4. CASE Known(r.node)
    <3>1. /\ nodes' = [nodes EXCEPT ![r.node].seen = clock]
          /\ events' = [events EXCEPT ![r.id] =
                IF @ = None THEN [node |-> r.node, data |-> r.data] ELSE @]
      BY <1>3, <2>4 DEF Event
    <3>2. nodes[r.node] \in Row
      BY <1>c, <1>f, <2>4 DEF Known
    <3>3. [nodes[r.node] EXCEPT !.seen = clock] \in Row
          /\ [nodes[r.node] EXCEPT !.seen = clock] # NoRow
      BY <1>c, <3>2 DEF Row, NoRow, Statuses
    <3>4. /\ nodes' \in [Nodes -> Row \cup {NoRow}]
          /\ \A n \in Nodes : nodes[n] # NoRow => nodes'[n] # NoRow
      BY <1>c, <1>f, <3>1, <3>3
    <3>5. [node |-> r.node, data |-> r.data] \in Stored
      BY <1>f, <2>1 DEF Stored
    <3>6. events' \in [EventIds -> Stored \cup {None}]
      BY <1>c, <2>1, <3>1, <3>5
    <3>7. ForeignKeys'
      <4>1. \A i \in EventIds :
               events'[i] # None => \/ events'[i] = events[i]
                                    \/ events'[i].node = r.node
        BY <1>c, <2>1, <3>1
      <4>2. ASSUME NEW i \in EventIds, events'[i] # None
            PROVE  nodes'[events'[i].node] # NoRow
        <5>1. events'[i] \in Stored /\ events'[i].node \in Nodes
          BY <3>6, <4>2 DEF Stored
        <5>2. CASE events'[i] = events[i]
          BY <1>t, <3>4, <4>2, <5>1, <5>2 DEF ForeignKeys, Known
        <5>3. CASE events'[i].node = r.node
          BY <1>f, <2>4, <3>4, <5>3 DEF Known
        <5> QED
          BY <4>1, <4>2, <5>2, <5>3
      <4> QED
        BY <1>t, <2>2, <3>4, <4>2, ConstantTypes DEF ForeignKeys, Known
    <3> QED
      BY <1>t, <1>c, <2>2, <3>4, <3>6, <3>7 DEF TypeInv, TableType, DeviceType
  <2> QED
    BY <2>3, <2>4
<1>4. CASE r.kind = "error" /\ ReportError(r)
  <2>1. OtherType' /\ UNCHANGED <<nodes, config, events, commands, device>>
    BY <1>c, <1>o, <1>4 DEF ReportError, tables, history
  <2> QED
    BY <1>t, <1>k, <2>1 DEF TypeInv, TableType, DeviceType
<1>p. ASSUME commands' \in [Commands -> {"absent", "pending", "queued", "executed"}],
             \A c \in Commands : commands[c] = "absent" => commands'[c] = "absent",
             UNCHANGED <<nodes, config, events>>, OtherType', DeviceType'
      PROVE  TypeInv'
  BY <1>t, <1>c, <1>p DEF TypeInv, TableType, ForeignKeys, Known
<1>5. CASE r.kind = "result" /\ CommandResult(r)
  <2>1. r.command \in Commands \cup {None}
    BY <1>f, <1>5, RequestFields
  <2>2. OtherType' /\ DeviceType' /\ UNCHANGED <<nodes, config, events>>
    BY <1>t, <1>c, <1>o, <1>5 DEF CommandResult, history, DeviceType
  <2>3. CASE r.command = None
    BY <1>c, <1>p, <1>5, <2>2, <2>3 DEF CommandResult
  <2>4. CASE r.command \in Commands
    <3>1. commands[r.command] # "absent"
      BY <1>5, <2>4 DEF HandInv, AcknowledgedRan, RunOnce
    <3>2. commands' = [commands EXCEPT ![r.command] = "executed"]
      BY <1>5, <2>4, ConstantTypes DEF CommandResult
    <3> QED
      BY <1>c, <1>p, <2>2, <2>4, <3>1, <3>2
  <2> QED
    BY <2>1, <2>3, <2>4
<1>6. CASE r.kind = "poll" /\ Poll(r)
  <2>1. OtherType' /\ UNCHANGED <<nodes, config, events>>
    BY <1>c, <1>o, <1>6 DEF Poll, history
  <2>2. CASE device' = Answered(r.node, "polling", "null") /\ UNCHANGED commands
    <3>1. DeviceType'
      BY <1>t, <1>f, <2>2, AnsweredTypes DEF DeviceType
    <3> QED
      BY <1>c, <1>p, <2>1, <2>2, <3>1
  <2>3. ASSUME NEW c \in Pending(r.node),
               commands' = [commands EXCEPT ![c] = "queued"],
               device' = Answered(r.node, "polling", c)
        PROVE  TypeInv'
    <3>1. c \in Commands /\ commands[c] = "pending"
      BY <2>3 DEF Pending
    <3>2. DeviceType'
      BY <1>t, <1>f, <2>3, <3>1, AnsweredTypes DEF DeviceType
    <3> QED
      BY <1>c, <1>p, <2>1, <2>3, <3>1, <3>2
  <2> QED
    BY <1>6, <2>2, <2>3 DEF Poll
<1> QED
  BY <1>1, <1>2, <1>3, <1>4, <1>5, <1>6 DEF Serve

\* Every step of the system keeps the types.
LEMMA TypeInductive == TypeInv /\ HandInv /\ [Next]_vars => TypeInv'
<1> SUFFICES ASSUME TypeInv, HandInv, [Next]_vars PROVE TypeInv'
  OBVIOUS
<1>t. TableType /\ DeviceType /\ OtherType /\ ForeignKeys
  BY DEF TypeInv
<1>c. /\ clock \in 0..MaxClock /\ clock \in Nat /\ scan \in 0..clock
      /\ nodes \in [Nodes -> Row \cup {NoRow}]
      /\ config \in [Nodes -> Intervals \cup {None}]
      /\ events \in [EventIds -> Stored \cup {None}]
      /\ commands \in [Commands -> {"absent", "pending", "queued", "executed"}]
  BY <1>t, ConstantTypes DEF OtherType, TableType
<1>1. ASSUME NEW n \in Nodes,
             \/ SendHello(n) \/ (\E k \in {"heartbeat", "state"} : SendReport(n, k))
         \/ SendEvent(n) \/ SendError(n)
             \/ PollCommands(n) \/ TimesOut(n) \/ TakeConfig(n)
             \/ HandleCommand(n) \/ HandleNoCommand(n) \/ PowerCut(n)
      PROVE  TypeInv'
  BY <1>1, NodeStepTypes
<1>2. ASSUME NEW n \in Nodes, NEW i \in Intervals, UpdateNodeConfig(n, i) PROVE TypeInv'
  <2>1. config' = [config EXCEPT ![n] = i] /\ nodes[n] # NoRow
    BY <1>2 DEF UpdateNodeConfig, Known
  <2>2. config' \in [Nodes -> Intervals \cup {None}]
        /\ \A k \in Nodes : config'[k] # None => nodes[k] # NoRow
    BY <1>t, <1>c, <2>1 DEF ForeignKeys, Known
  <2>3. UNCHANGED <<clock, nodes, events, commands, gateway, device, requests, history>>
    BY <1>2 DEF UpdateNodeConfig
  <2> QED
    BY <1>t, <1>c, <2>2, <2>3
       DEF TypeInv, TableType, DeviceType, OtherType, ForeignKeys, Known, gateway, history
<1>3. ASSUME NEW r \in requests, Serve(r) PROVE TypeInv'
  BY <1>3, HandlerTypes
<1>4. ASSUME NEW r \in requests, Lose(r) PROVE TypeInv'
  BY <1>t, <1>4 DEF Lose, TypeInv, TableType, DeviceType, OtherType, ForeignKeys, Known,
                    tables, gateway, history
<1>5. ASSUME NEW c \in Commands, IssueCommand(c) PROVE TypeInv'
  <2>1. commands' = [commands EXCEPT ![c] = "pending"] /\ nodes[Target[c]] # NoRow
    BY <1>5 DEF IssueCommand, Known
  <2>2. /\ commands' \in [Commands -> {"absent", "pending", "queued", "executed"}]
        /\ \A k \in Commands : commands'[k] # "absent" => nodes[Target[k]] # NoRow
    BY <1>t, <1>c, <2>1 DEF ForeignKeys, Known
  <2>3. UNCHANGED <<clock, nodes, config, events, gateway, device, requests, history>>
    BY <1>5 DEF IssueCommand
  <2> QED
    BY <1>t, <1>c, <2>2, <2>3
       DEF TypeInv, TableType, DeviceType, OtherType, ForeignKeys, Known, gateway, history
<1>6. CASE OfflineWatcher
  <2>1. ASSUME NEW n \in Nodes
        PROVE  nodes'[n] \in Row \cup {NoRow} /\ (nodes[n] # NoRow => nodes'[n] # NoRow)
    <3>1. nodes'[n] = IF nodes[n].status = "online" /\ clock - nodes[n].seen > OfflineAfter
                      THEN [nodes[n] EXCEPT !.status = "offline"] ELSE nodes[n]
      BY <1>6 DEF OfflineWatcher
    <3>2. CASE nodes[n].status = "online"
      <4>1. nodes[n] \in Row
        BY <1>c, <3>2 DEF NoRow
      <4>2. [nodes[n] EXCEPT !.status = "offline"] \in Row
            /\ [nodes[n] EXCEPT !.status = "offline"] # NoRow
        BY <4>1 DEF Row, NoRow, Statuses
      <4> QED
        BY <3>1, <4>1, <4>2
    <3>3. CASE nodes[n].status # "online"
      BY <1>c, <3>1, <3>3
    <3> QED
      BY <3>2, <3>3
  <2>2. nodes' \in [Nodes -> Row \cup {NoRow}]
    <3>1. nodes' = [n \in Nodes |-> nodes'[n]]
      BY <1>6 DEF OfflineWatcher
    <3> QED
      BY <2>1, <3>1
  <2>3. UNCHANGED <<clock, config, events, commands, restarts, device, requests, history>>
        /\ scan' = clock
    BY <1>6 DEF OfflineWatcher
  <2>4. ForeignKeys'
    BY <1>t, <1>c, <2>1, <2>3, ConstantTypes DEF ForeignKeys, Known, Stored
  <2>5. OtherType'
    BY <1>t, <1>c, <2>3 DEF OtherType, history
  <2> QED
    BY <1>t, <1>c, <2>2, <2>3, <2>4, <2>5 DEF TypeInv, TableType, DeviceType
<1>7. CASE Tick
  <2>1. clock' \in 0..MaxClock /\ scan \in 0..clock'
    BY <1>c, <1>7, ConstantTypes DEF Tick
  <2>2. UNCHANGED <<tables, gateway, device, requests, history>>
    BY <1>7 DEF Tick
  <2> QED
    BY <1>t, <2>1, <2>2 DEF TypeInv, TableType, DeviceType, OtherType, ForeignKeys,
                            Known, tables, gateway, history
<1>8. CASE Restart
  <2>1. restarts' \in 0..MaxRestarts /\ scan' \in 0..clock /\ requests' = {}
    BY <1>t, <1>c, <1>8, ConstantTypes DEF Restart, OtherType
  <2>2. UNCHANGED <<clock, tables, device, history>>
    BY <1>8 DEF Restart
  <2> QED
    BY <1>t, <2>1, <2>2 DEF TypeInv, TableType, DeviceType, OtherType, ForeignKeys,
                            Known, tables, history
<1>9. CASE UNCHANGED vars
  BY <1>t, <1>9 DEF vars, TypeInv, TableType, DeviceType, OtherType, ForeignKeys, Known,
                    tables, gateway, history
<1> QED
  BY <1>1, <1>2, <1>3, <1>4, <1>5, <1>6, <1>7, <1>8, <1>9 DEF Next

-----------------------------------------------------------------------------
(* A command is in one pair of hands                                        *)

\* A step that neither hands out, runs nor acknowledges a command.
LEMMA HandKept ==
  ASSUME HandInv, UNCHANGED <<commands, runs>>,
         \A r \in requests' : r.kind = "result" /\ r.command \in Commands => r \in requests,
         \A n \in Nodes, c \in Commands : Holds(n, c)' => Holds(n, c)
  PROVE  HandInv'
<1>1. \A c \in Commands : RunOnce(c)'
  BY DEF HandInv, RunOnce
<1>2. \A n \in Nodes, c \in Commands : HeldFresh(n, c)'
  BY DEF HandInv, HeldFresh
<1>3. AcknowledgedRan'
  BY DEF HandInv, AcknowledgedRan
<1> QED
  BY <1>1, <1>2, <1>3 DEF HandInv

\* A node's step leaves the other nodes' devices alone.
LEMMA DeviceOthers ==
  ASSUME TypeInv, NEW n \in Nodes, NEW d, device' = [device EXCEPT ![n] = d]
  PROVE  /\ device'[n] = d
         /\ \A k \in Nodes : k # n => device'[k] = device[k]
  BY DEF TypeInv, DeviceType

\* Nothing is in a node's hands when it is not waiting, or waits for the first time.
LEMMA EmptyHands ==
  ASSUME TypeInv, NEW n \in Nodes, NEW d, device' = [device EXCEPT ![n] = d],
         d.phase # "polling" \/ d.answer = None
  PROVE  \A k \in Nodes, c \in Commands : Holds(k, c)' => Holds(k, c)
  BY DeviceOthers, ConstantTypes DEF Holds

\* Every step keeps a command in at most one pair of hands.
LEMMA HandInductive == TypeInv /\ HandInv /\ [Next]_vars => HandInv'
<1> SUFFICES ASSUME TypeInv, HandInv, [Next]_vars PROVE HandInv'
  OBVIOUS
<1>d. \A n \in Nodes : device[n] \in Device /\ Awaits(device[n])
  BY DEF TypeInv, DeviceType
<1>c. /\ commands \in [Commands -> {"absent", "pending", "queued", "executed"}]
      /\ runs \in [Commands -> Nat] /\ requests \subseteq Request
  BY DEF TypeInv, TableType, OtherType
<1>h. /\ \A c \in Commands : RunOnce(c)
      /\ \A n \in Nodes, c \in Commands : HeldFresh(n, c)
      /\ AcknowledgedRan
  BY DEF HandInv
<1>k. ASSUME UNCHANGED <<commands, runs, device>>, requests' \subseteq requests PROVE HandInv'
  BY <1>k, HandKept DEF Holds
<1>s. ASSUME NEW n \in Nodes, NEW r, NEW d, Post(n, r, d), UNCHANGED <<commands, runs>>,
             r.kind = "result" => r.command \notin Commands,
             d.phase # "polling" \/ d.answer = None
      PROVE  HandInv'
  <2>1. device' = [device EXCEPT ![n] = d] /\ requests' = requests \cup {r}
    BY <1>s DEF Post
  <2>2. \A k \in Nodes, c \in Commands : Holds(k, c)' => Holds(k, c)
    BY <1>s, <2>1, EmptyHands
  <2> QED
    BY <1>s, <2>1, <2>2, HandKept
<1>q. ASSUME NEW n \in Nodes, NEW d, device' = [device EXCEPT ![n] = d],
             UNCHANGED <<commands, runs, requests>>,
             d.phase # "polling" \/ d.answer = None
      PROVE  HandInv'
  <2>1. \A k \in Nodes, c \in Commands : Holds(k, c)' => Holds(k, c)
    BY <1>q, EmptyHands
  <2> QED
    BY <1>q, <2>1, HandKept
<1>1. ASSUME NEW n \in Nodes, SendHello(n) PROVE HandInv'
  <2>1. Post(n, [kind |-> "hello", node |-> n], [Off EXCEPT !.phase = "setup"])
        /\ UNCHANGED <<commands, runs>>
    BY <1>1 DEF SendHello, tables, history
  <2> QED
    BY <1>s, <2>1 DEF Off
<1>2. ASSUME NEW n \in Nodes, NEW k \in {"heartbeat", "state"}, SendReport(n, k)
      PROVE  HandInv'
  <2>1. PICK s \in Reports :
           Post(n, [kind |-> k, node |-> n, status |-> s], device[n])
    BY <1>2 DEF SendReport
  <2>2. UNCHANGED <<commands, runs>> /\ device[n].phase = "loop"
    BY <1>2 DEF SendReport, tables, history
  <2>3. [kind |-> k, node |-> n, status |-> s].kind # "result"
    OBVIOUS
  <2> QED
    BY <1>s, <2>1, <2>2, <2>3
<1>3. ASSUME NEW n \in Nodes, SendEvent(n) PROVE HandInv'
  <2> DEFINE id == device[n].counter + 1
             d == [device[n] EXCEPT !.counter = id]
  <2>1. PICK x \in Readings :
           Post(n, [kind |-> "event", node |-> n, id |-> id, data |-> x], d)
    BY <1>3 DEF SendEvent
  <2>2. UNCHANGED <<commands, runs>> /\ device[n].phase = "loop"
    BY <1>3 DEF SendEvent, tables, history
  <2>3. d.phase = "loop"
    BY <1>d, <2>2 DEF Device
  <2>4. [kind |-> "event", node |-> n, id |-> id, data |-> x].kind # "result"
    OBVIOUS
  <2> HIDE DEF d, id
  <2> QED
    BY <1>s, <2>1, <2>2, <2>3, <2>4
<1>4. ASSUME NEW n \in Nodes, SendError(n) PROVE HandInv'
  <2>1. /\ Post(n, [kind |-> "error", node |-> n], device[n])
        /\ UNCHANGED <<commands, runs>> /\ device[n].phase = "loop"
    BY <1>4 DEF SendError, tables, history
  <2> QED
    BY <1>s, <2>1
<1>5. ASSUME NEW n \in Nodes, PollCommands(n) PROVE HandInv'
  <2> DEFINE d == [device[n] EXCEPT !.phase = "polling"]
  <2>1. /\ Post(n, [kind |-> "poll", node |-> n], d)
        /\ UNCHANGED <<commands, runs>> /\ device[n].phase = "loop"
    BY <1>5 DEF PollCommands, tables, history
  <2>2. d.answer = None
    BY <1>d, <2>1 DEF Device, Awaits
  <2> QED
    BY <1>s, <2>1, <2>2
<1>6. ASSUME NEW n \in Nodes, TimesOut(n) PROVE HandInv'
  <2> DEFINE d == [device[n] EXCEPT !.phase = "loop", !.answer = None]
  <2>1. device' = [device EXCEPT ![n] = d] /\ UNCHANGED <<commands, runs, requests>>
    BY <1>6 DEF TimesOut, tables, history
  <2>2. d.phase = "loop"
    BY <1>d DEF Device
  <2> QED
    BY <1>q, <2>1, <2>2
<1>7. ASSUME NEW n \in Nodes, TakeConfig(n) PROVE HandInv'
  <2> DEFINE d == [device[n] EXCEPT !.phase = "loop", !.registered = TRUE,
                                    !.interval = device[n].answer, !.answer = None]
  <2>1. device' = [device EXCEPT ![n] = d] /\ UNCHANGED <<commands, runs, requests>>
    BY <1>7 DEF TakeConfig, tables, history
  <2>2. d.phase = "loop"
    BY <1>d DEF Device
  <2> QED
    BY <1>q, <2>1, <2>2
<1>8. ASSUME NEW n \in Nodes, HandleCommand(n) PROVE HandInv'
  <2> DEFINE c == device[n].answer
             d == [device[n] EXCEPT !.phase = "loop", !.answer = None]
             ack == [kind |-> "result", node |-> n, command |-> c]
  <2>1. c \in Commands /\ Holds(n, c) /\ runs' = [runs EXCEPT ![c] = runs[c] + 1]
        /\ UNCHANGED commands
    BY <1>8 DEF HandleCommand, Holds, tables
  <2>2. commands[c] = "queued" /\ runs[c] = 0 /\ Target[c] = n
    BY <1>h, <2>1 DEF HeldFresh
  <2>3. runs'[c] = 1 /\ \A k \in Commands : k # c => runs'[k] = runs[k]
    BY <1>c, <2>1, <2>2
  <2>4. /\ requests' \subseteq requests \cup {ack}
        /\ \E e \in {Off, d} : device' = [device EXCEPT ![n] = e]
    BY <1>8 DEF HandleCommand, Post
  <2>5. Off.phase = "off" /\ d.phase = "loop"
    BY <1>d DEF Off, Device
  <2>6. /\ device'[n].phase # "polling"
        /\ \A k \in Nodes : k # n => device'[k] = device[k]
    BY <2>4, <2>5, DeviceOthers
  <2>7. \A k \in Commands : RunOnce(k)'
    BY <1>h, <2>1, <2>2, <2>3 DEF RunOnce
  <2>8. ASSUME NEW k \in Nodes, NEW e \in Commands, Holds(k, e)'
        PROVE  commands'[e] = "queued" /\ runs'[e] = 0 /\ Target[e] = k
    <3>1. k # n /\ Holds(k, e)
      BY <2>6, <2>8 DEF Holds
    <3>2. commands[e] = "queued" /\ runs[e] = 0 /\ Target[e] = k
      BY <1>h, <3>1 DEF HeldFresh
    <3> QED
      BY <2>1, <2>2, <2>3, <3>1, <3>2
  <2>9. AcknowledgedRan'
    <3>1. ack.command = c
      OBVIOUS
    <3> QED
      BY <1>h, <2>3, <2>4, <3>1 DEF AcknowledgedRan
  <2> QED
    BY <2>7, <2>8, <2>9 DEF HandInv, HeldFresh
<1>9. ASSUME NEW n \in Nodes, HandleNoCommand(n) PROVE HandInv'
  <2> DEFINE d == [device[n] EXCEPT !.phase = "loop", !.answer = None]
  <2>1. UNCHANGED <<commands, runs>>
    BY <1>9 DEF HandleNoCommand, tables, history
  <2>2. CASE device' = [device EXCEPT ![n] = Off] /\ UNCHANGED requests
    BY <1>q, <2>1, <2>2 DEF Off
  <2>3. CASE Post(n, [kind |-> "result", node |-> n, command |-> None], d)
    <3>1. d.phase = "loop"
      BY <1>d DEF Device
    <3>2. [kind |-> "result", node |-> n, command |-> None].command \notin Commands
      BY ConstantTypes
    <3> HIDE DEF d
    <3> QED
      BY <1>s, <2>1, <2>3, <3>1, <3>2
  <2> QED
    BY <1>9, <2>2, <2>3 DEF HandleNoCommand
<1>10. ASSUME NEW n \in Nodes, PowerCut(n) PROVE HandInv'
  BY <1>q, <1>10 DEF PowerCut, Off, tables, history
<1>11. ASSUME NEW r \in requests, Serve(r) PROVE HandInv'
  <2>f. r \in Request /\ r.node \in Nodes
    BY <1>c, RequestFields
  <2>1. CASE r.kind = "hello" /\ Hello(r)
    <3>1. /\ UNCHANGED <<commands, runs>> /\ requests' = requests \ {r}
          /\ device' = Answered(r.node, "setup", config'[r.node])
      BY <2>1 DEF Hello
    <3>2. \A n \in Nodes, c \in Commands : Holds(n, c)' => Holds(n, c)
      <4>1. CASE device' = device
        BY <4>1 DEF Holds
      <4>2. CASE device[r.node].phase = "setup"
                 /\ device' = [device EXCEPT ![r.node].answer = config'[r.node]]
        <5> DEFINE d == [device[r.node] EXCEPT !.answer = config'[r.node]]
        <5>1. d.phase = "setup"
          BY <1>d, <2>f, <4>2 DEF Device
        <5>2. device' = [device EXCEPT ![r.node] = d]
          BY <4>2
        <5> QED
          BY <2>f, <5>1, <5>2, EmptyHands
      <4> QED
        BY <3>1, <4>1, <4>2 DEF Answered
    <3> QED
      BY <3>1, <3>2, HandKept
  <2>2. CASE r.kind \in {"heartbeat", "state"} /\ Report(r)
    BY <1>k, <2>2 DEF Report
  <2>3. CASE r.kind = "event" /\ Event(r)
    BY <1>k, <2>3 DEF Event, history
  <2>4. CASE r.kind = "error" /\ ReportError(r)
    BY <1>k, <2>4 DEF ReportError, tables, history
  <2>5. CASE r.kind = "result" /\ CommandResult(r)
    <3>1. /\ requests' = requests \ {r} /\ UNCHANGED <<device, runs>>
          /\ r.command \in Commands \cup {None}
      BY <2>5, <2>f, RequestFields DEF CommandResult, history
    <3>2. CASE r.command = None
      BY <1>k, <2>5, <3>1, <3>2 DEF CommandResult
    <3>3. CASE r.command \in Commands
      <4>1. commands' = [commands EXCEPT ![r.command] = "executed"]
            /\ runs[r.command] = 1
        BY <1>h, <2>5, <3>3, ConstantTypes DEF CommandResult, AcknowledgedRan
      <4>2. \A c \in Commands : RunOnce(c)'
        BY <1>h, <1>c, <3>1, <3>3, <4>1 DEF RunOnce
      <4>3. \A n \in Nodes, c \in Commands : HeldFresh(n, c)'
        BY <1>h, <1>c, <3>1, <3>3, <4>1 DEF HeldFresh, Holds
      <4>4. AcknowledgedRan'
        BY <1>h, <3>1 DEF AcknowledgedRan
      <4> QED
        BY <4>2, <4>3, <4>4 DEF HandInv
    <3> QED
      BY <3>1, <3>2, <3>3
  <2>6. CASE r.kind = "poll" /\ Poll(r)
    <3>1. requests' = requests \ {r} /\ UNCHANGED runs
      BY <2>6 DEF Poll, history
    <3>a. ASSUME NEW a, device' = Answered(r.node, "polling", a),
                 NEW n \in Nodes, NEW c \in Commands, Holds(n, c)'
          PROVE  Holds(n, c) \/ (n = r.node /\ a = c)
      <4>1. CASE device' = device
        BY <3>a, <4>1 DEF Holds
      <4>2. CASE device' = [device EXCEPT ![r.node].answer = a]
        <5> DEFINE d == [device[r.node] EXCEPT !.answer = a]
        <5>1. device' = [device EXCEPT ![r.node] = d]
          BY <4>2
        <5>2. d.answer = a /\ d.phase = device[r.node].phase
          BY <1>d, <2>f DEF Device
        <5> HIDE DEF d
        <5>3. CASE n = r.node
          <6>1. device'[n] = d
            BY <2>f, <5>1, <5>3, DeviceOthers
          <6> QED
            BY <3>a, <5>2, <5>3, <6>1 DEF Holds
        <5>4. CASE n # r.node
          <6>1. device'[n] = device[n]
            BY <2>f, <5>1, <5>4, DeviceOthers
          <6> QED
            BY <3>a, <6>1 DEF Holds
        <5> QED
          BY <5>3, <5>4
      <4> QED
        BY <3>a, <4>1, <4>2 DEF Answered
    <3>2. CASE device' = Answered(r.node, "polling", "null") /\ UNCHANGED commands
      <4>1. \A n \in Nodes, c \in Commands : Holds(n, c)' => Holds(n, c)
        BY <3>a, <3>2, ConstantTypes
      <4> QED
        BY <3>1, <3>2, <4>1, HandKept
    <3>3. ASSUME NEW c \in Pending(r.node),
                 commands' = [commands EXCEPT ![c] = "queued"],
                 device' = Answered(r.node, "polling", c)
          PROVE  HandInv'
      <4>1. c \in Commands /\ commands[c] = "pending" /\ Target[c] = r.node
        BY <3>3 DEF Pending
      <4>2. runs[c] = 0
        BY <1>h, <4>1 DEF RunOnce
      <4>3. \A k \in Commands : RunOnce(k)'
        BY <1>h, <1>c, <3>1, <3>3, <4>1, <4>2 DEF RunOnce
      <4>4. ASSUME NEW n \in Nodes, NEW k \in Commands, Holds(n, k)'
            PROVE  commands'[k] = "queued" /\ runs'[k] = 0 /\ Target[k] = n
        <5>1. CASE Holds(n, k)
          <6>1. commands[k] = "queued" /\ runs[k] = 0 /\ Target[k] = n
            BY <1>h, <5>1 DEF HeldFresh
          <6> QED
            BY <1>c, <3>1, <3>3, <4>1, <6>1
        <5>2. CASE n = r.node /\ c = k
          BY <1>c, <3>1, <3>3, <4>1, <4>2, <5>2
        <5> QED
          BY <3>3, <3>a, <4>4, <5>1, <5>2
      <4>5. AcknowledgedRan'
        BY <1>h, <3>1 DEF AcknowledgedRan
      <4> QED
        BY <4>3, <4>4, <4>5 DEF HandInv, HeldFresh
    <3> QED
      BY <2>6, <3>2, <3>3 DEF Poll
  <2> QED
    BY <1>11, <2>1, <2>2, <2>3, <2>4, <2>5, <2>6 DEF Serve
<1>12. ASSUME NEW r \in requests, Lose(r) PROVE HandInv'
  BY <1>k, <1>12 DEF Lose, tables, history
<1>13. ASSUME NEW c \in Commands, IssueCommand(c) PROVE HandInv'
  <2>1. /\ commands[c] = "absent" /\ commands' = [commands EXCEPT ![c] = "pending"]
        /\ UNCHANGED <<device, requests, runs>>
    BY <1>13 DEF IssueCommand, history
  <2>2. \A k \in Commands : RunOnce(k)'
    BY <1>h, <1>c, <2>1 DEF RunOnce
  <2>3. \A n \in Nodes, k \in Commands : HeldFresh(n, k)'
    BY <1>h, <1>c, <2>1 DEF HeldFresh, Holds
  <2>4. AcknowledgedRan'
    BY <1>h, <2>1 DEF AcknowledgedRan
  <2> QED
    BY <2>2, <2>3, <2>4 DEF HandInv
<1>14. ASSUME NEW n \in Nodes, NEW i \in Intervals, UpdateNodeConfig(n, i) PROVE HandInv'
  BY <1>k, <1>14 DEF UpdateNodeConfig, history
<1>15. CASE OfflineWatcher \/ Tick \/ Restart
  BY <1>k, <1>15 DEF OfflineWatcher, Tick, Restart, tables, history
<1>16. CASE UNCHANGED vars
  BY <1>k, <1>16 DEF vars, tables, history
<1> QED
  BY <1>1, <1>2, <1>3, <1>4, <1>5, <1>6, <1>7, <1>8, <1>9, <1>10, <1>11, <1>12,
     <1>13, <1>14, <1>15, <1>16 DEF Next

\* The system starts well typed, with no command in anyone's hands.
LEMMA InitialHands == Init => TypeInv /\ HandInv
<1> SUFFICES ASSUME Init PROVE TypeInv /\ HandInv
  OBVIOUS
<1>1. TableType
  BY DEF Init, TableType
<1>2. OtherType
  BY ConstantTypes DEF Init, OtherType, Heard
<1>3. DeviceType
  BY OffDevice DEF Init, DeviceType
<1>4. ForeignKeys
  BY DEF Init, ForeignKeys
<1>5. HandInv
  BY DEF Init, HandInv, RunOnce, HeldFresh, Holds, AcknowledgedRan, Off
<1> QED
  BY <1>1, <1>2, <1>3, <1>4, <1>5 DEF TypeInv

\* Both invariants hold always: the foreign keys need that what is acknowledged ran.
LEMMA HandsCorrect == Spec => [](TypeInv /\ HandInv)
  BY InitialHands, TypeInductive, HandInductive, PTL DEF Spec

\* Every reachable state is well typed, and its tables keep their foreign keys.
THEOREM V1TypeCorrect == Spec => []TypeOK
  BY HandsCorrect, TypeParts, PTL

\* A command runs at most once, whatever is lost, late or restarted: its row has
\* left 'pending' before a node has it, and only the node it is for can have it.
THEOREM V1RunsAtMostOnce == Spec => []RunsAtMostOnce
<1>1. TypeInv /\ HandInv => RunsAtMostOnce
  BY DEF HandInv, RunOnce, RunsAtMostOnce
<1> QED
  BY <1>1, HandsCorrect, PTL

-----------------------------------------------------------------------------
(* The watcher                                                              *)

\* What is true of one node: its row is no older than its last report, and says
\* what it reported, unless a node that reported 'online' has been silent since.
Kept(n) ==
    /\ heard[n].at <= clock
    /\ nodes[n] # NoRow =>
          /\ heard[n].at <= nodes[n].seen
          /\ \/ nodes[n].status = heard[n].status
             \/ /\ nodes[n].status = "offline" /\ heard[n].status = "online"
                /\ clock - heard[n].at > OfflineAfter
SeenInv == \A n \in Nodes : Kept(n)

\* Every step keeps that.
LEMMA SeenInductive == TypeInv /\ SeenInv /\ [Next]_vars => SeenInv'
<1> SUFFICES ASSUME TypeInv, SeenInv, [Next]_vars, NEW n \in Nodes
             PROVE  Kept(n)'
  BY DEF SeenInv
<1>c. /\ clock \in Nat /\ heard[n] \in Heard /\ heard[n].at \in Nat /\ OfflineAfter \in Nat
      /\ nodes \in [Nodes -> Row \cup {NoRow}] /\ heard \in [Nodes -> Heard]
      /\ requests \subseteq Request
  BY ConstantTypes DEF TypeInv, TableType, OtherType, Heard
<1>i. Kept(n)
  BY DEF SeenInv
<1>n. NoRow.status = "absent"
  BY DEF NoRow
<1>r. nodes[n] # NoRow => nodes[n] \in Row /\ nodes[n].seen \in Nat
  <2>1. ASSUME nodes[n] # NoRow PROVE nodes[n] \in Row
    BY <1>c, <2>1
  <2>2. \A x \in Row : x.seen \in 0..MaxClock
    BY DEF Row
  <2>3. \A s \in 0..MaxClock : s \in Nat
    BY ConstantTypes
  <2> QED
    BY <2>1, <2>2, <2>3
<1>k. ASSUME clock' = clock, nodes'[n] = nodes[n], heard'[n] = heard[n]
      PROVE  Kept(n)'
  BY <1>i, <1>k DEF Kept
<1>1. ASSUME NEW r \in requests, Serve(r) PROVE Kept(n)'
  <2>f. r \in Request /\ r.node \in Nodes
    BY <1>c, RequestFields
  <2>h. ASSUME NEW s, Reported(r.node, s), clock' = clock
        PROVE  Kept(n)'
    <3>1. CASE n = r.node
      <4>1. nodes'[n] = [status |-> s, seen |-> clock] /\ heard'[n] = [status |-> s, at |-> clock]
        BY <1>c, <2>f, <2>h, <3>1 DEF Reported
      <4> QED
        BY <1>c, <2>h, <4>1 DEF Kept
    <3>2. CASE n # r.node
      <4>1. nodes'[n] = nodes[n] /\ heard'[n] = heard[n]
        BY <1>c, <2>f, <2>h, <3>2 DEF Reported
      <4> QED
        BY <1>k, <2>h, <4>1
    <3> QED
      BY <3>1, <3>2
  <2>2. CASE r.kind = "hello" /\ Hello(r)
    BY <2>2, <2>h DEF Hello
  <2>3. CASE r.kind \in {"heartbeat", "state"} /\ Report(r)
    BY <1>k, <2>3, <2>h DEF Report
  <2>4. CASE r.kind = "event" /\ Event(r)
    <3>1. clock' = clock /\ heard' = heard
      BY <2>4 DEF Event, history
    <3>2. CASE ~Known(r.node)
      BY <1>k, <2>4, <3>1, <3>2 DEF Event
    <3>3. CASE Known(r.node) /\ n = r.node
      <4>1. nodes[n] \in Row /\ nodes[n] # NoRow
        BY <1>r, <3>3 DEF Known
      <4>2. nodes' = [nodes EXCEPT ![r.node].seen = clock]
        BY <2>4, <3>3 DEF Event
      <4>3. nodes'[n].seen = clock /\ nodes'[n].status = nodes[n].status
        BY <1>c, <2>f, <3>3, <4>1, <4>2 DEF Row
      <4> QED
        BY <1>i, <3>1, <4>1, <4>3 DEF Kept
    <3>4. CASE Known(r.node) /\ n # r.node
      <4>1. nodes'[n] = nodes[n]
        BY <1>c, <2>f, <2>4, <3>4 DEF Event
      <4> QED
        BY <1>k, <3>1, <4>1
    <3> QED
      BY <3>2, <3>3, <3>4
  <2>5. CASE r.kind \in {"error", "result", "poll"} /\ UNCHANGED <<clock, nodes, heard>>
    BY <1>k, <2>5
  <2> QED
    BY <1>1, <2>2, <2>3, <2>4, <2>5
       DEF Serve, ReportError, CommandResult, Poll, tables, history
<1>2. CASE OfflineWatcher
  <2>1. /\ clock' = clock /\ heard' = heard
        /\ nodes'[n] = IF nodes[n].status = "online" /\ clock - nodes[n].seen > OfflineAfter
                       THEN [nodes[n] EXCEPT !.status = "offline"] ELSE nodes[n]
    BY <1>2 DEF OfflineWatcher, history
  <2>2. CASE nodes[n].status = "online" /\ clock - nodes[n].seen > OfflineAfter
    <3>1. nodes[n] # NoRow
      BY <1>n, <2>2
    <3>2. nodes[n] \in Row /\ nodes[n].seen \in Nat
      BY <1>r, <3>1
    <3>3. nodes'[n].seen = nodes[n].seen /\ nodes'[n].status = "offline"
      BY <2>1, <2>2, <3>2 DEF Row
    <3>4. /\ heard[n].at <= nodes[n].seen /\ heard[n].status = "online"
          /\ heard[n].at <= clock
      BY <1>i, <2>2, <3>1 DEF Kept
    <3>5. clock - heard[n].at > OfflineAfter
      BY <1>c, <2>2, <3>2, <3>4
    <3> QED
      BY <2>1, <3>3, <3>4, <3>5 DEF Kept
  <2>3. CASE ~(nodes[n].status = "online" /\ clock - nodes[n].seen > OfflineAfter)
    BY <1>k, <2>1, <2>3
  <2> QED
    BY <2>2, <2>3
<1>3. CASE Tick
  <2>1. clock' = clock + 1 /\ nodes' = nodes /\ heard' = heard
    BY <1>3 DEF Tick, tables, history
  <2> QED
    BY <1>c, <1>i, <2>1 DEF Kept
<1>4. CASE UNCHANGED vars \/ Restart
  BY <1>k, <1>4 DEF vars, Restart, tables, history
<1>5. CASE \E k \in Nodes :
             \/ SendHello(k) \/ (\E x \in {"heartbeat", "state"} : SendReport(k, x))
             \/ SendEvent(k) \/ SendError(k)
             \/ PollCommands(k) \/ TimesOut(k) \/ TakeConfig(k)
             \/ HandleCommand(k) \/ HandleNoCommand(k) \/ PowerCut(k)
  <2>1. UNCHANGED <<clock, nodes, heard>>
    BY <1>5 DEF SendHello, SendReport, SendEvent, SendError, PollCommands, TimesOut,
                TakeConfig, HandleCommand, HandleNoCommand, PowerCut, tables, history
  <2> QED
    BY <1>k, <2>1
<1>6. CASE \/ \E k \in Nodes, i \in Intervals : UpdateNodeConfig(k, i)
           \/ \E r \in requests : Lose(r)
           \/ \E c \in Commands : IssueCommand(c)
  BY <1>k, <1>6 DEF UpdateNodeConfig, Lose, IssueCommand, tables, history
<1> QED
  BY <1>1, <1>2, <1>3, <1>4, <1>5, <1>6 DEF Next

\* A node has the status it last reported, or it reported 'online' and has been
\* silent for NODE_OFFLINE_SEC: the watcher's one statement reads a last_seen that
\* is no earlier than the last report.
THEOREM V1OnlySilenceOverrules == Spec => []OnlySilenceOverrules
<1>1. Init => SeenInv
  BY DEF Init, SeenInv, Kept, NoRow
<1>2. SeenInv => OnlySilenceOverrules
  BY DEF SeenInv, Kept, OnlySilenceOverrules, Known
<1> QED
  BY <1>1, <1>2, HandsCorrect, SeenInductive, PTL DEF Spec

-----------------------------------------------------------------------------
(* The lifecycle                                                            *)

\* What leaves the rows and the runs alone leaves the lifecycle alone.
LEMMA LifeStutter ==
  ASSUME UNCHANGED <<commands, runs>>
  PROVE  UNCHANGED <<LifeStatus, LifeRan>>
  BY DEF LifeStatus, LifeRan

\* Every step maps to a step of CommandLifecycle or to none.
LEMMA LifeStep ==
  ASSUME TypeInv, HandInv, [Next]_vars
  PROVE  Lifecycle!Next \/ UNCHANGED <<LifeStatus, LifeRan>>
<1>c. /\ commands \in [Commands -> {"absent", "pending", "queued", "executed"}]
      /\ runs \in [Commands -> Nat] /\ requests \subseteq Request
  BY DEF TypeInv, TableType, OtherType
<1>h. /\ \A c \in Commands : RunOnce(c)
      /\ \A n \in Nodes, c \in Commands : HeldFresh(n, c)
      /\ AcknowledgedRan
  BY DEF HandInv
<1>s. LifeStatus = [c \in Commands |-> LifeStatus[c]]
      /\ LifeRan = [c \in Commands |-> LifeRan[c]]
  BY DEF LifeStatus, LifeRan
<1>1. ASSUME NEW c \in Commands, IssueCommand(c)
      PROVE  Lifecycle!Next
  <2>1. commands[c] = "absent" /\ commands' = [commands EXCEPT ![c] = "pending"]
        /\ UNCHANGED runs
    BY <1>1 DEF IssueCommand, history
  <2>2. LifeStatus[c] = "absent"
    BY <2>1 DEF LifeStatus
  <2>3. LifeStatus' = [LifeStatus EXCEPT ![c] = "queued"]
    BY <1>c, <2>1 DEF LifeStatus
  <2>4. LifeRan' = LifeRan
    BY <2>1 DEF LifeRan
  <2> QED
    BY <2>2, <2>3, <2>4 DEF Lifecycle!Next, Lifecycle!Submit
<1>2. ASSUME NEW n \in Nodes, HandleCommand(n)
      PROVE  Lifecycle!Next
  <2> DEFINE c == device[n].answer
  <2>1. c \in Commands /\ Holds(n, c) /\ runs' = [runs EXCEPT ![c] = runs[c] + 1]
        /\ UNCHANGED commands
    BY <1>2 DEF HandleCommand, Holds, tables
  <2>2. commands[c] = "queued" /\ runs[c] = 0
    BY <1>h, <2>1 DEF HeldFresh
  <2> HIDE DEF c
  <2>3. LifeStatus[c] = "pending" /\ LifeStatus' = LifeStatus /\ LifeRan[c] = {}
    BY <2>1, <2>2 DEF LifeStatus, LifeRan
  <2>4. LifeRan' = [LifeRan EXCEPT ![c] = {"executed"}]
    <3>1. runs'[c] = 1 /\ \A k \in Commands : k # c => runs'[k] = runs[k]
      BY <1>c, <2>1, <2>2
    <3>2. LifeRan' = [k \in Commands |-> IF runs'[k] = 0 THEN {} ELSE {"executed"}]
          /\ LifeRan = [k \in Commands |-> IF runs[k] = 0 THEN {} ELSE {"executed"}]
      BY DEF LifeRan
    <3>3. \A k \in Commands :
             (IF runs'[k] = 0 THEN {} ELSE {"executed"})
                = IF k = c THEN {"executed"} ELSE LifeRan[k]
      BY <3>1, <3>2
    <3>4. LifeRan' = [k \in Commands |-> IF k = c THEN {"executed"} ELSE LifeRan[k]]
      BY <3>2, <3>3
    <3> QED
      BY <2>1, <3>2, <3>4
  <2> QED
    BY <2>1, <2>3, <2>4 DEF Lifecycle!Next, Lifecycle!Run
<1>3. ASSUME NEW r \in requests, r.kind = "poll", Poll(r)
      PROVE  Lifecycle!Next \/ UNCHANGED <<LifeStatus, LifeRan>>
  <2>1. UNCHANGED runs
    BY <1>3 DEF Poll, history
  <2>2. CASE UNCHANGED commands
    BY <2>1, <2>2, LifeStutter
  <2>3. ASSUME NEW c \in Pending(r.node), commands' = [commands EXCEPT ![c] = "queued"]
        PROVE  Lifecycle!Next
    <3>1. c \in Commands /\ commands[c] = "pending"
      BY <2>3 DEF Pending
    <3>2. LifeStatus[c] = "queued"
      BY <3>1 DEF LifeStatus
    <3>3. LifeStatus' = [LifeStatus EXCEPT ![c] = "pending"]
      BY <1>c, <2>3, <3>1 DEF LifeStatus
    <3>4. LifeRan' = LifeRan
      BY <2>1 DEF LifeRan
    <3> QED
      BY <3>1, <3>2, <3>3, <3>4 DEF Lifecycle!Next, Lifecycle!HandOut
  <2> QED
    BY <1>3, <2>2, <2>3 DEF Poll
<1>4. ASSUME NEW r \in requests, r.kind = "result", CommandResult(r)
      PROVE  Lifecycle!Next \/ UNCHANGED <<LifeStatus, LifeRan>>
  <2>1. UNCHANGED runs /\ r.command \in Commands \cup {None}
    BY <1>c, <1>4, RequestFields DEF CommandResult, history
  <2>2. CASE r.command = None
    BY <1>4, <2>1, <2>2, LifeStutter DEF CommandResult
  <2>3. CASE r.command \in Commands
    <3> DEFINE c == r.command
    <3>1. commands' = [commands EXCEPT ![c] = "executed"] /\ runs[c] = 1
      BY <1>4, <1>h, <2>3, ConstantTypes DEF CommandResult, AcknowledgedRan
    <3>2. commands[c] \in {"queued", "executed"}
      BY <1>h, <2>3, <3>1 DEF RunOnce
    <3> HIDE DEF c
    <3>3. CASE commands[c] = "executed"
      <4>1. UNCHANGED commands
        BY <1>c, <3>1, <3>3
      <4> QED
        BY <2>1, <4>1, LifeStutter
    <3>4. CASE commands[c] = "queued"
      <4>0. c \in Commands
        BY <2>3 DEF c
      <4>1. LifeStatus[c] = "pending" /\ LifeRan[c] = {"executed"} /\ LifeRan' = LifeRan
        BY <2>1, <3>1, <3>4, <4>0 DEF LifeStatus, LifeRan
      <4>2. LifeStatus' = [LifeStatus EXCEPT ![c] = "executed"]
        BY <1>c, <3>1, <3>4, <4>0 DEF LifeStatus
      <4> QED
        BY <4>0, <4>1, <4>2 DEF Lifecycle!Next, Lifecycle!Record
    <3> QED
      BY <3>2, <3>3, <3>4
  <2> QED
    BY <2>1, <2>2, <2>3
<1>5. CASE UNCHANGED <<commands, runs>>
  BY <1>5, LifeStutter
<1>6. ASSUME NEW n \in Nodes,
             \/ SendHello(n) \/ (\E k \in {"heartbeat", "state"} : SendReport(n, k))
         \/ SendEvent(n) \/ SendError(n)
             \/ PollCommands(n) \/ TimesOut(n) \/ TakeConfig(n)
             \/ HandleNoCommand(n) \/ PowerCut(n)
      PROVE  UNCHANGED <<commands, runs>>
  BY <1>6 DEF SendHello, SendReport, SendEvent, SendError, PollCommands, TimesOut,
              TakeConfig, HandleNoCommand, PowerCut, tables, history
<1>7. ASSUME NEW n \in Nodes, NEW i \in Intervals, UpdateNodeConfig(n, i)
      PROVE  UNCHANGED <<commands, runs>>
  BY <1>7 DEF UpdateNodeConfig, history
<1>8. ASSUME NEW r \in requests, Lose(r) PROVE UNCHANGED <<commands, runs>>
  BY <1>8 DEF Lose, tables, history
<1>9. ASSUME NEW r \in requests, Hello(r) \/ Report(r) \/ Event(r) \/ ReportError(r)
      PROVE  UNCHANGED <<commands, runs>>
  BY <1>9 DEF Hello, Report, Event, ReportError, tables, history
<1>10. ASSUME OfflineWatcher \/ Tick \/ Restart \/ UNCHANGED vars
       PROVE  UNCHANGED <<commands, runs>>
  BY <1>10 DEF OfflineWatcher, Tick, Restart, vars, tables, history
<1> QED
  BY <1>1, <1>2, <1>3, <1>4, <1>5, <1>6, <1>7, <1>8, <1>9, <1>10 DEF Next, Serve

\* The first gateway and its node together implement CommandLifecycle.
THEOREM V1ImplementsLifecycle == Spec => ImplementsLifecycle
<1>1. Init => Lifecycle!Init
  BY DEF Init, Lifecycle!Init, LifeStatus, LifeRan
<1>2. TypeInv /\ HandInv /\ [Next]_vars => [Lifecycle!Next]_<<LifeStatus, LifeRan>>
  BY LifeStep
<1> QED
  BY <1>1, <1>2, HandsCorrect, PTL DEF Spec, ImplementsLifecycle, Lifecycle!Spec
=============================================================================
