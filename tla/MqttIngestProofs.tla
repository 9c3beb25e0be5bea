-------------------------- MODULE MqttIngestProofs -------------------------
(***************************************************************************)
(* Theorems about MqttIngest for any number of nodes, any limits and any   *)
(* number of messages.                                                     *)
(***************************************************************************)
EXTENDS MqttIngest, TLAPS, WellFoundedInduction, SequenceTheorems

\* The part of the assumptions that the arithmetic rests on.
LEMMA ConstantTypes ==
    /\ Second \in Nat /\ Second >= 1 /\ BurstSec \in Nat /\ BurstSec >= 1
    /\ PerSecMax \in Nat /\ BurstMax \in Nat
    /\ InvalidMax \in Nat /\ InvalidMax >= 1
    /\ BreachSec * Second \in Nat /\ QuarantineSec * Second \in Nat
    /\ BurstSec * Second \in Nat /\ BurstSec * Second >= Second
    /\ MqttRetrySec * Second \in Nat /\ ErrorRetrySec * Second \in Nat
    /\ MaxClock \in Nat /\ MaxMessages \in Nat
    /\ Nobody \notin Message
<1>1. /\ Second \in Nat /\ Second >= 1 /\ BurstSec \in Nat /\ BurstSec >= 1
      /\ BreachSec \in Nat /\ QuarantineSec \in Nat
      /\ MqttRetrySec \in Nat /\ ErrorRetrySec \in Nat
  BY IngestAssumption DEF IngestAssumption
<1>2. \A a, b \in Nat : a * b \in Nat
  OBVIOUS
<1>3. BurstSec * Second >= Second
  <2>1. \A a, b \in Nat : a >= 1 => a * b >= b
    OBVIOUS
  <2> QED
    BY <1>1, <2>1
<1> QED
  BY <1>1, <1>2, <1>3, IngestAssumption, NobodyAssumption DEF IngestAssumption

\* A time that is at most a window old is not before the window's beginning, and
\* the beginning does not move backwards.
LEMMA WindowBegins ==
  ASSUME NEW now \in Nat, NEW w \in Nat, NEW t \in Nat
  PROVE  /\ now - t <= w => t >= now - w
         /\ t >= (now + 1) - w => t >= now - w
  OBVIOUS

\* What comes no earlier than a time of a window is in every longer one.
LEMMA LongerWindow ==
  ASSUME NEW now \in Nat, NEW w \in Nat, NEW v \in Nat, NEW s \in Nat, NEW t \in Nat,
         w <= v, s >= now - w, t >= s
  PROVE  ~(t < now - v)
  OBVIOUS

-----------------------------------------------------------------------------
(* The deque                                                                *)

\* The least-number principle, for a set.
LEMMA LeastElement ==
  ASSUME NEW S, S \subseteq Nat, S # {}
  PROVE  \E x \in S : \A y \in S : x <= y
<1> DEFINE Less == OpToRel(<, Nat)
<1>1. IsWellFoundedOn(Less, Nat)
  BY NatLessThanWellFounded
<1>2. \A x, y \in Nat : x < y => <<x, y>> \in Less
  BY DEF OpToRel
<1> HIDE DEF Less
<1>3. PICK x \in S : \A y \in S : ~(<<y, x>> \in Less)
  BY <1>1, WFMin
<1>4. x \in Nat /\ \A y \in S : y \in Nat /\ ~(y < x)
  BY <1>2, <1>3
<1> QED
  BY <1>4

\* Popping old times leaves a suffix of the deque, with every time in the
\* window that stands behind none that is.
LEMMA TrimSuffix ==
  ASSUME NEW dq \in Seq(Times), NEW window \in Nat, clock \in Times
  PROVE  /\ Trim(dq, window) \in Seq(Times)
         /\ \E first \in 1..(Len(dq) + 1) :
               /\ Len(Trim(dq, window)) = Len(dq) - first + 1
               /\ \A i \in 1..(Len(dq) - first + 1) : Trim(dq, window)[i] = dq[first + i - 1]
               /\ \A i \in 1..(first - 1) : dq[i] < clock - window
<1> DEFINE Begins(f) == /\ \A i \in 1..(f - 1) : dq[i] < clock - window
                        /\ f <= Len(dq) => dq[f] >= clock - window
           Fresh == {i \in 1..Len(dq) : dq[i] >= clock - window}
<1>1. Len(dq) \in Nat /\ clock \in Int /\ \A i \in 1..Len(dq) : dq[i] \in Int
  BY ElementOfSeq, ConstantTypes DEF Times
<1>2. PICK f \in Fresh \cup {Len(dq) + 1} : \A y \in Fresh \cup {Len(dq) + 1} : f <= y
  <2>1. Fresh \cup {Len(dq) + 1} \subseteq Nat /\ Fresh \cup {Len(dq) + 1} # {}
    BY <1>1
  <2> HIDE DEF Fresh
  <2> QED
    BY <2>1, LeastElement
<1>3. f \in 1..(Len(dq) + 1) /\ (f <= Len(dq) => dq[f] >= clock - window)
  BY <1>1, <1>2
<1>4. \A i \in 1..(f - 1) : dq[i] < clock - window
  <2> SUFFICES ASSUME NEW i \in 1..(f - 1) PROVE dq[i] < clock - window
    OBVIOUS
  <2>1. i \in 1..Len(dq) /\ ~(f <= i) /\ dq[i] \in Int
    BY <1>1, <1>3
  <2>2. i \notin Fresh
    BY <1>2, <2>1
  <2> QED
    BY <1>1, <2>1, <2>2
<1>5. Begins(f)
  BY <1>3, <1>4
<1> DEFINE first == CHOOSE g \in 1..(Len(dq) + 1) : Begins(g)
<1>6. Trim(dq, window) = SubSeq(dq, first, Len(dq))
  BY DEF Trim
<1> HIDE DEF Begins
<1>7. first \in 1..(Len(dq) + 1) /\ Begins(first)
  BY <1>3, <1>5
<1> HIDE DEF first
<1>8. first \in Int /\ Len(dq) \in Int /\ \A i \in first..Len(dq) : dq[i] \in Times
  BY <1>1, <1>7, ElementOfSeq
<1>9. /\ SubSeq(dq, first, Len(dq)) \in Seq(Times)
      /\ Len(SubSeq(dq, first, Len(dq))) =
            IF first <= Len(dq) THEN Len(dq) - first + 1 ELSE 0
      /\ \A i \in 1..(Len(dq) - first + 1) :
            SubSeq(dq, first, Len(dq))[i] = dq[first + i - 1]
  BY <1>8, SubSeqProperties
<1>10. Len(Trim(dq, window)) = Len(dq) - first + 1
  BY <1>1, <1>6, <1>7, <1>9
<1> QED
  BY <1>6, <1>7, <1>9, <1>10 DEF Begins

-----------------------------------------------------------------------------
(* Type correctness                                                         *)

\* TypeOK in two parts: the connection with its queue, and the clients.
LinkType ==
    /\ clock \in Times
    /\ link \in {"up", "down"}
    /\ retryAt \in Nat
    /\ inbox \in Seq(Message)
    /\ busy \in Message \cup {Nobody}
    /\ link = "down" => inbox = <<>> /\ busy = Nobody

ClientType ==
    /\ published \in [Nodes -> 0..MaxMessages]
    /\ stamps \in [Nodes -> Seq(Times)]
    /\ invalid \in [Nodes -> Seq(Times)]
    /\ until \in [Nodes -> Nat]
    /\ passed \in [Nodes -> Seq(Times)]
    /\ rejected \in [Nodes -> Seq(Times)]

\* The parts make up the type invariant.
LEMMA TypeParts ==
    /\ TypeOK <=> LinkType /\ ClientType
    /\ TypeOK' <=> LinkType' /\ ClientType'
  BY DEF TypeOK, LinkType, ClientType

\* The times of the last second, and of the burst, are times.
LEMMA WindowTypes ==
  ASSUME TypeOK, NEW n \in Nodes
  PROVE  /\ Append(stamps[n], clock) \in Seq(Times)
         /\ LastSecond(n) \in Seq(Times) /\ Burst(n) \in Seq(Times)
<1>1. stamps[n] \in Seq(Times) /\ clock \in Times
  BY DEF TypeOK
<1>2. Append(stamps[n], clock) \in Seq(Times)
  BY <1>1
<1>3. LastSecond(n) \in Seq(Times)
  BY <1>1, <1>2, TrimSuffix, ConstantTypes DEF LastSecond
<1>4. Burst(n) \in Seq(Times)
  BY <1>1, <1>3, TrimSuffix, ConstantTypes DEF Burst
<1> QED
  BY <1>2, <1>3, <1>4

\* Recording an invalid payload keeps the client's types.
LEMMA RecordInvalidTypes ==
  ASSUME TypeOK, NEW n \in Nodes, RecordInvalid(n)
  PROVE  /\ invalid' \in [Nodes -> Seq(Times)]
         /\ until' \in [Nodes -> Nat]
         /\ rejected' \in [Nodes -> Seq(Times)]
<1> USE ConstantTypes
<1>1. clock \in Times /\ invalid[n] \in Seq(Times) /\ rejected[n] \in Seq(Times)
      /\ until \in [Nodes -> Nat]
  BY DEF TypeOK
<1>2. Append(invalid[n], clock) \in Seq(Times) /\ Append(rejected[n], clock) \in Seq(Times)
  BY <1>1
<1>3. Trim(Append(invalid[n], clock), BreachSec * Second) \in Seq(Times)
  BY <1>1, <1>2, TrimSuffix
<1>4. clock + QuarantineSec * Second \in Nat
  BY <1>1 DEF Times
<1> QED
  BY <1>1, <1>2, <1>3, <1>4 DEF RecordInvalid, TypeOK

\* Counting a message keeps the client's types.
LEMMA CheckTypes ==
  ASSUME TypeOK, NEW m \in Message, NEW ok \in BOOLEAN, Check(m, ok)
  PROVE  stamps' \in [Nodes -> Seq(Times)] /\ passed' \in [Nodes -> Seq(Times)]
<1>1. m.node \in Nodes
  BY DEF Message
<1>2. /\ clock \in Times /\ passed \in [Nodes -> Seq(Times)]
      /\ stamps \in [Nodes -> Seq(Times)] /\ passed[m.node] \in Seq(Times)
  BY <1>1 DEF TypeOK
<1>3. Append(passed[m.node], clock) \in Seq(Times)
  BY <1>2
<1> QED
  BY <1>1, <1>2, <1>3, WindowTypes DEF Check

\* What is taken is the head of the queue, on a link that is up.
LEMMA TakenTypes ==
  ASSUME TypeOK, NEW m, Taken(m)
  PROVE  /\ m \in Message /\ m.node \in Nodes /\ Tail(inbox) \in Seq(Message)
         /\ link = "up" /\ busy = Nobody
<1>1. inbox \in Seq(Message) /\ inbox # <<>> /\ m = Head(inbox)
      /\ link = "up" /\ busy = Nobody
  BY DEF TypeOK, Taken
<1>2. m \in Message /\ Tail(inbox) \in Seq(Message)
  BY <1>1, HeadTailProperties
<1> QED
  BY <1>1, <1>2 DEF Message

\* Every step of the bridge keeps the types.
LEMMA TypeInductive == TypeOK /\ [Next]_vars => TypeOK'
<1> SUFFICES ASSUME TypeOK, [Next]_vars PROVE TypeOK'
  OBVIOUS
<1> USE ConstantTypes
<1>t. LinkType /\ ClientType
  BY TypeParts
<1>1. ASSUME NEW n \in Nodes, NEW kind \in Kinds, Publish(n, kind) PROVE TypeOK'
  <2>1. Append(inbox, [node |-> n, kind |-> kind]) \in Seq(Message)
    BY <1>t DEF LinkType, Message
  <2>2. published[n] + 1 \in 0..MaxMessages
    <3>1. published[n] \in 0..MaxMessages /\ published[n] < MaxMessages /\ MaxMessages \in Nat
      BY <1>t, <1>1 DEF ClientType, Publish
    <3> QED
      BY ONLY <3>1
  <2>3. LinkType'
    BY <1>t, <1>1, <2>1 DEF Publish, LinkType
  <2>4. ClientType'
    BY <1>t, <1>1, <2>2 DEF Publish, ClientType
  <2> QED
    BY <2>3, <2>4, TypeParts
<1>2. ASSUME NEW m \in Message, DropUndecodable(m) PROVE TypeOK'
  <2>1. m.node \in Nodes /\ Tail(inbox) \in Seq(Message) /\ link = "up"
    BY <1>2, TakenTypes DEF DropUndecodable
  <2>2. ClientType'
    BY <1>t, <1>2, <2>1, RecordInvalidTypes DEF DropUndecodable, ClientType
  <2> QED
    BY <1>t, <1>2, <2>1, <2>2, TypeParts DEF DropUndecodable, LinkType
<1>3. ASSUME NEW m \in Message, DropQuarantined(m) PROVE TypeOK'
  BY <1>t, <1>3, TakenTypes, TypeParts DEF DropQuarantined, LinkType, ClientType, clients
<1>4. ASSUME NEW m \in Message, NEW ok \in BOOLEAN, Check(m, ok)
      PROVE  /\ m.node \in Nodes /\ Tail(inbox) \in Seq(Message)
             /\ link = "up" /\ busy = Nobody /\ clock' = clock /\ published' = published
             /\ stamps' \in [Nodes -> Seq(Times)] /\ passed' \in [Nodes -> Seq(Times)]
  BY <1>4, TakenTypes, CheckTypes DEF Check
<1>5. ASSUME NEW m \in Message, DropOverRate(m) PROVE TypeOK'
  BY <1>t, <1>4, <1>5, TypeParts DEF DropOverRate, LinkType, ClientType
<1>6. ASSUME NEW m \in Message, RejectUnparsed(m) PROVE TypeOK'
  BY <1>t, <1>4, <1>6, RecordInvalidTypes, TypeParts
     DEF RejectUnparsed, LinkType, ClientType
<1>7. ASSUME NEW m \in Message, FailOnScalar(m) PROVE TypeOK'
  <2>1. clock + ErrorRetrySec * Second \in Nat
    BY <1>t DEF LinkType, Times
  <2>2. Check(m, TRUE)
    BY <1>7 DEF FailOnScalar
  <2>3. /\ busy = Nobody /\ clock' = clock /\ published' = published
        /\ stamps' \in [Nodes -> Seq(Times)] /\ passed' \in [Nodes -> Seq(Times)]
    BY <1>4, <2>2
  <2>4. link' = "down" /\ retryAt' \in Nat /\ inbox' = <<>>
        /\ UNCHANGED <<busy, invalid, until, rejected>>
    BY <1>7, <2>1 DEF FailOnScalar, Disconnect
  <2> QED
    BY <1>t, <2>3, <2>4, TypeParts DEF LinkType, ClientType
<1>8. ASSUME NEW m \in Message, Dispatch(m) PROVE TypeOK'
  BY <1>t, <1>4, <1>8, TypeParts DEF Dispatch, LinkType, ClientType
<1>9. CASE Finish
  <2>1. busy \in Message /\ busy.node \in Nodes /\ link = "up"
    BY <1>t, <1>9 DEF Finish, LinkType, Message
  <2>2. Append(inbox, [node |-> busy.node, kind |-> "other"]) \in Seq(Message)
    BY <1>t, <2>1 DEF LinkType, Message, Kinds
  <2>3. published[busy.node] < MaxMessages => published[busy.node] + 1 \in 0..MaxMessages
    <3>1. published[busy.node] \in 0..MaxMessages /\ MaxMessages \in Nat
      BY <1>t, <2>1 DEF ClientType
    <3> QED
      BY ONLY <3>1
  <2>4. LinkType'
    BY <1>t, <1>9, <2>1, <2>2 DEF Finish, LinkType
  <2>5. ClientType'
    BY <1>t, <1>9, <2>1, <2>3 DEF Finish, ClientType
  <2> QED
    BY <2>4, <2>5, TypeParts
<1>10. CASE ConnectionLost
  <2>1. clock + MqttRetrySec * Second \in Nat
    BY <1>t DEF LinkType, Times
  <2>2. /\ link' = "down" /\ retryAt' \in Nat /\ inbox' = <<>> /\ busy' = Nobody
        /\ UNCHANGED <<clock, published, stamps, invalid, until, passed, rejected>>
    BY <1>10, <2>1 DEF ConnectionLost, Disconnect, clients
  <2> QED
    BY <1>t, <2>2, TypeParts DEF LinkType, ClientType
<1>11. CASE Reconnect
  <2>1. clock + MqttRetrySec * Second \in Nat
    BY <1>t DEF LinkType, Times
  <2> QED
    BY <1>t, <1>11, <2>1, TypeParts DEF Reconnect, LinkType, ClientType, clients
<1>12. CASE Tick
  BY <1>t, <1>12, TypeParts DEF Tick, LinkType, ClientType, clients, Times
<1>13. CASE UNCHANGED vars
  BY <1>t, <1>13, TypeParts DEF vars, LinkType, ClientType
<1> QED
  BY <1>1, <1>2, <1>3, <1>5, <1>6, <1>7, <1>8, <1>9, <1>10, <1>11, <1>12, <1>13 DEF Next

\* The initial state is well typed.
LEMMA InitialTypes == Init => TypeOK
  BY ConstantTypes DEF Init, TypeOK, Times

\* Every reachable state of the bridge is well typed.
THEOREM IngestTypeCorrect == Spec => []TypeOK
  BY InitialTypes, TypeInductive, PTL DEF Spec

-----------------------------------------------------------------------------
(* What a deque remembers of a history                                      *)

\* Times in order, none later than now.
Ordered(d, now) ==
    /\ \A i \in 1..Len(d) : d[i] <= now
    /\ \A i, j \in 1..Len(d) : i <= j => d[i] <= d[j]

\* Whatever the history h holds since from, the deque d holds a time for each
\* entry, counted from the end, that is not earlier.
Covers(h, d, from) ==
    \A i \in 1..Len(h) :
        h[i] >= from =>
            /\ Len(h) - i + 1 <= Len(d)
            /\ d[Len(d) - (Len(h) - i)] >= h[i]

\* The lengths and elements of sequences of times.
LEMMA TimesSeq ==
  ASSUME NEW d \in Seq(Times)
  PROVE  /\ Len(d) \in Nat /\ \A i \in 1..Len(d) : d[i] \in Nat
         /\ \A t \in Times : /\ Append(d, t) \in Seq(Times)
                             /\ Len(Append(d, t)) = Len(d) + 1
                             /\ Append(d, t)[Len(d) + 1] = t
                             /\ \A i \in 1..Len(d) : Append(d, t)[i] = d[i]
<1>1. Len(d) \in Nat /\ \A i \in 1..Len(d) : d[i] \in Times
  BY ElementOfSeq
<1> QED
  BY <1>1, ConstantTypes DEF Times

\* A time that is not earlier than the others is appended in order.
LEMMA AppendOrdered ==
  ASSUME NEW d \in Seq(Times), NEW now \in Times, Ordered(d, now)
  PROVE  Ordered(Append(d, now), now)
<1> DEFINE e == Append(d, now)
<1>1. /\ Len(d) \in Nat /\ now \in Nat /\ \A i \in 1..Len(d) : d[i] \in Nat
      /\ Len(e) = Len(d) + 1 /\ e[Len(d) + 1] = now /\ \A i \in 1..Len(d) : e[i] = d[i]
  BY TimesSeq, ConstantTypes DEF Times
<1> HIDE DEF e
<1>2. \A i \in 1..Len(e) : i \in 1..Len(d) \/ i = Len(d) + 1
  BY <1>1
<1>3. \A i \in 1..Len(e) : e[i] <= now
  BY <1>1, <1>2 DEF Ordered
<1>4. ASSUME NEW i \in 1..Len(e), NEW j \in 1..Len(e), i <= j PROVE e[i] <= e[j]
  <2>1. CASE j = Len(d) + 1
    BY <1>1, <1>3, <2>1
  <2>2. CASE j \in 1..Len(d)
    <3>1. i \in 1..Len(d)
      BY <1>1, <1>4, <2>2
    <3> QED
      BY <1>1, <1>4, <2>2, <3>1 DEF Ordered
  <2> QED
    BY <1>2, <2>1, <2>2
<1> QED
  BY <1>3, <1>4 DEF Ordered, e

\* A time appended to the deque covers one appended to the history, or none.
LEMMA AppendCovers ==
  ASSUME NEW h \in Seq(Times), NEW d \in Seq(Times), NEW from \in Int, NEW now \in Times,
         Ordered(d, now), Ordered(h, now), Covers(h, d, from)
  PROVE  /\ Ordered(Append(d, now), now) /\ Ordered(Append(h, now), now)
         /\ Covers(h, Append(d, now), from)
         /\ Covers(Append(h, now), Append(d, now), from)
<1> DEFINE e == Append(d, now)
           g == Append(h, now)
<1>1. /\ Len(d) \in Nat /\ Len(h) \in Nat /\ now \in Nat
      /\ \A i \in 1..Len(d) : d[i] \in Nat
      /\ \A i \in 1..Len(h) : h[i] \in Nat
      /\ Len(e) = Len(d) + 1 /\ e[Len(d) + 1] = now /\ \A i \in 1..Len(d) : e[i] = d[i]
      /\ Len(g) = Len(h) + 1 /\ g[Len(h) + 1] = now /\ \A i \in 1..Len(h) : g[i] = h[i]
  BY TimesSeq, ConstantTypes DEF Times
<1>2. Ordered(e, now)
  BY AppendOrdered
<1>3. Ordered(g, now)
  BY AppendOrdered
<1> HIDE DEF e, g
<1>4. ASSUME NEW i \in 1..Len(h), h[i] >= from
      PROVE  /\ Len(h) - i + 1 <= Len(d)
             /\ Len(d) - (Len(h) - i) \in 1..Len(d) /\ d[Len(d) - (Len(h) - i)] >= h[i]
  BY <1>1, <1>4 DEF Covers
<1>5. ASSUME NEW i \in 1..Len(h), h[i] >= from
      PROVE  Len(h) - i + 1 <= Len(e) /\ e[Len(e) - (Len(h) - i)] >= h[i]
  <2> DEFINE j == Len(e) - (Len(h) - i)
  <2>1. j \in 1..Len(e) /\ j - 1 \in 1..Len(d) /\ d[j - 1] >= h[i]
        /\ Len(h) - i + 1 <= Len(e)
    BY <1>1, <1>4, <1>5
  <2>2. e[j - 1] = d[j - 1] /\ e[j - 1] <= e[j] /\ e[j] \in Nat
    <3> HIDE DEF j
    <3>1. j \in Nat /\ j - 1 \in 1..Len(d) /\ j \in 1..Len(e) /\ Len(e) = Len(d) + 1
      BY <1>1, <2>1
    <3>2. j - 1 \in 1..Len(e) /\ j - 1 <= j
      BY <1>1, <3>1
    <3>3. j \in 1..Len(d) \/ j = Len(d) + 1
      BY <1>1, <3>1
    <3>4. e[j] \in Nat
      BY <1>1, <3>3
    <3> QED
      BY <1>1, <1>2, <3>1, <3>2, <3>4 DEF Ordered
  <2>3. h[i] \in Nat /\ d[j - 1] \in Nat
    BY <1>1, <2>1
  <2> QED
    BY <2>1, <2>2, <2>3
<1>6. ASSUME NEW i \in 1..Len(g), g[i] >= from
      PROVE  Len(g) - i + 1 <= Len(e) /\ e[Len(e) - (Len(g) - i)] >= g[i]
  <2>1. CASE i = Len(h) + 1
    BY <1>1, <2>1
  <2>2. CASE i \in 1..Len(h)
    <3>1. h[i] >= from /\ Len(e) - (Len(g) - i) = Len(d) - (Len(h) - i)
      BY <1>1, <1>6, <2>2
    <3>2. e[Len(e) - (Len(g) - i)] = d[Len(d) - (Len(h) - i)]
      <4>1. Len(d) - (Len(h) - i) \in 1..Len(d)
        BY <1>4, <2>2, <3>1
      <4> QED
        BY <1>1, <3>1, <4>1
    <3>3. Len(g) - i + 1 <= Len(e)
      BY <1>1, <1>4, <2>2, <3>1
    <3> QED
      BY <1>1, <1>4, <2>2, <3>1, <3>2, <3>3
  <2> QED
    BY <1>1, <2>1, <2>2
<1> QED
  BY <1>2, <1>3, <1>5, <1>6 DEF Covers, e, g

\* Trimming to the same window, or to a longer one, keeps what covers.
LEMMA TrimCovers ==
  ASSUME NEW h \in Seq(Times), NEW d \in Seq(Times), NEW window \in Nat, NEW w \in Nat,
         clock \in Times, w <= window,
         Ordered(d, clock), Covers(h, d, clock - w)
  PROVE  /\ Trim(d, window) \in Seq(Times)
         /\ Ordered(Trim(d, window), clock) /\ Covers(h, Trim(d, window), clock - w)
<1> DEFINE e == Trim(d, window)
<1>1. /\ Len(d) \in Nat /\ Len(h) \in Nat /\ clock \in Nat
      /\ \A i \in 1..Len(d) : d[i] \in Nat
      /\ \A i \in 1..Len(h) : h[i] \in Nat
  BY TimesSeq, ConstantTypes DEF Times
<1>2. e \in Seq(Times)
  BY TrimSuffix
<1>3. PICK first \in 1..(Len(d) + 1) :
         /\ Len(e) = Len(d) - first + 1
         /\ \A i \in 1..(Len(d) - first + 1) : e[i] = d[first + i - 1]
         /\ \A i \in 1..(first - 1) : d[i] < clock - window
  BY TrimSuffix
<1> HIDE DEF e
<1>4. Ordered(e, clock)
  <2>1. \A i \in 1..Len(e) : first + i - 1 \in 1..Len(d) /\ e[i] = d[first + i - 1]
    BY <1>1, <1>3
  <2>2. \A i, j \in 1..Len(e) : i <= j => first + i - 1 <= first + j - 1
    BY <1>1, <1>3
  <2>3. /\ \A i \in 1..Len(d) : d[i] <= clock
        /\ \A i, j \in 1..Len(d) : i <= j => d[i] <= d[j]
    BY DEF Ordered
  <2>4. ASSUME NEW i \in 1..Len(e) PROVE e[i] <= clock
    BY ONLY <2>1, <2>3, <2>4
  <2>5. ASSUME NEW i \in 1..Len(e), NEW j \in 1..Len(e), i <= j PROVE e[i] <= e[j]
    BY ONLY <2>1, <2>2, <2>3, <2>5
  <2> QED
    BY <2>4, <2>5 DEF Ordered
<1>5. ASSUME NEW i \in 1..Len(h), h[i] >= clock - w
      PROVE  Len(h) - i + 1 <= Len(e) /\ e[Len(e) - (Len(h) - i)] >= h[i]
  <2> DEFINE j == Len(d) - (Len(h) - i)
  <2>1. Len(h) - i + 1 <= Len(d) /\ d[j] >= h[i] /\ j \in 1..Len(d)
    BY <1>1, <1>5 DEF Covers
  <2>2. ~(d[j] < clock - window)
    <3>1. d[j] \in Nat /\ h[i] \in Nat /\ clock \in Nat
      BY <1>1, <2>1
    <3> HIDE DEF j
    <3>2. w \in Nat /\ window \in Nat /\ w <= window
      OBVIOUS
    <3> QED
      BY ONLY <1>5, <2>1, <3>1, <3>2, LongerWindow
  <2>3. j >= first
    BY <1>1, <1>3, <2>1, <2>2
  <2>4. /\ Len(e) - (Len(h) - i) = j - first + 1
        /\ j - first + 1 \in 1..(Len(d) - first + 1)
        /\ first + (j - first + 1) - 1 = j
    BY <1>1, <1>3, <2>1, <2>3
  <2>5. e[Len(e) - (Len(h) - i)] = d[j]
    BY <1>3, <2>4
  <2>6. Len(h) - i + 1 <= Len(e)
    BY <1>1, <1>3, <2>4
  <2> QED
    BY <2>1, <2>5, <2>6
<1> QED
  BY <1>2, <1>4, <1>5 DEF Covers, e

-----------------------------------------------------------------------------
(* At most PerSecMax messages in a second                                   *)

\* What the deque knows of a client's passed messages, and their distance.
Remembered(n) ==
    /\ Ordered(stamps[n], clock) /\ Ordered(passed[n], clock)
    /\ Covers(passed[n], stamps[n], clock - Second)
Spaced(n) ==
    \A i \in 1..(Len(passed[n]) - PerSecMax) :
        passed[n][i + PerSecMax] - passed[n][i] > Second

\* The inductive invariant of the rate limit.
RateInv == \A n \in Nodes : Remembered(n) /\ Spaced(n)

\* What is counted for one more message covers the history, with or without it.
LEMMA WindowsCover ==
  ASSUME TypeOK, RateInv, NEW n \in Nodes, NEW g \in {passed[n], Append(passed[n], clock)}
  PROVE  /\ g \in Seq(Times) /\ Ordered(g, clock)
         /\ Ordered(LastSecond(n), clock) /\ Covers(g, LastSecond(n), clock - Second)
         /\ Ordered(Burst(n), clock) /\ Covers(g, Burst(n), clock - Second)
<1> USE ConstantTypes
<1>1. clock \in Times /\ stamps[n] \in Seq(Times) /\ passed[n] \in Seq(Times)
  BY DEF TypeOK
<1>2. clock - Second \in Int
  BY <1>1 DEF Times
<1>3. /\ Ordered(stamps[n], clock) /\ Ordered(passed[n], clock)
      /\ Covers(passed[n], stamps[n], clock - Second)
  BY DEF RateInv, Remembered
<1>4. g \in Seq(Times) /\ Append(stamps[n], clock) \in Seq(Times)
  <2>1. Append(passed[n], clock) \in Seq(Times)
    BY <1>1, TimesSeq
  <2>2. Append(stamps[n], clock) \in Seq(Times)
    BY <1>1, TimesSeq
  <2> QED
    BY <1>1, <2>1, <2>2
<1>5. Ordered(g, clock) /\ Ordered(Append(stamps[n], clock), clock)
      /\ Covers(g, Append(stamps[n], clock), clock - Second)
  BY <1>1, <1>2, <1>3, AppendCovers
<1>6. /\ LastSecond(n) \in Seq(Times) /\ Ordered(LastSecond(n), clock)
      /\ Covers(g, LastSecond(n), clock - Second)
  <2>1. Second \in Nat /\ Second <= Second
    OBVIOUS
  <2> QED
    BY <1>1, <1>4, <1>5, <2>1, TrimCovers DEF LastSecond
<1>7. Ordered(Burst(n), clock) /\ Covers(g, Burst(n), clock - Second)
  <2>1. Second \in Nat /\ BurstSec * Second \in Nat /\ Second <= BurstSec * Second
    OBVIOUS
  <2> QED
    BY <1>1, <1>4, <1>5, <1>6, <2>1, TrimCovers DEF Burst
<1> QED
  BY <1>4, <1>5, <1>6, <1>7

\* Counting a message keeps the invariant of the rate limit.
LEMMA CheckKeepsRate ==
  ASSUME TypeOK, RateInv, NEW m \in Message, NEW ok \in BOOLEAN, Check(m, ok)
  PROVE  RateInv'
<1>c. Second \in Nat /\ PerSecMax \in Nat
  BY ConstantTypes
<1>1. m.node \in Nodes
  BY DEF Message
<1> SUFFICES ASSUME NEW n \in Nodes PROVE (Remembered(n) /\ Spaced(n))'
  BY DEF RateInv
<1>2. /\ clock \in Times /\ clock' = clock /\ passed[n] \in Seq(Times)
      /\ stamps \in [Nodes -> Seq(Times)] /\ passed \in [Nodes -> Seq(Times)]
  BY DEF TypeOK, Check
<1>3. Remembered(n) /\ Spaced(n)
  BY DEF RateInv
<1>4. CASE n # m.node
  <2>1. stamps'[n] = stamps[n] /\ passed'[n] = passed[n]
    BY <1>1, <1>2, <1>4 DEF Check
  <2> QED
    BY <1>2, <1>3, <2>1 DEF Remembered, Spaced
<1>5. CASE n = m.node
  <2>1. /\ stamps'[n] \in {LastSecond(n), Burst(n)}
        /\ passed'[n] = IF ok THEN Append(passed[n], clock) ELSE passed[n]
    BY <1>1, <1>2, <1>5 DEF Check
  <2>2. Remembered(n)'
    BY <1>2, <2>1, WindowsCover DEF Remembered
  <2>3. ASSUME ok PROVE Spaced(n)'
    <3> DEFINE g == Append(passed[n], clock)
    <3>1. /\ Len(passed[n]) \in Nat /\ Len(g) = Len(passed[n]) + 1
          /\ g[Len(passed[n]) + 1] = clock /\ clock \in Nat
          /\ \A i \in 1..Len(passed[n]) : g[i] = passed[n][i]
          /\ \A i \in 1..Len(passed[n]) : passed[n][i] \in Nat
      BY <1>2, TimesSeq DEF Times
    <3>2. Covers(g, LastSecond(n), clock - Second)
      BY WindowsCover
    <3>3. Len(LastSecond(n)) \in Nat /\ Len(LastSecond(n)) <= PerSecMax
      <4>1. Len(LastSecond(n)) \in Nat
        BY WindowTypes, TimesSeq
      <4>2. ~(Len(LastSecond(n)) > PerSecMax)
        BY <1>5, <2>3 DEF Check, OverRate
      <4> QED
        BY <1>c, <4>1, <4>2
    <3> HIDE DEF g
    <3>4. ASSUME NEW i \in 1..(Len(g) - PerSecMax)
          PROVE  g[i + PerSecMax] - g[i] > Second
      <4>1. CASE i + PerSecMax \in 1..Len(passed[n])
        <5>1. i \in 1..(Len(passed[n]) - PerSecMax) /\ i \in 1..Len(passed[n])
          BY <1>c, <3>1, <3>4, <4>1
        <5> QED
          BY <1>c, <1>3, <3>1, <4>1, <5>1 DEF Spaced
      <4>2. CASE i + PerSecMax = Len(passed[n]) + 1
        <5>0. i \in 1..Len(passed[n]) \/ i = Len(passed[n]) + 1
          BY <1>c, <3>1, <3>4, <4>2
        <5>1. g[i + PerSecMax] = clock /\ i \in 1..Len(g) /\ g[i] \in Nat
              /\ Len(g) - i + 1 = PerSecMax + 1
          BY <1>c, <3>1, <3>4, <4>2, <5>0
        <5>2. ~(g[i] >= clock - Second)
          BY <1>c, <3>2, <3>3, <5>1 DEF Covers
        <5> QED
          BY <1>c, <3>1, <5>1, <5>2
      <4> QED
        BY <1>c, <3>1, <3>4, <4>1, <4>2
    <3> QED
      BY <2>1, <2>3, <3>4 DEF Spaced, g
  <2>4. ASSUME ~ok PROVE Spaced(n)'
    BY <1>3, <2>1, <2>4 DEF Spaced
  <2> QED
    BY <2>2, <2>3, <2>4
<1> QED
  BY <1>4, <1>5

\* Time only weakens what the deque has to remember.
LEMMA TickKeepsRate == TypeOK /\ RateInv /\ Tick => RateInv'
<1> SUFFICES ASSUME TypeOK, RateInv, Tick, NEW n \in Nodes
             PROVE  (Remembered(n) /\ Spaced(n))'
  BY DEF RateInv
<1>c. Second \in Nat /\ PerSecMax \in Nat
  BY ConstantTypes
<1>1. /\ clock \in Nat /\ clock' = clock + 1 /\ stamps' = stamps /\ passed' = passed
      /\ stamps[n] \in Seq(Times) /\ passed[n] \in Seq(Times)
  BY DEF Tick, TypeOK, clients, Times
<1>2. /\ \A i \in 1..Len(stamps[n]) : stamps[n][i] \in Nat
      /\ \A i \in 1..Len(passed[n]) : passed[n][i] \in Nat
  BY <1>1, TimesSeq
<1>3. Remembered(n) /\ Spaced(n)
  BY DEF RateInv
<1>4. ASSUME NEW d \in Seq(Times), Ordered(d, clock) PROVE Ordered(d, clock + 1)
  <2>1. \A i \in 1..Len(d) : d[i] \in Nat
    BY TimesSeq
  <2> QED
    BY <1>1, <1>4, <2>1 DEF Ordered
<1>5. Covers(passed[n], stamps[n], clock' - Second)
  <2>1. \A i \in 1..Len(passed[n]) :
            passed[n][i] >= clock' - Second => passed[n][i] >= clock - Second
    BY <1>c, <1>1, <1>2
  <2>2. Covers(passed[n], stamps[n], clock - Second)
    BY <1>3 DEF Remembered
  <2> HIDE <1>1, <1>2, <1>3
  <2> QED
    BY <2>1, <2>2 DEF Covers
<1>6. Ordered(stamps[n], clock + 1) /\ Ordered(passed[n], clock + 1)
  BY <1>1, <1>3, <1>4 DEF Remembered
<1>7. Remembered(n)'
  <2>1. Ordered(stamps'[n], clock') /\ Ordered(passed'[n], clock')
    BY <1>1, <1>6
  <2>2. Covers(passed'[n], stamps'[n], clock' - Second)
    BY <1>1, <1>5
  <2> QED
    BY <2>1, <2>2 DEF Remembered
<1>8. Spaced(n)'
  BY <1>1, <1>3 DEF Spaced
<1> QED
  BY <1>7, <1>8

\* Every step keeps the invariant of the rate limit.
LEMMA RateInductive == TypeOK /\ RateInv /\ [Next]_vars => RateInv'
<1> SUFFICES ASSUME TypeOK, RateInv, [Next]_vars PROVE RateInv'
  OBVIOUS
<1>1. ASSUME UNCHANGED <<clock, stamps, passed>> PROVE RateInv'
  BY <1>1 DEF RateInv, Remembered, Spaced
<1>2. ASSUME NEW n \in Nodes, NEW kind \in Kinds, Publish(n, kind) PROVE RateInv'
  BY <1>1, <1>2 DEF Publish
<1>3. ASSUME NEW m \in Message, DropUndecodable(m) PROVE RateInv'
  BY <1>1, <1>3 DEF DropUndecodable
<1>4. ASSUME NEW m \in Message, DropQuarantined(m) PROVE RateInv'
  BY <1>1, <1>4 DEF DropQuarantined, clients
<1>5. ASSUME NEW m \in Message,
             DropOverRate(m) \/ RejectUnparsed(m) \/ FailOnScalar(m) \/ Dispatch(m)
      PROVE RateInv'
  <2>1. Check(m, TRUE) \/ Check(m, FALSE)
    BY <1>5 DEF DropOverRate, RejectUnparsed, FailOnScalar, Dispatch
  <2> QED
    BY <2>1, CheckKeepsRate
<1>6. CASE Finish
  BY <1>1, <1>6 DEF Finish
<1>7. CASE ConnectionLost \/ Reconnect
  BY <1>1, <1>7 DEF ConnectionLost, Reconnect, clients
<1>8. CASE Tick
  BY <1>8, TickKeepsRate
<1>9. CASE UNCHANGED vars
  BY <1>1, <1>9 DEF vars
<1> QED
  BY <1>2, <1>3, <1>4, <1>5, <1>6, <1>7, <1>8, <1>9 DEF Next

\* Nothing has been counted or let through at first.
LEMMA InitialRate == Init => RateInv
<1> SUFFICES ASSUME Init, NEW n \in Nodes PROVE Remembered(n) /\ Spaced(n)
  BY DEF RateInv
<1>1. stamps[n] = <<>> /\ passed[n] = <<>> /\ Len(<<>>) = 0
  BY DEF Init
<1>2. 1..Len(stamps[n]) = {} /\ 1..Len(passed[n]) = {}
      /\ 1..(Len(passed[n]) - PerSecMax) = {}
  BY <1>1, ConstantTypes
<1> QED
  BY <1>2 DEF Remembered, Ordered, Covers, Spaced

\* Of any client at most PerSecMax messages are let through in any second:
\* the deque that is counted holds at least what was let through within it.
THEOREM IngestPerSecond == Spec => []PerSecondHolds
<1>1. RateInv => PerSecondHolds
  BY DEF RateInv, Spaced, PerSecondHolds
<1> QED
  BY <1>1, InitialRate, InitialTypes, TypeInductive, RateInductive, PTL DEF Spec

-----------------------------------------------------------------------------
(* The quarantine                                                           *)

\* What the deque and quarantined_until know of a client's rejected payloads:
\* every breach so far has its full quarantine.
Accounted(n) ==
    /\ Ordered(invalid[n], clock) /\ Ordered(rejected[n], clock)
    /\ Covers(rejected[n], invalid[n], clock - BreachSec * Second)
    /\ \A t \in Breaches(rejected[n]) : until[n] >= t + QuarantineSec * Second

\* No passed message stands between a breach and the end of its quarantine.
Quiet(times, h) ==
    \A t \in Breaches(times) : \A i \in 1..Len(h) :
        ~(t < h[i] /\ h[i] < t + QuarantineSec * Second)

\* The inductive invariant of the quarantine.
QuarantineInv ==
    \A n \in Nodes :
        /\ Accounted(n) /\ Quiet(rejected[n], passed[n])
        /\ \A i \in 1..Len(passed[n]) : passed[n][i] <= clock

\* The clock is a natural number, and so are the times.
LEMMA ClockType == TypeOK => clock \in Times /\ clock \in Nat /\ Times \subseteq Nat
  BY ConstantTypes DEF TypeOK, Times

\* A breach is one of the times.
LEMMA BreachTimes ==
  ASSUME NEW times \in Seq(Times), NEW t \in Breaches(times)
  PROVE  t \in Nat /\ \A now \in Times : Ordered(times, now) => t <= now
<1>1. /\ Len(times) \in Nat /\ \A i \in 1..Len(times) : times[i] \in Nat
      /\ InvalidMax \in Nat /\ InvalidMax >= 1
  BY TimesSeq, ConstantTypes
<1>2. PICK i \in 1..(Len(times) - InvalidMax + 1) : t = times[i + InvalidMax - 1]
  BY DEF Breaches
<1>3. i + InvalidMax - 1 \in 1..Len(times)
  BY <1>1, <1>2
<1> QED
  BY <1>1, <1>2, <1>3 DEF Ordered

\* The only breach that one more time can add is at that time, and then the
\* threshold's first time is within the window.
LEMMA BreachAppended ==
  ASSUME NEW times \in Seq(Times), NEW now \in Times, NEW t \in Breaches(Append(times, now))
  PROVE  \/ t \in Breaches(times)
         \/ /\ t = now /\ InvalidMax <= Len(times) + 1
            /\ now - Append(times, now)[Len(times) + 2 - InvalidMax] <= BreachSec * Second
<1> DEFINE g == Append(times, now)
<1>1. /\ Len(times) \in Nat /\ Len(g) = Len(times) + 1 /\ g[Len(times) + 1] = now
      /\ \A i \in 1..Len(times) : g[i] = times[i]
      /\ InvalidMax \in Nat /\ InvalidMax >= 1
  BY TimesSeq, ConstantTypes
<1> HIDE DEF g
<1>2. PICK j \in 1..(Len(g) - InvalidMax + 1) :
         /\ g[j + InvalidMax - 1] - g[j] <= BreachSec * Second
         /\ t = g[j + InvalidMax - 1]
  BY DEF Breaches, g
<1>3. j \in Nat /\ j >= 1 /\ j + InvalidMax - 1 <= Len(times) + 1
  BY <1>1, <1>2
<1>4. CASE j + InvalidMax - 1 <= Len(times)
  <2>1. /\ j \in 1..(Len(times) - InvalidMax + 1) /\ j \in 1..Len(times)
        /\ j + InvalidMax - 1 \in 1..Len(times)
    BY <1>1, <1>3, <1>4
  <2>2. times[j + InvalidMax - 1] - times[j] <= BreachSec * Second
        /\ t = times[j + InvalidMax - 1]
    BY <1>1, <1>2, <2>1
  <2> QED
    BY <2>1, <2>2 DEF Breaches
<1>5. CASE j + InvalidMax - 1 = Len(times) + 1
  <2>1. j = Len(times) + 2 - InvalidMax /\ InvalidMax <= Len(times) + 1
    BY <1>1, <1>3, <1>5
  <2>2. t = now /\ now - g[j] <= BreachSec * Second
    BY <1>1, <1>2, <1>5
  <2> QED
    BY <2>1, <2>2 DEF g
<1> QED
  BY <1>1, <1>3, <1>4, <1>5

\* Recording an invalid payload keeps the account, and adds at most a breach now.
LEMMA RecordInvalidKeeps ==
  ASSUME TypeOK, QuarantineInv, NEW r \in Nodes, RecordInvalid(r), clock' = clock,
         NEW n \in Nodes
  PROVE  /\ Accounted(n)'
         /\ \A t \in Breaches(rejected'[n]) : t \in Breaches(rejected[n]) \/ t = clock
<1>c. BreachSec * Second \in Nat /\ QuarantineSec * Second \in Nat
      /\ InvalidMax \in Nat /\ InvalidMax >= 1
  BY ConstantTypes
<1>1. /\ clock \in Times /\ clock \in Nat /\ invalid[n] \in Seq(Times)
      /\ rejected[n] \in Seq(Times) /\ until[n] \in Nat
      /\ invalid \in [Nodes -> Seq(Times)] /\ rejected \in [Nodes -> Seq(Times)]
      /\ until \in [Nodes -> Nat]
  BY ClockType DEF TypeOK
<1>2. /\ Ordered(invalid[n], clock) /\ Ordered(rejected[n], clock)
      /\ Covers(rejected[n], invalid[n], clock - BreachSec * Second)
      /\ \A t \in Breaches(rejected[n]) : until[n] >= t + QuarantineSec * Second
  BY DEF QuarantineInv, Accounted
<1>3. CASE n # r
  <2>1. invalid'[n] = invalid[n] /\ rejected'[n] = rejected[n] /\ until'[n] = until[n]
    BY <1>1, <1>3 DEF RecordInvalid
  <2>2. Accounted(n)'
    BY <1>2, <2>1 DEF Accounted
  <2> QED
    BY <2>1, <2>2
<1>4. CASE n = r
  <2> DEFINE dq == Trim(Append(invalid[n], clock), BreachSec * Second)
             g == Append(rejected[n], clock)
  <2>1. /\ invalid'[n] = dq /\ rejected'[n] = g
        /\ until'[n] = IF Len(dq) >= InvalidMax THEN clock + QuarantineSec * Second
                                                ELSE until[n]
    BY <1>1, <1>4 DEF RecordInvalid
  <2>2. g \in Seq(Times) /\ Append(invalid[n], clock) \in Seq(Times)
    BY <1>1, TimesSeq
  <2>3. clock - BreachSec * Second \in Int
    BY <1>c, <1>1
  <2>4. /\ Ordered(Append(invalid[n], clock), clock) /\ Ordered(g, clock)
        /\ Covers(g, Append(invalid[n], clock), clock - BreachSec * Second)
    BY <1>1, <1>2, <2>3, AppendCovers
  <2>5. /\ dq \in Seq(Times) /\ Ordered(dq, clock)
        /\ Covers(g, dq, clock - BreachSec * Second)
    <3>1. BreachSec * Second <= BreachSec * Second
      BY <1>c
    <3> QED
      BY <1>c, <1>1, <2>2, <2>4, <3>1, TrimCovers
  <2>6. /\ Len(g) = Len(rejected[n]) + 1 /\ Len(rejected[n]) \in Nat
        /\ \A i \in 1..Len(g) : g[i] \in Nat
        /\ Len(dq) \in Nat
    BY <1>1, <2>2, <2>5, TimesSeq
  <2>7. ASSUME NEW t \in Breaches(g)
        PROVE  \/ t \in Breaches(rejected[n])
               \/ t = clock /\ Len(dq) >= InvalidMax
    <3> DEFINE j == Len(rejected[n]) + 2 - InvalidMax
    <3>1. \/ t \in Breaches(rejected[n])
          \/ t = clock /\ InvalidMax <= Len(rejected[n]) + 1
             /\ clock - g[j] <= BreachSec * Second
      BY <1>1, <2>7, BreachAppended
    <3> HIDE DEF g, dq
    <3>2. ASSUME InvalidMax <= Len(rejected[n]) + 1, clock - g[j] <= BreachSec * Second
          PROVE  Len(dq) >= InvalidMax
      <4>1. j \in 1..Len(g) /\ Len(g) - j + 1 = InvalidMax /\ g[j] \in Nat
        BY <1>c, <2>6, <3>2
      <4>2. g[j] >= clock - BreachSec * Second
        <5>1. clock \in Nat /\ BreachSec * Second \in Nat
          BY <1>c, <1>1
        <5> HIDE DEF j
        <5>2. clock - g[j] <= BreachSec * Second => g[j] >= clock - BreachSec * Second
          BY ONLY <4>1, <5>1, WindowBegins
        <5> QED
          BY ONLY <3>2, <5>2
      <4> QED
        BY <2>5, <4>1, <4>2 DEF Covers
    <3> QED
      BY <3>1, <3>2
  <2>8. ASSUME NEW t \in Breaches(g) PROVE until'[n] >= t + QuarantineSec * Second
    <3>1. CASE t = clock /\ Len(dq) >= InvalidMax
      BY <1>c, <1>1, <2>1, <3>1
    <3>2. CASE t \in Breaches(rejected[n])
      <4>1. t \in Nat /\ t <= clock /\ until[n] >= t + QuarantineSec * Second
        BY <1>1, <1>2, <3>2, BreachTimes
      <4>2. until'[n] = until[n] \/ until'[n] = clock + QuarantineSec * Second
        BY <2>1
      <4> QED
        BY <1>c, <1>1, <4>1, <4>2
    <3> QED
      BY <2>7, <2>8, <3>1, <3>2
  <2> HIDE DEF g, dq
  <2>9. Accounted(n)'
    BY <2>1, <2>4, <2>5, <2>8 DEF Accounted
  <2> QED
    BY <2>1, <2>7, <2>9
<1> QED
  BY <1>3, <1>4

\* What passes outside of the quarantine, passes after every breach's term.
LEMMA CheckKeepsQuiet ==
  ASSUME TypeOK, QuarantineInv, NEW m \in Message, NEW ok \in BOOLEAN, Check(m, ok),
         NEW n \in Nodes
  PROVE  /\ Quiet(rejected[n], passed'[n])
         /\ \A i \in 1..Len(passed'[n]) : passed'[n][i] <= clock
<1>1. /\ clock \in Times /\ clock \in Nat /\ until[n] \in Nat
      /\ passed \in [Nodes -> Seq(Times)] /\ passed[n] \in Seq(Times)
      /\ rejected[n] \in Seq(Times) /\ m.node \in Nodes
  BY ConstantTypes DEF TypeOK, Times, Message
<1>2. /\ Accounted(n) /\ Quiet(rejected[n], passed[n])
      /\ \A i \in 1..Len(passed[n]) : passed[n][i] <= clock
  BY DEF QuarantineInv
<1>3. CASE passed'[n] = passed[n]
  BY <1>2, <1>3
<1>4. CASE n = m.node /\ passed'[n] = Append(passed[n], clock)
  <2>1. clock >= until[n]
    BY <1>1, <1>4 DEF Check, Quarantined
  <2>2. /\ Len(passed[n]) \in Nat /\ Len(passed'[n]) = Len(passed[n]) + 1
        /\ passed'[n][Len(passed[n]) + 1] = clock
        /\ \A i \in 1..Len(passed[n]) : passed'[n][i] = passed[n][i]
    BY <1>1, <1>4, TimesSeq
  <2>3. \A i \in 1..Len(passed'[n]) : i \in 1..Len(passed[n]) \/ i = Len(passed[n]) + 1
    BY <2>2
  <2>4. ASSUME NEW t \in Breaches(rejected[n])
        PROVE  ~(clock < t + QuarantineSec * Second)
    <3>1. t \in Nat /\ until[n] >= t + QuarantineSec * Second
      BY <1>1, <1>2, BreachTimes DEF Accounted
    <3> QED
      BY <1>1, <2>1, <3>1, ConstantTypes
  <2>5. Quiet(rejected[n], passed'[n])
    BY <1>2, <2>2, <2>3, <2>4 DEF Quiet
  <2> QED
    BY <1>1, <1>2, <2>2, <2>3, <2>5
<1> QED
  BY <1>1, <1>3, <1>4 DEF Check

\* Every step keeps the invariant of the quarantine.
LEMMA QuarantineInductive == TypeOK /\ QuarantineInv /\ [Next]_vars => QuarantineInv'
<1> SUFFICES ASSUME TypeOK, QuarantineInv, [Next]_vars PROVE QuarantineInv'
  OBVIOUS
<1>1. ASSUME UNCHANGED <<clock, invalid, until, passed, rejected>> PROVE QuarantineInv'
  BY <1>1 DEF QuarantineInv, Accounted
<1>2. ASSUME NEW n \in Nodes, NEW kind \in Kinds, Publish(n, kind) PROVE QuarantineInv'
  BY <1>1, <1>2 DEF Publish
<1>3. ASSUME NEW m \in Message, DropUndecodable(m) PROVE QuarantineInv'
  <2> SUFFICES ASSUME NEW n \in Nodes
               PROVE  /\ Accounted(n)' /\ Quiet(rejected'[n], passed'[n])
                      /\ \A i \in 1..Len(passed'[n]) : passed'[n][i] <= clock'
    BY DEF QuarantineInv
  <2>1. RecordInvalid(m.node) /\ m.node \in Nodes /\ clock' = clock /\ passed' = passed
    BY <1>3 DEF DropUndecodable, Message
  <2>2. /\ Accounted(n)'
        /\ \A t \in Breaches(rejected'[n]) : t \in Breaches(rejected[n]) \/ t = clock
    BY <2>1, RecordInvalidKeeps
  <2>3. /\ Quiet(rejected[n], passed[n])
        /\ \A i \in 1..Len(passed[n]) : passed[n][i] <= clock
    BY DEF QuarantineInv
  <2>4. \A i \in 1..Len(passed[n]) : passed[n][i] \in Nat /\ clock \in Nat
    BY TimesSeq, ConstantTypes DEF TypeOK, Times
  <2>5. Quiet(rejected'[n], passed[n])
    BY <2>2, <2>3, <2>4 DEF Quiet
  <2> QED
    BY <2>1, <2>2, <2>3, <2>5
<1>4. ASSUME NEW m \in Message, DropQuarantined(m) PROVE QuarantineInv'
  BY <1>1, <1>4 DEF DropQuarantined, clients
<1>5. ASSUME NEW m \in Message, RejectUnparsed(m) PROVE QuarantineInv'
  <2> SUFFICES ASSUME NEW n \in Nodes
               PROVE  /\ Accounted(n)' /\ Quiet(rejected'[n], passed'[n])
                      /\ \A i \in 1..Len(passed'[n]) : passed'[n][i] <= clock'
    BY DEF QuarantineInv
  <2>1. RecordInvalid(m.node) /\ m.node \in Nodes /\ clock' = clock /\ Check(m, TRUE)
    BY <1>5 DEF RejectUnparsed, Check, Message
  <2>2. /\ Accounted(n)'
        /\ \A t \in Breaches(rejected'[n]) : t \in Breaches(rejected[n]) \/ t = clock
    BY <2>1, RecordInvalidKeeps
  <2>3. /\ Quiet(rejected[n], passed'[n])
        /\ \A i \in 1..Len(passed'[n]) : passed'[n][i] <= clock
    BY <2>1, CheckKeepsQuiet
  <2>4. passed'[n] \in Seq(Times) /\ clock \in Nat
    <3>1. TRUE \in BOOLEAN
      OBVIOUS
    <3>2. passed' \in [Nodes -> Seq(Times)]
      BY <2>1, <3>1, CheckTypes
    <3> QED
      BY <3>2, ClockType
  <2>5. \A i \in 1..Len(passed'[n]) : passed'[n][i] \in Nat
    BY <2>4, TimesSeq
  <2>6. Quiet(rejected'[n], passed'[n])
    BY <2>2, <2>3, <2>4, <2>5 DEF Quiet
  <2> QED
    BY <2>1, <2>2, <2>3, <2>6
<1>6. ASSUME NEW m \in Message, DropOverRate(m) \/ FailOnScalar(m) \/ Dispatch(m)
      PROVE QuarantineInv'
  <2>1. /\ Check(m, TRUE) \/ Check(m, FALSE)
        /\ UNCHANGED <<clock, invalid, until, rejected>>
    BY <1>6 DEF DropOverRate, FailOnScalar, Dispatch, Check
  <2>2. \A n \in Nodes : /\ Quiet(rejected[n], passed'[n])
                         /\ \A i \in 1..Len(passed'[n]) : passed'[n][i] <= clock
    BY <2>1, CheckKeepsQuiet
  <2> QED
    BY <2>1, <2>2 DEF QuarantineInv, Accounted
<1>7. CASE Finish
  BY <1>1, <1>7 DEF Finish
<1>8. CASE ConnectionLost \/ Reconnect
  BY <1>1, <1>8 DEF ConnectionLost, Reconnect, clients
<1>9. CASE Tick
  <2> SUFFICES ASSUME NEW n \in Nodes
               PROVE  /\ Accounted(n)' /\ Quiet(rejected'[n], passed'[n])
                      /\ \A i \in 1..Len(passed'[n]) : passed'[n][i] <= clock'
    BY DEF QuarantineInv
  <2>1. /\ clock \in Nat /\ clock' = clock + 1
        /\ UNCHANGED <<invalid, until, passed, rejected>>
        /\ invalid[n] \in Seq(Times) /\ rejected[n] \in Seq(Times)
        /\ passed[n] \in Seq(Times)
    BY <1>9, ConstantTypes DEF Tick, TypeOK, clients, Times
  <2>2. /\ \A i \in 1..Len(invalid[n]) : invalid[n][i] \in Nat
        /\ \A i \in 1..Len(rejected[n]) : rejected[n][i] \in Nat
        /\ \A i \in 1..Len(passed[n]) : passed[n][i] \in Nat
    BY <2>1, TimesSeq
  <2>3. /\ Accounted(n) /\ Quiet(rejected[n], passed[n])
        /\ \A i \in 1..Len(passed[n]) : passed[n][i] <= clock
    BY DEF QuarantineInv
  <2>4. Ordered(invalid'[n], clock') /\ Ordered(rejected'[n], clock')
    <3>1. Ordered(invalid[n], clock) /\ Ordered(rejected[n], clock)
      BY <2>3 DEF Accounted
    <3>2. ASSUME NEW d \in Seq(Times), Ordered(d, clock) PROVE Ordered(d, clock')
      <4>1. \A i \in 1..Len(d) : d[i] \in Nat
        BY TimesSeq
      <4> QED
        BY <2>1, <3>2, <4>1 DEF Ordered
    <3> QED
      BY <2>1, <3>1, <3>2
  <2>5. Covers(rejected[n], invalid[n], clock' - BreachSec * Second)
    <3>1. \A i \in 1..Len(rejected[n]) :
              rejected[n][i] >= clock' - BreachSec * Second
                => rejected[n][i] >= clock - BreachSec * Second
      <4>1. BreachSec * Second \in Nat
        BY ConstantTypes
      <4> QED
        BY ONLY <2>1, <2>2, <4>1, WindowBegins
    <3>2. Covers(rejected[n], invalid[n], clock - BreachSec * Second)
      BY <2>3 DEF Accounted
    <3> QED
      BY <3>1, <3>2 DEF Covers
  <2>6. Accounted(n)'
    BY <2>1, <2>3, <2>4, <2>5 DEF Accounted
  <2> QED
    BY <2>1, <2>2, <2>3, <2>6
<1>10. CASE UNCHANGED vars
  BY <1>1, <1>10 DEF vars
<1> QED
  BY <1>2, <1>3, <1>4, <1>5, <1>6, <1>7, <1>8, <1>9, <1>10 DEF Next

\* Nothing has been rejected at first.
LEMMA InitialQuarantine == Init => QuarantineInv
<1> SUFFICES ASSUME Init, NEW n \in Nodes
             PROVE  /\ Accounted(n) /\ Quiet(rejected[n], passed[n])
                    /\ \A i \in 1..Len(passed[n]) : passed[n][i] <= clock
  BY DEF QuarantineInv
<1>1. /\ invalid[n] = <<>> /\ passed[n] = <<>> /\ rejected[n] = <<>> /\ Len(<<>>) = 0
      /\ 1..Len(<<>>) = {}
  BY DEF Init
<1>2. Breaches(<<>>) = {}
  <2>1. 1..(Len(<<>>) - InvalidMax + 1) = {}
    BY <1>1, ConstantTypes
  <2> QED
    BY <2>1 DEF Breaches
<1> QED
  BY <1>1, <1>2 DEF Accounted, Ordered, Covers, Quiet

\* After a breach nothing of the client is let through for QuarantineSec: the
\* deque holds every payload that counts, and no later step shortens the term.
THEOREM IngestBreachesAreQuarantined == Spec => []BreachesAreQuarantined
<1>1. QuarantineInv => BreachesAreQuarantined
  BY DEF QuarantineInv, Quiet, BreachesAreQuarantined, LetThrough
<1> QED
  BY <1>1, InitialQuarantine, InitialTypes, TypeInductive, QuarantineInductive, PTL
     DEF Spec
=============================================================================
