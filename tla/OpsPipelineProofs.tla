----------------------- MODULE OpsPipelineProofs ------------------------
(***************************************************************************)
(* Theorems about OpsPipeline for any rule catalogue, any number of nodes, *)
(* anomalies and operators' calls, and queues and windows of any length.   *)
(***************************************************************************)
EXTENDS OpsPipeline, SequenceTheorems, TLAPS

-----------------------------------------------------------------------------
(* The inductive invariants                                                 *)

Row == [rule : Rules, node : Nodes, at : 0..MaxClock,
        status : AnomalyStatuses, cooled : BOOLEAN]
Present(a) == a \in Anomalies /\ rows[a] \in Row

\* The rules each caller of the detector checks.
Own(w) == IF w = "bridge" THEN {"A-001", "A-002", "A-003"} ELSE {"A-005"}

Busy == [step : {"check", "persist", "enqueue", "cooldown"}, todo : SUBSET Rules,
         rule : Rules, node : Nodes, anomaly : Anomalies \cup {Nothing}]
Healing == [step : {"idle", "escalate", "issue", "execute", "complete", "fail"},
            anomaly : Anomalies \cup {Nothing}]
Call == [op : {"none", "acknowledge", "resolve", "cancel"},
         anomaly : Anomalies \cup {Nothing}, late : BOOLEAN]

\* The tables, and what is counted.
TableType ==
    /\ clock \in 0..MaxClock
    /\ rows \in [Anomalies -> Row \cup {Absent}]
    /\ until \in [Scopes -> Nat]
    /\ action \in [Anomalies -> ActionStatuses \cup {"absent"}]
    /\ issued \in [Anomalies -> Nat]
    /\ dropped \subseteq Anomalies
    /\ status \in [Nodes -> {"online", "degraded"}]
    /\ mishaps \in 0..MaxMishaps

\* What the detector remembers of each node.
WindowType ==
    /\ window \in [Nodes -> Seq(Snapshots)]
    /\ \A n \in Nodes : Len(window[n]) <= WindowSize
    /\ flaps \in [Nodes -> Seq(0..MaxClock)]
    /\ \A n \in Nodes : Len(flaps[n]) <= FlapLog

\* A caller of the detector holds a rule of its own, and from "enqueue" on the
\* row it made for it.
Detecting(w) ==
    /\ task[w] \in Busy
    /\ task[w].todo \subseteq Own(w) /\ task[w].rule \in Own(w)
    /\ task[w].step \in {"enqueue", "cooldown"} =>
          /\ Present(task[w].anomaly)
          /\ rows[task[w].anomaly].rule = task[w].rule
          /\ rows[task[w].anomaly].node = task[w].node

\* Whoever is about to write to a row holds one that is there.
TasksHold ==
    /\ task \in [Workers -> Busy \cup {Idle}]
    /\ \A w \in Workers : task[w] = Idle \/ Detecting(w)
QueueHolds ==
    /\ queue \in Seq(Anomalies) /\ Len(queue) <= QueueMax
    /\ \A i \in 1..Len(queue) : Present(queue[i])
HealerHolds == healer \in Healing /\ (healer.step # "idle" => Present(healer.anomaly))
CallsHold ==
    /\ request \in [Requests -> Call]
    /\ \A q \in Requests :
          /\ request[q].op \in {"acknowledge", "resolve"} => Present(request[q].anomaly)
          /\ request[q].op = "cancel" => request[q].anomaly \in Anomalies
          /\ ~request[q].late
HandType == TasksHold /\ QueueHolds /\ HealerHolds /\ CallsHold

TypeInv == TableType /\ WindowType /\ HandType

\* An anomaly without an action is in one place on its way to the healer.
PlaceInv ==
    /\ \A a \in Anomalies : issued[a] <= 1
    /\ \A a \in Anomalies : rows[a] = Absent => issued[a] = 0
    /\ \A v, w \in Workers :
          v # w /\ task[v].step = "enqueue" /\ task[w].step = "enqueue"
          => task[v].anomaly # task[w].anomaly
    /\ \A w \in Workers : task[w].step = "enqueue" =>
          /\ issued[task[w].anomaly] = 0
          /\ \A i \in 1..Len(queue) : queue[i] # task[w].anomaly
          /\ healer.step = "issue" => healer.anomaly # task[w].anomaly
    /\ \A i \in 1..Len(queue) :
          /\ issued[queue[i]] = 0
          /\ \A j \in 1..Len(queue) : i # j => queue[i] # queue[j]
          /\ healer.step = "issue" => healer.anomaly # queue[i]
    /\ healer.step = "issue" => issued[healer.anomaly] = 0

\* The healer records the result of an action that is pending or cancelled.
ActionInv ==
    /\ \A a \in Anomalies : action[a] = "absent" <=> issued[a] = 0
    /\ healer.step \in {"execute", "complete", "fail"} =>
          action[healer.anomaly] \in {"pending", "cancelled"}
    /\ \A q \in Requests :
          request[q].op = "cancel" => action[request[q].anomaly] # "absent"

\* ops_rule_state covers every anomaly whose cooldown was written, and the row a
\* caller of the detector is making is younger than what it says.
CooldownInv ==
    /\ \A s \in Scopes : until[s] <= clock + Suppress[s[1]]
    /\ \A a \in Anomalies : rows[a].cooled =>
          rows[a].at + Suppress[rows[a].rule] <= until[<<rows[a].rule, rows[a].node>>]
    /\ \A a \in Anomalies : rows[a].at <= clock
    /\ \A w \in Workers :
          LET t == task[w] IN
          /\ t.step = "persist" => until[<<t.rule, t.node>>] <= clock
          /\ t.step \in {"enqueue", "cooldown"} =>
                ~rows[t.anomaly].cooled /\ until[<<t.rule, t.node>>] <= rows[t.anomaly].at

-----------------------------------------------------------------------------
(* The detector's operators                                                 *)

LEMMA ConstantTypes ==
    /\ Suppress \in [Rules -> Nat] /\ QueueMax \in Nat \ {0} /\ WindowSize \in Nat
    /\ FlapLog \in Nat /\ MaxClock \in Nat /\ MaxMishaps \in Nat
    /\ Nothing \notin Anomalies
  BY CatalogueAssumption, BoundsAssumption, NothingAssumption
     DEF CatalogueAssumption, BoundsAssumption, NothingAssumption

\* A full deque drops its oldest element for the new one.
LEMMA KeepFits ==
  ASSUME NEW S, NEW s \in Seq(S), NEW x \in S, NEW k \in Nat
  PROVE  Keep(s, x, k) \in Seq(S) /\ Len(Keep(s, x, k)) <= k
<1> DEFINE t == Append(s, x)
           m == IF Len(t) > k THEN Len(t) - k + 1 ELSE 1
<1>1. t \in Seq(S) /\ Len(t) = Len(s) + 1 /\ Len(s) \in Nat
  BY AppendProperties
<1>2. m \in 1..(Len(t) + 1) /\ Len(t) \in (m - 1)..Len(t) /\ Len(t) - m + 1 <= k
  BY <1>1
<1>3. Keep(s, x, k) = SubSeq(t, m, Len(t))
  BY DEF Keep
<1> HIDE DEF t, m
<1>4. SubSeq(t, m, Len(t)) \in Seq(S)
  BY <1>1, <1>2, SubSeqProperties
<1>5. Len(SubSeq(t, m, Len(t))) <= k
  BY <1>1, <1>2, SubSeqProperties
<1> QED
  BY <1>3, <1>4, <1>5

\* The rule that is checked next is one of those left.
LEMMA FirstIsLeft ==
  ASSUME NEW rs \in SUBSET Rules, rs # {}
  PROVE  First(rs) \in rs
<1>1. /\ Rank["A-001"] = 1 /\ Rank["A-002"] = 2
      /\ Rank["A-003"] = 3 /\ Rank["A-005"] = 4
  BY DEF Rank, Rules
<1>2. \E r \in rs : \A s \in rs : Rank[r] <= Rank[s]
  <2>1. \A s \in rs : s \in {"A-001", "A-002", "A-003", "A-005"}
    BY DEF Rules
  <2>2. CASE "A-001" \in rs
    BY <1>1, <2>1, <2>2
  <2>3. CASE "A-001" \notin rs /\ "A-002" \in rs
    BY <1>1, <2>1, <2>3
  <2>4. CASE "A-001" \notin rs /\ "A-002" \notin rs /\ "A-003" \in rs
    BY <1>1, <2>1, <2>4
  <2>5. CASE "A-001" \notin rs /\ "A-002" \notin rs /\ "A-003" \notin rs
    BY <1>1, <2>1, <2>5
  <2> QED
    BY <2>2, <2>3, <2>4, <2>5
<1> QED
  BY <1>2 DEF First

LEMMA OwnRules == \A w \in Workers : Own(w) \subseteq Rules
  BY DEF Own, Rules, Workers

\* A caller that starts on some of its rules is idle or checks one of them.
LEMMA StartCheckType ==
  ASSUME NEW w \in Workers, NEW rs \in SUBSET Own(w), NEW n \in Nodes
  PROVE  LET t == StartCheck(rs, n) IN
         \/ t = Idle
         \/ t \in Busy /\ t.step = "check" /\ t.todo \subseteq Own(w) /\ t.rule \in Own(w)
<1>1. CASE rs = {}
  BY <1>1 DEF StartCheck
<1>2. CASE rs # {}
  <2>1. First(rs) \in rs /\ rs \subseteq Rules
    BY <1>2, FirstIsLeft, OwnRules
  <2> QED
    BY <1>2, <2>1 DEF StartCheck, Busy
<1> QED
  BY <1>1, <1>2

-----------------------------------------------------------------------------
(* Type correctness                                                         *)

\* Row a is there after the step.
Stays(a) == a \in Anomalies /\ rows'[a] \in Row

\* A step that changes no rule or node of a row, and takes no row away.
RowsKept ==
    \A a : Present(a) =>
        /\ Stays(a)
        /\ rows'[a].rule = rows[a].rule /\ rows'[a].node = rows[a].node

LEMMA SameRowsKept == UNCHANGED rows => RowsKept
  BY DEF RowsKept, Present, Stays

\* What a hand holds is still there after such a step.
LEMMA HandsKept ==
  ASSUME HandType, RowsKept
  PROVE  /\ \A w \in Workers : task'[w] = task[w] /\ Detecting(w) => Detecting(w)'
         /\ task' = task => TasksHold'
         /\ queue' = queue => QueueHolds'
         /\ healer' = healer => HealerHolds'
         /\ request' = request => CallsHold'
<1>1. ASSUME NEW w \in Workers, task'[w] = task[w], Detecting(w) PROVE Detecting(w)'
  BY <1>1 DEF Detecting, RowsKept, Present, Stays
<1>2. ASSUME task' = task PROVE TasksHold'
  BY <1>1, <1>2 DEF HandType, TasksHold
<1>3. ASSUME queue' = queue PROVE QueueHolds'
  BY <1>3 DEF HandType, QueueHolds, RowsKept, Present, Stays
<1>4. ASSUME healer' = healer PROVE HealerHolds'
  BY <1>4 DEF HandType, HealerHolds, RowsKept, Present, Stays
<1>5. ASSUME request' = request PROVE CallsHold'
  BY <1>5 DEF HandType, CallsHold, RowsKept, Present, Stays
<1> QED
  BY <1>1, <1>2, <1>3, <1>4, <1>5

\* A caller that goes on to the next rule, or to the next await of the same one.
LEMMA TaskMoves ==
  ASSUME HandType, RowsKept, NEW w \in Workers, NEW t,
         task' = [task EXCEPT ![w] = t],
         \/ t = Idle
         \/ /\ t \in Busy /\ t.todo \subseteq Own(w) /\ t.rule \in Own(w)
            /\ t.step \in {"enqueue", "cooldown"} =>
                  /\ Stays(t.anomaly)
                  /\ rows'[t.anomaly].rule = t.rule /\ rows'[t.anomaly].node = t.node
  PROVE  TasksHold'
<1>1. /\ task' \in [Workers -> Busy \cup {Idle}]
      /\ task'[w] = t /\ \A v \in Workers : v # w => task'[v] = task[v]
  BY DEF HandType, TasksHold
<1>2. \A v \in Workers : v # w => (task[v] = Idle \/ Detecting(v))
  BY DEF HandType, TasksHold
<1>3. \A v \in Workers : v # w => (task'[v] = Idle \/ Detecting(v)')
  BY <1>1, <1>2, HandsKept
<1>4. t = Idle \/ Detecting(w)'
  BY <1>1 DEF Detecting, Present, Stays
<1> QED
  BY <1>1, <1>3, <1>4 DEF TasksHold

\* StartCheck gives a caller nothing to hold.
LEMMA TaskStarts ==
  ASSUME HandType, RowsKept, NEW w \in Workers, NEW rs \in SUBSET Own(w), NEW n \in Nodes,
         task' = [task EXCEPT ![w] = StartCheck(rs, n)]
  PROVE  TasksHold'
<1> DEFINE t == StartCheck(rs, n)
<1>1. \/ t = Idle
      \/ t \in Busy /\ t.step = "check" /\ t.todo \subseteq Own(w) /\ t.rule \in Own(w)
  BY StartCheckType
<1> HIDE DEF t
<1>2. task' = [task EXCEPT ![w] = t]
  BY DEF t
<1>3. \/ t = Idle
      \/ /\ t \in Busy /\ t.todo \subseteq Own(w) /\ t.rule \in Own(w)
         /\ t.step \in {"enqueue", "cooldown"} =>
               /\ Stays(t.anomaly)
               /\ rows'[t.anomaly].rule = t.rule /\ rows'[t.anomaly].node = t.node
  BY <1>1
<1> QED
  BY <1>2, <1>3, TaskMoves

\* A caller that holds something checks rules of its own.
LEMMA TaskFacts ==
  ASSUME HandType, NEW w \in Workers, task[w].step # "idle"
  PROVE  /\ Detecting(w) /\ task[w] \in Busy
         /\ task[w].todo \in SUBSET Own(w) /\ task[w].rule \in Rules /\ task[w].node \in Nodes
         /\ <<task[w].rule, task[w].node>> \in Scopes
<1>1. Detecting(w)
  BY DEF HandType, TasksHold, Idle
<1> QED
  BY <1>1 DEF Detecting, Busy, Scopes

\* A write to a row that is there keeps it in the table.
LEMMA RowWritten ==
  ASSUME TableType, NEW a, Present(a), NEW st \in AnomalyStatuses,
         \/ rows' = [rows EXCEPT ![a].status = st]
         \/ rows' = [rows EXCEPT ![a].cooled = TRUE]
  PROVE  /\ rows' \in [Anomalies -> Row \cup {Absent}]
         /\ RowsKept
         /\ \A b \in Anomalies :
               /\ rows'[b].at = rows[b].at
               /\ b # a => rows'[b] = rows[b]
<1>1. a \in Anomalies /\ rows[a] \in Row /\ rows \in [Anomalies -> Row \cup {Absent}]
  BY DEF Present, TableType
<1>2. /\ rows'[a] \in Row /\ rows'[a].rule = rows[a].rule /\ rows'[a].node = rows[a].node
      /\ rows'[a].at = rows[a].at
  <2>1. CASE rows' = [rows EXCEPT ![a].status = st]
    <3>1. rows'[a] = [rows[a] EXCEPT !.status = st]
      BY <1>1, <2>1
    <3> QED
      BY <1>1, <3>1 DEF Row
  <2>2. CASE rows' = [rows EXCEPT ![a].cooled = TRUE]
    <3>1. rows'[a] = [rows[a] EXCEPT !.cooled = TRUE]
      BY <1>1, <2>2
    <3> QED
      BY <1>1, <3>1 DEF Row
  <2> QED
    BY <2>1, <2>2
<1>3. \A b \in Anomalies : b # a => rows'[b] = rows[b]
  BY <1>1
<1>4. rows' \in [Anomalies -> Row \cup {Absent}]
  BY <1>1, <1>2
<1> QED
  BY <1>2, <1>3, <1>4 DEF RowsKept, Present, Stays

\* The statuses the code writes.
LEMMA Statuses ==
    /\ {"active", "acknowledged", "escalated", "resolved"} \subseteq AnomalyStatuses
    /\ {"pending", "completed", "failed", "cancelled"} \subseteq ActionStatuses
    /\ "absent" \notin AnomalyStatuses
  BY DEF AnomalyStatuses, ActionStatuses

\* A row that is not absent is a row.
LEMMA PresentRows ==
  ASSUME TableType, NEW a \in Anomalies
  PROVE  Present(a) <=> rows[a].status # "absent"
<1>1. rows[a] \in Row \/ rows[a] = Absent
  BY DEF TableType
<1>2. Absent.status = "absent"
  BY DEF Absent
<1>3. Absent \notin Row
  BY <1>2, Statuses DEF Row
<1> QED
  BY <1>1, <1>2, <1>3, Statuses DEF Present, Row

\* The detector keeps its types.
LEMMA DetectorKeepsTypes ==
  ASSUME TypeInv,
         \/ \E n \in Nodes :
               (\E s \in Snapshots : OnHeartbeat(n, s)) \/ OnNodeOffline(n) \/ OnNodeOnline(n)
         \/ \E w \in Workers :
               \/ CheckRule(w) \/ Enqueue(w) \/ SetCooldown(w)
               \/ \E a \in Anomalies : PersistAnomaly(w, a)
  PROVE  TypeInv'
<1> USE ConstantTypes
<1>t. TableType /\ WindowType /\ HandType /\ TasksHold /\ QueueHolds /\ HealerHolds /\ CallsHold
  BY DEF TypeInv, HandType
<1>w. "bridge" \in Workers /\ "watcher" \in Workers
  BY DEF Workers
<1>f. ASSUME NEW n \in Nodes, flaps' = [flaps EXCEPT ![n] = Keep(flaps[n], clock, FlapLog)],
             UNCHANGED window
      PROVE  WindowType'
  <2>1. Keep(flaps[n], clock, FlapLog) \in Seq(0..MaxClock)
        /\ Len(Keep(flaps[n], clock, FlapLog)) <= FlapLog
    BY <1>t, KeepFits DEF WindowType, TableType
  <2> QED
    BY <1>t, <1>f, <2>1 DEF WindowType
<1>1. ASSUME NEW n \in Nodes, NEW s \in Snapshots, OnHeartbeat(n, s) PROVE TypeInv'
  <2>1. Keep(window[n], s, WindowSize) \in Seq(Snapshots)
        /\ Len(Keep(window[n], s, WindowSize)) <= WindowSize
    BY <1>t, KeepFits DEF WindowType
  <2>2. WindowType'
    BY <1>t, <1>1, <2>1 DEF WindowType, OnHeartbeat
  <2>3. UNCHANGED <<clock, rows, until, queue, healer, action, issued, status, dropped,
                    request, mishaps>>
    BY <1>1 DEF OnHeartbeat, effects
  <2> DEFINE rs == {r \in {"A-001", "A-002", "A-003"} :
                       Fires(r, Keep(window[n], s, WindowSize))}
  <2>4. rs \in SUBSET Own("bridge")
    BY DEF Own
  <2>5. task' = [task EXCEPT !["bridge"] = StartCheck(rs, n)]
    BY <1>1 DEF OnHeartbeat
  <2> HIDE DEF rs
  <2>6. TasksHold'
    BY <1>t, <1>w, <2>3, <2>4, <2>5, SameRowsKept, TaskStarts
  <2> QED
    BY <1>t, <2>2, <2>3, <2>6, SameRowsKept, HandsKept DEF TypeInv, TableType, HandType
<1>2. ASSUME NEW n \in Nodes, OnNodeOffline(n) PROVE TypeInv'
  <2>1. WindowType'
    BY <1>f, <1>2 DEF OnNodeOffline
  <2>3. UNCHANGED <<clock, rows, until, queue, healer, action, issued, status, dropped,
                    request, mishaps>>
    BY <1>2 DEF OnNodeOffline, effects
  <2> DEFINE rs == {r \in {"A-005"} : Flapping(Keep(flaps[n], clock, FlapLog))}
  <2>4. rs \in SUBSET Own("watcher")
    BY DEF Own
  <2>5. task' = [task EXCEPT !["watcher"] = StartCheck(rs, n)]
    BY <1>2 DEF OnNodeOffline
  <2> HIDE DEF rs
  <2>6. TasksHold'
    BY <1>t, <1>w, <2>3, <2>4, <2>5, SameRowsKept, TaskStarts
  <2> QED
    BY <1>t, <2>1, <2>3, <2>6, SameRowsKept, HandsKept DEF TypeInv, TableType, HandType
<1>3. ASSUME NEW n \in Nodes, OnNodeOnline(n) PROVE TypeInv'
  <2>1. WindowType'
    BY <1>f, <1>3 DEF OnNodeOnline
  <2>2. UNCHANGED <<clock, rows, until, task, queue, healer, action, issued, status, dropped,
                    request, mishaps>>
    BY <1>3 DEF OnNodeOnline, effects
  <2> QED
    BY <1>t, <2>1, <2>2, SameRowsKept, HandsKept DEF TypeInv, TableType, HandType
<1>c. ASSUME NEW w \in Workers, HandType, RowsKept, task[w].step # "idle",
             task' = [task EXCEPT ![w] = Continue(task[w])]
      PROVE  TasksHold'
  <2>1. task[w].todo \ {task[w].rule} \in SUBSET Own(w) /\ task[w].node \in Nodes
    BY <1>c, TaskFacts
  <2> QED
    BY <1>c, <2>1, TaskStarts DEF Continue
<1>4. ASSUME NEW w \in Workers, CheckRule(w) PROVE TypeInv'
  <2>1. UNCHANGED <<clock, window, flaps, rows, until, queue, healer, action, issued, status,
                    dropped, request, mishaps>> /\ task[w].step = "check"
    BY <1>4 DEF CheckRule, effects
  <2>2. RowsKept /\ Detecting(w) /\ task[w] \in Busy
    BY <1>t, <2>1, SameRowsKept, TaskFacts
  <2>3. CASE task' = [task EXCEPT ![w] = Continue(task[w])]
    BY <1>c, <1>t, <2>1, <2>2, <2>3, HandsKept DEF TypeInv, TableType, WindowType, HandType
  <2>4. CASE task' = [task EXCEPT ![w] = [task[w] EXCEPT !.step = "persist"]]
    <3> DEFINE t == [task[w] EXCEPT !.step = "persist"]
    <3>1. t \in Busy /\ t.step = "persist" /\ t.todo = task[w].todo /\ t.rule = task[w].rule
      BY <2>2 DEF Busy
    <3> HIDE DEF t
    <3>2. task' = [task EXCEPT ![w] = t]
      BY <2>4 DEF t
    <3>3. t.todo \subseteq Own(w) /\ t.rule \in Own(w)
      BY <2>2, <3>1 DEF Detecting
    <3>4. TasksHold'
      BY <1>t, <2>2, <3>1, <3>2, <3>3, TaskMoves
    <3> QED
      BY <1>t, <2>1, <2>2, <3>4, HandsKept DEF TypeInv, TableType, WindowType, HandType
  <2> QED
    BY <1>4, <2>3, <2>4 DEF CheckRule
<1>5. ASSUME NEW w \in Workers, Enqueue(w) PROVE TypeInv'
  <2>1. UNCHANGED <<clock, window, flaps, rows, until, healer, action, issued, status,
                    request, mishaps>> /\ task[w].step = "enqueue"
    BY <1>5 DEF Enqueue, effects
  <2>2. RowsKept /\ Detecting(w) /\ task[w] \in Busy /\ Present(task[w].anomaly)
    BY <1>t, <2>1, SameRowsKept, TaskFacts DEF Detecting
  <2> DEFINE t == [task[w] EXCEPT !.step = "cooldown"]
  <2>3. /\ t \in Busy /\ t.step = "cooldown" /\ t.todo = task[w].todo /\ t.rule = task[w].rule
        /\ t.node = task[w].node /\ t.anomaly = task[w].anomaly
    BY <2>2 DEF Busy
  <2>4. task' = [task EXCEPT ![w] = t]
    BY <1>5 DEF Enqueue
  <2> HIDE DEF t
  <2>5. /\ t.todo \subseteq Own(w) /\ t.rule \in Own(w)
        /\ Stays(t.anomaly) /\ rows'[t.anomaly].rule = t.rule
        /\ rows'[t.anomaly].node = t.node
    BY <2>1, <2>2, <2>3 DEF Detecting, RowsKept
  <2>6. TasksHold'
    BY <1>t, <2>2, <2>3, <2>4, <2>5, TaskMoves
  <2>7. QueueHolds' /\ dropped' \subseteq Anomalies
    <3>1. CASE queue' = queue /\ dropped' = dropped \cup {task[w].anomaly}
      BY <1>t, <2>2, <3>1, HandsKept DEF Present, TableType
    <3>2. CASE /\ Len(queue) < QueueMax /\ dropped' = dropped
               /\ queue' = Append(queue, task[w].anomaly)
      <4> DEFINE a == task[w].anomaly
      <4>1. a \in Anomalies /\ Stays(a) /\ queue \in Seq(Anomalies)
        BY <1>t, <2>1, <2>2 DEF Present, QueueHolds, RowsKept
      <4> HIDE DEF a
      <4>2. queue' = Append(queue, a)
        BY <3>2 DEF a
      <4>3. /\ queue' \in Seq(Anomalies) /\ Len(queue') = Len(queue) + 1
            /\ \A i \in 1..Len(queue) : queue'[i] = queue[i]
            /\ queue'[Len(queue) + 1] = a
        BY <4>1, <4>2
      <4>4. \A i \in 1..Len(queue) : Stays(queue[i])
        BY <1>t, <2>2 DEF QueueHolds, RowsKept
      <4>5. \A i \in 1..Len(queue') : i \in 1..Len(queue) \/ i = Len(queue) + 1
        BY <4>1, <4>3
      <4>6. \A i \in 1..Len(queue') : Stays(queue'[i])
        BY <4>1, <4>3, <4>4, <4>5
      <4> QED
        BY <1>t, <3>2, <4>1, <4>3, <4>6 DEF QueueHolds, TableType, Present, Stays
    <3> QED
      BY <1>5, <3>1, <3>2 DEF Enqueue
  <2> QED
    BY <1>t, <2>1, <2>2, <2>6, <2>7, HandsKept DEF TypeInv, TableType, WindowType, HandType
<1>6. ASSUME NEW w \in Workers, SetCooldown(w) PROVE TypeInv'
  <2>1. UNCHANGED <<clock, window, flaps, queue, healer, action, issued, status,
                    dropped, request, mishaps>> /\ task[w].step = "cooldown"
        /\ rows' = [rows EXCEPT ![task[w].anomaly].cooled = TRUE]
        /\ until' = RuleStateAfter(task[w].rule, task[w].node)
        /\ task' = [task EXCEPT ![w] = Continue(task[w])]
    BY <1>6 DEF SetCooldown, effects
  <2>2. Present(task[w].anomaly)
    BY <1>t, <2>1, TaskFacts DEF Detecting
  <2>3. rows' \in [Anomalies -> Row \cup {Absent}] /\ RowsKept
    BY <1>t, <2>1, <2>2, RowWritten, Statuses
  <2>4. until' \in [Scopes -> Nat]
    <3>1. task[w].rule \in Rules /\ <<task[w].rule, task[w].node>> \in Scopes
      BY <1>t, <2>1, TaskFacts
    <3>2. clock + Suppress[task[w].rule] \in Nat
      BY ConstantTypes, <1>t, <3>1 DEF TableType
    <3> QED
      BY <1>t, <2>1, <3>1, <3>2 DEF RuleStateAfter, TableType
  <2>5. TasksHold'
    BY <1>c, <1>t, <2>1, <2>3
  <2> QED
    BY <1>t, <2>1, <2>3, <2>4, <2>5, HandsKept DEF TypeInv, TableType, WindowType, HandType
<1>7. ASSUME NEW w \in Workers, NEW a \in Anomalies, PersistAnomaly(w, a) PROVE TypeInv'
  <2> DEFINE t == [task[w] EXCEPT !.step = "enqueue", !.anomaly = a]
             x == [rule |-> task[w].rule, node |-> task[w].node, at |-> clock,
                   status |-> "active", cooled |-> FALSE]
  <2>1. UNCHANGED <<clock, window, flaps, until, queue, healer, action, issued, status,
                    dropped, request, mishaps>> /\ task[w].step = "persist"
        /\ rows[a].status = "absent"
        /\ rows' = [rows EXCEPT ![a] = x] /\ task' = [task EXCEPT ![w] = t]
    BY <1>7 DEF PersistAnomaly, effects
  <2>2. Detecting(w) /\ task[w] \in Busy /\ task[w].rule \in Rules /\ task[w].node \in Nodes
    BY <1>t, <2>1, TaskFacts
  <2>3. /\ t \in Busy /\ t.todo = task[w].todo /\ t.rule = task[w].rule
        /\ t.node = task[w].node /\ t.anomaly = a
    BY <2>2 DEF Busy
  <2>4. x \in Row /\ x.rule = task[w].rule /\ x.node = task[w].node
    BY <1>t, <2>2, Statuses DEF Row, TableType
  <2> HIDE DEF t, x
  <2>5. rows' \in [Anomalies -> Row \cup {Absent}] /\ rows'[a] = x
        /\ \A b \in Anomalies : b # a => rows'[b] = rows[b]
    BY <1>t, <2>1, <2>4 DEF TableType
  <2>6. ~Present(a)
    BY <1>t, <2>1, PresentRows
  <2>7. RowsKept /\ Stays(a)
    BY <2>4, <2>5, <2>6 DEF RowsKept, Present, Stays
  <2>8. TasksHold'
    BY <1>t, <2>1, <2>2, <2>3, <2>4, <2>5, <2>7, TaskMoves DEF Detecting
  <2> QED
    BY <1>t, <2>1, <2>5, <2>7, <2>8, HandsKept DEF TypeInv, TableType, WindowType, HandType
<1> QED
  BY <1>1, <1>2, <1>3, <1>4, <1>5, <1>6, <1>7

\* The healer keeps its types.
LEMMA HealerKeepsTypes == TypeInv /\ HealerStep => TypeInv'
<1> SUFFICES ASSUME TypeInv, HealerStep PROVE TypeInv'
  OBVIOUS
<1> USE ConstantTypes
<1>t. TableType /\ WindowType /\ HandType /\ QueueHolds /\ HealerHolds
  BY DEF TypeInv, HandType
<1>r. AtRest \in Healing /\ AtRest.step = "idle"
  BY DEF AtRest, Healing
<1>h. ASSUME healer.step # "idle"
      PROVE  Present(healer.anomaly) /\ healer.anomaly \in Anomalies
  BY <1>t, <1>h DEF HealerHolds, Present
<1>k. ASSUME RowsKept, HealerHolds', TableType',
             UNCHANGED <<window, flaps, task, queue, request>>
      PROVE  TypeInv'
  BY <1>t, <1>k, HandsKept DEF TypeInv, WindowType, HandType
<1>1. CASE Take
  <2>1. UNCHANGED <<clock, window, flaps, task, rows, until, action, issued, status, dropped,
                    request, mishaps>>
    BY <1>1 DEF Take, detection, effects
  <2>2. queue \in Seq(Anomalies) /\ queue # <<>> /\ queue' = Tail(queue)
    BY <1>t, <1>1 DEF Take, QueueHolds
  <2>3. /\ Head(queue) = queue[1] /\ 1 \in 1..Len(queue) /\ Len(queue) \in Nat
        /\ queue' \in Seq(Anomalies) /\ Len(queue') = Len(queue) - 1
        /\ \A i \in 1..(Len(queue) - 1) : queue'[i] = queue[i + 1] /\ i + 1 \in 1..Len(queue)
    BY <2>2
  <2>4. QueueHolds'
    BY <1>t, <2>1, <2>3 DEF QueueHolds, Present
  <2>5. Present(Head(queue))
    BY <1>t, <2>3 DEF QueueHolds
  <2>6. \/ healer' = AtRest
        \/ \E step \in {"escalate", "issue"} :
              healer' = [step |-> step, anomaly |-> Head(queue)]
    BY <1>1 DEF Take
  <2>7. HealerHolds'
    BY <1>r, <2>1, <2>5, <2>6 DEF HealerHolds, Healing, Present
  <2> QED
    BY <1>t, <2>1, <2>4, <2>7, SameRowsKept, HandsKept
       DEF TypeInv, TableType, WindowType, HandType
<1>2. CASE Escalate
  <2>1. UNCHANGED <<clock, window, flaps, task, queue, until, action, issued, status, dropped,
                    request, mishaps>>
        /\ healer' = AtRest /\ rows' = [rows EXCEPT ![healer.anomaly].status = "escalated"]
        /\ Present(healer.anomaly)
    BY <1>h, <1>2 DEF Escalate, detection, effects, WithStatus
  <2>2. rows' \in [Anomalies -> Row \cup {Absent}] /\ RowsKept
    BY <1>t, <2>1, RowWritten, Statuses
  <2> QED
    BY <1>k, <1>r, <1>t, <2>1, <2>2 DEF TableType, HealerHolds
<1>3. CASE IssueAction
  <2>1. UNCHANGED <<clock, window, flaps, task, queue, rows, until, status, dropped,
                    request, mishaps>> /\ healer.step = "issue"
        /\ action' = [action EXCEPT ![healer.anomaly] = "pending"]
        /\ issued' = [issued EXCEPT ![healer.anomaly] = issued[healer.anomaly] + 1]
        /\ healer' = [healer EXCEPT !.step = "execute"]
    BY <1>3 DEF IssueAction, detection
  <2>2. Present(healer.anomaly) /\ healer.anomaly \in Anomalies
    BY <1>h, <2>1
  <2>3. HealerHolds'
    BY <1>t, <2>1, <2>2 DEF HealerHolds, Healing, Present
  <2>4. TableType'
    BY <1>t, <2>1, <2>2, Statuses DEF TableType
  <2> QED
    BY <1>k, <2>1, <2>3, <2>4, SameRowsKept
<1>4. CASE Execute
  <2>1. UNCHANGED <<clock, window, flaps, task, queue, rows, until, action, issued, dropped,
                    request, mishaps>> /\ healer.step = "execute"
        /\ healer' = [healer EXCEPT !.step = "complete"]
        /\ (\/ status' = status
            \/ status' = [status EXCEPT ![rows[healer.anomaly].node] = "degraded"])
    BY <1>4 DEF Execute, detection
  <2>2. Present(healer.anomaly)
    BY <1>h, <2>1
  <2>3. HealerHolds'
    BY <1>t, <2>1, <2>2 DEF HealerHolds, Healing, Present
  <2>4. TableType'
    BY <1>t, <2>1 DEF TableType
  <2> QED
    BY <1>k, <2>1, <2>3, <2>4, SameRowsKept
<1>5. ASSUME NEW step \in {"complete", "fail"}, NEW result \in {"completed", "failed"},
             RecordAction(step, result)
      PROVE  TypeInv'
  <2>1. UNCHANGED <<clock, window, flaps, task, queue, rows, until, issued, status, dropped,
                    request, mishaps>> /\ healer.step = step /\ healer' = AtRest
        /\ action' = [action EXCEPT ![healer.anomaly] = result]
    BY <1>5 DEF RecordAction, detection
  <2>2. TableType'
    BY <1>t, <2>1, Statuses DEF TableType
  <2> QED
    BY <1>k, <1>r, <2>1, <2>2, SameRowsKept DEF HealerHolds
<1>6. CASE HealerRaises
  <2>1. UNCHANGED <<clock, window, flaps, task, queue, rows, until, action, issued, status,
                    dropped, request>> /\ healer.step # "idle"
        /\ mishaps < MaxMishaps /\ mishaps' = mishaps + 1
        /\ (healer' = [healer EXCEPT !.step = "fail"] \/ healer' = AtRest)
    BY <1>6 DEF HealerRaises, detection, effects
  <2>2. HealerHolds'
    BY <1>h, <1>r, <1>t, <2>1 DEF HealerHolds, Healing, Present
  <2>3. TableType'
    BY <1>t, <2>1 DEF TableType
  <2> QED
    BY <1>k, <2>1, <2>2, <2>3, SameRowsKept
<1> QED
  BY <1>1, <1>2, <1>3, <1>4, <1>5, <1>6 DEF HealerStep

\* An operator's call keeps the types: one that gets past the test of the status has
\* read an anomaly that is not over.
LEMMA CallsKeepTypes ==
  ASSUME TypeInv, NEW q \in Requests,
         \/ \E a \in Anomalies : \/ ReadAnomaly(q, "acknowledge", a)
                                 \/ ReadAnomaly(q, "resolve", a)
                                 \/ ReadAction(q, a)
         \/ WriteAnomaly(q, "acknowledge", "acknowledged")
         \/ WriteAnomaly(q, "resolve", "resolved")
         \/ CancelAction(q)
  PROVE  TypeInv'
<1> USE ConstantTypes
<1>t. TableType /\ WindowType /\ HandType /\ CallsHold
  BY DEF TypeInv, HandType
<1>n. NoRequest \in Call /\ NoRequest.op = "none" /\ ~NoRequest.late
  BY DEF NoRequest, Call
<1>k. ASSUME RowsKept, CallsHold', TableType',
             UNCHANGED <<window, flaps, task, queue, healer>>
      PROVE  TypeInv'
  BY <1>t, <1>k, HandsKept DEF TypeInv, WindowType, HandType
<1>c. ASSUME RowsKept, NEW x \in Call, request' = [request EXCEPT ![q] = x], ~x.late,
             x.op \in {"acknowledge", "resolve"} => Stays(x.anomaly),
             x.op = "cancel" => x.anomaly \in Anomalies
      PROVE  CallsHold'
  BY <1>t, <1>c DEF CallsHold, RowsKept, Present, Stays
<1>1. ASSUME NEW a \in Anomalies, NEW op \in {"acknowledge", "resolve"}, ReadAnomaly(q, op, a)
      PROVE  TypeInv'
  <2> DEFINE x == [op |-> op, anomaly |-> a, late |-> rows[a].status = "resolved"]
  <2>1. UNCHANGED <<clock, window, flaps, task, queue, healer, rows, until, action, issued,
                    status, dropped, mishaps>>
        /\ request' = [request EXCEPT ![q] = x]
        /\ rows[a].status # "absent" /\ ~Refuses(op, rows[a].status)
    BY <1>1 DEF ReadAnomaly, detection, effects
  <2>2. rows[a].status # "resolved"
    BY <2>1 DEF Refuses
  <2>3. x \in Call /\ ~x.late /\ x.anomaly = a
    BY <2>2 DEF Call
  <2>4. RowsKept /\ Stays(a)
    BY <1>t, <2>1, SameRowsKept, PresentRows DEF RowsKept
  <2> HIDE DEF x
  <2>5. CallsHold'
    BY <1>c, <2>1, <2>3, <2>4
  <2> QED
    BY <1>k, <1>t, <2>1, <2>4, <2>5 DEF TableType
<1>2. ASSUME NEW a \in Anomalies, ReadAction(q, a) PROVE TypeInv'
  <2> DEFINE x == [op |-> "cancel", anomaly |-> a, late |-> action[a] # "pending"]
  <2>1. UNCHANGED <<clock, window, flaps, task, queue, healer, rows, until, action, issued,
                    status, dropped, mishaps>>
        /\ request' = [request EXCEPT ![q] = x] /\ action[a] = "pending"
    BY <1>2 DEF ReadAction, detection, effects
  <2>3. x \in Call /\ ~x.late /\ x.anomaly = a /\ x.op = "cancel"
    BY <2>1 DEF Call
  <2> HIDE DEF x
  <2>5. CallsHold'
    BY <1>c, <2>1, <2>3, SameRowsKept
  <2> QED
    BY <1>k, <1>t, <2>1, <2>5, SameRowsKept DEF TableType
<1>3. ASSUME NEW op \in {"acknowledge", "resolve"}, NEW st \in {"acknowledged", "resolved"},
             WriteAnomaly(q, op, st)
      PROVE  TypeInv'
  <2>1. UNCHANGED <<clock, window, flaps, task, queue, healer, until, action, issued,
                    status, dropped, mishaps>>
        /\ request' = [request EXCEPT ![q] = NoRequest] /\ request[q].op = op
        /\ rows' = [rows EXCEPT ![request[q].anomaly].status = st]
    BY <1>3 DEF WriteAnomaly, detection, effects, WithStatus
  <2>2. Present(request[q].anomaly)
    BY <1>t, <2>1 DEF CallsHold
  <2>3. rows' \in [Anomalies -> Row \cup {Absent}] /\ RowsKept
    BY <1>t, <2>1, <2>2, RowWritten, Statuses
  <2>4. CallsHold'
    BY <1>c, <1>n, <2>1, <2>3
  <2> QED
    BY <1>k, <1>t, <2>1, <2>3, <2>4 DEF TableType
<1>4. CASE CancelAction(q)
  <2>1. UNCHANGED <<clock, window, flaps, task, queue, healer, rows, until, issued,
                    status, dropped, mishaps>>
        /\ request' = [request EXCEPT ![q] = NoRequest]
        /\ action' = [action EXCEPT ![request[q].anomaly] = "cancelled"]
    BY <1>4 DEF CancelAction, detection
  <2>2. CallsHold'
    BY <1>c, <1>n, <2>1, SameRowsKept
  <2>3. TableType'
    BY <1>t, <2>1, Statuses DEF TableType
  <2> QED
    BY <1>k, <2>1, <2>2, <2>3, SameRowsKept
<1> QED
  BY <1>1, <1>2, <1>3, <1>4

\* Every step keeps the types.
LEMMA TypeInductive == TypeInv /\ [Next]_vars => TypeInv'
<1> SUFFICES ASSUME TypeInv, [Next]_vars PROVE TypeInv'
  OBVIOUS
<1> USE ConstantTypes
<1>t. TableType /\ WindowType /\ HandType
  BY DEF TypeInv
<1>1. CASE Tick
  <2>1. UNCHANGED <<window, flaps, task, rows, until, queue, healer, action, issued, status,
                    dropped, request, mishaps>> /\ clock < MaxClock /\ clock' = clock + 1
    BY <1>1 DEF Tick, detection, effects
  <2> QED
    BY <1>t, <2>1, SameRowsKept, HandsKept DEF TypeInv, TableType, WindowType, HandType
<1>2. CASE Restart
  <2>1. /\ UNCHANGED <<clock, rows, until, action, issued, status, dropped>>
        /\ mishaps < MaxMishaps /\ mishaps' = mishaps + 1
        /\ window' = [n \in Nodes |-> <<>>] /\ flaps' = [n \in Nodes |-> <<>>]
        /\ task' = [w \in Workers |-> Idle] /\ queue' = <<>>
        /\ healer' = AtRest /\ request' = [q \in Requests |-> NoRequest]
    BY <1>2 DEF Restart, effects
  <2>2. TableType' /\ WindowType'
    BY <1>t, <2>1 DEF TableType, WindowType
  <2>3. HandType'
    BY <2>1 DEF HandType, TasksHold, QueueHolds, HealerHolds, CallsHold, AtRest, Healing,
                NoRequest, Call
  <2> QED
    BY <2>2, <2>3 DEF TypeInv
<1>3. CASE UNCHANGED vars
  <2>1. UNCHANGED <<clock, window, flaps, task, rows, until, queue, healer, action, issued,
                    status, dropped, request, mishaps>>
    BY <1>3 DEF vars
  <2> QED
    BY <1>t, <2>1, SameRowsKept, HandsKept DEF TypeInv, TableType, WindowType, HandType
<1> QED
  BY <1>1, <1>2, <1>3, DetectorKeepsTypes, HealerKeepsTypes, CallsKeepTypes DEF Next

LEMMA TypeAtStart == Init => TypeInv
<1> SUFFICES ASSUME Init PROVE TypeInv
  OBVIOUS
<1>1. TableType /\ WindowType
  BY ConstantTypes DEF Init, TableType, WindowType
<1>2. HandType
  BY ConstantTypes DEF Init, HandType, TasksHold, QueueHolds, HealerHolds, CallsHold, AtRest,
                       Healing, NoRequest, Call
<1> QED
  BY <1>1, <1>2 DEF TypeInv

LEMMA TypesHold == Spec => []TypeInv
  BY TypeAtStart, TypeInductive, PTL DEF Spec

\* Every reachable state is well typed, and no queue or window exceeds its bound.
THEOREM PipelineTypeCorrect == Spec => []TypeOK
<1>1. TypeInv => TypeOK
  <2> SUFFICES ASSUME TypeInv PROVE TypeOK
    OBVIOUS
  <2>1. /\ clock \in 0..MaxClock /\ until \in [Scopes -> Nat]
        /\ rows \in [Anomalies -> RowType]
        /\ action \in [Anomalies -> ActionStatuses \cup {"absent"}]
        /\ issued \in [Anomalies -> Nat] /\ dropped \subseteq Anomalies
        /\ status \in [Nodes -> {"online", "degraded"}] /\ mishaps \in 0..MaxMishaps
    BY DEF TypeInv, TableType, Row, RowType
  <2>2. \A n \in Nodes : /\ window[n] \in Seq(Snapshots) /\ Len(window[n]) <= WindowSize
                         /\ flaps[n] \in Seq(0..MaxClock) /\ Len(flaps[n]) <= FlapLog
    BY DEF TypeInv, WindowType
  <2>3. task \in [Workers -> TaskType]
    BY DEF TypeInv, HandType, TasksHold, TaskType, Busy
  <2>4. /\ queue \in Seq(Anomalies) /\ Len(queue) <= QueueMax
        /\ healer \in Healing /\ request \in [Requests -> Call]
    BY DEF TypeInv, HandType, QueueHolds, HealerHolds, CallsHold
  <2> QED
    BY <2>1, <2>2, <2>3, <2>4 DEF TypeOK, Healing, Call
<1> QED
  BY <1>1, TypesHold, PTL

-----------------------------------------------------------------------------
(* One action for each anomaly                                              *)

\* What the types say of the hands, by name.
LEMMA HandFacts ==
  ASSUME TypeInv
  PROVE  /\ \A a \in Anomalies : rows[a] \in Row \/ rows[a] = Absent
         /\ Absent \notin Row
         /\ \A w \in Workers : /\ task[w].step \in {"idle", "check", "persist", "enqueue", "cooldown"}
                               /\ task[w].step \in {"enqueue", "cooldown"}
                                  => /\ Present(task[w].anomaly)
                                     /\ rows[task[w].anomaly].rule = task[w].rule
                                     /\ rows[task[w].anomaly].node = task[w].node
         /\ queue \in Seq(Anomalies) /\ \A i \in 1..Len(queue) : Present(queue[i])
         /\ healer.step # "idle" => Present(healer.anomaly)
<1>1. TableType /\ TasksHold /\ QueueHolds /\ HealerHolds
  BY DEF TypeInv, HandType
<1>2. Absent \notin Row
  BY Statuses DEF Absent, Row
<1>3. \A a \in Anomalies : rows[a] \in Row \/ rows[a] = Absent
  BY <1>1 DEF TableType
<1>4. ASSUME NEW w \in Workers
      PROVE  /\ task[w].step \in {"idle", "check", "persist", "enqueue", "cooldown"}
             /\ task[w].step \in {"enqueue", "cooldown"}
                                  => /\ Present(task[w].anomaly)
                                     /\ rows[task[w].anomaly].rule = task[w].rule
                                     /\ rows[task[w].anomaly].node = task[w].node
  BY <1>1 DEF TasksHold, Detecting, Busy, Idle
<1> QED
  BY <1>1, <1>2, <1>3, <1>4 DEF QueueHolds, HealerHolds

\* StartCheck leads to no "enqueue".
LEMMA StartSteps ==
  \A rs, n : StartCheck(rs, n).step \in {"idle", "check"}
  BY DEF StartCheck, Idle

\* A step that keeps the rows, the queue and the counts, and hands nothing on.
LEMMA PlaceFrame ==
  ASSUME PlaceInv, UNCHANGED <<issued, queue>>,
         \A a \in Anomalies : rows'[a] = Absent => rows[a] = Absent,
         \A w \in Workers : task'[w].step = "enqueue" => task'[w] = task[w],
         healer'.step = "issue" => healer' = healer
  PROVE  PlaceInv'
  BY DEF PlaceInv

LEMMA RowsStay ==
  ASSUME TypeInv, RowsKept
  PROVE  \A a \in Anomalies : rows'[a] = Absent => rows[a] = Absent
  BY HandFacts DEF RowsKept, Present, Stays

\* A row written for the first time is nowhere on its way.
LEMMA PersistKeepsPlaces ==
  ASSUME TypeInv, PlaceInv, NEW w \in Workers, NEW a \in Anomalies, PersistAnomaly(w, a)
  PROVE  PlaceInv'
<1> DEFINE t == [task[w] EXCEPT !.step = "enqueue", !.anomaly = a]
           x == [rule |-> task[w].rule, node |-> task[w].node, at |-> clock,
                 status |-> "active", cooled |-> FALSE]
<1>1. /\ UNCHANGED <<queue, healer, issued>> /\ rows[a].status = "absent"
      /\ rows' = [rows EXCEPT ![a] = x] /\ task' = [task EXCEPT ![w] = t]
      /\ task[w].step = "persist"
  BY DEF PersistAnomaly, effects
<1>2. TableType /\ task \in [Workers -> Busy \cup {Idle}]
  BY DEF TypeInv, HandType, TasksHold
<1>3. t.step = "enqueue" /\ t.anomaly = a
  <2>1. task[w] \in Busy
    BY <1>1, <1>2 DEF Idle
  <2> QED
    BY <2>1 DEF Busy
<1>4. ~Present(a) /\ rows[a] = Absent
  BY <1>1, <1>2, PresentRows, HandFacts DEF Present
<1>5. issued[a] = 0 /\ \A i \in 1..Len(queue) : queue[i] # a
  BY <1>4, HandFacts DEF PlaceInv
<1>6. healer.step = "issue" => healer.anomaly # a
  BY <1>4, HandFacts
<1>7. x # Absent
  BY DEF Absent
<1> HIDE DEF t, x
<1>8. \A v \in Workers : v # w => task'[v] = task[v] /\ (task[v].step = "enqueue"
                                                        => task[v].anomaly # a)
  BY <1>1, <1>2, <1>4, HandFacts
<1>9. task'[w] = t
  BY <1>1, <1>2
<1>10. \A b \in Anomalies : rows'[b] = Absent => rows[b] = Absent
  BY <1>1, <1>2, <1>7 DEF TableType
<1> QED
  BY <1>1, <1>3, <1>5, <1>6, <1>8, <1>9, <1>10 DEF PlaceInv

\* From the caller into the queue, or away.
LEMMA EnqueueKeepsPlaces ==
  ASSUME TypeInv, PlaceInv, NEW w \in Workers, Enqueue(w)
  PROVE  PlaceInv'
<1> DEFINE a == task[w].anomaly
<1>1. UNCHANGED <<rows, healer, issued>> /\ task[w].step = "enqueue"
      /\ task' = [task EXCEPT ![w] = [task[w] EXCEPT !.step = "cooldown"]]
      /\ (\/ queue' = queue
          \/ queue' = Append(queue, a))
  BY DEF Enqueue, effects
<1>2. task \in [Workers -> Busy \cup {Idle}]
  BY DEF TypeInv, HandType, TasksHold
<1>3. /\ task'[w].step # "enqueue"
      /\ \A v \in Workers : v # w => task'[v] = task[v]
  <2>1. task[w] \in Busy
    BY <1>1, <1>2 DEF Idle
  <2> QED
    BY <1>1, <1>2, <2>1 DEF Busy
<1>4. CASE queue' = queue
  BY <1>1, <1>3, <1>4, PlaceFrame
<1>5. CASE queue' = Append(queue, a)
  <2>1. a \in Anomalies /\ queue \in Seq(Anomalies)
    BY <1>1, HandFacts DEF Present
  <2>2. /\ issued[a] = 0 /\ \A i \in 1..Len(queue) : queue[i] # a
        /\ healer.step = "issue" => healer.anomaly # a
        /\ \A v \in Workers : v # w /\ task[v].step = "enqueue" => task[v].anomaly # a
    BY <1>1 DEF PlaceInv
  <2> HIDE DEF a
  <2>3. /\ Len(queue) \in Nat /\ Len(queue') = Len(queue) + 1 /\ queue'[Len(queue) + 1] = a
        /\ \A i \in 1..Len(queue) : queue'[i] = queue[i]
    BY <1>5, <2>1
  <2>4. \A i \in 1..Len(queue') : \/ i \in 1..Len(queue) /\ queue'[i] = queue[i]
                                  \/ i = Len(queue) + 1 /\ queue'[i] = a
    BY <2>3
  <2>5. ASSUME NEW i \in 1..Len(queue')
        PROVE  /\ issued'[queue'[i]] = 0
               /\ \A j \in 1..Len(queue') : i # j => queue'[i] # queue'[j]
               /\ healer'.step = "issue" => healer'.anomaly # queue'[i]
    BY <1>1, <2>2, <2>4 DEF PlaceInv
  <2>6. ASSUME NEW v \in Workers, task'[v].step = "enqueue"
        PROVE  /\ v # w /\ task'[v] = task[v]
               /\ issued'[task'[v].anomaly] = 0
               /\ \A i \in 1..Len(queue') : queue'[i] # task'[v].anomaly
               /\ healer'.step = "issue" => healer'.anomaly # task'[v].anomaly
    BY <1>1, <1>3, <2>2, <2>4, <2>6 DEF PlaceInv
  <2>7. \A u, v \in Workers : u # v /\ task'[u].step = "enqueue" /\ task'[v].step = "enqueue"
                              => task'[u].anomaly # task'[v].anomaly
    BY <2>6 DEF PlaceInv
  <2>8. /\ \A b \in Anomalies : issued'[b] <= 1
        /\ \A b \in Anomalies : rows'[b] = Absent => issued'[b] = 0
        /\ healer'.step = "issue" => issued'[healer'.anomaly] = 0
    BY <1>1 DEF PlaceInv
  <2> QED
    BY <2>5, <2>6, <2>7, <2>8 DEF PlaceInv
<1> QED
  BY <1>1, <1>4, <1>5

\* From the head of the queue to the healer.
LEMMA TakeKeepsPlaces ==
  ASSUME TypeInv, PlaceInv, Take
  PROVE  PlaceInv'
<1>1. UNCHANGED <<rows, task, issued>> /\ queue # <<>> /\ queue' = Tail(queue)
      /\ (healer'.step = "issue" => healer'.anomaly = Head(queue))
  BY DEF Take, detection, effects, AtRest
<1>2. queue \in Seq(Anomalies)
  BY HandFacts
<1>3. /\ Len(queue) \in Nat /\ 1 \in 1..Len(queue) /\ Head(queue) = queue[1]
      /\ Len(queue') = Len(queue) - 1
      /\ \A i \in 1..Len(queue') : queue'[i] = queue[i + 1]
  BY <1>1, <1>2
<1>4. \A i \in 1..Len(queue') : i + 1 \in 1..Len(queue) /\ i + 1 # 1
  BY <1>3
<1>5. ASSUME NEW i \in 1..Len(queue')
      PROVE  /\ issued[queue'[i]] = 0 /\ queue'[i] # Head(queue)
             /\ \A j \in 1..Len(queue') : i # j => queue'[i] # queue'[j]
  <2>1. \A j \in 1..Len(queue') : i # j => i + 1 # j + 1
    OBVIOUS
  <2> QED
    BY <1>3, <1>4, <2>1 DEF PlaceInv
<1>6. issued[Head(queue)] = 0
  BY <1>3 DEF PlaceInv
<1>7. \A w \in Workers : task[w].step = "enqueue" =>
         /\ task[w].anomaly # Head(queue)
         /\ \A i \in 1..Len(queue') : queue'[i] # task[w].anomaly
  BY <1>3, <1>4 DEF PlaceInv
<1> QED
  BY <1>1, <1>5, <1>6, <1>7 DEF PlaceInv

\* The healer counts the action of an anomaly that is nowhere else.
LEMMA IssueKeepsPlaces ==
  ASSUME TypeInv, PlaceInv, IssueAction
  PROVE  PlaceInv'
<1> DEFINE a == healer.anomaly
<1>1. UNCHANGED <<rows, task, queue>> /\ healer.step = "issue" /\ healer'.step = "execute"
      /\ issued' = [issued EXCEPT ![a] = issued[a] + 1]
  <2>1. healer \in Healing
    BY DEF TypeInv, HandType, HealerHolds
  <2> QED
    BY <2>1 DEF IssueAction, detection, Healing
<1>2. a \in Anomalies /\ rows[a] # Absent /\ issued \in [Anomalies -> Nat]
  BY <1>1, HandFacts DEF Present, TypeInv, TableType
<1>3. /\ issued[a] = 0
      /\ \A w \in Workers : task[w].step = "enqueue" => task[w].anomaly # a
      /\ \A i \in 1..Len(queue) : queue[i] # a
  BY <1>1 DEF PlaceInv
<1> HIDE DEF a
<1>4. issued'[a] = 1 /\ \A b \in Anomalies : b # a => issued'[b] = issued[b]
  BY <1>1, <1>2, <1>3
<1>5. \A i \in 1..Len(queue) : queue[i] \in Anomalies
  BY HandFacts
<1>6. \A w \in Workers : task[w].step = "enqueue" => task[w].anomaly \in Anomalies
  BY HandFacts DEF Present
<1> QED
  BY <1>1, <1>2, <1>3, <1>4, <1>5, <1>6 DEF PlaceInv

\* Every step keeps an anomaly without an action in one place.
LEMMA PlaceInductive == TypeInv /\ PlaceInv /\ [Next]_vars => PlaceInv'
<1> SUFFICES ASSUME TypeInv, PlaceInv, [Next]_vars PROVE PlaceInv'
  OBVIOUS
<1>t. TableType /\ task \in [Workers -> Busy \cup {Idle}] /\ healer \in Healing
  BY DEF TypeInv, HandType, TasksHold, HealerHolds
<1>f. ASSUME UNCHANGED <<issued, queue>>, RowsKept,
             \A w \in Workers : task'[w].step = "enqueue" => task'[w] = task[w],
             healer'.step = "issue" => healer' = healer
      PROVE  PlaceInv'
  BY <1>f, RowsStay, PlaceFrame
<1>1. ASSUME NEW n \in Nodes,
             (\E s \in Snapshots : OnHeartbeat(n, s)) \/ OnNodeOffline(n) \/ OnNodeOnline(n)
      PROVE  PlaceInv'
  <2>1. UNCHANGED <<issued, queue, rows, healer>>
    BY <1>1 DEF OnHeartbeat, OnNodeOffline, OnNodeOnline, effects
  <2>2. \/ task' = task
        \/ \E w \in Workers : \E rs : task' = [task EXCEPT ![w] = StartCheck(rs, n)]
    BY <1>1 DEF OnHeartbeat, OnNodeOffline, OnNodeOnline, Workers
  <2>3. \A w \in Workers : task'[w].step = "enqueue" => task'[w] = task[w]
    BY <1>t, <2>2, StartSteps
  <2> QED
    BY <1>f, <2>1, <2>3, SameRowsKept
<1>2. ASSUME NEW w \in Workers, CheckRule(w) \/ SetCooldown(w) PROVE PlaceInv'
  <2>1. UNCHANGED <<issued, queue, healer>>
    BY <1>2 DEF CheckRule, SetCooldown, effects
  <2>2. RowsKept
    <3>1. CASE CheckRule(w)
      BY <3>1, SameRowsKept DEF CheckRule
    <3>2. CASE SetCooldown(w)
      <4>1. Present(task[w].anomaly) /\ rows' = [rows EXCEPT ![task[w].anomaly].cooled = TRUE]
        BY <3>2, HandFacts DEF SetCooldown
      <4> QED
        BY <1>t, <4>1, RowWritten, Statuses
    <3> QED
      BY <1>2, <3>1, <3>2
  <2>3. \/ task' = [task EXCEPT ![w] = Continue(task[w])]
        \/ /\ task' = [task EXCEPT ![w] = [task[w] EXCEPT !.step = "persist"]]
           /\ task[w].step = "check"
    BY <1>2 DEF CheckRule, SetCooldown
  <2>4. Continue(task[w]).step # "enqueue"
    BY StartSteps DEF Continue
  <2>5. task[w].step = "check" => [task[w] EXCEPT !.step = "persist"].step # "enqueue"
    BY <1>t DEF Busy, Idle
  <2>6. \A v \in Workers : task'[v].step = "enqueue" => task'[v] = task[v]
    BY <1>t, <2>3, <2>4, <2>5
  <2> QED
    BY <1>f, <2>1, <2>2, <2>6
<1>3. ASSUME Escalate \/ Execute \/ HealerRaises
             \/ RecordAction("complete", "completed") \/ RecordAction("fail", "failed")
      PROVE  PlaceInv'
  <2>1. UNCHANGED <<issued, queue, task>>
    BY <1>3 DEF Escalate, Execute, HealerRaises, RecordAction, detection, effects
  <2>2. healer'.step # "issue"
    BY <1>3, <1>t DEF Escalate, Execute, HealerRaises, RecordAction, AtRest, Healing
  <2>3. RowsKept
    <3>1. CASE Escalate
      <4>1. Present(healer.anomaly)
            /\ rows' = [rows EXCEPT ![healer.anomaly].status = "escalated"]
        BY <3>1, HandFacts DEF Escalate, WithStatus
      <4> QED
        BY <1>t, <4>1, RowWritten, Statuses
    <3>2. CASE ~Escalate
      BY <1>3, <3>2, SameRowsKept DEF Execute, HealerRaises, RecordAction
    <3> QED
      BY <3>1, <3>2
  <2> QED
    BY <1>f, <2>1, <2>2, <2>3
<1>4. ASSUME NEW q \in Requests,
             \/ \E a \in Anomalies : \/ ReadAnomaly(q, "acknowledge", a)
                                     \/ ReadAnomaly(q, "resolve", a)
                                     \/ ReadAction(q, a)
             \/ CancelAction(q)
      PROVE  PlaceInv'
  <2>1. UNCHANGED <<issued, queue, task, healer, rows>>
    BY <1>4 DEF ReadAnomaly, ReadAction, CancelAction, detection, effects
  <2> QED
    BY <1>f, <2>1, SameRowsKept
<1>5. ASSUME NEW q \in Requests, NEW op \in {"acknowledge", "resolve"},
             NEW st \in {"acknowledged", "resolved"}, WriteAnomaly(q, op, st)
      PROVE  PlaceInv'
  <2>1. UNCHANGED <<issued, queue, task, healer>> /\ request[q].op = op
        /\ rows' = [rows EXCEPT ![request[q].anomaly].status = st]
    BY <1>5 DEF WriteAnomaly, WithStatus, detection, effects
  <2>2. Present(request[q].anomaly)
    BY <2>1 DEF TypeInv, HandType, CallsHold
  <2>3. RowsKept
    BY <1>t, <2>1, <2>2, RowWritten, Statuses
  <2> QED
    BY <1>f, <2>1, <2>3
<1>6. CASE Tick
  BY <1>f, <1>6, SameRowsKept DEF Tick, detection, effects
<1>7. CASE Restart
  <2>1. /\ UNCHANGED <<issued, rows>> /\ queue' = <<>> /\ healer'.step = "idle"
        /\ \A w \in Workers : task'[w].step = "idle"
    BY <1>7 DEF Restart, effects, AtRest, Idle
  <2>2. Len(queue') = 0 /\ 1..0 = {}
    BY <2>1
  <2> QED
    BY <2>1, <2>2 DEF PlaceInv
<1>8. CASE UNCHANGED vars
  BY <1>f, <1>8, SameRowsKept DEF vars, effects
<1> QED
  BY <1>1, <1>2, <1>3, <1>4, <1>5, <1>6, <1>7, <1>8, PersistKeepsPlaces, EnqueueKeepsPlaces,
     TakeKeepsPlaces, IssueKeepsPlaces DEF Next, HealerStep

LEMMA PlacesHold == Spec => []PlaceInv
<1>1. Init => PlaceInv
  BY DEF Init, PlaceInv, Idle, AtRest
<1> QED
  BY <1>1, TypesHold, PlaceInductive, PTL DEF Spec

\* The healer issues at most one action for an anomaly, whatever restarts, failing
\* statements and operators do.
THEOREM PipelineActsOnce == Spec => []ActedOnce
<1>1. PlaceInv => ActedOnce
  BY DEF PlaceInv, ActedOnce
<1> QED
  BY <1>1, PlacesHold, PTL

-----------------------------------------------------------------------------
(* What the healer recorded, and what operators decided                     *)

\* The part of a step that concerns the actions: one is written, or none.
LEMMA ActionFrame ==
  ASSUME ActionInv,
         UNCHANGED <<action, issued>>,
         healer'.step \in {"execute", "complete", "fail"} =>
            /\ healer'.anomaly = healer.anomaly
            /\ healer.step \in {"execute", "complete", "fail"},
         \A q \in Requests : request'[q].op = "cancel" =>
            \/ request'[q] = request[q]
            \/ action[request'[q].anomaly] # "absent"
  PROVE  ActionInv'
  BY DEF ActionInv

\* Every step keeps what is known of the actions.
LEMMA ActionInductive == TypeInv /\ ActionInv /\ [Next]_vars => ActionInv'
<1> SUFFICES ASSUME TypeInv, ActionInv, [Next]_vars PROVE ActionInv'
  OBVIOUS
<1>t. /\ action \in [Anomalies -> ActionStatuses \cup {"absent"}]
      /\ issued \in [Anomalies -> Nat] /\ healer \in Healing
      /\ healer.step # "idle" => healer.anomaly \in Anomalies
      /\ request \in [Requests -> Call]
      /\ \A q \in Requests : request[q].op = "cancel" => request[q].anomaly \in Anomalies
  BY DEF TypeInv, TableType, HandType, HealerHolds, CallsHold, Present
<1>1. ASSUME UNCHANGED <<action, issued, healer, request>> PROVE ActionInv'
  BY <1>1, ActionFrame
<1>2. CASE Take \/ Escalate \/ Execute \/ HealerRaises
  <2>1. UNCHANGED <<action, issued, request>>
    BY <1>2 DEF Take, Escalate, Execute, HealerRaises, effects
  <2>2. healer'.step \in {"execute", "complete", "fail"} =>
            /\ healer'.anomaly = healer.anomaly
            /\ healer.step \in {"execute", "complete", "fail"}
    BY <1>2, <1>t DEF Take, Escalate, Execute, HealerRaises, AtRest, Healing
  <2> QED
    BY <2>1, <2>2, ActionFrame
<1>3. CASE IssueAction
  <2> DEFINE a == healer.anomaly
  <2>1. /\ UNCHANGED request /\ a \in Anomalies
        /\ action' = [action EXCEPT ![a] = "pending"]
        /\ issued' = [issued EXCEPT ![a] = issued[a] + 1]
        /\ healer'.step = "execute" /\ healer'.anomaly = a
    BY <1>3, <1>t DEF IssueAction, Healing
  <2> HIDE DEF a
  <2>2. /\ action'[a] = "pending" /\ issued'[a] \in Nat \ {0}
        /\ \A b \in Anomalies : b # a => action'[b] = action[b] /\ issued'[b] = issued[b]
    BY <1>t, <2>1
  <2> QED
    BY <1>t, <2>1, <2>2 DEF ActionInv
<1>4. ASSUME NEW step \in {"complete", "fail"}, NEW result \in {"completed", "failed"},
             RecordAction(step, result)
      PROVE  ActionInv'
  <2> DEFINE a == healer.anomaly
  <2>1. /\ UNCHANGED <<request, issued>> /\ a \in Anomalies /\ action[a] # "absent"
        /\ action' = [action EXCEPT ![a] = result] /\ healer'.step = "idle"
    BY <1>4, <1>t DEF RecordAction, ActionInv, AtRest
  <2> HIDE DEF a
  <2>2. /\ action'[a] # "absent" /\ issued[a] # 0
        /\ \A b \in Anomalies : b # a => action'[b] = action[b]
    BY <1>t, <2>1 DEF ActionInv
  <2> QED
    BY <1>t, <2>1, <2>2 DEF ActionInv
<1>5. ASSUME NEW q \in Requests, CancelAction(q) PROVE ActionInv'
  <2> DEFINE a == request[q].anomaly
  <2>1. /\ UNCHANGED <<healer, issued>> /\ a \in Anomalies /\ action[a] # "absent"
        /\ action' = [action EXCEPT ![a] = "cancelled"]
        /\ request' = [request EXCEPT ![q] = NoRequest]
    BY <1>5, <1>t DEF CancelAction, ActionInv
  <2> HIDE DEF a
  <2>2. /\ action'[a] = "cancelled" /\ issued[a] # 0
        /\ \A b \in Anomalies : b # a => action'[b] = action[b]
    BY <1>t, <2>1 DEF ActionInv
  <2>3. \A p \in Requests : request'[p].op = "cancel" => request'[p] = request[p]
    BY <1>t, <2>1 DEF NoRequest
  <2> QED
    BY <1>t, <2>1, <2>2, <2>3 DEF ActionInv
<1>6. ASSUME NEW q \in Requests, NEW a \in Anomalies,
             \/ ReadAnomaly(q, "acknowledge", a)
             \/ ReadAnomaly(q, "resolve", a)
             \/ ReadAction(q, a)
      PROVE  ActionInv'
  <2>1. UNCHANGED <<action, issued, healer>>
    BY <1>6 DEF ReadAnomaly, ReadAction, effects
  <2>2. \A p \in Requests : request'[p].op = "cancel" =>
            request'[p] = request[p] \/ action[request'[p].anomaly] # "absent"
    BY <1>6, <1>t DEF ReadAnomaly, ReadAction
  <2> QED
    BY <2>1, <2>2, ActionFrame
<1>7. ASSUME NEW q \in Requests, NEW op, NEW st, WriteAnomaly(q, op, st) PROVE ActionInv'
  <2>1. UNCHANGED <<action, issued, healer>>
        /\ request' = [request EXCEPT ![q] = NoRequest]
    BY <1>7 DEF WriteAnomaly, effects
  <2>2. \A p \in Requests : request'[p].op = "cancel" => request'[p] = request[p]
    BY <1>t, <2>1 DEF NoRequest
  <2> QED
    BY <2>1, <2>2, ActionFrame
<1>8. CASE Restart
  <2>1. UNCHANGED <<action, issued>> /\ healer'.step = "idle"
        /\ \A q \in Requests : request'[q].op # "cancel"
    BY <1>8 DEF Restart, effects, AtRest, NoRequest
  <2> QED
    BY <2>1, ActionFrame
<1>9. ASSUME NEW n \in Nodes,
             (\E s \in Snapshots : OnHeartbeat(n, s)) \/ OnNodeOffline(n) \/ OnNodeOnline(n)
      PROVE  ActionInv'
  BY <1>1, <1>9 DEF OnHeartbeat, OnNodeOffline, OnNodeOnline, effects
<1>10. ASSUME NEW w \in Workers,
              \/ CheckRule(w) \/ Enqueue(w) \/ SetCooldown(w)
              \/ \E a \in Anomalies : PersistAnomaly(w, a)
       PROVE  ActionInv'
  BY <1>1, <1>10 DEF CheckRule, Enqueue, SetCooldown, PersistAnomaly, effects
<1>11. CASE Tick \/ UNCHANGED vars
  BY <1>1, <1>11 DEF Tick, effects, vars
<1> QED
  BY <1>2, <1>3, <1>4, <1>5, <1>6, <1>7, <1>8, <1>9, <1>10, <1>11 DEF Next, HealerStep

LEMMA ActionsHold == Spec => []ActionInv
<1>1. Init => ActionInv
  BY DEF Init, ActionInv, AtRest, NoRequest
<1> QED
  BY <1>1, TypesHold, ActionInductive, PTL DEF Spec

\* What the healer recorded is overwritten only by a cancellation that read the action
\* while it was pending.
THEOREM PipelineOnlyRacedIsCancelled == Spec => OnlyRacedIsCancelled
<1> DEFINE Raced(a) == \E q \in Requests :
                          request[q] = [op |-> "cancel", anomaly |-> a, late |-> FALSE]
           Step == \A a \in Anomalies :
                      action[a] \in {"completed", "failed"} /\ action'[a] # action[a] => Raced(a)
<1>1. ASSUME TypeInv, PlaceInv, ActionInv, [Next]_vars PROVE Step
  <2> SUFFICES ASSUME NEW a \in Anomalies, action[a] \in {"completed", "failed"},
                      action'[a] # action[a]
               PROVE  Raced(a)
    OBVIOUS
  <2>t. /\ action \in [Anomalies -> ActionStatuses \cup {"absent"}]
        /\ healer \in Healing /\ healer.step # "idle" => healer.anomaly \in Anomalies
        /\ request \in [Requests -> Call] /\ \A q \in Requests : ~request[q].late
    BY <1>1 DEF TypeInv, TableType, HandType, HealerHolds, CallsHold, Present
  <2>1. \/ IssueAction
        \/ RecordAction("complete", "completed") \/ RecordAction("fail", "failed")
        \/ \E q \in Requests : CancelAction(q)
    BY <1>1 DEF Next, HealerStep, OnHeartbeat, OnNodeOffline, OnNodeOnline, CheckRule, Enqueue,
                SetCooldown, PersistAnomaly, Take, Escalate, Execute, HealerRaises,
                ReadAnomaly, ReadAction, WriteAnomaly, Tick, Restart, vars, effects
  <2>2. ~IssueAction
    <3> SUFFICES ASSUME IssueAction PROVE FALSE
      OBVIOUS
    <3>1. healer.step = "issue" /\ action' = [action EXCEPT ![healer.anomaly] = "pending"]
      BY DEF IssueAction
    <3>2. action[healer.anomaly] = "absent"
      BY <1>1, <2>t, <3>1 DEF PlaceInv, ActionInv
    <3> QED
      BY <2>t, <3>1, <3>2
  <2>3. ASSUME NEW step \in {"complete", "fail"}, NEW result, RecordAction(step, result)
        PROVE  FALSE
    <3>1. action' = [action EXCEPT ![healer.anomaly] = result]
          /\ action[healer.anomaly] \in {"pending", "cancelled"}
      BY <1>1, <2>3 DEF RecordAction, ActionInv
    <3> QED
      BY <2>t, <3>1
  <2>4. PICK q \in Requests : CancelAction(q)
    BY <2>1, <2>2, <2>3
  <2>5. request[q].op = "cancel" /\ action' = [action EXCEPT ![request[q].anomaly] = "cancelled"]
    BY <2>4 DEF CancelAction
  <2>6. request[q].anomaly = a /\ request[q] \in Call /\ ~request[q].late
    BY <2>t, <2>5
  <2>7. request[q] = [op |-> "cancel", anomaly |-> a, late |-> FALSE]
    BY <2>5, <2>6 DEF Call
  <2> QED
    BY <2>7
<1>2. ASSUME TypeInv, PlaceInv, ActionInv, [Next]_vars PROVE [Step]_vars
  BY <1>1, <1>2
<1> QED
  BY <1>2, TypesHold, PlacesHold, ActionsHold, PTL DEF Spec, OnlyRacedIsCancelled

\* A resolved anomaly is reopened only by an acknowledgement that read its row before it
\* was resolved, or by the healer, which escalates without reading it.
THEOREM PipelineOnlyRacedIsReopened == Spec => OnlyRacedIsReopened
<1> DEFINE Raced(a) ==
             \/ healer = [step |-> "escalate", anomaly |-> a]
             \/ \E q \in Requests :
                   request[q] = [op |-> "acknowledge", anomaly |-> a, late |-> FALSE]
           Step == \A a \in Anomalies :
                      rows[a].status = "resolved" /\ rows'[a].status # "resolved" => Raced(a)
<1>1. ASSUME TypeInv, [Next]_vars PROVE Step
  <2> SUFFICES ASSUME NEW a \in Anomalies, rows[a].status = "resolved",
                      rows'[a].status # "resolved"
               PROVE  Raced(a)
    OBVIOUS
  <2>t. /\ TableType /\ rows \in [Anomalies -> Row \cup {Absent}] /\ healer \in Healing
        /\ healer.step # "idle" => Present(healer.anomaly)
        /\ request \in [Requests -> Call]
        /\ \A q \in Requests :
              /\ ~request[q].late
              /\ request[q].op \in {"acknowledge", "resolve"} => Present(request[q].anomaly)
    BY <1>1 DEF TypeInv, TableType, HandType, HealerHolds, CallsHold
  <2>1. \/ Escalate
        \/ \E w \in Workers : SetCooldown(w) \/ \E b \in Anomalies : PersistAnomaly(w, b)
        \/ \E q \in Requests : \/ WriteAnomaly(q, "acknowledge", "acknowledged")
                               \/ WriteAnomaly(q, "resolve", "resolved")
    BY <1>1 DEF Next, HealerStep, OnHeartbeat, OnNodeOffline, OnNodeOnline, CheckRule, Enqueue,
                Take, IssueAction, Execute, RecordAction, HealerRaises,
                ReadAnomaly, ReadAction, CancelAction, Tick, Restart, vars
  <2>w. ASSUME NEW b, NEW st, rows' = [rows EXCEPT ![b].status = st], Present(b)
        PROVE  a = b /\ st # "resolved"
    BY <2>t, <2>w DEF Present, Row
  <2>2. CASE Escalate
    <3>1. healer.step = "escalate" /\ Present(healer.anomaly)
          /\ rows' = [rows EXCEPT ![healer.anomaly].status = "escalated"]
      BY <2>2, <2>t DEF Escalate, WithStatus
    <3>2. healer.anomaly = a
      BY <2>w, <3>1
    <3>3. healer = [step |-> "escalate", anomaly |-> a]
      BY <2>t, <3>1, <3>2 DEF Healing
    <3> QED
      BY <3>3
  <2>3. ASSUME NEW w \in Workers, SetCooldown(w) PROVE FALSE
    <3>1. rows' = [rows EXCEPT ![task[w].anomaly].cooled = TRUE] /\ Present(task[w].anomaly)
      BY <1>1, <2>3, HandFacts DEF SetCooldown
    <3> QED
      BY <2>t, <3>1 DEF Present, Row
  <2>4. ASSUME NEW w \in Workers, NEW b \in Anomalies, PersistAnomaly(w, b) PROVE FALSE
    <3>1. rows[b].status = "absent" /\ \A c \in Anomalies : c # b => rows'[c] = rows[c]
      BY <2>4, <2>t DEF PersistAnomaly
    <3> QED
      BY <3>1
  <2>5. ASSUME NEW q \in Requests, NEW op \in {"acknowledge", "resolve"}, NEW st,
               WriteAnomaly(q, op, st)
        PROVE  request[q].op = op /\ request[q].anomaly = a /\ st # "resolved"
    <3>1. request[q].op = op /\ rows' = [rows EXCEPT ![request[q].anomaly].status = st]
      BY <2>5 DEF WriteAnomaly, WithStatus
    <3> QED
      BY <2>t, <2>w, <3>1
  <2>6. CASE \E q \in Requests : \/ WriteAnomaly(q, "acknowledge", "acknowledged")
                                 \/ WriteAnomaly(q, "resolve", "resolved")
    <3>1. PICK q \in Requests : WriteAnomaly(q, "acknowledge", "acknowledged")
      BY <2>5, <2>6
    <3>2. request[q].op = "acknowledge" /\ request[q].anomaly = a
      BY <2>5, <3>1
    <3>3. request[q] = [op |-> "acknowledge", anomaly |-> a, late |-> FALSE]
      BY <2>t, <3>2 DEF Call
    <3> QED
      BY <3>3
  <2> QED
    BY <2>1, <2>2, <2>3, <2>4, <2>6
<1>2. ASSUME TypeInv, [Next]_vars PROVE [Step]_vars
  BY <1>1, <1>2
<1> QED
  BY <1>2, TypesHold, PTL DEF Spec, OnlyRacedIsReopened

-----------------------------------------------------------------------------
(* The cooldown                                                             *)

\* What the types say of times.
LEMMA TimeFacts ==
  ASSUME TypeInv
  PROVE  /\ clock \in Nat
         /\ \A s \in Scopes : until[s] \in Nat /\ Suppress[s[1]] \in Nat
         /\ \A r \in Rules, n \in Nodes : <<r, n>> \in Scopes /\ Suppress[r] \in Nat
         /\ \A a \in Anomalies :
               /\ rows[a].at \in Nat
               /\ rows[a].cooled => Present(a)
               /\ Present(a) => rows[a].rule \in Rules /\ rows[a].node \in Nodes
<1>1. \A s \in Scopes : s[1] \in Rules
  BY DEF Scopes
<1>2. \A r \in Rules, n \in Nodes : <<r, n>> \in Scopes
  BY DEF Scopes
<1>3. \A a \in Anomalies : \/ rows[a] \in Row
                           \/ rows[a].at = 0 /\ ~rows[a].cooled /\ rows[a] \notin Row
  BY HandFacts DEF Absent
<1>4. \A x \in Row : x.at \in Nat /\ x.rule \in Rules /\ x.node \in Nodes
  BY ConstantTypes DEF Row
<1> QED
  BY <1>1, <1>2, <1>3, <1>4, ConstantTypes DEF TypeInv, TableType, Present

\* No rule is checked by both callers of the detector.
LEMMA OwnersDiffer ==
  ASSUME TypeInv, NEW v \in Workers, NEW w \in Workers, v # w,
         task[v].step # "idle", task[w].step # "idle"
  PROVE  /\ task[v].rule # task[w].rule
         /\ task[v].step \in {"enqueue", "cooldown"} /\ task[w].step \in {"enqueue", "cooldown"}
            => task[v].anomaly # task[w].anomaly
<1>1. HandType
  BY DEF TypeInv
<1>2. task[v].rule \in Own(v) /\ task[w].rule \in Own(w)
  BY <1>1, TaskFacts DEF Detecting
<1>3. task[v].rule # task[w].rule
  BY <1>2 DEF Own, Workers
<1> QED
  BY <1>3, HandFacts

\* A step that writes no cooldown.
LEMMA CooldownFrame ==
  ASSUME TypeInv, CooldownInv, CooldownSeparates,
         UNCHANGED until, clock' \in Nat, clock <= clock',
         \A a \in Anomalies :
            /\ rows'[a].at = rows[a].at /\ rows'[a].cooled = rows[a].cooled
            /\ Present(a) => rows'[a].rule = rows[a].rule /\ rows'[a].node = rows[a].node,
         \A w \in Workers :
            /\ task'[w].step = "persist" => task'[w] = task[w]
            /\ task'[w].step \in {"enqueue", "cooldown"} =>
                  /\ task[w].step \in {"enqueue", "cooldown"}
                  /\ task'[w].anomaly = task[w].anomaly
                  /\ task'[w].rule = task[w].rule /\ task'[w].node = task[w].node
  PROVE  CooldownInv' /\ CooldownSeparates'
<1>t. /\ clock \in Nat
      /\ \A s \in Scopes : until[s] \in Nat /\ Suppress[s[1]] \in Nat
      /\ \A a \in Anomalies : rows[a].at \in Nat /\ (rows[a].cooled => Present(a))
  BY TimeFacts
<1>1. \A s \in Scopes : until'[s] <= clock' + Suppress[s[1]]
  <2> SUFFICES ASSUME NEW s \in Scopes PROVE until'[s] <= clock' + Suppress[s[1]]
    OBVIOUS
  <2>1. until[s] <= clock + Suppress[s[1]]
    BY DEF CooldownInv
  <2> QED
    BY <1>t, <2>1
<1>2. \A a \in Anomalies : rows'[a].cooled =>
          rows'[a].at + Suppress[rows'[a].rule] <= until'[<<rows'[a].rule, rows'[a].node>>]
  BY TimeFacts DEF CooldownInv
<1>3. \A a \in Anomalies : rows'[a].at <= clock'
  <2> SUFFICES ASSUME NEW a \in Anomalies PROVE rows'[a].at <= clock'
    OBVIOUS
  <2>1. rows[a].at <= clock
    BY DEF CooldownInv
  <2> QED
    BY <1>t, <2>1
<1>4. ASSUME NEW w \in Workers, task'[w].step = "persist"
      PROVE  until'[<<task'[w].rule, task'[w].node>>] <= clock'
  <2>1. task'[w] = task[w] /\ until[<<task[w].rule, task[w].node>>] <= clock
    BY <1>4 DEF CooldownInv
  <2>2. <<task[w].rule, task[w].node>> \in Scopes
    BY <1>4, <2>1, TaskFacts DEF TypeInv
  <2> QED
    BY <1>t, <2>1, <2>2
<1>5. ASSUME NEW w \in Workers, task'[w].step \in {"enqueue", "cooldown"}
      PROVE  /\ ~rows'[task'[w].anomaly].cooled
             /\ until'[<<task'[w].rule, task'[w].node>>] <= rows'[task'[w].anomaly].at
  <2>1. task[w].anomaly \in Anomalies
    BY <1>5, HandFacts DEF Present
  <2> QED
    BY <1>5, <2>1 DEF CooldownInv
<1>6. CooldownSeparates'
  BY TimeFacts DEF CooldownSeparates, SameScope
<1> QED
  BY <1>1, <1>2, <1>3, <1>4, <1>5, <1>6 DEF CooldownInv

\* The write of a cooldown: the anomaly is younger than what the row said before, and
\* nobody else is at work on that row.
LEMMA SetCooldownKeepsCooldowns ==
  ASSUME TypeInv, CooldownInv, CooldownSeparates, NEW w \in Workers, SetCooldown(w)
  PROVE  CooldownInv' /\ CooldownSeparates'
<1> DEFINE a == task[w].anomaly
           r == task[w].rule
           n == task[w].node
<1>t. /\ TableType /\ HandType /\ clock \in Nat
      /\ until \in [Scopes -> Nat] /\ task \in [Workers -> Busy \cup {Idle}]
  BY TimeFacts DEF TypeInv, TableType, HandType, TasksHold
<1>1. /\ UNCHANGED clock /\ task[w].step = "cooldown"
      /\ until' = [until EXCEPT ![<<r, n>>] = clock + Suppress[r]]
      /\ rows' = [rows EXCEPT ![a].cooled = TRUE]
      /\ task' = [task EXCEPT ![w] = Continue(task[w])]
  BY DEF SetCooldown, RuleStateAfter
<1>2. /\ Present(a) /\ a \in Anomalies /\ rows[a].rule = r /\ rows[a].node = n
      /\ <<r, n>> \in Scopes /\ r \in Rules /\ Suppress[r] \in Nat
      /\ ~rows[a].cooled /\ until[<<r, n>>] <= rows[a].at /\ rows[a].at <= clock
  <2>1. Present(a) /\ a \in Anomalies /\ rows[a].rule = r /\ rows[a].node = n
    BY <1>1, HandFacts DEF Present
  <2>2. r \in Rules /\ n \in Nodes
    BY <1>1, <1>t, TaskFacts
  <2> QED
    BY <1>1, <2>1, <2>2, TimeFacts DEF CooldownInv
<1>3. \A v \in Workers : v # w /\ task[v].step # "idle" =>
         /\ <<task[v].rule, task[v].node>> \in Scopes /\ <<task[v].rule, task[v].node>> # <<r, n>>
         /\ task[v].step \in {"enqueue", "cooldown"} =>
               task[v].anomaly # a /\ task[v].anomaly \in Anomalies
  BY <1>1, <1>t, OwnersDiffer, TaskFacts, HandFacts DEF Present
<1>4. task'[w].step \in {"idle", "check"} /\ \A v \in Workers : v # w => task'[v] = task[v]
  BY <1>1, <1>t, StartSteps DEF Continue
<1> HIDE DEF a, r, n
<1>5. /\ until'[<<r, n>>] = clock + Suppress[r]
      /\ \A s \in Scopes : s # <<r, n>> => until'[s] = until[s]
  BY <1>1, <1>2, <1>t
<1>6. rows'[a].cooled /\ \A b \in Anomalies :
         /\ rows'[b].at = rows[b].at
         /\ Present(b) => rows'[b].rule = rows[b].rule /\ rows'[b].node = rows[b].node
         /\ b # a => rows'[b] = rows[b]
  <2>1. rows'[a].cooled
    BY <1>1, <1>2, <1>t DEF TableType, Present, Row
  <2> QED
    BY <1>1, <1>2, <1>t, <2>1, RowWritten, Statuses DEF RowsKept
<1>7. \A s \in Scopes : /\ until'[s] <= clock' + Suppress[s[1]]
                        /\ until[s] <= until'[s]
                        /\ until'[s] \in Nat /\ until[s] \in Nat
  <2> SUFFICES ASSUME NEW s \in Scopes
               PROVE  /\ until'[s] <= clock' + Suppress[s[1]]
                      /\ until[s] <= until'[s]
                      /\ until'[s] \in Nat /\ until[s] \in Nat
    OBVIOUS
  <2>1. until[s] <= clock + Suppress[s[1]] /\ until[s] \in Nat /\ Suppress[s[1]] \in Nat
    BY TimeFacts DEF CooldownInv
  <2>2. CASE s = <<r, n>>
    BY <1>1, <1>5, <1>t, <2>1, <2>2
  <2>3. CASE s # <<r, n>>
    BY <1>1, <1>5, <2>1, <2>3
  <2> QED
    BY <2>2, <2>3
<1>8. ASSUME NEW b \in Anomalies, rows'[b].cooled
      PROVE  rows'[b].at + Suppress[rows'[b].rule] <= until'[<<rows'[b].rule, rows'[b].node>>]
  <2>1. CASE b = a
    BY <1>2, <1>5, <1>6, <1>t, <2>1, TimeFacts
  <2>2. CASE b # a
    <3>1. rows'[b] = rows[b] /\ rows[b].cooled
      BY <1>6, <1>8, <2>2
    <3>2. /\ rows[b].at + Suppress[rows[b].rule] <= until[<<rows[b].rule, rows[b].node>>]
          /\ <<rows[b].rule, rows[b].node>> \in Scopes
          /\ rows[b].at \in Nat /\ Suppress[rows[b].rule] \in Nat
      BY <3>1, TimeFacts DEF CooldownInv
    <3> QED
      BY <1>7, <3>1, <3>2
  <2> QED
    BY <2>1, <2>2
<1>9. \A b \in Anomalies : rows'[b].at <= clock'
  BY <1>1, <1>6 DEF CooldownInv
<1>10. ASSUME NEW v \in Workers
       PROVE  LET t == task'[v] IN
              /\ t.step = "persist" => until'[<<t.rule, t.node>>] <= clock'
              /\ t.step \in {"enqueue", "cooldown"} =>
                    ~rows'[t.anomaly].cooled /\ until'[<<t.rule, t.node>>] <= rows'[t.anomaly].at
  <2>1. CASE v = w
    BY <1>4, <2>1
  <2>2. CASE v # w
    <3>1. task'[v] = task[v]
      BY <1>4, <2>2
    <3>2. CASE task[v].step = "persist"
      BY <1>1, <1>3, <1>5, <2>2, <3>1, <3>2 DEF CooldownInv
    <3>3. CASE task[v].step \in {"enqueue", "cooldown"}
      BY <1>3, <1>5, <1>6, <2>2, <3>1, <3>3 DEF CooldownInv
    <3> QED
      BY <3>1, <3>2, <3>3
  <2> QED
    BY <2>1, <2>2
<1>11. CooldownInv'
  BY <1>7, <1>8, <1>9, <1>10 DEF CooldownInv
<1>12. ASSUME NEW b \in Anomalies, b # a, rows[b].cooled, rows[b].rule = r, rows[b].node = n
       PROVE  rows'[b].at + Suppress[r] <= rows'[a].at
  <2>1. rows[b].at + Suppress[r] <= until[<<r, n>>]
    BY <1>12 DEF CooldownInv
  <2>2. rows[b].at \in Nat /\ rows[a].at \in Nat /\ until[<<r, n>>] \in Nat
    BY <1>2, <1>7, TimeFacts
  <2> QED
    BY <1>2, <1>6, <2>1, <2>2
<1>13. CooldownSeparates'
  <2> SUFFICES ASSUME NEW b \in Anomalies, NEW c \in Anomalies, b # c,
                      rows'[b].cooled, rows'[c].cooled,
                      rows'[b].rule = rows'[c].rule, rows'[b].node = rows'[c].node
               PROVE  \/ rows'[b].at + Suppress[rows'[b].rule] <= rows'[c].at
                      \/ rows'[c].at + Suppress[rows'[c].rule] <= rows'[b].at
    BY DEF CooldownSeparates, SameScope
  <2>1. CASE b = a
    BY <1>2, <1>6, <1>12, <2>1
  <2>2. CASE c = a
    BY <1>2, <1>6, <1>12, <2>2
  <2>3. CASE b # a /\ c # a
    BY <1>6, <2>3 DEF CooldownSeparates, SameScope
  <2> QED
    BY <2>1, <2>2, <2>3
<1> QED
  BY <1>11, <1>13

\* A new row: the rule was not suppressed when it was checked, nor is it now.
LEMMA PersistKeepsCooldowns ==
  ASSUME TypeInv, CooldownInv, CooldownSeparates,
         NEW w \in Workers, NEW a \in Anomalies, PersistAnomaly(w, a)
  PROVE  CooldownInv' /\ CooldownSeparates'
<1> DEFINE t == [task[w] EXCEPT !.step = "enqueue", !.anomaly = a]
           x == [rule |-> task[w].rule, node |-> task[w].node, at |-> clock,
                 status |-> "active", cooled |-> FALSE]
<1>t. /\ TableType /\ HandType /\ clock \in Nat
      /\ task \in [Workers -> Busy \cup {Idle}]
  BY TimeFacts DEF TypeInv, HandType, TasksHold
<1>1. /\ UNCHANGED <<clock, until>> /\ rows[a].status = "absent"
      /\ rows' = [rows EXCEPT ![a] = x] /\ task' = [task EXCEPT ![w] = t]
      /\ task[w].step = "persist"
  BY DEF PersistAnomaly
<1>2. until[<<task[w].rule, task[w].node>>] <= clock
  BY <1>1 DEF CooldownInv
<1>3. /\ t.step = "enqueue" /\ t.anomaly = a /\ t.rule = task[w].rule /\ t.node = task[w].node
      /\ x.at = clock /\ x.cooled = FALSE
  <2>1. task[w] \in Busy
    BY <1>1, <1>t DEF Idle
  <2> QED
    BY <2>1 DEF Busy
<1> HIDE DEF t, x
<1>4. /\ task'[w] = t /\ \A v \in Workers : v # w => task'[v] = task[v]
      /\ rows'[a] = x /\ \A b \in Anomalies : b # a => rows'[b] = rows[b]
  BY <1>1, <1>t DEF TableType
<1>5. ~Present(a)
  BY <1>1, <1>t, PresentRows
<1>6. \A b \in Anomalies : rows'[b].cooled => b # a /\ rows'[b] = rows[b]
  BY <1>3, <1>4
<1>7. ASSUME NEW v \in Workers
      PROVE  LET u == task'[v] IN
             /\ u.step = "persist" => until'[<<u.rule, u.node>>] <= clock'
             /\ u.step \in {"enqueue", "cooldown"} =>
                   ~rows'[u.anomaly].cooled /\ until'[<<u.rule, u.node>>] <= rows'[u.anomaly].at
  <2>1. CASE v = w
    BY <1>1, <1>2, <1>3, <1>4, <2>1
  <2>2. CASE v # w
    <3>1. task[v].step \in {"enqueue", "cooldown"} =>
             task[v].anomaly # a /\ task[v].anomaly \in Anomalies
      BY <1>5, HandFacts DEF Present
    <3> QED
      BY <1>1, <1>4, <2>2, <3>1 DEF CooldownInv
  <2> QED
    BY <2>1, <2>2
<1>8. \A b \in Anomalies : rows'[b].at <= clock'
  BY <1>1, <1>3, <1>4, <1>t DEF CooldownInv
<1>9. CooldownInv'
  BY <1>1, <1>6, <1>7, <1>8 DEF CooldownInv
<1>10. CooldownSeparates'
  BY <1>6 DEF CooldownSeparates, SameScope
<1> QED
  BY <1>9, <1>10

\* Every step keeps the cooldowns apart.
LEMMA CooldownInductive ==
  TypeInv /\ CooldownInv /\ CooldownSeparates /\ [Next]_vars => CooldownInv' /\ CooldownSeparates'
<1> SUFFICES ASSUME TypeInv, CooldownInv, CooldownSeparates, [Next]_vars
             PROVE  CooldownInv' /\ CooldownSeparates'
  OBVIOUS
<1>t. /\ TableType /\ HandType /\ clock \in Nat
      /\ healer.step # "idle" => Present(healer.anomaly)
      /\ task \in [Workers -> Busy \cup {Idle}]
      /\ \A q \in Requests : request[q].op \in {"acknowledge", "resolve"}
                             => Present(request[q].anomaly)
  BY TimeFacts, HandFacts DEF TypeInv, HandType, TasksHold, CallsHold
<1>f. ASSUME UNCHANGED <<rows, until, task>>, clock' \in Nat, clock <= clock'
      PROVE  CooldownInv' /\ CooldownSeparates'
  BY <1>f, CooldownFrame
<1>w. ASSUME UNCHANGED <<clock, until, task>>, NEW a, Present(a), NEW st \in AnomalyStatuses,
             rows' = [rows EXCEPT ![a].status = st]
      PROVE  CooldownInv' /\ CooldownSeparates'
  <2>1. \A b \in Anomalies : rows'[b].cooled = rows[b].cooled
    BY <1>t, <1>w DEF TableType, Present, Row
  <2>2. /\ \A b \in Anomalies : rows'[b].at = rows[b].at
        /\ \A b : Present(b) => rows'[b].rule = rows[b].rule /\ rows'[b].node = rows[b].node
    BY <1>t, <1>w, RowWritten DEF RowsKept
  <2> QED
    BY <1>t, <1>w, <2>1, <2>2, CooldownFrame
<1>1. ASSUME NEW n \in Nodes,
             (\E s \in Snapshots : OnHeartbeat(n, s)) \/ OnNodeOffline(n) \/ OnNodeOnline(n)
      PROVE  CooldownInv' /\ CooldownSeparates'
  <2>1. UNCHANGED <<clock, rows, until>>
    BY <1>1 DEF OnHeartbeat, OnNodeOffline, OnNodeOnline
  <2>2. \/ task' = task
        \/ \E w \in Workers : \E rs : task' = [task EXCEPT ![w] = StartCheck(rs, n)]
    BY <1>1 DEF OnHeartbeat, OnNodeOffline, OnNodeOnline, Workers
  <2>3. \A w \in Workers : task'[w] = task[w] \/ task'[w].step \in {"idle", "check"}
    BY <1>t, <2>2, StartSteps
  <2> QED
    BY <1>t, <2>1, <2>3, CooldownFrame
<1>2. ASSUME NEW w \in Workers, CheckRule(w) PROVE CooldownInv' /\ CooldownSeparates'
  <2>1. UNCHANGED <<clock, rows, until>> /\ task[w].step = "check"
    BY <1>2 DEF CheckRule
  <2>2. CASE task' = [task EXCEPT ![w] = Continue(task[w])]
    <3>1. \A v \in Workers : task'[v] = task[v] \/ task'[v].step \in {"idle", "check"}
      BY <1>t, <2>2, StartSteps DEF Continue
    <3> QED
      BY <1>t, <2>1, <3>1, CooldownFrame
  <2>3. CASE /\ ~IsSuppressed(task[w].rule, task[w].node)
             /\ task' = [task EXCEPT ![w] = [task[w] EXCEPT !.step = "persist"]]
    <3> DEFINE t == [task[w] EXCEPT !.step = "persist"]
    <3>1. t.step = "persist" /\ t.rule = task[w].rule /\ t.node = task[w].node
      <4>1. task[w] \in Busy
        BY <1>t, <2>1 DEF Idle
      <4> QED
        BY <4>1 DEF Busy
    <3>2. until[<<task[w].rule, task[w].node>>] <= clock
      <4>1. <<task[w].rule, task[w].node>> \in Scopes
        BY <1>t, <2>1, TaskFacts
      <4> QED
        BY <1>t, <2>3, <4>1, TimeFacts DEF IsSuppressed
    <3> HIDE DEF t
    <3>3. task'[w] = t /\ \A v \in Workers : v # w => task'[v] = task[v]
      BY <1>t, <2>3 DEF t
    <3>4. CooldownInv'
      BY <2>1, <3>1, <3>2, <3>3 DEF CooldownInv
    <3>5. CooldownSeparates'
      BY <2>1 DEF CooldownSeparates, SameScope
    <3> QED
      BY <3>4, <3>5
  <2> QED
    BY <1>2, <2>2, <2>3 DEF CheckRule
<1>3. ASSUME NEW w \in Workers, Enqueue(w) PROVE CooldownInv' /\ CooldownSeparates'
  <2> DEFINE t == [task[w] EXCEPT !.step = "cooldown"]
  <2>1. UNCHANGED <<clock, rows, until>> /\ task[w].step = "enqueue"
        /\ task' = [task EXCEPT ![w] = t]
    BY <1>3 DEF Enqueue
  <2>2. /\ t.step = "cooldown" /\ t.rule = task[w].rule /\ t.node = task[w].node
        /\ t.anomaly = task[w].anomaly
    <3>1. task[w] \in Busy
      BY <1>t, <2>1 DEF Idle
    <3> QED
      BY <3>1 DEF Busy
  <2> HIDE DEF t
  <2>3. task'[w] = t /\ \A v \in Workers : v # w => task'[v] = task[v]
    BY <1>t, <2>1
  <2> QED
    BY <1>t, <2>1, <2>2, <2>3, CooldownFrame
<1>4. CASE Take \/ IssueAction \/ Execute \/ HealerRaises
           \/ RecordAction("complete", "completed") \/ RecordAction("fail", "failed")
  BY <1>f, <1>t, <1>4 DEF Take, IssueAction, Execute, HealerRaises, RecordAction, detection
<1>5. CASE Escalate
  <2>1. UNCHANGED <<clock, until, task>> /\ Present(healer.anomaly)
        /\ rows' = [rows EXCEPT ![healer.anomaly].status = "escalated"]
    BY <1>t, <1>5 DEF Escalate, WithStatus, detection
  <2> QED
    BY <1>w, <2>1, Statuses
<1>6. ASSUME NEW q \in Requests, NEW op \in {"acknowledge", "resolve"},
             NEW st \in {"acknowledged", "resolved"}, WriteAnomaly(q, op, st)
      PROVE  CooldownInv' /\ CooldownSeparates'
  <2>1. UNCHANGED <<clock, until, task>> /\ Present(request[q].anomaly)
        /\ rows' = [rows EXCEPT ![request[q].anomaly].status = st]
    BY <1>t, <1>6 DEF WriteAnomaly, WithStatus, detection
  <2> QED
    BY <1>w, <2>1, Statuses
<1>7. ASSUME NEW q \in Requests,
             \/ \E a \in Anomalies : \/ ReadAnomaly(q, "acknowledge", a)
                                     \/ ReadAnomaly(q, "resolve", a)
                                     \/ ReadAction(q, a)
             \/ CancelAction(q)
      PROVE  CooldownInv' /\ CooldownSeparates'
  BY <1>f, <1>t, <1>7 DEF ReadAnomaly, ReadAction, CancelAction, detection
<1>8. CASE Tick
  BY <1>f, <1>t, <1>8 DEF Tick, detection
<1>9. CASE Restart
  <2>1. UNCHANGED <<clock, rows, until>> /\ \A w \in Workers : task'[w].step = "idle"
    BY <1>9 DEF Restart, Idle
  <2> QED
    BY <1>t, <2>1, CooldownFrame
<1>10. CASE UNCHANGED vars
  BY <1>f, <1>t, <1>10 DEF vars
<1> QED
  BY <1>1, <1>2, <1>3, <1>4, <1>5, <1>6, <1>7, <1>8, <1>9, <1>10, SetCooldownKeepsCooldowns,
     PersistKeepsCooldowns DEF Next, HealerStep

\* Two anomalies of one rule and node whose cooldown was written are at least
\* suppress_for_sec apart, across restarts too.
THEOREM PipelineCooldownSeparates == Spec => []CooldownSeparates
<1>1. Init => CooldownInv /\ CooldownSeparates
  <2> SUFFICES ASSUME Init PROVE CooldownInv /\ CooldownSeparates
    OBVIOUS
  <2>1. /\ clock = 0 /\ \A a \in Anomalies : rows[a] = Absent
        /\ \A s \in Scopes : until[s] = 0
        /\ \A w \in Workers : task[w] = Idle
    BY DEF Init
  <2>2. \A s \in Scopes : s[1] \in Rules /\ Suppress[s[1]] \in Nat
    BY ConstantTypes DEF Scopes
  <2> QED
    BY <2>1, <2>2 DEF CooldownInv, CooldownSeparates, Absent, Idle
<1> QED
  BY <1>1, TypesHold, CooldownInductive, PTL DEF Spec

-----------------------------------------------------------------------------
(* Nothing is forgotten                                                     *)

\* The anomalies NothingForgotten is about, and where it looks for them.
Automatic(a) == /\ rows[a].status # "absent" /\ Reflex[rows[a].rule] # "none"
                /\ Level[rows[a].rule] <= AutoMax
Queued(a) == \E i \in 1..Len(queue) : queue[i] = a
Attended(a) ==
    \/ action[a] # "absent" \/ a \in dropped
    \/ healer.step = "issue" /\ healer.anomaly = a
    \/ Queued(a)
    \/ \E w \in Workers : task[w].step = "enqueue" /\ task[w].anomaly = a

LEMMA ForgottenMeans ==
  ASSUME TypeInv
  PROVE  NothingForgotten <=> (mishaps = 0 => \A a \in Anomalies : Automatic(a) => Attended(a))
<1>1. queue \in Seq(Anomalies)
  BY HandFacts
<1>2. DOMAIN queue = 1..Len(queue)
  BY <1>1
<1> QED
  BY <1>2 DEF NothingForgotten, Automatic, Attended, Queued

\* No step takes a row away or gives it another rule.
LEMMA AutomaticStays ==
  ASSUME TypeInv, [Next]_vars, NEW a \in Anomalies, Automatic(a)'
  PROVE  Automatic(a) \/ \E w \in Workers : PersistAnomaly(w, a)
<1>t. /\ TableType /\ rows \in [Anomalies -> Row \cup {Absent}]
      /\ healer.step # "idle" => Present(healer.anomaly)
      /\ \A w \in Workers : task[w].step = "cooldown" => Present(task[w].anomaly)
      /\ \A q \in Requests : request[q].op \in {"acknowledge", "resolve"}
                             => Present(request[q].anomaly)
  BY HandFacts DEF TypeInv, TableType, HandType, CallsHold
<1>k. ASSUME NEW b, Present(b), NEW st,
             \/ rows' = [rows EXCEPT ![b].status = st]
             \/ rows' = [rows EXCEPT ![b].cooled = TRUE]
      PROVE  Automatic(a)
  <2>1. CASE a = b
    <3>1. rows[a].status # "absent"
      BY <1>k, <1>t, <2>1, PresentRows DEF Present
    <3>2. rows'[a].rule = rows[a].rule
      BY <1>k, <1>t, <2>1 DEF Present, Row
    <3> QED
      BY <3>1, <3>2 DEF Automatic
  <2>2. CASE a # b
    <3>1. rows'[a] = rows[a]
      BY <1>k, <1>t, <2>2 DEF Present
    <3> QED
      BY <3>1 DEF Automatic
  <2> QED
    BY <2>1, <2>2
<1>1. CASE UNCHANGED rows
  BY <1>1 DEF Automatic
<1>2. CASE Escalate
  BY <1>2, <1>k, <1>t DEF Escalate, WithStatus
<1>3. ASSUME NEW w \in Workers, SetCooldown(w) PROVE Automatic(a)
  BY <1>3, <1>k, <1>t DEF SetCooldown
<1>4. ASSUME NEW q \in Requests, NEW op \in {"acknowledge", "resolve"}, NEW st,
             WriteAnomaly(q, op, st)
      PROVE  Automatic(a)
  <2>1. Present(request[q].anomaly) /\ rows' = [rows EXCEPT ![request[q].anomaly].status = st]
    BY <1>4, <1>t DEF WriteAnomaly, WithStatus
  <2> QED
    BY <1>k, <2>1
<1>5. ASSUME NEW w \in Workers, NEW b \in Anomalies, PersistAnomaly(w, b)
      PROVE  a = b \/ Automatic(a)
  <2>1. a # b => rows'[a] = rows[a]
    BY <1>5, <1>t DEF PersistAnomaly
  <2> QED
    BY <2>1 DEF Automatic
<1>6. \/ UNCHANGED rows \/ Escalate
      \/ \E w \in Workers : SetCooldown(w) \/ \E b \in Anomalies : PersistAnomaly(w, b)
      \/ \E q \in Requests : \/ WriteAnomaly(q, "acknowledge", "acknowledged")
                             \/ WriteAnomaly(q, "resolve", "resolved")
  BY DEF Next, HealerStep, OnHeartbeat, OnNodeOffline, OnNodeOnline, CheckRule, Enqueue,
         Take, IssueAction, Execute, RecordAction, HealerRaises,
         ReadAnomaly, ReadAction, CancelAction, Tick, Restart, vars
<1> QED
  BY <1>1, <1>2, <1>3, <1>4, <1>5, <1>6

\* While nothing goes wrong, whoever lets go of an anomaly has passed it on.
LEMMA AttendedStays ==
  ASSUME TypeInv, [Next]_vars, mishaps' = mishaps, NEW a \in Anomalies,
         Automatic(a), Attended(a)
  PROVE  Attended(a)'
<1>t. /\ TableType /\ action \in [Anomalies -> ActionStatuses \cup {"absent"}]
      /\ mishaps \in Nat /\ healer \in Healing /\ queue \in Seq(Anomalies)
      /\ task \in [Workers -> Busy \cup {Idle}]
  BY ConstantTypes DEF TypeInv, TableType, HandType, HealerHolds, QueueHolds, TasksHold
<1>a. action[a] # "absent" => action'[a] # "absent"
  BY <1>t DEF Next, HealerStep, OnHeartbeat, OnNodeOffline, OnNodeOnline, CheckRule, Enqueue,
              SetCooldown, PersistAnomaly, Take, Escalate, IssueAction, Execute, RecordAction,
              HealerRaises, ReadAnomaly, ReadAction, WriteAnomaly, CancelAction, Tick, Restart,
              vars, effects
<1>d. a \in dropped => a \in dropped'
  BY DEF Next, HealerStep, OnHeartbeat, OnNodeOffline, OnNodeOnline, CheckRule, Enqueue,
         SetCooldown, PersistAnomaly, Take, Escalate, IssueAction, Execute, RecordAction,
         HealerRaises, ReadAnomaly, ReadAction, WriteAnomaly, CancelAction, Tick, Restart,
         vars
<1>r. ~Restart /\ ~HealerRaises
  BY <1>t DEF Restart, HealerRaises
<1>1. ASSUME healer.step = "issue", healer.anomaly = a PROVE Attended(a)'
  <2>1. IssueAction \/ healer' = healer
    BY <1>1, <1>r DEF Next, HealerStep, OnHeartbeat, OnNodeOffline, OnNodeOnline, CheckRule,
       Enqueue, SetCooldown, PersistAnomaly, Take, Escalate, Execute, RecordAction,
       ReadAnomaly, ReadAction, WriteAnomaly, CancelAction, Tick, vars
  <2>2. IssueAction => action'[a] = "pending"
    BY <1>1, <1>t DEF IssueAction
  <2> QED
    BY <1>1, <2>1, <2>2 DEF Attended
<1>2. ASSUME Queued(a) PROVE Attended(a)'
  <2>1. PICK i \in 1..Len(queue) : queue[i] = a
    BY <1>2 DEF Queued
  <2>2. CASE Take
    <3>1. /\ queue' = Tail(queue) /\ Head(queue) = queue[1] /\ Len(queue') = Len(queue) - 1
          /\ \A j \in 1..Len(queue') : queue'[j] = queue[j + 1]
          /\ Len(queue) \in Nat
      BY <1>t, <2>2 DEF Take
    <3>2. CASE i = 1
      <4>1. healer' = [step |-> "issue", anomaly |-> a]
        <5>1. Head(queue) = a
          BY <2>1, <3>1, <3>2
        <5>2. Reflex[rows[a].rule] # "none" /\ ~(Level[rows[a].rule] > AutoMax)
          <6>1. Level[rows[a].rule] <= AutoMax /\ Reflex[rows[a].rule] # "none"
            BY DEF Automatic
          <6>2. Present(a)
            BY <1>t, PresentRows DEF Automatic
          <6>3. rows[a].rule \in Rules
            BY <6>2 DEF Present, Row
          <6>4. Level[rows[a].rule] \in 0..4 /\ AutoMax \in 0..4
            BY <6>3, CatalogueAssumption DEF CatalogueAssumption
          <6> QED
            BY <6>1, <6>4
        <5> QED
          BY <2>2, <5>1, <5>2 DEF Take
      <4> QED
        BY <4>1 DEF Attended
    <3>3. CASE i # 1
      <4>1. i - 1 \in 1..Len(queue') /\ queue'[i - 1] = queue[i]
        BY <2>1, <3>1, <3>3
      <4> QED
        BY <2>1, <4>1 DEF Attended, Queued
    <3> QED
      BY <3>2, <3>3
  <2>3. CASE ~Take
    <3>1. \/ queue' = queue
          \/ \E w \in Workers : queue' = Append(queue, task[w].anomaly) /\ task[w].step = "enqueue"
      BY <1>r, <2>3 DEF Next, HealerStep, OnHeartbeat, OnNodeOffline, OnNodeOnline, CheckRule,
         Enqueue, SetCooldown, PersistAnomaly, Escalate, IssueAction, Execute, RecordAction,
         ReadAnomaly, ReadAction, WriteAnomaly, CancelAction, Tick, vars
    <3>2. ASSUME NEW b \in Anomalies, queue' = Append(queue, b)
          PROVE  i \in 1..Len(queue') /\ queue'[i] = queue[i]
      BY <1>t, <2>1, <3>2
    <3>3. i \in 1..Len(queue') /\ queue'[i] = queue[i]
      BY <2>1, <3>1, <3>2, HandFacts DEF Present
    <3> QED
      BY <2>1, <3>3 DEF Attended, Queued
  <2> QED
    BY <2>2, <2>3
<1>3. ASSUME NEW w \in Workers, task[w].step = "enqueue", task[w].anomaly = a
      PROVE  Attended(a)'
  <2>1. CASE Enqueue(w)
    <3>1. CASE dropped' = dropped \cup {a}
      BY <3>1 DEF Attended
    <3>2. CASE queue' = Append(queue, a)
      <4>1. Len(queue) + 1 \in 1..Len(queue') /\ queue'[Len(queue) + 1] = a
        BY <1>t, <3>2
      <4> QED
        BY <4>1 DEF Attended, Queued
    <3> QED
      BY <1>3, <2>1, <3>1, <3>2 DEF Enqueue
  <2>2. CASE ~Enqueue(w)
    <3>1. ASSUME NEW v \in Workers, NEW t, task' = [task EXCEPT ![v] = t],
                 \/ task[v] = Idle \/ task[v].step # "enqueue" \/ Enqueue(v)
          PROVE  task'[w] = task[w]
      BY <1>3, <1>t, <2>2, <3>1 DEF Idle
    <3>2. \/ task' = task
          \/ \E v \in Workers : \E t : /\ task' = [task EXCEPT ![v] = t]
                                       /\ \/ task[v] = Idle \/ task[v].step # "enqueue"
                                          \/ Enqueue(v)
      <4>1. ASSUME NEW n \in Nodes, NEW s \in Snapshots,
                   OnHeartbeat(n, s)
            PROVE  \E v \in Workers : \E t : task' = [task EXCEPT ![v] = t] /\ task[v] = Idle
        BY <4>1 DEF OnHeartbeat, Workers
      <4>2. ASSUME NEW n \in Nodes, OnNodeOffline(n) \/ OnNodeOnline(n)
            PROVE  \/ task' = task
                   \/ \E v \in Workers : \E t : task' = [task EXCEPT ![v] = t] /\ task[v] = Idle
        BY <4>2 DEF OnNodeOffline, OnNodeOnline, Workers
      <4>3. ASSUME NEW v \in Workers,
                   \/ CheckRule(v) \/ Enqueue(v) \/ SetCooldown(v)
                   \/ \E b \in Anomalies : PersistAnomaly(v, b)
            PROVE  /\ \E t : task' = [task EXCEPT ![v] = t]
                   /\ task[v].step # "enqueue" \/ Enqueue(v)
        BY <4>3 DEF CheckRule, Enqueue, SetCooldown, PersistAnomaly
      <4>4. \/ \E n \in Nodes : \/ \E s \in Snapshots : OnHeartbeat(n, s)
                               \/ OnNodeOffline(n) \/ OnNodeOnline(n)
            \/ \E v \in Workers : \/ CheckRule(v) \/ Enqueue(v) \/ SetCooldown(v)
                                 \/ \E b \in Anomalies : PersistAnomaly(v, b)
            \/ task' = task
        BY <1>r DEF Next, HealerStep, Take, Escalate, IssueAction, Execute, RecordAction,
           ReadAnomaly, ReadAction, WriteAnomaly, CancelAction, Tick, vars, detection
      <4> QED
        BY <4>1, <4>2, <4>3, <4>4
    <3>3. task'[w] = task[w]
      BY <3>1, <3>2
    <3> QED
      BY <1>3, <3>3 DEF Attended
  <2> QED
    BY <2>1, <2>2
<1> QED
  BY <1>a, <1>d, <1>1, <1>2, <1>3 DEF Attended

\* While the process has not restarted and no statement has failed, every anomaly with
\* an automatic reflex has its action, was refused, or is in somebody's hands.
THEOREM PipelineNothingForgotten == Spec => []NothingForgotten
<1>1. Init => NothingForgotten
  <2> SUFFICES ASSUME Init PROVE NothingForgotten
    OBVIOUS
  <2>1. \A a \in Anomalies : rows[a].status = "absent"
    BY DEF Init, Absent
  <2> QED
    BY <2>1 DEF NothingForgotten
<1>2. TypeInv /\ NothingForgotten /\ [Next]_vars /\ TypeInv' => NothingForgotten'
  <2> SUFFICES ASSUME TypeInv, NothingForgotten, [Next]_vars, TypeInv' PROVE NothingForgotten'
    OBVIOUS
  <2>1. DOMAIN queue' = 1..Len(queue')
    BY DEF TypeInv, HandType, QueueHolds
  <2> SUFFICES ASSUME mishaps' = 0, NEW a \in Anomalies, Automatic(a)' PROVE Attended(a)'
    BY <2>1 DEF NothingForgotten, Automatic, Attended, Queued
  <2>2. mishaps' = mishaps
    <3>1. mishaps \in Nat
      BY ConstantTypes DEF TypeInv, TableType
    <3>2. mishaps' = mishaps \/ mishaps' = mishaps + 1
      BY DEF Next, HealerStep, OnHeartbeat, OnNodeOffline, OnNodeOnline, CheckRule, Enqueue,
             SetCooldown, PersistAnomaly, Take, Escalate, IssueAction, Execute, RecordAction,
             HealerRaises, ReadAnomaly, ReadAction, WriteAnomaly, CancelAction, Tick, Restart,
             vars
    <3> QED
      BY <3>1, <3>2
  <2>3. CASE Automatic(a)
    <3>1. Attended(a)
      BY <2>2, <2>3, ForgottenMeans
    <3> QED
      BY <2>2, <2>3, <3>1, AttendedStays
  <2>4. ASSUME NEW w \in Workers, PersistAnomaly(w, a) PROVE Attended(a)'
    <3> DEFINE t == [task[w] EXCEPT !.step = "enqueue", !.anomaly = a]
    <3>1. task \in [Workers -> Busy \cup {Idle}] /\ task[w].step = "persist"
          /\ task' = [task EXCEPT ![w] = t]
      BY <2>4 DEF PersistAnomaly, TypeInv, HandType, TasksHold
    <3>2. t.step = "enqueue" /\ t.anomaly = a
      <4>1. task[w] \in Busy
        BY <3>1 DEF Idle
      <4> QED
        BY <4>1 DEF Busy
    <3> HIDE DEF t
    <3>3. task'[w] = t
      BY <3>1
    <3> QED
      BY <3>2, <3>3 DEF Attended
  <2> QED
    BY <2>3, <2>4, AutomaticStays
<1> QED
  BY <1>1, <1>2, TypesHold, PTL DEF Spec
=============================================================================
