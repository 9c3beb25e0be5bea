--------------------------- MODULE FleetHealth ---------------------------
(***************************************************************************)
(* Health scores and daily summaries: the summary service aggregates the   *)
(* heartbeats of yesterday and today for one node after the other and      *)
(* scores it, the API scores nodes and the fleet meanwhile, heartbeats     *)
(* come and are trimmed.  Scores are in thousandths of a point, rounded    *)
(* down.                                                                   *)
(***************************************************************************)
EXTENDS Integers, Sequences, FiniteSets

CONSTANTS
    Nodes,
    Profile,        \* Profile[n]: [ota, firmware, uid, hardware], what the row says
    Beats,          \* heartbeats: [queue, rssi], rssi as a distance below 0
    Unknown,        \* an rssi the node did not send
    FirstSeen,      \* FirstSeen[n]: last_seen before the first heartbeat
    Never, Garbled, \* a last_seen that is NULL, or no timestamp
    None,
    OfflineAfter,   \* offline_after_sec
    DayLength,
    KeepBeats,      \* rows per node the trim trigger leaves
    RecentLimit,    \* heartbeats a score reads
    AnomalyLimit,   \* active anomalies a score reads
    FewBeats,       \* fewer are irregular: 3
    QueueWindow,    \* the five of them whose queue and signal count
    MaxClock,
    Anomalies,      \* anomalies that may be raised: [node, category, rank], the rank
                    \* being their place among those of one second in a query
    MaxBeats,
    MaxNews         \* anomalies and changes of a status

Categories == {"reliability", "connectivity", "performance", "security"}
Statuses == {"online", "degraded", "offline", "retired"}

ASSUME BoundsAssumption ==
    /\ OfflineAfter \in Nat \ {0} /\ DayLength \in Nat \ {0} /\ KeepBeats \in Nat \ {0}
    /\ RecentLimit \in Nat \ {0} /\ AnomalyLimit \in Nat /\ FewBeats \in Nat /\ QueueWindow \in Nat \ {0}
    /\ {MaxClock, MaxBeats, MaxNews} \subseteq Nat
    /\ Beats \subseteq [queue : Int, rssi : Int \cup {Unknown}]
    /\ FirstSeen \in [Nodes -> 0..MaxClock \cup {Never, Garbled}]
    /\ Anomalies \subseteq [node : Nodes, category : Categories, rank : Nat]
    /\ \A a, b \in Anomalies : a.rank = b.rank => a = b

VARIABLES
    clock,
    node,       \* node[n]: [status, seen] of the nodes table
    beats,      \* beats[n]: the heartbeats rows, oldest first
    active,     \* the active anomalies: [node, category, rank, at]
    summary,    \* summary[n, d]: heartbeat_daily_summary
    agg,        \* run_daily_aggregation
    heard, news

tables == <<node, beats, active, heard, news>>
fleetVars == <<clock, tables, summary, agg>>

DayOf(t) == t \div DayLength
Days == 0..DayOf(MaxClock)
Resting == [step |-> "idle", todo |-> {}, node |-> None, day |-> 0, today |-> 0, record |-> None]

FleetInit ==
    /\ clock = 0
    /\ node = [n \in Nodes |-> [status |-> "online", seen |-> FirstSeen[n]]]
    /\ beats = [n \in Nodes |-> <<>>]
    /\ active = {}
    /\ summary = [s \in Nodes \X Days |-> None]
    /\ agg = Resting
    /\ heard = 0 /\ news = 0

-----------------------------------------------------------------------------
(* The five scores of a node.                                              *)

\* The best score, a hundred points.
Full == 100000

AtMost(x, y) == IF x < y THEN x ELSE y
Points(x) == IF x < 0 THEN 0 ELSE AtMost(Full, x)     \* max(0, min(100, x))
Cost(b, x) == IF b THEN x ELSE 0
Newest(s, k) == SubSeq(s, IF Len(s) > k THEN Len(s) - k + 1 ELSE 1, Len(s))
\* The sum and the mean of the elements of s at the indices in is.
Total(s, is) ==
    LET sum[i \in 0..Len(s)] ==
            IF i = 0 THEN 0 ELSE sum[i - 1] + (IF i \in is THEN s[i] ELSE 0)
    IN sum[Len(s)]
Average(s, is) == (1000 * Total(s, is)) \div Cardinality(is)

ReliabilityScore(hb, open, st) ==
    IF hb = <<>> THEN 0
    ELSE Points(Full - Cost(Len(hb) < FewBeats, 30000)
                - AtMost(40000, 15000 * (open["reliability"] + open["connectivity"]))
                - Cost(st = "offline", 25000) - Cost(st = "degraded", 10000))

\* What the depth of the queue costs.
QueuePenalty(recent) ==
    LET avg == Average([i \in DOMAIN recent |-> recent[i].queue], DOMAIN recent)
    IN Cost(avg > 10000, AtMost(30000, 2 * (avg - 10000)))

\* What a weak signal costs, over the heartbeats that tell theirs.
SignalPenalty(recent) ==
    LET told == {i \in DOMAIN recent : recent[i].rssi # Unknown}
        avg == Average([i \in DOMAIN recent |-> recent[i].rssi], told)
    IN IF told = {} THEN 0
       ELSE Cost(avg > 80000, AtMost(25000, ((avg - 80000) * 3) \div 2))

PerformanceScore(hb, open) ==
    IF hb = <<>> THEN 50000
    ELSE LET recent == Newest(hb, QueueWindow)
         IN Points(Full - QueuePenalty(recent) - SignalPenalty(recent)
                   - AtMost(20000, 10000 * open["performance"]))

SecurityScore(profile, open) ==
    Points(Full - Cost(~profile.ota, 10000) - Cost(~profile.firmware, 5000)
           - AtMost(60000, 30000 * open["security"]))

MaintainabilityScore(profile) ==
    Points(Full - Cost(~profile.ota, 20000) - Cost(~profile.uid, 15000)
           - Cost(~profile.hardware, 10000))

\* A bug: timedelta.seconds, which leaves out the days.
ResponsivenessScoreSeconds(seen, now) ==
    IF seen = Never THEN 0
    ELSE IF seen = Garbled THEN 50000
    ELSE LET age == (now - seen) % DayLength
         IN IF age <= OfflineAfter
            THEN Points(Full - (30000 * age) \div OfflineAfter)
            ELSE Points(30000 - (30000 * (age - OfflineAfter)) \div OfflineAfter)

ResponsivenessScore(seen, now) ==
    IF seen = Never THEN 0
    ELSE IF seen = Garbled THEN 50000
    ELSE LET age == now - seen
         IN IF age <= OfflineAfter
            THEN Points(Full - (30000 * age) \div OfflineAfter)
            ELSE Points(30000 - (30000 * (age - OfflineAfter)) \div OfflineAfter)

\* Row a is before row b: ORDER BY detected_ts_utc DESC, which has seconds.
Before(a, b) == a.at > b.at \/ (a.at = b.at /\ a.rank < b.rank)

ActiveAt(n, anomalies) == {a \in anomalies : a.node = n}

\* get_anomalies: the newest of the node's.
AnomaliesRead(n, anomalies) ==
    LET rows == ActiveAt(n, anomalies)
    IN {a \in rows : Cardinality({b \in rows : Before(b, a)}) < AnomalyLimit}

\* The sub-scores of node n from its heartbeats, the active anomalies, its row and
\* the time.
SubScores(n, rows, anomalies, row, now) ==
    LET hb == Newest(rows, RecentLimit)
        open == [c \in Categories |->
                    Cardinality({a \in AnomaliesRead(n, anomalies) : a.category = c})]
    IN [reliability |-> ReliabilityScore(hb, open, row.status),
        performance |-> PerformanceScore(hb, open),
        security |-> SecurityScore(Profile[n], open),
        maintainability |-> MaintainabilityScore(Profile[n]),
        responsiveness |-> ResponsivenessScore(row.seen, now)]

\* compute_node_score: _WEIGHTS are hundredths.
Weighted(s) == (35 * s.reliability + 25 * s.performance + 20 * s.security
                + 10 * s.maintainability + 10 * s.responsiveness) \div 100

-----------------------------------------------------------------------------
(* What happens to the tables: the V1 gateway's heartbeats with the        *)
(* trigger, the registry and the detector.                                 *)

\* A bug: rows are kept by their age, too.
TrimmedByAge(n, rows) == Newest(SelectSeq(rows, LAMBDA h : h.at = clock), KeepBeats)

\* A bug: there is no trigger.
TrimmedNone(n, rows) == rows

\* trim_heartbeats
Trimmed(n, rows) == Newest(rows, KeepBeats)

Heartbeat(n, b) ==
    /\ heard < MaxBeats
    /\ heard' = heard + 1
    /\ node[n].status # "retired"
    /\ beats' = [beats EXCEPT ![n] =
                    Trimmed(n, Append(@, [at |-> clock, queue |-> b.queue, rssi |-> b.rssi]))]
    /\ node' = [node EXCEPT ![n] = [status |-> "online", seen |-> clock]]
    /\ UNCHANGED <<clock, active, news, summary, agg>>

News == news < MaxNews /\ news' = news + 1

SetStatus(n, st) ==
    /\ News
    /\ node[n].status # st
    /\ node' = [node EXCEPT ![n].status = st]
    /\ UNCHANGED <<clock, beats, active, heard, summary, agg>>

OpenAnomaly(a) ==
    /\ News
    /\ active' = active \cup
          {[node |-> a.node, category |-> a.category, rank |-> a.rank, at |-> clock]}
    /\ UNCHANGED <<clock, node, beats, heard, summary, agg>>

\* It is acknowledged, resolved or escalated.
CloseAnomaly(a) ==
    /\ active' = active \ {a}
    /\ UNCHANGED <<clock, node, beats, heard, news, summary, agg>>

-----------------------------------------------------------------------------
(* The summary service.                                                    *)

\* run_daily_aggregation: the days are those of the start.
StartAggregation ==
    /\ agg.step = "idle"
    /\ agg' = [Resting EXCEPT !.step = "next", !.today = DayOf(clock),
                              !.todo = {n \in Nodes : node[n].status # "retired"}]
    /\ UNCHANGED <<clock, tables, summary>>

Yesterday(d) == IF d = 0 THEN 0 ELSE d - 1

NextNode ==
    /\ agg.step = "next"
    /\ agg' = IF agg.todo = {} THEN Resting
              ELSE LET n == CHOOSE m \in agg.todo : TRUE
                   IN [agg EXCEPT !.step = "read", !.node = n, !.todo = @ \ {n},
                                  !.day = Yesterday(agg.today)]
    /\ UNCHANGED <<clock, tables, summary>>

\* received_at BETWEEN day_start AND day_end
RowsOf(n, d) == {i \in DOMAIN beats[n] : DayOf(beats[n][i].at) = d}

\* _aggregate_node_day: of the columns, the number of heartbeats.
DayRecord(n, d) ==
    IF RowsOf(n, d) = {} THEN None ELSE [count |-> Cardinality(RowsOf(n, d))]

ReadDay ==
    /\ agg.step = "read"
    /\ agg' = [agg EXCEPT !.step = "write", !.record = DayRecord(agg.node, agg.day)]
    /\ UNCHANGED <<clock, tables, summary>>

\* upsert_daily_summary, unless there was nothing; then the other day, then the score.
WriteDay ==
    /\ agg.step = "write"
    /\ summary' = IF agg.record = None THEN summary
                  ELSE [summary EXCEPT ![<<agg.node, agg.day>>] = agg.record]
    /\ agg' = IF agg.day # agg.today
              THEN [agg EXCEPT !.step = "read", !.day = agg.today, !.record = None]
              ELSE [agg EXCEPT !.step = "score", !.record = None]
    /\ UNCHANGED <<clock, tables>>

\* compute_node_score adds a row with the Weighted SubScores to ops_health_scores.
ScoreNode ==
    /\ agg.step = "score"
    /\ agg' = [agg EXCEPT !.step = "next"]
    /\ UNCHANGED <<clock, tables, summary>>

\* A statement raises: run_daily_aggregation logs it and goes on with the next
\* day, or with the next node.
ServiceRaises ==
    /\ agg.step \in {"read", "write", "score"}
    /\ agg' = IF agg.step = "score" THEN [agg EXCEPT !.step = "next"]
              ELSE IF agg.day # agg.today
                   THEN [agg EXCEPT !.step = "read", !.day = agg.today, !.record = None]
                   ELSE [agg EXCEPT !.step = "score", !.record = None]
    /\ UNCHANGED <<clock, tables, summary>>

Tick ==
    /\ clock < MaxClock
    /\ clock' = clock + 1
    /\ UNCHANGED <<tables, summary, agg>>

FleetNext ==
    \/ \E n \in Nodes :
        \/ \E b \in Beats : Heartbeat(n, b)
        \/ \E st \in Statuses \ {"online"} : SetStatus(n, st)
    \/ \E a \in Anomalies : OpenAnomaly(a)
    \/ \E a \in active : CloseAnomaly(a)
    \/ StartAggregation \/ NextNode \/ ReadDay \/ WriteDay
    \/ ScoreNode \/ ServiceRaises
    \/ Tick

FleetSpec == FleetInit /\ [][FleetNext]_fleetVars

-----------------------------------------------------------------------------
(* Properties.                                                             *)

\* The ranges the tables' CHECK clauses and the pydantic models insist on: a score
\* outside them would raise instead of being stored.
FleetTypeOK ==
    /\ clock \in 0..MaxClock
    /\ \A n \in Nodes :
        /\ node[n].status \in Statuses
        /\ node[n].seen \in 0..MaxClock \cup {Never, Garbled}
        /\ Len(beats[n]) <= KeepBeats
        /\ LET s == SubScores(n, beats[n], active, node[n], clock)
           IN \A f \in DOMAIN s : s[f] \in 0..Full
    /\ active \subseteq [node : Nodes, category : Categories, rank : Nat, at : 0..MaxClock]

\* The status of a node stays as it is, or is on its way from 'online' to 'offline'.
NotBetter(st, tt) ==
    tt = st \/ <<st, tt>> \in {<<"online", "degraded">>, <<"online", "offline">>,
                               <<"degraded", "offline">>}

\* A step that only lets time pass, raises an anomaly or takes a node from 'online'
\* to 'degraded' or from there to 'offline' does not raise the score of any node.
\* One more anomaly does so only at a node that has more than a score reads: it may
\* push out an older one that costs more.
BadNewsNeverImproves ==
    [][/\ agg' = agg /\ beats' = beats
       /\ active \subseteq active'
       /\ \A n \in Nodes : /\ node'[n].seen = node[n].seen
                           /\ NotBetter(node[n].status, node'[n].status)
       => \A n \in Nodes :
            \/ Weighted(SubScores(n, beats'[n], active', node'[n], clock'))
               <= Weighted(SubScores(n, beats[n], active, node[n], clock))
            \/ /\ ActiveAt(n, active') # ActiveAt(n, active)
               /\ Cardinality(ActiveAt(n, active')) > AnomalyLimit]_fleetVars

\* The hourly aggregation replaces what it wrote: it counts fewer heartbeats than
\* before only for a node that has as many rows as the trigger leaves.
ShrinksOnlyByTrimming ==
    [][\A s \in Nodes \X Days :
          summary[s] # None /\ summary'[s].count < summary[s].count
          => Len(beats[s[1]]) = KeepBeats]_fleetVars
=============================================================================
