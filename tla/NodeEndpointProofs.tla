------------------------ MODULE NodeEndpointProofs ------------------------
(***************************************************************************)
(* Theorems about what a node's requests meet at the gateway:              *)
(* HttpRateLimit for any limits, any window and any clock resolution, and  *)
(* behind it NodeSession for any nodes, messages, requests under way and   *)
(* queue capacity.                                                         *)
(***************************************************************************)
EXTENDS NodeSession, HttpRateLimit, TLAPS, FiniteSetTheorems, WellFoundedInduction,
        SequenceTheorems

\* The part of LimitAssumption that the arithmetic rests on.
LEMMA LimiterConstants ==
    /\ MaxOf \in [Keys -> Nat] /\ \A k \in Keys : MaxOf[k] >= 1
    /\ Window \in Nat /\ PerSecond \in Nat /\ PerSecond >= 1
    /\ MaxClock \in Nat /\ MaxWaiting \in Nat
    /\ Ips \subseteq Keys /\ NodeIds \subseteq Keys
    /\ Global \in Keys /\ Bootstrap \in Keys
<1>1. WindowSec \in Nat /\ PerSecond \in Nat \ {0}
  BY LimitAssumption DEF LimitAssumption
<1>2. Window \in Nat
  BY <1>1 DEF Window
<1> QED
  BY <1>1, <1>2, LimitAssumption DEF LimitAssumption, Keys

-----------------------------------------------------------------------------
(* The limiters: a deque                                                    *)

\* The least-number principle, for a set.
LEMMA LeastElement ==
  ASSUME NEW S, S \subseteq Nat, S # {}
  PROVE  \E x \in S : \A y \in S : x <= y
<1> DEFINE Less == OpToRel(<, Nat)
<1>1. IsWellFoundedOn(Less, Nat)
  BY NatLessThanWellFounded
<1>2. \A x, y \in Nat : x < y => <<x, y>> \in Less
  BY DEF OpToRel
<1> HIDE DEF Less
<1>3. PICK x \in S : \A y \in S : ~ (<<y, x>> \in Less)
  BY <1>1, WFMin
<1>4. x \in Nat /\ \A y \in S : y \in Nat /\ ~(y < x)
  BY <1>2, <1>3
<1>5. \A y \in S : x <= y
  BY <1>4
<1> QED
  BY <1>5

\* The types of a deque and its limit.
LEMMA DequeTypes ==
  ASSUME LimitersTypeOK, NEW k \in Keys
  PROVE  /\ clock \in Int /\ Len(hits[k]) \in Nat /\ hits[k] \in Seq(0..MaxClock)
         /\ \A i \in 1..Len(hits[k]) : hits[k][i] \in Int
         /\ oldest[k] \in Nat /\ oldest[k] >= 1 /\ oldest[k] <= Len(hits[k]) + 1
         /\ MaxOf[k] \in Nat /\ MaxOf[k] >= 1 /\ Window \in Nat
<1>1. hits[k] \in Seq(0..MaxClock)
  BY DEF LimitersTypeOK
<1>2. Len(hits[k]) \in Nat
  BY <1>1
<1>3. \A i \in 1..Len(hits[k]) : hits[k][i] \in 0..MaxClock
  BY <1>1, ElementOfSeq
<1>4. \A i \in 1..Len(hits[k]) : hits[k][i] \in Int
  BY <1>3
<1>5. oldest[k] \in Nat /\ oldest[k] >= 1 /\ oldest[k] <= Len(hits[k]) + 1
  BY DEF LimitersTypeOK
<1>6. clock \in Int
  BY DEF LimitersTypeOK
<1> QED
  BY <1>1, <1>2, <1>4, <1>5, <1>6, LimiterConstants

\* What popping old times leaves: Trimmed is where the deque then begins.
LEMMA TrimmedBegins ==
  ASSUME LimitersTypeOK, NEW k \in Keys, NEW now \in Int
  PROVE  /\ Trimmed(k, now) \in oldest[k]..(Len(hits[k]) + 1)
         /\ \A i \in oldest[k]..(Trimmed(k, now) - 1) : hits[k][i] < now - Window
         /\ Trimmed(k, now) <= Len(hits[k]) =>
                hits[k][Trimmed(k, now)] >= now - Window
<1> DEFINE len == Len(hits[k])
           Fresh == {i \in oldest[k]..len : hits[k][i] >= now - Window}
           Begins(f) == /\ \A i \in oldest[k]..(f - 1) : hits[k][i] < now - Window
                        /\ f <= len => hits[k][f] >= now - Window
<1>1. len \in Nat /\ oldest[k] \in Nat /\ oldest[k] >= 1 /\ oldest[k] <= len + 1
  BY DequeTypes
<1>2. \A i \in 1..len : hits[k][i] \in Int
  BY DequeTypes
<1>3. PICK f \in Fresh \cup {len + 1} : \A y \in Fresh \cup {len + 1} : f <= y
  <2>1. Fresh \cup {len + 1} \subseteq Nat /\ Fresh \cup {len + 1} # {}
    BY <1>1
  <2> HIDE DEF Fresh, len
  <2> QED
    BY <2>1, LeastElement
<1>4. f \in oldest[k]..(len + 1)
  BY <1>1, <1>3
<1>5. \A i \in oldest[k]..(f - 1) : hits[k][i] < now - Window
  <2> SUFFICES ASSUME NEW i \in oldest[k]..(f - 1) PROVE hits[k][i] < now - Window
    OBVIOUS
  <2>1. i \in oldest[k]..len /\ ~(f <= i) /\ hits[k][i] \in Int
    BY <1>1, <1>2, <1>4
  <2>2. i \notin Fresh
    BY <1>3, <2>1
  <2> QED
    BY <2>1, <2>2, LimiterConstants
<1>6. f <= len => hits[k][f] >= now - Window
  BY <1>1, <1>3
<1>7. Begins(f)
  BY <1>5, <1>6
<1>8. Trimmed(k, now) = CHOOSE g \in oldest[k]..(len + 1) : Begins(g)
  BY DEF Trimmed
<1> HIDE DEF Begins
<1>9. Trimmed(k, now) \in oldest[k]..(len + 1) /\ Begins(Trimmed(k, now))
  BY <1>4, <1>7, <1>8
<1> QED
  BY <1>9 DEF Begins

-----------------------------------------------------------------------------
(* The inductive invariant                                                  *)

\* The times of a key are in order, what its deque has dropped is older than a
\* window, and the deque is never longer than the maximum.
LimiterInv ==
    \A k \in Keys :
        /\ \A i \in 1..Len(hits[k]) : hits[k][i] <= clock
        /\ \A i \in 1..(oldest[k] - 1) : hits[k][i] < clock - Window
        /\ Len(hits[k]) + 1 - oldest[k] <= MaxOf[k]
        /\ \A i \in 1..(Len(hits[k]) - MaxOf[k]) :
               hits[k][i + MaxOf[k]] - hits[k][i] > Window

\* A request that is counted keeps the deques well typed.
LEMMA CountKeepsTypes ==
  ASSUME LimitersTypeOK, NEW passed, NEW asked, Count(passed, asked)
  PROVE  /\ hits' \in [Keys -> Seq(0..MaxClock)]
         /\ oldest' \in [Keys -> Nat \ {0}]
         /\ \A k \in Keys : oldest'[k] <= Len(hits'[k]) + 1
<1>1. clock \in 0..MaxClock /\ clock \in Int
  BY LimiterConstants DEF LimitersTypeOK
<1>2. \A k \in Keys : /\ Trimmed(k, clock) \in Nat \ {0}
                      /\ Trimmed(k, clock) <= Len(hits[k]) + 1
  <2> SUFFICES ASSUME NEW k \in Keys
               PROVE  /\ Trimmed(k, clock) \in Nat \ {0}
                      /\ Trimmed(k, clock) <= Len(hits[k]) + 1
    OBVIOUS
  <2>1. Trimmed(k, clock) \in oldest[k]..(Len(hits[k]) + 1)
    BY <1>1, TrimmedBegins
  <2>2. oldest[k] \in Nat /\ oldest[k] >= 1 /\ Len(hits[k]) \in Nat
    BY DequeTypes
  <2> QED
    BY <2>1, <2>2
<1>3. hits' \in [Keys -> Seq(0..MaxClock)]
  <2>1. \A k \in Keys : /\ hits[k] \in Seq(0..MaxClock)
                        /\ Append(hits[k], clock) \in Seq(0..MaxClock)
    BY <1>1, DequeTypes
  <2> QED
    BY <2>1 DEF Count
<1>4. oldest' \in [Keys -> Nat \ {0}]
  BY <1>2 DEF Count, LimitersTypeOK
<1>5. \A k \in Keys : Len(hits'[k]) >= Len(hits[k]) /\ Len(hits[k]) \in Nat
  BY <1>1 DEF Count, LimitersTypeOK
<1>6. \A k \in Keys : oldest'[k] <= Len(hits[k]) + 1
  BY <1>2 DEF Count, LimitersTypeOK
<1>7. \A k \in Keys : oldest'[k] <= Len(hits'[k]) + 1
  <2> SUFFICES ASSUME NEW k \in Keys PROVE oldest'[k] <= Len(hits'[k]) + 1
    OBVIOUS
  <2>1. oldest'[k] \in Nat /\ Len(hits'[k]) \in Nat /\ Len(hits[k]) \in Nat
    BY <1>3, <1>4, <1>5
  <2> QED
    BY <1>5, <1>6, <2>1
<1> QED
  BY <1>3, <1>4, <1>7

\* A request let through while fewer than m times are as young as the window
\* leaves every window with at most m.
LEMMA AppendKeepsLimit ==
  ASSUME NEW h \in Seq(Int), NEW c \in Int, NEW m \in Nat, m >= 1, NEW w \in Nat,
         NEW t \in Nat, t >= 1, t <= Len(h) + 1, Len(h) + 1 - t < m,
         \A i \in 1..Len(h) : h[i] <= c,
         \A i \in 1..(t - 1) : h[i] < c - w,
         \A i \in 1..(Len(h) - m) : h[i + m] - h[i] > w
  PROVE  /\ Len(Append(h, c)) = Len(h) + 1
         /\ \A i \in 1..(Len(h) + 1) : Append(h, c)[i] <= c
         /\ \A i \in 1..(t - 1) : Append(h, c)[i] < c - w
         /\ \A i \in 1..(Len(h) + 1 - m) : Append(h, c)[i + m] - Append(h, c)[i] > w
<1> DEFINE n == Len(h)
           g == Append(h, c)
<1>1. /\ Len(g) = n + 1 /\ g[n + 1] = c /\ n \in Nat
      /\ \A i \in 1..n : g[i] = h[i]
  BY AppendProperties
<1>2. \A i \in 1..n : h[i] \in Int
  BY ElementOfSeq
<1>3. /\ t <= n + 1 /\ n + 1 - t < m
      /\ \A i \in 1..n : h[i] <= c
      /\ \A i \in 1..(n - m) : h[i + m] - h[i] > w
  OBVIOUS
<1> HIDE DEF n, g
<1>4. \A i \in 1..(n + 1) : g[i] <= c
  <2> SUFFICES ASSUME NEW i \in 1..(n + 1) PROVE g[i] <= c
    OBVIOUS
  <2>1. CASE i \in 1..n
    BY <1>1, <1>3, <2>1
  <2>2. CASE i = n + 1
    BY <1>1, <2>2
  <2>3. i \in 1..n \/ i = n + 1
    BY <1>1
  <2> QED
    BY <2>1, <2>2, <2>3
<1>5. \A i \in 1..(t - 1) : i \in 1..n /\ g[i] < c - w
  <2>1. \A i \in 1..(t - 1) : i \in 1..n
    BY <1>1, <1>3
  <2>2. \A i \in 1..(t - 1) : h[i] < c - w
    OBVIOUS
  <2> QED
    BY <1>1, <2>1, <2>2
<1>6. \A i \in 1..(n + 1 - m) : g[i + m] - g[i] > w
  <2> SUFFICES ASSUME NEW i \in 1..(n + 1 - m) PROVE g[i + m] - g[i] > w
    OBVIOUS
  <2>1. CASE i = n + 1 - m
    <3>1. i \in 1..(t - 1) /\ i + m = n + 1
      BY <1>1, <1>3, <2>1
    <3>2. g[i + m] = c /\ g[i] < c - w /\ g[i] = h[i] /\ h[i] \in Int
      BY <1>1, <1>2, <1>5, <3>1
    <3> QED
      BY <3>2
  <2>2. CASE i # n + 1 - m
    <3>1. i \in 1..(n - m) /\ i \in 1..n /\ i + m \in 1..n
      BY <1>1, <2>2
    <3> QED
      BY <1>1, <1>3, <3>1
  <2> QED
    BY <2>1, <2>2
<1> QED
  BY <1>1, <1>4, <1>5, <1>6 DEF g, n

\* A request that is counted keeps the deques within their limits, if every key
\* it passed had room.
LEMMA CountKeepsLimits ==
  ASSUME LimitersTypeOK, LimiterInv, NEW passed, NEW asked, Count(passed, asked),
         UNCHANGED clock, \A k \in passed \cap Keys : Allowed(k, clock)
  PROVE  LimiterInv'
<1> SUFFICES ASSUME NEW k \in Keys
             PROVE  /\ \A i \in 1..Len(hits'[k]) : hits'[k][i] <= clock
                    /\ \A i \in 1..(oldest'[k] - 1) : hits'[k][i] < clock - Window
                    /\ Len(hits'[k]) + 1 - oldest'[k] <= MaxOf[k]
                    /\ \A i \in 1..(Len(hits'[k]) - MaxOf[k]) :
                           hits'[k][i + MaxOf[k]] - hits'[k][i] > Window
  BY DEF LimiterInv
<1> DEFINE h == hits[k]
           n == Len(h)
           m == MaxOf[k]
           t == Trimmed(k, clock)
<1>1. /\ n \in Nat /\ oldest[k] \in Nat /\ oldest[k] >= 1 /\ clock \in Int
      /\ m \in Nat /\ m >= 1 /\ Window \in Nat
      /\ h \in Seq(0..MaxClock)
  BY DequeTypes
<1>2. /\ t \in oldest[k]..(n + 1)
      /\ \A i \in oldest[k]..(t - 1) : h[i] < clock - Window
  BY <1>1, TrimmedBegins
<1>3. /\ \A i \in 1..n : h[i] <= clock
      /\ \A i \in 1..(oldest[k] - 1) : h[i] < clock - Window
      /\ n + 1 - oldest[k] <= m
      /\ \A i \in 1..(n - m) : h[i + m] - h[i] > Window
  BY DEF LimiterInv
<1>4. k \in passed => n + 1 - t < m /\ hits'[k] = Append(h, clock) /\ oldest'[k] = t
  BY DEF Allowed, Count
<1>5. k \notin passed => hits'[k] = h /\ (oldest'[k] = t \/ oldest'[k] = oldest[k])
  BY DEF Count
<1>6. h \in Seq(Int)
  BY <1>1, LimiterConstants
<1> HIDE DEF h, m, t
<1>7. \A i \in 1..(t - 1) : h[i] < clock - Window
  <2> SUFFICES ASSUME NEW i \in 1..(t - 1) PROVE h[i] < clock - Window
    OBVIOUS
  <2>1. i \in 1..(oldest[k] - 1) \/ i \in oldest[k]..(t - 1)
    BY <1>1, <1>2
  <2> QED
    BY <2>1, <1>2, <1>3
<1>8. t \in Nat /\ t >= 1 /\ t <= n + 1 /\ n + 1 - t <= m
  BY <1>1, <1>2, <1>3
<1>9. CASE k \in passed
  <2> DEFINE g == Append(h, clock)
  <2>1. n + 1 - t < m /\ hits'[k] = g /\ oldest'[k] = t
    BY <1>4, <1>9
  <2>2. /\ Len(g) = n + 1
        /\ \A i \in 1..(n + 1) : g[i] <= clock
        /\ \A i \in 1..(t - 1) : g[i] < clock - Window
        /\ \A i \in 1..(n + 1 - m) : g[i + m] - g[i] > Window
    BY <1>1, <1>3, <1>6, <1>7, <1>8, <2>1, AppendKeepsLimit
  <2>3. n + 1 + 1 - t <= m
    BY <1>1, <1>8, <2>1
  <2> HIDE DEF g, n
  <2>4. Len(hits'[k]) = n + 1 /\ MaxOf[k] = m
    BY <2>1, <2>2 DEF m
  <2>5. \A i \in 1..Len(hits'[k]) : hits'[k][i] <= clock
    BY <2>1, <2>2, <2>4
  <2>6. \A i \in 1..(oldest'[k] - 1) : hits'[k][i] < clock - Window
    BY <2>1, <2>2
  <2>7. Len(hits'[k]) + 1 - oldest'[k] <= MaxOf[k]
    BY <2>1, <2>3, <2>4
  <2>8. \A i \in 1..(Len(hits'[k]) - MaxOf[k]) :
            hits'[k][i + MaxOf[k]] - hits'[k][i] > Window
    <3>1. MaxOf[k] = m /\ Len(hits'[k]) - MaxOf[k] = n + 1 - m
      BY <1>1, <2>4
    <3> QED
      BY <2>1, <2>2, <3>1
  <2> QED
    BY <2>5, <2>6, <2>7, <2>8
<1>10. CASE k \notin passed
  BY <1>3, <1>5, <1>7, <1>8, <1>10 DEF m
<1> QED
  BY <1>9, <1>10

-----------------------------------------------------------------------------
(* The theorems                                                             *)

\* A hello whose handler has run waits no longer.
LEMMA HelloTaken ==
  ASSUME LimitersTypeOK, NEW n \in NodeIds, waiting[n] > 0
  PROVE  [waiting EXCEPT ![n] = @ - 1] \in [NodeIds -> 0..MaxWaiting]
<1>1. waiting[n] \in 0..MaxWaiting /\ waiting \in [NodeIds -> 0..MaxWaiting]
  BY DEF LimitersTypeOK
<1>2. waiting[n] - 1 \in 0..MaxWaiting
  BY <1>1, LimiterConstants
<1> QED
  BY <1>1, <1>2

\* Every step of the limiters keeps the types.
LEMMA StepKeepsTypes == LimitersTypeOK /\ [LimitersNext]_limiterVars => LimitersTypeOK'
<1> SUFFICES ASSUME LimitersTypeOK, [LimitersNext]_limiterVars PROVE LimitersTypeOK'
  OBVIOUS
<1> USE LimiterConstants
<1>1. ASSUME NEW kind \in {"poll", "hello", "post"}, NEW ip \in Ips,
             NEW n \in NodeIds, Refuse(kind, ip, n)
      PROVE  LimitersTypeOK'
  <2>1. UNCHANGED <<clock, waiting>>
    BY <1>1 DEF Refuse
  <2>2. \E a, b : Count(a, b)
    BY <1>1 DEF Refuse
  <2> QED
    BY <2>1, <2>2, CountKeepsTypes DEF LimitersTypeOK
<1>2. ASSUME NEW kind \in {"poll", "hello", "post"}, NEW ip \in Ips,
             NEW n \in NodeIds, Pass(kind, ip, n)
      PROVE  LimitersTypeOK'
  <2>1. \E a, b : Count(a, b)
    BY <1>2 DEF Pass
  <2>2. clock' = clock
    BY <1>2 DEF Pass
  <2>3. waiting' \in [NodeIds -> 0..MaxWaiting]
    <3>1. waiting[n] \in 0..MaxWaiting /\ waiting \in [NodeIds -> 0..MaxWaiting]
      BY DEF LimitersTypeOK
    <3>2. \/ waiting' = waiting
          \/ /\ waiting[n] < MaxWaiting
             /\ waiting' = [waiting EXCEPT ![n] = @ + 1]
      BY <1>2 DEF Pass
    <3>3. waiting[n] < MaxWaiting => waiting[n] + 1 \in 0..MaxWaiting
      BY <3>1
    <3> QED
      BY <3>1, <3>2, <3>3
  <2> QED
    BY <2>1, <2>2, <2>3, CountKeepsTypes DEF LimitersTypeOK
<1>3. ASSUME NEW n \in NodeIds, CheckNodeRate(n) PROVE LimitersTypeOK'
  <2>1. \E a, b : Count(a, b)
    BY <1>3 DEF CheckNodeRate
  <2>2. clock' = clock /\ waiting' \in [NodeIds -> 0..MaxWaiting]
    BY <1>3, HelloTaken DEF CheckNodeRate
  <2> QED
    BY <2>1, <2>2, CountKeepsTypes DEF LimitersTypeOK
<1>4. ASSUME NEW n \in NodeIds, RejectHello(n) PROVE LimitersTypeOK'
  <2>1. waiting' \in [NodeIds -> 0..MaxWaiting]
    BY <1>4, HelloTaken DEF RejectHello
  <2>2. UNCHANGED <<clock, hits, oldest>>
    BY <1>4 DEF RejectHello
  <2> QED
    BY <2>1, <2>2 DEF LimitersTypeOK
<1>5. CASE Tick
  BY <1>5 DEF Tick, LimitersTypeOK
<1>6. CASE UNCHANGED limiterVars
  BY <1>6 DEF limiterVars, LimitersTypeOK
<1> QED
  BY <1>1, <1>2, <1>3, <1>4, <1>5, <1>6 DEF LimitersNext, ClientIp

\* Every step keeps LimiterInv: requests by Count, time by making times older.
LEMMA StepKeepsLimits ==
  ASSUME LimitersTypeOK, LimiterInv, [LimitersNext]_limiterVars
  PROVE  LimiterInv'
<1> USE LimiterConstants
<1>1. ASSUME NEW kind \in {"poll", "hello", "post"}, NEW ip \in Ips,
             NEW n \in NodeIds, Refuse(kind, ip, n)
      PROVE  LimiterInv'
  <2>1. PICK i \in 1..Len(Checks(kind, ip, n)) :
           /\ \A j \in 1..(i - 1) : Allowed(Checks(kind, ip, n)[j], clock)
           /\ Count({Checks(kind, ip, n)[j] : j \in 1..(i - 1)},
                    {Checks(kind, ip, n)[i]})
           /\ UNCHANGED clock
    BY <1>1 DEF Refuse
  <2> QED
    BY <2>1, CountKeepsLimits
<1>2. ASSUME NEW kind \in {"poll", "hello", "post"}, NEW ip \in Ips,
             NEW n \in NodeIds, Pass(kind, ip, n)
      PROVE  LimiterInv'
  <2>1. /\ \A j \in 1..Len(Checks(kind, ip, n)) :
               Allowed(Checks(kind, ip, n)[j], clock)
        /\ Count({Checks(kind, ip, n)[j] : j \in 1..Len(Checks(kind, ip, n))}, {})
        /\ UNCHANGED clock
    BY <1>2 DEF Pass
  <2> QED
    BY <2>1, CountKeepsLimits
<1>3. ASSUME NEW n \in NodeIds, CheckNodeRate(n) PROVE LimiterInv'
  <2>1. CASE Allowed(n, clock)
    BY <1>3, <2>1, CountKeepsLimits DEF CheckNodeRate
  <2>2. CASE ~Allowed(n, clock)
    BY <1>3, <2>2, CountKeepsLimits DEF CheckNodeRate
  <2> QED
    BY <2>1, <2>2
<1>4. ASSUME UNCHANGED <<hits, oldest>>, clock' \in Int, clock' >= clock
      PROVE  LimiterInv'
  <2> SUFFICES ASSUME NEW k \in Keys
               PROVE  /\ \A i \in 1..Len(hits[k]) : hits[k][i] <= clock'
                      /\ \A i \in 1..(oldest[k] - 1) : hits[k][i] < clock' - Window
    BY <1>4 DEF LimiterInv
  <2> DEFINE h == hits[k]
             n == Len(hits[k])
  <2>1. /\ clock \in Int /\ Window \in Int /\ n \in Nat
        /\ oldest[k] \in Nat /\ oldest[k] <= n + 1
        /\ \A i \in 1..n : h[i] \in Int
    BY DequeTypes
  <2>2. /\ \A i \in 1..n : h[i] <= clock
        /\ \A i \in 1..(oldest[k] - 1) : h[i] < clock - Window
    BY DEF LimiterInv
  <2> HIDE DEF h, n
  <2>3. \A i \in 1..(oldest[k] - 1) : i \in 1..n
    BY <2>1
  <2>4. \A i \in 1..n : h[i] <= clock'
    BY <1>4, <2>1, <2>2
  <2>5. \A i \in 1..(oldest[k] - 1) : h[i] < clock' - Window
    BY <1>4, <2>1, <2>2, <2>3
  <2> QED
    BY <2>4, <2>5 DEF h, n
<1>5. ASSUME NEW n \in NodeIds, RejectHello(n) PROVE LimiterInv'
  BY <1>4, <1>5 DEF RejectHello, LimitersTypeOK
<1>6. CASE Tick
  BY <1>4, <1>6 DEF Tick, LimitersTypeOK
<1>7. CASE UNCHANGED limiterVars
  BY <1>4, <1>7 DEF limiterVars, LimitersTypeOK
<1> QED
  BY <1>1, <1>2, <1>3, <1>5, <1>6, <1>7 DEF LimitersNext, ClientIp

\* Every reachable state of the limiters is well typed.
THEOREM LimiterTypeCorrect == LimitersSpec => []LimitersTypeOK
<1>1. LimitersInit => LimitersTypeOK
  BY LimiterConstants DEF LimitersInit, LimitersTypeOK
<1> QED
  BY <1>1, StepKeepsTypes, PTL DEF LimitersSpec

\* The inductive invariant holds in every reachable state.
LEMMA LimiterCorrect == LimitersSpec => [](LimitersTypeOK /\ LimiterInv)
<1>1. LimitersInit => LimiterInv
  BY LimiterConstants DEF LimitersInit, LimiterInv
<1>2. LimitersTypeOK /\ LimiterInv /\ [LimitersNext]_limiterVars => LimiterInv'
  BY StepKeepsLimits
<1> QED
  BY <1>1, <1>2, LimiterTypeCorrect, PTL DEF LimitersSpec

\* In no window does a limiter let more than its maximum through, whatever the
\* maximum, the window and the pattern of requests.
THEOREM LimitersHold == LimitersSpec => []NeverExceedsMax
<1>1. LimiterInv => NeverExceedsMax
  BY DEF LimiterInv, NeverExceedsMax
<1> QED
  BY <1>1, LimiterCorrect, PTL

\* A quotient rounded down, plus one, covers what was divided.
LEMMA RoundedUp ==
  ASSUME NEW a \in Nat, NEW b \in Nat, b >= 1
  PROVE  (a \div b + 1) * b > a /\ a \div b + 1 \in Nat
  OBVIOUS

\* The Retry-After of a refusal is never too short.
THEOREM RetryAfterIsEnough == LimitersSpec => []RetryAfterSuffices
<1>1. LimitersTypeOK /\ LimiterInv => RetryAfterSuffices
  <2> SUFFICES ASSUME LimitersTypeOK, LimiterInv, NEW k \in Keys, ~Allowed(k, clock)
               PROVE  Allowed(k, clock + RetryAfter(k) * PerSecond)
    BY DEF RetryAfterSuffices
  <2> USE LimiterConstants
  <2> DEFINE n == Len(hits[k])
             t == Trimmed(k, clock)
             left == Window - (clock - hits[k][t])
             later == clock + RetryAfter(k) * PerSecond
             u == Trimmed(k, later)
  <2>1. /\ n \in Nat /\ oldest[k] \in Nat /\ oldest[k] >= 1 /\ clock \in Int
        /\ \A i \in 1..n : hits[k][i] \in Int
        /\ MaxOf[k] \in Nat /\ MaxOf[k] >= 1 /\ Window \in Nat
    BY DequeTypes
  <2>2. t \in oldest[k]..(n + 1) /\ (t <= n => hits[k][t] >= clock - Window)
    BY <2>1, TrimmedBegins
  <2>3. n + 1 - oldest[k] <= MaxOf[k] /\ ~(n + 1 - t < MaxOf[k])
    BY DEF LimiterInv, Allowed
  <2>6. RetryAfter(k) = left \div PerSecond + 1
    BY DEF RetryAfter
  <2>a. Allowed(k, later) <=> n + 1 - u < MaxOf[k]
    BY DEF Allowed
  <2>b. later \in Int =>
            u \in oldest[k]..(n + 1) /\ (u <= n => hits[k][u] >= later - Window)
    BY TrimmedBegins
  <2> HIDE DEF t, n, u
  <2>4. t = oldest[k] /\ t \in 1..n /\ n + 1 - t = MaxOf[k]
    BY <2>1, <2>2, <2>3
  <2>5. left \in Nat /\ hits[k][t] \in Int
    BY <2>1, <2>2, <2>4
  <2> HIDE DEF left
  <2>7. RetryAfter(k) * PerSecond > left /\ RetryAfter(k) \in Nat
    BY <2>5, <2>6, RoundedUp
  <2>8. RetryAfter(k) * PerSecond \in Int
    BY <2>7
  <2>9. later \in Int /\ later > clock + left
    BY <2>1, <2>5, <2>7, <2>8
  <2>10. hits[k][t] < later - Window
    <3> HIDE DEF later
    <3> QED
      BY <2>1, <2>5, <2>9 DEF left
  <2> HIDE DEF later
  <2>11. u \in oldest[k]..(n + 1) /\ (u <= n => hits[k][u] >= later - Window)
    BY <2>9, <2>b
  <2>12. u # t
    BY <2>1, <2>4, <2>5, <2>9, <2>10, <2>11
  <2>13. n + 1 - u < MaxOf[k]
    BY <2>1, <2>4, <2>11, <2>12
  <2> QED
    BY <2>13, <2>a DEF later
<1> QED
  BY <1>1, LimiterCorrect, PTL

-----------------------------------------------------------------------------
(* The handlers: what is assumed of the constants                           *)

\* The part of the assumptions the proofs rest on.
LEMMA SessionConstants ==
    /\ Sender \in [Messages -> Nodes]
    /\ Confirmed \subseteq Messages /\ Posted \subseteq Messages
    /\ Default \in Intervals /\ None \notin Intervals
    /\ IsFiniteSet(Nodes) /\ None \notin Nodes
    /\ Capacity \in Nat /\ MaxReboots \in Nat /\ MaxChanges \in Nat
  BY MessagesAssumption, NodesAssumption, IntervalsAssumption, BoundsAssumption
     DEF MessagesAssumption, NodesAssumption, IntervalsAssumption, BoundsAssumption

-----------------------------------------------------------------------------
(* Type correctness                                                         *)

Handler ==
    [op : {"none", "hello", "patch", "summary"},
     step : {"none", "insert", "select", "reselect", "answer", "write", "count"},
     node : Nodes \cup {None}, body : Intervals \cup {None},
     counts : Seq(Nat), changes : Nat]

\* A handler that reads or writes the configuration knows its node, and one that
\* counts has one count for each SELECT behind it.
WellFormed(q) ==
    /\ q \in Handler
    /\ q.step \in {"insert", "select", "reselect", "write"} => q.node \in Nodes
    /\ q.step = "count" => q.op = "summary"
    /\ q.op = "summary" => \/ q.step = "count" /\ Len(q.counts) \in {1, 2}
                           \/ q.step = "answer" /\ Len(q.counts) = 3

\* TypeOK in parts: the registry, the firmware and the handlers.
RegistryType ==
    /\ status \in [Nodes -> Statuses \cup {"absent"}]
    /\ config \in [Nodes -> Intervals \cup {None}]
    /\ wish \in [Nodes -> Intervals \cup {None}]
    /\ held \in [Requests -> SUBSET (Intervals \cup {None})]
    /\ log \subseteq Messages
FirmwareType ==
    /\ queue \in [Nodes -> Seq(Messages)]
    /\ \A n \in Nodes : Len(queue[n]) <= Capacity
    /\ link \subseteq Messages /\ made \subseteq Messages
    /\ reboots \in 0..MaxReboots
HandlerType ==
    /\ request \in [Requests -> Handler]
    /\ \A r \in Requests : WellFormed(request[r])
TypeInv == RegistryType /\ FirmwareType /\ HandlerType

\* The parts imply the type invariant.
LEMMA TypeParts == TypeInv => TypeOK
<1> SUFFICES ASSUME TypeInv PROVE TypeOK
  OBVIOUS
<1>1. request \in [Requests ->
          [op : {"none", "hello", "patch", "summary"},
           step : {"none", "insert", "select", "reselect", "answer", "write", "count"},
           node : Nodes \cup {None}, body : Intervals \cup {None},
           counts : Seq(Nat), changes : Nat]]
  BY DEF TypeInv, HandlerType, Handler
<1> QED
  BY <1>1 DEF TypeInv, RegistryType, FirmwareType, TypeOK

\* A request that is idle is well formed.
LEMMA IdleWellFormed == WellFormed(Idle)
<1>1. <<>> \in Seq(Nat) /\ 0 \in Nat
  OBVIOUS
<1>2. Idle \in Handler
  BY <1>1 DEF Idle, Handler
<1> QED
  BY <1>2 DEF Idle, WellFormed

\* One well-formed handler more, or in the place of another.
LEMMA HandlerStep ==
  ASSUME HandlerType, NEW r \in Requests, NEW q, WellFormed(q),
         request' = [request EXCEPT ![r] = q]
  PROVE  HandlerType'
  BY DEF HandlerType, WellFormed

\* Telling those that count of a change keeps the handlers well formed.
LEMMA ChangedTypes ==
  ASSUME HandlerType
  PROVE  /\ Changed \in [Requests -> Handler]
         /\ \A r \in Requests :
               /\ WellFormed(Changed[r])
               /\ Changed[r].op = request[r].op /\ Changed[r].counts = request[r].counts
               /\ Changed[r].step = request[r].step
               /\ Changed[r].changes = IF request[r].op = "summary"
                                       THEN request[r].changes + 1 ELSE request[r].changes
<1>1. ASSUME NEW r \in Requests
      PROVE  /\ WellFormed(Changed[r])
             /\ Changed[r].op = request[r].op /\ Changed[r].counts = request[r].counts
             /\ Changed[r].step = request[r].step
             /\ Changed[r].changes = IF request[r].op = "summary"
                                     THEN request[r].changes + 1 ELSE request[r].changes
  <2> DEFINE q == request[r]
             c == [q EXCEPT !.changes = q.changes + 1]
  <2>1. q \in Handler /\ WellFormed(q)
    BY DEF HandlerType
  <2>2. Changed[r] = IF q.op = "summary" THEN c ELSE q
    BY DEF Changed
  <2>3. /\ c \in Handler /\ c.op = q.op /\ c.counts = q.counts /\ c.step = q.step
        /\ c.node = q.node /\ c.changes = q.changes + 1
    BY <2>1 DEF Handler
  <2> HIDE DEF q, c
  <2>4. WellFormed(c)
    BY <2>1, <2>3 DEF WellFormed
  <2> QED
    BY <2>1, <2>2, <2>3, <2>4 DEF q
<1>2. Changed = [r \in Requests |-> Changed[r]]
  BY DEF Changed
<1> QED
  BY <1>1, <1>2 DEF WellFormed

\* How many nodes have a status is a number, of nodes that are in the fleet.
LEMMA HowManyType ==
  ASSUME NEW S
  PROVE  HowMany(S) \in Nat /\ IsFiniteSet({n \in Nodes : status[n] \in S})
<1>1. {n \in Nodes : status[n] \in S} \in SUBSET Nodes
  OBVIOUS
<1> QED
  BY <1>1, SessionConstants, FS_Subset, FS_CardinalityType DEF HowMany

\* A new summary, and one SELECT more, keep the handlers well formed.
LEMMA CountTypes ==
  ASSUME TypeInv, NEW r \in Requests, StartSummary(r) \/ CountNext(r)
  PROVE  HandlerType'
<1>h. HandlerType
  BY DEF TypeInv
<1>1. CASE StartSummary(r)
  <2> DEFINE q == [Idle EXCEPT !.op = "summary", !.step = "count",
                               !.counts = <<HowMany(Counted[1])>>]
  <2>1. request' = [request EXCEPT ![r] = q]
    BY <1>1 DEF StartSummary
  <2>2. <<HowMany(Counted[1])>> \in Seq(Nat) /\ Len(<<HowMany(Counted[1])>>) = 1
    <3>1. HowMany(Counted[1]) \in Nat
      BY HowManyType
    <3>2. \A h \in Nat : <<h>> \in Seq(Nat) /\ Len(<<h>>) = 1
      OBVIOUS
    <3> QED
      BY <3>1, <3>2
  <2>3. WellFormed(q)
    <3>1. q \in Handler
      BY <2>2, IdleWellFormed DEF WellFormed, Handler
    <3> QED
      BY <2>2, <3>1 DEF WellFormed, Idle
  <2> QED
    BY <1>h, <2>1, <2>3, HandlerStep
<1>2. CASE CountNext(r)
  <2> DEFINE k == request[r].counts
             c == Append(k, HowMany(Counted[Len(k) + 1]))
             s == IF Len(c) = Len(Counted) THEN "answer" ELSE "count"
             q == [request[r] EXCEPT !.counts = c, !.step = s]
  <2>1. request[r] \in Handler /\ WellFormed(request[r]) /\ request[r].step = "count"
        /\ request' = [request EXCEPT ![r] = q]
    BY <1>h, <1>2 DEF CountNext, HandlerType
  <2>2. /\ k \in Seq(Nat) /\ Len(k) \in {1, 2} /\ request[r].op = "summary"
    BY <2>1 DEF WellFormed, Handler
  <2>3. HowMany(Counted[Len(k) + 1]) \in Nat
    BY HowManyType
  <2>4. c \in Seq(Nat) /\ Len(c) = Len(k) + 1 /\ Len(Counted) = 3
    BY <2>2, <2>3 DEF Counted
  <2> HIDE DEF c
  <2>5. /\ q \in Handler /\ q.op = "summary" /\ q.step = s /\ q.counts = c
    BY <2>1, <2>2, <2>4 DEF Handler
  <2>6. \/ q.step = "count" /\ Len(q.counts) = 2
        \/ q.step = "answer" /\ Len(q.counts) = 3
    <3>1. CASE Len(k) = 1
      BY <2>4, <2>5, <3>1
    <3>2. CASE Len(k) = 2
      BY <2>4, <2>5, <3>2
    <3> QED
      BY <2>2, <3>1, <3>2
  <2> HIDE DEF q, s
  <2>7. WellFormed(q)
    BY <2>5, <2>6 DEF WellFormed
  <2> QED
    BY <1>h, <2>1, <2>7, HandlerStep
<1> QED
  BY <1>1, <1>2

\* The steps that only the handlers' own state and the configuration see.
LEMMA ConfigTypes ==
  ASSUME TypeInv, NEW r \in Requests,
         \/ \E n \in Nodes, i \in Intervals : PatchConfig(r, n, i)
         \/ SelectConfig(r) \/ InsertDefault(r) \/ Reselect(r) \/ Answer(r) \/ WriteConfig(r)
  PROVE  TypeInv'
<1>t. RegistryType /\ FirmwareType /\ HandlerType
  BY DEF TypeInv
<1>q. request[r] \in Handler /\ WellFormed(request[r])
  BY <1>t DEF HandlerType
<1>k. ASSUME UNCHANGED <<status, log, firmware>>,
             config' \in [Nodes -> Intervals \cup {None}],
             wish' \in [Nodes -> Intervals \cup {None}],
             held' \in [Requests -> SUBSET (Intervals \cup {None})], HandlerType'
      PROVE  TypeInv'
  BY <1>t, <1>k DEF TypeInv, RegistryType, FirmwareType, firmware
<1>c. /\ config \in [Nodes -> Intervals \cup {None}] /\ wish \in [Nodes -> Intervals \cup {None}]
      /\ held \in [Requests -> SUBSET (Intervals \cup {None})]
  BY <1>t DEF RegistryType
<1>w. \A n, i : i \in Intervals \cup {None} =>
         HeldWith(n, i) \in [Requests -> SUBSET (Intervals \cup {None})]
  BY <1>c DEF HeldWith
<1>1. ASSUME NEW n \in Nodes, NEW i \in Intervals, PatchConfig(r, n, i) PROVE TypeInv'
  <2> DEFINE q == [Idle EXCEPT !.op = "patch", !.step = "write", !.node = n, !.body = i]
  <2>1. q \in Handler
    BY IdleWellFormed DEF WellFormed, Handler
  <2>2. WellFormed(q)
    BY <2>1 DEF WellFormed, Idle
  <2>3. HandlerType'
    BY <1>t, <1>1, <2>2, HandlerStep DEF PatchConfig
  <2> QED
    BY <1>c, <1>k, <1>1, <2>3 DEF PatchConfig, history
<1>2. CASE SelectConfig(r)
  <2> DEFINE i == config[request[r].node]
             q == [request[r] EXCEPT !.step = IF i = None THEN "insert" ELSE "answer",
                                     !.body = i]
  <2>1. request[r].step = "select" /\ request[r].node \in Nodes
        /\ request[r].op # "summary" /\ request' = [request EXCEPT ![r] = q]
    BY <1>q, <1>2 DEF SelectConfig, WellFormed
  <2>2. i \in Intervals \cup {None}
    BY <1>c, <2>1
  <2> HIDE DEF i
  <2>3. q \in Handler /\ q.op = request[r].op /\ q.node = request[r].node
        /\ q.step \in {"insert", "answer"}
    BY <1>q, <2>2 DEF Handler
  <2>4. WellFormed(q)
    BY <2>1, <2>3 DEF WellFormed
  <2>5. HandlerType'
    BY <1>t, <2>1, <2>4, HandlerStep
  <2> QED
    BY <1>c, <1>k, <1>2, <2>5 DEF SelectConfig, history
<1>3. CASE InsertDefault(r)
  <2> DEFINE q == [request[r] EXCEPT !.step = "reselect"]
  <2>1. request[r].step = "insert" /\ request[r].node \in Nodes
        /\ request[r].op # "summary" /\ request' = [request EXCEPT ![r] = q]
    BY <1>q, <1>3 DEF InsertDefault, WellFormed
  <2>2. q \in Handler /\ q.op = request[r].op /\ q.node = request[r].node
        /\ q.step = "reselect"
    BY <1>q DEF Handler
  <2>3. WellFormed(q)
    BY <2>1, <2>2 DEF WellFormed
  <2>4. HandlerType'
    BY <1>t, <2>1, <2>3, HandlerStep
  <2> DEFINE n == request[r].node
             i == IF config[n] = None THEN Default ELSE config[n]
  <2>5. i \in Intervals \cup {None} /\ config' = [config EXCEPT ![n] = i]
        /\ held' = HeldWith(n, i) /\ UNCHANGED <<status, log, firmware, wish>>
    BY <1>c, <1>3, <2>1, SessionConstants DEF InsertDefault
  <2> HIDE DEF n, i
  <2>6. /\ config' \in [Nodes -> Intervals \cup {None}]
        /\ held' \in [Requests -> SUBSET (Intervals \cup {None})]
    BY <1>c, <1>w, <2>5
  <2> QED
    BY <1>c, <1>k, <2>4, <2>5, <2>6
<1>4. CASE Reselect(r)
  <2> DEFINE i == config[request[r].node]
             q == [request[r] EXCEPT !.step = "answer", !.body = i]
  <2>1. request[r].step = "reselect" /\ request[r].node \in Nodes
        /\ request[r].op # "summary" /\ request' = [request EXCEPT ![r] = q]
    BY <1>q, <1>4 DEF Reselect, WellFormed
  <2>2. i \in Intervals \cup {None}
    BY <1>c, <2>1
  <2> HIDE DEF i
  <2>3. q \in Handler /\ q.op = request[r].op /\ q.step = "answer"
    BY <1>q, <2>2 DEF Handler
  <2>4. WellFormed(q)
    BY <2>1, <2>3 DEF WellFormed
  <2>5. HandlerType'
    BY <1>t, <2>1, <2>4, HandlerStep
  <2> QED
    BY <1>c, <1>k, <1>4, <2>5 DEF Reselect, history
<1>5. CASE Answer(r)
  <2>1. HandlerType'
    BY <1>t, <1>5, IdleWellFormed, HandlerStep DEF Answer
  <2> QED
    BY <1>c, <1>k, <1>5, <2>1 DEF Answer, history
<1>6. CASE WriteConfig(r)
  <2> DEFINE n == request[r].node
             i == request[r].body
  <2>1. n \in Nodes /\ i \in Intervals \cup {None}
    BY <1>q, <1>6 DEF WriteConfig, WellFormed, Handler
  <2>2. /\ config' = [config EXCEPT ![n] = i] /\ wish' = [wish EXCEPT ![n] = i]
        /\ held' = HeldWith(n, i)
        /\ request' = [request EXCEPT ![r] = Idle] /\ UNCHANGED <<status, log, firmware>>
    BY <1>6 DEF WriteConfig
  <2> HIDE DEF n, i
  <2>3. /\ config' \in [Nodes -> Intervals \cup {None}] /\ wish' \in [Nodes -> Intervals \cup {None}]
        /\ held' \in [Requests -> SUBSET (Intervals \cup {None})]
    BY <1>c, <1>w, <2>1, <2>2
  <2>4. HandlerType'
    BY <1>t, <2>2, IdleWellFormed, HandlerStep
  <2> QED
    BY <1>k, <2>2, <2>3, <2>4
<1> QED
  BY <1>1, <1>2, <1>3, <1>4, <1>5, <1>6

\* Every step of the system keeps the types.
LEMMA TypeInductive == TypeInv /\ [Next]_vars => TypeInv'
<1> SUFFICES ASSUME TypeInv, [Next]_vars PROVE TypeInv'
  OBVIOUS
<1>t. RegistryType /\ FirmwareType /\ HandlerType
  BY DEF TypeInv
<1>r. ASSUME UNCHANGED <<status, config, history>>, log' \subseteq Messages PROVE RegistryType'
  BY <1>t, <1>r DEF RegistryType, history
<1>f. ASSUME UNCHANGED firmware PROVE FirmwareType'
  BY <1>t, <1>f DEF FirmwareType, firmware
<1>h. ASSUME UNCHANGED request PROVE HandlerType'
  BY <1>t, <1>h DEF HandlerType
<1>l. log \subseteq Messages /\ \A m \in Messages : Inserted(m) \subseteq Messages
  BY <1>t DEF RegistryType, Inserted
<1>q. ASSUME NEW n \in Nodes, NEW d \in Seq(Messages), Len(d) <= Capacity,
             queue' = [queue EXCEPT ![n] = d]
      PROVE  /\ queue' \in [Nodes -> Seq(Messages)]
             /\ \A k \in Nodes : Len(queue'[k]) <= Capacity
  BY <1>t, <1>q DEF FirmwareType
<1>s. ASSUME NEW n \in Nodes, NEW s \in Statuses, status' = [status EXCEPT ![n] = s],
             UNCHANGED <<config, log, wish>>, held' \in [Requests -> SUBSET (Intervals \cup {None})]
      PROVE RegistryType'
  BY <1>t, <1>s DEF RegistryType
<1>c. ASSUME request' = Changed PROVE HandlerType'
  BY <1>t, <1>c, ChangedTypes DEF HandlerType
<1>1. ASSUME NEW m \in Messages, Enqueue(m) PROVE TypeInv'
  <2>1. RegistryType' /\ HandlerType'
    BY <1>r, <1>h, <1>l, <1>1 DEF Enqueue
  <2>2. Sender[m] \in Nodes /\ made' = made \cup {m} /\ UNCHANGED <<link, reboots>>
    BY <1>1, SessionConstants DEF Enqueue
  <2>3. CASE queue' = queue
    BY <1>t, <2>1, <2>2, <2>3 DEF TypeInv, FirmwareType
  <2>4. CASE /\ queue' = [queue EXCEPT ![Sender[m]] = Append(queue[Sender[m]], m)]
             /\ Len(queue[Sender[m]]) < Capacity
    <3> DEFINE d == Append(queue[Sender[m]], m)
    <3>1. queue[Sender[m]] \in Seq(Messages)
      BY <1>t, <2>2 DEF FirmwareType
    <3>2. d \in Seq(Messages) /\ Len(d) <= Capacity
      BY <2>4, <3>1, SessionConstants
    <3>3. /\ queue' \in [Nodes -> Seq(Messages)]
          /\ \A k \in Nodes : Len(queue'[k]) <= Capacity
      BY <1>q, <2>2, <2>4, <3>2
    <3> QED
      BY <1>t, <2>1, <2>2, <2>4, <3>3 DEF TypeInv, FirmwareType
  <2>5. queue[Sender[m]] \in Seq(Messages)
    BY <1>t, <2>2 DEF FirmwareType
  <2> QED
    BY <1>1, <2>3, <2>4, <2>5, SessionConstants DEF Enqueue
<1>2. ASSUME NEW m \in Messages, Lose(m) PROVE TypeInv'
  BY <1>t, <1>r, <1>h, <1>l, <1>2 DEF Lose, TypeInv, FirmwareType
<1>3. ASSUME NEW m \in Messages, HandleMessage(m) PROVE TypeInv'
  BY <1>t, <1>r, <1>h, <1>l, <1>3 DEF HandleMessage, TypeInv, FirmwareType
<1>4. ASSUME NEW m \in Posted, (PostMessage(m) \/ CompatPost(m)) PROVE TypeInv'
  <2>1. m \in Messages
    BY SessionConstants
  <2> QED
    BY <1>t, <1>r, <1>f, <1>h, <1>l, <1>4, <2>1 DEF PostMessage, CompatPost, TypeInv
<1>5. ASSUME NEW n \in Nodes, FlushQueue(n) PROVE TypeInv'
  <2>1. RegistryType' /\ HandlerType'
    BY <1>r, <1>h, <1>l, <1>5 DEF FlushQueue
  <2>2. queue[n] \in Seq(Messages) /\ queue[n] # <<>> /\ Len(queue[n]) <= Capacity
    BY <1>t, <1>5 DEF FirmwareType, FlushQueue
  <2>3. Head(queue[n]) \in Messages /\ Tail(queue[n]) \in Seq(Messages)
        /\ Len(Tail(queue[n])) <= Capacity
    BY <2>2, SessionConstants
  <2>4. queue' = queue \/ queue' = [queue EXCEPT ![n] = Tail(queue[n])]
    BY <1>5 DEF FlushQueue
  <2>5. /\ queue' \in [Nodes -> Seq(Messages)]
        /\ \A k \in Nodes : Len(queue'[k]) <= Capacity
    BY <1>t, <1>q, <2>3, <2>4 DEF FirmwareType
  <2>6. link' \subseteq Messages /\ UNCHANGED <<made, reboots>>
    BY <1>t, <1>5, <2>3 DEF FlushQueue, FirmwareType
  <2> QED
    BY <1>t, <2>1, <2>5, <2>6 DEF TypeInv, FirmwareType
<1>6. ASSUME NEW n \in Nodes, Reboot(n) PROVE TypeInv'
  <2>1. RegistryType' /\ HandlerType'
    BY <1>r, <1>h, <1>l, <1>6 DEF Reboot
  <2>2. <<>> \in Seq(Messages) /\ Len(<<>>) <= Capacity
    BY SessionConstants
  <2>3. reboots' \in 0..MaxReboots
    BY <1>t, <1>6, SessionConstants DEF Reboot, FirmwareType
  <2>4. /\ queue' \in [Nodes -> Seq(Messages)]
        /\ \A k \in Nodes : Len(queue'[k]) <= Capacity
    BY <1>q, <1>6, <2>2 DEF Reboot
  <2> QED
    BY <1>t, <1>6, <2>1, <2>3, <2>4 DEF TypeInv, FirmwareType, Reboot
<1>7. ASSUME NEW n \in Nodes, NEW s \in Statuses, SetStatus(n, s) PROVE TypeInv'
  <2>1. held' \in [Requests -> SUBSET (Intervals \cup {None})]
    BY <1>t, <1>7 DEF SetStatus, history, RegistryType
  <2> QED
    BY <1>s, <1>c, <1>f, <1>7, <2>1 DEF SetStatus, history, TypeInv
<1>8. ASSUME NEW n \in Nodes, HandleHello(n) PROVE TypeInv'
  <2>1. "online" \in Statuses /\ held' \in [Requests -> SUBSET (Intervals \cup {None})]
    BY <1>t, <1>8 DEF Statuses, HandleHello, history, RegistryType
  <2> QED
    BY <1>s, <1>c, <1>f, <1>8, <2>1 DEF HandleHello, history, TypeInv
<1>9. ASSUME NEW r \in Requests, NEW n \in Nodes, NEW step \in {"select", "insert"},
             Greet(r, n, step)
      PROVE  TypeInv'
  <2> DEFINE q == [Idle EXCEPT !.op = "hello", !.step = step, !.node = n]
  <2>1. q \in Handler
    BY IdleWellFormed DEF WellFormed, Handler
  <2>2. WellFormed(q)
    BY <2>1 DEF WellFormed, Idle
  <2>3. request' = [Changed EXCEPT ![r] = q] /\ status' = [status EXCEPT ![n] = "online"]
        /\ UNCHANGED <<config, log, firmware, wish>>
    BY <1>9 DEF Greet
  <2>4. HandlerType'
    BY <1>t, <2>2, <2>3, ChangedTypes DEF HandlerType, WellFormed
  <2>5. "online" \in Statuses
    BY DEF Statuses
  <2>6. held' \in [Requests -> SUBSET (Intervals \cup {None})]
    <3>1. held' = [held EXCEPT ![r] = {config[n]}] /\ config[n] \in Intervals \cup {None}
      BY <1>t, <1>9 DEF Greet, RegistryType
    <3> QED
      BY <1>t, <3>1 DEF RegistryType
  <2> QED
    BY <1>s, <1>f, <2>3, <2>4, <2>5, <2>6 DEF TypeInv
<1>10. ASSUME NEW r \in Requests,
              \/ \E n \in Nodes, i \in Intervals : PatchConfig(r, n, i)
              \/ SelectConfig(r) \/ InsertDefault(r) \/ Reselect(r) \/ Answer(r)
              \/ WriteConfig(r)
       PROVE  TypeInv'
  BY <1>10, ConfigTypes
<1>11. ASSUME NEW r \in Requests, StartSummary(r) \/ CountNext(r) PROVE TypeInv'
  <2>1. HandlerType'
    BY <1>11, CountTypes
  <2> QED
    BY <1>r, <1>f, <1>l, <1>11, <2>1 DEF StartSummary, CountNext, TypeInv
<1>12. CASE UNCHANGED vars
  BY <1>r, <1>f, <1>h, <1>l, <1>12 DEF vars, TypeInv
<1> QED
  BY <1>1, <1>2, <1>3, <1>4, <1>5, <1>6, <1>7, <1>8, <1>9, <1>10, <1>11, <1>12
      DEF Next, NodeHello, CompatHello

\* The initial state is well typed.
LEMMA InitialTypes == Init => TypeInv
<1> SUFFICES ASSUME Init PROVE TypeInv
  OBVIOUS
<1>1. RegistryType
  BY DEF Init, RegistryType
<1>2. FirmwareType
  BY SessionConstants DEF Init, FirmwareType
<1>3. HandlerType
  BY IdleWellFormed DEF Init, HandlerType, WellFormed
<1> QED
  BY <1>1, <1>2, <1>3 DEF TypeInv

\* The types hold always.
LEMMA TypesCorrect == Spec => []TypeInv
  BY InitialTypes, TypeInductive, PTL DEF Spec

\* Every reachable state is well typed, and no queue is longer than its capacity.
THEOREM SessionTypeCorrect == Spec => []TypeOK
  BY TypesCorrect, TypeParts, PTL

-----------------------------------------------------------------------------
(* The configuration that operators set                                     *)

\* Only WriteConfig and the default of a hello write a row, and the default only
\* where there is none.
LEMMA PatchInductive == TypeInv /\ PatchIsKept /\ [Next]_vars => PatchIsKept'
<1> SUFFICES ASSUME TypeInv, PatchIsKept, [Next]_vars PROVE PatchIsKept'
  OBVIOUS
<1>k. ASSUME UNCHANGED <<config, wish>> PROVE PatchIsKept'
  BY <1>k DEF PatchIsKept
<1>t. /\ config \in [Nodes -> Intervals \cup {None}] /\ wish \in [Nodes -> Intervals \cup {None}]
      /\ \A r \in Requests : WellFormed(request[r])
  BY DEF TypeInv, RegistryType, HandlerType
<1>1. ASSUME NEW m \in Messages \cup Posted,
             Enqueue(m) \/ Lose(m) \/ HandleMessage(m) \/ (PostMessage(m) \/ CompatPost(m))
      PROVE  PatchIsKept'
  BY <1>k, <1>1 DEF Enqueue, Lose, HandleMessage, PostMessage, CompatPost, history
<1>2. ASSUME NEW n \in Nodes,
             \/ FlushQueue(n) \/ Reboot(n) \/ HandleHello(n)
             \/ \E s \in Statuses : SetStatus(n, s)
      PROVE  PatchIsKept'
  BY <1>k, <1>2 DEF FlushQueue, Reboot, HandleHello, SetStatus, history
<1>3. ASSUME NEW r \in Requests,
             \/ \E n \in Nodes, step \in {"select", "insert"} : Greet(r, n, step)
             \/ \E n \in Nodes, i \in Intervals : PatchConfig(r, n, i)
             \/ SelectConfig(r) \/ Reselect(r) \/ Answer(r)
             \/ StartSummary(r) \/ CountNext(r)
      PROVE  PatchIsKept'
  BY <1>k, <1>3 DEF Greet, PatchConfig, SelectConfig, Reselect, Answer, StartSummary,
                    CountNext, history
<1>4. ASSUME NEW r \in Requests, InsertDefault(r) PROVE PatchIsKept'
  <2> DEFINE n == request[r].node
  <2>1. wish' = wish /\ config' = [config EXCEPT ![n] = IF config[n] = None THEN Default
                                                       ELSE config[n]]
    BY <1>4 DEF InsertDefault
  <2> HIDE DEF n
  <2> QED
    BY <1>t, <2>1 DEF PatchIsKept
<1>5. ASSUME NEW r \in Requests, WriteConfig(r) PROVE PatchIsKept'
  <2> DEFINE n == request[r].node
             i == request[r].body
  <2>1. wish' = [wish EXCEPT ![n] = i] /\ config' = [config EXCEPT ![n] = i]
    BY <1>5 DEF WriteConfig
  <2> HIDE DEF n, i
  <2> QED
    BY <1>t, <2>1 DEF PatchIsKept
<1>6. CASE UNCHANGED vars
  BY <1>k, <1>6 DEF vars, history
<1> QED
  BY <1>1, <1>2, <1>3, <1>4, <1>5, <1>6
      DEF Next, NodeHello, CompatHello

\* An interval that PATCH stored is not reset by a hello that looked before.
THEOREM SessionPatchIsKept == Spec => []PatchIsKept
<1>1. Init => PatchIsKept
  BY DEF Init, PatchIsKept
<1> QED
  BY <1>1, TypesCorrect, PatchInductive, PTL DEF Spec

-----------------------------------------------------------------------------
(* What a hello tells its node                                              *)

\* A hello has held what its node's row holds; once it has inserted the default
\* there is something to hold, and its answer is one of the intervals it has held.
\* Whoever writes has an interval to write.
Told(r) ==
    LET q == request[r]
    IN /\ q.step \in {"select", "insert", "reselect"} => q.op = "hello"
       /\ q.step = "write" => q.op = "patch" /\ q.body \in Intervals
       /\ q.op = "hello" =>
             /\ q.node \in Nodes /\ config[q.node] \in held[r]
             /\ q.step = "reselect" => config[q.node] # None
             /\ q.step = "answer" => q.body \in held[r] \ {None}
HeldInv == \A r \in Requests : Told(r)

\* A step of one handler that leaves the configuration alone.
LEMMA HandlerTold ==
  ASSUME TypeInv, HeldInv, NEW r \in Requests, NEW q, request' = [request EXCEPT ![r] = q],
         UNCHANGED config, \A x \in Requests \ {r} : held'[x] = held[x], Told(r)'
  PROVE  HeldInv'
<1> SUFFICES ASSUME NEW x \in Requests, x # r PROVE Told(x)'
  BY DEF HeldInv
<1>1. request'[x] = request[x] /\ held'[x] = held[x]
  BY DEF TypeInv, HandlerType
<1>2. Told(x)
  BY DEF HeldInv
<1> QED
  BY <1>1, <1>2 DEF Told

\* A step of one handler that writes an interval.
LEMMA WriterTold ==
  ASSUME TypeInv, HeldInv, NEW r \in Requests, NEW q, request' = [request EXCEPT ![r] = q],
         NEW n \in Nodes, NEW i \in Intervals, config' = [config EXCEPT ![n] = i],
         held' = HeldWith(n, i),
         \/ q.op = "none" /\ q.step = "none"
         \/ /\ request[r].op = "hello" /\ request[r].node = n
            /\ q.op = "hello" /\ q.node = n /\ q.step = "reselect"
  PROVE  HeldInv'
<1> SUFFICES ASSUME NEW x \in Requests PROVE Told(x)'
  BY DEF HeldInv
<1>t. /\ config \in [Nodes -> Intervals \cup {None}] /\ request \in [Requests -> Handler]
      /\ None \notin Intervals
  BY SessionConstants DEF TypeInv, RegistryType, HandlerType
<1>1. Told(x) /\ Told(r)
  BY DEF HeldInv
<1>2. held'[x] = IF request[x].op = "hello" /\ request[x].node = n THEN held[x] \cup {i}
                 ELSE held[x]
  BY DEF HeldWith
<1>3. \A m \in Nodes : config'[m] = IF m = n THEN i ELSE config[m]
  BY <1>t
<1>4. CASE x # r
  <2>1. request'[x] = request[x]
    BY <1>t, <1>4
  <2> QED
    BY <1>t, <1>1, <1>2, <1>3, <2>1 DEF Told
<1>5. CASE x = r /\ q.op = "none" /\ q.step = "none"
  <2>1. request'[x] = q
    BY <1>t, <1>5
  <2> QED
    BY <1>5, <2>1 DEF Told
<1>6. CASE /\ x = r /\ request[r].op = "hello" /\ request[r].node = n
           /\ q.op = "hello" /\ q.node = n /\ q.step = "reselect"
  <2>1. request'[x] = q /\ config'[n] = i /\ i \in held'[x] /\ i # None
    BY <1>t, <1>2, <1>3, <1>6
  <2> QED
    BY <1>6, <2>1 DEF Told
<1> QED
  BY <1>4, <1>5, <1>6

\* Hellos, PATCHes and summaries in any order keep what is told in what is held.
LEMMA HeldInductive == TypeInv /\ HeldInv /\ [Next]_vars => HeldInv'
<1> SUFFICES ASSUME TypeInv, HeldInv, [Next]_vars PROVE HeldInv'
  OBVIOUS
<1>t. /\ config \in [Nodes -> Intervals \cup {None}] /\ request \in [Requests -> Handler]
      /\ held \in [Requests -> SUBSET (Intervals \cup {None})]
      /\ \A r \in Requests : WellFormed(request[r]) /\ Told(r)
      /\ Default \in Intervals /\ None \notin Intervals
  BY SessionConstants DEF TypeInv, RegistryType, HandlerType, HeldInv
<1>k. ASSUME UNCHANGED <<config, held>>, request' = request \/ request' = Changed
      PROVE  HeldInv'
  <2> SUFFICES ASSUME NEW x \in Requests PROVE Told(x)'
    BY DEF HeldInv
  <2>1. CASE request'[x] = request[x]
    BY <1>t, <1>k, <2>1 DEF Told
  <2>2. CASE request' = Changed /\ request[x].op # "summary"
    BY <2>1, <2>2 DEF Changed
  <2>3. CASE request' = Changed /\ request[x].op = "summary"
    <3>1. request'[x].op = "summary" /\ request'[x].step = request[x].step
      BY <2>3, ChangedTypes DEF TypeInv
    <3> QED
      BY <1>t, <2>3, <3>1 DEF Told, WellFormed
  <2> QED
    BY <1>k, <2>1, <2>2, <2>3
<1>1. ASSUME NEW m \in Messages \cup Posted,
             Enqueue(m) \/ Lose(m) \/ HandleMessage(m) \/ PostMessage(m) \/ CompatPost(m)
      PROVE  HeldInv'
  BY <1>k, <1>1 DEF Enqueue, Lose, HandleMessage, PostMessage, CompatPost, history
<1>2. ASSUME NEW n \in Nodes,
             \/ FlushQueue(n) \/ Reboot(n) \/ HandleHello(n)
             \/ \E s \in Statuses : SetStatus(n, s)
      PROVE  HeldInv'
  BY <1>k, <1>2 DEF FlushQueue, Reboot, HandleHello, SetStatus, history
<1>3. ASSUME NEW r \in Requests, NEW n \in Nodes, NEW step \in {"select", "insert"},
             Greet(r, n, step)
      PROVE  HeldInv'
  <2> DEFINE q == [Idle EXCEPT !.op = "hello", !.step = step, !.node = n]
  <2>1. request[r] = Idle /\ request' = [Changed EXCEPT ![r] = q]
        /\ held' = [held EXCEPT ![r] = {config[n]}] /\ config' = config
    BY <1>3 DEF Greet
  <2>2. q.op = "hello" /\ q.step = step /\ q.node = n
    BY DEF Idle
  <2> HIDE DEF q
  <2> SUFFICES ASSUME NEW x \in Requests PROVE Told(x)'
    BY DEF HeldInv
  <2>3. CASE x = r
    <3>1. request'[x] = q /\ config[n] \in held'[x]
      BY <1>t, <2>1, <2>3, ChangedTypes DEF TypeInv
    <3> QED
      BY <2>1, <2>2, <3>1 DEF Told
  <2>4. CASE x # r
    <3>1. request'[x] = Changed[x] /\ held'[x] = held[x]
      BY <1>t, <2>1, <2>4, ChangedTypes DEF TypeInv
    <3>2. request[x].op # "summary" => Changed[x] = request[x]
      BY DEF Changed
    <3>3. Changed[x].op = request[x].op /\ Changed[x].step = request[x].step
      BY ChangedTypes DEF TypeInv
    <3> QED
      BY <1>t, <2>1, <3>1, <3>2, <3>3 DEF Told, WellFormed
  <2> QED
    BY <2>3, <2>4
<1>4. ASSUME NEW r \in Requests, NEW n \in Nodes, NEW i \in Intervals, PatchConfig(r, n, i)
      PROVE  HeldInv'
  <2> DEFINE q == [Idle EXCEPT !.op = "patch", !.step = "write", !.node = n, !.body = i]
  <2>1. request' = [request EXCEPT ![r] = q] /\ UNCHANGED <<config, held>>
    BY <1>4 DEF PatchConfig, history
  <2>2. q.op = "patch" /\ q.step = "write" /\ q.body = i
    BY DEF Idle
  <2> HIDE DEF q
  <2>3. Told(r)'
    BY <1>t, <2>1, <2>2 DEF Told
  <2> QED
    BY <2>1, <2>3, HandlerTold
<1>5. ASSUME NEW r \in Requests, SelectConfig(r) PROVE HeldInv'
  <2> DEFINE i == config[request[r].node]
             q == [request[r] EXCEPT !.step = IF i = None THEN "insert" ELSE "answer",
                                     !.body = i]
  <2>1. /\ request[r].step = "select" /\ request' = [request EXCEPT ![r] = q]
        /\ UNCHANGED <<config, held>>
    BY <1>5 DEF SelectConfig, history
  <2>2. /\ q.op = request[r].op /\ q.node = request[r].node /\ q.body = i
        /\ q.step = IF i = None THEN "insert" ELSE "answer"
    BY <1>t DEF Handler
  <2>3. request[r].op = "hello" /\ request[r].node \in Nodes /\ i \in held[r]
    BY <1>t, <2>1 DEF Told
  <2> HIDE DEF q
  <2>4. request'[r] = q /\ config'[q.node] = i /\ held'[r] = held[r]
    BY <1>t, <2>1, <2>2
  <2> HIDE DEF i
  <2>5. Told(r)'
    BY <2>2, <2>3, <2>4 DEF Told
  <2> QED
    BY <2>1, <2>5, HandlerTold
<1>6. ASSUME NEW r \in Requests, InsertDefault(r) PROVE HeldInv'
  <2> DEFINE n == request[r].node
             i == IF config[n] = None THEN Default ELSE config[n]
             q == [request[r] EXCEPT !.step = "reselect"]
  <2>1. /\ request[r].step = "insert" /\ request' = [request EXCEPT ![r] = q]
        /\ config' = [config EXCEPT ![n] = i] /\ held' = HeldWith(n, i)
    BY <1>6 DEF InsertDefault
  <2>2. request[r].op = "hello" /\ n \in Nodes
    BY <1>t, <2>1 DEF Told
  <2>3. i \in Intervals
    BY <1>t, <2>2
  <2>4. q.op = "hello" /\ q.node = n /\ q.step = "reselect"
    BY <1>t, <2>2 DEF Handler
  <2>5. request[r].node = n
    OBVIOUS
  <2> HIDE DEF n, i, q
  <2> QED
    BY <2>1, <2>2, <2>3, <2>4, <2>5, WriterTold
<1>7. ASSUME NEW r \in Requests, Reselect(r) PROVE HeldInv'
  <2> DEFINE i == config[request[r].node]
             q == [request[r] EXCEPT !.step = "answer", !.body = i]
  <2>1. /\ request[r].step = "reselect" /\ request' = [request EXCEPT ![r] = q]
        /\ UNCHANGED <<config, held>>
    BY <1>7 DEF Reselect, history
  <2>2. q.op = request[r].op /\ q.node = request[r].node /\ q.body = i /\ q.step = "answer"
    BY <1>t DEF Handler
  <2>3. /\ request[r].op = "hello" /\ request[r].node \in Nodes
        /\ i \in held[r] /\ i # None
    BY <1>t, <2>1 DEF Told
  <2> HIDE DEF q
  <2>4. request'[r] = q /\ config'[q.node] = i /\ held'[r] = held[r]
    BY <1>t, <2>1, <2>2
  <2> HIDE DEF i
  <2>5. Told(r)'
    BY <2>2, <2>3, <2>4 DEF Told
  <2> QED
    BY <2>1, <2>5, HandlerTold
<1>8. ASSUME NEW r \in Requests, Answer(r) PROVE HeldInv'
  <2>1. /\ request' = [request EXCEPT ![r] = Idle] /\ config' = config
        /\ held' = [held EXCEPT ![r] = {}]
    BY <1>8 DEF Answer
  <2>2. Told(r)'
    BY <1>t, <2>1 DEF Told, Idle
  <2>3. \A x \in Requests \ {r} : held'[x] = held[x]
    BY <1>t, <2>1
  <2> QED
    BY <2>1, <2>2, <2>3, HandlerTold
<1>9. ASSUME NEW r \in Requests, WriteConfig(r) PROVE HeldInv'
  <2> DEFINE n == request[r].node
             i == request[r].body
  <2>1. /\ request[r].step = "write" /\ request' = [request EXCEPT ![r] = Idle]
        /\ config' = [config EXCEPT ![n] = i] /\ held' = HeldWith(n, i)
    BY <1>9 DEF WriteConfig
  <2>2. n \in Nodes /\ i \in Intervals
    BY <1>t, <2>1 DEF Told, WellFormed
  <2>3. Idle.op = "none" /\ Idle.step = "none"
    BY DEF Idle
  <2> HIDE DEF n, i
  <2> QED
    BY <2>1, <2>2, <2>3, WriterTold
<1>10. ASSUME NEW r \in Requests, StartSummary(r) \/ CountNext(r) PROVE HeldInv'
  <2>1. /\ UNCHANGED <<config, held>>
        /\ \E q : request' = [request EXCEPT ![r] = q]
    BY <1>10 DEF StartSummary, CountNext, history
  <2>2. request'[r].op = "summary" /\ request'[r].step \in {"count", "answer"}
    <3>1. WellFormed(request'[r])
      BY <1>10, CountTypes DEF HandlerType
    <3>2. request'[r].op = "summary"
      <4>1. CASE StartSummary(r)
        BY <1>t, <4>1 DEF StartSummary, Idle
      <4>2. CASE CountNext(r)
        <5>1. request[r].op = "summary" /\ request[r] \in Handler
          BY <1>t, <4>2 DEF CountNext, WellFormed
        <5>2. \E c, s : request'[r] = [request[r] EXCEPT !.counts = c, !.step = s]
          BY <1>t, <4>2 DEF CountNext
        <5> QED
          BY <5>1, <5>2 DEF Handler
      <4> QED
        BY <1>10, <4>1, <4>2
    <3> QED
      BY <3>1, <3>2 DEF WellFormed
  <2>3. Told(r)'
    BY <2>2 DEF Told
  <2> QED
    BY <2>1, <2>3, HandlerTold
<1>11. CASE UNCHANGED vars
  BY <1>k, <1>11 DEF vars, history
<1> QED
  BY <1>1, <1>2, <1>3, <1>4, <1>5, <1>6, <1>7, <1>8, <1>9, <1>10, <1>11
      DEF Next, NodeHello, CompatHello

\* A hello tells its node an interval that its row held since the hello began,
\* whatever other hellos and PATCHes came between its statements (node_hello,
\* compat_hello).
THEOREM SessionHelloTellsTheStored == Spec => []HelloTellsTheStored
<1>1. Init => HeldInv
  BY DEF Init, HeldInv, Told, Idle
<1>2. HeldInv => HelloTellsTheStored
  BY DEF HeldInv, Told, HelloTellsTheStored
<1> QED
  BY <1>1, <1>2, TypesCorrect, HeldInductive, PTL DEF Spec

-----------------------------------------------------------------------------
(* The counts of a summary                                                  *)

\* What the counts so far and the registry still owe each other: it is inductive
\* as the sum of the three counts is not.
NearlyAdds(r) ==
    LET c == request[r].counts
        d == request[r].changes
    IN  request[r].op = "summary" =>
           /\ Len(c) = 1 => HowMany({"online"}) + HowMany({"offline"}) <= c[1] + d
           /\ Len(c) = 2 => c[2] + HowMany({"offline"}) <= c[1] + d
           /\ Len(c) = 3 => c[2] + c[3] <= c[1] + d
CountInv == \A r \in Requests : NearlyAdds(r)

\* The cardinality of two finite sets that have nothing in common.
LEMMA DisjointUnion ==
  ASSUME NEW S, NEW T, IsFiniteSet(S), IsFiniteSet(T), S \cap T = {}
  PROVE  Cardinality(S \cup T) = Cardinality(S) + Cardinality(T)
<1>1. Cardinality(S \cup T) = Cardinality(S) + Cardinality(T) - Cardinality(S \cap T)
  BY FS_Union
<1>2. Cardinality(S \cap T) = 0
  BY FS_EmptySet
<1>3. Cardinality(S) \in Nat /\ Cardinality(T) \in Nat
  BY FS_CardinalityType
<1> QED
  BY <1>1, <1>2, <1>3

\* The nodes online and offline are among those that are not retired.
LEMMA InServiceType ==
  HowMany({"online"}) + HowMany({"offline"}) <= HowMany(Statuses \ {"retired"})
<1> DEFINE In(S) == {n \in Nodes : status[n] \in S}
<1>1. \A S : IsFiniteSet(In(S)) /\ Cardinality(In(S)) \in Nat /\ HowMany(S) = Cardinality(In(S))
  BY HowManyType DEF HowMany
<1>2. In({"online"}) \cap In({"offline"}) = {}
  OBVIOUS
<1>3. In({"online"}) \cup In({"offline"}) \in SUBSET In(Statuses \ {"retired"})
  BY DEF Statuses
<1> HIDE DEF In
<1>4. Cardinality(In({"online"}) \cup In({"offline"}))
         = Cardinality(In({"online"})) + Cardinality(In({"offline"}))
  BY <1>1, <1>2, DisjointUnion
<1>5. Cardinality(In({"online"}) \cup In({"offline"})) <= Cardinality(In(Statuses \ {"retired"}))
  BY <1>1, <1>3, FS_Subset
<1> QED
  BY <1>1, <1>4, <1>5

\* One status changed adds at most one node to those with a status, and at most
\* one to those with either of two.
LEMMA ChangeAddsOne ==
  ASSUME TypeInv, NEW n \in Nodes, NEW s, status' = [status EXCEPT ![n] = s]
  PROVE  /\ HowMany({"offline"})' <= HowMany({"offline"}) + 1
         /\ HowMany({"online"})' + HowMany({"offline"})'
               <= HowMany({"online"}) + HowMany({"offline"}) + 1
         /\ HowMany({"online"})' \in Nat /\ HowMany({"offline"})' \in Nat
<1> DEFINE In(S) == {k \in Nodes : status[k] \in S}
           After(S) == {k \in Nodes : status'[k] \in S}
<1>1. \A S : IsFiniteSet(In(S)) /\ Cardinality(In(S)) \in Nat /\ HowMany(S) = Cardinality(In(S))
  BY HowManyType DEF HowMany
<1>2. \A S : HowMany(S)' = Cardinality(After(S))
  BY DEF HowMany
<1>3. \A S : IsFiniteSet(After(S)) /\ Cardinality(After(S)) \in Nat
  <2> SUFFICES ASSUME NEW S PROVE IsFiniteSet(After(S)) /\ Cardinality(After(S)) \in Nat
    OBVIOUS
  <2>1. After(S) \in SUBSET Nodes
    OBVIOUS
  <2> QED
    BY <2>1, SessionConstants, FS_Subset, FS_CardinalityType
<1>4. ASSUME NEW S PROVE Cardinality(After(S)) <= Cardinality(In(S)) + 1
  <2>1. After(S) \in SUBSET (In(S) \cup {n})
    BY DEF TypeInv, RegistryType
  <2> HIDE DEF In, After
  <2>2. /\ IsFiniteSet(In(S) \cup {n})
        /\ Cardinality(In(S) \cup {n}) = IF n \in In(S) THEN Cardinality(In(S))
                                         ELSE Cardinality(In(S)) + 1
    BY <1>1, FS_AddElement
  <2>3. Cardinality(After(S)) <= Cardinality(In(S) \cup {n})
    BY <2>1, <2>2, FS_Subset
  <2> QED
    BY <1>1, <1>3, <2>2, <2>3
<1>5. /\ In({"online"}) \cap In({"offline"}) = {}
      /\ In({"online"}) \cup In({"offline"}) = In({"online", "offline"})
      /\ After({"online"}) \cap After({"offline"}) = {}
      /\ After({"online"}) \cup After({"offline"}) = After({"online", "offline"})
  OBVIOUS
<1> HIDE DEF In, After
<1>6. /\ Cardinality(In({"online", "offline"}))
            = Cardinality(In({"online"})) + Cardinality(In({"offline"}))
      /\ Cardinality(After({"online", "offline"}))
            = Cardinality(After({"online"})) + Cardinality(After({"offline"}))
  <2>1. Cardinality(In({"online"}) \cup In({"offline"}))
           = Cardinality(In({"online"})) + Cardinality(In({"offline"}))
    BY <1>1, <1>5, DisjointUnion
  <2>2. Cardinality(After({"online"}) \cup After({"offline"}))
           = Cardinality(After({"online"})) + Cardinality(After({"offline"}))
    BY <1>3, <1>5, DisjointUnion
  <2> QED
    BY <1>5, <2>1, <2>2
<1> QED
  BY <1>1, <1>2, <1>3, <1>4, <1>6

\* Every step keeps what the counts and the registry owe each other.
LEMMA CountInductive == TypeInv /\ CountInv /\ [Next]_vars => CountInv'
<1> SUFFICES ASSUME TypeInv, CountInv, [Next]_vars PROVE CountInv'
  OBVIOUS
<1>t. /\ request \in [Requests -> Handler] /\ HandlerType
      /\ \A r \in Requests : WellFormed(request[r])
  BY DEF TypeInv, HandlerType
<1>a. HowMany({"online"}) \in Nat /\ HowMany({"offline"}) \in Nat
  BY HowManyType
<1>i. ASSUME NEW q \in Requests, request[q].op = "summary"
      PROVE  /\ request[q].counts \in Seq(Nat) /\ request[q].changes \in Nat
             /\ Len(request[q].counts) \in 1..3
             /\ \A i \in 1..Len(request[q].counts) : request[q].counts[i] \in Nat
             /\ request[q].step = "count" => Len(request[q].counts) \in {1, 2}
             /\ NearlyAdds(q)
  BY <1>t, <1>i DEF CountInv, WellFormed, Handler
\* The handlers that are not summaries, or are left as they are.
<1>k. ASSUME UNCHANGED status,
             \A q \in Requests : request'[q] = request[q] \/ request'[q].op # "summary"
      PROVE  CountInv'
  <2> SUFFICES ASSUME NEW q \in Requests PROVE NearlyAdds(q)'
    BY DEF CountInv
  <2>1. NearlyAdds(q)
    BY DEF CountInv
  <2> QED
    BY <1>k, <2>1 DEF NearlyAdds, HowMany
<1>u. ASSUME NEW r \in Requests, NEW q, request' = [request EXCEPT ![r] = q],
             q.op # "summary", UNCHANGED status
      PROVE  CountInv'
  BY <1>t, <1>k, <1>u
\* One status changes, and the summaries under way are told.
<1>c. ASSUME NEW n \in Nodes, NEW s, status' = [status EXCEPT ![n] = s],
             \A q \in Requests : request'[q] = Changed[q] \/ request'[q].op # "summary"
      PROVE  CountInv'
  <2> SUFFICES ASSUME NEW q \in Requests, request'[q].op = "summary" PROVE NearlyAdds(q)'
    BY DEF CountInv, NearlyAdds
  <2>1. /\ request[q].op = "summary" /\ request'[q].counts = request[q].counts
        /\ request'[q].changes = request[q].changes + 1
    BY <1>t, <1>c, ChangedTypes
  <2>2. /\ HowMany({"offline"})' <= HowMany({"offline"}) + 1
        /\ HowMany({"online"})' + HowMany({"offline"})'
              <= HowMany({"online"}) + HowMany({"offline"}) + 1
        /\ HowMany({"online"})' \in Nat /\ HowMany({"offline"})' \in Nat
    BY <1>c, ChangeAddsOne
  <2> DEFINE c == request[q].counts
             d == request[q].changes
  <2>3. /\ Len(c) = 1 => HowMany({"online"}) + HowMany({"offline"}) <= c[1] + d
        /\ Len(c) = 2 => c[2] + HowMany({"offline"}) <= c[1] + d
        /\ Len(c) = 3 => c[2] + c[3] <= c[1] + d
    BY <1>i, <2>1 DEF NearlyAdds
  <2>4. d \in Nat /\ Len(c) \in 1..3 /\ \A i \in 1..Len(c) : c[i] \in Nat
    BY <1>i, <2>1
  <2> HIDE DEF c, d
  <2>5. Len(c) = 1 => HowMany({"online"})' + HowMany({"offline"})' <= c[1] + (d + 1)
    BY <1>a, <2>2, <2>3, <2>4
  <2>6. Len(c) = 2 => c[2] + HowMany({"offline"})' <= c[1] + (d + 1)
    BY <1>a, <2>2, <2>3, <2>4
  <2>7. Len(c) = 3 => c[2] + c[3] <= c[1] + (d + 1)
    BY <2>3, <2>4
  <2> QED
    BY <2>1, <2>5, <2>6, <2>7 DEF NearlyAdds, c, d
<1>1. ASSUME NEW m \in Messages \cup Posted,
             Enqueue(m) \/ Lose(m) \/ HandleMessage(m) \/ (PostMessage(m) \/ CompatPost(m))
      PROVE  CountInv'
  BY <1>k, <1>1 DEF Enqueue, Lose, HandleMessage, PostMessage, CompatPost
<1>2. ASSUME NEW n \in Nodes, FlushQueue(n) \/ Reboot(n) PROVE CountInv'
  BY <1>k, <1>2 DEF FlushQueue, Reboot
<1>3. ASSUME NEW n \in Nodes, HandleHello(n) \/ \E s \in Statuses : SetStatus(n, s)
      PROVE  CountInv'
  BY <1>c, <1>3 DEF HandleHello, SetStatus
<1>4. ASSUME NEW r \in Requests, NEW n \in Nodes, NEW step \in {"select", "insert"},
             Greet(r, n, step)
      PROVE  CountInv'
  <2> DEFINE q == [Idle EXCEPT !.op = "hello", !.step = step, !.node = n]
  <2>1. request' = [Changed EXCEPT ![r] = q] /\ status' = [status EXCEPT ![n] = "online"]
    BY <1>4 DEF Greet
  <2>2. q.op = "hello"
    BY DEF Idle
  <2>3. Changed \in [Requests -> Handler]
    BY <1>t, ChangedTypes
  <2> HIDE DEF q
  <2>4. \A k \in Requests : request'[k] = Changed[k] \/ request'[k].op # "summary"
    BY <2>1, <2>2, <2>3
  <2> QED
    BY <1>c, <2>1, <2>4
<1>5. ASSUME NEW r \in Requests, NEW n \in Nodes, NEW i \in Intervals, PatchConfig(r, n, i)
      PROVE  CountInv'
  <2> DEFINE q == [Idle EXCEPT !.op = "patch", !.step = "write", !.node = n, !.body = i]
  <2>1. request' = [request EXCEPT ![r] = q] /\ UNCHANGED status
    BY <1>5 DEF PatchConfig
  <2>2. q.op = "patch"
    BY DEF Idle
  <2> HIDE DEF q
  <2> QED
    BY <1>u, <2>1, <2>2
<1>6. ASSUME NEW r \in Requests, SelectConfig(r) \/ InsertDefault(r) \/ Reselect(r)
      PROVE  CountInv'
  <2>1. request[r].step \in {"select", "insert", "reselect"} /\ UNCHANGED status
    BY <1>6 DEF SelectConfig, InsertDefault, Reselect
  <2>2. request[r] \in Handler /\ request[r].op # "summary"
    BY <1>t, <2>1 DEF WellFormed
  <2>3. \E b, t : request' = [request EXCEPT ![r].step = t, ![r].body = b]
                \/ request' = [request EXCEPT ![r].step = t]
    BY <1>6 DEF SelectConfig, InsertDefault, Reselect
  <2>4. request'[r].op = request[r].op
        /\ \A k \in Requests : k # r => request'[k] = request[k]
    BY <1>t, <2>2, <2>3 DEF Handler
  <2> QED
    BY <1>k, <2>1, <2>2, <2>4
<1>7. ASSUME NEW r \in Requests, Answer(r) \/ WriteConfig(r) PROVE CountInv'
  <2>1. request' = [request EXCEPT ![r] = Idle] /\ UNCHANGED status
    BY <1>7 DEF Answer, WriteConfig
  <2>2. Idle.op # "summary"
    BY DEF Idle
  <2> QED
    BY <1>u, <2>1, <2>2
<1>8. ASSUME NEW r \in Requests, StartSummary(r) PROVE CountInv'
  <2> DEFINE h == HowMany(Statuses \ {"retired"})
             q == [Idle EXCEPT !.op = "summary", !.step = "count", !.counts = <<h>>]
  <2>1. request' = [request EXCEPT ![r] = q] /\ UNCHANGED status
    BY <1>8 DEF StartSummary, Counted
  <2>2. h \in Nat /\ HowMany({"online"}) + HowMany({"offline"}) <= h
    BY HowManyType, InServiceType
  <2>3. q.counts = <<h>> /\ q.changes = 0
    BY DEF Idle
  <2> HIDE DEF h, q
  <2>4. Len(q.counts) = 1 /\ q.counts[1] = h
    BY <2>3
  <2>5. request'[r] = q /\ \A k \in Requests : k # r => request'[k] = request[k]
    BY <1>t, <2>1
  <2>6. \A S : HowMany(S)' = HowMany(S)
    BY <2>1 DEF HowMany
  <2>7. NearlyAdds(r)'
    BY <1>a, <2>2, <2>3, <2>4, <2>5, <2>6 DEF NearlyAdds
  <2>8. \A k \in Requests : k # r => NearlyAdds(k)'
    BY <2>5, <2>6 DEF CountInv, NearlyAdds
  <2> QED
    BY <2>7, <2>8 DEF CountInv
<1>9. ASSUME NEW r \in Requests, CountNext(r) PROVE CountInv'
  <2> DEFINE k == request[r].counts
             h == HowMany(Counted[Len(k) + 1])
             c == Append(k, h)
             s == IF Len(c) = Len(Counted) THEN "answer" ELSE "count"
             q == [request[r] EXCEPT !.counts = c, !.step = s]
  <2>1. request' = [request EXCEPT ![r] = q] /\ UNCHANGED status /\ request[r].step = "count"
    BY <1>9 DEF CountNext
  <2>2. /\ request[r].op = "summary" /\ k \in Seq(Nat) /\ Len(k) \in {1, 2}
        /\ request[r].changes \in Nat
        /\ \A i \in 1..Len(k) : k[i] \in Nat /\ NearlyAdds(r)
    BY <1>t, <1>i, <2>1 DEF WellFormed
  <2>3. h \in Nat
    BY HowManyType
  <2>4. /\ Len(c) = Len(k) + 1 /\ c[Len(k) + 1] = h
        /\ \A i \in 1..Len(k) : c[i] = k[i]
    BY <2>2, <2>3
  <2>5. q.op = "summary" /\ q.counts = c /\ q.changes = request[r].changes
    BY <1>t, <2>2 DEF Handler
  <2>6. request'[r] = q /\ \A i \in Requests : i # r => request'[i] = request[i]
    BY <1>t, <2>1
  <2>7. \A S : HowMany(S)' = HowMany(S)
    BY <2>1 DEF HowMany
  <2>8. NearlyAdds(r)'
    <3>1. CASE Len(k) = 1
      <4>1. h = HowMany({"online"}) /\ Len(c) = 2 /\ c[1] = k[1] /\ c[2] = h
        BY <2>4, <3>1 DEF Counted
      <4>2. HowMany({"online"}) + HowMany({"offline"}) <= k[1] + request[r].changes
        BY <2>2, <3>1 DEF NearlyAdds
      <4> HIDE DEF q, c, h
      <4>3. c[2] + HowMany({"offline"}) <= c[1] + request[r].changes
        BY <4>1, <4>2
      <4> QED
        BY <2>5, <2>6, <2>7, <4>1, <4>3 DEF NearlyAdds
    <3>2. CASE Len(k) = 2
      <4>1. h = HowMany({"offline"}) /\ Len(c) = 3 /\ c[1] = k[1] /\ c[2] = k[2] /\ c[3] = h
        BY <2>4, <3>2 DEF Counted
      <4>2. k[2] + HowMany({"offline"}) <= k[1] + request[r].changes
        BY <2>2, <3>2 DEF NearlyAdds
      <4> HIDE DEF q, c, h
      <4>3. c[2] + c[3] <= c[1] + request[r].changes
        BY <4>1, <4>2
      <4> QED
        BY <2>5, <2>6, <2>7, <4>1, <4>3 DEF NearlyAdds
    <3> QED
      BY <2>2, <3>1, <3>2
  <2>9. \A i \in Requests : i # r => NearlyAdds(i)'
    BY <2>6, <2>7 DEF CountInv, NearlyAdds
  <2> QED
    BY <2>8, <2>9 DEF CountInv
<1>10. CASE UNCHANGED vars
  BY <1>k, <1>10 DEF vars
<1> QED
  BY <1>1, <1>2, <1>3, <1>4, <1>5, <1>6, <1>7, <1>8, <1>9, <1>10
      DEF Next, NodeHello, CompatHello

\* However many nodes there are and whatever changes while they are counted, the
\* nodes online and offline exceed the total by no more than the changes.
THEOREM SessionSummaryNearlyAdds == Spec => []SummaryNearlyAdds
<1>1. Init => CountInv
  BY DEF Init, CountInv, NearlyAdds, Idle
<1>2. TypeInv /\ CountInv => SummaryNearlyAdds
  <2> SUFFICES ASSUME TypeInv, CountInv, NEW r \in Requests,
                      request[r].op = "summary", request[r].step = "answer"
               PROVE  request[r].counts[2] + request[r].counts[3]
                         <= request[r].counts[1] + request[r].changes
    BY DEF SummaryNearlyAdds
  <2>1. Len(request[r].counts) = 3
    BY DEF TypeInv, HandlerType, WellFormed
  <2> QED
    BY <2>1 DEF CountInv, NearlyAdds
<1> QED
  BY <1>1, <1>2, TypesCorrect, CountInductive, PTL DEF Spec
=============================================================================
