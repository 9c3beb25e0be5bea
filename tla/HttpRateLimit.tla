-------------------------- MODULE HttpRateLimit ---------------------------
(***************************************************************************)
(* The sliding-window limiters in front of the node endpoints: the         *)
(* middleware asks up to three of them in turn, and the two hello handlers *)
(* ask the node limiter once more when they have read the body.  All of it *)
(* runs in one event loop without an await between two checks.             *)
(*                                                                         *)
(* A limiter keeps a deque of times per key.  Here hits[k] holds every     *)
(* time it ever appended and the deque is hits[k] from oldest[k] on, so    *)
(* that what the deque has forgotten can be talked about.                  *)
(***************************************************************************)
EXTENDS Integers, Sequences

CONSTANTS
    Ips,         \* source addresses, the keys of _ip_limiter
    Proxies,     \* TRUSTED_PROXIES, as far as they are among those
    NodeIds,     \* node ids, the keys of _node_limiter
    Global,      \* "__global__", the key of _global_limiter
    Bootstrap,   \* "bootstrap", the key of _bootstrap_limiter
    MaxOf,       \* MaxOf[k]: max_count of the limiter of key k
    WindowSec,   \* the four *_WINDOW_SEC, which are equal
    PerSecond,   \* steps of time.monotonic() in a second
    MaxClock,    \* bound: the clock
    MaxWaiting   \* bound: hello requests between middleware and handler

Keys == {Global, Bootstrap} \cup Ips \cup NodeIds
Window == WindowSec * PerSecond

ASSUME LimitAssumption ==
    /\ Global # Bootstrap /\ {Global, Bootstrap} \cap (Ips \cup NodeIds) = {}
    /\ Ips \cap NodeIds = {}
    /\ MaxOf \in [Keys -> Nat \ {0}]
    /\ WindowSec \in Nat /\ PerSecond \in Nat \ {0}
    /\ MaxClock \in Nat /\ MaxWaiting \in Nat

VARIABLES
    clock,    \* time.monotonic()
    hits,     \* hits[k]: the times at which a request of key k was let through
    oldest,   \* oldest[k]: the first of hits[k] that is still in the deque
    waiting   \* waiting[n]: hellos of n that wait for their handler

limiterVars == <<clock, hits, oldest, waiting>>

\* The type invariant: deques and waiting hellos.
LimitersTypeOK ==
    /\ clock \in 0..MaxClock
    /\ hits \in [Keys -> Seq(0..MaxClock)]
    /\ oldest \in [Keys -> Nat \ {0}]
    /\ \A k \in Keys : oldest[k] <= Len(hits[k]) + 1
    /\ waiting \in [NodeIds -> 0..MaxWaiting]

LimitersInit ==
    /\ clock = 0
    /\ hits = [k \in Keys |-> <<>>]
    /\ oldest = [k \in Keys |-> 1]
    /\ waiting = [n \in NodeIds |-> 0]

-----------------------------------------------------------------------------
(* _SlidingWindow                                                           *)

\* A bug: the deque also drops what is exactly one window old.
TrimmedClosed(k, now) ==
    CHOOSE f \in oldest[k]..(Len(hits[k]) + 1) :
        /\ \A i \in oldest[k]..(f - 1) : hits[k][i] <= now - Window
        /\ f <= Len(hits[k]) => hits[k][f] > now - Window

\* Where the deque begins once is_allowed has popped the old times.
Trimmed(k, now) ==
    CHOOSE f \in oldest[k]..(Len(hits[k]) + 1) :
        /\ \A i \in oldest[k]..(f - 1) : hits[k][i] < now - Window
        /\ f <= Len(hits[k]) => hits[k][f] >= now - Window

Allowed(k, now) == Len(hits[k]) + 1 - Trimmed(k, now) < MaxOf[k]

\* A bug: the remaining time is rounded down.
RetryAfterDown(k) ==
    LET left == Window - (clock - hits[k][Trimmed(k, clock)])
    IN  IF left < PerSecond THEN 1 ELSE left \div PerSecond

\* The seconds a refused client is told to wait: max(1, int(...) + 1).
RetryAfter(k) ==
    LET left == Window - (clock - hits[k][Trimmed(k, clock)])
    IN  left \div PerSecond + 1

\* The state after the keys in passed have let a request through and the
\* one in asked, if it is another, has refused it.
Count(passed, asked) ==
    /\ hits' = [k \in Keys |-> IF k \in passed THEN Append(hits[k], clock)
                                               ELSE hits[k]]
    /\ oldest' = [k \in Keys |-> IF k \in passed \cup asked
                                 THEN Trimmed(k, clock) ELSE oldest[k]]

-----------------------------------------------------------------------------
(* RateLimitMiddleware.dispatch                                             *)

\* _client_ip: only a trusted proxy may name another address in X-Forwarded-For.  A
\* request without the header is one that names its sender.
ClientIp(direct, forwarded) == IF direct \in Proxies THEN forwarded ELSE direct

\* The limiters that a request meets, in order: only a poll has its node_id in
\* the path where the middleware looks for it, and only under /api.
Checks(kind, ip, n) ==
    CASE kind = "poll"  -> <<Global, ip, n>>
      [] kind = "hello" -> <<Global, ip, Bootstrap>>
      [] kind = "post"  -> <<Global, ip>>

\* The first i - 1 limiters have counted the request when the i-th refuses it.
Refuse(kind, ip, n) ==
    \E i \in 1..Len(Checks(kind, ip, n)) :
        LET ks == Checks(kind, ip, n) IN
        /\ \A j \in 1..(i - 1) : Allowed(ks[j], clock)
        /\ ~Allowed(ks[i], clock)
        /\ Count({ks[j] : j \in 1..(i - 1)}, {ks[i]})
        /\ UNCHANGED <<clock, waiting>>

Pass(kind, ip, n) ==
    LET ks == Checks(kind, ip, n) IN
    /\ \A j \in 1..Len(ks) : Allowed(ks[j], clock)
    /\ Count({ks[j] : j \in 1..Len(ks)}, {})
    /\ IF kind = "hello"
       THEN /\ waiting[n] < MaxWaiting
            /\ waiting' = [waiting EXCEPT ![n] = @ + 1]
       ELSE UNCHANGED waiting
    /\ UNCHANGED clock

-----------------------------------------------------------------------------
(* check_node_rate in the hello handlers                                    *)

\* A bug: the handler runs although the middleware has answered.
CheckNodeRateAnyway(n) ==
    /\ waiting' = [waiting EXCEPT ![n] = @ - 1]
    /\ IF Allowed(n, clock) THEN Count({n}, {}) ELSE Count({}, {n})
    /\ UNCHANGED clock

CheckNodeRate(n) ==
    /\ waiting[n] > 0
    /\ waiting' = [waiting EXCEPT ![n] = @ - 1]
    /\ IF Allowed(n, clock) THEN Count({n}, {}) ELSE Count({}, {n})
    /\ UNCHANGED clock

\* require_node_token or _parse_envelope rejects the request before the check.
RejectHello(n) ==
    /\ waiting[n] > 0
    /\ waiting' = [waiting EXCEPT ![n] = @ - 1]
    /\ UNCHANGED <<clock, hits, oldest>>

Tick ==
    /\ clock < MaxClock
    /\ clock' = clock + 1
    /\ UNCHANGED <<hits, oldest, waiting>>

LimitersNext ==
    \/ \E kind \in {"poll", "hello", "post"}, direct, forwarded \in Ips, n \in NodeIds :
          LET ip == ClientIp(direct, forwarded)
          IN  Refuse(kind, ip, n) \/ Pass(kind, ip, n)
    \/ \E n \in NodeIds : CheckNodeRate(n) \/ RejectHello(n)
    \/ Tick

LimitersSpec == LimitersInit /\ [][LimitersNext]_limiterVars

-----------------------------------------------------------------------------
(* Properties                                                              *)

\* No limiter lets more than its maximum through in any window, closed at both
\* ends, and whatever other limiters refused meanwhile.
NeverExceedsMax ==
    \A k \in Keys : \A i \in 1..(Len(hits[k]) - MaxOf[k]) :
        hits[k][i + MaxOf[k]] - hits[k][i] > Window

\* Retry-After is long enough: the limiter that refused has room after it, if
\* nobody else takes it.
RetryAfterSuffices ==
    \A k \in Keys :
        ~Allowed(k, clock) => Allowed(k, clock + RetryAfter(k) * PerSecond)
=============================================================================
