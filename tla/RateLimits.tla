-------------------------------- MODULE RateLimits --------------------------------
(***************************************************************************)
(* The two rate limiters: pkg/api/ratelimit.go keeps the times of a key's  *)
(* requests in a sliding window and drops keys in the background, and      *)
(* pkg/deploy/rate_limiter.go refills a bucket of tokens when it is asked, *)
(* and drops idle buckets when there are many.  Every call runs under the  *)
(* limiter's mutex, so that the clock reads in the order of the calls.     *)
(* Fractions of a token are counted in units of 1/TokenUnit.               *)
(***************************************************************************)
EXTENDS Integers, Sequences, SequencesExt, FiniteSets

CONSTANTS Keys,         \* users, addresses or webhook tokens
          Limit, Window,        \* requests in a window of this length
          Burst, Rate, TokenUnit, \* tokens of a full bucket; units that come per tick; units in a token
          IdleTicks, MaxBuckets,  \* a bucket idle for longer may go when there are more than this
          RequestsUntil \* bound: the clock stops here

ASSUME RateLimitsAssumption ==
    /\ {Limit, Window, Burst, Rate, TokenUnit, IdleTicks} \subseteq Nat \ {0}
    /\ MaxBuckets \in Nat /\ RequestsUntil \in Nat
    /\ IdleTicks * Rate >= Burst * TokenUnit \* 10 min, 1 per second, 10 tokens: it is full by then

VARIABLES time,         \* the clock
          records,      \* rl.records: the times kept for each key that has a record
          cleaner,      \* cleanupLoop: "waiting", "cleaning", "ended"; "deaf" once its channel is nil
          stopped,      \* Stop has closed stopChan and set it to nil
          buckets,      \* l.buckets: tokens and last refill of each key that has one
          granted,      \* for each key, the times at which a request was allowed
          refused       \* the key the last call refused, at this time

limitVars == <<time, records, cleaner, stopped, buckets, granted, refused>>

Full == [tokens |-> Burst * TokenUnit, lastRefill |-> 0]

LimitsInit ==
    /\ time = 0
    /\ records = [k \in {} |-> <<>>] /\ buckets = [k \in {} |-> Full]
    /\ cleaner = "waiting" /\ stopped = FALSE
    /\ granted = [k \in Keys |-> <<>>]
    /\ refused = {}

Grant(k) ==
    /\ granted' = [granted EXCEPT ![k] = Append(@, time)]
    /\ refused' = {}
Refuse(k) == refused' = {k} /\ UNCHANGED granted

PassTick ==
    /\ time < RequestsUntil
    /\ time' = time + 1
    /\ refused' = {}
    /\ UNCHANGED <<records, cleaner, stopped, buckets, granted>>
--------------------------------------------------------------------------------
(* The sliding window. *)

\* The times from the first one in the window on.
InWindow(times) ==
    LET valid == {i \in DOMAIN times : times[i] > time - Window}
    IN  IF valid = {} THEN <<>> ELSE SubSeq(times, Min(valid), Len(times))
Kept(k) == IF k \in DOMAIN records THEN InWindow(records[k]) ELSE <<>>
With(f, k, x) == [j \in DOMAIN f \cup {k} |-> IF j = k THEN x ELSE f[j]]

\* Mutant of Allow: the limit is compared one too late.
AllowOneMore(k) ==
    LET count == Len(Kept(k)) IN
    /\ records' = With(records, k, IF count > Limit THEN Kept(k) ELSE Append(Kept(k), time))
    /\ IF count > Limit THEN Refuse(k) ELSE Grant(k)
    /\ UNCHANGED <<time, cleaner, stopped, buckets>>

Allow(k) ==
    LET count == Len(Kept(k)) IN
    /\ records' = With(records, k, IF count >= Limit THEN Kept(k) ELSE Append(Kept(k), time))
    /\ IF count >= Limit THEN Refuse(k) ELSE Grant(k)
    /\ UNCHANGED <<time, cleaner, stopped, buckets>>

CleanupTick ==
    /\ cleaner \in {"waiting", "deaf"}
    /\ cleaner' = "cleaning"
    /\ UNCHANGED <<time, records, stopped, buckets, granted, refused>>

\* Keys without a request in the window go.  Then the loop selects again: on a nil channel, which
\* is never ready, when Stop ran meanwhile.
Cleanup ==
    /\ cleaner = "cleaning"
    /\ records' = [k \in {j \in DOMAIN records : Kept(j) # <<>>} |-> Kept(k)]
    /\ cleaner' = IF stopped THEN "deaf" ELSE "waiting"
    /\ UNCHANGED <<time, stopped, buckets, granted, refused>>

StopLimiter ==
    /\ ~stopped /\ stopped' = TRUE
    /\ cleaner' = IF cleaner = "waiting" THEN "ended" ELSE cleaner
    /\ UNCHANGED <<time, records, buckets, granted, refused>>

SlidingNext ==
    \/ PassTick \/ CleanupTick \/ Cleanup \/ StopLimiter
    \/ \E k \in Keys : Allow(k)
--------------------------------------------------------------------------------
(* The token bucket. *)

KeptBuckets ==
    {k \in DOMAIN buckets :
        Cardinality(DOMAIN buckets) > MaxBuckets => time - buckets[k].lastRefill <= IdleTicks}
Refilled(b) ==
    LET tokens == b.tokens + (time - b.lastRefill) * Rate IN
    IF tokens > Full.tokens THEN Full.tokens ELSE tokens

TakeToken(k) ==
    LET kept   == [j \in KeptBuckets |-> buckets[j]]
        tokens == IF k \in DOMAIN kept THEN Refilled(kept[k]) ELSE Full.tokens
        left   == IF tokens >= TokenUnit THEN tokens - TokenUnit ELSE tokens
    IN  /\ buckets' = With(kept, k, [tokens |-> left, lastRefill |-> time])
        /\ IF tokens >= TokenUnit THEN Grant(k) ELSE Refuse(k)
        /\ UNCHANGED <<time, records, cleaner, stopped>>

BucketNext == PassTick \/ \E k \in Keys : TakeToken(k)
--------------------------------------------------------------------------------
GrantedSince(k, t) == Cardinality({i \in DOMAIN granted[k] : granted[k][i] >= t})

(* Limits are kept exactly, whatever keys and buckets are dropped in the background: no window    *)
(* holds more than Limit requests of a key, and a request is refused only when it is full; in no  *)
(* stretch of time are more requests of a key let through than a full bucket and what was added   *)
(* in that time, and one is refused only when less than a token was left of that.                 *)
SlidingLimitHolds ==
    \A k \in Keys :
        /\ GrantedSince(k, time - Window + 1) <= Limit
        /\ k \in refused => GrantedSince(k, time - Window + 1) = Limit

BucketLimitHolds ==
    \A k \in Keys :
        /\ \A t \in 0..time :
              GrantedSince(k, t) * TokenUnit <= Burst * TokenUnit + (time - t) * Rate
        /\ k \in refused => \E t \in 0..time :
              (GrantedSince(k, t) + 1) * TokenUnit > Burst * TokenUnit + (time - t) * Rate
================================================================================
