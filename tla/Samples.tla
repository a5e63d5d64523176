--------------------------------- MODULE Samples ---------------------------------
(***************************************************************************)
(* The samples of one node or container: pkg/telemetry/ring_buffer.go      *)
(* keeps the newest of them in memory, and the goroutine of                *)
(* cmd/pikpik/main.go writes hourly rows with pkg/telemetry/downsampler.go. *)
(* A sample is its timestamp and one value; memory, network and disk are   *)
(* aggregated in the same way.  The timestamp is of the agent's clock, and *)
(* samples may arrive late: two connections of a node push side by side.   *)
(***************************************************************************)
EXTENDS Integers, Sequences, SequencesExt, FiniteSets

CONSTANTS Capacity,     \* 8640 in the code
          HourLength,   \* clock ticks in an hour
          RowsKept,     \* hours a row is kept: 30 days in the code
          Values,       \* values of a sample
          Skew,         \* how far a timestamp is from the server's clock
          MaxSamples,   \* bound: samples ever pushed
          SamplesUntil  \* bound: the clock stops here

ASSUME SamplesAssumption ==
    /\ {Capacity, HourLength, RowsKept, SamplesUntil} \subseteq Nat \ {0}
    /\ {Skew, MaxSamples} \cup Values \subseteq Nat

VARIABLES clock,        \* the server's time
          pushes,       \* how many samples were pushed, for the bound
          ring,         \* data, head and size of the buffer
          history,      \* ghost: every sample pushed since the process started
          ticker,       \* where the goroutine of the ticker is, and the hour it writes
          hourly,       \* rows of system_metrics_hourly, by hour
          rolledUp      \* ghost: for each row, the samples it is made of

sampleVars == <<clock, pushes, ring, history, ticker, hourly, rolledUp>>

Hours  == 0..(SamplesUntil \div HourLength)
Blank  == [at |-> 0, value |-> 0]
NoHour  == [count |-> 0]
HourOf(t) == t \div HourLength
EmptyRing == [data |-> [i \in 0..(Capacity - 1) |-> Blank], head |-> 0, size |-> 0]

SamplesInit ==
    /\ clock = 0 /\ pushes = 0
    /\ ring = EmptyRing /\ history = <<>> /\ ticker = [at |-> "waiting", hour |-> 0]
    /\ hourly = [h \in Hours |-> NoHour]
    /\ rolledUp = [h \in Hours |-> <<>>]
--------------------------------------------------------------------------------
(* The ring buffer. *)

\* The i-th of the newest n points.
PointAt(n, i) == ring.data[(ring.head - n + i + Capacity) % Capacity]

GetLastN(n) ==
    LET count == IF n > ring.size THEN ring.size ELSE n IN
    [i \in 1..count |-> PointAt(count, i)]

\* The points of a list from one time to another, both included, as the list has them.
PointsWithin(points, from, to) ==
    LET found[i \in 0..Len(points)] ==
          IF i = 0 THEN <<>>
          ELSE IF points[i].at >= from /\ points[i].at <= to
               THEN Append(found[i - 1], points[i])
               ELSE found[i - 1]
    IN  found[Len(points)]

GetRange(from, to) == PointsWithin(GetLastN(ring.size), from, to)

Timestamps == {t \in 0..SamplesUntil : clock - Skew <= t /\ t <= clock + Skew}

\* Mutant of Push: the full buffer overwrites where head is, and then moves it.
PushAtHead(at, value) ==
    /\ pushes < MaxSamples /\ pushes' = pushes + 1 /\ at \in Timestamps
    /\ LET point == [at |-> at, value |-> value] IN
        /\ ring' = IF ring.size < Capacity
                   THEN [data |-> [ring.data EXCEPT ![ring.size] = point],
                         size |-> ring.size + 1, head |-> ring.size]
                   ELSE [ring EXCEPT !.data[ring.head] = point, !.head = (@ + 1) % Capacity]
        /\ history' = Append(history, point)
    /\ UNCHANGED <<clock, ticker, hourly, rolledUp>>

Push(at, value) ==
    /\ pushes < MaxSamples /\ pushes' = pushes + 1 /\ at \in Timestamps
    /\ LET point == [at |-> at, value |-> value]
           next  == (ring.head + 1) % Capacity
       IN  /\ ring' = IF ring.size < Capacity
                      THEN [data |-> [ring.data EXCEPT ![ring.size] = point],
                            size |-> ring.size + 1, head |-> ring.size]
                      ELSE [ring EXCEPT !.data[next] = point, !.head = next]
           /\ history' = Append(history, point)
    /\ UNCHANGED <<clock, ticker, hourly, rolledUp>>

Total(points) == FoldSeq(LAMBDA p, b : p.value + b, 0, points)

\* The values of the points, smallest first: so many points are below the k-th, and up to it.
SortedValues(points) ==
    [k \in 1..Len(points) |->
        CHOOSE v \in {points[i].value : i \in 1..Len(points)} :
            /\ Cardinality({i \in 1..Len(points) : points[i].value < v}) < k
            /\ k <= Cardinality({i \in 1..Len(points) : points[i].value <= v})]

\* Sums, extremes, and the value at 95 % of the sorted ones.
Aggregate(points) ==
    LET sorted == SortedValues(points) IN
    [count |-> Len(points), sum |-> Total(points),
     min |-> sorted[1], max |-> sorted[Len(points)],
     p95 |-> sorted[(95 * (Len(points) - 1)) \div 100 + 1]]

DownsampleHour(start) ==
    LET points == GetRange(start, start + HourLength) IN
    IF points = <<>> THEN NoHour ELSE Aggregate(points)
--------------------------------------------------------------------------------
(* The goroutine of the ticker.  The tick says which hour is written; that buffer is read when     *)
(* the rows of others are saved, at any later time.                                               *)

\* A tick may have waited in the channel, which holds one: it is of an hour since the last.
TakeTick(h) ==
    /\ ticker.at = "waiting" /\ ticker.hour <= h /\ h <= HourOf(clock)
    /\ ticker' = [at |-> "reading", hour |-> h]
    /\ UNCHANGED <<clock, pushes, ring, history, hourly, rolledUp>>

Newest(n) == SubSeq(history, Len(history) - n + 1, Len(history))
Stored    == IF Len(history) < Capacity THEN Len(history) ELSE Capacity

\* The row is replaced; or there is nothing of that hour, or the statement fails, which is ignored.
DownsampleAndSave ==
    LET h   == ticker.hour
        row == DownsampleHour(h * HourLength)
    IN  /\ ticker.at = "reading"
        /\ \/ /\ row # NoHour
              /\ hourly' = [hourly EXCEPT ![h] = row]
              /\ rolledUp' = [rolledUp EXCEPT ![h] = PointsWithin(Newest(Stored), h * HourLength,
                                                                  h * HourLength + HourLength)]
           \/ UNCHANGED <<hourly, rolledUp>>
        /\ ticker' = [ticker EXCEPT !.at = "pruning"]
        /\ UNCHANGED <<clock, pushes, ring, history>>

PruneExpiredMetrics ==
    LET Kept(k) == clock <= (k + RowsKept) * HourLength
    IN  /\ ticker.at = "pruning"
        /\ \/ /\ hourly' = [k \in Hours |-> IF Kept(k) THEN hourly[k] ELSE NoHour]
              /\ rolledUp' = [k \in Hours |-> IF Kept(k) THEN rolledUp[k] ELSE <<>>]
           \/ UNCHANGED <<hourly, rolledUp>>
        /\ ticker' = [ticker EXCEPT !.at = "waiting"]
        /\ UNCHANGED <<clock, pushes, ring, history>>

\* The process ends and starts again: the buffers are in memory, the rows are not.
Restart ==
    /\ ring' = EmptyRing /\ history' = <<>>
    /\ ticker' = [at |-> "waiting", hour |-> HourOf(clock)]
    /\ UNCHANGED <<clock, pushes, hourly, rolledUp>>

PassTime ==
    /\ clock < SamplesUntil
    /\ clock' = clock + 1
    /\ UNCHANGED <<pushes, ring, history, ticker, hourly, rolledUp>>

SamplesNext ==
    \/ DownsampleAndSave \/ PruneExpiredMetrics \/ Restart \/ PassTime
    \/ \E h \in Hours : TakeTick(h)
    \/ \E at \in 0..SamplesUntil, value \in Values : Push(at, value)

SamplesSpec == SamplesInit /\ [][SamplesNext]_sampleVars
--------------------------------------------------------------------------------
\* The last n points are the newest n, oldest first, wherever the buffer has wrapped around.
NewestAreRead ==
    \A n \in 0..(Capacity + 1) : GetLastN(n) = Newest(IF n > Stored THEN Stored ELSE n)

\* read is what points has from one time to another, both included: each of them once, in its order.
IsRangeOf(read, points, from, to) ==
    \E place \in [1..Len(read) -> 1..Len(points)] :
        /\ \A i \in 1..Len(read) : read[i] = points[place[i]]
        /\ \A i, j \in 1..Len(read) : i < j => place[i] < place[j]
        /\ {place[i] : i \in 1..Len(read)} = {k \in 1..Len(points) : points[k].at \in from..to}

RangesAreRead ==
    \A from \in 0..SamplesUntil, to \in 0..SamplesUntil :
        IsRangeOf(GetRange(from, to), Newest(Stored), from, to)

\* A row is what the samples it is made of come to; each is of its hour, or of the first moment of
\* the next one.
RowsAreOfTheirHour ==
    \A h \in Hours : hourly[h] # NoHour =>
        LET points == rolledUp[h] IN
        /\ hourly[h].count = Len(points) /\ hourly[h].sum = Total(points)
        /\ {hourly[h].min, hourly[h].max, hourly[h].p95} \subseteq {p.value : p \in ToSet(points)}
        /\ \A p \in ToSet(points) : hourly[h].min <= p.value /\ p.value <= hourly[h].max
        /\ 95 * (Len(points) - 1)
              < 100 * Cardinality({i \in 1..Len(points) : points[i].value <= hourly[h].p95})
        /\ \A p \in ToSet(points) : HourOf(p.at) = h \/ p.at = (h + 1) * HourLength

(* What a reader of the buffer gets is what was pushed, whatever timestamps it has and wherever    *)
(* the buffer has wrapped around: the last n points are the newest n, oldest first, and a range is *)
(* all of those that lie in it, each once.  An hourly row is what the samples come to that the     *)
(* buffer held of its hour when it was read, which may be after the hour's end and include the     *)
(* first moment of the next hour, but nothing else of another hour.                                *)
SamplesAreKept == NewestAreRead /\ RangesAreRead /\ RowsAreOfTheirHour
================================================================================
