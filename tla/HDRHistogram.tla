----------------------------- MODULE HDRHistogram -----------------------------
(***************************************************************************)
(* bench::HDRHistogram (include/shared/benchmark.h and                      *)
(* src/shared/benchmark.cc): latencies in cycles, counted in buckets whose  *)
(* width doubles with every power of two. A program records into one        *)
(* histogram per message type, adds them up at the end, and captures        *)
(* percentiles that tools/report.py computes again from the buckets.        *)
(*                                                                          *)
(* A histogram is a record of the class's members. Shifts and masks by a    *)
(* number of bits are divisions and remainders by a power of two, and the   *)
(* ORs of disjoint bits are sums. A percentile p is a fraction <<p, q>>.    *)
(***************************************************************************)
EXTENDS Integers, FiniteSetsExt

CONSTANTS
    SubBits,        \* 6: SUB_BUCKETS is 2 ^ SubBits
    TopBuckets,     \* TOP_BUCKETS
    Types,          \* message types
    Cycles,         \* durations that may be recorded
    Percentiles,    \* those a run captures
    MaxSamples      \* bound on the messages recorded

ASSUME ShapeAssumption == SubBits \in Nat \ {0} /\ TopBuckets \in Nat \ {0}

ASSUME CyclesAssumption == Cycles \subseteq Nat /\ MaxSamples \in Nat

ASSUME PercentileAssumption ==
    \A p \in Percentiles : p \in Nat \X (Nat \ {0}) /\ p[1] \in 1 .. p[2]

VARIABLES
    hist,           \* hist[type]
    overall,        \* the sum, and what a run captures
    phase,          \* "recording", then "captured"
    recorded        \* history: type -> duration -> how often it was recorded

vars == <<hist, overall, phase, recorded>>

SubBuckets == 2 ^ SubBits
BucketCount == TopBuckets * SubBuckets
Buckets == 0 .. BucketCount - 1

NewHistogram == [buckets |-> [b \in Buckets |-> 0],
                 samples |-> 0, total_cycles |-> 0, clipped |-> 0, max_cycles_seen |-> 0]

----
\* The position of the highest bit set; no bits set counts as the lowest one.
BitPosition(cycles) == CHOOSE b \in 0 .. cycles :
    2 ^ b <= Max({cycles, 1}) /\ Max({cycles, 1}) < 2 ^ (b + 1)

\* Deviation: the top buckets start one power of two late.
BucketLate(cycles) ==
    LET bit == BitPosition(cycles)
        shift == IF bit < SubBits THEN 0 ELSE bit - SubBits
        top_bucket == IF bit <= SubBits THEN 0 ELSE bit - SubBits + 1
    IN  top_bucket * SubBuckets + ((cycles \div 2 ^ shift) % SubBuckets)
\* Below SUB_BUCKETS a bucket is one duration; above, the SubBits bits after the highest
\* one tell the bucket.
Bucket(cycles) ==
    LET bit == BitPosition(cycles)
        shift == IF bit < SubBits THEN 0 ELSE bit - SubBits
        top_bucket == IF bit < SubBits THEN 0 ELSE bit - SubBits + 1
    IN  top_bucket * SubBuckets + ((cycles \div 2 ^ shift) % SubBuckets)

\* A duration past the last bucket is counted, and in no bucket.
Record(h, cycles) ==
    LET bucket == Bucket(cycles)
    IN  [buckets |-> [b \in Buckets |-> h.buckets[b] + IF b = bucket THEN 1 ELSE 0],
         samples |-> h.samples + 1,
         total_cycles |-> h.total_cycles + cycles,
         clipped |-> h.clipped + IF bucket < BucketCount THEN 0 ELSE 1,
         max_cycles_seen |-> Max({h.max_cycles_seen, cycles})]

\* Deviation: the clipped samples of the second histogram are left out.
PlusWithoutClipped(h, g) ==
    [buckets |-> [b \in Buckets |-> h.buckets[b] + g.buckets[b]],
     samples |-> h.samples + g.samples,
     total_cycles |-> h.total_cycles + g.total_cycles,
     clipped |-> h.clipped,
     max_cycles_seen |-> Max({h.max_cycles_seen, g.max_cycles_seen})]
\* operator+=
Plus(h, g) ==
    [buckets |-> [b \in Buckets |-> h.buckets[b] + g.buckets[b]],
     samples |-> h.samples + g.samples,
     total_cycles |-> h.total_cycles + g.total_cycles,
     clipped |-> h.clipped + g.clipped,
     max_cycles_seen |-> Max({h.max_cycles_seen, g.max_cycles_seen})]

\* The middle of a bucket, where it is wider than one duration.
BucketToCycles(bucket) ==
    LET sub_bucket == bucket % SubBuckets
        top_bucket == bucket \div SubBuckets
        bit == top_bucket + SubBits - 1
    IN  IF top_bucket = 0 THEN sub_bucket
        ELSE 2 ^ bit + sub_bucket * 2 ^ (bit - SubBits)
             + IF top_bucket = 1 THEN 0 ELSE 2 ^ (bit - SubBits - 1)

CountUpTo(h, bucket) == MapThenSumSet(LAMBDA b : h.buckets[b], 0 .. bucket)

\* Deviation: the bucket after which the count is above the target.
ReachedStrictly(h, p) == {b \in Buckets : CountUpTo(h, b) * p[2] > p[1] * h.samples}
\* The buckets at which the running count has reached the p-th part of the samples.
Reached(h, p) == {b \in Buckets : CountUpTo(h, b) * p[2] >= p[1] * h.samples}

\* Clipped samples can keep every bucket from reaching it: then the answer is the last.
PercentileBucket(h, p) == IF Reached(h, p) = {} THEN BucketCount - 1 ELSE Min(Reached(h, p))
PercentileCycles(h, p) == BucketToCycles(PercentileBucket(h, p))

\* The buckets a document carries.
Occupied(h) == {b \in Buckets : h.buckets[b] > 0}
\* Deviation: the reader goes on while the count is not above the target.
ReportedPercentileStrictly(h, p) ==
    LET reached == ReachedStrictly(h, p) \cap Occupied(h)
    IN  BucketToCycles(IF reached = {} THEN Max(Occupied(h)) ELSE Min(reached))
\* tools/report.py, percentile_ns: when none of the buckets in the document reaches the
\* target the answer is the last of them.
ReportedPercentile(h, p) ==
    LET reached == Reached(h, p) \cap Occupied(h)
    IN  BucketToCycles(IF reached = {} THEN Max(Occupied(h)) ELSE Min(reached))

----
Init ==
    /\ hist = [t \in Types |-> NewHistogram]
    /\ overall = NewHistogram
    /\ phase = "recording"
    /\ recorded = [t \in Types |-> [c \in Cycles |-> 0]]

Recorded(cycles) == MapThenSumSet(LAMBDA t : recorded[t][cycles], Types)
TotalRecorded == MapThenSumSet(Recorded, Cycles)

\* The end of a parse loop's pass over one message.
RecordMessage(type, cycles) ==
    /\ phase = "recording"
    /\ TotalRecorded < MaxSamples
    /\ hist' = [hist EXCEPT ![type] = Record(@, cycles)]
    /\ recorded' = [recorded EXCEPT ![type][cycles] = @ + 1]
    /\ UNCHANGED <<overall, phase>>

\* One pass over hist[256].
Capture ==
    /\ phase = "recording"
    /\ overall' = MapThenFoldSet(Plus, NewHistogram, LAMBDA t : hist[t],
                                 LAMBDA S : CHOOSE t \in S : TRUE, Types)
    /\ phase' = "captured"
    /\ UNCHANGED <<hist, recorded>>

Captured ==
    /\ phase = "captured"
    /\ UNCHANGED vars

Next ==
    \/ \E type \in Types, cycles \in Cycles : RecordMessage(type, cycles)
    \/ Capture
    \/ Captured

Spec == Init /\ [][Next]_vars

----
\* Every message recorded under any type is in the sum once, in a bucket or among the
\* clipped, with its cycles in the total and the longest in the maximum.
SumAccountsForEveryMessage ==
    phase = "captured" =>
        LET seen == {c \in Cycles : Recorded(c) > 0}
            clipped == {c \in Cycles : Bucket(c) >= BucketCount}
        IN  /\ overall.samples = TotalRecorded
            /\ overall.clipped = MapThenSumSet(Recorded, clipped)
            /\ CountUpTo(overall, BucketCount - 1) + overall.clipped = overall.samples
            /\ overall.total_cycles = MapThenSumSet(LAMBDA c : c * Recorded(c), Cycles)
            /\ overall.max_cycles_seen = Max(seen \cup {0})

\* The duration at or below which the p-th part of the recorded durations lies: what a
\* percentile is, computed from the samples themselves.
ExactPercentile(p) ==
    Min({c \in Cycles : MapThenSumSet(Recorded, {d \in Cycles : d <= c}) * p[2]
                            >= p[1] * TotalRecorded})

\* "Mid-bucket cycle value at percentile p": the percentile a run captures is within half
\* a bucket, one part in 2 * SUB_BUCKETS, of the exact one, and exact below twice
\* SUB_BUCKETS; when the exact one was clipped it is the middle of the last bucket.
PercentilesAreWithinHalfABucket ==
    phase = "captured" /\ overall.samples > 0 =>
        \A p \in Percentiles :
            LET exact == ExactPercentile(p)
                captured == PercentileCycles(overall, p)
                error == IF captured > exact THEN captured - exact ELSE exact - captured
            IN  IF exact < 2 ^ (TopBuckets + SubBits - 1)
                THEN /\ error * 2 * SubBuckets <= exact
                     /\ exact < 2 * SubBuckets => error = 0
                ELSE captured = BucketToCycles(BucketCount - 1)

\* run_result.cc, of the percentiles in summary_ns: "Derived, and derived the same way by
\* tools/report.py from the buckets below". The reader sees only the buckets with a count,
\* and computes the same percentiles as long as the last of them reaches each target: with
\* more samples clipped than a percentile leaves above it, the run answers the last bucket
\* there is and the reader the last it was given.
ReportAgreesWithTheSummary ==
    phase = "captured" /\ overall.samples > 0 =>
        \A p \in Percentiles :
            overall.clipped * p[2] <= (p[2] - p[1]) * overall.samples =>
                ReportedPercentile(overall, p) = PercentileCycles(overall, p)
===============================================================================
