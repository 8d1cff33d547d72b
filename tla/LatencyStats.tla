----------------------------- MODULE LatencyStats -----------------------------
(***************************************************************************)
(* The latency counters of Stats: workers add samples with one relaxed     *)
(* atomic operation after another (recordLatencyMs) while HTTP handlers    *)
(* and the reporter load them field by field (loadLifetime), open a rung's *)
(* window (markWindow) and report it (loadWindow, percentileMs).  Only     *)
(* windowOrigin_ is under the mutex, so every operation on an atomic is a  *)
(* step of its own.  A window is reported as the difference of a snapshot  *)
(* and the origin of now, and the snapshot may be older than the origin.   *)
(***************************************************************************)
EXTENDS Integers, FiniteSets

CONSTANTS
    Recorder,       \* worker threads
    Loader,         \* threads that load the counters (HTTP pool, reporter)
    NumBuckets,     \* LATENCY_BUCKETS
    Bounds,         \* kLatencyBounds, of the buckets but the last
    Latencies,      \* one-way latencies that occur, in ms
    MaxSamples,     \* bound: samples recorded in a behaviour
    MaxLoads        \* bound: markWindow and loadWindow calls in a behaviour

Buckets == 1 .. NumBuckets

ASSUME StatsAssumption ==
    /\ NumBuckets \in Nat /\ NumBuckets >= 2
    /\ Bounds \in [1 .. NumBuckets - 1 -> Nat \ {0}]
    /\ \A i, j \in DOMAIN Bounds : i < j => Bounds[i] < Bounds[j]
    /\ Latencies \subseteq Nat
    /\ MaxSamples \in Nat /\ MaxLoads \in Nat

VARIABLES
    samples, sum, hist,     \* latencySamples, latencySumMs, latencyHist
    maxMs, windowMax,       \* latencyMaxMs, windowLatencyMaxMs
    rec,                    \* per worker: pc, its sample, the maximum it has seen
    origin,                 \* windowOrigin_
    load,                   \* per loader: pc, what it is for, the snapshot so far;
                            \* history: the histogram when the load began
    report,                 \* the window last reported by loadWindow
    prev, shown,            \* the reporter's last snapshot; the sum of its intervals
    bumped,                 \* history: samples whose lifetime maximum was updated
    recorded, loads         \* samples and loads begun (for the bounds)

counters == <<samples, sum, hist, maxMs, windowMax>>
reporter == <<prev, shown>>
vars == <<counters, rec, origin, load, report, reporter, bumped, recorded, loads>>

\* CounterSnap, the part that recordLatencyMs feeds.
Snap == [samples : Nat, sum : Nat, max : Nat, hist : [Buckets -> Nat]]
ZeroSnap == [samples |-> 0, sum |-> 0, max |-> 0, hist |-> [b \in Buckets |-> 0]]

\* CounterSnap::minus, which saturates at zero.
SlipSatSub(a, b) == a - b
SatSub(a, b) == IF a >= b THEN a - b ELSE 0
Minus(now, from) ==
    [samples |-> SatSub(now.samples, from.samples), sum |-> SatSub(now.sum, from.sum),
     max |-> now.max,
     hist |-> [b \in Buckets |-> SatSub(now.hist[b], from.hist[b])]]

\* How many samples of histogram h lie in the first b buckets.
Below(h, b) ==
    LET upTo[i \in 0 .. NumBuckets] == IF i = 0 THEN 0 ELSE upTo[i - 1] + h[i]
    IN  upTo[b]

\* The bucket a latency is counted in: the first whose bound exceeds it.
BucketOf(ms) ==
    CHOOSE b \in Buckets : /\ b = NumBuckets \/ ms < Bounds[b]
                           /\ \A c \in 1 .. b - 1 : ms >= Bounds[c]

-----------------------------------------------------------------------------
(* percentileMs, in hundredths: p is a percentage, and the value it finds  *)
(* is lo + frac * (hi - lo) with frac = num / den inside bucket `bucket'.  *)

Max2(a, b) == IF a > b THEN a ELSE b

Target(s, p) == Max2(100, p * s.samples)

\* The first bucket in which the cumulated count reaches the target, else the last.
PercentileBucket(s, p) ==
    CHOOSE b \in Buckets :
        /\ b = NumBuckets \/ 100 * Below(s.hist, b) >= Target(s, p)
        /\ \A c \in 1 .. b - 1 : 100 * Below(s.hist, c) < Target(s, p)

SlipHi(b) == IF b < NumBuckets THEN Bounds[b] ELSE 2 * Bounds[NumBuckets - 2]
Hi(b) == IF b < NumBuckets THEN Bounds[b] ELSE 2 * Bounds[NumBuckets - 1]
Lo(b) == IF b = 1 THEN 0 ELSE Hi(b - 1)

\* The position inside the bucket, clamped to [0, 1]; an empty bucket gives hi.
Fraction(s, p, b) ==
    LET den == 100 * s.hist[b]
        num == Target(s, p) - 100 * Below(s.hist, b - 1)
    IN  IF den = 0 THEN [num |-> 1, den |-> 1]
        ELSE [num |-> IF num < 0 THEN 0 ELSE IF num > den THEN den ELSE num, den |-> den]

\* percentileMs(s, p / 100) as a fraction.
Percentile(s, p) ==
    IF s.samples = 0 THEN [num |-> 0, den |-> 1]
    ELSE LET b == PercentileBucket(s, p)
             f == Fraction(s, p, b)
         IN  [num |-> Lo(b) * f.den + f.num * (Hi(b) - Lo(b)), den |-> f.den]

AtMost(x, y) == x.num * y.den <= y.num * x.den

-----------------------------------------------------------------------------
(* recordLatencyMs.                                                        *)

Quiescent == [pc |-> "idle", ms |-> 0, prev |-> 0]
Step(r, pc) == rec' = [rec EXCEPT ![r].pc = pc]

\* (A latency below zero, from clocks that disagree, counts as 0.)
BeginRecord(r, ms) ==
    /\ rec[r] = Quiescent
    /\ recorded < MaxSamples
    /\ recorded' = recorded + 1
    /\ samples' = samples + 1
    /\ rec' = [rec EXCEPT ![r] = [pc |-> "sum", ms |-> ms, prev |-> 0]]
    /\ UNCHANGED <<sum, hist, maxMs, windowMax, origin, load, report, reporter, bumped, loads>>

AddSum(r) ==
    /\ rec[r].pc = "sum"
    /\ sum' = sum + rec[r].ms
    /\ Step(r, "readMax")
    /\ UNCHANGED <<samples, hist, maxMs, windowMax, origin, load, report, reporter, bumped,
                   recorded, loads>>

\* bumpMax(latencyMaxMs): a load, then compare-and-exchange while it is below.
ReadMax(r) ==
    /\ rec[r].pc = "readMax"
    /\ rec' = [rec EXCEPT ![r].pc = "casMax", ![r].prev = maxMs]
    /\ UNCHANGED <<counters, origin, load, report, reporter, bumped, recorded, loads>>

SlipStoreMax(r) == rec[r].ms > rec[r].prev
StoreMax(r) == rec[r].ms > rec[r].prev /\ maxMs = rec[r].prev

CasMax(r) ==
    /\ rec[r].pc = "casMax"
    /\ \/ /\ StoreMax(r)
          /\ maxMs' = rec[r].ms
          /\ Step(r, "readWindow")
          /\ bumped' = bumped \union {rec[r].ms}
       \/ /\ rec[r].ms > rec[r].prev /\ maxMs # rec[r].prev
          /\ rec' = [rec EXCEPT ![r].prev = maxMs]
          /\ UNCHANGED <<maxMs, bumped>>
       \/ /\ rec[r].ms <= rec[r].prev
          /\ Step(r, "readWindow")
          /\ bumped' = bumped \union {rec[r].ms}
          /\ UNCHANGED maxMs
    /\ UNCHANGED <<samples, sum, hist, windowMax, origin, load, report, reporter, recorded, loads>>

\* bumpMax(windowLatencyMaxMs), in the same two steps.
ReadWindowMax(r) ==
    /\ rec[r].pc = "readWindow"
    /\ rec' = [rec EXCEPT ![r].pc = "casWindow", ![r].prev = windowMax]
    /\ UNCHANGED <<counters, origin, load, report, reporter, bumped, recorded, loads>>

CasWindowMax(r) ==
    /\ rec[r].pc = "casWindow"
    /\ \/ /\ rec[r].ms > rec[r].prev /\ windowMax = rec[r].prev
          /\ windowMax' = rec[r].ms
          /\ Step(r, "hist")
       \/ /\ rec[r].ms > rec[r].prev /\ windowMax # rec[r].prev
          /\ rec' = [rec EXCEPT ![r].prev = windowMax]
          /\ UNCHANGED windowMax
       \/ /\ rec[r].ms <= rec[r].prev
          /\ Step(r, "hist")
          /\ UNCHANGED windowMax
    /\ UNCHANGED <<samples, sum, hist, maxMs, origin, load, report, reporter, bumped, recorded, loads>>

SlipCounted(ms) ==
    IF ms >= Bounds[NumBuckets - 1] THEN hist ELSE [hist EXCEPT ![BucketOf(ms)] = @ + 1]
Counted(ms) == [hist EXCEPT ![BucketOf(ms)] = @ + 1]

AddHist(r) ==
    /\ rec[r].pc = "hist"
    /\ hist' = Counted(rec[r].ms)
    /\ rec' = [rec EXCEPT ![r] = Quiescent]
    /\ UNCHANGED <<samples, sum, maxMs, windowMax, origin, load, report, reporter, bumped,
                   recorded, loads>>

-----------------------------------------------------------------------------
(* loadLifetime, for markWindow, for loadWindow and for the reporter,      *)
(* which is one thread: its intervals follow one another.                  *)

Loaded == NumBuckets + 1
\* (An interval makes no use of the histogram.)
Wanted(for) == IF for = "interval" THEN 1 ELSE Loaded
NotLoading == [pc |-> 0, for |-> "none", snap |-> ZeroSnap, start |-> ZeroSnap.hist]

BeginLoad(l, for) ==
    /\ load[l] = NotLoading
    /\ for = "interval" => \A k \in Loader : load[k].for # "interval"
    /\ loads < MaxLoads
    /\ loads' = loads + 1
    /\ load' = [load EXCEPT ![l] = [pc |-> 0, for |-> for,
                                    snap |-> [ZeroSnap EXCEPT !.samples = samples],
                                    start |-> hist]]
    /\ UNCHANGED <<counters, rec, origin, report, reporter, bumped, recorded>>

\* The sum, then the buckets from the first to the last; pc counts them.  The
\* lifetime maximum is left out: a window overwrites it.
SlipField(snap, i) ==
    IF i = 0 THEN [snap EXCEPT !.sum = sum]
    ELSE IF i = NumBuckets THEN snap ELSE [snap EXCEPT !.hist[i] = hist[i]]
Field(snap, i) ==
    IF i = 0 THEN [snap EXCEPT !.sum = sum] ELSE [snap EXCEPT !.hist[i] = hist[i]]

LoadNext(l) ==
    /\ load[l].for # "none" /\ load[l].pc < Wanted(load[l].for)
    /\ load' = [load EXCEPT ![l].pc = @ + 1, ![l].snap = Field(load[l].snap, load[l].pc)]
    /\ UNCHANGED <<counters, rec, origin, report, reporter, bumped, recorded, loads>>

\* markWindow, under the mutex: the snapshot becomes the origin.
MarkWindow(l) ==
    /\ load[l].for = "mark" /\ load[l].pc = Loaded
    /\ origin' = load[l].snap
    /\ windowMax' = 0
    /\ load' = [load EXCEPT ![l] = NotLoading]
    /\ UNCHANGED <<samples, sum, hist, maxMs, rec, report, reporter, bumped, recorded, loads>>

\* loadWindow, under the mutex: the snapshot minus the origin of now,
\* with the window's maximum.
LoadWindow(l) ==
    /\ load[l].for = "report" /\ load[l].pc = Loaded
    /\ report' = [Minus(load[l].snap, origin) EXCEPT !.max = windowMax]
    /\ load' = [load EXCEPT ![l] = NotLoading]
    /\ UNCHANGED <<counters, rec, origin, reporter, bumped, recorded, loads>>

\* StatsReporter::run: what an interval has seen is the difference to the
\* snapshot before it, which this one then replaces.
SlipNextPrev(snap) == [samples |-> samples, sum |-> sum]
NextPrev(snap) == [samples |-> snap.samples, sum |-> snap.sum]

ReportInterval(l) ==
    /\ load[l].for = "interval" /\ load[l].pc = Wanted("interval")
    /\ LET snap == load[l].snap
       IN  /\ shown' = [samples |-> shown.samples + SatSub(snap.samples, prev.samples),
                        sum |-> shown.sum + SatSub(snap.sum, prev.sum)]
           /\ prev' = NextPrev(snap)
    /\ load' = [load EXCEPT ![l] = NotLoading]
    /\ UNCHANGED <<counters, rec, origin, report, bumped, recorded, loads>>

-----------------------------------------------------------------------------
Init ==
    /\ samples = 0 /\ sum = 0 /\ hist = ZeroSnap.hist
    /\ maxMs = 0 /\ windowMax = 0
    /\ rec = [r \in Recorder |-> Quiescent]
    /\ origin = ZeroSnap
    /\ load = [l \in Loader |-> NotLoading]
    /\ report = ZeroSnap
    /\ prev = [samples |-> 0, sum |-> 0] /\ shown = prev
    /\ bumped = {} /\ recorded = 0 /\ loads = 0

RecordStep(r) ==
    \/ \E ms \in Latencies : BeginRecord(r, ms)
    \/ AddSum(r) \/ ReadMax(r) \/ CasMax(r)
    \/ ReadWindowMax(r) \/ CasWindowMax(r) \/ AddHist(r)

LoadStep(l) ==
    \/ \E for \in {"mark", "report", "interval"} : BeginLoad(l, for)
    \/ LoadNext(l) \/ MarkWindow(l) \/ LoadWindow(l) \/ ReportInterval(l)

Next ==
    \/ \E r \in Recorder : RecordStep(r)
    \/ \E l \in Loader : LoadStep(l)

Spec == Init /\ [][Next]_vars

-----------------------------------------------------------------------------
(* Properties.                                                             *)

\* Every variable has its type.
TypeOK ==
    /\ samples \in Nat /\ sum \in Nat /\ hist \in [Buckets -> Nat]
    /\ maxMs \in Nat /\ windowMax \in Nat
    /\ rec \in [Recorder -> [pc : {"idle", "sum", "readMax", "casMax", "readWindow",
                                   "casWindow", "hist"}, ms : Nat, prev : Nat]]
    /\ origin \in Snap /\ report \in Snap
    /\ prev \in [samples : Nat, sum : Nat] /\ shown \in [samples : Nat, sum : Nat]
    /\ load \in [Loader -> [pc : 0 .. Loaded, for : {"none", "mark", "report", "interval"},
                            snap : Snap, start : [Buckets -> Nat]]]
    /\ bumped \in SUBSET Latencies
    /\ recorded \in 0 .. MaxSamples /\ loads \in 0 .. MaxLoads

Busy == {r \in Recorder : rec[r] # Quiescent}

\* No increment is lost: the samples that are not in the histogram yet are
\* exactly those some worker is in the middle of recording.
SamplesConserved == samples = Below(hist, NumBuckets) + Cardinality(Busy)

\* The lock-free maximum loses no sample to a concurrent update: it is the
\* largest latency any worker has finished offering to it.
MaxIsLargest ==
    /\ \A ms \in bumped : ms <= maxMs
    /\ maxMs # 0 => maxMs \in bumped

\* A snapshot is loaded counter by counter while workers record, so its sample
\* count and its histogram differ.  Each of them still has every sample that was
\* recorded when the load began and none that was not begun when it ended: they
\* differ by no more than the samples under way meanwhile.
SnapshotInBetween ==
    \A l \in Loader : load[l].for \in {"mark", "report"} /\ load[l].pc = Loaded =>
        {load[l].snap.samples, Below(load[l].snap.hist, NumBuckets)}
            \subseteq Below(load[l].start, NumBuckets) .. samples

\* stats_test: "p99 >= p50".  The percentiles of a report are ordered even
\* when its fields were torn apart by recording workers.
PercentilesOrdered ==
    /\ AtMost(Percentile(report, 50), Percentile(report, 95))
    /\ AtMost(Percentile(report, 95), Percentile(report, 99))

\* The reporter's intervals leave no sample out and count none twice: together
\* they are the snapshot the last one ended with, number and sum alike, and no
\* difference was ever cut off at zero, although workers record meanwhile.
IntervalsAddUp == shown = prev /\ prev.samples <= samples /\ prev.sum <= sum

-----------------------------------------------------------------------------
(* What the documentation says and the interleavings contradict.           *)

\* Stats.hpp, windowLatencyMaxMs: "Max latency observed since the open
\* window; reset on markWindow()".  With everybody at rest, a window whose
\* latencies add up to more than 0 has a maximum.
WindowMaxObserved ==
    (/\ Busy = {} /\ \A l \in Loader : load[l] = NotLoading
     /\ sum > origin.sum)
        => windowMax > 0

\* Stats.hpp, percentileMs: "Interpolated percentile in milliseconds from a
\* histogram": the percentile of a report lies in a bucket that has samples.
ReportedPercentileInData ==
    report.samples > 0 => report.hist[PercentileBucket(report, 99)] > 0
=============================================================================
