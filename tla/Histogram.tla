----------------------------- MODULE Histogram -----------------------------
(***************************************************************************)
(* nebula::Histogram (include/nebula/histogram.h, src/histogram.cc):       *)
(* values are counted in zones that a table of thresholds divides the      *)
(* unsigned integers into; histograms are merged and cleared.              *)
(***************************************************************************)
EXTENDS Integers, Sequences, FiniteSetsExt

CONSTANTS
  Hists,        \* the histograms
  Thresholds,   \* threshold_values_, in order
  MaxU,         \* the largest uint64_t
  Samples,      \* values that callers add
  MaxCount      \* bound: values in one histogram

\* As the array is indexed, from 0, and its number of elements.
threshold_values_       == [i \in 0 .. Len(Thresholds) - 1 |-> Thresholds[i + 1]]
total_threshold_values_ == Len(Thresholds)
LastBucket              == total_threshold_values_ - 2

ASSUME ThresholdsAssumption ==
  /\ MaxU \in Nat /\ MaxCount \in Nat
  /\ Thresholds \in Seq(0 .. MaxU) /\ total_threshold_values_ >= 2
  /\ \A i \in 0 .. LastBucket : threshold_values_[i] < threshold_values_[i + 1]
  /\ threshold_values_[0] = 0 /\ threshold_values_[LastBucket + 1] = MaxU
  /\ Samples \subseteq 0 .. MaxU

VARIABLES
  hist,    \* the fields of each histogram
  added,   \* history: the values that each one stands for, and how often each
  fresh    \* history: the histograms whose values never met a clear()

histVars == << hist, added, fresh >>

Nothing == [b \in 0 .. LastBucket |-> 0]
NoValue == [v \in 0 .. MaxU |-> 0]

HistInit ==
  /\ hist = [h \in Hists |-> [ min |-> MaxU, max |-> 0, total |-> 0,
                               count |-> 0, buckets |-> Nothing ]]
  /\ added = [h \in Hists |-> NoValue]
  /\ fresh = Hists

\* Mutant: the probe's zone is taken as closed above.
SearchClosed(v) ==
  LET from[zones \in (0 .. LastBucket) \X (0 .. LastBucket)] ==
        LET left == zones[1] right == zones[2] mid == (left + right) \div 2
        IN  IF threshold_values_[mid] <= v /\ v <= threshold_values_[mid + 1] THEN mid
            ELSE IF v < threshold_values_[mid]
                 THEN IF left <= mid - 1 THEN from[<< left, mid - 1 >>] ELSE mid
                 ELSE IF mid + 1 <= right THEN from[<< mid + 1, right >>] ELSE mid
  IN  from[<< 0, LastBucket >>]

\* The binary search of add(): where mid stands when the loop is left.
Search(v) ==
  LET from[zones \in (0 .. LastBucket) \X (0 .. LastBucket)] ==
        LET left == zones[1] right == zones[2] mid == (left + right) \div 2
        IN  IF threshold_values_[mid] <= v /\ v < threshold_values_[mid + 1] THEN mid
            ELSE IF v < threshold_values_[mid]
                 THEN IF left <= mid - 1 THEN from[<< left, mid - 1 >>] ELSE mid
                 ELSE IF mid + 1 <= right THEN from[<< mid + 1, right >>] ELSE mid
  IN  from[<< 0, LastBucket >>]

Wrapped(n) == n % (MaxU + 1)

add(h, v) ==
  /\ hist[h].count < MaxCount
  /\ hist' = [hist EXCEPT
       ![h].max            = IF v > @ THEN v ELSE @,
       ![h].min            = IF v < @ THEN v ELSE @,
       ![h].total          = Wrapped(@ + v),
       ![h].count          = @ + 1,
       ![h].buckets[Search(v)] = @ + 1]
  /\ added' = [added EXCEPT ![h][v] = @ + 1]
  /\ UNCHANGED fresh

\* Mutant: merge() forgets the minimum.
mergeNoMin(h, other) ==
  LET o == hist[other]
  IN  /\ hist[h].count + o.count <= MaxCount
      /\ hist' = [hist EXCEPT
           ![h].max     = IF @ < o.max THEN o.max ELSE @,
           ![h].total   = Wrapped(@ + o.total),
           ![h].count   = @ + o.count,
           ![h].buckets = [b \in DOMAIN @ |-> @[b] + o.buckets[b]]]
      /\ added' = [added EXCEPT ![h] = [v \in DOMAIN @ |-> @[v] + added[other][v]]]
      /\ fresh' = IF other \in fresh THEN fresh ELSE fresh \ {h}

merge(h, other) ==
  LET o == hist[other]
  IN  /\ hist[h].count + o.count <= MaxCount
      /\ hist' = [hist EXCEPT
           ![h].min     = IF @ > o.min THEN o.min ELSE @,
           ![h].max     = IF @ < o.max THEN o.max ELSE @,
           ![h].total   = Wrapped(@ + o.total),
           ![h].count   = @ + o.count,
           ![h].buckets = [b \in DOMAIN @ |-> @[b] + o.buckets[b]]]
      /\ added' = [added EXCEPT ![h] = [v \in DOMAIN @ |-> @[v] + added[other][v]]]
      /\ fresh' = IF other \in fresh THEN fresh ELSE fresh \ {h}

\* min_ becomes 0 here, not the largest value as in the constructor.
clear(h) ==
  /\ hist' = [hist EXCEPT ![h] = [ min |-> 0, max |-> 0, total |-> 0,
                                   count |-> 0, buckets |-> Nothing ]]
  /\ added' = [added EXCEPT ![h] = NoValue]
  /\ fresh' = fresh \ {h}

HistNext ==
  \/ \E h \in Hists, v \in Samples : add(h, v)
  \/ \E h, other \in Hists : merge(h, other)
  \/ \E h \in Hists : clear(h)

HistSpec == HistInit /\ [][HistNext]_histVars

-----------------------------------------------------------------------------
(* Properties. *)

\* The zone of bucket b; the last one is closed, as no value lies above it.
Zone(b) == { v \in 0 .. MaxU : /\ threshold_values_[b] <= v
                               /\ v < threshold_values_[b + 1] \/ b = LastBucket }

Counted(h, S) == MapThenSumSet(LAMBDA v : added[h][v], S)
Summed(h, S)  == MapThenSumSet(LAMBDA v : v * added[h][v], S)

\* Each bucket counts the values of its zone, whatever was merged: the binary
\* search ends in the value's zone for the first and the last zone too, and for
\* the largest value, which is below no threshold (histogram.cc:113).
BucketsExact ==
  \A h \in Hists, b \in 0 .. LastBucket : hist[h].buckets[b] = Counted(h, Zone(b))

\* The four sums are those of all values added or merged, total_ modulo 2^64; the
\* minimum only where no clear() is in the histogram's history, its own or of one
\* merged into it, as clear() leaves a minimum of 0 (histogram.cc:93).
SumsExact ==
  \A h \in Hists :
    LET values == { v \in 0 .. MaxU : added[h][v] # 0 }
    IN  /\ hist[h].count = Counted(h, values)
        /\ hist[h].total = Wrapped(Summed(h, values))
        /\ values # {} => hist[h].max = Max(values)
        /\ values # {} /\ h \in fresh => hist[h].min = Min(values)

\* A histogram says of the values it stands for what counting and adding them one by one
\* would, however they came to it.
HistogramExact == BucketsExact /\ SumsExact
=============================================================================
