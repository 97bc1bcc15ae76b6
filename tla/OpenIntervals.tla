---------------------------- MODULE OpenIntervals ----------------------------
(***************************************************************************)
(* perception/open_interval_heap.ts: the parts of a range that a list of   *)
(* closed intervals leaves open, the widest first.  An interval is a pair  *)
(* <<from, to>> with from <= to.                                           *)
(***************************************************************************)
EXTENDS Integers, SequencesExt

\* Array.sort, stable or not (written out, as are the two loops below, for the proofs:
\* those have no access to SortSeq, SelectSeq and the folds)
Sorted(s, Less(_, _)) ==
  LET order == CHOOSE p \in Bijection(DOMAIN s, DOMAIN s) :
                 \A i, j \in DOMAIN s : i < j => ~Less(s[p[j]], s[p[i]])
  IN  [i \in DOMAIN s |-> s[order[i]]]

\* What is left of a list when all but some of its places are spliced out
At(s, places) ==
  LET kept[i \in 0 .. Len(s)] ==
        IF i = 0 THEN <<>> ELSE IF i \in places THEN Append(kept[i - 1], s[i]) ELSE kept[i - 1]
  IN  kept[Len(s)]

Width(interval) == interval[2] - interval[1]

\* intervalCompare
Before(a, b) == a[1] < b[1] \/ (a[1] = b[1] /\ a[2] < b[2])

\* sizedIntervalCompare, reversed
Wider(a, b) == Width(a) > Width(b) \/ (Width(a) = Width(b) /\ Before(b, a))

\* Mutant: of two intervals that overlap only the second one is kept.
CombineLast(acc, i) ==
  LET a == acc.closed[i]
      b == acc.closed[i + 1]
  IN  IF a[2] < b[1] THEN acc ELSE [acc EXCEPT !.remove = @ \cup {i}]

\* The pass over neighbours that marks the intervals to remove.  An interval
\* that encompasses the next one is marked itself, not the next one.
Combine(acc, i) ==
  LET a == acc.closed[i]
      b == acc.closed[i + 1]
  IN  IF a[2] < b[1] THEN acc
      ELSE IF a[2] >= b[2] THEN [acc EXCEPT !.remove = @ \cup {i}]
      ELSE [closed |-> [acc.closed EXCEPT ![i + 1][1] = a[1]],
            remove |-> acc.remove \cup {i}]

\* What is left of the sorted intervals after that pass
Combined(closed) ==
  LET n == Len(closed)
      after[i \in 0 .. n - 1] ==
        IF i = 0 THEN [closed |-> Sorted(closed, Before), remove |-> {}]
        ELSE Combine(after[i - 1], i)
  IN  At(after[n - 1].closed, (1 .. n) \ after[n - 1].remove)

\* The intervals that meet the range, the first and the last cut off at its ends.
Trimmed(start, end, closed) ==
  LET met == At(closed, {i \in DOMAIN closed : start <= closed[i][2] /\ closed[i][1] <= end})
  IN  [k \in DOMAIN met |-> <<IF k = 1 /\ met[k][1] < start THEN start ELSE met[k][1],
                              IF k = Len(met) /\ met[k][2] > end THEN end ELSE met[k][2]>>]

\* The gaps between consecutive closed intervals, and up to the ends of the range
Gaps(start, end, closed) ==
  LET n == Len(closed)
      between == [k \in 1 .. n - 1 |-> <<closed[k][2], closed[k + 1][1]>>]
      first == IF start < closed[1][1] THEN <<<<start, closed[1][1]>>>> ELSE <<>>
      last == IF end > closed[n][2] THEN <<<<closed[n][2], end>>>> ELSE <<>>
  IN  first \o between \o last

\* The heap of a range whose occupied part is the combined and trimmed list; it fails
\* when none of the intervals meets the range.
HeapOver(start, end, closed) ==
  IF closed = <<>>
  THEN [fails |-> TRUE, open |-> <<>>, minOccupied |-> end, maxOccupied |-> start]
  ELSE [fails |-> FALSE,
        open |-> Sorted(Gaps(start, end, closed), Wider),
        minOccupied |-> closed[1][1],
        maxOccupied |-> closed[Len(closed)][2]]

\* new OpenIntervalHeap: `fails' when there are closed intervals and none of
\* them meets the range (the constructor then reads closedIntervals[0][1]).
OpenIntervalHeap(start, end, closedIntervals) ==
  IF closedIntervals = <<>>
  THEN [fails |-> FALSE, open |-> <<<<start, end>>>>,
        minOccupied |-> end, maxOccupied |-> start]
  ELSE HeapOver(start, end, Trimmed(start, end, Combined(closedIntervals)))
=============================================================================
