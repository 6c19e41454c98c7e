------------------------- MODULE ConditioningTimeline -------------------------
(***************************************************************************)
(* The conditioning readings of one case: from the plan, which demands     *)
(* Required minutes of continuous exposure, to the confirmation that locks *)
(* them.  QualificationCase keeps only the length of the longest window;   *)
(* here are the readings, the summary computed from them and the two ways  *)
(* to add to them, one by one and in batches.                              *)
(*                                                                         *)
(* Times are minutes.  A reading covers the minutes from at (included) to  *)
(* its end (excluded); fits says that its temperature and humidity are     *)
(* within the plan.  The durations are too short to overflow int64.        *)
(***************************************************************************)
EXTENDS Integers, Sequences, FiniteSets, SequencesExt

CONSTANTS
    Inputs,       \* the readings that requests carry
    MaxBatch,     \* bound on the readings of a batch
    MaxReadings,  \* bound on the readings of a case
    Required      \* Plan.MinExposure

\* The zero time.Time: a request that names no time.
NoTime == -1

Reading == [at : Nat \cup {NoTime}, minutes : Nat, fits : BOOLEAN]

ASSUME TimelineAssumptions ==
    /\ Inputs \subseteq Reading
    /\ MaxBatch \in Nat /\ MaxReadings \in Nat
    /\ Required \in Nat \ {0}

VARIABLES
    status,     \* PLAN_READY, then CONDITIONED
    readings,   \* Case.Conditioning
    confirmed   \* the window of the CONDITIONED event

vars == <<status, readings, confirmed>>

NoWindow == [from |-> NoTime, to |-> NoTime]

Length(w) == w.to - w.from

Batches == UNION {[1..n -> Inputs] : n \in 0..MaxBatch}

-----------------------------------------------------------------------------
(* Faulty variants.  No specification uses them: each stands for a bug of   *)
(* the definition it resembles, and shows that a property notices it.       *)

LaterEnd(x, y) == y
ContinuesOrOverlaps(previous, current) == current.at <= previous.at + previous.minutes
CombinedNewOnly(rs, b) == b
ContinuationOfFirst(rs) == rs[1].at + rs[1].minutes
BlamedAlwaysCurrent(previous, current) == current.index
ConfirmableAnyWindow(ws, w) == w \in ws
AnyTime(rs, r) == TRUE

-----------------------------------------------------------------------------
(* The summary *)

EndOf(r) == r.at + r.minutes

\* The end of a window that another reading joins.
Later(x, y) == IF y > x THEN y ELSE x

\* The verdict of the summary on reading i of rs.
Compliant(rs, i) ==
    /\ rs[i].at # NoTime /\ rs[i].minutes > 0
    /\ rs[i].fits
    /\ i > 1 => rs[i].at > rs[i - 1].at

Nothing == [closed |-> <<>>, current |-> NoWindow, total |-> 0]

Closed(acc) ==
    IF acc.current = NoWindow THEN acc.closed ELSE Append(acc.closed, acc.current)

\* One round of the loop: windows closed so far, the one being extended, the minutes.
Scan(rs, acc, i) ==
    LET r     == rs[i]
        total == acc.total + r.minutes
    IN  IF ~Compliant(rs, i)
        THEN [closed |-> Closed(acc), current |-> NoWindow, total |-> acc.total]
        ELSE IF acc.current = NoWindow \/ r.at > acc.current.to
        THEN [closed |-> Closed(acc), current |-> [from |-> r.at, to |-> EndOf(r)], total |-> total]
        ELSE [closed  |-> acc.closed,
              current |-> [from |-> acc.current.from, to |-> Later(acc.current.to, EndOf(r))],
              total   |-> total]

\* The loop over all readings.
Scanned(rs) ==
    LET upTo[n \in 0..Len(rs)] == IF n = 0 THEN Nothing ELSE Scan(rs, upTo[n - 1], n)
    IN  upTo[Len(rs)]

\* Summary.Windows, in order.
Windows(rs) == Closed(Scanned(rs))

\* Summary.CumulativeExposureMinutes.
Cumulative(rs) == Scanned(rs).total

\* Summary.LongestWindow: the first of the longest.
LongestWindow(rs) ==
    LET ws == Windows(rs)
        best(i) == \A j \in 1..Len(ws) : \/ Length(ws[j]) < Length(ws[i])
                                         \/ Length(ws[j]) = Length(ws[i]) /\ j >= i
    IN  IF ws = <<>> THEN NoWindow ELSE ws[CHOOSE i \in 1..Len(ws) : best(i)]

LongestMinutes(rs) == Length(LongestWindow(rs))

\* Summary.Confirmable of readings that are not locked.
Confirmable(rs) == LongestMinutes(rs) >= Required

\* The gaps the summary finds: FirstIssue is the first of them.
ReportedGaps(rs) ==
    {[from |-> EndOf(rs[i - 1]), to |-> rs[i].at] :
        i \in {j \in 2..Len(rs) : Compliant(rs, j) /\ rs[j].at > EndOf(rs[j - 1])}}

-----------------------------------------------------------------------------
(* One reading *)

\* Position i of rs joins the order of the positions before it: behind the last one
\* that is not later.
Inserted(rs, order, i) ==
    LET k == Max({0} \cup {j \in 1..Len(order) : rs[order[j]].at <= rs[i].at})
    IN  SubSeq(order, 1, k) \o <<i>> \o SubSeq(order, k + 1, Len(order))

\* sort.SliceStable by time: the positions of rs in the order of their times.
StableOrder(rs) ==
    LET upTo[n \in 0..Len(rs)] == IF n = 0 THEN <<>> ELSE Inserted(rs, upTo[n - 1], n)
    IN  upTo[Len(rs)]

Sorted(rs) == LET order == StableOrder(rs) IN [k \in 1..Len(rs) |-> rs[order[k]]]

\* Where a reading without a time goes: behind the last one.
Continuation(rs) == EndOf(Last(rs))

\* No recorded reading starts at the same time.
TimeIsFree(rs, r) == \A i \in 1..Len(rs) : rs[i].at # r.at

\* The first reading of a case gets the time of the clock: any.
Timed(rs, r) ==
    IF r.at # NoTime THEN {r}
    ELSE IF rs # <<>> THEN {[r EXCEPT !.at = Continuation(rs)]}
    ELSE {x \in Inputs : x.at # NoTime /\ x.minutes = r.minutes /\ x.fits = r.fits}

Init ==
    /\ status = "PLAN_READY"
    /\ readings = <<>>
    /\ confirmed = NoWindow

\* Readings become rs; confirm locks them at once with their longest window.
Record(rs, confirm) ==
    /\ readings' = rs
    /\ \/ ~confirm /\ UNCHANGED <<status, confirmed>>
       \/ confirm /\ Confirmable(rs)
          /\ status' = "CONDITIONED"
          /\ confirmed' = LongestWindow(rs)

HasRoom(n) == Len(readings) + n <= MaxReadings

AddConditioning(r, confirm) ==
    /\ status = "PLAN_READY"
    /\ HasRoom(1)
    /\ r.minutes > 0
    /\ \E x \in Timed(readings, r) :
          /\ TimeIsFree(readings, x)
          /\ x.fits
          /\ Record(Sorted(Append(readings, x)), confirm)

-----------------------------------------------------------------------------
(* A batch *)

\* The checks of the items by themselves.
WellFormed(b) ==
    /\ b # <<>>
    /\ \A i \in 1..Len(b) :
          /\ b[i].at # NoTime
          /\ i > 1 => b[i].at > b[i - 1].at
          /\ b[i].minutes > 0
          /\ b[i].fits

\* Recorded readings come first before they are sorted, and have the index 0.
Merged(rs, b) ==
    LET all   == rs \o b
        order == StableOrder(all)
        index(i) == IF i <= Len(rs) THEN 0 ELSE i - Len(rs)
    IN  [k \in 1..Len(all) |-> [reading |-> all[order[k]], index |-> index(order[k])]]

Continues(previous, current) == current.at = EndOf(previous)

\* Positions of the merged timeline where it does not go on.
Breaks(m) == {i \in 2..Len(m) : ~Continues(m[i - 1].reading, m[i].reading)}

\* The item of the batch an error names (counted from 1 here, from 0 there).
Blamed(previous, current) ==
    IF current.index # 0 THEN current.index
    ELSE IF previous.index # 0 THEN previous.index
    ELSE 1

\* What PreviewConditioningBatch answers to a well-formed batch.
RefusedItem(rs, b) ==
    LET m == Merged(rs, b)
        i == CHOOSE j \in Breaks(m) : \A k \in Breaks(m) : j <= k
    IN  Blamed(m[i - 1], m[i])

Combined(rs, b) ==
    LET m == Merged(rs, b) IN [i \in 1..Len(m) |-> m[i].reading]

\* What is left of the batches after the checks of their items.
WellFormedBatches == {b \in Batches : WellFormed(b)}

AcceptsBatch(rs, b) == WellFormed(b) /\ Breaks(Merged(rs, b)) = {}

AddConditioningBatch(b, confirm) ==
    /\ status = "PLAN_READY"
    /\ HasRoom(Len(b))
    /\ AcceptsBatch(readings, b)
    /\ Record(Combined(readings, b), confirm)

-----------------------------------------------------------------------------
(* Confirmation *)

\* A window a client may name: one of the summary that is long enough.
MayConfirm(ws, w) == w \in ws /\ Length(w) >= Required

\* Without a window the longest one is confirmed; otherwise the one that is named
\* must be a window of the summary.
ConfirmConditioning(w) ==
    /\ status = "PLAN_READY"
    /\ Confirmable(readings)
    /\ \/ w = NoWindow /\ confirmed' = LongestWindow(readings)
       \/ /\ w # NoWindow
          /\ MayConfirm(ToSet(Windows(readings)), w)
          /\ confirmed' = w
    /\ status' = "CONDITIONED"
    /\ UNCHANGED readings

Instants == {r.at : r \in ToSet(readings)} \cup {EndOf(r) : r \in ToSet(readings)}

\* The windows a client may name.
NamedWindows == {NoWindow} \cup {w \in [from : Instants, to : Instants] : w.from < w.to}

Next ==
    \/ \E r \in Inputs, confirm \in BOOLEAN : AddConditioning(r, confirm)
    \/ \E b \in Batches, confirm \in BOOLEAN : AddConditioningBatch(b, confirm)
    \/ \E w \in NamedWindows : ConfirmConditioning(w)

Spec == Init /\ [][Next]_vars

-----------------------------------------------------------------------------
(* Properties *)

\* The minutes that some reading covers, and the maximal runs of them: what a
\* window is, without a scan.
Covered(rs) == UNION {r.at..(EndOf(r) - 1) : r \in ToSet(rs)}
IsRun(C, w) == /\ w.from < w.to
               /\ w.from..(w.to - 1) \subseteq C
               /\ w.from - 1 \notin C /\ w.to \notin C
Runs(rs) == {w \in [from : Instants, to : Instants] : IsRun(Covered(rs), w)}

\* Recorded readings are in order, have a time of their own and fit the plan.
TypeOK ==
    /\ status \in {"PLAN_READY", "CONDITIONED"}
    /\ readings \in Seq(Reading)
    /\ \A i \in 1..Len(readings) : Compliant(readings, i)
    /\ confirmed \in [from : Nat \cup {NoTime}, to : Nat \cup {NoTime}]

\* The scan of the summary, which looks at one reading and the window before it,
\* finds exactly the maximal runs of covered minutes, in order and none twice,
\* however the readings overlap or contain each other.
SummaryFindsRuns ==
    /\ ToSet(Windows(readings)) = Runs(readings)
    /\ \A i \in 2..Len(Windows(readings)) :
          Windows(readings)[i - 1].to < Windows(readings)[i].from

\* What was confirmed stays covered, all of it and at least as long as the plan
\* demands, and it was not cut out of a longer run.
ConfirmedIsARun ==
    status = "CONDITIONED" => /\ confirmed \in Runs(readings)
                              /\ Length(confirmed) >= Required

\* The step records the batch b.
Batched(b) ==
    /\ readings' # readings /\ ToSet(b) \subseteq ToSet(readings')
    /\ \E confirm \in BOOLEAN : AddConditioningBatch(b, confirm)

\* An accepted batch leaves one window and no minute covered twice: the recorded
\* history and the batch continue each other in either order.
BatchLeavesOneWindow ==
    [][(\E b \in WellFormedBatches : Batched(b)) =>
            /\ Len(Windows(readings')) = 1
            /\ Cumulative(readings') = LongestMinutes(readings')]_vars

\* What QualificationCase takes for granted: a reading never shortens the longest
\* window, a batch lengthens it, and a first one makes it positive.
ExposureGrows ==
    [][/\ LongestMinutes(readings') >= LongestMinutes(readings)
       /\ readings' # readings => LongestMinutes(readings') > 0
       /\ (\E b \in WellFormedBatches : Batched(b)) =>
              LongestMinutes(readings') > LongestMinutes(readings)]_vars

\* A client that leaves the time to the server never opens a gap: the reading
\* joins the window of the last one, even behind readings that overlap.
UntimedReadingJoins ==
    readings # <<>> =>
        \A r \in Inputs : r.at = NoTime /\ r.minutes > 0 =>
            \A x \in Timed(readings, r) :
                /\ TimeIsFree(readings, x)
                /\ Len(Windows(Sorted(Append(readings, x)))) = Len(Windows(readings))

\* The item a refused batch names really is one that does not fit: it shares
\* minutes with a neighbour or has one at a distance, unless the recorded
\* readings were broken before.
Fits(x, others) ==
    /\ \A y \in others : EndOf(y) <= x.at \/ EndOf(x) <= y.at
    /\ (\E y \in others : y.at < x.at) => \E y \in others : EndOf(y) = x.at
    /\ (\E y \in others : y.at > x.at) => \E y \in others : y.at = EndOf(x)

Continuous(rs) == \A i \in 2..Len(rs) : Continues(rs[i - 1], rs[i])

RefusalNamesTheItem ==
    status = "PLAN_READY" => \A b \in WellFormedBatches :
        ~AcceptsBatch(readings, b) =>
            LET i == RefusedItem(readings, b)
            IN  /\ i \in 1..Len(b)
                /\ Continuous(readings) =>
                      \/ ~Fits(b[i], (ToSet(readings) \cup ToSet(b)) \ {b[i]})
                      \/ b[i] \in ToSet(readings)

-----------------------------------------------------------------------------
(* What a document says and the code does not do *)

\* README.md:21: the summary returns the gaps.  A gap is a time nothing covers.
ReportedGapsAreUncovered ==
    \A g \in ReportedGaps(readings) :
        (g.from..(g.to - 1)) \cap Covered(readings) = {}
=============================================================================
