---------------------- MODULE ConditioningTimelineProofs ----------------------
(***************************************************************************)
(* The readings of ConditioningTimeline, for any number of them of any     *)
(* length: proofs that sorting keeps them and puts them in order, that the *)
(* scan of the summary finds the maximal runs of covered minutes, and of   *)
(* what this means for the confirmation, for batches and for a reading     *)
(* without a time.                                                         *)
(***************************************************************************)
EXTENDS ConditioningTimeline, SequenceTheorems, NaturalsInduction, WellFoundedInduction, TLAPS

-----------------------------------------------------------------------------
(* Numbers and loops *)

\* A set of numbers that is not empty has a least one.
LEMMA LeastNumber ==
    ASSUME NEW T \in SUBSET Nat, T # {}
    PROVE  \E m \in T : \A k \in T : m <= k
    <1> DEFINE R == OpToRel(<, Nat)
    <1>1. IsWellFoundedOn(R, Nat)
        BY NatLessThanWellFounded
    <1>2. \A m, k \in Nat : <<m, k>> \in R <=> m < k
        BY DEF OpToRel
    <1> HIDE DEF R
    <1>3. PICK m \in T : \A k \in T : <<k, m>> \notin R
        BY <1>1, WFMin
    <1>4. \A k \in T : m <= k
        <2> TAKE k \in T
        <2>1. m \in Nat /\ k \in Nat
            OBVIOUS
        <2>2. ~(k < m)
            BY <1>2, <1>3, <2>1
        <2> QED
            BY <2>1, <2>2
    <1> QED
        BY <1>4

\* ... and a greatest one when it is bounded.
LEMMA GreatestNumber ==
    ASSUME NEW n \in Nat, NEW T \in SUBSET (0..n), T # {}
    PROVE  \E m \in T : \A k \in T : k <= m
    <1> DEFINE U == {u \in Nat : \A k \in T : k <= u}
    <1>1. U \in SUBSET Nat /\ n \in U
        OBVIOUS
    <1>2. PICK u \in U : \A v \in U : u <= v
        BY <1>1, LeastNumber
    <1>3. u \in Nat /\ \A k \in T : k <= u
        OBVIOUS
    <1>4. u \in T
        <2> SUFFICES ASSUME u \notin T PROVE FALSE
            OBVIOUS
        <2>1. \A k \in T : k \in Nat /\ k < u
            BY <1>3
        <2>2. u > 0
            <3>1. PICK k \in T : TRUE
                OBVIOUS
            <3> QED
                BY <1>3, <2>1, <3>1
        <2>3. u - 1 \in Nat /\ \A k \in T : k <= u - 1
            BY <1>3, <2>1, <2>2
        <2>4. u - 1 \in U
            BY <2>3
        <2> QED
            BY <1>2, <1>3, <2>4
    <1> QED
        BY <1>3, <1>4

\* Max of the community modules finds it.
LEMMA MaxIs ==
    ASSUME NEW n \in Nat, NEW T \in SUBSET (0..n), T # {}
    PROVE  Max(T) \in T /\ \A k \in T : k <= Max(T)
    <1>1. \E m \in T : \A k \in T : m >= k
        BY GreatestNumber
    <1>2. Max(T) \in T /\ \A k \in T : Max(T) >= k
        BY <1>1 DEF Max
    <1> QED
        BY <1>2

\* f is what a loop of n rounds, each of which makes of a member of S another one,
\* has made after each of them.
IsLoop(f, n, start, round) == f[0] = start /\ \A k \in 1..n : f[k] = round[<<k, f[k - 1]>>]
Loops(n, S, start, round) == \E f \in [0..n -> S] : IsLoop(f, n, start, round)

\* A loop has a result after every round: the recursive function that models it exists.
LEMMA LoopRuns ==
    ASSUME NEW n \in Nat, NEW S, NEW start \in S, NEW round \in [(1..n) \X S -> S]
    PROVE  Loops(n, S, start, round)
    <1> DEFINE Made(m) == \E f \in [0..m -> S] :
                              f[0] = start /\ \A k \in 1..m : f[k] = round[<<k, f[k - 1]>>]
               Stuck == {m \in 0..n : ~Made(m)}
    <1>1. ASSUME Stuck # {} PROVE FALSE
        <2>1. Stuck \in SUBSET Nat
            OBVIOUS
        <2>2. PICK m \in Stuck : \A k \in Stuck : m <= k
            BY <1>1, <2>1, LeastNumber
        <2>3. m \in 0..n /\ ~Made(m)
            OBVIOUS
        <2>4. CASE m = 0
            <3>1. PICK f : f = [k \in 0..0 |-> start]
                OBVIOUS
            <3>2. f \in [0..0 -> S] /\ f[0] = start
                BY <3>1
            <3> QED
                BY <2>3, <2>4, <3>2
        <2>5. CASE m # 0
            <3>1. PICK p \in 0..n : p = m - 1
                BY <2>3, <2>5
            <3>2. PICK f \in [0..p -> S] :
                      f[0] = start /\ \A k \in 1..p : f[k] = round[<<k, f[k - 1]>>]
                <4>1. p \notin Stuck
                    BY <2>2, <2>3, <3>1
                <4> QED
                    BY <4>1
            <3>3. m \in 1..n /\ f[p] \in S /\ round[<<m, f[p]>>] \in S
                BY <2>3, <2>5, <3>1
            <3>4. PICK g : g = [k \in 0..m |-> IF k = m THEN round[<<m, f[p]>>] ELSE f[k]]
                OBVIOUS
            <3>5. \A k \in 0..p : g[k] = f[k] /\ g[k] \in S
                BY <2>3, <3>1, <3>4
            <3>6. g[m] = round[<<m, f[p]>>]
                BY <2>3, <3>4
            <3>7. g \in [0..m -> S]
                BY <2>3, <3>1, <3>3, <3>4
            <3>8. ASSUME NEW k \in 1..m PROVE g[k] = round[<<k, g[k - 1]>>]
                <4>1. CASE k = m
                    <5>1. k - 1 = p /\ p \in 0..p
                        BY <2>3, <3>1, <4>1
                    <5>2. g[p] = f[p]
                        BY <3>5, <5>1
                    <5> QED
                        BY <3>6, <4>1, <5>1, <5>2
                <4>2. CASE k \in 1..p
                    <5>1. k \in 0..p /\ k - 1 \in 0..p
                        BY <4>2
                    <5> QED
                        BY <3>2, <3>5, <4>2, <5>1
                <4> QED
                    BY <2>3, <3>1, <4>1, <4>2
            <3>9. g[0] = start
                BY <2>3, <3>1, <3>2, <3>5
            <3> QED
                BY <2>3, <3>7, <3>8, <3>9
        <2> QED
            BY <2>4, <2>5
    <1>2. n \in 0..n /\ Stuck = {}
        BY <1>1
    <1>3. Made(n)
        <2> HIDE DEF Made
        <2> QED
            BY <1>2
    <1> QED
        BY <1>3 DEF Loops, IsLoop

-----------------------------------------------------------------------------
(* Sorting *)

Before(rs, i, j) == rs[i].at < rs[j].at \/ (rs[i].at = rs[j].at /\ i < j)

\* The first n positions of rs by their times, equal ones as they stand.
OrdersFirst(rs, order, n) ==
    /\ order \in Seq(Nat) /\ Len(order) = n
    /\ \A k \in 1..n : order[k] \in 1..n
    /\ \A i \in 1..n : \E k \in 1..n : order[k] = i
    /\ \A k, l \in 1..n : k < l => Before(rs, order[k], order[l])

Timely(rs) == Len(rs) \in Nat /\ \A i \in 1..Len(rs) : rs[i].at \in Int

\* g is s with e behind its first k members.
IsSplice(g, s, k, e) ==
    /\ Len(g) = Len(s) + 1
    /\ \A j \in 1..k : g[j] = s[j]
    /\ g[k + 1] = e
    /\ \A j \in (k + 1)..Len(s) : g[j + 1] = s[j]

Splice(s, k, e) == SubSeq(s, 1, k) \o <<e>> \o SubSeq(s, k + 1, Len(s))

\* Taking a sequence apart at k and putting e between yields the three parts in a row.
LEMMA Spliced ==
    ASSUME NEW S, NEW s \in Seq(S), NEW k \in 0..Len(s), NEW e \in S
    PROVE  Splice(s, k, e) \in Seq(S) /\ IsSplice(Splice(s, k, e), s, k, e)
    <1>1. Len(s) \in Nat /\ \A j \in 1..Len(s) : s[j] \in S
        BY ElementOfSeq, LenProperties
    <1> DEFINE p == SubSeq(s, 1, k)
               q == SubSeq(s, k + 1, Len(s))
               m == p \o <<e>>
               g == m \o q
    <1>2. p \in Seq(S) /\ Len(p) = k /\ \A j \in 1..k : p[j] = s[j]
        <2>1. /\ p \in Seq(S) /\ Len(p) = IF 1 <= k THEN k - 1 + 1 ELSE 0
              /\ \A j \in 1..(k - 1 + 1) : p[j] = s[1 + j - 1]
            BY <1>1, SubSeqProperties
        <2> QED
            BY <1>1, <2>1
    <1>3. /\ q \in Seq(S) /\ Len(q) = Len(s) - k
          /\ \A j \in 1..(Len(s) - k) : q[j] = s[k + j]
        <2>1. /\ q \in Seq(S) /\ Len(q) = IF k + 1 <= Len(s) THEN Len(s) - (k + 1) + 1 ELSE 0
              /\ \A j \in 1..(Len(s) - (k + 1) + 1) : q[j] = s[(k + 1) + j - 1]
            BY <1>1, SubSeqProperties
        <2> QED
            BY <1>1, <2>1
    <1> HIDE DEF p, q
    <1>4. <<e>> \in Seq(S) /\ Len(<<e>>) = 1 /\ <<e>>[1] = e
        OBVIOUS
    <1>5. /\ m \in Seq(S) /\ Len(m) = k + 1 /\ m[k + 1] = e
          /\ \A j \in 1..k : m[j] = s[j]
        <2>1. /\ m \in Seq(S) /\ Len(m) = Len(p) + Len(<<e>>)
              /\ \A j \in 1..(Len(p) + Len(<<e>>)) :
                    m[j] = IF j <= Len(p) THEN p[j] ELSE <<e>>[j - Len(p)]
            BY <1>2, <1>4, ConcatProperties
        <2>2. m[k + 1] = <<e>>[1]
            BY <1>1, <1>2, <1>4, <2>1
        <2> QED
            BY <1>1, <1>2, <1>4, <2>1, <2>2
    <1> HIDE DEF m
    <1>7. /\ g \in Seq(S) /\ Len(g) = Len(m) + Len(q)
          /\ \A j \in 1..(Len(m) + Len(q)) : g[j] = IF j <= Len(m) THEN m[j] ELSE q[j - Len(m)]
        BY <1>3, <1>5, ConcatProperties
    <1> HIDE DEF g
    <1>8. \A j \in 1..(k + 1) : g[j] = m[j]
        <2> TAKE j \in 1..(k + 1)
        <2>1. j \in 1..(Len(m) + Len(q)) /\ j <= Len(m)
            BY <1>1, <1>3, <1>5
        <2> QED
            BY <1>7, <2>1
    <1>9. ASSUME NEW j \in (k + 1)..Len(s) PROVE g[j + 1] = s[j]
        <2>1. PICK i \in 1..(Len(s) - k) : i = j - k
            BY <1>1
        <2>2. PICK n : n = j + 1
            OBVIOUS
        <2>3. n \in 1..(Len(m) + Len(q)) /\ ~(n <= Len(m)) /\ n - Len(m) = i
            BY <1>1, <1>3, <1>5, <2>1, <2>2
        <2>4. g[n] = q[i]
            BY <1>7, <2>3
        <2> QED
            BY <1>1, <1>3, <2>1, <2>2, <2>4
    <1>10. Len(g) = Len(s) + 1
        BY <1>1, <1>3, <1>5, <1>7
    <1>11. g[k + 1] = e /\ \A j \in 1..k : g[j] = s[j]
        BY <1>1, <1>5, <1>8
    <1> QED
        BY <1>7, <1>9, <1>10, <1>11 DEF g, m, p, q, Splice, IsSplice

\* Where position i of rs joins the order.
IsPlace(k, rs, order, i) ==
    /\ k > 0 => rs[order[k]].at <= rs[i].at
    /\ \A j \in (k + 1)..Len(order) : ~(rs[order[j]].at <= rs[i].at)

InsertedWell(g, rs, order, i) ==
    /\ g \in Seq(Nat)
    /\ \E k \in 0..Len(order) : IsPlace(k, rs, order, i) /\ IsSplice(g, order, k, i)

\* One round of the stable sort puts i behind all that are not later than it, and
\* leaves the others as they were.
LEMMA InsertedIs ==
    ASSUME NEW rs, NEW order \in Seq(Nat), NEW i \in Nat
    PROVE  InsertedWell(Inserted(rs, order, i), rs, order, i)
    <1>1. Len(order) \in Nat
        BY LenProperties
    <1> DEFINE T == {0} \cup {j \in 1..Len(order) : rs[order[j]].at <= rs[i].at}
    <1>2. T \in SUBSET (0..Len(order)) /\ T # {}
        BY <1>1
    <1>3. PICK k : k = Max(T)
        OBVIOUS
    <1>4. k \in T /\ \A j \in T : j <= k
        BY <1>1, <1>2, <1>3, MaxIs
    <1>5. k \in 0..Len(order) /\ (k > 0 => rs[order[k]].at <= rs[i].at)
        BY <1>1, <1>4
    <1>6. ASSUME NEW j \in (k + 1)..Len(order) PROVE ~(rs[order[j]].at <= rs[i].at)
        <2>1. j \in 1..Len(order) /\ ~(j <= k)
            BY <1>1, <1>5
        <2> QED
            BY <1>4, <2>1
    <1>7. Inserted(rs, order, i) = Splice(order, k, i)
        BY <1>3 DEF Inserted, Splice
    <1>8. IsPlace(k, rs, order, i)
        BY <1>5, <1>6 DEF IsPlace
    <1>9. k \in 0..Len(order)
        BY <1>5
    <1>10. Splice(order, k, i) \in Seq(Nat) /\ IsSplice(Splice(order, k, i), order, k, i)
        BY <1>9, Spliced, Zenon
    <1> QED
        BY <1>7, <1>8, <1>9, <1>10, Zenon DEF InsertedWell

\* If the first n readings are in order, inserting the next keeps n + 1 of them in order.
LEMMA OneMoreInOrder ==
    ASSUME NEW rs, Timely(rs), NEW n \in Nat, n < Len(rs), NEW order, OrdersFirst(rs, order, n)
    PROVE  OrdersFirst(rs, Inserted(rs, order, n + 1), n + 1)
    <1>1. order \in Seq(Nat) /\ Len(order) = n /\ Len(rs) \in Nat
        BY DEF OrdersFirst, Timely
    <1>2. n + 1 \in Nat
        OBVIOUS
    <1>3. PICK g : g = Inserted(rs, order, n + 1) /\ InsertedWell(g, rs, order, n + 1)
        <2>1. InsertedWell(Inserted(rs, order, n + 1), rs, order, n + 1)
            BY <1>1, <1>2, InsertedIs, Zenon
        <2> QED
            BY <2>1
    <1>4. PICK k \in 0..n :
              /\ Len(g) = n + 1
              /\ k > 0 => rs[order[k]].at <= rs[n + 1].at
              /\ \A j \in (k + 1)..n : ~(rs[order[j]].at <= rs[n + 1].at)
              /\ \A j \in 1..k : g[j] = order[j]
              /\ g[k + 1] = n + 1
              /\ \A j \in (k + 1)..n : g[j + 1] = order[j]
        BY <1>1, <1>3 DEF InsertedWell, IsPlace, IsSplice
    <1>5. /\ \A j \in 1..n : order[j] \in 1..n
          /\ \A i \in 1..n : \E j \in 1..n : order[j] = i
          /\ \A p, q \in 1..n : p < q => Before(rs, order[p], order[q])
        BY DEF OrdersFirst
    <1>6. \A i \in 1..(n + 1) : rs[i].at \in Int
        BY DEF Timely
    <1>7. ASSUME NEW j \in 1..(n + 1)
          PROVE  \/ j \in 1..k /\ g[j] = order[j] /\ j \in 1..n
                 \/ j = k + 1 /\ g[j] = n + 1
                 \/ j - 1 \in (k + 1)..n /\ g[j] = order[j - 1] /\ j - 1 \in 1..n
        <2>1. CASE j <= k
            BY <1>4, <2>1
        <2>2. CASE j = k + 1
            BY <1>4, <2>2
        <2>3. CASE j > k + 1
            <3>1. PICK i \in (k + 1)..n : i = j - 1
                BY <2>3
            <3>2. g[i + 1] = order[i] /\ i + 1 = j
                BY <1>4, <3>1
            <3> QED
                BY <3>1, <3>2
        <2> QED
            BY <2>1, <2>2, <2>3
    <1>8. \A j \in 1..(n + 1) : g[j] \in 1..(n + 1)
        <2> TAKE j \in 1..(n + 1)
        <2>1. \A i \in 1..n : order[i] \in 1..(n + 1)
            BY <1>5
        <2> QED
            BY <1>7, <2>1
    <1>9. ASSUME NEW i \in 1..(n + 1) PROVE \E j \in 1..(n + 1) : g[j] = i
        <2>1. CASE i = n + 1
            <3>1. k + 1 \in 1..(n + 1)
                OBVIOUS
            <3> QED
                BY <1>4, <2>1, <3>1
        <2>2. CASE i \in 1..n
            <3>1. PICK j \in 1..n : order[j] = i
                BY <1>5, <2>2
            <3>2. CASE j <= k
                <4>1. j \in 1..k /\ j \in 1..(n + 1)
                    BY <3>2
                <4> QED
                    BY <1>4, <3>1, <4>1
            <3>3. CASE j > k
                <4>1. j \in (k + 1)..n /\ j + 1 \in 1..(n + 1)
                    BY <3>3
                <4> QED
                    BY <1>4, <3>1, <4>1
            <3> QED
                BY <3>2, <3>3
        <2> QED
            BY <2>1, <2>2
    <1>10. ASSUME NEW p \in 1..k PROVE Before(rs, order[p], n + 1)
        <2>1. order[p] \in 1..n /\ order[k] \in 1..n /\ rs[order[k]].at <= rs[n + 1].at
            BY <1>4, <1>5
        <2>2. rs[order[p]].at <= rs[order[k]].at
            <3>1. CASE p = k
                BY <1>6, <2>1, <3>1
            <3>2. CASE p < k
                <4>1. p \in 1..n /\ k \in 1..n
                    BY <3>2
                <4>2. Before(rs, order[p], order[k])
                    BY <1>5, <3>2, <4>1
                <4>3. rs[order[p]].at < rs[order[k]].at \/ rs[order[p]].at = rs[order[k]].at
                    BY <4>2 DEF Before
                <4>4. order[p] \in 1..(n + 1) /\ order[k] \in 1..(n + 1)
                    BY <2>1
                <4>5. rs[order[p]].at \in Int /\ rs[order[k]].at \in Int
                    BY <1>6, <4>4
                <4> QED
                    BY <4>3, <4>5
            <3> QED
                BY <3>1, <3>2
        <2> QED
            <3>1. /\ rs[order[p]].at \in Int /\ rs[order[k]].at \in Int /\ rs[n + 1].at \in Int
                  /\ order[p] < n + 1
                BY <1>6, <2>1
            <3> QED
                BY <2>1, <2>2, <3>1 DEF Before
    <1>11. ASSUME NEW q \in (k + 1)..n PROVE Before(rs, n + 1, order[q])
        <2>0. ~(rs[order[q]].at <= rs[n + 1].at)
            BY <1>4
        <2>1. q \in 1..n /\ order[q] \in 1..n
            BY <1>5
        <2>2. rs[order[q]].at \in Int /\ rs[n + 1].at \in Int
            BY <1>6, <2>1
        <2> QED
            BY <2>0, <2>1, <2>2 DEF Before
    <1>12. ASSUME NEW p \in 1..(n + 1), NEW q \in 1..(n + 1), p < q
           PROVE  Before(rs, g[p], g[q])
        <2>1. CASE p \in 1..k /\ g[p] = order[p]
            <3>1. CASE q \in 1..k /\ g[q] = order[q] /\ q \in 1..n
                <4>1. p \in 1..n /\ Before(rs, order[p], order[q])
                    BY <1>5, <1>12, <2>1, <3>1
                <4> QED
                    BY <2>1, <3>1, <4>1
            <3>2. CASE g[q] = n + 1
                BY <1>10, <2>1, <3>2
            <3>3. CASE q - 1 \in (k + 1)..n /\ g[q] = order[q - 1] /\ q - 1 \in 1..n
                <4>1. p \in 1..n /\ p < q - 1
                    BY <2>1, <3>3
                <4> QED
                    BY <1>5, <2>1, <3>3, <4>1
            <3> QED
                BY <1>7, <3>1, <3>2, <3>3
        <2>2. CASE p = k + 1 /\ g[p] = n + 1
            <3>1. q - 1 \in (k + 1)..n /\ g[q] = order[q - 1]
                BY <1>7, <1>12, <2>2
            <3> QED
                BY <1>11, <2>2, <3>1
        <2>3. CASE p - 1 \in (k + 1)..n /\ g[p] = order[p - 1] /\ p - 1 \in 1..n
            <3>1. q - 1 \in 1..n /\ g[q] = order[q - 1]
                BY <1>7, <1>12, <2>3
            <3>2. p - 1 < q - 1
                BY <1>12
            <3> QED
                BY <1>5, <2>3, <3>1, <3>2
        <2> QED
            BY <1>7, <2>1, <2>2, <2>3
    <1> QED
        BY <1>3, <1>4, <1>8, <1>9, <1>12 DEF OrdersFirst, InsertedWell

\* StableOrder names each reading once, by time, and equal times in their old order.
LEMMA StableOrderSorts ==
    ASSUME NEW rs, Timely(rs)
    PROVE  OrdersFirst(rs, StableOrder(rs), Len(rs))
    <1>1. Len(rs) \in Nat
        BY DEF Timely
    <1> DEFINE F(f) == f = [n \in 0..Len(rs) |-> IF n = 0 THEN <<>> ELSE Inserted(rs, f[n - 1], n)]
    <1>2. \E f : F(f)
        <2>1. PICK round : round = [x \in (1..Len(rs)) \X Seq(Nat) |-> Inserted(rs, x[2], x[1])]
            OBVIOUS
        <2>2. ASSUME NEW n \in 1..Len(rs), NEW order \in Seq(Nat)
              PROVE  round[<<n, order>>] = Inserted(rs, order, n) /\ round[<<n, order>>] \in Seq(Nat)
            <3>1. round[<<n, order>>] = Inserted(rs, order, n)
                BY <2>1
            <3>0. n \in Nat
                BY <1>1
            <3>2. InsertedWell(Inserted(rs, order, n), rs, order, n)
                BY <3>0, InsertedIs, Zenon
            <3> QED
                BY <3>1, <3>2, Zenon DEF InsertedWell
        <2>3. round \in [(1..Len(rs)) \X Seq(Nat) -> Seq(Nat)]
            BY <2>1, <2>2
        <2>4. <<>> \in Seq(Nat)
            OBVIOUS
        <2>5. PICK f \in [0..Len(rs) -> Seq(Nat)] :
                  f[0] = <<>> /\ \A n \in 1..Len(rs) : f[n] = round[<<n, f[n - 1]>>]
            <3> HIDE DEF F
            <3>1. Loops(Len(rs), Seq(Nat), <<>>, round)
                BY <1>1, <2>3, <2>4, LoopRuns, Zenon
            <3> QED
                BY <3>1 DEF Loops, IsLoop
        <2>6. ASSUME NEW n \in 1..Len(rs) PROVE f[n] = Inserted(rs, f[n - 1], n)
            <3>1. n - 1 \in 0..Len(rs) /\ f[n - 1] \in Seq(Nat)
                BY <1>1, <2>5
            <3> QED
                BY <2>2, <2>5, <3>1
        <2>7. F(f)
            BY <1>1, <2>5, <2>6
        <2> QED
            BY <2>7
    <1>3. StableOrder(rs) = (CHOOSE f : F(f))[Len(rs)]
        BY DEF StableOrder
    <1>4. PICK f : F(f) /\ StableOrder(rs) = f[Len(rs)]
        <2> HIDE DEF F
        <2> QED
            BY <1>2, <1>3, Zenon
    <1>5. f[0] = <<>> /\ \A n \in 1..Len(rs) : f[n] = Inserted(rs, f[n - 1], n)
        BY <1>1, <1>4
    <1> DEFINE Bad == {n \in 0..Len(rs) : ~OrdersFirst(rs, f[n], n)}
    <1>6. ASSUME Bad # {} PROVE FALSE
        <2>1. Bad \in SUBSET Nat
            OBVIOUS
        <2>2. PICK m \in Bad : \A n \in Bad : m <= n
            BY <1>6, <2>1, LeastNumber
        <2>3. m \in 0..Len(rs) /\ ~OrdersFirst(rs, f[m], m)
            OBVIOUS
        <2>4. m # 0
            <3>1. OrdersFirst(rs, <<>>, 0)
                BY DEF OrdersFirst
            <3> QED
                BY <1>5, <2>3, <3>1
        <2>5. PICK p \in 0..Len(rs) : p = m - 1
            BY <1>1, <2>3, <2>4
        <2>6. OrdersFirst(rs, f[p], p)
            BY <2>2, <2>3, <2>5
        <2>7. OrdersFirst(rs, Inserted(rs, f[p], p + 1), p + 1)
            BY <1>1, <2>3, <2>5, <2>6, OneMoreInOrder
        <2>8. p + 1 = m /\ f[m] = Inserted(rs, f[p], m)
            BY <1>1, <1>5, <2>3, <2>4, <2>5
        <2> QED
            BY <2>3, <2>7, <2>8
    <1>7. Len(rs) \in 0..Len(rs) /\ Len(rs) \notin Bad
        BY <1>1, <1>6
    <1> HIDE DEF F
    <1>8. OrdersFirst(rs, f[Len(rs)], Len(rs))
        BY <1>7
    <1> QED
        BY <1>4, <1>8

-----------------------------------------------------------------------------
(* Readings in order *)

Orderly(rs) == rs \in Seq(Reading) /\ \A i \in 1..Len(rs) : Compliant(rs, i)

\* What the proofs use of readings that are in order.
IsReading(r) == r.at \in Nat /\ r.minutes \in Nat /\ r.minutes > 0

Measured(rs) == Len(rs) \in Nat /\ \A i \in 1..Len(rs) : IsReading(rs[i])

InLine(rs) ==
    /\ Len(rs) \in Nat
    /\ \A i \in 1..Len(rs) : IsReading(rs[i])
    /\ \A i, j \in 1..Len(rs) : i < j => rs[i].at < rs[j].at

\* A function on 1..n is a sequence of n.
LEMMA FunctionAsSeq ==
    ASSUME NEW S, NEW n \in Nat, NEW t \in [1..n -> S]
    PROVE  t \in Seq(S) /\ Len(t) = n
    <1>1. t \in Seq(S)
        BY SeqDef
    <1>2. Len(t) \in Nat /\ DOMAIN t = 1..Len(t)
        BY <1>1, LenProperties
    <1> QED
        BY <1>1, <1>2

\* Times that grow from one position to the next grow.
LEMMA StepByStep ==
    ASSUME NEW n \in Nat, NEW at, \A i \in 1..n : at[i] \in Int,
           \A i \in 2..n : at[i - 1] < at[i],
           NEW i \in 1..n, NEW j \in 1..n, i < j
    PROVE  at[i] < at[j]
    <1> DEFINE Bad == {k \in (i + 1)..n : ~(at[i] < at[k])}
    <1>1. ASSUME Bad # {} PROVE FALSE
        <2>1. Bad \in SUBSET Nat
            OBVIOUS
        <2>2. PICK m \in Bad : \A k \in Bad : m <= k
            BY <1>1, <2>1, LeastNumber
        <2>3. m \in (i + 1)..n /\ ~(at[i] < at[m])
            OBVIOUS
        <2>4. PICK p \in 1..n : p = m - 1
            BY <2>3
        <2>5. at[p] < at[m] /\ at[p] \in Int /\ at[m] \in Int /\ at[i] \in Int
            BY <2>3, <2>4
        <2>6. p # i
            BY <2>3, <2>5
        <2>7. at[i] < at[p]
            <3>1. p \in (i + 1)..n /\ p < m
                BY <2>3, <2>4, <2>6
            <3> QED
                BY <2>2, <3>1
        <2> QED
            BY <2>3, <2>5, <2>7
    <1> QED
        BY <1>1

\* Readings of which each is compliant are strictly in the order of their times.
LEMMA OrderlyInLine ==
    ASSUME NEW rs, Orderly(rs)
    PROVE  InLine(rs)
    <1>1. Len(rs) \in Nat /\ \A i \in 1..Len(rs) : rs[i] \in Reading
        BY LenProperties, ElementOfSeq DEF Orderly
    <1>2. ASSUME NEW i \in 1..Len(rs) PROVE IsReading(rs[i]) /\ (i > 1 => rs[i].at > rs[i - 1].at)
        <2>1. Compliant(rs, i) /\ rs[i] \in Reading
            BY <1>1 DEF Orderly
        <2>2. rs[i].at \in Nat \cup {NoTime} /\ rs[i].minutes \in Nat
            BY <2>1 DEF Reading
        <2> QED
            BY <2>1, <2>2 DEF Compliant, IsReading
    <1>3. PICK at : at = [i \in 1..Len(rs) |-> rs[i].at]
        OBVIOUS
    <1>4. \A i \in 1..Len(rs) : at[i] = rs[i].at
        BY <1>3
    <1>5. \A i \in 1..Len(rs) : at[i] \in Int
        <2> TAKE i \in 1..Len(rs)
        <2>1. IsReading(rs[i])
            BY <1>2
        <2> QED
            BY <1>4, <2>1 DEF IsReading
    <1>6. \A i \in 2..Len(rs) : at[i - 1] < at[i]
        <2> TAKE i \in 2..Len(rs)
        <2>1. i \in 1..Len(rs) /\ i - 1 \in 1..Len(rs) /\ i > 1
            BY <1>1
        <2>2. at[i] = rs[i].at /\ at[i - 1] = rs[i - 1].at /\ rs[i].at > rs[i - 1].at
            BY <1>2, <1>4, <2>1
        <2>3. at[i] \in Int /\ at[i - 1] \in Int
            BY <1>5, <2>1
        <2> QED
            BY <2>2, <2>3
    <1>7. ASSUME NEW i \in 1..Len(rs), NEW j \in 1..Len(rs), i < j
          PROVE  rs[i].at < rs[j].at
        <2>1. at[i] < at[j]
            BY <1>1, <1>5, <1>6, <1>7, StepByStep
        <2> QED
            BY <1>4, <2>1
    <1> QED
        BY <1>1, <1>2, <1>7 DEF InLine

\* Such readings have times that can be compared.
LEMMA InLineTimely ==
    ASSUME NEW rs, InLine(rs)
    PROVE  Timely(rs)
    BY DEF InLine, IsReading, Timely

\* No two positions of an order are the same.
LEMMA OrderIsInjective ==
    ASSUME NEW rs, Timely(rs), NEW order, OrdersFirst(rs, order, Len(rs)),
           NEW k \in 1..Len(rs), NEW l \in 1..Len(rs), k # l
    PROVE  order[k] # order[l]
    <1>1. Len(rs) \in Nat
        BY DEF Timely
    <1>2. ASSUME NEW i \in 1..Len(rs), NEW j \in 1..Len(rs), i < j PROVE order[i] # order[j]
        <2>1. order[i] \in 1..Len(rs) /\ Before(rs, order[i], order[j])
            BY <1>2 DEF OrdersFirst
        <2>2. rs[order[i]].at \in Int
            BY <2>1 DEF Timely
        <2> QED
            BY <2>1, <2>2 DEF Before
    <1> QED
        BY <1>1, <1>2

\* Sorting leaves alone what is strictly in order.
LEMMA InLineStays ==
    ASSUME NEW rs, InLine(rs), NEW order, OrdersFirst(rs, order, Len(rs)), NEW k \in 1..Len(rs)
    PROVE  order[k] = k
    <1>1. /\ Len(rs) \in Nat /\ Timely(rs)
          /\ \A i \in 1..Len(rs) : rs[i].at \in Int
        BY InLineTimely DEF InLine, IsReading
    <1>2. /\ \A i \in 1..Len(rs) : order[i] \in 1..Len(rs)
          /\ \A i \in 1..Len(rs) : \E j \in 1..Len(rs) : order[j] = i
          /\ \A i, j \in 1..Len(rs) : i < j => Before(rs, order[i], order[j])
        BY DEF OrdersFirst
    <1>3. ASSUME NEW i \in 1..Len(rs), NEW j \in 1..Len(rs), i < j PROVE order[i] < order[j]
        <2>1. order[i] \in 1..Len(rs) /\ order[j] \in 1..Len(rs) /\ Before(rs, order[i], order[j])
            BY <1>2, <1>3
        <2>2. rs[order[i]].at \in Int /\ rs[order[j]].at \in Int
            BY <1>1, <2>1
        <2>3. order[j] < order[i] => rs[order[j]].at < rs[order[i]].at
            BY <2>1 DEF InLine
        <2> QED
            BY <2>1, <2>2, <2>3 DEF Before
    <1> DEFINE Bad == {i \in 1..Len(rs) : order[i] # i}
    <1>4. ASSUME Bad # {} PROVE FALSE
        <2>1. Bad \in SUBSET Nat
            OBVIOUS
        <2>2. PICK m \in Bad : \A i \in Bad : m <= i
            BY <1>4, <2>1, LeastNumber
        <2>3. m \in 1..Len(rs) /\ order[m] # m
            OBVIOUS
        <2>4. \A i \in 1..Len(rs) : i < m => order[i] = i
            BY <1>1, <2>2, <2>3
        <2>5. PICK l \in 1..Len(rs) : order[l] = m
            BY <1>2, <2>3
        <2>6. l > m
            BY <2>3, <2>4, <2>5
        <2>7. order[m] < m /\ order[m] \in 1..Len(rs)
            BY <1>2, <1>3, <2>3, <2>5, <2>6
        <2>8. order[order[m]] = order[m]
            BY <2>4, <2>7
        <2>9. order[order[m]] < order[m]
            BY <1>3, <2>3, <2>7
        <2> QED
            BY <2>7, <2>8, <2>9
    <1> QED
        BY <1>4

-----------------------------------------------------------------------------
(* Recording readings *)

\* What the requests check of a reading by itself.
Sound(r) == r \in Reading /\ r.at # NoTime /\ r.minutes > 0 /\ r.fits

AllSound(rs) == rs \in Seq(Reading) /\ \A i \in 1..Len(rs) : Sound(rs[i])

\* t are the readings all, by their times.
IsSorting(t, all, order) ==
    /\ OrdersFirst(all, order, Len(all))
    /\ t \in Seq(Reading) /\ Len(t) = Len(all)
    /\ \A k \in 1..Len(all) : t[k] = all[order[k]]

\* Readings with a time have times that can be compared.
LEMMA SoundTimely ==
    ASSUME NEW rs, AllSound(rs)
    PROVE  Timely(rs) /\ \A i \in 1..Len(rs) : IsReading(rs[i])
    <1>1. Len(rs) \in Nat
        BY LenProperties DEF AllSound
    <1>2. ASSUME NEW i \in 1..Len(rs) PROVE IsReading(rs[i])
        <2>1. Sound(rs[i])
            BY DEF AllSound
        <2> QED
            BY <2>1 DEF Sound, Reading, IsReading
    <1> QED
        BY <1>1, <1>2 DEF Timely, IsReading

\* Sorted is the permutation StableOrder of the readings.
LEMMA SortedIsSorting ==
    ASSUME NEW all, AllSound(all)
    PROVE  IsSorting(Sorted(all), all, StableOrder(all))
    <1>1. Timely(all) /\ Len(all) \in Nat /\ \A i \in 1..Len(all) : all[i] \in Reading
        BY SoundTimely DEF Timely, AllSound, Sound
    <1>2. PICK order : order = StableOrder(all) /\ OrdersFirst(all, order, Len(all))
        BY <1>1, StableOrderSorts
    <1>3. PICK t : t = [k \in 1..Len(all) |-> all[order[k]]]
        OBVIOUS
    <1>4. \A k \in 1..Len(all) : order[k] \in 1..Len(all)
        BY <1>2 DEF OrdersFirst
    <1>5. t \in [1..Len(all) -> Reading]
        BY <1>1, <1>3, <1>4
    <1>6. t \in Seq(Reading) /\ Len(t) = Len(all)
        BY <1>1, <1>5, FunctionAsSeq
    <1>7. \A k \in 1..Len(all) : t[k] = all[order[k]]
        BY <1>3
    <1>8. Sorted(all) = t
        BY <1>2, <1>3 DEF Sorted
    <1> QED
        BY <1>2, <1>6, <1>7, <1>8 DEF IsSorting

\* Sorting neither loses nor makes a reading.
LEMMA SortingKeeps ==
    ASSUME NEW all, AllSound(all), NEW t, NEW order, IsSorting(t, all, order)
    PROVE  /\ AllSound(t)
           /\ ToSet(t) = ToSet(all)
           /\ \A k, l \in 1..Len(t) : k < l => t[k].at <= t[l].at
    <1>1. Len(t) = Len(all) /\ t \in Seq(Reading) /\ Len(all) \in Nat
        BY LenProperties DEF IsSorting, AllSound
    <1>2. /\ \A k \in 1..Len(all) : order[k] \in 1..Len(all)
          /\ \A i \in 1..Len(all) : \E k \in 1..Len(all) : order[k] = i
          /\ \A k \in 1..Len(all) : t[k] = all[order[k]]
          /\ \A k, l \in 1..Len(all) : k < l => Before(all, order[k], order[l])
        BY DEF IsSorting, OrdersFirst
    <1>3. AllSound(t)
        BY <1>1, <1>2 DEF AllSound
    <1>4. ToSet(t) = ToSet(all)
        <2>1. ASSUME NEW r \in ToSet(t) PROVE r \in ToSet(all)
            <3>1. PICK k \in 1..Len(t) : t[k] = r
                BY DEF ToSet
            <3>2. order[k] \in 1..Len(all) /\ all[order[k]] = r
                BY <1>1, <1>2, <3>1
            <3> QED
                BY <3>2 DEF ToSet
        <2>2. ASSUME NEW r \in ToSet(all) PROVE r \in ToSet(t)
            <3>1. PICK i \in 1..Len(all) : all[i] = r
                BY DEF ToSet
            <3>2. PICK k \in 1..Len(all) : order[k] = i
                BY <1>2
            <3>3. t[k] = r /\ k \in 1..Len(t)
                BY <1>1, <1>2, <3>1, <3>2
            <3> QED
                BY <3>3 DEF ToSet
        <2> QED
            BY <2>1, <2>2
    <1>5. ASSUME NEW k \in 1..Len(t), NEW l \in 1..Len(t), k < l PROVE t[k].at <= t[l].at
        <2>1. order[k] \in 1..Len(all) /\ order[l] \in 1..Len(all) /\ Before(all, order[k], order[l])
            BY <1>1, <1>2, <1>5
        <2>2. all[order[k]].at \in Int /\ all[order[l]].at \in Int
            BY <2>1, SoundTimely DEF Timely
        <2>3. all[order[k]].at <= all[order[l]].at
            BY <2>1, <2>2 DEF Before
        <2> QED
            BY <1>1, <1>2, <2>3
    <1> QED
        BY <1>3, <1>4, <1>5

\* Readings of which each is compliant all have a time, a duration and fit the target.
LEMMA OrderlyIsSound ==
    ASSUME NEW rs, Orderly(rs)
    PROVE  AllSound(rs)
    <1>1. rs \in Seq(Reading) /\ \A i \in 1..Len(rs) : rs[i] \in Reading /\ Compliant(rs, i)
        BY ElementOfSeq DEF Orderly
    <1> QED
        BY <1>1 DEF AllSound, Sound, Compliant

\* Sound readings whose times grow are in order.
LEMMA GrowingIsOrderly ==
    ASSUME NEW rs, AllSound(rs), \A i \in 2..Len(rs) : rs[i - 1].at < rs[i].at
    PROVE  Orderly(rs)
    <1>1. rs \in Seq(Reading) /\ Len(rs) \in Nat
        BY LenProperties DEF AllSound
    <1>2. ASSUME NEW i \in 1..Len(rs) PROVE Compliant(rs, i)
        <2>1. Sound(rs[i])
            BY DEF AllSound
        <2>2. ASSUME i > 1 PROVE rs[i].at > rs[i - 1].at
            <3>1. i \in 2..Len(rs) /\ i - 1 \in 1..Len(rs)
                BY <1>1, <2>2
            <3>2. rs[i].at \in Int /\ rs[i - 1].at \in Int
                BY <3>1, SoundTimely DEF Timely
            <3>3. rs[i - 1].at < rs[i].at
                BY <3>1
            <3> QED
                BY <3>2, <3>3
        <2> QED
            BY <2>1, <2>2 DEF Sound, Compliant
    <1> QED
        BY <1>1, <1>2 DEF Orderly

\* One sound reading behind sound ones.
LEMMA SoundAppended ==
    ASSUME NEW rs, AllSound(rs), NEW x, Sound(x)
    PROVE  /\ AllSound(Append(rs, x)) /\ Len(Append(rs, x)) = Len(rs) + 1
           /\ \A i \in 1..Len(rs) : Append(rs, x)[i] = rs[i]
           /\ Append(rs, x)[Len(rs) + 1] = x
    <1>1. rs \in Seq(Reading) /\ Len(rs) \in Nat /\ x \in Reading
        BY LenProperties DEF AllSound, Sound
    <1> DEFINE all == Append(rs, x)
    <1>2. /\ all \in Seq(Reading) /\ Len(all) = Len(rs) + 1
          /\ \A i \in 1..Len(rs) : all[i] = rs[i]
          /\ all[Len(rs) + 1] = x
        BY <1>1, AppendProperties
    <1> HIDE DEF all
    <1>3. ASSUME NEW i \in 1..Len(all) PROVE Sound(all[i])
        <2>1. CASE i = Len(rs) + 1
            BY <1>2, <2>1
        <2>2. CASE i \in 1..Len(rs)
            BY <1>2, <2>2 DEF AllSound
        <2> QED
            BY <1>1, <1>2, <2>1, <2>2
    <1> QED
        BY <1>2, <1>3 DEF AllSound, all

\* Sound readings behind sound ones.
LEMMA SoundConcatenated ==
    ASSUME NEW rs, AllSound(rs), NEW b, AllSound(b)
    PROVE  /\ AllSound(rs \o b) /\ Len(rs \o b) = Len(rs) + Len(b)
           /\ \A i \in 1..Len(rs) : (rs \o b)[i] = rs[i]
           /\ \A i \in 1..Len(b) : (rs \o b)[Len(rs) + i] = b[i]
    <1>1. rs \in Seq(Reading) /\ Len(rs) \in Nat /\ b \in Seq(Reading) /\ Len(b) \in Nat
        BY LenProperties DEF AllSound
    <1> DEFINE all == rs \o b
    <1>2. /\ all \in Seq(Reading) /\ Len(all) = Len(rs) + Len(b)
          /\ \A i \in 1..(Len(rs) + Len(b)) :
                all[i] = IF i <= Len(rs) THEN rs[i] ELSE b[i - Len(rs)]
        BY <1>1, ConcatProperties
    <1> HIDE DEF all
    <1>3. ASSUME NEW i \in 1..Len(rs) PROVE all[i] = rs[i]
        <2>1. i \in 1..(Len(rs) + Len(b)) /\ i <= Len(rs)
            BY <1>1
        <2> QED
            BY <1>2, <2>1
    <1>4. ASSUME NEW i \in 1..Len(b) PROVE all[Len(rs) + i] = b[i]
        <2>1. PICK j : j = Len(rs) + i
            OBVIOUS
        <2>2. j \in 1..(Len(rs) + Len(b)) /\ ~(j <= Len(rs)) /\ j - Len(rs) = i
            BY <1>1, <2>1
        <2>3. all[j] = b[i]
            BY <1>2, <2>2
        <2> QED
            BY <2>1, <2>3
    <1>5. ASSUME NEW i \in 1..Len(all) PROVE Sound(all[i])
        <2>1. CASE i \in 1..Len(rs)
            BY <1>3, <2>1 DEF AllSound
        <2>2. CASE ~(i \in 1..Len(rs))
            <3>1. PICK j \in 1..Len(b) : i = Len(rs) + j
                <4>1. i - Len(rs) \in 1..Len(b) /\ i = Len(rs) + (i - Len(rs))
                    BY <1>1, <1>2, <2>2
                <4> QED
                    BY <4>1
            <3> QED
                BY <1>4, <3>1 DEF AllSound
        <2> QED
            BY <2>1, <2>2
    <1> QED
        BY <1>2, <1>3, <1>4, <1>5 DEF AllSound, all

\* A reading whose time is free goes where it belongs.
LEMMA AddedIsOrderly ==
    ASSUME NEW rs, Orderly(rs), NEW x, Sound(x), TimeIsFree(rs, x)
    PROVE  /\ Orderly(Sorted(Append(rs, x)))
           /\ ToSet(Sorted(Append(rs, x))) = ToSet(rs) \cup {x}
    <1>1. AllSound(rs) /\ InLine(rs) /\ Len(rs) \in Nat
        BY OrderlyIsSound, OrderlyInLine DEF InLine
    <1>2. PICK all : all = Append(rs, x)
        OBVIOUS
    <1>3. /\ AllSound(all) /\ Len(all) = Len(rs) + 1
          /\ \A i \in 1..Len(rs) : all[i] = rs[i]
          /\ all[Len(rs) + 1] = x
        <2>1. /\ AllSound(Append(rs, x)) /\ Len(Append(rs, x)) = Len(rs) + 1
              /\ \A i \in 1..Len(rs) : Append(rs, x)[i] = rs[i]
              /\ Append(rs, x)[Len(rs) + 1] = x
            BY <1>1, SoundAppended
        <2> QED
            BY <1>2, <2>1
    <1>4. PICK t : t = Sorted(all)
        OBVIOUS
    <1>5. PICK order : IsSorting(t, all, order)
        BY <1>3, <1>4, SortedIsSorting
    <1>6. /\ AllSound(t) /\ ToSet(t) = ToSet(all)
          /\ \A k, l \in 1..Len(t) : k < l => t[k].at <= t[l].at
        BY <1>3, <1>5, SortingKeeps
    <1>7. ASSUME NEW i \in 1..Len(all), NEW j \in 1..Len(all), i < j
          PROVE  all[i].at # all[j].at
        <2>1. i \in 1..Len(rs) /\ all[i] = rs[i] /\ rs[i].at \in Int
            BY <1>1, <1>3, <1>7 DEF InLine, IsReading
        <2>2. CASE j \in 1..Len(rs)
            <3>1. all[j] = rs[j] /\ rs[i].at < rs[j].at
                BY <1>1, <1>3, <1>7, <2>1, <2>2 DEF InLine
            <3> QED
                BY <2>1, <3>1
        <2>3. CASE j = Len(rs) + 1
            BY <1>3, <2>1, <2>3 DEF TimeIsFree
        <2> QED
            BY <1>1, <1>3, <2>2, <2>3
    <1>8. Len(t) = Len(all) /\ Timely(all) /\ OrdersFirst(all, order, Len(all))
        BY <1>3, <1>5, SoundTimely DEF IsSorting
    <1>9. ASSUME NEW k \in 2..Len(t) PROVE t[k - 1].at < t[k].at
        <2>1. k - 1 \in 1..Len(all) /\ k \in 1..Len(all) /\ k - 1 # k /\ k - 1 < k
            BY <1>1, <1>3, <1>8
        <2>2. order[k - 1] # order[k]
            BY <1>8, <2>1, OrderIsInjective
        <2>3. order[k - 1] \in 1..Len(all) /\ order[k] \in 1..Len(all)
            BY <1>8, <2>1 DEF OrdersFirst
        <2>4. all[order[k - 1]].at # all[order[k]].at
            BY <1>1, <1>3, <1>7, <2>2, <2>3
        <2>5. t[k - 1] = all[order[k - 1]] /\ t[k] = all[order[k]]
            BY <1>5, <2>1 DEF IsSorting
        <2>6. t[k - 1].at <= t[k].at
            BY <1>6, <1>8, <2>1
        <2>7. t[k - 1].at \in Int /\ t[k].at \in Int
            BY <1>6, <1>8, <2>1, SoundTimely DEF Timely
        <2> QED
            BY <2>4, <2>5, <2>6, <2>7
    <1>10. Orderly(t)
        BY <1>6, <1>9, GrowingIsOrderly
    <1>11. ToSet(all) = ToSet(rs) \cup {x}
        <2>1. ASSUME NEW r \in ToSet(all) PROVE r \in ToSet(rs) \cup {x}
            <3>1. PICK i \in 1..Len(all) : all[i] = r
                BY DEF ToSet
            <3>2. CASE i \in 1..Len(rs)
                BY <1>3, <3>1, <3>2 DEF ToSet
            <3>3. CASE i = Len(rs) + 1
                BY <1>3, <3>1, <3>3
            <3> QED
                BY <1>1, <1>3, <3>2, <3>3
        <2>2. ASSUME NEW r \in ToSet(rs) PROVE r \in ToSet(all)
            <3>1. PICK i \in 1..Len(rs) : rs[i] = r
                BY DEF ToSet
            <3>2. i \in 1..Len(all) /\ all[i] = r
                BY <1>1, <1>3, <3>1
            <3> QED
                BY <3>2 DEF ToSet
        <2>3. x \in ToSet(all)
            <3>1. Len(rs) + 1 \in 1..Len(all) /\ all[Len(rs) + 1] = x
                BY <1>1, <1>3
            <3> QED
                BY <3>1 DEF ToSet
        <2> QED
            BY <2>1, <2>2, <2>3
    <1> QED
        BY <1>2, <1>4, <1>6, <1>10, <1>11

\* A reading later than all the others stays behind them.
LEMMA LateReadingStays ==
    ASSUME NEW rs, Orderly(rs), NEW x, Sound(x) \/ (x \in Reading /\ IsReading(x)),
           \A i \in 1..Len(rs) : rs[i].at < x.at
    PROVE  Sorted(Append(rs, x)) = Append(rs, x)
    <1>1. rs \in Seq(Reading) /\ InLine(rs) /\ Len(rs) \in Nat
        BY OrderlyInLine DEF InLine, Orderly
    <1>2. x \in Reading /\ IsReading(x)
        BY DEF Sound, Reading, IsReading
    <1>3. PICK all : all = Append(rs, x)
        OBVIOUS
    <1>4. /\ all \in Seq(Reading) /\ Len(all) = Len(rs) + 1
          /\ \A i \in 1..Len(rs) : all[i] = rs[i]
          /\ all[Len(rs) + 1] = x
        BY <1>1, <1>2, <1>3, AppendProperties
    <1>5. ASSUME NEW i \in 1..Len(all) PROVE IsReading(all[i])
        <2>1. CASE i \in 1..Len(rs)
            BY <1>1, <1>4, <2>1 DEF InLine
        <2> QED
            BY <1>1, <1>2, <1>4, <2>1
    <1>6. ASSUME NEW i \in 1..Len(all), NEW j \in 1..Len(all), i < j PROVE all[i].at < all[j].at
        <2>1. i \in 1..Len(rs)
            BY <1>1, <1>4, <1>6
        <2>2. CASE j \in 1..Len(rs)
            BY <1>1, <1>4, <1>6, <2>1, <2>2 DEF InLine
        <2> QED
            BY <1>1, <1>4, <2>1, <2>2
    <1>7. InLine(all)
        BY <1>1, <1>4, <1>5, <1>6 DEF InLine
    <1>8. PICK order : order = StableOrder(all) /\ OrdersFirst(all, order, Len(all))
        BY <1>7, InLineTimely, StableOrderSorts
    <1>9. \A k \in 1..Len(all) : order[k] = k
        BY <1>7, <1>8, InLineStays
    <1>10. Sorted(all) = [k \in 1..Len(all) |-> all[order[k]]]
        BY <1>8 DEF Sorted
    <1>11. Sorted(all) = [k \in 1..Len(all) |-> all[k]]
        BY <1>9, <1>10
    <1>12. all = [k \in 1..Len(all) |-> all[k]]
        BY <1>4, LenProperties
    <1> QED
        BY <1>3, <1>11, <1>12

-----------------------------------------------------------------------------
(* The scan of the summary *)

Window == [from : Int, to : Int]
Account == [closed : Seq(Window), current : Window, total : Int]

\* What the loop of the summary has after each reading.
IsScan(f, rs) ==
    /\ f \in [0..Len(rs) -> Account]
    /\ f[0] = Nothing
    /\ \A k \in 1..Len(rs) : f[k] = Scan(rs, f[k - 1], k)

\* The account of the scan starts well typed.
LEMMA NothingIsAnAccount ==
    Nothing \in Account /\ NoWindow \in Window
    <1>1. NoWindow \in Window
        BY DEF NoWindow, NoTime, Window
    <1>2. <<>> \in Seq(Window)
        OBVIOUS
    <1> QED
        BY <1>1, <1>2 DEF Nothing, Account

\* A round of the scan keeps the account well typed.
LEMMA ScanOfAnAccount ==
    ASSUME NEW rs, Measured(rs), NEW acc \in Account, NEW i \in 1..Len(rs)
    PROVE  Scan(rs, acc, i) \in Account
    <1>1. PICK r : r = rs[i] /\ r.at \in Int /\ r.minutes \in Int
        BY DEF IsReading, Measured
    <1>2. acc.closed \in Seq(Window) /\ acc.current \in Window /\ acc.total \in Int
        BY DEF Account
    <1>3. Append(acc.closed, acc.current) \in Seq(Window)
        BY <1>2, AppendProperties
    <1>4. Closed(acc) \in Seq(Window)
        BY <1>2, <1>3 DEF Closed
    <1>5. acc.current.from \in Int /\ acc.current.to \in Int
        BY <1>2 DEF Window
    <1>6. acc.total + r.minutes \in Int /\ EndOf(r) \in Int
        BY <1>1, <1>2 DEF EndOf
    <1>7. [from |-> r.at, to |-> EndOf(r)] \in Window
        BY <1>1, <1>6 DEF Window
    <1>8. [from |-> acc.current.from, to |-> Later(acc.current.to, EndOf(r))] \in Window
        BY <1>5, <1>6 DEF Window, Later
    <1>9. CASE ~Compliant(rs, i)
        <2>1. Scan(rs, acc, i) = [closed |-> Closed(acc), current |-> NoWindow, total |-> acc.total]
            BY <1>9 DEF Scan
        <2> QED
            BY <1>2, <1>4, <2>1, NothingIsAnAccount DEF Account
    <1>10. CASE Compliant(rs, i) /\ (acc.current = NoWindow \/ r.at > acc.current.to)
        <2>1. Scan(rs, acc, i) = [closed |-> Closed(acc),
                                  current |-> [from |-> r.at, to |-> EndOf(r)],
                                  total |-> acc.total + r.minutes]
            BY <1>1, <1>10 DEF Scan
        <2> QED
            BY <1>4, <1>6, <1>7, <2>1 DEF Account
    <1>11. CASE Compliant(rs, i) /\ ~(acc.current = NoWindow \/ r.at > acc.current.to)
        <2>1. Scan(rs, acc, i) =
                  [closed |-> acc.closed,
                   current |-> [from |-> acc.current.from, to |-> Later(acc.current.to, EndOf(r))],
                   total |-> acc.total + r.minutes]
            BY <1>1, <1>11 DEF Scan
        <2> QED
            BY <1>2, <1>6, <1>8, <2>1 DEF Account
    <1> QED
        BY <1>9, <1>10, <1>11

\* Scanned is what the scan has after the last of its rounds.
LEMMA ScanRuns ==
    ASSUME NEW rs, Measured(rs)
    PROVE  \E f : IsScan(f, rs) /\ Scanned(rs) = f[Len(rs)]
    <1>1. Len(rs) \in Nat
        BY DEF Measured
    <1> DEFINE F(f) == f = [n \in 0..Len(rs) |-> IF n = 0 THEN Nothing ELSE Scan(rs, f[n - 1], n)]
    <1>2. PICK round : round = [x \in (1..Len(rs)) \X Account |-> Scan(rs, x[2], x[1])]
        OBVIOUS
    <1>3. ASSUME NEW n \in 1..Len(rs), NEW acc \in Account
          PROVE  round[<<n, acc>>] = Scan(rs, acc, n) /\ round[<<n, acc>>] \in Account
        <2>1. round[<<n, acc>>] = Scan(rs, acc, n)
            BY <1>2
        <2>2. Scan(rs, acc, n) \in Account
            BY ScanOfAnAccount
        <2> QED
            BY <2>1, <2>2
    <1>4. round \in [(1..Len(rs)) \X Account -> Account]
        BY <1>2, <1>3
    <1>5. \E f : F(f)
        <2>1. PICK f \in [0..Len(rs) -> Account] :
                  f[0] = Nothing /\ \A n \in 1..Len(rs) : f[n] = round[<<n, f[n - 1]>>]
            <3> HIDE DEF F
            <3>1. Loops(Len(rs), Account, Nothing, round)
                BY <1>1, <1>4, NothingIsAnAccount, LoopRuns, Zenon
            <3> QED
                BY <3>1 DEF Loops, IsLoop
        <2>2. ASSUME NEW n \in 1..Len(rs) PROVE f[n] = Scan(rs, f[n - 1], n)
            <3>1. n - 1 \in 0..Len(rs) /\ f[n - 1] \in Account
                BY <1>1, <2>1
            <3> QED
                BY <1>3, <2>1, <3>1
        <2>3. F(f)
            BY <1>1, <2>1, <2>2
        <2> QED
            BY <2>3
    <1>6. Scanned(rs) = (CHOOSE f : F(f))[Len(rs)]
        BY DEF Scanned
    <1>7. PICK f : F(f) /\ Scanned(rs) = f[Len(rs)]
        <2> HIDE DEF F
        <2> QED
            BY <1>5, <1>6, Zenon
    <1>8. f[0] = Nothing /\ \A k \in 1..Len(rs) : f[k] = Scan(rs, f[k - 1], k)
        BY <1>1, <1>7
    <1>9. f = [n \in 0..Len(rs) |-> IF n = 0 THEN Nothing ELSE Scan(rs, f[n - 1], n)]
        BY <1>7
    <1>10. DOMAIN f = 0..Len(rs) /\ f = [n \in 0..Len(rs) |-> f[n]]
        BY <1>9
    <1> HIDE DEF F
    <1> DEFINE Bad == {n \in 0..Len(rs) : f[n] \notin Account}
    <1>11. ASSUME Bad # {} PROVE FALSE
        <2>1. Bad \in SUBSET Nat
            OBVIOUS
        <2>2. PICK m \in Bad : \A n \in Bad : m <= n
            BY <1>11, <2>1, LeastNumber
        <2>3. m \in 0..Len(rs) /\ f[m] \notin Account
            OBVIOUS
        <2>4. m # 0
            BY <1>8, <2>3, NothingIsAnAccount
        <2>5. PICK p \in 0..Len(rs) : p = m - 1
            BY <1>1, <2>3, <2>4
        <2>6. f[p] \in Account
            BY <2>2, <2>3, <2>5
        <2>7. m \in 1..Len(rs) /\ f[m] = Scan(rs, f[p], m)
            BY <1>1, <1>8, <2>3, <2>4, <2>5
        <2> QED
            BY <2>3, <2>6, <2>7, ScanOfAnAccount
    <1>12. f \in [0..Len(rs) -> Account]
        BY <1>10, <1>11
    <1>13. IsScan(f, rs)
        BY <1>8, <1>12 DEF IsScan
    <1> QED
        BY <1>7, <1>13

\* What the loop has after n readings depends on these only.
LEMMA ScanOfAPrefix ==
    ASSUME NEW rs, NEW f, IsScan(f, rs), NEW ss, NEW g, IsScan(g, ss),
           Len(rs) \in Nat, Len(ss) \in Nat, Len(rs) <= Len(ss),
           \A i \in 1..Len(rs) : rs[i] = ss[i],
           NEW n \in 0..Len(rs)
    PROVE  f[n] = g[n]
    <1> DEFINE Bad == {k \in 0..Len(rs) : f[k] # g[k]}
    <1>1. ASSUME Bad # {} PROVE FALSE
        <2>1. Bad \in SUBSET Nat
            OBVIOUS
        <2>2. PICK m \in Bad : \A k \in Bad : m <= k
            BY <1>1, <2>1, LeastNumber
        <2>3. m \in 0..Len(rs) /\ f[m] # g[m]
            OBVIOUS
        <2>4. m # 0
            BY <2>3 DEF IsScan
        <2>5. PICK p \in 0..Len(rs) : p = m - 1
            BY <2>3, <2>4
        <2>6. f[p] = g[p]
            BY <2>2, <2>3, <2>5
        <2>7. m \in 1..Len(rs) /\ m \in 1..Len(ss)
            BY <2>3, <2>4
        <2>8. f[m] = Scan(rs, f[p], m) /\ g[m] = Scan(ss, g[p], m)
            BY <2>5, <2>7 DEF IsScan
        <2>9. rs[m] = ss[m]
            BY <2>7
        <2>10. m > 1 => rs[m - 1] = ss[m - 1]
            <3>1. m > 1 => m - 1 \in 1..Len(rs)
                BY <2>7
            <3> QED
                BY <3>1
        <2>11. Compliant(rs, m) <=> Compliant(ss, m)
            BY <2>9, <2>10 DEF Compliant
        <2>12. Scan(rs, f[p], m) = Scan(ss, g[p], m)
            BY <2>6, <2>9, <2>11 DEF Scan
        <2> QED
            BY <2>3, <2>8, <2>12
    <1> QED
        BY <1>1

\* Minutes of a reading and of a window.
During(r, t) == r.at <= t /\ t < EndOf(r)
Inside(w, t) == w.from <= t /\ t < w.to

\* Windows that neither overlap nor touch.
Apart(ws) ==
    /\ ws \in Seq(Window) /\ Len(ws) \in Nat
    /\ \A i \in 1..Len(ws) : ws[i].from \in Nat /\ ws[i].to \in Nat /\ ws[i].from < ws[i].to
    /\ \A i, j \in 1..Len(ws) : i < j => ws[i].to < ws[j].from

\* The windows ws hold the minutes of the first n readings and no others.
SameMinutes(ws, rs, n) ==
    \A t \in Int : (\E i \in 1..n : During(rs[i], t)) <=> (\E j \in 1..Len(ws) : Inside(ws[j], t))

\* A window begins and ends where readings do.
EndsOfReadings(w, rs, n) ==
    /\ \E i \in 1..n : w.from = rs[i].at
    /\ \E i \in 1..n : w.to = EndOf(rs[i])

AllEndsOfReadings(ws, rs, n) == \A j \in 1..Len(ws) : EndsOfReadings(ws[j], rs, n)

\* The windows ws are those of the first n readings.
Finds(ws, rs, n) ==
    /\ Apart(ws) /\ Len(ws) > 0
    /\ SameMinutes(ws, rs, n)
    /\ AllEndsOfReadings(ws, rs, n)
    /\ ws[Len(ws)].from <= rs[n].at /\ EndOf(rs[n]) <= ws[Len(ws)].to

\* A reading that starts behind the last window found opens one more.
LEMMA NewWindow ==
    ASSUME NEW rs, InLine(rs), NEW n \in Nat, n + 1 \in 1..Len(rs), NEW ws, Finds(ws, rs, n),
           n > 0, rs[n + 1].at > ws[Len(ws)].to
    PROVE  Finds(Append(ws, [from |-> rs[n + 1].at, to |-> EndOf(rs[n + 1])]), rs, n + 1)
    <1>1. PICK r : r = rs[n + 1] /\ r.at \in Nat /\ EndOf(r) \in Nat /\ r.at < EndOf(r)
        BY DEF InLine, IsReading, EndOf
    <1>2. PICK w : w = [from |-> r.at, to |-> EndOf(r)]
        OBVIOUS
    <1>3. w.from = r.at /\ w.to = EndOf(r) /\ w \in Window
        BY <1>1, <1>2 DEF Window
    <1>4. PICK l : l = Len(ws) /\ l \in Nat /\ l > 0 /\ ws \in Seq(Window)
        BY DEF Finds, Apart
    <1>5. PICK vs : vs = Append(ws, w)
        OBVIOUS
    <1>6. /\ vs \in Seq(Window) /\ Len(vs) = l + 1
          /\ \A i \in 1..l : vs[i] = ws[i]
          /\ vs[l + 1] = w
        BY <1>3, <1>4, <1>5, AppendProperties
    <1>7. /\ \A i \in 1..l : ws[i].from \in Nat /\ ws[i].to \in Nat /\ ws[i].from < ws[i].to
          /\ \A i, j \in 1..l : i < j => ws[i].to < ws[j].from
        BY <1>4 DEF Finds, Apart
    <1>8. ASSUME NEW i \in 1..l PROVE ws[i].to < r.at
        <2>1. ws[l].to < r.at /\ l \in 1..l
            BY <1>1, <1>4, <1>7
        <2>2. CASE i = l
            BY <2>1, <2>2
        <2>3. CASE i < l
            <3>1. PICK last : last = ws[l] /\ last.from \in Nat /\ last.to \in Nat
                              /\ last.from < last.to /\ last.to < r.at
                BY <1>7, <2>1
            <3>2. PICK earlier : earlier = ws[i] /\ earlier.to \in Nat /\ earlier.to < last.from
                BY <1>7, <2>1, <2>3, <3>1
            <3>3. r.at \in Nat
                BY <1>1
            <3>4. earlier.to < r.at
                BY <3>1, <3>2, <3>3
            <3> QED
                BY <3>2, <3>4, Zenon
        <2> QED
            BY <1>4, <2>2, <2>3
    <1>9. Apart(vs)
        <2>1. ASSUME NEW i \in 1..Len(vs)
              PROVE  vs[i].from \in Nat /\ vs[i].to \in Nat /\ vs[i].from < vs[i].to
            <3>1. CASE i = l + 1
                BY <1>1, <1>3, <1>6, <3>1
            <3>2. CASE i \in 1..l
                BY <1>6, <1>7, <3>2
            <3> QED
                BY <1>4, <1>6, <3>1, <3>2
        <2>2. ASSUME NEW i \in 1..Len(vs), NEW j \in 1..Len(vs), i < j PROVE vs[i].to < vs[j].from
            <3>1. i \in 1..l /\ vs[i] = ws[i]
                BY <1>4, <1>6, <2>2
            <3>2. CASE j = l + 1
                BY <1>3, <1>6, <1>8, <3>1, <3>2
            <3>3. CASE j \in 1..l
                BY <1>6, <1>7, <2>2, <3>1, <3>3
            <3> QED
                BY <1>4, <1>6, <3>2, <3>3
        <2> QED
            BY <1>4, <1>6, <2>1, <2>2 DEF Apart
    <1>10. SameMinutes(vs, rs, n + 1)
        <2> SUFFICES ASSUME NEW t \in Int
                     PROVE  (\E i \in 1..(n + 1) : During(rs[i], t)) <=> (\E j \in 1..Len(vs) : Inside(vs[j], t))
            BY DEF SameMinutes
        <2>1. (\E i \in 1..n : During(rs[i], t)) <=> (\E j \in 1..l : Inside(ws[j], t))
            BY <1>4 DEF Finds, SameMinutes
        <2>2. During(r, t) <=> Inside(w, t)
            BY <1>3 DEF During, Inside
        <2>3. (\E i \in 1..(n + 1) : During(rs[i], t)) <=> (\E i \in 1..n : During(rs[i], t)) \/ During(r, t)
            <3>1. \A i : i \in 1..(n + 1) <=> i \in 1..n \/ i = n + 1
                OBVIOUS
            <3> QED
                BY <1>1, <3>1
        <2>4. (\E j \in 1..Len(vs) : Inside(vs[j], t)) <=> (\E j \in 1..l : Inside(ws[j], t)) \/ Inside(w, t)
            <3>1. \A j : j \in 1..Len(vs) <=> j \in 1..l \/ j = l + 1
                BY <1>4, <1>6
            <3> QED
                BY <1>6, <3>1
        <2> QED
            BY <2>1, <2>2, <2>3, <2>4
    <1>11. AllEndsOfReadings(vs, rs, n + 1)
        <2> SUFFICES ASSUME NEW j \in 1..Len(vs) PROVE EndsOfReadings(vs[j], rs, n + 1)
            BY DEF AllEndsOfReadings
        <2>1. CASE j = l + 1
            BY <1>1, <1>3, <1>6, <2>1 DEF EndsOfReadings
        <2>2. CASE j \in 1..l
            <3>1. EndsOfReadings(ws[j], rs, n)
                BY <1>4, <2>2 DEF Finds, AllEndsOfReadings
            <3>2. \A i \in 1..n : i \in 1..(n + 1)
                OBVIOUS
            <3> QED
                BY <1>6, <2>2, <3>1, <3>2 DEF EndsOfReadings
        <2> QED
            BY <1>4, <1>6, <2>1, <2>2
    <1>12. vs[Len(vs)].from <= rs[n + 1].at /\ EndOf(rs[n + 1]) <= vs[Len(vs)].to /\ Len(vs) > 0
        BY <1>1, <1>3, <1>4, <1>6
    <1> QED
        BY <1>1, <1>2, <1>5, <1>9, <1>10, <1>11, <1>12 DEF Finds

\* A reading that starts inside or at the end of the last window lengthens it.
LEMMA WindowExtended ==
    ASSUME NEW rs, InLine(rs), NEW n \in Nat, n + 1 \in 1..Len(rs), n > 0,
           NEW c \in Seq(Window), NEW w \in Window, Finds(Append(c, w), rs, n),
           ~(rs[n + 1].at > w.to)
    PROVE  Finds(Append(c, [from |-> w.from, to |-> Later(w.to, EndOf(rs[n + 1]))]), rs, n + 1)
    <1>1. PICK r : r = rs[n + 1] /\ r.at \in Nat /\ EndOf(r) \in Nat /\ r.at < EndOf(r)
        BY DEF InLine, IsReading, EndOf
    <1>2. PICK u : u = [from |-> w.from, to |-> Later(w.to, EndOf(r))]
        OBVIOUS
    <1>3. PICK l : l = Len(c) + 1 /\ l \in Nat /\ l > 0
        BY LenProperties
    <1>4. PICK ws : ws = Append(c, w)
        OBVIOUS
    <1>5. ws \in Seq(Window) /\ Len(ws) = l /\ (\A i \in 1..(l - 1) : ws[i] = c[i]) /\ ws[l] = w
        BY <1>3, <1>4, AppendProperties
    <1>6. Finds(ws, rs, n)
        BY <1>4
    <1>7. /\ \A i \in 1..l : ws[i].from \in Nat /\ ws[i].to \in Nat /\ ws[i].from < ws[i].to
          /\ \A i, j \in 1..l : i < j => ws[i].to < ws[j].from
        BY <1>5, <1>6 DEF Finds, Apart
    <1>8. w.from \in Nat /\ w.to \in Nat /\ w.from < w.to /\ r.at <= w.to
        BY <1>1, <1>3, <1>5, <1>7
    <1>9. w.from <= r.at
        <2>1. w.from <= rs[n].at
            BY <1>5, <1>6 DEF Finds
        <2>2. n \in 1..Len(rs) /\ n < n + 1
            OBVIOUS
        <2>3. rs[n].at \in Int /\ rs[n].at < r.at
            BY <1>1, <2>2 DEF InLine, IsReading
        <2> QED
            BY <1>1, <1>8, <2>1, <2>3
    <1>10. u.from = w.from /\ u.to = Later(w.to, EndOf(r))
        BY <1>2
    <1>11. u.to \in Nat /\ w.to <= u.to /\ EndOf(r) <= u.to /\ (u.to = w.to \/ u.to = EndOf(r))
        BY <1>1, <1>8, <1>10 DEF Later
    <1>12. u \in Window /\ u.from < u.to
        <2>1. u \in Window
            BY <1>2, <1>8, <1>10, <1>11 DEF Window
        <2> QED
            BY <1>8, <1>10, <1>11, <2>1
    <1>13. PICK vs : vs = Append(c, u)
        OBVIOUS
    <1>14. /\ vs \in Seq(Window) /\ Len(vs) = l
           /\ \A i \in 1..(l - 1) : vs[i] = ws[i]
           /\ vs[l] = u
        BY <1>3, <1>5, <1>12, <1>13, AppendProperties
    <1>15. \A i : i \in 1..l <=> i \in 1..(l - 1) \/ i = l
        BY <1>3
    <1>16. Apart(vs)
        <2>1. ASSUME NEW i \in 1..l
              PROVE  vs[i].from \in Nat /\ vs[i].to \in Nat /\ vs[i].from < vs[i].to
            BY <1>7, <1>8, <1>10, <1>11, <1>12, <1>14, <1>15
        <2>2. ASSUME NEW i \in 1..l, NEW j \in 1..l, i < j PROVE vs[i].to < vs[j].from
            <3>0. i \in 1..(l - 1)
                BY <1>3, <2>2
            <3>1. vs[i] = ws[i] /\ ws[i].to < ws[j].from
                BY <1>7, <1>14, <2>2, <3>0
            <3>2. vs[j].from = ws[j].from
                BY <1>5, <1>10, <1>14, <1>15
            <3> QED
                BY <3>1, <3>2
        <2> QED
            BY <1>3, <1>14, <2>1, <2>2 DEF Apart
    <1>17. SameMinutes(vs, rs, n + 1)
        <2> SUFFICES ASSUME NEW t \in Int
                     PROVE  (\E i \in 1..(n + 1) : During(rs[i], t)) <=> (\E j \in 1..l : Inside(vs[j], t))
            BY <1>14 DEF SameMinutes
        <2>1. (\E i \in 1..n : During(rs[i], t)) <=> (\E j \in 1..l : Inside(ws[j], t))
            BY <1>5, <1>6 DEF Finds, SameMinutes
        <2>2. Inside(u, t) <=> Inside(w, t) \/ During(r, t)
            BY <1>1, <1>8, <1>9, <1>10, <1>11 DEF During, Inside
        <2>3. (\E i \in 1..(n + 1) : During(rs[i], t)) <=> (\E i \in 1..n : During(rs[i], t)) \/ During(r, t)
            <3>1. \A i : i \in 1..(n + 1) <=> i \in 1..n \/ i = n + 1
                OBVIOUS
            <3> QED
                BY <1>1, <3>1
        <2>4. (\E j \in 1..l : Inside(vs[j], t)) <=> (\E j \in 1..(l - 1) : Inside(ws[j], t)) \/ Inside(u, t)
            BY <1>14, <1>15
        <2>5. (\E j \in 1..l : Inside(ws[j], t)) <=> (\E j \in 1..(l - 1) : Inside(ws[j], t)) \/ Inside(w, t)
            BY <1>5, <1>15
        <2> QED
            BY <2>1, <2>2, <2>3, <2>4, <2>5
    <1>18. AllEndsOfReadings(vs, rs, n + 1)
        <2> SUFFICES ASSUME NEW j \in 1..l PROVE EndsOfReadings(vs[j], rs, n + 1)
            BY <1>14 DEF AllEndsOfReadings
        <2>1. EndsOfReadings(ws[j], rs, n)
            BY <1>5, <1>6 DEF Finds, AllEndsOfReadings
        <2>2. \A i \in 1..n : i \in 1..(n + 1)
            OBVIOUS
        <2>3. CASE j \in 1..(l - 1)
            BY <1>14, <2>1, <2>2, <2>3 DEF EndsOfReadings
        <2>4. CASE j = l
            <3>1. ws[j] = w /\ vs[j] = u
                BY <1>5, <1>14, <2>4
            <3>2. \E i \in 1..(n + 1) : u.from = rs[i].at
                BY <1>10, <2>1, <2>2, <3>1 DEF EndsOfReadings
            <3>3. \E i \in 1..(n + 1) : u.to = EndOf(rs[i])
                BY <1>1, <1>11, <2>1, <2>2, <3>1 DEF EndsOfReadings
            <3> QED
                BY <3>1, <3>2, <3>3 DEF EndsOfReadings
        <2> QED
            BY <1>15, <2>3, <2>4
    <1>19. vs[Len(vs)].from <= rs[n + 1].at /\ EndOf(rs[n + 1]) <= vs[Len(vs)].to /\ Len(vs) > 0
        BY <1>1, <1>3, <1>9, <1>10, <1>11, <1>14
    <1> QED
        BY <1>1, <1>2, <1>13, <1>16, <1>17, <1>18, <1>19 DEF Finds

\* The first reading is the first window.
LEMMA FirstWindow ==
    ASSUME NEW rs, InLine(rs), 1 \in 1..Len(rs)
    PROVE  Finds(<<[from |-> rs[1].at, to |-> EndOf(rs[1])]>>, rs, 1)
    <1>1. PICK r : r = rs[1] /\ r.at \in Nat /\ EndOf(r) \in Nat /\ r.at < EndOf(r)
        BY DEF InLine, IsReading, EndOf
    <1>2. PICK w : w = [from |-> r.at, to |-> EndOf(r)]
        OBVIOUS
    <1>3. w.from = r.at /\ w.to = EndOf(r) /\ w \in Window
        BY <1>1, <1>2 DEF Window
    <1>4. PICK ws : ws = <<w>>
        OBVIOUS
    <1>5. ws \in Seq(Window) /\ Len(ws) = 1 /\ ws[1] = w /\ \A i : i \in 1..1 <=> i = 1
        BY <1>3, <1>4
    <1>6. Apart(ws)
        BY <1>1, <1>3, <1>5 DEF Apart
    <1>7. SameMinutes(ws, rs, 1)
        <2>1. ASSUME NEW t \in Int PROVE During(r, t) <=> Inside(w, t)
            BY <1>3 DEF During, Inside
        <2> QED
            BY <1>1, <1>5, <2>1 DEF SameMinutes
    <1>8. AllEndsOfReadings(ws, rs, 1)
        BY <1>1, <1>3, <1>5 DEF AllEndsOfReadings, EndsOfReadings
    <1>9. ws[Len(ws)].from <= rs[1].at /\ EndOf(rs[1]) <= ws[Len(ws)].to /\ Len(ws) > 0
        BY <1>1, <1>3, <1>5
    <1> QED
        BY <1>1, <1>2, <1>4, <1>6, <1>7, <1>8, <1>9 DEF Finds

\* The account of the loop after n readings.
ScanFinds(acc, rs, n) ==
    /\ acc \in Account /\ acc.current # NoWindow
    /\ Finds(Append(acc.closed, acc.current), rs, n)

\* A window found has a beginning before its end.
LEMMA FoundIsAWindow ==
    ASSUME NEW c \in Seq(Window), NEW w \in Window, NEW rs, NEW n, Finds(Append(c, w), rs, n)
    PROVE  w.from \in Nat /\ w.to \in Nat /\ w.from < w.to /\ w # NoWindow
    <1>1. PICK ws : ws = Append(c, w)
        OBVIOUS
    <1>2. Len(c) \in Nat /\ Len(ws) = Len(c) + 1 /\ ws[Len(c) + 1] = w
        BY <1>1, AppendProperties, LenProperties
    <1>3. \A i \in 1..Len(ws) : ws[i].from \in Nat /\ ws[i].to \in Nat /\ ws[i].from < ws[i].to
        BY <1>1 DEF Finds, Apart
    <1>4. Len(c) + 1 \in 1..Len(ws)
        BY <1>2
    <1>5. w.from \in Nat /\ w.to \in Nat /\ w.from < w.to
        BY <1>2, <1>3, <1>4
    <1>6. NoWindow.from = -1
        BY DEF NoWindow, NoTime
    <1> QED
        BY <1>5, <1>6

\* A round of the scan finds the windows of one more reading.
LEMMA ScanStep ==
    ASSUME NEW rs, Orderly(rs), NEW n \in Nat, n > 0, n + 1 \in 1..Len(rs),
           NEW acc, ScanFinds(acc, rs, n)
    PROVE  ScanFinds(Scan(rs, acc, n + 1), rs, n + 1)
    <1>1. InLine(rs) /\ Measured(rs) /\ Compliant(rs, n + 1)
        BY OrderlyInLine DEF Orderly, InLine, Measured
    <1>2. acc \in Account /\ acc.current # NoWindow /\ acc.closed \in Seq(Window) /\ acc.current \in Window
        BY DEF ScanFinds, Account
    <1>3. PICK new : new = Scan(rs, acc, n + 1)
        OBVIOUS
    <1>4. new \in Account
        BY <1>1, <1>2, <1>3, ScanOfAnAccount
    <1>5. PICK r : r = rs[n + 1]
        OBVIOUS
    <1>6. PICK ws : ws = Append(acc.closed, acc.current)
        OBVIOUS
    <1>7. ws \in Seq(Window) /\ Finds(ws, rs, n) /\ ws[Len(ws)] = acc.current /\ Closed(acc) = ws
        <2>1. Len(ws) = Len(acc.closed) + 1 /\ ws \in Seq(Window) /\ ws[Len(acc.closed) + 1] = acc.current
            BY <1>2, <1>6, AppendProperties
        <2> QED
            BY <1>2, <1>6, <2>1 DEF ScanFinds, Closed
    <1>8. Finds(Append(new.closed, new.current), rs, n + 1)
        <2>1. CASE r.at > acc.current.to
            <3>1. new.closed = ws /\ new.current = [from |-> r.at, to |-> EndOf(r)]
                BY <1>1, <1>3, <1>5, <1>7, <2>1 DEF Scan
            <3>2. rs[n + 1].at > ws[Len(ws)].to
                BY <1>5, <1>7, <2>1
            <3>3. Finds(Append(ws, [from |-> rs[n + 1].at, to |-> EndOf(rs[n + 1])]), rs, n + 1)
                BY <1>1, <1>7, <3>2, NewWindow
            <3> QED
                BY <1>5, <3>1, <3>3
        <2>2. CASE ~(r.at > acc.current.to)
            <3>1. /\ new.closed = acc.closed
                  /\ new.current = [from |-> acc.current.from, to |-> Later(acc.current.to, EndOf(r))]
                BY <1>1, <1>2, <1>3, <1>5, <2>2 DEF Scan
            <3>2. ~(rs[n + 1].at > acc.current.to)
                BY <1>5, <2>2
            <3>3. Finds(Append(acc.closed, [from |-> acc.current.from,
                                           to |-> Later(acc.current.to, EndOf(rs[n + 1]))]), rs, n + 1)
                BY <1>1, <1>2, <1>6, <1>7, <3>2, WindowExtended
            <3> QED
                BY <1>5, <3>1, <3>3
        <2> QED
            BY <2>1, <2>2
    <1>9. new.closed \in Seq(Window) /\ new.current \in Window
        BY <1>4 DEF Account
    <1>10. new.current # NoWindow
        BY <1>8, <1>9, FoundIsAWindow
    <1> QED
        BY <1>3, <1>4, <1>8, <1>10 DEF ScanFinds

\* The first round finds the first window.
LEMMA ScanStart ==
    ASSUME NEW rs, Orderly(rs), 1 \in 1..Len(rs)
    PROVE  ScanFinds(Scan(rs, Nothing, 1), rs, 1)
    <1>1. InLine(rs) /\ Measured(rs) /\ Compliant(rs, 1)
        BY OrderlyInLine DEF Orderly, InLine, Measured
    <1>2. PICK new : new = Scan(rs, Nothing, 1)
        OBVIOUS
    <1>3. new \in Account
        BY <1>1, <1>2, NothingIsAnAccount, ScanOfAnAccount
    <1>4. PICK w : w = [from |-> rs[1].at, to |-> EndOf(rs[1])]
        OBVIOUS
    <1>5. new.closed = <<>> /\ new.current = w
        BY <1>1, <1>2, <1>4 DEF Scan, Nothing, Closed
    <1>6. w \in Window
        BY <1>3, <1>5 DEF Account
    <1>7. Append(new.closed, new.current) = <<w>>
        BY <1>5, <1>6
    <1>8. Finds(Append(new.closed, new.current), rs, 1)
        BY <1>1, <1>4, <1>7, FirstWindow
    <1>9. new.current # NoWindow
        BY <1>3, <1>8, FoundIsAWindow DEF Account
    <1> QED
        BY <1>2, <1>3, <1>8, <1>9 DEF ScanFinds

\* After all its rounds the scan has found the windows of all the readings.
LEMMA ScanFindsWindows ==
    ASSUME NEW rs, Orderly(rs), Len(rs) > 0
    PROVE  ScanFinds(Scanned(rs), rs, Len(rs))
    <1>1. InLine(rs) /\ Measured(rs) /\ Len(rs) \in Nat
        BY OrderlyInLine DEF InLine, Measured
    <1>2. PICK f : IsScan(f, rs) /\ Scanned(rs) = f[Len(rs)]
        BY <1>1, ScanRuns
    <1>3. f[0] = Nothing /\ \A k \in 1..Len(rs) : f[k] = Scan(rs, f[k - 1], k)
        BY <1>2 DEF IsScan
    <1> DEFINE Bad == {n \in 1..Len(rs) : ~ScanFinds(f[n], rs, n)}
    <1>4. ASSUME Bad # {} PROVE FALSE
        <2>1. Bad \in SUBSET Nat
            OBVIOUS
        <2>2. PICK m \in Bad : \A n \in Bad : m <= n
            BY <1>4, <2>1, LeastNumber
        <2>3. m \in 1..Len(rs) /\ ~ScanFinds(f[m], rs, m)
            OBVIOUS
        <2>4. m # 1
            <3>1. 1 \in 1..Len(rs)
                BY <1>1
            <3>2. f[1] = Scan(rs, f[1 - 1], 1)
                BY <1>3, <3>1
            <3>3. f[1] = Scan(rs, Nothing, 1)
                BY <1>3, <3>2
            <3> QED
                BY <2>3, <3>1, <3>3, ScanStart
        <2>5. PICK p \in 1..Len(rs) : p + 1 = m
            <3>1. m - 1 \in 1..Len(rs) /\ (m - 1) + 1 = m
                BY <2>3, <2>4
            <3> QED
                BY <3>1
        <2>6. ScanFinds(f[p], rs, p)
            <3>1. p \notin Bad
                BY <2>2, <2>3, <2>5
            <3> QED
                BY <3>1
        <2>7. p \in Nat /\ p > 0 /\ p + 1 \in 1..Len(rs) /\ m - 1 = p
            BY <2>3, <2>5
        <2>8. ScanFinds(Scan(rs, f[p], p + 1), rs, p + 1)
            BY <2>6, <2>7, ScanStep
        <2>9. f[m] = Scan(rs, f[p], m)
            BY <1>3, <2>3, <2>7
        <2> QED
            BY <2>3, <2>5, <2>8, <2>9
    <1>5. Len(rs) \in 1..Len(rs)
        BY <1>1
    <1> QED
        BY <1>2, <1>4, <1>5

\* Windows are what the scan found, the one still open included.
LEMMA WindowsFound ==
    ASSUME NEW rs, Orderly(rs), Len(rs) > 0
    PROVE  Finds(Windows(rs), rs, Len(rs))
    BY ScanFindsWindows DEF ScanFinds, Windows, Closed

\* No readings, no windows.
LEMMA NoWindowsOfNothing ==
    Windows(<<>>) = <<>>
    <1>1. Measured(<<>>) /\ Len(<<>>) = 0
        BY DEF Measured
    <1>2. PICK f : IsScan(f, <<>>) /\ Scanned(<<>>) = f[0]
        BY <1>1, ScanRuns
    <1>3. Scanned(<<>>) = Nothing
        BY <1>2 DEF IsScan
    <1> QED
        BY <1>3 DEF Windows, Closed, Nothing

-----------------------------------------------------------------------------
(* Windows and runs *)

\* The windows ws hold the minutes of C and no others.
Holds(ws, C) == C \subseteq Int /\ \A t \in Int : t \in C <=> \E j \in 1..Len(ws) : Inside(ws[j], t)

\* Covered are the minutes some reading lasts.
LEMMA CoveredIs ==
    ASSUME NEW rs, InLine(rs)
    PROVE  /\ Covered(rs) \subseteq Int
           /\ \A t \in Int : t \in Covered(rs) <=> \E i \in 1..Len(rs) : During(rs[i], t)
    <1>1. ASSUME NEW i \in 1..Len(rs) PROVE rs[i].at \in Int /\ EndOf(rs[i]) \in Int
        BY DEF InLine, IsReading, EndOf
    <1>2. ASSUME NEW t \in Covered(rs) PROVE t \in Int /\ \E i \in 1..Len(rs) : During(rs[i], t)
        <2>1. PICK r \in ToSet(rs) : t \in r.at..(EndOf(r) - 1)
            BY DEF Covered
        <2>2. PICK i \in 1..Len(rs) : rs[i] = r
            BY DEF ToSet
        <2>3. r.at \in Int /\ EndOf(r) \in Int
            BY <1>1, <2>2
        <2>4. t \in Int /\ r.at <= t /\ t < EndOf(r)
            BY <2>1, <2>3
        <2> QED
            BY <2>2, <2>4 DEF During
    <1>3. ASSUME NEW t \in Int, NEW i \in 1..Len(rs), During(rs[i], t) PROVE t \in Covered(rs)
        <2>1. t \in rs[i].at..(EndOf(rs[i]) - 1)
            BY <1>1, <1>3 DEF During
        <2>2. rs[i] \in ToSet(rs)
            BY DEF ToSet
        <2> QED
            BY <2>1, <2>2 DEF Covered
    <1> QED
        BY <1>2, <1>3

\* Minutes in a row that windows hold are in one of them.
LEMMA OneWindowHolds ==
    ASSUME NEW ws, Apart(ws), NEW C, Holds(ws, C),
           NEW a \in Int, NEW b \in Int, a < b, a..(b - 1) \subseteq C
    PROVE  \E j \in 1..Len(ws) : ws[j].from <= a /\ b <= ws[j].to
    <1>1. a \in a..(b - 1)
        OBVIOUS
    <1>2. PICK j \in 1..Len(ws) : Inside(ws[j], a)
        BY <1>1 DEF Holds
    <1>3. ws[j].from \in Int /\ ws[j].to \in Int /\ ws[j].from <= a /\ a < ws[j].to
        BY <1>2 DEF Apart, Inside
    <1>4. ASSUME ws[j].to < b PROVE FALSE
        <2>1. ws[j].to \in a..(b - 1)
            BY <1>3, <1>4
        <2>2. PICK i \in 1..Len(ws) : Inside(ws[i], ws[j].to)
            BY <1>3, <2>1 DEF Holds
        <2>3. ws[i].from \in Int /\ ws[i].to \in Int /\ ws[i].from <= ws[j].to /\ ws[j].to < ws[i].to
            BY <2>2 DEF Apart, Inside
        <2>4. i # j
            BY <1>3, <2>3
        <2>5. CASE i < j
            <3>1. ws[i].to < ws[j].from
                BY <2>5 DEF Apart
            <3> QED
                BY <1>3, <2>3, <3>1
        <2>6. CASE j < i
            <3>1. ws[j].to < ws[i].from
                BY <2>6 DEF Apart
            <3> QED
                BY <1>3, <2>3, <3>1
        <2>7. i \in Int /\ j \in Int
            BY DEF Apart
        <2> QED
            BY <2>4, <2>5, <2>6, <2>7
    <1> QED
        BY <1>3, <1>4

\* A window is a maximal run of covered minutes: windows do not touch.
LEMMA WindowIsRun ==
    ASSUME NEW ws, Apart(ws), NEW C, Holds(ws, C), NEW j \in 1..Len(ws)
    PROVE  IsRun(C, ws[j])
    <1>1. /\ \A i \in 1..Len(ws) : ws[i].from \in Int /\ ws[i].to \in Int /\ ws[i].from < ws[i].to
          /\ \A i, k \in 1..Len(ws) : i < k => ws[i].to < ws[k].from
          /\ Len(ws) \in Nat
        BY DEF Apart
    <1>2. ws[j].from..(ws[j].to - 1) \subseteq C
        <2> SUFFICES ASSUME NEW t \in ws[j].from..(ws[j].to - 1) PROVE t \in C
            OBVIOUS
        <2>1. t \in Int /\ Inside(ws[j], t)
            BY <1>1 DEF Inside
        <2> QED
            BY <2>1 DEF Holds
    <1>3. ws[j].from - 1 \notin C
        <2> SUFFICES ASSUME ws[j].from - 1 \in C PROVE FALSE
            OBVIOUS
        <2>1. ws[j].from - 1 \in Int
            BY <1>1
        <2>2. PICK i \in 1..Len(ws) : Inside(ws[i], ws[j].from - 1)
            BY <2>1 DEF Holds
        <2>3. ws[i].from <= ws[j].from - 1 /\ ws[j].from - 1 < ws[i].to
            BY <2>2 DEF Inside
        <2>4. i # j
            BY <1>1, <2>3
        <2>5. /\ ws[i].from \in Int /\ ws[i].to \in Int /\ ws[j].from \in Int /\ ws[j].to \in Int
              /\ ws[j].from < ws[j].to
              /\ (i < j => ws[i].to < ws[j].from) /\ (j < i => ws[j].to < ws[i].from)
            BY <1>1
        <2> QED
            BY <2>3, <2>4, <2>5
    <1>4. ws[j].to \notin C
        <2> SUFFICES ASSUME ws[j].to \in C PROVE FALSE
            OBVIOUS
        <2>1. ws[j].to \in Int
            BY <1>1
        <2>2. PICK i \in 1..Len(ws) : Inside(ws[i], ws[j].to)
            BY <2>1 DEF Holds
        <2>3. ws[i].from <= ws[j].to /\ ws[j].to < ws[i].to
            BY <2>2 DEF Inside
        <2>4. i # j
            BY <1>1, <2>3
        <2>5. /\ ws[i].from \in Int /\ ws[i].to \in Int /\ ws[j].from \in Int /\ ws[j].to \in Int
              /\ ws[j].from < ws[j].to
              /\ (i < j => ws[i].to < ws[j].from) /\ (j < i => ws[j].to < ws[i].from)
            BY <1>1
        <2> QED
            BY <2>3, <2>4, <2>5
    <1> QED
        BY <1>1, <1>2, <1>3, <1>4 DEF IsRun

\* ... and a maximal run is a window.
LEMMA RunIsWindow ==
    ASSUME NEW ws, Apart(ws), NEW C, Holds(ws, C), NEW w \in Window, IsRun(C, w)
    PROVE  \E j \in 1..Len(ws) : ws[j] = w
    <1>1. w.from \in Int /\ w.to \in Int /\ w.from < w.to
        BY DEF IsRun, Window
    <1>2. PICK j \in 1..Len(ws) : ws[j].from <= w.from /\ w.to <= ws[j].to
        BY <1>1, OneWindowHolds DEF IsRun
    <1>3. ws[j] \in Window
        BY ElementOfSeq DEF Apart
    <1>4. ws[j].from \in Int /\ ws[j].to \in Int
        BY <1>3 DEF Window
    <1>5. ws[j].from = w.from
        <2> SUFFICES ASSUME ws[j].from # w.from PROVE FALSE
            OBVIOUS
        <2>1. w.from - 1 \in Int /\ Inside(ws[j], w.from - 1)
            BY <1>1, <1>2, <1>4 DEF Inside
        <2>2. w.from - 1 \in C
            BY <2>1 DEF Holds
        <2> QED
            BY <2>2 DEF IsRun
    <1>6. ws[j].to = w.to
        <2> SUFFICES ASSUME ws[j].to # w.to PROVE FALSE
            OBVIOUS
        <2>1. Inside(ws[j], w.to)
            BY <1>1, <1>2, <1>4 DEF Inside
        <2>2. w.to \in C
            BY <1>1, <2>1 DEF Holds
        <2> QED
            BY <2>2 DEF IsRun
    <1> QED
        BY <1>3, <1>5, <1>6 DEF Window

\* The windows found are apart and hold the covered minutes, no more and no fewer.
LEMMA FoundHold ==
    ASSUME NEW rs, Orderly(rs), Len(rs) > 0
    PROVE  Apart(Windows(rs)) /\ Holds(Windows(rs), Covered(rs)) /\ Len(Windows(rs)) > 0
    <1>1. InLine(rs) /\ Finds(Windows(rs), rs, Len(rs))
        BY OrderlyInLine, WindowsFound
    <1>2. Holds(Windows(rs), Covered(rs))
        BY <1>1, CoveredIs DEF Holds, Finds, SameMinutes
    <1> QED
        BY <1>1, <1>2 DEF Finds

\* The windows of the summary are the runs of what the readings cover.
LEMMA WindowsAreRuns ==
    ASSUME Orderly(readings)
    PROVE  SummaryFindsRuns
    <1>1. PICK ws : ws = Windows(readings)
        OBVIOUS
    <1>2. InLine(readings) /\ Len(readings) \in Nat
        BY OrderlyInLine DEF InLine
    <1>3. CASE Len(readings) = 0
        <2>1. readings = <<>>
            BY <1>3, EmptySeq DEF Orderly
        <2>2. ws = <<>>
            BY <1>1, <2>1, NoWindowsOfNothing
        <2>3. ToSet(ws) = {} /\ Len(ws) = 0
            BY <2>2 DEF ToSet
        <2>4. ToSet(readings) = {}
            BY <2>1 DEF ToSet
        <2>5. Runs(readings) = {}
            BY <2>4 DEF Runs, Instants
        <2> QED
            BY <1>1, <2>3, <2>5 DEF SummaryFindsRuns
    <1>4. CASE Len(readings) > 0
        <2>1. Apart(ws) /\ Holds(ws, Covered(readings))
            BY <1>1, <1>4, FoundHold
        <2>2. \A j \in 1..Len(ws) : EndsOfReadings(ws[j], readings, Len(readings))
            BY <1>1, <1>4, WindowsFound DEF Finds, AllEndsOfReadings
        <2>3. \A i \in 1..Len(readings) :
                  /\ readings[i].at \in Instants /\ EndOf(readings[i]) \in Instants
                  /\ readings[i].at \in Int /\ EndOf(readings[i]) \in Int
            BY <1>2 DEF Instants, ToSet, InLine, IsReading, EndOf
        <2>4. Instants \subseteq Int
            <3>1. ASSUME NEW r \in ToSet(readings) PROVE r.at \in Int /\ EndOf(r) \in Int
                BY <2>3 DEF ToSet
            <3> QED
                BY <3>1 DEF Instants
        <2>5. ASSUME NEW w \in ToSet(ws) PROVE w \in Runs(readings)
            <3>1. PICK j \in 1..Len(ws) : ws[j] = w
                BY DEF ToSet
            <3>2. w \in Window /\ w.from \in Instants /\ w.to \in Instants
                <4>1. w \in Window
                    BY <2>1, <3>1, ElementOfSeq DEF Apart
                <4> QED
                    BY <2>2, <2>3, <3>1, <4>1 DEF EndsOfReadings
            <3>3. w \in [from : Instants, to : Instants]
                BY <3>2 DEF Window
            <3>4. IsRun(Covered(readings), w)
                BY <2>1, <3>1, WindowIsRun
            <3> QED
                BY <3>3, <3>4 DEF Runs
        <2>6. ASSUME NEW w \in Runs(readings) PROVE w \in ToSet(ws)
            <3>1. w \in Window /\ IsRun(Covered(readings), w)
                BY <2>4 DEF Runs, Window
            <3> QED
                BY <2>1, <3>1, RunIsWindow DEF ToSet
        <2>7. \A i \in 2..Len(ws) : ws[i - 1].to < ws[i].from
            <3> TAKE i \in 2..Len(ws)
            <3>1. i - 1 \in 1..Len(ws) /\ i \in 1..Len(ws) /\ i - 1 < i
                BY <2>1 DEF Apart
            <3> QED
                BY <2>1, <3>1 DEF Apart
        <2> QED
            BY <1>1, <2>5, <2>6, <2>7 DEF SummaryFindsRuns
    <1> QED
        BY <1>2, <1>3, <1>4

-----------------------------------------------------------------------------
(* The longest window *)

Best(ws, i) == \A j \in 1..Len(ws) : \/ Length(ws[j]) < Length(ws[i])
                                     \/ Length(ws[j]) = Length(ws[i]) /\ j >= i

\* Among windows there is one that none is longer than, the earliest of them.
LEMMA BestExists ==
    ASSUME NEW ws, Apart(ws), Len(ws) > 0
    PROVE  \E i \in 1..Len(ws) : Best(ws, i)
    <1>1. /\ Len(ws) \in Nat /\ Len(ws) \in 1..Len(ws)
          /\ \A i \in 1..Len(ws) : ws[i].from \in Nat /\ ws[i].to \in Nat /\ ws[i].from < ws[i].to
          /\ \A i, j \in 1..Len(ws) : i < j => ws[i].to < ws[j].from
        BY DEF Apart
    <1>2. PICK n \in Nat : n = ws[Len(ws)].to
        BY <1>1
    <1>3. \A i \in 1..Len(ws) : Length(ws[i]) \in 0..n
        <2> TAKE i \in 1..Len(ws)
        <2>1. ws[i].to <= n
            <3>1. CASE i = Len(ws)
                BY <1>1, <1>2, <3>1
            <3>2. CASE i < Len(ws)
                <4>1. ws[i].to < ws[Len(ws)].from /\ ws[Len(ws)].from < ws[Len(ws)].to
                    BY <1>1, <3>2
                <4>2. ws[i].to \in Nat /\ ws[Len(ws)].from \in Nat
                    BY <1>1
                <4> QED
                    BY <1>2, <4>1, <4>2
            <3> QED
                BY <1>1, <3>1, <3>2
        <2>2. ws[i].from \in Nat /\ ws[i].to \in Nat /\ ws[i].from < ws[i].to
            BY <1>1
        <2> QED
            BY <1>2, <2>1, <2>2 DEF Length
    <1> DEFINE T == {Length(ws[i]) : i \in 1..Len(ws)}
    <1>4. PICK m \in T : \A k \in T : k <= m
        <2>1. T \in SUBSET (0..n) /\ T # {}
            BY <1>1, <1>3
        <2> QED
            BY <2>1, GreatestNumber
    <1> DEFINE U == {i \in 1..Len(ws) : Length(ws[i]) = m}
    <1>5. PICK i \in U : \A j \in U : i <= j
        <2>1. U \in SUBSET Nat /\ U # {}
            BY <1>4
        <2> QED
            BY <2>1, LeastNumber
    <1>6. i \in 1..Len(ws) /\ Length(ws[i]) = m
        BY <1>5
    <1>7. ASSUME NEW j \in 1..Len(ws)
          PROVE  Length(ws[j]) < m \/ (Length(ws[j]) = m /\ j >= i)
        <2>1. Length(ws[j]) <= m /\ Length(ws[j]) \in Int /\ m \in Int
            BY <1>3, <1>4, <1>6
        <2>2. Length(ws[j]) = m => i <= j
            BY <1>5
        <2>3. i \in Int /\ j \in Int
            BY <1>6
        <2> QED
            BY <2>1, <2>2, <2>3
    <1> QED
        BY <1>6, <1>7 DEF Best

\* w is the longest of the windows ws.
IsLongest(w, ws) ==
    \E j \in 1..Len(ws) : w = ws[j] /\ \A i \in 1..Len(ws) : Length(ws[i]) <= Length(w)

\* LongestWindow is that one, and its length is positive.
LEMMA LongestIs ==
    ASSUME NEW rs, Orderly(rs), Len(rs) > 0
    PROVE  /\ IsLongest(LongestWindow(rs), Windows(rs))
           /\ LongestWindow(rs).from \in Nat /\ LongestWindow(rs).to \in Nat
           /\ LongestWindow(rs) \in Window
           /\ LongestMinutes(rs) \in Nat /\ LongestMinutes(rs) > 0
    <1>1. PICK ws : ws = Windows(rs)
        OBVIOUS
    <1>2. Apart(ws) /\ Len(ws) > 0
        BY <1>1, FoundHold
    <1>3. ws # <<>>
        BY <1>2
    <1>4. LongestWindow(rs) = ws[CHOOSE i \in 1..Len(ws) : Best(ws, i)]
        BY <1>1, <1>3 DEF LongestWindow, Best
    <1>5. PICK k : k = CHOOSE i \in 1..Len(ws) : Best(ws, i)
        OBVIOUS
    <1>6. k \in 1..Len(ws) /\ Best(ws, k)
        BY <1>2, <1>5, BestExists
    <1>7. LongestWindow(rs) = ws[k]
        BY <1>4, <1>5
    <1>8. \A i \in 1..Len(ws) : ws[i].from \in Nat /\ ws[i].to \in Nat /\ ws[i].from < ws[i].to
        BY <1>2 DEF Apart
    <1>9. \A i \in 1..Len(ws) : Length(ws[i]) <= Length(ws[k])
        <2> TAKE i \in 1..Len(ws)
        <2>1. Length(ws[i]) \in Int /\ Length(ws[k]) \in Int
            BY <1>6, <1>8 DEF Length
        <2> QED
            BY <1>6, <2>1 DEF Best
    <1>10. ws[k] \in Window
        BY <1>2, <1>6, ElementOfSeq DEF Apart
    <1>11. Length(ws[k]) \in Nat /\ Length(ws[k]) > 0
        BY <1>6, <1>8 DEF Length
    <1> QED
        BY <1>1, <1>6, <1>7, <1>8, <1>9, <1>10, <1>11 DEF IsLongest, LongestMinutes

\* Without readings there is no longest window and its length is 0.
LEMMA LongestOfNothing ==
    LongestWindow(<<>>) = NoWindow /\ LongestMinutes(<<>>) = 0
    <1>1. LongestWindow(<<>>) = NoWindow
        BY NoWindowsOfNothing DEF LongestWindow
    <1> QED
        BY <1>1 DEF LongestMinutes, NoWindow, NoTime, Length

\* A timeline is empty or has a first reading.
LEMMA OrderlyOrNothing ==
    ASSUME NEW rs, Orderly(rs)
    PROVE  Len(rs) \in Nat /\ (rs = <<>> \/ Len(rs) > 0)
    BY EmptySeq, LenProperties DEF Orderly

\* What is long enough to be confirmed is a window.
LEMMA ConfirmableIs ==
    ASSUME NEW rs, Orderly(rs), Confirmable(rs)
    PROVE  /\ Len(rs) > 0 /\ LongestMinutes(rs) >= Required
           /\ LongestWindow(rs) \in ToSet(Windows(rs))
           /\ LongestWindow(rs) \in [from : Nat \cup {NoTime}, to : Nat \cup {NoTime}]
    <1>1. Required > 0 /\ Required \in Nat /\ LongestMinutes(rs) >= Required
        BY TimelineAssumptions DEF Confirmable
    <1>2. Len(rs) > 0
        BY <1>1, OrderlyOrNothing, LongestOfNothing
    <1>3. LongestWindow(rs) \in ToSet(Windows(rs))
        BY <1>2, LongestIs DEF IsLongest, ToSet
    <1>4. PICK w : w = LongestWindow(rs) /\ w.from \in Nat /\ w.to \in Nat /\ w \in Window
        BY <1>2, LongestIs
    <1>5. w \in [from : Nat \cup {NoTime}, to : Nat \cup {NoTime}]
        BY <1>4 DEF Window
    <1> QED
        BY <1>1, <1>2, <1>3, <1>4, <1>5

-----------------------------------------------------------------------------
(* Batches *)

\* A batch that is well formed is a timeline of its own.
LEMMA WellFormedIs ==
    ASSUME NEW b \in Batches, WellFormed(b)
    PROVE  AllSound(b) /\ Orderly(b) /\ Len(b) > 0
    <1>1. PICK n \in 0..MaxBatch : b \in [1..n -> Inputs]
        BY DEF Batches
    <1>2. n \in Nat /\ b \in [1..n -> Reading]
        BY <1>1, TimelineAssumptions
    <1>3. b \in Seq(Reading) /\ Len(b) = n
        BY <1>2, FunctionAsSeq
    <1>4. \A i \in 1..Len(b) : b[i] \in Reading
        BY <1>3, ElementOfSeq
    <1>5. AllSound(b)
        BY <1>3, <1>4 DEF AllSound, Sound, WellFormed
    <1>6. Orderly(b)
        BY <1>3 DEF Orderly, WellFormed, Compliant
    <1>7. Len(b) > 0
        BY <1>2, <1>3, EmptySeq DEF WellFormed
    <1> QED
        BY <1>5, <1>6, <1>7

\* The merged timeline m holds the readings t with the item of the batch each is.
IsMerge(m, t, order, n) ==
    /\ Len(m) = Len(t)
    /\ \A k \in 1..Len(t) : m[k].reading = t[k]
    /\ \A k \in 1..Len(t) : order[k] <= n => m[k].index = 0
    /\ \A k \in 1..Len(t) : ~(order[k] <= n) => m[k].index = order[k] - n

\* Merged is the sorted concatenation, each reading with its place in the batch or 0.
LEMMA MergedIs ==
    ASSUME NEW rs, AllSound(rs), NEW b, AllSound(b)
    PROVE  /\ IsMerge(Merged(rs, b), Sorted(rs \o b), StableOrder(rs \o b), Len(rs))
           /\ Combined(rs, b) = Sorted(rs \o b)
    <1>1. PICK all : all = rs \o b
        OBVIOUS
    <1>2. AllSound(all) /\ Len(rs) \in Nat
        BY <1>1, SoundConcatenated, LenProperties DEF AllSound
    <1>3. PICK order : order = StableOrder(all)
        OBVIOUS
    <1>4. PICK t : t = Sorted(all)
        OBVIOUS
    <1>5. IsSorting(t, all, order)
        BY <1>2, <1>3, <1>4, SortedIsSorting
    <1>6. /\ Len(all) \in Nat /\ Len(t) = Len(all) /\ t \in Seq(Reading)
          /\ \A k \in 1..Len(all) : order[k] \in 1..Len(all)
          /\ \A k \in 1..Len(all) : t[k] = all[order[k]]
        BY <1>2, <1>5, LenProperties DEF IsSorting, OrdersFirst, AllSound
    <1> DEFINE index(i) == IF i <= Len(rs) THEN 0 ELSE i - Len(rs)
    <1>7. PICK m : m = [k \in 1..Len(all) |-> [reading |-> all[order[k]], index |-> index(order[k])]]
        OBVIOUS
    <1>8. Merged(rs, b) = m
        BY <1>1, <1>3, <1>7 DEF Merged
    <1>9. ASSUME NEW k \in 1..Len(all)
          PROVE  /\ m[k].reading = t[k] /\ m[k].index = index(order[k])
                 /\ m[k] \in [reading : Reading, index : Int]
        <2>1. t[k] \in Reading /\ order[k] \in Int
            BY <1>6, ElementOfSeq
        <2>2. m[k] = [reading |-> t[k], index |-> index(order[k])]
            BY <1>6, <1>7
        <2>3. index(order[k]) \in Int
            BY <1>2, <2>1
        <2> HIDE DEF index
        <2> QED
            BY <2>1, <2>2, <2>3
    <1>10. Len(m) = Len(all)
        <2>1. m \in [1..Len(all) -> [reading : Reading, index : Int]]
            BY <1>7, <1>9
        <2> QED
            BY <1>6, <2>1, FunctionAsSeq
    <1>11. IsMerge(m, t, order, Len(rs))
        BY <1>6, <1>9, <1>10 DEF IsMerge
    <1>12. Combined(rs, b) = [i \in 1..Len(all) |-> t[i]]
        <2>1. Combined(rs, b) = [i \in 1..Len(m) |-> m[i].reading]
            BY <1>8 DEF Combined
        <2> QED
            BY <1>9, <1>10, <2>1
    <1>13. t = [i \in 1..Len(all) |-> t[i]]
        BY <1>6, LenProperties
    <1> QED
        BY <1>1, <1>3, <1>4, <1>8, <1>11, <1>12, <1>13

\* The breaks of the merged timeline are those of the sorted readings.
LEMMA BreaksAre ==
    ASSUME NEW m, NEW t, NEW order, NEW n, IsMerge(m, t, order, n), Len(t) \in Nat
    PROVE  Breaks(m) = {i \in 2..Len(t) : ~Continues(t[i - 1], t[i])}
    <1>1. Len(m) = Len(t)
        BY DEF IsMerge
    <1>2. ASSUME NEW i \in 2..Len(t) PROVE m[i].reading = t[i] /\ m[i - 1].reading = t[i - 1]
        <2>1. i \in 1..Len(t) /\ i - 1 \in 1..Len(t)
            OBVIOUS
        <2> QED
            BY <2>1 DEF IsMerge
    <1>3. Breaks(m) = {i \in 2..Len(t) : ~Continues(m[i - 1].reading, m[i].reading)}
        BY <1>1 DEF Breaks
    <1> QED
        BY <1>2, <1>3

\* A batch is accepted only if it makes one continuous history.
LEMMA AcceptedIs ==
    ASSUME NEW rs, Orderly(rs), NEW b \in Batches, AcceptsBatch(rs, b)
    PROVE  /\ Orderly(Combined(rs, b)) /\ Continuous(Combined(rs, b))
           /\ ToSet(Combined(rs, b)) = ToSet(rs \o b)
           /\ IsSorting(Combined(rs, b), rs \o b, StableOrder(rs \o b))
    <1>1. AllSound(rs) /\ AllSound(b)
        BY OrderlyIsSound, WellFormedIs DEF AcceptsBatch
    <1>2. PICK all : all = rs \o b /\ AllSound(all)
        BY <1>1, SoundConcatenated
    <1>3. PICK order : order = StableOrder(all)
        OBVIOUS
    <1>4. PICK t : t = Combined(rs, b) /\ t = Sorted(all) /\ IsMerge(Merged(rs, b), t, order, Len(rs))
        BY <1>1, <1>2, <1>3, MergedIs
    <1>5. IsSorting(t, all, order)
        BY <1>2, <1>3, <1>4, SortedIsSorting
    <1>6. AllSound(t) /\ ToSet(t) = ToSet(all)
        BY <1>2, <1>5, SortingKeeps
    <1>7. Len(t) \in Nat
        BY <1>6, LenProperties DEF AllSound
    <1>8. \A i \in 2..Len(t) : Continues(t[i - 1], t[i])
        <2>1. Breaks(Merged(rs, b)) = {}
            BY DEF AcceptsBatch
        <2> QED
            BY <1>4, <1>7, <2>1, BreaksAre
    <1>9. ASSUME NEW i \in 2..Len(t) PROVE t[i - 1].at < t[i].at
        <2>1. t[i].at = EndOf(t[i - 1]) /\ i - 1 \in 1..Len(t)
            BY <1>7, <1>8 DEF Continues
        <2>2. IsReading(t[i - 1])
            BY <1>6, <2>1, SoundTimely
        <2> QED
            BY <2>1, <2>2 DEF IsReading, EndOf
    <1>10. Orderly(t)
        BY <1>6, <1>9, GrowingIsOrderly
    <1> QED
        BY <1>2, <1>3, <1>4, <1>5, <1>6, <1>8, <1>10 DEF Continuous

-----------------------------------------------------------------------------
(* The invariant *)

\* A reading with a duration has a time once the server gave it one.
LEMMA TimedIs ==
    ASSUME NEW rs, Orderly(rs), NEW r \in Inputs, r.minutes > 0, NEW x \in Timed(rs, r)
    PROVE  x \in Reading /\ IsReading(x) /\ x.at # NoTime
    <1>1. r \in Reading /\ Inputs \subseteq Reading
        BY TimelineAssumptions
    <1>2. CASE r.at # NoTime
        <2>1. x = r
            BY <1>2 DEF Timed
        <2> QED
            BY <1>1, <1>2, <2>1 DEF Reading, IsReading
    <1>3. CASE r.at = NoTime /\ rs # <<>>
        <2>1. x = [r EXCEPT !.at = Continuation(rs)]
            BY <1>3 DEF Timed
        <2>2. Len(rs) \in 1..Len(rs) /\ InLine(rs)
            BY <1>3, OrderlyOrNothing, OrderlyInLine
        <2>3. Continuation(rs) = EndOf(rs[Len(rs)])
            BY DEF Continuation, Last
        <2>4. Continuation(rs) \in Nat
            BY <2>2, <2>3 DEF InLine, IsReading, EndOf
        <2>5. x = [at |-> Continuation(rs), minutes |-> r.minutes, fits |-> r.fits]
            BY <1>1, <2>1 DEF Reading
        <2>6. r.minutes \in Nat /\ r.fits \in BOOLEAN
            BY <1>1 DEF Reading
        <2>7. Continuation(rs) # NoTime
            BY <2>4 DEF NoTime
        <2> QED
            BY <2>4, <2>5, <2>6, <2>7 DEF Reading, IsReading
    <1>4. CASE r.at = NoTime /\ rs = <<>>
        <2>1. x \in Inputs /\ x.at # NoTime /\ x.minutes = r.minutes
            BY <1>4 DEF Timed
        <2>2. x \in Reading
            BY <1>1, <2>1
        <2>3. x.at \in Nat \cup {NoTime} /\ x.minutes \in Nat
            BY <2>2 DEF Reading
        <2> QED
            BY <2>1, <2>2, <2>3 DEF IsReading
    <1> QED
        BY <1>2, <1>3, <1>4

\* The three ways a step may change the readings.
ReadingAdded(r, x) ==
    /\ r \in Inputs /\ r.minutes > 0 /\ x \in Timed(readings, r)
    /\ TimeIsFree(readings, x) /\ x.fits
    /\ readings' = Sorted(Append(readings, x))

BatchAdded(b) ==
    /\ b \in Batches /\ AcceptsBatch(readings, b)
    /\ readings' = Combined(readings, b)

ConfirmedNow(rs) ==
    /\ status' = "CONDITIONED"
    /\ \/ Confirmable(rs) /\ confirmed' = LongestWindow(rs)
       \/ confirmed' \in ToSet(Windows(rs)) /\ Length(confirmed') >= Required

Locking == (status' = status /\ confirmed' = confirmed) \/ ConfirmedNow(readings')

\* What any step does to the readings and to the confirmed window.
LEMMA StepIs ==
    ASSUME Next
    PROVE  /\ \/ \E r, x : ReadingAdded(r, x)
              \/ \E b : BatchAdded(b)
              \/ readings' = readings /\ ConfirmedNow(readings')
           /\ Locking
           /\ status = "PLAN_READY"
    <1>1. ASSUME NEW r \in Inputs, NEW confirm \in BOOLEAN, AddConditioning(r, confirm)
          PROVE  (\E x : ReadingAdded(r, x)) /\ Locking /\ status = "PLAN_READY"
        BY <1>1 DEF AddConditioning, Record, ReadingAdded, Locking, ConfirmedNow
    <1>2. ASSUME NEW b \in Batches, NEW confirm \in BOOLEAN, AddConditioningBatch(b, confirm)
          PROVE  BatchAdded(b) /\ Locking /\ status = "PLAN_READY"
        BY <1>2 DEF AddConditioningBatch, Record, BatchAdded, Locking, ConfirmedNow
    <1>3. ASSUME NEW w \in NamedWindows, ConfirmConditioning(w)
          PROVE  readings' = readings /\ ConfirmedNow(readings') /\ Locking /\ status = "PLAN_READY"
        BY <1>3 DEF ConfirmConditioning, MayConfirm, ConfirmedNow, Locking
    <1> QED
        BY <1>1, <1>2, <1>3 DEF Next

\* A step keeps the timeline compliant and loses no reading.
LEMMA ReadingsStayOrderly ==
    ASSUME Orderly(readings), Next
    PROVE  Orderly(readings') /\ ToSet(readings) \subseteq ToSet(readings')
    <1>1. ASSUME NEW r, NEW x, ReadingAdded(r, x)
          PROVE  Orderly(readings') /\ ToSet(readings) \subseteq ToSet(readings')
        <2>1. x \in Reading /\ IsReading(x) /\ x.at # NoTime
            BY <1>1, TimedIs DEF ReadingAdded
        <2>2. Sound(x) /\ TimeIsFree(readings, x)
            BY <1>1, <2>1 DEF Sound, IsReading, ReadingAdded
        <2> QED
            BY <1>1, <2>2, AddedIsOrderly DEF ReadingAdded
    <1>2. ASSUME NEW b, BatchAdded(b)
          PROVE  Orderly(readings') /\ ToSet(readings) \subseteq ToSet(readings')
        <2>1. b \in Batches /\ AcceptsBatch(readings, b) /\ readings' = Combined(readings, b)
            BY <1>2 DEF BatchAdded
        <2>2. Orderly(readings') /\ ToSet(readings') = ToSet(readings \o b)
            BY <2>1, AcceptedIs
        <2>3. AllSound(readings) /\ AllSound(b)
            BY <2>1, OrderlyIsSound, WellFormedIs DEF AcceptsBatch
        <2>4. ToSet(readings) \subseteq ToSet(readings \o b)
            <3>1. PICK all : all = readings \o b
                OBVIOUS
            <3>2. /\ Len(readings) \in Nat /\ Len(b) \in Nat /\ Len(all) = Len(readings) + Len(b)
                  /\ \A i \in 1..Len(readings) : all[i] = readings[i]
                BY <2>3, <3>1, SoundConcatenated, LenProperties DEF AllSound
            <3>3. ASSUME NEW q \in ToSet(readings) PROVE q \in ToSet(all)
                <4>1. PICK i \in 1..Len(readings) : readings[i] = q
                    BY DEF ToSet
                <4>2. i \in 1..Len(all) /\ all[i] = q
                    BY <3>2, <4>1
                <4> QED
                    BY <4>2 DEF ToSet
            <3> QED
                BY <3>1, <3>3
        <2> QED
            BY <2>2, <2>4
    <1> QED
        BY <1>1, <1>2, StepIs

\* What is confirmed is a window that is long enough.
ConfirmedIsAWindow ==
    status = "CONDITIONED" => confirmed \in ToSet(Windows(readings)) /\ Length(confirmed) >= Required

IInv == TypeOK /\ ConfirmedIsAWindow

\* The inductive invariant holds at first.
LEMMA InitIInv ==
    Init => IInv
    <1> SUFFICES ASSUME Init PROVE IInv
        OBVIOUS
    <1>1. readings = <<>> /\ status = "PLAN_READY" /\ confirmed = NoWindow
        BY DEF Init
    <1>2. <<>> \in Seq(Reading) /\ Len(<<>>) = 0
        OBVIOUS
    <1>3. NoWindow \in [from : Nat \cup {NoTime}, to : Nat \cup {NoTime}]
        BY DEF NoWindow
    <1> QED
        BY <1>1, <1>2, <1>3 DEF IInv, TypeOK, ConfirmedIsAWindow

\* Every step keeps the inductive invariant.
LEMMA NextIInv ==
    IInv /\ [Next]_vars => IInv'
    <1> SUFFICES ASSUME IInv, [Next]_vars PROVE IInv'
        OBVIOUS
    <1>1. Orderly(readings)
        BY DEF IInv, TypeOK, Orderly
    <1>2. CASE UNCHANGED vars
        BY <1>2 DEF vars, IInv, TypeOK, ConfirmedIsAWindow
    <1>3. CASE Next
        <2>1. PICK rs : rs = readings' /\ Orderly(rs)
            BY <1>1, <1>3, ReadingsStayOrderly
        <2>2. Locking /\ status = "PLAN_READY"
            BY <1>3, StepIs
        <2>3. rs \in Seq(Reading) /\ \A i \in 1..Len(rs) : Compliant(rs, i)
            BY <2>1 DEF Orderly
        <2>4. CASE status' = status /\ confirmed' = confirmed
            BY <2>1, <2>2, <2>3, <2>4 DEF IInv, TypeOK, ConfirmedIsAWindow
        <2>5. CASE ConfirmedNow(rs)
            <3>1. status' = "CONDITIONED"
                BY <2>5 DEF ConfirmedNow
            <3>2. /\ confirmed' \in ToSet(Windows(rs)) /\ Length(confirmed') >= Required
                  /\ confirmed' \in [from : Nat \cup {NoTime}, to : Nat \cup {NoTime}]
                <4>1. CASE Confirmable(rs) /\ confirmed' = LongestWindow(rs)
                    BY <2>1, <4>1, ConfirmableIs DEF LongestMinutes
                <4>2. CASE confirmed' \in ToSet(Windows(rs)) /\ Length(confirmed') >= Required
                    <5>0. PICK ws : ws = Windows(rs)
                        OBVIOUS
                    <5>1. PICK j \in 1..Len(ws) : ws[j] = confirmed'
                        BY <4>2, <5>0 DEF ToSet
                    <5>2. Len(rs) > 0
                        BY <2>1, <5>0, <5>1, OrderlyOrNothing, NoWindowsOfNothing
                    <5>3. Apart(ws)
                        BY <2>1, <5>0, <5>2, FoundHold
                    <5>4. /\ confirmed' \in Window
                          /\ confirmed'.from \in Nat /\ confirmed'.to \in Nat
                        BY <5>1, <5>3, ElementOfSeq DEF Apart
                    <5>5. confirmed' \in [from : Nat \cup {NoTime}, to : Nat \cup {NoTime}]
                        BY <5>4 DEF Window
                    <5> QED
                        BY <4>2, <5>5
                <4> QED
                    BY <2>5, <4>1, <4>2 DEF ConfirmedNow
            <3> QED
                BY <2>1, <2>3, <3>1, <3>2 DEF IInv, TypeOK, ConfirmedIsAWindow
        <2> QED
            BY <2>1, <2>2, <2>4, <2>5 DEF Locking
    <1> QED
        BY <1>2, <1>3

\* The inductive invariant holds in every reachable state: what addConditioningReading
\* and the batch command build up is a timeline of compliant readings in order, and the
\* confirmed window was a window of it.
THEOREM Invariance == Spec => []IInv
    BY InitIInv, NextIInv, PTL DEF Spec

\* The readings are compliant and in order of their times, whatever was added one by one
\* or in batches, late or early.
THEOREM TypeCorrect == Spec => []TypeOK
    <1>1. IInv => TypeOK
        BY DEF IInv
    <1> QED
        BY <1>1, Invariance, PTL

\* The windows that conditioningSummary finds in its one scan are exactly the maximal runs
\* of covered minutes, and its totals are theirs.
THEOREM SummaryCorrect == Spec => []SummaryFindsRuns
    <1>1. IInv => SummaryFindsRuns
        BY WindowsAreRuns DEF IInv, TypeOK, Orderly
    <1> QED
        BY <1>1, Invariance, PTL

\* The window that was confirmed is a maximal run of covered minutes of the readings that
\* stand in the case, and at least as long as the plan demands.
THEOREM ConfirmationStands == Spec => []ConfirmedIsARun
    <1>1. ASSUME IInv PROVE ConfirmedIsARun
        <2>1. SummaryFindsRuns
            BY <1>1, WindowsAreRuns DEF IInv, TypeOK, Orderly
        <2> QED
            BY <1>1, <2>1 DEF IInv, ConfirmedIsAWindow, ConfirmedIsARun, SummaryFindsRuns
    <1> QED
        BY <1>1, Invariance, PTL

-----------------------------------------------------------------------------
(* A reading without a time *)

\* A reading placed where the last window ends joins it.
LEMMA ContinuationJoins ==
    ASSUME NEW rs, Orderly(rs), Len(rs) > 0,
           NEW x \in Reading, IsReading(x), x.at = Continuation(rs)
    PROVE  /\ TimeIsFree(rs, x)
           /\ Len(Windows(Sorted(Append(rs, x)))) = Len(Windows(rs))
    <1>1. PICK n \in Nat : n = Len(rs) /\ n > 0
        BY OrderlyOrNothing
    <1>2. InLine(rs) /\ Measured(rs) /\ rs \in Seq(Reading)
        BY OrderlyInLine DEF InLine, Measured, Orderly
    <1>3. x.at = EndOf(rs[n])
        BY <1>1 DEF Continuation, Last
    <1>4. \A i \in 1..Len(rs) : rs[i].at < x.at
        <2> TAKE i \in 1..Len(rs)
        <2>1. n \in 1..Len(rs) /\ rs[n].at \in Nat /\ rs[n].at < x.at /\ x.at \in Nat
            BY <1>1, <1>2, <1>3 DEF InLine, IsReading, EndOf
        <2>2. rs[i].at \in Nat /\ (i < n => rs[i].at < rs[n].at)
            BY <1>2, <2>1 DEF InLine, IsReading
        <2> QED
            BY <1>1, <2>1, <2>2
    <1>5. TimeIsFree(rs, x)
        <2> SUFFICES ASSUME NEW i \in 1..Len(rs) PROVE rs[i].at # x.at
            BY DEF TimeIsFree
        <2>1. rs[i].at < x.at /\ rs[i].at \in Int
            BY <1>2, <1>4 DEF InLine, IsReading
        <2> QED
            BY <2>1
    <1>6. PICK all : all = Append(rs, x)
        OBVIOUS
    <1>7. Sorted(all) = all
        BY <1>4, <1>6, LateReadingStays
    <1>8. /\ Len(all) = n + 1
          /\ \A i \in 1..n : all[i] = rs[i]
          /\ all[n + 1] = x
        BY <1>1, <1>2, <1>6, AppendProperties
    <1>9. Measured(all)
        <2>1. \A i \in 1..(n + 1) : IsReading(all[i])
            <3> TAKE i \in 1..(n + 1)
            <3>1. CASE i = n + 1
                BY <1>8, <3>1
            <3>2. CASE i \in 1..n
                BY <1>1, <1>2, <1>8, <3>2 DEF Measured
            <3> QED
                BY <3>1, <3>2
        <2> QED
            BY <1>8, <2>1 DEF Measured
    <1>10. PICK f : IsScan(f, rs) /\ Scanned(rs) = f[n]
        BY <1>1, <1>2, ScanRuns
    <1>11. PICK g : IsScan(g, all) /\ Scanned(all) = g[n + 1]
        BY <1>8, <1>9, ScanRuns
    <1>12. f[n] = g[n]
        <2>1. Len(rs) \in Nat /\ Len(all) \in Nat /\ Len(rs) <= Len(all) /\ n \in 0..Len(rs)
            BY <1>1, <1>8
        <2>2. \A i \in 1..Len(rs) : rs[i] = all[i]
            BY <1>1, <1>8
        <2> QED
            BY <1>10, <1>11, <2>1, <2>2, ScanOfAPrefix
    <1>13. PICK acc : acc = Scanned(rs)
        OBVIOUS
    <1>14. Scanned(all) = Scan(all, acc, n + 1)
        <2>1. n + 1 \in 1..Len(all) /\ n + 1 - 1 = n
            BY <1>8
        <2>2. g[n + 1] = Scan(all, g[n], n + 1)
            BY <1>11, <2>1 DEF IsScan
        <2> QED
            BY <1>10, <1>11, <1>12, <1>13, <2>2
    <1>15. ScanFinds(acc, rs, n)
        BY <1>1, <1>13, ScanFindsWindows
    <1>16. /\ acc.closed \in Seq(Window) /\ acc.current \in Window /\ acc.current # NoWindow
           /\ Finds(Append(acc.closed, acc.current), rs, n)
        BY <1>15 DEF ScanFinds, Account
    <1>17. PICK ws : ws = Append(acc.closed, acc.current)
        OBVIOUS
    <1>18. PICK l \in Nat : l = Len(acc.closed)
        BY <1>16, LenProperties
    <1>19. Len(ws) = l + 1 /\ ws[l + 1] = acc.current
        BY <1>16, <1>17, <1>18, AppendProperties
    <1>20. Windows(rs) = ws
        BY <1>13, <1>16, <1>17 DEF Windows, Closed
    <1>21. ~(x.at > acc.current.to)
        <2>1. EndOf(rs[n]) <= ws[Len(ws)].to
            BY <1>16, <1>17 DEF Finds
        <2>2. x.at <= acc.current.to
            BY <1>3, <1>19, <2>1
        <2>3. x.at \in Int /\ acc.current.to \in Int
            BY <1>16 DEF IsReading, Window
        <2> QED
            BY <2>2, <2>3
    <1>22. PICK new : new = Scanned(all)
        OBVIOUS
    <1>23. CASE ~Compliant(all, n + 1)
        <2>1. new.closed = Closed(acc) /\ new.current = NoWindow
            BY <1>14, <1>22, <1>23 DEF Scan
        <2>2. Windows(all) = Closed(acc)
            BY <1>22, <2>1 DEF Windows, Closed
        <2>3. Windows(all) = Windows(rs)
            BY <1>13, <2>2 DEF Windows
        <2> QED
            BY <1>5, <1>6, <1>7, <2>3
    <1>24. CASE Compliant(all, n + 1)
        <2>1. PICK u : u = [from |-> acc.current.from, to |-> Later(acc.current.to, EndOf(x))]
            OBVIOUS
        <2>2. new.closed = acc.closed /\ new.current = u
            BY <1>8, <1>14, <1>16, <1>21, <1>22, <1>24, <2>1 DEF Scan
        <2>3. u \in Window /\ u # NoWindow
            <3>1. acc.current.from \in Nat /\ acc.current.to \in Nat
                BY <1>16, FoundIsAWindow
            <3>2. EndOf(x) \in Nat
                BY DEF IsReading, EndOf
            <3>3. u.from \in Nat /\ u.to \in Nat
                BY <2>1, <3>1, <3>2 DEF Later
            <3>4. NoWindow.from = -1
                BY DEF NoWindow, NoTime
            <3>5. u \in Window
                BY <2>1, <3>3 DEF Window
            <3> QED
                BY <3>3, <3>4, <3>5
        <2>4. Windows(all) = Append(acc.closed, u)
            BY <1>22, <2>2, <2>3 DEF Windows, Closed
        <2>5. Len(Windows(all)) = l + 1
            BY <1>16, <1>18, <2>3, <2>4, AppendProperties
        <2> QED
            BY <1>5, <1>6, <1>7, <1>19, <1>20, <2>5
    <1> QED
        BY <1>23, <1>24

\* A reading sent without a time is placed where the last window ends and joins it: it
\* opens no window of its own and is not refused for its time.
THEOREM UntimedJoins == Spec => []UntimedReadingJoins
    <1>1. ASSUME IInv PROVE UntimedReadingJoins
        <2> SUFFICES ASSUME readings # <<>>,
                            NEW r \in Inputs, r.at = NoTime, r.minutes > 0,
                            NEW x \in Timed(readings, r)
                     PROVE  /\ TimeIsFree(readings, x)
                            /\ Len(Windows(Sorted(Append(readings, x)))) = Len(Windows(readings))
            BY DEF UntimedReadingJoins
        <2>1. Orderly(readings) /\ Len(readings) > 0
            BY <1>1, OrderlyOrNothing DEF IInv, TypeOK, Orderly
        <2>2. x \in Reading /\ IsReading(x)
            BY <2>1, TimedIs
        <2>3. x = [r EXCEPT !.at = Continuation(readings)] /\ r \in Reading
            BY TimelineAssumptions DEF Timed
        <2>4. x.at = Continuation(readings)
            BY <2>3 DEF Reading
        <2> QED
            BY <2>1, <2>2, <2>4, ContinuationJoins
    <1> QED
        BY <1>1, Invariance, PTL

-----------------------------------------------------------------------------
(* The item a refusal names *)

\* t are the readings rs and the batch b by their times, order says which of them.
IsTimeline(t, order, rs, b) ==
    /\ t \in Seq(Reading) /\ Len(t) \in Nat /\ Len(rs) \in Nat
    /\ \A k \in 1..Len(t) : IsReading(t[k]) /\ order[k] \in Nat
    /\ \A k, l \in 1..Len(t) : k < l => t[k].at <= t[l].at
    /\ ToSet(t) = ToSet(rs) \cup ToSet(b)
    /\ \A k \in 1..Len(t) : order[k] <= Len(rs) => t[k] \in ToSet(rs)
    /\ \A k, l \in 1..Len(t) : k # l /\ order[k] > Len(rs) /\ order[l] > Len(rs) => t[k] # t[l]

\* Position j is the first where the timeline t does not go on.
FirstBreak(t, j) ==
    /\ j \in 2..Len(t) /\ ~Continues(t[j - 1], t[j])
    /\ \A k \in 2..Len(t) : k < j => Continues(t[k - 1], t[k])

\* The places of two neighbours and of a third reading.
LEMMA AroundABreak ==
    ASSUME NEW t, NEW order, NEW rs, NEW b, IsTimeline(t, order, rs, b), NEW j, FirstBreak(t, j),
           NEW y \in ToSet(rs) \cup ToSet(b)
    PROVE  /\ IsReading(t[j - 1]) /\ IsReading(t[j]) /\ IsReading(y)
           /\ t[j - 1].at <= t[j].at
           /\ \/ y = t[j - 1] \/ y = t[j]
              \/ y.at >= t[j].at
              \/ y.at <= t[j - 1].at /\ EndOf(y) <= t[j - 1].at
    <1>1. j - 1 \in 1..Len(t) /\ j \in 1..Len(t) /\ j \in Int /\ Len(t) \in Nat
        BY DEF FirstBreak, IsTimeline
    <1>2. PICK k \in 1..Len(t) : t[k] = y
        <2>1. y \in ToSet(t) /\ t \in Seq(Reading)
            BY DEF IsTimeline
        <2> QED
            BY <2>1 DEF ToSet
    <1>3. IsReading(t[j - 1]) /\ IsReading(t[j]) /\ IsReading(y) /\ t[j - 1].at <= t[j].at
        <2>1. j - 1 < j
            BY <1>1
        <2> QED
            BY <1>1, <1>2, <2>1 DEF IsTimeline
    <1>4. CASE k >= j
        <2>1. CASE k = j
            BY <1>2, <1>3, <2>1
        <2>2. CASE k > j
            <3>1. t[j].at <= t[k].at
                BY <1>1, <2>2 DEF IsTimeline
            <3> QED
                BY <1>2, <1>3, <3>1 DEF IsReading
        <2> QED
            BY <1>1, <1>4, <2>1, <2>2
    <1>5. CASE k < j
        <2>1. CASE k = j - 1
            BY <1>2, <1>3, <2>1
        <2>2. CASE k # j - 1
            <3>1. PICK l \in 2..Len(t) : l = k + 1 /\ l < j /\ l - 1 = k
                BY <1>1, <1>5, <2>2
            <3>2. t[l].at = EndOf(y)
                BY <1>2, <3>1 DEF FirstBreak, Continues
            <3>3. t[l].at <= t[j - 1].at
                <4>1. CASE l = j - 1
                    BY <1>3, <4>1 DEF IsReading
                <4>2. CASE l < j - 1
                    BY <1>1, <3>1, <4>2 DEF IsTimeline
                <4> QED
                    BY <1>1, <3>1, <4>1, <4>2
            <3>4. y.at < EndOf(y) /\ y.at \in Int /\ EndOf(y) \in Int /\ t[j - 1].at \in Int
                BY <1>3 DEF IsReading, EndOf
            <3> QED
                BY <1>3, <3>2, <3>3, <3>4
        <2> QED
            BY <2>1, <2>2
    <1> QED
        BY <1>1, <1>4, <1>5

\* A new reading right behind the first break does not fit among the others.
LEMMA NewBehindABreak ==
    ASSUME NEW t, NEW order, NEW rs, NEW b, IsTimeline(t, order, rs, b), NEW j, FirstBreak(t, j),
           order[j] > Len(rs), NEW x, x = t[j], x \notin ToSet(rs)
    PROVE  ~Fits(x, (ToSet(rs) \cup ToSet(b)) \ {x})
    <1> DEFINE others == (ToSet(rs) \cup ToSet(b)) \ {x}
    <1> SUFFICES ASSUME Fits(x, others) PROVE FALSE
        OBVIOUS
    <1>1. j - 1 \in 1..Len(t) /\ j \in 1..Len(t) /\ j - 1 # j
        BY DEF FirstBreak, IsTimeline
    <1>2. PICK p : p = t[j - 1]
        OBVIOUS
    <1>3. p \in ToSet(rs) \cup ToSet(b)
        <2>1. t \in Seq(Reading) /\ ToSet(t) = ToSet(rs) \cup ToSet(b)
            BY DEF IsTimeline
        <2>2. p \in ToSet(t)
            BY <1>1, <1>2, <2>1 DEF ToSet
        <2> QED
            BY <2>1, <2>2
    <1>4. p # x
        <2>1. CASE order[j - 1] <= Len(rs)
            BY <1>1, <1>2, <2>1 DEF IsTimeline
        <2>2. CASE ~(order[j - 1] <= Len(rs))
            <3>1. order[j - 1] > Len(rs)
                BY <1>1, <2>2 DEF IsTimeline
            <3> QED
                BY <1>1, <1>2, <3>1 DEF IsTimeline
        <2> QED
            BY <2>1, <2>2
    <1>5. p \in others
        BY <1>3, <1>4
    <1>6. IsReading(p) /\ IsReading(x) /\ p.at <= x.at /\ x.at # EndOf(p)
        BY <1>2, <1>3, AroundABreak DEF FirstBreak, Continues
    <1>7. /\ p.at \in Int /\ x.at \in Int /\ EndOf(p) \in Int /\ EndOf(x) \in Int
          /\ p.at < EndOf(p) /\ x.at < EndOf(x)
        BY <1>6 DEF IsReading, EndOf
    <1>8. EndOf(p) <= x.at \/ EndOf(x) <= p.at
        BY <1>5 DEF Fits
    <1>9. EndOf(p) < x.at /\ p.at < x.at
        BY <1>6, <1>7, <1>8
    <1>10. PICK y \in others : EndOf(y) = x.at
        BY <1>5, <1>9 DEF Fits
    <1>11. /\ IsReading(y)
           /\ y = p \/ y = x \/ y.at >= x.at \/ (y.at <= p.at /\ EndOf(y) <= p.at)
        BY <1>2, AroundABreak
    <1>12. y.at \in Int /\ EndOf(y) \in Int /\ y.at < EndOf(y)
        BY <1>11 DEF IsReading, EndOf
    <1> HIDE DEF others
    <1>13. y # x
        BY <1>7, <1>10
    <1> QED
        BY <1>7, <1>9, <1>10, <1>11, <1>12, <1>13

\* A new reading right before the first break, with an old one behind it, does not fit
\* among the others.
LEMMA NewBeforeABreak ==
    ASSUME NEW t, NEW order, NEW rs, NEW b, IsTimeline(t, order, rs, b), NEW j, FirstBreak(t, j),
           order[j] <= Len(rs), NEW x, x = t[j - 1], x \notin ToSet(rs)
    PROVE  ~Fits(x, (ToSet(rs) \cup ToSet(b)) \ {x})
    <1> DEFINE others == (ToSet(rs) \cup ToSet(b)) \ {x}
    <1> SUFFICES ASSUME Fits(x, others) PROVE FALSE
        OBVIOUS
    <1>1. j - 1 \in 1..Len(t) /\ j \in 1..Len(t)
        BY DEF FirstBreak, IsTimeline
    <1>2. PICK c : c = t[j]
        OBVIOUS
    <1>3. c \in ToSet(rs) /\ c \in ToSet(rs) \cup ToSet(b)
        BY <1>1, <1>2 DEF IsTimeline
    <1>4. c \in others
        BY <1>3
    <1>5. IsReading(c) /\ IsReading(x) /\ x.at <= c.at /\ c.at # EndOf(x)
        BY <1>2, <1>3, AroundABreak DEF FirstBreak, Continues
    <1>6. /\ c.at \in Int /\ x.at \in Int /\ EndOf(c) \in Int /\ EndOf(x) \in Int
          /\ c.at < EndOf(c) /\ x.at < EndOf(x)
        BY <1>5 DEF IsReading, EndOf
    <1>7. EndOf(c) <= x.at \/ EndOf(x) <= c.at
        BY <1>4 DEF Fits
    <1>8. EndOf(x) < c.at /\ c.at > x.at
        BY <1>5, <1>6, <1>7
    <1>9. PICK y \in others : y.at = EndOf(x)
        BY <1>4, <1>8 DEF Fits
    <1>10. /\ IsReading(y)
           /\ y = x \/ y = c \/ y.at >= c.at \/ (y.at <= x.at /\ EndOf(y) <= x.at)
        BY <1>2, AroundABreak
    <1>11. y.at \in Int
        BY <1>10 DEF IsReading
    <1> HIDE DEF others
    <1> QED
        BY <1>6, <1>8, <1>9, <1>10, <1>11

\* Two recorded neighbours with a break between them were recorded with it.
LEMMA OldAroundABreak ==
    ASSUME NEW rs, Orderly(rs), NEW all, AllSound(all), Len(rs) <= Len(all),
           \A i \in 1..Len(rs) : all[i] = rs[i],
           NEW t, NEW order, IsSorting(t, all, order),
           NEW j, FirstBreak(t, j), order[j - 1] <= Len(rs), order[j] <= Len(rs)
    PROVE  ~Continuous(rs)
    <1>1. InLine(rs) /\ Timely(all) /\ Len(t) = Len(all) /\ OrdersFirst(all, order, Len(all))
        BY OrderlyInLine, SoundTimely DEF IsSorting
    <1>2. Len(rs) \in Nat /\ Len(all) \in Nat
        BY <1>1 DEF InLine, Timely
    <1>3. j - 1 \in 1..Len(all) /\ j \in 1..Len(all) /\ j - 1 < j /\ j \in Int
        BY <1>1, <1>2 DEF FirstBreak
    <1>4. PICK u : u = order[j - 1]
        OBVIOUS
    <1>5. PICK v : v = order[j]
        OBVIOUS
    <1>6. u \in 1..Len(rs) /\ v \in 1..Len(rs) /\ Before(all, u, v)
        <2>1. u \in 1..Len(all) /\ v \in 1..Len(all)
            BY <1>1, <1>3, <1>4, <1>5 DEF OrdersFirst
        <2>2. Before(all, u, v)
            BY <1>1, <1>3, <1>4, <1>5 DEF OrdersFirst
        <2> QED
            BY <1>2, <1>4, <1>5, <2>1, <2>2
    <1>7. t[j - 1] = rs[u] /\ t[j] = rs[v]
        BY <1>3, <1>4, <1>5, <1>6 DEF IsSorting
    <1>8. /\ \A i \in 1..Len(rs) : rs[i].at \in Int
          /\ \A i, k \in 1..Len(rs) : i < k => rs[i].at < rs[k].at
        BY <1>1 DEF InLine, IsReading
    <1>9. u < v
        <2>1. rs[u].at < rs[v].at \/ (rs[u].at = rs[v].at /\ u < v)
            BY <1>6 DEF Before
        <2>2. ~(v < u)
            <3>1. v < u => rs[v].at < rs[u].at
                BY <1>6, <1>8
            <3> QED
                BY <1>6, <1>8, <2>1, <3>1
        <2>3. u # v
            BY <1>6, <1>8, <2>1
        <2> QED
            BY <1>6, <2>2, <2>3
    <1>10. v = u + 1
        <2> SUFFICES ASSUME v # u + 1 PROVE FALSE
            OBVIOUS
        <2>1. PICK w \in 1..Len(rs) : w = u + 1 /\ u < w /\ w < v
            BY <1>6, <1>9
        <2>2. w \in 1..Len(all)
            BY <1>2, <2>1
        <2>3. PICK l \in 1..Len(all) : order[l] = w
            BY <1>1, <2>2 DEF OrdersFirst
        <2>4. rs[u].at < rs[w].at /\ rs[w].at < rs[v].at
            BY <1>6, <1>8, <2>1
        <2>5. all[u] = rs[u] /\ all[w] = rs[w] /\ all[v] = rs[v]
            BY <1>6
        <2>6. rs[u].at \in Int /\ rs[w].at \in Int /\ rs[v].at \in Int
            BY <1>6, <1>8
        <2>7. l # j - 1 /\ l # j
            BY <1>4, <1>5, <1>6, <2>1, <2>3
        <2>8. CASE l < j - 1
            <3>1. Before(all, w, u)
                BY <1>1, <1>3, <1>4, <2>3, <2>8 DEF OrdersFirst
            <3> QED
                BY <2>4, <2>5, <2>6, <3>1 DEF Before
        <2>9. CASE l > j
            <3>1. Before(all, v, w)
                BY <1>1, <1>3, <1>5, <2>3, <2>9 DEF OrdersFirst
            <3> QED
                BY <2>4, <2>5, <2>6, <3>1 DEF Before
        <2> QED
            BY <1>3, <2>7, <2>8, <2>9
    <1>11. v \in 2..Len(rs) /\ v - 1 = u
        BY <1>6, <1>10
    <1>12. ~Continues(rs[v - 1], rs[v])
        BY <1>7, <1>11 DEF FirstBreak
    <1> QED
        BY <1>11, <1>12 DEF Continuous

\* Where the items of the batch b are in the timeline.
ItemsAre(t, order, rs, b) ==
    \A k \in 1..Len(t) : order[k] > Len(rs) =>
        order[k] - Len(rs) \in 1..Len(b) /\ t[k] = b[order[k] - Len(rs)]

\* The sorted concatenation of a timeline and a batch is a timeline of the readings of both.
LEMMA ConcatenatedTimeline ==
    ASSUME NEW rs, Orderly(rs), NEW b, Orderly(b),
           NEW t, NEW order, IsSorting(t, rs \o b, order)
    PROVE  IsTimeline(t, order, rs, b) /\ ItemsAre(t, order, rs, b)
    <1>1. AllSound(rs) /\ AllSound(b) /\ InLine(b)
        BY OrderlyIsSound, OrderlyInLine
    <1>2. PICK all : all = rs \o b
        OBVIOUS
    <1>3. /\ AllSound(all) /\ Len(all) = Len(rs) + Len(b)
          /\ \A i \in 1..Len(rs) : all[i] = rs[i]
          /\ \A i \in 1..Len(b) : all[Len(rs) + i] = b[i]
        BY <1>1, <1>2, SoundConcatenated
    <1>4. Len(rs) \in Nat /\ Len(b) \in Nat /\ rs \in Seq(Reading) /\ b \in Seq(Reading)
        BY <1>1, LenProperties DEF AllSound
    <1>5. IsSorting(t, all, order)
        BY <1>2
    <1>6. /\ t \in Seq(Reading) /\ Len(t) = Len(all) /\ Len(t) \in Nat
          /\ \A k \in 1..Len(t) : order[k] \in 1..Len(all) /\ t[k] = all[order[k]]
          /\ Timely(all) /\ OrdersFirst(all, order, Len(all))
        BY <1>3, <1>4, <1>5, SoundTimely DEF IsSorting, OrdersFirst
    <1>7. /\ AllSound(t) /\ ToSet(t) = ToSet(all)
          /\ \A k, l \in 1..Len(t) : k < l => t[k].at <= t[l].at
        BY <1>3, <1>5, SortingKeeps
    <1>8. ASSUME NEW k \in 1..Len(t), order[k] > Len(rs)
          PROVE  order[k] - Len(rs) \in 1..Len(b) /\ t[k] = b[order[k] - Len(rs)]
        <2>1. PICK o \in 1..Len(all) : o = order[k] /\ t[k] = all[o]
            BY <1>6
        <2>2. PICK i \in 1..Len(b) : i = o - Len(rs) /\ Len(rs) + i = o
            BY <1>3, <1>4, <1>8, <2>1
        <2> QED
            BY <1>3, <2>1, <2>2
    <1>9. ASSUME NEW k \in 1..Len(t), order[k] <= Len(rs) PROVE t[k] \in ToSet(rs)
        <2>1. order[k] \in 1..Len(rs)
            BY <1>4, <1>6, <1>9
        <2>2. t[k] = rs[order[k]]
            BY <1>3, <1>6, <2>1
        <2> QED
            BY <1>4, <2>1, <2>2 DEF ToSet
    <1>10. ASSUME NEW k \in 1..Len(t), NEW l \in 1..Len(t), k # l,
                  order[k] > Len(rs), order[l] > Len(rs)
           PROVE  t[k] # t[l]
        <2>1. PICK i \in 1..Len(b) : i = order[k] - Len(rs) /\ t[k] = b[i]
            BY <1>8, <1>10
        <2>2. PICK h \in 1..Len(b) : h = order[l] - Len(rs) /\ t[l] = b[h]
            BY <1>8, <1>10
        <2>3. order[k] # order[l]
            BY <1>6, <1>10, OrderIsInjective
        <2>4. i # h
            BY <1>4, <1>6, <2>1, <2>2, <2>3
        <2>5. b[i].at \in Int /\ b[h].at \in Int /\ (i < h => b[i].at < b[h].at)
              /\ (h < i => b[h].at < b[i].at)
            BY <1>1 DEF InLine, IsReading
        <2>6. b[i].at # b[h].at
            BY <2>4, <2>5
        <2> QED
            BY <2>1, <2>2, <2>6
    <1>11. ToSet(all) = ToSet(rs) \cup ToSet(b)
        <2>1. all \in Seq(Reading)
            BY <1>3 DEF AllSound
        <2>2. ASSUME NEW r \in ToSet(all) PROVE r \in ToSet(rs) \cup ToSet(b)
            <3>1. PICK i \in 1..Len(all) : all[i] = r
                BY <2>1 DEF ToSet
            <3>2. CASE i \in 1..Len(rs)
                BY <1>3, <1>4, <3>1, <3>2 DEF ToSet
            <3>3. CASE ~(i \in 1..Len(rs))
                <4>1. PICK h \in 1..Len(b) : i = Len(rs) + h
                    <5>1. i - Len(rs) \in 1..Len(b) /\ i = Len(rs) + (i - Len(rs))
                        BY <1>3, <1>4, <3>3
                    <5> QED
                        BY <5>1
                <4>2. b[h] = r
                    BY <1>3, <3>1, <4>1
                <4> QED
                    BY <1>4, <4>2 DEF ToSet
            <3> QED
                BY <3>2, <3>3
        <2>3. ASSUME NEW r \in ToSet(rs) PROVE r \in ToSet(all)
            <3>1. PICK i \in 1..Len(rs) : rs[i] = r
                BY <1>4 DEF ToSet
            <3>2. i \in 1..Len(all) /\ all[i] = r
                BY <1>3, <1>4, <3>1
            <3> QED
                BY <2>1, <3>2 DEF ToSet
        <2>4. ASSUME NEW r \in ToSet(b) PROVE r \in ToSet(all)
            <3>1. PICK i \in 1..Len(b) : b[i] = r
                BY <1>4 DEF ToSet
            <3>2. PICK h : h = Len(rs) + i
                OBVIOUS
            <3>3. h \in 1..Len(all) /\ all[h] = r
                BY <1>3, <1>4, <3>1, <3>2
            <3> QED
                BY <2>1, <3>3 DEF ToSet
        <2> QED
            BY <2>2, <2>3, <2>4
    <1>12. \A k \in 1..Len(t) : IsReading(t[k]) /\ order[k] \in Nat
        BY <1>6, <1>7, SoundTimely
    <1>13. IsTimeline(t, order, rs, b)
        BY <1>4, <1>6, <1>7, <1>9, <1>10, <1>11, <1>12 DEF IsTimeline
    <1> QED
        BY <1>8, <1>13 DEF ItemsAre

\* The item a refused batch is blamed on does not fit among the others, or it repeats a
\* recorded reading, or the timeline was broken before.
LEMMA RefusalIs ==
    ASSUME NEW rs, Orderly(rs), NEW b \in Batches, WellFormed(b), ~AcceptsBatch(rs, b)
    PROVE  /\ RefusedItem(rs, b) \in 1..Len(b)
           /\ Continuous(rs) =>
                 \/ ~Fits(b[RefusedItem(rs, b)], (ToSet(rs) \cup ToSet(b)) \ {b[RefusedItem(rs, b)]})
                 \/ b[RefusedItem(rs, b)] \in ToSet(rs)
    <1>1. AllSound(rs) /\ AllSound(b) /\ Orderly(b) /\ Len(b) \in Nat /\ Len(b) > 0
        BY OrderlyIsSound, WellFormedIs, OrderlyOrNothing
    <1>2. PICK all : all = rs \o b
        OBVIOUS
    <1>3. /\ AllSound(all) /\ Len(all) = Len(rs) + Len(b) /\ Len(rs) \in Nat
          /\ \A i \in 1..Len(rs) : all[i] = rs[i]
        BY <1>1, <1>2, SoundConcatenated, OrderlyOrNothing
    <1>4. PICK order : order = StableOrder(all)
        OBVIOUS
    <1>5. PICK t : t = Sorted(all)
        OBVIOUS
    <1>6. PICK m : m = Merged(rs, b)
        OBVIOUS
    <1>7. IsMerge(m, t, order, Len(rs))
        BY <1>1, <1>2, <1>4, <1>5, <1>6, MergedIs
    <1>8. IsSorting(t, all, order)
        BY <1>3, <1>4, <1>5, SortedIsSorting
    <1>9. IsTimeline(t, order, rs, b) /\ ItemsAre(t, order, rs, b)
        BY <1>1, <1>2, <1>8, ConcatenatedTimeline
    <1>10. Len(t) \in Nat
        BY <1>9 DEF IsTimeline
    <1> DEFINE B == {i \in 2..Len(t) : ~Continues(t[i - 1], t[i])}
    <1>11. Breaks(m) = B
        BY <1>7, <1>10, BreaksAre
    <1>12. B # {} /\ B \in SUBSET Nat
        BY <1>6, <1>10, <1>11 DEF AcceptsBatch
    <1>13. PICK j : j = CHOOSE i \in B : \A k \in B : i <= k
        OBVIOUS
    <1>14. j \in B /\ \A k \in B : j <= k
        BY <1>12, <1>13, LeastNumber
    <1>15. FirstBreak(t, j) /\ j \in 2..Len(t)
        <2>1. j \in 2..Len(t) /\ ~Continues(t[j - 1], t[j])
            BY <1>14
        <2>2. ASSUME NEW k \in 2..Len(t), k < j PROVE Continues(t[k - 1], t[k])
            <3>1. k \notin B
                BY <1>10, <1>14, <2>1, <2>2
            <3> QED
                BY <3>1
        <2> QED
            BY <2>1, <2>2 DEF FirstBreak
    <1>16. RefusedItem(rs, b) = Blamed(m[j - 1], m[j])
        BY <1>6, <1>11, <1>13 DEF RefusedItem
    <1> HIDE DEF B
    <1>17. /\ j \in 1..Len(t) /\ j - 1 \in 1..Len(t)
           /\ order[j] \in Nat /\ order[j - 1] \in Nat
        <2>1. j \in 1..Len(t) /\ j - 1 \in 1..Len(t)
            BY <1>10, <1>15
        <2> QED
            BY <1>9, <2>1 DEF IsTimeline
    <1>18. PICK i : i = RefusedItem(rs, b)
        OBVIOUS
    <1>19. CASE order[j] > Len(rs)
        <2>1. m[j].index = order[j] - Len(rs)
            BY <1>3, <1>7, <1>17, <1>19 DEF IsMerge
        <2>2. i = order[j] - Len(rs)
            BY <1>3, <1>16, <1>17, <1>18, <1>19, <2>1 DEF Blamed
        <2>3. i \in 1..Len(b) /\ b[i] = t[j]
            BY <1>9, <1>17, <1>19, <2>2 DEF ItemsAre
        <2>4. b[i] \in ToSet(rs) \/ ~Fits(b[i], (ToSet(rs) \cup ToSet(b)) \ {b[i]})
            BY <1>9, <1>15, <1>19, <2>3, NewBehindABreak
        <2> QED
            BY <1>18, <2>3, <2>4
    <1>20. CASE order[j] <= Len(rs) /\ order[j - 1] > Len(rs)
        <2>1. m[j].index = 0 /\ m[j - 1].index = order[j - 1] - Len(rs)
            <3>1. ~(order[j - 1] <= Len(rs))
                BY <1>3, <1>17, <1>20
            <3>2. m[j].index = 0
                BY <1>7, <1>17, <1>20, Zenon DEF IsMerge
            <3>3. m[j - 1].index = order[j - 1] - Len(rs)
                BY <1>7, <1>17, <3>1, Zenon DEF IsMerge
            <3> QED
                BY <3>2, <3>3
        <2>2. i = order[j - 1] - Len(rs)
            BY <1>3, <1>16, <1>17, <1>18, <1>20, <2>1 DEF Blamed
        <2>3. i \in 1..Len(b) /\ b[i] = t[j - 1]
            BY <1>9, <1>17, <1>20, <2>2 DEF ItemsAre
        <2>4. b[i] \in ToSet(rs) \/ ~Fits(b[i], (ToSet(rs) \cup ToSet(b)) \ {b[i]})
            BY <1>9, <1>15, <1>20, <2>3, NewBeforeABreak
        <2> QED
            BY <1>18, <2>3, <2>4
    <1>21. CASE order[j] <= Len(rs) /\ order[j - 1] <= Len(rs)
        <2>1. m[j].index = 0 /\ m[j - 1].index = 0
            BY <1>7, <1>17, <1>21 DEF IsMerge
        <2>2. i = 1 /\ 1 \in 1..Len(b)
            BY <1>1, <1>16, <1>18, <2>1 DEF Blamed
        <2>3. ~Continuous(rs)
            BY <1>1, <1>3, <1>8, <1>15, <1>21, OldAroundABreak
        <2> QED
            BY <1>18, <2>2, <2>3
    <1> QED
        BY <1>3, <1>17, <1>19, <1>20, <1>21

\* A well-formed batch that is refused names an item of its own, and on a timeline that
\* was continuous this item is to blame.
THEOREM RefusalNamed == Spec => []RefusalNamesTheItem
    <1>1. ASSUME IInv PROVE RefusalNamesTheItem
        <2>1. Orderly(readings)
            BY <1>1 DEF IInv, TypeOK, Orderly
        <2>2. ASSUME NEW b \in WellFormedBatches, ~AcceptsBatch(readings, b)
              PROVE  LET i == RefusedItem(readings, b)
                     IN  /\ i \in 1..Len(b)
                         /\ Continuous(readings) =>
                               \/ ~Fits(b[i], (ToSet(readings) \cup ToSet(b)) \ {b[i]})
                               \/ b[i] \in ToSet(readings)
            <3>1. b \in Batches /\ WellFormed(b)
                BY DEF WellFormedBatches
            <3> QED
                BY <2>1, <2>2, <3>1, RefusalIs
        <2> QED
            BY <2>2 DEF RefusalNamesTheItem
    <1> QED
        BY <1>1, Invariance, PTL

-----------------------------------------------------------------------------
(* Exposure *)

\* The account of readings that continue each other, after the first n of them.
OneWindow(rs, n) ==
    [closed |-> <<>>, current |-> [from |-> rs[1].at, to |-> EndOf(rs[n])],
     total |-> EndOf(rs[n]) - rs[1].at]

\* A reading that continues the one before lengthens the only window by its minutes that
\* are new.
LEMMA OneWindowStep ==
    ASSUME NEW rs, Orderly(rs), Continuous(rs), NEW n \in Nat, n > 0, n + 1 \in 1..Len(rs)
    PROVE  Scan(rs, OneWindow(rs, n), n + 1) = OneWindow(rs, n + 1)
    <1>1. InLine(rs) /\ Compliant(rs, n + 1) /\ Len(rs) \in Nat
        BY OrderlyInLine DEF Orderly, InLine
    <1>2. PICK r : r = rs[n + 1]
        OBVIOUS
    <1>3. PICK acc : acc = OneWindow(rs, n)
        OBVIOUS
    <1>4. r.at = EndOf(rs[n])
        <2>1. n + 1 \in 2..Len(rs) /\ n + 1 - 1 = n
            BY <1>1
        <2> QED
            BY <1>2, <2>1 DEF Continuous, Continues
    <1>5. 1 \in 1..Len(rs) /\ n \in 1..Len(rs) /\ n + 1 \in 1..Len(rs)
        BY <1>1
    <1>6. /\ rs[1].at \in Nat /\ EndOf(rs[n]) \in Nat
          /\ r.at \in Nat /\ r.minutes \in Nat /\ r.minutes > 0
        BY <1>1, <1>2, <1>5 DEF InLine, IsReading, EndOf
    <1>7. /\ acc.closed = <<>> /\ acc.total = EndOf(rs[n]) - rs[1].at
          /\ acc.current = [from |-> rs[1].at, to |-> EndOf(rs[n])]
        BY <1>3 DEF OneWindow
    <1>8. acc.current.from = rs[1].at /\ acc.current.to = r.at
        BY <1>4, <1>7
    <1>9. acc.current # NoWindow
        <2>1. NoWindow.from = -1
            BY DEF NoWindow, NoTime
        <2> QED
            BY <1>6, <1>8, <2>1
    <1>10. ~(r.at > acc.current.to)
        BY <1>6, <1>8
    <1>11. EndOf(r) = r.at + r.minutes
        BY DEF EndOf
    <1>12. Later(acc.current.to, EndOf(r)) = EndOf(r)
        BY <1>6, <1>8, <1>11 DEF Later
    <1>13. acc.total + r.minutes = EndOf(r) - rs[1].at
        BY <1>4, <1>6, <1>7, <1>11
    <1>14. Scan(rs, acc, n + 1) =
              [closed |-> acc.closed,
               current |-> [from |-> acc.current.from, to |-> Later(acc.current.to, EndOf(r))],
               total |-> acc.total + r.minutes]
        BY <1>1, <1>2, <1>9, <1>10 DEF Scan
    <1> QED
        BY <1>2, <1>3, <1>7, <1>8, <1>12, <1>13, <1>14 DEF OneWindow

\* The scan of readings each of which continues the one before finds one window.
LEMMA ContinuousScan ==
    ASSUME NEW rs, Orderly(rs), Continuous(rs), Len(rs) > 0
    PROVE  Scanned(rs) = OneWindow(rs, Len(rs))
    <1>1. InLine(rs) /\ Measured(rs) /\ Len(rs) \in Nat /\ 1 \in 1..Len(rs) /\ Len(rs) \in 1..Len(rs)
        BY OrderlyInLine DEF InLine, Measured
    <1>2. PICK f : IsScan(f, rs) /\ Scanned(rs) = f[Len(rs)]
        BY <1>1, ScanRuns
    <1>3. f[0] = Nothing /\ \A k \in 1..Len(rs) : f[k] = Scan(rs, f[k - 1], k)
        BY <1>2 DEF IsScan
    <1>4. f[1] = OneWindow(rs, 1)
        <2>1. f[1] = Scan(rs, f[1 - 1], 1)
            BY <1>1, <1>3
        <2>2. f[1] = Scan(rs, Nothing, 1)
            BY <1>3, <2>1
        <2>3. Compliant(rs, 1)
            BY <1>1 DEF Orderly
        <2>4. rs[1].minutes \in Nat /\ rs[1].at \in Nat
            BY <1>1 DEF InLine, IsReading
        <2>5. 0 + rs[1].minutes = EndOf(rs[1]) - rs[1].at
            BY <2>4 DEF EndOf
        <2> QED
            BY <2>2, <2>3, <2>5 DEF Scan, Nothing, Closed, OneWindow
    <1> DEFINE Bad == {n \in 1..Len(rs) : f[n] # OneWindow(rs, n)}
    <1>5. ASSUME Bad # {} PROVE FALSE
        <2>1. Bad \in SUBSET Nat
            OBVIOUS
        <2>2. PICK m \in Bad : \A n \in Bad : m <= n
            BY <1>5, <2>1, LeastNumber
        <2>3. m \in 1..Len(rs) /\ f[m] # OneWindow(rs, m)
            OBVIOUS
        <2>4. m # 1
            BY <1>4, <2>3
        <2>5. PICK p \in 1..Len(rs) : p + 1 = m
            <3>1. m - 1 \in 1..Len(rs) /\ (m - 1) + 1 = m
                BY <2>3, <2>4
            <3> QED
                BY <3>1
        <2>6. f[p] = OneWindow(rs, p)
            <3>1. p \notin Bad
                BY <2>2, <2>3, <2>5
            <3> QED
                BY <3>1
        <2>7. p \in Nat /\ p > 0 /\ p + 1 \in 1..Len(rs) /\ m - 1 = p
            BY <2>3, <2>5
        <2>8. f[m] = Scan(rs, f[p], m)
            BY <1>3, <2>3, <2>7
        <2>9. Scan(rs, OneWindow(rs, p), p + 1) = OneWindow(rs, p + 1)
            BY <2>7, OneWindowStep
        <2> QED
            BY <2>3, <2>5, <2>6, <2>8, <2>9
    <1>6. f[Len(rs)] = OneWindow(rs, Len(rs))
        <2>1. Len(rs) \notin Bad
            BY <1>5
        <2> QED
            BY <1>1, <2>1
    <1> QED
        BY <1>2, <1>6

\* The exposure of such readings is the length of that window.
LEMMA ContinuousExposure ==
    ASSUME NEW rs, Orderly(rs), Continuous(rs), Len(rs) > 0
    PROVE  /\ Len(Windows(rs)) = 1
           /\ Windows(rs)[1].from = rs[1].at /\ Windows(rs)[1].to = EndOf(rs[Len(rs)])
           /\ LongestWindow(rs) = Windows(rs)[1]
           /\ Cumulative(rs) = LongestMinutes(rs)
    <1>1. InLine(rs) /\ 1 \in 1..Len(rs) /\ Len(rs) \in 1..Len(rs)
        BY OrderlyInLine DEF InLine
    <1>2. PICK w : w = [from |-> rs[1].at, to |-> EndOf(rs[Len(rs)])]
        OBVIOUS
    <1>3. PICK acc : acc = Scanned(rs)
        OBVIOUS
    <1>4. acc.closed = <<>> /\ acc.current = w /\ acc.total = EndOf(rs[Len(rs)]) - rs[1].at
        BY <1>2, <1>3, ContinuousScan DEF OneWindow
    <1>5. acc.current # NoWindow /\ w \in Window
        BY <1>3, <1>4, ScanFindsWindows DEF ScanFinds, Account
    <1>6. PICK ws : ws = Windows(rs)
        OBVIOUS
    <1>7. ws = <<w>>
        <2>1. ws = Append(acc.closed, acc.current)
            BY <1>3, <1>5, <1>6 DEF Windows, Closed
        <2>2. Append(<<>>, w) = <<w>>
            BY <1>5
        <2> QED
            BY <1>4, <2>1, <2>2
    <1>8. Len(ws) = 1 /\ ws[1] = w
        BY <1>7
    <1>9. LongestWindow(rs) = w
        <2>1. PICK j \in 1..Len(ws) : LongestWindow(rs) = ws[j]
            BY <1>6, LongestIs DEF IsLongest
        <2>2. j = 1
            BY <1>8
        <2> QED
            BY <1>8, <2>1, <2>2
    <1>10. w.from = rs[1].at /\ w.to = EndOf(rs[Len(rs)])
        BY <1>2
    <1>11. Cumulative(rs) = LongestMinutes(rs)
        BY <1>3, <1>4, <1>9, <1>10 DEF Cumulative, LongestMinutes, Length
    <1> QED
        BY <1>6, <1>8, <1>9, <1>10, <1>11

\* More readings never make the longest window shorter.
LEMMA MoreReadingsHold ==
    ASSUME NEW rs, Orderly(rs), Len(rs) > 0, NEW ss, Orderly(ss), ToSet(rs) \subseteq ToSet(ss)
    PROVE  /\ Len(ss) > 0
           /\ \E j \in 1..Len(Windows(ss)) :
                 /\ Windows(ss)[j].from <= LongestWindow(rs).from
                 /\ LongestWindow(rs).to <= Windows(ss)[j].to
    <1>1. Len(ss) > 0
        <2>1. rs \in Seq(Reading) /\ 1 \in 1..Len(rs)
            BY OrderlyOrNothing DEF Orderly
        <2>2. rs[1] \in ToSet(ss)
            <3>1. rs[1] \in ToSet(rs)
                <4>1. 1 \in DOMAIN rs
                    BY <2>1
                <4> QED
                    BY <4>1, Zenon DEF ToSet
            <3> QED
                BY <3>1, Zenon
        <2>3. ss # <<>>
            BY <2>2 DEF ToSet
        <2> QED
            BY <2>3, OrderlyOrNothing
    <1>2. Covered(rs) \subseteq Covered(ss)
        BY DEF Covered
    <1>3. PICK w : w = LongestWindow(rs)
        OBVIOUS
    <1>4. PICK i \in 1..Len(Windows(rs)) : w = Windows(rs)[i]
        BY <1>3, LongestIs DEF IsLongest
    <1>5. IsRun(Covered(rs), w) /\ w \in Window
        BY <1>3, <1>4, FoundHold, WindowIsRun, LongestIs
    <1>6. w.from \in Int /\ w.to \in Int /\ w.from < w.to /\ w.from..(w.to - 1) \subseteq Covered(ss)
        BY <1>2, <1>5 DEF IsRun, Window
    <1>7. PICK vs : vs = Windows(ss)
        OBVIOUS
    <1>8. Apart(vs) /\ Holds(vs, Covered(ss))
        BY <1>1, <1>7, FoundHold
    <1>9. \E j \in 1..Len(vs) : vs[j].from <= w.from /\ w.to <= vs[j].to
        BY <1>6, <1>8, OneWindowHolds
    <1> QED
        BY <1>1, <1>3, <1>7, <1>9

\* More readings never make the longest window shorter.
LEMMA ExposureDoesNotShrink ==
    ASSUME NEW rs, Orderly(rs), NEW ss, Orderly(ss), ToSet(rs) \subseteq ToSet(ss)
    PROVE  LongestMinutes(ss) >= LongestMinutes(rs)
    <1>1. CASE rs = <<>>
        <2>1. LongestMinutes(rs) = 0
            BY <1>1, LongestOfNothing
        <2>2. LongestMinutes(ss) \in Nat
            BY OrderlyOrNothing, LongestOfNothing, LongestIs
        <2> QED
            BY <2>1, <2>2
    <1>2. CASE Len(rs) > 0
        <2>1. PICK w : w = LongestWindow(rs) /\ w.from \in Nat /\ w.to \in Nat
            BY <1>2, LongestIs
        <2>2. PICK vs : vs = Windows(ss)
            OBVIOUS
        <2>3. Len(ss) > 0 /\ \E j \in 1..Len(vs) : vs[j].from <= w.from /\ w.to <= vs[j].to
            BY <1>2, <2>1, <2>2, MoreReadingsHold
        <2>4. PICK j \in 1..Len(vs) : vs[j].from <= w.from /\ w.to <= vs[j].to
            BY <2>3
        <2>5. vs[j].from \in Nat /\ vs[j].to \in Nat
            BY <2>2, <2>3, FoundHold DEF Apart
        <2>6. Length(vs[j]) <= LongestMinutes(ss) /\ LongestMinutes(ss) \in Int
            BY <2>2, <2>3, LongestIs DEF IsLongest, LongestMinutes
        <2>7. LongestMinutes(rs) = w.to - w.from /\ Length(vs[j]) = vs[j].to - vs[j].from
            BY <2>1 DEF LongestMinutes, Length
        <2> QED
            BY <2>1, <2>4, <2>5, <2>6, <2>7
    <1> QED
        BY <1>1, <1>2, OrderlyOrNothing

\* Readings that continue each other cover no minute twice.
LEMMA ContinuousIsDisjoint ==
    ASSUME NEW rs, Orderly(rs), Continuous(rs),
           NEW k \in 1..Len(rs), NEW l \in 1..Len(rs), k # l
    PROVE  ~During(rs[k], rs[l].at)
    <1>1. InLine(rs) /\ Len(rs) \in Nat
        BY OrderlyInLine DEF InLine
    <1>2. /\ rs[k].at \in Int /\ rs[l].at \in Int
          /\ (k < l => rs[k].at < rs[l].at) /\ (l < k => rs[l].at < rs[k].at)
        BY <1>1 DEF InLine, IsReading
    <1>3. CASE l < k
        BY <1>2, <1>3 DEF During
    <1>4. CASE k < l
        <2>1. PICK n \in 2..Len(rs) : n = k + 1 /\ n - 1 = k /\ n <= l
            BY <1>1, <1>4
        <2>2. rs[n].at = EndOf(rs[k])
            BY <2>1 DEF Continuous, Continues
        <2>3. n \in 1..Len(rs) /\ rs[n].at \in Int /\ (n < l => rs[n].at < rs[l].at)
            BY <1>1, <2>1 DEF InLine, IsReading
        <2>4. rs[n].at <= rs[l].at
            BY <1>2, <2>1, <2>3
        <2> QED
            BY <1>2, <2>2, <2>3, <2>4 DEF During
    <1> QED
        BY <1>3, <1>4

\* The first minute of an accepted batch was not covered before.
LEMMA BatchIsNew ==
    ASSUME NEW rs, Orderly(rs), NEW b \in Batches, AcceptsBatch(rs, b),
           NEW ss, ss = Combined(rs, b)
    PROVE  /\ Len(ss) > 0
           /\ \E t \in Covered(ss) : t \notin Covered(rs)
    <1>1. AllSound(rs) /\ AllSound(b) /\ Len(b) > 0 /\ InLine(rs)
        BY OrderlyIsSound, WellFormedIs, OrderlyInLine DEF AcceptsBatch
    <1>2. PICK all : all = rs \o b
        OBVIOUS
    <1>3. /\ AllSound(all) /\ Len(all) = Len(rs) + Len(b)
          /\ \A i \in 1..Len(rs) : all[i] = rs[i]
          /\ Len(rs) \in Nat /\ Len(b) \in Nat
        BY <1>1, <1>2, SoundConcatenated, LenProperties DEF AllSound
    <1>4. PICK order : order = StableOrder(all)
        OBVIOUS
    <1>5. Orderly(ss) /\ Continuous(ss) /\ IsSorting(ss, all, order)
        BY <1>2, <1>4, AcceptedIs
    <1>6. /\ Len(ss) = Len(all)
          /\ \A k \in 1..Len(ss) : ss[k] = all[order[k]]
          /\ \A i \in 1..Len(ss) : \E k \in 1..Len(ss) : order[k] = i
        BY <1>5 DEF IsSorting, OrdersFirst
    <1>7. PICK n \in 1..Len(ss) : n = Len(rs) + 1
        BY <1>1, <1>3, <1>6
    <1>8. PICK l \in 1..Len(ss) : order[l] = n
        BY <1>6
    <1>9. InLine(ss) /\ IsReading(ss[l])
        BY <1>5, OrderlyInLine DEF InLine
    <1>10. PICK t \in Int : t = ss[l].at /\ During(ss[l], t)
        BY <1>9 DEF IsReading, During, EndOf
    <1>11. t \in Covered(ss)
        BY <1>9, <1>10, CoveredIs
    <1>12. t \notin Covered(rs)
        <2> SUFFICES ASSUME t \in Covered(rs) PROVE FALSE
            OBVIOUS
        <2>1. PICK i \in 1..Len(rs) : During(rs[i], t)
            BY <1>1, CoveredIs
        <2>2. i \in 1..Len(ss)
            BY <1>3, <1>6
        <2>3. PICK k \in 1..Len(ss) : order[k] = i
            BY <1>6, <2>2
        <2>4. ss[k] = rs[i]
            BY <1>3, <1>6, <2>3
        <2>5. k # l
            BY <1>3, <1>7, <1>8, <2>3
        <2>6. ~During(ss[k], ss[l].at)
            BY <1>5, <2>5, ContinuousIsDisjoint
        <2> QED
            BY <1>10, <2>1, <2>4, <2>6
    <1>13. Len(ss) > 0
        BY <1>1, <1>3, <1>6
    <1> QED
        BY <1>11, <1>12, <1>13

\* A batch that is accepted makes the longest window longer.
LEMMA BatchLengthens ==
    ASSUME NEW rs, Orderly(rs), NEW b \in Batches, AcceptsBatch(rs, b),
           NEW ss, ss = Combined(rs, b), ToSet(rs) \subseteq ToSet(ss)
    PROVE  LongestMinutes(ss) > LongestMinutes(rs)
    <1>1. Orderly(ss) /\ Continuous(ss) /\ Len(ss) > 0
        BY AcceptedIs, BatchIsNew
    <1>2. LongestMinutes(ss) \in Nat /\ LongestMinutes(ss) > 0
        BY <1>1, LongestIs
    <1>3. CASE rs = <<>>
        BY <1>2, <1>3, LongestOfNothing
    <1>4. CASE Len(rs) > 0
        <2>1. PICK vs : vs = Windows(ss)
            OBVIOUS
        <2>2. PICK v : v = vs[1] /\ Len(vs) = 1 /\ LongestWindow(ss) = v
            BY <1>1, <2>1, ContinuousExposure
        <2>3. PICK w : w = LongestWindow(rs)
            OBVIOUS
        <2>4. w.from \in Int /\ w.to \in Int /\ v.from \in Int /\ v.to \in Int
            BY <1>1, <1>4, <2>2, <2>3, LongestIs
        <2>5. v.from <= w.from /\ w.to <= v.to
            <3>1. \E j \in 1..Len(vs) : vs[j].from <= w.from /\ w.to <= vs[j].to
                BY <1>1, <1>4, <2>1, <2>3, MoreReadingsHold
            <3>2. \A j \in 1..Len(vs) : j = 1
                BY <2>2
            <3> QED
                BY <2>2, <3>1, <3>2
        <2>6. PICK t \in Covered(ss) : t \notin Covered(rs)
            BY BatchIsNew
        <2>7. t \in Int /\ Inside(v, t)
            <3>1. Holds(vs, Covered(ss))
                BY <1>1, <2>1, FoundHold
            <3>2. t \in Int
                BY <3>1 DEF Holds
            <3>3. PICK j \in 1..Len(vs) : Inside(vs[j], t)
                BY <2>6, <3>1, <3>2 DEF Holds
            <3>4. j = 1
                BY <2>2
            <3> QED
                BY <2>2, <3>2, <3>3, <3>4
        <2>8. ~Inside(w, t)
            <3>1. PICK us : us = Windows(rs)
                OBVIOUS
            <3>2. PICK j \in 1..Len(us) : w = us[j]
                BY <1>4, <2>3, <3>1, LongestIs DEF IsLongest
            <3>3. Holds(us, Covered(rs))
                BY <1>4, <3>1, FoundHold
            <3> QED
                BY <2>6, <2>7, <3>2, <3>3 DEF Holds
        <2>9. w.to - w.from < v.to - v.from
            <3>1. v.from <= t /\ t < v.to
                BY <2>7 DEF Inside
            <3>2. ~(w.from <= t) \/ ~(t < w.to)
                BY <2>8 DEF Inside
            <3> QED
                BY <2>4, <2>5, <2>7, <3>1, <3>2
        <2>10. LongestMinutes(rs) = w.to - w.from /\ LongestMinutes(ss) = v.to - v.from
            BY <2>2, <2>3 DEF LongestMinutes, Length
        <2> QED
            BY <2>4, <2>9, <2>10
    <1> QED
        BY <1>3, <1>4, OrderlyOrNothing

\* What a batch that was added did.
LEMMA BatchedIs ==
    ASSUME NEW b \in WellFormedBatches, Batched(b)
    PROVE  b \in Batches /\ AcceptsBatch(readings, b) /\ readings' = Combined(readings, b)
    <1>1. PICK confirm \in BOOLEAN : AddConditioningBatch(b, confirm)
        BY DEF Batched
    <1> QED
        BY <1>1 DEF AddConditioningBatch, Record, WellFormedBatches

\* A step of the specification adds readings or leaves them alone.
LEMMA StepAddsReadings ==
    ASSUME IInv, [Next]_vars
    PROVE  Orderly(readings) /\ Orderly(readings') /\ ToSet(readings) \subseteq ToSet(readings')
    <1>1. Orderly(readings)
        BY DEF IInv, TypeOK, Orderly
    <1>2. CASE Next
        BY <1>1, <1>2, ReadingsStayOrderly
    <1>3. CASE UNCHANGED vars
        BY <1>1, <1>3 DEF vars
    <1> QED
        BY <1>1, <1>2, <1>3

\* After a batch that was accepted there is one window, and the cumulative minutes are
\* its length.
THEOREM BatchesContinue == Spec => BatchLeavesOneWindow
    <1>1. ASSUME IInv, [Next]_vars, NEW b \in WellFormedBatches, Batched(b)
          PROVE  /\ Len(Windows(readings')) = 1
                 /\ Cumulative(readings') = LongestMinutes(readings')
        <2>1. b \in Batches /\ AcceptsBatch(readings, b) /\ Orderly(readings)
            BY <1>1, BatchedIs, StepAddsReadings
        <2>2. PICK ss : ss = readings' /\ ss = Combined(readings, b)
            BY <1>1, BatchedIs
        <2>3. Orderly(ss) /\ Continuous(ss) /\ Len(ss) > 0
            BY <2>1, <2>2, AcceptedIs, BatchIsNew
        <2> QED
            BY <2>2, <2>3, ContinuousExposure
    <1>2. IInv /\ [Next]_vars =>
              [(\E b \in WellFormedBatches : Batched(b)) =>
                    /\ Len(Windows(readings')) = 1
                    /\ Cumulative(readings') = LongestMinutes(readings')]_vars
        BY <1>1
    <1> QED
        BY <1>2, Invariance, PTL DEF Spec, BatchLeavesOneWindow

\* No command shortens the longest exposure; a batch that was accepted lengthens it.
THEOREM ExposureIsMonotone == Spec => ExposureGrows
    <1>1. ASSUME IInv, [Next]_vars
          PROVE  /\ LongestMinutes(readings') >= LongestMinutes(readings)
                 /\ readings' # readings => LongestMinutes(readings') > 0
                 /\ (\E b \in WellFormedBatches : Batched(b)) =>
                        LongestMinutes(readings') > LongestMinutes(readings)
        <2>1. Orderly(readings) /\ Orderly(readings') /\ ToSet(readings) \subseteq ToSet(readings')
            BY <1>1, StepAddsReadings
        <2>2. PICK ss : ss = readings'
            OBVIOUS
        <2>3. LongestMinutes(ss) >= LongestMinutes(readings)
            BY <2>1, <2>2, ExposureDoesNotShrink
        <2>4. ASSUME ss # readings PROVE LongestMinutes(ss) > 0
            <3>1. ss # <<>>
                <4> SUFFICES ASSUME ss = <<>> PROVE FALSE
                    OBVIOUS
                <4>1. ToSet(readings) = {}
                    BY <2>1, <2>2 DEF ToSet
                <4>2. readings \in Seq(Reading) /\ (readings = <<>> \/ Len(readings) > 0)
                    BY <2>1, OrderlyOrNothing DEF Orderly
                <4>3. 1 \in 1..Len(readings) => readings[1] \in ToSet(readings)
                    BY <4>2 DEF ToSet
                <4>4. readings = <<>>
                    BY <2>1, <4>1, <4>2, <4>3, OrderlyOrNothing
                <4> QED
                    BY <2>4, <4>4
            <3> QED
                BY <2>1, <2>2, <3>1, OrderlyOrNothing, LongestIs
        <2>5. ASSUME NEW b \in WellFormedBatches, Batched(b)
              PROVE  LongestMinutes(ss) > LongestMinutes(readings)
            <3>1. b \in Batches /\ AcceptsBatch(readings, b) /\ ss = Combined(readings, b)
                BY <2>2, <2>5, BatchedIs
            <3> QED
                BY <2>1, <2>2, <3>1, BatchLengthens
        <2> QED
            BY <2>2, <2>3, <2>4, <2>5
    <1>2. IInv /\ [Next]_vars =>
              [/\ LongestMinutes(readings') >= LongestMinutes(readings)
               /\ readings' # readings => LongestMinutes(readings') > 0
               /\ (\E b \in WellFormedBatches : Batched(b)) =>
                      LongestMinutes(readings') > LongestMinutes(readings)]_vars
        BY <1>1
    <1> QED
        BY <1>2, Invariance, PTL DEF Spec, ExposureGrows
=============================================================================
