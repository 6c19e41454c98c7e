--------------------------- MODULE AuditChainProofs ---------------------------
(***************************************************************************)
(* Lemmas about the chain of events, its verification, the manifest and the *)
(* selection of AuditChain, and about the sequences they are made of.       *)
(***************************************************************************)
EXTENDS AuditChain, Integers, SequenceTheorems, FiniteSetTheorems, WellFoundedInduction,
        NaturalsInduction, TLAPS

-----------------------------------------------------------------------------
(* Least and greatest numbers *)

\* Min of the community modules is the least number.
LEMMA MinIs ==
    ASSUME NEW T \in SUBSET Nat, NEW m \in T, \A k \in T : m <= k
    PROVE  Min(T) = m
    <1>1. \A x \in T : (\A y \in T : x =< y) => x = m
        BY Z3
    <1> QED
        BY <1>1 DEF Min

\* A set of numbers that is not empty has a least one.
LEMMA LeastNumber ==
    ASSUME NEW T \in SUBSET Nat, T # {}
    PROVE  \E m \in T : \A k \in T : m <= k
    <1> DEFINE R == OpToRel(<, Nat)
    <1>1. IsWellFoundedOn(R, Nat)
        BY NatLessThanWellFounded
    <1>2. \A m, k \in Nat : <<m, k>> \in R <=> m < k
        BY DEF OpToRel
    <1> HIDE DEF R
    <1>3. PICK m \in T : \A k \in T : <<k, m>> \notin R
        BY <1>1, WFMin
    <1>4. \A k \in T : m <= k
        <2> TAKE k \in T
        <2>1. m \in Nat /\ k \in Nat
            OBVIOUS
        <2>2. ~(k < m)
            BY <1>2, <1>3, <2>1
        <2> QED
            BY <2>1, <2>2
    <1> QED
        BY <1>4

\* Max of the community modules finds the greatest number of a bounded set.
LEMMA MaxIsMember ==
    ASSUME NEW L \in Nat, NEW T \in SUBSET (0..L), T # {}
    PROVE  /\ Max(T) \in T
           /\ \A k \in T : k <= Max(T)
    <1> DEFINE U == {u \in 0..L : \E k \in T : u = L - k}
    <1>1. U \in SUBSET Nat
        OBVIOUS
    <1>2. \A k \in T : L - k \in U
        OBVIOUS
    <1>3. U # {}
        BY <1>2
    <1>4. \A u \in U : \E k \in T : u = L - k
        OBVIOUS
    <1> HIDE DEF U
    <1>5. PICK u \in U : \A v \in U : u <= v
        BY <1>1, <1>3, LeastNumber
    <1>6. PICK m \in T : u = L - m
        BY <1>4
    <1>7. \A k \in T : m >= k
        <2> TAKE k \in T
        <2>1. L - m <= L - k
            BY <1>2, <1>5, <1>6
        <2> QED
            BY <2>1
    <1>8. \E x \in T : \A y \in T : x >= y
        BY <1>7
    <1>9. Max(T) \in T /\ \A y \in T : Max(T) >= y
        BY <1>8 DEF Max
    <1> QED
        BY <1>9

\* The size of an interval.
LEMMA IntervalSize ==
    ASSUME NEW m \in Nat, NEW n \in Nat
    PROVE  /\ IsFiniteSet(m..n)
           /\ m <= n => Cardinality(m..n) = n - m + 1
           /\ n < m => Cardinality(m..n) = 0
    <1>1. m \in Int /\ n \in Int
        OBVIOUS
    <1>2. IsFiniteSet(m..n) /\ Cardinality(m..n) = IF m > n THEN 0 ELSE n - m + 1
        BY <1>1, FS_Interval, Zenon
    <1> QED
        BY <1>2

-----------------------------------------------------------------------------
(* Histories *)

\* A sequence of records with the fields of an event.
IsEvent(e) ==
    /\ e = [revision |-> e.revision, type |-> e.type, data |-> e.data, at |-> e.at,
            prev |-> e.prev, hash |-> e.hash]
    /\ e.revision \in Nat
IsHistory(h) ==
    /\ \E S : h \in Seq(S)
    /\ \A i \in 1..Len(h) : IsEvent(h[i])

\* Two histories with the same events are the same.
LEMMA SameEvents ==
    ASSUME NEW g, NEW h, IsHistory(g), IsHistory(h), Len(g) = Len(h),
           \A i \in 1..Len(g) : g[i] = h[i]
    PROVE  g = h
    <1>1. PICK S : g \in Seq(S)
        BY DEF IsHistory
    <1>2. PICK T : h \in Seq(T)
        BY DEF IsHistory
    <1>3. g \in Seq(S \cup T) /\ h \in Seq(S \cup T)
        BY <1>1, <1>2
    <1> QED
        BY <1>3, SeqEqual

\* A history is empty exactly when its length is 0.
LEMMA HistoryLength ==
    ASSUME NEW h, IsHistory(h)
    PROVE  Len(h) \in Nat /\ (h = <<>> <=> Len(h) = 0)
    <1>1. PICK S : h \in Seq(S)
        BY DEF IsHistory
    <1> QED
        BY <1>1, EmptySeq, LenProperties

\* A history with one more event.
LEMMA Appended ==
    ASSUME NEW h, IsHistory(h), NEW e, IsEvent(e)
    PROVE  /\ IsHistory(Append(h, e)) /\ Len(Append(h, e)) = Len(h) + 1
           /\ \A i \in 1..Len(h) : Append(h, e)[i] = h[i]
           /\ Append(h, e)[Len(h) + 1] = e
    <1>1. PICK S : h \in Seq(S)
        BY DEF IsHistory
    <1>2. h \in Seq(S \cup {e}) /\ Len(h) \in Nat
        BY <1>1, LenProperties
    <1>3. /\ Append(h, e) \in Seq(S \cup {e}) /\ Len(Append(h, e)) = Len(h) + 1
          /\ \A i \in 1..Len(h) : Append(h, e)[i] = h[i]
          /\ Append(h, e)[Len(h) + 1] = e
        BY <1>2, AppendProperties
    <1>4. \A i \in 1..Len(Append(h, e)) : IsEvent(Append(h, e)[i])
        <2> TAKE i \in 1..Len(Append(h, e))
        <2>1. i \in 1..Len(h) \/ i = Len(h) + 1
            BY <1>2, <1>3
        <2> QED
            BY <1>3, <2>1 DEF IsHistory
    <1> QED
        BY <1>3, <1>4 DEF IsHistory

\* A history with one event replaced.
LEMMA Altered ==
    ASSUME NEW h, IsHistory(h), NEW i \in 1..Len(h), NEW e, IsEvent(e)
    PROVE  /\ IsHistory([h EXCEPT ![i] = e]) /\ Len([h EXCEPT ![i] = e]) = Len(h)
           /\ \A j \in 1..Len(h) : [h EXCEPT ![i] = e][j] = IF j = i THEN e ELSE h[j]
    <1>1. PICK S : h \in Seq(S)
        BY DEF IsHistory
    <1>2. h \in Seq(S \cup {e})
        BY <1>1
    <1>3. /\ [h EXCEPT ![i] = e] \in Seq(S \cup {e}) /\ Len([h EXCEPT ![i] = e]) = Len(h)
          /\ \A j \in 1..Len(h) : [h EXCEPT ![i] = e][j] = IF j = i THEN e ELSE h[j]
        BY <1>2, ExceptSeq
    <1> QED
        BY <1>3 DEF IsHistory

\* A beginning of a history.
LEMMA Prefix ==
    ASSUME NEW h, IsHistory(h), NEW r \in 0..Len(h)
    PROVE  /\ IsHistory(SubSeq(h, 1, r)) /\ Len(SubSeq(h, 1, r)) = r
           /\ \A i \in 1..r : SubSeq(h, 1, r)[i] = h[i]
    <1>1. PICK S : h \in Seq(S)
        BY DEF IsHistory
    <1>2. Len(h) \in Nat
        BY HistoryLength
    <1> DEFINE p == SubSeq(h, 1, r)
    <1>3. /\ p \in Seq(S) /\ Len(p) = IF 1 <= r THEN r - 1 + 1 ELSE 0
          /\ \A j \in 1..(r - 1 + 1) : p[j] = h[1 + j - 1]
        <2>1. \A j \in 1..Len(h) : h[j] \in S
            BY <1>1, ElementOfSeq
        <2> QED
            BY <1>1, <1>2, <2>1, SubSeqProperties
    <1> HIDE DEF p
    <1>4. Len(p) = r /\ \A j \in 1..r : p[j] = h[j]
        BY <1>2, <1>3
    <1>5. IsHistory(p)
        BY <1>2, <1>3, <1>4 DEF IsHistory
    <1> QED
        BY <1>4, <1>5 DEF p

\* The two ways a line is lost or doubled.
LEMMA Spliced ==
    ASSUME NEW h, IsHistory(h), NEW m \in 0..Len(h), NEW n \in 1..(Len(h) + 1)
    PROVE  LET g == SubSeq(h, 1, m) \o SubSeq(h, n, Len(h))
           IN  /\ IsHistory(g) /\ Len(g) = m + (Len(h) - n + 1)
               /\ \A j \in 1..m : g[j] = h[j]
               /\ \A j \in (m + 1)..Len(g) : g[j] = h[j - m + n - 1]
    <1> DEFINE p == SubSeq(h, 1, m)
               q == SubSeq(h, n, Len(h))
               g == p \o q
    <1>1. PICK S : h \in Seq(S)
        BY DEF IsHistory
    <1>2. Len(h) \in Nat /\ \A i \in 1..Len(h) : h[i] \in S
        BY <1>1, ElementOfSeq, LenProperties
    <1>3. p \in Seq(S) /\ Len(p) = m /\ \A j \in 1..m : p[j] = h[j]
        <2>1. /\ p \in Seq(S) /\ Len(p) = IF 1 <= m THEN m - 1 + 1 ELSE 0
              /\ \A j \in 1..(m - 1 + 1) : p[j] = h[1 + j - 1]
            BY <1>1, <1>2, SubSeqProperties
        <2> QED
            BY <1>2, <2>1
    <1>4. /\ q \in Seq(S) /\ Len(q) = Len(h) - n + 1
          /\ \A j \in 1..(Len(h) - n + 1) : q[j] = h[n + j - 1]
        <2>1. /\ q \in Seq(S) /\ Len(q) = IF n <= Len(h) THEN Len(h) - n + 1 ELSE 0
              /\ \A j \in 1..(Len(h) - n + 1) : q[j] = h[n + j - 1]
            BY <1>1, <1>2, SubSeqProperties
        <2> QED
            BY <1>2, <2>1
    <1> HIDE DEF p, q
    <1>5. /\ g \in Seq(S) /\ Len(g) = Len(p) + Len(q)
          /\ \A j \in 1..(Len(p) + Len(q)) : g[j] = IF j <= Len(p) THEN p[j] ELSE q[j - Len(p)]
        BY <1>3, <1>4, ConcatProperties
    <1> HIDE DEF g
    <1>6. Len(g) = m + (Len(h) - n + 1)
        BY <1>3, <1>4, <1>5
    <1>7. \A j \in 1..m : g[j] = h[j]
        BY <1>2, <1>3, <1>4, <1>5
    <1>8. \A j \in (m + 1)..Len(g) : g[j] = h[j - m + n - 1]
        <2> TAKE j \in (m + 1)..Len(g)
        <2>1. PICK k \in 1..(Len(h) - n + 1) : k = j - m /\ n + k - 1 = j - m + n - 1
            BY <1>2, <1>6
        <2>2. g[j] = q[k]
            BY <1>2, <1>3, <1>4, <1>5, <2>1
        <2> QED
            BY <1>4, <2>1, <2>2
    <1>9. \A j \in 1..Len(g) : IsEvent(g[j])
        <2> TAKE j \in 1..Len(g)
        <2>1. CASE j <= m
            BY <1>2, <1>7, <2>1 DEF IsHistory
        <2>2. CASE j > m
            <3>1. PICK k \in 1..Len(h) : k = j - m + n - 1
                BY <1>2, <1>6, <2>2
            <3>2. g[j] = h[k]
                BY <1>2, <1>6, <1>8, <2>2, <3>1
            <3> QED
                BY <3>2 DEF IsHistory
        <2> QED
            BY <1>2, <1>6, <2>1, <2>2
    <1> QED
        BY <1>5, <1>6, <1>7, <1>8, <1>9 DEF IsHistory, g, p, q

-----------------------------------------------------------------------------
(* The chain and its verification *)

\* What AppendEvent makes, and verification asks for.
Chain(h) ==
    /\ IsHistory(h)
    /\ \A i \in 1..Len(h) : /\ h[i].revision = i
                            /\ h[i].hash = Digest(h[i])
                            /\ i > 1 => h[i].prev = h[i - 1].hash

\* appendEvent puts one event behind the history: numbered, linked to the last one and
\* hashed.
LEMMA NewEvent ==
    ASSUME NEW h, NEW type, NEW data, NEW at, IsHistory(h)
    PROVE  \E e : /\ WithEvent(h, type, data, at) = Append(h, e)
                  /\ IsEvent(e)
                  /\ e.revision = Len(h) + 1 /\ e.type = type /\ e.data = data /\ e.at = at
                  /\ e.prev = HashOfLast(h) /\ e.hash = Digest(e)
    <1>1. Len(h) + 1 \in Nat
        BY HistoryLength
    <1>2. PICK e : e = [revision |-> Len(h) + 1, type |-> type, data |-> data, at |-> at,
                        prev |-> HashOfLast(h),
                        hash |-> <<Len(h) + 1, type, data, HashOfLast(h)>>]
        OBVIOUS
    <1>3. WithEvent(h, type, data, at) = Append(h, e)
        BY <1>2 DEF WithEvent, Digest
    <1>4. IsEvent(e)
        BY <1>1, <1>2 DEF IsEvent
    <1> QED
        BY <1>2, <1>3, <1>4 DEF Digest

\* appendEvent keeps a chain a chain.
LEMMA ChainGrows ==
    ASSUME NEW h, Chain(h), NEW type, NEW data, NEW at
    PROVE  LET g == WithEvent(h, type, data, at)
           IN  /\ Chain(g) /\ Len(g) = Len(h) + 1
               /\ \A i \in 1..Len(h) : g[i] = h[i]
               /\ g[Len(g)].type = type /\ g[Len(g)].data = data /\ g[Len(g)].at = at
               /\ IsEvent(g[Len(g)]) /\ g = Append(h, g[Len(g)])
    <1>1. IsHistory(h) /\ Len(h) \in Nat
        BY HistoryLength DEF Chain
    <1>2. PICK e : /\ WithEvent(h, type, data, at) = Append(h, e)
                   /\ IsEvent(e)
                   /\ e.revision = Len(h) + 1 /\ e.type = type /\ e.data = data /\ e.at = at
                   /\ e.prev = HashOfLast(h) /\ e.hash = Digest(e)
        BY <1>1, NewEvent
    <1>3. PICK g : g = Append(h, e)
        OBVIOUS
    <1>4. /\ IsHistory(g) /\ Len(g) = Len(h) + 1
          /\ \A i \in 1..Len(h) : g[i] = h[i]
          /\ g[Len(h) + 1] = e
        BY <1>1, <1>2, <1>3, Appended
    <1>5. ASSUME NEW i \in 1..Len(g)
          PROVE  /\ g[i].revision = i /\ g[i].hash = Digest(g[i])
                 /\ i > 1 => g[i].prev = g[i - 1].hash
        <2>1. CASE i \in 1..Len(h)
            <3>1. g[i] = h[i] /\ (i > 1 => g[i - 1] = h[i - 1])
                BY <1>1, <1>4, <2>1
            <3> QED
                BY <2>1, <3>1 DEF Chain
        <2>2. CASE i = Len(h) + 1
            <3>1. i > 1 => h # <<>> /\ g[i - 1] = h[Len(h)]
                BY <1>1, <1>4, <2>2, HistoryLength
            <3> QED
                BY <1>2, <1>4, <2>2, <3>1 DEF HashOfLast
        <2> QED
            BY <1>1, <1>4, <2>1, <2>2
    <1>6. Chain(g)
        BY <1>4, <1>5 DEF Chain
    <1> QED
        BY <1>2, <1>3, <1>4, <1>6

\* A range verifies exactly when none of its events is broken, and then blames none.
LEMMA Verifies ==
    ASSUME NEW events, NEW from, NEW to
    PROVE  /\ VerifyEventRange(events, from, to).verified
                  <=> \A i \in InRange(events, from, to) : ~Broken(events, i)
           /\ VerifyEventRange(events, from, to).verified
                  => VerifyEventRange(events, from, to).blamed = 0
    BY DEF VerifyEventRange

\* The event to blame is the first that is broken.
LEMMA BlamesFirst ==
    ASSUME NEW events, NEW from, NEW to, Len(events) \in Nat,
           NEW i \in InRange(events, from, to), Broken(events, i),
           \A j \in 1..(i - 1) : ~Broken(events, j)
    PROVE  /\ ~VerifyEventRange(events, from, to).verified
           /\ VerifyEventRange(events, from, to).blamed = events[i].revision
    <1> DEFINE B == {j \in InRange(events, from, to) : Broken(events, j)}
    <1>1. B \in SUBSET Nat /\ i \in B /\ i \in Nat
        BY DEF InRange
    <1>2. \A k \in B : i <= k
        <2> TAKE k \in B
        <2>1. k \in Nat /\ k \in 1..Len(events) /\ Broken(events, k)
            BY DEF InRange
        <2>2. ~(k \in 1..(i - 1))
            BY <2>1
        <2> QED
            BY <1>1, <2>1, <2>2
    <1>3. Min(B) = i
        BY <1>1, <1>2, MinIs
    <1>4. B # {}
        BY <1>1
    <1> HIDE DEF B
    <1>5. VerifyEventRange(events, from, to)
          = [[verified |-> TRUE, blamed |-> 0, prev |-> NoHash, first |-> NoHash, last |-> NoHash]
                EXCEPT !.verified = FALSE, !.blamed = events[Min(B)].revision]
        BY <1>4 DEF VerifyEventRange, B
    <1> QED
        BY <1>3, <1>5

\* No event of a chain is broken, so that every range of it verifies.
LEMMA ChainIsWhole ==
    ASSUME NEW h, Chain(h)
    PROVE  /\ \A i \in 1..Len(h) : ~Broken(h, i)
           /\ \A from, to : VerifyEventRange(h, from, to).verified
    <1>1. \A i \in 1..Len(h) : ~Broken(h, i)
        BY DEF Chain, Broken
    <1> QED
        BY <1>1, Verifies DEF InRange

\* What is verified of the manifest of h: all but its names and its sealer.
Certifies(m, h) ==
    /\ m.entries = h /\ m.sum = h /\ m.root = HashOfLast(h)
    /\ m.revision = Len(h) /\ m.verified

\* A built manifest certifies its events, whoever sealed them.
LEMMA BuiltCertifies ==
    ASSUME NEW h, NEW by
    PROVE  Certifies(Build(h, by), h)
    BY DEF Certifies, Build

\* A manifest that certifies a chain verifies against it.
LEMMA BuiltVerifies ==
    ASSUME NEW h, Chain(h), NEW m, Certifies(m, h)
    PROVE  VerifyManifest(m, h, Len(h))
    BY ChainIsWhole DEF VerifyManifest, Certifies, EntriesMatch

\* The blame falls on the first entry that is not the event of the log.
LEMMA BlamesEntry ==
    ASSUME NEW m, NEW events, Len(m.entries) \in Nat, Len(events) \in Nat,
           NEW i \in Nat, i \in 1..Len(m.entries), i \in 1..Len(events),
           m.entries[i] # events[i],
           \A j \in 1..(i - 1) : m.entries[j] = events[j]
    PROVE  FirstMismatch(m, events, 0) = events[i].revision
    <1>1. PICK c \in Nat : /\ c = Min({Len(m.entries), Len(events)})
                           /\ c <= Len(m.entries) /\ c <= Len(events)
                           /\ (c = Len(m.entries) \/ c = Len(events))
        <2>1. CASE Len(m.entries) <= Len(events)
            <3>1. Min({Len(m.entries), Len(events)}) = Len(m.entries)
                BY <2>1, MinIs
            <3> QED
                BY <2>1, <3>1
        <2>2. CASE Len(events) <= Len(m.entries)
            <3>1. Min({Len(m.entries), Len(events)}) = Len(events)
                BY <2>2, MinIs
            <3> QED
                BY <2>2, <3>1
        <2>3. Len(m.entries) <= Len(events) \/ Len(events) <= Len(m.entries)
            OBVIOUS
        <2> QED
            BY <2>1, <2>2, <2>3
    <1> DEFINE D == {j \in 1..c : m.entries[j] # events[j]}
    <1>2. D \in SUBSET Nat /\ i \in D
        BY <1>1
    <1>3. \A k \in D : i <= k
        <2> TAKE k \in D
        <2>1. ~(k \in 1..(i - 1))
            OBVIOUS
        <2> QED
            BY <1>1, <2>1
    <1>4. Min(D) = i /\ D # {}
        BY <1>2, <1>3, MinIs
    <1> HIDE DEF D
    <1>5. FirstMismatch(m, events, 0) = events[Min(D)].revision
        BY <1>1, <1>4 DEF FirstMismatch, D
    <1> QED
        BY <1>4, <1>5

\* Entries and events agree as far as both go.
LEMMA BlamesEnd ==
    ASSUME NEW m, NEW events, Len(m.entries) \in Nat, Len(events) \in Nat,
           NEW n \in {Len(m.entries), Len(events)}, n <= Len(m.entries), n <= Len(events),
           \A j \in 1..n : m.entries[j] = events[j]
    PROVE  /\ Len(m.entries) = Len(events) => FirstMismatch(m, events, 0) = 0
           /\ Len(m.entries) # Len(events) => FirstMismatch(m, events, 0) = n + 1
    <1> DEFINE common == Min({Len(m.entries), Len(events)})
               differ == {j \in 1..common : m.entries[j] # events[j]}
    <1>1. common = n
        <2>1. /\ {Len(m.entries), Len(events)} \in SUBSET Nat
              /\ n \in {Len(m.entries), Len(events)}
              /\ \A k \in {Len(m.entries), Len(events)} : n <= k
            OBVIOUS
        <2> QED
            BY <2>1, MinIs
    <1>2. differ = {}
        BY <1>1
    <1>3. FirstMismatch(m, events, 0)
          = IF differ # {} THEN events[Min(differ)].revision
            ELSE IF Len(m.entries) # Len(events) THEN common + 1
            ELSE 0
        BY DEF FirstMismatch
    <1> HIDE DEF common, differ
    <1> QED
        BY <1>1, <1>2, <1>3

\* A broken event in the range, and none before it.
LEMMA BlamesBroken ==
    ASSUME NEW m, NEW events, Len(events) \in Nat, NEW i \in 1..Len(events),
           events[i].revision \in 1..Len(events), Broken(events, i),
           \A j \in 1..(i - 1) : ~Broken(events, j)
    PROVE  FirstMismatch(m, events, VerifyEventRange(events, 1, 0).blamed) = events[i].revision
    <1>1. i \in InRange(events, 1, 0)
        BY DEF InRange, RangeEnd
    <1>2. VerifyEventRange(events, 1, 0).blamed = events[i].revision
        BY <1>1, BlamesFirst
    <1>3. events[i].revision > 0
        OBVIOUS
    <1> QED
        BY <1>2, <1>3 DEF FirstMismatch

\* Nothing in the range is broken.
LEMMA NoneToBlame ==
    ASSUME NEW events, Len(events) \in Nat,
           \A j \in 1..Len(events) : events[j].revision \in 1..Len(events) => ~Broken(events, j)
    PROVE  VerifyEventRange(events, 1, 0).blamed = 0
    <1>1. \A j \in InRange(events, 1, 0) : ~Broken(events, j)
        BY DEF InRange, RangeEnd
    <1> QED
        BY <1>1, Verifies

-----------------------------------------------------------------------------
(* The events at a set of positions *)

\* The function that InOrder goes through, as far as n.
IsUpTo(f, h, positions, n) ==
    f = [k \in 0..n |-> IF k = 0 THEN <<>>
                        ELSE IF k \in positions THEN Append(f[k - 1], h[k])
                        ELSE f[k - 1]]

\* The selection has a result after every position.
LEMMA UpToExists ==
    ASSUME NEW h, NEW positions, NEW length \in Nat
    PROVE  \E f : IsUpTo(f, h, positions, length)
    <1> DEFINE Without == {n \in Nat : ~ \E f : IsUpTo(f, h, positions, n)}
    <1>1. ASSUME Without # {} PROVE FALSE
        <2>1. PICK m \in Without : \A k \in Without : m <= k
            BY <1>1, LeastNumber
        <2>2. m \in Nat /\ ~ \E f : IsUpTo(f, h, positions, m)
            OBVIOUS
        <2>3. CASE m = 0
            <3>1. PICK f : f = [k \in 0..0 |-> <<>>]
                OBVIOUS
            <3>2. IsUpTo(f, h, positions, 0)
                BY <3>1 DEF IsUpTo
            <3> QED
                BY <2>2, <2>3, <3>2
        <2>4. CASE m # 0
            <3>1. PICK p \in Nat : p = m - 1
                BY <2>2, <2>4
            <3>2. PICK f : IsUpTo(f, h, positions, p)
                BY <2>1, <2>2, <3>1
            <3>3. PICK g : g = [k \in 0..m |-> IF k = m
                                               THEN IF m \in positions THEN Append(f[p], h[m])
                                                    ELSE f[p]
                                               ELSE f[k]]
                OBVIOUS
            <3>4. \A k \in 0..p : g[k] = f[k]
                BY <2>2, <3>1, <3>3
            <3>5. ASSUME NEW k \in 0..m
                  PROVE  g[k] = IF k = 0 THEN <<>>
                                ELSE IF k \in positions THEN Append(g[k - 1], h[k])
                                ELSE g[k - 1]
                <4>1. CASE k = m
                    <5>1. g[p] = f[p]
                        BY <3>1, <3>4
                    <5> QED
                        BY <2>2, <2>4, <3>1, <3>3, <4>1, <5>1
                <4>2. CASE k \in 0..p
                    <5>1. f[k] = IF k = 0 THEN <<>>
                                 ELSE IF k \in positions THEN Append(f[k - 1], h[k])
                                 ELSE f[k - 1]
                        BY <3>2, <4>2 DEF IsUpTo
                    <5>2. k # 0 => g[k - 1] = f[k - 1]
                        BY <3>1, <3>4, <4>2
                    <5> QED
                        BY <3>4, <4>2, <5>1, <5>2
                <4> QED
                    BY <2>2, <3>1, <4>1, <4>2
            <3>6. IsUpTo(g, h, positions, m)
                BY <3>3, <3>5 DEF IsUpTo
            <3> QED
                BY <2>2, <3>6
        <2> QED
            BY <2>3, <2>4
    <1> QED
        BY <1>1

\* InOrder is what the selection has after the last position.
LEMMA InOrderUpTo ==
    ASSUME NEW h, NEW positions, Len(h) \in Nat
    PROVE  \E f : IsUpTo(f, h, positions, Len(h)) /\ InOrder(h, positions) = f[Len(h)]
    <1> DEFINE F(f) == f = [k \in 0..Len(h) |-> IF k = 0 THEN <<>>
                                                ELSE IF k \in positions THEN Append(f[k - 1], h[k])
                                                ELSE f[k - 1]]
    <1>1. InOrder(h, positions) = (CHOOSE f : F(f))[Len(h)]
        BY DEF InOrder
    <1>2. \E f : F(f)
        <2>1. PICK f : IsUpTo(f, h, positions, Len(h))
            BY UpToExists
        <2>2. F(f)
            BY <2>1 DEF IsUpTo
        <2> QED
            BY <2>2
    <1>3. \A f : F(f) => IsUpTo(f, h, positions, Len(h))
        BY DEF IsUpTo
    <1> HIDE DEF F
    <1>4. F(CHOOSE f : F(f))
        BY <1>2, Zenon
    <1> QED
        BY <1>1, <1>3, <1>4

\* s has the events of h at these positions, each once, in the order of h.
Lists(s, h, positions) ==
    /\ IsFiniteSet(positions) /\ Len(s) = Cardinality(positions) /\ Len(s) \in Nat
    /\ \E at \in [1..Len(s) -> positions] :
          /\ \A i, j \in 1..Len(s) : i < j => at[i] < at[j]
          /\ \A n \in positions : \E i \in 1..Len(s) : at[i] = n
          /\ \A i \in 1..Len(s) : s[i] = h[at[i]]

\* Nothing selected, nothing listed.
LEMMA ListsNone ==
    ASSUME NEW h
    PROVE  Lists(<<>>, h, {})
    <1>1. IsFiniteSet({}) /\ Cardinality({}) = 0
        BY FS_EmptySet
    <1>2. Len(<<>>) = 0 /\ <<>> \in [1..0 -> {}]
        OBVIOUS
    <1> QED
        BY <1>1, <1>2 DEF Lists

\* One more position, behind the others, lists one more event at the end.
LEMMA ListsMore ==
    ASSUME NEW S, NEW s \in Seq(S), NEW h, NEW positions \in SUBSET Nat, Lists(s, h, positions),
           NEW n \in Nat, \A k \in positions : k < n, NEW e \in S, e = h[n]
    PROVE  Lists(Append(s, e), h, positions \cup {n})
    <1>1. PICK at \in [1..Len(s) -> positions] :
             /\ \A i, j \in 1..Len(s) : i < j => at[i] < at[j]
             /\ \A k \in positions : \E i \in 1..Len(s) : at[i] = k
             /\ \A i \in 1..Len(s) : s[i] = h[at[i]]
        BY DEF Lists
    <1>2. n \notin positions /\ IsFiniteSet(positions) /\ Len(s) \in Nat
          /\ Len(s) = Cardinality(positions)
        BY DEF Lists
    <1>3. PICK g : g = Append(s, e)
        OBVIOUS
    <1>4. /\ Len(g) = Len(s) + 1 /\ g[Len(s) + 1] = e
          /\ \A i \in 1..Len(s) : g[i] = s[i]
        BY <1>3, AppendProperties
    <1>5. IsFiniteSet(positions \cup {n}) /\ Len(g) = Cardinality(positions \cup {n})
        BY <1>2, <1>4, FS_AddElement
    <1>6. PICK to : to = [i \in 1..Len(g) |-> IF i \in 1..Len(s) THEN at[i] ELSE n]
        OBVIOUS
    <1>7. /\ to \in [1..Len(g) -> positions \cup {n}]
          /\ \A i \in 1..Len(s) : to[i] = at[i] /\ at[i] \in positions
          /\ to[Len(g)] = n
        <2>1. \A i \in 1..Len(s) : i \in 1..Len(g) /\ to[i] = at[i] /\ at[i] \in positions
            BY <1>2, <1>4, <1>6
        <2>2. Len(g) \in 1..Len(g) /\ Len(g) \notin 1..Len(s)
            BY <1>2, <1>4
        <2>3. \A i \in 1..Len(g) : to[i] \in positions \cup {n}
            BY <1>6, <2>1
        <2> QED
            BY <1>6, <2>1, <2>2, <2>3
    <1>8. \A i \in 1..Len(g) : i \in 1..Len(s) \/ i = Len(g)
        BY <1>2, <1>4
    <1>9. ASSUME NEW i \in 1..Len(g), NEW j \in 1..Len(g), i < j
          PROVE  to[i] < to[j]
        <2>1. i \in 1..Len(s)
            BY <1>2, <1>4, <1>9
        <2> QED
            BY <1>1, <1>7, <1>8, <1>9, <2>1
    <1>10. ASSUME NEW k \in positions \cup {n}
           PROVE  \E i \in 1..Len(g) : to[i] = k
        <2>1. CASE k \in positions
            <3>1. PICK i \in 1..Len(s) : at[i] = k
                BY <1>1, <2>1
            <3>2. i \in 1..Len(g)
                BY <1>2, <1>4
            <3> QED
                BY <1>7, <3>1, <3>2
        <2>2. CASE k = n
            <3>1. Len(g) \in 1..Len(g)
                BY <1>2, <1>4
            <3> QED
                BY <1>7, <2>2, <3>1
        <2> QED
            BY <2>1, <2>2
    <1>11. ASSUME NEW i \in 1..Len(g)
           PROVE  g[i] = h[to[i]]
        BY <1>1, <1>4, <1>7, <1>8
    <1>12. Len(g) \in Nat
        BY <1>2, <1>4
    <1> QED
        BY <1>3, <1>5, <1>7, <1>9, <1>10, <1>11, <1>12 DEF Lists

\* InOrder lists the events at the positions, each once and in order.
LEMMA InOrderLists ==
    ASSUME NEW h, IsHistory(h), NEW positions \in SUBSET (1..Len(h))
    PROVE  Lists(InOrder(h, positions), h, positions)
    <1>1. PICK S : h \in Seq(S)
        BY DEF IsHistory
    <1>2. Len(h) \in Nat /\ \A i \in 1..Len(h) : h[i] \in S
        BY <1>1, ElementOfSeq, LenProperties
    <1>3. PICK f : IsUpTo(f, h, positions, Len(h)) /\ InOrder(h, positions) = f[Len(h)]
        BY <1>2, InOrderUpTo
    <1>4. \A n \in 0..Len(h) : f[n] = IF n = 0 THEN <<>>
                                      ELSE IF n \in positions THEN Append(f[n - 1], h[n])
                                      ELSE f[n - 1]
        BY <1>3 DEF IsUpTo
    <1> DEFINE Good(n) == f[n] \in Seq(S) /\ Lists(f[n], h, positions \cap (1..n))
               Bad == {n \in 0..Len(h) : ~Good(n)}
    <1> HIDE DEF Good
    <1>5. ASSUME Bad # {} PROVE FALSE
        <2>1. Bad \in SUBSET Nat
            OBVIOUS
        <2>2. PICK m \in Bad : \A k \in Bad : m <= k
            BY <1>5, <2>1, LeastNumber
        <2>3. m \in 0..Len(h) /\ ~Good(m)
            OBVIOUS
        <2>4. CASE m = 0
            <3>1. f[0] = <<>> /\ positions \cap (1..0) = {} /\ <<>> \in Seq(S)
                BY <1>2, <1>4
            <3> QED
                BY <2>3, <2>4, <3>1, ListsNone DEF Good
        <2>5. CASE m # 0
            <3>1. PICK p \in 0..Len(h) : p = m - 1
                BY <1>2, <2>3, <2>5
            <3>2. Good(p)
                BY <1>2, <2>2, <2>3, <3>1
            <3>3. m \in 1..Len(h) /\ h[m] \in S
                BY <1>2, <2>3, <2>5
            <3>4. CASE m \in positions
                <4>1. f[m] = Append(f[p], h[m])
                    BY <1>4, <2>3, <2>5, <3>1, <3>4
                <4>2. positions \cap (1..m) = (positions \cap (1..p)) \cup {m}
                    BY <1>2, <3>1, <3>3, <3>4
                <4>3. /\ positions \cap (1..p) \in SUBSET Nat /\ m \in Nat
                      /\ \A k \in positions \cap (1..p) : k < m
                    BY <1>2, <3>1, <3>3
                <4>4. Lists(Append(f[p], h[m]), h, (positions \cap (1..p)) \cup {m})
                    BY <3>2, <3>3, <4>3, ListsMore DEF Good
                <4>5. Append(f[p], h[m]) \in Seq(S)
                    BY <3>2, <3>3 DEF Good
                <4> QED
                    BY <2>3, <4>1, <4>2, <4>4, <4>5 DEF Good
            <3>5. CASE m \notin positions
                <4>1. f[m] = f[p]
                    BY <1>4, <2>3, <2>5, <3>1, <3>5
                <4>2. positions \cap (1..m) = positions \cap (1..p)
                    BY <1>2, <3>1, <3>3, <3>5
                <4> QED
                    BY <2>3, <3>2, <4>1, <4>2 DEF Good
            <3> QED
                BY <3>4, <3>5
        <2> QED
            BY <2>4, <2>5
    <1>6. Good(Len(h))
        BY <1>2, <1>5
    <1>7. positions \cap (1..Len(h)) = positions
        OBVIOUS
    <1> QED
        BY <1>3, <1>6, <1>7 DEF Good

\* The events from one position to another: none is skipped.
LEMMA ListsInterval ==
    ASSUME NEW s, NEW h, NEW from \in Nat, NEW to \in Nat, from <= to, Lists(s, h, from..to)
    PROVE  \A k \in 1..(to - from + 1) : s[k] = h[from + k - 1]
    <1>1. PICK at \in [1..Len(s) -> from..to] :
             /\ \A i, j \in 1..Len(s) : i < j => at[i] < at[j]
             /\ \A n \in from..to : \E i \in 1..Len(s) : at[i] = n
             /\ \A i \in 1..Len(s) : s[i] = h[at[i]]
        BY DEF Lists
    <1>2. Len(s) = to - from + 1
        BY IntervalSize DEF Lists
    <1>3. PICK count \in Nat : count = Len(s) /\ count = to - from + 1
        BY <1>2
    <1>4. /\ \A i \in 1..count : at[i] \in from..to
          /\ \A i, j \in 1..count : i < j => at[i] < at[j]
          /\ \A n \in from..to : \E i \in 1..count : at[i] = n
        BY <1>1, <1>3
    <1> DEFINE Off == {k \in 1..count : at[k] # from + k - 1}
    <1>6. ASSUME Off # {} PROVE FALSE
        <2>1. Off \in SUBSET Nat
            OBVIOUS
        <2>2. PICK m \in Off : \A k \in Off : m <= k
            BY <1>6, <2>1, LeastNumber
        <2>3. /\ m \in 1..count /\ at[m] # from + m - 1
              /\ at[m] \in from..to
            BY <1>4
        <2>4. \A k \in 1..count : k < m => at[k] = from + k - 1
            BY <2>2, <2>3
        <2>5. at[m] > from + m - 1
            <3>1. CASE m = 1
                BY <2>3, <3>1
            <3>2. CASE m > 1
                <4>1. PICK p \in 1..count : p = m - 1
                    BY <2>3, <3>2
                <4>2. at[p] = from + p - 1 /\ at[p] < at[m]
                    BY <1>4, <2>3, <2>4, <4>1
                <4> QED
                    BY <2>3, <4>1, <4>2
            <3> QED
                BY <2>3, <3>1, <3>2
        <2>6. PICK n \in from..to : n = from + m - 1
            BY <1>3, <2>3
        <2>7. PICK j \in 1..count : at[j] = n
            BY <1>4
        <2>8. CASE j < m
            <3>1. n = from + j - 1
                BY <2>4, <2>7, <2>8
            <3> QED
                BY <2>3, <2>6, <2>8, <3>1
        <2>9. CASE ~(j < m)
            <3>1. j = m \/ m < j
                BY <2>3, <2>9
            <3>2. at[m] <= at[j]
                BY <1>4, <2>3, <3>1
            <3> QED
                BY <1>4, <2>3, <2>5, <2>6, <2>7, <3>2
        <2> QED
            BY <2>8, <2>9
    <1>7. \A k \in 1..count : at[k] = from + k - 1
        BY <1>6
    <1> QED
        BY <1>1, <1>3, <1>7
=============================================================================
