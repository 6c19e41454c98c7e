-------------------------- MODULE CaseQueriesProofs --------------------------
(***************************************************************************)
(* What the queries of CaseQueries answer, for cases of any length: proofs  *)
(* that a report is of one moment, that what verifies is the case as it was *)
(* sealed, that a credential and the page of a whole range are complete,    *)
(* that untouched files raise no alarm and that a refusal blames the        *)
(* damage.                                                                  *)
(***************************************************************************)
EXTENDS CaseQueries, AuditChainProofs

-----------------------------------------------------------------------------
(* The invariant *)

\* The history as the service made it.
Whole(h) ==
    /\ Chain(h)
    /\ \A i \in 1..Len(h) : h[i].data # "ALTERED" /\ h[i].at # "ALTERED"

Follows(g, h) ==
    /\ Len(g) = Len(h) + 1
    /\ \A i \in 1..Len(h) : g[i] = h[i]
    /\ IsEvent(g[Len(g)]) /\ g = Append(h, g[Len(g)])

CaseOK ==
    /\ Whole(case)
    /\ Len(case) \in 1..MaxRevision
    /\ ~Sealed(case) => Len(case) < MaxRevision
    /\ Sealed(case) => Len(case) > 1 /\ sealing = <<>>

DamageOK ==
    \/ damage = NoDamage
    \/ damage.of = "LINE" /\ damage.at \in 1..Len(case)
    \/ damage.of = "STRAY" /\ damage.at \in 2..(Len(case) + 1)
    \/ damage.of = "ENTRY"
    \/ damage.of = "MANIFEST" /\ damage.at = 0

\* The manifest of the history h, as it was saved or with the damage d done to it.
ManifestOf(m, h, d) ==
    \/ m = SealOf(h)
    \/ /\ d.of = "ENTRY" /\ d.at \in 1..Len(h)
       /\ m.sum = h /\ Len(m.entries) = Len(h)
       /\ m.entries[d.at] # h[d.at]
       /\ \A j \in 1..Len(h) : j # d.at => m.entries[j] = h[j]
    \/ /\ d.of = "MANIFEST"
       /\ m = NoManifest \/ m.entries = h

SealingOK ==
    /\ sealing # <<>> =>
          /\ Whole(sealing) /\ Follows(sealing, case) /\ Sealed(sealing)
          /\ ~Sealed(case) /\ Len(case) > 1
          /\ ManifestOf(manifest, sealing, damage)
    /\ Sealed(case) => ManifestOf(manifest, case, damage)

\* What the log is after the damage to one of its lines, and what came after it.
LineLost(i) ==
    /\ Len(log) = Len(case) - 1
    /\ \A j \in 1..(i - 1) : log[j] = case[j]
    /\ \A j \in i..Len(log) : log[j] = case[j + 1]
LineTwice(i) ==
    /\ Len(log) = Len(case) + 1
    /\ \A j \in 1..i : log[j] = case[j]
    /\ \A j \in (i + 1)..Len(log) : log[j] = case[j - 1]
LineAltered(i) ==
    /\ Len(log) = Len(case)
    /\ \A j \in 1..Len(case) : j # i => log[j] = case[j]
    /\ log[i] \in {[case[i] EXCEPT !.data = "ALTERED"], [case[i] EXCEPT !.at = "ALTERED"],
                   [case[i] EXCEPT !.revision = Beyond]}

\* What the log is after a change that failed behind its line, at the line i.
LineStray(i) ==
    /\ Len(log) = Len(case) + 1
    /\ \A j \in 1..(i - 1) : log[j] = case[j]
    /\ \A j \in (i + 1)..Len(log) : log[j] = case[j - 1]
    /\ log[i].revision = i /\ log[i].prev = case[i - 1].hash /\ log[i].hash = Digest(log[i])

LogOK ==
    /\ IsHistory(log)
    /\ damage.of \notin {"LINE", "STRAY"} => log = case
    /\ damage.of = "STRAY" => LineStray(damage.at)
    /\ damage.of = "LINE" => LineLost(damage.at) \/ LineTwice(damage.at) \/ LineAltered(damage.at)

\* What a measurement report read before the events.
SeenBefore ==
    /\ IsHistory(query.seen) /\ Len(query.seen) \in 1..Len(case)
    /\ \A i \in 1..Len(query.seen) : query.seen[i] = case[i]

\* These are all events of the stage in the range, once and in order.
Complete(shows, h, stage, from, to) ==
    LET belongs == {i \in 1..Len(h) : /\ EvidenceStageForEvent(h[i].type) = stage
                                      /\ from <= i /\ i <= to}
    IN  /\ {shows[i] : i \in 1..Len(shows)} = {h[i] : i \in belongs}
        /\ Len(shows) = Cardinality(belongs)
        /\ \A i, j \in 1..Len(shows) : i < j => shows[i].revision < shows[j].revision

\* The event e is f, though perhaps with another time.
SameButTime(e, f) == [e EXCEPT !.at = f.at] = f

\* These are the events of the range, and the hashes at its ends theirs.
Proven(answer, h, from, to) ==
    /\ to <= Len(h)
    /\ \A i \in from..to : SameButTime(answer.shows[i - from + 1], h[i])
    /\ answer.last = h[to].hash
    /\ answer.prev = h[from].prev

BlamedForDamage ==
    query.answer.blamed =
        IF damage.at = 0 THEN 0
        ELSE IF damage.at > Len(log) THEN damage.at
        ELSE log[damage.at].revision

AnswerOK ==
    /\ query.kind = "REPORT" /\ query.answer.outcome = "OK" =>
          /\ query.answer.revision \in 1..Len(case)
          /\ Undamaged => query.answer.bound
                          = LatestMeasurement(SubSeq(case, 1, query.answer.revision))
    /\ query.kind \in {"MANIFEST", "CREDENTIAL"} /\ query.answer.outcome = "OK" =>
          /\ Sealed(case)
          /\ query.answer.revision = Len(case)
          /\ query.answer.last = HashOfLast(case)
          /\ query.seen = case
          /\ query.kind = "MANIFEST" => query.answer.shows = case
          /\ query.kind = "CREDENTIAL" =>
                Complete(query.answer.shows, case, query.stage, query.from, query.to)
    /\ query.kind = "REPORT" /\ query.answer.outcome = "UNVERIFIED" /\ Undamaged =>
          Len(query.seen) > query.answer.revision
    /\ query.kind = "CREDENTIAL" /\ query.answer.outcome = "UNVERIFIED" =>
          Sealed(case) /\ BlamedForDamage
    /\ query.kind \in {"MANIFEST", "CREDENTIAL", "AUDIT"} /\ query.answer.outcome = "UNVERIFIED"
          => ~Undamaged
    /\ query.kind \in {"MANIFEST", "CREDENTIAL", "DETAIL", "LIST"}
          /\ query.answer.outcome = "MISSING" => ~Undamaged
    /\ query.kind \in {"DETAIL", "LIST"} /\ query.answer.outcome = "OK" =>
          Sealed(case) /\ (Undamaged => query.answer.last = HashOfLast(case))
    /\ query.kind = "AUDIT" /\ query.answer.outcome = "OK" /\ damage.of # "STRAY"
          /\ query.to > 0 /\ query.answer.last # NoHash /\ Len(query.answer.shows) = query.to - query.from + 1 =>
          Proven(query.answer, case, query.from, query.to)

\* The handlers let through no range that ends before it begins.
RangeOK ==
    /\ query.from \in Nat /\ query.to \in Nat
    /\ query.kind = "AUDIT" =>
          query.from > 0 /\ query.to <= MaxRevision /\ (query.to = 0 \/ query.from <= query.to)

QueryOK ==
    /\ query = [kind |-> query.kind, step |-> query.step, stage |-> query.stage,
                from |-> query.from, to |-> query.to, seen |-> query.seen,
                manifest |-> query.manifest, answer |-> query.answer]
    /\ RangeOK
    /\ query.step = "CASE" =>
          query.kind \in {"REPORT", "MANIFEST", "CREDENTIAL", "DETAIL", "LIST"}
    /\ query.step = "MANIFEST" =>
          /\ query.kind \in {"MANIFEST", "CREDENTIAL", "DETAIL", "LIST"}
          /\ Sealed(case) /\ query.seen = case
    /\ query.step = "EVENTS" =>
          /\ query.kind \in {"REPORT", "MANIFEST", "CREDENTIAL", "AUDIT"}
          /\ query.kind = "REPORT" => SeenBefore
          /\ query.kind \in {"MANIFEST", "CREDENTIAL"} =>
                /\ Sealed(case) /\ query.seen = case
                /\ query.manifest # NoManifest /\ ManifestOf(query.manifest, case, damage)
    /\ query.step = "DONE" => AnswerOK

\* Whatever was asked, and whatever happened meanwhile, the answer is sound.
Sound == CaseOK /\ DamageOK /\ LogOK /\ SealingOK /\ QueryOK

-----------------------------------------------------------------------------
(* Commands *)

\* A whole case with one more event is whole.
LEMMA WholeGrows ==
    ASSUME NEW h, Whole(h), NEW type, NEW data, NEW at, data # "ALTERED", at # "ALTERED"
    PROVE  LET g == WithEvent(h, type, data, at)
           IN  /\ Whole(g) /\ Follows(g, h)
               /\ Sealed(g) <=> type = "SEALED"
    <1>1. PICK g : g = WithEvent(h, type, data, at)
        OBVIOUS
    <1>2. /\ Chain(g) /\ Len(g) = Len(h) + 1
          /\ \A i \in 1..Len(h) : g[i] = h[i]
          /\ g[Len(g)].type = type /\ g[Len(g)].data = data /\ g[Len(g)].at = at
          /\ IsEvent(g[Len(g)]) /\ g = Append(h, g[Len(g)])
        BY <1>1, ChainGrows DEF Whole
    <1>3. Len(h) \in Nat /\ Len(g) \in Nat /\ g # <<>>
        BY <1>2, HistoryLength DEF Whole, Chain
    <1>4. Whole(g)
        <2>1. ASSUME NEW i \in 1..Len(g) PROVE g[i].data # "ALTERED" /\ g[i].at # "ALTERED"
            <3>1. i \in 1..Len(h) \/ i = Len(g)
                BY <1>2, <1>3
            <3> QED
                BY <1>2, <3>1 DEF Whole
        <2> QED
            BY <1>2, <2>1 DEF Whole
    <1> QED
        BY <1>1, <1>2, <1>3, <1>4 DEF Follows, Sealed

\* The invariant holds at first.
LEMMA Opens ==
    ASSUME Init
    PROVE  Sound
    <1>1. Whole(<<>>) /\ Len(<<>>) = 0
        <2>1. <<>> \in Seq({}) /\ Len(<<>>) = 0
            OBVIOUS
        <2> QED
            BY <2>1 DEF Whole, Chain, IsHistory
    <1>2. Whole(case) /\ Follows(case, <<>>) /\ ~Sealed(case)
        BY <1>1, WholeGrows DEF Init
    <1>3. CaseOK
        BY <1>1, <1>2, QueryAssumptions DEF CaseOK, Follows
    <1>4. LogOK
        BY <1>2 DEF LogOK, Init, NoDamage, Whole, Chain
    <1>5. SealingOK /\ DamageOK
        BY <1>2 DEF SealingOK, Init, DamageOK
    <1>6. QueryOK
        BY DEF QueryOK, RangeOK, Init, Idle
    <1> QED
        BY <1>3, <1>4, <1>5, <1>6 DEF Sound

\* The log takes the event that the case takes.
LEMMA LogGrows ==
    ASSUME CaseOK, DamageOK, LogOK, NEW h, Whole(h), Follows(h, case), PutEvents(h),
           UNCHANGED damage
    PROVE  LogOK' /\ DamageOK'
    <1>1. case' = h /\ log' = Append(log, h[Len(h)]) /\ h = Append(case, h[Len(h)])
        BY DEF PutEvents, Follows
    <1>2. Len(case) \in Nat /\ Len(log) \in Nat /\ Len(h) = Len(case) + 1
        BY HistoryLength DEF CaseOK, LogOK, Whole, Chain, Follows
    <1>3. /\ IsHistory(log') /\ Len(log') = Len(log) + 1
          /\ \A i \in 1..Len(log) : log'[i] = log[i]
          /\ log'[Len(log) + 1] = h[Len(h)]
        BY <1>1, Appended DEF LogOK, Follows
    <1>4. \A i \in 1..Len(case) : h[i] = case[i]
        BY DEF Follows
    <1>5. DamageOK'
        BY <1>1, <1>2 DEF DamageOK
    <1>6. CASE damage.of \notin {"LINE", "STRAY"}
        BY <1>1, <1>3, <1>5, <1>6 DEF LogOK
    <1>8. CASE damage.of = "STRAY"
        <2>1. PICK i \in Nat : i = damage.at
            BY <1>2, <1>8 DEF DamageOK, NoDamage
        <2>2. i \in 2..(Len(case) + 1) /\ LineStray(i)
            BY <1>8, <2>1 DEF DamageOK, NoDamage, LogOK
        <2>3. Len(log') = Len(case') + 1
            BY <1>1, <1>2, <1>3, <2>2 DEF LineStray
        <2>4. \A j \in 1..(i - 1) : log'[j] = case'[j]
            <3> TAKE j \in 1..(i - 1)
            <3>1. j \in 1..Len(case) /\ j \in 1..Len(log)
                BY <1>2, <2>2 DEF LineStray
            <3> QED
                BY <1>1, <1>3, <1>4, <2>2, <3>1 DEF LineStray
        <2>5. ASSUME NEW j \in (i + 1)..Len(log') PROVE log'[j] = case'[j - 1]
            <3>1. CASE j \in (i + 1)..Len(log)
                <4>1. PICK k \in 1..Len(case) : k = j - 1
                    BY <1>2, <2>2, <3>1 DEF LineStray
                <4>2. j \in 1..Len(log)
                    BY <1>2, <2>2, <3>1
                <4>3. log'[j] = log[j] /\ log[j] = case[k]
                    BY <1>3, <2>2, <3>1, <4>1, <4>2 DEF LineStray
                <4> QED
                    BY <1>1, <1>4, <4>1, <4>3
            <3>2. CASE j = Len(log) + 1
                <4>1. j - 1 = Len(h)
                    BY <1>2, <2>2, <3>2 DEF LineStray
                <4> QED
                    BY <1>1, <1>3, <3>2, <4>1
            <3> QED
                BY <1>2, <1>3, <2>2, <3>1, <3>2
        <2>6. log'[i] = log[i] /\ case'[i - 1] = case[i - 1]
            <3>1. i \in 1..Len(log) /\ i - 1 \in 1..Len(case)
                BY <1>2, <2>2 DEF LineStray
            <3> QED
                BY <1>1, <1>3, <1>4, <3>1
        <2>7. LineStray(i)'
            BY <2>2, <2>3, <2>4, <2>5, <2>6 DEF LineStray
        <2>8. damage' = damage
            OBVIOUS
        <2> QED
            BY <1>3, <1>5, <1>8, <2>1, <2>7, <2>8 DEF LogOK
    <1>7. CASE damage.of = "LINE"
        <2>1. PICK i \in Nat : i = damage.at
            BY <1>7 DEF DamageOK, NoDamage
        <2>2. i \in 1..Len(case)
            BY <1>7, <2>1 DEF DamageOK, NoDamage
        <2>3. ASSUME LineLost(i) PROVE LineLost(i)'
            <3>1. Len(log') = Len(case') - 1
                BY <1>1, <1>2, <1>3, <2>3 DEF LineLost
            <3>2. \A j \in 1..(i - 1) : log'[j] = case'[j]
                BY <1>1, <1>2, <1>3, <1>4, <2>2, <2>3 DEF LineLost
            <3>3. ASSUME NEW j \in i..Len(log') PROVE log'[j] = case'[j + 1]
                <4>1. CASE j \in i..Len(log)
                    BY <1>1, <1>2, <1>3, <1>4, <2>2, <2>3, <4>1 DEF LineLost
                <4>2. CASE j = Len(log) + 1
                    <5>1. j + 1 = Len(h)
                        BY <1>2, <2>3, <4>2 DEF LineLost
                    <5> QED
                        BY <1>1, <1>3, <4>2, <5>1
                <4> QED
                    BY <1>2, <1>3, <2>2, <4>1, <4>2
            <3> QED
                BY <3>1, <3>2, <3>3 DEF LineLost
        <2>4. ASSUME LineTwice(i) PROVE LineTwice(i)'
            <3>1. Len(log') = Len(case') + 1
                BY <1>1, <1>2, <1>3, <2>4 DEF LineTwice
            <3>2. \A j \in 1..i : log'[j] = case'[j]
                BY <1>1, <1>2, <1>3, <1>4, <2>2, <2>4 DEF LineTwice
            <3>3. ASSUME NEW j \in (i + 1)..Len(log') PROVE log'[j] = case'[j - 1]
                <4>1. CASE j \in (i + 1)..Len(log)
                    <5>1. PICK k \in 1..Len(case) : k = j - 1
                        BY <1>2, <2>2, <2>4, <4>1 DEF LineTwice
                    <5>2. log'[j] = log[j] /\ log[j] = case[k]
                        BY <1>2, <1>3, <2>2, <2>4, <4>1, <5>1 DEF LineTwice
                    <5> QED
                        BY <1>1, <1>4, <5>1, <5>2
                <4>2. CASE j = Len(log) + 1
                    <5>1. j - 1 = Len(h)
                        BY <1>2, <2>4, <4>2 DEF LineTwice
                    <5> QED
                        BY <1>1, <1>3, <4>2, <5>1
                <4> QED
                    BY <1>2, <1>3, <2>2, <4>1, <4>2
            <3> QED
                BY <3>1, <3>2, <3>3 DEF LineTwice
        <2>5. ASSUME LineAltered(i) PROVE LineAltered(i)'
            <3>1. Len(log') = Len(case')
                BY <1>1, <1>2, <1>3, <2>5 DEF LineAltered
            <3>2. ASSUME NEW j \in 1..Len(case'), j # i PROVE log'[j] = case'[j]
                <4>1. CASE j \in 1..Len(case)
                    BY <1>1, <1>2, <1>3, <1>4, <2>2, <2>5, <3>2, <4>1 DEF LineAltered
                <4>2. CASE j = Len(h)
                    BY <1>1, <1>2, <1>3, <2>5, <4>2 DEF LineAltered
                <4>3. j \in 1..Len(case) \/ j = Len(h)
                    BY <1>1, <1>2
                <4> QED
                    BY <4>1, <4>2, <4>3
            <3>3. log'[i] = log[i] /\ case'[i] = case[i]
                BY <1>1, <1>2, <1>3, <1>4, <2>2, <2>5 DEF LineAltered
            <3> QED
                BY <2>5, <3>1, <3>2, <3>3 DEF LineAltered
        <2>6. damage' = damage
            OBVIOUS
        <2> QED
            BY <1>3, <1>5, <1>7, <2>1, <2>3, <2>4, <2>5, <2>6 DEF LogOK
    <1> QED
        BY <1>5, <1>6, <1>7, <1>8

\* A change that fails behind its line leaves the event that the case does not take.
LEMMA LeavesStray ==
    ASSUME CaseOK, DamageOK, LogOK, NEW h, Whole(h), Follows(h, case), StrayLine(h), case' = case
    PROVE  /\ LogOK' /\ DamageOK'
           /\ damage = NoDamage /\ damage' # NoDamage
    <1>1. /\ damage = NoDamage /\ log = case /\ log' = Append(case, h[Len(h)])
          /\ damage'.of = "STRAY" /\ damage'.at = Len(case) + 1 /\ damage' # NoDamage
        BY DEF StrayLine, LogOK, NoDamage
    <1>2. IsHistory(case) /\ Len(case) \in Nat /\ Len(case) > 0 /\ Len(h) = Len(case) + 1
        BY HistoryLength DEF CaseOK, Whole, Chain, Follows
    <1>3. /\ IsHistory(log') /\ Len(log') = Len(case) + 1
          /\ \A i \in 1..Len(case) : log'[i] = case[i]
          /\ log'[Len(case) + 1] = h[Len(h)]
        BY <1>1, <1>2, Appended DEF Follows
    <1>4. PICK i \in 2..(Len(case) + 1) : i = Len(case) + 1
        BY <1>2
    <1>5. /\ h[i].revision = i /\ h[i].prev = h[i - 1].hash /\ h[i].hash = Digest(h[i])
          /\ h[i - 1] = case[i - 1]
        <2>1. i \in 1..Len(h) /\ i > 1 /\ i - 1 \in 1..Len(case)
            BY <1>2, <1>4
        <2> QED
            BY <2>1 DEF Whole, Chain, Follows
    <1>6. LineStray(i)'
        <2>1. Len(log') = Len(case') + 1
            BY <1>3
        <2>2. \A j \in 1..(i - 1) : log'[j] = case'[j]
            BY <1>2, <1>3, <1>4
        <2>3. \A j \in (i + 1)..Len(log') : FALSE
            BY <1>2, <1>3, <1>4
        <2>4. log'[i] = h[i]
            BY <1>2, <1>3, <1>4
        <2> QED
            BY <1>5, <2>1, <2>2, <2>3, <2>4 DEF LineStray
    <1>7. LogOK'
        BY <1>1, <1>3, <1>4, <1>6 DEF LogOK
    <1>8. DamageOK'
        BY <1>1, <1>4 DEF DamageOK
    <1> QED
        BY <1>1, <1>7, <1>8

-----------------------------------------------------------------------------
(* The query waits while others act *)

\* A damage keeps what is known of a manifest that was read.
LEMMA ManifestWaits ==
    ASSUME NEW m, NEW h, NEW d, NEW e, ManifestOf(m, h, d), d = e \/ d = NoDamage
    PROVE  ManifestOf(m, h, e)
    BY DEF ManifestOf, NoDamage

\* A command or a damage between two reads of a query keeps what the query knows.
LEMMA QueryWaits ==
    ASSUME Sound, CaseOK', UNCHANGED query,
           \/ case' = case
           \/ ~Sealed(case) /\ Follows(case', case),
           damage' = damage \/ (damage = NoDamage /\ damage' # NoDamage),
           Sealed(case) /\ damage # NoDamage => log' = log
    PROVE  QueryOK'
    <1>1. IsHistory(case) /\ IsHistory(case') /\ Len(case) \in Nat /\ Len(case') \in Nat
        BY HistoryLength DEF Sound, CaseOK, Whole, Chain
    <1>2. Len(case) <= Len(case') /\ \A i \in 1..Len(case) : case'[i] = case[i]
        BY <1>1 DEF Follows
    <1>3. Sealed(case) => case' = case
        OBVIOUS
    <1>4. SeenBefore => SeenBefore'
        BY <1>1, <1>2 DEF SeenBefore
    <1>5. ASSUME Sealed(case), ManifestOf(query.manifest, case, damage)
          PROVE  ManifestOf(query.manifest, case, damage)'
        BY <1>3, <1>5, ManifestWaits
    <1>6. ASSUME NEW r \in 1..Len(case)
          PROVE  r \in 1..Len(case') /\ SubSeq(case', 1, r) = SubSeq(case, 1, r)
        <2>1. r \in 0..Len(case) /\ r \in 0..Len(case') /\ r \in 1..Len(case')
            BY <1>1, <1>2
        <2>2. /\ IsHistory(SubSeq(case, 1, r)) /\ Len(SubSeq(case, 1, r)) = r
              /\ \A i \in 1..r : SubSeq(case, 1, r)[i] = case[i]
            BY <1>1, <2>1, Prefix
        <2>3. /\ IsHistory(SubSeq(case', 1, r)) /\ Len(SubSeq(case', 1, r)) = r
              /\ \A i \in 1..r : SubSeq(case', 1, r)[i] = case'[i]
            BY <1>1, <2>1, Prefix
        <2>4. \A i \in 1..r : case'[i] = case[i]
            BY <1>1, <1>2
        <2> QED
            BY <2>1, <2>2, <2>3, <2>4, SameEvents
    <1>7. Undamaged' => Undamaged
        BY DEF Undamaged
    <1>8. ASSUME AnswerOK PROVE AnswerOK'
        <2>1. query.kind = "REPORT" /\ query.answer.outcome = "OK" =>
                 /\ query.answer.revision \in 1..Len(case')
                 /\ Undamaged' => query.answer.bound
                                  = LatestMeasurement(SubSeq(case', 1, query.answer.revision))
            BY <1>6, <1>7, <1>8 DEF AnswerOK
        <2>2. query.kind = "CREDENTIAL" /\ query.answer.outcome = "UNVERIFIED" =>
                 Sealed(case') /\ BlamedForDamage'
            <3> SUFFICES ASSUME query.kind = "CREDENTIAL", query.answer.outcome = "UNVERIFIED"
                         PROVE  Sealed(case') /\ BlamedForDamage'
                OBVIOUS
            <3>1. Sealed(case) /\ BlamedForDamage /\ damage # NoDamage
                BY <1>8 DEF AnswerOK, Undamaged
            <3> QED
                BY <1>3, <3>1 DEF BlamedForDamage
        <2>3. query.kind \in {"MANIFEST", "CREDENTIAL"} /\ query.answer.outcome = "OK" =>
                 /\ Sealed(case')
                 /\ query.answer.revision = Len(case')
                 /\ query.answer.last = HashOfLast(case')
                 /\ query.seen = case'
                 /\ query.kind = "MANIFEST" => query.answer.shows = case'
                 /\ query.kind = "CREDENTIAL" =>
                       Complete(query.answer.shows, case', query.stage, query.from, query.to)
            BY <1>3, <1>8 DEF AnswerOK
        <2>4. query.kind \in {"DETAIL", "LIST"} /\ query.answer.outcome = "OK" =>
                 Sealed(case') /\ (Undamaged' => query.answer.last = HashOfLast(case'))
            BY <1>3, <1>7, <1>8 DEF AnswerOK
        <2>5. ASSUME query.kind = "AUDIT", query.to > 0,
                     Proven(query.answer, case, query.from, query.to)
              PROVE  Proven(query.answer, case', query.from, query.to)
            <3>1. /\ query.from \in Nat /\ query.to \in Nat /\ query.from > 0
                  /\ query.from <= query.to
                BY <2>5 DEF Sound, QueryOK, RangeOK
            <3>2. query.to <= Len(case)
                BY <2>5 DEF Proven
            <3>3. \A i \in query.from..query.to : i \in 1..Len(case) /\ case'[i] = case[i]
                BY <1>1, <1>2, <3>1, <3>2
            <3>4. case'[query.from] = case[query.from] /\ case'[query.to] = case[query.to]
                BY <3>1, <3>3
            <3>5. query.to <= Len(case')
                BY <1>1, <1>2, <3>1, <3>2
            <3> QED
                BY <2>5, <3>3, <3>4, <3>5 DEF Proven
        <2>6. damage'.of # "STRAY" => damage.of # "STRAY"
            BY DEF NoDamage
        <2>7. query.kind = "AUDIT" /\ query.answer.outcome = "OK" /\ damage'.of # "STRAY"
                 /\ query.to > 0 /\ query.answer.last # NoHash
                 /\ Len(query.answer.shows) = query.to - query.from + 1 =>
                 Proven(query.answer, case', query.from, query.to)
            BY <1>8, <2>5, <2>6 DEF AnswerOK
        <2> QED
            BY <1>7, <1>8, <2>1, <2>2, <2>3, <2>4, <2>7 DEF AnswerOK
    <1> QED
        BY <1>3, <1>4, <1>5, <1>8 DEF Sound, QueryOK, RangeOK

\* A command that records an event keeps the invariant.
LEMMA RecordIsSound ==
    ASSUME Sound, NEW type \in Types, NEW data \in Values \cup {"OTHER"}, Record(type, data)
    PROVE  Sound'
    <1>1. PICK h : h = WithEvent(case, type, data, "TIME")
        OBVIOUS
    <1>2. Whole(h) /\ Follows(h, case) /\ ~Sealed(h)
        <2>1. data # "ALTERED" /\ type # "SEALED"
            BY QueryAssumptions
        <2> QED
            BY <1>1, <2>1, WholeGrows DEF Sound, CaseOK
    <1>3. /\ PutEvents(h) /\ case' = h /\ sealing = <<>> /\ ~Sealed(case)
          /\ Len(case) < MaxRevision - 1
          /\ UNCHANGED <<manifest, sealing, damage, query>>
        BY <1>1 DEF Record, CanRecord, PutEvents
    <1>4. LogOK' /\ DamageOK'
        BY <1>2, <1>3, LogGrows DEF Sound
    <1>5. CaseOK'
        BY <1>2, <1>3, QueryAssumptions DEF Sound, CaseOK, Follows
    <1>6. SealingOK'
        BY <1>2, <1>3 DEF SealingOK
    <1>7. QueryOK'
        BY <1>2, <1>3, <1>5, QueryWaits
    <1> QED
        BY <1>4, <1>5, <1>6, <1>7 DEF Sound

\* A command that fails behind its line keeps the invariant.
LEMMA FailToRecordIsSound ==
    ASSUME Sound, NEW type \in Types, NEW data \in Values \cup {"OTHER"}, FailToRecord(type, data)
    PROVE  Sound'
    <1>1. PICK h : h = WithEvent(case, type, data, "TIME")
        OBVIOUS
    <1>2. Whole(h) /\ Follows(h, case)
        <2>1. data # "ALTERED"
            BY QueryAssumptions
        <2> QED
            BY <1>1, <2>1, WholeGrows DEF Sound, CaseOK
    <1>3. StrayLine(h) /\ ~Sealed(case) /\ sealing = <<>> /\ UNCHANGED <<case, manifest, sealing, query>>
        BY <1>1 DEF FailToRecord, CanRecord
    <1>4. LogOK' /\ DamageOK' /\ damage = NoDamage /\ damage' # NoDamage
        BY <1>2, <1>3, LeavesStray DEF Sound
    <1>5. CaseOK'
        BY <1>3 DEF Sound, CaseOK
    <1>6. SealingOK'
        BY <1>3 DEF SealingOK
    <1>7. QueryOK'
        BY <1>3, <1>4, <1>5, QueryWaits
    <1> QED
        BY <1>4, <1>5, <1>6, <1>7 DEF Sound

\* Writing the manifest before the case is sealed keeps the invariant.
LEMMA SaveManifestIsSound ==
    ASSUME Sound, SaveManifest
    PROVE  Sound'
    <1>1. PICK h : h = WithEvent(case, "SEALED", "OTHER", "TIME")
        OBVIOUS
    <1>2. Whole(h) /\ Follows(h, case) /\ Sealed(h)
        BY <1>1, WholeGrows DEF Sound, CaseOK
    <1>3. /\ sealing' = h /\ manifest' = SealOf(h) /\ ~Sealed(case) /\ Len(case) > 1
          /\ UNCHANGED <<case, log, damage, query>>
        BY <1>1 DEF SaveManifest, SavedManifest
    <1>4. CaseOK' /\ DamageOK' /\ LogOK'
        BY <1>3 DEF Sound, CaseOK, DamageOK, LogOK, LineLost, LineTwice, LineAltered, LineStray
    <1>5. SealingOK'
        BY <1>2, <1>3 DEF SealingOK, ManifestOf
    <1>6. QueryOK'
        BY <1>3, <1>4, QueryWaits
    <1> QED
        BY <1>4, <1>5, <1>6 DEF Sound

\* Storing the sealed case keeps the invariant.
LEMMA PutSealedIsSound ==
    ASSUME Sound, PutSealed
    PROVE  Sound'
    <1>1. PICK h : h = sealing
        OBVIOUS
    <1>2. /\ Whole(h) /\ Follows(h, case) /\ Sealed(h) /\ ~Sealed(case) /\ Len(case) > 1
          /\ ManifestOf(manifest, h, damage)
        BY <1>1 DEF PutSealed, Sound, SealingOK
    <1>3. /\ PutEvents(h) /\ case' = h /\ sealing' = <<>>
          /\ UNCHANGED <<manifest, damage, query>>
        BY <1>1 DEF PutSealed, PutEvents
    <1>4. LogOK' /\ DamageOK'
        BY <1>2, <1>3, LogGrows DEF Sound
    <1>5. CaseOK'
        BY <1>2, <1>3, QueryAssumptions DEF Sound, CaseOK, Follows
    <1>6. SealingOK'
        BY <1>2, <1>3 DEF SealingOK
    <1>7. QueryOK'
        BY <1>2, <1>3, <1>5, QueryWaits
    <1> QED
        BY <1>4, <1>5, <1>6, <1>7 DEF Sound

\* A seal that fails behind the manifest, or behind its line too, keeps the invariant.
LEMMA FailToSealIsSound ==
    ASSUME Sound, FailToSeal
    PROVE  Sound'
    <1>1. /\ sealing # <<>> /\ sealing' = <<>> /\ UNCHANGED <<case, manifest, query>>
          /\ StrayLine(sealing) \/ UNCHANGED <<log, damage>>
        BY DEF FailToSeal
    <1>2. Whole(sealing) /\ Follows(sealing, case) /\ ~Sealed(case)
        BY <1>1 DEF Sound, SealingOK
    <1>3. CaseOK' /\ SealingOK'
        BY <1>1, <1>2 DEF Sound, CaseOK, SealingOK
    <1>4. /\ DamageOK' /\ LogOK'
          /\ damage' = damage \/ (damage = NoDamage /\ damage' # NoDamage)
        <2>1. CASE StrayLine(sealing)
            BY <1>1, <1>2, <2>1, LeavesStray DEF Sound
        <2>2. CASE UNCHANGED <<log, damage>>
            BY <1>1, <2>2
            DEF Sound, DamageOK, LogOK, LineLost, LineTwice, LineAltered, LineStray
        <2> QED
            BY <1>1, <2>1, <2>2
    <1>5. QueryOK'
        BY <1>1, <1>2, <1>3, <1>4, QueryWaits
    <1> QED
        BY <1>3, <1>4, <1>5 DEF Sound

-----------------------------------------------------------------------------
(* Damage *)

\* A damaged line of the log keeps the invariant: it was lost, doubled or altered.
LEMMA DamageLineIsSound ==
    ASSUME Sound, NEW i \in 1..Len(log), DamageLine(i)
    PROVE  Sound'
    <1>1. /\ damage = NoDamage /\ log = case /\ damage'.of = "LINE" /\ damage'.at = i
          /\ damage' # NoDamage /\ UNCHANGED <<case, manifest, sealing, query>>
        BY DEF DamageLine, Sound, LogOK, NoDamage
    <1>2. Whole(case) /\ IsHistory(case) /\ Len(case) \in Nat /\ i \in 1..Len(case)
        BY <1>1, HistoryLength DEF Sound, CaseOK, Whole, Chain
    <1>3. IsEvent(case[i])
        BY <1>2 DEF IsHistory
    <1>4. log' \in {WithoutLine(i), WithLineTwice(i),
                    [case EXCEPT ![i].data = "ALTERED"],
                    [case EXCEPT ![i].at = "ALTERED"],
                    [case EXCEPT ![i].revision = Beyond]}
        BY <1>1 DEF DamageLine
    <1>5. ASSUME log' = WithoutLine(i)
          PROVE  IsHistory(log') /\ LineLost(i)'
        <2>1. PICK m \in 0..Len(case) : m = i - 1
            BY <1>2
        <2>2. PICK n \in 1..(Len(case) + 1) : n = i + 1
            BY <1>2
        <2>3. log' = SubSeq(case, 1, m) \o SubSeq(case, n, Len(case))
            BY <1>1, <1>5, <2>1, <2>2 DEF WithoutLine
        <2>4. /\ IsHistory(log') /\ Len(log') = m + (Len(case) - n + 1)
              /\ \A j \in 1..m : log'[j] = case[j]
              /\ \A j \in (m + 1)..Len(log') : log'[j] = case[j - m + n - 1]
            BY <1>2, <2>3, Spliced
        <2>5. Len(log') = Len(case) - 1
            BY <1>2, <2>1, <2>2, <2>4
        <2>6. \A j \in i..Len(log') : log'[j] = case[j + 1]
            <3> TAKE j \in i..Len(log')
            <3>1. j \in (m + 1)..Len(log') /\ j - m + n - 1 = j + 1
                BY <1>2, <2>1, <2>2, <2>5
            <3> QED
                BY <2>4, <3>1
        <2> QED
            BY <1>1, <2>1, <2>4, <2>5, <2>6 DEF LineLost
    <1>6. ASSUME log' = WithLineTwice(i)
          PROVE  IsHistory(log') /\ LineTwice(i)'
        <2>1. i \in 0..Len(case) /\ i \in 1..(Len(case) + 1)
            BY <1>2
        <2>2. log' = SubSeq(case, 1, i) \o SubSeq(case, i, Len(case))
            BY <1>1, <1>6 DEF WithLineTwice
        <2>3. /\ IsHistory(log') /\ Len(log') = i + (Len(case) - i + 1)
              /\ \A j \in 1..i : log'[j] = case[j]
              /\ \A j \in (i + 1)..Len(log') : log'[j] = case[j - i + i - 1]
            BY <1>2, <2>1, <2>2, Spliced
        <2>4. Len(log') = Len(case) + 1
            BY <1>2, <2>3
        <2>5. \A j \in (i + 1)..Len(log') : log'[j] = case[j - 1]
            <3> TAKE j \in (i + 1)..Len(log')
            <3>1. j - i + i - 1 = j - 1
                BY <1>2, <2>4
            <3> QED
                BY <2>3, <3>1
        <2> QED
            BY <1>1, <2>3, <2>4, <2>5 DEF LineTwice
    <1>7. ASSUME NEW e \in {[case[i] EXCEPT !.data = "ALTERED"], [case[i] EXCEPT !.at = "ALTERED"],
                            [case[i] EXCEPT !.revision = Beyond]},
                 log' = [case EXCEPT ![i] = e]
          PROVE  IsHistory(log') /\ LineAltered(i)'
        <2>1. IsEvent(e)
            <3>1. Beyond \in Nat
                BY QueryAssumptions DEF Beyond
            <3> QED
                BY <1>3, <3>1 DEF IsEvent
        <2>2. /\ IsHistory(log') /\ Len(log') = Len(case)
              /\ \A j \in 1..Len(case) : log'[j] = IF j = i THEN e ELSE case[j]
            <3>1. /\ IsHistory([case EXCEPT ![i] = e]) /\ Len([case EXCEPT ![i] = e]) = Len(case)
                  /\ \A j \in 1..Len(case) :
                        [case EXCEPT ![i] = e][j] = IF j = i THEN e ELSE case[j]
                BY <1>2, <2>1, Altered
            <3> QED
                BY <1>7, <3>1
        <2>3. \A j \in 1..Len(case) : j # i => log'[j] = case[j]
            BY <2>2
        <2>4. log'[i] = e
            BY <1>2, <2>2
        <2> QED
            BY <1>1, <2>2, <2>3, <2>4 DEF LineAltered
    <1>8. IsHistory(log') /\ (LineLost(i)' \/ LineTwice(i)' \/ LineAltered(i)')
        BY <1>4, <1>5, <1>6, <1>7
    <1>9. LogOK'
        BY <1>1, <1>8 DEF LogOK
    <1>10. DamageOK' /\ CaseOK'
        BY <1>1, <1>2 DEF DamageOK, Sound, CaseOK
    <1>11. SealingOK'
        BY <1>1, ManifestWaits DEF Sound, SealingOK
    <1>12. QueryOK'
        BY <1>1, <1>10, QueryWaits
    <1> QED
        BY <1>9, <1>10, <1>11, <1>12 DEF Sound

\* An altered entry is not the event any more; the sum is that of the events.
LEMMA EntryAltered ==
    ASSUME NEW h, Whole(h), NEW i \in 1..Len(h), NEW m,
           m \in {[SealOf(h) EXCEPT !.entries[i].data = "ALTERED"],
                  [SealOf(h) EXCEPT !.entries[i].at = "ALTERED"]}
    PROVE  /\ m.sum = h /\ Len(m.entries) = Len(h)
           /\ m.entries[i] # h[i]
           /\ \A j \in 1..Len(h) : j # i => m.entries[j] = h[j]
    <1>1. IsHistory(h) /\ IsEvent(h[i]) /\ h[i].data # "ALTERED" /\ h[i].at # "ALTERED"
        BY DEF Whole, Chain, IsHistory
    <1>2. PICK e \in {[h[i] EXCEPT !.data = "ALTERED"], [h[i] EXCEPT !.at = "ALTERED"]} :
             m.sum = h /\ m.entries = [h EXCEPT ![i] = e]
        BY DEF SealOf, Build
    <1>3. IsEvent(e) /\ e # h[i]
        BY <1>1 DEF IsEvent
    <1>4. /\ Len(m.entries) = Len(h)
          /\ \A j \in 1..Len(h) : m.entries[j] = IF j = i THEN e ELSE h[j]
        BY <1>1, <1>2, <1>3, Altered
    <1> QED
        BY <1>2, <1>3, <1>4

\* A damaged entry of the manifest keeps the invariant.
LEMMA DamageEntryIsSound ==
    ASSUME Sound, NEW i \in 1..Len(manifest.entries), DamageEntry(i)
    PROVE  Sound'
    <1>1. /\ damage = NoDamage /\ damage'.of = "ENTRY" /\ damage'.at = i
          /\ damage' # NoDamage /\ UNCHANGED <<case, log, sealing, query>>
        BY DEF DamageEntry, NoDamage
    <1>2. LogOK' /\ DamageOK' /\ CaseOK'
        BY <1>1 DEF LogOK, DamageOK, Sound, CaseOK, NoDamage
    <1>3. ASSUME NEW h, Whole(h), ManifestOf(manifest, h, damage)
          PROVE  ManifestOf(manifest, h, damage)'
        <2>1. manifest = SealOf(h) /\ manifest.entries = h
            BY <1>1, <1>3 DEF ManifestOf, NoDamage, SealOf, Build
        <2>2. manifest' \in {[SealOf(h) EXCEPT !.entries[i].data = "ALTERED"],
                             [SealOf(h) EXCEPT !.entries[i].at = "ALTERED"]}
            BY <2>1 DEF DamageEntry
        <2>3. i \in 1..Len(h)
            BY <2>1
        <2>4. /\ manifest'.sum = h /\ Len(manifest'.entries) = Len(h)
              /\ manifest'.entries[i] # h[i]
              /\ \A j \in 1..Len(h) : j # i => manifest'.entries[j] = h[j]
            BY <1>3, <2>2, <2>3, EntryAltered
        <2> QED
            BY <1>1, <2>3, <2>4 DEF ManifestOf
    <1>4. SealingOK'
        BY <1>1, <1>3 DEF Sound, SealingOK, CaseOK
    <1>5. QueryOK'
        BY <1>1, <1>2, QueryWaits
    <1> QED
        BY <1>2, <1>4, <1>5 DEF Sound

\* A damaged head of the manifest keeps the invariant.
LEMMA DamageManifestIsSound ==
    ASSUME Sound, DamageManifest
    PROVE  Sound'
    <1>1. /\ damage = NoDamage /\ damage'.of = "MANIFEST" /\ damage'.at = 0
          /\ damage' # NoDamage /\ UNCHANGED <<case, log, sealing, query>>
        BY DEF DamageManifest, NoDamage
    <1>2. LogOK' /\ DamageOK' /\ CaseOK'
        BY <1>1 DEF LogOK, DamageOK, Sound, CaseOK, NoDamage
    <1>3. ASSUME NEW h, ManifestOf(manifest, h, damage)
          PROVE  ManifestOf(manifest, h, damage)'
        <2>1. manifest = SealOf(h)
            BY <1>1, <1>3 DEF ManifestOf, NoDamage
        <2>2. manifest' = NoManifest \/ manifest'.entries = h
            BY <2>1 DEF DamageManifest, SealOf, Build
        <2> QED
            BY <1>1, <2>2 DEF ManifestOf
    <1>4. SealingOK'
        BY <1>1, <1>3 DEF Sound, SealingOK
    <1>5. QueryOK'
        BY <1>1, <1>2, QueryWaits
    <1> QED
        BY <1>2, <1>4, <1>5 DEF Sound

-----------------------------------------------------------------------------
(* Asking *)

\* A step of a query leaves the files as they were.
LEMMA OthersStay ==
    ASSUME Sound, UNCHANGED <<case, log, manifest, sealing, damage>>
    PROVE  CaseOK' /\ DamageOK' /\ LogOK' /\ SealingOK'
    BY DEF Sound, CaseOK, DamageOK, LogOK, LineLost, LineTwice, LineAltered, LineStray, SealingOK

\* A query that starts keeps the invariant, whatever it asks.
LEMMA AskIsSound ==
    ASSUME Sound, NEW q, Ask(q),
           q = [kind |-> q.kind, step |-> q.step, stage |-> q.stage, from |-> q.from, to |-> q.to,
                seen |-> q.seen, manifest |-> q.manifest, answer |-> q.answer],
           q.from \in Nat /\ q.to \in Nat,
           \/ q.step = "CASE" /\ q.kind \in {"REPORT", "MANIFEST", "CREDENTIAL", "DETAIL", "LIST"}
           \/ /\ q.step = "EVENTS" /\ q.kind = "AUDIT"
              /\ q.from > 0 /\ q.to <= MaxRevision /\ (q.to = 0 \/ q.from <= q.to)
    PROVE  Sound'
    <1>1. query' = q /\ UNCHANGED <<case, log, manifest, sealing, damage>>
        BY DEF Ask
    <1>2. QueryOK'
        BY <1>1 DEF QueryOK, RangeOK
    <1> QED
        BY <1>1, <1>2, OthersStay DEF Sound

\* ... a query about a case,
LEMMA AskAboutIsSound ==
    ASSUME Sound, NEW kind \in {"REPORT", "MANIFEST", "DETAIL", "LIST"}, AskAbout(kind)
    PROVE  Sound'
    <1>1. PICK q : q = [Idle EXCEPT !.kind = kind, !.step = "CASE"]
        OBVIOUS
    <1>2. /\ q = [kind |-> q.kind, step |-> q.step, stage |-> q.stage, from |-> q.from,
                  to |-> q.to, seen |-> q.seen, manifest |-> q.manifest, answer |-> q.answer]
          /\ q.kind = kind /\ q.step = "CASE" /\ q.from = 0 /\ q.to = 0
        BY <1>1 DEF Idle
    <1>3. Ask(q)
        BY <1>1 DEF AskAbout
    <1> QED
        BY <1>2, <1>3, AskIsSound

\* ... an audit of a range,
LEMMA AskAuditIsSound ==
    ASSUME Sound, NEW from \in 1..MaxRevision, NEW to \in 0..MaxRevision, AskAudit(from, to)
    PROVE  Sound'
    <1>1. PICK q : q = [Idle EXCEPT !.kind = "AUDIT", !.step = "EVENTS", !.from = from, !.to = to]
        OBVIOUS
    <1>2. /\ q = [kind |-> q.kind, step |-> q.step, stage |-> q.stage, from |-> q.from,
                  to |-> q.to, seen |-> q.seen, manifest |-> q.manifest, answer |-> q.answer]
          /\ q.kind = "AUDIT" /\ q.step = "EVENTS" /\ q.from = from /\ q.to = to
        BY <1>1 DEF Idle
    <1>4. from \in Nat /\ to \in Nat /\ from > 0 /\ to <= MaxRevision /\ (to = 0 \/ from <= to)
        BY QueryAssumptions DEF AskAudit
    <1>3. Ask(q)
        BY <1>1 DEF AskAudit
    <1> QED
        BY <1>2, <1>3, <1>4, AskIsSound

\* ... a credential of a stage in a range.
LEMMA AskCredentialIsSound ==
    ASSUME Sound, NEW stage, NEW from \in 1..MaxRevision, NEW to \in 0..MaxRevision,
           AskCredential(stage, from, to)
    PROVE  Sound'
    <1>1. PICK q : q = [Idle EXCEPT !.kind = "CREDENTIAL", !.step = "CASE", !.stage = stage,
                                    !.from = from, !.to = IF to = 0 THEN Len(case) ELSE to]
        OBVIOUS
    <1>2. /\ q = [kind |-> q.kind, step |-> q.step, stage |-> q.stage, from |-> q.from,
                  to |-> q.to, seen |-> q.seen, manifest |-> q.manifest, answer |-> q.answer]
          /\ q.kind = "CREDENTIAL" /\ q.step = "CASE"
          /\ q.from = from /\ q.to = IF to = 0 THEN Len(case) ELSE to
        BY <1>1 DEF Idle
    <1>4. from \in Nat /\ to \in Nat /\ Len(case) \in Nat
        BY QueryAssumptions, HistoryLength DEF Sound, CaseOK, Whole, Chain
    <1>3. Ask(q)
        BY <1>1 DEF AskCredential
    <1> QED
        BY <1>2, <1>3, <1>4, AskIsSound

\* A query that ends keeps the invariant.
LEMMA CloseIsSound ==
    ASSUME Sound, Close
    PROVE  Sound'
    <1>1. query' = Idle /\ UNCHANGED <<case, log, manifest, sealing, damage>>
        BY DEF Close
    <1>2. QueryOK'
        BY <1>1 DEF QueryOK, RangeOK, Idle
    <1> QED
        BY <1>1, <1>2, OthersStay DEF Sound

-----------------------------------------------------------------------------
(* Reading the case and the manifest *)

\* What an answer does to the query.
LEMMA AnswerIs ==
    ASSUME QueryOK, NEW events, NEW a, AnswerFrom(events, a)
    PROVE  /\ query' = [kind |-> query.kind, step |-> "DONE", stage |-> query.stage,
                        from |-> query.from, to |-> query.to, seen |-> events,
                        manifest |-> NoManifest, answer |-> a]
           /\ query'.kind = query.kind /\ query'.step = "DONE" /\ query'.stage = query.stage
           /\ query'.from = query.from /\ query'.to = query.to
           /\ query'.seen = events /\ query'.answer = a
    BY DEF QueryOK, AnswerFrom

\* What is left to show of an answer.
LEMMA AnswerIsSound ==
    ASSUME Sound, NEW events, NEW a, AnswerFrom(events, a),
           UNCHANGED <<case, log, manifest, sealing, damage>>, AnswerOK'
    PROVE  Sound'
    <1>1. QueryOK'
        BY AnswerIs DEF Sound, QueryOK, RangeOK
    <1> QED
        BY <1>1, OthersStay DEF Sound

\* A query that is refused keeps the invariant.
LEMMA RefusalIsSound ==
    ASSUME Sound, NEW why \in {"UNSEALED", "RANGE"}, Refuse(why),
           UNCHANGED <<case, log, manifest, sealing, damage>>
    PROVE  Sound'
    <1>1. PICK a : a = [NoAnswer EXCEPT !.outcome = why]
        OBVIOUS
    <1>2. AnswerFrom(<<>>, a) /\ a.outcome = why
        BY <1>1 DEF Refuse, Answer, NoAnswer
    <1>3. AnswerOK'
        BY <1>2, AnswerIs DEF Sound, AnswerOK
    <1> QED
        BY <1>2, <1>3, AnswerIsSound

\* The read of the case keeps the invariant: it is the case of this moment.
LEMMA ReadCaseIsSound ==
    ASSUME Sound, ReadCase
    PROVE  Sound'
    <1>1. UNCHANGED <<case, log, manifest, sealing, damage>> /\ query.step = "CASE"
        BY DEF ReadCase
    <1>2. CASE query.kind = "REPORT" /\ query' = [query EXCEPT !.step = "EVENTS", !.seen = case]
        <2>1. IsHistory(case) /\ Len(case) \in 1..Len(case)
            BY HistoryLength DEF Sound, CaseOK, Whole, Chain
        <2>2. query' = [kind |-> query.kind, step |-> "EVENTS", stage |-> query.stage,
                        from |-> query.from, to |-> query.to, seen |-> case,
                        manifest |-> query.manifest, answer |-> query.answer]
            BY <1>2 DEF Sound, QueryOK
        <2>3. SeenBefore'
            BY <1>1, <2>1, <2>2 DEF SeenBefore
        <2>4. QueryOK'
            BY <1>2, <2>2, <2>3 DEF Sound, QueryOK, RangeOK
        <2> QED
            BY <1>1, <2>4, OthersStay DEF Sound
    <1>3. CASE Refuse("UNSEALED") \/ Refuse("RANGE")
        BY <1>1, <1>3, RefusalIsSound
    <1>4. CASE /\ query.kind # "REPORT" /\ Sealed(case)
               /\ query' = [query EXCEPT !.step = "MANIFEST", !.seen = case]
        <2>1. query' = [kind |-> query.kind, step |-> "MANIFEST", stage |-> query.stage,
                        from |-> query.from, to |-> query.to, seen |-> case,
                        manifest |-> query.manifest, answer |-> query.answer]
            BY <1>4 DEF Sound, QueryOK
        <2>2. query.kind \in {"MANIFEST", "CREDENTIAL", "DETAIL", "LIST"}
            BY <1>1, <1>4 DEF Sound, QueryOK
        <2>3. QueryOK'
            BY <1>1, <1>4, <2>1, <2>2 DEF Sound, QueryOK, RangeOK
        <2> QED
            BY <1>1, <2>3, OthersStay DEF Sound
    <1> QED
        BY <1>2, <1>3, <1>4 DEF ReadCase

\* The manifest of a sealed case that nobody touched is there, and is the seal's.
LEMMA UntouchedManifest ==
    ASSUME Sound, Sealed(case)
    PROVE  /\ Build(case, "").root = HashOfLast(case)
           /\ Undamaged => manifest # NoManifest /\ manifest.root = HashOfLast(case)
    <1>1. SealOf(case).entries = case /\ NoManifest.entries = <<>>
        BY DEF SealOf, Build, NoManifest
    <1>2. case # <<>>
        BY DEF Sealed
    <1>3. Undamaged => manifest = SealOf(case)
        BY DEF Sound, SealingOK, ManifestOf, Undamaged, NoDamage
    <1>4. SealOf(case).root = HashOfLast(case) /\ Build(case, "").root = HashOfLast(case)
        BY DEF SealOf, Build
    <1> QED
        BY <1>1, <1>2, <1>3, <1>4

\* The read of the manifest keeps the invariant.
LEMMA ReadManifestIsSound ==
    ASSUME Sound, ReadManifest
    PROVE  Sound'
    <1>1. /\ UNCHANGED <<case, log, manifest, sealing, damage>> /\ query.step = "MANIFEST"
          /\ query.kind \in {"MANIFEST", "CREDENTIAL", "DETAIL", "LIST"}
          /\ Sealed(case) /\ query.seen = case
        BY DEF ReadManifest, Sound, QueryOK
    <1>2. ASSUME NEW m, query.kind \in {"DETAIL", "LIST"}, Answer(Shown(m)),
                 Undamaged => m.root = HashOfLast(case)
          PROVE  Sound'
        <2>1. PICK a : a = Shown(m)
            OBVIOUS
        <2>2. a.outcome = "OK" /\ a.last = m.root
            BY <2>1 DEF Shown, NoAnswer
        <2>3. AnswerFrom(<<>>, a)
            BY <1>2, <2>1 DEF Answer
        <2>4. AnswerOK'
            BY <1>1, <1>2, <2>2, <2>3, AnswerIs
            DEF Sound, AnswerOK, Undamaged
        <2> QED
            BY <1>1, <2>3, <2>4, AnswerIsSound
    <1>3. CASE query.kind = "DETAIL"
               /\ Answer(Shown(IF manifest = NoManifest THEN Build(case, "") ELSE manifest))
        <2>1. PICK m : m = IF manifest = NoManifest THEN Build(case, "") ELSE manifest
            OBVIOUS
        <2>2. Undamaged => m.root = HashOfLast(case)
            BY <1>1, <2>1, UntouchedManifest
        <2>3. Answer(Shown(m)) /\ query.kind \in {"DETAIL", "LIST"}
            BY <1>3, <2>1, Zenon
        <2> QED
            BY <1>2, <2>2, <2>3
    <1>4. CASE query.kind = "LIST" /\ Answer(Shown(manifest))
        <2>1. PICK m : m = manifest
            OBVIOUS
        <2>2. Undamaged => m.root = HashOfLast(case)
            BY <1>1, <2>1, UntouchedManifest
        <2>3. Answer(Shown(m)) /\ query.kind \in {"DETAIL", "LIST"}
            BY <1>4, <2>1, Zenon
        <2> QED
            BY <1>2, <2>2, <2>3
    <1>5. CASE manifest = NoManifest /\ Refuse("MISSING")
        <2>1. PICK a : a = [NoAnswer EXCEPT !.outcome = "MISSING"]
            OBVIOUS
        <2>2. AnswerFrom(<<>>, a) /\ a.outcome = "MISSING"
            BY <1>5, <2>1 DEF Refuse, Answer, NoAnswer
        <2>3. ~Undamaged
            BY <1>1, <1>5, UntouchedManifest
        <2>4. AnswerOK'
            BY <1>1, <2>2, <2>3, AnswerIs DEF Sound, AnswerOK, Undamaged
        <2> QED
            BY <1>1, <2>2, <2>4, AnswerIsSound
    <1>6. CASE /\ query.kind \in {"MANIFEST", "CREDENTIAL"} /\ manifest # NoManifest
               /\ query' = [query EXCEPT !.step = "EVENTS", !.manifest = manifest]
        <2>1. query' = [kind |-> query.kind, step |-> "EVENTS", stage |-> query.stage,
                        from |-> query.from, to |-> query.to, seen |-> query.seen,
                        manifest |-> manifest, answer |-> query.answer]
            BY <1>6 DEF Sound, QueryOK
        <2>2. ManifestOf(manifest, case, damage)
            BY <1>1 DEF Sound, SealingOK
        <2>3. QueryOK'
            BY <1>1, <1>6, <2>1, <2>2 DEF Sound, QueryOK, RangeOK
        <2> QED
            BY <1>1, <2>3, OthersStay DEF Sound
    <1> QED
        BY <1>3, <1>4, <1>5, <1>6 DEF ReadManifest

-----------------------------------------------------------------------------
(* Reading the events *)

\* What the read of the events finds, with the case or in the log.
LEMMA EventsRead ==
    ASSUME Sound
    PROVE  /\ damage.of \notin {"LINE", "STRAY"} => Events = case
           /\ Undamaged => Events = case
           /\ log # <<>> => Events = log
           /\ Len(Events) \in Nat
    <1>1. damage.of \notin {"LINE", "STRAY"} => log = case
        BY DEF Sound, LogOK
    <1>2. Undamaged => damage.of \notin {"LINE", "STRAY"}
        BY DEF Undamaged, NoDamage
    <1>3. Len(log) \in Nat /\ Len(case) \in Nat
        BY HistoryLength DEF Sound, LogOK, CaseOK, Whole, Chain
    <1> QED
        BY <1>1, <1>2, <1>3 DEF Events

\* What a measurement report shows is of the revision it names.
LEMMA ReportHolds ==
    ASSUME Sound, query.step = "EVENTS", query.kind = "REPORT",
           NEW a, a = MeasurementReport(query.seen, Events), a.outcome = "OK"
    PROVE  /\ a.revision \in 1..Len(case)
           /\ Undamaged => a.bound = LatestMeasurement(SubSeq(case, 1, a.revision))
    <1>1. SeenBefore
        BY DEF Sound, QueryOK
    <1>2. PICK latest : latest = LatestMeasurement(Events)
        OBVIOUS
    <1>3. /\ latest # 0 /\ Len(query.seen) = Len(Events)
          /\ a.revision = Len(query.seen) /\ a.bound = Events[latest].revision
        BY <1>2 DEF MeasurementReport, SameMoment, NoAnswer
    <1>4. a.revision \in 1..Len(case)
        BY <1>1, <1>3 DEF SeenBefore
    <1>5. ASSUME Undamaged PROVE a.bound = LatestMeasurement(SubSeq(case, 1, a.revision))
        <2>1. Events = case /\ IsHistory(case) /\ Len(case) \in Nat
            BY <1>5, EventsRead, HistoryLength DEF Sound, CaseOK, Whole, Chain
        <2>2. SubSeq(case, 1, Len(case)) = case
            <3>1. Len(case) \in 0..Len(case)
                BY <2>1
            <3>2. /\ IsHistory(SubSeq(case, 1, Len(case)))
                  /\ Len(SubSeq(case, 1, Len(case))) = Len(case)
                  /\ \A i \in 1..Len(case) : SubSeq(case, 1, Len(case))[i] = case[i]
                BY <2>1, <3>1, Prefix
            <3> QED
                BY <2>1, <3>2, SameEvents
        <2>3. latest \in 1..Len(case)
            <3> DEFINE T == {i \in 1..Len(case) : case[i].type \in Measuring} \cup {0}
            <3>1. T \in SUBSET (0..Len(case)) /\ T # {}
                BY <2>1
            <3>2. latest = Max(T)
                BY <1>2, <2>1 DEF LatestMeasurement
            <3> HIDE DEF T
            <3>3. latest \in T
                BY <2>1, <3>1, <3>2, MaxIsMember
            <3> QED
                BY <1>3, <2>1, <3>1, <3>3
        <2>4. case[latest].revision = latest
            BY <2>3 DEF Sound, CaseOK, Whole, Chain
        <2> QED
            BY <1>2, <1>3, <2>1, <2>2, <2>4
    <1> QED
        BY <1>4, <1>5

\* Untouched files refuse a report only of a case that has grown meanwhile.
LEMMA ReportIsRefused ==
    ASSUME Sound, Undamaged, query.step = "EVENTS", query.kind = "REPORT",
           NEW a, a = MeasurementReport(query.seen, Events), a.outcome = "UNVERIFIED"
    PROVE  Len(Events) > a.revision
    <1>1. SeenBefore /\ Events = case /\ Chain(case) /\ IsHistory(case)
        BY EventsRead DEF Sound, QueryOK, CaseOK, Whole, Chain
    <1>2. VerifyEventRange(case, 1, 0).verified
        BY <1>1, ChainIsWhole
    <1>3. PICK latest : latest = LatestMeasurement(case)
        OBVIOUS
    <1>4. PICK own : own = LatestMeasurement(query.seen)
        OBVIOUS
    <1>5. /\ latest # 0 /\ a.revision = Len(query.seen)
          /\ ~SameMoment(query.seen, case) \/ own = 0 \/ query.seen[own].data # case[latest].data
        BY <1>1, <1>2, <1>3, <1>4 DEF MeasurementReport, NoAnswer
    <1>6. Len(query.seen) \in Nat /\ Len(case) \in Nat /\ Len(query.seen) <= Len(case)
        BY <1>1, HistoryLength DEF SeenBefore
    <1>7. Len(query.seen) # Len(case)
        <2>1. SUFFICES ASSUME Len(query.seen) = Len(case) PROVE FALSE
            OBVIOUS
        <2>2. query.seen = case
            BY <1>1, <2>1, SameEvents DEF SeenBefore
        <2> QED
            BY <1>3, <1>4, <1>5, <2>2 DEF SameMoment
    <1> QED
        BY <1>1, <1>5, <1>6, <1>7

\* Only the seal's manifest verifies, and only against the sealed case.
LEMMA VerifiesAsSealed ==
    ASSUME NEW m, NEW events, Sound, Sealed(case), ManifestOf(m, case, damage), m # NoManifest
    PROVE  /\ VerifyManifest(m, events, Len(case)) => Certifies(m, case) /\ events = case
           /\ Certifies(m, case) => VerifyManifest(m, case, Len(case))
    <1>1. case # <<>> /\ SealOf(case).entries = case
        BY DEF Sealed, SealOf, Build
    <1>2. ASSUME VerifyManifest(m, events, Len(case))
          PROVE  Certifies(m, case) /\ events = case
        <2>1. /\ m.sum = m.entries /\ m.entries = events /\ m.verified
              /\ m.root = HashOfLast(events) /\ Len(case) = m.revision
            BY <1>2 DEF VerifyManifest, EntriesMatch
        <2>2. m.entries = case
            BY <1>1, <2>1 DEF ManifestOf
        <2> QED
            BY <2>1, <2>2 DEF Certifies
    <1>3. Certifies(m, case) => VerifyManifest(m, case, Len(case))
        BY BuiltVerifies DEF Sound, CaseOK, Whole
    <1> QED
        BY <1>2, <1>3

\* What the page of a manifest shows is the sealed case, and it raises no false alarm.
LEMMA ManifestPageHolds ==
    ASSUME Sound, query.step = "EVENTS", query.kind = "MANIFEST",
           NEW a, a = ManifestPage(query.manifest, query.seen, Events)
    PROVE  /\ a.outcome = "OK" =>
                 /\ Sealed(case) /\ a.revision = Len(case) /\ a.last = HashOfLast(case)
                 /\ Events = case /\ a.shows = case
           /\ a.outcome \in {"OK", "UNVERIFIED"}
           /\ a.outcome = "UNVERIFIED" => ~Undamaged
    <1>1. /\ Sealed(case) /\ query.seen = case
          /\ query.manifest # NoManifest /\ ManifestOf(query.manifest, case, damage)
        BY DEF Sound, QueryOK
    <1>2. PICK m : m = query.manifest
        OBVIOUS
    <1>3. /\ a.outcome = IF VerifyManifest(m, Events, Len(case)) THEN "OK" ELSE "UNVERIFIED"
          /\ a.revision = m.revision /\ a.shows = m.entries /\ a.last = m.root
        BY <1>1, <1>2 DEF ManifestPage, NoAnswer
    <1>4. /\ VerifyManifest(m, Events, Len(case)) => Certifies(m, case) /\ Events = case
          /\ Certifies(m, case) => VerifyManifest(m, case, Len(case))
        BY <1>1, <1>2, VerifiesAsSealed
    <1>5. Undamaged => Certifies(m, case) /\ Events = case
        BY <1>1, <1>2, EventsRead, BuiltCertifies DEF Undamaged, NoDamage, ManifestOf, SealOf
    <1> QED
        BY <1>1, <1>3, <1>4, <1>5 DEF Certifies

\* An audit of files nobody touched finds no fault.
LEMMA AuditHolds ==
    ASSUME Sound, Undamaged
    PROVE  Audit(Events).outcome # "UNVERIFIED"
    <1>1. Events = case /\ Chain(case)
        BY EventsRead DEF Sound, CaseOK, Whole
    <1>2. VerifyEventRange(case, query.from, query.to).verified
        BY <1>1, ChainIsWhole
    <1> QED
        BY <1>1, <1>2 DEF Audit, NoAnswer

-----------------------------------------------------------------------------
(* Where the blame falls *)

\* The events of the log that are those of the case are not broken.
LEMMA UnbrokenStart ==
    ASSUME Chain(case), NEW k \in Nat, k <= Len(case), k <= Len(log),
           \A j \in 1..k : log[j] = case[j]
    PROVE  \A j \in 1..k : ~Broken(log, j)
    <1> TAKE j \in 1..k
    <1>1. Len(case) \in Nat
        BY HistoryLength DEF Chain
    <1>2. j \in 1..Len(case) /\ log[j] = case[j]
        BY <1>1
    <1>3. j > 1 => log[j - 1] = case[j - 1]
        OBVIOUS
    <1> QED
        BY <1>2, <1>3 DEF Broken, Chain

\* The revision that is blamed when a line was lost.
LEMMA BlamesLostLine ==
    ASSUME Chain(case), Len(case) > 1, Len(log) \in Nat, NEW i \in 1..Len(case), LineLost(i)
    PROVE  FirstMismatch(SealOf(case), log, VerifyEventRange(log, 1, 0).blamed)
           = IF i > Len(log) THEN i ELSE log[i].revision
    <1>1. Len(case) \in Nat /\ Len(log) = Len(case) - 1 /\ SealOf(case).entries = case
        BY HistoryLength DEF LineLost, Chain, SealOf, Build
    <1>2. PICK k \in Nat : k = i - 1
        BY <1>1
    <1>3. \A j \in 1..k : log[j] = case[j] /\ ~Broken(log, j)
        BY <1>1, <1>2, UnbrokenStart DEF LineLost
    <1>4. CASE i = Len(case)
        <2>1. k = Len(log) /\ i > Len(log)
            BY <1>1, <1>2, <1>4
        <2>2. VerifyEventRange(log, 1, 0).blamed = 0
            BY <1>3, <2>1, NoneToBlame
        <2>3. FirstMismatch(SealOf(case), log, 0) = k + 1
            <3>1. PICK m : m = SealOf(case)
                OBVIOUS
            <3>2. /\ Len(m.entries) \in Nat /\ k <= Len(m.entries) /\ k <= Len(log)
                  /\ k \in {Len(m.entries), Len(log)} /\ Len(m.entries) # Len(log)
                BY <1>1, <2>1, <3>1
            <3>3. \A j \in 1..k : m.entries[j] = log[j]
                BY <1>1, <1>3, <3>1
            <3> QED
                BY <2>1, <3>1, <3>2, <3>3, BlamesEnd
        <2> QED
            BY <1>1, <1>2, <2>1, <2>2, <2>3
    <1>5. CASE i < Len(case)
        <2>1. i \in 1..Len(log) /\ i + 1 \in 1..Len(case) /\ ~(i > Len(log))
            BY <1>1, <1>5
        <2>2. log[i] = case[i + 1] /\ log[i].revision = i + 1 /\ case[i].revision = i
            BY <1>1, <2>1 DEF LineLost, Chain
        <2>3. Broken(log, i)
            BY <1>1, <2>2 DEF Broken
        <2>4. CASE i + 1 <= Len(log)
            <3>1. log[i].revision \in 1..Len(log)
                BY <1>1, <2>1, <2>2, <2>4
            <3>2. \A j \in 1..(i - 1) : ~Broken(log, j)
                BY <1>2, <1>3
            <3>3. FirstMismatch(SealOf(case), log, VerifyEventRange(log, 1, 0).blamed)
                  = log[i].revision
                BY <2>1, <2>3, <3>1, <3>2, BlamesBroken
            <3> QED
                BY <2>1, <3>3
        <2>5. CASE i = Len(log)
            <3>1. \A j \in 1..Len(log) : log[j].revision \in 1..Len(log) => ~Broken(log, j)
                <4> TAKE j \in 1..Len(log)
                <4>1. j \in 1..k \/ j = i
                    BY <1>1, <1>2, <2>5
                <4> QED
                    BY <1>1, <1>3, <2>2, <2>5, <4>1
            <3>2. VerifyEventRange(log, 1, 0).blamed = 0
                BY <3>1, NoneToBlame
            <3>3. FirstMismatch(SealOf(case), log, 0) = log[i].revision
                <4>1. i \in Nat /\ case[i] # log[i]
                    BY <1>1, <2>2
                <4>2. \A j \in 1..(i - 1) : case[j] = log[j]
                    BY <1>2, <1>3
                <4> QED
                    BY <1>1, <2>1, <4>1, <4>2, BlamesEntry
            <3> QED
                BY <2>1, <3>2, <3>3
        <2> QED
            BY <1>1, <2>1, <2>4, <2>5
    <1> QED
        BY <1>1, <1>4, <1>5

\* The revision that is blamed when a line stands twice.
LEMMA BlamesDoubledLine ==
    ASSUME Chain(case), Len(log) \in Nat, NEW i \in 1..Len(case), LineTwice(i)
    PROVE  /\ ~(i > Len(log))
           /\ FirstMismatch(SealOf(case), log, VerifyEventRange(log, 1, 0).blamed)
              = log[i].revision
    <1>1. Len(case) \in Nat /\ Len(log) = Len(case) + 1
        BY HistoryLength DEF LineTwice, Chain
    <1>2. PICK n \in 1..Len(log) : n = i + 1
        BY <1>1
    <1>3. \A j \in 1..i : ~Broken(log, j)
        BY <1>1, UnbrokenStart DEF LineTwice
    <1>4. log[n] = case[i] /\ log[i] = case[i] /\ case[i].revision = i
        <2>1. n \in (i + 1)..Len(log) /\ n - 1 = i /\ i \in 1..i
            BY <1>1, <1>2
        <2> QED
            BY <2>1 DEF LineTwice, Chain
    <1>5. Broken(log, n) /\ log[n].revision \in 1..Len(log)
        BY <1>1, <1>2, <1>4 DEF Broken
    <1>6. \A j \in 1..(n - 1) : ~Broken(log, j)
        BY <1>1, <1>2, <1>3
    <1>7. FirstMismatch(SealOf(case), log, VerifyEventRange(log, 1, 0).blamed) = log[n].revision
        BY <1>5, <1>6, BlamesBroken
    <1> QED
        BY <1>1, <1>4, <1>7

\* The revision that is blamed when a line was altered.
LEMMA BlamesAlteredLine ==
    ASSUME Whole(case), Len(case) <= MaxRevision, Len(log) \in Nat, NEW i \in 1..Len(case),
           LineAltered(i)
    PROVE  /\ ~(i > Len(log))
           /\ FirstMismatch(SealOf(case), log, VerifyEventRange(log, 1, 0).blamed)
              = log[i].revision
    <1>1. /\ Chain(case) /\ Len(case) \in Nat /\ Len(log) = Len(case)
          /\ SealOf(case).entries = case
        BY HistoryLength DEF LineAltered, Whole, Chain, SealOf, Build
    <1>2. /\ IsEvent(case[i]) /\ case[i].revision = i /\ case[i].hash = Digest(case[i])
          /\ case[i].data # "ALTERED" /\ case[i].at # "ALTERED"
        BY DEF Whole, Chain, IsHistory
    <1>3. \A j \in 1..Len(case) : j # i => log[j] = case[j]
        BY DEF LineAltered
    <1>4. PICK k \in Nat : k = i - 1
        BY <1>1
    <1>5. \A j \in 1..(i - 1) : log[j] = case[j] /\ ~Broken(log, j)
        <2>1. \A j \in 1..k : log[j] = case[j]
            BY <1>1, <1>3, <1>4
        <2> QED
            BY <1>1, <1>4, <2>1, UnbrokenStart
    <1>6. log[i].hash = case[i].hash /\ log[i].prev = case[i].prev /\ log[i] # case[i]
        <2>1. Beyond # i
            BY <1>1, QueryAssumptions DEF Beyond
        <2> QED
            BY <1>2, <2>1 DEF LineAltered, IsEvent
    <1>7. \A j \in 1..Len(case) : log[j].hash = case[j].hash
        BY <1>3, <1>6
    <1>8. \A j \in 1..Len(log) : j # i => ~Broken(log, j)
        <2> TAKE j \in 1..Len(log)
        <2> HAVE j # i
        <2>1. j \in 1..Len(case) /\ log[j] = case[j]
            BY <1>1, <1>3
        <2>2. j > 1 => j - 1 \in 1..Len(case)
            BY <1>1
        <2>3. j > 1 => log[j - 1].hash = case[j - 1].hash
            BY <1>7, <2>2
        <2> QED
            BY <1>1, <2>1, <2>3 DEF Broken, Chain
    <1>9. CASE log[i] = [case[i] EXCEPT !.data = "ALTERED"]
        <2>1. log[i].revision = i /\ log[i].data = "ALTERED"
            BY <1>2, <1>9 DEF IsEvent
        <2>2. Digest(log[i]) # Digest(case[i])
            BY <1>2, <2>1 DEF Digest
        <2>3. Broken(log, i)
            BY <1>2, <1>6, <2>2 DEF Broken
        <2> QED
            <3>1. i \in 1..Len(log) /\ log[i].revision \in 1..Len(log)
                BY <1>1, <2>1
            <3>2. \A j \in 1..(i - 1) : ~Broken(log, j)
                BY <1>5
            <3>3. FirstMismatch(SealOf(case), log, VerifyEventRange(log, 1, 0).blamed)
                  = log[i].revision
                BY <1>1, <2>3, <3>1, <3>2, BlamesBroken
            <3> QED
                BY <1>1, <3>1, <3>3
    <1>10. CASE \/ log[i] = [case[i] EXCEPT !.at = "ALTERED"]
                \/ log[i] = [case[i] EXCEPT !.revision = Beyond]
        <2>1. log[i].revision \in 1..Len(log) => ~Broken(log, i)
            <3>1. CASE log[i] = [case[i] EXCEPT !.at = "ALTERED"]
                <4>1. log[i].revision = i /\ Digest(log[i]) = Digest(case[i])
                    BY <1>2, <3>1 DEF Digest, IsEvent
                <4>2. i > 1 => log[i - 1] = case[i - 1] /\ case[i].prev = case[i - 1].hash
                    BY <1>1, <1>3 DEF Chain
                <4> QED
                    BY <1>2, <1>6, <4>1, <4>2 DEF Broken
            <3>2. CASE log[i] = [case[i] EXCEPT !.revision = Beyond]
                <4>1. log[i].revision = Beyond
                    BY <1>2, <3>2 DEF IsEvent
                <4>2. Beyond > Len(log)
                    BY <1>1, QueryAssumptions DEF Beyond
                <4> QED
                    BY <1>1, <4>1, <4>2
            <3> QED
                BY <1>10, <3>1, <3>2
        <2>2. VerifyEventRange(log, 1, 0).blamed = 0
            BY <1>8, <2>1, NoneToBlame
        <2>3. FirstMismatch(SealOf(case), log, 0) = log[i].revision
            BY <1>1, <1>5, <1>6, BlamesEntry
        <2> QED
            BY <1>1, <2>2, <2>3
    <1> QED
        BY <1>9, <1>10 DEF LineAltered

\* The revision that is blamed when a failed change left a line.
LEMMA BlamesStrayLine ==
    ASSUME Chain(case), Len(log) \in Nat, NEW i \in 2..Len(case), LineStray(i)
    PROVE  /\ ~(i > Len(log))
           /\ FirstMismatch(SealOf(case), log, VerifyEventRange(log, 1, 0).blamed)
              = log[i].revision
    <1>1. Len(case) \in Nat /\ Len(log) = Len(case) + 1
        BY HistoryLength DEF LineStray, Chain
    <1>2. PICK n \in 1..Len(log) : n = i + 1
        BY <1>1
    <1>3. PICK k \in Nat : k = i - 1 /\ k <= Len(case) /\ k <= Len(log) /\ k > 0
        BY <1>1
    <1>4. \A j \in 1..k : log[j] = case[j]
        BY <1>3 DEF LineStray
    <1>5. \A j \in 1..k : ~Broken(log, j)
        BY <1>3, <1>4, UnbrokenStart
    <1>6. ~Broken(log, i)
        <2>1. log[i - 1] = case[i - 1]
            BY <1>3, <1>4
        <2> QED
            BY <2>1 DEF Broken, LineStray
    <1>7. log[n] = case[i] /\ case[i].revision = i /\ log[i].revision = i
        <2>1. n \in (i + 1)..Len(log) /\ n - 1 = i /\ i \in 1..Len(case)
            BY <1>1, <1>2
        <2> QED
            BY <2>1 DEF LineStray, Chain
    <1>8. Broken(log, n) /\ log[n].revision \in 1..Len(log)
        BY <1>1, <1>2, <1>7 DEF Broken
    <1>9. \A j \in 1..(n - 1) : ~Broken(log, j)
        <2> TAKE j \in 1..(n - 1)
        <2>1. j \in 1..k \/ j = i
            BY <1>1, <1>2, <1>3
        <2> QED
            BY <1>5, <1>6, <2>1
    <1>10. FirstMismatch(SealOf(case), log, VerifyEventRange(log, 1, 0).blamed) = log[n].revision
        BY <1>8, <1>9, BlamesBroken
    <1> QED
        BY <1>1, <1>7, <1>10

\* The revision that is blamed when a failed change left the last line.
LEMMA BlamesStrayEnd ==
    ASSUME Chain(case), Len(case) > 1, Len(log) \in Nat, NEW i, i = Len(case) + 1, LineStray(i)
    PROVE  /\ ~(i > Len(log))
           /\ FirstMismatch(SealOf(case), log, VerifyEventRange(log, 1, 0).blamed)
              = log[i].revision
    <1>1. /\ Len(case) \in Nat /\ Len(log) = Len(case) + 1 /\ SealOf(case).entries = case
          /\ log[i].revision = i
        BY HistoryLength DEF LineStray, Chain, SealOf, Build
    <1>2. PICK k \in Nat : k = Len(case)
        BY <1>1
    <1>3. \A j \in 1..k : log[j] = case[j] /\ ~Broken(log, j)
        <2>1. \A j \in 1..k : log[j] = case[j]
            BY <1>1, <1>2 DEF LineStray
        <2> QED
            BY <1>1, <1>2, <2>1, UnbrokenStart
    <1>4. ~Broken(log, i)
        <2>1. log[i - 1] = case[i - 1]
            BY <1>1, <1>2, <1>3
        <2> QED
            BY <2>1 DEF Broken, LineStray
    <1>5. VerifyEventRange(log, 1, 0).blamed = 0
        <2>1. \A j \in 1..Len(log) : ~Broken(log, j)
            <3> TAKE j \in 1..Len(log)
            <3>1. j \in 1..k \/ j = i
                BY <1>1, <1>2
            <3> QED
                BY <1>3, <1>4, <3>1
        <2> QED
            BY <1>1, <2>1, NoneToBlame
    <1>6. FirstMismatch(SealOf(case), log, 0) = k + 1
        <2>1. PICK m : m = SealOf(case)
            OBVIOUS
        <2>2. /\ Len(m.entries) \in Nat /\ k <= Len(m.entries) /\ k <= Len(log)
              /\ k \in {Len(m.entries), Len(log)} /\ Len(m.entries) # Len(log)
            BY <1>1, <1>2, <2>1
        <2>3. \A j \in 1..k : m.entries[j] = log[j]
            BY <1>1, <1>3, <2>1
        <2> QED
            BY <1>1, <2>1, <2>2, <2>3, BlamesEnd
    <1> QED
        BY <1>1, <1>2, <1>5, <1>6

\* A sealed case whose manifest does not verify.
LEMMA BlamesTheDamage ==
    ASSUME Sound, Sealed(case), NEW m, ManifestOf(m, case, damage), m # NoManifest,
           ~VerifyManifest(m, Events, Len(case))
    PROVE  /\ damage # NoDamage
           /\ FirstMismatch(m, Events, VerifyEventRange(Events, 1, 0).blamed)
              = IF damage.at = 0 THEN 0
                ELSE IF damage.at > Len(log) THEN damage.at
                ELSE log[damage.at].revision
    <1>1. /\ Whole(case) /\ Chain(case) /\ Len(case) \in Nat /\ Len(case) > 1
          /\ Len(case) <= MaxRevision /\ Len(log) \in Nat
        BY HistoryLength DEF Sound, CaseOK, LogOK, Whole, Chain
    <1>2. Certifies(m, case) => Events # case
        BY VerifiesAsSealed
    <1>6. m = SealOf(case) => Events # case
        BY <1>2, BuiltCertifies DEF SealOf
    <1>3. damage # NoDamage
        BY <1>6, EventsRead DEF ManifestOf, NoDamage, Undamaged
    <1>7. CASE damage.of = "STRAY"
        <2>1. PICK i \in 2..(Len(case) + 1) : i = damage.at
            BY <1>1, <1>3, <1>7 DEF Sound, DamageOK
        <2>2. m = SealOf(case)
            BY <1>7 DEF ManifestOf
        <2>3. LineStray(i)
            BY <1>7, <2>1 DEF Sound, LogOK
        <2>4. Events = log
            <3>1. Len(log) > 0
                BY <1>1, <2>3 DEF LineStray
            <3>2. log # <<>>
                BY <3>1, HistoryLength DEF Sound, LogOK
            <3> QED
                BY <3>2, EventsRead
        <2>5. /\ ~(i > Len(log))
              /\ FirstMismatch(SealOf(case), log, VerifyEventRange(log, 1, 0).blamed)
                 = log[i].revision
            <3>1. CASE i \in 2..Len(case)
                BY <1>1, <2>3, <3>1, BlamesStrayLine
            <3>2. CASE i = Len(case) + 1
                BY <1>1, <2>3, <3>2, BlamesStrayEnd
            <3> QED
                BY <1>1, <3>1, <3>2
        <2>6. damage.at # 0
            BY <1>1, <2>1
        <2> QED
            BY <1>3, <2>1, <2>2, <2>4, <2>5, <2>6
    <1>4. CASE damage.of = "LINE"
        <2>1. PICK i \in 1..Len(case) : i = damage.at
            BY <1>3, <1>4 DEF Sound, DamageOK
        <2>2. m = SealOf(case)
            BY <1>4 DEF ManifestOf
        <2>3. LineLost(i) \/ LineTwice(i) \/ LineAltered(i)
            BY <1>4, <2>1 DEF Sound, LogOK
        <2>4. Events = log
            <3>1. Len(log) > 0
                BY <1>1, <2>3 DEF LineLost, LineTwice, LineAltered
            <3>2. log # <<>>
                BY <3>1, HistoryLength DEF Sound, LogOK
            <3> QED
                BY <3>2, EventsRead
        <2>5. FirstMismatch(SealOf(case), log, VerifyEventRange(log, 1, 0).blamed)
              = IF i > Len(log) THEN i ELSE log[i].revision
            <3>1. CASE LineLost(i)
                BY <1>1, <3>1, BlamesLostLine
            <3>2. CASE LineTwice(i)
                BY <1>1, <3>2, BlamesDoubledLine
            <3>3. CASE LineAltered(i)
                BY <1>1, <3>3, BlamesAlteredLine
            <3> QED
                BY <2>3, <3>1, <3>2, <3>3
        <2>6. damage.at # 0
            BY <1>1, <2>1
        <2> QED
            BY <1>3, <2>1, <2>2, <2>4, <2>5, <2>6
    <1>5. CASE damage.of \notin {"LINE", "STRAY"}
        <2>1. Events = case /\ log = case
            BY <1>5, EventsRead DEF Sound, LogOK
        <2>2. VerifyEventRange(case, 1, 0).blamed = 0
            BY <1>1, ChainIsWhole, Verifies
        <2>3. CASE damage.of = "ENTRY"
            <3>1. /\ damage.at \in 1..Len(case) /\ Len(m.entries) = Len(case)
                  /\ m.entries[damage.at] # case[damage.at]
                  /\ \A j \in 1..Len(case) : j # damage.at => m.entries[j] = case[j]
                BY <1>6, <2>1, <2>3 DEF ManifestOf
            <3>2. PICK i \in Nat : i = damage.at
                BY <1>1, <3>1
            <3>3. \A j \in 1..(i - 1) : m.entries[j] = case[j]
                BY <1>1, <3>1, <3>2
            <3>4. FirstMismatch(m, case, 0) = case[i].revision
                BY <1>1, <3>1, <3>2, <3>3, BlamesEntry
            <3>5. damage.at # 0 /\ ~(damage.at > Len(case))
                BY <1>1, <3>1
            <3> QED
                BY <1>3, <2>1, <2>2, <3>2, <3>4, <3>5
        <2>4. CASE damage.of = "MANIFEST"
            <3>1. m.entries = case /\ damage.at = 0
                BY <1>3, <1>6, <2>1, <2>4 DEF ManifestOf, Sound, DamageOK
            <3>2. FirstMismatch(m, case, 0) = 0
                <4>1. PICK n \in Nat : n = Len(case)
                    BY <1>1
                <4>2. /\ Len(m.entries) \in Nat /\ Len(case) \in Nat
                      /\ n \in {Len(m.entries), Len(case)}
                      /\ n <= Len(m.entries) /\ n <= Len(case) /\ Len(m.entries) = Len(case)
                    BY <1>1, <3>1, <4>1
                <4>3. \A j \in 1..n : m.entries[j] = case[j]
                    BY <3>1
                <4> QED
                    BY <4>2, <4>3, BlamesEnd, Zenon
            <3> QED
                BY <1>3, <2>1, <2>2, <3>1, <3>2
        <2> QED
            BY <1>6, <2>1, <2>3, <2>4 DEF ManifestOf
    <1> QED
        BY <1>4, <1>5, <1>7

\* The selection of a chain is all events of the stage in the range, in order.
LEMMA SelectedIsComplete ==
    ASSUME NEW h, Chain(h), NEW stage, NEW from \in Nat, NEW to \in Nat
    PROVE  Complete(Selected(h, stage, from, to), h, stage, from, to)
    <1> DEFINE belongs == {i \in 1..Len(h) : /\ EvidenceStageForEvent(h[i].type) = stage
                                             /\ from <= i /\ i <= to}
               chosen  == {i \in 1..Len(h) : /\ h[i].revision \in from..to
                                             /\ EvidenceStageForEvent(h[i].type) = stage}
    <1>1. IsHistory(h) /\ Len(h) \in Nat /\ \A i \in 1..Len(h) : h[i].revision = i
        BY HistoryLength DEF Chain
    <1>2. chosen = belongs
        BY <1>1
    <1>3. PICK shows : shows = Selected(h, stage, from, to)
        OBVIOUS
    <1>4. shows = InOrder(h, chosen)
        BY <1>3 DEF Selected
    <1>5. belongs \in SUBSET (1..Len(h))
        OBVIOUS
    <1>6. \A i \in belongs : h[i].revision = i
        BY <1>1, <1>5
    <1> HIDE DEF chosen, belongs
    <1>7. Lists(shows, h, belongs)
        BY <1>1, <1>2, <1>4, <1>5, InOrderLists
    <1>8. PICK at \in [1..Len(shows) -> belongs] :
             /\ \A i, j \in 1..Len(shows) : i < j => at[i] < at[j]
             /\ \A n \in belongs : \E i \in 1..Len(shows) : at[i] = n
             /\ \A i \in 1..Len(shows) : shows[i] = h[at[i]]
        BY <1>7 DEF Lists
    <1>9. {shows[i] : i \in 1..Len(shows)} = {h[i] : i \in belongs}
        <2>1. \A i \in 1..Len(shows) : at[i] \in belongs
            BY <1>8
        <2> QED
            BY <1>8, <2>1
    <1>10. Len(shows) = Cardinality(belongs)
        BY <1>7 DEF Lists
    <1>11. \A i, j \in 1..Len(shows) : i < j => shows[i].revision < shows[j].revision
        BY <1>6, <1>8
    <1> QED
        BY <1>3, <1>9, <1>10, <1>11 DEF Complete, belongs

\* What a credential lists is complete, and of the case as it was sealed.
LEMMA CredentialHolds ==
    ASSUME Sound, query.step = "EVENTS", query.kind = "CREDENTIAL",
           NEW a, a = EvidenceCredential(query.manifest, query.seen, Events)
    PROVE  /\ Sealed(case)
           /\ a.outcome = "OK" =>
                 /\ a.revision = Len(case) /\ a.last = HashOfLast(case) /\ Events = case
                 /\ Complete(a.shows, case, query.stage, query.from, query.to)
           /\ a.outcome \in {"OK", "UNVERIFIED", "NOTHING"}
           /\ a.outcome = "UNVERIFIED" =>
                 /\ ~Undamaged
                 /\ a.blamed = IF damage.at = 0 THEN 0
                               ELSE IF damage.at > Len(log) THEN damage.at
                               ELSE log[damage.at].revision
    <1>1. /\ Sealed(case) /\ query.seen = case
          /\ query.manifest # NoManifest /\ ManifestOf(query.manifest, case, damage)
        BY DEF Sound, QueryOK
    <1>2. PICK m : m = query.manifest
        OBVIOUS
    <1>3. CASE VerifyManifest(m, Events, Len(case))
        <2>1. Certifies(m, case) /\ Events = case
            BY <1>1, <1>2, <1>3, VerifiesAsSealed
        <2>2. /\ a.outcome \in {"OK", "NOTHING"}
              /\ a.outcome = "OK" =>
                    /\ a.revision = m.revision /\ a.last = m.root
                    /\ a.shows = Selected(m.entries, query.stage, query.from, query.to)
            BY <1>1, <1>2, <1>3 DEF EvidenceCredential, NoAnswer
        <2>3. Complete(Selected(case, query.stage, query.from, query.to), case,
                       query.stage, query.from, query.to)
            BY SelectedIsComplete DEF Sound, CaseOK, Whole, QueryOK, RangeOK
        <2> QED
            BY <1>1, <2>1, <2>2, <2>3 DEF Certifies
    <1>4. CASE ~VerifyManifest(m, Events, Len(case))
        <2>1. /\ a.outcome = "UNVERIFIED"
              /\ a.blamed = FirstMismatch(m, Events, VerifyEventRange(Events, 1, 0).blamed)
            BY <1>1, <1>2, <1>4 DEF EvidenceCredential, NoAnswer
        <2> QED
            BY <1>1, <1>2, <1>4, <2>1, BlamesTheDamage DEF Undamaged
    <1> QED
        BY <1>3, <1>4

\* An event is itself.
LEMMA SameIsSame ==
    ASSUME NEW e, IsEvent(e)
    PROVE  SameButTime(e, e)
    BY DEF SameButTime, IsEvent

\* An event in its place, with the hash of what it says, is the case's in all but time.
LEMMA PlacedIsOfCase ==
    ASSUME Sound, damage.of # "STRAY", NEW j \in 1..Len(Events), Events[j].revision = j,
           Events[j].hash = Digest(Events[j])
    PROVE  /\ j <= Len(case) /\ SameButTime(Events[j], case[j])
           /\ Events[j].hash = case[j].hash /\ Events[j].prev = case[j].prev
    <1>1. /\ Whole(case) /\ Len(case) \in Nat /\ Len(case) <= MaxRevision
          /\ Len(log) \in Nat /\ Len(Events) \in Nat
        BY HistoryLength, EventsRead DEF Sound, CaseOK, LogOK, Whole, Chain
    <1>4. \A k \in 1..Len(case) : SameButTime(case[k], case[k])
        BY <1>1, SameIsSame DEF Whole, Chain, IsHistory
    <1>2. CASE Events = case
        BY <1>1, <1>2, <1>4
    <1>3. CASE Events # case
        <2>1. Events = log /\ damage.of = "LINE"
            BY <1>3, EventsRead DEF Events
        <2>2. PICK i \in 1..Len(case) : i = damage.at
            BY <2>1 DEF Sound, DamageOK, NoDamage
        <2>3. LineLost(i) \/ LineTwice(i) \/ LineAltered(i)
            BY <2>1, <2>2 DEF Sound, LogOK
        <2>4. \A k \in 1..Len(case) : case[k].revision = k /\ case[k].hash = Digest(case[k])
            BY <1>1 DEF Whole, Chain
        <2>5. CASE LineLost(i)
            <3>1. Len(log) = Len(case) - 1
                BY <2>5 DEF LineLost
            <3>2. CASE j < i
                <4>1. j \in 1..(i - 1)
                    BY <1>1, <2>1, <3>1, <3>2
                <4>2. log[j] = case[j]
                    BY <2>5, <4>1 DEF LineLost
                <4> QED
                    BY <1>1, <1>4, <2>1, <3>1, <4>2
            <3>3. CASE ~(j < i)
                <4>1. j \in i..Len(log) /\ j + 1 \in 1..Len(case)
                    BY <1>1, <2>1, <3>1, <3>3
                <4>2. log[j] = case[j + 1] /\ case[j + 1].revision = j + 1
                    BY <2>4, <2>5, <4>1 DEF LineLost
                <4> QED
                    BY <1>1, <2>1, <4>2
            <3> QED
                BY <3>2, <3>3
        <2>6. CASE LineTwice(i)
            <3>1. Len(log) = Len(case) + 1
                BY <2>6 DEF LineTwice
            <3>2. CASE j <= i
                <4>1. j \in 1..i /\ j <= Len(case)
                    BY <1>1, <2>1, <3>1, <3>2
                <4>2. log[j] = case[j]
                    BY <2>6, <4>1 DEF LineTwice
                <4> QED
                    BY <1>4, <2>1, <4>1, <4>2
            <3>3. CASE ~(j <= i)
                <4>1. j \in (i + 1)..Len(log) /\ j - 1 \in 1..Len(case)
                    BY <1>1, <2>1, <3>1, <3>3
                <4>2. log[j] = case[j - 1] /\ case[j - 1].revision = j - 1
                    BY <2>4, <2>6, <4>1 DEF LineTwice
                <4> QED
                    BY <1>1, <2>1, <4>2
            <3> QED
                BY <3>2, <3>3
        <2>7. CASE LineAltered(i)
            <3>1. Len(log) = Len(case) /\ j \in 1..Len(case)
                BY <2>1, <2>7 DEF LineAltered
            <3>2. CASE j # i
                BY <1>1, <1>4, <2>1, <2>7, <3>1, <3>2 DEF LineAltered
            <3>3. CASE j = i
                <4>1. /\ IsEvent(case[i]) /\ case[i].hash = Digest(case[i])
                      /\ case[i].data # "ALTERED"
                    BY <1>1 DEF Whole, Chain, IsHistory
                <4>2. log[i].hash = Digest(log[i]) /\ log[i].revision = i
                    BY <2>1, <3>3
                <4>3. log[i].hash = case[i].hash /\ log[i].prev = case[i].prev
                    BY <2>7, <4>1 DEF LineAltered, IsEvent
                <4>4. log[i] = [case[i] EXCEPT !.at = "ALTERED"]
                    <5>1. CASE log[i] = [case[i] EXCEPT !.data = "ALTERED"]
                        <6>1. log[i].data = "ALTERED" /\ Digest(case[i]) = Digest(log[i])
                            BY <4>1, <4>2, <4>3, <5>1 DEF IsEvent
                        <6> QED
                            BY <4>1, <6>1 DEF Digest
                    <5>2. CASE log[i] = [case[i] EXCEPT !.revision = Beyond]
                        <6>1. log[i].revision = Beyond
                            BY <4>1, <5>2 DEF IsEvent
                        <6> QED
                            BY <1>1, <4>2, <6>1, QueryAssumptions DEF Beyond
                    <5> QED
                        BY <2>7, <5>1, <5>2 DEF LineAltered
                <4>5. SameButTime(log[i], case[i])
                    BY <4>1, <4>4 DEF SameButTime, IsEvent
                <4> QED
                    BY <1>1, <2>1, <3>1, <3>3, <4>3, <4>5
            <3> QED
                BY <3>2, <3>3
        <2> QED
            BY <2>3, <2>5, <2>6, <2>7
    <1> QED
        BY <1>2, <1>3

\* No event of a verified range stands before the revisions of the range.
LEMMA ShownAreBehind ==
    ASSUME Sound, damage.of # "STRAY", NEW from \in Nat, NEW to \in Nat, to <= MaxRevision,
           \* one event at least is verified, and it is in its place
           NEW w \in 1..Len(Events), from <= w, Events[w].revision = w,
           NEW j \in 1..Len(Events), Events[j].revision \in from..to
    PROVE  from <= j
    <1>1. /\ Whole(case) /\ Len(case) \in Nat /\ Len(case) <= MaxRevision
          /\ Len(log) \in Nat /\ Len(Events) \in Nat
        <2>1. Whole(case) /\ Len(case) \in 1..MaxRevision
            BY DEF Sound, CaseOK
        <2>2. Chain(case) /\ MaxRevision \in Nat
            BY <2>1, QueryAssumptions DEF Whole
        <2>3. Len(log) \in Nat
            BY HistoryLength DEF Sound, LogOK
        <2>4. Len(Events) \in Nat
            BY EventsRead
        <2> QED
            BY <2>1, <2>2, <2>3, <2>4
    <1>2. \A k \in 1..Len(case) : case[k].revision = k
        BY <1>1 DEF Whole, Chain
    <1>3. CASE Events = case
        BY <1>1, <1>2, <1>3
    <1>4. CASE Events # case
        <2>1. Events = log /\ damage.of = "LINE"
            BY <1>4, EventsRead DEF Events
        <2>2. PICK i \in 1..Len(case) : i = damage.at
            BY <2>1 DEF Sound, DamageOK, NoDamage
        <2>3. LineLost(i) \/ LineTwice(i) \/ LineAltered(i)
            BY <2>1, <2>2 DEF Sound, LogOK
        <2>4. CASE LineLost(i)
            <3>1. Len(log) = Len(case) - 1
                BY <2>4 DEF LineLost
            <3>2. CASE j < i
                <4>1. j \in 1..(i - 1) /\ j \in 1..Len(case)
                    BY <1>1, <2>1, <3>1, <3>2
                <4>2. log[j] = case[j]
                    BY <2>4, <4>1 DEF LineLost
                <4> QED
                    BY <1>1, <1>2, <2>1, <4>1, <4>2
            <3>3. CASE ~(j < i)
                <4>1. w < i
                    <5>1. ASSUME ~(w < i) PROVE FALSE
                        <6>1. w \in i..Len(log) /\ w + 1 \in 1..Len(case)
                            BY <1>1, <2>1, <3>1, <5>1
                        <6>2. log[w] = case[w + 1] /\ case[w + 1].revision = w + 1
                            BY <1>2, <2>4, <6>1 DEF LineLost
                        <6> QED
                            BY <1>1, <2>1, <6>1, <6>2
                    <5> QED
                        BY <5>1
                <4> QED
                    BY <1>1, <2>1, <3>3, <4>1
            <3> QED
                BY <3>2, <3>3
        <2>5. CASE LineTwice(i)
            <3>1. Len(log) = Len(case) + 1
                BY <2>5 DEF LineTwice
            <3>2. CASE j <= i
                <4>1. j \in 1..i /\ j \in 1..Len(case)
                    BY <1>1, <2>1, <3>1, <3>2
                <4>2. log[j] = case[j]
                    BY <2>5, <4>1 DEF LineTwice
                <4> QED
                    BY <1>1, <1>2, <2>1, <4>1, <4>2
            <3>3. CASE ~(j <= i)
                <4>1. j \in (i + 1)..Len(log) /\ j - 1 \in 1..Len(case)
                    BY <1>1, <2>1, <3>1, <3>3
                <4>2. log[j] = case[j - 1] /\ case[j - 1].revision = j - 1
                    BY <1>2, <2>5, <4>1 DEF LineTwice
                <4> QED
                    BY <1>1, <2>1, <4>1, <4>2
            <3> QED
                BY <3>2, <3>3
        <2>6. CASE LineAltered(i)
            <3>1. Len(log) = Len(case) /\ j \in 1..Len(case) /\ Beyond > to
                BY <2>1, <2>6, QueryAssumptions DEF LineAltered, Beyond
            <3>2. IsEvent(case[i])
                BY <1>1 DEF Whole, Chain, IsHistory
            <3>3. log[j].revision = j \/ log[j].revision = Beyond
                BY <1>2, <2>6, <3>1, <3>2 DEF LineAltered, IsEvent
            <3> QED
                BY <1>1, <2>1, <3>1, <3>3, QueryAssumptions DEF Beyond
        <2> QED
            BY <2>3, <2>4, <2>5, <2>6
    <1> QED
        BY <1>3, <1>4

\* An audit that verifies at full length shows the events of the case.
LEMMA AuditProves ==
    ASSUME Sound, damage.of # "STRAY", query.kind = "AUDIT", query.to > 0,
           NEW a, a = Audit(Events), a.outcome = "OK", a.last # NoHash,
           Len(a.shows) = query.to - query.from + 1
    PROVE  Proven(a, case, query.from, query.to)
    <1>1. PICK from \in Nat : from = query.from
        BY DEF Sound, QueryOK, RangeOK
    <1>2. PICK to \in Nat : to = query.to
        BY DEF Sound, QueryOK, RangeOK
    <1>3. 0 < from /\ from <= to /\ to <= MaxRevision
        BY <1>1, <1>2 DEF Sound, QueryOK, RangeOK
    <1>4. PICK events : events = Events
        OBVIOUS
    <1> DEFINE shown == {i \in 1..Len(events) : /\ events[i].revision >= from
                                                /\ to = 0 \/ events[i].revision <= to}
               range == InRange(events, from, to)
    <1>5. IsHistory(events) /\ Len(events) \in Nat
          /\ \A i \in 1..Len(events) : events[i].revision \in Nat
        <2>1. IsHistory(events)
            BY <1>4 DEF Events, Sound, CaseOK, LogOK, Whole, Chain
        <2> QED
            BY <2>1, HistoryLength DEF IsHistory, IsEvent
    <1>6. /\ VerifyEventRange(events, from, to).verified
          /\ a.prev = VerifyEventRange(events, from, to).prev
          /\ a.last = VerifyEventRange(events, from, to).last
          /\ a.shows = InOrder(events, shown)
        BY <1>1, <1>2, <1>4 DEF Audit, NoAnswer
    <1>7. \A i \in range : ~Broken(events, i)
        BY <1>6, Verifies
    <1>8. range # {} /\ a.prev = events[Min(range)].prev /\ a.last = events[Max(range)].hash
        BY <1>6, <1>7 DEF VerifyEventRange
    <1>9. \A i \in 1..Len(events) : i \in shown <=> events[i].revision \in from..to
        BY <1>3, <1>5
    <1>10. \A i \in 1..Len(events) : i \in range <=>
              events[i].revision \in from..to /\ events[i].revision <= Len(events)
        BY <1>3, <1>5 DEF InRange, RangeEnd
    <1>11. shown \in SUBSET (1..Len(events)) /\ range \in SUBSET (1..Len(events))
        BY DEF InRange
    <1> HIDE DEF shown, range
    <1>12. \A i \in range : /\ events[i].revision = i /\ events[i].hash = Digest(events[i])
                            /\ i \in from..to
        BY <1>7, <1>10, <1>11 DEF Broken
    <1>13. \A j \in shown : from <= j
        <2>1. PICK w \in 1..Len(events) : w \in range
            BY <1>8, <1>11
        <2>2. from <= w /\ events[w].revision = w
            BY <1>12, <2>1
        <2> QED
            BY <1>3, <1>4, <1>9, <1>11, <2>2, ShownAreBehind
    <1>14. Lists(a.shows, events, shown)
        BY <1>5, <1>6, <1>11, InOrderLists
    <1>15. Cardinality(shown) = to - from + 1 /\ IsFiniteSet(shown)
        BY <1>1, <1>2, <1>14 DEF Lists
    <1>16. to <= Len(events)
        <2>1. shown \in SUBSET (from..Len(events))
            BY <1>5, <1>11, <1>13
        <2>2. /\ IsFiniteSet(from..Len(events))
              /\ from <= Len(events)
                    => Cardinality(from..Len(events)) = Len(events) - from + 1
              /\ Len(events) < from => Cardinality(from..Len(events)) = 0
            BY <1>5, IntervalSize
        <2>3. Cardinality(shown) <= Cardinality(from..Len(events))
            BY <2>1, <2>2, FS_Subset
        <2> QED
            BY <1>3, <1>5, <1>15, <2>2, <2>3
    <1>17. shown = range
        <2>1. \A i \in 1..Len(events) : i \in shown <=> i \in range
            BY <1>5, <1>9, <1>10, <1>16
        <2> QED
            BY <1>11, <2>1
    <1>18. range = from..to
        <2>1. range \in SUBSET (from..to)
            BY <1>12
        <2>2. IsFiniteSet(from..to) /\ Cardinality(from..to) = to - from + 1
            BY <1>3, IntervalSize
        <2> QED
            BY <1>15, <1>17, <2>1, <2>2, FS_Subset
    <1>19. Min(range) = from /\ Max(range) = to
        <2>1. Min(range) = from
            <3>1. range \in SUBSET Nat /\ from \in range /\ \A k \in range : from <= k
                BY <1>3, <1>18
            <3> QED
                BY <3>1, MinIs
        <2>2. Max(range) = to
            <3>3. to \in from..to /\ from..to \in SUBSET (0..to)
                BY <1>3
            <3>1. range \in SUBSET (0..to) /\ range # {} /\ to \in range
                BY <1>18, <3>3
            <3>2. Max(range) \in range /\ to <= Max(range)
                BY <3>1, MaxIsMember
            <3> QED
                BY <1>18, <3>2
        <2> QED
            BY <2>1, <2>2
    <1>20. ASSUME NEW i \in from..to
           PROVE  /\ i <= Len(case) /\ SameButTime(events[i], case[i])
                  /\ events[i].hash = case[i].hash /\ events[i].prev = case[i].prev
        <2>1. i \in range /\ i \in 1..Len(events)
            BY <1>11, <1>18
        <2> QED
            BY <1>4, <1>12, <2>1, PlacedIsOfCase
    <1>21. \A k \in 1..(to - from + 1) : a.shows[k] = events[from + k - 1]
        <2>1. Lists(a.shows, events, from..to)
            BY <1>14, <1>17, <1>18
        <2> QED
            BY <1>3, <2>1, ListsInterval
    <1>22. ASSUME NEW i \in from..to
           PROVE  SameButTime(a.shows[i - from + 1], case[i])
        <2>1. PICK k \in 1..(to - from + 1) : k = i - from + 1 /\ from + k - 1 = i
            BY <1>3
        <2>2. a.shows[k] = events[i]
            BY <1>21, <2>1
        <2> QED
            BY <1>20, <2>1, <2>2
    <1>23. /\ to <= Len(case)
           /\ a.last = case[to].hash /\ a.prev = case[from].prev
        <2>1. from \in from..to /\ to \in from..to
            BY <1>3
        <2> QED
            BY <1>8, <1>19, <1>20, <2>1
    <1> QED
        BY <1>1, <1>2, <1>22, <1>23 DEF Proven

\* The answer by the kind of the query.
LEMMA AnswerOfKind ==
    ASSUME NEW k, NEW r, NEW m, NEW c, NEW u
    PROVE  LET a == CASE k = "REPORT"     -> r
                      [] k = "MANIFEST"   -> m
                      [] k = "CREDENTIAL" -> c
                      [] k = "AUDIT"      -> u
           IN  /\ k = "REPORT" => a = r
               /\ k = "MANIFEST" => a = m
               /\ k = "CREDENTIAL" => a = c
               /\ k = "AUDIT" => a = u
    <1>1. "REPORT" # "MANIFEST" /\ "REPORT" # "CREDENTIAL" /\ "REPORT" # "AUDIT"
          /\ "MANIFEST" # "CREDENTIAL" /\ "MANIFEST" # "AUDIT" /\ "CREDENTIAL" # "AUDIT"
        OBVIOUS
    <1> QED
        BY <1>1, Zenon

\* The read of the events, with the answer made of them, keeps the invariant.
LEMMA ReadEventsIsSound ==
    ASSUME Sound, ReadEvents
    PROVE  Sound'
    <1>1. /\ UNCHANGED <<case, log, manifest, sealing, damage>> /\ query.step = "EVENTS"
          /\ query.kind \in {"REPORT", "MANIFEST", "CREDENTIAL", "AUDIT"}
        BY DEF ReadEvents, Sound, QueryOK
    <1>2. PICK a : a =
                CASE query.kind = "REPORT"     -> MeasurementReport(query.seen, Events)
                  [] query.kind = "MANIFEST"   -> ManifestPage(query.manifest, query.seen, Events)
                  [] query.kind = "CREDENTIAL" -> EvidenceCredential(query.manifest, query.seen, Events)
                  [] query.kind = "AUDIT"      -> Audit(Events)
        OBVIOUS
    <1>3. PICK events : events = Events
        OBVIOUS
    <1>4. AnswerFrom(events, a)
        BY <1>2, <1>3, Zenon DEF ReadEvents
    <1>5. /\ query.kind = "REPORT" => a = MeasurementReport(query.seen, Events)
          /\ query.kind = "MANIFEST" => a = ManifestPage(query.manifest, query.seen, Events)
          /\ query.kind = "CREDENTIAL" => a = EvidenceCredential(query.manifest, query.seen, Events)
          /\ query.kind = "AUDIT" => a = Audit(Events)
        BY <1>2, AnswerOfKind, Zenon
    <1>6. /\ query'.kind = query.kind /\ query'.seen = events /\ query'.answer = a
          /\ query'.stage = query.stage /\ query'.from = query.from /\ query'.to = query.to
        BY <1>4, AnswerIs DEF Sound
    <1>7. AnswerOK'
        <2>1. CASE query.kind = "REPORT"
            <3>1. a.outcome = "OK" =>
                     /\ a.revision \in 1..Len(case)
                     /\ Undamaged => a.bound = LatestMeasurement(SubSeq(case, 1, a.revision))
                BY <1>1, <1>5, <2>1, ReportHolds
            <3>2. a.outcome = "UNVERIFIED" /\ Undamaged => Len(events) > a.revision
                BY <1>1, <1>3, <1>5, <2>1, ReportIsRefused
            <3> QED
                BY <1>1, <1>6, <2>1, <3>1, <3>2 DEF AnswerOK, Undamaged
        <2>2. CASE query.kind = "MANIFEST"
            <3>1. /\ a.outcome = "OK" =>
                        /\ Sealed(case) /\ a.revision = Len(case) /\ a.last = HashOfLast(case)
                        /\ Events = case /\ a.shows = case
                  /\ a.outcome \in {"OK", "UNVERIFIED"}
                  /\ a.outcome = "UNVERIFIED" => ~Undamaged
                BY <1>1, <1>5, <2>2, ManifestPageHolds
            <3> QED
                BY <1>1, <1>3, <1>6, <2>2, <3>1 DEF AnswerOK, Undamaged
        <2>3. CASE query.kind = "CREDENTIAL"
            <3>1. /\ Sealed(case)
                  /\ a.outcome = "OK" =>
                        /\ a.revision = Len(case) /\ a.last = HashOfLast(case) /\ Events = case
                        /\ Complete(a.shows, case, query.stage, query.from, query.to)
                  /\ a.outcome \in {"OK", "UNVERIFIED", "NOTHING"}
                  /\ a.outcome = "UNVERIFIED" =>
                        /\ ~Undamaged
                        /\ a.blamed = IF damage.at = 0 THEN 0
                                      ELSE IF damage.at > Len(log) THEN damage.at
                                      ELSE log[damage.at].revision
                BY <1>1, <1>5, <2>3, CredentialHolds
            <3> QED
                BY <1>1, <1>3, <1>6, <2>3, <3>1 DEF AnswerOK, Undamaged, BlamedForDamage
        <2>4. CASE query.kind = "AUDIT"
            <3>1. Undamaged => a.outcome # "UNVERIFIED"
                BY <1>5, <2>4, AuditHolds
            <3>2. a.outcome = "OK" /\ damage.of # "STRAY" /\ query.to > 0 /\ a.last # NoHash
                     /\ Len(a.shows) = query.to - query.from + 1
                     => Proven(a, case, query.from, query.to)
                BY <1>5, <2>4, AuditProves
            <3> QED
                BY <1>1, <1>6, <2>4, <3>1, <3>2 DEF AnswerOK, Undamaged
        <2> QED
            BY <1>1, <2>1, <2>2, <2>3, <2>4
    <1> QED
        BY <1>1, <1>4, <1>7, AnswerIsSound

-----------------------------------------------------------------------------
(* Theorems *)

\* Every step keeps the invariant.
LEMMA StepIsSound ==
    ASSUME Sound, [Next]_vars
    PROVE  Sound'
    <1>1. ASSUME NEW type \in Types, NEW data \in Values \cup {"OTHER"}, Record(type, data)
          PROVE  Sound'
        BY <1>1, RecordIsSound
    <1>10. ASSUME NEW type \in Types, NEW data \in Values \cup {"OTHER"}, FailToRecord(type, data)
           PROVE  Sound'
        BY <1>10, FailToRecordIsSound
    <1>2. CASE SaveManifest \/ PutSealed \/ FailToSeal
        BY <1>2, SaveManifestIsSound, PutSealedIsSound, FailToSealIsSound
    <1>3. ASSUME NEW i \in 1..Len(log), DamageLine(i) PROVE Sound'
        BY <1>3, DamageLineIsSound
    <1>4. ASSUME NEW i \in 1..Len(manifest.entries), DamageEntry(i) PROVE Sound'
        BY <1>4, DamageEntryIsSound
    <1>5. CASE DamageManifest
        BY <1>5, DamageManifestIsSound
    <1>6. ASSUME NEW kind \in {"REPORT", "MANIFEST", "DETAIL", "LIST"}, AskAbout(kind)
          PROVE  Sound'
        BY <1>6, AskAboutIsSound
    <1>7. ASSUME NEW from \in 1..MaxRevision, NEW to \in 0..MaxRevision,
                 AskAudit(from, to) \/ \E stage \in Stages : AskCredential(stage, from, to)
          PROVE  Sound'
        BY <1>7, AskAuditIsSound, AskCredentialIsSound
    <1>8. CASE ReadCase \/ ReadManifest \/ ReadEvents \/ Close
        BY <1>8, ReadCaseIsSound, ReadManifestIsSound, ReadEventsIsSound, CloseIsSound
    <1>9. CASE UNCHANGED vars
        <2>1. UNCHANGED <<case, log, manifest, sealing, damage, query>>
            BY <1>9 DEF vars
        <2>2. CaseOK'
            BY <2>1, OthersStay
        <2>3. QueryOK'
            BY <2>1, <2>2, QueryWaits
        <2> QED
            BY <2>1, <2>3, OthersStay DEF Sound
    <1> QED
        BY <1>1, <1>2, <1>3, <1>4, <1>5, <1>6, <1>7, <1>8, <1>9, <1>10 DEF Next

\* The inductive invariant holds of every reachable state.
THEOREM QueriesAreSound ==
    Spec => []Sound
    <1>1. Init => Sound
        BY Opens
    <1>2. Sound /\ [Next]_vars => Sound'
        BY StepIsSound
    <1> QED
        BY <1>1, <1>2, PTL DEF Spec

\* A measurement report that is not refused is about one moment of the case, though
\* the case and its events are read at two.
THEOREM ReportsAreOfOneMoment ==
    Spec => []ReportIsOfOneMoment
    <1>1. Sound => ReportIsOfOneMoment
        BY DEF Sound, QueryOK, AnswerOK, ReportIsOfOneMoment, Answered
    <1> QED
        BY <1>1, QueriesAreSound, PTL

\* When a manifest verifies or a credential is given, the log, the entries, the revision
\* and the root that were read are those of the case as it was sealed, whatever was damaged,
\* and whenever; of the sealer and the names of the manifest nothing is claimed.
THEOREM WhatVerifiesIsSealed ==
    Spec => []VerifiedMeansAsSealed
    <1>1. Sound => VerifiedMeansAsSealed
        BY DEF Sound, QueryOK, AnswerOK, VerifiedMeansAsSealed, Answered
    <1> QED
        BY <1>1, QueriesAreSound, PTL

\* Files nobody touched, and where no failed change left a line, raise no alarm, whatever
\* commands run between the reads; only a report is refused, of a case that has grown
\* between its two.
THEOREM AlarmsAreReal ==
    Spec => []NoFalseAlarm
    <1>1. Sound => NoFalseAlarm
        BY DEF Sound, QueryOK, AnswerOK, NoFalseAlarm, Answered
    <1> QED
        BY <1>1, QueriesAreSound, PTL

\* A refused credential blames the revision at the damaged place.
THEOREM BlameFindsTheDamage ==
    Spec => []BlameIsAtTheDamage
    <1>1. Sound => BlameIsAtTheDamage
        BY DEF Sound, QueryOK, AnswerOK, BlameIsAtTheDamage, Answered, BlamedForDamage
    <1> QED
        BY <1>1, QueriesAreSound, PTL

\* A credential lists all events of its stage in its range, once and in order.
THEOREM CredentialsAreComplete ==
    Spec => []CredentialIsComplete
    <1>1. Sound => CredentialIsComplete
        BY DEF Sound, QueryOK, AnswerOK, CredentialIsComplete, Answered, Complete
    <1> QED
        BY <1>1, QueriesAreSound, PTL

\* An audit that verifies and is as long as its range shows the events of the case in all
\* but their time, and the hashes at its ends are theirs; unless a failed change left a
\* line.
THEOREM FullRangesAreProven ==
    Spec => []FullRangeIsProven
    <1>1. Sound => FullRangeIsProven
        BY DEF Sound, QueryOK, AnswerOK, FullRangeIsProven, Answered, Proven, SameButTime
    <1> QED
        BY <1>1, QueriesAreSound, PTL

-----------------------------------------------------------------------------
(* Types *)

EventTyped(e) ==
    /\ e.revision \in 1..Beyond /\ e.type \in AllTypes
    /\ e.data \in Data /\ e.at \in {"TIME", "ALTERED"}
HistoryTyped(h) == \A i \in 1..Len(h) : EventTyped(h[i])

ManifestTyped(m) ==
    /\ m = [id |-> m.id, by |-> m.by, entries |-> m.entries, sum |-> m.sum, root |-> m.root, revision |-> m.revision,
            verified |-> m.verified]
    /\ IsHistory(m.entries) /\ HistoryTyped(m.entries)

FilesTyped ==
    /\ HistoryTyped(case) /\ HistoryTyped(log) /\ HistoryTyped(sealing)
    /\ ManifestTyped(manifest)

QueryTyped ==
    /\ query.kind \in {"NONE", "REPORT", "MANIFEST", "CREDENTIAL", "AUDIT", "DETAIL", "LIST"}
    /\ query.step \in {"IDLE", "CASE", "MANIFEST", "EVENTS", "DONE"}
    /\ query.answer.outcome
          \in {"", "OK", "UNSEALED", "RANGE", "MISSING", "UNVERIFIED", "NOTHING"}
    /\ HistoryTyped(query.seen) /\ ManifestTyped(query.manifest)
    /\ HistoryTyped(query.answer.shows)

\* The empty history and no manifest have their types.
LEMMA NothingTyped ==
    HistoryTyped(<<>>) /\ ManifestTyped(NoManifest)
    <1>1. <<>> \in Seq({}) /\ Len(<<>>) = 0
        OBVIOUS
    <1>2. HistoryTyped(<<>>) /\ IsHistory(<<>>)
        BY <1>1 DEF HistoryTyped, IsHistory
    <1> QED
        BY <1>2 DEF ManifestTyped, NoManifest, Build

\* A history with one more event has its type.
LEMMA TypedGrows ==
    ASSUME NEW h, Whole(h), HistoryTyped(h), Len(h) < Beyond,
           NEW type \in AllTypes, NEW data \in Data
    PROVE  HistoryTyped(WithEvent(h, type, data, "TIME"))
    <1>1. PICK g : g = WithEvent(h, type, data, "TIME")
        OBVIOUS
    <1>2. /\ Chain(g) /\ Len(g) = Len(h) + 1
          /\ \A i \in 1..Len(h) : g[i] = h[i]
          /\ g[Len(g)].type = type /\ g[Len(g)].data = data /\ g[Len(g)].at = "TIME"
        BY <1>1, ChainGrows DEF Whole
    <1>3. Len(h) \in Nat /\ Beyond \in Nat
        BY HistoryLength, QueryAssumptions DEF Whole, Chain, Beyond
    <1>4. EventTyped(g[Len(g)])
        <2>1. Len(g) \in 1..Len(g)
            BY <1>2, <1>3
        <2>2. g[Len(g)].revision = Len(g)
            BY <1>2, <2>1 DEF Chain
        <2> QED
            BY <1>2, <1>3, <2>2 DEF EventTyped
    <1>5. \A i \in 1..Len(g) : i \in 1..Len(h) \/ i = Len(g)
        BY <1>2, <1>3
    <1> QED
        BY <1>1, <1>2, <1>4, <1>5 DEF HistoryTyped

\* A line that is appended, for a change or for one that fails, has its type.
LEMMA TypedLine ==
    ASSUME Sound, FilesTyped, NEW h, Whole(h), Follows(h, case), HistoryTyped(h),
           log' = Append(log, h[Len(h)])
    PROVE  HistoryTyped(log')
    <1>1. log' = Append(log, h[Len(h)])
        OBVIOUS
    <1>2. /\ Len(log') = Len(log) + 1
          /\ \A i \in 1..Len(log) : log'[i] = log[i]
          /\ log'[Len(log) + 1] = h[Len(h)]
        BY <1>1, Appended DEF Sound, LogOK, Follows
    <1>3. Len(log) \in Nat /\ Len(h) \in 1..Len(h)
        BY HistoryLength DEF Sound, LogOK, CaseOK, Whole, Chain, Follows
    <1>4. EventTyped(h[Len(h)])
        BY <1>3 DEF HistoryTyped
    <1>5. \A i \in 1..Len(log') : i \in 1..Len(log) \/ i = Len(log) + 1
        BY <1>2, <1>3
    <1> QED
        BY <1>1, <1>2, <1>4, <1>5 DEF HistoryTyped, FilesTyped

\* What a command stores has its type,
LEMMA TypedLog ==
    ASSUME Sound, FilesTyped, NEW h, Whole(h), Follows(h, case), HistoryTyped(h), PutEvents(h)
    PROVE  HistoryTyped(case') /\ HistoryTyped(log')
    BY TypedLine DEF PutEvents

\* ... and so has what it leaves when it fails.
LEMMA TypedStray ==
    ASSUME Sound, FilesTyped, NEW h, Whole(h), Follows(h, case), HistoryTyped(h), StrayLine(h)
    PROVE  HistoryTyped(log')
    BY TypedLine DEF StrayLine

\* The variables have their types at first.
LEMMA OpensTyped ==
    ASSUME Init
    PROVE  FilesTyped /\ QueryTyped
    <1>1. Whole(<<>>) /\ Len(<<>>) < Beyond
        <2>1. <<>> \in Seq({}) /\ Len(<<>>) = 0
            OBVIOUS
        <2> QED
            BY <2>1, QueryAssumptions DEF Whole, Chain, IsHistory, Beyond
    <1>2. HistoryTyped(case)
        BY <1>1, NothingTyped, TypedGrows DEF Init, AllTypes, Data
    <1>3. FilesTyped
        BY <1>2, NothingTyped DEF FilesTyped, Init
    <1>4. QueryTyped
        BY NothingTyped DEF QueryTyped, Init, Idle, NoAnswer
    <1> QED
        BY <1>3, <1>4

\* ... after a command,
LEMMA CommandsTyped ==
    ASSUME Sound, FilesTyped,
           \/ \E type \in Types, data \in Values \cup {"OTHER"} :
                 Record(type, data) \/ FailToRecord(type, data)
           \/ SaveManifest \/ PutSealed \/ FailToSeal
    PROVE  FilesTyped'
    <1>1. /\ Whole(case) /\ Len(case) \in Nat /\ Beyond = MaxRevision + 1 /\ MaxRevision \in Nat
          /\ ~Sealed(case) => Len(case) < Beyond
        BY HistoryLength, QueryAssumptions DEF Sound, CaseOK, Whole, Chain, Beyond
    <1>2. ASSUME NEW type \in Types, NEW data \in Values \cup {"OTHER"}, Record(type, data)
          PROVE  FilesTyped'
        <2>1. PICK h : h = WithEvent(case, type, data, "TIME")
            OBVIOUS
        <2>2. /\ PutEvents(h) /\ sealing' = sealing /\ manifest' = manifest
              /\ Len(case) < Beyond
            BY <1>1, <1>2, <2>1 DEF Record, CanRecord
        <2>3. data # "ALTERED" /\ type \in AllTypes /\ data \in Data
            BY QueryAssumptions DEF AllTypes, Data
        <2>4. HistoryTyped(h) /\ Whole(h) /\ Follows(h, case)
            BY <1>1, <2>1, <2>2, <2>3, TypedGrows, WholeGrows DEF FilesTyped
        <2>5. HistoryTyped(case') /\ HistoryTyped(log')
            BY <2>2, <2>4, TypedLog
        <2> QED
            BY <2>2, <2>5 DEF FilesTyped
    <1>3. CASE SaveManifest
        <2>1. PICK h : h = WithEvent(case, "SEALED", "OTHER", "TIME")
            OBVIOUS
        <2>2. /\ sealing' = h /\ manifest' = SealOf(h) /\ case' = case /\ log' = log
              /\ Len(case) < Beyond
            BY <1>1, <1>3, <2>1 DEF SaveManifest, SavedManifest
        <2>3. HistoryTyped(h) /\ Whole(h)
            BY <1>1, <2>1, <2>2, TypedGrows, WholeGrows DEF FilesTyped, AllTypes, Data
        <2>4. ManifestTyped(manifest')
            BY <2>2, <2>3 DEF ManifestTyped, SealOf, Build, Whole, Chain
        <2> QED
            BY <2>2, <2>3, <2>4 DEF FilesTyped
    <1>4. CASE PutSealed
        <2>1. PICK h : h = sealing
            OBVIOUS
        <2>2. /\ PutEvents(h) /\ sealing' = <<>> /\ manifest' = manifest
              /\ Whole(h) /\ Follows(h, case) /\ HistoryTyped(h)
            BY <1>4, <2>1 DEF PutSealed, Sound, SealingOK, FilesTyped
        <2>3. HistoryTyped(case') /\ HistoryTyped(log')
            BY <2>2, TypedLog
        <2> QED
            BY <2>2, <2>3, NothingTyped DEF FilesTyped
    <1>5. CASE FailToSeal
        <2>1. PICK h : h = sealing
            OBVIOUS
        <2>2. /\ StrayLine(h) \/ log' = log
              /\ sealing' = <<>> /\ UNCHANGED <<case, manifest>>
              /\ Whole(h) /\ Follows(h, case) /\ HistoryTyped(h)
            BY <1>5, <2>1 DEF FailToSeal, Sound, SealingOK, FilesTyped
        <2>3. HistoryTyped(log')
            BY <2>2, TypedStray DEF FilesTyped
        <2> QED
            BY <2>2, <2>3, NothingTyped DEF FilesTyped
    <1>6. ASSUME NEW type \in Types, NEW data \in Values \cup {"OTHER"}, FailToRecord(type, data)
          PROVE  FilesTyped'
        <2>1. PICK h : h = WithEvent(case, type, data, "TIME")
            OBVIOUS
        <2>2. /\ StrayLine(h) /\ UNCHANGED <<case, manifest, sealing>>
              /\ Len(case) < Beyond
            BY <1>1, <1>6, <2>1 DEF FailToRecord, CanRecord
        <2>3. data # "ALTERED" /\ type \in AllTypes /\ data \in Data
            BY QueryAssumptions DEF AllTypes, Data
        <2>4. HistoryTyped(h) /\ Whole(h) /\ Follows(h, case)
            BY <1>1, <2>1, <2>2, <2>3, TypedGrows, WholeGrows DEF FilesTyped
        <2>5. HistoryTyped(log')
            BY <2>2, <2>4, TypedStray
        <2> QED
            BY <2>2, <2>5 DEF FilesTyped
    <1> QED
        BY <1>2, <1>3, <1>4, <1>5, <1>6

\* Damage leaves events that are typed, with a revision beyond all others at most.
LEMMA AlteredTyped ==
    ASSUME NEW h, IsHistory(h), HistoryTyped(h), NEW i \in 1..Len(h),
           NEW e \in {[h[i] EXCEPT !.data = "ALTERED"], [h[i] EXCEPT !.at = "ALTERED"],
                      [h[i] EXCEPT !.revision = Beyond]}
    PROVE  IsHistory([h EXCEPT ![i] = e]) /\ HistoryTyped([h EXCEPT ![i] = e])
    <1>1. IsEvent(h[i]) /\ EventTyped(h[i]) /\ Beyond \in Nat /\ Beyond > 0
        BY QueryAssumptions DEF IsHistory, HistoryTyped, Beyond
    <1>2. IsEvent(e)
        BY <1>1 DEF IsEvent
    <1>3. EventTyped(e)
        BY <1>1 DEF IsEvent, EventTyped, Data
    <1>4. /\ IsHistory([h EXCEPT ![i] = e]) /\ Len([h EXCEPT ![i] = e]) = Len(h)
          /\ \A j \in 1..Len(h) : [h EXCEPT ![i] = e][j] = IF j = i THEN e ELSE h[j]
        BY <1>2, Altered
    <1> QED
        BY <1>3, <1>4 DEF HistoryTyped

\* ... after a damage,
LEMMA DamageTyped ==
    ASSUME Sound, FilesTyped,
           \/ \E i \in 1..Len(log) : DamageLine(i)
           \/ \E i \in 1..Len(manifest.entries) : DamageEntry(i)
           \/ DamageManifest
    PROVE  FilesTyped'
    <1>1. IsHistory(log) /\ HistoryTyped(log) /\ Len(log) \in Nat
        BY HistoryLength DEF Sound, LogOK, FilesTyped
    <1>2. ASSUME NEW i \in 1..Len(log), DamageLine(i) PROVE FilesTyped'
        <2>1. UNCHANGED <<case, manifest, sealing>>
            BY <1>2 DEF DamageLine
        <2>2. ASSUME NEW m \in 0..Len(log), NEW n \in 1..(Len(log) + 1),
                     log' = SubSeq(log, 1, m) \o SubSeq(log, n, Len(log))
              PROVE  HistoryTyped(log')
            <3>1. /\ Len(log') = m + (Len(log) - n + 1)
                  /\ \A j \in 1..m : log'[j] = log[j]
                  /\ \A j \in (m + 1)..Len(log') : log'[j] = log[j - m + n - 1]
                BY <1>1, <2>2, Spliced
            <3>2. ASSUME NEW j \in 1..Len(log') PROVE EventTyped(log'[j])
                <4>1. CASE j \in 1..m
                    BY <1>1, <3>1, <4>1 DEF HistoryTyped
                <4>2. CASE j \notin 1..m
                    <5>1. PICK k \in 1..Len(log) : k = j - m + n - 1
                        BY <1>1, <3>1, <4>2
                    <5>2. log'[j] = log[k]
                        BY <1>1, <3>1, <4>2, <5>1
                    <5> QED
                        BY <1>1, <5>2 DEF HistoryTyped
                <4> QED
                    BY <4>1, <4>2
            <3> QED
                BY <3>2 DEF HistoryTyped
        <2>3. CASE log' = WithoutLine(i)
            <3>1. PICK m \in 0..Len(log) : m = i - 1
                BY <1>1
            <3>2. PICK n \in 1..(Len(log) + 1) : n = i + 1
                BY <1>1
            <3>3. log' = SubSeq(log, 1, m) \o SubSeq(log, n, Len(log))
                BY <2>3, <3>1, <3>2 DEF WithoutLine
            <3> QED
                BY <2>1, <2>2, <3>3 DEF FilesTyped
        <2>4. CASE log' = WithLineTwice(i)
            <3>1. i \in 0..Len(log) /\ i \in 1..(Len(log) + 1)
                BY <1>1
            <3>2. log' = SubSeq(log, 1, i) \o SubSeq(log, i, Len(log))
                BY <2>4 DEF WithLineTwice
            <3> QED
                BY <2>1, <2>2, <3>1, <3>2 DEF FilesTyped
        <2>5. CASE \E e \in {[log[i] EXCEPT !.data = "ALTERED"], [log[i] EXCEPT !.at = "ALTERED"],
                             [log[i] EXCEPT !.revision = Beyond]} : log' = [log EXCEPT ![i] = e]
            <3>1. PICK e \in {[log[i] EXCEPT !.data = "ALTERED"], [log[i] EXCEPT !.at = "ALTERED"],
                              [log[i] EXCEPT !.revision = Beyond]} : log' = [log EXCEPT ![i] = e]
                BY <2>5
            <3>2. HistoryTyped([log EXCEPT ![i] = e])
                BY <1>1, AlteredTyped
            <3> QED
                BY <2>1, <3>1, <3>2 DEF FilesTyped
        <2> QED
            BY <1>2, <2>3, <2>4, <2>5 DEF DamageLine
    <1>3. ASSUME NEW i \in 1..Len(manifest.entries), DamageEntry(i) PROVE FilesTyped'
        <2>1. UNCHANGED <<case, log, sealing>>
            BY <1>3 DEF DamageEntry
        <2>2. PICK e \in {[manifest.entries[i] EXCEPT !.data = "ALTERED"],
                          [manifest.entries[i] EXCEPT !.at = "ALTERED"]} :
                 manifest' = [manifest EXCEPT !.entries = [manifest.entries EXCEPT ![i] = e]]
            BY <1>3 DEF DamageEntry
        <2>3. /\ IsHistory([manifest.entries EXCEPT ![i] = e])
              /\ HistoryTyped([manifest.entries EXCEPT ![i] = e])
            BY AlteredTyped DEF FilesTyped, ManifestTyped
        <2>4. ManifestTyped(manifest')
            BY <2>2, <2>3 DEF FilesTyped, ManifestTyped
        <2> QED
            BY <2>1, <2>4 DEF FilesTyped
    <1>4. CASE DamageManifest
        <2>1. UNCHANGED <<case, log, sealing>>
            BY <1>4 DEF DamageManifest
        <2>2. ManifestTyped(manifest)
            BY DEF FilesTyped
        <2>3. ManifestTyped(manifest')
            <3>1. CASE manifest' = NoManifest
                BY <3>1, NothingTyped
            <3>2. CASE \/ manifest' = [manifest EXCEPT !.id = "ALTERED"]
                       \/ manifest' = [manifest EXCEPT !.by = "ALTERED"]
                       \/ manifest' = [manifest EXCEPT !.sum = <<>>]
                BY <2>2, <3>2 DEF ManifestTyped
            <3>3. CASE \/ manifest' = [manifest EXCEPT !.root = NoHash]
                       \/ manifest' = [manifest EXCEPT !.revision = Beyond]
                       \/ manifest' = [manifest EXCEPT !.verified = FALSE]
                BY <2>2, <3>3 DEF ManifestTyped
            <3> QED
                BY <1>4, <3>1, <3>2, <3>3 DEF DamageManifest
        <2> QED
            BY <2>1, <2>3 DEF FilesTyped
    <1> QED
        BY <1>2, <1>3, <1>4

\* A selection of a history has the type of a history.
LEMMA SelectionTyped ==
    ASSUME NEW h, IsHistory(h), HistoryTyped(h), NEW positions \in SUBSET (1..Len(h))
    PROVE  HistoryTyped(InOrder(h, positions))
    <1>1. PICK s : s = InOrder(h, positions)
        OBVIOUS
    <1>2. Lists(s, h, positions)
        BY <1>1, InOrderLists
    <1>3. PICK at \in [1..Len(s) -> positions] : \A i \in 1..Len(s) : s[i] = h[at[i]]
        BY <1>2 DEF Lists
    <1>4. \A i \in 1..Len(s) : at[i] \in 1..Len(h)
        BY <1>3
    <1> QED
        BY <1>1, <1>3, <1>4 DEF HistoryTyped

\* The answer has its type,
LEMMA AnswersTyped ==
    ASSUME Sound, FilesTyped, QueryTyped, ReadEvents
    PROVE  QueryTyped'
    <1>1. /\ query.step = "EVENTS" /\ query.kind \in {"REPORT", "MANIFEST", "CREDENTIAL", "AUDIT"}
        BY DEF ReadEvents, Sound, QueryOK
    <1>2. PICK a : a =
                CASE query.kind = "REPORT"     -> MeasurementReport(query.seen, Events)
                  [] query.kind = "MANIFEST"   -> ManifestPage(query.manifest, query.seen, Events)
                  [] query.kind = "CREDENTIAL" -> EvidenceCredential(query.manifest, query.seen, Events)
                  [] query.kind = "AUDIT"      -> Audit(Events)
        OBVIOUS
    <1>3. PICK events : events = Events
        OBVIOUS
    <1>4. AnswerFrom(events, a)
        BY <1>2, <1>3, Zenon DEF ReadEvents
    <1>5. /\ query.kind = "REPORT" => a = MeasurementReport(query.seen, Events)
          /\ query.kind = "MANIFEST" => a = ManifestPage(query.manifest, query.seen, Events)
          /\ query.kind = "CREDENTIAL" => a = EvidenceCredential(query.manifest, query.seen, Events)
          /\ query.kind = "AUDIT" => a = Audit(Events)
        BY <1>2, AnswerOfKind, Zenon
    <1>6. IsHistory(events) /\ HistoryTyped(events) /\ Len(events) \in Nat
        <2>1. IsHistory(events) /\ HistoryTyped(events)
            BY <1>3 DEF Events, FilesTyped, Sound, CaseOK, LogOK, Whole, Chain
        <2> QED
            BY <2>1, HistoryLength
    <1>7. NoAnswer.shows = <<>>
        BY DEF NoAnswer
    <1>8. /\ a.outcome \in {"", "OK", "UNSEALED", "RANGE", "MISSING", "UNVERIFIED", "NOTHING"}
          /\ HistoryTyped(a.shows)
        <2>1. CASE query.kind = "REPORT"
            <3>1. PICK latest : latest = LatestMeasurement(events)
                OBVIOUS
            <3>2. latest = 0 \/ latest \in 1..Len(events)
                <4> DEFINE T == {i \in 1..Len(events) : events[i].type \in Measuring} \cup {0}
                <4>1. T \in SUBSET (0..Len(events)) /\ T # {}
                    BY <1>6
                <4>2. latest = Max(T)
                    BY <3>1 DEF LatestMeasurement
                <4> HIDE DEF T
                <4>3. latest \in 0..Len(events)
                    BY <1>6, <4>1, <4>2, MaxIsMember
                <4> QED
                    BY <1>6, <4>3
            <3>3. /\ a.outcome \in {"OK", "MISSING", "UNVERIFIED"}
                  /\ \/ a.shows = <<>>
                     \/ latest # 0 /\ a.shows = <<events[latest]>>
                BY <1>3, <1>5, <2>1, <3>1 DEF MeasurementReport, NoAnswer
            <3>4. ASSUME latest \in 1..Len(events), a.shows = <<events[latest]>>
                  PROVE  HistoryTyped(a.shows)
                BY <1>6, <3>4 DEF HistoryTyped
            <3> QED
                BY <3>2, <3>3, <3>4, NothingTyped
        <2>2. CASE query.kind = "MANIFEST"
            BY <1>5, <2>2 DEF ManifestPage, NoAnswer, QueryTyped, ManifestTyped
        <2>3. CASE query.kind = "CREDENTIAL"
            <3>1. PICK chosen :
                    chosen = Selected(query.manifest.entries, query.stage, query.from, query.to)
                OBVIOUS
            <3>2. a.outcome \in {"OK", "UNVERIFIED", "NOTHING"} /\ (a.shows = <<>> \/ a.shows = chosen)
                BY <1>5, <2>3, <3>1 DEF EvidenceCredential, NoAnswer
            <3>3. HistoryTyped(chosen)
                BY <3>1, SelectionTyped DEF Selected, QueryTyped, ManifestTyped
            <3> QED
                BY <3>2, <3>3, NothingTyped
        <2>4. CASE query.kind = "AUDIT"
            <3>1. PICK shown \in SUBSET (1..Len(events)) :
                     a.shows = InOrder(events, shown) /\ a.outcome \in {"OK", "UNVERIFIED"}
                BY <1>3, <1>5, <2>4 DEF Audit, NoAnswer
            <3> QED
                BY <1>6, <3>1, SelectionTyped
        <2> QED
            BY <1>1, <2>1, <2>2, <2>3, <2>4
    <1>9. query' = [kind |-> query.kind, step |-> "DONE", stage |-> query.stage,
                    from |-> query.from, to |-> query.to, seen |-> events,
                    manifest |-> NoManifest, answer |-> a]
        BY <1>4, AnswerIs DEF Sound
    <1> QED
        BY <1>6, <1>8, <1>9, NothingTyped DEF QueryTyped

\* ... and so has the query at its other steps.
LEMMA QueriesTyped ==
    ASSUME Sound, FilesTyped, QueryTyped,
           \/ \E kind \in {"REPORT", "MANIFEST", "DETAIL", "LIST"} : AskAbout(kind)
           \/ \E from \in 1..MaxRevision, to \in 0..MaxRevision :
                 \/ AskAudit(from, to)
                 \/ \E stage \in Stages : AskCredential(stage, from, to)
           \/ ReadCase \/ ReadManifest \/ ReadEvents \/ Close
    PROVE  QueryTyped'
    <1>1. HistoryTyped(<<>>) /\ ManifestTyped(NoManifest) /\ NoAnswer.shows = <<>>
          /\ NoAnswer.outcome = ""
        BY NothingTyped DEF NoAnswer
    <1>2. ASSUME NEW kind \in {"REPORT", "MANIFEST", "DETAIL", "LIST"}, AskAbout(kind)
          PROVE  QueryTyped'
        BY <1>1, <1>2 DEF AskAbout, Ask, Idle, QueryTyped
    <1>3. ASSUME NEW from, NEW to, AskAudit(from, to)
          PROVE  QueryTyped'
        BY <1>1, <1>3 DEF AskAudit, Ask, Idle, QueryTyped
    <1>4. ASSUME NEW stage, NEW from, NEW to, AskCredential(stage, from, to)
          PROVE  QueryTyped'
        BY <1>1, <1>4 DEF AskCredential, Ask, Idle, QueryTyped
    <1>5. ASSUME NEW a, a.shows = <<>>, AnswerFrom(<<>>, a),
                 a.outcome \in {"OK", "UNSEALED", "RANGE", "MISSING"}
          PROVE  QueryTyped'
        <2>1. query' = [kind |-> query.kind, step |-> "DONE", stage |-> query.stage,
                        from |-> query.from, to |-> query.to, seen |-> <<>>,
                        manifest |-> NoManifest, answer |-> a]
            BY <1>5, AnswerIs DEF Sound
        <2> QED
            BY <1>1, <1>5, <2>1 DEF QueryTyped
    <1>6. ASSUME NEW why \in {"UNSEALED", "RANGE", "MISSING"}, Refuse(why)
          PROVE  QueryTyped'
        <2>1. PICK a : a = [NoAnswer EXCEPT !.outcome = why]
            OBVIOUS
        <2>2. AnswerFrom(<<>>, a) /\ a.outcome = why /\ a.shows = <<>>
            BY <1>6, <2>1 DEF Refuse, Answer, NoAnswer
        <2> QED
            BY <1>5, <2>2
    <1>7. ASSUME NEW m, Answer(Shown(m))
          PROVE  QueryTyped'
        <2>1. PICK a : a = Shown(m)
            OBVIOUS
        <2>2. AnswerFrom(<<>>, a) /\ a.outcome = "OK" /\ a.shows = <<>>
            BY <1>7, <2>1 DEF Answer, Shown, NoAnswer
        <2> QED
            BY <1>5, <2>2
    <1>8. CASE ReadCase
        <2>1. ASSUME NEW step \in {"EVENTS", "MANIFEST"},
                     query' = [query EXCEPT !.step = step, !.seen = case]
              PROVE  QueryTyped'
            <3>1. query' = [kind |-> query.kind, step |-> step, stage |-> query.stage,
                            from |-> query.from, to |-> query.to, seen |-> case,
                            manifest |-> query.manifest, answer |-> query.answer]
                BY <2>1 DEF Sound, QueryOK
            <3> QED
                BY <3>1 DEF QueryTyped, FilesTyped
        <2> QED
            BY <1>6, <1>8, <2>1 DEF ReadCase
    <1>9. CASE ReadManifest
        <2>1. CASE query' = [query EXCEPT !.step = "EVENTS", !.manifest = manifest]
            <3>1. query' = [kind |-> query.kind, step |-> "EVENTS", stage |-> query.stage,
                            from |-> query.from, to |-> query.to, seen |-> query.seen,
                            manifest |-> manifest, answer |-> query.answer]
                BY <2>1 DEF Sound, QueryOK
            <3> QED
                BY <3>1 DEF QueryTyped, FilesTyped
        <2>2. \/ Refuse("MISSING")
              \/ \E m : Answer(Shown(m))
              \/ query' = [query EXCEPT !.step = "EVENTS", !.manifest = manifest]
            BY <1>9, Zenon DEF ReadManifest
        <2> QED
            BY <1>6, <1>7, <2>1, <2>2
    <1>10. CASE ReadEvents
        BY <1>10, AnswersTyped
    <1>11. CASE Close
        BY <1>1, <1>11 DEF Close, Idle, QueryTyped
    <1> QED
        BY <1>2, <1>3, <1>4, <1>8, <1>9, <1>10, <1>11

\* Every step keeps the types.
LEMMA StepTyped ==
    ASSUME Sound, FilesTyped, QueryTyped, [Next]_vars
    PROVE  FilesTyped' /\ QueryTyped'
    <1>1. CASE UNCHANGED query /\ FilesTyped'
        BY <1>1 DEF QueryTyped
    <1>2. CASE UNCHANGED <<case, log, manifest, sealing>> /\ QueryTyped'
        BY <1>2 DEF FilesTyped
    <1>3. CASE \/ \E type \in Types, data \in Values \cup {"OTHER"} :
                     Record(type, data) \/ FailToRecord(type, data)
               \/ SaveManifest \/ PutSealed \/ FailToSeal
        <2>1. UNCHANGED query
            BY <1>3 DEF Record, FailToRecord, SaveManifest, PutSealed, FailToSeal
        <2> QED
            BY <1>1, <1>3, <2>1, CommandsTyped
    <1>4. CASE \/ \E i \in 1..Len(log) : DamageLine(i)
               \/ \E i \in 1..Len(manifest.entries) : DamageEntry(i)
               \/ DamageManifest
        <2>1. UNCHANGED query
            BY <1>4 DEF DamageLine, DamageEntry, DamageManifest
        <2> QED
            BY <1>1, <1>4, <2>1, DamageTyped
    <1>5. CASE \/ \E kind \in {"REPORT", "MANIFEST", "DETAIL", "LIST"} : AskAbout(kind)
               \/ \E from \in 1..MaxRevision, to \in 0..MaxRevision :
                     \/ AskAudit(from, to)
                     \/ \E stage \in Stages : AskCredential(stage, from, to)
               \/ ReadCase \/ ReadManifest \/ ReadEvents \/ Close
        <2>1. UNCHANGED <<case, log, manifest, sealing>>
            BY <1>5 DEF AskAbout, AskAudit, AskCredential, Ask, ReadCase, ReadManifest,
                        ReadEvents, Close
        <2> QED
            BY <1>2, <1>5, <2>1, QueriesTyped
    <1>6. CASE UNCHANGED vars
        BY <1>6 DEF vars, FilesTyped, QueryTyped
    <1> QED
        BY <1>3, <1>4, <1>5, <1>6 DEF Next

\* The case is its history, the log its lines, the query one of the six.
THEOREM QueriesTypeCorrect ==
    Spec => []TypeOK
    <1>1. Init => FilesTyped /\ QueryTyped
        BY OpensTyped
    <1>2. Sound /\ FilesTyped /\ QueryTyped /\ [Next]_vars => FilesTyped' /\ QueryTyped'
        BY StepTyped
    <1>3. Sound /\ FilesTyped /\ QueryTyped => TypeOK
        <2> SUFFICES ASSUME Sound, FilesTyped, QueryTyped PROVE TypeOK
            OBVIOUS
        <2>1. \A h \in {case, log, sealing, manifest.entries, query.seen, query.answer.shows} :
                 HistoryTyped(h)
            BY DEF FilesTyped, QueryTyped, ManifestTyped
        <2>2. damage.of \in {"NOTHING", "LINE", "STRAY", "ENTRY", "MANIFEST"}
            BY DEF Sound, DamageOK, NoDamage
        <2> QED
            BY <2>1, <2>2 DEF TypeOK, QueryTyped, HistoryTyped, EventTyped
    <1> QED
        BY <1>1, <1>2, <1>3, QueriesAreSound, PTL DEF Spec
=============================================================================
