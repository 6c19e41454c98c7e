-------------------------- MODULE EventStoreProofs --------------------------
(***************************************************************************)
(* What a kill at any moment, and a failing write of any file, cannot do to *)
(* EventStore: proofs for every set of cases and requests and any number of *)
(* kills and failures.                                                      *)
(***************************************************************************)
EXTENDS EventStore, SequenceTheorems, FiniteSetTheorems, TLAPS

-----------------------------------------------------------------------------
(* The inductive invariant *)

BeforeLog == {"CUT_MANIFESTS", "MANIFESTS", "LOG"}
AfterLog  == {"CUT_CASES", "CASES", "CUT_HASHES", "HASHES", "CUT_RESULTS", "RESULTS"}

\* The case as the command being written found it.
Base == SubSeq(op.case, 1, named[op.request])

\* A check writes its result; a command that changes a case brings the events that
\* follow the revision it found, all of its own request.
CheckUnderWay ==
    /\ op.request \in Checks
    /\ op.next \in {"CUT_VALIDATIONS", "VALIDATIONS", "REPLY"}
ChangeUnderWay ==
    /\ op.request \in Requests \ Checks
    /\ op.next \in BeforeLog \cup AfterLog \cup {"REPLY"}
    /\ named[op.request] \in 0..(Len(op.case) - 1)
    /\ op.events = NewLines(CaseOf[op.request], Base, op.case)
    /\ \A i \in (named[op.request] + 1)..Len(op.case) : op.case[i] = op.request
    /\ op.request \in Creates => Len(op.case) = 1

CommandOK ==
    op # NoOp => /\ process = "UP"
                 /\ op.case # <<>>
                 /\ CheckUnderWay \/ ChangeUnderWay

\* Until its events are in the log, nothing else touches the case of a command.
BaseIsCurrent ==
    op.next \in BeforeLog =>
        /\ memory.cases[CaseOf[op.request]] = Base
        /\ Fresh[CaseOf[op.request]] = Base

\* The events of a case that were written: to the log, or lost.
Written(c) == LoggedEvents(c) \cup LostEvents(c)

SnapshotIsWritten == \A c \in Cases : AllPrefixes(disk.cases[c]) \subseteq Written(c)
MemoryIsWritten   == \A c \in Cases : AllPrefixes(memory.cases[c]) \subseteq Written(c)

\* A write that fails costs two lines at most, the second of them once the next write
\* follows the part of a line that it left.
LossesAreCounted ==
    /\ IsFiniteSet(lost)
    /\ Cardinality(lost) + (IF torn THEN 1 ELSE 0) <= 2 * errors

\* A case on the disk is known to the process, so it is not created again.
MemoryKnows ==
    process = "UP" => \A c \in Cases : disk.cases[c] # <<>> => memory.cases[c] # <<>>

Chained(c) == \A i \in CaseLines(c) : Continues(i)

\* Along a chain the revisions rise.
Rising ==
    \A c \in Cases : Chained(c) =>
        \A i, j \in CaseLines(c) : i < j => Len(log[i].event) < Len(log[j].event)

OneAhead(c, h) ==
    \E r \in Requests : \A e \in LoggedEvents(c) :
        \/ Extends(h, e)
        \/ Extends(e, h) /\ e[Len(e)] = r
OneBehind(c, h) == h # <<>> /\ Chained(c) /\ LostEvents(c) = {} => OneAhead(c, h)

AllOneBehind == \A c \in Cases : OneBehind(c, disk.cases[c]) /\ OneBehind(c, memory.cases[c])

\* A reply that is kept, or was given, is of a request that a line names, in the log or
\* lost.
InLog(r) == \E i \in 1..Len(log) : log[i].event[Len(log[i].event)] = r
Named(r) == InLog(r) \/ \E l \in lost : l.event[Len(l.event)] = r
Kept(r) ==
    \/ memory.requests[r] # <<>> \/ memory.results[r] # <<>> \/ disk.results[r] # <<>>
    \/ replies[r] # {}
    \/ op.request = r /\ op.next \in AfterLog \cup {"REPLY"}
KeptAreNamed == \A r \in Requests \ Checks : Kept(r) => Named(r)

Durable ==
    /\ TypeOK
    /\ CommandOK
    /\ SnapshotIsWritten
    /\ MemoryIsWritten
    /\ LossesAreCounted
    /\ MemoryKnows
    /\ BaseIsCurrent
    /\ Rising
    /\ AllOneBehind
    /\ KeptAreNamed

-----------------------------------------------------------------------------
(* Prefixes of histories *)

\* A prefix is a history of its length with the same members.
LEMMA PrefixType ==
    ASSUME NEW S, NEW h \in Seq(S), NEW n \in 0..Len(h)
    PROVE  /\ SubSeq(h, 1, n) \in Seq(S)
           /\ Len(SubSeq(h, 1, n)) = n
           /\ \A i \in 1..n : SubSeq(h, 1, n)[i] = h[i]
    <1>1. \A i \in 1..n : h[i] \in S
        BY ElementOfSeq, LenProperties
    <1>2. n \in Int /\ 1 \in Int
        BY LenProperties
    <1> QED
        BY <1>1, <1>2, SubSeqProperties

\* A prefix of a prefix is a prefix.
LEMMA PrefixOfPrefix ==
    ASSUME NEW S, NEW h \in Seq(S), NEW n \in 0..Len(h), NEW m \in 0..n
    PROVE  SubSeq(SubSeq(h, 1, n), 1, m) = SubSeq(h, 1, m)
    <1> DEFINE p == SubSeq(h, 1, n)
    <1>1. p \in Seq(S) /\ Len(p) = n /\ \A i \in 1..n : p[i] = h[i]
        BY PrefixType
    <1>2. m \in 0..Len(p) /\ m \in 0..Len(h)
        BY <1>1, LenProperties
    <1> HIDE DEF p
    <1>3. /\ SubSeq(p, 1, m) \in Seq(S) /\ Len(SubSeq(p, 1, m)) = m
          /\ \A i \in 1..m : SubSeq(p, 1, m)[i] = p[i]
        BY <1>1, <1>2, PrefixType
    <1>4. /\ SubSeq(h, 1, m) \in Seq(S) /\ Len(SubSeq(h, 1, m)) = m
          /\ \A i \in 1..m : SubSeq(h, 1, m)[i] = h[i]
        BY <1>2, PrefixType
    <1>5. \A i \in 1..Len(SubSeq(p, 1, m)) : SubSeq(p, 1, m)[i] = SubSeq(h, 1, m)[i]
        BY <1>1, <1>3, <1>4, LenProperties
    <1>6. SubSeq(p, 1, m) = SubSeq(h, 1, m)
        BY <1>3, <1>4, <1>5, SeqEqual
    <1> QED
        BY <1>6 DEF p

\* A history extends its prefixes, itself included.
LEMMA ExtendsPrefix ==
    ASSUME NEW S, NEW h \in Seq(S), NEW n \in 0..Len(h)
    PROVE  Extends(h, SubSeq(h, 1, n))
    BY PrefixType, LenProperties DEF Extends

\* A sequence extends itself.
LEMMA WholeIsPrefix ==
    ASSUME NEW S, NEW h \in Seq(S)
    PROVE  SubSeq(h, 1, Len(h)) = h /\ Extends(h, h)
    BY SubSeqFull, LenProperties DEF Extends

\* An extension of an extension is one.
LEMMA ExtendsIsTransitive ==
    ASSUME NEW S, NEW h \in Seq(S), NEW g \in Seq(S), NEW f \in Seq(S),
           Extends(h, g), Extends(g, f)
    PROVE  Extends(h, f)
    <1>1. Len(g) \in 0..Len(h) /\ Len(f) \in 0..Len(g)
        BY LenProperties DEF Extends
    <1>2. SubSeq(SubSeq(h, 1, Len(g)), 1, Len(f)) = SubSeq(h, 1, Len(f))
        BY <1>1, PrefixOfPrefix
    <1> QED
        BY <1>1, <1>2 DEF Extends

\* Two histories of one length extend each other only when they are equal.
LEMMA ExtendsOfOneLength ==
    ASSUME NEW S, NEW h \in Seq(S), NEW g \in Seq(S), Extends(h, g), Len(h) <= Len(g)
    PROVE  h = g
    <1>1. Len(h) = Len(g)
        BY LenProperties DEF Extends
    <1> QED
        BY <1>1, WholeIsPrefix DEF Extends

\* The history before the last request.
LEMMA PrefixOfMember ==
    ASSUME NEW S, NEW h \in Seq(S), NEW n \in 1..Len(h)
    PROVE  Prefix(SubSeq(h, 1, n)) = SubSeq(h, 1, n - 1)
    <1>1. n \in 0..Len(h) /\ n - 1 \in 0..n
        BY LenProperties
    <1>2. Len(SubSeq(h, 1, n)) = n
        BY <1>1, PrefixType
    <1> QED
        BY <1>1, <1>2, PrefixOfPrefix DEF Prefix

-----------------------------------------------------------------------------
(* The log *)

\* Every line of the log has a case and events.
LEMMA LinesTyped ==
    ASSUME log \in Seq(Line)
    PROVE  /\ Len(log) \in Nat
           /\ \A i \in 1..Len(log) : /\ log[i] \in Line
                                     /\ log[i].case \in Cases
                                     /\ log[i].event \in Seq(Requests)
                                     /\ log[i].event # <<>>
    <1>1. Len(log) \in Nat
        BY LenProperties
    <1>2. \A i \in 1..Len(log) : log[i] \in Line
        BY ElementOfSeq
    <1> QED
        BY <1>1, <1>2 DEF Line

\* What is logged of a case does not change with the other files.
LEMMA LogStays ==
    ASSUME UNCHANGED log
    PROVE  /\ \A c : LoggedEvents(c)' = LoggedEvents(c)
           /\ \A c : CaseLines(c)' = CaseLines(c)
           /\ \A c : Chained(c)' = Chained(c)
           /\ \A i : Continues(i)' = Continues(i)
           /\ \A r : InLog(r)' = InLog(r)
    <1>1. \A c : CaseLines(c)' = CaseLines(c)
        BY DEF CaseLines
    <1>2. \A i : Continues(i)' = Continues(i)
        BY DEF Continues, Previous
    <1>3. \A c : LoggedEvents(c)' = LoggedEvents(c)
        BY <1>1 DEF LoggedEvents
    <1>4. \A c : Chained(c)' = Chained(c)
        BY <1>1, <1>2 DEF Chained
    <1>5. \A r : InLog(r)' = InLog(r)
        BY DEF InLog
    <1> QED
        BY <1>1, <1>2, <1>3, <1>4, <1>5

\* The lines that take case c from its first n events to h are written at the end.
Appends(c, h, n) ==
    /\ Len(log') = Len(log) + (Len(h) - n)
    /\ \A i \in 1..Len(log) : log'[i] = log[i]
    /\ \A i \in (Len(log) + 1)..Len(log') : \A m \in (n + 1)..Len(h) :
           i - Len(log) = m - n => log'[i] = [case |-> c, event |-> SubSeq(h, 1, m)]

\* One line for each event that gets into the file, less the one a torn line takes.
LEMMA WriteAppends ==
    ASSUME TypeOK, ChangeUnderWay, op \in Commands, NEW k \in 0..Len(op.events), NEW cut,
           WriteLines(k, cut)
    PROVE  \E s \in 0..1 :
              /\ s = IF torn /\ k > 0 THEN 1 ELSE 0
              /\ s <= k
              /\ k <= Len(op.case) - named[op.request]
              /\ Appends(CaseOf[op.request], SubSeq(op.case, 1, named[op.request] + k),
                         named[op.request] + s)
    <1>1. PICK n : n = named[op.request]
        OBVIOUS
    <1>2. PICK h : h = op.case
        OBVIOUS
    <1>3. PICK c : c = CaseOf[op.request]
        OBVIOUS
    <1>4. PICK s \in 0..1 : s = IF torn /\ k > 0 THEN 1 ELSE 0
        OBVIOUS
    <1>5. h \in Seq(Requests) /\ op.events \in Seq(Line) /\ log \in Seq(Line)
        BY <1>2 DEF Commands, TypeOK
    <1>6. Len(h) \in Nat /\ n \in 0..(Len(h) - 1)
        BY <1>1, <1>2, <1>5, LenProperties DEF ChangeUnderWay
    <1>7. Len(Base) = n
        BY <1>1, <1>2, <1>5, <1>6, PrefixType DEF Base
    <1>8. op.events = [i \in 1..(Len(h) - n) |-> [case |-> c, event |-> SubSeq(h, 1, n + i)]]
        BY <1>2, <1>3, <1>7 DEF ChangeUnderWay, NewLines
    <1>9. Len(op.events) = Len(h) - n
        BY <1>5, <1>6, <1>8, LenProperties
    <1>10. k \in 0..(Len(h) - n) /\ s <= k
        BY <1>4, <1>6, <1>9
    <1>11. PICK new : new = Readable(k)
        OBVIOUS
    <1>12. /\ new \in Seq(Line) /\ Len(new) = k - s
           /\ \A i \in 1..(k - s) : new[i] = op.events[s + i]
        <2>1. PICK m \in 1..2 : m = IF torn THEN 2 ELSE 1
            OBVIOUS
        <2>2. new = SubSeq(op.events, m, k)
            BY <1>11, <2>1 DEF Readable
        <2>3. \A i \in 1..Len(op.events) : op.events[i] \in Line
            BY <1>5, ElementOfSeq
        <2>4. \A i \in m..k : op.events[i] \in Line
            BY <1>9, <1>10, <1>6, <2>3
        <2>5. /\ new \in Seq(Line) /\ Len(new) = IF m <= k THEN k - m + 1 ELSE 0
              /\ \A i \in 1..(k - m + 1) : new[i] = op.events[m + i - 1]
            BY <1>10, <2>2, <2>4, SubSeqProperties
        <2>6. CASE k = 0
            BY <1>4, <2>5, <2>6
        <2>7. CASE k > 0
            <3>1. m = s + 1
                BY <1>4, <2>1, <2>7
            <3> QED
                BY <1>10, <1>6, <2>5, <2>7, <3>1
        <2> QED
            BY <1>10, <2>6, <2>7
    <1>13. log' = log \o new
        BY <1>11 DEF WriteLines
    <1>14. /\ Len(log') = Len(log) + Len(new)
           /\ \A i \in 1..(Len(log) + Len(new)) :
                  log'[i] = IF i <= Len(log) THEN log[i] ELSE new[i - Len(log)]
        BY <1>5, <1>12, <1>13, ConcatProperties
    <1>15. Len(log) \in Nat
        BY <1>5, LenProperties
    <1>16. \A i \in 1..Len(log) : log'[i] = log[i]
        BY <1>10, <1>12, <1>14, <1>15
    <1>21. n + k \in 0..Len(h)
        BY <1>6, <1>10
    <1>17. PICK g \in Seq(Requests) : g = SubSeq(h, 1, n + k) /\ Len(g) = n + k
        BY <1>5, <1>21, PrefixType
    <1>18. ASSUME NEW i \in (Len(log) + 1)..Len(log'), NEW m \in (n + s + 1)..Len(g),
                  i - Len(log) = m - (n + s)
           PROVE  log'[i] = [case |-> c, event |-> SubSeq(g, 1, m)]
        <2>6. Len(log') = Len(log) + (k - s) /\ Len(g) = n + k
            BY <1>12, <1>14, <1>17
        <2>7. i - Len(log) \in 1..(k - s) /\ n + (s + (i - Len(log))) = m
            BY <1>6, <1>10, <1>15, <1>18, <2>6
        <2>1. PICK q \in 1..(k - s) : q = i - Len(log) /\ n + (s + q) = m
            BY <2>7
        <2>2. log'[i] = new[q]
            BY <1>12, <1>14, <1>15, <2>1
        <2>3. s + q \in 1..(Len(h) - n)
            BY <1>6, <1>10, <2>1
        <2>4. new[q] = [case |-> c, event |-> SubSeq(h, 1, m)]
            BY <1>8, <1>12, <2>1, <2>3
        <2>5. SubSeq(g, 1, m) = SubSeq(h, 1, m)
            BY <1>5, <1>6, <1>10, <1>17, PrefixOfPrefix
        <2> QED
            BY <2>2, <2>4, <2>5
    <1>19. Len(log') = Len(log) + (Len(g) - (n + s))
        BY <1>6, <1>10, <1>12, <1>14, <1>15, <1>17
    <1>20. Appends(c, g, n + s)
        BY <1>16, <1>18, <1>19 DEF Appends
    <1> QED
        BY <1>1, <1>2, <1>3, <1>4, <1>10, <1>17, <1>20

\* The append writes one line for each event behind the ones already named, when no
\* part of a line is in its way.
LEMMA AppendLogAppends ==
    ASSUME TypeOK, ChangeUnderWay, AppendLog, ~torn
    PROVE  Appends(CaseOf[op.request], op.case, named[op.request])
    <1>1. op \in Commands
        BY DEF TypeOK, AppendLog, At, NoOp
    <1>2. PICK h \in Seq(Requests) : h = op.case
        BY <1>1 DEF Commands
    <1>3. PICK n \in 0..(Len(h) - 1) : n = named[op.request]
        BY <1>2 DEF ChangeUnderWay
    <1>4. Len(h) \in Nat
        BY LenProperties
    <1>5. Len(Base) = n
        BY <1>2, <1>3, <1>4, PrefixType DEF Base
    <1>6. op.events \in Seq(Line) /\ Len(op.events) \in Nat
        BY <1>1, LenProperties DEF Commands
    <1>7. op.events = [i \in 1..(Len(h) - n) |->
                          [case |-> CaseOf[op.request], event |-> SubSeq(h, 1, n + i)]]
        BY <1>2, <1>5 DEF ChangeUnderWay, NewLines
    <1>8. Len(op.events) = Len(h) - n
        BY <1>4, <1>6, <1>7, LenProperties
    <1>9. WriteLines(Len(op.events), FALSE)
        BY DEF AppendLog
    <1>13. Len(op.events) \in 0..Len(op.events)
        BY <1>6
    <1>14. PICK s \in 0..1 :
              /\ s = IF torn /\ Len(op.events) > 0 THEN 1 ELSE 0
              /\ Appends(CaseOf[op.request], SubSeq(op.case, 1, named[op.request] + Len(op.events)),
                         named[op.request] + s)
        BY <1>1, <1>9, <1>13, WriteAppends
    <1>10. Appends(CaseOf[op.request], SubSeq(op.case, 1, named[op.request] + Len(op.events)),
                   named[op.request] + 0)
        BY <1>14
    <1>11. n + Len(op.events) = Len(h) /\ n + 0 = n
        BY <1>4, <1>8
    <1>12. SubSeq(h, 1, Len(h)) = h
        BY WholeIsPrefix
    <1> QED
        BY <1>2, <1>3, <1>10, <1>11, <1>12

\* The lines L + 1, ... of a file and the revisions n + 1, ..., H they hold.
LEMMA LineOfRevision ==
    ASSUME NEW L \in Nat, NEW H \in Nat, NEW n \in 0..H
    PROVE  /\ \A i \in (L + 1)..(L + (H - n)) : \E m \in (n + 1)..H : i - L = m - n
           /\ \A m \in (n + 1)..H : \E i \in (L + 1)..(L + (H - n)) : i - L = m - n
    <1>1. ASSUME NEW i \in (L + 1)..(L + (H - n))
          PROVE  \E m \in (n + 1)..H : i - L = m - n
        <2>1. n + (i - L) \in (n + 1)..H /\ i - L = (n + (i - L)) - n
            OBVIOUS
        <2> QED
            BY <2>1
    <1>2. ASSUME NEW m \in (n + 1)..H
          PROVE  \E i \in (L + 1)..(L + (H - n)) : i - L = m - n
        <2>1. L + (m - n) \in (L + 1)..(L + (H - n)) /\ (L + (m - n)) - L = m - n
            OBVIOUS
        <2> QED
            BY <2>1
    <1> QED
        BY <1>1, <1>2

\* What an appended case leaves as it was: every line, and every other case.
LEMMA AppendLeaves ==
    ASSUME log \in Seq(Line), NEW c, NEW h \in Seq(Requests), NEW n \in 0..Len(h),
           Appends(c, h, n)
    PROVE  /\ \A i \in 1..Len(log) : Previous(i)' = Previous(i) /\ Continues(i)' = Continues(i)
           /\ \A d : d # c => CaseLines(d)' = CaseLines(d)
           /\ \A d : d # c => LoggedEvents(d)' = LoggedEvents(d)
           /\ \A d : d # c => Chained(d)' = Chained(d)
    <1>1. Len(log) \in Nat /\ Len(h) \in Nat /\ n \in Nat
        BY LenProperties
    <1>2. \A i \in 1..Len(log) : Previous(i)' = Previous(i)
        <2> TAKE i \in 1..Len(log)
        <2>1. \A j \in 1..(i - 1) : log'[j] = log[j]
            BY <1>1 DEF Appends
        <2>2. log'[i] = log[i]
            BY DEF Appends
        <2>3. \A j \in 1..(i - 1) : \A k \in (j + 1)..(i - 1) : log'[k] = log[k]
            BY <1>1, <2>1
        <2> QED
            BY <2>1, <2>2, <2>3 DEF Previous
    <1>3. \A i \in 1..Len(log) : Continues(i)' = Continues(i)
        <2> TAKE i \in 1..Len(log)
        <2>1. \A j \in Previous(i) : j \in 1..Len(log)
            BY <1>1 DEF Previous
        <2> QED
            BY <1>1, <1>2, <2>1 DEF Continues, Appends
    <1>4. \A i \in 1..Len(log') : i \in 1..Len(log) \/ log'[i].case = c
        <2> TAKE i \in 1..Len(log')
        <2>1. CASE i > Len(log)
            <3>1. i \in (Len(log) + 1)..(Len(log) + (Len(h) - n))
                BY <1>1, <2>1 DEF Appends
            <3>2. PICK m \in (n + 1)..Len(h) : i - Len(log) = m - n
                BY <1>1, <3>1, LineOfRevision
            <3>3. log'[i] = [case |-> c, event |-> SubSeq(h, 1, m)]
                BY <1>1, <3>1, <3>2 DEF Appends
            <3> QED
                BY <3>3
        <2> QED
            BY <1>1, <2>1
    <1>5. ASSUME NEW d, d # c
          PROVE  CaseLines(d)' = CaseLines(d)
        <2>1. \A i \in 1..Len(log) : log'[i].case = log[i].case
            BY DEF Appends
        <2>2. 1..Len(log) \subseteq 1..Len(log')
            BY <1>1 DEF Appends
        <2>3. \A i : i \in CaseLines(d)' => i \in CaseLines(d)
            BY <1>4, <1>5, <2>1 DEF CaseLines
        <2>4. \A i : i \in CaseLines(d) => i \in CaseLines(d)'
            BY <2>1, <2>2 DEF CaseLines
        <2> QED
            BY <2>3, <2>4 DEF CaseLines
    <1>6. ASSUME NEW d, d # c
          PROVE  LoggedEvents(d)' = LoggedEvents(d)
        <2>1. \A i \in CaseLines(d) : log'[i] = log[i]
            BY DEF CaseLines, Appends
        <2> QED
            BY <1>5, <1>6, <2>1 DEF LoggedEvents
    <1>7. \A d : d # c => Chained(d)' = Chained(d)
        BY <1>3, <1>5 DEF Chained, CaseLines
    <1> QED
        BY <1>2, <1>3, <1>5, <1>6, <1>7

\* The lines of case c are those it had and one for each event after the first n of h.
Adds(c, h, n) ==
    /\ CaseLines(c)' = CaseLines(c) \cup (Len(log) + 1)..(Len(log) + (Len(h) - n))
    /\ LoggedEvents(c)' = LoggedEvents(c) \cup {SubSeq(h, 1, m) : m \in (n + 1)..Len(h)}

\* What it adds to its case.
LEMMA AppendAdds ==
    ASSUME log \in Seq(Line), NEW c, NEW h \in Seq(Requests), NEW n \in 0..Len(h),
           Appends(c, h, n)
    PROVE  Adds(c, h, n)
    <1>1. Len(log) \in Nat /\ Len(h) \in Nat /\ n \in Nat
        BY LenProperties
    <1>2. \A i \in (Len(log) + 1)..(Len(log) + (Len(h) - n)) :
             \E m \in (n + 1)..Len(h) : log'[i] = [case |-> c, event |-> SubSeq(h, 1, m)]
        <2> TAKE i \in (Len(log) + 1)..(Len(log) + (Len(h) - n))
        <2>1. PICK m \in (n + 1)..Len(h) : i - Len(log) = m - n
            BY <1>1, LineOfRevision
        <2>2. log'[i] = [case |-> c, event |-> SubSeq(h, 1, m)]
            BY <1>1, <2>1 DEF Appends
        <2> QED
            BY <2>2
    <1>3. CaseLines(c)' = CaseLines(c) \cup (Len(log) + 1)..(Len(log) + (Len(h) - n))
        <2>1. ASSUME NEW i \in (Len(log) + 1)..(Len(log) + (Len(h) - n))
              PROVE  log'[i].case = c
            <3>1. PICK m \in (n + 1)..Len(h) : log'[i] = [case |-> c, event |-> SubSeq(h, 1, m)]
                BY <1>2
            <3> QED
                BY <3>1
        <2>2. \A i \in 1..Len(log) : log'[i].case = log[i].case
            BY DEF Appends
        <2>3. 1..Len(log') = 1..Len(log) \cup (Len(log) + 1)..(Len(log) + (Len(h) - n))
            BY <1>1 DEF Appends
        <2>4. \A i : i \in CaseLines(c)' =>
                    i \in CaseLines(c) \cup (Len(log) + 1)..(Len(log) + (Len(h) - n))
            BY <2>2, <2>3 DEF CaseLines
        <2>5. \A i : i \in CaseLines(c) \cup (Len(log) + 1)..(Len(log) + (Len(h) - n)) =>
                    i \in CaseLines(c)'
            BY <2>1, <2>2, <2>3 DEF CaseLines
        <2> QED
            BY <2>4, <2>5 DEF CaseLines
    <1>4. LoggedEvents(c)' = {log'[i].event : i \in CaseLines(c)}
                             \cup {log'[i].event : i \in (Len(log) + 1)..(Len(log) + (Len(h) - n))}
        BY <1>3 DEF LoggedEvents
    <1>5. {log'[i].event : i \in CaseLines(c)} = LoggedEvents(c)
        BY DEF LoggedEvents, CaseLines, Appends
    <1>6. {log'[i].event : i \in (Len(log) + 1)..(Len(log) + (Len(h) - n))}
          = {SubSeq(h, 1, m) : m \in (n + 1)..Len(h)}
        <2>1. ASSUME NEW i \in (Len(log) + 1)..(Len(log) + (Len(h) - n))
              PROVE  \E m \in (n + 1)..Len(h) : log'[i].event = SubSeq(h, 1, m)
            <3>1. PICK m \in (n + 1)..Len(h) : log'[i] = [case |-> c, event |-> SubSeq(h, 1, m)]
                BY <1>2
            <3> QED
                BY <3>1
        <2>2. ASSUME NEW m \in (n + 1)..Len(h)
              PROVE  \E i \in (Len(log) + 1)..(Len(log) + (Len(h) - n)) :
                         log'[i].event = SubSeq(h, 1, m)
            <3>1. PICK i \in (Len(log) + 1)..(Len(log) + (Len(h) - n)) : i - Len(log) = m - n
                BY <1>1, LineOfRevision
            <3>2. log'[i] = [case |-> c, event |-> SubSeq(h, 1, m)]
                BY <1>1, <3>1 DEF Appends
            <3> QED
                BY <3>2
        <2> QED
            BY <2>1, <2>2
    <1> QED
        BY <1>3, <1>4, <1>5, <1>6 DEF Adds

-----------------------------------------------------------------------------
(* The last line of a case *)

\* A set of numbers that is not empty has a least one.
LEMMA LeastNumber ==
    ASSUME NEW T \in SUBSET Nat, T # {}
    PROVE  \E m \in T : \A k \in T : m <= k
    <1> DEFINE R == OpToRel(<, Nat)
    <1>1. IsWellFoundedOn(R, Nat)
        BY NatLessThanWellFounded
    <1>2. \A m, k \in Nat : <<m, k>> \in R <=> m < k
        BY DEF OpToRel
    <1> HIDE DEF R
    <1>3. PICK m \in T : \A k \in T : <<k, m>> \notin R
        BY <1>1, WFMin
    <1>4. \A k \in T : m <= k
        <2> TAKE k \in T
        <2>1. m \in Nat /\ k \in Nat
            OBVIOUS
        <2>2. ~(k < m)
            BY <1>2, <1>3, <2>1
        <2> QED
            BY <2>1, <2>2
    <1> QED
        BY <1>4

\* A bounded set of numbers that is not empty has a greatest one.
LEMMA GreatestNumber ==
    ASSUME NEW L \in Nat, NEW T \in SUBSET (1..L), T # {}
    PROVE  \E m \in T : \A k \in T : k <= m
    <1> DEFINE U == {u \in 0..L : \E k \in T : u = L - k}
    <1>1. U \in SUBSET Nat
        OBVIOUS
    <1>2. \A k \in T : L - k \in U
        OBVIOUS
    <1>2a. U # {}
        BY <1>2
    <1>3. \A u \in U : \E k \in T : u = L - k
        OBVIOUS
    <1> HIDE DEF U
    <1>4. PICK u \in U : \A v \in U : u <= v
        BY <1>1, <1>2a, LeastNumber
    <1>5. PICK m \in T : u = L - m
        BY <1>3
    <1>6. \A k \in T : k <= m
        <2> TAKE k \in T
        <2>1. L - m <= L - k
            BY <1>2, <1>4, <1>5
        <2> QED
            BY <2>1
    <1> QED
        BY <1>6

IsLast(j, c) == j \in CaseLines(c) /\ \A k \in CaseLines(c) : k <= j

\* A case with a line in the log has a last one.
LEMMA LastLine ==
    ASSUME log \in Seq(Line), NEW c, CaseLines(c) # {}
    PROVE  \E j \in CaseLines(c) : IsLast(j, c)
    <1>1. PICK L \in Nat : L = Len(log)
        BY LinesTyped
    <1>2. PICK T : T = CaseLines(c)
        OBVIOUS
    <1>3. T \in SUBSET (1..L) /\ T # {}
        BY <1>1, <1>2 DEF CaseLines
    <1>4. PICK m \in T : \A k \in T : k <= m
        BY <1>3, GreatestNumber
    <1> QED
        BY <1>2, <1>4 DEF IsLast

\* When the chain of a case holds after an append, it held before, and the first
\* new event continues the last one.
LEMMA AppendContinues ==
    ASSUME log \in Seq(Line), NEW c, NEW h \in Seq(Requests), NEW n \in 0..(Len(h) - 1),
           Appends(c, h, n), Chained(c)'
    PROVE  /\ Chained(c)
           /\ CaseLines(c) = {} => n = 0
           /\ \A j : IsLast(j, c) => log[j].event = SubSeq(h, 1, n)
    <1>1. Len(log) \in Nat /\ Len(h) \in Nat /\ n \in 0..Len(h) /\ n + 1 \in 1..Len(h)
        BY LenProperties
    <1>2. Chained(c)
        <2>1. CaseLines(c) \subseteq CaseLines(c)'
            BY <1>1, AppendAdds DEF Adds
        <2>2. \A i \in CaseLines(c) : Continues(i)' = Continues(i)
            BY <1>1, AppendLeaves DEF CaseLines
        <2> QED
            BY <2>1, <2>2 DEF Chained
    <1>3. PICK i : i = Len(log) + 1
        OBVIOUS
    <1>4. i \in CaseLines(c)'
        BY <1>1, <1>3, AppendAdds DEF Adds
    <1>5. log'[i] = [case |-> c, event |-> SubSeq(h, 1, n + 1)]
        <2>1. i \in (Len(log) + 1)..Len(log') /\ i - Len(log) = (n + 1) - n
            BY <1>1, <1>3 DEF Appends
        <2>2. n + 1 \in (n + 1)..Len(h)
            BY <1>1
        <2> QED
            BY <2>1, <2>2 DEF Appends
    <1>6. Prefix(log'[i].event) = SubSeq(h, 1, n)
        BY <1>1, <1>5, PrefixOfMember
    <1>7. Continues(i)'
        BY <1>4 DEF Chained
    <1>8. \A j \in 1..(i - 1) : log'[j] = log[j] /\ j \in 1..Len(log)
        BY <1>1, <1>3 DEF Appends
    <1>9. \A j \in Previous(i)' : j \in CaseLines(c)
        BY <1>5, <1>8 DEF Previous, CaseLines
    <1>10. ASSUME CaseLines(c) = {}
           PROVE  n = 0
        <2>1. Previous(i)' = {}
            BY <1>9, <1>10
        <2>2. SubSeq(h, 1, n) = <<>>
            BY <1>6, <1>7, <2>1 DEF Continues
        <2> QED
            BY <1>1, <2>2, PrefixType, EmptySeq
    <1>11. ASSUME NEW j, IsLast(j, c)
           PROVE  log[j].event = SubSeq(h, 1, n)
        <2>1. j \in 1..(i - 1) /\ log'[j].case = c
            BY <1>1, <1>3, <1>8, <1>11 DEF IsLast, CaseLines
        <2>2. \A k \in (j + 1)..(i - 1) : log'[k].case # c
            <3> SUFFICES ASSUME NEW k \in (j + 1)..(i - 1), log'[k].case = c
                         PROVE  FALSE
                OBVIOUS
            <3>1. k \in 1..(i - 1) /\ k > j
                BY <2>1, <1>1, <1>3
            <3>2. k \in CaseLines(c)
                BY <1>8, <3>1 DEF CaseLines
            <3> QED
                BY <1>11, <1>1, <1>3, <2>1, <3>1, <3>2 DEF IsLast
        <2>3. j \in Previous(i)'
            BY <1>5, <2>1, <2>2 DEF Previous
        <2> QED
            BY <1>6, <1>7, <1>8, <2>1, <2>3 DEF Continues
    <1> QED
        BY <1>2, <1>10, <1>11

\* A chain that is continued so stays a chain.
LEMMA AppendKeepsChain ==
    ASSUME log \in Seq(Line), NEW c, NEW h \in Seq(Requests), NEW n \in 0..(Len(h) - 1),
           Appends(c, h, n), Chained(c),
           CaseLines(c) = {} => n = 0,
           \A j : IsLast(j, c) => log[j].event = SubSeq(h, 1, n)
    PROVE  Chained(c)'
    <1>1. Len(log) \in Nat /\ Len(h) \in Nat /\ n \in 0..Len(h) /\ n + 1 \in 1..Len(h)
        BY LenProperties
    <1>2. ASSUME NEW i \in CaseLines(c)
          PROVE  Continues(i)'
        BY <1>1, <1>2, AppendLeaves DEF Chained, CaseLines
    <1>3. ASSUME NEW i \in (Len(log) + 1)..(Len(log) + (Len(h) - n))
          PROVE  Continues(i)'
        <2>1. PICK m \in (n + 1)..Len(h) : i - Len(log) = m - n
            BY <1>1, LineOfRevision
        <2>2. log'[i] = [case |-> c, event |-> SubSeq(h, 1, m)]
            BY <1>1, <2>1 DEF Appends
        <2>3. Prefix(log'[i].event) = SubSeq(h, 1, m - 1)
            BY <1>1, <2>1, <2>2, PrefixOfMember
        <2>4. CASE i = Len(log) + 1
            <3>1. m = n + 1
                BY <1>1, <2>1, <2>4
            <3>2. Prefix(log'[i].event) = SubSeq(h, 1, n)
                BY <1>1, <2>3, <3>1
            <3>3. \A j \in 1..(i - 1) : log'[j] = log[j] /\ j \in 1..Len(log)
                BY <1>1, <2>4 DEF Appends
            <3>4. ASSUME NEW j \in Previous(i)'
                  PROVE  log'[j].event = SubSeq(h, 1, n)
                <4>1. j \in CaseLines(c)
                    BY <2>2, <3>3 DEF Previous, CaseLines
                <4>2. ASSUME NEW k \in CaseLines(c)
                      PROVE  k <= j
                    <5>1. k \in 1..(i - 1) /\ log'[k].case = c
                        BY <1>1, <2>4, <3>3 DEF CaseLines
                    <5>2. k \notin (j + 1)..(i - 1)
                        BY <2>2, <5>1 DEF Previous
                    <5>3. j \in 1..(i - 1)
                        BY DEF Previous
                    <5> QED
                        BY <1>1, <2>4, <5>1, <5>2, <5>3
                <4>3. IsLast(j, c)
                    BY <4>1, <4>2 DEF IsLast
                <4> QED
                    BY <3>3, <4>1, <4>3 DEF Previous, CaseLines
            <3>5. ASSUME Previous(i)' = {}
                  PROVE  Prefix(log'[i].event) = <<>>
                <4>1. CaseLines(c) = {}
                    <5> SUFFICES ASSUME CaseLines(c) # {}
                                 PROVE  FALSE
                        OBVIOUS
                    <5>1. PICK j \in CaseLines(c) : IsLast(j, c)
                        BY LastLine
                    <5>2. j \in 1..(i - 1) /\ log'[j].case = c
                        BY <1>1, <2>4, <3>3, <5>1 DEF CaseLines
                    <5>3. \A k \in (j + 1)..(i - 1) : log'[k].case # c
                        <6> SUFFICES ASSUME NEW k \in (j + 1)..(i - 1), log'[k].case = c
                                     PROVE  FALSE
                            OBVIOUS
                        <6>1. k \in 1..(i - 1) /\ k > j
                            BY <5>2, <1>1, <2>4
                        <6>2. k \in CaseLines(c)
                            BY <3>3, <6>1 DEF CaseLines
                        <6> QED
                            BY <1>1, <2>4, <5>1, <5>2, <6>1, <6>2 DEF IsLast
                    <5>4. j \in Previous(i)'
                        BY <2>2, <5>2, <5>3 DEF Previous
                    <5> QED
                        BY <3>5, <5>4
                <4> QED
                    BY <1>1, <3>2, <4>1, SubSeqEmpty
            <3> QED
                BY <3>2, <3>4, <3>5 DEF Continues
        <2>5. CASE i > Len(log) + 1
            <3>1. PICK l \in (Len(log) + 1)..(Len(log) + (Len(h) - n)) : l = i - 1
                BY <1>1, <2>5
            <3>2. PICK q \in (n + 1)..Len(h) : q = m - 1
                BY <1>1, <2>1, <2>5
            <3>3. log'[l] = [case |-> c, event |-> SubSeq(h, 1, q)]
                <4>1. l \in (Len(log) + 1)..Len(log') /\ l - Len(log) = q - n
                    BY <1>1, <2>1, <3>1, <3>2 DEF Appends
                <4> QED
                    BY <4>1 DEF Appends
            <3>4. Previous(i)' = {l}
                <4>1. l \in Previous(i)'
                    BY <1>1, <2>2, <2>5, <3>1, <3>3 DEF Previous
                <4>2. ASSUME NEW j \in Previous(i)'
                      PROVE  j = l
                    <5>1. j \in 1..(i - 1) /\ \A k \in (j + 1)..(i - 1) : log'[k].case # c
                        BY <2>2 DEF Previous
                    <5>2. l \notin (j + 1)..(i - 1)
                        <6>1. log'[l].case = c
                            BY <3>3
                        <6> QED
                            BY <5>1, <6>1
                    <5> QED
                        BY <1>1, <3>1, <5>1, <5>2
                <4> QED
                    BY <4>1, <4>2
            <3>5. Prefix(log'[i].event) = log'[l].event
                BY <2>3, <3>2, <3>3
            <3> QED
                BY <3>4, <3>5 DEF Continues
        <2> QED
            BY <1>1, <2>4, <2>5
    <1>4. CaseLines(c)' = CaseLines(c) \cup (Len(log) + 1)..(Len(log) + (Len(h) - n))
        BY <1>1, AppendAdds DEF Adds
    <1> QED
        BY <1>2, <1>3, <1>4 DEF Chained

-----------------------------------------------------------------------------
(* Types, and the command that is being written *)

\* Empty files and an empty memory have their types.
LEMMA EmptyTypes ==
    /\ NoCases \in [Cases -> Seq(Requests)]
    /\ NoRequests \in [Requests -> Seq(Requests)]
    /\ NoHashes \in [Requests -> Hashes]
    /\ EmptyFiles \in Files /\ EmptyMemory \in Memory
    <1>1. <<>> \in Seq(Requests)
        BY EmptySeq
    <1>2. NoCases \in [Cases -> Seq(Requests)]
        BY <1>1 DEF NoCases
    <1>3. NoRequests \in [Requests -> Seq(Requests)]
        BY <1>1 DEF NoRequests
    <1>4. NoHashes \in [Requests -> Hashes]
        BY DEF NoHashes, Hashes
    <1>5. EmptyFiles \in Files
        BY <1>2, <1>3, <1>4 DEF EmptyFiles, Files
    <1>6. EmptyMemory \in Memory
        BY <1>2, <1>3, <1>4 DEF EmptyMemory, Memory
    <1> QED
        BY <1>2, <1>3, <1>4, <1>5, <1>6

\* What a refresh reads is the memory or the file of cases.
LEMMA FreshTypes ==
    ASSUME TypeOK
    PROVE  /\ Fresh \in [Cases -> Seq(Requests)]
           /\ FreshManifests \in [Cases -> Seq(Requests)]
           /\ Fresh = memory.cases \/ Fresh = disk.cases
    BY DEF TypeOK, Fresh, FreshManifests, Files, Memory

\* The lines of the events behind the old ones are lines.
LEMMA NewLinesType ==
    ASSUME NEW c \in Cases, NEW old \in Seq(Requests), NEW new \in Seq(Requests),
           Len(old) <= Len(new)
    PROVE  NewLines(c, old, new) \in Seq(Line)
    <1>1. Len(old) \in Nat /\ Len(new) \in Nat
        BY LenProperties
    <1>2. ASSUME NEW i \in 1..(Len(new) - Len(old))
          PROVE  [case |-> c, event |-> SubSeq(new, 1, Len(old) + i)] \in Line
        <2>1. PICK m \in 1..Len(new) : m = Len(old) + i
            BY <1>1
        <2>2. SubSeq(new, 1, m) \in Seq(Requests) /\ Len(SubSeq(new, 1, m)) = m
            BY <1>1, PrefixType
        <2>3. SubSeq(new, 1, m) # <<>>
            BY <2>2, EmptySeq
        <2> QED
            BY <2>1, <2>2, <2>3 DEF Line
    <1>3. PICK n \in Nat : n = Len(new) - Len(old)
        BY <1>1
    <1>4. NewLines(c, old, new) = [i \in 1..n |-> [case |-> c, event |-> SubSeq(new, 1, Len(old) + i)]]
        BY <1>3 DEF NewLines
    <1>5. \A i \in 1..n : [case |-> c, event |-> SubSeq(new, 1, Len(old) + i)] \in Line
        BY <1>2, <1>3
    <1>6. NewLines(c, old, new) \in [1..n -> Line]
        BY <1>4, <1>5
    <1> QED
        BY <1>6, SeqDef

\* What a command makes of a case: nothing, or events of its own after the others.
LEMMA OutcomeTable ==
    ASSUME NEW r \in Requests, NEW h
    PROVE  /\ r \in Creates => Outcomes(r, h) = {<<r>>} /\ FirstWrite(r) = "LOG"
           /\ r \in Seals => Outcomes(r, h) = {Append(h, r)} /\ FirstWrite(r) = "CUT_MANIFESTS"
           /\ r \in Checks => Outcomes(r, h) = {h} /\ FirstWrite(r) = "CUT_VALIDATIONS"
           /\ r \notin Creates \cup Seals \cup Checks =>
                  /\ Outcomes(r, h) = {h \o [i \in 1..n |-> r] : n \in 1..MaxEvents}
                  /\ FirstWrite(r) = "LOG"
    <1>1. CASE r \in Creates
        <2>1. r \notin Seals /\ r \notin Checks
            BY <1>1, StoreAssumptions DEF StoreAssumptions
        <2> QED
            BY <1>1, <2>1, Zenon DEF Outcomes, FirstWrite
    <1>2. CASE r \in Seals
        <2>1. r \notin Creates /\ r \notin Checks
            BY <1>2, StoreAssumptions DEF StoreAssumptions
        <2> QED
            BY <1>2, <2>1, Zenon DEF Outcomes, FirstWrite
    <1>3. CASE r \in Checks
        <2>1. r \notin Creates /\ r \notin Seals
            BY <1>3, StoreAssumptions DEF StoreAssumptions
        <2> QED
            BY <1>3, <2>1, Zenon DEF Outcomes, FirstWrite
    <1>4. CASE r \notin Creates \cup Seals \cup Checks
        <2>1. r \notin Creates /\ r \notin Seals /\ r \notin Checks
            BY <1>4
        <2> QED
            BY <2>1, Zenon DEF Outcomes, FirstWrite
    <1> QED
        BY <1>1, <1>2, <1>3, <1>4

\* The case a command makes begins with the case it read and continues with its events.
LEMMA OutcomeGrows ==
    ASSUME NEW r \in Requests \ Checks, NEW h \in Seq(Requests), r \in Creates => h = <<>>,
           NEW new \in Outcomes(r, h)
    PROVE  /\ new \in Seq(Requests)
           /\ Len(h) < Len(new)
           /\ SubSeq(new, 1, Len(h)) = h
           /\ \A i \in (Len(h) + 1)..Len(new) : new[i] = r
    <1>1. new = Append(h, r) \/ \E n \in 1..MaxEvents : new = h \o [i \in 1..n |-> r]
        <2>1. CASE r \in Creates
            <3>1. new = <<r>> /\ h = <<>>
                BY <2>1, OutcomeTable
            <3>2. Append(<<>>, r) = <<r>>
                OBVIOUS
            <3> QED
                BY <3>1, <3>2
        <2>2. CASE r \in Seals
            BY <2>2, OutcomeTable
        <2>3. CASE r \notin Creates \cup Seals \cup Checks
            <3>1. Outcomes(r, h) = {h \o [i \in 1..n |-> r] : n \in 1..MaxEvents}
                <4>1. r \in Requests
                    OBVIOUS
                <4> QED
                    BY <2>3, <4>1, OutcomeTable, Zenon
            <3>2. new \in {h \o [i \in 1..n |-> r] : n \in 1..MaxEvents}
                BY <3>1, Zenon
            <3> QED
                BY <3>2, Zenon
        <2> QED
            BY <2>1, <2>2, <2>3
    <1>3. Len(h) \in Nat
        BY LenProperties
    <1>4. /\ new \in Seq(Requests)
          /\ Len(h) < Len(new)
          /\ \A i \in 1..Len(h) : new[i] = h[i]
          /\ \A i \in (Len(h) + 1)..Len(new) : new[i] = r
        <2>1. CASE new = Append(h, r)
            BY <1>3, <2>1
        <2>2. ASSUME NEW n \in 1..MaxEvents, new = h \o [i \in 1..n |-> r]
              PROVE  /\ new \in Seq(Requests)
                     /\ Len(h) < Len(new)
                     /\ \A i \in 1..Len(h) : new[i] = h[i]
                     /\ \A i \in (Len(h) + 1)..Len(new) : new[i] = r
            <3>1. n \in Nat /\ n > 0
                BY StoreAssumptions DEF StoreAssumptions
            <3>2. PICK t : t = [i \in 1..n |-> r]
                OBVIOUS
            <3>3. t \in Seq(Requests) /\ Len(t) = n /\ \A i \in 1..n : t[i] = r
                <4>1. t \in [1..n -> Requests]
                    BY <3>2
                <4>2. t \in Seq(Requests)
                    BY <3>1, <4>1, SeqDef
                <4> QED
                    BY <3>1, <3>2, <4>2, LenProperties
            <3>4. /\ new \in Seq(Requests) /\ Len(new) = Len(h) + n
                  /\ \A i \in 1..(Len(h) + n) :
                         new[i] = IF i <= Len(h) THEN h[i] ELSE t[i - Len(h)]
                BY <2>2, <3>2, <3>3, ConcatProperties
            <3>5. \A i \in (Len(h) + 1)..Len(new) : new[i] = r
                <4> TAKE i \in (Len(h) + 1)..Len(new)
                <4>1. new[i] = t[i - Len(h)] /\ i - Len(h) \in 1..n
                    BY <1>3, <3>1, <3>4
                <4> QED
                    BY <3>3, <4>1
            <3> QED
                BY <1>3, <3>1, <3>4, <3>5
        <2> QED
            BY <1>1, <2>1, <2>2
    <1>5. Len(h) \in 0..Len(new)
        BY <1>3, <1>4, LenProperties
    <1>6. SubSeq(new, 1, Len(h)) = h
        <2>1. /\ SubSeq(new, 1, Len(h)) \in Seq(Requests) /\ Len(SubSeq(new, 1, Len(h))) = Len(h)
              /\ \A i \in 1..Len(h) : SubSeq(new, 1, Len(h))[i] = new[i]
            BY <1>4, <1>5, PrefixType
        <2> QED
            BY <1>4, <2>1, SeqEqual
    <1> QED
        BY <1>4, <1>6

\* The command under way is one of the commands.
LEMMA OpTyped ==
    ASSUME TypeOK, op # NoOp
    PROVE  /\ op \in Commands
           /\ op.request \in Requests /\ op.events \in Seq(Line) /\ op.case \in Seq(Requests)
           /\ CaseOf[op.request] \in Cases
    BY StoreAssumptions DEF TypeOK, Commands, StoreAssumptions

\* A step of a command has a command.
LEMMA NotIdle ==
    ASSUME NEW step, At(step), step # "NONE"
    PROVE  op # NoOp
    BY DEF At, NoOp

\* The memory of each step of a command has its type.
LEMMA MemoryTypes ==
    ASSUME TypeOK, op # NoOp
    PROVE  /\ WithManifest \in Memory /\ WithValidation \in Memory
           /\ WithReply \in Memory /\ WithResult \in Memory
           /\ WithCase \in Memory
    <1>1. op.request \in Requests /\ op.case \in Seq(Requests) /\ CaseOf[op.request] \in Cases
        BY OpTyped
    <1>2. memory \in Memory
        BY DEF TypeOK
    <1>3. WithManifest \in Memory
        BY <1>1, <1>2 DEF WithManifest, SealedManifest, Memory
    <1>4. WithValidation \in Memory
        BY <1>1, <1>2 DEF WithValidation, Memory
    <1>5. WithReply \in Memory
        BY <1>1, <1>2 DEF WithReply, Memory, Hashes
    <1>6. WithResult \in Memory
        BY <1>1, <1>2 DEF WithResult, Memory
    <1>7. WithCase \in Memory
        BY <1>1, <1>2 DEF WithCase, Memory
    <1> QED
        BY <1>3, <1>4, <1>5, <1>6, <1>7

\* A command starts with the case it found and what it makes of it.
Starts(r, base, new) ==
    /\ base = IF r \in Creates THEN <<>> ELSE Fresh[CaseOf[r]]
    /\ op' = [request |-> r, events |-> NewLines(CaseOf[r], base, new), case |-> new,
              next |-> FirstWrite(r)]
    /\ op' \in Commands
    /\ named' = [named EXCEPT ![r] = Len(base)]
    /\ r \in Checks => new = base /\ base # <<>>
    /\ r \notin Checks => /\ Len(base) \in 0..(Len(new) - 1)
                          /\ SubSeq(new, 1, Len(base)) = base
                          /\ \A i \in (Len(base) + 1)..Len(new) : new[i] = r
    /\ r \in Creates => Len(new) = 1

\* Execute reads a case and makes one of it.
LEMMA ExecuteStarts ==
    ASSUME TypeOK, NEW r \in Requests, Execute(r)
    PROVE  \E base, new \in Seq(Requests) : Starts(r, base, new)
    <1>1. PICK base : base = IF r \in Creates THEN <<>> ELSE Fresh[CaseOf[r]]
        OBVIOUS
    <1>2. PICK new \in Outcomes(r, base) :
              op' = [request |-> r, events |-> NewLines(CaseOf[r], base, new), case |-> new,
                     next |-> FirstWrite(r)]
        BY <1>1 DEF Execute
    <1>3. named' = [named EXCEPT ![r] = Len(base)]
        BY <1>1 DEF Execute
    <1>4. CaseOf[r] \in Cases /\ (r \in Checks => r \notin Creates)
        BY StoreAssumptions DEF StoreAssumptions
    <1>5. base \in Seq(Requests)
        BY <1>1, <1>4, FreshTypes, EmptySeq
    <1>6. r \in Checks => base # <<>>
        <2>1. Executable(r)
            BY DEF Execute
        <2>2. r \notin Creates => Fresh[CaseOf[r]] # <<>>
            BY <2>1 DEF Executable
        <2> QED
            BY <1>1, <1>4, <2>2
    <1>7. r \in Checks => new = base
        <2>1. r \in Checks => Outcomes(r, base) = {base}
            BY OutcomeTable
        <2>2. new \in Outcomes(r, base)
            BY <1>2
        <2> QED
            BY <2>1, <2>2
    <1>8. r \notin Checks => /\ new \in Seq(Requests)
                             /\ Len(base) < Len(new)
                             /\ SubSeq(new, 1, Len(base)) = base
                             /\ \A i \in (Len(base) + 1)..Len(new) : new[i] = r
        BY <1>1, <1>5, OutcomeGrows
    <1>9. new \in Seq(Requests) /\ Len(base) <= Len(new) /\ Len(base) \in Nat /\ Len(new) \in Nat
        BY <1>5, <1>7, <1>8, LenProperties
    <1>10. NewLines(CaseOf[r], base, new) \in Seq(Line)
        BY <1>4, <1>5, <1>9, NewLinesType
    <1>11. FirstWrite(r) \in Steps
        BY OutcomeTable DEF Steps
    <1>12. op' \in Commands
        BY <1>2, <1>9, <1>10, <1>11 DEF Commands
    <1>14. r \in Creates => Len(new) = 1
        <2>1. r \in Creates => Outcomes(r, base) = {<<r>>}
            BY OutcomeTable
        <2>2. r \in Creates => new = <<r>>
            BY <2>1
        <2> QED
            BY <2>2
    <1>13. Starts(r, base, new)
        BY <1>1, <1>2, <1>3, <1>6, <1>7, <1>8, <1>9, <1>12, <1>14 DEF Starts
    <1> QED
        BY <1>5, <1>9, <1>13

\* From one write of a command to the next.
LEMMA NextWrite ==
    ASSUME TypeOK, CommandOK, op # NoOp, NEW step \in Steps, Then(step), UNCHANGED <<named, process>>,
           step \in AfterLog \cup {"MANIFESTS", "LOG", "VALIDATIONS", "REPLY"},
           CheckUnderWay => step \in {"VALIDATIONS", "REPLY"},
           ChangeUnderWay => step # "VALIDATIONS"
    PROVE  /\ CommandOK' /\ op' \in Commands /\ op' # NoOp
           /\ op'.request = op.request /\ op'.case = op.case /\ op'.next = step
           /\ Base' = Base
    <1>1. op \in Commands
        BY OpTyped
    <1>2. /\ op' \in Commands
          /\ op'.request = op.request /\ op'.case = op.case /\ op'.events = op.events
          /\ op'.next = step
        BY <1>1 DEF Then, Commands
    <1>3. op' # NoOp
        BY <1>2 DEF NoOp, AfterLog
    <1>4. Base' = Base
        BY <1>2 DEF Base
    <1>5. ASSUME CheckUnderWay
          PROVE  CheckUnderWay'
        BY <1>2, <1>5 DEF CheckUnderWay
    <1>6. ASSUME ChangeUnderWay
          PROVE  ChangeUnderWay'
        <2>1. NewLines(CaseOf[op.request], Base, op.case)'
              = NewLines(CaseOf[op.request], Base, op.case)
            BY <1>2, <1>4 DEF NewLines
        <2> QED
            BY <1>2, <1>6, <2>1 DEF ChangeUnderWay, BeforeLog, AfterLog
    <1>7. CommandOK'
        BY <1>2, <1>3, <1>5, <1>6 DEF CommandOK
    <1> QED
        BY <1>2, <1>3, <1>4, <1>7

\* The variables have their types at first.
LEMMA TypeInit == Init => TypeOK /\ CommandOK
    <1> SUFFICES ASSUME Init
                 PROVE  TypeOK /\ CommandOK
        OBVIOUS
    <1>1. log \in Seq(Line) /\ torn \in BOOLEAN /\ lost \subseteq Line
        BY EmptySeq DEF Init
    <1>2. disk \in Files /\ memory \in Memory
        BY EmptyTypes DEF Init
    <1>3. named \in [Requests -> {Unnamed} \cup Nat]
        BY DEF Init, Unnamed
    <1>4. kills \in 0..MaxKills /\ errors \in 0..MaxErrors
        BY StoreAssumptions DEF Init, StoreAssumptions
    <1>5. replies \in [Requests -> SUBSET Seq(Requests)]
        BY DEF Init
    <1> QED
        BY <1>1, <1>2, <1>3, <1>4, <1>5 DEF Init, TypeOK, CommandOK

\* Where a command that is being written is, by the step it comes to.
LEMMA StepsOfCommand ==
    ASSUME CommandOK, op # NoOp
    PROVE  /\ process = "UP" /\ op.case # <<>>
           /\ CheckUnderWay \/ ChangeUnderWay
           /\ ~(CheckUnderWay /\ ChangeUnderWay)
           /\ op.next \in BeforeLog \cup AfterLog => ChangeUnderWay
           /\ op.next \in {"CUT_VALIDATIONS", "VALIDATIONS"} => CheckUnderWay
           /\ op.next \in BeforeLog \cup AfterLog \cup {"CUT_VALIDATIONS", "VALIDATIONS", "REPLY"}
    BY DEF CommandOK, CheckUnderWay, ChangeUnderWay, BeforeLog, AfterLog

\* The command goes on to its next write, and only files and memory change.
GoesOn(step) ==
    /\ op # NoOp /\ Then(step) /\ UNCHANGED <<named, process>>
    /\ step \in AfterLog \cup {"MANIFESTS", "LOG", "VALIDATIONS", "REPLY"}
    /\ op.next \in BeforeLog \cup AfterLog => step # "VALIDATIONS"
    /\ op.next \notin BeforeLog \cup AfterLog => step \in {"VALIDATIONS", "REPLY"}

\* A command that goes on to its next step stays the same command.
LEMMA GoesOnSafely ==
    ASSUME TypeOK, CommandOK, NEW step, GoesOn(step), op.next # "REPLY"
    PROVE  /\ CommandOK' /\ op' \in Commands /\ op' # NoOp
           /\ op'.request = op.request /\ op'.case = op.case /\ op'.next = step
           /\ Base' = Base
    <1>1. step \in Steps
        BY DEF GoesOn, AfterLog, Steps
    <1>2. CheckUnderWay => step \in {"VALIDATIONS", "REPLY"}
        BY DEF GoesOn, CheckUnderWay, BeforeLog, AfterLog
    <1>3. ChangeUnderWay => step # "VALIDATIONS"
        BY DEF GoesOn, ChangeUnderWay
    <1> QED
        BY <1>1, <1>2, <1>3, NextWrite DEF GoesOn

\* Each write leads the command to its next one.
LEMMA WritesGoOn ==
    /\ CutManifests => GoesOn("MANIFESTS") /\ op.next # "REPLY"
    /\ WriteManifests => GoesOn("LOG") /\ op.next # "REPLY"
    /\ CutValidations => GoesOn("VALIDATIONS") /\ op.next # "REPLY"
    /\ WriteValidations => GoesOn("REPLY") /\ op.next # "REPLY"
    /\ AppendLog => GoesOn("CUT_CASES") /\ op.next # "REPLY"
    /\ CutCases => GoesOn("CASES") /\ op.next # "REPLY"
    /\ WriteCases => GoesOn("CUT_HASHES") /\ op.next # "REPLY"
    /\ CutHashes => GoesOn("HASHES") /\ op.next # "REPLY"
    /\ WriteHashes => GoesOn("CUT_RESULTS") /\ op.next # "REPLY"
    /\ CutResults => GoesOn("RESULTS") /\ op.next # "REPLY"
    /\ WriteResults => GoesOn("REPLY") /\ op.next # "REPLY"
    /\ FailUnnoticed => /\ GoesOn("CUT_HASHES") \/ GoesOn("CUT_RESULTS")
                        /\ op.next # "REPLY"
    /\ LoseCreation => GoesOn("CUT_CASES") /\ op.next # "REPLY"
    BY NotIdle DEF CutManifests, WriteManifests, CutValidations, WriteValidations, AppendLog,
          CutCases, WriteCases, CutHashes, WriteHashes, CutResults, WriteResults, At, GoesOn,
          BeforeLog, AfterLog, NoOp, FailUnnoticed, LoseCreation, Fail, Tolerated

\* The writes of a command.
Writes ==
    \/ CutManifests \/ WriteManifests \/ CutValidations \/ WriteValidations \/ AppendLog
    \/ CutCases \/ WriteCases \/ CutHashes \/ WriteHashes \/ CutResults \/ WriteResults

\* A replay keeps the types.
LEMMA ReplayTypes ==
    ASSUME TypeOK, NEW r \in Requests, Replay(r)
    PROVE  TypeOK'
    <1>1. memory \in Memory /\ CaseOf[r] \in Cases
        BY StoreAssumptions DEF TypeOK, StoreAssumptions
    <1>2. Reply(r) \in Seq(Requests)
        BY <1>1, FreshTypes, EmptySeq DEF Reply, Memory
    <1>3. replies' \in [Requests -> SUBSET Seq(Requests)]
        BY <1>2 DEF Replay, TypeOK
    <1>4. memory' \in Memory
        BY <1>1, FreshTypes DEF Replay, Memory
    <1> QED
        BY <1>3, <1>4 DEF Replay, TypeOK

\* A start keeps the types.
LEMMA OpenTypes ==
    ASSUME TypeOK, Open
    PROVE  TypeOK'
    <1>1. disk \in Files /\ memory \in Memory
        BY DEF TypeOK
    <1>2. Restored(disk.cases, disk.results) \in [Requests -> Seq(Requests)]
        BY <1>1, EmptySeq, StoreAssumptions DEF Restored, Files, StoreAssumptions
    <1>3. RestoredHashes(disk.cases, disk.hashes) \in [Requests -> Hashes]
        BY <1>1 DEF RestoredHashes, Files, Hashes
    <1>4. memory' \in Memory
        BY <1>1, <1>2, <1>3 DEF Open, Files, Memory
    <1>5. process' \in {"UP", "REFUSED"}
        BY DEF Open
    <1> QED
        BY <1>4, <1>5 DEF Open, TypeOK

\* What gets into the file, and what is lost, are lines.
LEMMA WriteTypes ==
    ASSUME TypeOK, op \in Commands, NEW k \in 0..Len(op.events), NEW cut \in BOOLEAN,
           WriteLines(k, cut)
    PROVE  log' \in Seq(Line) /\ torn' \in BOOLEAN /\ lost' \subseteq Line
    <1>1. op.events \in Seq(Line) /\ log \in Seq(Line) /\ lost \subseteq Line /\ torn \in BOOLEAN
        BY DEF TypeOK, Commands
    <1>2. Len(op.events) \in Nat /\ \A i \in 1..Len(op.events) : op.events[i] \in Line
        BY <1>1, ElementOfSeq, LenProperties
    <1>3. PICK m \in 1..2 : m = IF torn THEN 2 ELSE 1
        OBVIOUS
    <1>4. \A i \in m..k : op.events[i] \in Line
        BY <1>2
    <1>5. SubSeq(op.events, m, k) \in Seq(Line)
        BY <1>2, <1>4, SubSeqProperties
    <1>6. Readable(k) \in Seq(Line)
        BY <1>3, <1>5 DEF Readable
    <1>7. log' \in Seq(Line)
        BY <1>1, <1>6, ConcatProperties DEF WriteLines
    <1>8. k > 0 => op.events[1] \in Line
        BY <1>2
    <1>9. lost' \subseteq Line
        BY <1>1, <1>8 DEF WriteLines
    <1>10. torn' \in BOOLEAN
        BY DEF WriteLines
    <1> QED
        BY <1>7, <1>9, <1>10

\* A command that changes a case brings at least one line.
LEMMA LinesOfCommand ==
    ASSUME TypeOK, CommandOK, At("LOG")
    PROVE  /\ op # NoOp /\ op \in Commands /\ ChangeUnderWay
           /\ Len(op.events) \in Nat /\ Len(op.events) = Len(op.case) - named[op.request]
           /\ Len(op.events) \in 1..Len(op.events)
           /\ op.events[1] \in Line /\ op.events[1].case = CaseOf[op.request]
           /\ op.events[1].event = SubSeq(op.case, 1, named[op.request] + 1)
           /\ op.events[1].event[Len(op.events[1].event)] = op.request
    <1>1. op # NoOp /\ op \in Commands /\ ChangeUnderWay
        BY NotIdle, OpTyped, StepsOfCommand DEF At, BeforeLog
    <1>2. PICK h \in Seq(Requests) : h = op.case
        BY <1>1 DEF Commands
    <1>3. PICK n \in 0..(Len(h) - 1) : n = named[op.request]
        BY <1>1, <1>2 DEF ChangeUnderWay
    <1>4. Len(h) \in Nat
        BY LenProperties
    <1>5. Len(Base) = n
        BY <1>2, <1>3, <1>4, PrefixType DEF Base
    <1>6. op.events \in Seq(Line) /\ Len(op.events) \in Nat
        BY <1>1, LenProperties DEF Commands
    <1>7. op.events = [i \in 1..(Len(h) - n) |->
                          [case |-> CaseOf[op.request], event |-> SubSeq(h, 1, n + i)]]
        BY <1>1, <1>2, <1>5 DEF ChangeUnderWay, NewLines
    <1>8. Len(op.events) = Len(h) - n /\ 1 \in 1..(Len(h) - n)
        BY <1>4, <1>6, <1>7, LenProperties
    <1>9. op.events[1] = [case |-> CaseOf[op.request], event |-> SubSeq(h, 1, n + 1)]
        BY <1>7, <1>8
    <1>10. op.events[1] \in Line
        BY <1>6, <1>8, ElementOfSeq
    <1>11. SubSeq(h, 1, n + 1)[Len(SubSeq(h, 1, n + 1))] = h[n + 1] /\ h[n + 1] = op.request
        <2>1. n + 1 \in 0..Len(h) /\ n + 1 \in 1..(n + 1) /\ n + 1 \in (n + 1)..Len(h)
            BY <1>4
        <2>2. Len(SubSeq(h, 1, n + 1)) = n + 1 /\ SubSeq(h, 1, n + 1)[n + 1] = h[n + 1]
            BY <2>1, PrefixType
        <2> QED
            BY <1>1, <1>2, <1>3, <2>1, <2>2 DEF ChangeUnderWay
    <1>12. Len(op.events) \in 1..Len(op.events)
        BY <1>6, <1>8
    <1>13. op.events[1].case = CaseOf[op.request] /\ op.events[1].event = SubSeq(h, 1, n + 1)
        BY <1>9
    <1> QED
        BY <1>1, <1>2, <1>3, <1>6, <1>8, <1>10, <1>11, <1>12, <1>13, Zenon

\* A failing append is of some of the lines, and ends the command.
LEMMA FailAppendWrites ==
    ASSUME TypeOK, CommandOK, FailAppend
    PROVE  /\ At("LOG") /\ op' = NoOp /\ UNCHANGED <<disk, memory, process, named, kills, replies>>
           /\ \E k \in 0..Len(op.events), cut \in BOOLEAN :
                  WriteLines(k, cut) /\ (cut => errors' = errors + 1)
           /\ errors' \in 0..MaxErrors /\ errors' >= errors
    <1>1. PICK k \in 0..Len(op.events), cut \in BOOLEAN :
              WriteLines(k, cut) /\ (Conflicting => ~cut)
        BY DEF FailAppend
    <1>2. errors' = errors \/ (errors < MaxErrors /\ errors' = errors + 1)
        BY DEF FailAppend, Fail
    <1>3. Conflicting \/ errors' = errors + 1
        BY DEF FailAppend, Fail
    <1>4. errors' \in 0..MaxErrors /\ errors' >= errors
        BY <1>2, StoreAssumptions DEF TypeOK, StoreAssumptions
    <1>5. UNCHANGED <<disk, memory, process, named, kills, replies>>
        BY DEF FailAppend, Fail
    <1>6. At("LOG") /\ op' = NoOp
        BY DEF FailAppend
    <1>7. WriteLines(k, cut) /\ (cut => errors' = errors + 1)
        BY <1>1, <1>3
    <1> QED
        BY <1>4, <1>5, <1>6, <1>7

\* TypeOK and CommandOK are inductive together: what a write adds to the log or to
\* the memory is the command's, and has its types.
LEMMA TypeNext ==
    ASSUME TypeOK, CommandOK, [Next]_vars
    PROVE  TypeOK' /\ CommandOK'
    <1>1. CASE UNCHANGED vars
        BY <1>1 DEF vars, TypeOK, CommandOK, CheckUnderWay, ChangeUnderWay, Base, NewLines
    <1>2. ASSUME NEW r \in Requests, Execute(r)
          PROVE  TypeOK' /\ CommandOK'
        <2>1. PICK base \in Seq(Requests) :
                  \E new \in Seq(Requests) : Starts(r, base, new)
            BY <1>2, ExecuteStarts
        <2>2. PICK new \in Seq(Requests) : Starts(r, base, new)
            BY <2>1
        <2>3. Len(base) \in Nat
            BY LenProperties
        <2>4. memory' \in Memory
            BY <1>2, FreshTypes DEF Execute, TypeOK, Memory
        <2>5. TypeOK'
            BY <1>2, <2>2, <2>3, <2>4 DEF Execute, Starts, TypeOK
        <2>6. /\ op'.request = r /\ op'.case = new
              /\ op'.events = NewLines(CaseOf[r], base, new) /\ op'.next = FirstWrite(r)
              /\ named'[r] = Len(base)
            BY <2>2 DEF Starts, TypeOK
        <2>7. ASSUME r \in Checks
              PROVE  CheckUnderWay' /\ new # <<>>
            <3>1. FirstWrite(r) = "CUT_VALIDATIONS"
                BY <2>7, OutcomeTable
            <3> QED
                BY <2>2, <2>6, <2>7, <3>1 DEF Starts, CheckUnderWay
        <2>8. ASSUME r \notin Checks
              PROVE  ChangeUnderWay' /\ new # <<>>
            <3>1. FirstWrite(r) \in {"LOG", "CUT_MANIFESTS"}
                BY <2>8, OutcomeTable
            <3>2. Base' = base
                BY <2>2, <2>6, <2>8 DEF Starts, Base
            <3>3. new # <<>>
                BY <2>2, <2>3, <2>8, EmptySeq DEF Starts
            <3>4. NewLines(CaseOf[op.request], Base, op.case)' = NewLines(CaseOf[r], base, new)
                BY <2>6, <3>2 DEF NewLines
            <3>5. /\ named'[op'.request] \in 0..(Len(op'.case) - 1)
                  /\ \A i \in (named'[op'.request] + 1)..Len(op'.case) : op'.case[i] = op'.request
                  /\ op'.request \in Creates => Len(op'.case) = 1
                BY <2>2, <2>6, <2>8 DEF Starts
            <3> QED
                BY <2>6, <2>8, <3>1, <3>3, <3>4, <3>5 DEF ChangeUnderWay, BeforeLog
        <2> QED
            BY <1>2, <2>5, <2>6, <2>7, <2>8 DEF Execute, CommandOK
    <1>3. ASSUME NEW r \in Requests, Replay(r)
          PROVE  TypeOK' /\ CommandOK'
        <2>1. CommandOK'
            BY <1>3 DEF Replay, CommandOK, NoOp
        <2> QED
            BY <1>3, <2>1, ReplayTypes
    <1>4. CASE RefreshCases \/ RefreshManifests
        <2>1. memory' \in Memory
            BY <1>4, FreshTypes DEF RefreshCases, RefreshManifests, TypeOK, Memory
        <2>2. UNCHANGED <<log, torn, lost, disk, process, op, named, kills, errors, replies>>
            BY <1>4 DEF RefreshCases, RefreshManifests
        <2>3. CommandOK'
            BY <2>2 DEF CommandOK, CheckUnderWay, ChangeUnderWay, Base, NewLines
        <2> QED
            BY <2>1, <2>2, <2>3 DEF TypeOK
    <1>5. CASE Writes
        <2>1. op # NoOp /\ op' \in Commands /\ CommandOK'
            BY <1>5, WritesGoOn, GoesOnSafely DEF Writes, GoesOn
        <2>2. memory' \in Memory /\ disk' \in Files
            <3>1. memory' \in Memory
                BY <1>5, <2>1, MemoryTypes
                   DEF Writes, CutManifests, WriteManifests, CutValidations, WriteValidations,
                       AppendLog, CutCases, WriteCases, CutHashes, WriteHashes, CutResults,
                       WriteResults, TypeOK
            <3>2. CASE CutManifests \/ WriteManifests
                BY <3>1, <3>2, EmptyTypes DEF CutManifests, WriteManifests, TypeOK, Files, Memory
            <3>3. CASE CutValidations \/ WriteValidations
                BY <3>1, <3>3, EmptyTypes DEF CutValidations, WriteValidations, TypeOK, Files, Memory
            <3>4. CASE AppendLog
                BY <3>1, <3>4 DEF AppendLog, TypeOK
            <3>5. CASE CutCases \/ WriteCases
                BY <3>1, <3>5, EmptyTypes DEF CutCases, WriteCases, TypeOK, Files, Memory
            <3>6. CASE CutHashes \/ WriteHashes
                BY <3>1, <3>6, EmptyTypes DEF CutHashes, WriteHashes, TypeOK, Files, Memory
            <3>7. CASE CutResults \/ WriteResults
                BY <3>1, <3>7, EmptyTypes DEF CutResults, WriteResults, TypeOK, Files, Memory
            <3> QED
                BY <1>5, <3>1, <3>2, <3>3, <3>4, <3>5, <3>6, <3>7 DEF Writes
        <2>3. log' \in Seq(Line) /\ torn' \in BOOLEAN /\ lost' \subseteq Line
            <3>1. CASE AppendLog
                <4>1. op \in Commands /\ Len(op.events) \in 0..Len(op.events)
                    BY <3>1, LinesOfCommand DEF AppendLog
                <4>2. WriteLines(Len(op.events), FALSE)
                    BY <3>1 DEF AppendLog
                <4> QED
                    BY <4>1, <4>2, WriteTypes
            <3>2. CASE ~AppendLog
                BY <1>5, <3>2
                   DEF Writes, CutManifests, WriteManifests, CutValidations, WriteValidations,
                       CutCases, WriteCases, CutHashes, WriteHashes, CutResults, WriteResults, TypeOK
            <3> QED
                BY <3>1, <3>2
        <2>4. UNCHANGED <<named, process, kills, errors, replies>>
            BY <1>5 DEF Writes, CutManifests, WriteManifests, CutValidations, WriteValidations,
                        AppendLog, CutCases, WriteCases, CutHashes, WriteHashes,
                        CutResults, WriteResults
        <2> QED
            BY <2>1, <2>2, <2>3, <2>4 DEF TypeOK
    <1>6. CASE Answer
        <2>1. op # NoOp
            BY <1>6, NotIdle DEF Answer
        <2>2. replies' \in [Requests -> SUBSET Seq(Requests)]
            BY <1>6, <2>1, OpTyped DEF Answer, TypeOK
        <2> QED
            BY <1>6, <2>2 DEF Answer, TypeOK, CommandOK
    <1>7. CASE FailSave \/ FailWrite \/ FailUnnoticed
        <2>1. op # NoOp
            BY <1>7, NotIdle DEF FailSave, FailWrite, FailUnnoticed, Tolerated, NoOp
        <2>2. memory' \in Memory
            BY <1>7, <2>1, MemoryTypes DEF FailSave, FailWrite, FailUnnoticed, TypeOK
        <2>3. (op' = NoOp \/ op' \in Commands) /\ CommandOK'
            <3>1. CASE FailUnnoticed
                BY <3>1, WritesGoOn, GoesOnSafely
            <3>2. CASE FailSave \/ FailWrite
                BY <3>2 DEF FailSave, FailWrite, CommandOK
            <3> QED
                BY <1>7, <3>1, <3>2
        <2>4. /\ errors' \in 0..MaxErrors
              /\ UNCHANGED <<log, torn, lost, disk, process, kills, named, replies>>
            BY <1>7, StoreAssumptions
               DEF FailSave, FailWrite, FailUnnoticed, Fail, TypeOK, StoreAssumptions
        <2> QED
            BY <2>2, <2>3, <2>4 DEF TypeOK
    <1>8. CASE Kill
        <2>1. memory' \in Memory /\ kills' \in 0..MaxKills
            BY <1>8, EmptyTypes, StoreAssumptions DEF Kill, TypeOK, StoreAssumptions
        <2> QED
            BY <1>8, <2>1 DEF Kill, TypeOK, CommandOK
    <1>9. CASE Open
        <2>1. CommandOK'
            BY <1>9 DEF Open, CommandOK
        <2> QED
            BY <1>9, <2>1, OpenTypes
    <1>10. CASE FailAppend
        <2>1. op \in Commands /\ op' = NoOp
            BY <1>10, LinesOfCommand, FailAppendWrites
        <2>2. log' \in Seq(Line) /\ torn' \in BOOLEAN /\ lost' \subseteq Line
            BY <1>10, <2>1, FailAppendWrites, WriteTypes
        <2>3. /\ errors' \in 0..MaxErrors
              /\ UNCHANGED <<disk, memory, process, named, kills, replies>>
            BY <1>10, FailAppendWrites
        <2> QED
            BY <2>1, <2>2, <2>3 DEF TypeOK, CommandOK
    <1>11. CASE LoseCreation
        <2>1. op # NoOp /\ op' \in Commands /\ CommandOK'
            BY <1>11, WritesGoOn, GoesOnSafely DEF GoesOn
        <2>2. memory' \in Memory
            BY <1>11, <2>1, MemoryTypes DEF LoseCreation
        <2>3. op.events[1] \in Line
            BY <1>11, LinesOfCommand DEF LoseCreation
        <2>4. torn' \in BOOLEAN /\ lost' \subseteq Line
            BY <1>11, <2>3 DEF LoseCreation, TypeOK
        <2>5. /\ errors' \in 0..MaxErrors
              /\ UNCHANGED <<log, disk, process, kills, named, replies>>
            BY <1>11, StoreAssumptions DEF LoseCreation, Fail, TypeOK, StoreAssumptions
        <2> QED
            BY <2>1, <2>2, <2>4, <2>5 DEF TypeOK
    <1> QED
        BY <1>1, <1>2, <1>3, <1>4, <1>5, <1>6, <1>7, <1>8, <1>9, <1>10, <1>11 DEF Next, Writes

-----------------------------------------------------------------------------
(* A step that does not write to the log moves histories between disk and memory *)

LogStep == AppendLog \/ FailAppend \/ LoseCreation

MovesCases ==
    /\ UNCHANGED <<log, torn, lost>>
    /\ errors' \in {errors, errors + 1}
    /\ \A c \in Cases :
          /\ disk'.cases[c] \in {<<>>, disk.cases[c], memory.cases[c]}
          /\ memory'.cases[c] \in {<<>>, disk.cases[c], memory.cases[c]}

\* Such a step leaves the log and moves cases between memory and file.
LEMMA OthersMoveCases ==
    ASSUME TypeOK, CommandOK, [Next]_vars, ~LogStep
    PROVE  MovesCases
    <1>1. \A c \in Cases : NoCases[c] = <<>>
        BY DEF NoCases
    <1>2. disk \in Files /\ memory \in Memory
        BY DEF TypeOK
    <1>3. \A c \in Cases : Fresh[c] \in {disk.cases[c], memory.cases[c]}
        BY DEF Fresh
    <1>4. CASE UNCHANGED vars
        BY <1>4 DEF vars, MovesCases
    <1>5. ASSUME NEW r \in Requests, Execute(r)
          PROVE  MovesCases
        BY <1>2, <1>3, <1>5 DEF Execute, MovesCases, Memory
    <1>6. ASSUME NEW r \in Requests, Replay(r)
          PROVE  MovesCases
        BY <1>2, <1>6 DEF Replay, MovesCases, Memory
    <1>7. CASE RefreshCases \/ RefreshManifests
        BY <1>2, <1>3, <1>7 DEF RefreshCases, RefreshManifests, MovesCases, Memory
    <1>8. CASE CutManifests \/ WriteManifests \/ CutValidations \/ WriteValidations
        BY <1>2, <1>8 DEF CutManifests, WriteManifests, CutValidations, WriteValidations,
                          WithManifest, WithValidation, MovesCases, Files, Memory
    <1>9. CASE CutCases \/ WriteCases
        BY <1>1, <1>2, <1>9 DEF CutCases, WriteCases, WithReply, MovesCases, Files, Memory
    <1>10. CASE CutHashes \/ WriteHashes \/ CutResults \/ WriteResults
        BY <1>2, <1>10 DEF CutHashes, WriteHashes, CutResults, WriteResults, WithResult,
                           MovesCases, Files, Memory
    <1>11. CASE Answer
        BY <1>11 DEF Answer, MovesCases
    <1>12. CASE FailSave \/ FailWrite \/ FailUnnoticed
        BY <1>2, <1>12 DEF FailSave, FailWrite, FailUnnoticed, Fail, WithManifest, WithValidation,
                           WithReply, WithResult, MovesCases, Memory
    <1>13. CASE Kill
        BY <1>1, <1>13 DEF Kill, EmptyMemory, MovesCases
    <1>14. CASE Open
        BY <1>2, <1>14 DEF Open, MovesCases, Memory
    <1> QED
        BY <1>4, <1>5, <1>6, <1>7, <1>8, <1>9, <1>10, <1>11, <1>12, <1>13, <1>14
           DEF Next, LogStep

\* Moving histories keeps them written, and at most one command behind.
LEMMA MovesSafely ==
    ASSUME TypeOK, SnapshotIsWritten, MemoryIsWritten, LossesAreCounted, Rising, AllOneBehind,
           MovesCases
    PROVE  SnapshotIsWritten' /\ MemoryIsWritten' /\ LossesAreCounted' /\ Rising' /\ AllOneBehind'
    <1>1. AllPrefixes(<<>>) = {}
        BY DEF AllPrefixes
    <1>2. SnapshotIsWritten' /\ MemoryIsWritten'
        <2>1. ASSUME NEW c \in Cases
              PROVE  /\ AllPrefixes(disk'.cases[c]) \subseteq Written(c)
                     /\ AllPrefixes(memory'.cases[c]) \subseteq Written(c)
            BY <1>1 DEF SnapshotIsWritten, MemoryIsWritten, MovesCases
        <2>2. \A c : Written(c)' = Written(c)
            BY LogStays DEF Written, LostEvents, MovesCases
        <2> QED
            BY <2>1, <2>2 DEF SnapshotIsWritten, MemoryIsWritten, MovesCases, AllPrefixes
    <1>5. LossesAreCounted'
        <2>1. errors \in Nat
            BY StoreAssumptions DEF TypeOK, StoreAssumptions
        <2>2. Cardinality(lost) \in Nat
            BY FS_CardinalityType DEF LossesAreCounted
        <2>3. lost' = lost /\ torn' = torn /\ (errors' = errors \/ errors' = errors + 1)
            BY DEF MovesCases
        <2> QED
            BY <2>1, <2>2, <2>3 DEF LossesAreCounted
    <1>3. Rising'
        BY LogStays DEF Rising, MovesCases
    <1>4. AllOneBehind'
        <2>1. ASSUME NEW c \in Cases
              PROVE  OneBehind(c, disk.cases[c])' /\ OneBehind(c, memory.cases[c])'
            <3>1. OneBehind(c, disk.cases[c]) /\ OneBehind(c, memory.cases[c])
                BY DEF AllOneBehind
            <3>2. \A h : OneAhead(c, h) => OneAhead(c, h)'
                BY LogStays DEF OneAhead, MovesCases
            <3>3. LostEvents(c)' = LostEvents(c)
                BY DEF LostEvents, MovesCases
            <3> QED
                BY <3>1, <3>2, <3>3, LogStays DEF OneBehind, MovesCases
        <2> QED
            BY <2>1 DEF AllOneBehind
    <1> QED
        BY <1>2, <1>3, <1>4, <1>5

\* Every step keeps the stored cases known to the process.
LEMMA MemoryKnowsNext ==
    ASSUME TypeOK, CommandOK, MemoryKnows, [Next]_vars
    PROVE  MemoryKnows'
    <1>1. \A c \in Cases : NoCases[c] = <<>>
        BY DEF NoCases
    <1>2. disk \in Files /\ memory \in Memory
        BY DEF TypeOK
    <1>3. process = "UP" => \A c \in Cases : disk.cases[c] # <<>> => Fresh[c] # <<>>
        BY <1>1 DEF Fresh, MemoryKnows
    <1>4. CASE UNCHANGED vars
        BY <1>4 DEF vars, MemoryKnows
    <1>5. ASSUME NEW r \in Requests, Execute(r)
          PROVE  MemoryKnows'
        BY <1>2, <1>3, <1>5 DEF Execute, MemoryKnows, Memory
    <1>6. ASSUME NEW r \in Requests, Replay(r)
          PROVE  MemoryKnows'
        BY <1>2, <1>6 DEF Replay, MemoryKnows, Memory
    <1>7. CASE RefreshCases \/ RefreshManifests
        BY <1>2, <1>3, <1>7 DEF RefreshCases, RefreshManifests, MemoryKnows, Memory
    <1>8. CASE CutManifests \/ WriteManifests \/ CutValidations \/ WriteValidations
        BY <1>2, <1>8 DEF CutManifests, WriteManifests, CutValidations, WriteValidations,
                          WithManifest, WithValidation, MemoryKnows, Files, Memory
    <1>9. CASE CutCases \/ WriteCases
        BY <1>1, <1>2, <1>9 DEF CutCases, WriteCases, WithReply, MemoryKnows, Files, Memory
    <1>10. CASE CutHashes \/ WriteHashes \/ CutResults \/ WriteResults
        BY <1>2, <1>10 DEF CutHashes, WriteHashes, CutResults, WriteResults, WithResult,
                           MemoryKnows, Files, Memory
    <1>11. CASE AppendLog \/ LoseCreation
        <2>1. op # NoOp
            BY <1>11, NotIdle DEF AppendLog, LoseCreation
        <2>2. op.case # <<>> /\ CaseOf[op.request] \in Cases
            BY <2>1, OpTyped DEF CommandOK
        <2> QED
            BY <1>2, <1>11, <2>2 DEF AppendLog, LoseCreation, Fail, WithCase, MemoryKnows, Memory
    <1>12. CASE Answer
        BY <1>12 DEF Answer, MemoryKnows
    <1>13. CASE FailSave \/ FailWrite \/ FailUnnoticed
        BY <1>2, <1>13 DEF FailSave, FailWrite, FailUnnoticed, Fail, WithManifest, WithValidation,
                           WithReply, WithResult, MemoryKnows, Memory
    <1>14. CASE Kill
        BY <1>14 DEF Kill, MemoryKnows
    <1>15. CASE Open
        BY <1>2, <1>15 DEF Open, MemoryKnows, Memory
    <1>16. CASE FailAppend
        BY <1>16, FailAppendWrites DEF MemoryKnows
    <1> QED
        BY <1>4, <1>5, <1>6, <1>7, <1>8, <1>9, <1>10, <1>11, <1>12, <1>13, <1>14, <1>15, <1>16 DEF Next

\* Every step keeps the base of the command under way current.
LEMMA BaseIsCurrentNext ==
    ASSUME TypeOK, CommandOK, MemoryKnows, BaseIsCurrent, [Next]_vars
    PROVE  BaseIsCurrent'
    <1>1. disk \in Files /\ memory \in Memory
        BY DEF TypeOK
    <1>2. CASE UNCHANGED vars
        BY <1>2 DEF vars, BaseIsCurrent, Base, Fresh
    <1>3. ASSUME NEW r \in Requests, Execute(r)
          PROVE  BaseIsCurrent'
        <2>1. PICK base \in Seq(Requests) :
                  \E new \in Seq(Requests) : Starts(r, base, new)
            BY <1>3, ExecuteStarts
        <2>2. PICK new \in Seq(Requests) : Starts(r, base, new)
            BY <2>1
        <2>3. op'.request = r /\ op'.case = new /\ op'.next = FirstWrite(r) /\ named'[r] = Len(base)
            BY <2>2 DEF Starts, TypeOK
        <2>4. CASE r \in Checks
            BY <2>3, <2>4, OutcomeTable DEF BaseIsCurrent, BeforeLog
        <2>5. CASE r \notin Checks
            <3>1. Base' = base
                BY <2>2, <2>3, <2>5 DEF Starts, Base
            <3>2. CaseOf[r] \in Cases
                BY StoreAssumptions DEF StoreAssumptions
            <3>3. CASE r \in Creates
                <4>1. Executable(r) /\ process = "UP" /\ memory' = memory /\ disk' = disk
                    BY <1>3, <3>3 DEF Execute
                <4>2. memory.cases[CaseOf[r]] = <<>>
                    BY <3>3, <4>1 DEF Executable
                <4>3. disk.cases[CaseOf[r]] = <<>>
                    BY <3>2, <4>1, <4>2 DEF MemoryKnows
                <4>4. base = <<>>
                    BY <2>2, <3>3 DEF Starts
                <4> QED
                    BY <2>3, <3>1, <4>1, <4>2, <4>3, <4>4 DEF BaseIsCurrent, Fresh
            <3>4. CASE r \notin Creates
                <4>1. memory'.cases = Fresh /\ disk' = disk
                    BY <1>1, <1>3, <3>4 DEF Execute, Memory
                <4>2. Fresh' = Fresh
                    BY <4>1 DEF Fresh
                <4>3. base = Fresh[CaseOf[r]]
                    BY <2>2, <3>4 DEF Starts
                <4> QED
                    BY <2>3, <3>1, <4>1, <4>2, <4>3 DEF BaseIsCurrent
            <3> QED
                BY <3>3, <3>4
        <2> QED
            BY <2>4, <2>5
    <1>4. ASSUME NEW r \in Requests, Replay(r)
          PROVE  BaseIsCurrent'
        BY <1>4 DEF Replay, BaseIsCurrent, BeforeLog, NoOp
    <1>5. CASE RefreshCases \/ RefreshManifests
        <2>1. Base' = Base /\ UNCHANGED <<op, disk>>
            BY <1>5 DEF RefreshCases, RefreshManifests, Base
        <2>2. memory'.cases \in {memory.cases, Fresh}
            BY <1>1, <1>5 DEF RefreshCases, RefreshManifests, Memory
        <2>3. Fresh' = Fresh
            BY <2>1, <2>2 DEF Fresh
        <2> QED
            BY <2>1, <2>2, <2>3 DEF BaseIsCurrent
    <1>6. CASE CutManifests \/ WriteManifests
        <2>1. /\ Base' = Base /\ op'.request = op.request
              /\ op.next \in BeforeLog
            BY <1>6, WritesGoOn, GoesOnSafely DEF CutManifests, WriteManifests, At, BeforeLog
        <2>2. memory'.cases = memory.cases /\ disk'.cases = disk.cases
            BY <1>1, <1>6 DEF CutManifests, WriteManifests, WithManifest, Files, Memory
        <2>3. Fresh' = Fresh
            BY <2>2 DEF Fresh
        <2> QED
            BY <2>1, <2>2, <2>3 DEF BaseIsCurrent
    <1>7. CASE \/ CutValidations \/ WriteValidations \/ AppendLog \/ CutCases \/ WriteCases
               \/ CutHashes \/ WriteHashes \/ CutResults \/ WriteResults \/ FailUnnoticed
               \/ LoseCreation
        <2>1. op'.next \notin BeforeLog
            BY <1>7, WritesGoOn, GoesOnSafely DEF BeforeLog
        <2> QED
            BY <2>1 DEF BaseIsCurrent
    <1>8. CASE Answer \/ FailSave \/ FailWrite \/ FailAppend \/ Kill
        BY <1>8 DEF Answer, FailSave, FailWrite, FailAppend, Kill, BaseIsCurrent, BeforeLog, NoOp
    <1>9. CASE Open
        <2>1. op = NoOp
            BY <1>9 DEF Open, CommandOK
        <2> QED
            BY <1>9, <2>1 DEF Open, BaseIsCurrent, BeforeLog, NoOp
    <1> QED
        BY <1>2, <1>3, <1>4, <1>5, <1>6, <1>7, <1>8, <1>9 DEF Next

\* A step that does not write to the log keeps what was answered named.
LEMMA KeptNext ==
    ASSUME TypeOK, CommandOK, KeptAreNamed, [Next]_vars, ~LogStep
    PROVE  KeptAreNamed'
    <1>1. disk \in Files /\ memory \in Memory /\ replies \in [Requests -> SUBSET Seq(Requests)]
        BY DEF TypeOK
    <1>2. SUFFICES ASSUME NEW r \in Requests \ Checks, Kept(r)'
                   PROVE  Kept(r) \/ Named(r)
        <2>1. \A r \in Requests \ Checks : Kept(r) => Named(r)
            BY DEF KeptAreNamed
        <2>2. UNCHANGED <<log, lost>>
            BY OthersMoveCases DEF MovesCases
        <2>3. \A r : Named(r)' = Named(r)
            BY <2>2, LogStays DEF Named
        <2> QED
            BY <2>1, <2>3 DEF KeptAreNamed
    <1>3. CASE UNCHANGED vars
        BY <1>2, <1>3 DEF vars, Kept
    <1>4. ASSUME NEW q \in Requests, Execute(q)
          PROVE  Kept(r) \/ Named(r)
        <2>1. op'.next \notin AfterLog \cup {"REPLY"}
            <3>1. op'.next = FirstWrite(q)
                BY <1>4 DEF Execute
            <3>2. FirstWrite(q) \in {"LOG", "CUT_MANIFESTS", "CUT_VALIDATIONS"}
                BY OutcomeTable
            <3> QED
                BY <3>1, <3>2 DEF AfterLog
        <2>2. memory'.requests = memory.requests /\ memory'.results = memory.results
            BY <1>1, <1>4 DEF Execute, Memory
        <2> QED
            BY <1>2, <1>4, <2>1, <2>2 DEF Execute, Kept
    <1>5. ASSUME NEW q \in Requests, Replay(q)
          PROVE  Kept(r) \/ Named(r)
        <2>1. q = r => memory.requests[r] # <<>>
            BY <1>5 DEF Replay, Reply
        <2>2. q # r => replies'[r] = replies[r]
            BY <1>1, <1>5 DEF Replay
        <2>3. memory'.requests = memory.requests /\ memory'.results = memory.results
            BY <1>1, <1>5 DEF Replay, Memory
        <2> QED
            BY <1>2, <1>5, <2>1, <2>2, <2>3 DEF Replay, Kept
    <1>6. CASE RefreshCases \/ RefreshManifests
        BY <1>1, <1>2, <1>6 DEF RefreshCases, RefreshManifests, Kept, Memory
    <1>7. CASE CutManifests \/ WriteManifests
        <2>1. op'.next \notin AfterLog \cup {"REPLY"}
            BY <1>7, WritesGoOn, GoesOnSafely DEF AfterLog
        <2> QED
            BY <1>1, <1>2, <1>7, <2>1 DEF CutManifests, WriteManifests, WithManifest, Kept, Memory, Files
    <1>8. CASE CutValidations \/ WriteValidations
        <2>1. op'.request = op.request
            BY <1>8, WritesGoOn, GoesOnSafely
        <2>2. op.request \in Checks
            BY <1>8, NotIdle, StepsOfCommand DEF CutValidations, WriteValidations, At, CheckUnderWay
        <2> QED
            BY <1>1, <1>2, <1>8, <2>1, <2>2
               DEF CutValidations, WriteValidations, WithValidation, Kept, Memory, Files
    <1>9. CASE CutCases \/ WriteCases \/ CutHashes \/ WriteHashes \/ CutResults \/ WriteResults
        <2>1. op'.request = op.request /\ op.next \in AfterLog
            BY <1>9, WritesGoOn, GoesOnSafely
               DEF CutCases, WriteCases, CutHashes, WriteHashes, CutResults, WriteResults, At, AfterLog
        <2>2. r # op.request => /\ memory'.requests[r] = memory.requests[r]
                                /\ memory'.results[r] = memory.results[r]
            BY <1>1, <1>9 DEF CutCases, WriteCases, CutHashes, WriteHashes, CutResults, WriteResults,
                              WithReply, WithResult, Memory
        <2>3. disk'.results \in {NoRequests, disk.results, memory.results}
            <3>1. CASE CutCases \/ WriteCases \/ CutHashes \/ WriteHashes
                BY <1>1, <3>1 DEF CutCases, WriteCases, CutHashes, WriteHashes, Files
            <3>2. CASE CutResults \/ WriteResults
                BY <1>1, <3>2 DEF CutResults, WriteResults, Files
            <3> QED
                BY <1>9, <3>1, <3>2
        <2>4. replies' = replies
            BY <1>9 DEF CutCases, WriteCases, CutHashes, WriteHashes, CutResults, WriteResults
        <2>5. NoRequests[r] = <<>>
            BY DEF NoRequests
        <2> QED
            BY <1>2, <2>1, <2>2, <2>3, <2>4, <2>5 DEF Kept
    <1>10. CASE Answer
        <2>1. op'.next \notin AfterLog \cup {"REPLY"}
            BY <1>10 DEF Answer, NoOp, AfterLog
        <2>2. r # op.request => replies'[r] = replies[r]
            BY <1>1, <1>10 DEF Answer
        <2> QED
            BY <1>2, <1>10, <2>1, <2>2 DEF Answer, At, Kept
    <1>11. CASE FailSave \/ FailWrite
        <2>1. op'.next \notin AfterLog \cup {"REPLY"}
            BY <1>11 DEF FailSave, FailWrite, NoOp, AfterLog
        <2> QED
            BY <1>1, <1>2, <1>11, <2>1
               DEF FailSave, FailWrite, Fail, WithManifest, WithValidation, Kept, Memory
    <1>12. CASE FailUnnoticed
        <2>1. op'.request = op.request /\ op.next \in AfterLog
            BY <1>12, WritesGoOn, GoesOnSafely DEF FailUnnoticed, Tolerated, AfterLog
        <2>2. r # op.request => /\ memory'.requests[r] = memory.requests[r]
                                /\ memory'.results[r] = memory.results[r]
            BY <1>1, <1>12 DEF FailUnnoticed, WithReply, WithResult, Memory
        <2> QED
            BY <1>2, <1>12, <2>1, <2>2 DEF FailUnnoticed, Fail, Kept
    <1>13. CASE Kill
        <2>1. memory'.requests[r] = <<>> /\ memory'.results[r] = <<>>
            BY <1>13 DEF Kill, EmptyMemory, NoRequests
        <2> QED
            BY <1>2, <1>13, <2>1 DEF Kill, Kept, NoOp, AfterLog
    <1>14. CASE Open
        <2>1. CASE Openable(disk.cases)
            <3>1. memory'.results = disk.results
                BY <1>14, <2>1 DEF Open
            <3>2. memory'.requests = Restored(disk.cases, disk.results)
                BY <1>14, <2>1 DEF Open
            <3>3. memory'.requests[r] # <<>> => disk.results[r] # <<>> \/ Named(r)
                BY <3>2 DEF Restored, Logged, InLog, Named
            <3> QED
                BY <1>2, <1>14, <3>1, <3>3 DEF Open, Kept
        <2>2. CASE ~Openable(disk.cases)
            BY <1>2, <1>14, <2>2 DEF Open, Kept
        <2> QED
            BY <2>1, <2>2
    <1> QED
        BY <1>3, <1>4, <1>5, <1>6, <1>7, <1>8, <1>9, <1>10, <1>11, <1>12, <1>13, <1>14
           DEF Next, LogStep

-----------------------------------------------------------------------------
(* Writing to the log *)

\* When the chain of a case holds after an append, every line before it is no longer
\* than the history that was continued, and a beginning of it unless a line was lost.
LEMMA AppendFollowsAll ==
    ASSUME log \in Seq(Line), NEW c \in Cases, NEW h \in Seq(Requests), NEW n \in 0..(Len(h) - 1),
           Appends(c, h, n), Chained(c)', Rising
    PROVE  \A i \in CaseLines(c) :
              /\ Len(log[i].event) <= n
              /\ OneBehind(c, SubSeq(h, 1, n)) /\ LostEvents(c) = {} =>
                     Extends(SubSeq(h, 1, n), log[i].event)
    <1> DEFINE base == SubSeq(h, 1, n)
    <1>1. base \in Seq(Requests) /\ Len(base) = n /\ n \in Nat
        BY PrefixType, LenProperties
    <1>2. Chained(c) /\ \A j : IsLast(j, c) => log[j].event = base
        BY AppendContinues
    <1> HIDE DEF base
    <1> TAKE i \in CaseLines(c)
    <1>3. i \in 1..Len(log)
        BY DEF CaseLines
    <1>4. log[i].event \in Seq(Requests) /\ log[i].event # <<>>
        BY <1>3, LinesTyped
    <1>5. PICK l \in CaseLines(c) : IsLast(l, c)
        BY LastLine
    <1>6. log[l].event = base /\ l \in 1..Len(log) /\ i <= l
        BY <1>2, <1>5 DEF IsLast, CaseLines
    <1>7. Len(log[i].event) <= n
        <2>1. i < l => Len(log[i].event) < Len(log[l].event)
            BY <1>2, <1>5 DEF Rising
        <2>2. Len(log[i].event) \in Nat
            BY <1>4, LenProperties
        <2>3. i = l \/ i < l
            BY <1>3, <1>6
        <2> QED
            BY <1>1, <1>6, <2>1, <2>2, <2>3
    <1>8. base # <<>>
        BY <1>6, LinesTyped
    <1>9. ASSUME OneBehind(c, base), LostEvents(c) = {}
          PROVE  Extends(base, log[i].event)
        <2>1. log[i].event \in LoggedEvents(c)
            BY DEF LoggedEvents
        <2>2. OneAhead(c, base)
            BY <1>2, <1>8, <1>9 DEF OneBehind
        <2>3. Extends(base, log[i].event) \/ Extends(log[i].event, base)
            BY <2>1, <2>2 DEF OneAhead
        <2>4. Extends(log[i].event, base) => log[i].event = base
            BY <1>1, <1>4, <1>7, ExtendsOfOneLength
        <2> QED
            BY <1>1, <2>3, <2>4, WholeIsPrefix
    <1> QED
        BY <1>7, <1>9 DEF base

\* Lines behind the last one of their case keep the log rising.
LEMMA AppendRises ==
    ASSUME log \in Seq(Line), NEW c \in Cases, NEW h \in Seq(Requests), NEW n \in 0..(Len(h) - 1),
           Appends(c, h, n), Rising
    PROVE  Rising'
    <1>1. Len(log) \in Nat /\ Len(h) \in Nat /\ n \in 0..Len(h)
        BY LenProperties
    <1>2. SUFFICES ASSUME NEW d \in Cases, Chained(d)',
                          NEW i \in CaseLines(d)', NEW j \in CaseLines(d)', i < j
                   PROVE  Len(log'[i].event) < Len(log'[j].event)
        BY DEF Rising
    <1>3. CASE d # c
        <2>1. Chained(d) /\ i \in CaseLines(d) /\ j \in CaseLines(d)
            BY <1>1, <1>2, <1>3, AppendLeaves
        <2>2. log'[i] = log[i] /\ log'[j] = log[j]
            BY <2>1 DEF CaseLines, Appends
        <2> QED
            BY <1>2, <2>1, <2>2 DEF Rising
    <1>4. CASE d = c
        <2> DEFINE New == (Len(log) + 1)..(Len(log) + (Len(h) - n))
        <2>1. CaseLines(c)' = CaseLines(c) \cup New
            BY <1>1, AppendAdds DEF Adds
        <2>2. \A k \in CaseLines(c) : k \in 1..Len(log) /\ log'[k] = log[k]
            BY DEF CaseLines, Appends
        <2>3. \A k \in CaseLines(c) : Len(log'[k].event) <= n /\ Len(log'[k].event) \in Nat
            <3>1. \A k \in CaseLines(c) : Len(log[k].event) <= n
                BY <1>2, <1>4, AppendFollowsAll
            <3>2. \A k \in 1..Len(log) : Len(log[k].event) \in Nat
                BY LinesTyped, LenProperties
            <3> QED
                BY <2>2, <3>1, <3>2
        <2>4. ASSUME NEW k \in New
              PROVE  \E m \in (n + 1)..Len(h) : k - Len(log) = m - n /\ Len(log'[k].event) = m
            <3>1. PICK m \in (n + 1)..Len(h) : k - Len(log) = m - n
                BY <1>1, LineOfRevision
            <3>2. log'[k] = [case |-> c, event |-> SubSeq(h, 1, m)]
                BY <1>1, <3>1 DEF Appends
            <3>3. m \in 0..Len(h)
                BY <1>1
            <3>4. Len(SubSeq(h, 1, m)) = m
                BY <3>3, PrefixType
            <3>5. Len(log'[k].event) = m
                BY <3>2, <3>4
            <3> QED
                BY <3>1, <3>5
        <2> HIDE DEF New
        <2>5. CASE i \in CaseLines(c) /\ j \in CaseLines(c)
            <3>1. Chained(c)
                BY <1>2, <1>4, AppendContinues
            <3> QED
                BY <1>2, <2>2, <2>5, <3>1 DEF Rising
        <2>6. CASE i \in CaseLines(c) /\ j \in New
            <3>1. PICK m \in (n + 1)..Len(h) : Len(log'[j].event) = m
                BY <2>4, <2>6
            <3> QED
                BY <1>1, <2>3, <2>6, <3>1
        <2>7. CASE i \in New /\ j \in CaseLines(c)
            <3>1. i > Len(log) /\ j <= Len(log)
                BY <1>1, <2>2, <2>7 DEF New
            <3> QED
                BY <1>1, <1>2, <2>2, <2>7, <3>1 DEF New
        <2>8. CASE i \in New /\ j \in New
            <3>1. PICK m \in (n + 1)..Len(h) : i - Len(log) = m - n /\ Len(log'[i].event) = m
                BY <2>4, <2>8
            <3>2. PICK q \in (n + 1)..Len(h) : j - Len(log) = q - n /\ Len(log'[j].event) = q
                BY <2>4, <2>8
            <3>3. i \in Int /\ j \in Int
                BY <1>1, <2>8 DEF New
            <3> QED
                BY <1>1, <1>2, <3>1, <3>2, <3>3
        <2> QED
            BY <1>4, <2>1, <2>5, <2>6, <2>7, <2>8
    <1> QED
        BY <1>3, <1>4

\* An append leaves the history it continued, and the one it made, at most one
\* command behind.
LEMMA AppendOneBehind ==
    ASSUME log \in Seq(Line), NEW c \in Cases, NEW h \in Seq(Requests), NEW n \in 0..(Len(h) - 1),
           Appends(c, h, n), Rising, OneBehind(c, SubSeq(h, 1, n)), LostEvents(c) = {}, Chained(c)',
           NEW r \in Requests, \A i \in (n + 1)..Len(h) : h[i] = r
    PROVE  OneAhead(c, h)' /\ OneAhead(c, SubSeq(h, 1, n))'
    <1>1. Len(log) \in Nat /\ Len(h) \in Nat /\ n \in 0..Len(h)
        BY LenProperties
    <1>2. PICK base \in Seq(Requests) : base = SubSeq(h, 1, n) /\ Len(base) = n /\ Extends(h, base)
        BY <1>1, PrefixType, ExtendsPrefix
    <1>3. LoggedEvents(c)' = LoggedEvents(c) \cup {SubSeq(h, 1, m) : m \in (n + 1)..Len(h)}
        BY <1>1, AppendAdds DEF Adds
    <1>4. ASSUME NEW e \in LoggedEvents(c)
          PROVE  Extends(base, e) /\ Extends(h, e)
        <2>1. PICK i \in CaseLines(c) : e = log[i].event
            BY DEF LoggedEvents
        <2>2. e \in Seq(Requests)
            BY <2>1, LinesTyped DEF CaseLines
        <2>3. Extends(base, e)
            BY <1>2, <2>1, AppendFollowsAll
        <2> QED
            BY <1>2, <2>2, <2>3, ExtendsIsTransitive
    <1>5. ASSUME NEW m \in (n + 1)..Len(h)
          PROVE  /\ Extends(h, SubSeq(h, 1, m))
                 /\ Extends(SubSeq(h, 1, m), base)
                 /\ SubSeq(h, 1, m)[Len(SubSeq(h, 1, m))] = r
        <2>1. m \in 1..Len(h) /\ m \in 0..Len(h) /\ n \in 0..m
            BY <1>1
        <2>2. Len(SubSeq(h, 1, m)) = m /\ SubSeq(h, 1, m)[m] = h[m]
            BY <2>1, PrefixType
        <2>3. SubSeq(SubSeq(h, 1, m), 1, n) = base
            BY <1>2, <2>1, PrefixOfPrefix
        <2>4. Extends(h, SubSeq(h, 1, m))
            BY <2>1, ExtendsPrefix
        <2>5. Len(base) <= m
            BY <1>2, <2>1
        <2>6. Extends(SubSeq(h, 1, m), base)
            BY <1>2, <2>2, <2>3, <2>5 DEF Extends
        <2>7. SubSeq(h, 1, m)[Len(SubSeq(h, 1, m))] = r
            <3>1. h[m] = r
                OBVIOUS
            <3> QED
                BY <2>2, <3>1, Zenon
        <2> QED
            BY <2>4, <2>6, <2>7, Zenon
    <1>6. \A e \in LoggedEvents(c)' :
              Extends(h, e) /\ (Extends(base, e) \/ (Extends(e, base) /\ e[Len(e)] = r))
        <2> TAKE e \in LoggedEvents(c)'
        <2>1. CASE e \in LoggedEvents(c)
            BY <1>4, <2>1
        <2>2. CASE e \notin LoggedEvents(c)
            <3>1. PICK m \in (n + 1)..Len(h) : e = SubSeq(h, 1, m)
                BY <1>3, <2>2
            <3> QED
                BY <1>5, <3>1
        <2> QED
            BY <2>1, <2>2
    <1> QED
        BY <1>2, <1>6 DEF OneAhead

\* The command whose lines are to be written: of request r, it takes case c from its
\* first n events to h.
Writing(c, h, n, r) ==
    /\ op.request = r /\ CaseOf[op.request] = c /\ op.case = h /\ named[op.request] = n

\* There is one at the step LOG.
LEMMA WritingAtLog ==
    ASSUME TypeOK, CommandOK, At("LOG")
    PROVE  \E c \in Cases, h \in Seq(Requests), r \in Requests \ Checks :
               \E n \in 0..(Len(h) - 1) : Writing(c, h, n, r)
    <1>1. op \in Commands /\ ChangeUnderWay
        BY LinesOfCommand
    <1>2. PICK h \in Seq(Requests) : h = op.case
        BY <1>1 DEF Commands
    <1>3. PICK n \in 0..(Len(h) - 1) : n = named[op.request]
        BY <1>1, <1>2 DEF ChangeUnderWay
    <1>4. CaseOf[op.request] \in Cases /\ op.request \in Requests \ Checks
        BY <1>1, StoreAssumptions DEF ChangeUnderWay, StoreAssumptions
    <1> QED
        BY <1>2, <1>3, <1>4 DEF Writing

\* What was written of a case, and what lines name, only grows.
WrittenGrows == \A d \in Cases : Written(d) \subseteq Written(d)'
NamedGrows   == \A q \in Requests : Named(q) => Named(q)'

\* The first k lines of a command extend the log so, less the one a torn line takes.
Reaches(c, h, n, k, s) ==
    /\ s = IF torn /\ k > 0 THEN 1 ELSE 0
    /\ s <= k /\ k <= Len(h) - n
    /\ Appends(c, SubSeq(h, 1, n + k), n + s)
    /\ s = 1 => [case |-> c, event |-> SubSeq(h, 1, n + 1)] \in lost'
    /\ s = 0 => lost' = lost
    /\ lost \subseteq lost'

\* So do the lines that a write gets into the file.
LEMMA WriteReaches ==
    ASSUME TypeOK, CommandOK, At("LOG"), NEW k \in 0..Len(op.events), NEW cut, WriteLines(k, cut),
           NEW c \in Cases, NEW h \in Seq(Requests), NEW n \in 0..(Len(h) - 1), NEW r,
           Writing(c, h, n, r)
    PROVE  \E s \in 0..1 : Reaches(c, h, n, k, s)
    <1>1. /\ op \in Commands /\ ChangeUnderWay
          /\ op.events[1] = [case |-> c, event |-> SubSeq(h, 1, n + 1)]
        <2>1. /\ op \in Commands /\ ChangeUnderWay /\ op.events[1] \in Line
              /\ op.events[1].case = c /\ op.events[1].event = SubSeq(h, 1, n + 1)
            BY LinesOfCommand DEF Writing
        <2> QED
            BY <2>1 DEF Line
    <1>2. PICK s \in 0..1 : /\ s = IF torn /\ k > 0 THEN 1 ELSE 0
                            /\ s <= k /\ k <= Len(h) - n
                            /\ Appends(c, SubSeq(h, 1, n + k), n + s)
        BY <1>1, WriteAppends DEF Writing
    <1>3. lost' = IF torn /\ k > 0 THEN lost \cup {op.events[1]} ELSE lost
        BY DEF WriteLines
    <1> QED
        BY <1>1, <1>2, <1>3 DEF Reaches

\* Lines that get into the file are written, in the log or lost.
LEMMA WritesAreWritten ==
    ASSUME log \in Seq(Line), NEW c \in Cases, NEW h \in Seq(Requests), NEW n \in 0..(Len(h) - 1),
           NEW k \in Nat, NEW s \in 0..1, Reaches(c, h, n, k, s)
    PROVE  /\ WrittenGrows
           /\ \A m \in (n + 1)..(n + k) : SubSeq(h, 1, m) \in Written(c)'
           /\ \A d \in Cases \ {c} : /\ LoggedEvents(d)' = LoggedEvents(d)
                                     /\ Chained(d)' = Chained(d)
    <1>1. Len(h) \in Nat
        BY LenProperties
    <1>21. n + k \in 0..Len(h)
        BY <1>1 DEF Reaches
    <1>2. PICK g \in Seq(Requests) : g = SubSeq(h, 1, n + k) /\ Len(g) = n + k
        BY <1>21, PrefixType
    <1>3. n + s \in 0..Len(g) /\ Appends(c, g, n + s)
        BY <1>1, <1>2 DEF Reaches
    <1>8. PICK q \in 0..Len(g) : q = n + s
        BY <1>3
    <1>9. \A d : d # c => LoggedEvents(d)' = LoggedEvents(d) /\ Chained(d)' = Chained(d)
        BY <1>3, <1>8, AppendLeaves
    <1>10. LoggedEvents(c)' = LoggedEvents(c) \cup {SubSeq(g, 1, m) : m \in (q + 1)..Len(g)}
        <2>1. Appends(c, g, q) /\ g \in Seq(Requests)
            BY <1>3, <1>8
        <2>2. Adds(c, g, q)
            BY <2>1, AppendAdds
        <2> QED
            BY <2>2 DEF Adds
    <1>4. /\ \A d : d # c => LoggedEvents(d)' = LoggedEvents(d) /\ Chained(d)' = Chained(d)
          /\ LoggedEvents(c)' = LoggedEvents(c) \cup {SubSeq(g, 1, m) : m \in (n + s + 1)..Len(g)}
        BY <1>8, <1>9, <1>10
    <1>5. \A d : LostEvents(d) \subseteq LostEvents(d)'
        BY DEF LostEvents, Reaches
    <1>6. WrittenGrows
        BY <1>4, <1>5 DEF WrittenGrows, Written
    <1>7. ASSUME NEW m \in (n + 1)..(n + k)
          PROVE  SubSeq(h, 1, m) \in Written(c)'
        <2>1. CASE m >= n + s + 1
            <3>1. m \in (n + s + 1)..Len(g)
                BY <1>2, <2>1
            <3>2. SubSeq(g, 1, m) \in LoggedEvents(c)'
                BY <1>4, <3>1
            <3>3. SubSeq(g, 1, m) = SubSeq(h, 1, m)
                BY <1>1, <1>2, <3>1, PrefixOfPrefix DEF Reaches
            <3> QED
                BY <3>2, <3>3 DEF Written
        <2>2. CASE m < n + s + 1
            <3>1. s = 1 /\ m = n + 1
                BY <2>2
            <3>2. [case |-> c, event |-> SubSeq(h, 1, m)] \in lost'
                BY <3>1 DEF Reaches
            <3>3. SubSeq(h, 1, m) \in LostEvents(c)'
                BY <3>2 DEF LostEvents
            <3> QED
                BY <3>3 DEF Written
        <2> QED
            BY <2>1, <2>2
    <1> QED
        BY <1>4, <1>6, <1>7

\* They name their request.
LEMMA WritesAreNamed ==
    ASSUME log \in Seq(Line), NEW c \in Cases, NEW h \in Seq(Requests), NEW n \in 0..(Len(h) - 1),
           NEW k \in Nat, NEW s \in 0..1, Reaches(c, h, n, k, s),
           NEW r, h[n + 1] = r
    PROVE  NamedGrows /\ (k > 0 => Named(r)')
    <1>1. Len(h) \in Nat /\ Len(log) \in Nat
        BY LenProperties
    <1>21. n + k \in 0..Len(h)
        BY <1>1 DEF Reaches
    <1>2. PICK g \in Seq(Requests) : g = SubSeq(h, 1, n + k) /\ Len(g) = n + k
        BY <1>21, PrefixType
    <1>3. /\ Len(log') = Len(log) + (Len(g) - (n + s))
          /\ \A i \in 1..Len(log) : log'[i] = log[i]
        BY <1>2 DEF Reaches, Appends
    <1>4. NamedGrows
        <2>1. 1..Len(log) \subseteq 1..Len(log')
            BY <1>1, <1>2, <1>3 DEF Reaches
        <2> QED
            BY <1>3, <2>1 DEF NamedGrows, Named, InLog, Reaches
    <1>5. SubSeq(h, 1, n + 1)[Len(SubSeq(h, 1, n + 1))] = r
        <2>1. n + 1 \in 0..Len(h) /\ n + 1 \in 1..(n + 1)
            BY <1>1
        <2> QED
            BY <2>1, PrefixType
    <1>6. ASSUME k > 0
          PROVE  Named(r)'
        <2>1. CASE s = 1
            <3>1. PICK l \in lost' : l = [case |-> c, event |-> SubSeq(h, 1, n + 1)]
                BY <2>1 DEF Reaches
            <3>2. l.event[Len(l.event)] = r
                BY <1>5, <3>1
            <3> QED
                BY <3>2 DEF Named
        <2>2. CASE s = 0
            <3>1. n + 1 \in (n + s + 1)..Len(g) /\ n + 1 \in 0..(n + k) /\ n + k \in 0..Len(h)
                BY <1>1, <1>2, <1>6, <2>2 DEF Reaches
            <3>7. Len(log') = Len(log) + k
                BY <1>1, <1>2, <1>3, <2>2
            <3>2. PICK i \in 1..Len(log') : i = Len(log) + 1
                BY <1>1, <1>6, <3>7
            <3>3. i \in (Len(log) + 1)..Len(log') /\ i - Len(log) = (n + 1) - (n + s)
                BY <1>1, <2>2, <3>2
            <3>4. log'[i] = [case |-> c, event |-> SubSeq(g, 1, n + 1)]
                BY <1>2, <3>1, <3>3 DEF Reaches, Appends
            <3>5. SubSeq(g, 1, n + 1) = SubSeq(h, 1, n + 1)
                BY <1>2, <3>1, PrefixOfPrefix
            <3>6. log'[i].event[Len(log'[i].event)] = r
                BY <1>5, <3>4, <3>5
            <3> QED
                BY <3>6 DEF Named, InLog
        <2> QED
            BY <2>1, <2>2
    <1> QED
        BY <1>4, <1>6

\* They keep the log rising.
LEMMA WritesRise ==
    ASSUME log \in Seq(Line), NEW c \in Cases, NEW h \in Seq(Requests), NEW n \in 0..(Len(h) - 1),
           NEW k \in Nat, NEW s \in 0..1, Reaches(c, h, n, k, s), Rising
    PROVE  Rising'
    <1>1. Len(h) \in Nat
        BY LenProperties
    <1>21. n + k \in 0..Len(h)
        BY <1>1 DEF Reaches
    <1>2. PICK g \in Seq(Requests) : g = SubSeq(h, 1, n + k) /\ Len(g) = n + k
        BY <1>21, PrefixType
    <1>3. Appends(c, g, n + s)
        BY <1>2 DEF Reaches
    <1>4. CASE n + s < n + k
        <2>1. n + s \in 0..(Len(g) - 1)
            BY <1>2, <1>4
        <2> QED
            BY <1>3, <2>1, AppendRises
    <1>5. CASE n + s = n + k
        <2>1. CaseLines(c)' = CaseLines(c) /\ Len(log') = Len(log)
            <3>1. Len(log) \in Nat /\ n + s \in 0..Len(g)
                BY <1>2, <1>5, LenProperties
            <3>2. Len(log') = Len(log) /\ \A i \in 1..Len(log) : log'[i] = log[i]
                BY <1>2, <1>3, <1>5, <3>1 DEF Appends
            <3> QED
                BY <3>2 DEF CaseLines
        <2>2. \A i \in 1..Len(log) : log'[i] = log[i] /\ Continues(i)' = Continues(i)
            <3>1. n + s \in 0..Len(g)
                BY <1>2, <1>5
            <3> QED
                BY <1>3, <3>1, AppendLeaves DEF Appends
        <2>3. \A d : CaseLines(d)' = CaseLines(d)
            BY <2>1, <2>2 DEF CaseLines
        <2>4. \A d : Chained(d)' = Chained(d)
            BY <2>2, <2>3 DEF Chained, CaseLines
        <2> QED
            BY <2>2, <2>3, <2>4 DEF Rising, CaseLines
    <1> QED
        BY <1>4, <1>5 DEF Reaches

\* They leave the history they continue at most one command behind, and the one they
\* make when all of them are there.
LEMMA WritesOneBehind ==
    ASSUME log \in Seq(Line), NEW c \in Cases, NEW h \in Seq(Requests), NEW n \in 0..(Len(h) - 1),
           NEW k \in Nat, NEW s \in 0..1, Reaches(c, h, n, k, s), Rising,
           OneBehind(c, SubSeq(h, 1, n)),
           NEW r \in Requests, \A i \in (n + 1)..Len(h) : h[i] = r
    PROVE  OneBehind(c, SubSeq(h, 1, n))' /\ (n + k = Len(h) => OneBehind(c, h)')
    <1>1. Len(h) \in Nat /\ n + k \in 0..Len(h)
        BY LenProperties DEF Reaches
    <1>2. PICK g \in Seq(Requests) : g = SubSeq(h, 1, n + k) /\ Len(g) = n + k
        BY <1>1, PrefixType
    <1>3. SubSeq(g, 1, n) = SubSeq(h, 1, n) /\ (n + k = Len(h) => g = h)
        BY <1>1, <1>2, PrefixOfPrefix, WholeIsPrefix
    <1>4. Appends(c, g, n + s)
        BY <1>2 DEF Reaches
    <1>5. CASE s = 1
        <2>1. PICK l \in lost' : l = [case |-> c, event |-> SubSeq(h, 1, n + 1)]
            BY <1>5 DEF Reaches
        <2>3. l.case = c
            BY <2>1
        <2>4. l.event \in LostEvents(c)'
            BY <2>3 DEF LostEvents
        <2>2. LostEvents(c)' # {}
            BY <2>4
        <2> QED
            BY <2>2 DEF OneBehind
    <1>6. CASE s = 0 /\ k > 0
        <2>1. lost' = lost
            BY <1>6 DEF Reaches
        <2>2. LostEvents(c)' = LostEvents(c)
            BY <2>1 DEF LostEvents
        <2>3. n \in 0..(Len(g) - 1) /\ Appends(c, g, n)
            BY <1>2, <1>4, <1>6
        <2>4. \A i \in (n + 1)..Len(g) : g[i] = r
            <3>1. \A i \in 1..(n + k) : g[i] = h[i]
                BY <1>1, <1>2, PrefixType
            <3> QED
                BY <1>1, <1>2, <3>1
        <2>5. ASSUME Chained(c)', LostEvents(c) = {}
              PROVE  OneAhead(c, g)' /\ OneAhead(c, SubSeq(g, 1, n))'
            BY <1>3, <2>3, <2>4, <2>5, AppendOneBehind
        <2> QED
            BY <1>3, <2>2, <2>5 DEF OneBehind
    <1>7. CASE k = 0
        <2>1. Appends(c, g, n) /\ Len(g) = n /\ lost' = lost /\ n + k < Len(h)
            BY <1>1, <1>2, <1>4, <1>7 DEF Reaches
        <2>2. LostEvents(c)' = LostEvents(c)
            BY <2>1 DEF LostEvents
        <2>3. n \in 0..Len(g) /\ Len(log) \in Nat
            BY <2>1, LenProperties
        <2>4. Len(log') = Len(log) /\ \A i \in 1..Len(log) : log'[i] = log[i]
            BY <2>1, <2>3 DEF Appends
        <2>5. \A i \in 1..Len(log) : Continues(i)' = Continues(i)
            BY <2>1, <2>3, AppendLeaves
        <2>6. CaseLines(c)' = CaseLines(c)
            BY <2>4 DEF CaseLines
        <2>7. Chained(c)' = Chained(c) /\ LoggedEvents(c)' = LoggedEvents(c)
            BY <2>4, <2>5, <2>6 DEF Chained, LoggedEvents, CaseLines
        <2>8. \A f : OneAhead(c, f) => OneAhead(c, f)'
            BY <2>7 DEF OneAhead
        <2> QED
            BY <2>1, <2>2, <2>7, <2>8 DEF OneBehind
    <1> QED
        BY <1>5, <1>6, <1>7 DEF Reaches

\* Each write that fails adds one to the errors when it tears a line, and each torn line
\* takes one with it.
LEMMA WritesLoseTwo ==
    ASSUME LossesAreCounted, errors \in Nat, errors' \in Nat, errors' >= errors, torn \in BOOLEAN,
           NEW k \in Nat, NEW cut \in BOOLEAN, WriteLines(k, cut), cut => errors' = errors + 1
    PROVE  LossesAreCounted'
    <1>1. IsFiniteSet(lost) /\ Cardinality(lost) \in Nat
        BY FS_CardinalityType DEF LossesAreCounted
    <1>2. CASE torn /\ k > 0
        <2>1. lost' = lost \cup {op.events[1]} /\ torn' = cut
            BY <1>2 DEF WriteLines
        <2>2. IsFiniteSet(lost') /\ Cardinality(lost') <= Cardinality(lost) + 1 /\ Cardinality(lost') \in Nat
            <3>1. /\ IsFiniteSet(lost \cup {op.events[1]})
                  /\ Cardinality(lost \cup {op.events[1]}) =
                        IF op.events[1] \in lost THEN Cardinality(lost) ELSE Cardinality(lost) + 1
                BY <1>1, FS_AddElement
            <3> QED
                BY <1>1, <2>1, <3>1
        <2>3. Cardinality(lost) + 1 <= 2 * errors
            BY <1>2 DEF LossesAreCounted
        <2>4. Cardinality(lost') + (IF torn' THEN 1 ELSE 0) <= 2 * errors'
            BY <1>1, <2>1, <2>2, <2>3
        <2> QED
            BY <2>2, <2>4 DEF LossesAreCounted
    <1>3. CASE ~(torn /\ k > 0)
        <2>1. lost' = lost /\ (torn' => torn \/ cut)
            BY <1>3 DEF WriteLines
        <2>2. Cardinality(lost) + (IF torn THEN 1 ELSE 0) <= 2 * errors
            BY DEF LossesAreCounted
        <2>3. Cardinality(lost) + (IF torn' THEN 1 ELSE 0) <= 2 * errors'
            BY <1>1, <2>1, <2>2
        <2> QED
            BY <1>1, <2>1, <2>3 DEF LossesAreCounted
    <1> QED
        BY <1>2, <1>3

\* What a step that writes to the log has to keep beside the types.
Sound ==
    /\ SnapshotIsWritten /\ MemoryIsWritten /\ LossesAreCounted /\ Rising /\ AllOneBehind
    /\ KeptAreNamed

\* Before its lines are written, memory and snapshot have the case as the command found
\* it, if they have it.
LEMMA BaseAtLog ==
    ASSUME Durable, At("LOG"), NEW c \in Cases, NEW h \in Seq(Requests),
           NEW n \in 0..(Len(h) - 1), NEW r, Writing(c, h, n, r)
    PROVE  /\ memory.cases[c] = SubSeq(h, 1, n)
           /\ disk.cases[c] = SubSeq(h, 1, n) \/ disk.cases[c] = <<>>
           /\ OneBehind(c, SubSeq(h, 1, n))
           /\ \A i \in (n + 1)..Len(h) : h[i] = r
           /\ h[n + 1] = r
    <1>1. ChangeUnderWay
        BY LinesOfCommand DEF Durable
    <1>2. memory.cases[c] = SubSeq(h, 1, n) /\ Fresh[c] = SubSeq(h, 1, n)
        BY DEF Durable, BaseIsCurrent, BeforeLog, Base, At, Writing
    <1>3. disk.cases[c] = SubSeq(h, 1, n) \/ disk.cases[c] = <<>>
        BY <1>2 DEF Fresh, NoCases
    <1>4. OneBehind(c, SubSeq(h, 1, n))
        BY <1>2 DEF Durable, AllOneBehind
    <1>5. \A i \in (n + 1)..Len(h) : h[i] = r
        BY <1>1 DEF ChangeUnderWay, Writing
    <1>6. n + 1 \in (n + 1)..Len(h)
        BY LenProperties
    <1> QED
        BY <1>2, <1>3, <1>4, <1>5, <1>6

\* What was written stays so.
LEMMA PrefixesStayWritten ==
    ASSUME WrittenGrows, NEW d \in Cases, NEW f, AllPrefixes(f) \subseteq Written(d)
    PROVE  AllPrefixes(f) \subseteq Written(d)'
    BY DEF WrittenGrows

\* A case that is not written to is as far behind its log as before.
LEMMA OthersStayBehind ==
    ASSUME NEW c \in Cases, NEW d \in Cases, LoggedEvents(d)' = LoggedEvents(d),
           Chained(d)' = Chained(d), lost \subseteq lost', NEW f, OneBehind(d, f)
    PROVE  OneBehind(d, f)'
    <1>1. OneAhead(d, f) => OneAhead(d, f)'
        BY DEF OneAhead
    <1>2. LostEvents(d)' = {} => LostEvents(d) = {}
        BY DEF LostEvents
    <1> QED
        BY <1>1, <1>2 DEF OneBehind

\* A command's lines, when all get into the file.
LEMMA AppendLogKeeps ==
    ASSUME Durable, TypeOK', AppendLog
    PROVE  Sound'
    <1>1. At("LOG") /\ WriteLines(Len(op.events), FALSE) /\ errors' = errors
        BY DEF AppendLog
    <1>2. PICK c \in Cases, h \in Seq(Requests), r \in Requests \ Checks :
              \E n \in 0..(Len(h) - 1) : Writing(c, h, n, r)
        BY <1>1, WritingAtLog DEF Durable
    <1>3. PICK n \in 0..(Len(h) - 1) : Writing(c, h, n, r)
        BY <1>2
    <1>4. PICK k \in Nat :
              k \in 0..Len(op.events) /\ WriteLines(k, FALSE) /\ n + k = Len(h) /\ k > 0
        <2>1. Len(op.events) \in Nat /\ Len(op.events) = Len(h) - n /\ Len(op.events) > 0
            BY <1>1, <1>3, LinesOfCommand DEF Durable, Writing
        <2>2. n + Len(op.events) = Len(h) /\ Len(op.events) \in 0..Len(op.events)
            BY <2>1, LenProperties
        <2> QED
            BY <1>1, <2>1, <2>2
    <1>17. TypeOK /\ CommandOK
        BY DEF Durable
    <1>5. PICK s \in 0..1 : Reaches(c, h, n, k, s)
        BY <1>1, <1>3, <1>4, <1>17, WriteReaches
    <1>6. /\ memory.cases[c] = SubSeq(h, 1, n)
          /\ disk.cases[c] = SubSeq(h, 1, n) \/ disk.cases[c] = <<>>
          /\ OneBehind(c, SubSeq(h, 1, n))
          /\ \A i \in (n + 1)..Len(h) : h[i] = r
          /\ h[n + 1] = r
        BY <1>1, <1>3, BaseAtLog
    <1>7. log \in Seq(Line) /\ disk \in Files /\ memory \in Memory /\ Rising
        BY DEF Durable, TypeOK
    <1>8. /\ disk' = disk
          /\ memory'.cases[c] = h
          /\ \A d \in Cases \ {c} : memory'.cases[d] = memory.cases[d]
          /\ memory'.requests = memory.requests /\ memory'.results = memory.results
          /\ replies' = replies /\ op'.request = r
        <2>1. op'.request = op.request
            BY WritesGoOn, GoesOnSafely DEF Durable
        <2> QED
            BY <1>3, <1>7, <2>1 DEF AppendLog, WithCase, Memory, Writing
    <1>9. /\ WrittenGrows
          /\ \A m \in (n + 1)..(n + k) : SubSeq(h, 1, m) \in Written(c)'
          /\ \A d \in Cases \ {c} : LoggedEvents(d)' = LoggedEvents(d) /\ Chained(d)' = Chained(d)
        BY <1>5, <1>7, WritesAreWritten
    <1>10. NamedGrows /\ Named(r)'
        BY <1>4, <1>5, <1>6, <1>7, WritesAreNamed
    <1>11. SnapshotIsWritten'
        <2>1. \A d \in Cases : AllPrefixes(disk.cases[d]) \subseteq Written(d)'
            BY <1>9, PrefixesStayWritten DEF Durable, SnapshotIsWritten
        <2> QED
            BY <1>8, <2>1 DEF SnapshotIsWritten, AllPrefixes
    <1>12. MemoryIsWritten'
        <2>1. ASSUME NEW m \in 1..Len(h)
              PROVE  SubSeq(h, 1, m) \in Written(c)'
            <3>1. CASE m <= n
                <4>1. Len(h) \in Nat /\ n \in 0..Len(h) /\ m \in 0..n
                    BY <3>1, LenProperties
                <4>2. SubSeq(SubSeq(h, 1, n), 1, m) = SubSeq(h, 1, m) /\ Len(SubSeq(h, 1, n)) = n
                    BY <4>1, PrefixOfPrefix, PrefixType
                <4>3. SubSeq(h, 1, m) \in AllPrefixes(SubSeq(h, 1, n))
                    BY <3>1, <4>1, <4>2 DEF AllPrefixes
                <4>4. AllPrefixes(memory.cases[c]) \subseteq Written(c)
                    BY DEF Durable, MemoryIsWritten
                <4> QED
                    BY <1>6, <1>9, <4>3, <4>4 DEF WrittenGrows
            <3>2. CASE m > n
                <4>1. m \in (n + 1)..(n + k)
                    BY <1>4, <3>2
                <4> QED
                    BY <1>9, <4>1
            <3> QED
                BY <3>1, <3>2
        <2>2. AllPrefixes(h) \subseteq Written(c)'
            BY <2>1 DEF AllPrefixes
        <2>3. ASSUME NEW d \in Cases \ {c}
              PROVE  AllPrefixes(memory.cases[d]) \subseteq Written(d)'
            BY <1>9, PrefixesStayWritten DEF Durable, MemoryIsWritten
        <2>4. /\ AllPrefixes(memory.cases[c])' = AllPrefixes(h)
              /\ \A d \in Cases \ {c} : AllPrefixes(memory.cases[d])' = AllPrefixes(memory.cases[d])
            BY <1>8 DEF AllPrefixes
        <2> QED
            BY <2>2, <2>3, <2>4 DEF MemoryIsWritten
    <1>13. LossesAreCounted'
        <2>1. errors \in Nat /\ errors' >= errors /\ errors' \in Nat /\ torn \in BOOLEAN
            BY <1>1, StoreAssumptions DEF Durable, TypeOK, StoreAssumptions
        <2>2. LossesAreCounted
            BY DEF Durable
        <2> QED
            BY <1>4, <2>1, <2>2, WritesLoseTwo
    <1>14. Rising'
        BY <1>5, <1>7, WritesRise
    <1>15. AllOneBehind'
        <2>1. OneBehind(c, SubSeq(h, 1, n))' /\ OneBehind(c, h)'
            BY <1>4, <1>5, <1>6, <1>7, WritesOneBehind
        <2>2. OneBehind(c, <<>>)'
            BY DEF OneBehind
        <2>5. OneBehind(c, disk.cases[c])'
            <3>1. CASE disk.cases[c] = SubSeq(h, 1, n)
                BY <1>8, <2>1, <3>1 DEF OneBehind, OneAhead
            <3>2. CASE disk.cases[c] = <<>>
                BY <1>8, <2>2, <3>2 DEF OneBehind, OneAhead
            <3> QED
                BY <1>6, <3>1, <3>2
        <2>6. OneBehind(c, memory.cases[c])'
            BY <1>8, <2>1 DEF OneBehind, OneAhead
        <2>3. OneBehind(c, disk.cases[c])' /\ OneBehind(c, memory.cases[c])'
            BY <2>5, <2>6
        <2>4. ASSUME NEW d \in Cases \ {c}
              PROVE  OneBehind(d, disk.cases[d])' /\ OneBehind(d, memory.cases[d])'
            <3>1. PICK f, g : f = disk.cases[d] /\ g = memory.cases[d]
                OBVIOUS
            <3>2. OneBehind(d, f) /\ OneBehind(d, g)
                BY <3>1 DEF Durable, AllOneBehind
            <3>3. OneBehind(d, f)' /\ OneBehind(d, g)'
                BY <1>5, <1>9, <3>2, OthersStayBehind DEF Reaches
            <3> QED
                BY <1>8, <3>1, <3>3 DEF OneBehind, OneAhead
        <2> QED
            BY <2>3, <2>4 DEF AllOneBehind
    <1>16. KeptAreNamed'
        <2>1. ASSUME NEW q \in Requests \ Checks, Kept(q)'
              PROVE  Named(q)'
            <3>1. CASE q = r
                BY <1>10, <3>1
            <3>2. CASE q # r
                <4>1. Kept(q)
                    BY <1>8, <2>1, <3>2 DEF Kept
                <4> QED
                    BY <1>10, <4>1 DEF Durable, KeptAreNamed, NamedGrows
            <3> QED
                BY <3>1, <3>2
        <2> QED
            BY <2>1 DEF KeptAreNamed
    <1> QED
        BY <1>11, <1>12, <1>13, <1>14, <1>15, <1>16 DEF Sound

\* A command's lines, when the append fails behind some of them.
LEMMA FailAppendKeeps ==
    ASSUME Durable, TypeOK', FailAppend
    PROVE  Sound'
    <1>1. At("LOG") /\ op' = NoOp /\ UNCHANGED <<disk, memory, process, named, kills, replies>>
        BY FailAppendWrites DEF Durable
    <1>2. PICK c \in Cases, h \in Seq(Requests), r \in Requests \ Checks :
              \E n \in 0..(Len(h) - 1) : Writing(c, h, n, r)
        BY <1>1, WritingAtLog DEF Durable
    <1>3. PICK n \in 0..(Len(h) - 1) : Writing(c, h, n, r)
        BY <1>2
    <1>4. PICK k \in 0..Len(op.events), cut \in BOOLEAN :
              WriteLines(k, cut) /\ (cut => errors' = errors + 1)
        BY FailAppendWrites DEF Durable
    <1>5. PICK s \in 0..1 : Reaches(c, h, n, k, s)
        BY <1>1, <1>3, <1>4, WriteReaches DEF Durable
    <1>6. /\ memory.cases[c] = SubSeq(h, 1, n)
          /\ disk.cases[c] = SubSeq(h, 1, n) \/ disk.cases[c] = <<>>
          /\ OneBehind(c, SubSeq(h, 1, n))
          /\ \A i \in (n + 1)..Len(h) : h[i] = r
          /\ h[n + 1] = r
        BY <1>1, <1>3, BaseAtLog
    <1>7. log \in Seq(Line) /\ Rising /\ k \in Nat
        BY <1>1, LinesOfCommand DEF Durable, TypeOK
    <1>9. /\ WrittenGrows
          /\ \A d \in Cases \ {c} : LoggedEvents(d)' = LoggedEvents(d) /\ Chained(d)' = Chained(d)
        BY <1>5, <1>7, WritesAreWritten
    <1>10. NamedGrows
        BY <1>5, <1>6, <1>7, WritesAreNamed
    <1>11. SnapshotIsWritten' /\ MemoryIsWritten'
        <2>1. \A d \in Cases : /\ AllPrefixes(disk.cases[d]) \subseteq Written(d)'
                               /\ AllPrefixes(memory.cases[d]) \subseteq Written(d)'
            BY <1>9, PrefixesStayWritten DEF Durable, SnapshotIsWritten, MemoryIsWritten
        <2> QED
            BY <1>1, <2>1 DEF SnapshotIsWritten, MemoryIsWritten, AllPrefixes
    <1>13. LossesAreCounted'
        <2>1. errors \in Nat /\ errors' \in Nat /\ errors' >= errors
            BY FailAppendWrites, StoreAssumptions DEF Durable, TypeOK, StoreAssumptions
        <2> QED
            BY <1>4, <1>7, <2>1, WritesLoseTwo DEF Durable, TypeOK
    <1>14. Rising'
        BY <1>5, <1>7, WritesRise
    <1>15. AllOneBehind'
        <2>1. OneBehind(c, SubSeq(h, 1, n))'
            BY <1>5, <1>6, <1>7, WritesOneBehind
        <2>2. OneBehind(c, <<>>)'
            BY DEF OneBehind
        <2>3. OneBehind(c, disk.cases[c])' /\ OneBehind(c, memory.cases[c])'
            BY <1>1, <1>6, <2>1, <2>2 DEF OneBehind, OneAhead
        <2>4. ASSUME NEW d \in Cases \ {c}
              PROVE  OneBehind(d, disk.cases[d])' /\ OneBehind(d, memory.cases[d])'
            <3>1. PICK f, g : f = disk.cases[d] /\ g = memory.cases[d]
                OBVIOUS
            <3>2. OneBehind(d, f) /\ OneBehind(d, g)
                BY <3>1 DEF Durable, AllOneBehind
            <3>3. OneBehind(d, f)' /\ OneBehind(d, g)'
                BY <1>5, <1>9, <3>2, OthersStayBehind DEF Reaches
            <3> QED
                BY <1>1, <3>1, <3>3 DEF OneBehind, OneAhead
        <2> QED
            BY <2>3, <2>4 DEF AllOneBehind
    <1>16. KeptAreNamed'
        <2>1. \A q \in Requests : Kept(q)' => Kept(q)
            BY <1>1 DEF Kept, NoOp, AfterLog
        <2> QED
            BY <1>10, <2>1 DEF Durable, KeptAreNamed, NamedGrows
    <1> QED
        BY <1>11, <1>13, <1>14, <1>15, <1>16 DEF Sound

\* A creation that is not logged is lost, and its case goes on.
LEMMA LoseCreationKeeps ==
    ASSUME Durable, TypeOK', LoseCreation
    PROVE  Sound'
    <1>1. At("LOG") /\ log' = log /\ disk' = disk /\ replies' = replies /\ errors' = errors + 1
        BY DEF LoseCreation, Fail
    <1>2. PICK c \in Cases, h \in Seq(Requests), r \in Requests \ Checks :
              \E n \in 0..(Len(h) - 1) : Writing(c, h, n, r)
        BY <1>1, WritingAtLog DEF Durable
    <1>3. PICK n \in 0..(Len(h) - 1) : Writing(c, h, n, r)
        BY <1>2
    <1>4. PICK l \in Line : l = op.events[1]
        BY <1>1, LinesOfCommand DEF Durable
    <1>5. ChangeUnderWay /\ r \in Creates
        BY <1>1, <1>3, LinesOfCommand DEF Durable, LoseCreation, Writing
    <1>6. n = 0 /\ Len(h) = 1
        <2>1. op.case = h /\ op.request = r
            BY <1>3 DEF Writing
        <2>2. Len(h) = 1
            BY <1>5, <2>1 DEF ChangeUnderWay
        <2> QED
            BY <2>2
    <1>7. l.case = c /\ l.event = h /\ l.event[Len(l.event)] = r
        <2>1. l.case = c /\ l.event = SubSeq(h, 1, 1) /\ l.event[Len(l.event)] = r
            BY <1>1, <1>3, <1>4, <1>6, LinesOfCommand DEF Durable, Writing
        <2> QED
            BY <1>6, <2>1, WholeIsPrefix
    <1>8. lost' = lost \cup {l} /\ torn' \in BOOLEAN
        BY <1>4 DEF LoseCreation, Durable, TypeOK
    <1>9. disk \in Files /\ memory \in Memory
        BY DEF Durable, TypeOK
    <1>10. /\ memory'.cases[c] = h
           /\ \A d \in Cases \ {c} : memory'.cases[d] = memory.cases[d]
           /\ memory'.requests = memory.requests /\ memory'.results = memory.results
           /\ op'.request = r
        <2>1. op'.request = op.request
            BY WritesGoOn, GoesOnSafely DEF Durable
        <2> QED
            BY <1>3, <1>9, <2>1 DEF LoseCreation, WithCase, Memory, Writing
    <1>11. /\ \A d : LoggedEvents(d)' = LoggedEvents(d)
           /\ \A d : CaseLines(d)' = CaseLines(d)
           /\ \A d : Chained(d)' = Chained(d)
           /\ \A q : InLog(q)' = InLog(q)
        BY <1>1, LogStays
    <1>12. /\ \A d : LostEvents(d) \subseteq LostEvents(d)'
           /\ h \in LostEvents(c)'
        <2>1. h \in LostEvents(c)'
            BY <1>7, <1>8 DEF LostEvents
        <2>2. \A d : LostEvents(d) \subseteq LostEvents(d)'
            BY <1>8 DEF LostEvents
        <2> QED
            BY <2>1, <2>2
    <1>13. WrittenGrows
        BY <1>11, <1>12 DEF WrittenGrows, Written
    <1>14. NamedGrows /\ Named(r)'
        <2>1. Named(r)'
            BY <1>7, <1>8 DEF Named
        <2>2. NamedGrows
            BY <1>8, <1>11 DEF NamedGrows, Named
        <2> QED
            BY <2>1, <2>2
    <1>15. SnapshotIsWritten'
        <2>1. \A d \in Cases : AllPrefixes(disk.cases[d]) \subseteq Written(d)'
            BY <1>13, PrefixesStayWritten DEF Durable, SnapshotIsWritten
        <2> QED
            BY <1>1, <2>1 DEF SnapshotIsWritten, AllPrefixes
    <1>16. MemoryIsWritten'
        <2>1. AllPrefixes(h) = {h}
            <3>1. SubSeq(h, 1, 1) = h /\ 1..Len(h) = {1}
                BY <1>6, WholeIsPrefix
            <3> QED
                BY <3>1 DEF AllPrefixes
        <2>2. AllPrefixes(h) \subseteq Written(c)'
            BY <1>12, <2>1 DEF Written
        <2>3. ASSUME NEW d \in Cases \ {c}
              PROVE  AllPrefixes(memory.cases[d]) \subseteq Written(d)'
            BY <1>13, PrefixesStayWritten DEF Durable, MemoryIsWritten
        <2>4. /\ AllPrefixes(memory.cases[c])' = AllPrefixes(h)
              /\ \A d \in Cases \ {c} : AllPrefixes(memory.cases[d])' = AllPrefixes(memory.cases[d])
            BY <1>10 DEF AllPrefixes
        <2> QED
            BY <2>2, <2>3, <2>4 DEF MemoryIsWritten
    <1>17. LossesAreCounted'
        <2>1. IsFiniteSet(lost) /\ Cardinality(lost) \in Nat /\ errors \in Nat
            BY FS_CardinalityType, StoreAssumptions
               DEF Durable, LossesAreCounted, TypeOK, StoreAssumptions
        <2>2. /\ IsFiniteSet(lost \cup {l})
              /\ Cardinality(lost \cup {l}) = IF l \in lost THEN Cardinality(lost)
                                              ELSE Cardinality(lost) + 1
            BY <2>1, FS_AddElement
        <2>3. Cardinality(lost) <= 2 * errors
            BY <2>1 DEF Durable, LossesAreCounted
        <2>4. Cardinality(lost') <= 2 * errors + 1 /\ Cardinality(lost') \in Nat
            BY <1>8, <2>1, <2>2, <2>3
        <2> QED
            BY <1>1, <1>8, <2>1, <2>2, <2>4 DEF LossesAreCounted
    <1>18. Rising'
        BY <1>1, <1>11 DEF Durable, Rising
    <1>19. AllOneBehind'
        <2>1. \A f : OneBehind(c, f)'
            BY <1>12 DEF OneBehind
        <2>2. ASSUME NEW d \in Cases \ {c}
              PROVE  OneBehind(d, disk.cases[d])' /\ OneBehind(d, memory.cases[d])'
            <3>1. PICK f, g : f = disk.cases[d] /\ g = memory.cases[d]
                OBVIOUS
            <3>2. OneBehind(d, f) /\ OneBehind(d, g)
                BY <3>1 DEF Durable, AllOneBehind
            <3>3. OneBehind(d, f)' /\ OneBehind(d, g)'
                BY <1>8, <1>11, <3>2, OthersStayBehind
            <3> QED
                BY <1>1, <1>10, <3>1, <3>3 DEF OneBehind, OneAhead
        <2>3. OneBehind(c, disk.cases[c])' /\ OneBehind(c, memory.cases[c])'
            BY <1>12 DEF OneBehind
        <2> QED
            BY <2>2, <2>3 DEF AllOneBehind
    <1>20. KeptAreNamed'
        <2>1. ASSUME NEW q \in Requests \ Checks, Kept(q)'
              PROVE  Named(q)'
            <3>1. CASE q = r
                BY <1>14, <3>1
            <3>2. CASE q # r
                <4>1. Kept(q)
                    BY <1>1, <1>10, <2>1, <3>2 DEF Kept
                <4> QED
                    BY <1>14, <4>1 DEF Durable, KeptAreNamed, NamedGrows
            <3> QED
                BY <3>1, <3>2
        <2> QED
            BY <2>1 DEF KeptAreNamed
    <1> QED
        BY <1>15, <1>16, <1>17, <1>18, <1>19, <1>20 DEF Sound

\* Every step that writes to the log keeps what is proved of the files.
LEMMA LogStepKeeps ==
    ASSUME Durable, TypeOK', LogStep
    PROVE  Sound'
    BY AppendLogKeeps, FailAppendKeeps, LoseCreationKeeps DEF LogStep


-----------------------------------------------------------------------------
(* Theorems *)

\* The invariant holds at first.
LEMMA DurableInit == Init => Durable
    <1> SUFFICES ASSUME Init
                 PROVE  Durable
        OBVIOUS
    <1>1. TypeOK /\ CommandOK
        BY TypeInit
    <1>2. \A c \in Cases : disk.cases[c] = <<>> /\ memory.cases[c] = <<>>
        BY DEF Init, EmptyFiles, EmptyMemory, NoCases
    <1>3. SnapshotIsWritten /\ MemoryIsWritten
        BY <1>2 DEF SnapshotIsWritten, MemoryIsWritten, AllPrefixes
    <1>8. LossesAreCounted
        BY FS_EmptySet DEF Init, LossesAreCounted
    <1>4. MemoryKnows /\ AllOneBehind
        BY <1>2 DEF MemoryKnows, AllOneBehind, OneBehind
    <1>5. BaseIsCurrent
        BY DEF Init, BaseIsCurrent, BeforeLog, NoOp
    <1>6. Rising
        BY DEF Init, Rising, CaseLines
    <1>7. KeptAreNamed
        <2>1. \A r \in Requests : ~Kept(r)
            BY DEF Init, Kept, EmptyFiles, EmptyMemory, NoRequests, NoOp, AfterLog
        <2> QED
            BY <2>1 DEF KeptAreNamed
    <1> QED
        BY <1>1, <1>3, <1>4, <1>5, <1>6, <1>7, <1>8 DEF Durable

\* Every step keeps the invariant.
LEMMA DurableNext ==
    ASSUME Durable, [Next]_vars
    PROVE  Durable'
    <1>1. TypeOK' /\ CommandOK'
        BY TypeNext DEF Durable
    <1>2. MemoryKnows' /\ BaseIsCurrent'
        BY MemoryKnowsNext, BaseIsCurrentNext DEF Durable
    <1>3. CASE LogStep
        BY <1>1, <1>2, <1>3, LogStepKeeps DEF Durable, Sound
    <1>4. CASE ~LogStep
        BY <1>1, <1>2, <1>4, OthersMoveCases, MovesSafely, KeptNext DEF Durable
    <1> QED
        BY <1>3, <1>4

\* The invariant holds whatever is killed and whichever write fails, of a JSON file or
\* of events.jsonl, noticed or not.
THEOREM StoreIsDurable == Spec => []Durable
    <1>1. Init => Durable
        BY DurableInit
    <1>2. Durable /\ [Next]_vars => Durable'
        BY DurableNext
    <1> QED
        BY <1>1, <1>2, PTL DEF Spec

\* The files, the maps and the command being written have their types, and no line
\* of events.jsonl is without an event.
THEOREM TypeCorrect == Spec => []TypeOK
    <1>1. Durable => TypeOK
        BY DEF Durable
    <1> QED
        BY <1>1, StoreIsDurable, PTL

\* cases.json holds an event that events.jsonl does not have only when its line was lost,
\* and no more lines are lost than two for each write that failed.
THEOREM SnapshotFollowsLog == Spec => []SnapshotIsLogged
    <1>1. ASSUME Durable
          PROVE  SnapshotIsLogged
        <2>1. errors \in Nat /\ Cardinality(lost) \in Nat
            BY <1>1, StoreAssumptions, FS_CardinalityType
               DEF Durable, TypeOK, StoreAssumptions, LossesAreCounted
        <2>2. Cardinality(lost) <= 2 * errors
            BY <1>1, <2>1 DEF Durable, LossesAreCounted
        <2> QED
            BY <1>1, <2>2 DEF Durable, SnapshotIsWritten, Written, SnapshotIsLogged
    <1> QED
        BY <1>1, StoreIsDurable, PTL

\* A command whose success a client was told of is in events.jsonl for good, or the line
\* that names it was lost.
THEOREM AnswersAreDurable == Spec => []AnsweredIsLogged
    <1>1. ASSUME Durable
          PROVE  AnsweredIsLogged
        <2>1. \A r \in Requests \ Checks : replies[r] # {} => Named(r)
            BY <1>1 DEF Durable, KeptAreNamed, Kept
        <2>2. \A r : Named(r) => \E l \in {log[i] : i \in 1..Len(log)} \cup lost :
                                    l.event[Len(l.event)] = r
            BY DEF Named, InLog
        <2> QED
            BY <2>1, <2>2 DEF AnsweredIsLogged
    <1> QED
        BY <1>1, StoreIsDurable, PTL

\* A store that opens is behind the log of a case by the events of one command at most,
\* if the snapshot still has the case and none of its lines was lost.
THEOREM OpensNearItsLog == Spec => OpensAtMostOneCommandBehind
    <1>1. ASSUME Durable, Open, process' = "UP", NEW c \in Cases, disk.cases[c] # <<>>,
                 LostEvents(c) = {}
          PROVE  /\ disk.cases[c] \in LoggedEvents(c)
                 /\ \E r \in Requests : \A e \in LoggedEvents(c) :
                       \/ Extends(disk.cases[c], e)
                       \/ Extends(e, disk.cases[c]) /\ e[Len(e)] = r
        <2>1. Openable(disk.cases)
            BY <1>1 DEF Open
        <2>2. Chained(c)
            BY <1>1, <2>1 DEF Openable, Chained, CaseLines
        <2>3. OneAhead(c, disk.cases[c])
            BY <1>1, <2>2 DEF Durable, AllOneBehind, OneBehind
        <2>4. disk.cases[c] \in LoggedEvents(c)
            <3>1. disk.cases[c] \in Seq(Requests)
                BY <1>1 DEF Files, Durable, TypeOK
            <3>2. Len(disk.cases[c]) \in 1..Len(disk.cases[c])
                BY <1>1, <3>1, EmptySeq
            <3>3. disk.cases[c] \in AllPrefixes(disk.cases[c])
                BY <3>1, <3>2, WholeIsPrefix DEF AllPrefixes
            <3> QED
                BY <1>1, <3>3 DEF Durable, SnapshotIsWritten, Written
        <2> QED
            BY <2>3, <2>4 DEF OneAhead
    <1>2. Durable /\ [Next]_vars =>
              [Open /\ process' = "UP" =>
                  \A c \in Cases : disk.cases[c] # <<>> /\ LostEvents(c) = {} =>
                      /\ disk.cases[c] \in LoggedEvents(c)
                      /\ \E r \in Requests : \A e \in LoggedEvents(c) :
                            \/ Extends(disk.cases[c], e)
                            \/ Extends(e, disk.cases[c]) /\ e[Len(e)] = r]_vars
        BY <1>1
    <1>3. Spec => [][Next]_vars
        BY PTL DEF Spec
    <1> QED
        BY <1>2, <1>3, StoreIsDurable, PTL DEF OpensAtMostOneCommandBehind
=============================================================================
