----------------------------- MODULE CaseQueries -----------------------------
(***************************************************************************)
(* The queries of internal/application/queries.go and the GET handlers on  *)
(* one case, while commands run and while its files may be damaged.        *)
(*                                                                         *)
(* A query enters the store once for every thing it reads; each visit      *)
(* takes the store's mutex for itself, so commands come between them.  A   *)
(* command changes cases.json and events.jsonl in one visit (PutEvents), a *)
(* seal in two: SaveManifest, then PutEvents, the service's mutex held     *)
(* throughout.                                                             *)
(*                                                                         *)
(* Queries re-read the files so as to notice when somebody or something    *)
(* changed them while the service runs (store.go:133).  At most one line   *)
(* of the log or one part of the manifest is damaged, or one line is left  *)
(* behind by a change that failed.  A command makes one event.  Paging,    *)
(* filters by type and request and the listing's counts are left out.      *)
(***************************************************************************)
EXTENDS AuditChain

CONSTANTS
    Types,         \* event types of the commands between creation and seal
    Values,        \* what may be measured
    Stages,        \* the evidence stages asked for
    MaxRevision    \* bound on the events of the case

\* Nothing but the seal is called SEALED, and no measurement is what damage leaves.
ASSUME QueryAssumptions ==
    /\ "SEALED" \notin Types
    /\ "ALTERED" \notin Values
    /\ MaxRevision \in Nat /\ MaxRevision > 1

VARIABLES
    case,      \* the case in cases.json
    log,       \* its lines in events.jsonl
    manifest,  \* its manifest in manifests.json
    sealing,   \* the sealed case between SaveManifest and PutEvents
    damage,    \* what was done to the files
    query      \* the query being answered

vars == <<case, log, manifest, sealing, damage, query>>

Measuring == {"MEASUREMENTS_RECORDED", "REMEDIATION_MEASUREMENTS_RECORDED"}
AllTypes == Types \cup {"CASE_CREATED", "SEALED"}
Data == Values \cup {"OTHER", "ALTERED"}

NoManifest == Build(<<>>, "")
SealOf(h) == Build(h, "SEALER")
NoDamage == [of |-> "NOTHING", at |-> 0]
Beyond == MaxRevision + 1

Sealed(h) == h # <<>> /\ h[Len(h)].type = "SEALED"

NoAnswer == [outcome |-> "", id |-> "", by |-> "", revision |-> 0, bound |-> 0, blamed |-> 0,
             shows |-> <<>>, prev |-> NoHash, last |-> NoHash]
Idle == [kind |-> "NONE", step |-> "IDLE", stage |-> "", from |-> 0, to |-> 0,
         seen |-> <<>>, manifest |-> NoManifest, answer |-> NoAnswer]

-----------------------------------------------------------------------------
(* Faulty variants.  No specification uses them: each stands for a bug of   *)
(* the definition it resembles, and shows that a property notices it.       *)

SameMomentUnchecked(seen, events) == TRUE
ManifestThatIsThere == IF manifest = NoManifest THEN SealOf(sealing') ELSE manifest

-----------------------------------------------------------------------------
(* Commands *)

Init ==
    /\ case = WithEvent(<<>>, "CASE_CREATED", "OTHER", "TIME")
    /\ log = case
    /\ manifest = NoManifest
    /\ sealing = <<>>
    /\ damage = NoDamage
    /\ query = Idle

\* Store.PutEvents: the log and the case.
PutEvents(h) ==
    /\ case' = h
    /\ log' = Append(log, h[Len(h)])

\* PutEvents fails behind its line: the line cannot be synced, or cases.json not written.
\* (A line that is cut short takes the next with it, which is the loss of that one; a
\* failure behind cases.json leaves the change made.)
StrayLine(h) ==
    /\ damage = NoDamage
    /\ log' = Append(log, h[Len(h)])
    /\ damage' = [of |-> "STRAY", at |-> Len(log) + 1]

CanRecord(type, data) ==
    /\ sealing = <<>> /\ ~Sealed(case) /\ Len(case) < MaxRevision - 1
    /\ type \in Measuring <=> data # "OTHER"

Record(type, data) ==
    /\ CanRecord(type, data)
    /\ PutEvents(WithEvent(case, type, data, "TIME"))
    /\ UNCHANGED <<manifest, sealing, damage, query>>

FailToRecord(type, data) ==
    /\ CanRecord(type, data)
    /\ StrayLine(WithEvent(case, type, data, "TIME"))
    /\ UNCHANGED <<case, manifest, sealing, query>>

\* The lines of the case; the memory of the process when the file has none.
Events == IF log = <<>> THEN case ELSE log

SavedManifest == SealOf(sealing')

\* A manifest that cannot be written is none, or what FailToSeal leaves.
SaveManifest ==
    /\ sealing = <<>> /\ ~Sealed(case) /\ Len(case) > 1
    /\ VerifyEventRange(Events, 1, 0).verified
    /\ sealing' = WithEvent(case, "SEALED", "OTHER", "TIME")
    /\ manifest' = SavedManifest
    /\ UNCHANGED <<case, log, damage, query>>

PutSealed ==
    /\ sealing # <<>>
    /\ PutEvents(sealing)
    /\ sealing' = <<>>
    /\ UNCHANGED <<manifest, damage, query>>

\* PutEvents fails, before its line or behind it: the manifest of a seal that did not happen.
FailToSeal ==
    /\ sealing # <<>>
    /\ sealing' = <<>>
    /\ StrayLine(sealing) \/ UNCHANGED <<log, damage>>
    /\ UNCHANGED <<case, manifest, query>>

-----------------------------------------------------------------------------
(* Damage *)

WithoutLine(i) == SubSeq(log, 1, i - 1) \o SubSeq(log, i + 1, Len(log))
WithLineTwice(i) == SubSeq(log, 1, i) \o SubSeq(log, i, Len(log))

DamageLine(i) ==
    /\ damage = NoDamage
    /\ log' \in {WithoutLine(i), WithLineTwice(i),
                 [log EXCEPT ![i].data = "ALTERED"],
                 [log EXCEPT ![i].at = "ALTERED"],
                 [log EXCEPT ![i].revision = Beyond]}
    /\ damage' = [of |-> "LINE", at |-> i]
    /\ UNCHANGED <<case, manifest, sealing, query>>

DamageEntry(i) ==
    /\ damage = NoDamage
    /\ manifest' \in {[manifest EXCEPT !.entries[i].data = "ALTERED"],
                      [manifest EXCEPT !.entries[i].at = "ALTERED"]}
    /\ damage' = [of |-> "ENTRY", at |-> i]
    /\ UNCHANGED <<case, log, sealing, query>>

DamageManifest ==
    /\ damage = NoDamage /\ manifest # NoManifest
    /\ manifest' \in {[manifest EXCEPT !.id = "ALTERED"], [manifest EXCEPT !.by = "ALTERED"],
                      [manifest EXCEPT !.sum = <<>>], [manifest EXCEPT !.root = NoHash],
                      [manifest EXCEPT !.revision = Beyond],
                      [manifest EXCEPT !.verified = FALSE], NoManifest}
    /\ damage' = [of |-> "MANIFEST", at |-> 0]
    /\ UNCHANGED <<case, log, sealing, query>>

-----------------------------------------------------------------------------
(* Queries *)

Ask(q) ==
    /\ query.step = "IDLE"
    /\ query' = q
    /\ UNCHANGED <<case, log, manifest, sealing, damage>>

AskAbout(kind) == Ask([Idle EXCEPT !.kind = kind, !.step = "CASE"])

AskAudit(from, to) ==
    /\ to = 0 \/ from <= to
    /\ Ask([Idle EXCEPT !.kind = "AUDIT", !.step = "EVENTS", !.from = from, !.to = to])

\* The handler replaces an absent to_revision by the revision it reads itself, and the
\* query looks at the range again.
AskCredential(stage, from, to) ==
    LET until == IF to = 0 THEN Len(case) ELSE to
    IN  /\ from <= until
        /\ Ask([Idle EXCEPT !.kind = "CREDENTIAL", !.step = "CASE", !.stage = stage,
                            !.from = from, !.to = until])

\* seen is now what the answer was computed from, for the properties.
AnswerFrom(events, answer) ==
    query' = [query EXCEPT !.step = "DONE", !.seen = events, !.manifest = NoManifest,
                           !.answer = answer]
Answer(answer) == AnswerFrom(<<>>, answer)
Refuse(why) == Answer([NoAnswer EXCEPT !.outcome = why])

ReadCase ==
    /\ query.step = "CASE"
    /\ \/ /\ query.kind = "REPORT"
          /\ query' = [query EXCEPT !.step = "EVENTS", !.seen = case]
       \/ /\ query.kind # "REPORT" /\ ~Sealed(case)
          /\ Refuse("UNSEALED")
       \/ /\ query.kind = "CREDENTIAL" /\ Sealed(case) /\ query.to > Len(case)
          /\ Refuse("RANGE")
       \/ /\ query.kind # "REPORT" /\ Sealed(case)
          /\ query.kind = "CREDENTIAL" => query.to <= Len(case)
          /\ query' = [query EXCEPT !.step = "MANIFEST", !.seen = case]
    /\ UNCHANGED <<case, log, manifest, sealing, damage>>

\* The detail of a sealed case takes the service's mutex, and builds a manifest
\* when there is none; the listing does neither.
Shown(m) == [NoAnswer EXCEPT !.outcome = "OK", !.id = m.id, !.revision = Len(query.seen),
                             !.last = m.root]

ReadManifest ==
    /\ query.step = "MANIFEST"
    /\ query.kind = "DETAIL" => sealing = <<>>
    /\ \/ /\ query.kind = "DETAIL"
          /\ Answer(Shown(IF manifest = NoManifest THEN Build(case, "") ELSE manifest))
       \/ /\ query.kind # "DETAIL" /\ manifest = NoManifest
          /\ Refuse("MISSING")
       \/ /\ query.kind = "LIST" /\ manifest # NoManifest
          /\ Answer(Shown(manifest))
       \/ /\ query.kind \in {"MANIFEST", "CREDENTIAL"} /\ manifest # NoManifest
          /\ query' = [query EXCEPT !.step = "EVENTS", !.manifest = manifest]
    /\ UNCHANGED <<case, log, manifest, sealing, damage>>

\* The position of the last measurement, 0 when there is none.
LatestMeasurement(events) ==
    Max({i \in 1..Len(events) : events[i].type \in Measuring} \cup {0})

SameMoment(seen, events) == Len(seen) = Len(events)

\* The measurements of a case are those of its latest measurement event.
MeasurementReport(seen, events) ==
    LET latest == LatestMeasurement(events)
        own    == LatestMeasurement(seen)
        bound  == [NoAnswer EXCEPT !.revision = Len(seen), !.bound = events[latest].revision,
                                   !.shows = <<events[latest]>>]
    IN  IF latest = 0 THEN [NoAnswer EXCEPT !.outcome = "MISSING"]
        ELSE IF \/ ~VerifyEventRange(events, 1, 0).verified
                \/ ~SameMoment(seen, events)
                \/ own = 0 \/ seen[own].data # events[latest].data
        THEN [bound EXCEPT !.outcome = "UNVERIFIED"]
        ELSE [bound EXCEPT !.outcome = "OK"]

ManifestPage(m, seen, events) ==
    [NoAnswer EXCEPT !.outcome  = IF VerifyManifest(m, events, Len(seen)) THEN "OK" ELSE "UNVERIFIED",
                     !.id = m.id, !.by = m.by,
                     !.revision = m.revision, !.shows = m.entries, !.last = m.root]

EvidenceCredential(m, seen, events) ==
    LET chosen == Selected(m.entries, query.stage, query.from, query.to)
    IN  IF ~VerifyManifest(m, events, Len(seen))
        THEN [NoAnswer EXCEPT !.outcome = "UNVERIFIED",
                              !.blamed  = FirstMismatch(m, events, VerifyEventRange(events, 1, 0).blamed)]
        ELSE IF chosen = <<>> THEN [NoAnswer EXCEPT !.outcome = "NOTHING"]
        ELSE [NoAnswer EXCEPT !.outcome = "OK", !.revision = m.revision, !.shows = chosen,
                              !.last = m.root]

\* The events shown go to the end of the file when no end was given; those verified
\* go to the number of events.
Audit(events) ==
    LET report == VerifyEventRange(events, query.from, query.to)
    IN  [NoAnswer EXCEPT
            !.outcome = IF report.verified THEN "OK" ELSE "UNVERIFIED",
            !.blamed  = report.blamed,
            !.prev    = report.prev,
            !.last    = report.last,
            !.shows   = InOrder(events, {i \in 1..Len(events) :
                                            /\ events[i].revision >= query.from
                                            /\ query.to = 0 \/ events[i].revision <= query.to})]

ReadEvents ==
    /\ query.step = "EVENTS"
    /\ AnswerFrom(Events,
              CASE query.kind = "REPORT"     -> MeasurementReport(query.seen, Events)
                [] query.kind = "MANIFEST"   -> ManifestPage(query.manifest, query.seen, Events)
                [] query.kind = "CREDENTIAL" -> EvidenceCredential(query.manifest, query.seen, Events)
                [] query.kind = "AUDIT"      -> Audit(Events))
    /\ UNCHANGED <<case, log, manifest, sealing, damage>>

Close ==
    /\ query.step = "DONE"
    /\ query' = Idle
    /\ UNCHANGED <<case, log, manifest, sealing, damage>>

Next ==
    \/ \E type \in Types, data \in Values \cup {"OTHER"} :
          Record(type, data) \/ FailToRecord(type, data)
    \/ SaveManifest \/ PutSealed \/ FailToSeal
    \/ \E i \in 1..Len(log) : DamageLine(i)
    \/ \E i \in 1..Len(manifest.entries) : DamageEntry(i)
    \/ DamageManifest
    \/ \E kind \in {"REPORT", "MANIFEST", "DETAIL", "LIST"} : AskAbout(kind)
    \/ \E from \in 1..MaxRevision, to \in 0..MaxRevision :
          \/ AskAudit(from, to)
          \/ \E stage \in Stages : AskCredential(stage, from, to)
    \/ ReadCase \/ ReadManifest \/ ReadEvents \/ Close

Spec == Init /\ [][Next]_vars

-----------------------------------------------------------------------------
(* Properties *)

Answered(kinds, outcome) ==
    query.step = "DONE" /\ query.kind \in kinds /\ query.answer.outcome = outcome

Undamaged == damage = NoDamage

\* The case is its history, the log its lines, the query one of the six.
TypeOK ==
    /\ \A h \in {case, log, sealing, manifest.entries, query.seen, query.answer.shows} :
          \A i \in 1..Len(h) :
              /\ h[i].revision \in 1..Beyond /\ h[i].type \in AllTypes
              /\ h[i].data \in Data /\ h[i].at \in {"TIME", "ALTERED"}
    /\ damage.of \in {"NOTHING", "LINE", "STRAY", "ENTRY", "MANIFEST"}
    /\ query.kind \in {"NONE", "REPORT", "MANIFEST", "CREDENTIAL", "AUDIT", "DETAIL", "LIST"}
    /\ query.step \in {"IDLE", "CASE", "MANIFEST", "EVENTS", "DONE"}
    /\ query.answer.outcome \in {"", "OK", "UNSEALED", "RANGE", "MISSING", "UNVERIFIED", "NOTHING"}

\* A measurement report that is not refused is about one moment, though it reads the
\* case and the events at two: the event it binds is the latest measurement of the
\* case at the revision it states.
ReportIsOfOneMoment ==
    Answered({"REPORT"}, "OK") /\ Undamaged =>
        query.answer.bound = LatestMeasurement(SubSeq(case, 1, query.answer.revision))

\* README.md:25, verification bound to the final state: a manifest verifies, and a
\* credential is given, only when the log that was read, and the entries, the revision
\* and the root of the manifest, are the case exactly as it was sealed, whatever was
\* damaged, and whenever.  Nothing is said of the sealer and the names, which no
\* verification looks at (VerifiedNamesTheSealer).
VerifiedMeansAsSealed ==
    Answered({"MANIFEST", "CREDENTIAL"}, "OK") =>
        /\ Sealed(case)
        /\ query.answer.revision = Len(case)
        /\ query.answer.last = HashOfLast(case)
        /\ query.seen = case
        /\ query.kind = "MANIFEST" => query.answer.shows = case

\* A credential lists all events of its stage in its range, once and in order.
CredentialIsComplete ==
    Answered({"CREDENTIAL"}, "OK") =>
        LET belongs == {i \in 1..Len(case) : /\ EvidenceStageForEvent(case[i].type) = query.stage
                                             /\ query.from <= i /\ i <= query.to}
            shows   == query.answer.shows
        IN  /\ {shows[i] : i \in 1..Len(shows)} = {case[i] : i \in belongs}
            /\ Len(shows) = Cardinality(belongs)
            /\ \A i, j \in 1..Len(shows) : i < j => shows[i].revision < shows[j].revision

\* Files that nobody touched, and where no failed change left a line, raise no alarm,
\* whatever commands run between the reads of a query and however often a seal failed
\* behind its manifest: a sealed case has its manifest, it verifies, and what is shown
\* of it is the seal's.  Only a report is refused, and only when the case it read had
\* grown by the time it read the events.
NoFalseAlarm ==
    Undamaged =>
        /\ Answered({"REPORT"}, "UNVERIFIED") => Len(query.seen) > query.answer.revision
        /\ ~Answered({"MANIFEST", "CREDENTIAL", "AUDIT"}, "UNVERIFIED")
        /\ ~Answered({"MANIFEST", "CREDENTIAL", "DETAIL", "LIST"}, "MISSING")
        /\ Answered({"DETAIL", "LIST"}, "OK") => query.answer.last = HashOfLast(case)

\* A credential that is refused blames the revision the log shows at the damaged
\* place (the one after it when that line is lost, its own when a failed change left
\* the line), or none when the damage is in neither a line nor an entry.
BlameIsAtTheDamage ==
    Answered({"CREDENTIAL"}, "UNVERIFIED") =>
        query.answer.blamed =
            IF damage.at = 0 THEN 0
            ELSE IF damage.at > Len(log) THEN damage.at
            ELSE log[damage.at].revision

\* README.md:26, a page and the proof of its range: an audit that verifies and has as
\* many events as its range has revisions shows the events of the case in all but
\* their time, which no hash covers (events.go:11), and its end hashes are theirs;
\* unless a failed change left a line, which is shown like any other.
FullRangeIsProven ==
    Answered({"AUDIT"}, "OK") /\ damage.of # "STRAY" /\ query.to > 0
        /\ query.answer.last # NoHash
        /\ Len(query.answer.shows) = query.to - query.from + 1 =>
            /\ \A i \in query.from..query.to :
                  [query.answer.shows[i - query.from + 1] EXCEPT !.at = case[i].at] = case[i]
            /\ query.answer.last = case[query.to].hash
            /\ query.answer.prev = case[query.from].prev

\* README.md:26, the first and last hash of the range prove the page: in an audit that
\* verifies they are the hashes of the first and the last event shown.
ProofCoversThePage ==
    Answered({"AUDIT"}, "OK") /\ query.answer.shows # <<>> =>
        LET shows == query.answer.shows
        IN  query.answer.prev = shows[1].prev /\ query.answer.last = HashOfLast(shows)

\* store.go:133, a read of the stored copy finds tampering while the service runs: a
\* manifest that verifies names the person who sealed the case, and is called what the
\* seal called it.  Not so in the code, which checks neither: no run claims it.
VerifiedNamesTheSealer ==
    Answered({"MANIFEST"}, "OK") => query.answer.by = "SEALER" /\ query.answer.id = "MANIFEST"
=============================================================================
