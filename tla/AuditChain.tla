----------------------------- MODULE AuditChain -----------------------------
(***************************************************************************)
(* internal/audit: the chain of hashed events, its verification over a     *)
(* range of revisions, the sealed manifest and the selection of evidence   *)
(* from it.                                                                *)
(*                                                                         *)
(* A hash is the tuple of what it covers: no two different events share    *)
(* one, and one cannot be had without the other.  It covers the revision,  *)
(* the type, the data (with the request id) and the previous hash, but not *)
(* the time at which the event was made.                                   *)
(***************************************************************************)
EXTENDS Naturals, Sequences, FiniteSetsExt

NoHash == <<>>

Digest(e) == <<e.revision, e.type, e.data, e.prev>>

HashOfLast(events) == IF events = <<>> THEN NoHash ELSE events[Len(events)].hash

\* The events of h at the given positions, in order.
InOrder(h, positions) ==
    LET upTo[n \in 0..Len(h)] ==
            IF n = 0 THEN <<>>
            ELSE IF n \in positions THEN Append(upTo[n - 1], h[n])
            ELSE upTo[n - 1]
    IN  upTo[Len(h)]

-----------------------------------------------------------------------------
(* Evidence stages *)

EvidenceStageForEvent(type) ==
    CASE type = "CASE_CREATED"   -> "filing"
      [] type = "PLAN_SUBMITTED" -> "plan"
      [] type \in {"CONDITIONING_READING", "CONDITIONING_BATCH_RECORDED", "CONDITIONED"}
                                 -> "conditioning"
      [] type \in {"MEASUREMENTS_RECORDED", "REMEDIATION_MEASUREMENTS_RECORDED"}
                                 -> "measurement"
      [] type \in {"DISCREPANCY_DECIDED", "REVIEW_RESULT"} -> "retest"
      [] type = "RELEASE_DECISION" -> "release"
      [] type = "SEALED"           -> "seal"

-----------------------------------------------------------------------------
(* Faulty variants.  No specification uses them: each stands for a bug of   *)
(* the definition it resembles, and shows that a property notices it.       *)

EventFromZero(h, type, data, at) ==
    Append(h, [revision |-> Len(h), type |-> type, data |-> data, at |-> at,
               prev |-> HashOfLast(h), hash |-> NoHash])
BrokenLink(events, i) ==
    \/ events[i].revision # i
    \/ i > 1 /\ events[i].prev # events[i - 1].hash
EntriesMatchByHash(m, events) ==
    /\ Len(m.entries) = Len(events)
    /\ \A i \in 1..Len(events) : m.entries[i].hash = events[i].hash
SelectedAfter(entries, stage, from, to) ==
    InOrder(entries, {i \in 1..Len(entries) :
                         /\ entries[i].revision \in (from + 1)..to
                         /\ EvidenceStageForEvent(entries[i].type) = stage})
MismatchOfEntries(m, events, blamed) ==
    LET differ == {i \in 1..Len(m.entries) : i > Len(events) \/ m.entries[i] # events[i]}
    IN  IF differ = {} THEN 0 ELSE Min(differ)

-----------------------------------------------------------------------------
(* Events *)

\* The history h with one more event.
WithEvent(h, type, data, at) ==
    LET e == [revision |-> Len(h) + 1, type |-> type, data |-> data, at |-> at,
              prev |-> HashOfLast(h), hash |-> NoHash]
    IN  Append(h, [e EXCEPT !.hash = Digest(e)])

-----------------------------------------------------------------------------
(* Verification of a range *)

\* to = 0 stands for the end, which is the number of events there are.
RangeEnd(events, to) == IF to = 0 \/ to > Len(events) THEN Len(events) ELSE to

InRange(events, from, to) ==
    {i \in 1..Len(events) : events[i].revision \in from..RangeEnd(events, to)}

Broken(events, i) ==
    \/ events[i].revision # i
    \/ i > 1 /\ events[i].prev # events[i - 1].hash
    \/ events[i].hash # Digest(events[i])

\* An event whose revision is outside the range is passed over, wherever it stands.
VerifyEventRange(events, from, to) ==
    LET range  == InRange(events, from, to)
        broken == {i \in range : Broken(events, i)}
        none   == [verified |-> TRUE, blamed |-> 0, prev |-> NoHash, first |-> NoHash,
                   last |-> NoHash]
    IN  IF broken # {} THEN [none EXCEPT !.verified = FALSE, !.blamed = events[Min(broken)].revision]
        ELSE IF range = {} THEN none
        ELSE [none EXCEPT !.prev  = events[Min(range)].prev,
                          !.first = events[Min(range)].hash,
                          !.last  = events[Max(range)].hash]

-----------------------------------------------------------------------------
(* The manifest *)

\* The manifest of events sealed by somebody: sum is the hash of the entries, id the
\* manifest's own name with that of its case.
Build(events, by) ==
    [id |-> "MANIFEST", by |-> by, entries |-> events, sum |-> events,
     root |-> HashOfLast(events), revision |-> Len(events), verified |-> TRUE]

\* An entry holds every field of its event, the time too.
EntriesMatch(m, events) == m.entries = events

\* Neither the names nor the sealer are looked at.
VerifyManifest(m, events, caseRevision) ==
    /\ m.sum = m.entries
    /\ EntriesMatch(m, events)
    /\ m.root = HashOfLast(events)
    /\ caseRevision = m.revision /\ Len(events) = m.revision
    /\ m.verified
    /\ VerifyEventRange(events, 1, 0).verified

\* The revision to blame when a manifest does not verify; 0 when entries and events
\* agree and the damage is elsewhere in the manifest.
FirstMismatch(m, events, blamed) ==
    LET common == Min({Len(m.entries), Len(events)})
        differ == {i \in 1..common : m.entries[i] # events[i]}
    IN  IF blamed > 0 THEN blamed
        ELSE IF differ # {} THEN events[Min(differ)].revision
        ELSE IF Len(m.entries) # Len(events) THEN common + 1
        ELSE 0

\* The entries of a stage in a range.
Selected(entries, stage, from, to) ==
    InOrder(entries, {i \in 1..Len(entries) :
                         /\ entries[i].revision \in from..to
                         /\ EvidenceStageForEvent(entries[i].type) = stage})
=============================================================================
