# A verification of the paper release desk

This directory models and verifies the service in `src/`: an HTTP service for a
restoration laboratory that takes a candidate repair paper ("qualification
case") from registration through a judgement plan, conditioning, two blind
groups of measurements, review of the differences, release and sealing, and
keeps an auditable event log of it.

The models are TLA+ modules checked by TLC on small instances; the theorems in
the `...Proofs` modules are checked by TLAPS for every value of the constants.
`PROJECT.json` is the index: components, runs, mutants, the source lines each
definition stands for, findings, hazards and theorems.

## 1. Inventory

| component | source | state it keeps | operations |
|---|---|---|---|
| qualification case | `internal/domain/types.go`, `remediation.go`, parts of `reports.go` | status, duties, plan, readings, measurements, discrepancies, remediation rounds, events; revision = number of events | NewCase, SubmitPlan, AddConditioning, ConfirmConditioningWindow, AddMeasurements, DecideDiscrepancy, Release, ReplaceMeasurements, Seal; reports computed from it |
| conditioning timeline | `domain/conditioning_batch.go`, `reports.go:187-251` | the readings sorted by time | BuildConditioningSummary, PreviewConditioningBatch, AddConditioningBatch |
| command service | `application/service.go` | one mutex; nothing else that matters (`manifests` is a write-only copy) | Create, mutate (used by all commands), Seal, the two validate-only commands, Manifest |
| queries | `application/queries.go` | none | ListCases, MeasurementReport, DiscrepancyProgress, ReleasePreview, EvidenceCredential, ManifestPage, Audit |
| event store | `store/store.go` | in memory: cases, requests, request hashes, request results, events, manifests, validations; on disk: `events.jsonl` and five JSON files | Open, Create, PutEvents, SaveManifest, SaveValidation, Get, All, Events, Manifest, Request, Validation |
| audit | `internal/audit/*.go` | none (pure functions) | Build, VerifyEventRange, VerifyManifest, SelectEvidence |
| HTTP layer | `internal/httpapi/*.go`, `cmd/server/main.go` | none | decoding, routing, status codes, listen address, self-check |

### How they interact

A POST handler decodes its body and calls one command of the service. The
service takes its mutex, looks the request id up among the stored results
(a known id with the same payload hash returns the stored result, another hash
is a conflict), fetches a **clone** of the case from the store, compares the
expected revision, refuses a sealed case, lets the domain method change the
clone, and hands the clone and its new events to the store. The store appends
the events to `events.jsonl` and syncs it, then rewrites `cases.json`, then
`requests.json`, then `request_results.json`. A refused command leaves the
clone to the garbage collector. Queries go to the store directly, without the
service's mutex; each store call takes the store's own mutex, and `Get` and
`All` re-read `cases.json`, `Events` re-reads `events.jsonl`, `Manifest`
re-reads `manifests.json`.

### What is hard about it

- **Long histories.** A case can fail its review and be refused any number of
  times; decisions, rounds and revisions of earlier measurements stay in it.
  Guards look at fragments of this (`len(Discrepancies)`, the last round, the
  last measurement event), and whether they fit together shows only after
  several commands of several people.
- **Revisions computed ahead.** A refusal and a replacement write the revision
  of an event that is appended later in the same command.
- **Three routes to one state.** Conditioning is confirmed by a single reading,
  a batch, or a request of its own that names a window.
- **Five files, no transaction.** A command writes the log and three JSON files,
  a seal four, in place, one after the other. `main` installs no signal handler:
  every stop is a kill.
- **Writes that fail.** A JSON file can be left cut or old while the memory has the
  new contents; an append to the log can end in the middle of a line, which then
  swallows the next; `Create` does not look at the errors of the log, of `cases.json`
  and of `requests.json`.
- **Copies of a request.** A client whose connection broke sends its command again;
  both copies, and other clients' commands, meet at the service's mutex in any order.
- **Queries beside commands.** Queries take the store's mutex once per read and,
  but for the detail of a sealed case, the service's mutex never, so commands run
  between the reads of one query, and between the two visits of a seal.
- **Files that change.** Queries re-read the files so that verification notices
  a change made while the service runs.

### What makes each component correct

| component | properties |
|---|---|
| qualification case | releases rest on clear evidence, each disagreement is decided once, duties are separate over the whole history, remediation links are right, log and status tell the same story, the case implements the release gate |
| conditioning timeline | the summary's windows are the maximal covered runs, what is confirmed is one of them and long enough, an accepted batch leaves one window, a refused one is told the right item |
| event store | log and snapshot agree, a request has one answer, a sealed case its manifest, what was answered is logged, the store opens again |
| command service | a command takes effect at most once, where its client saw the case; answers tell the truth, a refusal is final, a check changes nothing; whoever asks is answered |
| queries | a report is about one moment; untouched files raise no alarm |
| audit | what verifies is the case as it was sealed, what does not blames the damaged place, a credential is complete |

## 2. Plan

1. `QualificationCase`, `ReleaseGate`, `QualificationCaseProofs` (done): the
   aggregate, what it promises, and the proofs.
2. `EventStore` (done): files, kills, restarts, failing writes.
3. `ConditioningTimeline` (done): the readings behind `exposure`.
4. `RequestLedger`, `CommandService` (done): what clients may rely on, and the
   service that implements it with mutexes, retries and several clients.
5. `AuditChain`, `CaseQueries` (done): the audit's functions, and the queries that
   compose them with commands, half-done seals and damaged files.

6. Proofs (section 6), in the order the properties matter: the case and its log, the
   commands and their ledger, the store under kills, the store between commands, the
   queries, the sort and the scan of `ConditioningTimeline` (done).

## 3. The modules

### QualificationCase

One case. `Service.mutate` hands a command a clone of the case and stores it only
when the command succeeds, under one mutex, so a command is one atomic action and
a refused one is no step. Each write command is an action of the same name;
`DecideDiscrepancies` is `Decide` and `DecideBatch` (the batch is a loop of the
single one on the clone), `Release` is split into `ApproveRelease` and
`RejectRelease`, and `Condition` is the common part of the commands that record
readings and may confirm at once, which then makes two events in one step.

| variable | in the code |
|---|---|
| `status`, `duties` | `Case.Status`; `Owner`, `Reviewer`, `Authorizer` |
| `required` | `Plan.MinExposure`; 0 while there is no plan |
| `exposure` | `LongestContinuousMinutes` of the summary of `Case.Conditioning` |
| `measurement` | `Case.Measurements`: the executors, the metrics with a difference above 0.1, those that fail a threshold, the positive ones left at 0 |
| `discrepancies` | `Case.Discrepancies`: the decision for each metric |
| `remediations` | `Case.Remediations`: the three revisions of each round |
| `events` | `Case.Events`: type, person, outcome; the revision is the position |

Two things about the measurements are free: whether the two groups differ and
whether a metric fails are independent, since thresholds and the 0.1 limit are;
and an absent JSON field is a 0, which `unreported` records. Retest values,
notes, reasons and hashes only have to be present and are left out.

### ReleaseGate

What the case promises to somebody who does not know its commands: five
variables and six actions. `QualificationCase` implements it under the mapping
`Gate`: an undecided and a FAILed discrepancy are both *disputed*; a round
without a replacement is *refused*. It says what the code does, not what one
might wish: a refusal does not prevent a grant (see Findings), but a dispute does.

### ConditioningTimeline

The readings of one case between its plan and its confirmation, in minutes. The
summary is the loop of `BuildConditioningSummary` as a recursive function (`Scanned`;
`Scan` is one round of it, and `Closed` what follows the loop), the merge of a batch is
a sort followed by a check of neighbours, as in `PreviewConditioningBatch`.
`sort.SliceStable` is modelled by what it promises of equal times: each position joins
the order of those before it behind the last that is not later (`Inserted`). A reading without a time gets the end of the last one,
or, when it is the first, the clock's time, which is arbitrary. The property
`SummaryFindsRuns` compares the loop with a definition that has none: the maximal
runs of the set of covered minutes. `ExposureGrows` states what `QualificationCase`
assumes of `exposure`.

### EventStore

The files and the maps of `store.go` under one process that is killed and opened
again. A case is the sequence of requests that made its events; the first *i* of
them determine the hash of event *i*, so two lines chain exactly when one's
sequence is the other's without its last element. `Continues` is the test `Open`
makes of a line, against the line of the same case it read last (`Previous`); the
properties, too, speak of lines. `Execute` checks a command and
computes the new case; then every write is an action of its own, in the code's
order, and `os.WriteFile` is two: truncate, write. A file that is cut reads as
empty when the store opens and is not taken while it runs (`Fresh`). `Kill` comes
between any two of them. `Open` follows the code: it takes the cases from
`cases.json`, checks the chain of the cases it knows, and fills in missing results
and hashes. A write may also fail: before the truncation, at the step named `CUT_...`,
or after it. Most commands then stop with an error and leave in memory what they
had entered (`FailSave`, `FailWrite`); `Create` goes on (`FailUnnoticed`). The append
to `events.jsonl` may fail when the file is opened, after any number of the command's
lines, in the middle of one, or in the sync behind all of them (`FailAppend`). Part of
a line at the end of the file (`torn`) is glued to the line appended next, and neither
can be read. `Create` does not look whether its line was written (`LoseCreation`). A
line a command takes for written and nobody can read is remembered in `lost`, an
auxiliary variable in which the properties say what the code loses. Queries refresh the
memory whenever the store's mutex is free (`RefreshCases`, `RefreshManifests`).

Named simplifications: a command makes at most `MaxEvents` events (`DecideBatch` can
make more than the two of the runs; the proofs hold for any number); a line that lacks
nothing but its newline counts as half a line; `Executable` makes the checks of a
command in one step, because nothing is written between them, while the check that
`PutEvents` makes again is in its place, behind the manifest of a seal (`Conflicting`).

`log` is `events.jsonl`; `disk` the JSON files; `memory` the maps of `Store`; `op`
the command in progress (who holds the mutexes). `named` is the expected revision
in a request's payload, fixed when the request first executes, since an attempt at
another revision is refused without a trace; `replies`, what clients were told, is
a history variable.

### CommandService and RequestLedger

Clients and handlers. A client is idle, waiting, or its connection broke; `calls`
holds every copy of every request it sent, each with a handler of its own: `SENT`
(waiting for the mutex), `FETCH` (the request id was looked up and is new), `COMMIT`
(the command changed the clone), `ANSWERED`, `TOLD`. `Enter`, `Fetch` and `Commit`
are the visits to the store in `mutate`, `Seal`, `Create` and the two validate-only
commands, all of which have this shape; `mutex` is `Service.mu`. The body of a
request is what `Dispatch` reads of it, the revision its client saw and, for a
signature, the revision of the preview, which stands for the snapshot hash because
the hash covers it. A creation has no revision in its payload (`Base`). `Histories` gives, per case, what it
may have been through before the clients come. Payload hashes are the payloads. Events remember the request
and the body that made them, which is what the properties speak of. The writes of the
store do not fail here: what a failing one leaves behind is `EventStore`'s question, and
a command that is refused because of one (its event may stay) is not what
`RefusalIsFinal` speaks of.

`RequestLedger` has no clients, locks or messages: a command is asked for, takes
effect, is told. Under the mapping `Ledger`, every step of the service is one of
its steps or a stutter.

### AuditChain and CaseQueries

`AuditChain` is the package `audit` and the event hash as operators; a hash is the
tuple of what it covers, so it is collision-free, and it leaves out the time, as
`ComputeEventHash` does. `CaseQueries` has one case (`case` in `cases.json`, `log` in
`events.jsonl`, `manifest` in `manifests.json`), commands on it, one event each, `SaveManifest` and
`PutSealed` as the two visits of a seal, of which the second may fail before its line
or behind it (`FailToSeal`), as the writes of any other command may (`FailToRecord`; a
failure before the line is no step), and `damage`: once, one line is lost, doubled or
altered (its data, its time, its revision), or an entry or a field of the manifest, its
name and its sealer included, or a command that failed behind its line left one that
the case does not have (`StrayLine`). One query at a time walks through its visits:
the case, the manifest, the events (`Audit` reads the events only; the case there
only has to exist). `AskCredential` includes the read by which the handler fills in
an absent end. `query.answer` is what the client gets. `InOrder` stands for the loops
that pick events one by one, as a recursive function over positions, so that it can be
proved about; `QueryAssumptions` says that only the seal is called `SEALED` and that no
measurement has the value damage leaves, both of which hold by the choice of the
model's constants.

## 4. Runs

| run | question | bounds, and why they are enough |
|---|---|---|
| `case_review` | safety of the case, all commands; refinement of `ReleaseGate` | two metrics (one decided and one not, one stale and one new), 10 events: plan, reading, confirm, measure, a failed review, a second measurement, its review and the release fit; exposure up to 2 (too short, enough); four people (three duties and an outsider), each measuring alone, or together in the next run |
| `case_remediation` | remediation over several rounds | one metric, 14 events: a refusal, a failed review in the open round, another measurement, refusal, replacement and approval fit; teams of one or two |
| `timeline` | the summary, what is confirmed, accepted and refused batches | four readings starting at minutes 0 to 4, of 1 to 3 minutes: every relation of intervals between two, and a bridge or a nesting with a third and fourth; batches of two, so an old reading can lie before, between and behind the new ones |
| `store_restart` | README.md:28 when the process stops between commands | two cases (their lines interleave), six commands and a validation, two stops, 9 lines; commands of two events |
| `store_kill` | what survives a kill or a failing write anywhere | two creations, a change, a seal and a validation; two kills, so the second can hit what the first left, and one failing write (of a JSON file, or of the log after any of its lines or in the middle of one, noticed or not) before, between or after them; 7 lines leave room for a command that is written twice |
| `service` | commands, retries and clients; refinement of `RequestLedger`; liveness | two clients (two calls and one), two ids that both may pick, one case that is absent, being judged or signed when they come: a retry can overtake or follow its first copy and the other client's command, under its own id or the other's; 4 events leave room for every command |
| `queries` | every query against commands, half-done seals and one damage or one command that failed behind its line | 4 events: creation, two measurements of different values or a measurement and a review, the seal; every range; the damage at any place and time |
| `doc_*` | statements of the README the code does not meet | just large enough for the counterexample |

`case_review` and its neighbours use symmetry in `People`: the duties are assigned
in every way in `Init` and no definition names a person. `CHECK_DEADLOCK FALSE`
wherever a sealed or confirmed case takes no command, a store refused by `Open` stays
down, or a bound on calls ends the run; `queries` and `doc_audit` check deadlock.

**Fairness.** Only `CommandService` states any, for `EveryClientIsAnswered` (and its
run checks liveness without symmetry). The handler that holds the mutex goes on:
weak fairness of `Fetch` and `Commit`, which wait for nothing but the store's mutex,
whose holders never wait for another lock. A call whose connection stands gets the
mutex although others take it again and again: strong fairness of `Enter`, because
`sync.Mutex` hands itself to a waiter of more than a millisecond. A client takes its
answer and repeats a broken request: weak fairness of `Receive` and `Retry`. Nothing is
assumed of a call whose connection broke, which may never arrive, and a client
need not ask for anything. Connections break no more often than a client has calls
left, without which no answer could be promised. Everything else is safety.

Every property of a passing run has a mutant in `PROJECT.json`: the module's
section *Faulty variants* holds the changed definitions, and putting one in the
place of the definition it resembles violates the property.

## 5. Findings

| run | what the repository says | what the code does |
|---|---|---|
| `doc_incomplete` | BENZHI_README.md:13, an incomplete detection must not advance | `AddMeasurements` does not check completeness; an absent pH is 0 and in range |
| `doc_resign` | README.md:24, a refusal is followed by a replacement, then signed again | a refused case without discrepancies can be approved as it is |
| `doc_gap` | README.md:21, the summary returns gaps | a gap is reported behind a short reading that lies inside a longer one |
| `doc_replay` | README.md:28, audit pages stay consistent after replay | a kill after the append leaves the log ahead of the case; the next command duplicates the revision |
| `doc_audit` | README.md:26, the hashes of the range are the proof of the page | a line lost before the last, or a revision altered beyond the number of lines, passes the audit, and the page shows an event that was not verified |

More has no run of its own; the invariants that show it are in the modules.

- *Results and manifests.* Two more follow from the cause of `doc_replay`, files that are
  rewritten in place; setting `KillAnytime` to TRUE in `store_restart.cfg`, with the one
  invariant alone, shows them. A
  kill while the files of results are rewritten changes the answer to a retry
  (`SameReplyAlways`): without its result it is the case as it is now, without its
  payload hash in `requests.json` a conflict, and a validation is forgotten. A kill while
  one case is sealed takes the manifests of the others (`SealedHasManifest`). All three
  properties hold when the process stops between commands.
- *A creation that was not logged.* `Create` does not look whether its line was written
  (store.go:214): the client is told the case was created, `cases.json` has it, and the
  log does not. `AnsweredIsInTheLog` as an invariant of `store_kill.cfg` shows it, even
  with `MaxKills` 0. The other way to lose an answered line is half a line that an
  earlier write left and that swallows the next one.
- *Who sealed.* A manifest's sealer, name and case are covered by no hash and no check.
  An altered one is shown on a page that says it is verified (queries.go:337), though
  store.go:133 says that reading the stored copy discovers tampering, and though the
  event `SEALED` of the chain names the sealer. `VerifiedNamesTheSealer` as an invariant
  of `queries.cfg` shows it.
- *A command that fails behind its line* (store.go:176-184) leaves a line the case does
  not have. From then on every report, manifest and credential of the case is refused as
  unverified; `BlameIsAtTheDamage` says that the blame is at that line.

Not a disagreement with any text, but worth knowing: a measurement report is refused
as unverifiable when a command runs between its two reads, and a credential whose
range was left open may stop short of the seal when the case is sealed just then (it
states its range).

## 6. Proofs

Each proof module proves an inductive invariant and draws the properties from it; the
theorems hold for every value of the constants that meets the named assumption of the
component's module. Before it was proved, each invariant was checked by TLC on the
component's runs.

| component | invariant | assumption | theorems draw from it |
|---|---|---|---|
| `QualificationCase` | `IInv` (`QualificationCaseProofs`) | `CaseAssumptions` | types, release and exposure, the refinement of `ReleaseGate` |
| | `Story` (`QualificationCaseLogProofs`) | same | six properties of the log |
| `ConditioningTimeline` | `IInv` (`ConditioningTimelineProofs`) | `TimelineAssumptions` | all seven properties of `timeline` |
| `CommandService` | `Safe` (`CommandServiceProofs`) | `ServiceAssumptions` | types, the four safety properties and the refinement of `RequestLedger` |
| `EventStore` | `Durable` (`EventStoreProofs`) | `StoreAssumptions` | what kills and failing writes leave: types and the properties of `store_kill` |
| | `Orderly` (`EventStoreRestart`) | and `Undisturbed` | what a stop between commands leaves: the properties of `store_restart` |
| `CaseQueries` | `Sound` (`CaseQueriesProofs`, on the lemmas of `AuditChainProofs`) | `QueryAssumptions` | what the answers rest on: the six properties of `queries` beside its types |
| | `FilesTyped`, `QueryTyped` | same | types |

### The case

The release looks only at the evidence in front of it: it checks that no discrepancy
is unresolved, not that every disagreement has a discrepancy. `ReleasedIsClear` is
therefore not inductive; `IInv` adds what is known of the states on the way: a
submitted plan asks for exposure, a case past `PLAN_READY` has it, a case past
`CONDITIONED` is measured, a metric on which the groups differ has a discrepancy.
`CaseImplementsGate` maps each action to one of the gate's or a stutter (`GateNext`).

The six properties of the log need each other: a release follows its review because
the log explains the status, a round is answered once because the latest measurement
is known, decisions are counted right because nothing is open when a case is measured
anew. `Story` is the conjunction of five of them (`HandsAreSeparate` follows) with four
facts none of them states: there is a
latest measurement (`LatestFound`), only a tested case has open discrepancies
(`OpenOnlyWhenTested`), every event is by who has its duty (`AuthorsKnown`), and who
measured last has not decided since (`OwnWork`).

### The timeline

Here the state is simple and the functions are not. `IInv` says that the readings are in
order (`Orderly`) and that what is confirmed is a window of the summary; the work is in
what the sort, the scan and the merge compute for any number of readings. The library's
induction theorems cannot be instantiated, so each recursive function is first shown to
exist (`LoopRuns`, for any loop over a sequence), and each fact about it is proved by a
least counterexample (`LeastNumber`).

- *The sort.* `StableOrderSorts`: the order has every position once, by time and equal
  times as they stand. So sorting keeps the set of readings (`SortingKeeps`), and leaves
  alone a reading later than all (`LateReadingStays`). A single reading must have a time
  of its own, and a batch must continue from reading to reading, so that the times grow
  strictly in either case (`AddedIsOrderly`, `AcceptedIs`).
- *The scan.* `Finds` is the invariant of its loop: the windows so far, the open one
  last, neither overlap nor touch (`Apart`), hold the very minutes of the readings
  scanned (`SameMinutes`), begin and end where readings do, and the last one reaches from
  before the last reading to its end or beyond. A round keeps it by opening a window
  (`NewWindow`) or by extending the last (`WindowExtended`). Windows that are apart and
  hold a set of minutes are exactly its runs (`WindowIsRun`, `RunIsWindow`).
- *A reading without a time* begins at the end of the last reading, which the open
  window reaches by `Finds`; the scan of the readings before it is the old one
  (`ScanOfAPrefix`).
- *A refusal.* Before the first break the merged timeline goes on without one, so all
  readings but its two neighbours start no earlier than the later one or end no later
  than the earlier one starts (`AroundABreak`). So nothing can stand where the blamed
  item would have to continue or be continued (`NewBehindABreak`, `NewBeforeABreak`),
  and if both neighbours are recorded, they are neighbours in the record too
  (`OldAroundABreak`).
- *Exposure.* A longest window is in one window of any larger set of readings
  (`OneWindowHolds`, `MoreReadingsHold`). After a batch there is one window
  (`ContinuousScan`), and the first minute of the batch, which nothing covered before
  (`BatchIsNew`), is in it: it is strictly longer.

The model was changed for these proofs: it used to sort and fold with operators of the
community modules, of which the provers know nothing.

### The service

`Safe` says for each call what its stage stands for. A call inside the mutex was
looked up as new, and is still new; before it commits, the case is still the one it
was computed from (`Settled`), because only the mutex's holder is there (`OneInside`).
A refused call is `Hopeless`: malformed, its id spent on another command, or the case
past what it asks for; each of the three stays true for ever, which is why a refusal
is final. A stored result is the log up to the command's own events (`Faithful`), and
an event with a client's id is one of the command the id was spent on
(`EventsAccounted`). `ServiceImplementsLedger` maps `Commit` to the ledger's effect,
`Enter`, `Fetch` and `RefuseBadRequest` to telling or a stutter, and the rest to
asking or a stutter. The proof asked for two changes of the model: two guards of a
`CASE` overlapped in `SingleKind` and `BatchKind`, where the code tests them in order,
and what the constants must be is now said by `ServiceAssumptions`.

### The store

`Durable` is unconditional: any number of kills between any two writes, any number of
failing writes, noticed or not. What `events.jsonl` can lose is named and counted: a
line is lost only to a write that failed, its own or the one before it, and each costs
at most two (`LossesAreCounted`). `SnapshotIsLogged` is not inductive, because the
snapshot is written from memory, and memory from the command; so `Durable` says that
memory, too, has only what was written, to the log or to `lost` (`MemoryIsWritten`), and
that the command continues the very case memory has (`BaseIsCurrent`) until its lines
are in the log. `AnsweredIsLogged` needs that every reply that is kept anywhere is of a
request some such line names (`KeptAreNamed`). The bound of one command in
`OpensAtMostOneCommandBehind` needs more: once a command whose lines stand in the log
without its case is overwritten by another, the chain is broken and stays so. `Rising`
(along a chain, revisions rise) and `AllOneBehind` (a log that chains and lost nothing is
at most one command ahead of memory and of snapshot) carry it. Where a line was lost
nothing of the kind is promised, which is what `AnsweredIsInTheLog` is about (section 5).

`Orderly` holds when nothing cuts a command off: `Undisturbed` is `~KillAnytime` and
`MaxErrors = 0`, the values of `store_restart`; with kills inside a command three of the
properties fail (section 5). It says of each file that it equals the memory but while
it is written (`FilesAreSaved`), and of each pair of things that must agree, where in
a command they may differ: log and cases; a logged request, its result and its hash
(`Stored`); results and replies; a sealed case and its manifest, which is saved before
the case is sealed (`ManifestIsReady`, `NotSealedYet`).

### The queries

None of the properties of an answer is inductive: they speak of the end of a query,
and the files may be damaged, and the case may grow, at each of its visits. `Sound`
therefore says, part by part, what holds in between.

- `LogOK`: the log after its damage, position by position (`LineLost`, `LineTwice`,
  `LineAltered`, and `LineStray` for the line of a command that failed behind it), and
  that it stays so when later events are appended.
- `SealingOK`: the manifest of a sealed case, or of a seal that has saved it and not
  yet put the case, is the one `Build` makes or that one with the damage (`ManifestOf`).
  This is why a seal that failed after `SaveManifest` raises no false alarm: the next
  seal writes the manifest anew.
- `QueryOK`: what each step of a query has read: a report, a prefix of the case; the
  other queries, the sealed case, and then its manifest.
- `AnswerOK`: the properties, for the answers that are given.

The argument has four lemmas at its centre, which are about the operators and not about
steps. Only the manifest that `Build` makes verifies, and only against the case itself
(`VerifiesAsSealed`). Anything else is blamed at the first broken event of the log, or
else at the first entry that differs, or else at the end, and each of these is the
damaged place (`BlamesTheDamage`). In an audit that verifies no event stands before its
revision (`ShownAreBehind`), so that as many events as the range has revisions can only
be the range. And `InOrder` lists the chosen positions once each and in order
(`InOrderLists`): an induction on the length, done as a least counterexample, because
the library's induction theorems cannot be instantiated.

The proof of `FullRangeIsProven` needs the count of the events shown. Without it the
ends of a verified range need not be the ends of the page, which is the finding of
`doc_audit` (section 5). It compares the events shown in all but their time
(`SameButTime`): no hash covers it, and the audit shows an altered one as proven. Once
the case is sealed the manifest's entries, which are compared whole, give it away.

What the theorems do not say, because it does not hold: a manifest that verifies may
name another sealer (`VerifiedNamesTheSealer`), and a line that a failed command left makes every
later report, manifest and credential of the case an alarm, though nobody touched the
files; `NoFalseAlarm` therefore leaves it out, as damage, and `BlameIsAtTheDamage` says
that the alarm is at that line. A measurement report whose case grew between its two
reads is refused as unverified; `NoFalseAlarm` allows it that and nothing else.

### Not proved

Liveness (`EveryClientIsAnswered`), which is out of the provers' reach: TLC checks it on
`service`. That the findings of section 5 are real is shown by the counterexamples of
their runs. Every other property of a passing run is a theorem.

## 7. Not modelled

HTTP decoding, status codes and headers; the formatting of reports; the wording of
errors; paging, the filters of the audit and of the listing, and its counts; the
digests a client may expect of a credential; the percentages of the discrepancy
report and the margins of the measurement report, which are computed from one read
of the case; normalisation of names in plans and their field errors; lines longer
than the scanner takes and durations that overflow; a kill in the middle of a single
write and a stop of the machine, which may lose what was not synced (`Create` ignores
the error of its sync as well); a command that is refused, since the service drops its
clone; commands of several events in `CaseQueries`; several damages at once. `CaseQueries` and `EventStore` are not composed: the
first has the files as they are while the service runs, the second what stops and
failures make of them. The files under *placeholders* in `PROJECT.json` are not on
the path of any command.
