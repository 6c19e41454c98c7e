----------------------------- MODULE EventStore -----------------------------
(***************************************************************************)
(* The files of internal/store/store.go under one service process that is  *)
(* killed and started again.  cmd/server/main.go installs no signal        *)
(* handler, so every stop is a kill; a command holds the service's and the *)
(* store's mutex while it writes, so nothing but a kill comes between two  *)
(* of its writes, and queries come where it does not hold the store's.     *)
(*                                                                         *)
(* A case is the sequence of the requests that made its events (a request  *)
(* that makes two events occurs twice).  Event i of a case is known by the *)
(* first i requests: its revision is the length of that prefix, its hash   *)
(* covers its own request and its prev_hash, hence the whole prefix, and   *)
(* its prev_hash is the hash of the prefix without the last request.       *)
(*                                                                         *)
(* os.WriteFile truncates the file and then writes it, and either may      *)
(* fail.  A JSON file that is cut, or was written in part, reads as an     *)
(* empty map when the store opens, and is not read while it runs.          *)
(*                                                                         *)
(* An append to events.jsonl may fail after some of its bytes.  Part of a  *)
(* line at the end of the file, torn, is glued to the line appended next,  *)
(* and neither can be read again.  A line that lacks nothing but its       *)
(* newline counts as such a part.  Stops are of the process and not of the *)
(* machine: what was written is in the file, synced or not.                *)
(***************************************************************************)
EXTENDS Integers, Sequences, FiniteSets

CONSTANTS
    Cases,
    Requests,     \* request ids; each stands for one command with its payload
    CaseOf,       \* the case a request addresses
    Creates,      \* the requests that create their case
    Seals,        \* the requests that seal their case
    Checks,       \* the requests that only validate
    KillAnytime,  \* FALSE: the process is killed only between commands
    MaxKills,     \* bound on the kills
    MaxEvents,    \* bound on the events of one command (a batch of decisions has up to five)
    MaxErrors,    \* bound on the writes that fail
    MaxLines      \* bound on the length of the log

ASSUME StoreAssumptions ==
    /\ CaseOf \in [Requests -> Cases]
    /\ Creates \subseteq Requests /\ Seals \subseteq Requests /\ Checks \subseteq Requests
    /\ Creates \cap Seals = {} /\ Checks \cap (Creates \cup Seals) = {}
    /\ KillAnytime \in BOOLEAN
    /\ MaxEvents \in Nat \ {0}
    /\ MaxKills \in Nat /\ MaxErrors \in Nat /\ MaxLines \in Nat

VARIABLES
    log,      \* the lines of events.jsonl that can be read
    torn,     \* events.jsonl ends in part of a line
    lost,     \* auxiliary: the lines written behind part of a line, or that Create
              \* takes for written though the write failed
    disk,     \* the JSON files
    memory,   \* the maps of Store, as long as the process runs
    process,  \* DOWN; UP; REFUSED when Open returned an error
    op,       \* the command being written
    named,    \* the revision a request names, part of its payload, once it is known
    kills, errors,
    replies   \* per request, the results clients were given

vars == <<log, torn, lost, disk, memory, process, op, named, kills, errors, replies>>

-----------------------------------------------------------------------------
(* Values *)

Prefix(h) == SubSeq(h, 1, Len(h) - 1)

\* One line of the log.
Line == [case : Cases, event : Seq(Requests) \ {<<>>}]

\* A case, a command's result and a manifest are histories; <<>> is absence.
\* A manifest stands for the events Build was given.
NoCases     == [c \in Cases |-> <<>>]
NoRequests  == [r \in Requests |-> <<>>]

\* PAYLOAD is the hash of the command's own payload, EVENT_DATA the replacement
\* Open computes from the data of the event: it equals the hash of no command.
Hashes      == {"NONE", "PAYLOAD", "EVENT_DATA"}
NoHashes    == [r \in Requests |-> "NONE"]

\* cases.json, requests.json, request_results.json, manifests.json, validations.json.
EmptyFiles  == [cases |-> NoCases, hashes |-> NoHashes, results |-> NoRequests,
                manifests |-> NoCases, validations |-> NoRequests]
\* requests holds the replies ready to be given again.
EmptyMemory == [cases |-> NoCases, hashes |-> NoHashes, results |-> NoRequests,
                manifests |-> NoCases, validations |-> NoRequests, requests |-> NoRequests]

Unnamed == -1

NoOp == [request |-> "NONE", events |-> <<>>, case |-> <<>>, next |-> "NONE"]

-----------------------------------------------------------------------------
(* Reading the log *)

\* The events of a case, in the order of the file: Store.Events.
EventsOf(c) ==
    LET lines == SelectSeq(log, LAMBDA l : l.case = c)
    IN  [i \in 1..Len(lines) |-> lines[i].event]

\* The line of the same case that Open read last before line i, if there is one.
Previous(i) ==
    {j \in 1..(i - 1) : /\ log[j].case = log[i].case
                        /\ \A k \in (j + 1)..(i - 1) : log[k].case # log[i].case}

\* The test Open makes of a line: its prev_hash is the hash it read last, and so
\* its revision the next.
Continues(i) ==
    /\ Previous(i) = {} => Prefix(log[i].event) = <<>>
    /\ \A j \in Previous(i) : Prefix(log[i].event) = log[j].event

\* VerifyEventRange(events, 1, 0), which passes over revisions beyond the range.
VerifiedRange(events) ==
    \A i \in 1..Len(events) :
        Len(events[i]) <= Len(events) =>
            /\ Len(events[i]) = i
            /\ i > 1 => Prefix(events[i]) = events[i - 1]

-----------------------------------------------------------------------------
(* Faulty variants.  No specification uses them: each stands for a bug of   *)
(* the definition it resembles, and shows that a property notices it.       *)

NewLinesLastOnly(c, old, new) == <<[case |-> c, event |-> new]>>
NewLinesEarly(c, old, new) ==
    [i \in 1..(Len(new) - Len(old)) |-> [case |-> c, event |-> SubSeq(new, 1, Len(old) + i - 1)]]
ReadableUnflushed(n) == <<>>
OpenableAlways(cases) == TRUE
OpenableAsOneChain(cases) ==
    \A i \in 1..Len(log) : Prefix(log[i].event) = IF i = 1 THEN <<>> ELSE log[i - 1].event
RestoredCurrent(cases, results) == [r \in Requests |-> cases[CaseOf[r]]]
SealedManifestBeforeSeal == Prefix(op.case)

-----------------------------------------------------------------------------
(* Commands *)

Sealed(h) == h # <<>> /\ h[Len(h)] \in Seals

\* The cases a query or a command sees.  A file that is cut is not taken.
Fresh == IF disk.cases = NoCases THEN memory.cases ELSE disk.cases
FreshManifests == IF disk.manifests = NoCases THEN memory.manifests ELSE disk.manifests

\* What the domain lets a request make of a case: one event or more.
Outcomes(r, h) ==
    CASE r \in Creates -> {<<r>>}
      [] r \in Seals   -> {Append(h, r)}
      [] r \in Checks  -> {h}
      [] OTHER         -> {h \o [i \in 1..n |-> r] : n \in 1..MaxEvents}

\* The checks before a command executes.
Executable(r) ==
    LET c == CaseOf[r]
    IN  /\ IF r \in Checks THEN memory.validations[r] = <<>> ELSE memory.requests[r] = <<>>
        /\ IF r \in Creates THEN memory.cases[c] = <<>>
           ELSE /\ Fresh[c] # <<>>
                /\ named[r] \in {Unnamed, Len(Fresh[c])}
                /\ r \notin Checks => ~Sealed(Fresh[c])
        /\ r \in Seals => VerifiedRange(EventsOf(c))

\* Seal saves the manifest before PutEvents runs.
FirstWrite(r) ==
    CASE r \in Seals  -> "CUT_MANIFESTS"
      [] r \in Checks -> "CUT_VALIDATIONS"
      [] OTHER        -> "LOG"

\* The lines that take a case from old to new.
NewLines(c, old, new) ==
    [i \in 1..(Len(new) - Len(old)) |-> [case |-> c, event |-> SubSeq(new, 1, Len(old) + i)]]

Init ==
    /\ log = <<>> /\ torn = FALSE /\ lost = {}
    /\ disk = EmptyFiles
    /\ memory = EmptyMemory
    /\ process = "DOWN"
    /\ op = NoOp
    /\ named = [r \in Requests |-> Unnamed]
    /\ kills = 0 /\ errors = 0
    /\ replies = [r \in Requests |-> {}]

\* Get re-reads cases.json, clones the case, and the command changes the clone.
Execute(r) ==
    /\ process = "UP" /\ op = NoOp
    /\ Executable(r)
    /\ LET c    == CaseOf[r]
           base == IF r \in Creates THEN <<>> ELSE Fresh[c]
       IN  /\ \E new \in Outcomes(r, base) :
                 /\ Len(log) + Len(new) - Len(base) <= MaxLines
                 /\ op' = [request |-> r, events |-> NewLines(c, base, new), case |-> new,
                           next |-> FirstWrite(r)]
           /\ named' = [named EXCEPT ![r] = Len(base)]
    /\ memory' = IF r \in Creates THEN memory ELSE [memory EXCEPT !.cases = Fresh]
    /\ UNCHANGED <<log, torn, lost, disk, process, kills, errors, replies>>

\* A request whose reply is known gets it again, unless the hash stored for it
\* is another.  A seal whose manifest is not among the results gets the one of
\* manifests.json.
Reply(r) ==
    IF r \in Checks THEN memory.validations[r]
    ELSE IF memory.hashes[r] = "EVENT_DATA" \/ memory.requests[r] = <<>> THEN <<>>
    ELSE IF r \in Seals /\ memory.results[r] = <<>> THEN FreshManifests[CaseOf[r]]
    ELSE memory.requests[r]

Replay(r) ==
    /\ process = "UP" /\ op = NoOp
    /\ Reply(r) # <<>>
    /\ replies' = [replies EXCEPT ![r] = @ \cup {Reply(r)}]
    /\ memory' = IF r \in Seals /\ memory.results[r] = <<>>
                 THEN [memory EXCEPT !.manifests = FreshManifests]
                 ELSE memory
    /\ UNCHANGED <<log, torn, lost, disk, process, op, named, kills, errors>>

-----------------------------------------------------------------------------
(* Queries: Get, All and Manifest keep in memory what they read *)

\* The store's mutex is free between the lookups of a command and its writes, but
\* Create looks and writes in one.
StoreFree ==
    /\ process = "UP"
    /\ \/ op = NoOp
       \/ /\ op.next \in {"CUT_MANIFESTS", "CUT_VALIDATIONS", "LOG"}
          /\ op.request \notin Creates

RefreshCases ==
    /\ StoreFree
    /\ memory' = [memory EXCEPT !.cases = Fresh]
    /\ UNCHANGED <<log, torn, lost, disk, process, op, named, kills, errors, replies>>

RefreshManifests ==
    /\ StoreFree
    /\ memory' = [memory EXCEPT !.manifests = FreshManifests]
    /\ UNCHANGED <<log, torn, lost, disk, process, op, named, kills, errors, replies>>

-----------------------------------------------------------------------------
(* The writes of a command, in their order *)

At(step) == process = "UP" /\ op.next = step
Then(step) == op' = [op EXCEPT !.next = step]

\* The manifest Seal builds: of the case with its SEALED event.
SealedManifest == op.case
WithManifest == [memory EXCEPT !.manifests[CaseOf[op.request]] = SealedManifest]

CutManifests ==
    /\ At("CUT_MANIFESTS")
    /\ memory' = WithManifest
    /\ disk' = [disk EXCEPT !.manifests = NoCases]
    /\ Then("MANIFESTS")
    /\ UNCHANGED <<log, torn, lost, process, named, kills, errors, replies>>

WriteManifests ==
    /\ At("MANIFESTS")
    /\ disk' = [disk EXCEPT !.manifests = memory.manifests]
    /\ Then("LOG")
    /\ UNCHANGED <<log, torn, lost, memory, process, named, kills, errors, replies>>

\* A check changes no case: its result is all it writes.
WithValidation == [memory EXCEPT !.validations[op.request] = op.case]

CutValidations ==
    /\ At("CUT_VALIDATIONS")
    /\ memory' = WithValidation
    /\ disk' = [disk EXCEPT !.validations = NoRequests]
    /\ Then("VALIDATIONS")
    /\ UNCHANGED <<log, torn, lost, process, named, kills, errors, replies>>

WriteValidations ==
    /\ At("VALIDATIONS")
    /\ disk' = [disk EXCEPT !.validations = memory.validations]
    /\ Then("REPLY")
    /\ UNCHANGED <<log, torn, lost, memory, process, named, kills, errors, replies>>

\* What can be read of the first n lines of a command: a torn line takes the first.
Readable(n) == SubSeq(op.events, IF torn THEN 2 ELSE 1, n)

\* The first n lines get into events.jsonl, and part of the next if the write is cut.
WriteLines(n, cut) ==
    /\ log' = log \o Readable(n)
    /\ torn' = (cut \/ (torn /\ n = 0))
    /\ lost' = IF torn /\ n > 0 THEN lost \cup {op.events[1]} ELSE lost

\* PutEvents refuses a request whose stored hash is another, the manifest of a seal
\* being written by then.
Conflicting == op.request \notin Creates /\ memory.hashes[op.request] = "EVENT_DATA"

WithCase == [memory EXCEPT !.cases[CaseOf[op.request]] = op.case]

\* One write of all lines, and a sync.
AppendLog ==
    /\ At("LOG")
    /\ ~Conflicting
    /\ WriteLines(Len(op.events), FALSE)
    /\ memory' = WithCase
    /\ Then("CUT_CASES")
    /\ UNCHANGED <<disk, process, named, kills, errors, replies>>

CutCases ==
    /\ At("CUT_CASES")
    /\ disk' = [disk EXCEPT !.cases = NoCases]
    /\ Then("CASES")
    /\ UNCHANGED <<log, torn, lost, memory, process, named, kills, errors, replies>>

\* What the command enters into memory between its writes.
WithReply == [memory EXCEPT !.requests[op.request] = op.case, !.hashes[op.request] = "PAYLOAD"]
WithResult == [memory EXCEPT !.results[op.request] = op.case]

WriteCases ==
    /\ At("CASES")
    /\ disk' = [disk EXCEPT !.cases = memory.cases]
    /\ memory' = WithReply
    /\ Then("CUT_HASHES")
    /\ UNCHANGED <<log, torn, lost, process, named, kills, errors, replies>>

CutHashes ==
    /\ At("CUT_HASHES")
    /\ disk' = [disk EXCEPT !.hashes = NoHashes]
    /\ Then("HASHES")
    /\ UNCHANGED <<log, torn, lost, memory, process, named, kills, errors, replies>>

WriteHashes ==
    /\ At("HASHES")
    /\ disk' = [disk EXCEPT !.hashes = memory.hashes]
    /\ memory' = WithResult
    /\ Then("CUT_RESULTS")
    /\ UNCHANGED <<log, torn, lost, process, named, kills, errors, replies>>

CutResults ==
    /\ At("CUT_RESULTS")
    /\ disk' = [disk EXCEPT !.results = NoRequests]
    /\ Then("RESULTS")
    /\ UNCHANGED <<log, torn, lost, memory, process, named, kills, errors, replies>>

WriteResults ==
    /\ At("RESULTS")
    /\ disk' = [disk EXCEPT !.results = memory.results]
    /\ Then("REPLY")
    /\ UNCHANGED <<log, torn, lost, memory, process, named, kills, errors, replies>>

Answer ==
    /\ At("REPLY")
    /\ replies' = [replies EXCEPT ![op.request] = @ \cup {op.case}]
    /\ op' = NoOp
    /\ UNCHANGED <<log, torn, lost, disk, memory, process, named, kills, errors>>

-----------------------------------------------------------------------------
(* Writes that fail: of a JSON file, before it is truncated (at its CUT step) or *)
(* after                                                                         *)

Fail ==
    /\ process = "UP" /\ errors < MaxErrors
    /\ errors' = errors + 1
    /\ UNCHANGED <<disk, process, named, kills, replies>>

\* SaveManifest and SaveValidation have changed the memory by then.
FailSave ==
    /\ Fail /\ UNCHANGED <<log, torn, lost>>
    /\ \/ At("CUT_MANIFESTS") /\ memory' = WithManifest
       \/ At("CUT_VALIDATIONS") /\ memory' = WithValidation
    /\ op' = NoOp

\* Create goes on when cases.json or requests.json cannot be written.
Tolerated ==
    op.request \in Creates /\ op.next \in {"CUT_CASES", "CASES", "CUT_HASHES", "HASHES"}

FailWrite ==
    /\ Fail /\ UNCHANGED <<log, torn, lost>>
    /\ op.next \in {"MANIFESTS", "VALIDATIONS", "CUT_CASES", "CASES", "CUT_HASHES", "HASHES",
                    "CUT_RESULTS", "RESULTS"}
    /\ ~Tolerated
    /\ op' = NoOp
    /\ UNCHANGED memory

FailUnnoticed ==
    /\ Fail /\ UNCHANGED <<log, torn, lost>>
    /\ Tolerated
    /\ \/ op.next \in {"CUT_CASES", "CASES"} /\ memory' = WithReply /\ Then("CUT_HASHES")
       \/ op.next \in {"CUT_HASHES", "HASHES"} /\ memory' = WithResult /\ Then("CUT_RESULTS")

\* PutEvents gives up when events.jsonl cannot be opened, when the write ends after
\* any of its bytes, or when the sync fails behind all of them.  The lines that got
\* into the file stay.  Create gives up only when it cannot open the file.
FailAppend ==
    /\ At("LOG")
    /\ \E n \in 0..Len(op.events), cut \in BOOLEAN :
          /\ cut => n < Len(op.events)
          /\ op.request \in Creates \/ Conflicting => n = 0 /\ ~cut
          /\ WriteLines(n, cut)
    /\ IF Conflicting THEN UNCHANGED <<errors, disk, process, named, kills, replies>> ELSE Fail
    /\ op' = NoOp
    /\ UNCHANGED memory

\* Create does not look whether its line was written, and goes on.  (When only the
\* sync fails, that is AppendLog.)
LoseCreation ==
    /\ Fail
    /\ At("LOG") /\ op.request \in Creates
    /\ torn' \in {torn, TRUE}
    /\ lost' = lost \cup {op.events[1]}
    /\ memory' = WithCase
    /\ Then("CUT_CASES")
    /\ UNCHANGED log

-----------------------------------------------------------------------------
(* Stopping and starting *)

Kill ==
    /\ process = "UP" /\ kills < MaxKills
    /\ KillAnytime \/ op = NoOp
    /\ process' = "DOWN"
    /\ memory' = EmptyMemory
    /\ op' = NoOp
    /\ kills' = kills + 1
    /\ UNCHANGED <<log, torn, lost, disk, named, errors, replies>>

\* The requests named by the lines Open reads: those of the cases it knows.
Logged(cases) ==
    {r \in Requests : \E i \in 1..Len(log) :
        cases[log[i].case] # <<>> /\ log[i].event[Len(log[i].event)] = r}

Openable(cases) == \A i \in 1..Len(log) : cases[log[i].case] # <<>> => Continues(i)

\* A reply that request_results.json does not have is replaced by the case as
\* cases.json has it now, and a hash that requests.json does not have by the
\* data of the event.
Restored(cases, results) ==
    [r \in Requests |-> IF results[r] # <<>> THEN results[r]
                        ELSE IF r \in Logged(cases) THEN cases[CaseOf[r]]
                        ELSE <<>>]
RestoredHashes(cases, hashes) ==
    [r \in Requests |-> IF hashes[r] = "NONE" /\ r \in Logged(cases) THEN "EVENT_DATA"
                        ELSE hashes[r]]

Open ==
    /\ process = "DOWN"
    /\ IF Openable(disk.cases)
       THEN /\ process' = "UP"
            /\ memory' = [cases     |-> disk.cases,
                          hashes    |-> RestoredHashes(disk.cases, disk.hashes),
                          results   |-> disk.results,
                          manifests |-> disk.manifests,
                          validations |-> disk.validations,
                          requests  |-> Restored(disk.cases, disk.results)]
       ELSE /\ process' = "REFUSED"
            /\ UNCHANGED memory
    /\ UNCHANGED <<log, torn, lost, disk, op, named, kills, errors, replies>>

Next ==
    \/ \E r \in Requests : Execute(r) \/ Replay(r)
    \/ RefreshCases \/ RefreshManifests
    \/ CutManifests \/ WriteManifests
    \/ CutValidations \/ WriteValidations
    \/ AppendLog
    \/ CutCases \/ WriteCases
    \/ CutHashes \/ WriteHashes
    \/ CutResults \/ WriteResults
    \/ Answer
    \/ FailSave \/ FailWrite \/ FailUnnoticed \/ FailAppend \/ LoseCreation
    \/ Kill \/ Open

Spec == Init /\ [][Next]_vars

-----------------------------------------------------------------------------
(* Properties *)

Files  == [cases : [Cases -> Seq(Requests)], hashes : [Requests -> Hashes],
           results : [Requests -> Seq(Requests)], manifests : [Cases -> Seq(Requests)],
           validations : [Requests -> Seq(Requests)]]
Memory == [cases : [Cases -> Seq(Requests)], hashes : [Requests -> Hashes],
           results : [Requests -> Seq(Requests)], manifests : [Cases -> Seq(Requests)],
           validations : [Requests -> Seq(Requests)], requests : [Requests -> Seq(Requests)]]
Steps    == {"CUT_MANIFESTS", "MANIFESTS", "CUT_VALIDATIONS", "VALIDATIONS", "LOG", "CUT_CASES",
             "CASES", "CUT_HASHES", "HASHES", "CUT_RESULTS", "RESULTS", "REPLY"}
Commands == [request : Requests, events : Seq(Line), case : Seq(Requests), next : Steps]

\* Every file and every map has its type; no line of the log is without an event.
TypeOK ==
    /\ log \in Seq(Line) /\ torn \in BOOLEAN /\ lost \subseteq Line
    /\ disk \in Files
    /\ memory \in Memory
    /\ process \in {"DOWN", "UP", "REFUSED"}
    /\ op \in Commands \cup {NoOp}
    /\ named \in [Requests -> {Unnamed} \cup Nat]
    /\ kills \in 0..MaxKills /\ errors \in 0..MaxErrors
    /\ replies \in [Requests -> SUBSET Seq(Requests)]

Idle == process = "UP" /\ op = NoOp

AllPrefixes(h) == {SubSeq(h, 1, i) : i \in 1..Len(h)}
Extends(long, short) ==
    Len(short) <= Len(long) /\ SubSeq(long, 1, Len(short)) = short

\* The lines of a case, and their events.
CaseLines(c) == {i \in 1..Len(log) : log[i].case = c}
LoggedEvents(c) == {log[i].event : i \in CaseLines(c)}

\* The events of a case that are not in the log though they were taken for written.
LostEvents(c) == {l.event : l \in {k \in lost : k.case = c}}

\* The snapshot runs ahead of the log by lost lines only: any other event of a case in
\* cases.json is a line of events.jsonl, at any moment and after any number of kills
\* and failing writes.  A line is lost only to a write that failed: its own, which
\* Create does not notice, or an earlier one that left part of a line behind.
SnapshotIsLogged ==
    /\ \A c \in Cases : AllPrefixes(disk.cases[c]) \subseteq LoggedEvents(c) \cup LostEvents(c)
    /\ Cardinality(lost) <= 2 * errors

\* A client that was told of a command's success can count on its events: they are in
\* the log, whatever is killed later and whichever write failed, unless their first
\* line was lost.
AnsweredIsLogged ==
    \A r \in Requests \ Checks : replies[r] # {} =>
        \E l \in {log[i] : i \in 1..Len(log)} \cup lost : l.event[Len(l.event)] = r

\* README.md:28, results of idempotent commands and audit pages: a command that a
\* client was told succeeded has an event in the log.  Not so in the code, whose Create
\* does not look whether its line was written: no run claims it.
AnsweredIsInTheLog ==
    \A r \in Requests \ Checks : replies[r] # {} =>
        \E i \in 1..Len(log) : log[i].event[Len(log[i].event)] = r

\* When the store opens and still has a case in its snapshot, none of whose lines was
\* lost, the log has the snapshot's last event, and continues the snapshot by the
\* events of the one command that was cut off or failed, if any: a log in which a
\* second command was written over such a one is refused.  (A cases.json that was cut
\* has no case at all: this says nothing then.)
OpensAtMostOneCommandBehind ==
    [][Open /\ process' = "UP" =>
        \A c \in Cases : disk.cases[c] # <<>> /\ LostEvents(c) = {} =>
            /\ disk.cases[c] \in LoggedEvents(c)
            /\ \E r \in Requests : \A e \in LoggedEvents(c) :
                  \/ Extends(disk.cases[c], e)
                  \/ Extends(e, disk.cases[c]) /\ e[Len(e)] = r]_vars

\* README.md:28, audit pages and case: between commands, the log of a case is
\* the history the snapshot has.  Its lines are the events of the history, and each
\* continues the one before it: they come in order and once.
LogMatchesSnapshot ==
    Idle => \A c \in Cases :
        /\ LoggedEvents(c) = AllPrefixes(disk.cases[c])
        /\ \A i \in CaseLines(c) : Continues(i)

\* README.md:19 and 28, reports and results of idempotent commands: a request that was
\* answered can be asked again at any time, whatever restarts come in between, and
\* gets the same answer.
SameReplyAlways ==
    \A r \in Requests : replies[r] # {} =>
        /\ Cardinality(replies[r]) = 1
        /\ Idle => replies[r] = {Reply(r)}

\* README.md:28, manifests: a sealed case has the manifest of its whole history.
SealedHasManifest ==
    Idle => \A c \in Cases :
        Sealed(disk.cases[c]) => disk.manifests[c] = disk.cases[c]

\* A store whose process was stopped between commands opens again.
NeverRefused == process # "REFUSED"
=============================================================================
