------------------------- MODULE EventStoreRestart -------------------------
(***************************************************************************)
(* What an orderly stop preserves: a store that is stopped only between     *)
(* commands, and whose writes succeed, opens again, has in its snapshot the *)
(* history of its log, has the manifest of every sealed case, and gives     *)
(* every answered request the same answer.                                  *)
(***************************************************************************)
EXTENDS EventStoreProofs

\* No command is cut off, by a kill or by a write that fails.
Undisturbed == ~KillAnytime /\ MaxErrors = 0

-----------------------------------------------------------------------------
(* The inductive invariant *)

\* The files as they are, or will be once the command is written.
CasesNow       == IF process = "UP" THEN memory.cases ELSE disk.cases
HashesNow      == IF process = "UP" THEN memory.hashes ELSE disk.hashes
ResultsNow     == IF process = "UP" THEN memory.results ELSE disk.results
ManifestsNow   == IF process = "UP" THEN memory.manifests ELSE disk.manifests
ValidationsNow == IF process = "UP" THEN memory.validations ELSE disk.validations
ResultNow(r)   == IF r \in Checks THEN ValidationsNow[r] ELSE ResultsNow[r]

\* A file differs from the memory only while it is written.
FilesAreSaved ==
    process = "UP" =>
        /\ op.next \notin {"CUT_CASES", "CASES"}     => disk.cases = memory.cases
        /\ op.next \notin {"CUT_HASHES", "HASHES"}   => disk.hashes = memory.hashes
        /\ op.next \notin {"CUT_RESULTS", "RESULTS"} => disk.results = memory.results
        /\ op.next # "MANIFESTS"                     => disk.manifests = memory.manifests
        /\ op.next # "VALIDATIONS"                   => disk.validations = memory.validations

LogMatchesCases ==
    \A c \in Cases : LoggedEvents(c) = AllPrefixes(CasesNow[c]) /\ Chained(c)

\* Open finds the result and the hash of every request the log names.
Stored(r) ==
    /\ \/ ResultsNow[r] # <<>>
       \/ r = op.request /\ op.next \in {"CUT_CASES", "CASES", "CUT_HASHES", "HASHES"}
    /\ \/ HashesNow[r] = "PAYLOAD"
       \/ r = op.request /\ op.next \in {"CUT_CASES", "CASES"}
LoggedAreStored == \A i \in 1..Len(log) : Stored(log[i].event[Len(log[i].event)])
NoForeignHashes == \A r \in Requests : HashesNow[r] # "EVENT_DATA"

\* requests and request_results agree but between the two entries of a command.
RepliesAreResults ==
    process = "UP" =>
        \A r \in Requests :
            memory.requests[r] = IF r = op.request /\ op.next \in {"CUT_HASHES", "HASHES"}
                                 THEN op.case
                                 ELSE memory.results[r]

RepliesAreKept ==
    \A r \in Requests : replies[r] # {} => /\ replies[r] = {ResultNow(r)}
                                           /\ ResultNow(r) # <<>>

ResultIsReady ==
    op # NoOp =>
        /\ replies[op.request] = {}
        /\ op.next \in {"VALIDATIONS", "CUT_RESULTS", "RESULTS", "REPLY"} =>
               ResultNow(op.request) = op.case

\* A case is sealed by the command whose manifest is there before its event.
SealedHaveManifests ==
    \A c \in Cases : Sealed(CasesNow[c]) => ManifestsNow[c] = CasesNow[c]
ManifestIsReady ==
    op.next \in {"MANIFESTS", "LOG"} /\ op.request \in Seals =>
        memory.manifests[CaseOf[op.request]] = op.case
NotSealedYet ==
    op.next \in BeforeLog => ~Sealed(memory.cases[CaseOf[op.request]])

Orderly ==
    /\ Durable
    /\ NeverRefused
    /\ FilesAreSaved
    /\ LogMatchesCases
    /\ LoggedAreStored
    /\ NoForeignHashes
    /\ RepliesAreResults
    /\ RepliesAreKept
    /\ ResultIsReady
    /\ SealedHaveManifests
    /\ ManifestIsReady
    /\ NotSealedYet

-----------------------------------------------------------------------------
(* What each step does to the files as they are or will be *)

\* What a restart would find has its type.
LEMMA NowTypes ==
    ASSUME TypeOK
    PROVE  /\ CasesNow \in [Cases -> Seq(Requests)]
           /\ HashesNow \in [Requests -> Hashes]
           /\ ResultsNow \in [Requests -> Seq(Requests)]
           /\ ManifestsNow \in [Cases -> Seq(Requests)]
           /\ ValidationsNow \in [Requests -> Seq(Requests)]
    BY DEF TypeOK, Files, Memory, CasesNow, HashesNow, ResultsNow, ManifestsNow, ValidationsNow

\* No write fails, no line is torn or lost, and a command is not cut off.
LEMMA NothingIsCutOff ==
    ASSUME Orderly, Undisturbed
    PROVE  /\ ~FailSave /\ ~FailWrite /\ ~FailUnnoticed /\ ~FailAppend /\ ~LoseCreation
           /\ ~torn
           /\ Kill => op = NoOp
    <1>1. errors = 0 /\ torn \in BOOLEAN
        BY DEF Orderly, Durable, Undisturbed, TypeOK
    <1>2. ~Fail
        BY <1>1 DEF Undisturbed, Fail
    <1>3. ~FailAppend
        <2>1. SUFFICES ASSUME At("LOG"), Conflicting
                       PROVE  FALSE
            BY <1>2 DEF FailAppend
        <2>2. op.request \in Requests /\ process = "UP"
            BY <2>1, NotIdle, OpTyped DEF At, Orderly, Durable
        <2> QED
            BY <2>1, <2>2 DEF Conflicting, Orderly, NoForeignHashes, HashesNow
    <1>4. ~torn
        <2>1. Cardinality(lost) \in Nat
            BY FS_CardinalityType DEF Orderly, Durable, LossesAreCounted
        <2>2. Cardinality(lost) + (IF torn THEN 1 ELSE 0) <= 0
            BY <1>1 DEF Orderly, Durable, LossesAreCounted
        <2> QED
            BY <2>1, <2>2
    <1> QED
        BY <1>2, <1>3, <1>4
           DEF FailSave, FailWrite, FailUnnoticed, LoseCreation, Kill, Undisturbed

\* While no command writes, a query finds on the disk what the memory has.
LEMMA NothingToRefresh ==
    ASSUME FilesAreSaved, process = "UP",
           op.next \notin {"CUT_CASES", "CASES", "MANIFESTS"}
    PROVE  Fresh = memory.cases /\ FreshManifests = memory.manifests
    BY DEF FilesAreSaved, Fresh, FreshManifests

\* A refresh that reads what is in memory changes nothing.
LEMMA Refreshed ==
    ASSUME TypeOK
    PROVE  /\ Fresh = memory.cases => [memory EXCEPT !.cases = Fresh] = memory
           /\ FreshManifests = memory.manifests =>
                  [memory EXCEPT !.manifests = FreshManifests] = memory
    BY DEF TypeOK, Memory

\* While the files are saved, a refresh leaves the memory as it is.
LEMMA QueriesChangeNothing ==
    ASSUME TypeOK, FilesAreSaved
    PROVE  /\ \A r \in Requests : Execute(r) \/ Replay(r) => memory' = memory
           /\ RefreshCases \/ RefreshManifests => memory' = memory
    <1>1. process = "UP" /\ op = NoOp => Fresh = memory.cases /\ FreshManifests = memory.manifests
        BY NothingToRefresh DEF NoOp
    <1>2. StoreFree => Fresh = memory.cases /\ FreshManifests = memory.manifests
        BY NothingToRefresh DEF StoreFree, NoOp
    <1>3. ASSUME NEW r \in Requests, Execute(r) \/ Replay(r)
          PROVE  memory' = memory
        BY <1>1, <1>3, Refreshed DEF Execute, Replay
    <1>4. ASSUME RefreshCases \/ RefreshManifests
          PROVE  memory' = memory
        BY <1>2, <1>4, Refreshed DEF RefreshCases, RefreshManifests
    <1> QED
        BY <1>3, <1>4

\* Open finds every line in order, and every reply and hash it names.
LEMMA OpenRestores ==
    ASSUME Orderly, Open
    PROVE  /\ process' = "UP" /\ op = NoOp
           /\ memory' = [cases |-> disk.cases, hashes |-> disk.hashes, results |-> disk.results,
                         manifests |-> disk.manifests, validations |-> disk.validations,
                         requests |-> disk.results]
    <1>1. process = "DOWN" /\ op = NoOp
        BY DEF Open, Orderly, Durable, CommandOK
    <1>2. Openable(disk.cases)
        <2>1. \A i \in 1..Len(log) : log[i].case \in Cases /\ i \in CaseLines(log[i].case)
            BY LinesTyped DEF Orderly, Durable, TypeOK, CaseLines
        <2> QED
            BY <2>1 DEF Orderly, LogMatchesCases, Chained, Openable
    <1>3. \A r \in Logged(disk.cases) : disk.results[r] # <<>> /\ disk.hashes[r] = "PAYLOAD"
        <2> TAKE r \in Logged(disk.cases)
        <2>1. PICK i \in 1..Len(log) : log[i].event[Len(log[i].event)] = r
            BY DEF Logged
        <2> QED
            BY <1>1, <2>1 DEF Orderly, LoggedAreStored, Stored, ResultsNow, HashesNow, NoOp
    <1>4. disk \in Files
        BY DEF Orderly, Durable, TypeOK
    <1>5. Restored(disk.cases, disk.results) = disk.results
        BY <1>3, <1>4 DEF Restored, Files
    <1>6. RestoredHashes(disk.cases, disk.hashes) = disk.hashes
        BY <1>3, <1>4 DEF RestoredHashes, Files
    <1> QED
        BY <1>1, <1>2, <1>5, <1>6 DEF Open

\* Each part of what is stored has one step that changes it.
SameNow ==
    /\ CasesNow' = CasesNow /\ HashesNow' = HashesNow /\ ResultsNow' = ResultsNow
    /\ ManifestsNow' = ManifestsNow /\ ValidationsNow' = ValidationsNow

\* The steps that leave alone what a restart would find.
LEMMA CalmSteps ==
    ASSUME Orderly, Undisturbed
    PROVE  /\ UNCHANGED vars => SameNow
           /\ \A r \in Requests : Execute(r) \/ Replay(r) => SameNow
           /\ RefreshCases \/ RefreshManifests => SameNow
           /\ WriteManifests \/ WriteValidations => SameNow
           /\ CutCases \/ CutHashes => SameNow
           /\ CutResults \/ WriteResults => SameNow
           /\ Answer => SameNow
           /\ Kill => SameNow
           /\ Open => SameNow
    <1> USE DEF SameNow, CasesNow, HashesNow, ResultsNow, ManifestsNow, ValidationsNow
    <1>1. UNCHANGED vars => SameNow
        BY DEF vars
    <1>2. ASSUME NEW r \in Requests, Execute(r) \/ Replay(r)
          PROVE  SameNow
        <2>1. memory' = memory
            BY <1>2, QueriesChangeNothing DEF Orderly, Durable
        <2> QED
            BY <1>2, <2>1 DEF Execute, Replay
    <1>3. ASSUME RefreshCases \/ RefreshManifests
          PROVE  SameNow
        <2>1. memory' = memory
            BY <1>3, QueriesChangeNothing DEF Orderly, Durable
        <2> QED
            BY <1>3, <2>1 DEF RefreshCases, RefreshManifests
    <1>4. WriteManifests \/ WriteValidations => SameNow
        BY DEF WriteManifests, WriteValidations, At
    <1>5. CutCases \/ CutHashes => SameNow
        BY DEF CutCases, CutHashes, At
    <1>6. CutResults \/ WriteResults => SameNow
        BY DEF CutResults, WriteResults, At
    <1>7. Answer => SameNow
        BY DEF Answer, At
    <1>8. ASSUME Kill
          PROVE  SameNow
        <2>1. op = NoOp
            BY <1>8, NothingIsCutOff DEF Orderly, Durable
        <2>2. /\ disk.cases = memory.cases /\ disk.hashes = memory.hashes
              /\ disk.results = memory.results /\ disk.manifests = memory.manifests
              /\ disk.validations = memory.validations
            BY <1>8, <2>1 DEF Kill, Orderly, FilesAreSaved, NoOp
        <2> QED
            BY <1>8, <2>2 DEF Kill
    <1>9. ASSUME Open
          PROVE  SameNow
        BY <1>9, OpenRestores DEF Open
    <1> QED
        BY <1>1, <1>2, <1>3, <1>4, <1>5, <1>6, <1>7, <1>8, <1>9

\* The steps that change it, each in one of its parts.
LEMMA OneChange ==
    ASSUME Orderly
    PROVE  /\ CutManifests =>
                  /\ CasesNow' = CasesNow /\ HashesNow' = HashesNow /\ ResultsNow' = ResultsNow
                  /\ ValidationsNow' = ValidationsNow
                  /\ ManifestsNow' = [ManifestsNow EXCEPT ![CaseOf[op.request]] = op.case]
           /\ CutValidations =>
                  /\ CasesNow' = CasesNow /\ HashesNow' = HashesNow /\ ResultsNow' = ResultsNow
                  /\ ManifestsNow' = ManifestsNow
                  /\ ValidationsNow' = [ValidationsNow EXCEPT ![op.request] = op.case]
           /\ AppendLog =>
                  /\ HashesNow' = HashesNow /\ ResultsNow' = ResultsNow
                  /\ ManifestsNow' = ManifestsNow /\ ValidationsNow' = ValidationsNow
                  /\ CasesNow' = [CasesNow EXCEPT ![CaseOf[op.request]] = op.case]
           /\ WriteCases =>
                  /\ CasesNow' = CasesNow /\ ResultsNow' = ResultsNow
                  /\ ManifestsNow' = ManifestsNow /\ ValidationsNow' = ValidationsNow
                  /\ HashesNow' = [HashesNow EXCEPT ![op.request] = "PAYLOAD"]
           /\ WriteHashes =>
                  /\ CasesNow' = CasesNow /\ HashesNow' = HashesNow
                  /\ ManifestsNow' = ManifestsNow /\ ValidationsNow' = ValidationsNow
                  /\ ResultsNow' = [ResultsNow EXCEPT ![op.request] = op.case]
    <1> USE DEF CasesNow, HashesNow, ResultsNow, ManifestsNow, ValidationsNow
    <1>1. memory \in Memory
        BY DEF Orderly, Durable, TypeOK
    <1>2. ASSUME CutManifests
          PROVE  /\ CasesNow' = CasesNow /\ HashesNow' = HashesNow /\ ResultsNow' = ResultsNow
                 /\ ValidationsNow' = ValidationsNow
                 /\ ManifestsNow' = [ManifestsNow EXCEPT ![CaseOf[op.request]] = op.case]
        BY <1>1, <1>2 DEF CutManifests, At, WithManifest, SealedManifest, Memory
    <1>3. ASSUME CutValidations
          PROVE  /\ CasesNow' = CasesNow /\ HashesNow' = HashesNow /\ ResultsNow' = ResultsNow
                 /\ ManifestsNow' = ManifestsNow
                 /\ ValidationsNow' = [ValidationsNow EXCEPT ![op.request] = op.case]
        BY <1>1, <1>3 DEF CutValidations, At, WithValidation, Memory
    <1>4. ASSUME AppendLog
          PROVE  /\ HashesNow' = HashesNow /\ ResultsNow' = ResultsNow
                 /\ ManifestsNow' = ManifestsNow /\ ValidationsNow' = ValidationsNow
                 /\ CasesNow' = [CasesNow EXCEPT ![CaseOf[op.request]] = op.case]
        BY <1>1, <1>4 DEF AppendLog, At, WithCase, Memory
    <1>5. ASSUME WriteCases
          PROVE  /\ CasesNow' = CasesNow /\ ResultsNow' = ResultsNow
                 /\ ManifestsNow' = ManifestsNow /\ ValidationsNow' = ValidationsNow
                 /\ HashesNow' = [HashesNow EXCEPT ![op.request] = "PAYLOAD"]
        BY <1>1, <1>5 DEF WriteCases, At, WithReply, Memory
    <1>6. ASSUME WriteHashes
          PROVE  /\ CasesNow' = CasesNow /\ HashesNow' = HashesNow
                 /\ ManifestsNow' = ManifestsNow /\ ValidationsNow' = ValidationsNow
                 /\ ResultsNow' = [ResultsNow EXCEPT ![op.request] = op.case]
        BY <1>1, <1>6 DEF WriteHashes, At, WithResult, Memory
    <1> QED
        BY <1>2, <1>3, <1>4, <1>5, <1>6

-----------------------------------------------------------------------------
(* The parts of the invariant *)

\* Every step that is not disturbed keeps the files saved.
LEMMA FilesAreSavedNext ==
    ASSUME Orderly, Undisturbed, [Next]_vars
    PROVE  FilesAreSaved'
    <1>1. TypeOK /\ CommandOK /\ FilesAreSaved
        BY DEF Orderly, Durable
    <1>2. disk \in Files /\ memory \in Memory
        BY <1>1 DEF TypeOK
    <1>3. CASE UNCHANGED vars
        BY <1>1, <1>3 DEF vars, FilesAreSaved
    <1>4. ASSUME NEW r \in Requests, Execute(r) \/ Replay(r)
          PROVE  FilesAreSaved'
        <2>1. memory' = memory /\ disk' = disk /\ process = "UP" /\ op = NoOp
            BY <1>1, <1>4, QueriesChangeNothing DEF Execute, Replay
        <2> QED
            BY <1>1, <2>1 DEF FilesAreSaved, NoOp
    <1>5. CASE RefreshCases \/ RefreshManifests
        <2>1. memory' = memory /\ UNCHANGED <<disk, process, op>>
            BY <1>1, <1>5, QueriesChangeNothing DEF RefreshCases, RefreshManifests
        <2> QED
            BY <1>1, <2>1 DEF FilesAreSaved
    <1>6. CASE CutManifests \/ WriteManifests
        <2>1. op'.next \in {"MANIFESTS", "LOG"} /\ op.next \in {"CUT_MANIFESTS", "MANIFESTS"}
            BY <1>1, <1>6, WritesGoOn, GoesOnSafely DEF CutManifests, WriteManifests, At
        <2>2. WriteManifests => disk'.manifests = memory'.manifests
            BY <1>2 DEF WriteManifests, Files
        <2>3. CutManifests => op'.next = "MANIFESTS"
            BY <1>1, WritesGoOn, GoesOnSafely
        <2>4. /\ disk'.cases = disk.cases /\ memory'.cases = memory.cases
              /\ disk'.hashes = disk.hashes /\ memory'.hashes = memory.hashes
              /\ disk'.results = disk.results /\ memory'.results = memory.results
              /\ disk'.validations = disk.validations /\ memory'.validations = memory.validations
              /\ process = "UP"
            BY <1>2, <1>6 DEF CutManifests, WriteManifests, At, WithManifest, Files, Memory
        <2> QED
            BY <1>1, <1>6, <2>1, <2>2, <2>3, <2>4 DEF FilesAreSaved
    <1>7. CASE CutValidations \/ WriteValidations
        <2>1. op'.next \in {"VALIDATIONS", "REPLY"} /\ op.next \in {"CUT_VALIDATIONS", "VALIDATIONS"}
            BY <1>1, <1>7, WritesGoOn, GoesOnSafely DEF CutValidations, WriteValidations, At
        <2>2. WriteValidations => disk'.validations = memory'.validations
            BY <1>2 DEF WriteValidations, Files
        <2>3. CutValidations => op'.next = "VALIDATIONS"
            BY <1>1, WritesGoOn, GoesOnSafely
        <2>4. /\ disk'.cases = disk.cases /\ memory'.cases = memory.cases
              /\ disk'.hashes = disk.hashes /\ memory'.hashes = memory.hashes
              /\ disk'.results = disk.results /\ memory'.results = memory.results
              /\ disk'.manifests = disk.manifests /\ memory'.manifests = memory.manifests
              /\ process = "UP"
            BY <1>2, <1>7 DEF CutValidations, WriteValidations, At, WithValidation, Files, Memory
        <2> QED
            BY <1>1, <1>7, <2>1, <2>2, <2>3, <2>4 DEF FilesAreSaved
    <1>8. CASE AppendLog \/ CutCases \/ WriteCases
        <2>1. op.next \in {"LOG", "CUT_CASES", "CASES"} /\ op'.next \in {"CUT_CASES", "CASES", "CUT_HASHES"}
            BY <1>1, <1>8, WritesGoOn, GoesOnSafely DEF AppendLog, CutCases, WriteCases, At
        <2>2. WriteCases => disk'.cases = memory'.cases
            BY <1>2 DEF WriteCases, WithReply, Files, Memory
        <2>3. AppendLog \/ CutCases => op'.next \in {"CUT_CASES", "CASES"}
            BY <1>1, WritesGoOn, GoesOnSafely
        <2>4. WriteCases => op'.next = "CUT_HASHES"
            BY <1>1, WritesGoOn, GoesOnSafely
        <2>5. /\ AppendLog \/ CutCases => memory'.hashes = memory.hashes
              /\ disk'.hashes = disk.hashes
              /\ disk'.results = disk.results /\ memory'.results = memory.results
              /\ disk'.manifests = disk.manifests /\ memory'.manifests = memory.manifests
              /\ disk'.validations = disk.validations /\ memory'.validations = memory.validations
              /\ process = "UP"
            BY <1>2, <1>8 DEF AppendLog, CutCases, WriteCases, At, WithCase, WithReply, Files, Memory
        <2> QED
            BY <1>1, <1>8, <2>1, <2>2, <2>3, <2>4, <2>5 DEF FilesAreSaved
    <1>9. CASE CutHashes \/ WriteHashes
        <2>1. op.next \in {"CUT_HASHES", "HASHES"}
            BY <1>9 DEF CutHashes, WriteHashes, At
        <2>2. WriteHashes => disk'.hashes = memory'.hashes
            BY <1>2 DEF WriteHashes, WithResult, Files, Memory
        <2>3. CutHashes => op'.next = "HASHES"
            BY <1>1, WritesGoOn, GoesOnSafely
        <2>4. WriteHashes => op'.next = "CUT_RESULTS"
            BY <1>1, WritesGoOn, GoesOnSafely
        <2>5. /\ CutHashes => memory'.results = memory.results
              /\ disk'.results = disk.results
              /\ disk'.cases = disk.cases /\ memory'.cases = memory.cases
              /\ disk'.manifests = disk.manifests /\ memory'.manifests = memory.manifests
              /\ disk'.validations = disk.validations /\ memory'.validations = memory.validations
              /\ process = "UP"
            BY <1>2, <1>9 DEF CutHashes, WriteHashes, At, WithResult, Files, Memory
        <2> QED
            BY <1>1, <1>9, <2>1, <2>2, <2>3, <2>4, <2>5 DEF FilesAreSaved
    <1>10. CASE CutResults \/ WriteResults
        <2>1. op.next \in {"CUT_RESULTS", "RESULTS"}
            BY <1>10 DEF CutResults, WriteResults, At
        <2>2. WriteResults => disk'.results = memory'.results
            BY <1>2 DEF WriteResults, Files
        <2>3. CutResults => op'.next = "RESULTS"
            BY <1>1, WritesGoOn, GoesOnSafely
        <2>4. WriteResults => op'.next = "REPLY"
            BY <1>1, WritesGoOn, GoesOnSafely
        <2>5. /\ memory' = memory /\ process = "UP"
              /\ disk'.cases = disk.cases /\ disk'.hashes = disk.hashes
              /\ disk'.manifests = disk.manifests /\ disk'.validations = disk.validations
            BY <1>2, <1>10 DEF CutResults, WriteResults, At, Files
        <2> QED
            BY <1>1, <1>10, <2>1, <2>2, <2>3, <2>4, <2>5 DEF FilesAreSaved
    <1>11. CASE Answer
        BY <1>1, <1>11 DEF Answer, At, FilesAreSaved, NoOp
    <1>12. CASE Kill
        BY <1>12 DEF Kill, FilesAreSaved
    <1>13. CASE Open
        <2>1. disk' = disk
            BY <1>13 DEF Open
        <2> QED
            BY <1>13, <2>1, OpenRestores DEF FilesAreSaved
    <1> QED
        BY <1>1, <1>3, <1>4, <1>5, <1>6, <1>7, <1>8, <1>9, <1>10, <1>11, <1>12, <1>13, NothingIsCutOff
           DEF Next

\* What a command appends continues the chain of its case.
LEMMA LogMatchesCasesNext ==
    ASSUME Orderly, Undisturbed, [Next]_vars
    PROVE  LogMatchesCases'
    <1>1. TypeOK /\ CommandOK /\ LogMatchesCases
        BY DEF Orderly, Durable
    <1>2. CASE ~AppendLog
        <2>1. CasesNow' = CasesNow
            BY <1>1, <1>2, CalmSteps, OneChange, NothingIsCutOff DEF Next, SameNow
        <2>2. UNCHANGED log
            BY <1>1, <1>2, NothingIsCutOff, OthersMoveCases DEF LogStep, MovesCases
        <2> QED
            BY <1>1, <2>1, <2>2, LogStays DEF LogMatchesCases
    <1>3. CASE AppendLog
        <2>1. op # NoOp /\ op.next = "LOG" /\ process = "UP"
            BY <1>3, NotIdle DEF AppendLog, At
        <2>2. ChangeUnderWay
            BY <1>1, <2>1, StepsOfCommand DEF BeforeLog
        <2>3. PICK c \in Cases : c = CaseOf[op.request]
            BY <1>1, <2>1, OpTyped
        <2>4. PICK h \in Seq(Requests) : h = op.case
            BY <1>1, <2>1, OpTyped
        <2>5. PICK n \in 0..(Len(h) - 1) : n = named[op.request]
            BY <2>2, <2>4 DEF ChangeUnderWay
        <2>6. log \in Seq(Line)
            BY <1>1 DEF TypeOK
        <2>7. Appends(c, h, n)
            BY <1>1, <1>3, <2>2, <2>3, <2>4, <2>5, AppendLogAppends, NothingIsCutOff
        <2>8. Len(h) \in Nat /\ n \in 0..Len(h) /\ n \in Nat
            BY LenProperties
        <2>9. PICK base \in Seq(Requests) : base = SubSeq(h, 1, n) /\ Len(base) = n
            BY <2>8, PrefixType
        <2>10. CasesNow[c] = base
            BY <2>1, <2>3, <2>4, <2>5, <2>9
               DEF Orderly, Durable, BaseIsCurrent, BeforeLog, Base, CasesNow
        <2>11. LoggedEvents(c) = AllPrefixes(base) /\ Chained(c)
            BY <1>1, <2>10 DEF LogMatchesCases
        <2>12. CaseLines(c) = {} => n = 0
            <3> SUFFICES ASSUME CaseLines(c) = {}, n # 0
                         PROVE  FALSE
                OBVIOUS
            <3>1. SubSeq(base, 1, n) \in AllPrefixes(base)
                BY <2>8, <2>9 DEF AllPrefixes
            <3> QED
                BY <2>11, <3>1 DEF LoggedEvents
        <2>13. ASSUME NEW j, IsLast(j, c)
               PROVE  log[j].event = base
            <3>1. j \in CaseLines(c) /\ j \in 1..Len(log) /\ log[j].event \in LoggedEvents(c)
                BY <2>13 DEF IsLast, CaseLines, LoggedEvents
            <3>2. PICK m \in 1..n : log[j].event = SubSeq(base, 1, m)
                BY <2>9, <2>11, <3>1 DEF AllPrefixes
            <3>3. base \in LoggedEvents(c)
                <4>1. n \in 1..n
                    BY <2>8, <3>2
                <4>2. base = SubSeq(base, 1, n)
                    BY <2>9, WholeIsPrefix
                <4> QED
                    BY <2>9, <2>11, <4>1, <4>2 DEF AllPrefixes
            <3>4. PICK i \in CaseLines(c) : log[i].event = base
                BY <3>3 DEF LoggedEvents
            <3>5. Len(log[j].event) = m
                BY <2>8, <2>9, <3>2, PrefixType
            <3>6. i < j => FALSE
                <4>1. i < j => Len(log[i].event) < Len(log[j].event)
                    BY <2>11, <3>1 DEF Orderly, Durable, Rising
                <4> QED
                    BY <2>8, <2>9, <3>4, <3>5, <4>1
            <3>7. i <= j /\ i \in 1..Len(log) /\ Len(log) \in Nat
                BY <2>6, <2>13, LenProperties DEF IsLast, CaseLines
            <3> QED
                BY <3>1, <3>4, <3>6, <3>7
        <2>14. Chained(c)'
            BY <2>6, <2>7, <2>9, <2>11, <2>12, <2>13, AppendKeepsChain
        <2>15. LoggedEvents(c)' = AllPrefixes(h)
            <3>1. LoggedEvents(c)' = AllPrefixes(base) \cup {SubSeq(h, 1, m) : m \in (n + 1)..Len(h)}
                <4>1. LoggedEvents(c)'
                      = LoggedEvents(c) \cup {SubSeq(h, 1, m) : m \in (n + 1)..Len(h)}
                    BY <2>6, <2>7, <2>8, AppendAdds DEF Adds
                <4> QED
                    BY <2>11, <4>1
            <3>2. AllPrefixes(base) = {SubSeq(h, 1, m) : m \in 1..n}
                <4>1. \A m \in 1..n : SubSeq(base, 1, m) = SubSeq(h, 1, m)
                    BY <2>8, <2>9, PrefixOfPrefix
                <4> QED
                    BY <2>9, <4>1 DEF AllPrefixes
            <3>3. 1..Len(h) = 1..n \cup (n + 1)..Len(h)
                BY <2>8
            <3> QED
                BY <3>1, <3>2, <3>3 DEF AllPrefixes
        <2>16. CasesNow' = [CasesNow EXCEPT ![c] = h]
            BY <1>3, <2>3, <2>4, OneChange
        <2>17. CasesNow'[c] = h /\ \A d \in Cases : d # c => CasesNow'[d] = CasesNow[d]
            BY <1>1, <2>16, NowTypes
        <2>18. ASSUME NEW d \in Cases
               PROVE  LoggedEvents(d)' = AllPrefixes(CasesNow'[d]) /\ Chained(d)'
            <3>1. CASE d = c
                BY <2>14, <2>15, <2>17, <3>1
            <3>2. CASE d # c
                <4>1. LoggedEvents(d)' = LoggedEvents(d) /\ Chained(d)' = Chained(d)
                    BY <2>6, <2>7, <2>8, <3>2, AppendLeaves
                <4> QED
                    BY <1>1, <2>17, <3>2, <4>1 DEF LogMatchesCases
            <3> QED
                BY <3>1, <3>2
        <2> QED
            BY <2>18 DEF LogMatchesCases, AllPrefixes
    <1> QED
        BY <1>2, <1>3

\* Open refuses no log.
LEMMA NeverRefusedNext ==
    ASSUME Orderly, Undisturbed, [Next]_vars
    PROVE  NeverRefused'
    <1>1. NeverRefused
        BY DEF Orderly
    <1>2. CASE Open
        BY <1>2, OpenRestores DEF NeverRefused
    <1>3. CASE Kill
        BY <1>3 DEF Kill, NeverRefused
    <1>4. CASE ~Open /\ ~Kill
        <2>1. process' = process
            BY <1>4, NothingIsCutOff
               DEF Orderly, Durable, Next, vars, Execute, Replay, RefreshCases, RefreshManifests,
                   CutManifests, WriteManifests, CutValidations, WriteValidations, AppendLog,
                   CutCases, WriteCases, CutHashes, WriteHashes, CutResults, WriteResults, Answer
        <2> QED
            BY <1>1, <2>1 DEF NeverRefused
    <1> QED
        BY <1>2, <1>3, <1>4

\* What a request has stored stays stored.
LEMMA StoredNext ==
    ASSUME Orderly, Undisturbed, [Next]_vars, NEW r \in Requests, Stored(r)
    PROVE  Stored(r)'
    <1>1. TypeOK /\ CommandOK
        BY DEF Orderly, Durable
    <1>2. /\ HashesNow \in [Requests -> Hashes] /\ ResultsNow \in [Requests -> Seq(Requests)]
        BY <1>1, NowTypes
    <1>3. CASE UNCHANGED vars \/ RefreshCases \/ RefreshManifests
        <2>1. SameNow /\ op' = op
            BY <1>3, CalmSteps DEF vars, RefreshCases, RefreshManifests
        <2> QED
            BY <2>1 DEF SameNow, Stored
    <1>4. ASSUME \/ \E q \in Requests : Execute(q) \/ Replay(q)
                 \/ Kill \/ Open
          PROVE  Stored(r)'
        <2>1. SameNow
            BY <1>4, CalmSteps
        <2>2. op = NoOp
            BY <1>1, <1>4, NothingIsCutOff, OpenRestores DEF Execute, Replay
        <2> QED
            BY <2>1, <2>2 DEF SameNow, Stored, NoOp
    <1>5. CASE CutManifests \/ WriteManifests \/ CutValidations \/ WriteValidations
        <2>1. op.next \notin {"CUT_CASES", "CASES", "CUT_HASHES", "HASHES"}
            BY <1>5 DEF CutManifests, WriteManifests, CutValidations, WriteValidations, At
        <2>2. HashesNow' = HashesNow /\ ResultsNow' = ResultsNow
            BY <1>5, CalmSteps, OneChange DEF SameNow
        <2> QED
            BY <2>1, <2>2 DEF Stored
    <1>6. CASE AppendLog \/ CutResults \/ WriteResults \/ Answer
        <2>1. op.next \notin {"CUT_CASES", "CASES", "CUT_HASHES", "HASHES"}
            BY <1>6 DEF AppendLog, CutResults, WriteResults, Answer, At
        <2>2. HashesNow' = HashesNow /\ ResultsNow' = ResultsNow
            BY <1>6, CalmSteps, OneChange DEF SameNow
        <2> QED
            BY <2>1, <2>2 DEF Stored
    <1>7. CASE CutCases \/ CutHashes
        <2>1. HashesNow' = HashesNow /\ ResultsNow' = ResultsNow
            BY <1>7, CalmSteps DEF SameNow
        <2>2. op'.request = op.request
            BY <1>1, <1>7, WritesGoOn, GoesOnSafely
        <2>3. /\ CutCases => op.next = "CUT_CASES" /\ op'.next = "CASES"
              /\ CutHashes => op.next = "CUT_HASHES" /\ op'.next = "HASHES"
            BY <1>1, WritesGoOn, GoesOnSafely DEF CutCases, CutHashes, At
        <2> QED
            BY <1>7, <2>1, <2>2, <2>3 DEF Stored
    <1>8. CASE WriteCases
        <2>1. /\ ResultsNow' = ResultsNow
              /\ HashesNow' = [HashesNow EXCEPT ![op.request] = "PAYLOAD"]
            BY <1>8, OneChange
        <2>2. op'.request = op.request /\ op.next = "CASES" /\ op'.next = "CUT_HASHES"
            BY <1>1, <1>8, WritesGoOn, GoesOnSafely DEF WriteCases, At
        <2> QED
            BY <1>2, <2>1, <2>2 DEF Stored
    <1>9. CASE WriteHashes
        <2>1. /\ HashesNow' = HashesNow
              /\ ResultsNow' = [ResultsNow EXCEPT ![op.request] = op.case]
            BY <1>9, OneChange
        <2>2. op # NoOp /\ op.next = "HASHES"
            BY <1>9, WritesGoOn DEF GoesOn, WriteHashes, At
        <2>3. op.case # <<>>
            BY <1>1, <2>2, StepsOfCommand
        <2> QED
            BY <1>2, <2>1, <2>2, <2>3 DEF Stored
    <1> QED
        BY <1>1, <1>3, <1>4, <1>5, <1>6, <1>7, <1>8, <1>9, NothingIsCutOff DEF Next

\* Every step that is not disturbed keeps the logged cases stored.
LEMMA LoggedAreStoredNext ==
    ASSUME Orderly, Undisturbed, [Next]_vars
    PROVE  LoggedAreStored'
    <1>1. TypeOK /\ CommandOK /\ LoggedAreStored
        BY DEF Orderly, Durable
    <1>2. log \in Seq(Line) /\ Len(log) \in Nat
        BY <1>1, LenProperties DEF TypeOK
    <1>3. \A i \in 1..Len(log) : log[i].event[Len(log[i].event)] \in Requests
        <2> TAKE i \in 1..Len(log)
        <2>1. PICK e \in Seq(Requests) : e = log[i].event /\ e # <<>>
            BY <1>2, LinesTyped
        <2>2. Len(e) \in 1..Len(e)
            BY <2>1, EmptySeq, LenProperties
        <2>3. e[Len(e)] \in Requests
            BY <2>2, ElementOfSeq
        <2> QED
            BY <2>1, <2>3
    <1>4. ASSUME ~AppendLog
          PROVE  LoggedAreStored'
        <2>1. log' = log
            BY <1>1, <1>4, NothingIsCutOff, OthersMoveCases DEF LogStep, MovesCases
        <2>2. \A i \in 1..Len(log) : Stored(log[i].event[Len(log[i].event)])'
            BY <1>1, <1>3, <2>1, StoredNext DEF LoggedAreStored
        <2> QED
            BY <2>1, <2>2 DEF LoggedAreStored
    <1>5. ASSUME AppendLog
          PROVE  LoggedAreStored'
        <2>1. op # NoOp /\ op.next = "LOG"
            BY <1>5, NotIdle DEF AppendLog, At
        <2>2. ChangeUnderWay /\ op.request \in Requests
            BY <1>1, <2>1, StepsOfCommand, OpTyped DEF BeforeLog
        <2>3. PICK h \in Seq(Requests) : h = op.case
            BY <1>1, <2>1, OpTyped
        <2>4. PICK n \in 0..(Len(h) - 1) :
                  n = named[op.request] /\ \A j \in (n + 1)..Len(h) : h[j] = op.request
            BY <2>2, <2>3 DEF ChangeUnderWay
        <2>5. PICK c : c = CaseOf[op.request]
            OBVIOUS
        <2>6. Appends(c, h, n)
            BY <1>1, <1>5, <2>2, <2>3, <2>4, <2>5, AppendLogAppends, NothingIsCutOff
        <2>7. Len(h) \in Nat /\ n \in Nat
            BY LenProperties
        <2>8. PICK r \in Requests : r = op.request /\ Stored(r)'
            <3>1. op'.request = op.request /\ op'.next = "CUT_CASES"
                BY <1>1, <1>5, WritesGoOn, GoesOnSafely
            <3> QED
                BY <2>2, <3>1 DEF Stored
        <2>9. ASSUME NEW i \in 1..Len(log')
              PROVE  Stored(log[i].event[Len(log[i].event)])'
            <3>1. CASE i \in 1..Len(log)
                <4>1. log'[i] = log[i]
                    BY <2>6, <3>1 DEF Appends
                <4>2. PICK q \in Requests : q = log[i].event[Len(log[i].event)]
                    BY <1>3, <3>1
                <4>3. Stored(q)
                    BY <1>1, <3>1, <4>2 DEF LoggedAreStored
                <4>4. Stored(q)'
                    BY <4>3, StoredNext
                <4> QED
                    BY <4>1, <4>2, <4>4
            <3>2. CASE i \notin 1..Len(log)
                <4>1. i \in (Len(log) + 1)..Len(log')
                    BY <1>2, <2>6, <2>7, <3>2 DEF Appends
                <4>2. PICK m \in (n + 1)..Len(h) : i - Len(log) = m - n
                    <5>1. i \in (Len(log) + 1)..(Len(log) + (Len(h) - n)) /\ n \in 0..Len(h)
                        BY <2>6, <2>7, <4>1 DEF Appends
                    <5> QED
                        BY <1>2, <2>7, <5>1, LineOfRevision
                <4>3. log'[i] = [case |-> c, event |-> SubSeq(h, 1, m)]
                    BY <2>6, <4>1, <4>2 DEF Appends
                <4>4. log'[i].event = SubSeq(h, 1, m)
                    BY <4>3
                <4>5. m \in 0..Len(h) /\ m \in 1..m
                    BY <2>7
                <4>6. Len(SubSeq(h, 1, m)) = m /\ SubSeq(h, 1, m)[m] = h[m]
                    BY <4>5, PrefixType
                <4>7. log'[i].event[Len(log'[i].event)] = r
                    BY <2>4, <2>8, <4>4, <4>6
                <4> QED
                    BY <2>8, <4>7
            <3> QED
                BY <3>1, <3>2
        <2> QED
            BY <2>9 DEF LoggedAreStored
    <1> QED
        BY <1>4, <1>5

\* ... and the hashes free of foreign ones,
LEMMA NoForeignHashesNext ==
    ASSUME Orderly, Undisturbed, [Next]_vars
    PROVE  NoForeignHashes'
    <1>1. TypeOK /\ CommandOK /\ NoForeignHashes
        BY DEF Orderly, Durable
    <1>2. HashesNow \in [Requests -> Hashes]
        BY <1>1, NowTypes
    <1>3. ASSUME ~WriteCases
          PROVE  HashesNow' = HashesNow
        BY <1>1, <1>3, CalmSteps, OneChange, NothingIsCutOff DEF Next, SameNow
    <1>4. ASSUME WriteCases
          PROVE  HashesNow' = [HashesNow EXCEPT ![op.request] = "PAYLOAD"]
        BY <1>4, OneChange
    <1> QED
        BY <1>1, <1>2, <1>3, <1>4 DEF NoForeignHashes

\* Memory, apart from the writes, is as it was.
LEMMA RepliesAreResultsNext ==
    ASSUME Orderly, Undisturbed, [Next]_vars
    PROVE  RepliesAreResults'
    <1>1. TypeOK /\ CommandOK /\ FilesAreSaved /\ RepliesAreResults
        BY DEF Orderly, Durable
    <1>2. memory \in Memory
        BY <1>1 DEF TypeOK
    <1>3. CASE UNCHANGED vars
        BY <1>1, <1>3 DEF vars, RepliesAreResults
    <1>4. ASSUME NEW r \in Requests, Execute(r) \/ Replay(r)
          PROVE  RepliesAreResults'
        <2>1. memory' = memory /\ process = "UP" /\ op = NoOp
            BY <1>1, <1>4, QueriesChangeNothing DEF Execute, Replay
        <2>2. op'.next \notin {"CUT_HASHES", "HASHES"}
            <3>1. FirstWrite(r) \in {"LOG", "CUT_MANIFESTS", "CUT_VALIDATIONS"}
                BY OutcomeTable
            <3>2. Execute(r) => op'.next = FirstWrite(r)
                BY DEF Execute
            <3>3. Replay(r) => op' = op
                BY DEF Replay
            <3> QED
                BY <1>4, <2>1, <3>1, <3>2, <3>3 DEF NoOp
        <2> QED
            BY <1>1, <2>1, <2>2 DEF RepliesAreResults, NoOp
    <1>5. CASE RefreshCases \/ RefreshManifests
        <2>1. memory' = memory /\ UNCHANGED <<process, op>>
            BY <1>1, <1>5, QueriesChangeNothing DEF RefreshCases, RefreshManifests
        <2> QED
            BY <1>1, <2>1 DEF RepliesAreResults
    <1>6. CASE CutManifests \/ WriteManifests \/ CutValidations \/ WriteValidations \/ AppendLog
               \/ CutCases
        <2>1. op.next \notin {"CUT_HASHES", "HASHES"} /\ process = "UP"
            BY <1>6 DEF CutManifests, WriteManifests, CutValidations, WriteValidations, AppendLog,
                        CutCases, At
        <2>2. op'.next \notin {"CUT_HASHES", "HASHES"}
            BY <1>1, <1>6, WritesGoOn, GoesOnSafely
        <2>3. memory'.requests = memory.requests /\ memory'.results = memory.results
            BY <1>2, <1>6 DEF CutManifests, WriteManifests, CutValidations, WriteValidations,
                              AppendLog, CutCases, WithCase, WithManifest, WithValidation, Memory
        <2> QED
            BY <1>1, <2>1, <2>2, <2>3 DEF RepliesAreResults
    <1>7. CASE WriteCases
        <2>1. op.next = "CASES" /\ process = "UP"
            BY <1>7 DEF WriteCases, At
        <2>2. op'.next = "CUT_HASHES" /\ op'.request = op.request /\ op'.case = op.case
            BY <1>1, <1>7, WritesGoOn, GoesOnSafely
        <2>3. /\ memory'.requests = [memory.requests EXCEPT ![op.request] = op.case]
              /\ memory'.results = memory.results
            BY <1>2, <1>7 DEF WriteCases, WithReply, Memory
        <2>4. memory.requests \in [Requests -> Seq(Requests)]
            BY <1>2 DEF Memory
        <2> QED
            BY <1>1, <2>1, <2>2, <2>3, <2>4 DEF RepliesAreResults
    <1>8. CASE CutHashes
        <2>1. op.next = "CUT_HASHES" /\ UNCHANGED <<memory, process>>
            BY <1>8 DEF CutHashes, At
        <2>2. op'.next = "HASHES" /\ op'.request = op.request /\ op'.case = op.case
            BY <1>1, <1>8, WritesGoOn, GoesOnSafely
        <2> QED
            BY <1>1, <2>1, <2>2 DEF RepliesAreResults
    <1>9. CASE WriteHashes
        <2>1. op.next = "HASHES" /\ process = "UP"
            BY <1>9 DEF WriteHashes, At
        <2>2. op'.next = "CUT_RESULTS"
            BY <1>1, <1>9, WritesGoOn, GoesOnSafely
        <2>3. /\ memory'.results = [memory.results EXCEPT ![op.request] = op.case]
              /\ memory'.requests = memory.requests
            BY <1>2, <1>9 DEF WriteHashes, WithResult, Memory
        <2>4. memory.results \in [Requests -> Seq(Requests)]
            BY <1>2 DEF Memory
        <2> QED
            BY <1>1, <2>1, <2>2, <2>3, <2>4 DEF RepliesAreResults
    <1>10. CASE CutResults \/ WriteResults \/ Answer
        <2>1. op.next \notin {"CUT_HASHES", "HASHES"} /\ UNCHANGED <<memory, process>>
            BY <1>10 DEF CutResults, WriteResults, Answer, At
        <2>2. op'.next \notin {"CUT_HASHES", "HASHES"}
            BY <1>1, <1>10, WritesGoOn, GoesOnSafely DEF Answer, NoOp
        <2> QED
            BY <1>1, <2>1, <2>2 DEF RepliesAreResults
    <1>11. CASE Kill
        BY <1>11 DEF Kill, RepliesAreResults
    <1>12. CASE Open
        BY <1>12, OpenRestores DEF Open, RepliesAreResults, NoOp
    <1> QED
        BY <1>1, <1>3, <1>4, <1>5, <1>6, <1>7, <1>8, <1>9, <1>10, <1>11, <1>12, NothingIsCutOff
           DEF Next

\* A client that asks again is given the result that is stored.
LEMMA ReplyIsResult ==
    ASSUME Orderly, Idle, NEW r \in Requests
    PROVE  Reply(r) = ResultNow(r)
    <1>1. process = "UP" /\ op.next = "NONE"
        BY DEF Idle, NoOp
    <1>2. memory.requests[r] = memory.results[r] /\ memory.hashes[r] # "EVENT_DATA"
        BY <1>1 DEF Orderly, RepliesAreResults, NoForeignHashes, HashesNow
    <1> QED
        BY <1>1, <1>2 DEF Reply, ResultNow, ResultsNow, ValidationsNow

\* A result changes only while its request is under way, and then no client has it.
LEMMA ResultNowStays ==
    ASSUME Orderly, Undisturbed, [Next]_vars, NEW r \in Requests, r # op.request
    PROVE  ResultNow(r)' = ResultNow(r)
    <1>1. TypeOK
        BY DEF Orderly, Durable
    <1>2. /\ ValidationsNow \in [Requests -> Seq(Requests)]
          /\ ResultsNow \in [Requests -> Seq(Requests)]
        BY <1>1, NowTypes
    <1>3. CASE CutValidations
        <2>1. /\ ResultsNow' = ResultsNow
              /\ ValidationsNow' = [ValidationsNow EXCEPT ![op.request] = op.case]
            BY <1>3, OneChange
        <2> QED
            BY <1>2, <2>1 DEF ResultNow
    <1>4. CASE WriteHashes
        <2>1. /\ ValidationsNow' = ValidationsNow
              /\ ResultsNow' = [ResultsNow EXCEPT ![op.request] = op.case]
            BY <1>4, OneChange
        <2> QED
            BY <1>2, <2>1 DEF ResultNow
    <1>5. CASE ~CutValidations /\ ~WriteHashes
        <2>1. ValidationsNow' = ValidationsNow /\ ResultsNow' = ResultsNow
            BY <1>1, <1>5, CalmSteps, OneChange, NothingIsCutOff DEF Next, SameNow
        <2> QED
            BY <2>1 DEF ResultNow
    <1> QED
        BY <1>3, <1>4, <1>5

\* Which results a step gives to clients.
LEMMA RepliesMove ==
    ASSUME Orderly, Undisturbed, [Next]_vars
    PROVE  \/ replies' = replies
           \/ Answer
           \/ \E r \in Requests : Replay(r)
    BY NothingIsCutOff
       DEF Orderly, Durable, Next, vars, Execute, RefreshCases, RefreshManifests,
           CutManifests, WriteManifests, CutValidations, WriteValidations, AppendLog,
           CutCases, WriteCases, CutHashes, WriteHashes, CutResults, WriteResults, Kill, Open

\* ... and the replies,
LEMMA RepliesAreKeptNext ==
    ASSUME Orderly, Undisturbed, [Next]_vars
    PROVE  RepliesAreKept'
    <1>1. /\ TypeOK /\ CommandOK /\ RepliesAreKept /\ ResultIsReady
          /\ replies \in [Requests -> SUBSET Seq(Requests)]
        BY DEF Orderly, Durable, TypeOK
    <1>2. CASE replies' = replies
        <2>1. ASSUME NEW r \in Requests, replies[r] # {}
              PROVE  ResultNow(r)' = ResultNow(r)
            <3>1. CASE r # op.request
                BY <3>1, ResultNowStays
            <3>2. CASE r = op.request
                <4>1. op = NoOp
                    BY <1>1, <2>1, <3>2 DEF ResultIsReady
                <4>2. SameNow
                    <5>1. ~Writes
                        BY <4>1, WritesGoOn DEF Writes, GoesOn
                    <5> QED
                        BY <1>1, <5>1, CalmSteps, NothingIsCutOff DEF Next, Writes
                <4> QED
                    BY <4>2 DEF SameNow, ResultNow
            <3> QED
                BY <3>1, <3>2
        <2>2. ASSUME NEW r \in Requests, replies'[r] # {}
              PROVE  replies'[r] = {ResultNow(r)'} /\ ResultNow(r)' # <<>>
            BY <1>1, <1>2, <2>1, <2>2 DEF RepliesAreKept
        <2> QED
            BY <2>2 DEF RepliesAreKept
    <1>3. CASE Answer
        <2>1. SameNow
            BY <1>3, CalmSteps
        <2>2. op # NoOp /\ op.next = "REPLY"
            BY <1>3, NotIdle DEF Answer, At
        <2>3. /\ op.request \in Requests /\ op.case # <<>>
              /\ replies[op.request] = {} /\ ResultNow(op.request) = op.case
            BY <1>1, <2>2, OpTyped, StepsOfCommand DEF ResultIsReady
        <2>4. replies' = [replies EXCEPT ![op.request] = @ \cup {op.case}]
            BY <1>3 DEF Answer
        <2>5. ASSUME NEW r \in Requests, replies'[r] # {}
              PROVE  replies'[r] = {ResultNow(r)} /\ ResultNow(r) # <<>>
            <3>1. CASE r = op.request
                BY <1>1, <2>3, <2>4, <3>1
            <3>2. CASE r # op.request
                BY <1>1, <2>4, <2>5, <3>2 DEF RepliesAreKept
            <3> QED
                BY <3>1, <3>2
        <2> QED
            BY <2>1, <2>5 DEF RepliesAreKept, SameNow, ResultNow
    <1>4. ASSUME NEW q \in Requests, Replay(q)
          PROVE  RepliesAreKept'
        <2>1. SameNow
            BY <1>4, CalmSteps
        <2>2. Reply(q) = ResultNow(q) /\ Reply(q) # <<>>
            BY <1>4, ReplyIsResult DEF Replay, Idle
        <2>3. replies' = [replies EXCEPT ![q] = @ \cup {Reply(q)}]
            BY <1>4 DEF Replay
        <2>4. ASSUME NEW r \in Requests, replies'[r] # {}
              PROVE  replies'[r] = {ResultNow(r)} /\ ResultNow(r) # <<>>
            <3>1. CASE r = q
                <4>1. replies[q] = {} \/ replies[q] = {ResultNow(q)}
                    BY <1>1 DEF RepliesAreKept
                <4>2. replies'[q] = replies[q] \cup {ResultNow(q)}
                    BY <1>1, <2>2, <2>3
                <4> QED
                    BY <2>2, <3>1, <4>1, <4>2
            <3>2. CASE r # q
                BY <1>1, <2>3, <2>4, <3>2 DEF RepliesAreKept
            <3> QED
                BY <3>1, <3>2
        <2> QED
            BY <2>1, <2>4 DEF RepliesAreKept, SameNow, ResultNow
    <1> QED
        BY <1>2, <1>3, <1>4, RepliesMove

\* ... and a result for every reply about to be given.
LEMMA ResultIsReadyNext ==
    ASSUME Orderly, Undisturbed, [Next]_vars
    PROVE  ResultIsReady'
    <1>1. /\ TypeOK /\ CommandOK /\ RepliesAreKept /\ ResultIsReady
          /\ replies \in [Requests -> SUBSET Seq(Requests)]
        BY DEF Orderly, Durable, TypeOK
    <1>2. /\ ValidationsNow \in [Requests -> Seq(Requests)]
          /\ ResultsNow \in [Requests -> Seq(Requests)]
        BY <1>1, NowTypes
    <1>3. CASE UNCHANGED vars \/ RefreshCases \/ RefreshManifests
        <2>1. SameNow /\ UNCHANGED <<op, replies>>
            BY <1>3, CalmSteps DEF vars, RefreshCases, RefreshManifests
        <2> QED
            BY <1>1, <2>1 DEF ResultIsReady, SameNow, ResultNow
    <1>4. ASSUME NEW r \in Requests, Execute(r)
          PROVE  ResultIsReady'
        <2>1. op'.request = r /\ op'.next = FirstWrite(r) /\ replies' = replies
            BY <1>4 DEF Execute
        <2>2. FirstWrite(r) \in {"LOG", "CUT_MANIFESTS", "CUT_VALIDATIONS"}
            BY OutcomeTable
        <2>3. ResultNow(r) = <<>>
            <3>1. Idle /\ Executable(r)
                BY <1>4 DEF Execute, Idle
            <3>2. r \in Checks => memory.validations[r] = <<>>
                BY <3>1 DEF Executable
            <3>3. r \notin Checks => memory.requests[r] = <<>>
                BY <3>1 DEF Executable
            <3>4. process = "UP" /\ op.next = "NONE"
                BY <3>1 DEF Idle, NoOp
            <3>5. r \notin Checks => memory.results[r] = <<>>
                BY <3>3, <3>4 DEF Orderly, RepliesAreResults
            <3> QED
                BY <3>2, <3>4, <3>5 DEF ResultNow, ResultsNow, ValidationsNow
        <2>4. replies[r] = {}
            BY <1>1, <2>3 DEF RepliesAreKept
        <2> QED
            BY <2>1, <2>2, <2>4 DEF ResultIsReady
    <1>5. ASSUME \/ \E r \in Requests : Replay(r)
                 \/ Answer \/ Kill \/ Open
          PROVE  ResultIsReady'
        <2>1. op' = NoOp
            BY <1>1, <1>5, OpenRestores DEF Replay, Answer, Kill, Open
        <2> QED
            BY <2>1 DEF ResultIsReady, NoOp
    <1>6. CASE CutManifests \/ WriteManifests \/ AppendLog \/ CutCases \/ WriteCases \/ CutHashes
        <2>3. op # NoOp
            BY <1>6, WritesGoOn DEF GoesOn
        <2>4. replies' = replies
            BY <1>6
               DEF CutManifests, WriteManifests, AppendLog, CutCases, WriteCases, CutHashes
        <2>1. op # NoOp /\ replies' = replies
            BY <2>3, <2>4
        <2>2. /\ op'.request = op.request
              /\ op'.next \notin {"VALIDATIONS", "CUT_RESULTS", "RESULTS", "REPLY"}
            BY <1>1, <1>6, WritesGoOn, GoesOnSafely
        <2> QED
            BY <1>1, <2>1, <2>2 DEF ResultIsReady
    <1>7. CASE CutValidations
        <2>1. op # NoOp /\ replies' = replies /\ op'.request = op.request /\ op'.case = op.case
            BY <1>1, <1>7, WritesGoOn, GoesOnSafely DEF GoesOn, CutValidations
        <2>2. op.request \in Checks /\ op.request \in Requests
            BY <1>1, <1>7, <2>1, StepsOfCommand, OpTyped DEF CutValidations, At, CheckUnderWay
        <2>3. ValidationsNow' = [ValidationsNow EXCEPT ![op.request] = op.case]
            BY <1>7, OneChange
        <2>4. ResultNow(op.request)' = op.case
            BY <1>2, <2>1, <2>2, <2>3 DEF ResultNow
        <2> QED
            BY <1>1, <2>1, <2>4 DEF ResultIsReady
    <1>8. CASE WriteHashes
        <2>1. op # NoOp /\ replies' = replies /\ op'.request = op.request /\ op'.case = op.case
            BY <1>1, <1>8, WritesGoOn, GoesOnSafely DEF GoesOn, WriteHashes
        <2>2. op.request \notin Checks /\ op.request \in Requests
            BY <1>1, <1>8, <2>1, StepsOfCommand, OpTyped
               DEF WriteHashes, At, AfterLog, ChangeUnderWay
        <2>3. ResultsNow' = [ResultsNow EXCEPT ![op.request] = op.case]
            BY <1>8, OneChange
        <2>4. ResultNow(op.request)' = op.case
            BY <1>2, <2>1, <2>2, <2>3 DEF ResultNow
        <2> QED
            BY <1>1, <2>1, <2>4 DEF ResultIsReady
    <1>9. CASE WriteValidations \/ CutResults \/ WriteResults
        <2>1. op # NoOp /\ replies' = replies /\ op'.request = op.request /\ op'.case = op.case
            BY <1>1, <1>9, WritesGoOn, GoesOnSafely
               DEF GoesOn, WriteValidations, CutResults, WriteResults
        <2>2. op.next \in {"VALIDATIONS", "CUT_RESULTS", "RESULTS"} /\ SameNow
            BY <1>9, CalmSteps DEF WriteValidations, CutResults, WriteResults, At
        <2>3. ResultNow(op.request)' = op.case
            BY <1>1, <2>1, <2>2 DEF ResultIsReady, SameNow, ResultNow
        <2> QED
            BY <1>1, <2>1, <2>3 DEF ResultIsReady
    <1> QED
        BY <1>1, <1>3, <1>4, <1>5, <1>6, <1>7, <1>8, <1>9, NothingIsCutOff DEF Next

\* A case that gets its SEALED event has its manifest already, and no manifest
\* is replaced before.
LEMMA SealedHaveManifestsNext ==
    ASSUME Orderly, Undisturbed, [Next]_vars
    PROVE  SealedHaveManifests'
    <1>1. TypeOK /\ CommandOK /\ SealedHaveManifests
        BY DEF Orderly, Durable
    <1>2. /\ CasesNow \in [Cases -> Seq(Requests)]
          /\ ManifestsNow \in [Cases -> Seq(Requests)]
        BY <1>1, NowTypes
    <1>3. CASE CutManifests
        <2>1. op # NoOp /\ op.next = "CUT_MANIFESTS" /\ process = "UP"
            BY <1>3, NotIdle DEF CutManifests, At
        <2>2. ~Sealed(CasesNow[CaseOf[op.request]])
            BY <2>1 DEF Orderly, NotSealedYet, BeforeLog, CasesNow
        <2>3. /\ CasesNow' = CasesNow
              /\ ManifestsNow' = [ManifestsNow EXCEPT ![CaseOf[op.request]] = op.case]
            BY <1>3, OneChange
        <2>4. ASSUME NEW c \in Cases, Sealed(CasesNow[c])
              PROVE  ManifestsNow'[c] = CasesNow[c]
            <3>1. c # CaseOf[op.request]
                BY <2>2, <2>4
            <3> QED
                BY <1>1, <1>2, <2>3, <2>4, <3>1 DEF SealedHaveManifests
        <2> QED
            BY <2>3, <2>4 DEF SealedHaveManifests, Sealed
    <1>4. CASE AppendLog
        <2>1. op # NoOp /\ op.next = "LOG" /\ process = "UP"
            BY <1>4, NotIdle DEF AppendLog, At
        <2>2. ChangeUnderWay /\ op.request \in Requests /\ CaseOf[op.request] \in Cases
            BY <1>1, <2>1, StepsOfCommand, OpTyped DEF BeforeLog
        <2>3. PICK h \in Seq(Requests) : h = op.case
            BY <1>1, <2>1, OpTyped
        <2>4. Len(h) \in Nat /\ h[Len(h)] = op.request
            <3>1. PICK n \in 0..(Len(h) - 1) : \A i \in (n + 1)..Len(h) : h[i] = op.request
                BY <2>2, <2>3 DEF ChangeUnderWay
            <3>2. Len(h) \in Nat
                BY LenProperties
            <3>3. Len(h) \in (n + 1)..Len(h)
                BY <3>2
            <3> QED
                BY <3>1, <3>2, <3>3
        <2>5. Sealed(h) => ManifestsNow[CaseOf[op.request]] = h
            BY <2>1, <2>3, <2>4 DEF Sealed, Orderly, ManifestIsReady, ManifestsNow
        <2>6. /\ ManifestsNow' = ManifestsNow
              /\ CasesNow' = [CasesNow EXCEPT ![CaseOf[op.request]] = h]
            BY <1>4, <2>3, OneChange
        <2>7. ASSUME NEW c \in Cases, Sealed(CasesNow'[c])
              PROVE  ManifestsNow[c] = CasesNow'[c]
            <3>1. CASE c = CaseOf[op.request]
                <4>1. CasesNow'[c] = h
                    BY <1>2, <2>6, <3>1
                <4> QED
                    BY <2>5, <2>7, <3>1, <4>1
            <3>2. CASE c # CaseOf[op.request]
                <4>1. CasesNow'[c] = CasesNow[c]
                    BY <1>2, <2>6, <3>2
                <4> QED
                    BY <1>1, <2>7, <4>1 DEF SealedHaveManifests
            <3> QED
                BY <3>1, <3>2
        <2> QED
            BY <2>6, <2>7 DEF SealedHaveManifests, Sealed
    <1>5. CASE ~CutManifests /\ ~AppendLog
        <2>1. CasesNow' = CasesNow /\ ManifestsNow' = ManifestsNow
            BY <1>1, <1>5, CalmSteps, OneChange, NothingIsCutOff DEF Next, SameNow
        <2> QED
            BY <1>1, <2>1 DEF SealedHaveManifests, Sealed
    <1> QED
        BY <1>3, <1>4, <1>5

\* Before its log is written a seal has its manifest, and a case is not sealed.
LEMMA BeforeLogNext ==
    ASSUME Orderly, Undisturbed, [Next]_vars
    PROVE  ManifestIsReady' /\ NotSealedYet'
    <1>1. TypeOK /\ CommandOK /\ FilesAreSaved /\ ManifestIsReady /\ NotSealedYet
        BY DEF Orderly, Durable
    <1>2. memory \in Memory
        BY <1>1 DEF TypeOK
    <1>3. CASE UNCHANGED vars \/ RefreshCases \/ RefreshManifests
        <2>1. memory' = memory /\ op' = op
            BY <1>1, <1>3, QueriesChangeNothing DEF vars, RefreshCases, RefreshManifests
        <2> QED
            BY <1>1, <2>1 DEF ManifestIsReady, NotSealedYet, Sealed
    <1>4. ASSUME NEW r \in Requests, Execute(r)
          PROVE  ManifestIsReady' /\ NotSealedYet'
        <2>1. op'.request = r /\ op'.next = FirstWrite(r) /\ memory' = memory
            <3>1. op'.request = r /\ op'.next = FirstWrite(r)
                BY <1>4 DEF Execute
            <3> QED
                BY <1>1, <1>4, <3>1, QueriesChangeNothing
        <2>2. /\ FirstWrite(r) \in {"LOG", "CUT_MANIFESTS", "CUT_VALIDATIONS"}
              /\ r \in Seals => FirstWrite(r) = "CUT_MANIFESTS"
              /\ r \in Checks => FirstWrite(r) = "CUT_VALIDATIONS"
            BY OutcomeTable
        <2>3. ManifestIsReady'
            BY <2>1, <2>2 DEF ManifestIsReady
        <2>4. r \notin Checks => ~Sealed(memory.cases[CaseOf[r]])
            <3>1. Fresh = memory.cases
                BY <1>1, <1>4, NothingToRefresh DEF Execute, NoOp
            <3>2. Executable(r)
                BY <1>4 DEF Execute
            <3>3. r \in Creates => memory.cases[CaseOf[r]] = <<>>
                BY <3>2 DEF Executable
            <3>4. r \notin Creates /\ r \notin Checks => ~Sealed(Fresh[CaseOf[r]])
                BY <3>2 DEF Executable
            <3> QED
                BY <3>1, <3>3, <3>4 DEF Sealed
        <2>5. NotSealedYet'
            BY <2>1, <2>2, <2>4 DEF NotSealedYet, Sealed, BeforeLog
        <2> QED
            BY <2>3, <2>5
    <1>5. CASE CutManifests
        <2>1. op # NoOp /\ op.next = "CUT_MANIFESTS"
            BY <1>5, NotIdle DEF CutManifests, At
        <2>2. op'.request = op.request /\ op'.case = op.case /\ CaseOf[op.request] \in Cases
            BY <1>1, <1>5, <2>1, WritesGoOn, GoesOnSafely, OpTyped
        <2>3. /\ memory'.manifests = [memory.manifests EXCEPT ![CaseOf[op.request]] = op.case]
              /\ memory'.cases = memory.cases
            BY <1>2, <1>5 DEF CutManifests, WithManifest, SealedManifest, Memory
        <2>4. memory.manifests \in [Cases -> Seq(Requests)]
            BY <1>2 DEF Memory
        <2>5. ManifestIsReady'
            BY <2>2, <2>3, <2>4 DEF ManifestIsReady
        <2>6. NotSealedYet'
            BY <1>1, <2>1, <2>2, <2>3 DEF NotSealedYet, Sealed, BeforeLog
        <2> QED
            BY <2>5, <2>6
    <1>6. CASE WriteManifests
        <2>1. op # NoOp /\ op.next = "MANIFESTS" /\ memory' = memory
            BY <1>6, NotIdle DEF WriteManifests, At
        <2>2. op'.request = op.request /\ op'.case = op.case
            BY <1>1, <1>6, WritesGoOn, GoesOnSafely
        <2> QED
            BY <1>1, <2>1, <2>2 DEF ManifestIsReady, NotSealedYet, Sealed, BeforeLog
    <1>7. CASE \/ CutValidations \/ WriteValidations \/ AppendLog \/ CutCases \/ WriteCases
               \/ CutHashes \/ WriteHashes \/ CutResults \/ WriteResults
        <2>1. op'.next \notin BeforeLog
            BY <1>1, <1>7, WritesGoOn, GoesOnSafely DEF BeforeLog
        <2> QED
            BY <2>1 DEF ManifestIsReady, NotSealedYet, BeforeLog
    <1>8. ASSUME \/ \E r \in Requests : Replay(r)
                 \/ Answer \/ Kill \/ Open
          PROVE  ManifestIsReady' /\ NotSealedYet'
        <2>1. op' = NoOp
            BY <1>1, <1>8, OpenRestores DEF Replay, Answer, Kill, Open
        <2> QED
            BY <2>1 DEF ManifestIsReady, NotSealedYet, BeforeLog, NoOp
    <1> QED
        BY <1>1, <1>3, <1>4, <1>5, <1>6, <1>7, <1>8, NothingIsCutOff DEF Next

\* The invariant holds at first.
LEMMA OrderlyInit == Init => Orderly
    <1> SUFFICES ASSUME Init
                 PROVE  Orderly
        OBVIOUS
    <1>1. Durable
        BY DurableInit
    <1>2. log = <<>> /\ 1..Len(log) = {}
        BY DEF Init
    <1>3. /\ CasesNow = NoCases /\ HashesNow = NoHashes /\ ResultsNow = NoRequests
          /\ op.next = "NONE" /\ op = NoOp
        BY DEF Init, EmptyFiles, CasesNow, HashesNow, ResultsNow, NoOp
    <1>4. LogMatchesCases
        <2>1. ASSUME NEW c \in Cases
              PROVE  LoggedEvents(c) = {} /\ AllPrefixes(CasesNow[c]) = {} /\ Chained(c)
            <3>1. CaseLines(c) = {}
                BY <1>2 DEF CaseLines
            <3>2. CasesNow[c] = <<>>
                BY <1>3 DEF NoCases
            <3> QED
                BY <3>1, <3>2 DEF LoggedEvents, AllPrefixes, Chained
        <2> QED
            BY <2>1 DEF LogMatchesCases
    <1>5. LoggedAreStored
        BY <1>2 DEF LoggedAreStored
    <1>6. NoForeignHashes
        BY <1>3 DEF NoForeignHashes, NoHashes
    <1>7. SealedHaveManifests
        BY <1>3 DEF SealedHaveManifests, Sealed, NoCases
    <1>8. RepliesAreKept
        BY DEF Init, RepliesAreKept
    <1>9. NeverRefused /\ FilesAreSaved /\ RepliesAreResults
        BY DEF Init, NeverRefused, FilesAreSaved, RepliesAreResults
    <1>10. ResultIsReady /\ ManifestIsReady /\ NotSealedYet
        BY <1>3 DEF ResultIsReady, ManifestIsReady, NotSealedYet, BeforeLog
    <1> QED
        BY <1>1, <1>4, <1>5, <1>6, <1>7, <1>8, <1>9, <1>10 DEF Orderly

\* Every step that is not disturbed keeps the invariant.
LEMMA OrderlyNext ==
    ASSUME Orderly, Undisturbed, [Next]_vars
    PROVE  Orderly'
    <1>1. Durable'
        BY DurableNext DEF Orderly
    <1> QED
        BY <1>1, NeverRefusedNext, FilesAreSavedNext, LogMatchesCasesNext, LoggedAreStoredNext,
           NoForeignHashesNext, RepliesAreResultsNext, RepliesAreKeptNext, ResultIsReadyNext,
           SealedHaveManifestsNext, BeforeLogNext
           DEF Orderly

-----------------------------------------------------------------------------
(* Theorems *)

\* Between commands, every part of the invariant is about what is on the disk.
LEMMA IdleFiles ==
    ASSUME Orderly, Idle
    PROVE  /\ disk.cases = CasesNow /\ disk.manifests = ManifestsNow
    BY DEF Orderly, FilesAreSaved, Idle, NoOp, CasesNow, ManifestsNow

\* If nothing cuts a command off, the memory and the files, the log, the results
\* and the manifests agree at every step but for what the command is writing.
THEOREM StoreIsOrderly == Undisturbed => (Spec => []Orderly)
    <1> SUFFICES ASSUME Undisturbed
                 PROVE  Spec => []Orderly
        OBVIOUS
    <1>1. Init => Orderly
        BY OrderlyInit
    <1>2. Orderly /\ [Next]_vars => Orderly'
        BY OrderlyNext
    <1> QED
        BY <1>1, <1>2, PTL DEF Spec

\* Open (store.go 80-99) refuses no log that was left between commands.
THEOREM OpensAgain == Undisturbed => (Spec => []NeverRefused)
    <1> SUFFICES ASSUME Undisturbed
                 PROVE  Spec => []NeverRefused
        OBVIOUS
    <1>1. Orderly => NeverRefused
        BY DEF Orderly
    <1>2. Spec => []Orderly
        BY StoreIsOrderly
    <1> QED
        BY <1>1, <1>2, PTL

\* README.md:28: the log and the snapshot tell the same history of every case, its
\* lines in order and once, whenever no command is under way.
THEOREM LogAndSnapshotAgree == Undisturbed => (Spec => []LogMatchesSnapshot)
    <1> SUFFICES ASSUME Undisturbed
                 PROVE  Spec => []LogMatchesSnapshot
        OBVIOUS
    <1>1. Orderly => LogMatchesSnapshot
        <2> SUFFICES ASSUME Orderly, Idle, NEW c \in Cases
                     PROVE  /\ LoggedEvents(c) = AllPrefixes(disk.cases[c])
                            /\ \A i \in CaseLines(c) : Continues(i)
            BY DEF LogMatchesSnapshot
        <2>1. LoggedEvents(c) = AllPrefixes(CasesNow[c]) /\ Chained(c)
            BY DEF Orderly, LogMatchesCases
        <2> QED
            BY <2>1, IdleFiles DEF Chained
    <1>2. Spec => []Orderly
        BY StoreIsOrderly
    <1> QED
        BY <1>1, <1>2, PTL

\* README.md:19 and 28: an answered request gets the same answer for ever, whatever
\* restarts come in between.
THEOREM AnswersStayTheSame == Undisturbed => (Spec => []SameReplyAlways)
    <1> SUFFICES ASSUME Undisturbed
                 PROVE  Spec => []SameReplyAlways
        OBVIOUS
    <1>1. Orderly => SameReplyAlways
        <2> SUFFICES ASSUME Orderly, NEW r \in Requests, replies[r] # {}
                     PROVE  /\ Cardinality(replies[r]) = 1
                            /\ Idle => replies[r] = {Reply(r)}
            BY DEF SameReplyAlways
        <2>1. replies[r] = {ResultNow(r)}
            BY DEF Orderly, RepliesAreKept
        <2>2. Cardinality(replies[r]) = 1
            BY <2>1, FS_Singleton
        <2>3. Idle => Reply(r) = ResultNow(r)
            BY ReplyIsResult
        <2> QED
            BY <2>1, <2>2, <2>3
    <1>2. Spec => []Orderly
        BY StoreIsOrderly
    <1> QED
        BY <1>1, <1>2, PTL

\* README.md:28: the manifest of a sealed case is of its whole history, the
\* SEALED event included, though it is saved before that event.
THEOREM SealedCasesHaveManifests == Undisturbed => (Spec => []SealedHasManifest)
    <1> SUFFICES ASSUME Undisturbed
                 PROVE  Spec => []SealedHasManifest
        OBVIOUS
    <1>1. Orderly => SealedHasManifest
        BY IdleFiles DEF Orderly, SealedHaveManifests, SealedHasManifest
    <1>2. Spec => []Orderly
        BY StoreIsOrderly
    <1> QED
        BY <1>1, <1>2, PTL
=============================================================================
