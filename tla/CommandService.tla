--------------------------- MODULE CommandService ---------------------------
(***************************************************************************)
(* The commands of internal/application/service.go as clients meet them    *)
(* over HTTP: a client reads a case, prepares a command for what it read,  *)
(* sends it under a request id, and when the connection breaks sends it    *)
(* again under the same id, while the handler of the first copy may still  *)
(* be on its way.  Every copy is a call with a handler of its own.         *)
(*                                                                         *)
(* A handler holds the service's mutex through a command; inside it, the   *)
(* store is entered several times (Request, Get, PutEvents), each time     *)
(* under the store's own mutex, and every such visit is a step.  Reads of  *)
(* clients take the store's mutex only.                                    *)
(*                                                                         *)
(* A case is its events.  The hash of a payload is the payload; the        *)
(* snapshot hash of a release preview covers the revision, and a history   *)
(* only grows, so the revision stands for the hash.  Which commands the    *)
(* domain accepts is QualificationCase's subject: here a case takes        *)
(* changes until it is signed, and a seal after that.  Files and restarts  *)
(* are EventStore's.                                                       *)
(***************************************************************************)
EXTENDS Naturals, Sequences, FiniteSets

CONSTANTS
    Clients, Cases,
    Requests,     \* the request ids clients make up; two clients may pick the same
    Forms,        \* the request bodies clients send, as far as dispatch reads them
    Histories,    \* per case, what it may have been through before
    NoCall,       \* nobody holds the mutex
    Unspent,      \* a request id without a stored result
    MaxCalls,     \* per client, bound on its calls, retries included
    MaxRevision   \* bound on the events of a case

VARIABLES
    log,          \* the events of events.jsonl, by case
    cases,        \* the cases of the store
    requests,     \* requestHashes and requests: per id the payload and the result
    validations,  \* the same for validate-only commands
    mutex,        \* Service.mu: the call that holds it
    calls,        \* the calls of each client, first to last
    session       \* what each client is doing

vars == <<log, cases, requests, validations, mutex, calls, session>>

-----------------------------------------------------------------------------
(* Request bodies and the command they select *)

Readings == {"NONE", "EMPTY", "SOME"}

\* single: the body has at or exposed_minutes; window: it has a window bound.
Form == [route : {"create", "plan", "conditioning", "measurements", "release", "seal"},
         validateOnly : BOOLEAN, readings : Readings, single : BOOLEAN,
         confirm : BOOLEAN, window : BOOLEAN]

\* BAD is answered 400 without a command; CONFIRM makes two events.
Kinds == {"BAD", "CREATE", "CHECK", "CHANGE", "CONFIRM", "SIGN", "SEAL"}

-----------------------------------------------------------------------------
(* Faulty variants.  No specification uses them: each stands for a bug of   *)
(* the definition it resembles, and shows that a property notices it.       *)

SingleCheckedAsChange(f) == IF f.confirm /\ f.single THEN "CONFIRM" ELSE "CHANGE"
FreeAlways == TRUE
UnlockedWhenDone(outcome) == IF outcome = "DONE" THEN NoCall ELSE mutex
StaleFirst(r, b) == IF b.base # Len(cases[b.case]) THEN Unspent ELSE requests[r]
FirstResult(entry, b) == "DONE"
RevisionUnchecked(b, h) == TRUE
SeenBefore(k) == Len(cases[k]) - 1

-----------------------------------------------------------------------------
(* Dispatch *)

\* Without readings: one reading, or the confirmation of a window.
SingleKind(f) ==
    IF f.validateOnly THEN "BAD"
    ELSE IF f.confirm /\ ~f.single THEN "CHANGE"
    ELSE IF f.window THEN "BAD"
    ELSE IF f.confirm THEN "CONFIRM" ELSE "CHANGE"

BatchKind(f) ==
    IF f.readings = "EMPTY" \/ f.single \/ f.window THEN "BAD"
    ELSE IF f.validateOnly THEN "CHECK"
    ELSE IF f.confirm THEN "CONFIRM" ELSE "CHANGE"

PlanKind(f) == IF f.validateOnly THEN "CHECK" ELSE "CHANGE"

\* The other handlers know no validate_only, and decode refuses unknown fields.
PlainKind(f, kind) == IF f.validateOnly THEN "BAD" ELSE kind

\* measurements stands for discrepancies too.
Dispatch(f) ==
    CASE f.route = "create"       -> PlainKind(f, "CREATE")
      [] f.route = "plan"         -> PlanKind(f)
      [] f.route = "conditioning" -> IF f.readings = "NONE" THEN SingleKind(f) ELSE BatchKind(f)
      [] f.route = "measurements" -> PlainKind(f, "CHANGE")
      [] f.route = "release"      -> PlainKind(f, "SIGN")
      [] f.route = "seal"         -> PlainKind(f, "SEAL")

\* The payload and, with it, the expected revision; snapshot is 0 unless it signs.
Body == [case : Cases, form : Form, base : 0..MaxRevision, snapshot : 0..MaxRevision]

Kind(b) == Dispatch(b.form)

Weight(b) ==
    CASE Kind(b) = "CONFIRM"          -> 2
      [] Kind(b) \in {"BAD", "CHECK"} -> 0
      [] OTHER                        -> 1

Event == [request : Requests \cup {"EARLIER"}, body : Body]
Entry == [body : Body, result : Seq(Event)]

\* What is known of an event of case k at position i, whoever made it: its command
\* was meant for the case, is one that makes events, saw the events before its own
\* and, when it signs, their preview.
InPlace(e, k, i) ==
    /\ e.body.case = k
    /\ i \in (e.body.base + 1)..(e.body.base + Weight(e.body))
    /\ Kind(e.body) = "SIGN" => e.body.snapshot = e.body.base

\* Earlier events were made by nobody who takes part, in the same way.
ASSUME ServiceAssumptions ==
    /\ MaxRevision \in Nat
    /\ Forms \subseteq Form
    /\ "EARLIER" \notin Requests
    /\ Unspent \notin Entry
    /\ NoCall \notin Clients \X Nat
    /\ \A k \in Cases : \A h \in Histories[k] :
          /\ h \in Seq(Event)
          /\ \A i \in 1..Len(h) : h[i].request = "EARLIER" /\ InPlace(h[i], k, i)

-----------------------------------------------------------------------------
(* Clients *)

Call == [stage : {"SENT", "FETCH", "COMMIT", "ANSWERED", "TOLD"},
         request : Requests, body : Body, new : Seq(Event), outcome : {"", "DONE", "REFUSED"}]

NewCall(r, b) ==
    [stage |-> "SENT", request |-> r, body |-> b, new |-> <<>>, outcome |-> ""]

Init ==
    /\ cases \in [Cases -> UNION {Histories[k] : k \in Cases}]
    /\ \A k \in Cases : cases[k] \in Histories[k]
    /\ log = cases
    /\ requests = [r \in Requests |-> Unspent]
    /\ validations = [r \in Requests |-> Unspent]
    /\ mutex = NoCall
    /\ calls = [c \in Clients |-> <<>>]
    /\ session = [c \in Clients |-> "IDLE"]

\* The revision GET shows, and the one a body names: that of a create names none.
Seen(k) == Len(cases[k])
Base(k, f) == IF f.route = "create" THEN 0 ELSE Seen(k)

\* The client has read the case, and before that its release preview when it signs.
\* What happens between its reading and the arrival happens before Enter.
Issue(c, r, k, f) ==
    /\ session[c] = "IDLE" /\ Len(calls[c]) < MaxCalls[c]
    /\ \E snapshot \in IF f.route = "release" THEN 1..Seen(k) ELSE {0} :
          LET b == [case |-> k, form |-> f, base |-> Base(k, f), snapshot |-> snapshot]
          IN  /\ b.base + Weight(b) <= MaxRevision
              /\ calls' = [calls EXCEPT ![c] = Append(@, NewCall(r, b))]
    /\ session' = [session EXCEPT ![c] = "WAITING"]
    /\ UNCHANGED <<log, cases, requests, validations, mutex>>

Last(c) == calls[c][Len(calls[c])]

\* The connection of the last call breaks.  Its handler may go on.
Break(c) ==
    /\ session[c] = "WAITING" /\ Len(calls[c]) < MaxCalls[c]
    /\ session' = [session EXCEPT ![c] = "BROKEN"]
    /\ UNCHANGED <<log, cases, requests, validations, mutex, calls>>

Retry(c) ==
    /\ session[c] = "BROKEN"
    /\ calls' = [calls EXCEPT ![c] = Append(@, NewCall(Last(c).request, Last(c).body))]
    /\ session' = [session EXCEPT ![c] = "WAITING"]
    /\ UNCHANGED <<log, cases, requests, validations, mutex>>

Receive(c) ==
    /\ session[c] = "WAITING" /\ Last(c).stage = "ANSWERED"
    /\ session' = [session EXCEPT ![c] = "IDLE"]
    /\ calls' = [calls EXCEPT ![c][Len(calls[c])].stage = "TOLD"]
    /\ UNCHANGED <<log, cases, requests, validations, mutex>>

\* All calls, and the answers that reached a client.
Placed == UNION {{calls[c][n] : n \in 1..Len(calls[c])} : c \in Clients}
Told == {[request |-> x.request, body |-> x.body, outcome |-> x.outcome, shows |-> x.new] :
            x \in {y \in Placed : y.stage = "TOLD"}}

-----------------------------------------------------------------------------
(* Handlers: n is the number of a call of client c *)

\* defer s.mu.Unlock(), on every way out.
Unlocked(outcome) == NoCall

AnswerWith(c, n, outcome, shows) ==
    /\ calls' = [calls EXCEPT ![c][n] = [@ EXCEPT !.stage = "ANSWERED", !.outcome = outcome,
                                                  !.new = shows]]
    /\ mutex' = Unlocked(outcome)

Proceed(c, n, new) ==
    /\ calls' = [calls EXCEPT ![c][n] = [@ EXCEPT !.stage = "COMMIT", !.new = new]]
    /\ UNCHANGED mutex

RefuseBadRequest(c, n) ==
    /\ calls[c][n].stage = "SENT" /\ Kind(calls[c][n].body) = "BAD"
    /\ calls' = [calls EXCEPT ![c][n].stage = "ANSWERED", ![c][n].outcome = "REFUSED"]
    /\ UNCHANGED <<log, cases, requests, validations, mutex, session>>

Free == mutex = NoCall

\* The stored result of a command: requests and validations are apart.
StoredResult(r, b) == requests[r]
Known(r, b) == IF Kind(b) = "CHECK" THEN validations[r] ELSE StoredResult(r, b)

\* The same id with another payload is a conflict.
OutcomeOf(entry, b) == IF entry.body = b THEN "DONE" ELSE "REFUSED"

\* The handler gets the mutex and looks the id up.
Enter(c, n) ==
    LET call == calls[c][n]
        entry == Known(call.request, call.body)
    IN  /\ call.stage = "SENT" /\ Kind(call.body) # "BAD"
        /\ Free
        /\ IF entry = Unspent
           THEN /\ mutex' = <<c, n>>
                /\ calls' = [calls EXCEPT ![c][n].stage = "FETCH"]
           ELSE LET outcome == OutcomeOf(entry, call.body)
                IN  AnswerWith(c, n, outcome, IF outcome = "DONE" THEN entry.result ELSE <<>>)
        /\ UNCHANGED <<log, cases, requests, validations, session>>

Holds(h, kind) == \E i \in 1..Len(h) : Kind(h[i].body) = kind

AtRevision(b, h) == b.base = Len(h)
FreshSnapshot(b, h) == b.snapshot = Len(h)

\* What mutate, Seal and the validate-only commands check on the clone.
Accepted(b, h) ==
    /\ h # <<>> /\ AtRevision(b, h)
    /\ \/ Kind(b) = "CHECK"
       \/ Kind(b) \in {"CHANGE", "CONFIRM"} /\ ~Holds(h, "SIGN")
       \/ Kind(b) = "SIGN" /\ ~Holds(h, "SIGN") /\ Len(h) > 1 /\ FreshSnapshot(b, h)
       \/ Kind(b) = "SEAL" /\ Holds(h, "SIGN") /\ ~Holds(h, "SEAL")

Made(r, b) == [i \in 1..Weight(b) |-> [request |-> r, body |-> b]]

\* Get returns a clone, the command changes the clone.  Create has no clone: its
\* store call looks for the case itself.
Fetch(c, n) ==
    LET call == calls[c][n]
        h    == cases[call.body.case]
        made == Made(call.request, call.body)
    IN  /\ call.stage = "FETCH"
        /\ IF Kind(call.body) = "CREATE" THEN Proceed(c, n, made)
           ELSE IF Accepted(call.body, h) THEN Proceed(c, n, h \o made)
           ELSE AnswerWith(c, n, "REFUSED", <<>>)
        /\ UNCHANGED <<log, cases, requests, validations, session>>

\* PutEvents and SaveValidation look once more for another payload under the id.
Storable(r, b) ==
    IF Kind(b) = "CREATE" THEN cases[b.case] = <<>>
    ELSE Known(r, b) = Unspent \/ Known(r, b).body = b

Commit(c, n) ==
    LET call  == calls[c][n]
        b     == call.body
        entry == [body |-> b, result |-> call.new]
    IN  /\ call.stage = "COMMIT"
        /\ IF ~Storable(call.request, b)
           THEN /\ AnswerWith(c, n, "REFUSED", <<>>)
                /\ UNCHANGED <<log, cases, requests, validations>>
           ELSE /\ AnswerWith(c, n, "DONE", call.new)
                /\ IF Kind(b) = "CHECK"
                   THEN /\ validations' = [validations EXCEPT ![call.request] = entry]
                        /\ UNCHANGED <<log, cases, requests>>
                   ELSE /\ log' = [log EXCEPT ![b.case] = @ \o Made(call.request, b)]
                        /\ cases' = [cases EXCEPT ![b.case] = call.new]
                        /\ requests' = [requests EXCEPT ![call.request] = entry]
                        /\ UNCHANGED validations
        /\ UNCHANGED session

Work(c, n) == Fetch(c, n) \/ Commit(c, n)

Next ==
    \E c \in Clients :
        \/ \E r \in Requests, k \in Cases, f \in Forms : Issue(c, r, k, f)
        \/ Break(c) \/ Retry(c) \/ Receive(c)
        \/ \E n \in 1..Len(calls[c]) : RefuseBadRequest(c, n) \/ Enter(c, n) \/ Work(c, n)

\* A handler inside the mutex goes on; a call whose connection stands reaches the
\* server and, however many others want the mutex, gets it (sync.Mutex hands it to
\* a waiter of more than a millisecond); a client takes its answer and, when the
\* connection broke, asks again.  A broken call need not get anywhere.
Unbroken(c, n) == session[c] = "WAITING" /\ n = Len(calls[c])

Fairness ==
    \A c \in Clients :
        /\ WF_vars(Retry(c)) /\ WF_vars(Receive(c))
        /\ \A n \in 1..MaxCalls[c] :
              /\ SF_vars(n <= Len(calls[c]) /\ Unbroken(c, n) /\ Enter(c, n))
              /\ WF_vars(n <= Len(calls[c]) /\ Unbroken(c, n) /\ RefuseBadRequest(c, n))
              /\ WF_vars(n <= Len(calls[c]) /\ Work(c, n))

Spec == Init /\ [][Next]_vars /\ Fairness

-----------------------------------------------------------------------------
(* Properties *)

\* Cases, stored results, calls and answers have their types; the mutex is held by
\* a call that exists.
TypeOK ==
    /\ log \in [Cases -> Seq(Event)]
    /\ cases \in [Cases -> Seq(Event)]
    /\ requests \in [Requests -> Entry \cup {Unspent}]
    /\ validations \in [Requests -> Entry \cup {Unspent}]
    /\ mutex = NoCall \/ \E c \in Clients : \E n \in 1..Len(calls[c]) : mutex = <<c, n>>
    /\ calls \in [Clients -> Seq(Call)]
    /\ session \in [Clients -> {"IDLE", "WAITING", "BROKEN"}]

\* A command takes effect only on the case, at the revision and, when it signs, on
\* the preview its client had in front of it, however late, often and mixed with
\* others its copies arrive: so no copy takes effect a second time, and no update is
\* lost under another.
TakesEffectWhereSeen ==
    \A k \in Cases : \A i \in 1..Len(log[k]) : InPlace(log[k][i], k, i)

\* A command stays refused: once a client was told so, no copy of it still on its
\* way and no later retry takes effect.  The store's writes succeed here: a command
\* refused because one of them failed may have left its event (store.go:182-195).
RefusalIsFinal ==
    \A t \in Told : t.outcome = "REFUSED" =>
        \A k \in Cases : \A i \in 1..Len(log[k]) :
            log[k][i] # [request |-> t.request, body |-> t.body]

\* A success that is told shows the case as this very command left it (a check: as
\* it was at the revision asked for), and the log has that history.
SuccessShowsOwnEffect ==
    \A t \in Told : t.outcome = "DONE" =>
        /\ Len(t.shows) = t.body.base + Weight(t.body)
        /\ t.shows = SubSeq(log[t.body.case], 1, Len(t.shows))
        /\ \A i \in (t.body.base + 1)..Len(t.shows) :
              t.shows[i] = [request |-> t.request, body |-> t.body]

\* README.md:20, validate_only does not advance the revision: no event was made by a
\* body that says validate_only, whatever else it says.
ChecksChangeNothing ==
    \A k \in Cases : \A i \in 1..Len(log[k]) : ~log[k][i].body.form.validateOnly

\* A client that asks is answered in the end, though its connections break.
EveryClientIsAnswered ==
    \A c \in Clients : session[c] # "IDLE" ~> session[c] = "IDLE"

\* Clients, retries and locks together behave as the ledger of requests.
Ledger == INSTANCE RequestLedger WITH
    Bodies <- [case : Cases, form : Forms, base : 0..MaxRevision, snapshot : 0..MaxRevision],
    history <- log, ledger <- requests, checks <- validations, told <- Told,
    asked <- {[request |-> x.request, body |-> x.body] : x \in Placed}
ImplementsLedger == Ledger!Spec
=============================================================================
