------------------------ MODULE CommandServiceProofs ------------------------
(***************************************************************************)
(* Proofs about CommandService, for any clients, cases, request ids and    *)
(* bounds: type correctness, the safety of commands under retries, and     *)
(* that clients, connections, retries and locks together behave as the     *)
(* ledger of requests: every step of CommandService is a step of           *)
(* RequestLedger or leaves it alone.                                       *)
(***************************************************************************)
EXTENDS CommandService, SequenceTheorems, TLAPS

-----------------------------------------------------------------------------
(* Values *)

\* A command makes no, one or two events.
LEMMA WeightType == \A b : Weight(b) \in 0..2
BY DEF Weight

\* A body that says validate_only selects a check or is no command at all.
LEMMA ChecksDispatch ==
    ASSUME NEW f \in Form, f.validateOnly
    PROVE  Dispatch(f) \in {"BAD", "CHECK"}
<1>1. f.route \in {"create", "plan", "conditioning", "measurements", "release", "seal"}
  BY DEF Form
<1>2. /\ PlanKind(f) = "CHECK"
      /\ PlainKind(f, "CREATE") = "BAD" /\ PlainKind(f, "CHANGE") = "BAD"
      /\ PlainKind(f, "SIGN") = "BAD" /\ PlainKind(f, "SEAL") = "BAD"
  BY DEF PlanKind, PlainKind
<1>3. SingleKind(f) = "BAD"
  BY DEF SingleKind
<1>4. BatchKind(f) \in {"BAD", "CHECK"}
  BY DEF BatchKind
<1> QED
  BY <1>1, <1>2, <1>3, <1>4 DEF Dispatch

\* The events of a command, which are as many as its weight.
LEMMA MadeType ==
    ASSUME NEW r \in Requests, NEW b \in Body
    PROVE  /\ Made(r, b) \in Seq(Event)
           /\ Len(Made(r, b)) = Weight(b)
           /\ \A i \in 1..Weight(b) : Made(r, b)[i] = [request |-> r, body |-> b]
<1>1. [request |-> r, body |-> b] \in Event
  BY DEF Event
<1>2. Weight(b) \in Nat
  BY WeightType
<1> QED
  BY <1>1, <1>2 DEF Made

\* A new call waits for the mutex.
LEMMA NewCallType ==
    ASSUME NEW r \in Requests, NEW b \in Body
    PROVE  NewCall(r, b) \in Call
BY DEF NewCall, Call

-----------------------------------------------------------------------------
(* Steps of calls *)

CallsOK == calls \in [Clients -> Seq(Call)]

\* Call n of client c is now the call y, every other call is what it was.
Becomes(c, n, y) ==
    /\ calls' \in [Clients -> Seq(Call)]
    /\ \A d \in Clients : Len(calls'[d]) = Len(calls[d])
    /\ \A d \in Clients : \A m \in 1..Len(calls[d]) :
          calls'[d][m] = IF d = c /\ m = n THEN y ELSE calls[d][m]

\* What replacing a call of a client does to all the calls.
LEMMA CallBecomes ==
    ASSUME CallsOK, NEW c \in Clients, NEW n \in 1..Len(calls[c]), NEW y \in Call,
           calls' = [calls EXCEPT ![c][n] = y]
    PROVE  Becomes(c, n, y)
<1>1. calls[c] \in Seq(Call)
  BY DEF CallsOK
<1>2. /\ [calls[c] EXCEPT ![n] = y] \in Seq(Call)
      /\ Len([calls[c] EXCEPT ![n] = y]) = Len(calls[c])
      /\ \A m \in 1..Len(calls[c]) :
            [calls[c] EXCEPT ![n] = y][m] = IF m = n THEN y ELSE calls[c][m]
  BY <1>1, ExceptSeq
<1>3. calls' = [calls EXCEPT ![c] = [calls[c] EXCEPT ![n] = y]]
  OBVIOUS
<1> QED
  BY <1>2, <1>3 DEF Becomes, CallsOK

\* Client c placed the call y, every other call is what it was.
Places(c, y) ==
    /\ calls' \in [Clients -> Seq(Call)]
    /\ \A d \in Clients : Len(calls'[d]) = IF d = c THEN Len(calls[d]) + 1 ELSE Len(calls[d])
    /\ \A d \in Clients : \A m \in 1..Len(calls'[d]) :
          calls'[d][m] = IF d = c /\ m = Len(calls[d]) + 1 THEN y ELSE calls[d][m]

\* What appending a call of a client does to all the calls.
LEMMA CallPlaced ==
    ASSUME CallsOK, NEW c \in Clients, NEW y \in Call,
           calls' = [calls EXCEPT ![c] = Append(@, y)]
    PROVE  Places(c, y)
<1>1. calls[c] \in Seq(Call)
  BY DEF CallsOK
<1>2. /\ Append(calls[c], y) \in Seq(Call)
      /\ Len(Append(calls[c], y)) = Len(calls[c]) + 1
      /\ \A m \in 1..Len(calls[c]) : Append(calls[c], y)[m] = calls[c][m]
      /\ Append(calls[c], y)[Len(calls[c]) + 1] = y
  BY <1>1, AppendProperties
<1>3. calls' = [calls EXCEPT ![c] = Append(calls[c], y)]
  OBVIOUS
<1>4. calls' \in [Clients -> Seq(Call)]
  BY <1>2, <1>3 DEF CallsOK
<1>5. \A d \in Clients : calls'[d] = IF d = c THEN Append(calls[c], y) ELSE calls[d]
  BY <1>3 DEF CallsOK
<1>6. Len(calls[c]) \in Nat
  BY <1>1
<1> QED
  BY <1>2, <1>4, <1>5, <1>6 DEF Places

-----------------------------------------------------------------------------
(* Type correctness *)

\* The variables have their types at first.
LEMMA TypeInit == Init => TypeOK
<1> SUFFICES ASSUME Init PROVE TypeOK
  OBVIOUS
<1>1. \A k \in Cases : cases[k] \in Seq(Event)
  BY ServiceAssumptions DEF Init
<1>2. cases \in [Cases -> Seq(Event)]
  BY <1>1 DEF Init
<1>3. calls \in [Clients -> Seq(Call)]
  BY DEF Init
<1> QED
  BY <1>2, <1>3 DEF Init, TypeOK

\* What a client asks for is a body, made of a form clients use.
LEMMA IssuedBody ==
    ASSUME TypeOK, NEW k \in Cases, NEW f \in Forms,
           NEW snapshot \in IF f.route = "release" THEN 1..Seen(k) ELSE {0},
           NEW b, b = [case |-> k, form |-> f, base |-> Base(k, f), snapshot |-> snapshot],
           b.base + Weight(b) <= MaxRevision
    PROVE  b \in Body
<1>1. Seen(k) \in Nat
  BY DEF Seen, TypeOK
<1>2. Base(k, f) \in Nat
  BY <1>1 DEF Base
<1>3. Weight(b) \in Nat
  BY DEF Weight
<1>4. b.base \in 0..MaxRevision
  BY <1>2, <1>3, ServiceAssumptions
<1>5. snapshot \in 0..MaxRevision
  <2>1. CASE f.route = "release"
    <3>1. Base(k, f) = Seen(k)
      BY <2>1 DEF Base
    <3> QED
      BY <1>1, <1>4, <2>1, <3>1, ServiceAssumptions
  <2>2. CASE f.route # "release"
    BY <2>2, ServiceAssumptions
  <2> QED
    BY <2>1, <2>2
<1> QED
  BY <1>4, <1>5, ServiceAssumptions DEF Body

\* An issued command is a new call of its client, and nothing else changes.
LEMMA IssueStep ==
    ASSUME TypeOK, NEW c \in Clients, NEW r \in Requests, NEW k \in Cases, NEW f \in Forms,
           Issue(c, r, k, f)
    PROVE  /\ \E b \in Body : /\ Places(c, NewCall(r, b))
                              /\ b.form \in Forms /\ b.base <= Len(cases[b.case])
           /\ session' = [session EXCEPT ![c] = "WAITING"]
           /\ UNCHANGED <<log, cases, requests, validations, mutex>>
<1>1. PICK snapshot \in IF f.route = "release" THEN 1..Seen(k) ELSE {0} :
          LET b == [case |-> k, form |-> f, base |-> Base(k, f), snapshot |-> snapshot]
          IN  /\ b.base + Weight(b) <= MaxRevision
              /\ calls' = [calls EXCEPT ![c] = Append(@, NewCall(r, b))]
  BY DEF Issue
<1> DEFINE b == [case |-> k, form |-> f, base |-> Base(k, f), snapshot |-> snapshot]
<1>2. b \in Body
  BY <1>1, IssuedBody
<1>3. b.form \in Forms /\ b.base <= Len(cases[b.case])
  BY DEF Seen, Base, TypeOK
<1>4. calls' = [calls EXCEPT ![c] = Append(@, NewCall(r, b))]
  BY <1>1
<1> HIDE DEF b
<1>5. Places(c, NewCall(r, b))
  BY <1>2, <1>4, NewCallType, CallPlaced DEF TypeOK, CallsOK
<1> QED
  BY <1>2, <1>3, <1>5 DEF Issue

\* A client that waits, or whose connection broke, has placed a call.
Busy == \A c \in Clients : session[c] # "IDLE" => calls[c] # <<>>

\* A retry is a call like the one before.
LEMMA RetryStep ==
    ASSUME TypeOK, Busy, NEW c \in Clients, Retry(c)
    PROVE  /\ Len(calls[c]) \in 1..Len(calls[c])
           /\ Places(c, NewCall(Last(c).request, Last(c).body))
           /\ session' = [session EXCEPT ![c] = "WAITING"]
           /\ UNCHANGED <<log, cases, requests, validations, mutex>>
<1>1. calls[c] \in Seq(Call) /\ calls[c] # <<>>
  BY DEF TypeOK, Busy, Retry
<1>2. Len(calls[c]) \in 1..Len(calls[c])
  BY <1>1, EmptySeq
<1>3. Last(c) \in Call
  BY <1>1, <1>2, ElementOfSeq DEF Last
<1>4. NewCall(Last(c).request, Last(c).body) \in Call
  BY <1>3, NewCallType DEF Call
<1> QED
  BY <1>2, <1>4, CallPlaced DEF Retry, TypeOK, CallsOK

\* A client takes the answer of its last call.
LEMMA ReceiveStep ==
    ASSUME TypeOK, Busy, NEW c \in Clients, Receive(c)
    PROVE  LET n == Len(calls[c])
           IN  /\ n \in 1..n
               /\ calls[c][n].stage = "ANSWERED"
               /\ Becomes(c, n, [calls[c][n] EXCEPT !.stage = "TOLD"])
               /\ session' = [session EXCEPT ![c] = "IDLE"]
               /\ UNCHANGED <<log, cases, requests, validations, mutex>>
<1>1. calls[c] \in Seq(Call) /\ calls[c] # <<>>
  BY DEF TypeOK, Busy, Receive
<1> DEFINE n == Len(calls[c])
<1>2. n \in 1..n
  BY <1>1, EmptySeq
<1>3. calls[c][n] \in Call
  BY <1>1, <1>2, ElementOfSeq
<1>4. [calls[c][n] EXCEPT !.stage = "TOLD"] \in Call
  BY <1>3 DEF Call
<1>5. calls' = [calls EXCEPT ![c][n] = [calls[c][n] EXCEPT !.stage = "TOLD"]]
  BY DEF Receive
<1>6. Becomes(c, n, [calls[c][n] EXCEPT !.stage = "TOLD"])
  BY <1>2, <1>4, <1>5, CallBecomes DEF TypeOK, CallsOK
<1> QED
  BY <1>2, <1>6 DEF Receive, Last

\* A handler answers: its call is answered, and the mutex is free.
LEMMA AnswerStep ==
    ASSUME TypeOK, NEW c \in Clients, NEW n \in 1..Len(calls[c]),
           NEW outcome \in {"DONE", "REFUSED"}, NEW shows \in Seq(Event),
           AnswerWith(c, n, outcome, shows)
    PROVE  /\ Becomes(c, n, [calls[c][n] EXCEPT !.stage = "ANSWERED", !.outcome = outcome,
                                               !.new = shows])
           /\ mutex' = NoCall
<1> DEFINE y == [calls[c][n] EXCEPT !.stage = "ANSWERED", !.outcome = outcome, !.new = shows]
<1>1. calls[c][n] \in Call
  BY ElementOfSeq DEF TypeOK
<1>2. y \in Call
  BY <1>1 DEF Call
<1>3. calls' = [calls EXCEPT ![c][n] = y]
  BY DEF AnswerWith
<1> HIDE DEF y
<1>4. Becomes(c, n, y)
  BY <1>2, <1>3, CallBecomes DEF TypeOK, CallsOK
<1> QED
  BY <1>4 DEF AnswerWith, Unlocked, y

\* A handler has computed the case its command leaves.
LEMMA ProceedStep ==
    ASSUME TypeOK, NEW c \in Clients, NEW n \in 1..Len(calls[c]), NEW new \in Seq(Event),
           Proceed(c, n, new)
    PROVE  /\ Becomes(c, n, [calls[c][n] EXCEPT !.stage = "COMMIT", !.new = new])
           /\ UNCHANGED mutex
<1> DEFINE y == [calls[c][n] EXCEPT !.stage = "COMMIT", !.new = new]
<1>1. calls[c][n] \in Call
  BY ElementOfSeq DEF TypeOK
<1>2. y \in Call
  BY <1>1 DEF Call
<1>3. calls' = [calls EXCEPT ![c][n] = y]
  BY DEF Proceed
<1> HIDE DEF y
<1>4. Becomes(c, n, y)
  BY <1>2, <1>3, CallBecomes DEF TypeOK, CallsOK
<1> QED
  BY <1>4 DEF Proceed, y

-----------------------------------------------------------------------------
(* The inductive invariant *)

Inside(x) == x.stage \in {"FETCH", "COMMIT"}
Answered(x) == x.stage \in {"ANSWERED", "TOLD"}

\* Whether the case as it is now would take the command, and the case it would leave.
Acceptable(b) ==
    IF Kind(b) = "CREATE" THEN cases[b.case] = <<>> ELSE Accepted(b, cases[b.case])
Outcome(r, b) == (IF Kind(b) = "CREATE" THEN <<>> ELSE cases[b.case]) \o Made(r, b)

\* A refusal no later step can turn into an effect: the request is malformed, its id
\* was spent on another, or what the command saw of the case is not the case any more.
Hopeless(r, b) ==
    \/ Kind(b) = "BAD"
    \/ Known(r, b) # Unspent /\ Known(r, b).body # b
    \/ Known(r, b) = Unspent /\ ~Acceptable(b)

\* What is known of a call at each of its stages.
Settled(x) ==
    LET r == x.request
        b == x.body
    IN  /\ b.form \in Forms /\ b.base <= Len(cases[b.case])
        /\ x.stage = "SENT" => x.new = <<>>
        /\ Inside(x) => Kind(b) # "BAD" /\ Known(r, b) = Unspent
        /\ x.stage = "COMMIT" => /\ Kind(b) # "CREATE" => Acceptable(b)
                                 /\ x.new = Outcome(r, b)
        /\ Answered(x) /\ x.outcome = "DONE" =>
              Kind(b) # "BAD" /\ Known(r, b) = [body |-> b, result |-> x.new]
        /\ Answered(x) /\ x.outcome # "DONE" =>
              x.outcome = "REFUSED" /\ x.new = <<>> /\ Hopeless(r, b)

CallsSettled == \A c \in Clients : \A n \in 1..Len(calls[c]) : Settled(calls[c][n])

\* Only the holder of the mutex is between its lookup and its answer.
OneInside ==
    \A c \in Clients : \A n \in 1..Len(calls[c]) : Inside(calls[c][n]) => mutex = <<c, n>>

\* A stored result is the history of the case up to and with the command's own events.
Faithful(r, e) ==
    /\ e.body.base + Weight(e.body) = Len(e.result)
    /\ Len(e.result) <= Len(log[e.body.case])
    /\ \A i \in 1..Len(e.result) : e.result[i] = log[e.body.case][i]
    /\ \A i \in (e.body.base + 1)..Len(e.result) :
          e.result[i] = [request |-> r, body |-> e.body]

ResultsFaithful ==
    \A r \in Requests :
        /\ requests[r] # Unspent => Weight(requests[r].body) > 0 /\ Faithful(r, requests[r])
        /\ validations[r] # Unspent =>
              Kind(validations[r].body) = "CHECK" /\ Faithful(r, validations[r])

\* Every event is in its place, and those made under an id of a client are the events
\* of the command on which the id was spent.
EventsAccounted ==
    \A k \in Cases : \A i \in 1..Len(log[k]) :
        /\ InPlace(log[k][i], k, i)
        /\ log[k][i].request \in Requests =>
              /\ requests[log[k][i].request] # Unspent
              /\ requests[log[k][i].request].body = log[k][i].body

Safe ==
    /\ TypeOK /\ Busy /\ log = cases
    /\ CallsSettled /\ OneInside
    /\ ResultsFaithful /\ EventsAccounted

-----------------------------------------------------------------------------
(* Steps that leave the store alone *)

StoreStays == UNCHANGED <<log, cases, requests, validations>>

\* What is known of a call does not change with other calls or the mutex.
LEMMA SettledStays ==
    ASSUME StoreStays
    PROVE  \A x : Settled(x)' <=> Settled(x)
BY DEF StoreStays, Settled, Acceptable, Outcome, Hopeless, Known, StoredResult

\* A step that leaves the store alone keeps what the invariant says of the store.
LEMMA StoreSafeStays ==
    ASSUME Safe, StoreStays
    PROVE  log' = cases' /\ ResultsFaithful' /\ EventsAccounted'
<1>1. /\ log = cases /\ ResultsFaithful /\ EventsAccounted
      /\ log' = log /\ cases' = cases /\ requests' = requests /\ validations' = validations
  BY DEF Safe, StoreStays
<1>2. \A r, e : Faithful(r, e) => Faithful(r, e)'
  BY <1>1 DEF Faithful
<1>3. ResultsFaithful'
  BY <1>1, <1>2 DEF ResultsFaithful
<1>4. EventsAccounted'
  BY <1>1 DEF EventsAccounted
<1> QED
  BY <1>1, <1>3, <1>4

\* A client's call is not nobody.
LEMMA NobodyIsNoCall ==
    ASSUME NEW c \in Clients, NEW n \in Nat
    PROVE  <<c, n>> # NoCall
BY ServiceAssumptions

\* Everything but the mutex, when one call changes.
LEMMA OneCallChanges ==
    ASSUME Safe, NEW c \in Clients, NEW n \in 1..Len(calls[c]), NEW y,
           Becomes(c, n, y), StoreStays, Settled(y),
           mutex' \in {NoCall, mutex, <<c, n>>},
           session' = session \/ session' = [session EXCEPT ![c] = "IDLE"]
    PROVE  TypeOK' /\ Busy' /\ CallsSettled'
<1>1. CallsSettled'
  <2> SUFFICES ASSUME NEW d \in Clients, NEW m \in 1..Len(calls[d]) PROVE Settled(calls'[d][m])
    BY SettledStays DEF CallsSettled, Becomes
  <2> QED
    BY DEF Becomes, Safe, CallsSettled
<1>2. mutex' = NoCall \/ \E d \in Clients : \E m \in 1..Len(calls'[d]) : mutex' = <<d, m>>
  BY DEF Safe, TypeOK, Becomes
<1>3. TypeOK'
  BY <1>2 DEF Safe, TypeOK, Becomes, StoreStays
<1>4. Busy'
  <2> SUFFICES ASSUME NEW d \in Clients, session'[d] # "IDLE" PROVE calls'[d] # <<>>
    BY DEF Busy
  <2>1. session[d] # "IDLE"
    BY DEF Safe, TypeOK
  <2>2. calls[d] # <<>> /\ calls[d] \in Seq(Call) /\ calls'[d] \in Seq(Call)
    BY <2>1 DEF Safe, Busy, TypeOK, Becomes
  <2>3. Len(calls'[d]) = Len(calls[d])
    BY DEF Becomes
  <2> QED
    BY <2>2, <2>3, EmptySeq
<1> QED
  BY <1>1, <1>3, <1>4

\* The mutex of a call that stays where it is with respect to it.
LEMMA MutexStays ==
    ASSUME Safe, NEW c \in Clients, NEW n \in 1..Len(calls[c]), NEW y,
           Becomes(c, n, y), UNCHANGED mutex, Inside(y) => Inside(calls[c][n])
    PROVE  OneInside'
<1> SUFFICES ASSUME NEW d \in Clients, NEW m \in 1..Len(calls[d]), Inside(calls'[d][m])
             PROVE  mutex' = <<d, m>>
  BY DEF OneInside, Inside, Becomes
<1> QED
  BY DEF Becomes, Safe, OneInside

\* The mutex of a call that gets it.
LEMMA MutexTaken ==
    ASSUME Safe, NEW c \in Clients, NEW n \in 1..Len(calls[c]), NEW y,
           Becomes(c, n, y), Free, mutex' = <<c, n>>
    PROVE  OneInside'
<1> SUFFICES ASSUME NEW d \in Clients, NEW m \in 1..Len(calls[d]), Inside(calls'[d][m])
             PROVE  d = c /\ m = n
  BY DEF OneInside, Inside, Becomes
<1>1. <<d, m>> # NoCall
  BY NobodyIsNoCall
<1> QED
  BY <1>1 DEF Becomes, Safe, OneInside, Free

\* The mutex of a call that is answered, by its holder or at once.
LEMMA MutexReleased ==
    ASSUME Safe, NEW c \in Clients, NEW n \in 1..Len(calls[c]), NEW y,
           Becomes(c, n, y), Free \/ Inside(calls[c][n]), ~Inside(y)
    PROVE  OneInside'
<1> SUFFICES ASSUME NEW d \in Clients, NEW m \in 1..Len(calls[d]), Inside(calls'[d][m])
             PROVE  FALSE
  BY DEF OneInside, Inside, Becomes
<1>1. <<d, m>> # NoCall
  BY NobodyIsNoCall
<1>2. Inside(calls[d][m]) /\ ~(d = c /\ m = n)
  BY DEF Becomes
<1>3. mutex = <<d, m>>
  BY <1>2 DEF Safe, OneInside
<1> QED
  BY <1>1, <1>2, <1>3 DEF Safe, OneInside, Free

\* A new call changes nothing for the others.
LEMMA CallAdded ==
    ASSUME Safe, NEW c \in Clients, NEW y, Places(c, y), StoreStays, UNCHANGED mutex,
           Settled(y), ~Inside(y), session' = [session EXCEPT ![c] = "WAITING"]
    PROVE  Safe'
<1>1. \A d \in Clients : calls[d] \in Seq(Call) /\ Len(calls[d]) \in Nat
  BY DEF Safe, TypeOK
<1>2. CallsSettled'
  <2> SUFFICES ASSUME NEW d \in Clients, NEW m \in 1..Len(calls'[d]) PROVE Settled(calls'[d][m])
    BY SettledStays DEF CallsSettled
  <2>1. CASE d = c /\ m = Len(calls[d]) + 1
    BY <2>1 DEF Places
  <2>2. CASE ~(d = c /\ m = Len(calls[d]) + 1)
    <3>1. m \in 1..Len(calls[d]) /\ calls'[d][m] = calls[d][m]
      BY <1>1, <2>2 DEF Places
    <3> QED
      BY <3>1 DEF Safe, CallsSettled
  <2> QED
    BY <2>1, <2>2
<1>3. OneInside'
  <2> SUFFICES ASSUME NEW d \in Clients, NEW m \in 1..Len(calls'[d]), Inside(calls'[d][m])
               PROVE  mutex' = <<d, m>>
    BY DEF OneInside, Inside
  <2>1. ~(d = c /\ m = Len(calls[d]) + 1)
    BY DEF Places
  <2>2. m \in 1..Len(calls[d]) /\ calls'[d][m] = calls[d][m]
    BY <1>1, <2>1 DEF Places
  <2> QED
    BY <2>2 DEF Safe, OneInside
<1>4. mutex' = NoCall \/ \E d \in Clients : \E m \in 1..Len(calls'[d]) : mutex' = <<d, m>>
  BY <1>1 DEF Safe, TypeOK, Places
<1>5. TypeOK'
  BY <1>4 DEF Safe, TypeOK, Places, StoreStays
<1>6. Busy'
  <2> SUFFICES ASSUME NEW d \in Clients, session'[d] # "IDLE" PROVE calls'[d] # <<>>
    BY DEF Busy
  <2>1. CASE d = c
    BY <1>1, <2>1, EmptySeq DEF Places
  <2>2. CASE d # c
    <3>1. calls[d] # <<>> /\ Len(calls'[d]) = Len(calls[d])
      BY <2>2 DEF Safe, TypeOK, Busy, Places
    <3> QED
      BY <1>1, <3>1, EmptySeq
  <2> QED
    BY <2>1, <2>2
<1> QED
  BY <1>2, <1>3, <1>5, <1>6, StoreSafeStays DEF Safe

-----------------------------------------------------------------------------
(* Every step keeps the invariant *)

\* The invariant holds at first.
LEMMA SafeInit == Init => Safe
<1> SUFFICES ASSUME Init PROVE Safe
  OBVIOUS
<1>1. TypeOK /\ Busy /\ log = cases /\ CallsSettled /\ OneInside /\ ResultsFaithful
  BY TypeInit DEF Init, Busy, CallsSettled, OneInside, ResultsFaithful
<1>2. EventsAccounted
  BY ServiceAssumptions DEF Init, EventsAccounted
<1> QED
  BY <1>1, <1>2 DEF Safe

\* Issue keeps the invariant: a new call knows the case as it is.
LEMMA SafeIssue ==
    ASSUME Safe, NEW c \in Clients, NEW r \in Requests, NEW k \in Cases, NEW f \in Forms,
           Issue(c, r, k, f)
    PROVE  Safe'
<1>1. PICK b \in Body : Places(c, NewCall(r, b)) /\ b.form \in Forms /\ b.base <= Len(cases[b.case])
  BY IssueStep DEF Safe
<1>2. b.base \in Nat
  BY DEF Body
<1>3. b.base <= Len(cases[b.case])
  BY <1>1, <1>2
<1>4. Settled(NewCall(r, b)) /\ ~Inside(NewCall(r, b))
  BY <1>1, <1>3 DEF NewCall, Settled, Inside, Answered
<1> QED
  BY <1>1, <1>4, IssueStep, CallAdded DEF Safe, StoreStays

\* Retry keeps the invariant: the copy carries the same request and body.
LEMMA SafeRetry ==
    ASSUME Safe, NEW c \in Clients, Retry(c)
    PROVE  Safe'
<1> DEFINE y == NewCall(Last(c).request, Last(c).body)
<1>1. Settled(Last(c))
  BY RetryStep DEF Safe, CallsSettled, Last
<1>2. Settled(y) /\ ~Inside(y)
  BY <1>1 DEF NewCall, Settled, Inside, Answered
<1> QED
  BY <1>2, RetryStep, CallAdded DEF Safe, StoreStays

\* Receive keeps the invariant.
LEMMA SafeReceive ==
    ASSUME Safe, NEW c \in Clients, Receive(c)
    PROVE  Safe'
<1> DEFINE n == Len(calls[c])
           y == [calls[c][n] EXCEPT !.stage = "TOLD"]
<1>1. n \in 1..n /\ Becomes(c, n, y) /\ calls[c][n].stage = "ANSWERED"
  BY ReceiveStep DEF Safe
<1>2. calls[c][n] \in Call /\ Settled(calls[c][n])
  BY <1>1, ElementOfSeq DEF Safe, TypeOK, CallsSettled
<1>3. Settled(y) /\ ~Inside(y)
  BY <1>1, <1>2 DEF Settled, Inside, Answered, Call
<1>4. StoreStays /\ UNCHANGED mutex /\ session' = [session EXCEPT ![c] = "IDLE"]
  BY ReceiveStep DEF Safe, StoreStays
<1> HIDE DEF n, y
<1>5. TypeOK' /\ Busy' /\ CallsSettled' /\ OneInside'
  BY <1>1, <1>3, <1>4, OneCallChanges, MutexStays DEF n
<1> QED
  BY <1>4, <1>5, StoreSafeStays DEF Safe

\* Refuse keeps the invariant.
LEMMA SafeRefuse ==
    ASSUME Safe, NEW c \in Clients, NEW n \in 1..Len(calls[c]), RefuseBadRequest(c, n)
    PROVE  Safe'
<1> DEFINE y == [calls[c][n] EXCEPT !.stage = "ANSWERED", !.outcome = "REFUSED"]
<1>1. calls[c][n] \in Call /\ Settled(calls[c][n])
  BY ElementOfSeq DEF Safe, TypeOK, CallsSettled
<1>2. y \in Call
  BY <1>1 DEF Call
<1>3. calls' = [calls EXCEPT ![c][n] = y]
  BY DEF RefuseBadRequest
<1>4. Settled(y) /\ ~Inside(y)
  BY <1>1 DEF RefuseBadRequest, Settled, Inside, Answered, Hopeless, Call
<1>5. StoreStays /\ UNCHANGED <<mutex, session>>
  BY DEF RefuseBadRequest, StoreStays
<1> HIDE DEF y
<1>6. Becomes(c, n, y)
  BY <1>2, <1>3, CallBecomes DEF Safe, TypeOK, CallsOK
<1>7. TypeOK' /\ Busy' /\ CallsSettled' /\ OneInside'
  BY <1>4, <1>5, <1>6, OneCallChanges, MutexStays
<1> QED
  BY <1>5, <1>7, StoreSafeStays DEF Safe

\* A call in the type of its parts.
LEMMA CallHere ==
    ASSUME Safe, NEW c \in Clients, NEW n \in 1..Len(calls[c])
    PROVE  /\ calls[c][n] \in Call /\ Settled(calls[c][n])
           /\ calls[c][n].request \in Requests /\ calls[c][n].body \in Body
           /\ calls[c][n].new \in Seq(Event)
           /\ calls[c][n].body.case \in Cases /\ calls[c][n].body.base \in Nat
<1>1. calls[c][n] \in Call
  BY ElementOfSeq DEF Safe, TypeOK
<1>2. Settled(calls[c][n])
  BY DEF Safe, CallsSettled
<1>3. /\ calls[c][n].request \in Requests /\ calls[c][n].body \in Body
      /\ calls[c][n].new \in Seq(Event)
  BY <1>1 DEF Call
<1>4. calls[c][n].body.case \in Cases /\ calls[c][n].body.base \in Nat
  BY <1>3 DEF Body
<1> QED
  BY <1>1, <1>2, <1>3, <1>4

\* What Enter finds under an id: nothing, or a result of the right type.
LEMMA KnownType ==
    ASSUME TypeOK, NEW r \in Requests, NEW b
    PROVE  Known(r, b) = Unspent \/ Known(r, b) \in Entry
BY DEF TypeOK, Known, StoredResult

\* Enter keeps the invariant: a replay answers with what the store holds.
LEMMA SafeEnter ==
    ASSUME Safe, NEW c \in Clients, NEW n \in 1..Len(calls[c]), Enter(c, n)
    PROVE  Safe'
<1> DEFINE x == calls[c][n]
           r == x.request
           b == x.body
           entry == Known(r, b)
<1>1. x \in Call /\ Settled(x) /\ r \in Requests
  BY CallHere
<1>2. /\ x.stage = "SENT" /\ Kind(b) # "BAD" /\ Free
      /\ StoreStays /\ UNCHANGED session
  BY DEF Enter, StoreStays
<1>3. CASE entry = Unspent
  <2> DEFINE y == [x EXCEPT !.stage = "FETCH"]
  <2>1. mutex' = <<c, n>> /\ calls' = [calls EXCEPT ![c][n] = y]
    BY <1>3 DEF Enter
  <2>2. y \in Call
    BY <1>1 DEF Call
  <2>3. Settled(y)
    BY <1>1, <1>2, <1>3 DEF Settled, Inside, Answered, Call
  <2> HIDE DEF x, y
  <2>4. Becomes(c, n, y)
    BY <2>1, <2>2, CallBecomes DEF Safe, TypeOK, CallsOK
  <2>5. TypeOK' /\ Busy' /\ CallsSettled' /\ OneInside'
    BY <1>2, <2>1, <2>3, <2>4, OneCallChanges, MutexTaken
  <2> QED
    BY <1>2, <2>5, StoreSafeStays DEF Safe
<1>4. CASE entry # Unspent
  <2> DEFINE outcome == OutcomeOf(entry, b)
             shows == IF outcome = "DONE" THEN entry.result ELSE <<>>
             y == [x EXCEPT !.stage = "ANSWERED", !.outcome = outcome, !.new = shows]
  <2>1. AnswerWith(c, n, outcome, shows)
    BY <1>4 DEF Enter
  <2>2. entry \in Entry
    BY <1>1, <1>4, KnownType DEF Safe
  <2>3. outcome \in {"DONE", "REFUSED"} /\ (outcome = "DONE" <=> entry.body = b)
    BY DEF OutcomeOf
  <2>4. shows \in Seq(Event)
    BY <2>2 DEF Entry
  <2>5. entry = [body |-> entry.body, result |-> entry.result]
    BY <2>2 DEF Entry
  <2>6. /\ y.stage = "ANSWERED" /\ y.outcome = outcome /\ y.new = shows
        /\ y.request = r /\ y.body = b
    BY <1>1 DEF Call
  <2> HIDE DEF x, y, outcome, shows
  <2>7. Settled(y) /\ ~Inside(y)
    <3>1. CASE outcome = "DONE"
      BY <1>1, <1>2, <2>3, <2>5, <2>6, <3>1 DEF Settled, Inside, Answered, shows
    <3>2. CASE outcome = "REFUSED"
      BY <1>1, <1>4, <2>3, <2>6, <3>2 DEF Settled, Inside, Answered, Hopeless, shows
    <3> QED
      BY <2>3, <3>1, <3>2
  <2>8. Becomes(c, n, y) /\ mutex' = NoCall
    BY <2>1, <2>3, <2>4, AnswerStep DEF Safe, x, y
  <2>9. TypeOK' /\ Busy' /\ CallsSettled' /\ OneInside'
    BY <1>2, <2>7, <2>8, OneCallChanges, MutexReleased
  <2> QED
    BY <1>2, <2>9, StoreSafeStays DEF Safe
<1> QED
  BY <1>3, <1>4

\* Fetch keeps the invariant: what was read is a beginning of the case.
LEMMA SafeFetch ==
    ASSUME Safe, NEW c \in Clients, NEW n \in 1..Len(calls[c]), Fetch(c, n)
    PROVE  Safe'
<1> DEFINE x == calls[c][n]
           r == x.request
           b == x.body
           h == cases[b.case]
           new == IF Kind(b) = "CREATE" THEN Made(r, b) ELSE h \o Made(r, b)
<1>1. x \in Call /\ Settled(x) /\ r \in Requests /\ b \in Body /\ b.case \in Cases
  BY CallHere
<1>2. x.stage = "FETCH" /\ StoreStays /\ UNCHANGED session
  BY DEF Fetch, StoreStays
<1>3. h \in Seq(Event) /\ Made(r, b) \in Seq(Event)
  BY <1>1, MadeType DEF Safe, TypeOK
<1>4. /\ Kind(b) # "BAD" /\ Known(r, b) = Unspent
      /\ b.form \in Forms /\ b.base <= Len(cases[b.case])
  BY <1>1, <1>2 DEF Settled, Inside
<1>5. CASE Kind(b) = "CREATE" \/ Accepted(b, h)
  <2> DEFINE y == [x EXCEPT !.stage = "COMMIT", !.new = new]
  <2>1. Proceed(c, n, new)
    BY <1>5 DEF Fetch
  <2>2. new \in Seq(Event) /\ new = Outcome(r, b)
    BY <1>3, ConcatProperties, ConcatEmptySeq DEF Outcome
  <2>3. Kind(b) # "CREATE" => Acceptable(b)
    BY <1>5 DEF Acceptable
  <2>4. y.stage = "COMMIT" /\ y.new = new /\ y.request = r /\ y.body = b
    BY <1>1 DEF Call
  <2> HIDE DEF x, y, new
  <2>5. Settled(y)
    BY <1>4, <2>2, <2>3, <2>4 DEF Settled, Inside, Answered
  <2>6. Becomes(c, n, y) /\ UNCHANGED mutex
    BY <2>1, <2>2, ProceedStep DEF Safe, x, y
  <2>7. Inside(calls[c][n])
    BY <1>2 DEF Inside, x
  <2>8. TypeOK' /\ Busy' /\ CallsSettled' /\ OneInside'
    BY <1>2, <2>5, <2>6, <2>7, OneCallChanges, MutexStays
  <2> QED
    BY <1>2, <2>8, StoreSafeStays DEF Safe
<1>6. CASE Kind(b) # "CREATE" /\ ~Accepted(b, h)
  <2> DEFINE y == [x EXCEPT !.stage = "ANSWERED", !.outcome = "REFUSED", !.new = <<>>]
  <2>1. AnswerWith(c, n, "REFUSED", <<>>)
    BY <1>6 DEF Fetch
  <2>2. /\ y.stage = "ANSWERED" /\ y.outcome = "REFUSED" /\ y.new = <<>>
        /\ y.request = r /\ y.body = b
    BY <1>1 DEF Call
  <2>3. Hopeless(r, b)
    BY <1>4, <1>6 DEF Hopeless, Acceptable
  <2> HIDE DEF x, y
  <2>4. Settled(y) /\ ~Inside(y)
    BY <1>4, <2>2, <2>3 DEF Settled, Inside, Answered
  <2>5. Becomes(c, n, y) /\ mutex' = NoCall
    <3>1. <<>> \in Seq(Event)
      OBVIOUS
    <3> QED
      BY <2>1, <3>1, AnswerStep DEF Safe, x, y
  <2>6. Inside(calls[c][n])
    BY <1>2 DEF Inside, x
  <2>7. TypeOK' /\ Busy' /\ CallsSettled' /\ OneInside'
    BY <1>2, <2>4, <2>5, <2>6, OneCallChanges, MutexReleased
  <2> QED
    BY <1>2, <2>7, StoreSafeStays DEF Safe
<1> QED
  BY <1>5, <1>6

\* A command that is about to take effect was made for the case as it is, and no
\* other was executed under its id.
LEMMA CommitFacts ==
    ASSUME Safe, NEW c \in Clients, NEW n \in 1..Len(calls[c]), Commit(c, n),
           Storable(calls[c][n].request, calls[c][n].body)
    PROVE  LET x == calls[c][n]
               r == x.request
               b == x.body
           IN  /\ Inside(x) /\ Kind(b) # "BAD" /\ Known(r, b) = Unspent /\ Acceptable(b)
               /\ b.base = Len(cases[b.case])
               /\ Kind(b) = "SIGN" => b.snapshot = b.base
               /\ x.new = cases[b.case] \o Made(r, b)
<1> DEFINE x == calls[c][n]
           r == x.request
           b == x.body
<1>1. /\ Settled(x) /\ x.stage = "COMMIT" /\ r \in Requests /\ b \in Body
      /\ b.case \in Cases /\ b.base \in Nat
  BY CallHere DEF Commit
<1>2. /\ Kind(b) # "BAD" /\ Known(r, b) = Unspent /\ b.base <= Len(cases[b.case])
      /\ Kind(b) # "CREATE" => Acceptable(b)
      /\ x.new = Outcome(r, b) /\ Inside(x)
  BY <1>1 DEF Settled, Inside
<1>3. Storable(r, b)
  OBVIOUS
<1> HIDE DEF x, r, b
<1>4. CASE Kind(b) = "CREATE"
  <2>1. cases[b.case] = <<>>
    BY <1>3, <1>4 DEF Storable
  <2>2. b.base = 0 /\ Len(cases[b.case]) = 0
    BY <1>1, <1>2, <2>1, EmptySeq
  <2> QED
    BY <1>2, <1>4, <2>1, <2>2 DEF Acceptable, Outcome, x, r, b
<1>5. CASE Kind(b) # "CREATE"
  <2>1. Accepted(b, cases[b.case])
    BY <1>2, <1>5 DEF Acceptable
  <2>2. b.base = Len(cases[b.case]) /\ (Kind(b) = "SIGN" => b.snapshot = b.base)
    BY <2>1 DEF Accepted, AtRevision, FreshSnapshot
  <2> QED
    BY <1>2, <1>5, <2>2 DEF Outcome, x, r, b
<1> QED
  BY <1>4, <1>5

\* A command that makes no events.
LEMMA NothingMade ==
    ASSUME NEW r \in Requests, NEW b \in Body, Weight(b) = 0, NEW h \in Seq(Event)
    PROVE  h \o Made(r, b) = h
<1>1. Made(r, b) \in Seq(Event) /\ Len(Made(r, b)) = 0
  BY MadeType
<1>2. Made(r, b) = <<>>
  BY <1>1, EmptySeq
<1> QED
  BY <1>2, ConcatEmptySeq

\* What the commit of a validation and that of any other command do to the store.
After(r, b) == cases[b.case] \o Made(r, b)

Ready(r, b) ==
    /\ Known(r, b) = Unspent /\ Acceptable(b) /\ b.form \in Forms
    /\ b.base = Len(cases[b.case])
    /\ Kind(b) = "SIGN" => b.snapshot = b.base

CheckStored(r, b) ==
    /\ Ready(r, b) /\ Kind(b) = "CHECK"
    /\ validations' = [validations EXCEPT ![r] = [body |-> b, result |-> cases[b.case]]]
    /\ UNCHANGED <<log, cases, requests>>

TookEffect(r, b) ==
    /\ Ready(r, b) /\ Kind(b) \notin {"BAD", "CHECK"}
    /\ log' = [log EXCEPT ![b.case] = After(r, b)]
    /\ cases' = [cases EXCEPT ![b.case] = After(r, b)]
    /\ requests' = [requests EXCEPT ![r] = [body |-> b, result |-> After(r, b)]]
    /\ UNCHANGED validations

\* The three ways a commit ends.
LEMMA CommitStep ==
    ASSUME Safe, NEW c \in Clients, NEW n \in 1..Len(calls[c]), Commit(c, n)
    PROVE  LET x == calls[c][n]
               r == x.request
               b == x.body
           IN  /\ x.stage = "COMMIT" /\ Inside(x) /\ UNCHANGED session
               /\ \/ /\ AnswerWith(c, n, "REFUSED", <<>>)
                     /\ StoreStays /\ Hopeless(r, b)
                  \/ /\ AnswerWith(c, n, "DONE", cases[b.case])
                     /\ CheckStored(r, b)
                  \/ /\ AnswerWith(c, n, "DONE", After(r, b))
                     /\ TookEffect(r, b)
<1> DEFINE x == calls[c][n]
           r == x.request
           b == x.body
<1>1. /\ Settled(x) /\ r \in Requests /\ b \in Body /\ b.case \in Cases
      /\ cases[b.case] \in Seq(Event)
  BY CallHere DEF Safe, TypeOK
<1>2. x.stage = "COMMIT" /\ Inside(x) /\ UNCHANGED session
  BY DEF Commit, Inside
<1>3. Kind(b) # "BAD" /\ Known(r, b) = Unspent /\ b.form \in Forms
  BY <1>1, <1>2 DEF Settled
<1>4. CASE ~Storable(r, b)
  <2>1. AnswerWith(c, n, "REFUSED", <<>>) /\ StoreStays
    BY <1>4 DEF Commit, StoreStays
  <2>2. Kind(b) = "CREATE" /\ cases[b.case] # <<>>
    BY <1>3, <1>4 DEF Storable
  <2>3. Hopeless(r, b)
    BY <1>3, <2>2 DEF Hopeless, Acceptable
  <2> QED
    BY <1>2, <2>1, <2>3
<1>5. CASE Storable(r, b)
  <2>1. Ready(r, b) /\ x.new = After(r, b)
    BY <1>3, <1>5, CommitFacts DEF Ready, After
  <2>2. CASE Kind(b) = "CHECK"
    <3>1. Weight(b) = 0
      BY <2>2 DEF Weight
    <3>2. x.new = cases[b.case]
      BY <1>1, <2>1, <3>1, NothingMade DEF After
    <3>3. AnswerWith(c, n, "DONE", x.new)
      BY <1>5 DEF Commit
    <3>4. /\ validations' = [validations EXCEPT ![r] = [body |-> b, result |-> x.new]]
          /\ UNCHANGED <<log, cases, requests>>
      BY <1>5, <2>2 DEF Commit
    <3>5. CheckStored(r, b)
      BY <2>1, <2>2, <3>2, <3>4 DEF CheckStored
    <3> QED
      BY <1>2, <3>2, <3>3, <3>5
  <2>3. CASE Kind(b) # "CHECK"
    <3>1. AnswerWith(c, n, "DONE", x.new)
      BY <1>5 DEF Commit
    <3>2. /\ log' = [log EXCEPT ![b.case] = log[b.case] \o Made(r, b)]
          /\ cases' = [cases EXCEPT ![b.case] = x.new]
          /\ requests' = [requests EXCEPT ![r] = [body |-> b, result |-> x.new]]
          /\ UNCHANGED validations
      BY <1>5, <2>3 DEF Commit
    <3>3. log[b.case] \o Made(r, b) = After(r, b)
      BY DEF Safe, After
    <3>4. TookEffect(r, b)
      BY <1>3, <2>1, <2>3, <3>2, <3>3 DEF TookEffect
    <3> QED
      BY <1>2, <2>1, <3>1, <3>4
  <2> QED
    BY <2>2, <2>3
<1> QED
  BY <1>4, <1>5

\* A result stays faithful when the log does not change.
LEMMA FaithfulStays ==
    ASSUME UNCHANGED log
    PROVE  \A q, e : Faithful(q, e)' <=> Faithful(q, e)
BY DEF Faithful

\* A validation enters its result and changes nothing else: what is known of calls
\* outside the mutex, and of the store, remains true.
LEMMA CheckStoredSafe ==
    ASSUME Safe, NEW r \in Requests, NEW b \in Body, CheckStored(r, b)
    PROVE  /\ validations' \in [Requests -> Entry \cup {Unspent}]
           /\ \A z \in Call : Settled(z) /\ ~Inside(z) => Settled(z)'
           /\ \A z \in Call : z.request = r /\ z.body = b /\ z.stage = "ANSWERED"
                             /\ z.outcome = "DONE" /\ z.new = cases[b.case] => Settled(z)'
           /\ ResultsFaithful' /\ EventsAccounted'
<1> DEFINE entry == [body |-> b, result |-> cases[b.case]]
<1>1. b.case \in Cases /\ b.base \in Nat /\ cases[b.case] \in Seq(Event)
  BY DEF Body, Safe, TypeOK
<1>2. entry \in Entry /\ entry # Unspent /\ entry.body = b /\ entry.result = cases[b.case]
  BY <1>1, ServiceAssumptions DEF Entry
<1>3. /\ Known(r, b) = Unspent /\ Acceptable(b) /\ b.form \in Forms
      /\ b.base = Len(cases[b.case]) /\ Kind(b) = "CHECK"
      /\ validations' = [validations EXCEPT ![r] = entry]
      /\ UNCHANGED <<log, cases, requests>>
  BY DEF CheckStored, Ready
<1> HIDE DEF entry
<1>4. validations' \in [Requests -> Entry \cup {Unspent}]
  BY <1>2, <1>3 DEF Safe, TypeOK
<1>5. validations[r] = Unspent /\ validations'[r] = entry
      /\ \A q \in Requests : q # r => validations'[q] = validations[q]
  BY <1>3 DEF Known, Safe, TypeOK
<1>6. ASSUME NEW z \in Call, Settled(z), ~Inside(z) PROVE Settled(z)'
  <2>1. z.request \in Requests
    BY DEF Call
  <2>2. Acceptable(z.body)' <=> Acceptable(z.body)
    BY <1>3 DEF Acceptable
  <2>3. CASE z.request = r /\ Kind(z.body) = "CHECK"
    <3>1. Known(z.request, z.body) = Unspent /\ Known(z.request, z.body)' = entry
      BY <1>5, <2>3 DEF Known
    <3>2. ~(Answered(z) /\ z.outcome = "DONE")
      <4>1. [body |-> z.body, result |-> z.new] \in Entry
        BY DEF Call, Entry
      <4> QED
        BY <1>6, <3>1, <4>1, ServiceAssumptions DEF Settled
    <3>3. Answered(z) => ~Acceptable(z.body)
      BY <1>6, <2>3, <3>1, <3>2 DEF Settled, Hopeless
    <3>4. Answered(z) => Hopeless(z.request, z.body)'
      BY <1>2, <1>3, <3>1, <3>3 DEF Hopeless
    <3> QED
      BY <1>3, <1>6, <3>2, <3>4 DEF Settled, Inside
  <2>4. CASE ~(z.request = r /\ Kind(z.body) = "CHECK")
    <3>1. Known(z.request, z.body)' = Known(z.request, z.body)
      BY <1>3, <1>5, <2>1, <2>4 DEF Known, StoredResult
    <3>2. Hopeless(z.request, z.body)' <=> Hopeless(z.request, z.body)
      BY <2>2, <3>1 DEF Hopeless
    <3> QED
      BY <1>3, <1>6, <3>1, <3>2 DEF Settled, Inside
  <2> QED
    BY <2>3, <2>4
<1>7. ASSUME NEW z \in Call, z.request = r, z.body = b, z.stage = "ANSWERED",
             z.outcome = "DONE", z.new = cases[b.case]
      PROVE  Settled(z)'
  <2>1. Known(r, b)' = [body |-> b, result |-> cases[b.case]]
    BY <1>3, <1>5 DEF Known, entry
  <2>2. b.base <= Len(cases'[b.case])
    BY <1>1, <1>3
  <2> QED
    BY <1>3, <1>7, <2>1, <2>2 DEF Settled, Inside, Answered
<1>8. ResultsFaithful'
  <2>1. Weight(b) = 0
    BY <1>3 DEF Weight
  <2>2. Faithful(r, entry)
    BY <1>1, <1>2, <1>3, <2>1 DEF Faithful, Safe
  <2>3. ASSUME NEW q \in Requests, requests'[q] # Unspent
        PROVE  Weight(requests'[q].body) > 0 /\ Faithful(q, requests'[q])
    BY <1>3, <2>3 DEF Safe, ResultsFaithful
  <2>4. ASSUME NEW q \in Requests, validations'[q] # Unspent
        PROVE  Kind(validations'[q].body) = "CHECK" /\ Faithful(q, validations'[q])
    <3>1. CASE q = r
      BY <1>2, <1>3, <1>5, <2>2, <3>1
    <3>2. CASE q # r
      BY <1>5, <2>4, <3>2 DEF Safe, ResultsFaithful
    <3> QED
      BY <3>1, <3>2
  <2> QED
    BY <1>3, <2>3, <2>4, FaithfulStays DEF ResultsFaithful
<1>9. EventsAccounted'
  BY <1>3 DEF Safe, EventsAccounted
<1> QED
  BY <1>4, <1>6, <1>7, <1>8, <1>9

\* The case of a command has its events added, and keeps those before.
Grown(r, b) ==
    /\ log' = cases' /\ cases' \in [Cases -> Seq(Event)]
    /\ After(r, b) \in Seq(Event) /\ Weight(b) > 0
    /\ Len(After(r, b)) = b.base + Weight(b)
    /\ \A i \in 1..(b.base + Weight(b)) :
          After(r, b)[i] = IF i <= b.base THEN cases[b.case][i] ELSE [request |-> r, body |-> b]
    /\ \A k \in Cases : cases'[k] = IF k = b.case THEN After(r, b) ELSE cases[k]

\* A command that takes effect on the length it read appends its events and no others.
LEMMA CaseGrows ==
    ASSUME Safe, NEW r \in Requests, NEW b \in Body, TookEffect(r, b)
    PROVE  Grown(r, b)
<1> DEFINE h == cases[b.case]
           made == Made(r, b)
<1>1. b.case \in Cases /\ b.base \in Nat /\ h \in Seq(Event) /\ b.base = Len(h)
  BY DEF Body, Safe, TypeOK, TookEffect, Ready
<1>2. Weight(b) \in Nat /\ Weight(b) > 0
  BY DEF Weight, TookEffect
<1>3. /\ made \in Seq(Event) /\ Len(made) = Weight(b)
      /\ \A i \in 1..Weight(b) : made[i] = [request |-> r, body |-> b]
  BY MadeType
<1>4. After(r, b) = h \o made
  BY DEF After
<1> HIDE DEF h, made
<1>5. /\ h \o made \in Seq(Event) /\ Len(h \o made) = Len(h) + Len(made)
      /\ \A i \in 1..(Len(h) + Len(made)) :
            (h \o made)[i] = IF i <= Len(h) THEN h[i] ELSE made[i - Len(h)]
  BY <1>1, <1>3, ConcatProperties
<1>6. \A i \in 1..(b.base + Weight(b)) :
          (h \o made)[i] = IF i <= b.base THEN h[i] ELSE [request |-> r, body |-> b]
  <2> SUFFICES ASSUME NEW i \in 1..(b.base + Weight(b))
               PROVE  (h \o made)[i] = IF i <= b.base THEN h[i] ELSE [request |-> r, body |-> b]
    OBVIOUS
  <2>1. (h \o made)[i] = IF i <= b.base THEN h[i] ELSE made[i - b.base]
    BY <1>1, <1>3, <1>5
  <2>2. ~(i <= b.base) => i - b.base \in 1..Weight(b)
    BY <1>1, <1>2
  <2> QED
    BY <1>3, <2>1, <2>2
<1>7. /\ log' = [log EXCEPT ![b.case] = h \o made]
      /\ cases' = [cases EXCEPT ![b.case] = h \o made]
      /\ log = cases /\ cases \in [Cases -> Seq(Event)]
  BY <1>4 DEF TookEffect, Safe, TypeOK
<1>8. /\ log' = cases' /\ cases' \in [Cases -> Seq(Event)]
      /\ \A k \in Cases : cases'[k] = IF k = b.case THEN h \o made ELSE cases[k]
  BY <1>1, <1>5, <1>7
<1> QED
  BY <1>1, <1>2, <1>3, <1>4, <1>5, <1>6, <1>8 DEF Grown, h

\* A command the case does not take as it is, it will not take later either.
LEMMA StaleForEver ==
    ASSUME Safe, NEW r \in Requests, NEW b \in Body, TookEffect(r, b),
           NEW z \in Body, z.base <= Len(cases[z.case]), ~Acceptable(z)
    PROVE  ~Acceptable(z)'
<1>1. z.case \in Cases /\ z.base \in Nat /\ b.base \in Nat /\ Weight(b) \in Nat
  BY WeightType DEF Body
<1> Grown(r, b)
  BY CaseGrows
<1>2. cases[z.case] \in Seq(Event) /\ cases'[z.case] \in Seq(Event)
  BY <1>1 DEF Safe, TypeOK, Grown
<1>3. CASE z.case = b.case
  <2>1. Len(cases'[z.case]) > Len(cases[z.case])
    <3>1. Len(cases'[z.case]) = b.base + Weight(b) /\ b.base = Len(cases[z.case])
      BY <1>1, <1>3 DEF TookEffect, Ready, Grown
    <3> QED
      BY <3>1, <1>1 DEF Grown
  <2>2. Len(cases[z.case]) \in Nat /\ Len(cases'[z.case]) \in Nat
    BY <1>2
  <2>3. cases'[z.case] # <<>>
    BY <1>2, <2>1, <2>2, EmptySeq
  <2>4. z.base # Len(cases'[z.case])
    BY <1>1, <2>1, <2>2
  <2> QED
    BY <2>3, <2>4 DEF Acceptable, Accepted, AtRevision
<1>4. CASE z.case # b.case
  <2>1. cases'[z.case] = cases[z.case]
    BY <1>1, <1>4 DEF Grown
  <2> QED
    BY <2>1 DEF Acceptable
<1> QED
  BY <1>3, <1>4

\* Results stay faithful to a log that grows, and the new one is.
LEMMA FaithfulGrows ==
    ASSUME Safe, NEW r \in Requests, NEW b \in Body, TookEffect(r, b), NEW q, NEW e \in Entry,
           Faithful(q, e) \/ (q = r /\ e.body = b /\ e.result = After(r, b))
    PROVE  Faithful(q, e)'
<1> Grown(r, b)
  BY CaseGrows
<1>1. /\ e.body \in Body /\ e.body.case \in Cases /\ e.body.base \in Nat
      /\ e.result \in Seq(Event) /\ Len(e.result) \in Nat
  BY DEF Entry, Body
<1>2. b.case \in Cases /\ b.base \in Nat /\ Weight(b) \in Nat /\ b.base = Len(log[b.case])
  BY WeightType DEF Body, TookEffect, Ready, Safe
<1>3. \A k \in Cases : log[k] \in Seq(Event) /\ Len(log[k]) \in Nat
  BY DEF Safe, TypeOK
<1>4. CASE Faithful(q, e)
  <2> DEFINE k == e.body.case
  <2>1. Len(e.result) <= Len(log'[k])
    <3>1. Len(e.result) <= Len(log[k]) /\ Len(log[k]) \in Nat
      BY <1>1, <1>3, <1>4 DEF Faithful
    <3>2. CASE k = b.case
      <4>1. Len(log'[k]) = b.base + Weight(b)
        BY <1>1, <3>2 DEF Grown
      <4> QED
        BY <1>1, <1>2, <3>1, <3>2, <4>1
    <3>3. CASE k # b.case
      BY <1>1, <3>1, <3>3 DEF Grown, Safe
    <3> QED
      BY <3>2, <3>3
  <2>2. ASSUME NEW i \in 1..Len(e.result) PROVE e.result[i] = log'[k][i]
    <3>1. i \in 1..Len(log[k]) /\ e.result[i] = log[k][i]
      BY <1>1, <1>3, <1>4 DEF Faithful
    <3>2. CASE k = b.case
      <4>1. i <= b.base /\ i \in 1..(b.base + Weight(b))
        BY <1>2, <3>1, <3>2
      <4>2. log'[k] = After(r, b)
        BY <1>1, <3>2 DEF Grown
      <4>3. After(r, b)[i] = cases[b.case][i]
        BY <4>1 DEF Grown
      <4>4. log[k] = cases[b.case]
        BY <3>2 DEF Safe
      <4> QED
        BY <3>1, <4>2, <4>3, <4>4
    <3>3. CASE k # b.case
      BY <1>1, <3>1, <3>3 DEF Grown, Safe
    <3> QED
      BY <3>2, <3>3
  <2> QED
    BY <1>4, <2>1, <2>2 DEF Faithful
<1>5. CASE q = r /\ e.body = b /\ e.result = After(r, b)
  <2>1. log'[b.case] = After(r, b)
    BY <1>2 DEF Grown
  <2>2. \A i \in (b.base + 1)..Len(e.result) : e.result[i] = [request |-> r, body |-> b]
    BY <1>2, <1>5 DEF Grown
  <2> QED
    BY <1>1, <1>5, <2>1, <2>2 DEF Faithful, Grown
<1> QED
  BY <1>4, <1>5

\* Every event of the longer log is accounted for.
LEMMA AccountedGrows ==
    ASSUME Safe, NEW r \in Requests, NEW b \in Body, TookEffect(r, b)
    PROVE  EventsAccounted'
<1> SUFFICES ASSUME NEW k \in Cases, NEW i \in 1..Len(log'[k])
             PROVE  /\ InPlace(log'[k][i], k, i)
                    /\ log'[k][i].request \in Requests =>
                          /\ requests'[log'[k][i].request] # Unspent
                          /\ requests'[log'[k][i].request].body = log'[k][i].body
  BY DEF EventsAccounted, InPlace
<1> Grown(r, b)
  BY CaseGrows
<1>1. /\ b.case \in Cases /\ b.base \in Nat /\ Weight(b) \in Nat /\ b.base = Len(log[b.case])
      /\ Kind(b) = "SIGN" => b.snapshot = b.base
  BY WeightType DEF Body, TookEffect, Ready, Safe
<1>2. [body |-> b, result |-> After(r, b)] # Unspent
  BY ServiceAssumptions DEF Entry, Grown
<1>3. /\ requests[r] = Unspent
      /\ requests'[r] # Unspent /\ requests'[r].body = b
      /\ \A q \in Requests : q # r => requests'[q] = requests[q]
  BY <1>2 DEF TookEffect, Ready, Known, StoredResult, Safe, TypeOK
<1>4. CASE i \in 1..Len(log[k]) /\ log'[k][i] = log[k][i]
  BY <1>3, <1>4 DEF Safe, EventsAccounted
<1>5. CASE k = b.case /\ i \in (b.base + 1)..(b.base + Weight(b))
           /\ log'[k][i] = [request |-> r, body |-> b]
  <2>1. log'[k][i].request = r /\ log'[k][i].body = b
    BY <1>5
  <2>2. InPlace(log'[k][i], k, i)
    BY <1>1, <1>5, <2>1 DEF InPlace
  <2> QED
    BY <1>3, <2>1, <2>2
<1>6. CASE k = b.case
  <2>1. log'[k] = After(r, b) /\ i \in 1..(b.base + Weight(b))
    BY <1>1, <1>6 DEF Grown
  <2>2. log'[k][i] = IF i <= b.base THEN log[k][i] ELSE [request |-> r, body |-> b]
    BY <1>6, <2>1 DEF Grown, Safe
  <2>3. CASE i <= b.base
    BY <1>1, <1>4, <1>6, <2>1, <2>2, <2>3
  <2>4. CASE ~(i <= b.base)
    <3>1. i \in (b.base + 1)..(b.base + Weight(b))
      BY <1>1, <2>1, <2>4
    <3> QED
      BY <1>5, <1>6, <2>2, <2>4, <3>1
  <2> QED
    BY <2>3, <2>4
<1>7. CASE k # b.case
  <2>1. log'[k] = log[k]
    BY <1>7 DEF Grown, Safe
  <2> QED
    BY <1>4, <2>1
<1> QED
  BY <1>6, <1>7

\* A command that takes effect: the log accounts for its events, its result is
\* faithful, and no call outside the mutex is concerned by more than a longer case.
LEMMA TookEffectSafe ==
    ASSUME Safe, NEW r \in Requests, NEW b \in Body, TookEffect(r, b)
    PROVE  /\ requests' \in [Requests -> Entry \cup {Unspent}]
           /\ \A z \in Call : Settled(z) /\ ~Inside(z) => Settled(z)'
           /\ \A z \in Call : z.request = r /\ z.body = b /\ z.stage = "ANSWERED"
                             /\ z.outcome = "DONE" /\ z.new = After(r, b) => Settled(z)'
           /\ ResultsFaithful' /\ EventsAccounted'
<1> DEFINE entry == [body |-> b, result |-> After(r, b)]
<1>1. b.case \in Cases /\ b.base \in Nat /\ cases[b.case] \in Seq(Event)
      /\ Weight(b) \in Nat
  BY WeightType DEF Body, Safe, TypeOK
<1> Grown(r, b)
  BY CaseGrows
<1>2. entry \in Entry /\ entry # Unspent /\ entry.body = b /\ entry.result = After(r, b)
  BY <1>1, ServiceAssumptions DEF Entry, Grown
<1>3. /\ Known(r, b) = Unspent /\ Acceptable(b) /\ b.form \in Forms
      /\ b.base = Len(cases[b.case]) /\ Kind(b) \notin {"BAD", "CHECK"}
      /\ Kind(b) = "SIGN" => b.snapshot = b.base
      /\ requests' = [requests EXCEPT ![r] = entry]
      /\ UNCHANGED validations
  BY DEF TookEffect, Ready
<1> HIDE DEF entry
<1>4. requests' \in [Requests -> Entry \cup {Unspent}]
  BY <1>2, <1>3 DEF Safe, TypeOK
<1>5. requests[r] = Unspent /\ requests'[r] = entry
      /\ \A q \in Requests : q # r => requests'[q] = requests[q]
  BY <1>3 DEF Known, StoredResult, Safe, TypeOK
<1>6. ASSUME NEW z \in Body, z.base <= Len(cases[z.case]) PROVE z.base <= Len(cases'[z.case])
  <2>1. z.base \in Nat /\ z.case \in Cases /\ Len(cases[z.case]) \in Nat
    BY DEF Body, Safe, TypeOK
  <2>2. cases'[z.case] = IF z.case = b.case THEN After(r, b) ELSE cases[z.case]
    BY <2>1 DEF Grown
  <2>3. Len(After(r, b)) = b.base + Weight(b)
    BY DEF Grown
  <2> QED
    BY <1>1, <1>3, <1>6, <2>1, <2>2, <2>3
<1>7. ASSUME NEW z \in Call, Settled(z), ~Inside(z) PROVE Settled(z)'
  <2>1. z.request \in Requests /\ z.body \in Body
    BY DEF Call
  <2>2. z.body.form \in Forms /\ z.body.base <= Len(cases[z.body.case])
    BY <1>7 DEF Settled
  <2>3. z.body.base <= Len(cases'[z.body.case])
    BY <1>6, <2>1, <2>2
  <2>4. ~Acceptable(z.body) => ~Acceptable(z.body)'
    BY <2>1, <2>2, StaleForEver
  <2>5. CASE z.request = r /\ Kind(z.body) # "CHECK"
    <3>1. Known(z.request, z.body) = Unspent /\ Known(z.request, z.body)' = entry
      BY <1>5, <2>5 DEF Known, StoredResult
    <3>2. ~(Answered(z) /\ z.outcome = "DONE")
      <4>1. [body |-> z.body, result |-> z.new] \in Entry
        BY DEF Call, Entry
      <4> QED
        BY <1>7, <3>1, <4>1, ServiceAssumptions DEF Settled
    <3>3. Answered(z) => Kind(z.body) = "BAD" \/ ~Acceptable(z.body)
      BY <1>7, <2>5, <3>1, <3>2 DEF Settled, Hopeless
    <3>4. Answered(z) => Hopeless(z.request, z.body)'
      BY <1>2, <1>3, <3>1, <3>3 DEF Hopeless
    <3> QED
      BY <1>7, <2>2, <2>3, <3>2, <3>4 DEF Settled, Inside
  <2>6. CASE ~(z.request = r /\ Kind(z.body) # "CHECK")
    <3>1. Known(z.request, z.body)' = Known(z.request, z.body)
      BY <1>3, <1>5, <2>1, <2>6 DEF Known, StoredResult
    <3>2. Hopeless(z.request, z.body) => Hopeless(z.request, z.body)'
      BY <2>4, <3>1 DEF Hopeless
    <3> QED
      BY <1>7, <2>2, <2>3, <3>1, <3>2 DEF Settled, Inside
  <2> QED
    BY <2>5, <2>6
<1>8. ASSUME NEW z \in Call, z.request = r, z.body = b, z.stage = "ANSWERED",
             z.outcome = "DONE", z.new = After(r, b)
      PROVE  Settled(z)'
  <2>1. Known(r, b)' = [body |-> b, result |-> After(r, b)]
    BY <1>3, <1>5 DEF Known, StoredResult, entry
  <2>2. b.base <= Len(cases'[b.case])
    BY <1>1, <1>3, <1>6
  <2> QED
    BY <1>3, <1>8, <2>1, <2>2 DEF Settled, Inside, Answered
<1>9. ResultsFaithful'
  <2>1. ASSUME NEW q \in Requests, requests'[q] # Unspent
        PROVE  Weight(requests'[q].body) > 0 /\ Faithful(q, requests[q])'
    <3>1. requests'[q] \in Entry
      BY <1>4, <2>1
    <3>2. CASE q = r
      BY <1>2, <1>5, <3>1, <3>2, FaithfulGrows DEF Grown
    <3>3. CASE q # r
      BY <1>5, <2>1, <3>1, <3>3, FaithfulGrows DEF Safe, ResultsFaithful
    <3> QED
      BY <3>2, <3>3
  <2>2. ASSUME NEW q \in Requests, validations'[q] # Unspent
        PROVE  Kind(validations'[q].body) = "CHECK" /\ Faithful(q, validations[q])'
    <3>1. validations'[q] = validations[q] /\ validations'[q] \in Entry
      BY <1>3, <2>2 DEF Safe, TypeOK
    <3> QED
      BY <2>2, <3>1, FaithfulGrows DEF Safe, ResultsFaithful
  <2> QED
    BY <2>1, <2>2 DEF ResultsFaithful
<1>10. EventsAccounted'
  BY AccountedGrows
<1> QED
  BY <1>4, <1>7, <1>8, <1>9, <1>10

\* Commit keeps the invariant: the log, the results and the case move together.
LEMMA SafeCommit ==
    ASSUME Safe, NEW c \in Clients, NEW n \in 1..Len(calls[c]), Commit(c, n)
    PROVE  Safe'
<1> DEFINE x == calls[c][n]
           r == x.request
           b == x.body
           y(outcome, shows) ==
               [x EXCEPT !.stage = "ANSWERED", !.outcome = outcome, !.new = shows]
<1>1. /\ x \in Call /\ Settled(x) /\ r \in Requests /\ b \in Body /\ b.case \in Cases
      /\ cases[b.case] \in Seq(Event)
  BY CallHere DEF Safe, TypeOK
<1>2. Inside(x) /\ UNCHANGED session
  BY CommitStep
<1>3. \A outcome \in {"DONE", "REFUSED"}, shows \in Seq(Event) :
          LET z == y(outcome, shows)
          IN  /\ z \in Call /\ z.stage = "ANSWERED" /\ z.outcome = outcome /\ z.new = shows
              /\ z.request = r /\ z.body = b /\ ~Inside(z)
  BY <1>1 DEF Call, Inside
<1>4. ASSUME NEW outcome \in {"DONE", "REFUSED"}, NEW shows \in Seq(Event),
             AnswerWith(c, n, outcome, shows)
      PROVE  Becomes(c, n, y(outcome, shows)) /\ mutex' = NoCall /\ OneInside'
  <2>1. Becomes(c, n, y(outcome, shows)) /\ mutex' = NoCall
    BY <1>4, AnswerStep DEF Safe
  <2>2. ~Inside(y(outcome, shows))
    BY <1>3
  <2> HIDE DEF y
  <2>3. OneInside'
    BY <1>2, <2>1, <2>2, MutexReleased
  <2> QED
    BY <2>1, <2>3
<1> HIDE DEF y
\* The calls after a step that changes the store.
<1>5. ASSUME NEW z \in Call, Becomes(c, n, z), Settled(z)',
             \A w \in Call : Settled(w) /\ ~Inside(w) => Settled(w)'
      PROVE  CallsSettled'
  <2> SUFFICES ASSUME NEW d \in Clients, NEW m \in 1..Len(calls[d]) PROVE Settled(calls[d][m])'
    BY <1>5 DEF CallsSettled, Becomes
  <2>1. CASE d = c /\ m = n
    BY <1>5, <2>1 DEF Becomes
  <2>2. CASE ~(d = c /\ m = n)
    <3>1. calls'[d][m] = calls[d][m]
      BY <1>5, <2>2 DEF Becomes
    <3>2. ~Inside(calls[d][m])
      BY <1>2, <2>2 DEF Safe, OneInside
    <3>3. calls[d][m] \in Call /\ Settled(calls[d][m])
      BY CallHere
    <3> QED
      BY <1>5, <3>1, <3>2, <3>3
  <2> QED
    BY <2>1, <2>2
<1>6. ASSUME NEW z \in Call, Becomes(c, n, z)
      PROVE  /\ calls' \in [Clients -> Seq(Call)]
             /\ Busy'
  <2>1. ASSUME NEW d \in Clients, session'[d] # "IDLE" PROVE calls'[d] # <<>>
    <3>1. calls[d] # <<>> /\ calls[d] \in Seq(Call) /\ calls'[d] \in Seq(Call)
      BY <1>2, <1>6, <2>1 DEF Safe, Busy, TypeOK, Becomes
    <3>2. Len(calls'[d]) = Len(calls[d])
      BY <1>6 DEF Becomes
    <3> QED
      BY <3>1, <3>2, EmptySeq
  <2> QED
    BY <1>6, <2>1 DEF Becomes, Busy
<1>7. CASE AnswerWith(c, n, "REFUSED", <<>>) /\ StoreStays /\ Hopeless(r, b)
  <2> DEFINE z == y("REFUSED", <<>>)
  <2>1. <<>> \in Seq(Event)
    OBVIOUS
  <2>2. Becomes(c, n, z) /\ mutex' = NoCall /\ OneInside'
    BY <1>4, <1>7, <2>1
  <2>3. Settled(z)
    BY <1>1, <1>3, <1>7, <2>1 DEF Settled, Answered, Inside
  <2> HIDE DEF z
  <2>4. TypeOK' /\ Busy' /\ CallsSettled'
    BY <1>2, <1>7, <2>2, <2>3, OneCallChanges
  <2> QED
    BY <1>7, <2>2, <2>4, StoreSafeStays DEF Safe
<1>8. CASE AnswerWith(c, n, "DONE", cases[b.case]) /\ CheckStored(r, b)
  <2>1. PICK z \in Call : /\ z = y("DONE", cases[b.case])
    BY <1>1, <1>3
  <2>2. Becomes(c, n, z) /\ mutex' = NoCall /\ OneInside'
    BY <1>1, <1>4, <1>8, <2>1
  <2>3. /\ z.request = r /\ z.body = b /\ z.stage = "ANSWERED" /\ z.outcome = "DONE"
        /\ z.new = cases[b.case]
    BY <1>1, <1>3, <2>1
  <2>4. Settled(z)' /\ \A w \in Call : Settled(w) /\ ~Inside(w) => Settled(w)'
    BY <1>1, <1>8, <2>3, CheckStoredSafe
  <2>5. CallsSettled' /\ Busy' /\ calls' \in [Clients -> Seq(Call)]
    BY <1>5, <1>6, <2>2, <2>4
  <2>6. /\ UNCHANGED <<log, cases, requests>>
        /\ validations' \in [Requests -> Entry \cup {Unspent}]
        /\ ResultsFaithful' /\ EventsAccounted'
    BY <1>1, <1>8, CheckStoredSafe DEF CheckStored
  <2> QED
    BY <1>2, <2>2, <2>5, <2>6 DEF Safe, TypeOK
<1>9. CASE AnswerWith(c, n, "DONE", After(r, b)) /\ TookEffect(r, b)
  <2>1. Grown(r, b)
    BY <1>1, <1>9, CaseGrows
  <2>2. After(r, b) \in Seq(Event) /\ log' = cases' /\ cases' \in [Cases -> Seq(Event)]
    BY <2>1 DEF Grown
  <2>3. PICK z \in Call : z = y("DONE", After(r, b))
    BY <1>3, <2>2
  <2>4. Becomes(c, n, z) /\ mutex' = NoCall /\ OneInside'
    BY <1>4, <1>9, <2>2, <2>3
  <2>5. /\ z.request = r /\ z.body = b /\ z.stage = "ANSWERED" /\ z.outcome = "DONE"
        /\ z.new = After(r, b)
    BY <1>3, <2>2, <2>3
  <2>6. Settled(z)' /\ \A w \in Call : Settled(w) /\ ~Inside(w) => Settled(w)'
    BY <1>1, <1>9, <2>5, TookEffectSafe
  <2>7. CallsSettled' /\ Busy' /\ calls' \in [Clients -> Seq(Call)]
    BY <1>5, <1>6, <2>4, <2>6
  <2>8. /\ UNCHANGED validations
        /\ requests' \in [Requests -> Entry \cup {Unspent}]
        /\ ResultsFaithful' /\ EventsAccounted'
    BY <1>1, <1>9, TookEffectSafe DEF TookEffect
  <2> QED
    BY <1>2, <2>2, <2>4, <2>7, <2>8 DEF Safe, TypeOK
<1> QED
  BY <1>7, <1>8, <1>9, CommitStep

\* Every step keeps the invariant.
LEMMA SafeNext == Safe /\ [Next]_vars => Safe'
<1> SUFFICES ASSUME Safe, [Next]_vars PROVE Safe'
  OBVIOUS
<1>1. ASSUME NEW c \in Clients, Break(c) PROVE Safe'
  <2>1. /\ UNCHANGED <<log, cases, requests, validations, mutex, calls>>
        /\ session[c] = "WAITING" /\ session' = [session EXCEPT ![c] = "BROKEN"]
    BY <1>1 DEF Break
  <2>2. TypeOK' /\ Busy' /\ OneInside'
    BY <2>1 DEF Safe, TypeOK, Busy, OneInside, Inside
  <2>3. CallsSettled'
    BY <2>1, SettledStays DEF StoreStays, Safe, CallsSettled
  <2> QED
    BY <2>1, <2>2, <2>3, StoreSafeStays DEF Safe, StoreStays
<1>2. CASE UNCHANGED vars
  <2>1. TypeOK' /\ Busy' /\ OneInside'
    BY <1>2 DEF vars, Safe, TypeOK, Busy, OneInside, Inside
  <2>2. CallsSettled'
    BY <1>2, SettledStays DEF vars, StoreStays, Safe, CallsSettled
  <2> QED
    BY <1>2, <2>1, <2>2, StoreSafeStays DEF Safe, StoreStays, vars
<1>3. ASSUME NEW c \in Clients, NEW n \in 1..Len(calls[c]),
             RefuseBadRequest(c, n) \/ Enter(c, n) \/ Work(c, n)
      PROVE  Safe'
  BY <1>3, SafeRefuse, SafeEnter, SafeFetch, SafeCommit DEF Work
<1> QED
  BY <1>1, <1>2, <1>3, SafeIssue, SafeRetry, SafeReceive DEF Next

-----------------------------------------------------------------------------
(* What clients may rely on *)

\* The invariant holds in every state.
THEOREM ServiceIsSafe == Spec => []Safe
BY SafeInit, SafeNext, PTL DEF Spec

\* Cases, results, calls and answers have their types.
THEOREM TypeCorrect == Spec => []TypeOK
<1>1. Safe => TypeOK
  BY DEF Safe
<1> QED
  BY <1>1, ServiceIsSafe, PTL

\* A command takes effect only where its client saw it.
THEOREM EffectsWhereSeen == Spec => []TakesEffectWhereSeen
<1>1. Safe => TakesEffectWhereSeen
  BY DEF Safe, EventsAccounted, TakesEffectWhereSeen
<1> QED
  BY <1>1, ServiceIsSafe, PTL

\* A body that says validate_only makes no event.
THEOREM ChecksAreHarmless == Spec => []ChecksChangeNothing
<1>1. Safe => ChecksChangeNothing
  <2> SUFFICES ASSUME Safe, NEW k \in Cases, NEW i \in 1..Len(log[k]),
                      log[k][i].body.form.validateOnly
               PROVE  FALSE
    BY DEF ChecksChangeNothing
  <2> DEFINE b == log[k][i].body
  <2>1. log[k][i] \in Event
    BY ElementOfSeq DEF Safe, TypeOK
  <2>2. b \in Body /\ b.form \in Form /\ b.base \in Nat
    BY <2>1 DEF Event, Body
  <2>3. Kind(b) \in {"BAD", "CHECK"}
    BY <2>2, ChecksDispatch DEF Kind
  <2>4. Weight(b) = 0
    BY <2>3 DEF Weight
  <2>5. i \in (b.base + 1)..(b.base + Weight(b))
    BY DEF Safe, EventsAccounted, InPlace
  <2> QED
    BY <2>2, <2>4, <2>5
<1> QED
  BY <1>1, ServiceIsSafe, PTL

\* An answer a client was told is that of one of its calls.
ToldBy(t, c, n) ==
    /\ calls[c][n].stage = "TOLD"
    /\ t = [request |-> calls[c][n].request, body |-> calls[c][n].body,
            outcome |-> calls[c][n].outcome, shows |-> calls[c][n].new]

\* What a client was told is the outcome of a call of its own.
LEMMA ToldIsACall ==
    \A t \in Told : \E c \in Clients : \E n \in 1..Len(calls[c]) : ToldBy(t, c, n)
BY DEF Told, Placed, ToldBy

\* Once a client was told a refusal, no copy of the command takes effect.
THEOREM RefusalsAreFinal == Spec => []RefusalIsFinal
<1>1. Safe => RefusalIsFinal
  <2> SUFFICES ASSUME Safe, NEW t \in Told, t.outcome = "REFUSED",
                      NEW k \in Cases, NEW i \in 1..Len(log[k]),
                      log[k][i] = [request |-> t.request, body |-> t.body]
               PROVE  FALSE
    BY DEF RefusalIsFinal
  <2>0. PICK c \in Clients : \E n \in 1..Len(calls[c]) : ToldBy(t, c, n)
    BY ToldIsACall
  <2>1. PICK n \in 1..Len(calls[c]) : ToldBy(t, c, n)
    BY <2>0
  <2> DEFINE r == calls[c][n].request
             b == calls[c][n].body
  <2>2. r \in Requests /\ b.base \in Nat /\ Settled(calls[c][n])
    BY CallHere
  <2>3. Hopeless(r, b)
    BY <2>1, <2>2 DEF Settled, Answered, ToldBy
  <2>4. log[k][i].request = r /\ log[k][i].body = b
    BY <2>1 DEF ToldBy
  <2>5. /\ i \in (b.base + 1)..(b.base + Weight(b))
        /\ requests[r] # Unspent /\ requests[r].body = b
    <3>1. /\ InPlace(log[k][i], k, i)
          /\ log[k][i].request \in Requests =>
                /\ requests[log[k][i].request] # Unspent
                /\ requests[log[k][i].request].body = log[k][i].body
      BY DEF Safe, EventsAccounted
    <3> HIDE DEF r, b
    <3> QED
      BY <2>2, <2>4, <3>1 DEF InPlace
  <2>6. Kind(b) \notin {"BAD", "CHECK"}
    <3>1. Weight(b) # 0
      BY <2>2, <2>5
    <3> QED
      BY <3>1 DEF Weight
  <2>7. Known(r, b) = requests[r]
    BY <2>6 DEF Known, StoredResult
  <2> QED
    BY <2>3, <2>5, <2>6, <2>7 DEF Hopeless
<1> QED
  BY <1>1, ServiceIsSafe, PTL

\* A success shows the history up to and with the command's own events.
THEOREM SuccessIsOwnEffect == Spec => []SuccessShowsOwnEffect
<1>1. Safe => SuccessShowsOwnEffect
  <2> SUFFICES ASSUME Safe, NEW t \in Told, t.outcome = "DONE"
               PROVE  /\ Len(t.shows) = t.body.base + Weight(t.body)
                      /\ t.shows = SubSeq(log[t.body.case], 1, Len(t.shows))
                      /\ \A i \in (t.body.base + 1)..Len(t.shows) :
                            t.shows[i] = [request |-> t.request, body |-> t.body]
    BY DEF SuccessShowsOwnEffect
  <2>0. PICK c \in Clients : \E n \in 1..Len(calls[c]) : ToldBy(t, c, n)
    BY ToldIsACall
  <2>1. PICK n \in 1..Len(calls[c]) : ToldBy(t, c, n)
    BY <2>0
  <2> DEFINE r == calls[c][n].request
             b == calls[c][n].body
             e == [body |-> b, result |-> calls[c][n].new]
  <2>2. /\ r \in Requests /\ b \in Body /\ b.case \in Cases /\ b.base \in Nat
        /\ calls[c][n].new \in Seq(Event) /\ Settled(calls[c][n])
    BY CallHere
  <2>3. Known(r, b) = e
    BY <2>1, <2>2 DEF Settled, Answered, ToldBy
  <2>4. e # Unspent
    BY <2>2, ServiceAssumptions DEF Entry
  <2>5. Faithful(r, e)
    BY <2>2, <2>3, <2>4 DEF Known, StoredResult, Safe, ResultsFaithful
  <2>6. t.request = r /\ t.body = b /\ t.shows = e.result /\ e.body = b
    BY <2>1 DEF ToldBy
  <2> DEFINE shows == e.result
             history == log[b.case]
  <2>7. /\ shows \in Seq(Event) /\ history \in Seq(Event)
        /\ Len(shows) \in Nat /\ Len(shows) <= Len(history)
        /\ \A i \in 1..Len(shows) : shows[i] = history[i]
    BY <2>2, <2>5, <2>6 DEF Faithful, Safe, TypeOK
  <2> HIDE DEF shows, history
  <2>8. /\ SubSeq(history, 1, Len(shows)) \in Seq(Event)
        /\ Len(SubSeq(history, 1, Len(shows))) = Len(shows)
        /\ \A i \in 1..Len(shows) : SubSeq(history, 1, Len(shows))[i] = history[i]
    <3>1. \A i \in 1..Len(shows) : history[i] \in Event
      BY <2>7, ElementOfSeq
    <3>2. 1 \in Int /\ Len(shows) \in Int
      BY <2>7
    <3> QED
      BY <2>7, <3>1, <3>2, SubSeqProperties
  <2>9. shows = SubSeq(history, 1, Len(shows))
    BY <2>7, <2>8, SeqEqual
  <2> QED
    BY <2>5, <2>6, <2>9 DEF Faithful, shows, history
<1> QED
  BY <1>1, ServiceIsSafe, PTL

-----------------------------------------------------------------------------
(* The refinement mapping *)

Asked == {[request |-> x.request, body |-> x.body] : x \in Placed}

AskedBy(a, c, n) == a = [request |-> calls[c][n].request, body |-> calls[c][n].body]

\* What was asked and told, by the calls that asked and were told it.
LEMMA AskedAndTold ==
    /\ \A a : a \in Asked <=>
          \E c \in Clients : \E n \in 1..Len(calls[c]) : AskedBy(a, c, n)
    /\ \A t : t \in Told <=>
          \E c \in Clients : \E n \in 1..Len(calls[c]) : ToldBy(t, c, n)
BY DEF Asked, AskedBy, Told, ToldBy, Placed

\* Membership of Asked and Told, spelled out for the next state.
LEMMA AskedAndToldNext ==
    /\ \A a : a \in Asked' <=>
          \E c \in Clients : \E n \in 1..Len(calls'[c]) : AskedBy(a, c, n)'
    /\ \A t : t \in Told' <=>
          \E c \in Clients : \E n \in 1..Len(calls'[c]) : ToldBy(t, c, n)'
BY DEF Asked, AskedBy, Told, ToldBy, Placed

\* A call that moves on asks for nothing new, and its client learns nothing before
\* the call is told.
LEMMA HandlersAreSilent ==
    ASSUME NEW c \in Clients, NEW n \in 1..Len(calls[c]), NEW y, Becomes(c, n, y),
           y.request = calls[c][n].request, y.body = calls[c][n].body,
           y.stage # "TOLD", calls[c][n].stage # "TOLD"
    PROVE  Asked' = Asked /\ Told' = Told
<1>1. \A d \in Clients : Len(calls'[d]) = Len(calls[d])
  BY DEF Becomes
<1>2. \A a : \A d \in Clients : \A m \in 1..Len(calls[d]) : AskedBy(a, d, m)' <=> AskedBy(a, d, m)
  BY DEF Becomes, AskedBy
<1>3. \A t : \A d \in Clients : \A m \in 1..Len(calls[d]) : ToldBy(t, d, m)' <=> ToldBy(t, d, m)
  BY DEF Becomes, ToldBy
<1>4. \A a : a \in Asked' <=> a \in Asked
  BY <1>1, <1>2, AskedAndTold, AskedAndToldNext
<1>5. \A t : t \in Told' <=> t \in Told
  BY <1>1, <1>3, AskedAndTold, AskedAndToldNext
<1> QED
  BY <1>4, <1>5

\* A new call asks and is not told anything yet.
LEMMA CallsAsk ==
    ASSUME Safe, NEW c \in Clients, NEW y, Places(c, y), y.stage # "TOLD"
    PROVE  Asked \subseteq Asked' /\ Told' = Told
<1>1. \A d \in Clients : Len(calls[d]) \in Nat
  BY DEF Safe, TypeOK
<1>2. \A d \in Clients : \A m \in 1..Len(calls[d]) :
          m \in 1..Len(calls'[d]) /\ calls'[d][m] = calls[d][m]
  BY <1>1 DEF Places
<1>3. \A d \in Clients : \A m \in 1..Len(calls'[d]) :
          m \in 1..Len(calls[d]) \/ calls'[d][m] = y
  BY <1>1 DEF Places
<1>4. \A a : a \in Asked => a \in Asked'
  BY <1>2, AskedAndTold, AskedAndToldNext DEF AskedBy
<1>5. \A t : t \in Told => t \in Told'
  BY <1>2, AskedAndTold, AskedAndToldNext DEF ToldBy
<1>6. ASSUME NEW t \in Told' PROVE t \in Told
  <2>1. PICK d \in Clients : \E m \in 1..Len(calls'[d]) : ToldBy(t, d, m)'
    BY AskedAndToldNext
  <2>2. PICK m \in 1..Len(calls'[d]) : ToldBy(t, d, m)'
    BY <2>1
  <2>3. m \in 1..Len(calls[d])
    BY <1>3, <2>2 DEF ToldBy
  <2>4. ToldBy(t, d, m)
    BY <1>2, <2>2, <2>3 DEF ToldBy
  <2> QED
    BY <2>3, <2>4, AskedAndTold
<1> QED
  BY <1>4, <1>5, <1>6

\* What is asked for is a command of the ledger.
LEMMA AskedAreCommands == Safe => Asked \subseteq Ledger!Command
<1> SUFFICES ASSUME Safe, NEW a \in Asked PROVE a \in Ledger!Command
  OBVIOUS
<1>1. PICK c \in Clients : \E n \in 1..Len(calls[c]) : AskedBy(a, c, n)
  BY AskedAndTold
<1>2. PICK n \in 1..Len(calls[c]) : AskedBy(a, c, n)
  BY <1>1
<1>3. /\ calls[c][n].request \in Requests /\ calls[c][n].body \in Body
      /\ calls[c][n].body.form \in Forms
  BY CallHere DEF Settled
<1> QED
  BY <1>2, <1>3 DEF AskedBy, Ledger!Command, Body

\* What was asked is a command of the ledger after a step, too.
LEMMA AskedAreCommandsNext == Safe' => Asked' \subseteq Ledger!Command
<1>1. (Safe => Asked \subseteq Ledger!Command)'
  BY AskedAreCommands, PTL
<1>2. (Ledger!Command)' = Ledger!Command
  BY DEF Ledger!Command
<1> QED
  BY <1>1, <1>2

-----------------------------------------------------------------------------
(* Steps *)

\* The initial state maps to the initial state of the ledger.
LEMMA LedgerInit == Init => Ledger!Init
<1> SUFFICES ASSUME Init PROVE Ledger!Init
  OBVIOUS
<1>1. \A c \in Clients : calls[c] = <<>> /\ Len(calls[c]) = 0
  BY DEF Init
<1>2. Asked = {} /\ Told = {}
  BY <1>1, AskedAndTold
<1> QED
  BY <1>2 DEF Init, Ledger!Init, Asked

\* A command about to take effect was refused to nobody.
LEMMA ReadyIsNotRefused ==
    ASSUME Safe, NEW r, NEW b, Ready(r, b), Kind(b) # "BAD"
    PROVE  ~\E t \in Told : t.request = r /\ t.body = b /\ t.outcome = "REFUSED"
<1> SUFFICES ASSUME NEW t \in Told, t.request = r, t.body = b, t.outcome = "REFUSED"
             PROVE  FALSE
  OBVIOUS
<1>1. PICK c \in Clients : \E n \in 1..Len(calls[c]) : ToldBy(t, c, n)
  BY AskedAndTold
<1>2. PICK n \in 1..Len(calls[c]) : ToldBy(t, c, n)
  BY <1>1
<1>3. Settled(calls[c][n])
  BY CallHere
<1>4. Hopeless(r, b)
  BY <1>2, <1>3 DEF ToldBy, Settled, Answered
<1> QED
  BY <1>4 DEF Hopeless, Ready

\* Receiving an answer is telling it, and the answer is the ledger's.
LEMMA ReceiveTells ==
    ASSUME Safe, NEW c \in Clients, Receive(c)
    PROVE  \E a \in Asked : Ledger!Tell(a)
<1> DEFINE n == Len(calls[c])
           x == calls[c][n]
           y == [x EXCEPT !.stage = "TOLD"]
           a == [request |-> x.request, body |-> x.body]
           t == [request |-> x.request, body |-> x.body, outcome |-> x.outcome, shows |-> x.new]
<1>1. n \in 1..n /\ Becomes(c, n, y) /\ x.stage = "ANSWERED"
  BY ReceiveStep DEF Safe
<1>2. UNCHANGED <<log, cases, requests, validations>>
  BY ReceiveStep DEF Safe
<1>3. x \in Call /\ Settled(x) /\ x.request \in Requests /\ x.new \in Seq(Event)
      /\ x.body \in Body
  BY <1>1, CallHere
<1>4. /\ y.stage = "TOLD" /\ y.request = x.request /\ y.body = x.body
      /\ y.outcome = x.outcome /\ y.new = x.new
  BY <1>3 DEF Call
<1> HIDE DEF n, x, y
<1>5. \A d \in Clients : \A m \in 1..Len(calls[d]) :
          calls'[d][m] = IF d = c /\ m = n THEN y ELSE calls[d][m]
  BY <1>1 DEF Becomes
<1>6. \A d \in Clients : Len(calls'[d]) = Len(calls[d])
  BY <1>1 DEF Becomes
<1>7. \A d \in Clients : \A m \in 1..Len(calls[d]) :
          calls'[d][m].request = calls[d][m].request /\ calls'[d][m].body = calls[d][m].body
  BY <1>4, <1>5 DEF x
<1>8. Asked' = Asked
  <2>1. \A e : \A d \in Clients : \A m \in 1..Len(calls[d]) : AskedBy(e, d, m)' <=> AskedBy(e, d, m)
    BY <1>7 DEF AskedBy
  <2>2. \A e : e \in Asked' <=> e \in Asked
    BY <1>6, <2>1, AskedAndTold, AskedAndToldNext
  <2> QED
    BY <2>2
<1>9. Told' = Told \cup {t}
  <2>1. ASSUME NEW u PROVE u \in Told' => u \in Told \cup {t}
    <3> SUFFICES ASSUME u \in Told' PROVE u \in Told \cup {t}
      OBVIOUS
    <3>1. PICK d \in Clients : \E m \in 1..Len(calls'[d]) : ToldBy(u, d, m)'
      BY AskedAndToldNext
    <3>2. PICK m \in 1..Len(calls[d]) : ToldBy(u, d, m)'
      BY <1>6, <3>1
    <3>3. CASE d = c /\ m = n
      BY <1>4, <1>5, <3>2, <3>3 DEF ToldBy
    <3>4. CASE ~(d = c /\ m = n)
      <4>1. ToldBy(u, d, m)
        BY <1>5, <3>2, <3>4 DEF ToldBy
      <4> QED
        BY <4>1, AskedAndTold
    <3> QED
      BY <3>3, <3>4
  <2>2. t \in Told'
    <3>1. PICK m \in 1..Len(calls[c]) : m = n
      BY <1>1 DEF n
    <3>2. PICK u : u = t
      OBVIOUS
    <3>3. ToldBy(u, c, m)'
      BY <1>4, <1>5, <3>1, <3>2 DEF ToldBy
    <3> QED
      BY <1>6, <3>2, <3>3, AskedAndToldNext
  <2>3. ASSUME NEW u \in Told PROVE u \in Told'
    <3>1. PICK d \in Clients : \E m \in 1..Len(calls[d]) : ToldBy(u, d, m)
      BY AskedAndTold
    <3>2. PICK m \in 1..Len(calls[d]) : ToldBy(u, d, m)
      BY <3>1
    <3>3. ~(d = c /\ m = n)
      BY <1>1, <3>2 DEF ToldBy, x
    <3>4. ToldBy(u, d, m)'
      BY <1>5, <3>2, <3>3 DEF ToldBy
    <3> QED
      BY <1>6, <3>4, AskedAndToldNext
  <2> QED
    BY <2>1, <2>2, <2>3
<1>10. a \in Asked
  <2>1. n \in 1..Len(calls[c]) /\ AskedBy(a, c, n)
    BY <1>1 DEF AskedBy, x, n
  <2> QED
    BY <2>1, AskedAndTold
<1>11. /\ Ledger!Executed(a) <=> x.outcome = "DONE"
       /\ x.outcome = "DONE" => Ledger!Entry(a).result = x.new
       /\ x.outcome # "DONE" => x.outcome = "REFUSED" /\ x.new = <<>>
  <2> DEFINE r == x.request
             b == x.body
  <2>1. a.request = r /\ a.body = b /\ Answered(x)
    BY <1>1 DEF Answered
  <2>2. Kind(b) \in {"BAD", "CHECK"} <=> Weight(b) = 0
    BY DEF Weight
  <2>3. Ledger!Entry(a) = IF Weight(b) = 0 THEN validations[r] ELSE requests[r]
    BY <2>1 DEF Ledger!Entry
  <2>4. Kind(b) # "BAD" => Ledger!Entry(a) = Known(r, b)
    BY <2>2, <2>3 DEF Known, StoredResult, Weight
  <2>5. CASE x.outcome = "DONE"
    <3>1. Kind(b) # "BAD" /\ Known(r, b) = [body |-> b, result |-> x.new]
      BY <1>3, <2>1, <2>5 DEF Settled
    <3>2. [body |-> b, result |-> x.new] # Unspent
      BY <1>3, ServiceAssumptions DEF Entry
    <3>3. /\ Ledger!Entry(a) # Unspent /\ Ledger!Entry(a).body = b
          /\ Ledger!Entry(a).result = x.new
      BY <2>4, <3>1, <3>2
    <3> QED
      BY <2>1, <2>5, <3>3 DEF Ledger!Executed
  <2>6. CASE x.outcome # "DONE"
    <3>1. x.outcome = "REFUSED" /\ x.new = <<>> /\ Hopeless(r, b)
      BY <1>3, <2>1, <2>6 DEF Settled
    <3>2. CASE Kind(b) = "BAD"
      <4>1. Ledger!Entry(a) = validations[r]
        BY <2>2, <2>3, <3>2
      <4>2. validations[r] = Unspent \/ Kind(validations[r].body) = "CHECK"
        BY <1>3 DEF Safe, ResultsFaithful
      <4>3. ~Ledger!Executed(a)
        BY <2>1, <3>2, <4>1, <4>2 DEF Ledger!Executed
      <4> QED
        BY <2>6, <3>1, <4>3
    <3>3. CASE Kind(b) # "BAD"
      <4>1. Known(r, b) = Unspent \/ Known(r, b).body # b
        BY <3>1, <3>3 DEF Hopeless
      <4>2. ~Ledger!Executed(a)
        BY <2>1, <2>4, <3>3, <4>1 DEF Ledger!Executed
      <4> QED
        BY <2>6, <3>1, <4>2
    <3> QED
      BY <3>2, <3>3
  <2> QED
    BY <2>5, <2>6
<1>12. t = [request |-> a.request, body |-> a.body,
           outcome |-> IF Ledger!Executed(a) THEN "DONE" ELSE "REFUSED",
           shows   |-> IF Ledger!Executed(a) THEN Ledger!Entry(a).result ELSE <<>>]
  BY <1>11
<1> HIDE DEF a, t
<1>13. Ledger!Tell(a)
  BY <1>2, <1>8, <1>9, <1>12 DEF Ledger!Tell, Asked
<1> QED
  BY <1>10, <1>13

\* A commit is the moment a command takes effect or a check is made, or nothing.
LEMMA CommitTakesEffect ==
    ASSUME Safe, NEW c \in Clients, NEW n \in 1..Len(calls[c]), Commit(c, n)
    PROVE  (\E a \in Asked : Ledger!TakeEffect(a) \/ Ledger!Check(a)) \/ UNCHANGED Ledger!vars
<1> DEFINE x == calls[c][n]
           r == x.request
           b == x.body
           a == [request |-> r, body |-> b]
           y(outcome, shows) ==
               [x EXCEPT !.stage = "ANSWERED", !.outcome = outcome, !.new = shows]
<1>1. /\ x \in Call /\ r \in Requests /\ b \in Body /\ b.case \in Cases
      /\ cases[b.case] \in Seq(Event)
  BY CallHere DEF Safe, TypeOK
<1>2. x.stage = "COMMIT"
  BY CommitStep
<1>3. ASSUME NEW outcome \in {"DONE", "REFUSED"}, NEW shows \in Seq(Event),
             AnswerWith(c, n, outcome, shows)
      PROVE  Asked' = Asked /\ Told' = Told
  <2>1. Becomes(c, n, y(outcome, shows))
    BY <1>3, AnswerStep DEF Safe
  <2>2. /\ y(outcome, shows).request = r /\ y(outcome, shows).body = b
        /\ y(outcome, shows).stage = "ANSWERED"
    BY <1>1 DEF Call
  <2> HIDE DEF y
  <2> QED
    BY <1>2, <2>1, <2>2, HandlersAreSilent
<1>4. a \in Asked /\ a.request = r /\ a.body = b
  BY AskedAndTold DEF AskedBy
<1> HIDE DEF y
<1>5. CASE AnswerWith(c, n, "REFUSED", <<>>) /\ StoreStays
  <2>1. <<>> \in Seq(Event)
    OBVIOUS
  <2>2. Asked' = Asked /\ Told' = Told
    BY <1>3, <1>5, <2>1
  <2> QED
    BY <1>5, <2>2 DEF StoreStays, Ledger!vars, Asked
<1>6. CASE AnswerWith(c, n, "DONE", cases[b.case]) /\ CheckStored(r, b)
  <2>1. Asked' = Asked /\ Told' = Told
    BY <1>1, <1>3, <1>6
  <2>2. /\ Ready(r, b) /\ Kind(b) = "CHECK"
        /\ validations' = [validations EXCEPT ![r] = [body |-> b, result |-> cases[b.case]]]
        /\ UNCHANGED <<log, cases, requests>>
    BY <1>6 DEF CheckStored
  <2>3. ~\E t \in Told : t.request = r /\ t.body = b /\ t.outcome = "REFUSED"
    BY <2>2, ReadyIsNotRefused
  <2>4. Weight(b) = 0 /\ validations[r] = Unspent /\ b.base = Len(log[b.case]) /\ log = cases
    BY <2>2 DEF Weight, Ready, Known, Safe
  <2> HIDE DEF a, r, b
  <2>5. Ledger!Check(a)
    BY <1>4, <2>1, <2>2, <2>3, <2>4 DEF Ledger!Check, Ledger!Refused, Asked
  <2> QED
    BY <1>4, <2>5
<1>7. CASE AnswerWith(c, n, "DONE", After(r, b)) /\ TookEffect(r, b)
  <2>1. Grown(r, b)
    BY <1>1, <1>7, CaseGrows
  <2>2. Asked' = Asked /\ Told' = Told
    BY <1>3, <1>7, <2>1 DEF Grown
  <2>3. /\ Ready(r, b) /\ Kind(b) \notin {"BAD", "CHECK"}
        /\ log' = [log EXCEPT ![b.case] = After(r, b)]
        /\ requests' = [requests EXCEPT ![r] = [body |-> b, result |-> After(r, b)]]
        /\ UNCHANGED validations
    BY <1>7 DEF TookEffect
  <2>4. ~\E t \in Told : t.request = r /\ t.body = b /\ t.outcome = "REFUSED"
    BY <2>3, ReadyIsNotRefused
  <2>5. requests[r] = Unspent /\ b.base = Len(log[b.case]) /\ Weight(b) > 0
    BY <2>1, <2>3 DEF Ready, Known, StoredResult, Safe, Grown
  <2>6. After(r, b) = log[b.case] \o [i \in 1..Weight(b) |-> a]
    BY DEF After, Made, Safe
  <2> HIDE DEF a, r, b
  <2>7. Ledger!TakeEffect(a)
    BY <1>4, <2>2, <2>3, <2>4, <2>5, <2>6 DEF Ledger!TakeEffect, Ledger!Refused, Asked
  <2> QED
    BY <1>4, <2>7
<1> QED
  BY <1>5, <1>6, <1>7, CommitStep

\* A handler's step but the last changes nothing of the ledger.
LEMMA HandlersOnTheWay ==
    ASSUME Safe, NEW c \in Clients, NEW n \in 1..Len(calls[c]),
           RefuseBadRequest(c, n) \/ Enter(c, n) \/ Fetch(c, n)
    PROVE  UNCHANGED Ledger!vars
<1> DEFINE x == calls[c][n]
           r == x.request
           b == x.body
           Goes(y) == /\ Becomes(c, n, y) /\ y.request = r /\ y.body = b
                      /\ y.stage # "TOLD" /\ x.stage # "TOLD"
<1>1. x \in Call /\ r \in Requests /\ b.case \in Cases /\ b.base \in Nat /\ x.new \in Seq(Event)
  BY CallHere
<1>2. UNCHANGED <<log, cases, requests, validations>>
  BY DEF RefuseBadRequest, Enter, Fetch
<1>3. x.stage \in {"SENT", "FETCH"}
  BY DEF RefuseBadRequest, Enter, Fetch
<1>4. ASSUME NEW outcome \in {"DONE", "REFUSED"}, NEW shows \in Seq(Event),
             AnswerWith(c, n, outcome, shows)
      PROVE  \E y : Goes(y)
  <2> DEFINE y == [x EXCEPT !.stage = "ANSWERED", !.outcome = outcome, !.new = shows]
  <2>1. Becomes(c, n, y)
    BY <1>4, AnswerStep DEF Safe
  <2>2. y.request = r /\ y.body = b /\ y.stage = "ANSWERED"
    BY <1>1 DEF Call
  <2> HIDE DEF y
  <2> QED
    BY <1>3, <2>1, <2>2
<1>5. ASSUME NEW stage \in {"FETCH", "ANSWERED"}, NEW outcome \in {"", "REFUSED"},
             calls' = [calls EXCEPT ![c][n] = [x EXCEPT !.stage = stage, !.outcome = outcome]]
      PROVE  \E y : Goes(y)
  <2> DEFINE y == [x EXCEPT !.stage = stage, !.outcome = outcome]
  <2>1. y \in Call /\ y.request = r /\ y.body = b /\ y.stage = stage
    BY <1>1 DEF Call
  <2>2. calls' = [calls EXCEPT ![c][n] = y]
    BY <1>5
  <2> HIDE DEF x, y
  <2>3. Becomes(c, n, y)
    BY <2>1, <2>2, CallBecomes DEF Safe, TypeOK, CallsOK
  <2> QED
    BY <1>3, <2>1, <2>3
<1>6. CASE RefuseBadRequest(c, n)
  <2>1. calls' = [calls EXCEPT ![c][n] = [x EXCEPT !.stage = "ANSWERED", !.outcome = "REFUSED"]]
    BY <1>6 DEF RefuseBadRequest
  <2>2. \E y : Goes(y)
    BY <1>5, <2>1
  <2> QED
    BY <1>2, <2>2, HandlersAreSilent DEF Ledger!vars, Asked
<1>7. CASE Enter(c, n)
  <2> DEFINE entry == Known(r, b)
             outcome == OutcomeOf(entry, b)
             shows == IF outcome = "DONE" THEN entry.result ELSE <<>>
  <2>1. ASSUME entry = Unspent PROVE \E y : Goes(y)
    <3> DEFINE y == [x EXCEPT !.stage = "FETCH"]
    <3>1. y \in Call /\ y.request = r /\ y.body = b /\ y.stage = "FETCH"
      BY <1>1 DEF Call
    <3>2. calls' = [calls EXCEPT ![c][n] = y]
      BY <1>7, <2>1 DEF Enter
    <3> HIDE DEF x, y
    <3>3. Becomes(c, n, y)
      BY <3>1, <3>2, CallBecomes DEF Safe, TypeOK, CallsOK
    <3> QED
      BY <1>3, <3>1, <3>3
  <2>2. ASSUME entry # Unspent PROVE \E y : Goes(y)
    <3>1. entry \in Entry
      BY <1>1, <2>2, KnownType DEF Safe
    <3>2. outcome \in {"DONE", "REFUSED"} /\ shows \in Seq(Event)
      BY <3>1 DEF OutcomeOf, Entry
    <3>3. AnswerWith(c, n, outcome, shows)
      BY <1>7, <2>2 DEF Enter
    <3> HIDE DEF outcome, shows
    <3> QED
      BY <1>4, <3>2, <3>3
  <2>3. \E y : Goes(y)
    BY <2>1, <2>2
  <2> QED
    BY <1>2, <2>3, HandlersAreSilent DEF Ledger!vars, Asked
<1>8. CASE Fetch(c, n)
  <2> DEFINE h == cases[b.case]
             new == IF Kind(b) = "CREATE" THEN Made(r, b) ELSE h \o Made(r, b)
  <2>1. ASSUME Kind(b) = "CREATE" \/ Accepted(b, h) PROVE \E y : Goes(y)
    <3>1. new \in Seq(Event)
      <4>1. h \in Seq(Event) /\ Made(r, b) \in Seq(Event)
        BY <1>1, CallHere, MadeType DEF Safe, TypeOK
      <4> QED
        BY <4>1, ConcatProperties
    <3>2. Proceed(c, n, new)
      BY <1>8, <2>1 DEF Fetch
    <3> DEFINE y == [x EXCEPT !.stage = "COMMIT", !.new = new]
    <3> HIDE DEF new
    <3>3. Becomes(c, n, y)
      BY <3>1, <3>2, ProceedStep DEF Safe
    <3>4. y.request = r /\ y.body = b /\ y.stage = "COMMIT"
      BY <1>1 DEF Call
    <3> HIDE DEF y
    <3> QED
      BY <1>3, <3>3, <3>4
  <2>2. ASSUME Kind(b) # "CREATE" /\ ~Accepted(b, h) PROVE \E y : Goes(y)
    <3>1. AnswerWith(c, n, "REFUSED", <<>>) /\ <<>> \in Seq(Event)
      BY <1>8, <2>2 DEF Fetch
    <3> QED
      BY <1>4, <3>1
  <2>3. \E y : Goes(y)
    BY <2>1, <2>2
  <2> QED
    BY <1>2, <2>3, HandlersAreSilent DEF Ledger!vars, Asked
<1> QED
  BY <1>6, <1>7, <1>8

\* Every step of the service is a step of the ledger or nothing to it.
LEMMA LedgerNext ==
    Safe /\ Safe' /\ [Next]_vars => [Ledger!Next]_(Ledger!vars)
<1> SUFFICES ASSUME Safe, Safe', [Next]_vars
             PROVE  [Ledger!Next]_(Ledger!vars)
  OBVIOUS
<1>1. ASSUME NEW c \in Clients, NEW y, Places(c, y), y.stage # "TOLD",
             UNCHANGED <<log, cases, requests, validations>>
      PROVE  Ledger!Ask
  <2>1. Asked \subseteq Asked' /\ Told' = Told
    BY <1>1, CallsAsk
  <2>2. Asked' \subseteq Ledger!Command
    BY AskedAreCommandsNext
  <2> QED
    BY <1>1, <2>1, <2>2 DEF Ledger!Ask, Asked
<1>2. ASSUME NEW c \in Clients, NEW r \in Requests, NEW k \in Cases, NEW f \in Forms,
             Issue(c, r, k, f)
      PROVE  Ledger!Next
  <2>1. PICK b \in Body : Places(c, NewCall(r, b))
    BY <1>2, IssueStep DEF Safe
  <2>2. UNCHANGED <<log, cases, requests, validations>> /\ NewCall(r, b).stage = "SENT"
    BY <1>2 DEF Issue, NewCall
  <2> QED
    BY <1>1, <2>1, <2>2 DEF Ledger!Next
<1>3. ASSUME NEW c \in Clients, Retry(c)
      PROVE  Ledger!Next
  <2>1. Places(c, NewCall(Last(c).request, Last(c).body))
    BY <1>3, RetryStep DEF Safe
  <2>2. /\ UNCHANGED <<log, cases, requests, validations>>
        /\ NewCall(Last(c).request, Last(c).body).stage = "SENT"
    BY <1>3 DEF Retry, NewCall
  <2> QED
    BY <1>1, <2>1, <2>2 DEF Ledger!Next
<1>4. ASSUME NEW c \in Clients, Receive(c)
      PROVE  Ledger!Next
  BY <1>4, ReceiveTells DEF Ledger!Next, Asked
<1>5. ASSUME NEW c \in Clients, NEW n \in 1..Len(calls[c]),
             RefuseBadRequest(c, n) \/ Enter(c, n) \/ Work(c, n)
      PROVE  Ledger!Next \/ UNCHANGED Ledger!vars
  <2>1. CASE Commit(c, n)
    BY <2>1, CommitTakesEffect DEF Ledger!Next, Asked
  <2>2. CASE RefuseBadRequest(c, n) \/ Enter(c, n) \/ Fetch(c, n)
    BY <2>2, HandlersOnTheWay
  <2> QED
    BY <1>5, <2>1, <2>2 DEF Work
<1>6. ASSUME UNCHANGED <<log, cases, requests, validations, calls>>
      PROVE  UNCHANGED Ledger!vars
  <2>1. Placed' = Placed
    BY <1>6 DEF Placed
  <2>2. Told' = Told
    BY <2>1 DEF Told
  <2> QED
    BY <1>6, <2>1, <2>2 DEF Ledger!vars
<1>7. ASSUME NEW c \in Clients, Break(c)
      PROVE  UNCHANGED Ledger!vars
  BY <1>6, <1>7 DEF Break
<1>8. CASE UNCHANGED vars
  BY <1>6, <1>8 DEF vars
<1> QED
  BY <1>2, <1>3, <1>4, <1>5, <1>7, <1>8 DEF Next

\* Clients, retries, connections and locks together are the ledger of requests: an
\* id is spent on one command, which takes effect once, on the revision it names;
\* everybody who asks again gets the answer of that moment; and a refusal is final.
THEOREM ServiceImplementsLedger == Spec => ImplementsLedger
BY LedgerInit, LedgerNext, ServiceIsSafe, PTL DEF Spec, ImplementsLedger, Ledger!Spec
=============================================================================
