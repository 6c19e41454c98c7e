--------------------------- MODULE RequestLedger ---------------------------
(***************************************************************************)
(* What clients of the service may rely on, told without clients, retries, *)
(* locks or messages: a request id is spent on one command, which somebody *)
(* asked for and which takes effect at most once, on the revision it       *)
(* names; whoever asks again gets the answer of that moment; and a refusal *)
(* is final.                                                               *)
(***************************************************************************)
EXTENDS Naturals, Sequences

CONSTANTS
    Cases, Requests,
    Bodies,      \* what a command asks for: records with at least case and base
    Histories,   \* per case, what it may have been through before
    Weight(_),   \* the events a command makes
    Unspent      \* the entry of an id no command was executed under

VARIABLES
    asked,       \* the commands clients asked for
    history,     \* per case, its events
    ledger,      \* per request id, the command executed under it and its result
    checks,      \* the same for the commands that only validate
    told         \* the answers given

vars == <<asked, history, ledger, checks, told>>

Command == [request : Requests, body : Bodies]

Init ==
    /\ asked = {}
    /\ history \in [Cases -> UNION {Histories[k] : k \in Cases}]
    /\ \A k \in Cases : history[k] \in Histories[k]
    /\ ledger = [r \in Requests |-> Unspent]
    /\ checks = [r \in Requests |-> Unspent]
    /\ told = {}

Ask ==
    /\ asked \subseteq asked' /\ asked' \in SUBSET Command
    /\ UNCHANGED <<history, ledger, checks, told>>

Refused(a) ==
    \E t \in told : t.request = a.request /\ t.body = a.body /\ t.outcome = "REFUSED"

TakeEffect(a) ==
    LET r == a.request
        b == a.body
        after == history[b.case] \o [i \in 1..Weight(b) |-> a]
    IN  /\ ledger[r] = Unspent /\ ~Refused(a)
        /\ Weight(b) > 0
        /\ b.base = Len(history[b.case])
        /\ history' = [history EXCEPT ![b.case] = after]
        /\ ledger' = [ledger EXCEPT ![r] = [body |-> b, result |-> after]]
        /\ UNCHANGED <<asked, checks, told>>

Check(a) ==
    LET r == a.request
        b == a.body
    IN  /\ checks[r] = Unspent /\ ~Refused(a)
        /\ Weight(b) = 0
        /\ b.base = Len(history[b.case])
        /\ checks' = [checks EXCEPT ![r] = [body |-> b, result |-> history[b.case]]]
        /\ UNCHANGED <<asked, history, ledger, told>>

Entry(a) == IF Weight(a.body) = 0 THEN checks[a.request] ELSE ledger[a.request]
Executed(a) == Entry(a) # Unspent /\ Entry(a).body = a.body

Tell(a) ==
    /\ told' = told \cup
          {[request |-> a.request, body |-> a.body,
            outcome |-> IF Executed(a) THEN "DONE" ELSE "REFUSED",
            shows   |-> IF Executed(a) THEN Entry(a).result ELSE <<>>]}
    /\ UNCHANGED <<asked, history, ledger, checks>>

Next == Ask \/ \E a \in asked : TakeEffect(a) \/ Check(a) \/ Tell(a)

Spec == Init /\ [][Next]_vars
=============================================================================
