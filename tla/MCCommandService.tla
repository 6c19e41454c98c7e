-------------------------- MODULE MCCommandService --------------------------
(* CommandService with two clients, two request ids and one case, which is    *)
(* absent, being judged, or signed when the clients come.                     *)
EXTENDS CommandService, TLC

CONSTANTS c1, c2

MCCalls == c1 :> 2 @@ c2 :> 1

AForm(route) == [route |-> route, validateOnly |-> FALSE, readings |-> "NONE",
                 single |-> FALSE, confirm |-> FALSE, window |-> FALSE]

\* One form for every way through the handlers that ends in another command.
MCForms ==
    {AForm("create"), AForm("release"), AForm("seal"),
     [AForm("conditioning") EXCEPT !.readings = "SOME", !.validateOnly = TRUE],
     [AForm("conditioning") EXCEPT !.single = TRUE, !.validateOnly = TRUE],
     [AForm("conditioning") EXCEPT !.single = TRUE, !.confirm = TRUE]}

Earlier(k, route, n) ==
    [request |-> "EARLIER",
     body |-> [case |-> k, form |-> AForm(route), base |-> n,
               snapshot |-> IF route = "release" THEN n ELSE 0]]

Judged(k) == <<Earlier(k, "create", 0), Earlier(k, "plan", 1)>>
MCHistories ==
    [k \in Cases |-> {<<>>, Judged(k), Append(Judged(k), Earlier(k, "release", 2))}]
=============================================================================
