------------------------ MODULE MCConditioningTimeline ------------------------
(* ConditioningTimeline on few minutes: readings of every length that start   *)
(* at every minute or leave the time to the server, one outside the plan and  *)
(* one without duration.                                                      *)
EXTENDS ConditioningTimeline

CONSTANTS Horizon, MaxMinutes

MCInputs ==
    [at : (0..Horizon) \cup {NoTime}, minutes : 1..MaxMinutes, fits : {TRUE}]
        \cup {[at |-> 0, minutes |-> 1, fits |-> FALSE],
              [at |-> 1, minutes |-> 0, fits |-> TRUE]}
=============================================================================
