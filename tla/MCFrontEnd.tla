----------------------------- MODULE MCFrontEnd -----------------------------
(* Small instances of JobQueue and of RateLimit.  They share no state, so  *)
(* a behaviour is one of the queue or one of the limiter.                  *)
EXTENDS JobQueue, RateLimit

VARIABLE part

frontVars == <<part, vars, limitVars>>

FrontInit == part \in {"queue", "limit"} /\ Init /\ LimitInit

FrontNext ==
    \/ part = "queue" /\ Next /\ UNCHANGED <<part, limitVars>>
    \/ part = "limit" /\ LimitNext /\ UNCHANGED <<part, vars>>

FrontSpec == FrontInit /\ [][FrontNext]_frontVars /\ Fairness
=============================================================================
