---------------------------- MODULE MCUpdateLock ----------------------------
(* Small instances of UpdateLock. *)
EXTENDS UpdateLock

CONSTANTS t1, t2, full

MCRequests == {t1, t2, full}
MCTargeted == {t1, t2}
MCFallible == {t2}

AllSettings == Setting

(* One setting of each kind of API, with everything else enabled. *)
BusySettings ==
    {[api |-> a, cron |-> TRUE, onStart |-> TRUE, removed |-> FALSE] :
        a \in {"off", "blocking", "unblocked"}}
=============================================================================
