--------------------------- MODULE UpdateRollout ---------------------------
(***************************************************************************)
(* An update session implements Rollout: where each container is follows   *)
(* from what the session has recorded of it and from what it has created.  *)
(***************************************************************************)
EXTENDS UpdateSession

(* --no-restart: restartStaleContainer returned without starting it. *)
Withheld(c) ==
    /\ ~Starts(c)
    /\ c \in stopped \ todo
    /\ phase \in {"start", "roll", "ok", "error", "killed"}

Place == [c \in Containers |->
    IF c \in failed \/ Withheld(c) THEN "left"
    ELSE IF new[c] # "none" THEN "back"
    ELSE IF c \in Plain(stopped) THEN "down"
    ELSE "kept"]

R == INSTANCE Rollout WITH
        rolling <- cfg.rolling,
        watchtowers <- Watchtowers,
        place <- Place,
        over <- Terminal

(***************************************************************************)
(* Every step of a session, its failures, its cancellation and the end of  *)
(* its process among them, is a step Rollout allows: a batch stops all     *)
(* before it starts one, a rolling restart has one container down at a     *)
(* time, Watchtowers come last, and nothing is down when it is over        *)
(* (stopContainersInReversedOrder, restartContainersInSortedOrder and      *)
(* performRollingRestart).                                                 *)
(***************************************************************************)
ImplementsRollout == R!Spec
=============================================================================
