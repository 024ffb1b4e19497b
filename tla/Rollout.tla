------------------------------ MODULE Rollout ------------------------------
(***************************************************************************)
(* What an update session promises for the containers of its host, without *)
(* the scan, the plan, the Docker calls and their errors: every container  *)
(* is kept, or taken down and brought back, or given up with a record of   *)
(* it, and the session leaves none in between when it ends.  Watchtowers   *)
(* are never taken down: they are swapped for their successor, after all   *)
(* the others.                                                             *)
(*                                                                         *)
(* A batch brings nobody back before the last container has been taken     *)
(* down; a rolling restart has at most one container down.                 *)
(***************************************************************************)

CONSTANT Containers

VARIABLES
    rolling,       \* one container at a time, or a batch
    watchtowers,   \* the containers that run Watchtower
    place,         \* where each container is in its replacement
    over           \* the session has returned, or its process is gone

rolloutVars == <<rolling, watchtowers, place, over>>

Places == {"kept", "down", "back", "left"}

At(p) == {c \in Containers : place[c] = p}

Init ==
    /\ rolling \in BOOLEAN
    /\ watchtowers \subseteq Containers
    /\ place = [c \in Containers |-> "kept"]
    /\ over = FALSE

Move(c, from, to) ==
    /\ place[c] = from /\ place'[c] = to
    /\ place' = [place EXCEPT ![c] = to]
    /\ over' = over

(* Nobody is taken down once a Watchtower has had its turn. *)
TakeDown(c) ==
    /\ c \notin watchtowers
    /\ Move(c, "kept", "down")
    /\ watchtowers \subseteq At("kept")
    /\ At(IF rolling THEN "down" ELSE "back") = {}

(* The new instance takes the place of the one that was taken down. *)
BringBack(c) == Move(c, "down", "back")

(* A Watchtower starts its successor while it runs. *)
Swap(w) ==
    /\ w \in watchtowers
    /\ Move(w, "kept", "back")
    /\ At("down") = {}

(* One failed, or all that remain after a cancellation; it may be the end. *)
GiveUp ==
    /\ place' # place
    /\ place' \in [Containers -> Places]
    /\ \A c \in Containers :
          place'[c] # place[c] => place[c] \in {"kept", "down"} /\ place'[c] = "left"
    /\ over' \in BOOLEAN
    /\ over' => At("down")' = {}

End ==
    /\ At("down") = {}
    /\ over' = TRUE
    /\ place' = place

Next ==
    /\ ~over
    /\ UNCHANGED <<rolling, watchtowers>>
    /\ \/ \E c \in Containers : TakeDown(c) \/ BringBack(c) \/ Swap(c)
       \/ GiveUp
       \/ End

Spec == Init /\ [][Next]_rolloutVars
=============================================================================
