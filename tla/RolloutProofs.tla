--------------------------- MODULE RolloutProofs ---------------------------
(***************************************************************************)
(* An update session implements Rollout.  The proof says of each action    *)
(* what it does to Place, container by container; the lemmas of the first  *)
(* part turn that into a step of Rollout.                                  *)
(***************************************************************************)
EXTENDS UpdateSessionProofs, UpdateRollout

-----------------------------------------------------------------------------
(* Steps of Rollout, in terms of Place *)

(* Containers are given up, or nothing happens; it may be the end. *)
LEMMA GivesUp ==
    ASSUME cfg' = cfg, ~Terminal,
           \A c \in Containers :
              Place'[c] # Place[c] => Place[c] \in {"kept", "down"} /\ Place'[c] = "left",
           Terminal' => \A c \in Containers : Place[c] # "down"
    PROVE  [R!Next]_R!rolloutVars
  <1>1. UNCHANGED <<cfg.rolling, Watchtowers>>
    BY DEF Watchtowers
  <1>2. Place' \in [Containers -> R!Places] /\ Place \in [Containers -> R!Places]
    BY DEF Place, R!Places
  <1>3. Terminal \in BOOLEAN /\ Terminal' \in BOOLEAN
    BY DEF Terminal
  <1>4. CASE Place' = Place /\ Terminal'
    BY <1>1, <1>4 DEF R!Next, R!End, R!At
  <1>5. CASE Place' = Place /\ ~Terminal'
    BY <1>1, <1>5, <1>3 DEF R!rolloutVars
  <1>6. CASE Place' # Place
    <2>1. R!GiveUp
      BY <1>2, <1>3, <1>6 DEF R!GiveUp, R!At
    <2>2. QED
      BY <2>1, <1>1 DEF R!Next
  <1>7. QED
    BY <1>4, <1>5, <1>6

(* One container changes its place, and the session goes on. *)
LEMMA Moves ==
    ASSUME TypeOK, cfg' = cfg, ~Terminal, ~Terminal', NEW c \in Containers,
           \A d \in Containers : d # c => Place'[d] = Place[d],
           \/ /\ Place[c] = "kept" /\ Place'[c] = "down" /\ c \notin Watchtowers
              /\ \A w \in Watchtowers : Place[w] = "kept"
              /\ \A d \in Containers : Place[d] # (IF cfg.rolling THEN "down" ELSE "back")
           \/ Place[c] = "down" /\ Place'[c] = "back"
           \/ /\ Place[c] = "kept" /\ Place'[c] = "back" /\ c \in Watchtowers
              /\ \A d \in Containers : Place[d] # "down"
    PROVE  R!Next
  <1>1. UNCHANGED <<cfg.rolling, Watchtowers>>
    BY DEF Watchtowers
  <1>2. Place' = [Place EXCEPT ![c] = Place'[c]]
    BY DEF Place
  <1>3. Terminal' = Terminal
    BY DEF Terminal
  <1>4. R!TakeDown(c) \/ R!BringBack(c) \/ R!Swap(c)
    BY <1>2, <1>3, ConfigTypes DEF TypeOK, R!TakeDown, R!BringBack, R!Swap, R!Move, R!At
  <1>5. QED
    BY <1>1, <1>4 DEF R!Next

-----------------------------------------------------------------------------
(***************************************************************************)
(* What the order of a session leaves out: the two ways to replace are     *)
(* told apart by the phase, what is ahead has no new instance, and no      *)
(* Watchtower has had its turn while others are ahead.                     *)
(***************************************************************************)
TurnInv ==
    /\ phase = "roll" => cfg.rolling
    /\ phase \in {"stop", "start"} => ~cfg.rolling
    /\ \A c \in todo : new[c] = "none"
    /\ phase \in {"stop", "roll"} /\ Plain(todo) # {} =>
          \A w \in Watchtowers : w \notin failed /\ new[w] = "none"

PlaceInv == TypeOK /\ ReasonInv /\ OrderInv /\ LostInv /\ TurnInv

LEMMA ScanTurns ==
    ASSUME PlaceInv, NEW c \in Containers, ScanStep(c)
    PROVE  TurnInv'
  <1>1. /\ phase = "scan" /\ todo' = todo \ {c}
        /\ UNCHANGED <<cfg, phase, new>>
    BY DEF ScanStep, ScanKnown, ScanError, ScanFresh, ScanStale, Scanning, Scanned, hostVars
  <1>2. QED
    BY <1>1 DEF PlaceInv, TurnInv

LEMMA PlanTurns ==
    ASSUME PlaceInv, BeginFails \/ Begin \/ ScanCancelled \/ PlanFails \/ MakePlan
    PROVE  TurnInv'
  <1>1. /\ phase \in {"begin", "scan"} /\ failed = {}
        /\ UNCHANGED <<cfg, failed, new>>
        /\ phase' \in {"error", "scan"} \cup {IF cfg.rolling THEN "roll" ELSE "stop"}
    BY DEF BeginFails, Begin, ScanCancelled, PlanFails, MakePlan, hostVars, PlaceInv, ReasonInv, LostInv
  <1>2. \A c \in Containers : new[c] = "none"
    BY <1>1 DEF PlaceInv, OrderInv
  <1>3. todo' \subseteq Containers /\ Watchtowers' \subseteq Containers
    <2>1. TypeOK'
      BY PlanTypes DEF PlaceInv
    <2>2. QED
      BY <2>1, <1>1, ConfigTypes DEF PlaceInv, TypeOK, Watchtowers
  <1>4. QED
    BY <1>1, <1>2, <1>3 DEF TurnInv, Watchtowers

LEMMA StopTurns ==
    ASSUME PlaceInv, NEW c \in Containers, cfg' = cfg, StopNext(c) \/ RollStop(c)
    PROVE  TurnInv'
  <1>1. /\ phase \in {"stop", "roll"} /\ phase' = phase /\ c \in todo /\ Stop(c)
        /\ todo' \subseteq todo
        /\ UNCHANGED <<new, Watchtowers>>
    BY DEF StopNext, RollStop, NextToStop, NextToStart, Watchtowers
  <1>2. Plain(todo)' # {} => Plain(todo) # {}
    BY <1>1 DEF Plain
  <1>3. \A w \in Watchtowers : w \in failed' => w \in failed
    BY <1>1 DEF Stop, StopSucceeds, StopRefused, RemoveFails
  <1>4. QED
    BY <1>1, <1>2, <1>3 DEF PlaceInv, TurnInv

LEMMA StartTurns ==
    ASSUME PlaceInv, NEW c \in Containers, cfg' = cfg,
           StartSkip(c) \/ StartNext(c) \/ RollStart(c)
    PROVE  TurnInv'
  <1>1. /\ phase \in {"start", "roll"} /\ phase' \in {phase, "killed"}
        /\ c \in todo /\ todo' = todo \ {c}
        /\ UNCHANGED Watchtowers
    BY RestartOutcome DEF StartSkip, StartNext, RollStart, NextToStart, InHand, PlaceInv, Watchtowers
  <1>2. \A d \in Containers : d # c => new'[d] = new[d] /\ (d \in failed' <=> d \in failed)
    BY OnlyTouches DEF StartSkip, StartNext, RollStart, hostVars, PlaceInv
  <1>3. phase = "roll" => NextToStart(c)
    BY DEF StartSkip, StartNext, RollStart, PlaceInv, OrderInv
  <1>4. phase = "roll" /\ Plain(todo)' # {} => c \notin Watchtowers /\ Plain(todo) # {}
    BY <1>1, <1>3 DEF NextToStart, Plain
  <1>5. todo \subseteq Containers /\ Watchtowers \subseteq Containers
    BY ConfigTypes DEF PlaceInv, TypeOK
  <1>6. QED
    BY <1>1, <1>2, <1>4, <1>5 DEF PlaceInv, TurnInv

LEMMA EndTurns ==
    ASSUME PlaceInv, cfg' = cfg,
           \/ StopCancelled \/ StopDone \/ StartCancelled \/ Finish
           \/ RollCancelled \/ RollDone \/ Superseded
    PROVE  TurnInv'
  <1>1. CASE StopCancelled \/ StartCancelled \/ Finish \/ RollCancelled \/ RollDone
    BY <1>1 DEF StopCancelled, StartCancelled, Finish, RollCancelled, RollDone, PlaceInv, TurnInv, Plain
  <1>2. CASE StopDone
    BY <1>2 DEF StopDone, hostVars, planVars, PlaceInv, TypeOK, OrderInv, TurnInv
  <1>3. CASE Superseded
    BY <1>3 DEF Superseded, PlaceInv, TurnInv
  <1>4. QED
    BY <1>1, <1>2, <1>3

LEMMA NextPlaces == PlaceInv /\ [Next]_vars => PlaceInv'
  <1> SUFFICES ASSUME PlaceInv, [Next]_vars
               PROVE  TurnInv'
    BY NextTypes, NextReasons, NextOrder, NextLoses DEF PlaceInv
  <1>1. CASE Over \/ UNCHANGED vars
    BY <1>1 DEF Over, vars, PlaceInv, TurnInv, Plain, Watchtowers
  <1>2. QED
    BY <1>1, SameConfig, ScanTurns, PlanTurns, StopTurns, StartTurns, EndTurns
       DEF Next, SessionStep, ContainerStep

-----------------------------------------------------------------------------
(* What each action does to Place *)

(* Nobody is down who is not stopped and ahead. *)
LEMMA NobodyDown ==
    ASSUME PlaceInv, phase # "stop", Plain(InHand) = {}
    PROVE  \A c \in Containers : Place[c] # "down"
  <1> SUFFICES ASSUME NEW c \in Containers, Place[c] = "down"
               PROVE  FALSE
    OBVIOUS
  <1>1. c \in Plain(stopped) /\ c \notin failed /\ new[c] = "none" /\ ~Withheld(c)
    BY DEF Place
  <1>2. c \notin todo
    BY <1>1 DEF InHand, Plain
  <1>3. phase \in {"start", "roll", "ok", "error", "killed"}
    BY <1>1 DEF PlaceInv, TypeOK, Phases, OrderInv, Plain
  <1>4. Starts(c)
    BY <1>1, <1>2, <1>3 DEF Withheld, Plain
  <1>5. Settled(c)
    BY <1>1, <1>2, <1>3 DEF PlaceInv, OrderInv, LostInv, Plain
  <1>6. QED
    BY <1>1, <1>4, <1>5 DEF Settled, Replaced, NewInstance

(* Before the first stop everybody is kept. *)
LEMMA AllKept ==
    ASSUME PlaceInv, phase \in {"begin", "scan"}
    PROVE  \A c \in Containers : Place[c] = "kept"
  BY DEF PlaceInv, ReasonInv, OrderInv, LostInv, Place, Withheld, Plain

LEMMA PlanPlaces ==
    ASSUME PlaceInv, PlaceInv', cfg' = cfg,
           \/ BeginFails \/ Begin \/ ScanCancelled \/ PlanFails \/ MakePlan
           \/ \E c \in Containers : ScanStep(c)
    PROVE  [R!Next]_R!rolloutVars
  <1>1. /\ phase \in {"begin", "scan"} /\ failed = {} /\ stopped = {}
        /\ UNCHANGED <<failed, stopped, new>>
    BY DEF BeginFails, Begin, ScanCancelled, PlanFails, MakePlan, ScanStep, ScanKnown, ScanError,
           ScanFresh, ScanStale, Scanning, Scanned, hostVars, PlaceInv, ReasonInv, OrderInv, LostInv
  <1>2. \A c \in Containers : Place[c] = "kept" /\ Place'[c] = "kept"
    BY <1>1, AllKept DEF Place, Withheld, Plain, PlaceInv, OrderInv
  <1>3. ~Terminal
    BY <1>1 DEF Terminal
  <1>4. QED
    BY <1>2, <1>3, GivesUp

(* The others stay where they are while one is stopped or restarted. *)
LEMMA OthersStay ==
    ASSUME PlaceInv, cfg' = cfg, NEW c \in Containers,
           \/ Stop(c) /\ UNCHANGED <<new, renamed, phase>>
           \/ Restart(c) /\ UNCHANGED stopped /\ phase \in {"start", "roll"},
           todo \ {c} \subseteq todo', todo' \subseteq todo,
           NEW d \in Containers, d # c
    PROVE  Place'[d] = Place[d]
  <1>1. new'[d] = new[d] /\ (d \in failed' <=> d \in failed) /\ (d \in todo' <=> d \in todo)
    BY OnlyTouches DEF PlaceInv
  <1>2. d \in stopped' <=> d \in stopped
    BY StopOutcome DEF PlaceInv
  <1>3. phase' = phase \/ (phase \in {"start", "roll"} /\ phase' = "killed")
    BY RestartOutcome DEF PlaceInv
  <1>4. Withheld(d)' <=> Withheld(d)
    BY <1>1, <1>2, <1>3 DEF Withheld, Starts, Watchtowers
  <1>5. QED
    BY <1>1, <1>2, <1>4 DEF Place, Plain, Watchtowers

(* A Watchtower is kept, or back, or given up: it is never down, nor withheld. *)
LEMMA WatchtowerPlace ==
    ASSUME PlaceInv, NEW w \in Watchtowers
    PROVE  Place[w] = IF w \in failed THEN "left" ELSE IF new[w] # "none" THEN "back" ELSE "kept"
  BY ConfigTypes DEF PlaceInv, TypeOK, Place, Withheld, Starts, Plain

LEMMA StopPlaces ==
    ASSUME PlaceInv, PlaceInv', NEW c \in Containers, cfg' = cfg, StopNext(c) \/ RollStop(c)
    PROVE  [R!Next]_R!rolloutVars
  <1>1. /\ phase \in {"stop", "roll"} /\ phase' = phase /\ c \in todo /\ Stop(c)
        /\ todo \ {c} \subseteq todo' /\ todo' \subseteq todo
        /\ phase = "roll" /\ c \in stopped' => c \in todo'
        /\ UNCHANGED <<new, renamed>>
    BY DEF StopNext, RollStop, NextToStop, NextToStart
  <1>2. InHand = {}
    BY <1>1 DEF StopNext, RollStop, PlaceInv, OrderInv
  <1>3. new[c] = "none" /\ c \notin stopped
    BY <1>1, <1>2 DEF PlaceInv, TurnInv, InHand
  <1>4. ~Terminal /\ ~Terminal'
    BY <1>1 DEF Terminal
  <1>5. \A d \in Containers : d # c => Place'[d] = Place[d]
    BY <1>1, OthersStay
  <1>6. Place[c] = IF c \in failed THEN "left" ELSE "kept"
    BY <1>3 DEF Place, Withheld, Plain
  <1>7. failed \subseteq failed' /\ (c \in failed' \/ c \in stopped')
    BY <1>1, StopOutcome DEF PlaceInv
  <1>8. CASE c \in failed'
    <2>1. Place'[c] = "left"
      BY <1>8 DEF Place
    <2>2. QED
      BY <2>1, <1>4, <1>5, <1>6, GivesUp
  <1>9. CASE c \notin failed' /\ c \in Watchtowers
    <2>1. Place'[c] = "kept"
      BY <1>9, <1>1, <1>3 DEF Place, Withheld, Plain, Starts, Watchtowers
    <2>2. QED
      BY <2>1, <1>4, <1>5, <1>6, <1>7, <1>9, GivesUp
  <1>10. CASE c \notin failed' /\ c \notin Watchtowers
    <2>1. c \in Plain(todo) /\ Place[c] = "kept" /\ c \in stopped'
      BY <1>10, <1>1, <1>6, <1>7 DEF Plain
    <2>2. ~Withheld(c)'
      BY <1>1, <2>1 DEF Withheld
    <2>3. Place'[c] = "down"
      BY <1>10, <1>1, <1>3, <2>1, <2>2 DEF Place, Plain, Watchtowers
    <2>4. \A w \in Watchtowers : Place[w] = "kept"
      BY <1>1, <2>1, WatchtowerPlace DEF PlaceInv, TurnInv
    <2>5. \A d \in Containers : Place[d] # (IF cfg.rolling THEN "down" ELSE "back")
      <3>1. CASE phase = "roll"
        BY <3>1, <1>2, NobodyDown DEF PlaceInv, TurnInv, Plain
      <3>2. CASE phase = "stop"
        BY <3>2 DEF PlaceInv, TurnInv, OrderInv, Place
      <3>3. QED
        BY <1>1, <3>1, <3>2
    <2>6. R!Next
      BY <2>1, <2>3, <2>4, <2>5, <1>4, <1>5, <1>10, Moves DEF PlaceInv
    <2>7. QED
      BY <2>6
  <1>11. QED
    BY <1>8, <1>9, <1>10

(* The process is ended only by a Watchtower's turn, when nobody is down any more. *)
LEMMA StartPlaces ==
    ASSUME PlaceInv, PlaceInv', NEW c \in Containers, cfg' = cfg, StartNext(c) \/ RollStart(c)
    PROVE  [R!Next]_R!rolloutVars
  <1>1. /\ phase \in {"start", "roll"} /\ c \in todo /\ todo' = todo \ {c} /\ Restart(c)
        /\ c \in Watchtowers \cup stopped
        /\ UNCHANGED stopped
    BY DEF StartNext, RollStart, NextToStart, PassedOver, InHand
  <1>2. NextToStart(c)
    BY DEF StartNext, RollStart, PlaceInv, OrderInv
  <1>3. ~Terminal /\ new[c] = "none" /\ ~Withheld(c)
    BY <1>1 DEF Terminal, PlaceInv, TurnInv, Withheld
  <1>4. Place[c] = IF c \in failed THEN "left" ELSE IF c \in Watchtowers THEN "kept" ELSE "down"
    BY <1>1, <1>3 DEF Place, Plain
  <1>5. \A d \in Containers : d # c => Place'[d] = Place[d]
    BY <1>1, OthersStay
  <1>6. c \in Watchtowers => \A d \in Containers : Place[d] # "down"
    <2>1. c \in Watchtowers => Plain(InHand) = {}
      BY <1>2 DEF NextToStart, InHand, Plain
    <2>2. QED
      BY <1>1, <2>1, NobodyDown
  <1>7. failed \subseteq failed' /\ Watchtowers' = Watchtowers /\ Starts(c)' = Starts(c)
    BY <1>1, RestartOutcome DEF PlaceInv, Watchtowers, Starts
  <1>8. CASE c \in failed'
    <2>1. Place'[c] = "left"
      BY <1>8 DEF Place
    <2>2. Terminal' => c \in Watchtowers
      BY <1>1 DEF Terminal, Restart, RenameFails, StartWithheld, StartSucceeds, StartFails,
                  Restarted, Renames
    <2>3. QED
      BY <2>1, <2>2, <1>3, <1>4, <1>5, <1>6, GivesUp
  <1>9. CASE c \notin failed' /\ StartWithheld(c)
    <2>1. phase' = phase /\ ~Starts(c) /\ c \in stopped
      BY <1>9, <1>1 DEF StartWithheld, Restarted, Starts
    <2>2. Withheld(c)'
      BY <2>1, <1>1, <1>7 DEF Withheld
    <2>3. Place'[c] = "left" /\ ~Terminal'
      BY <2>1, <2>2, <1>1 DEF Place, Terminal
    <2>4. QED
      BY <2>3, <1>3, <1>4, <1>5, <1>7, <1>9, GivesUp
  <1>10. CASE c \notin failed' /\ StartSucceeds(c)
    <2>1. phase' = phase /\ Starts(c) /\ new'[c] # "none"
      BY <1>10 DEF StartSucceeds, Restarted, NewInstance, PlaceInv, TypeOK
    <2>2. ~Withheld(c)' /\ ~Terminal'
      BY <2>1, <1>1, <1>7 DEF Withheld, Terminal
    <2>3. Place'[c] = "back"
      BY <2>1, <2>2, <1>10 DEF Place
    <2>4. \/ Place[c] = "down"
          \/ Place[c] = "kept" /\ c \in Watchtowers /\ \A d \in Containers : Place[d] # "down"
      BY <1>4, <1>6, <1>7, <1>10
    <2>5. R!Next
      BY <2>2, <2>3, <2>4, <1>3, <1>5, Moves DEF PlaceInv
    <2>6. QED
      BY <2>5
  <1>11. RenameFails(c) \/ StartFails(c) => c \in failed'
    BY DEF RenameFails, StartFails, RestartFailed
  <1>12. QED
    BY <1>1, <1>8, <1>9, <1>10, <1>11 DEF Restart

LEMMA SkipPlaces ==
    ASSUME PlaceInv, NEW c \in Containers, cfg' = cfg, StartSkip(c)
    PROVE  [R!Next]_R!rolloutVars
  <1>1. /\ phase = "start" /\ phase' = "start" /\ todo' = todo \ {c} /\ c \in todo
        /\ c \notin stopped \/ c \in Watchtowers
        /\ UNCHANGED <<stopped, failed, new, Watchtowers>>
    BY DEF StartSkip, NextToStart, PassedOver, OtherWatchtower, hostVars, Watchtowers
  <1>2. \A d \in Containers : Withheld(d)' <=> Withheld(d)
    BY <1>1 DEF Withheld, Starts
  <1>3. \A d \in Containers : Place'[d] = Place[d]
    BY <1>1, <1>2 DEF Place, Plain
  <1>4. ~Terminal /\ ~Terminal'
    BY <1>1 DEF Terminal
  <1>5. QED
    BY <1>3, <1>4, GivesUp

(* What remains ahead is given up, or nobody is down when the session ends. *)
LEMMA EndPlaces ==
    ASSUME PlaceInv, PlaceInv', cfg' = cfg,
           \/ StopCancelled \/ StopDone \/ StartCancelled \/ Finish
           \/ RollCancelled \/ RollDone \/ Superseded
    PROVE  [R!Next]_R!rolloutVars
  <1>1. CASE StopDone
    <2>1. /\ phase = "stop" /\ phase' = "start" /\ todo' = plan /\ stopped \subseteq plan
          /\ UNCHANGED <<stopped, failed, new, Watchtowers>>
      BY <1>1 DEF StopDone, hostVars, Watchtowers, PlaceInv, LostInv
    <2>2. \A c \in Containers : ~Withheld(c) /\ ~Withheld(c)'
      BY <2>1 DEF Withheld
    <2>3. \A c \in Containers : Place'[c] = Place[c]
      BY <2>1, <2>2 DEF Place, Plain
    <2>4. ~Terminal /\ ~Terminal'
      BY <2>1 DEF Terminal
    <2>5. QED
      BY <2>3, <2>4, GivesUp
  <1>2. CASE StopCancelled
    <2>1. /\ phase = "stop" /\ phase' = "stop" /\ failed \subseteq failed'
          /\ UNCHANGED <<stopped, new, Watchtowers>>
      BY <1>2 DEF StopCancelled, hostVars, Watchtowers
    <2>2. \A c \in Containers : ~Withheld(c) /\ ~Withheld(c)' /\ new[c] = "none"
      BY <2>1 DEF Withheld, PlaceInv, OrderInv
    <2>3. \A c \in Containers : Place'[c] # Place[c] =>
                                   Place[c] \in {"kept", "down"} /\ Place'[c] = "left"
      BY <2>1, <2>2 DEF Place, Plain
    <2>4. ~Terminal /\ ~Terminal'
      BY <2>1 DEF Terminal
    <2>5. QED
      BY <2>3, <2>4, GivesUp
  <1>3. CASE StartCancelled \/ RollCancelled
    <2>1. /\ phase \in {"start", "roll"} /\ phase' \in {"start", "error"}
          /\ failed' = failed \cup todo /\ todo' = {}
          /\ UNCHANGED <<stopped, new, Watchtowers>>
          /\ phase' = "error" => InHand = {}
      BY <1>3 DEF StartCancelled, RollCancelled, hostVars, Watchtowers
    <2>2. \A c \in Containers : c \notin failed' => (Withheld(c)' <=> Withheld(c))
      BY <2>1 DEF Withheld, Starts
    <2>3. \A c \in Containers : c \in todo => new[c] = "none"
      BY DEF PlaceInv, TurnInv
    <2>4. \A c \in Containers : Place'[c] # Place[c] =>
                                   Place[c] \in {"kept", "down"} /\ Place'[c] = "left"
      BY <2>1, <2>2, <2>3 DEF Place, Plain
    <2>5. Terminal' => \A c \in Containers : Place[c] # "down"
      BY <2>1, NobodyDown DEF Terminal, Plain
    <2>6. ~Terminal
      BY <2>1 DEF Terminal
    <2>7. QED
      BY <2>4, <2>5, <2>6, GivesUp
  <1>4. CASE Finish \/ RollDone \/ Superseded
    <2>1. /\ phase \in {"start", "roll"} /\ phase' \in {"ok", "killed"}
          /\ UNCHANGED <<todo, stopped, failed, new, Watchtowers>>
      BY <1>4 DEF Finish, RollDone, Superseded, hostVars, Watchtowers
    <2>2. Plain(InHand) = {}
      BY <1>4 DEF Finish, RollDone, Superseded, PlaceInv, OrderInv, InHand, Plain
    <2>3. \A c \in Containers : Withheld(c)' <=> Withheld(c)
      BY <2>1 DEF Withheld, Starts
    <2>4. \A c \in Containers : Place'[c] = Place[c]
      BY <2>1, <2>3 DEF Place, Plain
    <2>5. \A c \in Containers : Place[c] # "down"
      BY <2>1, <2>2, NobodyDown
    <2>6. ~Terminal
      BY <2>1 DEF Terminal
    <2>7. QED
      BY <2>4, <2>5, <2>6, GivesUp
  <1>5. QED
    BY <1>1, <1>2, <1>3, <1>4

LEMMA NextRolls == PlaceInv /\ PlaceInv' /\ [Next]_vars => [R!Next]_R!rolloutVars
  <1> SUFFICES ASSUME PlaceInv, PlaceInv', [Next]_vars
               PROVE  [R!Next]_R!rolloutVars
    OBVIOUS
  <1>1. CASE Over \/ UNCHANGED vars
    <2>1. UNCHANGED vars
      BY <1>1 DEF Over
    <2>2. Place' = Place /\ Terminal' = Terminal
      BY <2>1 DEF vars, Place, Plain, Watchtowers, Withheld, Starts, Terminal
    <2>3. QED
      BY <2>1, <2>2 DEF vars, R!rolloutVars, Watchtowers
  <1>2. QED
    BY <1>1, SameConfig, PlanPlaces, StopPlaces, StartPlaces, SkipPlaces, EndPlaces
       DEF Next, SessionStep, ContainerStep

LEMMA InitRolls == Init => PlaceInv /\ R!Init
  <1> SUFFICES ASSUME Init
               PROVE  PlaceInv /\ R!Init
    OBVIOUS
  <1>1. TypeOK
    BY InitTypes
  <1>2. ReasonInv /\ LostInv
    BY DEF Init, ReasonInv, Touched, Listed, LostInv, Lost
  <1>3. OrderInv /\ TurnInv
    BY DEF Init, OrderInv, TurnInv, Plain, InHand
  <1>4. R!Init
    <2>1. cfg.rolling \in BOOLEAN /\ Watchtowers \subseteq Containers
      BY <1>1, ConfigTypes DEF TypeOK, SessionConfig
    <2>2. Place = [c \in Containers |-> "kept"]
      BY DEF Init, Place, Withheld, Plain
    <2>3. Terminal = FALSE
      BY DEF Init, Terminal
    <2>4. QED
      BY <2>1, <2>2, <2>3 DEF R!Init
  <1>5. QED
    BY <1>1, <1>2, <1>3, <1>4 DEF PlaceInv

(***************************************************************************)
(* Whatever fails and whenever it is cancelled, a session keeps the        *)
(* discipline of Rollout: a batch stops all before it starts one, a        *)
(* rolling restart has one container down at a time, Watchtowers come      *)
(* last, and nothing is left down (update.go).                             *)
(***************************************************************************)
THEOREM SessionImplementsRollout == Spec => ImplementsRollout
  <1>1. PlaceInv /\ [Next]_vars => PlaceInv'
    BY NextPlaces
  <1>2. QED
    BY <1>1, InitRolls, NextRolls, PTL DEF Spec, ImplementsRollout, R!Spec
=============================================================================
