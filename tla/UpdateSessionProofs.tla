------------------------ MODULE UpdateSessionProofs ------------------------
(***************************************************************************)
(* The safety properties of UpdateSession that do not depend on the size   *)
(* of the host: for every set of containers, links, settings and faults.   *)
(***************************************************************************)
EXTENDS UpdateSession, TLAPS

-----------------------------------------------------------------------------
(* Types *)

LEMMA ConfigTypes ==
    ASSUME cfg \in Configs
    PROVE  /\ cfg \in SessionConfig
           /\ Watchtowers \subseteq Containers
           /\ Self \in Watchtowers /\ Self \notin cfg.stopped
           /\ cfg.filtered \subseteq Containers
           /\ cfg.links \in [Containers -> SUBSET Containers]
           /\ cfg.image \in [Containers -> Images]
  BY SessionAssumption DEF SessionConfig, Watchtowers

(* No step changes the host's description. *)
LEMMA SameConfig == [Next]_vars => cfg' = cfg
  BY DEF Next, SessionStep, BeginFails, Begin, ScanCancelled, PlanFails, MakePlan,
         StopCancelled, StopDone, StartCancelled, Finish, RollCancelled, RollDone,
         ContainerStep, ScanStep, ScanKnown, ScanError, ScanFresh, ScanStale, Scanned,
         StopNext, StartSkip, StartNext, RollStop, RollStart, Superseded, Over, vars

States == {"none", "skipped", "scanned", "updated", "failed", "restarted"}

LEMMA MarkTypes ==
    ASSUME TypeOK, NEW F, MarkFailed(F) \/ MarkForUpdate(F)
    PROVE  prog' \in [Containers -> States]
  BY DEF TypeOK, MarkFailed, MarkForUpdate, States

LEMMA StopTypes ==
    ASSUME TypeOK, NEW c \in Containers, Stop(c)
    PROVE  /\ old' \in [Containers -> {"up", "down", "gone"}]
           /\ stopped' \subseteq Containers /\ failed' \subseteq Containers
  BY DEF TypeOK, Stop, StopSucceeds, StopRefused, RemoveFails

LEMMA RestartedTypes ==
    ASSUME TypeOK, NEW c \in Containers, Restarted(c) \/ RestartFailed(c)
    PROVE  /\ prog' \in [Containers -> States]
           /\ cleanup' \subseteq Images
           /\ failed' \subseteq Containers
  <1>1. cfg.image[c] \in Images
    BY ConfigTypes DEF TypeOK
  <1>2. QED
    BY <1>1 DEF TypeOK, Restarted, RestartFailed, States

LEMMA DiscardTypes ==
    ASSUME TypeOK, NEW c \in Containers, Discard(c)
    PROVE  /\ old' \in [Containers -> {"up", "down", "gone"}]
           /\ phase' \in {phase, "killed"}
  BY DEF TypeOK, Discard

LEMMA RestartTypes ==
    ASSUME TypeOK, NEW c \in Containers, Restart(c), cfg' = cfg
    PROVE  /\ prog' \in [Containers -> States]
           /\ cleanup' \subseteq Images
           /\ failed' \subseteq Containers
           /\ old' \in [Containers -> {"up", "down", "gone"}]
           /\ new' \in [Containers -> {"none", "created", "up"}]
           /\ renamed' \subseteq Watchtowers' /\ retired' \subseteq Watchtowers'
           /\ phase' \in Phases
  <1>1. UNCHANGED Watchtowers
    BY DEF Watchtowers
  <1>2. CASE RenameFails(c)
    BY <1>1, <1>2, RestartedTypes DEF RenameFails, TypeOK
  <1>3. CASE StartWithheld(c)
    BY <1>1, <1>3, RestartedTypes DEF StartWithheld, Restarted, TypeOK
  <1>4. CASE StartSucceeds(c)
    <2>1. Restarted(c) /\ UNCHANGED <<old, phase>>
      BY <1>4 DEF StartSucceeds, Restarted
    <2>2. new' \in [Containers -> {"none", "created", "up"}]
      BY <1>4 DEF StartSucceeds, NewInstance, TypeOK
    <2>3. renamed' \subseteq Watchtowers' /\ retired' \subseteq Watchtowers'
      BY <1>1, <1>4 DEF StartSucceeds, Renames, TypeOK
    <2>4. QED
      BY <2>1, <2>2, <2>3, RestartedTypes DEF TypeOK
  <1>5. CASE StartFails(c)
    <2>1. RestartFailed(c) /\ UNCHANGED retired
      BY <1>5 DEF StartFails
    <2>2. new' \in [Containers -> {"none", "created", "up"}]
      BY <1>5 DEF StartFails, StartLeftover, TypeOK
    <2>3. CASE Renames(c)
      <3>1. renamed' = renamed \cup {c} /\ Discard(c) /\ c \in Watchtowers
        BY <1>5, <2>3 DEF StartFails, Renames
      <3>2. QED
        BY <1>1, <2>1, <2>2, <3>1, DiscardTypes, RestartedTypes DEF TypeOK, Phases
    <2>4. CASE ~Renames(c)
      <3>1. UNCHANGED <<renamed, old, phase>>
        BY <1>5, <2>4 DEF StartFails
      <3>2. QED
        BY <1>1, <2>1, <2>2, <3>1, RestartedTypes DEF TypeOK
    <2>5. QED
      BY <2>3, <2>4
  <1>6. QED
    BY <1>2, <1>3, <1>4, <1>5 DEF Restart

LEMMA InitTypes == Init => TypeOK
  <1> SUFFICES ASSUME Init
               PROVE  TypeOK
    OBVIOUS
  <1>1. cfg \in Configs
    BY DEF Init
  <1>2. QED
    BY <1>1, ConfigTypes DEF Init, TypeOK, Phases

(* The steps before anything is stopped. *)
LEMMA ScanTypes ==
    ASSUME TypeOK, NEW c \in Containers, ScanStep(c)
    PROVE  TypeOK'
  <1>1. PICK s \in States, n \in BOOLEAN, t \in BOOLEAN : Scanned(c, s, n, t)
    BY DEF ScanStep, ScanKnown, ScanError, ScanFresh, ScanStale, ShouldUpdate,
           OtherWatchtower, States, TypeOK
  <1>2. cancelled' \in BOOLEAN
    BY DEF ScanStep, ScanKnown, ScanError, ScanFresh, ScanStale, Scanning, MayCancel, TypeOK
  <1>3. QED
    BY <1>1, <1>2 DEF Scanned, TypeOK, hostVars, States, Watchtowers

LEMMA PlanTypes ==
    ASSUME TypeOK,
           BeginFails \/ Begin \/ ScanCancelled \/ PlanFails \/ MakePlan
    PROVE  TypeOK'
  <1> USE ConfigTypes DEF TypeOK, hostVars, reportVars, planVars, Watchtowers, MayCancel, Phases
  <1>1. CASE BeginFails \/ ScanCancelled \/ PlanFails
    BY <1>1 DEF BeginFails, ScanCancelled, PlanFails
  <1>2. CASE Begin
    <2>1. prog' \in [Containers -> States]
      BY <1>2 DEF Begin, States
    <2>2. QED
      BY <1>2, <2>1 DEF Begin, States
  <1>3. CASE MakePlan
    <2>1. prog' \in [Containers -> States]
      BY <1>3, MarkTypes DEF MakePlan, States
    <2>2. linked' \subseteq Containers /\ plan' \subseteq Containers
      BY <1>3 DEF MakePlan, ImplicitRestarts, ToReplace
    <2>3. QED
      BY <1>3, <2>1, <2>2 DEF MakePlan, States
  <1>4. QED
    BY <1>1, <1>2, <1>3

(* The steps that replace containers. *)
LEMMA ReplaceTypes ==
    ASSUME TypeOK, NEW c \in Containers, cfg' = cfg,
           StopNext(c) \/ StartSkip(c) \/ StartNext(c) \/ RollStop(c) \/ RollStart(c)
    PROVE  TypeOK'
  <1> USE DEF TypeOK, hostVars, reportVars, planVars, MayCancel
  <1>1. UNCHANGED Watchtowers
    BY DEF Watchtowers
  <1>2. CASE StopNext(c)
    BY <1>1, <1>2, StopTypes DEF StopNext
  <1>3. CASE StartSkip(c)
    BY <1>1, <1>3 DEF StartSkip
  <1>4. CASE StartNext(c)
    BY <1>1, <1>4, RestartTypes DEF StartNext, States
  <1>5. CASE RollStop(c)
    BY <1>1, <1>5, StopTypes, MarkTypes DEF RollStop, States
  <1>6. CASE RollStart(c)
    BY <1>1, <1>6, RestartTypes DEF RollStart, States
  <1>7. QED
    BY <1>2, <1>3, <1>4, <1>5, <1>6

LEMMA EndTypes ==
    ASSUME TypeOK, cfg' = cfg,
           \/ StopCancelled \/ StopDone \/ StartCancelled \/ Finish
           \/ RollCancelled \/ RollDone \/ Superseded
    PROVE  TypeOK'
  <1> USE DEF TypeOK, hostVars, reportVars, planVars, MayCancel, Phases
  <1>1. UNCHANGED Watchtowers
    BY DEF Watchtowers
  <1>2. CASE StopCancelled \/ StartCancelled
    BY <1>1, <1>2 DEF StopCancelled, StartCancelled
  <1>3. CASE StopDone \/ Finish \/ RollDone
    BY <1>1, <1>3, MarkTypes DEF StopDone, Finish, RollDone, States
  <1>4. CASE RollCancelled
    BY <1>1, <1>4, MarkTypes DEF RollCancelled, States
  <1>5. CASE Superseded
    BY <1>1, <1>5 DEF Superseded
  <1>6. QED
    BY <1>2, <1>3, <1>4, <1>5

LEMMA NextTypes == TypeOK /\ [Next]_vars => TypeOK'
  <1> SUFFICES ASSUME TypeOK, [Next]_vars
               PROVE  TypeOK'
    OBVIOUS
  <1>1. CASE Over \/ UNCHANGED vars
    BY <1>1 DEF Over, vars, TypeOK, Watchtowers
  <1>2. QED
    BY <1>1, SameConfig, ScanTypes, PlanTypes, ReplaceTypes, EndTypes
       DEF Next, SessionStep, ContainerStep

(* The variables hold values of their types. *)
THEOREM Typing == Spec => []TypeOK
  BY InitTypes, NextTypes, PTL DEF Spec

-----------------------------------------------------------------------------
(***************************************************************************)
(* Reasons: what is touched was planned, and what was planned is stale or  *)
(* leads to something stale.                                               *)
(***************************************************************************)
Planned(c) == c \in cfg.filtered \ cfg.monitorOnly /\ ReachesStale(c)

ReasonInv ==
    /\ stale \subseteq cfg.filtered \ cfg.monitorOnly
    /\ \A c \in plan : Planned(c)
    /\ phase \in {"begin", "scan"} => plan = {}
    /\ phase = "scan" => todo \subseteq cfg.filtered
    /\ phase \in {"stop", "start", "roll"} => todo \subseteq plan
    /\ \A c \in Containers : Touched(c) => c \in plan \/ (c = Self /\ phase = "killed")

(* The least fixed point of UpdateImplicitRestart follows links to a stale container. *)
LEMMA RestartsReachStale ==
    ASSUME stale \subseteq cfg.filtered, NEW c \in ImplicitRestarts(stale)
    PROVE  ReachesStale(c)
  <1> SUFFICES ASSUME NEW X \in SUBSET cfg.filtered, c \in X,
                      \A d \in X : cfg.links[d] \cap cfg.filtered \subseteq X,
                      X \cap stale = {}
               PROVE  FALSE
    BY DEF ReachesStale
  <1> DEFINE L == (cfg.filtered \ stale) \ X
  <1>1. ASSUME NEW d \in cfg.filtered \ stale, cfg.links[d] \cap (stale \cup L) # {}
        PROVE  d \in L
    <2>1. PICK e \in cfg.links[d] : e \in stale \cup L
      BY <1>1
    <2>2. e \in cfg.filtered /\ e \notin X
      BY <2>1
    <2>3. QED
      BY <2>1, <2>2
  <1>2. ClosedRestarts(L, stale)
    BY <1>1 DEF ClosedRestarts
  <1>3. c \in L
    BY <1>2 DEF ImplicitRestarts
  <1>4. QED
    BY <1>3

(* More stale containers give more reasons. *)
LEMMA ReasonsGrow ==
    ASSUME cfg' = cfg, stale \subseteq stale', NEW c, Planned(c)
    PROVE  Planned(c)'
  BY DEF Planned, ReachesStale

(* A step that touches nothing and plans nothing. *)
LEMMA ReasonsStay ==
    ASSUME ReasonInv, cfg' = cfg, plan' = plan, stale' = stale, UNCHANGED hostVars,
           phase' \in {"begin", "scan"} => plan = {},
           phase' = "scan" => todo' \subseteq cfg.filtered,
           phase' \in {"stop", "start", "roll"} => todo' \subseteq plan,
           phase # "killed"
    PROVE  ReasonInv'
  <1>1. \A c \in plan : Planned(c)'
    BY ReasonsGrow DEF ReasonInv
  <1>2. \A c \in Containers : Touched(c)' => Touched(c)
    BY DEF Touched, Listed, hostVars
  <1>3. QED
    BY <1>1, <1>2 DEF ReasonInv

LEMMA ScanReasons ==
    ASSUME TypeOK, ReasonInv, NEW c \in Containers, ScanStep(c)
    PROVE  ReasonInv'
  <1>1. /\ phase = "scan" /\ c \in todo /\ plan = {}
        /\ todo' = todo \ {c}
        /\ UNCHANGED <<cfg, phase, plan, hostVars>>
    BY DEF ReasonInv, ScanStep, ScanKnown, ScanError, ScanFresh, ScanStale, Scanning, Scanned
  <1>2. stale' \in {stale, stale \cup {c}} /\ (stale' # stale => c \notin cfg.monitorOnly)
    BY DEF ScanStep, ScanKnown, ScanError, ScanFresh, ScanStale, Scanned, ShouldUpdate
  <1>3. stale' \subseteq cfg.filtered \ cfg.monitorOnly
    BY <1>1, <1>2 DEF ReasonInv
  <1>4. \A d \in Containers : Touched(d)' => Touched(d)
    BY <1>1 DEF Touched, Listed, hostVars
  <1>5. QED
    BY <1>1, <1>3, <1>4 DEF ReasonInv

LEMMA PlanReasons ==
    ASSUME TypeOK, ReasonInv,
           BeginFails \/ Begin \/ ScanCancelled \/ PlanFails \/ MakePlan
    PROVE  ReasonInv'
  <1>1. CASE BeginFails \/ Begin \/ ScanCancelled \/ PlanFails
    BY <1>1, ReasonsStay
       DEF BeginFails, Begin, ScanCancelled, PlanFails, ReasonInv, planVars
  <1>2. CASE MakePlan
    <2>1. /\ UNCHANGED <<cfg, stale, hostVars>>
          /\ phase = "scan" /\ phase' \in {"stop", "roll"} /\ todo' = plan'
          /\ plan' = ToReplace(stale, linked')
          /\ linked' \subseteq ImplicitRestarts(stale)
      BY <1>2 DEF MakePlan
    <2>2. \A c \in plan' : c \in cfg.filtered \ cfg.monitorOnly
      BY <2>1 DEF ToReplace, ImplicitRestarts, ReasonInv
    <2>3. ASSUME NEW c \in plan'
          PROVE  ReachesStale(c)
      <3>1. CASE c \in stale
        BY <3>1 DEF ReachesStale
      <3>2. CASE c \in ImplicitRestarts(stale)
        BY <3>2, RestartsReachStale DEF ReasonInv
      <3>3. QED
        BY <3>1, <3>2, <2>1 DEF ToReplace
    <2>4. \A c \in plan' : Planned(c)'
      BY <2>1, <2>2, <2>3, ReasonsGrow DEF Planned
    <2>5. \A c \in Containers : ~Touched(c)'
      BY <2>1 DEF ReasonInv, Touched, Listed, hostVars
    <2>6. QED
      BY <2>1, <2>4, <2>5 DEF ReasonInv
  <1>3. QED
    BY <1>1, <1>2

(* Stopping or restarting c touches no other container. *)
LEMMA OnlyTouches ==
    ASSUME TypeOK, cfg' = cfg, NEW c \in Containers,
           \/ Stop(c) /\ UNCHANGED <<new, renamed>>
           \/ Restart(c),
           NEW d \in Containers, d # c
    PROVE  /\ old'[d] = old[d] /\ new'[d] = new[d]
           /\ d \in renamed' <=> d \in renamed
           /\ d \in failed' <=> d \in failed
  BY DEF TypeOK, Stop, StopSucceeds, StopRefused, RemoveFails, Restart, RenameFails,
         StartWithheld, StartSucceeds, StartFails, Discard, Restarted, RestartFailed

LEMMA ReplaceReasons ==
    ASSUME TypeOK, ReasonInv, NEW c \in Containers, cfg' = cfg,
           StopNext(c) \/ StartSkip(c) \/ StartNext(c) \/ RollStop(c) \/ RollStart(c)
    PROVE  ReasonInv'
  <1>1. /\ phase \in {"stop", "start", "roll"} /\ c \in todo /\ c \in plan
        /\ UNCHANGED <<plan, stale>>
        /\ todo' \subseteq plan
    BY DEF StopNext, StartSkip, StartNext, RollStop, RollStart, NextToStart, NextToStop,
           InHand, planVars, ReasonInv
  <1>2. phase' \in {phase, "killed"}
    BY DEF StopNext, StartSkip, StartNext, RollStop, RollStart, Restart, RenameFails,
           StartWithheld, StartSucceeds, StartFails, Discard, Restarted
  <1>3. \A d \in plan : Planned(d)'
    BY <1>1, ReasonsGrow DEF ReasonInv
  <1>4. ASSUME NEW d \in Containers, Touched(d)'
        PROVE  d \in plan
    <2>1. CASE d = c
      BY <2>1, <1>1
    <2>2. CASE d # c
      <3>1. CASE StartSkip(c)
        BY <3>1, <1>1, <1>4 DEF StartSkip, Touched, Listed, hostVars, ReasonInv
      <3>2. CASE StopNext(c) \/ StartNext(c) \/ RollStop(c) \/ RollStart(c)
        BY <3>2, <2>2, <1>1, <1>4, OnlyTouches
           DEF StopNext, StartNext, RollStop, RollStart, Touched, Listed, ReasonInv
      <3>3. QED
        BY <3>1, <3>2
    <2>3. QED
      BY <2>1, <2>2
  <1>5. QED
    BY <1>1, <1>2, <1>3, <1>4 DEF ReasonInv

LEMMA EndReasons ==
    ASSUME TypeOK, ReasonInv, cfg' = cfg,
           \/ StopCancelled \/ StopDone \/ StartCancelled \/ Finish
           \/ RollCancelled \/ RollDone \/ Superseded
    PROVE  ReasonInv'
  <1>1. CASE StopCancelled \/ StopDone \/ StartCancelled \/ Finish \/ RollCancelled \/ RollDone
    BY <1>1, ReasonsStay
       DEF StopCancelled, StopDone, StartCancelled, Finish, RollCancelled, RollDone,
           ReasonInv, planVars
  <1>2. CASE Superseded
    <2>1. /\ phase' = "killed"
          /\ UNCHANGED <<plan, stale, new, renamed>>
          /\ old' = [old EXCEPT ![Self] = "gone"]
      BY <1>2 DEF Superseded, planVars
    <2>2. \A d \in Containers \ {Self} : Touched(d)' => Touched(d) /\ phase # "killed"
      BY <1>2, <2>1 DEF Touched, Listed, TypeOK, Superseded
    <2>3. \A d \in plan : Planned(d)'
      BY <2>1, ReasonsGrow DEF ReasonInv
    <2>4. QED
      BY <2>1, <2>2, <2>3 DEF ReasonInv
  <1>3. QED
    BY <1>1, <1>2

LEMMA NextReasons == TypeOK /\ ReasonInv /\ [Next]_vars => ReasonInv'
  <1> SUFFICES ASSUME TypeOK, ReasonInv, [Next]_vars
               PROVE  ReasonInv'
    OBVIOUS
  <1>1. CASE Over \/ UNCHANGED vars
    BY <1>1 DEF Over, vars, ReasonInv, Planned, ReachesStale, Touched, Listed
  <1>2. QED
    BY <1>1, SameConfig, ScanReasons, PlanReasons, ReplaceReasons, EndReasons
       DEF Next, SessionStep, ContainerStep

(* No container is touched unless it may be and something stale asks for it. *)
THEOREM TouchesAreJustified == Spec => []TouchedForAReason
  <1>1. Init => ReasonInv
    BY DEF Init, ReasonInv, Touched, Listed
  <1>2. ReasonInv => TouchedForAReason
    BY DEF ReasonInv, TouchedForAReason, Planned
  <1>3. QED
    BY <1>1, <1>2, NextReasons, Typing, PTL DEF Spec

-----------------------------------------------------------------------------
(***************************************************************************)
(* Order: what a loop has left behind is settled, what it has taken up was *)
(* its turn, and a Watchtower is renamed only when Watchtowers are left.   *)
(***************************************************************************)
OrderInv ==
    /\ phase \in {"begin", "scan"} => stopped = {}
    /\ phase \in {"begin", "scan", "stop"} =>
          renamed = {} /\ \A c \in Containers : new[c] = "none"
    /\ phase = "stop" => Plain(plan) \subseteq todo \cup stopped \cup failed /\ InHand = {}
    /\ phase = "start" => Plain(plan) \subseteq stopped \cup failed
    /\ phase # "stop" => \A c \in Plain(plan) \ todo : Settled(c)
    /\ phase = "roll" => \A c \in InHand : NextToStart(c)
    /\ \A c \in Plain(stopped) : old[c] = "gone"
    /\ \A d \in Plain(plan) : new[d] # "none" => cfg.links[d] \cap Plain(todo) = {}
    /\ renamed # {} => todo \subseteq Watchtowers

LEMMA StopOutcome ==
    ASSUME TypeOK, NEW c \in Containers, cfg' = cfg, Stop(c)
    PROVE  /\ stopped \subseteq stopped' /\ stopped' \subseteq stopped \cup {c}
           /\ failed \subseteq failed'
           /\ c \in stopped' \cup failed'
           /\ c \in Plain(stopped') /\ c \notin stopped => old'[c] = "gone"
  BY DEF TypeOK, Stop, StopSucceeds, StopRefused, RemoveFails, Plain

LEMMA RestartOutcome ==
    ASSUME TypeOK, NEW c \in Containers, cfg' = cfg, Restart(c)
    PROVE  /\ renamed \subseteq renamed' /\ renamed' \subseteq renamed \cup {c}
           /\ c \in renamed' => c \in renamed \cup Watchtowers
           /\ c \notin Watchtowers => old'[c] = old[c]
           /\ c \notin Watchtowers => Settled(c)'
           /\ failed \subseteq failed'
           /\ phase' \in {phase, "killed"}
  <1>1. CASE RenameFails(c)
    BY <1>1 DEF RenameFails, Renames, RestartFailed, TypeOK, Watchtowers
  <1>2. CASE StartWithheld(c)
    BY <1>2 DEF StartWithheld, Restarted, TypeOK, Settled, Starts, Watchtowers
  <1>3. CASE StartSucceeds(c)
    <2>1. c \notin Watchtowers => Replaced(c)'
      BY <1>3 DEF StartSucceeds, NameFree, Renames, Replaced, NewInstance, TypeOK
    <2>2. QED
      BY <1>3, <2>1 DEF StartSucceeds, Restarted, Renames, Settled, TypeOK
  <1>4. CASE StartFails(c)
    BY <1>4 DEF StartFails, RestartFailed, Discard, Renames, TypeOK, Settled
  <1>5. QED
    BY <1>1, <1>2, <1>3, <1>4 DEF Restart

(* What is settled stays so while another container is handled. *)
LEMMA SettledStays ==
    ASSUME TypeOK, cfg' = cfg, NEW c \in Containers,
           \/ Stop(c) /\ UNCHANGED <<new, renamed>>
           \/ Restart(c),
           NEW d \in Containers, d # c, Settled(d)
    PROVE  Settled(d)'
  BY OnlyTouches DEF Settled, Replaced, Starts, NewInstance, Watchtowers

LEMMA ScanOrder ==
    ASSUME TypeOK, ReasonInv, OrderInv, NEW c \in Containers, ScanStep(c)
    PROVE  OrderInv'
  <1>1. /\ phase = "scan" /\ plan = {} /\ UNCHANGED <<cfg, phase, plan, stopped, failed, hostVars>>
        /\ todo' \subseteq todo
    BY DEF ReasonInv, ScanStep, ScanKnown, ScanError, ScanFresh, ScanStale, Scanning, Scanned
  <1>2. QED
    BY <1>1 DEF OrderInv, hostVars, Plain, Watchtowers

LEMMA PlanOrder ==
    ASSUME TypeOK, ReasonInv, OrderInv,
           BeginFails \/ Begin \/ ScanCancelled \/ PlanFails \/ MakePlan
    PROVE  OrderInv'
  <1>1. CASE BeginFails \/ Begin \/ ScanCancelled \/ PlanFails
    <2>1. /\ plan = {} /\ renamed = {} /\ stopped = {} /\ \A c \in Containers : new[c] = "none"
          /\ UNCHANGED <<cfg, plan, stopped, failed, hostVars>>
          /\ phase' \in {"scan", "error"}
      BY <1>1 DEF BeginFails, Begin, ScanCancelled, PlanFails, ReasonInv, OrderInv, planVars
    <2>2. QED
      BY <2>1 DEF OrderInv, hostVars, Plain
  <1>2. CASE MakePlan
    <2>1. /\ UNCHANGED <<cfg, stopped, failed, hostVars>>
          /\ phase' \in {"stop", "roll"} /\ todo' = plan' /\ plan' \subseteq Containers
          /\ renamed = {} /\ stopped = {} /\ \A c \in Containers : new[c] = "none"
      BY <1>2, PlanTypes DEF MakePlan, OrderInv, TypeOK
    <2>2. QED
      BY <2>1 DEF OrderInv, hostVars, Plain, InHand
  <1>3. QED
    BY <1>1, <1>2

LEMMA StopOrder ==
    ASSUME TypeOK, ReasonInv, OrderInv, NEW c \in Containers, cfg' = cfg, StopNext(c)
    PROVE  OrderInv'
  <1>1. /\ phase = "stop" /\ phase' = "stop" /\ Stop(c)
        /\ todo' = todo \ {c}
        /\ UNCHANGED <<plan, new, renamed>>
    BY DEF StopNext, planVars
  <1>2. \A d \in Containers : d # c => old'[d] = old[d]
    BY <1>1, OnlyTouches
  <1>3. \A d \in Plain(stopped)' : old'[d] = "gone"
    <2>1. c \notin stopped
      BY <1>1 DEF StopNext, NextToStop, OrderInv, InHand
    <2>2. QED
      BY <1>1, <1>2, <2>1, StopOutcome DEF OrderInv, Plain, Watchtowers, TypeOK
  <1>4. QED
    BY <1>1, <1>3, StopOutcome DEF OrderInv, Plain, Watchtowers, InHand

LEMMA RollStopOrder ==
    ASSUME TypeOK, ReasonInv, OrderInv, NEW c \in Containers, cfg' = cfg, RollStop(c)
    PROVE  OrderInv'
  <1>1. /\ phase = "roll" /\ phase' = "roll" /\ Stop(c) /\ c \in todo /\ c \notin stopped
        /\ NextToStart(c) /\ InHand = {}
        /\ todo' = IF c \in stopped' THEN todo ELSE todo \ {c}
        /\ UNCHANGED <<plan, new, renamed>>
    BY DEF RollStop, planVars, NextToStart, InHand
  <1>2. UNCHANGED Watchtowers
    BY DEF Watchtowers
  <1>3. \A d \in Plain(stopped)' : old'[d] = "gone"
    BY <1>1, <1>2, OnlyTouches, StopOutcome DEF OrderInv, Plain, TypeOK
  <1>4. \A d \in (Plain(plan) \ todo)' : Settled(d)'
    <2> SUFFICES ASSUME NEW d \in Plain(plan), d \notin todo'
                 PROVE  Settled(d)'
      BY <1>1, <1>2 DEF Plain
    <2>1. CASE d = c
      BY <2>1, <1>1, StopOutcome DEF Settled
    <2>2. CASE d # c
      BY <2>2, <1>1, SettledStays DEF OrderInv, Plain, TypeOK
    <2>3. QED
      BY <2>1, <2>2
  <1>5. \A d \in InHand' : NextToStart(d)'
    BY <1>1, <1>2, StopOutcome DEF InHand, NextToStart, Plain
  <1>6. QED
    BY <1>1, <1>2, <1>3, <1>4, <1>5 DEF OrderInv, Plain

(* A restart at the container's turn, whichever loop it is in. *)
LEMMA RestartOrder ==
    ASSUME TypeOK, ReasonInv, OrderInv, NEW c \in Containers, cfg' = cfg,
           phase \in {"start", "roll"}, c \in todo, NextToStart(c),
           Restart(c), todo' = todo \ {c}, UNCHANGED <<planVars, stopped>>
    PROVE  OrderInv'
  <1>1. UNCHANGED <<Watchtowers, plan>>
    BY DEF Watchtowers, planVars
  <1>2. phase' \in {phase, "killed"} /\ failed \subseteq failed'
    BY RestartOutcome
  <1>3. \A d \in Plain(stopped)' : old'[d] = "gone"
    BY <1>1, OnlyTouches, RestartOutcome DEF OrderInv, Plain, TypeOK
  <1>4. \A d \in (Plain(plan) \ todo)' : Settled(d)'
    <2> SUFFICES ASSUME NEW d \in Plain(plan), d \notin todo \ {c}
                 PROVE  Settled(d)'
      BY <1>1 DEF Plain
    <2>1. CASE d = c
      BY <2>1, RestartOutcome DEF Plain
    <2>2. CASE d # c
      BY <2>2, SettledStays DEF OrderInv, Plain, TypeOK
    <2>3. QED
      BY <2>1, <2>2
  <1>5. phase' = "roll" => \A d \in InHand' : NextToStart(d)'
    <2> SUFFICES ASSUME phase' = "roll", NEW d \in InHand'
                 PROVE  NextToStart(d)'
      OBVIOUS
    <2>1. phase = "roll" /\ d \in InHand /\ d # c
      BY <1>2 DEF InHand
    <2>2. NextToStart(d)
      BY <2>1 DEF OrderInv
    <2>3. QED
      BY <2>1, <2>2, <1>1 DEF NextToStart, Plain
  <1>6. \A d \in Plain(plan)' : new'[d] # "none" => cfg.links[d] \cap Plain(todo)' = {}
    <2> SUFFICES ASSUME NEW d \in Plain(plan), new'[d] # "none"
                 PROVE  cfg.links[d] \cap Plain(todo \ {c}) = {}
      BY <1>1 DEF Plain
    <2>1. CASE d = c
      BY <2>1, <1>1 DEF NextToStart, Plain
    <2>2. CASE d # c
      BY <2>2, OnlyTouches DEF OrderInv, Plain, TypeOK
    <2>3. QED
      BY <2>1, <2>2
  <1>7. renamed' # {} => todo' \subseteq Watchtowers'
    <2>1. CASE renamed # {}
      BY <2>1, <1>1 DEF OrderInv
    <2>2. CASE renamed = {}
      BY <2>2, <1>1, RestartOutcome DEF NextToStart
    <2>3. QED
      BY <2>1, <2>2
  <1>8. QED
    BY <1>1, <1>2, <1>3, <1>4, <1>5, <1>6, <1>7 DEF OrderInv, Plain

LEMMA StartOrder ==
    ASSUME TypeOK, ReasonInv, OrderInv, NEW c \in Containers, cfg' = cfg,
           StartSkip(c) \/ StartNext(c) \/ RollStart(c)
    PROVE  OrderInv'
  <1>1. CASE StartNext(c)
    BY <1>1, RestartOrder DEF StartNext, NextToStart
  <1>2. CASE RollStart(c)
    BY <1>2, RestartOrder DEF RollStart, InHand, OrderInv
  <1>3. CASE StartSkip(c)
    <2>1. /\ phase = "start" /\ phase' = "start" /\ todo' = todo \ {c}
          /\ UNCHANGED <<plan, stopped, failed, old, new, renamed, Watchtowers>>
          /\ c \in Watchtowers \/ c \notin stopped
      BY <1>3 DEF StartSkip, planVars, hostVars, Watchtowers, PassedOver, OtherWatchtower
    <2>2. c \in Plain(plan) => c \in failed
      BY <2>1 DEF OrderInv, Plain
    <2>3. \A d \in Plain(plan) \ todo' : Settled(d)
      BY <2>1, <2>2 DEF OrderInv, Settled
    <2>4. \A d : Settled(d) => Settled(d)'
      BY <2>1 DEF Settled, Replaced, NewInstance, Starts
    <2>5. QED
      BY <2>1, <2>3, <2>4 DEF OrderInv, Plain
  <1>4. QED
    BY <1>1, <1>2, <1>3

LEMMA EndOrder ==
    ASSUME TypeOK, ReasonInv, OrderInv, cfg' = cfg,
           \/ StopCancelled \/ StopDone \/ StartCancelled \/ Finish
           \/ RollCancelled \/ RollDone \/ Superseded
    PROVE  OrderInv'
  <1>1. UNCHANGED Watchtowers
    BY DEF Watchtowers
  <1>2. CASE StopCancelled
    <2>1. /\ phase = "stop" /\ phase' = "stop" /\ todo' = {}
          /\ failed' = failed \cup todo
          /\ UNCHANGED <<plan, stopped, old, new, renamed>>
      BY <1>2 DEF StopCancelled, hostVars, planVars
    <2>2. QED
      BY <1>1, <2>1 DEF OrderInv, Plain, InHand
  <1>3. CASE StopDone
    <2>1. /\ phase = "stop" /\ phase' = "start" /\ todo = {} /\ todo' = plan
          /\ UNCHANGED <<plan, stopped, failed, old, new, renamed>>
      BY <1>3 DEF StopDone, hostVars, planVars
    <2>2. renamed = {} /\ \A d \in Plain(plan) : new[d] = "none"
      BY <2>1 DEF OrderInv, TypeOK, Plain
    <2>3. QED
      BY <1>1, <2>1, <2>2 DEF OrderInv, Plain, InHand
  <1>4. CASE StartCancelled \/ RollCancelled \/ Finish \/ RollDone
    <2>1. /\ phase' \in {"start", "ok", "error"} /\ todo' = {}
          /\ failed' = failed \cup todo
          /\ phase \in {"start", "roll"} /\ (phase' = "start" => phase = "start")
          /\ UNCHANGED <<plan, stopped, old, new, renamed>>
      BY <1>4 DEF StartCancelled, RollCancelled, Finish, RollDone, hostVars, planVars
    <2>2. \A d \in Plain(plan) : Settled(d)'
      BY <2>1 DEF OrderInv, Settled, Replaced, NewInstance, Starts, Watchtowers
    <2>3. QED
      BY <1>1, <2>1, <2>2 DEF OrderInv, Plain, InHand
  <1>5. CASE Superseded
    <2>1. /\ phase' = "killed" /\ phase \in {"start", "roll"}
          /\ UNCHANGED <<plan, todo, stopped, failed, new, renamed>>
          /\ old' = [old EXCEPT ![Self] = "gone"]
          /\ Self \in Watchtowers
      BY <1>5, ConfigTypes DEF Superseded, planVars, TypeOK
    <2>2. \A d \in Plain(plan) : Settled(d) => Settled(d)'
      BY <1>1, <2>1 DEF Settled, Replaced, NewInstance, Starts, Plain, TypeOK
    <2>3. \A d \in Plain(stopped) : old'[d] = "gone"
      BY <2>1 DEF OrderInv, Plain, TypeOK
    <2>4. QED
      BY <1>1, <2>1, <2>2, <2>3 DEF OrderInv, Plain
  <1>6. QED
    BY <1>2, <1>3, <1>4, <1>5

LEMMA NextOrder == TypeOK /\ ReasonInv /\ OrderInv /\ [Next]_vars => OrderInv'
  <1> SUFFICES ASSUME TypeOK, ReasonInv, OrderInv, [Next]_vars
               PROVE  OrderInv'
    OBVIOUS
  <1>1. CASE Over \/ UNCHANGED vars
    BY <1>1 DEF Over, vars, OrderInv, Plain, Watchtowers, InHand, NextToStart, Settled,
                Replaced, NewInstance, Starts
  <1>2. QED
    BY <1>1, SameConfig, ScanOrder, PlanOrder, StopOrder, RollStopOrder, StartOrder, EndOrder
       DEF Next, SessionStep, ContainerStep

LEMMA OrderInvariance == Spec => [](TypeOK /\ ReasonInv /\ OrderInv)
  <1>1. Init => ReasonInv
    BY DEF Init, ReasonInv, Touched, Listed
  <1>2. Init => OrderInv
    BY DEF Init, OrderInv, Plain
  <1>3. QED
    BY <1>1, <1>2, InitTypes, NextTypes, NextReasons, NextOrder, PTL DEF Spec

(* A new instance exists only when the dependencies that are replaced are settled. *)
THEOREM DependenciesFirst == Spec => []StartRespectsLinks
  <1>1. TypeOK /\ ReasonInv /\ OrderInv => StartRespectsLinks
    <2> SUFFICES ASSUME TypeOK, OrderInv, NEW c \in Plain(plan), NEW d \in Plain(plan),
                        c \in cfg.links[d], new[d] # "none"
                 PROVE  Settled(c)
      BY DEF StartRespectsLinks
    <2>1. phase # "stop"
      BY DEF OrderInv, TypeOK, Plain
    <2>2. c \notin todo
      BY DEF OrderInv, Plain
    <2>3. QED
      BY <2>1, <2>2 DEF OrderInv
  <1>2. QED
    BY <1>1, OrderInvariance, PTL

(* Watchtower renames its own container only when everything else is settled. *)
THEOREM SelfComesLast == Spec => []SelfUpdateIsLast
  <1>1. TypeOK /\ ReasonInv /\ OrderInv => SelfUpdateIsLast
    BY DEF OrderInv, SelfUpdateIsLast, Plain
  <1>2. QED
    BY <1>1, OrderInvariance, PTL

-----------------------------------------------------------------------------
(***************************************************************************)
(* Stops of a batch: behind the loop a container is gone or its stop       *)
(* failed, and what was touched has no dependent ahead of the loop.        *)
(***************************************************************************)
StopInv ==
    ~cfg.rolling =>
        /\ phase # "roll"
        /\ \A d \in Plain(plan) :
              \/ phase = "stop" /\ d \in todo
              \/ old[d] = "gone" \/ d \in failed
        /\ phase = "stop" =>
              \A c, d \in Plain(plan) :
                  c \in cfg.links[d] /\ old[c] # Listed(c) => d \notin todo

LEMMA StopNextStops ==
    ASSUME TypeOK, ReasonInv, StopInv, NEW e \in Containers, cfg' = cfg, StopNext(e)
    PROVE  StopInv'
  <1> SUFFICES ASSUME ~cfg.rolling
               PROVE  StopInv'
    BY DEF StopInv
  <1>1. /\ phase = "stop" /\ phase' = "stop" /\ Stop(e) /\ NextToStop(e)
        /\ todo' = todo \ {e}
        /\ UNCHANGED <<plan, new, renamed, Watchtowers>>
    BY DEF StopNext, planVars, Watchtowers
  <1>2. \A d \in Plain(plan) : d # e => old'[d] = old[d] /\ (d \in failed' <=> d \in failed)
    BY <1>1, OnlyTouches DEF Plain, TypeOK
  <1>3. e \in Plain(plan) => old'[e] = "gone" \/ e \in failed'
    BY <1>1 DEF Stop, StopSucceeds, StopRefused, RemoveFails, Plain, TypeOK
  <1>4. ASSUME NEW c \in Plain(plan), NEW d \in Plain(plan),
               c \in cfg.links[d], old'[c] # Listed(c)
        PROVE  d \notin todo'
    <2>1. CASE c = e
      <3>1. e \notin Watchtowers /\ \A x \in todo : e \notin cfg.links[x]
        BY <2>1, <1>1 DEF NextToStop, Plain
      <3>2. QED
        BY <3>1, <2>1, <1>1, <1>4
    <2>2. CASE c # e
      <3>1. old[c] # Listed(c)
        BY <2>2, <1>2, <1>4
      <3>2. d \notin todo
        BY <3>1, <1>1, <1>4 DEF StopInv
      <3>3. QED
        BY <3>2, <1>1
    <2>3. QED
      BY <2>1, <2>2
  <1>5. \A d \in Plain(plan) : d \in todo' \/ old'[d] = "gone" \/ d \in failed'
    BY <1>1, <1>2, <1>3 DEF StopInv
  <1>6. QED
    BY <1>1, <1>4, <1>5 DEF StopInv, Plain, Listed

LEMMA NextStops == TypeOK /\ ReasonInv /\ StopInv /\ [Next]_vars => StopInv'
  <1> SUFFICES ASSUME TypeOK, ReasonInv, StopInv, [Next]_vars, ~cfg.rolling
               PROVE  StopInv'
    BY SameConfig DEF StopInv
  <1>1. cfg' = cfg /\ UNCHANGED Watchtowers
    BY SameConfig DEF Watchtowers
  <1>2. CASE Over \/ UNCHANGED vars
    BY <1>2 DEF Over, vars, StopInv, Plain, Watchtowers, Listed
  <1>3. CASE BeginFails \/ Begin \/ ScanCancelled \/ PlanFails \/ \E c \in Containers : ScanStep(c)
    <2>1. plan' = {} /\ phase' \in {"scan", "error"}
      BY <1>3 DEF BeginFails, Begin, ScanCancelled, PlanFails, ScanStep, ScanKnown, ScanError,
                  ScanFresh, ScanStale, Scanning, Scanned, ReasonInv, planVars
    <2>2. QED
      BY <2>1 DEF StopInv, Plain
  <1>4. CASE MakePlan
    <2>1. /\ phase = "scan" /\ phase' = "stop" /\ todo' = plan' /\ UNCHANGED old
          /\ plan' \subseteq Containers
      BY <1>4, PlanTypes DEF MakePlan, hostVars, TypeOK
    <2>2. \A c \in Containers : old[c] = Listed(c)
      BY <1>4 DEF MakePlan, ReasonInv, Touched, TypeOK
    <2>3. QED
      BY <1>1, <2>1, <2>2 DEF StopInv, Plain, Listed
  <1>5. CASE StopCancelled \/ StopDone \/ StartCancelled \/ Finish
    <2>1. /\ failed \cup (todo \ todo') \subseteq failed' \/ todo = {}
          /\ failed \subseteq failed'
          /\ phase' = "stop" => todo' = {} /\ phase = "stop"
          /\ phase' # "roll"
          /\ UNCHANGED <<plan, old>>
      BY <1>5 DEF StopCancelled, StopDone, StartCancelled, Finish, hostVars, planVars
    <2>2. \A d \in Plain(plan) : old[d] = "gone" \/ d \in failed'
      BY <1>5 DEF StopInv, StopCancelled, StopDone, StartCancelled, Finish
    <2>3. QED
      BY <1>1, <2>1, <2>2 DEF StopInv, Plain
  <1>6. ASSUME NEW c \in Containers, StartSkip(c) \/ StartNext(c)
        PROVE  StopInv'
    <2>1. /\ phase = "start" /\ phase' \in {"start", "killed"}
          /\ plan' = plan /\ failed \subseteq failed'
      BY <1>6, <1>1, RestartOutcome DEF StartSkip, StartNext, planVars
    <2>2. \A d \in Plain(plan) : old'[d] = old[d]
      BY <1>6, <1>1, RestartOutcome, OnlyTouches
         DEF StartSkip, StartNext, hostVars, Plain, TypeOK
    <2>3. QED
      BY <1>1, <2>1, <2>2 DEF StopInv, Plain
  <1>7. CASE Superseded
    <2>1. /\ phase # "stop" /\ phase' = "killed" /\ UNCHANGED <<plan, failed>>
          /\ old' = [old EXCEPT ![Self] = "gone"]
      BY <1>7 DEF Superseded, planVars
    <2>2. QED
      BY <1>1, <2>1 DEF StopInv, Plain, TypeOK
  <1>8. CASE RollCancelled \/ RollDone \/ \E c \in Containers : RollStop(c) \/ RollStart(c)
    BY <1>8 DEF RollCancelled, RollDone, RollStop, RollStart, StopInv
  <1>9. QED
    BY <1>1, <1>2, <1>3, <1>4, <1>5, <1>6, <1>7, <1>8, StopNextStops
       DEF Next, SessionStep, ContainerStep

LEMMA Reasons == Spec => [](TypeOK /\ ReasonInv)
  BY OrderInvariance, PTL

(* A batch touches no container while one that depends on it still runs. *)
THEOREM DependentsStopFirst == Spec => []StopRespectsLinks
  <1>1. Init => StopInv
    BY SessionAssumption DEF Init, StopInv, Plain
  <1>2. TypeOK /\ StopInv => StopRespectsLinks
    BY DEF StopInv, StopRespectsLinks
  <1>3. QED
    BY <1>1, <1>2, NextStops, Reasons, PTL DEF Spec

-----------------------------------------------------------------------------
(***************************************************************************)
(* Losses: a container that ran and runs no more is the one in hand, or is *)
(* on the way from its stop to its start, or has failed, or has its start  *)
(* withheld; and what has failed is in the plan, hence in the report.      *)
(***************************************************************************)
Lost(c) == c \notin cfg.stopped /\ old[c] # "up" /\ new[c] # "up"

LostInv ==
    /\ phase = "scan" => \A c \in cfg.filtered \ todo : prog[c] # "none"
    /\ \A c \in plan : prog[c] # "none"
    /\ failed \subseteq plan /\ stopped \subseteq plan
    /\ phase # "killed" =>
          \A c \in Containers : Lost(c) =>
              \/ c \in failed \/ ~Starts(c)
              \/ /\ c \in stopped /\ c \notin Watchtowers
                 /\ phase = "stop" \/ (phase \in {"start", "roll"} /\ c \in todo)
    /\ phase \in {"ok", "error"} => \A c \in failed : prog[c] = "failed"

(* Marks change no entry into none. *)
LEMMA MarksKeep ==
    ASSUME TypeOK, NEW F, MarkFailed(F) \/ MarkForUpdate(F)
    PROVE  \A c \in Containers : prog[c] # "none" => prog'[c] # "none"
  BY DEF TypeOK, MarkFailed, MarkForUpdate

LEMMA StopLoses ==
    ASSUME TypeOK, NEW c \in Containers, cfg' = cfg, Stop(c)
    PROVE  c \in failed' \/ (c \in stopped' /\ (c \in Watchtowers => old'[c] = old[c]))
  BY DEF Stop, StopSucceeds, StopRefused, RemoveFails

LEMMA RestartLoses ==
    ASSUME TypeOK, NEW c \in Containers, cfg' = cfg, Restart(c)
    PROVE  /\ c \notin cfg.stopped => new'[c] = "up" \/ c \in failed' \/ ~Starts(c)
           /\ failed' \subseteq failed \cup {c}
           /\ \A d \in Containers : prog[d] # "none" => prog'[d] # "none"
  <1>1. CASE RenameFails(c)
    BY <1>1 DEF RenameFails, RestartFailed
  <1>2. CASE StartWithheld(c)
    BY <1>2 DEF StartWithheld, Restarted, TypeOK
  <1>3. CASE StartSucceeds(c)
    BY <1>3 DEF StartSucceeds, Restarted, NewInstance, TypeOK
  <1>4. CASE StartFails(c)
    BY <1>4 DEF StartFails, RestartFailed
  <1>5. QED
    BY <1>1, <1>2, <1>3, <1>4 DEF Restart

LEMMA ScanLoses ==
    ASSUME TypeOK, ReasonInv, OrderInv, LostInv, NEW c \in Containers, ScanStep(c)
    PROVE  LostInv'
  <1>1. /\ phase = "scan" /\ plan = {} /\ c \in todo
        /\ UNCHANGED <<cfg, phase, plan, stopped, failed, hostVars>>
        /\ todo' = todo \ {c}
    BY DEF ReasonInv, ScanStep, ScanKnown, ScanError, ScanFresh, ScanStale, Scanning, Scanned
  <1>2. PICK s \in States \ {"none"} : prog' = [prog EXCEPT ![c] = s]
    BY DEF ScanStep, ScanKnown, ScanError, ScanFresh, ScanStale, Scanned, States, TypeOK
  <1>3. QED
    BY <1>1, <1>2, ConfigTypes DEF LostInv, Lost, Starts, Watchtowers, hostVars, TypeOK

LEMMA PlanLoses ==
    ASSUME TypeOK, ReasonInv, OrderInv, LostInv,
           BeginFails \/ Begin \/ ScanCancelled \/ PlanFails \/ MakePlan
    PROVE  LostInv'
  <1>1. /\ phase \in {"begin", "scan"} /\ plan = {} /\ stopped = {} /\ failed = {}
        /\ UNCHANGED <<cfg, stopped, failed, hostVars>>
        /\ phase' \in {"error", "scan", "stop", "roll"}
    BY DEF BeginFails, Begin, ScanCancelled, PlanFails, MakePlan, ReasonInv, OrderInv, LostInv
  <1>2. \A c \in Containers : Lost(c)' => ~Starts(c)'
    BY <1>1 DEF LostInv, Lost, Starts, Watchtowers, hostVars
  <1>3. CASE BeginFails \/ ScanCancelled \/ PlanFails
    BY <1>1, <1>2, <1>3 DEF BeginFails, ScanCancelled, PlanFails, LostInv, planVars
  <1>4. CASE Begin
    BY <1>1, <1>2, <1>4 DEF Begin, LostInv, planVars
  <1>5. CASE MakePlan
    <2>1. /\ plan' \subseteq cfg.filtered /\ phase = "scan" /\ todo = {}
          /\ phase' \in {"stop", "roll"}
      BY <1>5 DEF MakePlan, ToReplace, ImplicitRestarts, ReasonInv
    <2>2. \A c \in plan' : prog'[c] # "none"
      BY <1>5, <2>1, MarksKeep, ConfigTypes DEF MakePlan, LostInv, TypeOK
    <2>3. QED
      BY <1>1, <1>2, <2>1, <2>2 DEF LostInv
  <1>6. QED
    BY <1>3, <1>4, <1>5

LEMMA StopStepLoses ==
    ASSUME TypeOK, ReasonInv, OrderInv, LostInv, NEW c \in Containers, cfg' = cfg,
           StopNext(c) \/ RollStop(c)
    PROVE  LostInv'
  <1>1. /\ phase \in {"stop", "roll"} /\ phase' = phase /\ c \in todo /\ c \in plan /\ Stop(c)
        /\ UNCHANGED <<plan, new, renamed, Watchtowers>>
        /\ phase = "stop" \/ todo' = IF c \in stopped' THEN todo ELSE todo \ {c}
        /\ todo \ {c} \subseteq todo'
    BY DEF StopNext, RollStop, NextToStop, NextToStart, ReasonInv, planVars, Watchtowers
  <1>2. \A d \in plan : prog'[d] # "none"
    BY <1>1, MarksKeep DEF StopNext, RollStop, reportVars, LostInv, TypeOK
  <1>3. failed' \subseteq plan /\ stopped' \subseteq plan
    BY <1>1 DEF Stop, StopSucceeds, StopRefused, RemoveFails, LostInv
  <1>4. ASSUME NEW d \in Containers, Lost(d)'
        PROVE  \/ d \in failed' \/ ~Starts(d)'
               \/ /\ d \in stopped' /\ d \notin Watchtowers'
                  /\ phase' = "stop" \/ (phase' \in {"start", "roll"} /\ d \in todo')
    <2>1. CASE d # c
      <3>1. Lost(d)
        BY <2>1, <1>1, <1>4, OnlyTouches DEF Lost
      <3>2. d \in todo => d \in todo'
        BY <2>1, <1>1
      <3>3. QED
        BY <3>1, <3>2, <1>1, StopOutcome DEF LostInv, Starts
    <2>2. CASE d = c /\ c \in Watchtowers
      <3>1. c \in failed' \/ Lost(c)
        BY <2>2, <1>1, <1>4, StopLoses DEF Lost
      <3>2. QED
        BY <3>1, <2>2, <1>1, StopOutcome DEF LostInv, Starts
    <2>3. CASE d = c /\ c \notin Watchtowers
      BY <2>3, <1>1, StopLoses DEF LostInv
    <2>4. QED
      BY <2>1, <2>2, <2>3
  <1>5. QED
    BY <1>1, <1>2, <1>3, <1>4 DEF LostInv

LEMMA StartStepLoses ==
    ASSUME TypeOK, ReasonInv, OrderInv, LostInv, NEW c \in Containers, cfg' = cfg,
           StartSkip(c) \/ StartNext(c) \/ RollStart(c)
    PROVE  LostInv'
  <1>1. /\ phase \in {"start", "roll"} /\ c \in todo /\ c \in plan
        /\ UNCHANGED <<plan, stopped, Watchtowers>>
        /\ todo' = todo \ {c}
    BY DEF StartSkip, StartNext, RollStart, NextToStart, InHand, ReasonInv, planVars, Watchtowers
  <1>2. CASE StartSkip(c)
    <2>1. /\ phase' = phase /\ UNCHANGED <<prog, failed, old, new>>
          /\ c \in Watchtowers \/ c \notin stopped
      BY <1>2 DEF StartSkip, reportVars, hostVars, PassedOver, OtherWatchtower
    <2>2. QED
      BY <1>1, <2>1 DEF LostInv, Lost, Starts
  <1>3. CASE StartNext(c) \/ RollStart(c)
    <2>1. Restart(c)
      BY <1>3 DEF StartNext, RollStart
    <2>2. phase' \in {phase, "killed"} /\ failed \subseteq failed'
      BY <2>1, RestartOutcome
    <2>3. ASSUME NEW d \in Containers, Lost(d)'
          PROVE  \/ d \in failed' \/ ~Starts(d)'
                 \/ /\ d \in stopped' /\ d \notin Watchtowers'
                    /\ phase = "start" \/ phase = "roll"
                    /\ d \in todo'
      <3>1. CASE d = c
        BY <3>1, <2>1, <2>3, RestartLoses DEF Lost, Starts, Watchtowers
      <3>2. CASE d # c
        <4>1. Lost(d)
          BY <3>2, <2>1, <2>3, OnlyTouches DEF Lost
        <4>2. QED
          BY <4>1, <3>2, <1>1, <2>2 DEF LostInv, Starts
      <3>3. QED
        BY <3>1, <3>2
    <2>4. /\ failed' \subseteq plan
          /\ \A d \in plan : prog'[d] # "none"
      BY <2>1, <1>1, RestartLoses DEF LostInv, TypeOK
    <2>5. QED
      BY <1>1, <2>2, <2>3, <2>4 DEF LostInv
  <1>4. QED
    BY <1>2, <1>3

LEMMA EndLoses ==
    ASSUME TypeOK, ReasonInv, OrderInv, LostInv, cfg' = cfg,
           \/ StopCancelled \/ StopDone \/ StartCancelled \/ Finish
           \/ RollCancelled \/ RollDone \/ Superseded
    PROVE  LostInv'
  <1>1. UNCHANGED Watchtowers
    BY DEF Watchtowers
  <1>2. CASE StopCancelled \/ StopDone \/ StartCancelled \/ Finish \/ RollCancelled \/ RollDone
    <2>1. /\ phase \in {"stop", "start", "roll"} /\ phase' \in {"stop", "start", "ok", "error"}
          /\ UNCHANGED <<plan, stopped, old, new>>
          /\ todo \subseteq plan
      BY <1>2 DEF StopCancelled, StopDone, StartCancelled, Finish, RollCancelled, RollDone,
                  hostVars, planVars, ReasonInv
    <2>2. failed' = failed \/ failed' = failed \cup todo
      BY <1>2 DEF StopCancelled, StopDone, StartCancelled, Finish, RollCancelled, RollDone
    <2>3. \A d \in plan : prog'[d] # "none"
      BY <1>2, MarksKeep DEF StopCancelled, StopDone, StartCancelled, Finish, RollCancelled,
                             RollDone, reportVars, LostInv, TypeOK
    <2>4. phase' \in {"ok", "error"} => MarkFailed(failed')
      BY <1>2 DEF StopCancelled, StopDone, StartCancelled, Finish, RollCancelled, RollDone
    <2>5. phase' \in {"ok", "error"} => \A d \in failed' : prog'[d] = "failed"
      BY <2>1, <2>2, <2>4 DEF MarkFailed, LostInv, TypeOK
    <2>6. ASSUME NEW d \in Containers, Lost(d)'
          PROVE  \/ d \in failed' \/ ~Starts(d)'
                 \/ /\ d \in stopped' /\ d \notin Watchtowers'
                    /\ phase' = "stop" \/ (phase' \in {"start", "roll"} /\ d \in todo')
      <3>1. Lost(d)
        BY <2>1, <2>6 DEF Lost
      <3>2. \/ d \in failed \/ ~Starts(d)
            \/ /\ d \in stopped /\ d \notin Watchtowers
               /\ phase = "stop" \/ (phase \in {"start", "roll"} /\ d \in todo)
        BY <3>1, <2>1 DEF LostInv
      <3>3. CASE d \in failed \/ ~Starts(d)
        BY <3>3, <1>1, <2>2 DEF Starts
      <3>4. CASE StopCancelled
        BY <3>2, <3>4, <1>1, <2>2 DEF StopCancelled, Starts, planVars
      <3>5. CASE StopDone
        BY <3>2, <3>3, <3>5, <1>1, <2>1 DEF StopDone, LostInv
      <3>6. CASE StartCancelled \/ Finish \/ RollCancelled \/ RollDone
        BY <3>2, <3>3, <3>6 DEF StartCancelled, Finish, RollCancelled, RollDone
      <3>7. QED
        BY <1>2, <3>4, <3>5, <3>6
    <2>7. QED
      BY <2>1, <2>2, <2>3, <2>5, <2>6 DEF LostInv
  <1>3. CASE Superseded
    BY <1>3 DEF Superseded, LostInv, planVars, reportVars
  <1>4. QED
    BY <1>2, <1>3

LEMMA NextLoses == TypeOK /\ ReasonInv /\ OrderInv /\ LostInv /\ [Next]_vars => LostInv'
  <1> SUFFICES ASSUME TypeOK, ReasonInv, OrderInv, LostInv, [Next]_vars
               PROVE  LostInv'
    OBVIOUS
  <1>1. CASE Over \/ UNCHANGED vars
    BY <1>1 DEF Over, vars, LostInv, Lost, Starts, Watchtowers
  <1>2. QED
    BY <1>1, SameConfig, ScanLoses, PlanLoses, StopStepLoses, StartStepLoses, EndLoses
       DEF Next, SessionStep, ContainerStep

(* When Update returns, a container it stopped and did not replace is marked failed. *)
THEOREM NoSilentLoss == Spec => []NothingLost
  <1>1. Init => LostInv
    BY DEF Init, LostInv, Lost
  <1>2. TypeOK /\ ReasonInv /\ OrderInv /\ LostInv => NothingLost
    BY DEF LostInv, NothingLost, Lost
  <1>3. QED
    BY <1>1, <1>2, NextLoses, OrderInvariance, PTL DEF Spec
=============================================================================
