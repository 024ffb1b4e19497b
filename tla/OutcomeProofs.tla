--------------------------- MODULE OutcomeProofs ---------------------------
(***************************************************************************)
(* What a session has done when it returns: that its report tells the      *)
(* truth, that dependents were taken along, and that the images handed to  *)
(* the cleanup are those of the containers it replaced.                    *)
(***************************************************************************)
EXTENDS RolloutProofs

-----------------------------------------------------------------------------
(***************************************************************************)
(* Stale containers are those the session may restart, and it leaves none  *)
(* of its plan behind without having stopped it or recorded its failure.   *)
(***************************************************************************)
StaleInv ==
    /\ \A c \in stale : Starts(c) /\ ~OtherWatchtower(c)
    /\ phase \in {"start", "roll", "ok"} => Plain(plan) \subseteq todo \cup stopped \cup failed
    /\ phase = "ok" => todo = {}

LEMMA NextStale == PlaceInv /\ StaleInv /\ [Next]_vars => StaleInv'
  <1> SUFFICES ASSUME PlaceInv, StaleInv, [Next]_vars
               PROVE  StaleInv'
    OBVIOUS
  <1>1. cfg' = cfg /\ Watchtowers' = Watchtowers
    BY SameConfig DEF Watchtowers
  <1>2. CASE Over \/ UNCHANGED vars
    BY <1>2 DEF Over, vars, StaleInv, Starts, OtherWatchtower, Plain, Watchtowers
  <1>3. CASE \E c \in Containers : ScanStep(c)
    <2>1. PICK c \in Containers : ScanStep(c)
      BY <1>3
    <2>2. stale' = stale \/ (stale' = stale \cup {c} /\ ShouldUpdate(c))
      BY <2>1 DEF ScanStep, ScanKnown, ScanError, ScanFresh, ScanStale, Scanned
    <2>3. phase = "scan" /\ phase' = phase
      BY <2>1 DEF ScanStep, ScanKnown, ScanError, ScanFresh, ScanStale, Scanning, Scanned
    <2>4. QED
      BY <1>1, <2>2, <2>3 DEF StaleInv, ShouldUpdate, Starts, OtherWatchtower
  <1>4. CASE BeginFails \/ Begin \/ ScanCancelled \/ PlanFails \/ MakePlan
    <2>1. stale' = stale /\ phase' \in {"error", "scan", "stop", "roll"}
          /\ (phase' \in {"stop", "roll"} => todo' = plan')
      BY <1>4 DEF BeginFails, Begin, ScanCancelled, PlanFails, MakePlan, planVars
    <2>2. QED
      BY <1>1, <2>1 DEF StaleInv, Starts, OtherWatchtower, Plain
  <1>5. CASE \E c \in Containers :
                StopNext(c) \/ RollStop(c) \/ StartSkip(c) \/ StartNext(c) \/ RollStart(c)
    <2>1. PICK c \in Containers :
                StopNext(c) \/ RollStop(c) \/ StartSkip(c) \/ StartNext(c) \/ RollStart(c)
      BY <1>5
    <2>2. /\ UNCHANGED <<stale, plan>> /\ phase' \in {phase, "killed"}
          /\ phase \in {"stop", "start", "roll"}
          /\ stopped \subseteq stopped' /\ failed \subseteq failed'
      BY <2>1, StopOutcome, RestartOutcome, <1>1
         DEF StopNext, RollStop, StartSkip, StartNext, RollStart, planVars, PlaceInv
    <2>3. phase = "start" => todo' = todo \ {c} /\ Plain(plan) \subseteq stopped \cup failed
      BY <2>1 DEF StopNext, RollStop, StartSkip, StartNext, RollStart, PlaceInv, OrderInv
    <2>4. phase = "roll" => todo \subseteq todo' \cup stopped' \cup failed'
      <3>1. CASE RollStop(c)
        BY <3>1, <1>1, StopOutcome DEF RollStop, PlaceInv
      <3>2. CASE RollStart(c)
        BY <3>2, <2>2 DEF RollStart, InHand
      <3>3. QED
        BY <2>1, <3>1, <3>2 DEF StopNext, StartSkip, StartNext
    <2>5. QED
      BY <1>1, <2>2, <2>3, <2>4 DEF StaleInv, Starts, OtherWatchtower, Plain
  <1>6. CASE \/ StopCancelled \/ StopDone \/ StartCancelled \/ Finish
             \/ RollCancelled \/ RollDone \/ Superseded
    <2>1. UNCHANGED <<stale, plan, stopped>> /\ failed \subseteq failed'
      BY <1>6 DEF StopCancelled, StopDone, StartCancelled, Finish, RollCancelled, RollDone,
                  Superseded, planVars
    <2>2. phase' \in {"start", "roll", "ok"} =>
             Plain(plan) \subseteq todo' \cup stopped' \cup failed'
      <3>1. CASE StopDone
        BY <3>1 DEF StopDone, Plain
      <3>2. CASE StartCancelled \/ Finish \/ RollDone
        BY <3>2, <2>1 DEF StartCancelled, Finish, RollDone, StaleInv
      <3>3. CASE StopCancelled \/ RollCancelled \/ Superseded
        BY <3>3 DEF StopCancelled, RollCancelled, Superseded
      <3>4. QED
        BY <1>6, <3>1, <3>2, <3>3
    <2>3. phase' = "ok" => todo' = {}
      BY <1>6 DEF StopCancelled, StopDone, StartCancelled, Finish, RollCancelled, RollDone, Superseded
    <2>4. QED
      BY <1>1, <2>1, <2>2, <2>3 DEF StaleInv, Starts, OtherWatchtower, Plain
  <1>7. QED
    BY <1>2, <1>3, <1>4, <1>5, <1>6 DEF Next, SessionStep, ContainerStep

-----------------------------------------------------------------------------
(* Dependents: a plan made without cycles holds whatever depends on a member of it. *)
FollowInv ==
    phase \in {"stop", "start", "roll", "ok"} /\ ~Cyclic(cfg.links, Plain(cfg.filtered)) =>
        \A d \in cfg.filtered \ cfg.monitorOnly, c \in plan : c \in cfg.links[d] => d \in plan

(* The passes of UpdateImplicitRestart end with a set no pass would extend. *)
LEMMA RestartsAreClosed ==
    ASSUME NEW st, NEW d \in cfg.filtered \ st,
           cfg.links[d] \cap (st \cup ImplicitRestarts(st)) # {}
    PROVE  d \in ImplicitRestarts(st)
  <1> SUFFICES ASSUME NEW L \in SUBSET (cfg.filtered \ st), ClosedRestarts(L, st)
               PROVE  d \in L
    BY DEF ImplicitRestarts
  <1>1. ImplicitRestarts(st) \subseteq L
    BY DEF ImplicitRestarts
  <1>2. cfg.links[d] \cap (st \cup L) # {}
    BY <1>1
  <1>3. QED
    BY <1>2 DEF ClosedRestarts

LEMMA NextFollows == PlaceInv /\ FollowInv /\ [Next]_vars => FollowInv'
  <1> SUFFICES ASSUME PlaceInv, FollowInv, [Next]_vars
               PROVE  FollowInv'
    OBVIOUS
  <1>1. cfg' = cfg /\ Watchtowers' = Watchtowers
    BY SameConfig DEF Watchtowers
  <1>2. CASE MakePlan
    <2>1. SUFFICES ASSUME ~Cyclic(cfg.links, Plain(cfg.filtered)),
                          NEW d \in cfg.filtered \ cfg.monitorOnly, NEW c \in plan',
                          c \in cfg.links[d]
                   PROVE  d \in plan'
      BY <1>1 DEF FollowInv, Plain
    <2>2. linked' = ImplicitRestarts(stale) /\ plan' = ToReplace(stale, linked')
      BY <1>2, <2>1 DEF MakePlan
    <2>3. d \in stale \/ d \in linked'
      BY <2>1, <2>2, RestartsAreClosed DEF ToReplace
    <2>4. QED
      BY <2>1, <2>2, <2>3 DEF ToReplace
  <1>3. CASE ~MakePlan
    <2>1. plan' = plan /\ (phase' \in {"stop", "start", "roll", "ok"} => phase \in {"stop", "start", "roll", "ok"})
      <3>1. CASE BeginFails \/ Begin \/ ScanCancelled \/ PlanFails
                 \/ \E c \in Containers : ScanStep(c)
        BY <3>1 DEF BeginFails, Begin, ScanCancelled, PlanFails, ScanStep, ScanKnown, ScanError,
                    ScanFresh, ScanStale, Scanning, Scanned, planVars
      <3>2. CASE \E c \in Containers :
                    StopNext(c) \/ RollStop(c) \/ StartSkip(c) \/ StartNext(c) \/ RollStart(c)
        BY <3>2 DEF StopNext, RollStop, StartSkip, StartNext, RollStart, planVars
      <3>3. CASE \/ StopCancelled \/ StopDone \/ StartCancelled \/ Finish
                 \/ RollCancelled \/ RollDone \/ Superseded
        BY <3>3 DEF StopCancelled, StopDone, StartCancelled, Finish, RollCancelled, RollDone,
                    Superseded, planVars
      <3>4. CASE Over \/ UNCHANGED vars
        BY <3>4 DEF Over, vars
      <3>5. QED
        BY <1>3, <3>1, <3>2, <3>3, <3>4 DEF Next, SessionStep, ContainerStep
    <2>2. QED
      BY <1>1, <2>1 DEF FollowInv, Plain
  <1>4. QED
    BY <1>2, <1>3

(***************************************************************************)
(* Unless a cycle disabled implicit restarts, whatever depends on a        *)
(* container the session replaced has been stopped for it, or is reported  *)
(* as failed (UpdateImplicitRestart, and the loops over its plan).         *)
(***************************************************************************)
THEOREM DependentsAreTaken == Spec => []DependentsFollow
  <1>1. Init => PlaceInv /\ StaleInv /\ FollowInv
    BY InitRolls DEF Init, StaleInv, FollowInv
  <1>2. PlaceInv /\ StaleInv /\ FollowInv => DependentsFollow
    <2> SUFFICES ASSUME PlaceInv, StaleInv, FollowInv, phase = "ok",
                        ~Cyclic(cfg.links, Plain(cfg.filtered)),
                        NEW d \in Plain(cfg.filtered) \ cfg.monitorOnly, NEW c \in Containers,
                        c \in cfg.links[d], Touched(c)
                 PROVE  old[d] = "gone" \/ prog[d] = "failed"
      BY DEF DependentsFollow
    <2>1. c \in plan
      BY DEF PlaceInv, ReasonInv
    <2>2. d \in Plain(plan)
      BY <2>1 DEF FollowInv, Plain
    <2>3. d \in Plain(stopped) \/ d \in failed
      BY <2>2 DEF StaleInv, Plain
    <2>4. QED
      BY <2>3 DEF PlaceInv, OrderInv, LostInv
  <1>3. QED
    BY <1>1, <1>2, NextPlaces, NextStale, NextFollows, PTL DEF Spec

-----------------------------------------------------------------------------
(***************************************************************************)
(* Truth: what is marked as updated is stale and planned, and from its     *)
(* turn on settled; what is marked as restarted has had its turn.          *)
(***************************************************************************)
TruthInv ==
    /\ \A c \in Containers : prog[c] = "updated" => c \in stale \cap plan
    /\ phase \in {"begin", "scan"} => \A c \in Containers : prog[c] # "updated"
    /\ phase \in {"begin", "scan", "stop"} => \A c \in Containers : prog[c] # "restarted"
    /\ phase \in {"start", "roll", "ok"} =>
          \A c \in Containers :
             /\ prog[c] = "restarted" => c \notin todo /\ (Replaced(c) \/ ~Starts(c))
             /\ prog[c] = "updated" => c \in todo \/ Settled(c)

(* Every restart settles its container, a Watchtower too. *)
LEMMA RestartSettles ==
    ASSUME TypeOK, NEW c \in Containers, cfg' = cfg, Restart(c)
    PROVE  /\ Settled(c)'
           /\ \/ prog' = prog
              \/ prog' = [prog EXCEPT ![c] = "restarted"] /\ (Replaced(c)' \/ ~Starts(c)')
  <1>1. CASE RenameFails(c)
    BY <1>1 DEF RenameFails, RestartFailed, Settled
  <1>2. CASE StartWithheld(c)
    BY <1>2 DEF StartWithheld, Restarted, Settled, Starts, Watchtowers
  <1>3. CASE StartSucceeds(c)
    <2>1. Replaced(c)'
      BY <1>3 DEF StartSucceeds, NameFree, Renames, Replaced, NewInstance, TypeOK
    <2>2. QED
      BY <1>3, <2>1 DEF StartSucceeds, Restarted, Settled
  <1>4. CASE StartFails(c)
    BY <1>4 DEF StartFails, RestartFailed, Settled
  <1>5. QED
    BY <1>1, <1>2, <1>3, <1>4 DEF Restart

LEMMA ReplacedStays ==
    ASSUME TypeOK, cfg' = cfg, NEW c \in Containers,
           \/ Stop(c) /\ UNCHANGED <<new, renamed>>
           \/ Restart(c),
           NEW d \in Containers, d # c
    PROVE  Replaced(d)' <=> Replaced(d)
  BY OnlyTouches DEF Replaced, NewInstance

LEMMA PlanTruth ==
    ASSUME PlaceInv, TruthInv, cfg' = cfg,
           \/ BeginFails \/ Begin \/ ScanCancelled \/ PlanFails \/ MakePlan
           \/ \E c \in Containers : ScanStep(c)
    PROVE  TruthInv'
  <1>1. /\ phase \in {"begin", "scan"}
        /\ \A c \in Containers : prog[c] \notin {"updated", "restarted"}
    BY DEF BeginFails, Begin, ScanCancelled, PlanFails, MakePlan, ScanStep, ScanKnown, ScanError,
           ScanFresh, ScanStale, Scanning, TruthInv
  <1>2. CASE MakePlan
    <2>1. /\ phase' \in {"stop", "roll"} /\ stale' = stale
          /\ phase' = "roll" => prog' = prog
          /\ \A c \in Containers : prog'[c] \in {prog[c], "updated"}
          /\ \A c \in Containers : prog'[c] = "updated" => c \in stale \cap plan'
      BY <1>1, <1>2 DEF MakePlan, MarkForUpdate, PlaceInv, TypeOK
    <2>2. QED
      BY <1>1, <2>1 DEF TruthInv
  <1>3. CASE ~MakePlan
    <2>1. phase' \in {"error", "scan"}
      BY <1>1, <1>3 DEF BeginFails, Begin, ScanCancelled, PlanFails, ScanStep, ScanKnown, ScanError,
                        ScanFresh, ScanStale, Scanning, Scanned
    <2>2. \A c \in Containers : prog'[c] \notin {"updated", "restarted"}
      BY <1>1, <1>3 DEF BeginFails, Begin, ScanCancelled, PlanFails, ScanStep, ScanKnown, ScanError,
                        ScanFresh, ScanStale, Scanning, Scanned, reportVars, PlaceInv, TypeOK
    <2>3. QED
      BY <2>1, <2>2 DEF TruthInv
  <1>4. QED
    BY <1>2, <1>3

LEMMA StopTruth ==
    ASSUME PlaceInv, TruthInv, NEW c \in Containers, cfg' = cfg, StopNext(c) \/ RollStop(c)
    PROVE  TruthInv'
  <1>1. /\ phase \in {"stop", "roll"} /\ phase' = phase /\ c \in todo /\ c \in plan /\ Stop(c)
        /\ todo \ {c} \subseteq todo' /\ todo' \subseteq todo
        /\ phase = "roll" => c \in todo' \/ c \in failed'
        /\ UNCHANGED <<stale, plan, new, renamed>>
    BY StopOutcome DEF StopNext, RollStop, NextToStop, NextToStart, planVars, PlaceInv, ReasonInv
  <1>2. /\ phase = "stop" => prog' = prog
        /\ \A d \in Containers : d # c => prog'[d] = prog[d]
        /\ prog'[c] = prog[c] \/ (prog'[c] = "updated" /\ c \in stale)
    BY DEF StopNext, RollStop, reportVars, MarkForUpdate, PlaceInv, TypeOK
  <1>3. \A d \in Containers : d # c => (Replaced(d)' <=> Replaced(d)) /\ (Settled(d) => Settled(d)')
    BY <1>1, ReplacedStays, SettledStays DEF PlaceInv
  <1>4. \A d \in Containers : Starts(d)' <=> Starts(d)
    BY DEF Starts, Watchtowers
  <1>5. phase = "roll" => prog[c] # "restarted" /\ (c \in todo' \/ Settled(c)')
    BY <1>1 DEF TruthInv, Settled
  <1>6. QED
    BY <1>1, <1>2, <1>3, <1>4, <1>5 DEF TruthInv

LEMMA StartTruth ==
    ASSUME PlaceInv, StaleInv, TruthInv, NEW c \in Containers, cfg' = cfg,
           StartSkip(c) \/ StartNext(c) \/ RollStart(c)
    PROVE  TruthInv'
  <1>1. /\ phase \in {"start", "roll"} /\ c \in todo /\ c \in plan /\ todo' = todo \ {c}
        /\ UNCHANGED <<stale, plan>>
    BY DEF StartSkip, StartNext, RollStart, NextToStart, InHand, planVars, PlaceInv, ReasonInv
  <1>2. \A d \in Containers : Starts(d)' <=> Starts(d)
    BY DEF Starts, Watchtowers
  <1>3. CASE StartSkip(c)
    <2>1. UNCHANGED <<prog, failed, old, new, renamed>> /\ phase' = phase
      BY <1>3 DEF StartSkip, reportVars, hostVars
    <2>2. \A d \in Containers : (Replaced(d)' <=> Replaced(d)) /\ (Settled(d)' <=> Settled(d))
      BY <2>1, <1>2 DEF Settled, Replaced, NewInstance
    <2>3. c \in stale => c \in failed
      BY <1>1, <1>3 DEF StartSkip, PassedOver, StaleInv, PlaceInv, OrderInv, Plain
    <2>4. prog[c] = "updated" => Settled(c)
      BY <2>3 DEF TruthInv, Settled
    <2>5. QED
      BY <1>1, <1>2, <2>1, <2>2, <2>4 DEF TruthInv
  <1>4. CASE StartNext(c) \/ RollStart(c)
    <2>1. Restart(c) /\ phase' \in {phase, "killed"}
      BY <1>4, RestartOutcome DEF StartNext, RollStart, PlaceInv
    <2>2. /\ Settled(c)'
          /\ \/ prog' = prog
             \/ prog' = [prog EXCEPT ![c] = "restarted"] /\ (Replaced(c)' \/ ~Starts(c)')
      BY <2>1, RestartSettles DEF PlaceInv
    <2>3. /\ \A d \in Containers : d # c => prog'[d] = prog[d]
          /\ \/ prog'[c] = prog[c]
             \/ prog'[c] = "restarted" /\ (Replaced(c)' \/ ~Starts(c)')
      BY <2>2 DEF PlaceInv, TypeOK
    <2>4. \A d \in Containers : d # c => (Replaced(d)' <=> Replaced(d)) /\ (Settled(d) => Settled(d)')
      BY <2>1, ReplacedStays, SettledStays DEF PlaceInv
    <2>5. prog[c] # "restarted"
      BY <1>1 DEF TruthInv
    <2>6. QED
      BY <1>1, <1>2, <2>1, <2>2, <2>3, <2>4, <2>5 DEF TruthInv
  <1>5. QED
    BY <1>3, <1>4

LEMMA EndTruth ==
    ASSUME PlaceInv, TruthInv, cfg' = cfg,
           \/ StopCancelled \/ StopDone \/ StartCancelled \/ Finish
           \/ RollCancelled \/ RollDone \/ Superseded
    PROVE  TruthInv'
  <1>1. CASE Superseded \/ RollCancelled
    <2>1. \A c \in Containers : prog'[c] \in {prog[c], "failed"}
      BY <1>1 DEF Superseded, RollCancelled, reportVars, MarkFailed, PlaceInv, TypeOK
    <2>2. QED
      BY <1>1, <2>1 DEF Superseded, RollCancelled, planVars, TruthInv
  <1>2. CASE StopCancelled \/ StopDone \/ StartCancelled \/ Finish \/ RollDone
    <2>1. /\ UNCHANGED <<stale, plan, old, new, renamed>> /\ failed \subseteq failed'
          /\ phase' \in {"stop", "start", "ok"} /\ phase \in {"stop", "start", "roll"}
          /\ phase' = "start" /\ phase = "stop" => todo' = plan
          /\ phase = "stop" => phase' \in {"stop", "start"}
          /\ phase \in {"start", "roll"} =>
                phase' # "stop" /\ todo' \subseteq todo /\ todo \subseteq todo' \cup failed'
      BY <1>2 DEF StopCancelled, StopDone, StartCancelled, Finish, RollDone, hostVars, planVars
    <2>2. \A c \in Containers : prog'[c] \in {prog[c], "failed"}
      BY <1>2 DEF StopCancelled, StopDone, StartCancelled, Finish, RollDone, reportVars, MarkFailed,
                  PlaceInv, TypeOK
    <2>3. \A c \in Containers : /\ Starts(c)' <=> Starts(c)
                                /\ Replaced(c)' <=> Replaced(c)
                                /\ Settled(c) => Settled(c)'
      BY <2>1 DEF Starts, Watchtowers, Replaced, NewInstance, Settled
    <2>4. \A c \in failed' : Settled(c)'
      BY DEF Settled
    <2>5. QED
      BY <2>1, <2>2, <2>3, <2>4 DEF TruthInv
  <1>3. QED
    BY <1>1, <1>2

LEMMA NextTruth == PlaceInv /\ StaleInv /\ TruthInv /\ [Next]_vars => TruthInv'
  <1> SUFFICES ASSUME PlaceInv, StaleInv, TruthInv, [Next]_vars
               PROVE  TruthInv'
    OBVIOUS
  <1>1. CASE Over \/ UNCHANGED vars
    BY <1>1 DEF Over, vars, TruthInv, Settled, Replaced, NewInstance, Starts, Watchtowers
  <1>2. QED
    BY <1>1, SameConfig, PlanTruth, StopTruth, StartTruth, EndTruth
       DEF Next, SessionStep, ContainerStep

(***************************************************************************)
(* A container reported as updated or restarted has its new instance in    *)
(* place when Update returns, though it was marked before it was stopped   *)
(* (MarkForUpdate and UpdateFailed of pkg/session/progress.go).            *)
(***************************************************************************)
THEOREM ReportsAreTrue == Spec => []TruthfulReport
  <1>1. Init => PlaceInv /\ StaleInv /\ TruthInv
    BY InitRolls DEF Init, StaleInv, TruthInv
  <1>2. PlaceInv /\ StaleInv /\ TruthInv => TruthfulReport
    BY DEF PlaceInv, LostInv, StaleInv, TruthInv, TruthfulReport, CategoryOf, Settled
  <1>3. QED
    BY <1>1, <1>2, NextPlaces, NextStale, NextTruth, PTL DEF Spec

-----------------------------------------------------------------------------
(* The images collected so far, and which containers they belong to. *)
CleanInv ==
    phase # "killed" =>
        cleanup = {cfg.image[c] : c \in {d \in stale \ renamed : Replaced(d)}}

(* Without new instances there is nothing to clean up. *)
LEMMA NoneReplaced ==
    ASSUME TypeOK, \A c \in Containers : new[c] = "none"
    PROVE  {cfg.image[c] : c \in {d \in stale \ renamed : Replaced(d)}} = {}
  BY DEF TypeOK, Replaced, NewInstance

LEMMA RestartCleans ==
    ASSUME PlaceInv, StaleInv, CleanInv, NEW c \in Containers, cfg' = cfg, stale' = stale,
           phase # "killed", c \in todo, Restart(c)
    PROVE  CleanInv'
  <1>1. \A d \in Containers : d # c =>
           (Replaced(d)' <=> Replaced(d)) /\ (d \in renamed' <=> d \in renamed)
    BY ReplacedStays, OnlyTouches DEF PlaceInv
  <1>2. ~Replaced(c) /\ stale \subseteq Containers
    BY DEF PlaceInv, TurnInv, TypeOK, Replaced, NewInstance
  <1>3. CASE c \in stale /\ c \notin renamed' /\ Replaced(c)'
    <2>1. cleanup' = cleanup \cup {cfg.image[c]}
      <3>1. CASE StartSucceeds(c)
        BY <1>3, <3>1 DEF StartSucceeds, Restarted
      <3>2. CASE ~StartSucceeds(c)
        <4>1. new'[c] # NewInstance(c)
          BY <3>2, <1>3, <1>2 DEF Restart, RenameFails, StartWithheld, StartFails, StartLeftover,
                                  NewInstance, PlaceInv, TypeOK, TurnInv
        <4>2. QED
          BY <4>1, <1>3 DEF Replaced, NewInstance
      <3>3. QED
        BY <3>1, <3>2
    <2>2. QED
      BY <2>1, <1>1, <1>2, <1>3 DEF CleanInv
  <1>4. CASE ~(c \in stale /\ c \notin renamed' /\ Replaced(c)')
    <2>1. cleanup' = cleanup
      <3>1. CASE StartSucceeds(c)
        <4>1. Replaced(c)'
          BY <3>1 DEF StartSucceeds, NameFree, Renames, Replaced, NewInstance, PlaceInv, TypeOK
        <4>2. QED
          BY <4>1, <3>1, <1>4 DEF StartSucceeds, Restarted
      <3>2. CASE StartWithheld(c)
        BY <3>2 DEF StartWithheld, Restarted, StaleInv
      <3>3. CASE RenameFails(c) \/ StartFails(c)
        BY <3>3 DEF RenameFails, StartFails, RestartFailed
      <3>4. QED
        BY <3>1, <3>2, <3>3 DEF Restart
    <2>2. QED
      BY <2>1, <1>1, <1>2, <1>4 DEF CleanInv
  <1>5. QED
    BY <1>3, <1>4

LEMMA NextCleans == PlaceInv /\ PlaceInv' /\ StaleInv /\ CleanInv /\ [Next]_vars => CleanInv'
  <1> SUFFICES ASSUME PlaceInv, PlaceInv', StaleInv, CleanInv, [Next]_vars
               PROVE  CleanInv'
    OBVIOUS
  <1>1. cfg' = cfg
    BY SameConfig
  <1>2. CASE Over \/ UNCHANGED vars
    BY <1>2 DEF Over, vars, CleanInv, Replaced, NewInstance
  <1>3. CASE \/ BeginFails \/ Begin \/ ScanCancelled \/ PlanFails \/ MakePlan
             \/ \E c \in Containers : ScanStep(c)
    <2>1. phase \in {"begin", "scan"} /\ UNCHANGED hostVars
      BY <1>3 DEF BeginFails, Begin, ScanCancelled, PlanFails, MakePlan, ScanStep, ScanKnown,
                  ScanError, ScanFresh, ScanStale, Scanning, Scanned
    <2>2. \A c \in Containers : new[c] = "none" /\ new'[c] = "none"
      BY <2>1 DEF hostVars, PlaceInv, OrderInv
    <2>3. {cfg.image[c] : c \in {d \in stale \ renamed : Replaced(d)}} = {}
      BY <2>2, NoneReplaced DEF PlaceInv
    <2>4. {cfg.image[c] : c \in {d \in stale \ renamed : Replaced(d)}}' = {}
      BY <2>2 DEF PlaceInv, TypeOK, Replaced, NewInstance
    <2>5. QED
      BY <2>1, <2>3, <2>4 DEF CleanInv, hostVars
  <1>4. CASE \E c \in Containers : StopNext(c) \/ RollStop(c)
    <2>1. PICK c \in Containers : StopNext(c) \/ RollStop(c)
      BY <1>4
    <2>2. /\ phase' = phase /\ c \in todo /\ Stop(c)
          /\ UNCHANGED <<stale, new, renamed, cleanup>>
      BY <2>1 DEF StopNext, RollStop, NextToStop, NextToStart, planVars
    <2>3. \A d \in Containers : Replaced(d)' <=> Replaced(d)
      <3>1. ~Replaced(c) /\ ~Replaced(c)'
        BY <2>2 DEF PlaceInv, TurnInv, Replaced, NewInstance
      <3>2. QED
        BY <3>1, <2>2, <1>1, ReplacedStays DEF PlaceInv
    <2>4. QED
      BY <1>1, <2>2, <2>3 DEF CleanInv, PlaceInv, TypeOK
  <1>5. CASE \E c \in Containers : StartNext(c) \/ RollStart(c)
    <2>1. PICK c \in Containers : StartNext(c) \/ RollStart(c)
      BY <1>5
    <2>2. phase # "killed" /\ c \in todo /\ Restart(c) /\ stale' = stale
      BY <2>1 DEF StartNext, RollStart, NextToStart, InHand, planVars
    <2>3. QED
      BY <1>1, <2>2, RestartCleans
  <1>6. CASE \/ \E c \in Containers : StartSkip(c)
             \/ StopCancelled \/ StopDone \/ StartCancelled \/ Finish \/ RollCancelled \/ RollDone
    <2>1. UNCHANGED <<stale, hostVars>> /\ phase # "killed"
      BY <1>6 DEF StartSkip, StopCancelled, StopDone, StartCancelled, Finish, RollCancelled,
                  RollDone, planVars
    <2>2. QED
      BY <1>1, <2>1 DEF CleanInv, hostVars, Replaced, NewInstance
  <1>7. CASE Superseded
    BY <1>7 DEF Superseded, CleanInv
  <1>8. QED
    BY <1>2, <1>3, <1>4, <1>5, <1>6, <1>7 DEF Next, SessionStep, ContainerStep

(***************************************************************************)
(* The images handed to the cleanup are exactly the old images of the      *)
(* stale containers that were replaced, whatever failed on the way         *)
(* (addCleanupImageInfo and its callers in update.go).                     *)
(***************************************************************************)
THEOREM CleanupMatches == Spec => []CleanupIsExact
  <1>1. Init => PlaceInv /\ StaleInv /\ CleanInv
    <2> SUFFICES ASSUME Init
                 PROVE  PlaceInv /\ StaleInv /\ CleanInv
      OBVIOUS
    <2>1. {cfg.image[c] : c \in {d \in stale \ renamed : Replaced(d)}} = {}
      BY DEF Init
    <2>2. QED
      BY <2>1, InitRolls DEF Init, StaleInv, CleanInv
  <1>2. CleanInv => CleanupIsExact
    BY DEF CleanInv, CleanupIsExact
  <1>3. QED
    BY <1>1, <1>2, NextPlaces, NextStale, NextCleans, PTL DEF Spec
=============================================================================
