--------------------------- MODULE UpdateSession ---------------------------
(***************************************************************************)
(* One update session: actions.Update of internal/actions/update.go, from  *)
(* the listing of the containers to the report.                            *)
(*                                                                         *)
(* A session scans every selected container for a newer image, plans the   *)
(* containers to replace (the stale ones and those linked to them), and    *)
(* replaces them, either in a batch (stop all in reverse dependency order, *)
(* start all in dependency order) or one by one (rolling restart).  Every  *)
(* Docker call is a step of its own, may fail, and may be cut short by the *)
(* cancellation of the context (SIGINT, SIGTERM).                          *)
(*                                                                         *)
(* For each listed container the model keeps the fate of the OLD instance  *)
(* (the one that was listed) and of the NEW one made to take its place.    *)
(***************************************************************************)
EXTENDS Dependencies

CONSTANTS
    Containers,   \* the containers on the Docker host
    Self,         \* the Watchtower container this process runs in
    Images,       \* image IDs
    Configs,      \* the hosts and settings a session may start from
    Faults        \* the kinds of failure the environment may produce

FaultKinds == {"list", "collision", "reference", "check", "verify", "hook",
               "stop", "remove", "rename", "create", "start", "policy", "cancel"}

(***************************************************************************)
(* A host and the session's settings.  links[c] are the containers c       *)
(* depends on (its own name apart, which is selfDep), each resolved to the *)
(* container that bears exactly that name.                                 *)
(***************************************************************************)
SessionConfig ==
    [links       : [Containers -> SUBSET Containers],
     watchtowers : SUBSET Containers,   \* containers that run Watchtower
     selfDep     : SUBSET Containers,   \* depends-on label with its own name
     filtered    : SUBSET Containers,   \* accepted by the filter
     monitorOnly : SUBSET Containers,
     pinned      : SUBSET Containers,   \* image reference with a digest
     stopped     : SUBSET Containers,   \* listed, but not running
     image       : [Containers -> Images],
     rolling     : BOOLEAN,
     noRestart   : BOOLEAN,
     runOnce     : BOOLEAN,
     skipSelf    : BOOLEAN,             \* SkipSelfUpdate
     knowsSelf   : BOOLEAN,             \* CurrentContainerID is known
     revive      : BOOLEAN]             \* ReviveStopped

ASSUME SessionAssumption ==
    /\ Faults \subseteq FaultKinds
    /\ Configs \subseteq SessionConfig
    /\ \A k \in Configs :
          /\ Self \in k.watchtowers /\ Self \notin k.stopped
          /\ \A c \in Containers : c \notin k.links[c]

VARIABLES
    cfg,        \* the host and the settings of this session
    phase,      \* where Update is
    todo,       \* containers the loop of this phase has not handled yet
    prog,       \* session.Progress: the state of each container, or "none"
    newer,      \* ContainerStatus.newImage differs from oldImage
    stale,      \* Container.Stale
    linked,     \* Container.LinkedToRestarting
    plan,       \* allContainersToRestart
    stopped,    \* stoppedImages: the stop of these returned no error
    failed,     \* failedStop and failedStart
    old,        \* the listed instance of each container
    new,        \* the instance created to replace it
    renamed,    \* Watchtowers renamed to watchtower-old-<id>
    retired,    \* renamed ones whose restart policy was set to "no"
    cleanup,    \* cleanupImageInfos: images to remove after the session
    cancelled   \* the context is done

vars == <<cfg, phase, todo, prog, newer, stale, linked, plan, stopped, failed,
          old, new, renamed, retired, cleanup, cancelled>>

hostVars   == <<old, new, renamed, retired, cleanup>>
reportVars == <<prog, newer>>
planVars   == <<stale, linked, plan>>

Phases   == {"begin", "scan", "stop", "start", "roll", "ok", "error", "killed"}
Terminal == phase \in {"ok", "error", "killed"}

Watchtowers == cfg.watchtowers
Plain(S)    == S \ Watchtowers

-----------------------------------------------------------------------------
(* What the plan is made of *)

(* A pass of UpdateImplicitRestart marks nothing beyond L. *)
ClosedRestarts(L, st) ==
    \A c \in cfg.filtered \ st : cfg.links[c] \cap (st \cup L) # {} => c \in L

(* Variants: one pass only; the links followed the wrong way round. *)
ImplicitRestartsOnePass(st) == {c \in cfg.filtered \ st : cfg.links[c] \cap st # {}}
ImplicitRestartsBackwards(st) == {c \in cfg.filtered \ st : \E d \in st : c \in cfg.links[d]}

(* UpdateImplicitRestart: the least set its passes end with. *)
ImplicitRestarts(st) ==
    {c \in cfg.filtered \ st :
        \A L \in SUBSET (cfg.filtered \ st) : ClosedRestarts(L, st) => c \in L}

(* Variant: the monitor-only containers are kept. *)
ToReplaceAll(st, ln) == st \cup ln

(* allContainersToRestart. *)
ToReplace(st, ln) == (st \cup ln) \ cfg.monitorOnly

(* Variants: in any order; Watchtowers among the others; links to Watchtowers kept. *)
NextToStartUnsorted(c) == c \in todo
NextToStartMixed(c) == c \in todo /\ cfg.links[c] \cap Plain(todo) = {}
NextToStartAllLinks(c) ==
    /\ c \in todo
    /\ IF c \in Watchtowers THEN todo \subseteq Watchtowers
                            ELSE cfg.links[c] \cap todo = {}

(* sorter.Sort read forwards: dependencies first, Watchtowers last. *)
NextToStart(c) ==
    /\ c \in todo
    /\ IF c \in Watchtowers THEN todo \subseteq Watchtowers
                            ELSE cfg.links[c] \cap Plain(todo) = {}

(* Variant: the loop runs forwards. *)
NextToStopForwards(c) == NextToStart(c)

(* The same order read backwards. *)
NextToStop(c) ==
    /\ c \in todo
    /\ c \notin Watchtowers =>
          /\ todo \cap Watchtowers = {}
          /\ \A d \in todo : c \notin cfg.links[d]

-----------------------------------------------------------------------------
(* The environment *)

(* The context may be cancelled during any step, and stays cancelled. *)
MayCancel ==
    \/ cancelled' = cancelled
    \/ "cancel" \in Faults /\ cancelled' = TRUE

(* A call that takes the context fails by itself or by its cancellation. *)
CallFails(f) == f \in Faults \/ cancelled'

(* Another Watchtower: not the one this process runs in. *)
OtherWatchtower(c) == c \in Watchtowers /\ cfg.knowsSelf /\ c # Self

(* Variant: every container is renamed, not only Watchtowers. *)
RenamesAny(c) == c \in Containers /\ ~cfg.runOnce

(* restartStaleContainer renames the container instead of stopping it. *)
Renames(c) == c \in Watchtowers /\ ~cfg.runOnce

(* shouldUpdateContainer, for a container with a newer image. *)
ShouldUpdate(c) ==
    /\ c \notin cfg.monitorOnly
    /\ cfg.noRestart => c \in Watchtowers
    /\ c \in Watchtowers => ~cfg.runOnce /\ ~cfg.skipSelf
    /\ ~OtherWatchtower(c)

(* isPinned: the image reference names a digest. *)
Pinned(c) == c \in cfg.pinned

(* IsContainerStale: pulling and comparing the images may fail. *)
CheckFails == CallFails("check")

(* VerifyConfiguration: the container could not be created again. *)
Unverifiable == "verify" \in Faults

(* Variant: a container marked for update stays so. *)
MarkFailedScanned(F) ==
    prog' = [c \in Containers |->
                IF c \in F /\ prog[c] = "scanned" THEN "failed" ELSE prog[c]]

(* Progress.UpdateFailed: entries that exist become failed. *)
MarkFailed(F) ==
    prog' = [c \in Containers |->
                IF c \in F /\ prog[c] # "none" THEN "failed" ELSE prog[c]]

(* Progress.MarkForUpdate for the stale containers of S. *)
MarkForUpdate(S) ==
    prog' = [c \in Containers |->
                IF c \in S \cap stale /\ prog[c] # "none" THEN "updated" ELSE prog[c]]

-----------------------------------------------------------------------------
Init ==
    /\ cfg \in Configs
    /\ phase = "begin"
    /\ todo = {}
    /\ prog = [c \in Containers |-> "none"]
    /\ newer = [c \in Containers |-> FALSE]
    /\ stale = {} /\ linked = {} /\ plan = {}
    /\ stopped = {} /\ failed = {}
    /\ old = [c \in Containers |-> IF c \in cfg.stopped THEN "down" ELSE "up"]
    /\ new = [c \in Containers |-> "none"]
    /\ renamed = {} /\ retired = {} /\ cleanup = {}
    /\ cancelled \in BOOLEAN

(* The first checks of Update: it returns before it lists anything. *)
BeginFails ==
    /\ phase = "begin"
    /\ MayCancel
    /\ cancelled \/ CallFails("list")
    /\ phase' = "error"
    /\ UNCHANGED <<cfg, todo, reportVars, planVars, stopped, failed, hostVars>>

(* Lists and filters; self-dependent and circular containers are skipped. *)
Begin ==
    /\ phase = "begin"
    /\ ~cancelled
    /\ MayCancel
    /\ phase' = "scan"
    /\ todo' = cfg.filtered
    /\ \E D \in DetectableCycles(cfg.links, cfg.filtered) :
          prog' = [c \in Containers |->
                      IF c \in cfg.filtered \cap (cfg.selfDep \cup D)
                      THEN "skipped" ELSE "none"]
    /\ UNCHANGED <<cfg, newer, planVars, stopped, failed, hostVars>>

(* The scan loop finds the context done and returns its error. *)
ScanCancelled ==
    /\ phase = "scan" /\ todo # {} /\ cancelled
    /\ phase' = "error"
    /\ UNCHANGED <<cfg, todo, reportVars, planVars, stopped, failed, hostVars,
                   cancelled>>

(* Records the outcome of scanning c. *)
Scanned(c, state, isNewer, isStale) ==
    /\ todo' = todo \ {c}
    /\ prog' = [prog EXCEPT ![c] = state]
    /\ newer' = [newer EXCEPT ![c] = isNewer]
    /\ stale' = IF isStale THEN stale \cup {c} ELSE stale
    /\ UNCHANGED <<cfg, phase, linked, plan, stopped, failed, hostVars>>

Scanning(c) == phase = "scan" /\ c \in todo /\ ~cancelled /\ MayCancel

(* Skipped before the loop: nothing more to do. *)
ScanKnown(c) ==
    /\ Scanning(c)
    /\ prog[c] # "none"
    /\ Scanned(c, prog[c], newer[c], FALSE)

(* An unreadable reference, a failed check, a configuration that cannot be recreated. *)
ScanError(c) ==
    /\ Scanning(c)
    /\ prog[c] = "none"
    /\ ~Pinned(c)
    /\ \/ "reference" \in Faults
       \/ /\ ~(c \in Watchtowers /\ cfg.skipSelf)
          /\ CheckFails \/ (Unverifiable /\ ShouldUpdate(c))
    /\ Scanned(c, "skipped", FALSE, FALSE)

(* Pinned, skipped self, or no newer image. *)
ScanFresh(c) ==
    /\ Scanning(c)
    /\ prog[c] = "none"
    /\ Scanned(c, "scanned", FALSE, FALSE)

(* A newer image: stale only if the container may be updated. *)
ScanStale(c) ==
    /\ Scanning(c)
    /\ prog[c] = "none"
    /\ ~Pinned(c)
    /\ ~(c \in Watchtowers /\ cfg.skipSelf)
    /\ Scanned(c, "scanned", TRUE, ShouldUpdate(c))

(* Two containers resolve to one identifier: sorting fails, so does the session. *)
PlanFails ==
    /\ phase = "scan" /\ todo = {}
    /\ "collision" \in Faults
    /\ MayCancel
    /\ phase' = "error"
    /\ UNCHANGED <<cfg, todo, reportVars, planVars, stopped, failed, hostVars>>

(***************************************************************************)
(* Marks the implicit restarts, unless sorting met a cycle, and collects   *)
(* what is to be replaced.  A batch marks its stale containers as updated  *)
(* before it stops the first one.                                          *)
(***************************************************************************)
MakePlan ==
    /\ phase = "scan" /\ todo = {}
    /\ MayCancel
    /\ linked' = IF Cyclic(cfg.links, Plain(cfg.filtered)) THEN {} ELSE ImplicitRestarts(stale)
    /\ plan' = ToReplace(stale, linked')
    /\ todo' = plan'
    /\ phase' = IF cfg.rolling THEN "roll" ELSE "stop"
    /\ IF cfg.rolling THEN UNCHANGED prog ELSE MarkForUpdate(plan')
    /\ UNCHANGED <<cfg, newer, stale, stopped, failed, hostVars>>

-----------------------------------------------------------------------------
(* Stopping *)

(***************************************************************************)
(* stopStaleContainer.  A Watchtower is never stopped here, and a container *)
(* that is already gone counts as stopped.                                 *)
(***************************************************************************)
StopSucceeds(c) ==
    /\ old' = IF c \in Watchtowers THEN old ELSE [old EXCEPT ![c] = "gone"]
    /\ stopped' = stopped \cup {c}
    /\ UNCHANGED failed

(* Refused by the configuration check or the pre-update hook, or not stopped. *)
StopRefused(c) ==
    /\ c \notin Watchtowers
    /\ \/ Unverifiable /\ c \in linked
       \/ "hook" \in Faults
       \/ CallFails("stop") /\ old[c] = "up"
    /\ failed' = failed \cup {c}
    /\ UNCHANGED <<old, stopped>>

(* Stopped, or not running in the first place, but not removed. *)
RemoveFails(c) ==
    /\ c \notin Watchtowers
    /\ CallFails("remove")
    /\ old' = [old EXCEPT ![c] = "down"]
    /\ failed' = failed \cup {c}
    /\ UNCHANGED stopped

Stop(c) == StopSucceeds(c) \/ StopRefused(c) \/ RemoveFails(c)

(* stopContainersInReversedOrder: the next container. *)
StopNext(c) ==
    /\ phase = "stop" /\ NextToStop(c) /\ ~cancelled
    /\ MayCancel
    /\ Stop(c)
    /\ todo' = todo \ {c}
    /\ UNCHANGED <<cfg, phase, reportVars, planVars, new, renamed, retired, cleanup>>

(* The context is done: this container and all the remaining ones fail. *)
StopCancelled ==
    /\ phase = "stop" /\ todo # {} /\ cancelled
    /\ failed' = failed \cup todo
    /\ todo' = {}
    /\ UNCHANGED <<cfg, phase, reportVars, planVars, stopped, hostVars, cancelled>>

StopDone ==
    /\ phase = "stop" /\ todo = {}
    /\ MayCancel
    /\ MarkFailed(failed)
    /\ todo' = plan
    /\ phase' = "start"
    /\ UNCHANGED <<cfg, newer, planVars, stopped, failed, hostVars>>

-----------------------------------------------------------------------------
(* Starting: restartStaleContainer and what its callers record *)

(* Variants: the image of a linked container, of a renamed Watchtower, is removed too. *)
RestartedCleansAll(c) ==
    /\ prog' = IF c \in stale THEN prog ELSE [prog EXCEPT ![c] = "restarted"]
    /\ cleanup' = IF c \in renamed' THEN cleanup ELSE cleanup \cup {cfg.image[c]}
    /\ UNCHANGED <<failed, phase>>
RestartedCleansRenamed(c) ==
    /\ prog' = IF c \in stale THEN prog ELSE [prog EXCEPT ![c] = "restarted"]
    /\ cleanup' = IF c \in stale THEN cleanup \cup {cfg.image[c]} ELSE cleanup
    /\ UNCHANGED <<failed, phase>>

(* A restart without error: linked containers are marked as restarted. *)
Restarted(c) ==
    /\ prog' = IF c \in stale THEN prog ELSE [prog EXCEPT ![c] = "restarted"]
    /\ cleanup' = IF c \in stale /\ c \notin renamed'
                  THEN cleanup \cup {cfg.image[c]} ELSE cleanup
    /\ UNCHANGED <<failed, phase>>

(* Variant: the error is dropped. *)
RestartFailedSilently(c) == UNCHANGED <<failed, prog, cleanup>>

RestartFailed(c) == failed' = failed \cup {c} /\ UNCHANGED <<prog, cleanup>>

(* The name of the new container is free once the old one is gone or renamed. *)
NameFree(c) == Renames(c) \/ old[c] = "gone"

NewInstance(c) == IF c \in cfg.stopped /\ ~cfg.revive THEN "created" ELSE "up"

Starts(c) == ~cfg.noRestart \/ c \in Watchtowers

RenameFails(c) ==
    /\ Renames(c) /\ CallFails("rename")
    /\ RestartFailed(c)
    /\ UNCHANGED <<phase, old, new, renamed, retired>>

(* --no-restart: nothing is started, and no error is returned. *)
StartWithheld(c) ==
    /\ ~Starts(c)
    /\ UNCHANGED <<old, new, renamed, retired>>
    /\ Restarted(c)

(* StartTargetContainer creates, renames and starts the new instance. *)
StartSucceeds(c) ==
    /\ Starts(c) /\ NameFree(c)
    /\ new' = [new EXCEPT ![c] = NewInstance(c)]
    /\ renamed' = IF Renames(c) THEN renamed \cup {c} ELSE renamed
    /\ \/ Renames(c) /\ retired' = retired \cup {c}
       \/ (~Renames(c) \/ "policy" \in Faults) /\ UNCHANGED retired
    /\ UNCHANGED old
    /\ Restarted(c)

(* What the attempt leaves: nothing, or a container that would not start. *)
StartLeftover(c) ==
    {x \in {"none", "created"} :
        IF x = "none" THEN CallFails("create") \/ ~NameFree(c)
        ELSE CallFails("start") /\ NameFree(c) /\ NewInstance(c) = "up"}

(***************************************************************************)
(* StopAndRemoveContainer of a Watchtower that could not be replaced, with *)
(* a context of its own.  Stopping Self ends this process.                 *)
(***************************************************************************)
Discard(c) ==
    \/ "stop" \in Faults /\ old[c] = "up" /\ UNCHANGED <<old, phase>>
    \/ c = Self /\ old' = [old EXCEPT ![c] = "down"] /\ phase' = "killed"
    \/ c # Self /\ old' = [old EXCEPT ![c] = "gone"] /\ UNCHANGED phase
    \/ /\ c # Self /\ "remove" \in Faults
       /\ old' = [old EXCEPT ![c] = "down"]
       /\ UNCHANGED phase

StartFails(c) ==
    /\ Starts(c)
    /\ \E left \in StartLeftover(c) : new' = [new EXCEPT ![c] = left]
    /\ IF Renames(c) THEN renamed' = renamed \cup {c} /\ Discard(c)
                     ELSE UNCHANGED <<renamed, old, phase>>
    /\ RestartFailed(c)
    /\ UNCHANGED retired

Restart(c) ==
    RenameFails(c) \/ StartWithheld(c) \/ StartSucceeds(c) \/ StartFails(c)

(* restartContainersInSortedOrder passes over what it may not restart. *)
PassedOver(c) == OtherWatchtower(c) \/ c \notin Watchtowers \cup stopped

StartSkip(c) ==
    /\ phase = "start" /\ NextToStart(c) /\ ~cancelled
    /\ MayCancel
    /\ PassedOver(c)
    /\ todo' = todo \ {c}
    /\ UNCHANGED <<cfg, phase, reportVars, planVars, stopped, failed, hostVars>>

StartNext(c) ==
    /\ phase = "start" /\ NextToStart(c) /\ ~cancelled
    /\ MayCancel
    /\ ~PassedOver(c)
    /\ Restart(c)
    /\ todo' = todo \ {c}
    /\ UNCHANGED <<cfg, newer, planVars, stopped>>

StartCancelled ==
    /\ phase = "start" /\ todo # {} /\ cancelled
    /\ failed' = failed \cup todo
    /\ todo' = {}
    /\ UNCHANGED <<cfg, phase, reportVars, planVars, stopped, hostVars, cancelled>>

Finish ==
    /\ phase = "start" /\ todo = {}
    /\ MayCancel
    /\ MarkFailed(failed)
    /\ phase' = "ok"
    /\ UNCHANGED <<cfg, todo, newer, planVars, stopped, failed, hostVars>>

-----------------------------------------------------------------------------
(* performRollingRestart: one container at a time, forwards *)

(* The container that was stopped and is about to be started. *)
InHand == stopped \cap todo

(* Variant: the next one is stopped before the last one has been started. *)
RollStopAhead(c) ==
    /\ phase = "roll" /\ NextToStart(c) /\ ~cancelled
    /\ MayCancel
    /\ MarkForUpdate({c})
    /\ Stop(c)
    /\ todo' = IF c \in stopped' THEN todo ELSE todo \ {c}
    /\ UNCHANGED <<cfg, phase, newer, planVars, new, renamed, retired, cleanup>>

RollStop(c) ==
    /\ phase = "roll" /\ InHand = {} /\ NextToStart(c) /\ ~cancelled
    /\ MayCancel
    /\ MarkForUpdate({c})
    /\ Stop(c)
    /\ todo' = IF c \in stopped' THEN todo ELSE todo \ {c}
    /\ UNCHANGED <<cfg, phase, newer, planVars, new, renamed, retired, cleanup>>

RollStart(c) ==
    /\ phase = "roll" /\ c \in InHand
    /\ MayCancel
    /\ Restart(c)
    /\ todo' = todo \ {c}
    /\ UNCHANGED <<cfg, newer, planVars, stopped>>

(* The remaining containers fail and Update returns the error of the context. *)
RollCancelled ==
    /\ phase = "roll" /\ InHand = {} /\ todo # {} /\ cancelled
    /\ failed' = failed \cup todo
    /\ MarkFailed(failed')
    /\ todo' = {}
    /\ phase' = "error"
    /\ UNCHANGED <<cfg, newer, planVars, stopped, hostVars, cancelled>>

RollDone ==
    /\ phase = "roll" /\ todo = {}
    /\ MayCancel
    /\ MarkFailed(failed)
    /\ phase' = "ok"
    /\ UNCHANGED <<cfg, todo, newer, planVars, stopped, failed, hostVars>>

-----------------------------------------------------------------------------
(***************************************************************************)
(* A new Watchtower, once it runs, removes the others as excess instances  *)
(* (cleanup.go): this process ends, wherever its session is.               *)
(***************************************************************************)
Superseded ==
    /\ phase \in {"start", "roll"}
    /\ \E w \in renamed : new[w] = "up"
    /\ old' = [old EXCEPT ![Self] = "gone"]
    /\ phase' = "killed"
    /\ UNCHANGED <<cfg, todo, reportVars, planVars, stopped, failed, new,
                   renamed, retired, cleanup, cancelled>>

ScanStep(c) == ScanKnown(c) \/ ScanError(c) \/ ScanFresh(c) \/ ScanStale(c)

ContainerStep(c) ==
    \/ ScanStep(c)
    \/ StopNext(c) \/ StartSkip(c) \/ StartNext(c)
    \/ RollStop(c) \/ RollStart(c)

SessionStep ==
    \/ BeginFails \/ Begin \/ ScanCancelled \/ PlanFails \/ MakePlan
    \/ StopCancelled \/ StopDone \/ StartCancelled \/ Finish
    \/ RollCancelled \/ RollDone
    \/ \E c \in Containers : ContainerStep(c)

(* Update has returned, or the process is gone. *)
Over == Terminal /\ UNCHANGED vars

Next == SessionStep \/ Superseded \/ Over

(* The session is one goroutine: it runs on as long as its process does. *)
Spec == Init /\ [][Next]_vars /\ WF_vars(SessionStep)

-----------------------------------------------------------------------------
(* What the session reports *)

(* categorizeContainer of pkg/session/report.go. *)
CategoryOf(c) ==
    IF prog[c] \in {"none", "skipped", "restarted"} THEN prog[c]
    ELSE IF ~newer[c] THEN "fresh"
    ELSE IF prog[c] = "scanned" THEN "stale" ELSE prog[c]

-----------------------------------------------------------------------------
(* Vocabulary of the properties *)

Listed(c) == IF c \in cfg.stopped THEN "down" ELSE "up"

(* The session has done something to c. *)
Touched(c) == old[c] # Listed(c) \/ new[c] # "none" \/ c \in renamed

(* The new instance is in the place of the old one. *)
Replaced(c) == new[c] = NewInstance(c) /\ (old[c] = "gone" \/ c \in renamed)

(* Nothing more will be done for c: replaced, given up, or left to the user. *)
Settled(c) == Replaced(c) \/ c \in failed \/ ~Starts(c)

(* Every set of selected containers closed under links that holds c meets stale. *)
ReachesStale(c) ==
    \A X \in SUBSET cfg.filtered :
        c \in X /\ (\A d \in X : cfg.links[d] \cap cfg.filtered \subseteq X)
            => X \cap stale # {}

-----------------------------------------------------------------------------
(* Properties *)

(* The variables hold values of their types. *)
TypeOK ==
    /\ cfg \in Configs
    /\ phase \in Phases
    /\ todo \subseteq Containers
    /\ prog \in [Containers -> {"none", "skipped", "scanned", "updated",
                                "failed", "restarted"}]
    /\ newer \in [Containers -> BOOLEAN]
    /\ stale \subseteq Containers /\ linked \subseteq Containers
    /\ plan \subseteq Containers
    /\ stopped \subseteq Containers /\ failed \subseteq Containers
    /\ old \in [Containers -> {"up", "down", "gone"}]
    /\ new \in [Containers -> {"none", "created", "up"}]
    /\ renamed \subseteq Watchtowers /\ retired \subseteq Watchtowers
    /\ cleanup \subseteq Images
    /\ cancelled \in BOOLEAN

(***************************************************************************)
(* The session touches a container only if the filter selects it, it is    *)
(* not monitor-only, and it is stale or depends, directly or through       *)
(* selected containers, on a stale one (shouldUpdateContainer,             *)
(* UpdateImplicitRestart and the collection of allContainersToRestart).    *)
(* The one exception is this process's container, removed by a successor.  *)
(***************************************************************************)
TouchedForAReason ==
    \A c \in Containers :
        Touched(c) /\ ~(c = Self /\ phase = "killed") =>
            /\ c \in cfg.filtered \ cfg.monitorOnly
            /\ ReachesStale(c)

(***************************************************************************)
(* A batch does not touch a container while one that depends on it still   *)
(* runs, unless the dependent's own stop failed                            *)
(* (stopContainersInReversedOrder over the sorted list).                   *)
(***************************************************************************)
StopRespectsLinks ==
    ~cfg.rolling =>
        \A c, d \in Plain(plan) :
            c \in cfg.links[d] /\ old[c] # Listed(c) => old[d] = "gone" \/ d \in failed

(***************************************************************************)
(* A new instance exists only when every dependency the session also       *)
(* replaces is settled, in a batch and in a rolling restart.               *)
(***************************************************************************)
StartRespectsLinks ==
    \A c, d \in Plain(plan) :
        c \in cfg.links[d] /\ new[d] # "none" => Settled(c)

(***************************************************************************)
(* Watchtower replaces itself last.  From the moment its own container is  *)
(* renamed the process may be killed, by its successor or by its own       *)
(* hand, so every other container must be settled by then.                 *)
(***************************************************************************)
SelfUpdateIsLast ==
    Self \in renamed => \A c \in Plain(plan) : Settled(c)

(***************************************************************************)
(* When Update returns, a container that ran before and does not run now   *)
(* is recorded as failed, unless --no-restart withheld its start: across   *)
(* failures and cancellation no container is lost silently.                *)
(***************************************************************************)
NothingLost ==
    phase \in {"ok", "error"} =>
        \A c \in Containers \ cfg.stopped :
            old[c] # "up" /\ new[c] # "up" => prog[c] = "failed" \/ ~Starts(c)

(***************************************************************************)
(* A container reported as updated or restarted has a new instance in its  *)
(* place (MarkForUpdate is called before the container is even stopped).   *)
(***************************************************************************)
TruthfulReport ==
    phase = "ok" =>
        \A c \in Containers :
            CategoryOf(c) \in {"updated", "restarted"} => Replaced(c) \/ ~Starts(c)

(***************************************************************************)
(* Unless a cycle disabled implicit restarts, a selected container that    *)
(* depends on a replaced one has been stopped for it or is recorded as     *)
(* failed: none goes on against a dependency that is no longer there.      *)
(***************************************************************************)
DependentsFollow ==
    phase = "ok" /\ ~Cyclic(cfg.links, Plain(cfg.filtered)) =>
        \A d \in Plain(cfg.filtered) \ cfg.monitorOnly, c \in Containers :
            c \in cfg.links[d] /\ Touched(c) => old[d] = "gone" \/ prog[d] = "failed"

(***************************************************************************)
(* The images handed to the cleanup are exactly the old images of the      *)
(* stale containers that were replaced; a renamed Watchtower's is left to  *)
(* its successor (addCleanupImageInfo and its two callers).                *)
(***************************************************************************)
CleanupIsExact ==
    phase \in {"ok", "error"} =>
        cleanup = {cfg.image[c] : c \in {d \in stale \ renamed : Replaced(d)}}

(* Whatever fails and whenever it is cancelled, a session ends. *)
SessionEnds == <>Terminal

(***************************************************************************)
(* Stated by the repository, and not what the code does.                   *)
(***************************************************************************)

(* "container cleanup and update operations complete even if the parent
   context is canceled": no cancellation leaves a container without a
   running instance (comment of restartStaleContainer). *)
SurvivesCancellation ==
    phase \in {"ok", "error"} =>
        \A c \in Containers \ cfg.stopped : old[c] = "up" \/ new[c] = "up" \/ ~Starts(c)

(* "containers where update failed" are counted as failed (docs, metrics). *)
FailureIsReported ==
    phase = "ok" => \A c \in failed : CategoryOf(c) = "failed"

(* "containers that were restarted due to linked dependencies" (docs, HTTP API). *)
RestartedIsRunning ==
    phase = "ok" =>
        \A c \in Containers \ cfg.stopped : CategoryOf(c) = "restarted" => new[c] = "up"
=============================================================================
