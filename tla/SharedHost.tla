----------------------------- MODULE SharedHost ------------------------------
(***************************************************************************)
(* A host on which a session replaces containers while requests act on the *)
(* services they belong to.  The session is the one of UpdateSession, seen *)
(* by the daemon: it works from what it found out about each container     *)
(* when it listed them, and every call of it may fail.  Which containers   *)
(* it replaces, and in which order, is UpdateSession's; here it is any of  *)
(* them in any order.                                                      *)
(***************************************************************************)
EXTENDS ServiceRequests

CONSTANT
    Cases   \* applications and settings to consider, with the bounds of each

ASSUME HostAssumption ==
    /\ Cardinality(Services) <= MaxIds
    /\ \A case \in Cases :
         /\ case.spec \in Specs
         /\ case.initial \in [Services -> Present \cup {"gone"}]  \* the containers at the start
         /\ case.rolling \in BOOLEAN
         /\ case.stopped \in BOOLEAN                 \* includes stopped containers
         /\ case.revive \in BOOLEAN                  \* starts them
         /\ case.sessions \in Nat                    \* how many there are
         /\ case.requests \in [Clients -> Nat]       \* how many each client sends

VARIABLES
    cfg,       \* the case, with the settings of the sessions
    session,   \* where the session is
    toList,    \* the containers it has still to inspect
    found,     \* those it has inspected and may replace
    wasUp,     \* those of them that ran then
    taken,     \* those it has stopped and removed, to be replaced
    old,       \* the one it is replacing
    new,       \* the one it has created instead
    sessions,  \* how many have begun
    claims,    \* what the stop or removal of each client will have done
    removed,   \* services that are gone since a request that removed them
    stopped,   \* services that are down since a request that stopped them
    orphaned   \* a container was left behind by a clean-up that failed

sessionVars == <<session, toList, found, wasUp, taken, old, new, sessions, orphaned>>
historyVars == <<claims, removed, stopped>>
vars == <<spec, allowed, hostVars, req, cfg, sessionVars, historyVars>>

Phases == {"idle", "inspecting", "stopping", "removing", "starting",
           "renaming", "booting", "clearing"}

(* Every variable holds a value of its kind; names are unique; a session   *)
(* knows what it replaces exactly while it does, and what it has created   *)
(* is another container.                                                   *)
TypeOK ==
    /\ RequestsTypeOK
    /\ cfg \in Cases /\ spec = cfg.spec /\ session \in Phases /\ sessions \in 0..cfg.sessions
    /\ toList \subseteq Ids /\ wasUp \subseteq Ids /\ found \subseteq Ids /\ taken \subseteq Ids
    /\ old \in 0..MaxIds /\ new \in 0..MaxIds /\ (new # 0 => new # old)
    /\ taken \cap found = {}
    /\ new # 0 <=> session \in {"renaming", "booting", "clearing"}
    /\ claims \in [Clients -> SUBSET Services]
    /\ removed \subseteq Services /\ stopped \subseteq Services /\ orphaned \in BOOLEAN

Init ==
    /\ cfg \in Cases /\ spec = cfg.spec /\ allowed = cfg.requests
    /\ nets = spec.there
    /\ box = [i \in Ids |->
                IF i <= Len(Keys) THEN [svc |-> Keys[i], name |-> Keys[i], state |-> cfg.initial[Keys[i]]]
                ELSE [svc |-> Keys[1], name |-> Nameless, state |-> "unused"]]
    /\ req = [c \in Clients |-> NoRequest(0)]
    /\ session = "idle" /\ toList = {} /\ found = {} /\ wasUp = {} /\ taken = {}
    /\ old = 0 /\ new = 0 /\ sessions = 0 /\ orphaned = FALSE
    /\ claims = [c \in Clients |-> {}] /\ removed = {} /\ stopped = {}

-----------------------------------------------------------------------------
(* The session. *)

Listed(i) == box[i].state = "running" \/ (cfg.stopped /\ box[i].state \in {"created", "exited"})

Begin ==
    /\ session = "idle" /\ sessions < cfg.sessions
    /\ session' = "inspecting" /\ sessions' = sessions + 1
    /\ toList' = {i \in Ids : Exists(i) /\ Listed(i)}
    /\ UNCHANGED <<hostVars, found, wasUp, taken, old, new, orphaned>>

(* A container that is gone by now is passed over; the filter and the scan *)
(* leave some of the others out.                                           *)
Inspect(i) ==
    /\ session = "inspecting" /\ i \in toList
    /\ toList' = toList \ {i}
    /\ \/ UNCHANGED <<found, wasUp>>
       \/ /\ Exists(i) /\ found' = found \cup {i}
          /\ wasUp' = IF box[i].state = "running" THEN wasUp \cup {i} ELSE wasUp
    /\ UNCHANGED <<hostVars, session, taken, old, new, sessions, orphaned>>

Plan ==
    /\ session = "inspecting" /\ toList = {}
    /\ session' = "stopping"
    /\ UNCHANGED <<hostVars, toList, found, wasUp, taken, old, new, sessions, orphaned>>

(* One that did not run when it was listed is not stopped; one that has    *)
(* gone cannot be, and is then left alone.                                 *)
StopOld(i) ==
    /\ session = "stopping" /\ i \in found
    /\ cfg.rolling => taken = {}
    /\ \/ i \notin wasUp /\ UNCHANGED box
       \/ i \in wasUp /\ Exists(i)
            /\ SetState(i, IF box[i].state = "running" THEN "exited" ELSE box[i].state)
    /\ old' = i /\ session' = "removing"
    /\ UNCHANGED <<nets, toList, found, wasUp, taken, new, sessions, orphaned>>

StopOldFails(i) ==
    /\ session = "stopping" /\ i \in found
    /\ found' = found \ {i}
    /\ UNCHANGED <<hostVars, session, toList, wasUp, taken, old, new, sessions, orphaned>>

(* A removal that finds nothing is one that is done. *)
RemoveOld ==
    /\ session = "removing"
    /\ found' = found \ {old} /\ session' = "stopping"
    /\ \/ taken' = taken \cup {old}
          /\ IF Exists(old) THEN SetState(old, "gone") ELSE UNCHANGED box
       \/ UNCHANGED <<taken, box>>
    /\ old' = 0
    /\ UNCHANGED <<nets, toList, wasUp, new, sessions, orphaned>>

(* The new container is created without a name ... *)
CreateNew(i) ==
    /\ session = "stopping" /\ i \in taken
    /\ cfg.rolling \/ found = {}
    /\ NewBox(box[i].svc, Nameless)
    /\ taken' = taken \ {i} /\ old' = i /\ new' = Least(Unused) /\ session' = "renaming"
    /\ UNCHANGED <<nets, toList, found, wasUp, sessions, orphaned>>

CreateFails(i) ==
    /\ session = "stopping" /\ i \in taken
    /\ cfg.rolling \/ found = {}
    /\ taken' = taken \ {i}
    /\ UNCHANGED <<hostVars, session, toList, found, wasUp, old, new, sessions, orphaned>>

(* A target that is used under the name it has, when it can be given no other. *)
RenameOrUse ==
    /\ session = "renaming" /\ session' = "booting"
    /\ UNCHANGED <<hostVars, toList, found, wasUp, taken, old, new, sessions, orphaned>>

(* ... then it is given the old one's, unless somebody has it by now.      *)
RenameNew ==
    /\ session = "renaming" /\ Exists(new)
    /\ box[old].name = Nameless \/ Named(box[old].name) = {}
    /\ box' = [box EXCEPT ![new].name = box[old].name]
    /\ session' = "booting"
    /\ UNCHANGED <<nets, toList, found, wasUp, taken, old, new, sessions, orphaned>>

(* It cannot be named, or not be attached to its other networks. *)
SetUpFails ==
    /\ session \in {"renaming", "booting"} /\ session' = "clearing"
    /\ UNCHANGED <<hostVars, toList, found, wasUp, taken, old, new, sessions, orphaned>>

Leaves == old' = 0 /\ new' = 0 /\ session' = "stopping"

Clear ==
    /\ session = "clearing" /\ Leaves
    /\ \/ box' = (IF Exists(new) THEN [box EXCEPT ![new].state = "gone"] ELSE box)
          /\ UNCHANGED orphaned
       \/ UNCHANGED box /\ orphaned' = (orphaned \/ Exists(new))
    /\ UNCHANGED <<nets, toList, found, wasUp, taken, sessions>>

(* A target that is started whatever its source did. *)
StartNewAnyway ==
    /\ session = "booting" /\ Leaves
    /\ \/ Exists(new) /\ SetState(new, "running")
       \/ UNCHANGED box
    /\ UNCHANGED <<nets, toList, found, wasUp, taken, sessions, orphaned>>

(* It is only started if the old one ran, or stopped ones are revived; one *)
(* that does not start stays.                                              *)
StartNew ==
    /\ session = "booting" /\ Leaves
    /\ \/ (old \in wasUp \/ cfg.revive) /\ Exists(new) /\ SetState(new, "running")
       \/ UNCHANGED box
    /\ UNCHANGED <<nets, toList, found, wasUp, taken, sessions, orphaned>>

(* What is left when the session ends early stays as it is. *)
End ==
    /\ session \in {"inspecting", "stopping"}
    /\ session' = "idle"
    /\ toList' = {} /\ found' = {} /\ wasUp' = {} /\ taken' = {}
    /\ UNCHANGED <<hostVars, old, new, sessions, orphaned>>

Session ==
    \/ Begin \/ Plan \/ RemoveOld \/ RenameNew \/ SetUpFails \/ Clear \/ StartNew \/ End
    \/ \E i \in Ids :
         Inspect(i) \/ StopOld(i) \/ StopOldFails(i) \/ CreateNew(i) \/ CreateFails(i)

-----------------------------------------------------------------------------
(* What has been answered, and who may still undo it. *)

(* The services a session may bring back, or up, from what it has seen. *)
Held == IF session = "idle" THEN {}
        ELSE {box[i].svc : i \in found \cup taken \cup ({old} \ {0})}
HeldUp == IF cfg.revive THEN Services
          ELSE IF session = "idle" THEN {}
          ELSE {box[i].svc : i \in (found \cup taken \cup ({old} \ {0})) \cap wasUp}

Created == {box'[i].svc : i \in {i \in Ids : box[i].state = "unused" /\ box'[i].state # "unused"}}
Raised  == {box'[i].svc : i \in {i \in Ids : box[i].state # "running" /\ box'[i].state = "running"}}
Asked   == IF UNCHANGED sessionVars THEN Services ELSE {}

(* Does c's request end well in this step? *)
Succeeds(c, op) == req[c].op = op /\ req[c].pc \in Working /\ req'[c].pc = "ok"

History ==
    /\ claims' = [c \in Clients |->
                    IF req[c].pc = "list" THEN req[c].target
                    ELSE claims[c] \ (Created \cup (IF req[c].op = "stop" THEN Raised ELSE {}))]
    /\ removed' = (removed \cup UNION {claims[c] \ Held : c \in {c \in Clients : Succeeds(c, "remove")}})
                     \ (Created \cap Asked)
    /\ stopped' = (stopped \cup UNION {claims[c] \ HeldUp : c \in {c \in Clients : Succeeds(c, "stop")}})
                     \ (Raised \cap Asked)

Requests ==
    /\ \E c \in Clients : Request(c)
    /\ UNCHANGED sessionVars

Step == (Session /\ UNCHANGED req) \/ Requests

Over ==
    /\ session = "idle" /\ sessions = cfg.sessions
    /\ \A c \in Clients : req[c].pc = "idle" /\ req[c].asked = allowed[c]
    /\ UNCHANGED vars

Next == (Step /\ History /\ UNCHANGED <<spec, allowed, cfg>>) \/ Over

Spec == Init /\ [][Next]_vars

-----------------------------------------------------------------------------
(* A deployment creates a service when those it depends on have been       *)
(* started by it, creates none of services that depend on each other in a  *)
(* circle, and answers success when it has started them all: what one that *)
(* failed leaves behind depends on nothing that is not there               *)
(* (DeployServices, orderedServiceNames).                                  *)
DependenciesFirst ==
    \A c \in Clients : req[c].op = "deploy" =>
        /\ \A s \in req[c].created : spec.deps[s] \cap Services \subseteq req[c].started \ {s}
        /\ req[c].pc = "ok" => req[c].started = Services

(* A service that a request has removed comes back by a deployment only,   *)
(* or by a session that had seen it before (RemoveServices,                *)
(* ListSourceContainers, StartTargetContainer).                            *)
RemovedStaysGone == \A s \in removed : Of({s}) = {}

(* A service that a request has stopped runs again by another request      *)
(* only, or by a session that had seen it run, or that revives what is     *)
(* stopped (StopServices, StartTargetContainer).                           *)
StoppedStaysDown == \A s \in stopped : \A i \in Of({s}) : box[i].state # "running"

(* When no session is under way, no service runs twice, whatever was       *)
(* deployed, started and replaced at once - unless a new container could   *)
(* not be named, nor removed again (StartTargetContainer).                 *)
NoTwins ==
    session = "idle" /\ ~orphaned =>
        \A s \in Services : Cardinality({i \in Of({s}) : box[i].state = "running"}) <= 1
=============================================================================
