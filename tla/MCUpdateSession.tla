-------------------------- MODULE MCUpdateSession --------------------------
(***************************************************************************)
(* Small hosts and settings for UpdateSession: four containers, one or two *)
(* of them Watchtowers, and the link shapes and settings under which the   *)
(* code takes different paths.                                             *)
(***************************************************************************)
EXTENDS UpdateRollout

CONSTANTS db, app, web, wt, i1, i2

MCContainers   == {db, app, web, wt}
MCImages       == {i1, i2}
AllFaults      == FaultKinds
NoFaults       == {}
Cancellation   == {"cancel"}
StartFault     == {"start"}

NoLinks == [c \in MCContainers |-> {}]

(* web depends on app, app on db. *)
Chain == [NoLinks EXCEPT ![app] = {db}, ![web] = {app}]
(* app and web depend on db. *)
Fan == [NoLinks EXCEPT ![app] = {db}, ![web] = {db}]
(* db and app depend on each other, web on both: two cycles' worth of search orders. *)
Cycle == [NoLinks EXCEPT ![db] = {app}, ![app] = {db}, ![web] = {db, app}]
(* app depends on the Watchtower, the Watchtower on db. *)
AroundWatchtower == [NoLinks EXCEPT ![app] = {wt}, ![wt] = {db}]

Host(l) ==
    [links |-> l, watchtowers |-> {wt}, selfDep |-> {}, filtered |-> MCContainers, monitorOnly |-> {},
     pinned |-> {}, stopped |-> {},
     image |-> [c \in MCContainers |-> IF c \in {db, app} THEN i1 ELSE i2],
     rolling |-> FALSE, noRestart |-> FALSE, runOnce |-> FALSE,
     skipSelf |-> FALSE, knowsSelf |-> TRUE, revive |-> FALSE]

BatchConfigs ==
    {Host(Chain), Host(Fan), Host(Cycle), Host(AroundWatchtower),
     [Host(Chain) EXCEPT !.monitorOnly = {app}],
     [Host(Chain) EXCEPT !.filtered = {app, web, wt}, !.pinned = {web}],
     [Host(Chain) EXCEPT !.stopped = {app}],
     [Host(Chain) EXCEPT !.stopped = {db}, !.revive = TRUE],
     [Host(Fan) EXCEPT !.selfDep = {web}, !.skipSelf = TRUE],
     [Host(AroundWatchtower) EXCEPT !.noRestart = TRUE],
     [Host(AroundWatchtower) EXCEPT !.runOnce = TRUE]}

(* The links are only refused when Watchtower starts; containers come later. *)
RollingConfigs ==
    {[k EXCEPT !.rolling = TRUE] :
        k \in {Host(NoLinks), Host(Chain), Host(Cycle), Host(AroundWatchtower),
               [Host(Chain) EXCEPT !.stopped = {app}],
               [Host(AroundWatchtower) EXCEPT !.noRestart = TRUE],
               [Host(Fan) EXCEPT !.runOnce = TRUE, !.monitorOnly = {app}]}}

(* web is a second Watchtower, known as such or not. *)
PairConfigs ==
    {[Host(l) EXCEPT !.watchtowers = {web, wt}, !.knowsSelf = b, !.rolling = r] :
        l \in {NoLinks, AroundWatchtower}, b \in BOOLEAN, r \in BOOLEAN}

AllConfigs == BatchConfigs \cup RollingConfigs \cup PairConfigs

ChainConfigs == {Host(Chain)}

WithheldConfigs == {[Host(AroundWatchtower) EXCEPT !.noRestart = TRUE]}
=============================================================================
