---------------------------- MODULE MCSharedHost -----------------------------
(***************************************************************************)
(* Cases for SharedHost.  web depends on db.  In most cases app is not     *)
(* there at the start, and only a deployment brings it.                    *)
(***************************************************************************)
EXTENDS SharedHost

CONSTANTS alice, bob, db, web, app, ghost, front, back

MCKeys == <<db, web, app>>
MCServices == {db, web, app}

Usual == [deps |-> [s \in MCServices |-> IF s = web THEN {db, ghost} ELSE {}],
          needs |-> {}, there |-> {}, like |-> {}]
Two == [s \in MCServices |-> IF s = app THEN "gone" ELSE "running"]
DbOnly(st) == [s \in MCServices |-> IF s = db THEN st ELSE "gone"]

Case(sp, initial, runs, a, b) ==
    [spec |-> sp, initial |-> initial, rolling |-> FALSE, stopped |-> FALSE, revive |-> FALSE,
     sessions |-> runs, requests |-> [c \in {alice, bob} |-> IF c = alice THEN a ELSE b]]
Alone == Case(Usual, Two, 1, 1, 0)

(* Sessions and requests at once. *)
Mixed == {Alone,
          [Alone EXCEPT !.rolling = TRUE],
          [Case(Usual, DbOnly("running"), 2, 1, 0) EXCEPT !.stopped = TRUE],
          Case(Usual, DbOnly("running"), 1, 2, 0),
          Case(Usual, DbOnly("running"), 0, 1, 1), Case(Usual, Two, 0, 1, 1),
          [Case(Usual, DbOnly("exited"), 1, 1, 0) EXCEPT !.stopped = TRUE],
          [Case(Usual, DbOnly("created"), 1, 1, 0) EXCEPT !.stopped = TRUE, !.revive = TRUE]}

(* A deployment for every way the services depend on each other. *)
Deployments == {Case([Usual EXCEPT !.deps = d], [s \in MCServices |-> "gone"], 0, 1, 0) :
                  d \in [MCServices -> SUBSET MCServices]}

(* Networks: one that has the other's name in its own hides it. *)
Networked == {Case([Usual EXCEPT !.needs = {front, back}, !.there = t, !.like = l],
                   DbOnly("gone"), 0, 1, 1) :
                t \in {{}, {back}}, l \in {{}, {<<front, back>>}}}

MCCases == Mixed \cup Deployments \cup Networked
MCSpecs == {case.spec : case \in MCCases}
=============================================================================
