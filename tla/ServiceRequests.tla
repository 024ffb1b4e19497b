--------------------------- MODULE ServiceRequests ---------------------------
(***************************************************************************)
(* The requests of the HTTP API that deploy, stop, start, restart and      *)
(* remove the services of an application (internal/actions/services.go),   *)
(* and the containers they act on.  They take no lock, make one call of    *)
(* the daemon after the other, and end at the first that fails, as every   *)
(* call may: the daemon refuses, or the client is gone and its context is  *)
(* cancelled.  A container is named by its service or not at all.          *)
(***************************************************************************)
EXTENDS Naturals, Sequences, FiniteSets

CONSTANTS
    Clients,      \* those who send requests, one at a time each
    Services,     \* the services of the application
    Keys,         \* the same in their order
    Unknown,      \* a name in depends_on that is no service
    Networks,
    Specs,        \* the applications to consider
    MaxIds        \* bound on the containers there ever are

Nameless == "nameless"

ASSUME RequestsAssumption ==
    /\ Keys \in Seq(Services) /\ Keys # <<>> /\ MaxIds \in Nat
    /\ {Keys[i] : i \in DOMAIN Keys} = Services /\ Len(Keys) = Cardinality(Services)
    /\ Unknown \notin Services /\ Nameless \notin Services
    /\ Specs \subseteq
         [deps : [Services -> SUBSET (Services \cup {Unknown})],
          needs : SUBSET Networks,        \* networks that are not external
          there : SUBSET Networks,        \* networks the host has
          like : SUBSET (Networks \X Networks)]  \* a name, and one it is part of

Ids == 1..MaxIds

VARIABLES
    spec,     \* the application
    allowed,  \* bound on the requests of each client
    nets,     \* the networks of the host
    box,      \* the containers of the host
    req       \* the request each client waits for

hostVars == <<nets, box>>

Present == {"created", "running", "exited"}
Ops     == {"deploy", "stop", "start", "restart", "remove"}
Working == {"networks", "prepare", "create", "start", "list", "act", "rm"}
Answers == {"ok", "failed"}

NewRequest(op, pc, target, needs, n) ==
    [op |-> op, pc |-> pc, target |-> target, nets |-> needs, path |-> <<>>, todo |-> <<>>,
     left |-> {}, at |-> 0, created |-> {}, started |-> {}, asked |-> n]
NoRequest(n) == NewRequest("stop", "idle", {}, {}, n)

RequestSet == [op : Ops, pc : Working \cup Answers \cup {"idle", "order"},
               target : SUBSET Services, nets : SUBSET Networks,
               path : Seq(Services), todo : Seq(Services),
               left : SUBSET Ids, at : 0..MaxIds,
               created : SUBSET Services, started : SUBSET Services, asked : Nat]

(* Every variable holds a value of its kind; names are unique; a request   *)
(* has at most one service that it created and did not start.              *)
RequestsTypeOK ==
    /\ spec \in Specs /\ nets \subseteq Networks
    /\ box \in [Ids -> [svc : Services, name : Services \cup {Nameless},
                        state : Present \cup {"unused", "gone"}]]
    /\ \A i, j \in Ids :
         i # j /\ box[i].state \in Present /\ box[j].state \in Present
           /\ box[i].name = box[j].name => box[i].name = Nameless
    /\ req \in [Clients -> RequestSet]
    /\ \A c \in Clients :
         /\ req[c].started \subseteq req[c].created
         /\ Cardinality(req[c].created \ req[c].started) <= 1
         /\ req[c].asked <= allowed[c]

Exists(i) == box[i].state \in Present
Of(S)     == {i \in Ids : Exists(i) /\ box[i].svc \in S}
Named(s)  == {i \in Ids : Exists(i) /\ box[i].name = s}
Unused    == {i \in Ids : box[i].state = "unused"}
Least(S)  == CHOOSE i \in S : \A j \in S : i <= j

NewBox(s, name) ==
    /\ Unused # {}
    /\ box' = [box EXCEPT ![Least(Unused)] = [svc |-> s, name |-> name, state |-> "created"]]
SetState(i, st) == box' = [box EXCEPT ![i].state = st]

Becomes(c, r) == req' = [req EXCEPT ![c] = r]
Goes(c, pc)   == req' = [req EXCEPT ![c].pc = pc]
FailsAt(c)    == Goes(c, "failed") /\ UNCHANGED hostVars

-----------------------------------------------------------------------------
(* A request is decoded and validated before any of this. *)

Ask(c) ==
    /\ req[c].pc = "idle" /\ req[c].asked < allowed[c]
    /\ \/ Becomes(c, NewRequest("deploy", "networks", Services, spec.needs, req[c].asked + 1))
       \/ \E op \in Ops \ {"deploy"}, T \in {Services} \cup {{s} : s \in Services} :
            /\ op \in {"start", "restart"} => Cardinality(T) = 1
            /\ Becomes(c, NewRequest(op, "list", T, {}, req[c].asked + 1))
    /\ UNCHANGED hostVars

Answer(c) ==
    /\ req[c].pc \in Answers
    /\ Becomes(c, NoRequest(req[c].asked))
    /\ UNCHANGED hostVars

-----------------------------------------------------------------------------
(* DeployServices. *)

(* The list of networks is filtered by name, which finds every name that   *)
(* has it in it; a network that is created meanwhile makes the call fail.  *)
LikeOneThere(n) == \E m \in nets : m = n \/ <<n, m>> \in spec.like

EnsureNetwork(c) ==
    /\ req[c].pc = "networks"
    /\ \E n \in req[c].nets :
         /\ req' = [req EXCEPT ![c].nets = @ \ {n}]
         /\ nets' = IF LikeOneThere(n) THEN nets ELSE nets \cup {n}
         /\ UNCHANGED box

(* The services are put in order when the networks are there already, by a *)
(* depth-first search over their depends_on: path are the services it is   *)
(* inside of, the innermost first, and todo those it has put in order.     *)
OrderServices(c) ==
    /\ req[c].pc = "networks" /\ req[c].nets = {}
    /\ Goes(c, "order")
    /\ UNCHANGED hostVars

Ordered(c)  == {req[c].todo[i] : i \in DOMAIN req[c].todo}
InsideOf(c) == {req[c].path[i] : i \in DOMAIN req[c].path}

(* The search begins with the first service that has no place yet.  Names  *)
(* that are no service are passed over, and it fails where it has come in  *)
(* a circle.                                                               *)
VisitNext(c) ==
    /\ req[c].pc = "order"
    /\ \E s \in Services \ Ordered(c) :
         /\ IF req[c].path = <<>> THEN s = Keys[Least({i \in DOMAIN Keys : Keys[i] \notin Ordered(c)})]
            ELSE s \in spec.deps[Head(req[c].path)]
         /\ IF s \in InsideOf(c) THEN Goes(c, "failed")
            ELSE req' = [req EXCEPT ![c].path = <<s>> \o @]
    /\ UNCHANGED hostVars

(* A search that takes a service it is inside of for one it has ordered. *)
VisitReturnsEarly(c) ==
    /\ req[c].pc = "order" /\ req[c].path # <<>>
    /\ spec.deps[Head(req[c].path)] \cap Services \subseteq Ordered(c) \cup InsideOf(c)
    /\ req' = [req EXCEPT ![c].path = Tail(@), ![c].todo = Append(@, Head(req[c].path))]
    /\ UNCHANGED hostVars

(* A service has its place when all it depends on have theirs. *)
VisitReturns(c) ==
    /\ req[c].pc = "order" /\ req[c].path # <<>>
    /\ spec.deps[Head(req[c].path)] \cap Services \subseteq Ordered(c)
    /\ req' = [req EXCEPT ![c].path = Tail(@), ![c].todo = Append(@, Head(req[c].path))]
    /\ UNCHANGED hostVars

SearchReturns(c) ==
    /\ req[c].pc = "order" /\ req[c].path = <<>> /\ Services \subseteq Ordered(c)
    /\ Goes(c, "prepare")
    /\ UNCHANGED hostVars

(* The image is pulled, the stream is not looked into, and the container's *)
(* configuration is built.                                                 *)
Prepare(c) ==
    /\ req[c].pc = "prepare"
    /\ Goes(c, IF req[c].todo = <<>> THEN "ok" ELSE "create")
    /\ UNCHANGED hostVars

Create(c) ==
    /\ req[c].pc = "create"
    /\ LET s == Head(req[c].todo)
       IN /\ Named(s) = {} /\ NewBox(s, s)
          /\ req' = [req EXCEPT ![c].pc = "start", ![c].created = @ \cup {s}]
    /\ UNCHANGED nets

(* A deployment that goes on with the next service when one does not start. *)
StartOrGoOn(c) ==
    /\ req[c].pc = "start"
    /\ LET s == Head(req[c].todo)
       IN \/ /\ \E i \in Named(s) : SetState(i, "running")
             /\ req' = [req EXCEPT ![c].pc = "prepare", ![c].todo = Tail(@),
                                   ![c].started = @ \cup {s}]
          \/ /\ req' = [req EXCEPT ![c].pc = "prepare", ![c].todo = Tail(@)]
             /\ UNCHANGED box
    /\ UNCHANGED nets

(* The container is started by its name: the one that has it now. *)
Start(c) ==
    /\ req[c].pc = "start"
    /\ LET s == Head(req[c].todo)
       IN /\ \E i \in Named(s) : SetState(i, "running")
          /\ req' = [req EXCEPT ![c].pc = "prepare", ![c].todo = Tail(@),
                                ![c].started = @ \cup {s}]
    /\ UNCHANGED nets

OrdersServices(c) == OrderServices(c) \/ VisitNext(c) \/ VisitReturns(c) \/ SearchReturns(c)
Deploy(c) == EnsureNetwork(c) \/ OrdersServices(c) \/ Prepare(c) \/ Create(c) \/ Start(c)

-----------------------------------------------------------------------------
(* actOnServices: the containers, whatever their state, by their labels.   *)

(* A list of the containers that run. *)
ListRunning(c) ==
    /\ req[c].pc = "list"
    /\ LET found == {i \in Of(req[c].target) : box[i].state = "running"}
       IN found # {} /\ req' = [req EXCEPT ![c].pc = "act", ![c].left = found]
    /\ UNCHANGED hostVars

List(c) ==
    /\ req[c].pc = "list"
    /\ Of(req[c].target) # {}
    /\ req' = [req EXCEPT ![c].pc = "act", ![c].left = Of(req[c].target)]
    /\ UNCHANGED hostVars

ActsLeft(c, i) ==
    LET rest == req[c].left \ {i}
    IN [req[c] EXCEPT !.left = rest, !.at = 0, !.pc = IF rest = {} THEN "ok" ELSE "act"]

StopOne(c, i) ==
    /\ req[c].op = "stop" /\ Exists(i)
    /\ SetState(i, IF box[i].state = "running" THEN "exited" ELSE box[i].state)
    /\ Becomes(c, ActsLeft(c, i))

StartOne(c, i) ==
    /\ req[c].op \in {"start", "restart"} /\ Exists(i)
    /\ SetState(i, "running")
    /\ Becomes(c, ActsLeft(c, i))

(* The stop before a removal may find nothing, or fail: the container is   *)
(* removed all the same.                                                   *)
StopToRemove(c, i) ==
    /\ req[c].op = "remove"
    /\ \/ box[i].state = "running" /\ SetState(i, "exited")
       \/ UNCHANGED box
    /\ req' = [req EXCEPT ![c].pc = "rm", ![c].at = i]

RemoveOne(c) ==
    /\ req[c].pc = "rm" /\ Exists(req[c].at)
    /\ SetState(req[c].at, "gone")
    /\ Becomes(c, ActsLeft(c, req[c].at))
    /\ UNCHANGED nets

Act(c) ==
    /\ req[c].pc = "act"
    /\ \E i \in req[c].left : StopOne(c, i) \/ StartOne(c, i) \/ StopToRemove(c, i)
    /\ UNCHANGED nets

Fail(c) == req[c].pc \in Working /\ FailsAt(c)

Request(c) == Ask(c) \/ Answer(c) \/ Deploy(c) \/ List(c) \/ Act(c) \/ RemoveOne(c) \/ Fail(c)
=============================================================================
