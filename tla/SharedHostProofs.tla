--------------------------- MODULE SharedHostProofs --------------------------
(***************************************************************************)
(* Sessions and requests on one host, for every number of services,        *)
(* clients, containers, sessions and requests, every application and every *)
(* call that fails.                                                        *)
(***************************************************************************)
EXTENDS SharedHost, FiniteSetTheorems, SequenceTheorems, TLAPS

-----------------------------------------------------------------------------
(* Identifiers and keys *)

(* The least of some identifiers is one of them. *)
LEMMA LeastIsOne ==
    ASSUME NEW S \in SUBSET Nat, S # {}
    PROVE  Least(S) \in S
  <1>1. \E x \in S : \A y \in S : ~(<<y, x>> \in OpToRel(<, Nat))
    BY NatLessThanWellFounded, WFMin
  <1>2. PICK x \in S : \A y \in S : ~(<<y, x>> \in OpToRel(<, Nat))
    BY <1>1
  <1>3. ASSUME NEW y \in S
        PROVE  x <= y
    <2>1. ~(y < x)
      BY <1>2 DEF OpToRel
    <2>2. QED
      BY <2>1
  <1>4. QED
    BY <1>3 DEF Least

(* No service has two keys. *)
LEMMA KeysDiffer ==
    /\ Len(Keys) \in Nat /\ DOMAIN Keys = 1..Len(Keys)
    /\ \A i \in DOMAIN Keys : Keys[i] \in Services
    /\ \A i, j \in DOMAIN Keys : Keys[i] = Keys[j] => i = j
  <1>1. /\ Len(Keys) \in Nat /\ DOMAIN Keys = 1..Len(Keys)
        /\ Keys \in [1..Len(Keys) -> Services]
        /\ \A s \in Services : \E i \in 1..Len(Keys) : Keys[i] = s
    <2>1. Keys \in Seq(Services) /\ {Keys[i] : i \in DOMAIN Keys} = Services
      BY RequestsAssumption
    <2>2. Len(Keys) \in Nat /\ DOMAIN Keys = 1..Len(Keys) /\ Keys \in [1..Len(Keys) -> Services]
      BY <2>1, LenProperties
    <2>3. QED
      BY <2>1, <2>2
  <1>2. Keys \in Surjection(1..Len(Keys), Services)
    BY <1>1 DEF Surjection
  <1>3. IsFiniteSet(1..Len(Keys)) /\ Cardinality(1..Len(Keys)) = Len(Keys)
    BY <1>1, FS_Interval
  <1>4. Cardinality(Services) = Len(Keys)
    BY RequestsAssumption
  <1>5. Keys \in Injection(1..Len(Keys), Services)
    BY <1>2, <1>3, <1>4, FS_Surjection
  <1>6. QED
    BY <1>1, <1>5 DEF Injection, IsInjective

-----------------------------------------------------------------------------
(* How the host changes *)

BoxTypes ==
    /\ box \in [Ids -> [svc : Services, name : Services \cup {Nameless},
                        state : Present \cup {"unused", "gone"}]]
    /\ \A i, j \in Ids :
         i # j /\ box[i].state \in Present /\ box[j].state \in Present
           /\ box[i].name = box[j].name => box[i].name = Nameless

(* One container changes its state, ... *)
Sets(i, st) ==
    /\ i \in Ids /\ Exists(i)
    /\ \A j \in Ids : /\ box'[j].svc = box[j].svc /\ box'[j].name = box[j].name
                      /\ box'[j].state = IF j = i THEN st ELSE box[j].state

(* ... one is made, ... *)
Makes(k, s, name) ==
    /\ k \in Unused /\ \A j \in Ids \ {k} : box'[j] = box[j]
    /\ box'[k] = [svc |-> s, name |-> name, state |-> "created"]

(* ... or one is named. *)
Names(k, name) ==
    /\ k \in Ids /\ Exists(k)
    /\ \A j \in Ids : /\ box'[j].svc = box[j].svc /\ box'[j].state = box[j].state
                      /\ box'[j].name = IF j = k THEN name ELSE box[j].name

(* A change of state sets one container, and names stay unique. *)
LEMMA SetSets ==
    ASSUME BoxTypes, NEW i \in Ids, Exists(i), NEW st \in Present \cup {"gone"}, SetState(i, st)
    PROVE  BoxTypes' /\ Sets(i, st)
  <1>1. \A j \in Ids : box'[j] = IF j = i THEN [box[i] EXCEPT !.state = st] ELSE box[j]
    BY DEF SetState, BoxTypes
  <1>2. Sets(i, st)
    BY <1>1 DEF Sets, BoxTypes
  <1>3. \A j \in Ids : /\ box'[j].name = box[j].name
                       /\ box'[j].state \in Present => box[j].state \in Present
    BY <1>2 DEF Sets, Exists
  <1>4. box' \in [Ids -> [svc : Services, name : Services \cup {Nameless},
                          state : Present \cup {"unused", "gone"}]]
    BY DEF SetState, BoxTypes
  <1>5. QED
    BY <1>2, <1>3, <1>4 DEF BoxTypes

(* A new container gets an identifier of its own, and a name nobody has,   *)
(* or none.                                                                *)
LEMMA NewMakes ==
    ASSUME BoxTypes, NEW s \in Services, NEW name \in {s, Nameless}, name = Nameless \/ Named(name) = {},
           NewBox(s, name)
    PROVE  BoxTypes' /\ Makes(Least(Unused), s, name)
  <1> DEFINE k == Least(Unused)
  <1>1. k \in Unused /\ k \in Ids
    <2>1. Unused \in SUBSET Nat /\ Unused # {}
      BY DEF NewBox, Unused, Ids
    <2>2. QED
      BY <2>1, LeastIsOne DEF Unused
  <1>2. box' = [box EXCEPT ![k] = [svc |-> s, name |-> name, state |-> "created"]]
    BY DEF NewBox
  <1> HIDE DEF k
  <1>3. /\ \A j \in Ids \ {k} : box'[j] = box[j]
        /\ box'[k] = [svc |-> s, name |-> name, state |-> "created"]
    BY <1>1, <1>2 DEF BoxTypes
  <1>4. Makes(k, s, name)
    BY <1>1, <1>3 DEF Makes
  <1>5. box' \in [Ids -> [svc : Services, name : Services \cup {Nameless},
                          state : Present \cup {"unused", "gone"}]]
    BY <1>2 DEF BoxTypes, Present
  <1>6. ASSUME NEW i \in Ids, NEW j \in Ids, i # j, box'[i].state \in Present, box'[j].state \in Present,
               box'[i].name = box'[j].name, box'[i].name # Nameless
        PROVE  FALSE
    <2>1. \A l \in Ids : box[l].state \in Present => box[l].name # name \/ name = Nameless
      BY DEF Named, Exists
    <2>2. CASE i = k \/ j = k
      BY <1>3, <1>6, <2>1, <2>2
    <2>3. CASE i # k /\ j # k
      BY <1>3, <1>6, <2>3 DEF BoxTypes
    <2>4. QED
      BY <2>2, <2>3
  <1>7. QED
    BY <1>4, <1>5, <1>6 DEF BoxTypes, k

(* One that is given the name of another is the only one with it. *)
LEMMA RenameNames ==
    ASSUME BoxTypes, NEW k \in Ids, Exists(k), NEW name \in Services \cup {Nameless},
           name = Nameless \/ Named(name) = {}, box' = [box EXCEPT ![k].name = name]
    PROVE  BoxTypes' /\ Names(k, name)
  <1>1. \A j \in Ids : box'[j] = IF j = k THEN [box[k] EXCEPT !.name = name] ELSE box[j]
    BY DEF BoxTypes
  <1>2. Names(k, name)
    BY <1>1 DEF Names, BoxTypes
  <1>3. box' \in [Ids -> [svc : Services, name : Services \cup {Nameless},
                          state : Present \cup {"unused", "gone"}]]
    BY DEF BoxTypes
  <1>4. ASSUME NEW i \in Ids, NEW j \in Ids, i # j, box'[i].state \in Present, box'[j].state \in Present,
               box'[i].name = box'[j].name, box'[i].name # Nameless
        PROVE  FALSE
    <2>1. \A l \in Ids : box[l].state \in Present => box[l].name # name \/ name = Nameless
      BY DEF Named, Exists
    <2>2. /\ box[i].state \in Present /\ box[j].state \in Present
          /\ box'[i].name = IF i = k THEN name ELSE box[i].name
          /\ box'[j].name = IF j = k THEN name ELSE box[j].name
      BY <1>2, <1>4 DEF Names
    <2>3. QED
      BY <1>4, <2>1, <2>2 DEF BoxTypes
  <1>5. QED
    BY <1>2, <1>3, <1>4 DEF BoxTypes

-----------------------------------------------------------------------------
(* What is kept *)

(***************************************************************************)
(* What a session keeps of the containers it has seen, and of the one it   *)
(* makes instead.                                                          *)
(***************************************************************************)
Seen == found \cup taken \cup ({old} \ {0})

SeenInv ==
    /\ allowed = cfg.requests
    /\ session = "idle" => toList = {} /\ found = {} /\ wasUp = {}
    /\ session \in {"idle", "inspecting"} => taken = {}
    /\ old # 0 <=> session \in {"removing", "renaming", "booting", "clearing"}
    /\ \A i \in toList \cup Seen : box[i].state # "unused"
    /\ toList \cap wasUp = {}
    /\ new # 0 => box[new].state # "unused" /\ box[new].svc = box[old].svc

(* What a request has yet to do belongs to what it was asked for. *)
Deploying == {"networks", "order", "prepare", "create", "start"}
PlaceInv(c) ==
    /\ req[c].pc \in Deploying => req[c].op = "deploy"
    /\ req[c].pc \in {"list", "act"} => req[c].op # "deploy"
    /\ req[c].pc = "rm" => req[c].op = "remove" /\ req[c].at \in req[c].left

(* The services put in order wait for those before them in the order, or   *)
(* for those that have started, and for no others.                         *)
Before(c, i) == {req[c].todo[j] : j \in 1..(i-1)}
InOrder(c) ==
    \A i \in DOMAIN req[c].todo :
        /\ spec.deps[req[c].todo[i]] \cap Services \subseteq req[c].started \cup Before(c, i)
        /\ req[c].todo[i] \notin spec.deps[req[c].todo[i]]
SearchInv(c) ==
    /\ req[c].created = {} /\ InOrder(c)
    /\ \A i \in DOMAIN req[c].path : req[c].path[i] \notin Ordered(c)
    /\ \A i, j \in DOMAIN req[c].path : req[c].path[i] = req[c].path[j] => i = j
CreatesInv(c) ==
    /\ InOrder(c) /\ Services \subseteq req[c].started \cup Ordered(c)
    /\ req[c].pc \in {"create", "start"} => req[c].todo # <<>>
    /\ req[c].pc \in {"prepare", "create"} => req[c].created = req[c].started
    /\ req[c].pc = "start" => req[c].created = req[c].started \cup {Head(req[c].todo)}
DeployInv(c) ==
    /\ PlaceInv(c)
    /\ \A s \in req[c].created : spec.deps[s] \cap Services \subseteq req[c].started \ {s}
    /\ req[c].pc = "networks" => req[c].path = <<>> /\ req[c].todo = <<>> /\ req[c].created = {}
    /\ req[c].pc = "order" => SearchInv(c)
    /\ req[c].pc \in {"prepare", "create", "start"} => CreatesInv(c)
    /\ req[c].op = "deploy" /\ req[c].pc = "ok" => req[c].started = Services
    /\ \E x \in Services \cup {Unknown} : req[c].created \subseteq req[c].started \cup {x}

(* What a request has claimed to stop or remove and nobody has made since  *)
(* is among what it has left to act on, or done with.                      *)
ClaimInv(c) ==
    \A i \in Of(claims[c]) :
        /\ req[c].pc \in {"act", "rm"} /\ req[c].op = "remove" => i \in req[c].left
        /\ req[c].pc = "act" /\ req[c].op = "stop" /\ box[i].state = "running" => i \in req[c].left

(* What was removed or stopped for good is not in the hands of a session. *)
GoneInv ==
    /\ \A i \in Ids : Exists(i) => box[i].svc \notin removed
    /\ \A i \in Seen : box[i].svc \notin removed
DownInv ==
    /\ cfg.revive => stopped = {}
    /\ \A i \in Ids : box[i].state = "running" => box[i].svc \notin stopped
    /\ \A i \in Seen \cap wasUp : box[i].svc \notin stopped

(* Every container bears the name of its service, but for the one that is  *)
(* being made, as long as none was left behind.                            *)
NameInv ==
    ~orphaned =>
        /\ \A i \in Ids : Exists(i) /\ (i = new => session = "booting") => box[i].name = box[i].svc
        /\ \A i \in Seen : box[i].name = box[i].svc

-----------------------------------------------------------------------------
(* How a request goes on *)

(* The request of one client changes, those of the others wait. *)
Waits(c) == req' \in [Clients -> RequestSet] /\ \A d \in Clients : d # c => req'[d] = req[d]

Sound(c) ==
    /\ req[c].started \subseteq req[c].created /\ req[c].asked <= allowed[c]
    /\ DeployInv(c)

(* What the type invariant says of the parts the proofs look at. *)
LEMMA TypesAre ==
    ASSUME TypeOK, SeenInv
    PROVE  /\ BoxTypes /\ req \in [Clients -> RequestSet] /\ cfg \in Cases /\ spec = cfg.spec
           /\ spec.deps \in [Services -> SUBSET (Services \cup {Unknown})] /\ spec.needs \subseteq Networks
           /\ allowed \in [Clients -> Nat] /\ cfg.rolling \in BOOLEAN
           /\ \A c \in Clients : req[c] \in RequestSet
  BY RequestsAssumption, HostAssumption DEF TypeOK, RequestsTypeOK, BoxTypes, SeenInv

(* A client's request changes, and no other. *)
LEMMA OneRequest ==
    ASSUME TypeOK, SeenInv, NEW c \in Clients, NEW r \in RequestSet, req' = [req EXCEPT ![c] = r]
    PROVE  Waits(c) /\ req'[c] = r
  BY TypesAre DEF Waits

(* A request that begins, or that has been answered. *)
Blank(r) ==
    /\ r \in RequestSet /\ r.pc \in {"idle", "networks", "list"}
    /\ r.path = <<>> /\ r.todo = <<>> /\ r.created = {} /\ r.started = {}
    /\ r.pc = "networks" => r.op = "deploy"
    /\ r.pc = "list" => r.op # "deploy"

(* A request that has just been made has done nothing. *)
LEMMA BlankIs ==
    ASSUME NEW op \in Ops, NEW pc \in {"idle", "networks", "list"}, NEW T \in SUBSET Services,
           NEW N \in SUBSET Networks, NEW n \in Nat, pc = "networks" => op = "deploy",
           pc = "list" => op # "deploy"
    PROVE  Blank(NewRequest(op, pc, T, N, n)) /\ NewRequest(op, pc, T, N, n).asked = n
  <1>1. NewRequest(op, pc, T, N, n) \in RequestSet
    BY RequestsAssumption DEF NewRequest, RequestSet, Working
  <1>2. QED
    BY <1>1 DEF NewRequest, Blank

(* A request begins, or is answered. *)
LEMMA AskSound ==
    ASSUME TypeOK, SeenInv, NEW c \in Clients, Ask(c) \/ Answer(c), UNCHANGED <<spec, allowed>>
    PROVE  Waits(c) /\ Sound(c)' /\ req'[c].pc \in {"idle", "networks", "list"}
  <1>1. /\ req[c].asked \in Nat /\ allowed[c] \in Nat /\ req[c].asked <= allowed[c]
        /\ spec.needs \subseteq Networks
    BY TypesAre DEF TypeOK, RequestsTypeOK, RequestSet
  <1>2. \E r : Blank(r) /\ r.asked <= allowed[c] /\ req' = [req EXCEPT ![c] = r]
    <2>1. CASE Answer(c)
      <3> DEFINE r == NewRequest("stop", "idle", {}, {}, req[c].asked)
      <3>1. Blank(r) /\ r.asked = req[c].asked
        <4>1. "stop" \in Ops
          BY DEF Ops
        <4>2. QED
          BY <1>1, <4>1, BlankIs
      <3>2. req' = [req EXCEPT ![c] = r]
        BY <2>1 DEF Answer, Becomes, NoRequest
      <3> HIDE DEF r
      <3>3. QED
        BY <1>1, <3>1, <3>2
    <2>2. CASE Ask(c)
      <3>1. req[c].asked + 1 \in Nat /\ req[c].asked + 1 <= allowed[c]
        <4>1. req[c].asked < allowed[c]
          BY <2>2 DEF Ask
        <4>2. QED
          BY <1>1, <4>1
      <3>2. CASE Becomes(c, NewRequest("deploy", "networks", Services, spec.needs, req[c].asked + 1))
        <4> DEFINE r == NewRequest("deploy", "networks", Services, spec.needs, req[c].asked + 1)
        <4>1. Blank(r) /\ r.asked = req[c].asked + 1
          <5>1. "deploy" \in Ops
            BY DEF Ops
          <5>2. QED
            BY <1>1, <3>1, <5>1, BlankIs
        <4>2. req' = [req EXCEPT ![c] = r]
          BY <3>2 DEF Becomes
        <4> HIDE DEF r
        <4>3. QED
          BY <3>1, <4>1, <4>2
      <3>3. ASSUME NEW op \in Ops \ {"deploy"}, NEW T \in {Services} \cup {{s} : s \in Services},
                   Becomes(c, NewRequest(op, "list", T, {}, req[c].asked + 1))
            PROVE  \E r : Blank(r) /\ r.asked <= allowed[c] /\ req' = [req EXCEPT ![c] = r]
        <4> DEFINE r == NewRequest(op, "list", T, {}, req[c].asked + 1)
        <4>1. Blank(r) /\ r.asked = req[c].asked + 1
          <5>1. T \in SUBSET Services
            OBVIOUS
          <5>2. QED
            BY <3>1, <3>3, <5>1, BlankIs
        <4>2. req' = [req EXCEPT ![c] = r]
          BY <3>3 DEF Becomes
        <4> HIDE DEF r
        <4>3. QED
          BY <3>1, <4>1, <4>2
      <3>4. QED
        BY <2>2, <3>2, <3>3 DEF Ask
    <2>3. QED
      BY <2>1, <2>2
  <1>3. PICK r : Blank(r) /\ r.asked <= allowed[c] /\ req' = [req EXCEPT ![c] = r]
    BY <1>2
  <1>4. Waits(c) /\ req'[c] = r
    BY <1>3, OneRequest DEF Blank
  <1>5. QED
    BY <1>3, <1>4 DEF Sound, Blank, DeployInv, PlaceInv, Deploying

(* What a deployment has done and ordered stays as it is. *)
SameWork(c) == /\ req'[c].op = req[c].op /\ req'[c].path = req[c].path /\ req'[c].todo = req[c].todo
               /\ req'[c].created = req[c].created /\ req'[c].started = req[c].started
               /\ req'[c].asked = req[c].asked

(* A request that only goes to its next place keeps all it has done. *)
LEMMA GoesOn ==
    ASSUME TypeOK, SeenInv, NEW c \in Clients, NEW pc \in Working \cup Answers \cup {"idle", "order"},
           Goes(c, pc)
    PROVE  Waits(c) /\ SameWork(c) /\ req'[c] = [req[c] EXCEPT !.pc = pc] /\ req'[c].pc = pc
  <1>1. req[c] \in RequestSet /\ req' = [req EXCEPT ![c] = [req[c] EXCEPT !.pc = pc]]
    BY TypesAre DEF Goes
  <1>2. [req[c] EXCEPT !.pc = pc] \in RequestSet
    BY <1>1 DEF RequestSet
  <1>3. Waits(c) /\ req'[c] = [req[c] EXCEPT !.pc = pc]
    BY <1>1, <1>2, OneRequest
  <1>4. QED
    BY <1>1, <1>3 DEF SameWork, RequestSet

(* ... and with it the order it has found. *)
LEMMA SameSearch ==
    ASSUME NEW c \in Clients, SameWork(c), UNCHANGED spec
    PROVE  /\ Ordered(c)' = Ordered(c) /\ InOrder(c)' = InOrder(c)
           /\ SearchInv(c)' = SearchInv(c)
  BY DEF SameWork, Ordered, InOrder, Before, SearchInv

(* The networks come first, and leave nothing to the search. *)
LEMMA NetworksSound ==
    ASSUME TypeOK, SeenInv, NEW c \in Clients, Sound(c), UNCHANGED <<spec, allowed>>,
           EnsureNetwork(c) \/ OrderServices(c)
    PROVE  Waits(c) /\ Sound(c)'
  <1>1. /\ req[c].op = "deploy" /\ req[c].path = <<>> /\ req[c].todo = <<>> /\ req[c].created = {}
        /\ req[c].started = {} /\ req[c].asked <= allowed[c] /\ req[c] \in RequestSet
    BY TypesAre DEF EnsureNetwork, OrderServices, Sound, DeployInv, PlaceInv, Deploying
  <1>2. CASE EnsureNetwork(c)
    <2>1. PICK n \in req[c].nets : req' = [req EXCEPT ![c] = [req[c] EXCEPT !.nets = req[c].nets \ {n}]]
      BY <1>2, TypesAre DEF EnsureNetwork
    <2>2. [req[c] EXCEPT !.nets = req[c].nets \ {n}] \in RequestSet
      BY <1>1 DEF RequestSet
    <2>3. Waits(c) /\ req'[c] = [req[c] EXCEPT !.nets = req[c].nets \ {n}]
      BY <2>1, <2>2, OneRequest
    <2>4. /\ req'[c].pc = "networks" /\ req'[c].op = "deploy" /\ req'[c].created = {}
          /\ req'[c].started = {} /\ req'[c].path = <<>> /\ req'[c].todo = <<>>
          /\ req'[c].asked = req[c].asked
      BY <1>1, <1>2, <2>3 DEF EnsureNetwork, RequestSet
    <2>5. QED
      BY <1>1, <2>3, <2>4 DEF Sound, DeployInv, PlaceInv, Deploying
  <1>3. CASE OrderServices(c)
    <2>1. Waits(c) /\ SameWork(c) /\ req'[c].pc = "order"
      BY <1>3, GoesOn DEF OrderServices
    <2>2. SearchInv(c)'
      BY <1>1, <2>1 DEF SameWork, SearchInv, InOrder
    <2>3. QED
      BY <1>1, <2>1, <2>2 DEF SameWork, Sound, DeployInv, PlaceInv, Deploying
  <1>4. QED
    BY <1>2, <1>3

(* A call that fails ends the request. *)
LEMMA FailSound ==
    ASSUME TypeOK, SeenInv, NEW c \in Clients, Sound(c), UNCHANGED <<spec, allowed>>, Goes(c, "failed")
    PROVE  Waits(c) /\ Sound(c)'
  <1>1. Waits(c) /\ SameWork(c) /\ req'[c].pc = "failed"
    BY GoesOn DEF Answers
  <1>2. QED
    BY <1>1 DEF SameWork, Sound, DeployInv, PlaceInv, Deploying

(* The search has put every service in order when it ends. *)
LEMMA SearchReturnsSound ==
    ASSUME TypeOK, SeenInv, NEW c \in Clients, Sound(c), UNCHANGED <<spec, allowed>>, SearchReturns(c)
    PROVE  Waits(c) /\ Sound(c)'
  <1>1. Waits(c) /\ SameWork(c) /\ req'[c].pc = "prepare"
    BY GoesOn DEF SearchReturns, Working
  <1>2. /\ req[c].op = "deploy" /\ SearchInv(c) /\ Services \subseteq Ordered(c)
    BY DEF SearchReturns, Sound, DeployInv, PlaceInv, Deploying
  <1>3. CreatesInv(c)'
    BY <1>1, <1>2, SameSearch DEF SameWork, CreatesInv, SearchInv, Sound
  <1>4. QED
    BY <1>1, <1>2, <1>3 DEF SameWork, Sound, DeployInv, PlaceInv, Deploying

(* A service is prepared when the ones before it have started. *)
LEMMA PrepareSound ==
    ASSUME TypeOK, SeenInv, NEW c \in Clients, Sound(c), UNCHANGED <<spec, allowed>>, Prepare(c)
    PROVE  Waits(c) /\ Sound(c)'
  <1>1. req[c].op = "deploy" /\ CreatesInv(c) /\ req[c].pc = "prepare" /\ req[c] \in RequestSet
    BY TypesAre DEF Prepare, Sound, DeployInv, PlaceInv, Deploying
  <1>2. CASE req[c].todo = <<>>
    <2>1. Waits(c) /\ SameWork(c) /\ req'[c].pc = "ok"
      BY <1>2, GoesOn DEF Prepare, Answers
    <2>2. Ordered(c) = {}
      BY <1>2 DEF Ordered
    <2>3. req[c].started = Services
      BY <1>1, <2>2 DEF CreatesInv, RequestSet
    <2>4. QED
      BY <1>1, <2>1, <2>3 DEF SameWork, Sound, DeployInv, PlaceInv, Deploying
  <1>3. CASE req[c].todo # <<>>
    <2>1. Waits(c) /\ SameWork(c) /\ req'[c].pc = "create"
      BY <1>3, GoesOn DEF Prepare, Working
    <2>2. CreatesInv(c)'
      BY <1>1, <1>3, <2>1, SameSearch DEF SameWork, CreatesInv
    <2>3. QED
      BY <1>1, <2>1, <2>2 DEF SameWork, Sound, DeployInv, PlaceInv, Deploying
  <1>4. QED
    BY <1>2, <1>3

(* An element put before the others moves each of them by one. *)
LEMMA EnterIs ==
    ASSUME NEW S, NEW s \in S, NEW p \in Seq(S), NEW q, q = <<s>> \o p
    PROVE  /\ q \in Seq(S) /\ q[1] = s /\ \A i \in DOMAIN q : i = 1 \/ (i - 1 \in DOMAIN p /\ q[i] = p[i - 1])
  OBVIOUS

(* The search enters a service that it neither is inside of nor has put in *)
(* order, or it has come in a circle.                                      *)
LEMMA VisitNextSound ==
    ASSUME TypeOK, SeenInv, NEW c \in Clients, Sound(c), UNCHANGED <<spec, allowed>>, VisitNext(c)
    PROVE  Waits(c) /\ Sound(c)'
  <1>1. req[c].op = "deploy" /\ SearchInv(c) /\ req[c] \in RequestSet /\ req[c].pc = "order"
    BY TypesAre DEF VisitNext, Sound, DeployInv, PlaceInv, Deploying
  <1>2. CASE Goes(c, "failed")
    BY <1>2, FailSound
  <1>3. ASSUME NEW s \in Services \ Ordered(c), s \notin InsideOf(c),
               req' = [req EXCEPT ![c] = [req[c] EXCEPT !.path = <<s>> \o req[c].path]]
        PROVE  Waits(c) /\ Sound(c)'
    <2> DEFINE q == <<s>> \o req[c].path
    <2>1. req[c].path \in Seq(Services)
      BY <1>1 DEF RequestSet
    <2>2. /\ q \in Seq(Services) /\ q[1] = s
          /\ \A i \in DOMAIN q : i = 1 \/ (i - 1 \in DOMAIN req[c].path /\ q[i] = req[c].path[i - 1])
      BY <2>1, EnterIs
    <2>3. req' = [req EXCEPT ![c] = [req[c] EXCEPT !.path = q]]
      BY <1>3
    <2> HIDE DEF q
    <2>4. [req[c] EXCEPT !.path = q] \in RequestSet
      BY <1>1, <2>2 DEF RequestSet
    <2>5. Waits(c) /\ req'[c] = [req[c] EXCEPT !.path = q]
      BY <2>3, <2>4, OneRequest
    <2>6. /\ req'[c].op = "deploy" /\ req'[c].pc = "order" /\ req'[c].path = q /\ req'[c].todo = req[c].todo
          /\ req'[c].created = req[c].created /\ req'[c].started = req[c].started
          /\ req'[c].asked = req[c].asked
      BY <1>1, <2>5 DEF RequestSet
    <2>7. Ordered(c)' = Ordered(c) /\ InOrder(c)'
      BY <1>1, <2>6 DEF Ordered, InOrder, Before, SearchInv
    <2>8. \A i \in DOMAIN q : q[i] \notin Ordered(c)
      BY <1>1, <1>3, <2>2 DEF SearchInv
    <2>9. \A i, j \in DOMAIN q : q[i] = q[j] => i = j
      <3>1. \A i \in DOMAIN req[c].path : req[c].path[i] # s
        BY <1>3 DEF InsideOf
      <3>2. \A i, j \in DOMAIN req[c].path : req[c].path[i] = req[c].path[j] => i = j
        BY <1>1 DEF SearchInv
      <3>3. \A i \in DOMAIN q : i \in Nat
        BY <2>2
      <3>4. QED
        BY <2>2, <3>1, <3>2, <3>3
    <2>10. SearchInv(c)'
      BY <1>1, <2>6, <2>7, <2>8, <2>9 DEF SearchInv
    <2>11. QED
      BY <1>1, <2>5, <2>6, <2>10 DEF Sound, DeployInv, PlaceInv, Deploying
  <1>4. QED
    BY <1>2, <1>3 DEF VisitNext

(* A service leaves the path and is put behind the others in order. *)
LEMMA ReturnIs ==
    ASSUME NEW S, NEW p \in Seq(S), p # <<>>, NEW t \in Seq(S)
    PROVE  /\ Head(p) = p[1] /\ Head(p) \in S /\ 1 \in DOMAIN p /\ Tail(p) \in Seq(S)
           /\ \A i \in DOMAIN Tail(p) : i \in Nat /\ i # 0 /\ i + 1 \in DOMAIN p /\ Tail(p)[i] = p[i + 1]
           /\ Append(t, Head(p)) \in Seq(S) /\ Len(t) \in Nat
           /\ \A i \in DOMAIN t : i \in 1..Len(t) /\ Append(t, Head(p))[i] = t[i]
           /\ \A i \in DOMAIN Append(t, Head(p)) : i \in DOMAIN t \/ i = Len(t) + 1
           /\ Append(t, Head(p))[Len(t) + 1] = Head(p)
           /\ \A i \in DOMAIN t : i \in DOMAIN Append(t, Head(p))
           /\ \A i \in 1..Len(t) : i \in DOMAIN t
  <1>1. /\ Head(p) = p[1] /\ Head(p) \in S /\ 1 \in DOMAIN p /\ Tail(p) \in Seq(S)
        /\ \A i \in DOMAIN Tail(p) : i \in Nat /\ i # 0 /\ i + 1 \in DOMAIN p /\ Tail(p)[i] = p[i + 1]
    OBVIOUS
  <1> DEFINE x == Head(p)
  <1>2. x \in S
    BY <1>1
  <1> HIDE DEF x
  <1>3. /\ Append(t, x) \in Seq(S) /\ Len(t) \in Nat
        /\ \A i \in DOMAIN t : i \in 1..Len(t) /\ Append(t, x)[i] = t[i]
        /\ \A i \in DOMAIN Append(t, x) : i \in DOMAIN t \/ i = Len(t) + 1
        /\ Append(t, x)[Len(t) + 1] = x
        /\ \A i \in DOMAIN t : i \in DOMAIN Append(t, x)
        /\ \A i \in 1..Len(t) : i \in DOMAIN t
    BY <1>2
  <1>4. QED
    BY <1>1, <1>3 DEF x

(* What a service depends on is before it in the order, and it is not      *)
(* itself.                                                                 *)
LEMMA VisitReturnsSound ==
    ASSUME TypeOK, SeenInv, NEW c \in Clients, Sound(c), UNCHANGED <<spec, allowed>>, VisitReturns(c)
    PROVE  Waits(c) /\ Sound(c)'
  <1>1. req[c].op = "deploy" /\ SearchInv(c) /\ req[c] \in RequestSet /\ req[c].pc = "order"
    BY TypesAre DEF VisitReturns, Sound, DeployInv, PlaceInv, Deploying
  <1> DEFINE p == req[c].path
             t == req[c].todo
             s == Head(p)
             q == Tail(p)
             u == Append(t, s)
  <1>2. p \in Seq(Services) /\ t \in Seq(Services) /\ p # <<>>
    BY <1>1 DEF RequestSet, VisitReturns
  <1>3. /\ s = p[1] /\ s \in Services /\ 1 \in DOMAIN p /\ q \in Seq(Services)
        /\ \A i \in DOMAIN q : i \in Nat /\ i # 0 /\ i + 1 \in DOMAIN p /\ q[i] = p[i + 1]
        /\ u \in Seq(Services) /\ Len(t) \in Nat
        /\ \A i \in DOMAIN t : i \in 1..Len(t) /\ u[i] = t[i]
        /\ \A i \in DOMAIN u : i \in DOMAIN t \/ i = Len(t) + 1
        /\ u[Len(t) + 1] = s
        /\ \A i \in DOMAIN t : i \in DOMAIN u
        /\ \A i \in 1..Len(t) : i \in DOMAIN t
    BY <1>2, ReturnIs
  <1>4. spec.deps[s] \cap Services \subseteq Ordered(c)
    BY DEF VisitReturns
  <1>5. req' = [req EXCEPT ![c] = [req[c] EXCEPT !.path = q, !.todo = u]]
    BY TypesAre DEF VisitReturns
  <1> HIDE DEF s, q, u
  <1>6. [req[c] EXCEPT !.path = q, !.todo = u] \in RequestSet
    BY <1>1, <1>3 DEF RequestSet
  <1>7. Waits(c) /\ req'[c] = [req[c] EXCEPT !.path = q, !.todo = u]
    BY <1>5, <1>6, OneRequest
  <1>8. /\ req'[c].op = "deploy" /\ req'[c].pc = "order" /\ req'[c].path = q /\ req'[c].todo = u
        /\ req'[c].created = req[c].created /\ req'[c].started = req[c].started
        /\ req'[c].asked = req[c].asked
    BY <1>1, <1>7 DEF RequestSet
  <1>9. \A x : x \in Ordered(c)' => x \in Ordered(c) \/ x = s
    BY <1>3, <1>8 DEF Ordered
  <1>10. PICK n : n = Len(t) + 1
    OBVIOUS
  <1>11. /\ \A i \in DOMAIN t : Before(c, i)' = Before(c, i)
         /\ Before(c, n)' = Ordered(c)
    <2>1. ASSUME NEW i \in DOMAIN t
          PROVE  Before(c, i)' = Before(c, i)
      <3>1. \A j \in 1..(i-1) : u[j] = t[j]
        BY <1>3
      <3>2. QED
        BY <1>8, <3>1 DEF Before
    <2>2. Before(c, n)' = Ordered(c)
      <3>1. Before(c, n)' = {u[j] : j \in 1..(n-1)}
        BY <1>8 DEF Before
      <3>2. Ordered(c) = {t[j] : j \in DOMAIN t}
        BY DEF Ordered
      <3>3. n - 1 = Len(t)
        BY <1>3, <1>10
      <3>4. QED
        BY <1>3, <3>1, <3>2, <3>3
    <2>3. QED
      BY <2>1, <2>2
  <1>12. s \notin Ordered(c)
    BY <1>1, <1>3 DEF SearchInv
  <1>13. InOrder(c)'
    <2>1. ASSUME NEW i \in DOMAIN u
          PROVE  /\ spec.deps[u[i]] \cap Services \subseteq req[c].started \cup Before(c, i)'
                 /\ u[i] \notin spec.deps[u[i]]
      <3>1. CASE i \in DOMAIN t
        BY <1>1, <1>3, <1>11, <3>1 DEF SearchInv, InOrder
      <3>2. CASE i = Len(t) + 1
        BY <1>3, <1>4, <1>10, <1>11, <1>12, <3>2
      <3>3. QED
        BY <1>3, <3>1, <3>2
    <2>2. QED
      BY <1>8, <2>1 DEF InOrder
  <1>14. \A i \in DOMAIN q : q[i] \notin Ordered(c)'
    <2>1. ASSUME NEW i \in DOMAIN q
          PROVE  q[i] \notin Ordered(c) /\ q[i] # s
      <3>1. i + 1 \in DOMAIN p /\ q[i] = p[i + 1] /\ i + 1 # 1
        BY <1>3
      <3>2. QED
        BY <1>1, <1>3, <3>1 DEF SearchInv
    <2>2. QED
      BY <1>9, <2>1
  <1>15. \A i, j \in DOMAIN q : q[i] = q[j] => i = j
    <2>1. \A i, j \in DOMAIN p : p[i] = p[j] => i = j
      BY <1>1 DEF SearchInv
    <2>2. ASSUME NEW i \in DOMAIN q, NEW j \in DOMAIN q, q[i] = q[j]
          PROVE  i = j
      <3>1. i + 1 = j + 1
        BY <1>3, <2>1, <2>2
      <3>2. QED
        BY <1>3, <3>1
    <2>3. QED
      BY <2>2
  <1>16. SearchInv(c)'
    BY <1>1, <1>8, <1>13, <1>14, <1>15 DEF SearchInv
  <1>17. QED
    BY <1>1, <1>7, <1>8, <1>16 DEF Sound, DeployInv, PlaceInv, Deploying

(* A service is created when those before it in the order have started. *)
LEMMA CreateSound ==
    ASSUME TypeOK, SeenInv, NEW c \in Clients, Sound(c), UNCHANGED <<spec, allowed>>, Create(c)
    PROVE  Waits(c) /\ Sound(c)'
  <1>1. /\ req[c].op = "deploy" /\ CreatesInv(c) /\ req[c].pc = "create" /\ req[c] \in RequestSet
        /\ req[c].started \subseteq req[c].created
    BY TypesAre DEF Create, Sound, DeployInv, PlaceInv, Deploying
  <1> DEFINE s == Head(req[c].todo)
             r == [req[c] EXCEPT !.pc = "start", !.created = req[c].created \cup {s}]
  <1>2. req[c].todo # <<>> /\ req[c].todo \in Seq(Services) /\ req[c].created = req[c].started
    BY <1>1 DEF CreatesInv, RequestSet
  <1>3. s = req[c].todo[1] /\ s \in Services /\ 1 \in DOMAIN req[c].todo
    BY <1>2
  <1>4. spec.deps[s] \cap Services \subseteq req[c].started /\ s \notin spec.deps[s]
    <2>1. Before(c, 1) = {}
      BY DEF Before
    <2>2. QED
      BY <1>1, <1>3, <2>1 DEF CreatesInv, InOrder
  <1>5. req' = [req EXCEPT ![c] = r]
    BY TypesAre DEF Create
  <1>6. r \in RequestSet
    BY <1>1, <1>3 DEF RequestSet, Working
  <1>7. Waits(c) /\ req'[c] = r
    BY <1>5, <1>6, OneRequest
  <1>8. /\ req'[c].op = "deploy" /\ req'[c].pc = "start" /\ req'[c].path = req[c].path
        /\ req'[c].todo = req[c].todo /\ req'[c].created = req[c].created \cup {s}
        /\ req'[c].started = req[c].started /\ req'[c].asked = req[c].asked
    BY <1>1, <1>7 DEF RequestSet
  <1>9. CreatesInv(c)'
    <2>1. Ordered(c)' = Ordered(c) /\ InOrder(c)'
      BY <1>1, <1>8 DEF CreatesInv, Ordered, InOrder, Before
    <2>2. QED
      BY <1>1, <1>2, <1>8, <2>1 DEF CreatesInv
  <1>10. \A x \in req'[c].created : spec.deps[x] \cap Services \subseteq req[c].started \ {x}
    BY <1>4, <1>8 DEF Sound, DeployInv
  <1>11. req'[c].created \subseteq req'[c].started \cup {s}
    BY <1>2, <1>8
  <1> HIDE DEF s
  <1>12. QED
    BY <1>1, <1>3, <1>7, <1>8, <1>9, <1>10, <1>11 DEF Sound, DeployInv, PlaceInv, Deploying

(* A service that has started gives way to the next in the order. *)
LEMMA StartSound ==
    ASSUME TypeOK, SeenInv, NEW c \in Clients, Sound(c), UNCHANGED <<spec, allowed>>, Start(c)
    PROVE  Waits(c) /\ Sound(c)'
  <1>1. /\ req[c].op = "deploy" /\ CreatesInv(c) /\ req[c].pc = "start" /\ req[c] \in RequestSet
        /\ req[c].started \subseteq req[c].created
    BY TypesAre DEF Start, Sound, DeployInv, PlaceInv, Deploying
  <1> DEFINE t == req[c].todo
             s == Head(t)
             u == Tail(t)
             r == [req[c] EXCEPT !.pc = "prepare", !.todo = u, !.started = req[c].started \cup {s}]
  <1>2. /\ t # <<>> /\ t \in Seq(Services) /\ InOrder(c) /\ Services \subseteq req[c].started \cup Ordered(c)
        /\ req[c].created = req[c].started \cup {s}
    BY <1>1 DEF CreatesInv, RequestSet
  <1>3. /\ s = t[1] /\ s \in Services /\ 1 \in DOMAIN t /\ u \in Seq(Services)
        /\ \A i \in DOMAIN u : i \in Nat /\ i # 0 /\ i + 1 \in DOMAIN t /\ u[i] = t[i + 1]
    BY <1>2, ReturnIs
  <1>4. \A i \in DOMAIN t : i = 1 \/ (i - 1 \in DOMAIN u /\ u[i - 1] = t[i])
    BY <1>2
  <1>5. req' = [req EXCEPT ![c] = r]
    BY TypesAre DEF Start
  <1>6. \A x \in req[c].created : spec.deps[x] \cap Services \subseteq req[c].started \ {x}
    BY DEF Sound, DeployInv
  <1>7. PICK x \in Services : x = s
    BY <1>3
  <1> HIDE DEF s, u
  <1>8. r \in RequestSet
    BY <1>1, <1>3 DEF RequestSet, Working
  <1>9. Waits(c) /\ req'[c] = r
    BY <1>5, <1>8, OneRequest
  <1>10. /\ req'[c].op = "deploy" /\ req'[c].pc = "prepare" /\ req'[c].path = req[c].path
        /\ req'[c].todo = u /\ req'[c].created = req[c].created
        /\ req'[c].started = req[c].started \cup {s} /\ req'[c].asked = req[c].asked
    BY <1>1, <1>9 DEF RequestSet
  <1>11. req[c].created = req'[c].started
    BY <1>2, <1>10
  <1>12. Services \subseteq req'[c].started \cup Ordered(c)'
    <2>1. ASSUME NEW y \in Services, y \notin req[c].started, y # s
          PROVE  \E i \in DOMAIN u : u[i] = y
      <3>1. PICK i \in DOMAIN t : t[i] = y
        BY <1>2, <2>1 DEF Ordered
      <3>2. i # 1
        BY <1>3, <2>1, <3>1
      <3>3. QED
        BY <1>4, <3>1, <3>2
    <2>2. QED
      BY <1>10, <2>1 DEF Ordered
  <1>13. InOrder(c)'
    <2>1. ASSUME NEW i \in DOMAIN u
          PROVE  /\ spec.deps[u[i]] \cap Services \subseteq req'[c].started \cup Before(c, i)'
                 /\ u[i] \notin spec.deps[u[i]]
      <3>1. i + 1 \in DOMAIN t /\ u[i] = t[i + 1] /\ i \in Nat
        BY <1>3
      <3>2. /\ spec.deps[u[i]] \cap Services \subseteq req[c].started \cup Before(c, i + 1)
            /\ u[i] \notin spec.deps[u[i]]
        BY <1>2, <3>1 DEF InOrder
      <3>3. ASSUME NEW y \in Before(c, i + 1)
            PROVE  y = s \/ y \in Before(c, i)'
        <4>1. PICK j \in 1..i : y = t[j]
          BY <3>1 DEF Before
        <4>2. j = 1 \/ (j - 1 \in 1..(i-1) /\ u[j - 1] = t[j])
          <5>1. i + 1 \in 1..Len(t)
            BY <1>2, <3>1
          <5>2. j \in DOMAIN t
            BY <1>2, <3>1, <5>1
          <5>3. QED
            BY <1>4, <3>1, <5>2
        <4>3. QED
          BY <1>3, <1>10, <4>1, <4>2 DEF Before
      <3>4. QED
        BY <1>10, <3>2, <3>3
    <2>2. QED
      BY <1>10, <2>1 DEF InOrder
  <1>14. CreatesInv(c)'
    BY <1>10, <1>11, <1>12, <1>13 DEF CreatesInv
  <1>15. QED
    BY <1>1, <1>6, <1>7, <1>9, <1>10, <1>11, <1>14 DEF Sound, DeployInv, PlaceInv, Deploying

(* A request acts on one container after the other. *)
LEMMA ListIs ==
    ASSUME TypeOK, SeenInv, NEW c \in Clients, List(c)
    PROVE  /\ Waits(c) /\ SameWork(c) /\ req'[c].pc = "act" /\ req'[c].left = Of(req[c].target)
           /\ UNCHANGED hostVars
  <1> DEFINE r == [req[c] EXCEPT !.pc = "act", !.left = Of(req[c].target)]
  <1>1. req[c] \in RequestSet /\ req' = [req EXCEPT ![c] = r]
    BY TypesAre DEF List
  <1>2. r \in RequestSet
    BY <1>1 DEF RequestSet, Working, Of
  <1>3. Waits(c) /\ req'[c] = r
    BY <1>1, <1>2, OneRequest
  <1>4. QED
    BY <1>1, <1>3 DEF List, SameWork, RequestSet

(* A container is done with, and the request ends with the last one. *)
LEMMA ActsIs ==
    ASSUME TypeOK, SeenInv, NEW c \in Clients, NEW i, Becomes(c, ActsLeft(c, i))
    PROVE  /\ Waits(c) /\ SameWork(c) /\ req'[c].left = req[c].left \ {i}
           /\ req'[c].pc = IF req[c].left \ {i} = {} THEN "ok" ELSE "act"
  <1> DEFINE p == IF req[c].left \ {i} = {} THEN "ok" ELSE "act"
             L == req[c].left \ {i}
             r == [req[c] EXCEPT !.left = L, !.at = 0, !.pc = p]
  <1>1. req[c] \in RequestSet /\ req' = [req EXCEPT ![c] = r]
    BY TypesAre DEF Becomes, ActsLeft
  <1>2. p \in {"ok", "act"} /\ 0 \in 0..MaxIds /\ L \subseteq Ids
    BY <1>1, RequestsAssumption DEF RequestSet
  <1> HIDE DEF p, L
  <1>3. r \in RequestSet
    BY <1>1, <1>2 DEF RequestSet, Working, Answers
  <1>4. Waits(c) /\ req'[c] = r
    BY <1>1, <1>3, OneRequest
  <1>5. Waits(c) /\ SameWork(c) /\ req'[c].left = L /\ req'[c].pc = p
    <2>1. /\ r.op = req[c].op /\ r.path = req[c].path /\ r.todo = req[c].todo
          /\ r.created = req[c].created /\ r.started = req[c].started /\ r.asked = req[c].asked
      BY <1>1 DEF RequestSet
    <2>2. r.left = L /\ r.pc = p
      BY <1>1 DEF RequestSet
    <2> HIDE DEF r
    <2>3. QED
      BY <1>4, <2>1, <2>2 DEF SameWork
  <1>6. QED
    BY <1>5 DEF p, L

(* The stop before a removal leaves the container to the removal. *)
LEMMA StopToRemoveIs ==
    ASSUME TypeOK, SeenInv, NEW c \in Clients, NEW i \in req[c].left, StopToRemove(c, i)
    PROVE  /\ Waits(c) /\ SameWork(c) /\ req'[c].left = req[c].left /\ req'[c].at = i
           /\ req'[c].pc = "rm" /\ req[c].op = "remove"
  <1> DEFINE r == [req[c] EXCEPT !.pc = "rm", !.at = i]
  <1>1. req[c] \in RequestSet /\ req' = [req EXCEPT ![c] = r]
    BY TypesAre DEF StopToRemove
  <1>2. r \in RequestSet
    <2>1. i \in Ids
      BY <1>1 DEF RequestSet
    <2>2. i \in 0..MaxIds
      BY <2>1, RequestsAssumption DEF Ids
    <2>3. QED
      BY <1>1, <2>2 DEF RequestSet, Working
  <1>3. Waits(c) /\ req'[c] = r
    BY <1>1, <1>2, OneRequest
  <1>4. QED
    BY <1>1, <1>3 DEF StopToRemove, SameWork, RequestSet

(* Requests that deploy nothing have no order to keep. *)
LEMMA ActSound ==
    ASSUME TypeOK, SeenInv, NEW c \in Clients, Sound(c), UNCHANGED <<spec, allowed>>,
           List(c) \/ Act(c) \/ RemoveOne(c)
    PROVE  Waits(c) /\ Sound(c)'
  <1>1. req[c].op # "deploy"
    BY DEF List, Act, RemoveOne, Sound, DeployInv, PlaceInv
  <1>2. ASSUME Waits(c), SameWork(c), req'[c].pc \in {"act", "ok"}
        PROVE  Waits(c) /\ Sound(c)'
    BY <1>1, <1>2 DEF SameWork, Sound, DeployInv, PlaceInv, Deploying
  <1>3. CASE List(c)
    BY <1>2, <1>3, ListIs
  <1>4. ASSUME NEW i, Becomes(c, ActsLeft(c, i))
        PROVE  Waits(c) /\ Sound(c)'
    BY <1>2, <1>4, ActsIs
  <1>5. CASE RemoveOne(c)
    BY <1>4, <1>5 DEF RemoveOne
  <1>6. CASE Act(c)
    <2>1. PICK i \in req[c].left : StopOne(c, i) \/ StartOne(c, i) \/ StopToRemove(c, i)
      BY <1>6 DEF Act
    <2>2. CASE StopOne(c, i) \/ StartOne(c, i)
      BY <1>4, <2>2 DEF StopOne, StartOne
    <2>3. CASE StopToRemove(c, i)
      <3>1. /\ Waits(c) /\ SameWork(c) /\ req'[c].left = req[c].left /\ req'[c].at = i
            /\ req'[c].pc = "rm" /\ req[c].op = "remove"
        BY <2>3, StopToRemoveIs
      <3>2. QED
        BY <3>1 DEF SameWork, Sound, DeployInv, PlaceInv, Deploying
    <2>4. QED
      BY <2>1, <2>2, <2>3
  <1>7. QED
    BY <1>3, <1>5, <1>6

(* Every step of a request keeps what is true of it. *)
LEMMA RequestSound ==
    ASSUME TypeOK, SeenInv, NEW c \in Clients, Sound(c), UNCHANGED <<spec, allowed>>, Request(c)
    PROVE  Waits(c) /\ Sound(c)'
  <1>1. CASE Ask(c) \/ Answer(c)
    BY <1>1, AskSound
  <1>2. CASE EnsureNetwork(c) \/ OrderServices(c)
    BY <1>2, NetworksSound
  <1>3. CASE VisitNext(c) \/ VisitReturns(c) \/ SearchReturns(c)
    BY <1>3, VisitNextSound, VisitReturnsSound, SearchReturnsSound
  <1>4. CASE Prepare(c) \/ Create(c) \/ Start(c)
    BY <1>4, PrepareSound, CreateSound, StartSound
  <1>5. CASE List(c) \/ Act(c) \/ RemoveOne(c)
    BY <1>5, ActSound
  <1>6. CASE Fail(c)
    BY <1>6, FailSound DEF Fail, FailsAt
  <1>7. QED
    BY <1>1, <1>2, <1>3, <1>4, <1>5, <1>6 DEF Request, Deploy, OrdersServices

(* A step of a request makes at most one call that changes a container. *)
Calls ==
    \/ UNCHANGED box
    \/ \E i \in Ids, st \in Present \cup {"gone"} : Sets(i, st)
    \/ \E k \in Ids, s \in Services : Makes(k, s, s)

(* What a step of a request does to the host. *)
LEMMA RequestCalls ==
    ASSUME TypeOK, SeenInv, NEW c \in Clients, Sound(c), Request(c)
    PROVE  BoxTypes' /\ nets' \subseteq Networks /\ Calls
  <1>1. BoxTypes /\ req[c] \in RequestSet /\ nets \subseteq Networks
    BY TypesAre DEF TypeOK, RequestsTypeOK
  <1>2. ASSUME UNCHANGED box
        PROVE  BoxTypes' /\ Calls
    BY <1>1, <1>2 DEF BoxTypes, Calls
  <1>3. ASSUME NEW i \in Ids, NEW st \in Present \cup {"gone"}, Exists(i), SetState(i, st)
        PROVE  BoxTypes' /\ Calls
    BY <1>1, <1>3, SetSets DEF Calls
  <1>4. ASSUME NEW s \in Services, Named(s) = {}, NewBox(s, s)
        PROVE  BoxTypes' /\ Calls
    <2>1. BoxTypes' /\ Makes(Least(Unused), s, s)
      BY <1>1, <1>4, NewMakes
    <2>2. Least(Unused) \in Ids
      BY <2>1 DEF Makes, Unused
    <2>3. QED
      BY <2>1, <2>2 DEF Calls
  <1>5. CASE Ask(c) \/ Answer(c) \/ OrdersServices(c) \/ Prepare(c) \/ List(c) \/ Fail(c)
    BY <1>1, <1>2, <1>5 DEF Ask, Answer, OrdersServices, OrderServices, VisitNext, VisitReturns,
       SearchReturns, Prepare, List, Fail, FailsAt, hostVars
  <1>6. CASE EnsureNetwork(c)
    <2>1. UNCHANGED box /\ \E n \in req[c].nets : nets' \in {nets, nets \cup {n}}
      BY <1>6 DEF EnsureNetwork
    <2>2. QED
      BY <1>1, <1>2, <2>1 DEF RequestSet
  <1>7. CASE Create(c)
    <2>1. Head(req[c].todo) \in Services
      BY <1>1, <1>7 DEF Create, RequestSet, Sound, DeployInv, CreatesInv
    <2>2. QED
      BY <1>1, <1>4, <1>7, <2>1 DEF Create
  <1>8. CASE Start(c)
    <2>1. PICK i \in Named(Head(req[c].todo)) : SetState(i, "running")
      BY <1>8 DEF Start
    <2>2. i \in Ids /\ Exists(i) /\ "running" \in Present
      BY DEF Named, Present
    <2>3. QED
      BY <1>1, <1>3, <1>8, <2>1, <2>2 DEF Start
  <1>9. CASE Act(c)
    <2>1. PICK i \in req[c].left : StopOne(c, i) \/ StartOne(c, i) \/ StopToRemove(c, i)
      BY <1>9 DEF Act
    <2>2. i \in Ids
      BY <1>1 DEF RequestSet
    <2>3. UNCHANGED box \/ \E st \in Present \cup {"gone"} : Exists(i) /\ SetState(i, st)
      BY <2>1 DEF StopOne, StartOne, StopToRemove, Exists, Present
    <2>4. QED
      BY <1>1, <1>2, <1>3, <1>9, <2>2, <2>3 DEF Act
  <1>10. CASE RemoveOne(c)
    <2>1. req[c].at \in Ids
      BY <1>1, <1>10 DEF RemoveOne, RequestSet, Sound, DeployInv, PlaceInv
    <2>2. QED
      BY <1>1, <1>3, <1>10, <2>1 DEF RemoveOne
  <1>11. QED
    BY <1>5, <1>6, <1>7, <1>8, <1>9, <1>10 DEF Request, Deploy

-----------------------------------------------------------------------------
(* How a session goes on *)

(* What a session knows of are containers. *)
LEMMA Holds ==
    ASSUME TypeOK, SeenInv
    PROVE  /\ toList \subseteq Ids /\ Seen \subseteq Ids /\ cfg.sessions \in Nat
           /\ session \in {"removing", "renaming", "booting", "clearing"} => old \in Ids
           /\ session \in {"renaming", "booting", "clearing"} => new \in Ids
  <1>1. 0..MaxIds = Ids \cup {0} /\ 0 \notin Ids
    BY RequestsAssumption DEF Ids
  <1>2. QED
    BY <1>1, HostAssumption DEF TypeOK, SeenInv, Seen

(* The container a session creates has the service of the old one. *)
LEMMA CreateIs ==
    ASSUME TypeOK, SeenInv, NEW i \in Ids, CreateNew(i)
    PROVE  BoxTypes' /\ \E k \in Ids : k = new' /\ k \in Unused /\ Makes(k, box[i].svc, Nameless)
  <1>1. box[i].svc \in Services /\ NewBox(box[i].svc, Nameless) /\ BoxTypes /\ new' = Least(Unused)
    BY TypesAre DEF CreateNew, BoxTypes
  <1>2. BoxTypes' /\ Makes(Least(Unused), box[i].svc, Nameless)
    BY <1>1, NewMakes
  <1>3. QED
    BY <1>1, <1>2 DEF Makes, Unused

(* The container a session creates is given the name of the old one. *)
LEMMA RenameIs ==
    ASSUME TypeOK, SeenInv, RenameNew
    PROVE  BoxTypes' /\ Names(new, box[old].name) /\ new \in Ids /\ old \in Ids
  <1>1. new \in Ids /\ old \in Ids /\ BoxTypes
    BY Holds, TypesAre DEF RenameNew
  <1>2. box[old].name \in Services \cup {Nameless}
    BY <1>1 DEF BoxTypes
  <1>3. QED
    BY <1>1, <1>2, RenameNames DEF RenameNew

(* A session stops, removes or starts one container. *)
LEMMA SetsOne ==
    ASSUME TypeOK, SeenInv, RemoveOld \/ Clear \/ StartNew \/ \E i \in Ids : StopOld(i)
    PROVE  /\ BoxTypes'
           /\ \/ UNCHANGED box
              \/ \E i \in Ids, st \in Present \cup {"gone"} :
                   /\ Sets(i, st)
                   /\ st = "running" => \/ box[i].state = "running"
                                        \/ StartNew /\ i = new /\ (old \in wasUp \/ cfg.revive)
                   /\ Clear => i = new /\ st = "gone"
  <1>1. BoxTypes
    BY TypesAre
  <1>2. CASE UNCHANGED box
    BY <1>1, <1>2 DEF BoxTypes
  <1>3. ASSUME NEW i \in Ids, NEW st \in Present \cup {"gone"}, Exists(i), SetState(i, st)
        PROVE  BoxTypes' /\ Sets(i, st)
    BY <1>1, <1>3, SetSets
  <1>4. CASE RemoveOld /\ ~(UNCHANGED box)
    <2>1. old \in Ids /\ Exists(old) /\ SetState(old, "gone")
      BY <1>4, Holds DEF RemoveOld
    <2>2. BoxTypes' /\ Sets(old, "gone") /\ ~Clear
      BY <1>3, <1>4, <2>1 DEF RemoveOld, Clear
    <2>3. QED
      BY <2>1, <2>2
  <1>5. CASE Clear /\ ~(UNCHANGED box)
    <2>1. new \in Ids /\ Exists(new) /\ SetState(new, "gone")
      BY <1>5, Holds DEF Clear, SetState
    <2>2. BoxTypes' /\ Sets(new, "gone")
      BY <1>3, <2>1
    <2>3. QED
      BY <2>1, <2>2
  <1>6. CASE StartNew /\ ~(UNCHANGED box)
    <2>1. new \in Ids /\ Exists(new) /\ SetState(new, "running") /\ (old \in wasUp \/ cfg.revive) /\ ~Clear
      BY <1>6, Holds DEF StartNew, Clear
    <2>2. BoxTypes' /\ Sets(new, "running")
      BY <1>3, <2>1 DEF Present
    <2>3. QED
      BY <1>6, <2>1, <2>2 DEF Present
  <1>7. ASSUME NEW i \in Ids, StopOld(i), ~(UNCHANGED box)
        PROVE  /\ BoxTypes'
               /\ \E st \in Present \cup {"gone"} :
                    /\ Sets(i, st) /\ ~Clear /\ (st = "running" => box[i].state = "running")
    <2> DEFINE st == IF box[i].state = "running" THEN "exited" ELSE box[i].state
    <2>1. Exists(i) /\ SetState(i, st) /\ ~Clear
      BY <1>7 DEF StopOld, Clear
    <2>2. st \in Present \cup {"gone"} /\ (st = "running" => box[i].state = "running")
      BY <2>1 DEF Exists, Present
    <2> HIDE DEF st
    <2>3. QED
      BY <1>3, <2>1, <2>2
  <1>8. QED
    BY <1>2, <1>4, <1>5, <1>6, <1>7

(* A container that is there keeps its service; one that is gone stays so. *)
Grows ==
    \A i \in Ids : box[i].state # "unused" =>
        /\ box'[i].state # "unused" /\ box'[i].svc = box[i].svc
        /\ Exists(i)' => Exists(i)

(* Every call of the daemon is of one of these kinds. *)
LEMMA CallsGrow ==
    ASSUME \/ UNCHANGED box
           \/ \E i \in Ids, st \in Present \cup {"gone"} : Sets(i, st)
           \/ \E k \in Ids : \E s, name : Makes(k, s, name)
           \/ \E k \in Ids : \E name : Names(k, name)
    PROVE  Grows
  <1>1. CASE UNCHANGED box
    BY <1>1 DEF Grows, Exists
  <1>2. ASSUME NEW i \in Ids, NEW st \in Present \cup {"gone"}, Sets(i, st)
        PROVE  Grows
    BY <1>2 DEF Sets, Grows, Exists, Present
  <1>3. ASSUME NEW k \in Ids, NEW s, NEW name, Makes(k, s, name)
        PROVE  Grows
    BY <1>3 DEF Makes, Grows, Exists, Unused
  <1>4. ASSUME NEW k \in Ids, NEW name, Names(k, name)
        PROVE  Grows
    BY <1>4 DEF Names, Grows, Exists
  <1>5. QED
    BY <1>1, <1>2, <1>3, <1>4

(* The steps of a session that only look at the host. *)
Looks == \/ Begin \/ Plan \/ SetUpFails \/ End
         \/ \E i \in Ids : Inspect(i) \/ StopOldFails(i) \/ CreateFails(i)

(* Every step of a session or a request keeps the host in order. *)
LEMMA StepHost ==
    ASSUME TypeOK, SeenInv, \A c \in Clients : Sound(c), Step
    PROVE  BoxTypes' /\ nets' \subseteq Networks /\ Grows
  <1>1. BoxTypes /\ nets \subseteq Networks
    BY TypesAre DEF TypeOK, RequestsTypeOK
  <1>2. CASE Requests
    <2>1. PICK c \in Clients : Request(c)
      BY <1>2 DEF Requests
    <2>2. BoxTypes' /\ nets' \subseteq Networks /\ Calls
      BY <2>1, RequestCalls
    <2>3. QED
      BY <2>2, CallsGrow DEF Calls
  <1>3. CASE Looks
    <2>1. UNCHANGED hostVars
      BY <1>3 DEF Looks, Begin, Plan, SetUpFails, End, Inspect, StopOldFails, CreateFails
    <2>2. QED
      BY <1>1, <2>1, CallsGrow DEF hostVars, BoxTypes
  <1>4. CASE RenameNew
    BY <1>1, <1>4, RenameIs, CallsGrow DEF RenameNew
  <1>5. ASSUME NEW i \in Ids, CreateNew(i)
        PROVE  BoxTypes' /\ nets' \subseteq Networks /\ Grows
    BY <1>1, <1>5, CreateIs, CallsGrow DEF CreateNew
  <1>6. CASE RemoveOld \/ Clear \/ StartNew \/ \E i \in Ids : StopOld(i)
    <2>1. nets' = nets
      BY <1>6 DEF RemoveOld, Clear, StartNew, StopOld
    <2>2. QED
      BY <1>1, <1>6, <2>1, SetsOne, CallsGrow
  <1>7. QED
    BY <1>2, <1>3, <1>4, <1>5, <1>6 DEF Step, Session, Looks

(* What the session knows of the containers is right. *)
SessionTypes ==
    /\ session \in Phases /\ sessions \in 0..cfg.sessions
    /\ toList \subseteq Ids /\ wasUp \subseteq Ids /\ found \subseteq Ids /\ taken \subseteq Ids
    /\ old \in 0..MaxIds /\ new \in 0..MaxIds /\ (new # 0 => new # old)
    /\ taken \cap found = {}
    /\ new # 0 <=> session \in {"renaming", "booting", "clearing"}
    /\ orphaned \in BOOLEAN

(* A request changes nothing a session knows. *)
LEMMA SameSession ==
    ASSUME TypeOK, SeenInv, Grows, UNCHANGED <<sessionVars, cfg, allowed>>
    PROVE  SessionTypes' /\ SeenInv'
  <1>1. SessionTypes'
    BY DEF TypeOK, SessionTypes, sessionVars
  <1>2. toList \cup Seen \subseteq Ids /\ (new # 0 => new \in Ids /\ old \in Ids)
    BY Holds DEF TypeOK
  <1>3. UNCHANGED <<session, toList, found, wasUp, taken, old, new, cfg, allowed>> /\ Seen' = Seen
    BY DEF sessionVars, Seen
  <1>4. \A i \in toList \cup Seen : box'[i].state # "unused"
    BY <1>2 DEF SeenInv, Grows
  <1>5. new # 0 => box'[new].state # "unused" /\ box'[new].svc = box'[old].svc
    <2>1. new # 0 => old \in Seen
      BY DEF TypeOK, SeenInv, Seen
    <2>2. QED
      BY <1>2, <2>1 DEF SeenInv, Grows
  <1>6. QED
    BY <1>1, <1>3, <1>4, <1>5 DEF SeenInv

(* A session that only looks knows containers that were there. *)
LEMMA LooksKnow ==
    ASSUME TypeOK, SeenInv, Looks, UNCHANGED <<cfg, allowed>>
    PROVE  SessionTypes' /\ SeenInv'
  <1>1. CASE Begin
    <2>1. sessions' \in 0..cfg.sessions
      BY <1>1, HostAssumption DEF Begin, TypeOK
    <2>2. SessionTypes'
      BY <1>1, <2>1 DEF Begin, TypeOK, SessionTypes, Phases
    <2>3. \A i \in toList' : box[i].state # "unused"
      BY <1>1 DEF Begin, Exists, Present
    <2>4. QED
      BY <1>1, <2>2, <2>3 DEF Begin, SeenInv, Seen, hostVars
  <1>2. ASSUME NEW i \in Ids, Inspect(i)
        PROVE  SessionTypes' /\ SeenInv'
    <2>1. SessionTypes'
      BY <1>2 DEF Inspect, TypeOK, SeenInv, SessionTypes, Phases
    <2>2. box[i].state # "unused" /\ i \notin toList'
      BY <1>2 DEF Inspect, SeenInv
    <2>3. QED
      BY <1>2, <2>1, <2>2 DEF Inspect, SeenInv, Seen, hostVars
  <1>3. CASE Plan \/ SetUpFails
    BY <1>3 DEF Plan, SetUpFails, TypeOK, SessionTypes, SeenInv, Seen, Phases, hostVars
  <1>4. CASE End
    BY <1>4 DEF End, TypeOK, SessionTypes, SeenInv, Seen, Phases, hostVars
  <1>5. ASSUME NEW i \in Ids, StopOldFails(i) \/ CreateFails(i)
        PROVE  SessionTypes' /\ SeenInv'
    BY <1>5 DEF StopOldFails, CreateFails, TypeOK, SessionTypes, SeenInv, Seen, Phases, hostVars
  <1>6. QED
    BY <1>1, <1>2, <1>3, <1>4, <1>5 DEF Looks

(* A session that replaces a container knows the old one and the new one. *)
LEMMA ReplacesKnow ==
    ASSUME TypeOK, SeenInv, Grows, Session, ~Looks, UNCHANGED <<cfg, allowed>>
    PROVE  SessionTypes' /\ SeenInv'
  <1>1. toList \cup Seen \subseteq Ids /\ (new # 0 => new \in Ids /\ old \in Ids)
    BY Holds DEF TypeOK
  <1>2. \A i \in toList \cup Seen : box'[i].state # "unused"
    BY <1>1 DEF SeenInv, Grows
  <1>3. ASSUME NEW i \in Ids, StopOld(i)
        PROVE  SessionTypes' /\ SeenInv'
    <2>1. i \in 0..MaxIds /\ i # 0
      BY RequestsAssumption DEF Ids
    <2>2. new = 0 /\ new' = 0
      BY <1>3 DEF StopOld, TypeOK
    <2>3. SessionTypes'
      BY <1>3, <2>1, <2>2 DEF StopOld, TypeOK, SessionTypes, Phases
    <2>4. QED
      BY <1>2, <1>3, <2>1, <2>2, <2>3 DEF StopOld, SeenInv, Seen
  <1>4. CASE RemoveOld
    <2>1. old \in Ids /\ new = 0 /\ new' = 0
      BY <1>4, Holds DEF RemoveOld, TypeOK
    <2>2. SessionTypes'
      BY <1>4, <2>1 DEF RemoveOld, TypeOK, SessionTypes, Phases
    <2>3. \A i \in toList' \cup Seen' : i \in toList \cup Seen
      BY <1>4, <2>1 DEF RemoveOld, Seen, SeenInv, TypeOK
    <2>4. QED
      BY <1>2, <1>4, <2>1, <2>2, <2>3 DEF RemoveOld, SeenInv
  <1>5. ASSUME NEW i \in Ids, CreateNew(i)
        PROVE  SessionTypes' /\ SeenInv'
    <2>1. PICK k \in Ids : k = new' /\ k \in Unused /\ Makes(k, box[i].svc, Nameless)
      BY <1>5, CreateIs
    <2>2. i \in Seen /\ old' = i /\ box[i].state # "unused"
      BY <1>5 DEF CreateNew, Seen, SeenInv
    <2>3. k # i /\ k \in 0..MaxIds /\ k # 0 /\ i \in 0..MaxIds /\ i # 0
      BY <2>1, <2>2, RequestsAssumption DEF Ids, Unused
    <2>4. box'[k].state # "unused" /\ box'[k].svc = box[i].svc /\ box'[i].svc = box[i].svc
      BY <2>1, <2>2 DEF Makes, Grows
    <2>5. SessionTypes'
      BY <1>5, <2>1, <2>2, <2>3 DEF CreateNew, TypeOK, SessionTypes, Phases
    <2>6. toList' = toList /\ \A j \in Seen' : j \in Seen
      BY <1>5, <2>2 DEF CreateNew, Seen
    <2>7. QED
      BY <1>2, <1>5, <2>1, <2>2, <2>3, <2>4, <2>5, <2>6 DEF CreateNew, SeenInv
  <1>6. CASE RenameNew
    <2>1. SessionTypes'
      BY <1>6 DEF RenameNew, TypeOK, SessionTypes, Phases
    <2>2. QED
      BY <1>1, <1>2, <1>6, <2>1 DEF RenameNew, SeenInv, Seen, Grows
  <1>7. CASE Clear \/ StartNew
    <2>1. SessionTypes'
      <3>1. orphaned' \in BOOLEAN
        BY <1>7 DEF Clear, StartNew, TypeOK
      <3>2. /\ UNCHANGED <<toList, found, wasUp, taken, sessions>> /\ old' = 0 /\ new' = 0
            /\ session' = "stopping"
        BY <1>7 DEF Clear, StartNew, Leaves
      <3>3. 0 \in 0..MaxIds
        BY RequestsAssumption
      <3>4. QED
        BY <3>1, <3>2, <3>3 DEF TypeOK, SessionTypes, Phases
    <2>2. /\ UNCHANGED <<toList, found, wasUp, taken>> /\ old' = 0 /\ new' = 0
          /\ session' = "stopping" /\ session \in {"clearing", "booting"}
      BY <1>7 DEF Clear, StartNew, Leaves
    <2>3. toList' = toList /\ \A j \in Seen' : j \in Seen
      BY <2>2 DEF Seen
    <2>4. QED
      BY <1>2, <2>1, <2>2, <2>3 DEF SeenInv
  <1>8. QED
    BY <1>3, <1>4, <1>5, <1>6, <1>7 DEF Session, Looks

-----------------------------------------------------------------------------
(* The types, and the order of a deployment *)

Kept == TypeOK /\ SeenInv /\ \A c \in Clients : Sound(c)

(* At most one element is left of a set that exceeds another by one. *)
LEMMA OneLeft ==
    ASSUME NEW A, NEW B, NEW x, A \subseteq B \cup {x}
    PROVE  Cardinality(A \ B) <= 1
  <1>1. A \ B \in SUBSET {x}
    OBVIOUS
  <1>2. IsFiniteSet({x}) /\ Cardinality({x}) = 1
    BY FS_Singleton
  <1>3. QED
    BY <1>1, <1>2, FS_Subset

(* The parts make up the type invariant, now ... *)
LEMMA TypesMake ==
    ASSUME BoxTypes, SessionTypes, req \in [Clients -> RequestSet], \A c \in Clients : Sound(c),
           nets \subseteq Networks, cfg \in Cases, spec = cfg.spec,
           claims \in [Clients -> SUBSET Services], removed \subseteq Services, stopped \subseteq Services
    PROVE  TypeOK
  <1>1. \A c \in Clients : Cardinality(req[c].created \ req[c].started) <= 1
    <2>1. SUFFICES ASSUME NEW c \in Clients
                   PROVE  Cardinality(req[c].created \ req[c].started) <= 1
      OBVIOUS
    <2>2. PICK x \in Services \cup {Unknown} : req[c].created \subseteq req[c].started \cup {x}
      BY DEF Sound, DeployInv
    <2>3. QED
      BY <2>2, OneLeft
  <1>2. spec \in Specs
    BY HostAssumption
  <1>3. RequestsTypeOK
    BY <1>1, <1>2 DEF BoxTypes, Sound, RequestsTypeOK
  <1>4. QED
    BY <1>3 DEF SessionTypes, TypeOK

(* ... and after a step. *)
LEMMA TypesMakeNext ==
    ASSUME BoxTypes', SessionTypes', req' \in [Clients -> RequestSet], \A c \in Clients : Sound(c)',
           nets' \subseteq Networks, cfg' \in Cases, spec' = cfg'.spec,
           claims' \in [Clients -> SUBSET Services], removed' \subseteq Services, stopped' \subseteq Services
    PROVE  TypeOK'
  <1>1. \A c \in Clients : Cardinality(req'[c].created \ req'[c].started) <= 1
    <2>1. SUFFICES ASSUME NEW c \in Clients
                   PROVE  Cardinality(req'[c].created \ req'[c].started) <= 1
      OBVIOUS
    <2>2. PICK x \in Services \cup {Unknown} : req'[c].created \subseteq req'[c].started \cup {x}
      BY DEF Sound, DeployInv
    <2>3. QED
      BY <2>2, OneLeft
  <1>2. spec' \in Specs
    BY HostAssumption
  <1>3. RequestsTypeOK'
    BY <1>1, <1>2 DEF BoxTypes, Sound, RequestsTypeOK
  <1>4. QED
    BY <1>3 DEF SessionTypes, TypeOK

(* At the start every service has one container, which bears its name. *)
LEMMA FirstBoxes == Init => BoxTypes
  <1> SUFFICES ASSUME Init
               PROVE  BoxTypes
    OBVIOUS
  <1>1. Len(Keys) \in Nat /\ DOMAIN Keys = 1..Len(Keys) /\ 1 \in DOMAIN Keys
    BY KeysDiffer, RequestsAssumption
  <1>2. \A i \in Ids : i <= Len(Keys) => i \in DOMAIN Keys
    BY <1>1, RequestsAssumption DEF Ids
  <1>3. \A i \in Ids : /\ i <= Len(Keys) =>
                            box[i] = [svc |-> Keys[i], name |-> Keys[i], state |-> cfg.initial[Keys[i]]]
                       /\ ~(i <= Len(Keys)) =>
                            box[i] = [svc |-> Keys[1], name |-> Nameless, state |-> "unused"]
    BY DEF Init
  <1>4. \A i \in DOMAIN Keys : Keys[i] \in Services /\ cfg.initial[Keys[i]] \in Present \cup {"gone"}
    BY KeysDiffer, HostAssumption DEF Init
  <1>5. ASSUME NEW i \in Ids
        PROVE  /\ box[i] \in [svc : Services, name : Services \cup {Nameless},
                               state : Present \cup {"unused", "gone"}]
               /\ box[i].name # Nameless => i \in DOMAIN Keys /\ box[i].name = Keys[i]
    <2>1. CASE i <= Len(Keys)
      <3>1. i \in DOMAIN Keys
        BY <1>2, <2>1
      <3>2. PICK k \in Services, st \in Present \cup {"gone"} : k = Keys[i] /\ st = cfg.initial[Keys[i]]
        BY <1>4, <3>1
      <3>3. box[i] = [svc |-> k, name |-> k, state |-> st]
        BY <1>3, <2>1, <3>2
      <3>4. QED
        BY <3>1, <3>2, <3>3
    <2>2. CASE ~(i <= Len(Keys))
      <3>1. PICK k \in Services : k = Keys[1]
        BY <1>1, <1>4
      <3>2. box[i] = [svc |-> k, name |-> Nameless, state |-> "unused"]
        BY <1>3, <2>2, <3>1
      <3>3. QED
        BY <3>2
    <2>3. QED
      BY <2>1, <2>2
  <1>7. \A i, j \in Ids : box[i].name = box[j].name /\ box[i].name # Nameless => i = j
    BY <1>5, KeysDiffer
  <1>8. box = [i \in Ids |-> box[i]]
    BY DEF Init
  <1>9. QED
    BY <1>5, <1>7, <1>8 DEF BoxTypes

(* At the start nobody has done anything. *)
LEMMA FirstKept == Init => Kept
  <1> SUFFICES ASSUME Init
               PROVE  Kept
    OBVIOUS
  <1>1. BoxTypes
    BY FirstBoxes
  <1>2. /\ cfg \in Cases /\ spec = cfg.spec /\ cfg.sessions \in Nat /\ nets \subseteq Networks
        /\ allowed \in [Clients -> Nat] /\ allowed = cfg.requests
    BY HostAssumption, RequestsAssumption DEF Init
  <1>3. Blank(NoRequest(0)) /\ NoRequest(0).asked = 0 /\ NoRequest(0).pc = "idle"
    <2>1. "stop" \in Ops
      BY DEF Ops
    <2>2. Blank(NoRequest(0)) /\ NoRequest(0).asked = 0
      BY <2>1, BlankIs DEF NoRequest
    <2>3. QED
      BY <2>2 DEF NoRequest, NewRequest
  <1>4. req \in [Clients -> RequestSet] /\ \A c \in Clients : req[c] = NoRequest(0)
    BY <1>3 DEF Init, Blank
  <1>5. ASSUME NEW c \in Clients
        PROVE  Sound(c)
    <2>1. /\ req[c].op = "stop" /\ req[c].pc = "idle" /\ req[c].created = {} /\ req[c].started = {}
          /\ req[c].asked = 0
      BY <1>4 DEF NoRequest, NewRequest
    <2>2. 0 <= allowed[c]
      BY <1>2
    <2>3. QED
      BY <2>1, <2>2 DEF Sound, DeployInv, PlaceInv, Deploying
  <1>6. SessionTypes /\ SeenInv
    <2>1. sessions \in 0..cfg.sessions /\ old \in 0..MaxIds /\ new \in 0..MaxIds
      BY <1>2, RequestsAssumption DEF Init
    <2>2. /\ session = "idle" /\ toList = {} /\ found = {} /\ wasUp = {} /\ taken = {} /\ old = 0
          /\ new = 0 /\ orphaned = FALSE /\ allowed = cfg.requests
      BY DEF Init
    <2>3. SessionTypes
      BY <2>1, <2>2 DEF SessionTypes, Phases
    <2>4. SeenInv
      BY <2>2 DEF SeenInv, Seen
    <2>5. QED
      BY <2>3, <2>4
  <1>7. claims \in [Clients -> SUBSET Services] /\ removed \subseteq Services /\ stopped \subseteq Services
    BY DEF Init
  <1>8. QED
    BY <1>1, <1>2, <1>4, <1>5, <1>6, <1>7, TypesMake DEF Kept

(* A step keeps what is true of every request. *)
LEMMA StepRequests ==
    ASSUME Kept, Step, UNCHANGED <<spec, allowed>>
    PROVE  req' \in [Clients -> RequestSet] /\ \A c \in Clients : Sound(c)'
  <1>1. CASE Requests
    <2>1. PICK c \in Clients : Request(c)
      BY <1>1 DEF Requests
    <2>2. Waits(c) /\ Sound(c)'
      BY <2>1, RequestSound DEF Kept
    <2>3. ASSUME NEW d \in Clients, d # c
          PROVE  Sound(d)'
      <3>1. req'[d] = req[d] /\ Sound(d)
        BY <2>2, <2>3 DEF Waits, Kept
      <3>2. QED
        BY <3>1 DEF Sound, DeployInv, PlaceInv, SearchInv, CreatesInv, InOrder, Before, Ordered
    <2>4. QED
      BY <2>2, <2>3 DEF Waits
  <1>2. CASE UNCHANGED req
    BY <1>2, TypesAre
    DEF Kept, Sound, DeployInv, PlaceInv, SearchInv, CreatesInv, InOrder, Before, Ordered
  <1>3. QED
    BY <1>1, <1>2 DEF Step

(* What is remembered of requests are services. *)
LEMMA HistoryTypes ==
    ASSUME Kept, History
    PROVE  /\ claims' \in [Clients -> SUBSET Services]
           /\ removed' \subseteq Services /\ stopped' \subseteq Services
  <1>1. \A c \in Clients : req[c].target \subseteq Services /\ claims[c] \subseteq Services
    BY TypesAre DEF Kept, TypeOK, RequestSet
  <1>2. claims' \in [Clients -> SUBSET Services]
    BY <1>1 DEF History
  <1>3. removed' \subseteq Services
    BY <1>1 DEF History, Kept, TypeOK
  <1>4. stopped' \subseteq Services
    BY <1>1 DEF History, Kept, TypeOK
  <1>5. QED
    BY <1>2, <1>3, <1>4

(* A step keeps what is true of the session. *)
LEMMA StepSession ==
    ASSUME Kept, Step, UNCHANGED <<cfg, allowed>>
    PROVE  SessionTypes' /\ SeenInv'
  <1>1. TypeOK /\ SeenInv /\ Grows
    BY StepHost DEF Kept
  <1>2. QED
    BY <1>1, SameSession, LooksKnow, ReplacesKnow DEF Step, Requests

(* Every step keeps all of it. *)
LEMMA NextKept == Kept /\ [Next]_vars => Kept'
  <1> SUFFICES ASSUME Kept, [Next]_vars
               PROVE  Kept'
    OBVIOUS
  <1>1. CASE UNCHANGED vars
    <2>1. UNCHANGED <<spec, allowed, nets, box, req, cfg, session, toList, found, wasUp, taken, old, new,
                      sessions, orphaned, claims, removed, stopped>>
      BY <1>1 DEF vars, hostVars, sessionVars, historyVars
    <2>2. TypeOK'
      BY <2>1 DEF Kept, TypeOK, RequestsTypeOK
    <2>3. SeenInv' /\ \A c \in Clients : Sound(c)'
      BY <2>1 DEF Kept, SeenInv, Seen, Sound, DeployInv, PlaceInv, SearchInv, CreatesInv, InOrder,
         Before, Ordered
    <2>4. QED
      BY <2>2, <2>3 DEF Kept
  <1>2. CASE Step /\ History /\ UNCHANGED <<spec, allowed, cfg>>
    <2>1. BoxTypes' /\ nets' \subseteq Networks
      BY <1>2, StepHost DEF Kept
    <2>2. req' \in [Clients -> RequestSet] /\ \A c \in Clients : Sound(c)'
      BY <1>2, StepRequests
    <2>3. SessionTypes' /\ SeenInv'
      BY <1>2, StepSession
    <2>4. /\ claims' \in [Clients -> SUBSET Services] /\ removed' \subseteq Services
          /\ stopped' \subseteq Services
      BY <1>2, HistoryTypes
    <2>5. cfg' \in Cases /\ spec' = cfg'.spec
      BY <1>2 DEF Kept, TypeOK
    <2>6. TypeOK'
      BY <2>1, <2>2, <2>3, <2>4, <2>5, TypesMakeNext
    <2>7. QED
      BY <2>2, <2>3, <2>6 DEF Kept
  <1>3. QED
    BY <1>1, <1>2 DEF Next, Over

(* So it is always true. *)
LEMMA AlwaysKept == Spec => []Kept
  BY FirstKept, NextKept, PTL DEF Spec

(***************************************************************************)
(* Every variable keeps to its type, names are unique, and a deployment    *)
(* has at most one service it created and did not start, whatever sessions *)
(* and other requests do to the host (DeployServices, Update).             *)
(***************************************************************************)
THEOREM TypeCorrect == Spec => []TypeOK
  <1>1. Kept => TypeOK
    BY DEF Kept
  <1>2. QED
    BY <1>1, AlwaysKept, PTL

(***************************************************************************)
(* A deployment creates a service only when those it depends on have been  *)
(* started by it, whatever they depend on each other, and answers success  *)
(* when it has started them all (DeployServices, orderedServiceNames).     *)
(***************************************************************************)
THEOREM DependenciesComeFirst == Spec => []DependenciesFirst
  <1>1. Kept => DependenciesFirst
    BY DEF Kept, Sound, DeployInv, DependenciesFirst
  <1>2. QED
    BY <1>1, AlwaysKept, PTL

-----------------------------------------------------------------------------
(* What requests claim *)

Outcomes == GoneInv /\ DownInv /\ NameInv /\ \A c \in Clients : ClaimInv(c)

(* What a request claims after a step it claimed before, and it was there. *)
LEMMA FewerClaims ==
    ASSUME BoxTypes, BoxTypes', Grows, History, NEW c \in Clients, req[c].pc # "list",
           NEW i \in Ids, Exists(i)', box'[i].svc \in claims'[c]
    PROVE  /\ i \in Of(claims[c])
           /\ req[c].op = "stop" /\ box'[i].state = "running" => box[i].state = "running"
  <1>1. claims'[c] = claims[c] \ (Created \cup (IF req[c].op = "stop" THEN Raised ELSE {}))
    BY DEF History
  <1>2. box'[i].svc \in claims[c] /\ box'[i].svc \notin Created
        /\ (req[c].op = "stop" => box'[i].svc \notin Raised)
    BY <1>1
  <1>3. box[i].state # "unused"
    <2>1. box'[i].state # "unused"
      BY DEF Exists, Present
    <2>2. QED
      BY <1>2, <2>1 DEF Created
  <1>4. Exists(i) /\ box[i].svc = box'[i].svc
    BY <1>3 DEF Grows
  <1>5. req[c].op = "stop" /\ box'[i].state = "running" => box[i].state = "running"
    BY <1>2 DEF Raised
  <1>6. QED
    BY <1>2, <1>4, <1>5 DEF Of

(* A stop leaves one container stopped and changes no other. *)
LEMMA StopIs ==
    ASSUME Kept, NEW c \in Clients, NEW i \in req[c].left, StopOne(c, i)
    PROVE  /\ i \in Ids /\ box'[i].state # "running"
           /\ \A j \in Ids : j # i => box'[j].state = box[j].state
           /\ \A j \in Ids : box'[j].svc = box[j].svc
  <1> DEFINE st == IF box[i].state = "running" THEN "exited" ELSE box[i].state
  <1>1. i \in Ids /\ BoxTypes
    BY TypesAre DEF Kept, RequestSet
  <1>2. Exists(i) /\ SetState(i, st)
    BY DEF StopOne
  <1>3. st \in Present \cup {"gone"} /\ st # "running"
    BY <1>2 DEF Exists, Present
  <1> HIDE DEF st
  <1>4. Sets(i, st)
    BY <1>1, <1>2, <1>3, SetSets
  <1>5. QED
    BY <1>1, <1>3, <1>4 DEF Sets

(* A removal leaves one container gone and changes no other. *)
LEMMA RemoveIs ==
    ASSUME Kept, NEW c \in Clients, RemoveOne(c)
    PROVE  \A j \in Ids : Exists(j)' => j # req[c].at /\ Exists(j) /\ box'[j].svc = box[j].svc
  <1>1. req[c].at \in Ids /\ BoxTypes
    BY TypesAre DEF Kept, Sound, DeployInv, PlaceInv, RemoveOne, RequestSet
  <1>2. Sets(req[c].at, "gone")
    BY <1>1, SetSets DEF RemoveOne
  <1>3. QED
    BY <1>1, <1>2 DEF Sets, Exists, Present

(* The work of a request that stops or removes, and how it ends. *)
LEMMA WorksOn ==
    ASSUME Kept, NEW c \in Clients, Request(c), req[c].op \in {"stop", "remove"},
           req[c].pc \in Working, req'[c].pc # "failed"
    PROVE  List(c) \/ RemoveOne(c)
           \/ (req[c].pc = "act" /\ \E i \in req[c].left : StopOne(c, i) \/ StopToRemove(c, i))
  <1>1. TypeOK /\ SeenInv /\ PlaceInv(c)
    BY DEF Kept, Sound, DeployInv
  <1>2. req[c].pc \notin {"networks", "order", "prepare", "create", "start", "idle", "ok", "failed"}
    BY <1>1 DEF PlaceInv, Deploying, Working
  <1>3. ~Fail(c)
    <2>1. ASSUME Fail(c)
          PROVE  FALSE
      <3>1. Goes(c, "failed")
        BY <2>1 DEF Fail, FailsAt
      <3>2. req'[c].pc = "failed"
        BY <1>1, <3>1, GoesOn DEF Answers
      <3>3. QED
        BY <3>2
    <2>2. QED
      BY <2>1
  <1>4. ~(Ask(c) \/ Answer(c) \/ Deploy(c))
    BY <1>2 DEF Ask, Answer, Answers, Deploy, EnsureNetwork, OrdersServices, OrderServices, VisitNext,
       VisitReturns, SearchReturns, Prepare, Create, Start
  <1>5. CASE Act(c)
    BY <1>5 DEF Act, StartOne
  <1>6. QED
    BY <1>3, <1>4, <1>5 DEF Request

(* A deployment stays a deployment until it is answered. *)
LEMMA DeployStays ==
    ASSUME TypeOK, SeenInv, NEW c \in Clients, Sound(c), Deploy(c)
    PROVE  req[c].op = "deploy" /\ req'[c].op = "deploy"
  <1>1. req \in [Clients -> RequestSet] /\ req[c] \in RequestSet
    BY TypesAre
  <1>2. req[c].op = "deploy"
    BY DEF Deploy, EnsureNetwork, OrdersServices, OrderServices, VisitNext, VisitReturns, SearchReturns,
       Prepare, Create, Start, Sound, DeployInv, PlaceInv, Deploying
  <1>3. CASE EnsureNetwork(c)
    BY <1>1, <1>2, <1>3 DEF EnsureNetwork, RequestSet
  <1>4. CASE OrdersServices(c)
    BY <1>1, <1>2, <1>4 DEF OrdersServices, OrderServices, VisitNext, VisitReturns, SearchReturns,
       Goes, RequestSet
  <1>5. CASE Prepare(c) \/ Create(c) \/ Start(c)
    BY <1>1, <1>2, <1>5 DEF Prepare, Create, Start, Goes, RequestSet
  <1>6. QED
    BY <1>2, <1>3, <1>4, <1>5 DEF Deploy

(* What a request claims and is still there is left for it to act on. *)
LEMMA ClaimsKept ==
    ASSUME Kept, Step, History, UNCHANGED <<spec, allowed>>, NEW c \in Clients, ClaimInv(c)
    PROVE  ClaimInv(c)'
  <1>1. TypeOK /\ SeenInv /\ BoxTypes /\ BoxTypes' /\ Grows
    BY TypesAre, StepHost DEF Kept
  <1>2. SUFFICES ASSUME NEW i \in Ids, Exists(i)', box'[i].svc \in claims'[c],
                        req'[c].pc \in {"act", "rm"}, req'[c].op \in {"stop", "remove"},
                        req'[c].op = "stop" => box'[i].state = "running" /\ req'[c].pc = "act"
                 PROVE  i \in req'[c].left
    BY DEF ClaimInv, Of
  <1>3. CASE req'[c] = req[c]
    <2>1. req[c].pc # "list"
      BY <1>2, <1>3
    <2>2. /\ i \in Of(claims[c])
          /\ req[c].op = "stop" /\ box'[i].state = "running" => box[i].state = "running"
      BY <1>1, <1>2, <2>1, FewerClaims
    <2>3. QED
      BY <1>2, <1>3, <2>2 DEF ClaimInv
  <1>4. CASE Request(c) /\ UNCHANGED <<spec, allowed>>
    <2>1. ASSUME req[c].pc \in {"act", "rm"}
          PROVE  /\ i \in Of(claims[c])
                 /\ req[c].op = "stop" /\ box'[i].state = "running" => box[i].state = "running"
      BY <1>1, <1>2, <2>1, FewerClaims
    <2>2. CASE Ask(c) \/ Answer(c)
      BY <1>1, <1>2, <1>4, <2>2, AskSound
    <2>3. CASE Deploy(c)
      <3>1. req'[c].op = "deploy"
        BY <1>1, <2>3, DeployStays DEF Kept
      <3>2. QED
        BY <1>2, <3>1
    <2>4. CASE List(c)
      <3>1. req'[c].left = Of(req[c].target) /\ UNCHANGED box
        BY <1>1, <2>4, ListIs DEF hostVars
      <3>2. claims'[c] = req[c].target
        BY <2>4 DEF History, List
      <3>3. QED
        BY <1>2, <3>1, <3>2 DEF Of, Exists
    <2>5. CASE RemoveOne(c)
      <3>1. req'[c].left = req[c].left \ {req[c].at}
        BY <1>1, <2>5, ActsIs DEF RemoveOne
      <3>2. i # req[c].at
        BY <1>2, <2>5, RemoveIs
      <3>3. req[c].pc = "rm" /\ req[c].op = "remove"
        BY <2>5 DEF RemoveOne, Kept, Sound, DeployInv, PlaceInv
      <3>4. QED
        BY <2>1, <3>1, <3>2, <3>3 DEF ClaimInv
    <2>6. ASSUME req[c].pc = "act", NEW k \in req[c].left, StopOne(c, k)
          PROVE  i \in req'[c].left
      <3>1. req'[c].left = req[c].left \ {k} /\ req[c].op = "stop" /\ req'[c].op = "stop"
        BY <1>1, <2>6, ActsIs DEF StopOne, SameWork
      <3>2. box'[i].state = "running" /\ i # k
        BY <1>2, <2>6, <3>1, StopIs
      <3>3. QED
        BY <2>1, <2>6, <3>1, <3>2 DEF ClaimInv
    <2>7. ASSUME req[c].pc = "act", NEW k \in req[c].left, StartOne(c, k)
          PROVE  i \in req'[c].left
      <3>1. req[c].op \in {"start", "restart"} /\ req'[c].op = req[c].op
        BY <1>1, <2>7, ActsIs DEF StartOne, SameWork
      <3>2. QED
        BY <1>2, <3>1
    <2>8. ASSUME req[c].pc = "act", NEW k \in req[c].left, StopToRemove(c, k)
          PROVE  i \in req'[c].left
      <3>1. req'[c].left = req[c].left /\ req[c].op = "remove"
        BY <1>1, <2>8, StopToRemoveIs
      <3>2. QED
        BY <2>1, <2>8, <3>1 DEF ClaimInv
    <2>9. CASE Fail(c)
      <3>1. req'[c].pc = "failed"
        BY <1>1, <2>9, GoesOn DEF Fail, FailsAt, Answers
      <3>2. QED
        BY <1>2, <3>1
    <2>10. QED
      BY <1>4, <2>2, <2>3, <2>4, <2>5, <2>6, <2>7, <2>8, <2>9 DEF Request, Act
  <1>5. ASSUME NEW d \in Clients, d # c, Request(d), UNCHANGED <<spec, allowed>>
        PROVE  req'[c] = req[c]
    <2>1. Waits(d)
      BY <1>1, <1>5, RequestSound DEF Kept
    <2>2. QED
      BY <1>5, <2>1 DEF Waits
  <1>6. QED
    BY <1>3, <1>4, <1>5 DEF Step, Requests

(* Who succeeds has taken the step. *)
LEMMA SucceedsIs ==
    ASSUME Kept, Step, UNCHANGED <<spec, allowed>>, NEW c \in Clients, NEW op, Succeeds(c, op)
    PROVE  Requests /\ Request(c)
  <1>1. req'[c].pc # req[c].pc
    BY DEF Succeeds, Working
  <1>2. PICK d \in Clients : Requests /\ Request(d)
    BY <1>1 DEF Step, Requests
  <1>3. Waits(d)
    BY <1>2, RequestSound DEF Kept
  <1>4. QED
    BY <1>1, <1>2, <1>3 DEF Waits

(* Nothing is there any more of what a request removed, ... *)
LEMMA RemovesAll ==
    ASSUME Kept, Outcomes, Step, UNCHANGED <<spec, allowed>>, NEW c \in Clients, Succeeds(c, "remove"),
           NEW i \in Ids, Exists(i)'
    PROVE  box'[i].svc \notin claims[c] /\ Requests
  <1>1. TypeOK /\ SeenInv
    BY DEF Kept
  <1>2. Requests /\ Request(c)
    BY SucceedsIs
  <1>3. RemoveOne(c)
    <2>1. req'[c].pc = "ok" /\ req[c].op = "remove" /\ req[c].pc \in Working
      BY DEF Succeeds
    <2>2. List(c) \/ RemoveOne(c)
             \/ (req[c].pc = "act" /\ \E k \in req[c].left : StopOne(c, k) \/ StopToRemove(c, k))
      BY <1>2, <2>1, WorksOn
    <2>3. QED
      BY <1>1, <2>1, <2>2, ListIs, StopToRemoveIs DEF StopOne
  <1>4. req[c].left \ {req[c].at} = {} /\ req[c].pc = "rm" /\ req[c].op = "remove"
    BY <1>1, <1>3, ActsIs DEF RemoveOne, Succeeds
  <1>5. i # req[c].at /\ Exists(i) /\ box'[i].svc = box[i].svc
    BY <1>3, RemoveIs
  <1>6. i \notin Of(claims[c])
    BY <1>4, <1>5 DEF Outcomes, ClaimInv
  <1>7. QED
    BY <1>2, <1>5, <1>6 DEF Of

(* ... nor is anything up of what a request stopped. *)
LEMMA StopsAll ==
    ASSUME Kept, Outcomes, Step, UNCHANGED <<spec, allowed>>, NEW c \in Clients, Succeeds(c, "stop"),
           NEW i \in Ids, box'[i].state = "running"
    PROVE  box'[i].svc \notin claims[c] /\ Requests
  <1>1. TypeOK /\ SeenInv
    BY DEF Kept
  <1>2. Requests /\ Request(c)
    BY SucceedsIs
  <1>3. req[c].pc = "act" /\ \E k \in req[c].left : StopOne(c, k)
    <2>1. req'[c].pc = "ok" /\ req[c].op = "stop" /\ req[c].pc \in Working
      BY DEF Succeeds
    <2>2. List(c) \/ RemoveOne(c)
             \/ (req[c].pc = "act" /\ \E k \in req[c].left : StopOne(c, k) \/ StopToRemove(c, k))
      BY <1>2, <2>1, WorksOn
    <2>3. ~RemoveOne(c)
      BY <2>1 DEF RemoveOne, Kept, Sound, DeployInv, PlaceInv
    <2>4. QED
      BY <1>1, <2>1, <2>2, <2>3, ListIs DEF StopToRemove
  <1>4. PICK k \in req[c].left : StopOne(c, k)
    BY <1>3
  <1>5. req[c].left \ {k} = {}
    BY <1>1, <1>4, ActsIs DEF StopOne, Succeeds
  <1>6. i # k /\ box[i].state = "running" /\ box'[i].svc = box[i].svc
    BY <1>4, StopIs
  <1>7. Exists(i)
    BY <1>6 DEF Exists, Present
  <1>8. i \notin Of(claims[c])
    BY <1>3, <1>4, <1>5, <1>6 DEF Outcomes, ClaimInv, Succeeds
  <1>9. QED
    BY <1>2, <1>6, <1>7, <1>8 DEF Of

-----------------------------------------------------------------------------
(* What a session has seen, and what it makes of it *)

(* A session holds what it held, or what was there when it looked. *)
LEMMA SeenGrows ==
    ASSUME TypeOK, SeenInv, Session
    PROVE  \A i \in Seen' : /\ i \in Ids
                            /\ i \in Seen \/ (Exists(i) /\ new = 0)
                            /\ i \in wasUp' => i \in Seen \cap wasUp \/ box[i].state = "running"
  <1>1. Seen \subseteq Ids /\ (session \in {"removing", "renaming", "booting", "clearing"} => old \in Ids)
    BY Holds
  <1>2. ASSUME NEW k \in Ids, Inspect(k)
        PROVE  \A i \in Seen' : /\ i \in Ids
                                /\ i \in Seen \/ (Exists(i) /\ new = 0)
                                /\ i \in wasUp' => i \in Seen \cap wasUp \/ box[i].state = "running"
    BY <1>1, <1>2 DEF Inspect, Seen, TypeOK, SeenInv
  <1>3. CASE Begin \/ Plan \/ SetUpFails \/ End \/ RenameNew
    BY <1>1, <1>3 DEF Begin, Plan, SetUpFails, End, RenameNew, Seen, SeenInv
  <1>4. CASE RemoveOld \/ Clear \/ StartNew
    <2>1. wasUp' = wasUp /\ old' = 0 /\ found' \subseteq found /\ taken' \subseteq taken \cup ({old} \ {0})
      BY <1>4 DEF RemoveOld, Clear, StartNew, Leaves, SeenInv
    <2>2. Seen' \subseteq Seen
      BY <2>1 DEF Seen
    <2>3. QED
      BY <1>1, <2>1, <2>2
  <1>5. ASSUME NEW k \in Ids, StopOld(k) \/ StopOldFails(k) \/ CreateNew(k) \/ CreateFails(k)
        PROVE  Seen' \subseteq Seen /\ wasUp' = wasUp
    BY <1>5 DEF StopOld, StopOldFails, CreateNew, CreateFails, Seen, SeenInv
  <1>6. QED
    BY <1>1, <1>2, <1>3, <1>4, <1>5 DEF Session

(* It creates a container of a service it has seen only, ... *)
LEMMA OnlyNew ==
    ASSUME TypeOK, SeenInv, Session, NEW i \in Ids, box[i].state = "unused", Exists(i)'
    PROVE  \E j \in Seen : box'[i].svc = box[j].svc
  <1>1. CASE Looks
    BY <1>1 DEF Looks, Begin, Plan, SetUpFails, End, Inspect, StopOldFails, CreateFails, hostVars,
       Exists, Present
  <1>2. CASE RenameNew
    BY <1>2, RenameIs DEF Names, Exists, Present
  <1>3. ASSUME NEW j \in Ids, CreateNew(j)
        PROVE  j \in Seen /\ box'[i].svc = box[j].svc
    <2>1. PICK k \in Ids : Makes(k, box[j].svc, Nameless)
      BY <1>3, CreateIs
    <2>2. i = k
      BY <2>1 DEF Makes, Exists, Present
    <2>3. QED
      BY <1>3, <2>1, <2>2 DEF Makes, CreateNew, Seen
  <1>4. CASE RemoveOld \/ Clear \/ StartNew \/ \E k \in Ids : StopOld(k)
    BY <1>4, SetsOne DEF Sets, Exists, Present
  <1>5. QED
    BY <1>1, <1>2, <1>3, <1>4 DEF Session, Looks

(* ... and starts one of a service it has seen run only, unless it         *)
(* revives.                                                                *)
LEMMA OnlyStarted ==
    ASSUME TypeOK, SeenInv, Session, NEW i \in Ids, box'[i].state = "running", box[i].state # "running"
    PROVE  cfg.revive \/ \E j \in Seen \cap wasUp : box'[i].svc = box[j].svc
  <1>1. CASE Looks
    BY <1>1 DEF Looks, Begin, Plan, SetUpFails, End, Inspect, StopOldFails, CreateFails, hostVars
  <1>2. CASE RenameNew
    BY <1>2, RenameIs DEF Names
  <1>3. ASSUME NEW j \in Ids, CreateNew(j)
        PROVE  FALSE
    <2>1. PICK k \in Ids : Makes(k, box[j].svc, Nameless)
      BY <1>3, CreateIs
    <2>2. box'[i] = box[i] \/ box'[i].state = "created"
      BY <2>1 DEF Makes
    <2>3. QED
      BY <2>2
  <1>4. CASE RemoveOld \/ Clear \/ StartNew \/ \E k \in Ids : StopOld(k)
    <2>1. PICK k \in Ids, st \in Present \cup {"gone"} :
            /\ Sets(k, st)
            /\ st = "running" => \/ box[k].state = "running"
                                 \/ StartNew /\ k = new /\ (old \in wasUp \/ cfg.revive)
      BY <1>4, SetsOne
    <2>2. i = k /\ st = "running" /\ box'[i].svc = box[i].svc
      BY <2>1 DEF Sets
    <2>3. i = new /\ (old \in wasUp \/ cfg.revive) /\ session = "booting"
      BY <2>1, <2>2 DEF StartNew
    <2>4. old \in Seen /\ box[new].svc = box[old].svc
      BY <2>3 DEF TypeOK, SeenInv, Seen
    <2>5. QED
      BY <2>2, <2>3, <2>4
  <1>5. QED
    BY <1>1, <1>2, <1>3, <1>4 DEF Session, Looks

(* What was removed stays gone in every step: a deployment is excepted,    *)
(* and no session holds it.                                                *)
LEMMA GoneKept ==
    ASSUME Kept, Outcomes, Step, History, UNCHANGED <<spec, allowed, cfg>>
    PROVE  GoneInv'
  <1>1. TypeOK /\ SeenInv /\ BoxTypes' /\ Grows /\ Seen \subseteq Ids
    BY StepHost, Holds DEF Kept
  <1>2. \A i \in Seen : box'[i].svc = box[i].svc
    BY <1>1 DEF Grows, SeenInv
  <1>3. CASE Session /\ UNCHANGED req
    <2>1. removed' \subseteq removed
      BY <1>3 DEF History, Succeeds, Working
    <2>2. ASSUME NEW i \in Ids, Exists(i)'
          PROVE  box'[i].svc \notin removed
      <3>1. CASE box[i].state = "unused"
        BY <1>1, <1>3, <2>2, <3>1, OnlyNew DEF Outcomes, GoneInv
      <3>2. CASE box[i].state # "unused"
        BY <1>1, <2>2, <3>2 DEF Grows, Outcomes, GoneInv
      <3>3. QED
        BY <3>1, <3>2
    <2>3. ASSUME NEW i \in Seen'
          PROVE  box'[i].svc \notin removed
      <3>1. i \in Ids /\ (i \in Seen \/ Exists(i))
        BY <1>1, <1>3, <2>3, SeenGrows
      <3>2. box[i].state # "unused" /\ box[i].svc \notin removed
        BY <3>1 DEF Outcomes, GoneInv, SeenInv, Kept, Exists, Present
      <3>3. QED
        BY <1>1, <3>1, <3>2 DEF Grows
    <2>4. QED
      BY <2>1, <2>2, <2>3 DEF GoneInv
  <1>4. CASE Requests
    <2>1. UNCHANGED sessionVars /\ Seen' = Seen /\ Asked = Services
      BY <1>4 DEF Requests, sessionVars, Seen, Asked
    <2>2. SUFFICES ASSUME NEW s \in removed'
                   PROVE  /\ \A i \in Ids : Exists(i)' => box'[i].svc # s
                          /\ \A i \in Seen : box'[i].svc # s
      BY <2>1 DEF GoneInv
    <2>3. /\ s \notin Created \cap Services
          /\ \/ s \in removed
             \/ \E c \in Clients : Succeeds(c, "remove") /\ s \in claims[c] \ Held
      BY <2>1 DEF History
    <2>4. ASSUME NEW i \in Ids, Exists(i)'
          PROVE  box'[i].svc # s
      <3>1. CASE \E c \in Clients : Succeeds(c, "remove") /\ s \in claims[c]
        BY <2>4, <3>1, RemovesAll
      <3>2. CASE s \in removed
        <4>1. SUFFICES ASSUME box'[i].svc = s
                       PROVE  FALSE
          OBVIOUS
        <4>2. s \in Services /\ box'[i].state # "unused"
          BY <1>1, <2>4, <4>1 DEF BoxTypes, Exists, Present
        <4>3. box[i].state # "unused"
          BY <2>3, <4>1, <4>2 DEF Created
        <4>4. QED
          BY <1>1, <2>4, <3>2, <4>1, <4>3 DEF Grows, Outcomes, GoneInv
      <3>3. QED
        BY <2>3, <3>1, <3>2
    <2>5. ASSUME NEW i \in Seen
          PROVE  box'[i].svc # s
      <3>1. box[i].svc \in Held
        BY <2>5 DEF Seen, Held, SeenInv, Kept
      <3>2. QED
        BY <1>2, <2>3, <2>5, <3>1 DEF Outcomes, GoneInv
    <2>6. QED
      BY <2>4, <2>5
  <1>5. QED
    BY <1>3, <1>4 DEF Step

(* What was stopped stays down in every step. *)
LEMMA DownKept ==
    ASSUME Kept, Outcomes, Step, History, UNCHANGED <<spec, allowed, cfg>>
    PROVE  DownInv'
  <1>1. TypeOK /\ SeenInv /\ BoxTypes' /\ Grows /\ Seen \subseteq Ids
    BY StepHost, Holds DEF Kept
  <1>2. \A i \in Seen : box'[i].svc = box[i].svc
    BY <1>1 DEF Grows, SeenInv
  <1>3. cfg.revive => stopped' = {}
    <2>1. \A c \in Clients : claims[c] \subseteq Services
      BY <1>1 DEF TypeOK
    <2>2. ASSUME cfg.revive
          PROVE  stopped' = {}
      <3>1. HeldUp = Services /\ stopped = {}
        BY <2>2 DEF HeldUp, Outcomes, DownInv
      <3>2. QED
        BY <2>1, <3>1 DEF History
    <2>3. QED
      BY <2>2
  <1>4. CASE Session /\ UNCHANGED req
    <2>1. stopped' \subseteq stopped
      BY <1>4 DEF History, Succeeds, Working
    <2>2. ASSUME NEW i \in Ids, box'[i].state = "running"
          PROVE  box'[i].svc \notin stopped
      <3>1. CASE box[i].state = "running"
        BY <1>1, <2>2, <3>1 DEF Grows, Outcomes, DownInv
      <3>2. CASE box[i].state # "running"
        BY <1>1, <1>4, <2>2, <3>2, OnlyStarted DEF Outcomes, DownInv
      <3>3. QED
        BY <3>1, <3>2
    <2>3. ASSUME NEW i \in Seen' \cap wasUp'
          PROVE  box'[i].svc \notin stopped
      <3>1. i \in Ids /\ (i \in Seen \cap wasUp \/ box[i].state = "running")
        BY <1>1, <1>4, <2>3, SeenGrows
      <3>2. box[i].state # "unused" /\ box[i].svc \notin stopped
        BY <3>1 DEF Outcomes, DownInv, SeenInv, Kept
      <3>3. QED
        BY <1>1, <3>1, <3>2 DEF Grows
    <2>4. QED
      BY <1>3, <2>1, <2>2, <2>3 DEF DownInv
  <1>5. CASE Requests
    <2>1. UNCHANGED sessionVars /\ wasUp' = wasUp /\ Seen' = Seen /\ Asked = Services
      BY <1>5 DEF Requests, sessionVars, Seen, Asked
    <2>2. SUFFICES ASSUME NEW s \in stopped', ~cfg.revive
                   PROVE  /\ \A i \in Ids : box'[i].state = "running" => box'[i].svc # s
                          /\ \A i \in Seen \cap wasUp : box'[i].svc # s
      BY <1>3, <2>1 DEF DownInv
    <2>3. /\ s \notin Raised \cap Services
          /\ \/ s \in stopped
             \/ \E c \in Clients : Succeeds(c, "stop") /\ s \in claims[c] \ HeldUp
      BY <2>1 DEF History
    <2>4. ASSUME NEW i \in Ids, box'[i].state = "running"
          PROVE  box'[i].svc # s
      <3>1. CASE \E c \in Clients : Succeeds(c, "stop") /\ s \in claims[c]
        BY <2>4, <3>1, StopsAll
      <3>2. CASE s \in stopped
        <4>1. SUFFICES ASSUME box'[i].svc = s
                       PROVE  FALSE
          OBVIOUS
        <4>2. s \in Services
          BY <1>1, <4>1 DEF BoxTypes
        <4>3. box[i].state = "running"
          BY <2>3, <2>4, <4>1, <4>2 DEF Raised
        <4>4. QED
          BY <1>1, <3>2, <4>1, <4>3 DEF Grows, Outcomes, DownInv
      <3>3. QED
        BY <2>3, <3>1, <3>2
    <2>5. ASSUME NEW i \in Seen \cap wasUp
          PROVE  box'[i].svc # s
      <3>1. box[i].svc \in HeldUp
        BY <2>2, <2>5 DEF Seen, HeldUp, SeenInv, Kept
      <3>2. QED
        BY <1>2, <2>3, <2>5, <3>1 DEF Outcomes, DownInv
    <2>6. QED
      BY <2>4, <2>5
  <1>6. QED
    BY <1>4, <1>5 DEF Step

(* A container that could not be cleared away is one left behind. *)
LEMMA ClearIs ==
    ASSUME TypeOK, SeenInv, BoxTypes, Clear, UNCHANGED box, ~orphaned'
    PROVE  ~Exists(new)
  <1>1. new \in Ids
    BY Holds DEF Clear
  <1>2. CASE box' = (IF Exists(new) THEN [box EXCEPT ![new].state = "gone"] ELSE box)
    <2>1. Exists(new) => box'[new].state = "gone"
      BY <1>1, <1>2 DEF BoxTypes
    <2>2. QED
      BY <2>1 DEF Exists, Present
  <1>3. QED
    BY <1>2 DEF Clear

(* The name of a container follows its service. *)
LEMMA NamesFollow ==
    ASSUME NameInv, SeenInv, BoxTypes, Seen \subseteq Ids, ~orphaned,
           \/ UNCHANGED box
           \/ \E i \in Ids, st \in Present \cup {"gone"} : Sets(i, st)
           \/ \E k \in Ids : \E s, name : Makes(k, s, name)
    PROVE  /\ \A i \in Ids : Exists(i)' /\ box[i].state # "unused" /\ (i = new => session = "booting") =>
                                  box'[i].name = box'[i].svc
           /\ \A i \in Seen : box'[i].name = box'[i].svc
  <1>1. \A i \in Ids : box[i].state # "unused" =>
             /\ box'[i].svc = box[i].svc /\ box'[i].name = box[i].name
             /\ Exists(i)' => Exists(i)
    <2>1. CASE UNCHANGED box
      BY <2>1 DEF Exists
    <2>2. ASSUME NEW i \in Ids, NEW st \in Present \cup {"gone"}, Sets(i, st)
          PROVE  \A j \in Ids : box[j].state # "unused" =>
                   /\ box'[j].svc = box[j].svc /\ box'[j].name = box[j].name
                   /\ Exists(j)' => Exists(j)
      BY <2>2 DEF Sets, Exists
    <2>3. ASSUME NEW k \in Ids, NEW s, NEW name, Makes(k, s, name)
          PROVE  \A j \in Ids : box[j].state # "unused" =>
                   /\ box'[j].svc = box[j].svc /\ box'[j].name = box[j].name
                   /\ Exists(j)' => Exists(j)
      BY <2>3 DEF Makes, Unused, Exists
    <2>4. QED
      BY <2>1, <2>2, <2>3
  <1>2. QED
    BY <1>1 DEF NameInv, SeenInv

(* A request names what it creates by its service. *)
LEMMA RequestsName ==
    ASSUME Kept, NameInv, Requests
    PROVE  NameInv'
  <1>1. TypeOK /\ SeenInv /\ BoxTypes /\ Seen \subseteq Ids
    BY TypesAre, Holds DEF Kept
  <1>2. UNCHANGED <<session, new, orphaned>> /\ Seen' = Seen
    BY DEF Requests, sessionVars, Seen
  <1>3. PICK c \in Clients : Request(c)
    BY DEF Requests
  <1>4. Calls
    BY <1>1, <1>3, RequestCalls DEF Kept
  <1>5. SUFFICES ASSUME ~orphaned
                 PROVE  NameInv'
    BY <1>2 DEF NameInv
  <1>6. /\ \A i \in Ids : Exists(i)' /\ box[i].state # "unused" /\ (i = new => session = "booting") =>
                                  box'[i].name = box'[i].svc
        /\ \A i \in Seen : box'[i].name = box'[i].svc
    BY <1>1, <1>4, <1>5, NamesFollow DEF Calls
  <1>7. \A i \in Ids : Exists(i)' /\ box[i].state = "unused" => box'[i].name = box'[i].svc
    <2>1. ASSUME NEW i \in Ids, Exists(i)', box[i].state = "unused"
          PROVE  box'[i].name = box'[i].svc
      <3>1. PICK k \in Ids, s \in Services : Makes(k, s, s)
        BY <1>4, <2>1 DEF Calls, Sets, Exists, Present
      <3>2. i = k
        BY <2>1, <3>1 DEF Makes, Exists, Present
      <3>3. QED
        BY <3>1, <3>2 DEF Makes
    <2>2. QED
      BY <2>1
  <1>8. QED
    BY <1>2, <1>6, <1>7 DEF NameInv

(* A session gives the new container its name before it starts it, or      *)
(* leaves it behind.                                                       *)
LEMMA SessionNames ==
    ASSUME Kept, NameInv, Session
    PROVE  NameInv'
  <1>1. TypeOK /\ SeenInv /\ BoxTypes /\ Seen \subseteq Ids
    BY TypesAre, Holds DEF Kept
  <1>2. 0 \notin Ids
    BY DEF Ids
  <1>3. ~orphaned' => ~orphaned
    BY <1>1 DEF Session, Begin, Plan, RemoveOld, RenameNew, SetUpFails, Clear, StartNew, End, Inspect,
       StopOld, StopOldFails, CreateNew, CreateFails, TypeOK
  <1>4. SUFFICES ASSUME ~orphaned, ~orphaned'
                 PROVE  NameInv'
    BY <1>3 DEF NameInv
  <1>5. \A i \in Seen' : i \in Ids /\ (i \in Seen \/ (Exists(i) /\ new = 0)) /\ box[i].state # "unused"
    BY <1>1, SeenGrows DEF SeenInv, Exists, Present
  <1>6. CASE RenameNew
    <2>1. Names(new, box[old].name) /\ new \in Ids /\ old \in Ids
      BY <1>1, <1>6, RenameIs
    <2>2. box[old].name = box[old].svc /\ box[new].svc = box[old].svc /\ Seen' = Seen
      BY <1>1, <1>2, <1>4, <1>6, <2>1 DEF RenameNew, NameInv, SeenInv, Seen
    <2>3. \A i \in Ids : i # new => /\ box'[i].name = box[i].name /\ box'[i].svc = box[i].svc
                                    /\ Exists(i)' => Exists(i)
      BY <2>1 DEF Names, Exists
    <2>4. box'[new].name = box'[new].svc
      BY <2>1, <2>2 DEF Names
    <2>5. new' = new
      BY <1>6 DEF RenameNew
    <2>6. QED
      BY <1>1, <1>4, <2>2, <2>3, <2>4, <2>5 DEF NameInv
  <1>7. ASSUME \/ UNCHANGED box
               \/ \E i \in Ids, st \in Present \cup {"gone"} : Sets(i, st)
               \/ \E k \in Ids : \E s, name : Makes(k, s, name)
        PROVE  /\ \A i \in Ids : Exists(i)' /\ box[i].state # "unused" /\ (i = new => session = "booting") =>
                                      box'[i].name = box'[i].svc
               /\ \A i \in Seen' : box'[i].name = box'[i].svc
    <2>1. /\ \A i \in Ids : Exists(i)' /\ box[i].state # "unused" /\ (i = new => session = "booting") =>
                                 box'[i].name = box'[i].svc
          /\ \A i \in Seen : box'[i].name = box'[i].svc
      BY <1>1, <1>4, <1>7, NamesFollow
    <2>2. \A i \in Ids : box[i].state # "unused" /\ Exists(i) /\ new = 0 => box'[i].name = box'[i].svc
      <3>1. \A i \in Ids : Exists(i) /\ i # new => box[i].name = box[i].svc
        BY <1>4 DEF NameInv
      <3>2. \A i \in Ids : box[i].state # "unused" => box'[i].name = box[i].name /\ box'[i].svc = box[i].svc
        BY <1>7 DEF Sets, Makes, Unused
      <3>3. QED
        BY <1>2, <3>1, <3>2
    <2>3. QED
      BY <1>5, <2>1, <2>2
  <1>8. CASE Looks
    <2>1. UNCHANGED <<box, new>> /\ (session' = "booting" => session = "booting")
      BY <1>8 DEF Looks, Begin, Plan, SetUpFails, End, Inspect, StopOldFails, CreateFails, hostVars
    <2>2. \A i \in Ids : Exists(i)' => box[i].state # "unused"
      BY <2>1 DEF Exists, Present
    <2>3. session = "booting" \/ \A i \in Ids : Exists(i) /\ i # new => box[i].name = box[i].svc
      BY <1>4 DEF NameInv
    <2>4. \A i \in Ids : Exists(i)' /\ (i = new => session' = "booting") => box'[i].name = box'[i].svc
      BY <1>7, <2>1, <2>2
    <2>5. QED
      BY <1>7, <2>1, <2>4 DEF NameInv
  <1>9. ASSUME NEW j \in Ids, CreateNew(j)
        PROVE  NameInv'
    <2>1. PICK k \in Ids : k = new' /\ Makes(k, box[j].svc, Nameless)
      BY <1>1, <1>9, CreateIs
    <2>2. session' = "renaming" /\ new = 0
      BY <1>1, <1>9 DEF CreateNew, TypeOK
    <2>3. \A i \in Ids : Exists(i)' /\ i # k => box[i].state # "unused"
      BY <2>1 DEF Makes, Exists, Present
    <2>4. QED
      BY <1>2, <1>7, <2>1, <2>2, <2>3 DEF NameInv
  <1>10. CASE RemoveOld \/ Clear \/ StartNew \/ \E i \in Ids : StopOld(i)
    <2>1. \/ UNCHANGED box
          \/ \E i \in Ids, st \in Present \cup {"gone"} : Sets(i, st) /\ (Clear => i = new /\ st = "gone")
      BY <1>1, <1>10, SetsOne
    <2>2. \A i \in Ids : Exists(i)' => box[i].state # "unused"
      BY <2>1 DEF Sets, Exists, Present
    <2>3. \A i \in Ids : Exists(i)' /\ i = new => session = "booting"
      <3>1. CASE RemoveOld \/ \E i \in Ids : StopOld(i)
        BY <1>1, <1>2, <3>1 DEF RemoveOld, StopOld, TypeOK
      <3>2. CASE StartNew
        BY <3>2 DEF StartNew
      <3>3. CASE Clear
        <4>1. CASE UNCHANGED box
          <5>1. ~Exists(new)
            BY <1>1, <1>4, <3>3, <4>1, ClearIs
          <5>2. QED
            BY <4>1, <5>1 DEF Exists
        <4>2. CASE ~(UNCHANGED box)
          BY <2>1, <3>3, <4>2 DEF Sets, Exists, Present
        <4>3. QED
          BY <4>1, <4>2
      <3>4. QED
        BY <1>10, <3>1, <3>2, <3>3
    <2>4. QED
      BY <1>7, <2>1, <2>2, <2>3 DEF NameInv
  <1>11. QED
    BY <1>6, <1>8, <1>9, <1>10 DEF Session, Looks

-----------------------------------------------------------------------------
(* What holds of sessions and requests at once *)

Settled == Kept /\ Outcomes

(* At the start nothing is claimed, and every container bears its name. *)
LEMMA FirstSettled == Init => Settled
  <1> SUFFICES ASSUME Init
               PROVE  Settled
    OBVIOUS
  <1>1. Kept
    BY FirstKept
  <1>2. \A c \in Clients : ClaimInv(c)
    BY DEF Init, ClaimInv, Of
  <1>3. Seen = {} /\ removed = {} /\ stopped = {} /\ new = 0
    BY DEF Init, Seen
  <1>4. \A i \in Ids : Exists(i) => box[i].name = box[i].svc
    <2>1. ASSUME NEW i \in Ids, Exists(i)
          PROVE  box[i].name = box[i].svc
      <3>1. box[i] = IF i <= Len(Keys)
                       THEN [svc |-> Keys[i], name |-> Keys[i], state |-> cfg.initial[Keys[i]]]
                       ELSE [svc |-> Keys[1], name |-> Nameless, state |-> "unused"]
        BY DEF Init
      <3>2. QED
        BY <2>1, <3>1 DEF Exists, Present
    <2>2. QED
      BY <2>1
  <1>5. QED
    BY <1>1, <1>2, <1>3, <1>4 DEF Settled, Outcomes, GoneInv, DownInv, NameInv

(* Every step keeps all of it. *)
LEMMA NextSettled == Settled /\ [Next]_vars => Settled'
  <1> SUFFICES ASSUME Settled, [Next]_vars
               PROVE  Settled'
    OBVIOUS
  <1>1. Kept'
    BY NextKept DEF Settled
  <1>2. CASE UNCHANGED vars
    <2>1. UNCHANGED <<box, req, cfg, session, found, wasUp, taken, old, new, orphaned,
                      claims, removed, stopped>>
      BY <1>2 DEF vars, hostVars, sessionVars, historyVars
    <2>2. Outcomes'
      BY <2>1 DEF Settled, Outcomes, GoneInv, DownInv, NameInv, ClaimInv, Seen, Of, Exists
    <2>3. QED
      BY <1>1, <2>2 DEF Settled
  <1>3. CASE Step /\ History /\ UNCHANGED <<spec, allowed, cfg>>
    <2>1. GoneInv' /\ DownInv'
      BY <1>3, GoneKept, DownKept DEF Settled
    <2>2. NameInv'
      BY <1>3, RequestsName, SessionNames DEF Settled, Outcomes, Step
    <2>3. \A c \in Clients : ClaimInv(c)'
      BY <1>3, ClaimsKept DEF Settled, Outcomes
    <2>4. QED
      BY <1>1, <2>1, <2>2, <2>3 DEF Settled, Outcomes
  <1>4. QED
    BY <1>2, <1>3 DEF Next, Over

(* So it is always true. *)
LEMMA AlwaysSettled == Spec => []Settled
  BY FirstSettled, NextSettled, PTL DEF Spec

(***************************************************************************)
(* What a request has removed comes back by a deployment only, or by a     *)
(* session that had seen it before: while it was removing the containers   *)
(* one after the other, any number of sessions and requests were at work   *)
(* (RemoveServices, ListSourceContainers, StartTargetContainer).           *)
(***************************************************************************)
THEOREM RemovedStayGone == Spec => []RemovedStaysGone
  <1>1. Settled => RemovedStaysGone
    BY DEF Settled, Outcomes, GoneInv, RemovedStaysGone, Of
  <1>2. QED
    BY <1>1, AlwaysSettled, PTL

(***************************************************************************)
(* What a request has stopped runs again by a request only, or by a        *)
(* session that saw it run, or revives what is stopped (StopServices,      *)
(* StartTargetContainer).                                                  *)
(***************************************************************************)
THEOREM StoppedStayDown == Spec => []StoppedStaysDown
  <1>1. Settled => StoppedStaysDown
    BY DEF Settled, Outcomes, DownInv, StoppedStaysDown, Of
  <1>2. QED
    BY <1>1, AlwaysSettled, PTL

(***************************************************************************)
(* However sessions, deployments, starts and removals interleave, between  *)
(* two sessions no service runs twice, unless a new container could        *)
(* neither be named nor be removed again (StartTargetContainer).           *)
(***************************************************************************)
THEOREM NobodyRunsTwice == Spec => []NoTwins
  <1>1. Settled => NoTwins
    <2>1. SUFFICES ASSUME Settled, session = "idle", ~orphaned, NEW s \in Services
                   PROVE  Cardinality({i \in Of({s}) : box[i].state = "running"}) <= 1
      BY DEF NoTwins
    <2> DEFINE R == {i \in Of({s}) : box[i].state = "running"}
    <2>2. BoxTypes /\ Nameless \notin Services /\ new = 0 /\ 0 \notin Ids
      BY <2>1, TypesAre, RequestsAssumption DEF Settled, Kept, TypeOK, Ids
    <2>3. \A i \in R : i \in Ids /\ Exists(i) /\ box[i].name = s
      BY <2>1, <2>2 DEF Settled, Outcomes, NameInv, Of
    <2>4. \A i, j \in R : i = j
      BY <2>2, <2>3 DEF BoxTypes, Exists
    <2>5. PICK x : R \ {} \subseteq {x}
      BY <2>4
    <2> HIDE DEF R
    <2>6. R \ {} = R /\ R \subseteq {} \cup {x}
      BY <2>5
    <2>7. Cardinality(R \ {}) <= 1
      BY <2>6, OneLeft
    <2>8. Cardinality(R) <= 1
      BY <2>6, <2>7
    <2>9. QED
      BY <2>8 DEF R
  <1>2. QED
    BY <1>1, AlwaysSettled, PTL
=============================================================================
