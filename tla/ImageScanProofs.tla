-------------------------- MODULE ImageScanProofs ---------------------------
(***************************************************************************)
(* What a scan, a check and a download find out about the images, for      *)
(* every set of containers, images and registries.                         *)
(***************************************************************************)
EXTENDS ImageScan, TLAPS

Idlers == {"list", "next", "done", "failed"}

(* The types, with the container at hand where a step needs one. *)
HandInv ==
    /\ TypeOK
    /\ pc \notin Idlers => at \in Containers

LEMMA CaseTypes ==
    ASSUME cfg \in Cases
    PROVE  /\ cfg.ref \in [Containers -> {"tag", "digest", "id", "odd"}]
           /\ cfg.running \in [Containers -> Images]
           /\ cfg.job \in {"session", "check", "download"}
           /\ cfg.registry \in Registries
  BY ImageScanAssumption DEF Case

LEMMA RegistryTypes ==
    ASSUME reg \in Registries
    PROVE  reg.front \in Hosts /\ reg.realm \in Hosts \cup {NoHost}
  BY RegistryAssumption DEF Registry, Hosts

(* A round of the registry's keeps the types, and its answers name the tag's image. *)
LEMMA RoundTypes ==
    ASSUME RoundTypeOK, UNCHANGED <<reg, published>>, NEW D, NEW P, NEW C, Round(D, P, C)
    PROVE  /\ RoundTypeOK'
           /\ round' # "idle" /\ digest' \in {digest, NoDigest, published}
  <1>1. \A reply : Elsewhere(reply) \subseteq Hosts
    BY DEF Elsewhere, RoundTypeOK, Hosts
  <1>2. CASE Inspect(D, P)
    BY <1>2 DEF Inspect, Refused, Answered, RoundTypeOK, Rounds
  <1>3. CASE Challenge(C)
    BY <1>3 DEF Challenge, Refused, RoundTypeOK, Rounds
  <1>4. CASE Bearer
    BY <1>4, RegistryTypes DEF Bearer, FirstHost, Refused, RoundTypeOK, Rounds
  <1>5. CASE Manifest
    <2>1. CASE Refused /\ UNCHANGED host
      BY <1>5, <2>1 DEF Manifest, Refused, RoundTypeOK, Rounds
    <2>2. ASSUME NEW reply \in Replies, Retries(reply)
          PROVE  host' \in Hosts /\ round' \in {"retry", "answered"} /\ digest' \in {digest, NoDigest}
      BY <1>1, <2>2 DEF Retries, Answered
    <2>3. ASSUME NEW reply \in Replies, UNCHANGED host,
                 \/ reply = "found" /\ Answered(published)
                 \/ Useless(reply) /\ Answered(NoDigest)
                 \/ reply # "found" /\ ~Useless(reply) /\ Refused
          PROVE  /\ host' \in Hosts /\ round' \in {"answered", "refused"}
                 /\ digest' \in {digest, NoDigest, published}
      BY <2>3 DEF Answered, Refused, RoundTypeOK
    <2>4. UNCHANGED <<method, challengeHost>>
      BY <1>5 DEF Manifest
    <2>5. QED
      BY <1>5, <2>1, <2>2, <2>3, <2>4 DEF Manifest, RoundTypeOK, Rounds
  <1>6. QED
    BY <1>2, <1>3, <1>4, <1>5 DEF Round

LEMMA AskTypes ==
    ASSUME RoundTypeOK, UNCHANGED <<reg, published>>,
           Asks("HEAD") \/ Asks("GET") \/ Forgets \/ UNCHANGED roundVars
    PROVE  RoundTypeOK' /\ digest' \in {digest, NoDigest}
  BY RegistryTypes DEF RoundTypeOK, Rounds, Methods, Asks, Forgets, roundVars

LEMMA InitHand == Init => HandInv
  <1> SUFFICES ASSUME Init
               PROVE  HandInv
    OBVIOUS
  <1>1. cfg \in Cases /\ reg \in Registries
    BY CaseTypes DEF Init
  <1>2. RoundTypeOK
    BY <1>1, RegistryTypes DEF Init, RoundInit, RoundTypeOK, Rounds, Methods
  <1>3. QED
    BY <1>1, <1>2 DEF Init, RoundInit, HandInv, TypeOK, States, Ended, Verdicts, Idlers

(* What the job does to the variables that are not of the round. *)
LEMMA LoopHands ==
    ASSUME HandInv, Rest, UNCHANGED tag,
           \/ List \/ Cancelled \/ Finish \/ MoveOn
           \/ \E c \in Containers :
                PickPinned(c) \/ PickForSession(c) \/ PickForCheck(c) \/ PickForDownload(c)
    PROVE  HandInv'
  <1>1. RoundTypeOK' /\ round' = round
    BY AskTypes DEF HandInv, TypeOK, Rest, List, Cancelled, Finish, MoveOn, PickPinned,
                    PickForSession, PickForCheck, PickForDownload, Pick, roundVars
  <1>2. round = "idle" /\ round' = "idle"
    BY <1>1 DEF HandInv, TypeOK, List, Cancelled, Finish, MoveOn, PickPinned,
                PickForSession, PickForCheck, PickForDownload, Pick
  <1>3. CASE List \/ Cancelled \/ Finish
    BY <1>1, <1>2, <1>3 DEF List, Cancelled, Finish, Goto, Rest, HandInv, TypeOK, States, Ended, Idlers
  <1>4. CASE MoveOn
    <2>1. verdict' \in [Containers -> Verdicts]
      BY <1>4 DEF MoveOn, HandInv, TypeOK, Idlers
    <2>2. pc' \in {"next", "failed"} /\ at' = Nobody /\ left' \subseteq Containers
      BY <1>4 DEF MoveOn, HandInv, TypeOK
    <2>3. QED
      BY <1>1, <1>2, <1>4, <2>1, <2>2 DEF MoveOn, Rest, HandInv, TypeOK, States, Ended, Idlers
  <1>5. ASSUME NEW c \in Containers,
               PickPinned(c) \/ PickForSession(c) \/ PickForCheck(c) \/ PickForDownload(c)
        PROVE  HandInv'
    <2>1. Pick(c)
      BY <1>5 DEF PickPinned, PickForSession, PickForCheck, PickForDownload
    <2>2. \/ \E v \in {"pinned", "failed"} : Judge(c, v, NoDigest)
          \/ \E s \in {"panicked", "compare", "auth", "pull"} : Goto(s)
      BY <1>5 DEF PickPinned, PickForSession, PickForCheck, PickForDownload, Fail
    <2>3. /\ verdict' \in [Containers -> Verdicts]
          /\ upgrade' \in [Containers -> Images \cup {NoDigest}]
          /\ pc' \in {"judged", "panicked", "compare", "auth", "pull"}
      BY <2>2 DEF Judge, Goto, HandInv, TypeOK, Verdicts
    <2>4. QED
      BY <1>1, <1>2, <2>1, <2>3
         DEF Pick, Rest, HandInv, TypeOK, RoundTypeOK, States, Ended, Idlers
  <1>6. QED
    BY <1>3, <1>4, <1>5

(* The steps for the container at hand end it or take it on. *)
LEMMA DigestHands ==
    ASSUME HandInv, Rest, UNCHANGED tag,
           Authenticate \/ AskRegistry \/ HeadUseless \/ Compare \/ CheckAnswered
    PROVE  HandInv'
  <1>1. at \in Containers
    BY DEF HandInv, Authenticate, AskRegistry, HeadUseless, Compare, CheckAnswered, Idlers
  <1>2. RoundTypeOK'
    <2>1. CASE AskRegistry
      BY <2>1, RoundTypes DEF AskRegistry, HandInv, TypeOK, Rest
    <2>2. CASE ~AskRegistry
      BY <2>2, AskTypes DEF Authenticate, HeadUseless, Compare, CheckAnswered, HandInv, TypeOK, Rest
    <2>3. QED
      BY <2>1, <2>2
  <1>3. /\ verdict' \in [Containers -> Verdicts]
        /\ upgrade' \in [Containers -> Images \cup {NoDigest}]
    <2>1. \/ UNCHANGED <<verdict, upgrade>>
          \/ \E v \in Verdicts, d \in {NoDigest, digest} : Judge(at, v, d)
      BY DEF Authenticate, AskRegistry, HeadUseless, Compare, CheckAnswered, Goto, Fail, Judge,
             scanVars, Verdicts
    <2>2. QED
      BY <2>1 DEF Judge, HandInv, TypeOK, RoundTypeOK
  <1>4. /\ pc' \in {"judged", "get", "pull", "head", "compare", "panicked"}
        /\ round' # "idle" => pc' \in {"head", "get"}
        /\ UNCHANGED <<left, at, pulled, torn, seen, overtaken>>
    BY DEF Authenticate, AskRegistry, HeadUseless, Compare, CheckAnswered, Goto, Fail, Judge,
           Forgets, Asks, scanVars, roundVars, HandInv, TypeOK
  <1>5. QED
    BY <1>1, <1>2, <1>3, <1>4 DEF Rest, HandInv, TypeOK, States, Ended, Idlers

LEMMA ImageHands ==
    ASSUME HandInv, Rest, (UNCHANGED tag /\ HasNewImage) \/ Pull
    PROVE  HandInv'
  <1>1. at \in Containers /\ round = "idle" /\ pc \in {"compare", "pull"}
    BY DEF HandInv, TypeOK, HasNewImage, Pull, Idlers
  <1>2. Named(at) \in Images /\ published \in Images /\ NoDigest \in Images \cup {NoDigest}
    BY <1>1, CaseTypes DEF HandInv, TypeOK, RoundTypeOK, Named
  <1>3. /\ verdict' \in [Containers -> Verdicts]
        /\ upgrade' \in [Containers -> Images \cup {NoDigest}]
    BY <1>1, <1>2 DEF HasNewImage, Pull, Fail, Judge, Goto, Verdicts, HandInv, TypeOK
  <1>4. /\ pc' \in {"judged", "compare"} /\ tag' \in {tag, published}
        /\ pulled' \in BOOLEAN /\ torn' \in BOOLEAN
        /\ UNCHANGED <<left, at, seen, overtaken, roundVars>>
    BY DEF HasNewImage, Pull, Fail, Judge, Goto, HandInv, TypeOK
  <1>5. QED
    BY <1>1, <1>2, <1>3, <1>4, AskTypes
       DEF Rest, HandInv, TypeOK, States, Ended, Idlers, roundVars

LEMMA OthersHand ==
    ASSUME HandInv, Publish \/ ForeignPullStarts \/ ForeignPullEnds \/ UNCHANGED vars
    PROVE  HandInv'
  BY DEF Publish, ForeignPullStarts, ForeignPullEnds, vars, scanVars, roundVars,
         HandInv, TypeOK, RoundTypeOK, Idlers

LEMMA NextHand == HandInv /\ [Next]_vars => HandInv'
  BY LoopHands, DigestHands, ImageHands, OthersHand DEF Next, Job, Over

(* Every variable holds a value of its kind (pkg/container/client.go, pkg/registry/digest). *)
THEOREM ScanTyping == Spec => []TypeOK
  <1>1. HandInv => TypeOK
    BY DEF HandInv
  <1>2. QED
    BY <1>1, InitHand, NextHand, PTL DEF Spec

-----------------------------------------------------------------------------
(***************************************************************************)
(* Currency: a digest had from the registry, and the tag after a pull that *)
(* was neither torn nor overtaken, name an image the registry's tag has    *)
(* had since the container was begun.                                      *)
(***************************************************************************)
SeenInv ==
    /\ published \notin cfg.built /\ seen \cap cfg.built = {}
    /\ at # Nobody => published \in seen
    /\ digest # NoDigest => pc \in {"head", "get"} /\ digest \in seen

CompareInv ==
    /\ pc \in {"head", "compare"} => cfg.job = "session"
    /\ cfg.job = "session" /\ pc \in {"auth", "head", "get", "pull", "compare"} => cfg.ref[at] # "digest"
    /\ (pc = "auth" => cfg.job # "download") /\ (pc = "pull" => cfg.job # "check")
    /\ pulled => pc \in {"compare", "judged"}
    /\ pc = "compare" => at \in cfg.noPull \/ pulled \/ cfg.running[at] \in seen
    /\ pc = "compare" /\ pulled /\ ~torn /\ ~overtaken => cfg.ref[at] = "tag" /\ tag \in seen

CurrencyInv == HandInv /\ SeenInv /\ CompareInv /\ VerdictIsCurrent /\ ListedIsNews

LEMMA LoopSees ==
    ASSUME CurrencyInv, Rest, UNCHANGED tag,
           \/ List \/ Cancelled \/ Finish \/ MoveOn
           \/ \E c \in Containers :
                PickPinned(c) \/ PickForSession(c) \/ PickForCheck(c) \/ PickForDownload(c)
    PROVE  SeenInv' /\ CompareInv' /\ VerdictIsCurrent' /\ ListedIsNews'
  <1>1. digest' = digest /\ digest = NoDigest
    BY DEF List, Cancelled, Finish, MoveOn, PickPinned, PickForSession, PickForCheck,
           PickForDownload, Pick, roundVars, CurrencyInv, SeenInv
  <1>2. CASE List \/ Cancelled \/ Finish \/ MoveOn
    <2>1. pc' \in {"next", "failed", "done"} /\ ~pulled'
      BY <1>2 DEF List, Cancelled, Finish, MoveOn, Goto, CurrencyInv, CompareInv
    <2>2. SeenInv'
      <3>1. CASE MoveOn
        BY <1>1, <3>1 DEF MoveOn, Rest, CurrencyInv, SeenInv
      <3>2. CASE ~MoveOn
        BY <1>1, <1>2, <3>2 DEF List, Cancelled, Finish, Rest, CurrencyInv, SeenInv
      <3>3. QED
        BY <3>1, <3>2
    <2>3. QED
      BY <2>1, <2>2 DEF CompareInv, VerdictIsCurrent, ListedIsNews
  <1>3. ASSUME NEW c \in Containers,
               PickPinned(c) \/ PickForSession(c) \/ PickForCheck(c) \/ PickForDownload(c)
        PROVE  SeenInv' /\ CompareInv' /\ VerdictIsCurrent' /\ ListedIsNews'
    <2>1. Pick(c) /\ pc = "next" /\ ~pulled /\ at' = c /\ seen' = {published}
      BY <1>3 DEF PickPinned, PickForSession, PickForCheck, PickForDownload, Pick, CurrencyInv, CompareInv
    <2>2. SeenInv'
      BY <1>1, <2>1 DEF Rest, CurrencyInv, SeenInv
    <2>3. /\ pc' = "compare" => cfg.job = "session" /\ c \in cfg.noPull
          /\ pc' # "head" /\ ~pulled'
          /\ (pc' = "auth" => cfg.job # "download") /\ (pc' = "pull" => cfg.job # "check")
          /\ cfg.job = "session" /\ pc' # "judged" => cfg.ref[c] # "digest"
          /\ pc' = "judged" => verdict'[c] \in {"pinned", "failed"}
      BY <1>3, <2>1 DEF PickPinned, PickForSession, PickForCheck, PickForDownload, Pick, Fail, Judge,
                        Goto, CurrencyInv, HandInv, TypeOK
    <2>4. CompareInv'
      BY <2>1, <2>3 DEF CompareInv, Rest
    <2>5. VerdictIsCurrent' /\ ListedIsNews'
      BY <2>1, <2>3 DEF VerdictIsCurrent, ListedIsNews
    <2>6. QED
      BY <2>2, <2>4, <2>5
  <1>4. QED
    BY <1>2, <1>3

LEMMA DigestSees ==
    ASSUME CurrencyInv, Rest, UNCHANGED tag,
           Authenticate \/ AskRegistry \/ HeadUseless \/ Compare \/ CheckAnswered
    PROVE  SeenInv' /\ CompareInv' /\ VerdictIsCurrent' /\ ListedIsNews'
  <1>1. /\ at \in Containers /\ pc \in {"auth", "head", "get"} /\ ~pulled
        /\ UNCHANGED <<left, at, pulled, torn, seen, overtaken>>
    BY DEF Authenticate, AskRegistry, HeadUseless, Compare, CheckAnswered, CurrencyInv, HandInv,
           CompareInv, Idlers, scanVars
  <1>2. /\ UNCHANGED cfg /\ published \in seen /\ Nobody \notin Containers
        /\ published' = published
    BY <1>1, ImageScanAssumption DEF CurrencyInv, SeenInv, Rest
  <1>3. CASE AskRegistry
    <2>1. digest' \in {digest, NoDigest, published}
      BY <1>3, RoundTypes DEF AskRegistry, CurrencyInv, HandInv, TypeOK, Rest
    <2>2. pc' = pc /\ pc \in {"head", "get"}
      BY <1>3 DEF AskRegistry, scanVars
    <2>3. QED
      BY <1>1, <1>2, <2>1, <2>2
         DEF CurrencyInv, SeenInv, CompareInv, VerdictIsCurrent, ListedIsNews
  <1>4. CASE ~AskRegistry
    <2>1. digest' = NoDigest
      BY <1>4 DEF Authenticate, HeadUseless, Compare, CheckAnswered, Asks, Forgets, roundVars,
                  CurrencyInv, SeenInv
    <2>2. SeenInv'
      BY <1>1, <1>2, <2>1 DEF CurrencyInv, SeenInv
    <2>3. digest # NoDigest => digest \in seen \ cfg.built
      BY DEF CurrencyInv, SeenInv
    <2>4. CASE Authenticate \/ HeadUseless
      <3>1. /\ pc' \in {"judged", "get", "head", "pull"}
            /\ pc' \in {"head", "pull"} => cfg.job = "session"
            /\ pc' = "judged" => verdict'[at] = "failed"
        BY <2>4, <1>1, CaseTypes
           DEF Authenticate, HeadUseless, Goto, Fail, Judge, CurrencyInv, HandInv, TypeOK, CompareInv
      <3>2. QED
        BY <1>1, <1>2, <2>2, <3>1 DEF CurrencyInv, CompareInv, VerdictIsCurrent, ListedIsNews
    <2>5. CASE Compare
      <3>1. /\ pc' \in {"pull", "compare"} /\ cfg.job = "session"
            /\ pc' = "compare" => DigestsMatch(at, digest)
        BY <2>5 DEF Compare, Goto
      <3>2. pc' = "compare" => cfg.running[at] \in seen
        BY <3>1, <2>3, <1>1, CaseTypes, RegistryAssumption
           DEF DigestsMatch, CurrencyInv, HandInv, TypeOK
      <3>3. QED
        BY <1>1, <1>2, <2>2, <3>1, <3>2 DEF CurrencyInv, CompareInv, VerdictIsCurrent, ListedIsNews
    <2>6. CASE CheckAnswered
      <3>1. \/ pc' = "panicked"
            \/ pc' = "judged" /\ verdict'[at] = "failed"
            \/ pc' = "judged" /\ verdict'[at] = "current" /\ DigestsMatch(at, digest)
            \/ /\ pc' = "judged" /\ verdict'[at] = "listed" /\ upgrade'[at] = digest
               /\ ~DigestsMatch(at, digest)
        BY <2>6, <1>1 DEF CheckAnswered, Goto, Fail, Judge, CurrencyInv, HandInv, TypeOK
      <3>2. DigestsMatch(at, digest) => cfg.running[at] \in seen
        BY <2>3, <1>1, CaseTypes, RegistryAssumption
           DEF DigestsMatch, CurrencyInv, HandInv, TypeOK
      <3>3. digest # NoDigest /\ ~DigestsMatch(at, digest) => digest \in seen \ {cfg.running[at]}
        BY <2>3 DEF DigestsMatch
      <3>4. QED
        BY <1>1, <1>2, <2>2, <3>1, <3>2, <3>3
           DEF CurrencyInv, CompareInv, VerdictIsCurrent, ListedIsNews
    <2>7. QED
      BY <1>4, <2>4, <2>5, <2>6
  <1>5. QED
    BY <1>3, <1>4

LEMMA ImageSees ==
    ASSUME CurrencyInv, Rest, (UNCHANGED tag /\ HasNewImage) \/ Pull
    PROVE  SeenInv' /\ CompareInv' /\ VerdictIsCurrent' /\ ListedIsNews'
  <1>1. /\ at \in Containers /\ pc \in {"compare", "pull"} /\ digest = NoDigest
        /\ UNCHANGED <<at, seen, overtaken, digest, cfg, published>>
    BY DEF HasNewImage, Pull, Rest, roundVars, CurrencyInv, HandInv, SeenInv, Idlers
  <1>2. SeenInv' /\ published \in seen
    BY <1>1, ImageScanAssumption DEF CurrencyInv, SeenInv
  <1>3. CASE HasNewImage
    <2>1. /\ pc' = "judged" /\ UNCHANGED <<pulled, torn>>
          /\ \/ verdict'[at] = "failed"
             \/ verdict'[at] = "fresh" /\ Named(at) = cfg.running[at]
             \/ verdict'[at] = "stale" /\ Named(at) # cfg.running[at] /\ upgrade'[at] = Named(at)
      BY <1>1, <1>3 DEF HasNewImage, Fail, Judge, CurrencyInv, HandInv, TypeOK
    <2>2. pulled /\ ~torn /\ ~overtaken => Named(at) \in seen
      BY <1>3 DEF HasNewImage, Named, CurrencyInv, CompareInv
    <2>3. at \in cfg.noPull \/ pulled \/ cfg.running[at] \in seen
      BY <1>3 DEF HasNewImage, CurrencyInv, CompareInv
    <2>4. QED
      BY <1>1, <1>2, <2>1, <2>2, <2>3 DEF CompareInv, VerdictIsCurrent, ListedIsNews
  <1>4. CASE Pull
    <2>1. CASE pc' = "judged"
      <3>1. verdict'[at] \in {"failed", "downloaded"}
        BY <1>1, <1>4, <2>1 DEF Pull, Fail, Judge, Goto, CurrencyInv, HandInv, TypeOK
      <3>2. QED
        BY <1>1, <1>2, <2>1, <3>1 DEF CompareInv, VerdictIsCurrent, ListedIsNews
    <2>2. CASE pc' # "judged"
      <3>1. /\ pc = "pull" /\ pc' = "compare" /\ cfg.job # "download" /\ pulled'
            /\ cfg.ref[at] \in {"tag", "digest"}
            /\ ~torn' => tag' = (IF cfg.ref[at] = "tag" THEN published ELSE tag)
        BY <1>4, <2>2 DEF Pull, Fail, Judge, Goto, Pullable
      <3>2. cfg.job = "session" => cfg.ref[at] = "tag"
        BY <3>1 DEF CurrencyInv, CompareInv
      <3>3. cfg.job = "session"
        BY <3>1, CaseTypes DEF CurrencyInv, CompareInv, HandInv, TypeOK
      <3>4. QED
        BY <1>1, <1>2, <3>1, <3>2, <3>3 DEF CompareInv, VerdictIsCurrent, ListedIsNews
    <2>3. QED
      BY <2>1, <2>2
  <1>5. QED
    BY <1>3, <1>4

LEMMA OthersSee ==
    ASSUME CurrencyInv, Publish \/ ForeignPullStarts \/ ForeignPullEnds \/ UNCHANGED vars
    PROVE  SeenInv' /\ CompareInv' /\ VerdictIsCurrent' /\ ListedIsNews'
  <1>1. CASE Publish
    <2>1. /\ UNCHANGED <<cfg, tag, pc, left, at, verdict, upgrade, pulled, torn, overtaken, digest>>
          /\ seen' = (IF at = Nobody THEN seen ELSE seen \cup {published'})
          /\ published' \notin cfg.built
      BY <1>1 DEF Publish, scanVars, roundVars
    <2>2. seen \subseteq seen'
      BY <2>1
    <2>3. QED
      BY <2>1, <2>2 DEF CurrencyInv, SeenInv, CompareInv, VerdictIsCurrent, ListedIsNews
  <1>2. CASE ForeignPullStarts \/ UNCHANGED vars
    BY <1>2 DEF ForeignPullStarts, vars, scanVars, roundVars, CurrencyInv, SeenInv, CompareInv,
                VerdictIsCurrent, ListedIsNews
  <1>3. CASE ForeignPullEnds
    <2>1. UNCHANGED <<cfg, published, pc, left, at, verdict, upgrade, pulled, torn, seen, digest>>
      BY <1>3 DEF ForeignPullEnds, scanVars, roundVars
    <2>2. pc \in {"compare", "judged"} => overtaken'
      BY <1>3, ImageScanAssumption DEF ForeignPullEnds, CurrencyInv, HandInv, Idlers
    <2>3. QED
      BY <2>1, <2>2 DEF CurrencyInv, SeenInv, CompareInv, VerdictIsCurrent, ListedIsNews
  <1>4. QED
    BY <1>1, <1>2, <1>3

LEMMA Currency == Spec => []CurrencyInv
  <1>1. Init => CurrencyInv
    <2> SUFFICES ASSUME Init
                 PROVE  CurrencyInv
      OBVIOUS
    <2>1. HandInv
      BY InitHand
    <2>2. SeenInv /\ CompareInv /\ VerdictIsCurrent /\ ListedIsNews
      BY DEF Init, RoundInit, SeenInv, CompareInv, VerdictIsCurrent, ListedIsNews
    <2>3. QED
      BY <2>1, <2>2 DEF CurrencyInv
  <1>2. CurrencyInv /\ [Next]_vars => CurrencyInv'
    <2> SUFFICES ASSUME CurrencyInv, [Next]_vars
                 PROVE  CurrencyInv'
      OBVIOUS
    <2>1. HandInv'
      BY NextHand DEF CurrencyInv
    <2>2. SeenInv' /\ CompareInv' /\ VerdictIsCurrent' /\ ListedIsNews'
      BY LoopSees, DigestSees, ImageSees, OthersSee DEF Next, Job, Over
    <2>3. QED
      BY <2>1, <2>2 DEF CurrencyInv
  <1>3. QED
    BY <1>1, <1>2, PTL DEF Spec

(***************************************************************************)
(* A scan that pulls follows the registry: fresh is an image the tag had   *)
(* meanwhile, stale is one, and not the container's own (IsContainerStale, *)
(* shouldSkipPull, performImagePull and HasNewImage).                      *)
(***************************************************************************)
THEOREM VerdictsAreCurrent == Spec => []VerdictIsCurrent
  <1>1. CurrencyInv => VerdictIsCurrent
    BY DEF CurrencyInv
  <1>2. QED
    BY <1>1, Currency, PTL

(***************************************************************************)
(* A check lists with a digest only what the registry's tag had meanwhile  *)
(* and the container does not run (CheckForUpdates, FetchDigest).          *)
(***************************************************************************)
THEOREM ListingsAreNews == Spec => []ListedIsNews
  <1>1. CurrencyInv => ListedIsNews
    BY DEF CurrencyInv
  <1>2. QED
    BY <1>1, Currency, PTL

-----------------------------------------------------------------------------
(* Answers: whoever has none is still ahead, or at hand. *)
AnswerInv ==
    /\ \A c \in Containers : verdict[c] = "none" => c \in left \/ (c = at /\ pc # "judged")
    /\ (pc = "done" => left = {}) /\ at \notin left

LEMMA NextAnswers == HandInv /\ HandInv' /\ AnswerInv /\ [Next]_vars => AnswerInv'
  <1> SUFFICES ASSUME HandInv, HandInv', AnswerInv, [Next]_vars
               PROVE  AnswerInv'
    OBVIOUS
  <1>1. CASE List \/ Cancelled \/ Finish
    BY <1>1, ImageScanAssumption DEF List, Cancelled, Finish, Goto, HandInv, TypeOK, AnswerInv
  <1>2. CASE MoveOn
    <2>1. verdict[at] # "none" /\ at \in Containers
      BY <1>2 DEF MoveOn, HandInv, AnswerInv, Idlers, TypeOK
    <2>2. \A c \in Containers : verdict'[c] = IF c \in left \ left' THEN verdict[at] ELSE verdict[c]
      BY <1>2 DEF MoveOn
    <2>3. QED
      BY <1>2, <2>1, <2>2, ImageScanAssumption DEF MoveOn, AnswerInv, HandInv, TypeOK
  <1>3. ASSUME NEW c \in Containers,
               PickPinned(c) \/ PickForSession(c) \/ PickForCheck(c) \/ PickForDownload(c)
        PROVE  AnswerInv'
    <2>1. /\ pc = "next" /\ at' = c /\ left' = left \ {c} /\ at = Nobody
          /\ pc' # "done" /\ \A d \in Containers : d # c => verdict'[d] = verdict[d]
          /\ pc' = "judged" => verdict'[c] # "none"
      BY <1>3 DEF PickPinned, PickForSession, PickForCheck, PickForDownload, Pick, Fail, Judge, Goto,
                  HandInv, TypeOK
    <2>2. QED
      BY <2>1, ImageScanAssumption DEF AnswerInv
  <1>4. CASE Authenticate \/ AskRegistry \/ HeadUseless \/ Compare \/ CheckAnswered \/ HasNewImage \/ Pull
    <2>1. /\ at \in Containers /\ UNCHANGED <<left, at>> /\ pc \notin {"done", "judged"}
          /\ pc' # "done" /\ \A d \in Containers : d # at => verdict'[d] = verdict[d]
          /\ pc' = "judged" => verdict'[at] # "none"
      BY <1>4 DEF Authenticate, AskRegistry, HeadUseless, Compare, CheckAnswered, HasNewImage, Pull,
                  Fail, Judge, Goto, scanVars, HandInv, TypeOK, Idlers
    <2>2. QED
      BY <2>1 DEF AnswerInv
  <1>5. CASE Publish \/ ForeignPullStarts \/ ForeignPullEnds \/ UNCHANGED vars
    BY <1>5 DEF Publish, ForeignPullStarts, ForeignPullEnds, vars, scanVars, AnswerInv
  <1>6. QED
    BY <1>1, <1>2, <1>3, <1>4, <1>5 DEF Next, Job, Over

(***************************************************************************)
(* A job that ends has an answer for every container, whatever failed for  *)
(* others (Update's scan, CheckForUpdates and DownloadImages).             *)
(***************************************************************************)
THEOREM NobodyIsPassedOver == Spec => []EveryoneIsJudged
  <1>1. Init => HandInv /\ AnswerInv
    <2>1. Init => AnswerInv
      BY ImageScanAssumption DEF Init, AnswerInv
    <2>2. QED
      BY <2>1, InitHand
  <1>2. HandInv /\ AnswerInv => EveryoneIsJudged
    BY ImageScanAssumption DEF HandInv, TypeOK, AnswerInv, EveryoneIsJudged
  <1>3. QED
    BY <1>1, <1>2, NextHand, NextAnswers, PTL DEF Spec
=============================================================================
