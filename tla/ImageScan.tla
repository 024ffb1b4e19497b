----------------------------- MODULE ImageScan ------------------------------
(***************************************************************************)
(* What Watchtower finds out about the images of its containers: the scan  *)
(* of an update session (IsContainerStale), the check of the HTTP API      *)
(* (CheckForUpdates) and the download (DownloadImages).  The containers    *)
(* that are named by a tag share one tag; the tag moves in the registry,   *)
(* and a deployment, which takes no lock, may pull it meanwhile.           *)
(***************************************************************************)
EXTENDS RegistryDigest

CONSTANTS
    Containers,  \* the containers listed
    Nobody,      \* no container
    Cases        \* the jobs and hosts to consider

(* How a container's image is named: by a tag, by a digest, by an image    *)
(* identifier, or by a label that is no reference.                         *)
Case ==
    [job     : {"session", "check", "download"},
     ref     : [Containers -> {"tag", "digest", "id", "odd"}],
     running : [Containers -> Images],
     known   : SUBSET Containers,   \* the daemon still knows their image
     noPull  : SUBSET Containers,
     creds   : {"env", "file", "none", "unreadable"},
     built   : SUBSET Images,       \* built here: without digests
     registry : Registries]

ASSUME ImageScanAssumption ==
    /\ Nobody \notin Containers
    /\ Cases \subseteq Case

VARIABLES
    cfg,       \* the case
    tag,       \* the image the daemon's tag refers to
    foreign,   \* the image another pull is about to tag, or NoDigest
    pc,        \* where the job stands
    left,      \* the containers it has not come to
    at,        \* the container it is at
    verdict,   \* what it has found out about each
    upgrade,   \* the image, or upstream digest, it found for each
    pulled,    \* the pull for at has ended without an error
    seen,      \* the images the registry's tag has had since at was begun
    torn,      \* an error came inside the stream of at's pull
    overtaken  \* another pull has moved the tag since at was begun

scanVars == <<pc, left, at, verdict, upgrade, pulled, torn>>
vars == <<reg, published, roundVars, cfg, tag, foreign, scanVars, seen, overtaken>>

Ended    == {"done", "failed", "panicked"}
States   == {"list", "next", "auth", "head", "get", "pull", "compare", "judged"} \cup Ended
Verdicts == {"none", "pinned", "fresh", "stale", "failed", "current", "listed", "downloaded"}

(* Every variable holds a value of its kind; a container is at hand exactly *)
(* between being picked and being left behind, and a round is only under    *)
(* way for it.                                                              *)
TypeOK ==
    /\ RoundTypeOK
    /\ cfg \in Cases /\ tag \in Images /\ foreign \in Images \cup {NoDigest}
    /\ pc \in States /\ left \subseteq Containers
    /\ at \in Containers \cup {Nobody}
    /\ verdict \in [Containers -> Verdicts]
    /\ upgrade \in [Containers -> Images \cup {NoDigest}]
    /\ seen \subseteq Images
    /\ pulled \in BOOLEAN /\ torn \in BOOLEAN /\ overtaken \in BOOLEAN
    /\ pc \in {"list", "next", "done", "failed"} => at = Nobody
    /\ round # "idle" => pc \in {"head", "get"}

Init ==
    /\ cfg \in Cases /\ reg = cfg.registry
    /\ published \in Images \ cfg.built
    /\ tag \in Images /\ foreign = NoDigest
    /\ RoundInit
    /\ pc = "list" /\ left = Containers /\ at = Nobody
    /\ verdict = [c \in Containers |-> "none"]
    /\ upgrade = [c \in Containers |-> NoDigest]
    /\ pulled = FALSE /\ torn = FALSE
    /\ seen = {} /\ overtaken = FALSE

-----------------------------------------------------------------------------
(* What the rest of the host makes of a container's name. *)

Named(c)       == IF cfg.ref[c] = "tag" THEN tag ELSE cfg.running[c]
HasDigests(c)  == Named(c) \notin cfg.built
Parsable(c)    == cfg.ref[c] # "odd"
Pullable(c)    == cfg.ref[c] \in {"tag", "digest"}
Unreadable(c)  == cfg.ref[c] = "odd"   \* no substitute of the name may be one either
HasCredentials == cfg.creds \in {"env", "file"}

(* The credentials come from the environment, else from a file found by    *)
(* the registry of the image's name.                                       *)
CredentialsFail(c) ==
    \/ cfg.creds = "unreadable"
    \/ cfg.creds # "env" /\ ~Parsable(c)

(* The digests of the container's own image against the upstream one. *)
DigestsMatch(c, d) == cfg.running[c] \notin cfg.built /\ d = cfg.running[c]

(* The digests of the image its name now refers to, instead. *)
NamedMatches(c, d) == HasDigests(c) /\ d = Named(c)

Judge(c, v, image) ==
    /\ verdict' = [verdict EXCEPT ![c] = v]
    /\ upgrade' = [upgrade EXCEPT ![c] = image]
    /\ pc' = "judged"

Fail(c)  == Judge(c, "failed", NoDigest)
Goto(s)  == pc' = s /\ UNCHANGED <<verdict, upgrade>>

-----------------------------------------------------------------------------
(* The loop over the containers. *)

List ==
    /\ pc = "list"
    /\ \E s \in {"next", "failed"} : Goto(s)
    /\ UNCHANGED <<left, at, pulled, torn, seen, overtaken, roundVars>>

(* The check of the context before each container; the download has none. *)
Cancelled ==
    /\ pc = "next" /\ left # {} /\ cfg.job # "download"
    /\ Goto("failed")
    /\ UNCHANGED <<left, at, pulled, torn, seen, overtaken, roundVars>>

Finish ==
    /\ pc = "next" /\ left = {}
    /\ Goto("done")
    /\ UNCHANGED <<left, at, pulled, torn, seen, overtaken, roundVars>>

Pick(c) ==
    /\ pc = "next" /\ c \in left
    /\ at' = c /\ left' = left \ {c}
    /\ seen' = {published} /\ overtaken' = FALSE
    /\ UNCHANGED <<pulled, torn, roundVars>>

(* AddScanned is called on the progress, and a check has none. *)
PickPinned(c) ==
    /\ cfg.job # "download" /\ cfg.ref[c] = "digest"
    /\ Pick(c)
    /\ IF cfg.job = "check" THEN Goto("panicked") ELSE Judge(c, "pinned", NoDigest)

PickForSession(c) ==
    /\ cfg.job = "session" /\ cfg.ref[c] # "digest"
    /\ Pick(c)
    /\ \/ c \in cfg.noPull /\ Goto("compare")
       \/ c \notin cfg.noPull /\ cfg.ref[c] = "id" /\ Fail(c)
       \/ Unreadable(c) /\ Fail(c)
       \/ c \notin cfg.noPull /\ cfg.ref[c] # "id" /\ Goto("auth")

PickForCheck(c) ==
    /\ cfg.job = "check" /\ cfg.ref[c] # "digest"
    /\ Pick(c)
    /\ Goto("auth") \/ (Unreadable(c) /\ Fail(c))

PickForDownload(c) ==
    /\ cfg.job = "download"
    /\ Pick(c) /\ Goto("pull")

(* A check that gives up at the first container it cannot judge. *)
MoveOnReturns ==
    /\ pc = "judged"
    /\ pc' = IF verdict[at] = "failed" THEN "done" ELSE "next"
    /\ at' = Nobody /\ pulled' = FALSE /\ torn' = FALSE
    /\ seen' = {} /\ overtaken' = FALSE
    /\ UNCHANGED <<left, verdict, upgrade, roundVars>>

(* A download stops at its first failure and answers one name for all its  *)
(* containers; the other jobs go on.                                       *)
MoveOn ==
    /\ pc = "judged"
    /\ pc' = IF cfg.job = "download" /\ verdict[at] = "failed" THEN "failed" ELSE "next"
    /\ left' = IF cfg.job = "download" /\ cfg.ref[at] = "tag"
                 THEN {c \in left : cfg.ref[c] # "tag"} ELSE left
    /\ verdict' = [c \in Containers |-> IF c \in left \ left' THEN verdict[at] ELSE verdict[c]]
    /\ at' = Nobody /\ pulled' = FALSE /\ torn' = FALSE
    /\ seen' = {} /\ overtaken' = FALSE
    /\ UNCHANGED <<upgrade, roundVars>>

-----------------------------------------------------------------------------
(* The digest of one container. *)

Authenticate ==
    /\ pc = "auth"
    /\ \/ CredentialsFail(at) /\ Fail(at) /\ UNCHANGED roundVars
       \/ /\ ~CredentialsFail(at)
          /\ IF cfg.job = "check" THEN Goto("get") /\ Asks("GET")
             ELSE IF at \notin cfg.known THEN Goto("pull") /\ UNCHANGED roundVars
             ELSE Goto("head") /\ Asks("HEAD")
    /\ UNCHANGED <<left, at, pulled, torn, seen, overtaken>>

(* An image identifier names no repository of the registry. *)
AskRegistry ==
    /\ pc \in {"head", "get"}
    /\ Round(HasDigests(at), Parsable(at), HasCredentials)
    /\ cfg.ref[at] = "id" => digest' = NoDigest
    /\ UNCHANGED <<scanVars, seen, overtaken>>

(* CompareDigest falls back from HEAD to GET when there was no digest. *)
HeadUseless ==
    /\ pc = "head" /\ round = "answered" /\ digest = NoDigest
    /\ Goto("get") /\ Asks("GET")
    /\ UNCHANGED <<left, at, pulled, torn, seen, overtaken>>

(* A pull skipped for want of a digest. *)
CompareTrustsNothing ==
    /\ pc \in {"head", "get"} /\ cfg.job = "session"
    /\ \/ round = "refused" /\ Goto("pull")
       \/ /\ round = "answered" /\ (pc = "head" => digest # NoDigest)
          /\ Goto(IF digest = NoDigest \/ DigestsMatch(at, digest) THEN "compare" ELSE "pull")
    /\ Forgets
    /\ UNCHANGED <<left, at, pulled, torn, seen, overtaken>>

(* An error is logged and the image is pulled; so is a digest that differs. *)
Compare ==
    /\ pc \in {"head", "get"} /\ cfg.job = "session"
    /\ \/ round = "refused" /\ Goto("pull")
       \/ /\ round = "answered" /\ (pc = "head" => digest # NoDigest)
          /\ Goto(IF DigestsMatch(at, digest) THEN "compare" ELSE "pull")
    /\ Forgets
    /\ UNCHANGED <<left, at, pulled, torn, seen, overtaken>>

(* A check that asks what the name refers to, not what is running. *)
CheckAnsweredByName ==
    /\ pc = "get" /\ cfg.job = "check"
    /\ \/ round = "refused" /\ Fail(at)
       \/ round = "answered" /\ at \notin cfg.known /\ Goto("panicked")
       \/ /\ round = "answered" /\ at \in cfg.known
          /\ IF NamedMatches(at, digest) THEN Judge(at, "current", NoDigest)
             ELSE Judge(at, "listed", digest)
    /\ Forgets
    /\ UNCHANGED <<left, at, pulled, torn, seen, overtaken>>

(* CheckForUpdates compares whatever it got, with an image it may not know. *)
CheckAnswered ==
    /\ pc = "get" /\ cfg.job = "check"
    /\ \/ round = "refused" /\ Fail(at)
       \/ round = "answered" /\ at \notin cfg.known /\ Goto("panicked")
       \/ /\ round = "answered" /\ at \in cfg.known
          /\ IF DigestsMatch(at, digest) THEN Judge(at, "current", NoDigest)
             ELSE Judge(at, "listed", digest)
    /\ Forgets
    /\ UNCHANGED <<left, at, pulled, torn, seen, overtaken>>

-----------------------------------------------------------------------------
(* The pull and the comparison with the running image. *)

(* The stream of a pull is read to its end and never looked into: an error *)
(* inside it leaves the tag as it was.                                     *)
Pull ==
    /\ pc = "pull"
    /\ \/ Fail(at) /\ UNCHANGED <<tag, pulled, torn>>
       \/ /\ Pullable(at)
          /\ \/ tag' = (IF cfg.ref[at] = "tag" THEN published ELSE tag) /\ torn' = FALSE
             \/ UNCHANGED tag /\ torn' = TRUE
          /\ pulled' = TRUE
          /\ IF cfg.job = "download" THEN Judge(at, "downloaded", NoDigest) ELSE Goto("compare")
    /\ UNCHANGED <<left, at, seen, overtaken, roundVars>>

HasNewImageSwapped ==
    /\ pc = "compare"
    /\ \/ Fail(at)
       \/ Parsable(at) /\ Named(at) = cfg.running[at] /\ Judge(at, "fresh", NoDigest)
       \/ Parsable(at) /\ Named(at) # cfg.running[at] /\ Judge(at, "stale", cfg.running[at])
    /\ UNCHANGED <<left, at, pulled, torn, seen, overtaken, roundVars>>

HasNewImage ==
    /\ pc = "compare"
    /\ \/ Fail(at)
       \/ Parsable(at) /\ Named(at) = cfg.running[at] /\ Judge(at, "fresh", NoDigest)
       \/ Parsable(at) /\ Named(at) # cfg.running[at] /\ Judge(at, "stale", Named(at))
    /\ UNCHANGED <<left, at, pulled, torn, seen, overtaken, roundVars>>

-----------------------------------------------------------------------------
(* The registry, and a deployment that pulls the tag without the lock. *)

Publish ==
    /\ pc \notin Ended
    /\ published' \in Images \ cfg.built
    /\ seen' = IF at = Nobody THEN seen ELSE seen \cup {published'}
    /\ UNCHANGED <<reg, roundVars, cfg, tag, foreign, scanVars, overtaken>>

ForeignPullStarts ==
    /\ pc \notin Ended /\ foreign = NoDigest
    /\ foreign' = published
    /\ UNCHANGED <<reg, published, roundVars, cfg, tag, scanVars, seen, overtaken>>

ForeignPullEnds ==
    /\ foreign # NoDigest
    /\ tag' = foreign /\ foreign' = NoDigest
    /\ overtaken' = (at # Nobody)
    /\ UNCHANGED <<reg, published, roundVars, cfg, scanVars, seen>>

Rest == UNCHANGED <<reg, published, cfg, foreign>>

Job ==
    /\ Rest
    /\ \/ /\ UNCHANGED tag
          /\ \/ List \/ Cancelled \/ Finish \/ MoveOn
             \/ \E c \in Containers :
                  PickPinned(c) \/ PickForSession(c) \/ PickForCheck(c) \/ PickForDownload(c)
             \/ Authenticate \/ AskRegistry \/ HeadUseless \/ Compare \/ CheckAnswered
             \/ HasNewImage
       \/ Pull

Over == pc \in Ended /\ UNCHANGED vars

Next == Job \/ Publish \/ ForeignPullStarts \/ ForeignPullEnds \/ Over

(* The registry's client gives every request 30 s, the daemon answers or   *)
(* the context ends: every step of the job ends.                           *)
Spec == Init /\ [][Next]_vars /\ WF_vars(Job)

-----------------------------------------------------------------------------
(* What a scan that may pull calls a container follows the registry: fresh *)
(* means that its image is one the tag had while it was scanned, stale     *)
(* after a pull names one, and never the container's own, which would be   *)
(* deployed again and again - unless the pull broke off inside its stream, *)
(* which nothing reads, or another pull moved the tag (shouldSkipPull,     *)
(* performImagePull, HasNewImage).                                         *)
VerdictIsCurrent ==
    pc = "judged" /\ ~torn /\ ~overtaken =>
        /\ verdict[at] = "fresh" /\ at \notin cfg.noPull => cfg.running[at] \in seen
        /\ verdict[at] = "stale" /\ pulled => upgrade[at] \in seen \ {cfg.running[at]}

(* A check that lists a container with a digest names one the registry's   *)
(* tag had meanwhile and the container does not run; one it finds current  *)
(* runs such a digest.                                                     *)
ListedIsNews ==
    pc = "judged" =>
        /\ verdict[at] = "listed" /\ upgrade[at] # NoDigest
             => upgrade[at] \in seen \ {cfg.running[at]}
        /\ verdict[at] = "current" => cfg.running[at] \in seen

(* One container's failure is its own: a job that ends has an answer for   *)
(* every container.                                                        *)
EveryoneIsJudged == pc = "done" => \A c \in Containers : verdict[c] # "none"

(* Two rounds, two retries: however the registry's hosts refer to one      *)
(* another, a job ends.                                                    *)
ScanEnds == pc = "list" ~> pc \in Ended
=============================================================================
