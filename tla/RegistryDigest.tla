--------------------------- MODULE RegistryDigest ---------------------------
(***************************************************************************)
(* Asking a registry for the digest of a tag (pkg/registry/digest): the    *)
(* challenge and the token (pkg/registry/auth), the manifest request, and  *)
(* the one retry at another host.  A round ends with a digest, with no     *)
(* digest and no error, or with an error; the callers tell the three       *)
(* apart.                                                                  *)
(*                                                                         *)
(* A registry is honest: a successful answer carries the image the tag has *)
(* at that moment.  It may answer anything else at any time.               *)
(***************************************************************************)
CONSTANTS
    Images,      \* images, identified with their digests
    NoDigest,    \* the empty string in place of a digest
    Registries   \* the registries to consider

Hosts  == {"named", "front", "auth"}
NoHost == "nowhere"

(* named is the host of the image's name, front the one that serves it *)
(* instead: ghcr.io for lscr.io.                                       *)
Registry ==
    [front     : {"named", "front"},
     redirects : BOOLEAN,              \* the challenge request ends at another host
     challenge : {"none", "basic", "bearer", "incomplete", "unsupported"},
     realm     : Hosts \cup {NoHost}]  \* the host of the challenge's realm

ASSUME RegistryAssumption ==
    /\ NoDigest \notin Images
    /\ Registries \subseteq Registry

VARIABLES
    reg,            \* the registry
    published,      \* the image its tag refers to
    round,          \* where the request for a digest stands
    method,         \* "HEAD" or "GET"
    host,           \* the host of the manifest request
    challengeHost,  \* the host of the realm, once a token is had
    digest          \* what the round has found

roundVars == <<round, method, host, challengeHost, digest>>

Rounds  == {"idle", "inspect", "challenge", "bearer", "manifest", "retry", "answered", "refused"}
Methods == {"HEAD", "GET"}

RoundTypeOK ==
    /\ reg \in Registries /\ published \in Images
    /\ round \in Rounds /\ method \in Methods
    /\ host \in Hosts /\ challengeHost \in Hosts \cup {NoHost}
    /\ digest \in Images \cup {NoDigest}

RoundInit ==
    /\ round = "idle" /\ method = "HEAD" /\ host = reg.front
    /\ challengeHost = NoHost /\ digest = NoDigest

-----------------------------------------------------------------------------
(* The way a round begins and ends; asking leaves nothing of the last one. *)

Asks(m) ==
    /\ round' = "inspect" /\ method' = m /\ host' = reg.front
    /\ challengeHost' = NoHost /\ digest' = NoDigest

ForgetsDigest ==
    /\ digest' = NoDigest
    /\ UNCHANGED <<round, method, host, challengeHost>>

Forgets ==
    /\ round' = "idle" /\ method' = "HEAD" /\ host' = reg.front
    /\ challengeHost' = NoHost /\ digest' = NoDigest

Answered(d) == round' = "answered" /\ digest' = d
Refused     == round' = "refused" /\ UNCHANGED digest

(* The inspection of the image by its name, and the URL of the manifest. *)
Inspect(hasDigests, parsable) ==
    /\ round = "inspect"
    /\ \/ Refused
       \/ ~hasDigests /\ Answered(NoDigest)
       \/ hasDigests /\ ~parsable /\ Refused
       \/ hasDigests /\ parsable /\ round' = "challenge" /\ UNCHANGED digest
    /\ UNCHANGED <<method, host, challengeHost>>

(* Where the manifest is asked for: the realm's host only behind a redirect. *)
FirstHost(realm) ==
    IF realm # NoHost /\ realm # "named" /\ reg.redirects THEN realm ELSE reg.front

(* A scheme that is not known, a realm or a service that is not given, or  *)
(* basic authentication without credentials.                               *)
Unanswerable(hasCredentials) ==
    \/ reg.challenge \in {"incomplete", "unsupported"}
    \/ reg.challenge = "basic" /\ ~hasCredentials

Challenge(hasCredentials) ==
    /\ round = "challenge"
    /\ \/ Refused
       \/ /\ ~Unanswerable(hasCredentials)
          /\ round' = IF reg.challenge = "bearer" THEN "bearer" ELSE "manifest"
          /\ UNCHANGED digest
    /\ UNCHANGED <<method, host, challengeHost>>

(* A token without a token in it is "Bearer " and passes for one. *)
Bearer ==
    /\ round = "bearer"
    /\ \/ Refused /\ UNCHANGED <<host, challengeHost>>
       \/ /\ round' = "manifest" /\ UNCHANGED digest
          /\ challengeHost' = reg.realm /\ host' = FirstHost(reg.realm)
    /\ UNCHANGED method

-----------------------------------------------------------------------------
(* What a reply to the manifest request does. *)

Replies == {"found", "bare", "moved", "stuck", "denied", "missing", "broken"}

(* A HEAD that fails is worth nothing and no error, unless the tag is missing. *)
Useless(reply) == method = "HEAD" /\ reply \notin {"found", "bare", "missing"}

(* The hosts at which a reply makes the code ask again. *)
Elsewhere(reply) ==
    IF Useless(reply) THEN
        IF reply = "denied" /\ ~reg.redirects /\ host = "named"
            THEN {challengeHost} \ {NoHost} ELSE {}
    ELSE IF method = "HEAD" THEN {}
    ELSE IF reply = "moved" THEN Hosts \ {host}
    ELSE IF reply \notin {"denied", "missing"} THEN {}
    ELSE IF host # "named" THEN {"named"}
    ELSE {challengeHost} \ {NoHost}

(* A retry that finds one the like of its host is asked again, for ever. *)
RetriesAgain(reply) ==
    \E h \in Elsewhere(reply) :
        /\ host' = h
        /\ round' = "retry" /\ UNCHANGED digest

Retries(reply) ==
    \E h \in Elsewhere(reply) :
        /\ host' = h
        /\ \/ round = "manifest" /\ round' = "retry" /\ UNCHANGED digest
           \/ round = "retry" /\ Answered(NoDigest)

Manifest ==
    /\ round \in {"manifest", "retry"}
    /\ \/ Refused /\ UNCHANGED host
       \/ \E reply \in Replies :
            \/ Retries(reply)
            \/ /\ Elsewhere(reply) = {}
               /\ UNCHANGED host
               /\ \/ reply = "found" /\ Answered(published)
                  \/ Useless(reply) /\ Answered(NoDigest)
                  \/ reply # "found" /\ ~Useless(reply) /\ Refused
    /\ UNCHANGED <<method, challengeHost>>

Round(hasDigests, parsable, hasCredentials) ==
    \/ Inspect(hasDigests, parsable)
    \/ Challenge(hasCredentials)
    \/ Bearer
    \/ Manifest
=============================================================================
