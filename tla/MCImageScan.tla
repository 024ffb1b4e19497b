---------------------------- MODULE MCImageScan -----------------------------
(***************************************************************************)
(* Two containers of one tag, an image a and its successor b, and an image *)
(* built on the host; registries with every kind of challenge.             *)
(***************************************************************************)
EXTENDS ImageScan

CONSTANTS web, api, a, b, own

MCContainers == {web, api}
MCImages     == {a, b, own}

Plain(k) == [front |-> "named", redirects |-> FALSE, challenge |-> k, realm |-> NoHost]

(* Docker Hub, GHCR behind lscr.io, one whose realm is its own host, one   *)
(* that redirects, a realm that is no URL, and the ones without a token.   *)
MCRegistries ==
    {Plain(k) : k \in {"none", "basic", "incomplete", "unsupported"}} \cup
    {[Plain("bearer") EXCEPT !.realm = h] : h \in {"auth", "named", NoHost}} \cup
    {[Plain("bearer") EXCEPT !.realm = "auth", !.redirects = TRUE],
     [Plain("bearer") EXCEPT !.realm = "front", !.front = "front"]}

Hub == [Plain("bearer") EXCEPT !.realm = "auth"]

Host(j) ==
    [job |-> j, ref |-> [c \in MCContainers |-> "tag"],
     running |-> [c \in MCContainers |-> a],
     known |-> MCContainers, noPull |-> {}, creds |-> "none", built |-> {own}, registry |-> Hub]

Variants(h) ==
    {h,
     [h EXCEPT !.running[api] = own, !.creds = "file"],
     [h EXCEPT !.ref[web] = "id", !.creds = "env"],
     [h EXCEPT !.ref[web] = "digest"],
     [h EXCEPT !.ref[web] = "odd", !.creds = "env"],
     [h EXCEPT !.ref[web] = "odd"],
     [h EXCEPT !.known = {web}, !.running[web] = b],
     [h EXCEPT !.noPull = {web, api}, !.ref[api] = "id"],
     [h EXCEPT !.creds = "unreadable"]}

MCCases ==
    UNION {Variants(Host(j)) : j \in {"session", "check", "download"}} \cup
    {[Host(j) EXCEPT !.registry = r] : j \in {"session", "check"}, r \in MCRegistries} \cup
    {[Host(j) EXCEPT !.registry = Plain("basic"), !.creds = "file"] : j \in {"session", "check"}}
=============================================================================
