# A verification development of Watchtower (aether_supervisor)

Watchtower watches the containers of a Docker host, finds newer images for them
and replaces the containers.  This directory holds TLA+ models of that program,
the TLC configurations that check them on small instances, and theorems about
them that TLAPS proves for every instance.

Paths below are relative to the repository.

## 1. The system

### Components

| component | code | state it keeps | operations |
|---|---|---|---|
| process | `cmd/root.go` | settings; a context cancelled by SIGINT and SIGTERM; the update lock | start, remove excess instances, start API and schedule, run once, exit |
| schedule | `internal/scheduling` | cron entries, flag of the first run | update on start, tick, stop, wait for the running update |
| HTTP server and triggers | `internal/api`, `pkg/api`, `pkg/api/{update,apply,check,download}` | listener; each request's lock attempt | full or targeted update, apply, check, download |
| update session | `internal/actions/update.go` | list of containers, progress, stale and linked marks, failed containers, images to clean | scan, plan, stop, restart, rolling restart |
| report | `pkg/session` | per container: state, images, error | mark, categorise |
| container client | `pkg/container` | none (the Docker host) | list, stop, remove, rename, create, start, set restart policy, staleness |
| order | `pkg/sorter`, `pkg/container/cycles.go` | none | sort by dependencies, detect cycles |
| cleanup | `internal/actions/cleanup.go` | none | remove excess Watchtowers, remove images |
| flow around a session | `internal/actions/actions.go` | none | start notifications, update, clean images, report, metric |
| check and download | `internal/actions/{check,download}.go` | the answer collected so far | compare every container with its registry, pull every image |
| notifier | `pkg/notifications` | batched entries, queue of messages, worker, closed flag | start batch, send report, fire entry, close |
| metrics | `pkg/metrics` | queue of ten metrics, counters | register scan, handle, shut down |
| services | `internal/actions/services.go`, `pkg/api/services` | none (containers and networks of the host) | deploy, start, stop, restart, remove |
| logs | `internal/actions/logs.go`, `pkg/api/logs` | stream goroutines and pipes | fetch, stream |
| registry | `pkg/registry` | none | credentials, challenge, token, HEAD or GET of a manifest, retry |
| filters, labels, hooks | `pkg/filters`, `pkg/compose`, `pkg/lifecycle` | none | select containers, read links, run commands |

### How they interact

`main` creates one channel of capacity one that holds one token: the *update
lock*.  The cron job takes the token with a plain receive, update-on-start and
full HTTP requests try without waiting, targeted requests wait for it or for the
end of their request.  Whoever has the token runs one session and gives the
token back in a deferred send.  The session talks to Docker through the client,
one call at a time in one goroutine, and passes its report to the notifier and
its counts to the metrics.  A signal cancels the context every session and every
handler shares, stops the scheduler and ends the process after at most one wait
for the token.  The handlers of services and logs take no lock, so a deployment
pulls tags and creates containers beside a session.

The notifier is a hook of the logger: every goroutine that logs calls it.  A
batch of entries is opened by the start-up message or by a session and sent with
its report; outside a batch each entry is a message.  Messages wait in a bounded
channel for one worker.  `Close`, at the end of `main`, stops the worker, waits
for its signal and closes the channel, while a session that outlived the
shutdown may still be sending.

A session that updates Watchtower's own container renames it and starts a new
one; the new process removes the old container as an excess instance.  The two
processes run at the same time for a while, and the old one may be in the middle
of its session when it is removed.

### What is hard

* Order: dependents are stopped before and started after what they depend on,
  over any shape of links, with Watchtower last, and with failures in between.
* Partial failure: each of a dozen Docker calls per container may fail, and a
  container that is stopped, removed or created but not replaced must not be
  forgotten.
* Cancellation at any point of a session, which leaves containers behind.
* Self-replacement: the process that runs the code is one of the containers.
* Images: the digest a scan compares, the tag it pulls and the image it then
  compares with are read at three moments, between which the registry or a
  deployment may move the tag; a pull may break off without an error; a registry
  sends a client from host to host.
* The notifier: a flag read before the mutex is taken, a batch copied under it
  and sent after it, a full queue, a signal that two goroutines receive.
* Services without the lock: a container that is listed, stopped, removed,
  created and renamed by a session while a request does the same.
* The lock: deferred sends, waiting requests whose clients leave, a shutdown
  that takes the token, a job that waits without a time-out.
* Shutdown against a session that does not end.

`PROJECT.json` lists these hazards line by line, with the properties that cover
them.

### What makes each part correct

* Session: it touches only what it has a reason to touch; it keeps the order of
  the links; it loses no container silently; its report tells the truth about
  updated and restarted containers; it hands exactly the right images to the
  cleanup; Watchtower is last; it ends.
* Lock and process: one session at a time; the token is never lost; nobody waits
  beside a free token; a refusal is justified; after a self-update the next
  session does not update Watchtower again; who waits is served; a signal ends
  the process.
* Search for cycles: what it marks lies on a cycle, what it leaves unmarked forms
  none, and it ends, whatever the order and the names.
* Abstract session: every container is kept, or taken down and brought back, or
  given up with a record of it; Watchtower comes last; nothing is in between when
  the session ends.
* Images: what is called fresh or stale is so by an image the tag had during the
  scan; what a check lists is news; a job answers for every container, and ends.
* Notifier: no entry is sent twice, none is lost without a reason; a report has
  its own entries; a session tells of what it replaced; the queue is drained before
  it is closed; `Close` ends.
* Metrics: each is counted, waiting or known to be dropped, in order, and the
  gauges end at the last one kept.
* Services: what a deployment creates has its dependencies; what was removed or
  stopped stays so unless somebody who knew it brings it back; nothing runs twice.

## 2. Modules

| module | what it is |
|---|---|
| `UpdateSession` | `actions.Update`: one session, from the listing to the report |
| `Rollout` | what a session promises, without scan, plan, calls and errors |
| `UpdateRollout` | the refinement mapping from `UpdateSession` to `Rollout` |
| `UpdateLock` | who may run a session, and how the process starts and ends |
| `Dependencies` | what a cycle is, and which sets of containers `DetectCycles` may return |
| `CycleSearch` | `DetectCycles`, one step per link it follows |
| `RegistryDigest` | one round of asking a registry for a digest |
| `ImageScan` | the scan of a session, the check and the download, over `RegistryDigest` |
| `Notifier` | the batch, the queue, the worker and `Close` |
| `MetricsQueue` | the queue of metrics and its consumer |
| `SessionFlow` | a process from its start-up message to its last notification, over `Notifier` and `MetricsQueue` |
| `ServiceRequests` | the requests that act on services, and the order in which a deployment creates them |
| `SharedHost` | sessions and those requests on one host |
| `MCUpdateSession`, `MCUpdateLock`, `MCCycleSearch`, `MCImageScan`, `MCSessionFlow`, `MCSharedHost` | small instances |
| `UpdateSessionProofs`, `RolloutProofs`, `OutcomeProofs`, `UpdateLockProofs`, `CycleSearchProofs`, `ImageScanProofs`, `SessionFlowProofs`, `SharedHostProofs` | theorems |

`UpdateSession` and `CycleSearch` both extend `Dependencies`: the set a search
returns when it is done is one the session may skip (`DetectableCycles`), which
is what `CycleSearchProofs` proves.  The other compositions follow the calls:
`ImageScan` is the outcome per container that `UpdateSession` takes from its
scan; `SessionFlow` runs sessions whose effect is only the fate their report
gives each container; `SharedHost` has the session of `UpdateSession` as the
daemon sees it, call by call.

A definition that no specification uses (`ReturnKeeps` beside `Return`,
`HasNewImageSwapped` beside `HasNewImage`) is a plausible
mistake in the code next to it; each property of a run is violated when one of
them is put in place.

### UpdateSession

The state is that of `Update` and of the Docker host it works on.  `prog` is
`session.Progress`, `stale` and `linked` are the marks on the containers, `plan`
is `allContainersToRestart`, `failed` joins `failedStop` and `failedStart`, and
`stopped` holds the containers whose stop returned no error.  For each container
listed at the beginning, `old` is the fate of the listed instance and `new` that
of the one made to replace it.  `renamed`, `retired` and `cleanup` are the
Watchtowers renamed out of the way, those whose restart policy was reset, and
the images for the cleanup.

| actions | code |
|---|---|
| `Begin`, `BeginFails` | listing, filtering, self-dependent and circular containers skipped |
| `ScanKnown`, `ScanError`, `ScanFresh`, `ScanStale`, `ScanCancelled` | the loop over the containers: pinned, skipped self, staleness, `shouldUpdateContainer` |
| `MakePlan`, `PlanFails` | sorting, `UpdateImplicitRestart`, collection, `MarkForUpdate` |
| `StopNext`, `StopCancelled`, `StopDone` | `stopContainersInReversedOrder`, `stopStaleContainer` |
| `StartNext`, `StartSkip`, `StartCancelled`, `Finish` | `restartContainersInSortedOrder`, `restartStaleContainer` |
| `RollStop`, `RollStart`, `RollCancelled`, `RollDone` | `performRollingRestart` |
| `Superseded` | the new Watchtower removes this one |

A Docker call is a disjunct per outcome.  A call that takes the context may fail
because its kind is in the constant `Faults`, or because the context is
cancelled during it.  The cancellation is a member of `Faults` too (`"cancel"`),
and where it is one it may come with any step.  The restart of a
container is one action although it makes several calls: between them the only
other actor is the new Watchtower, and what it can do (`Superseded`) is possible
before and after the action, with the same outcome.  The stop and the start of
one container in a rolling restart are two actions.

Order is chosen lazily: `NextToStart(c)` holds when c may be the next of *some*
sorted list, and `NextToStop` reads the list backwards.  A sort makes one fixed
choice (names in reverse order among those that are ready); the model allows all
of them, so what holds of it holds of the code's.  When links between the
selected containers form a cycle, sorting fails in the code and the list stays
in its old order; implicit restarts are then off, and only stale containers off
the detected cycles are left to replace.

Abstractions: a link is a container, not a name (links by replica prefix or
service name are not modelled).  The image
digest comparison is one outcome per container.  The cycle search is its
contract `DetectableCycles`, any set of containers on cycles that meets every
cycle, since the search starts from the keys of a Go map.

### UpdateLock

One variable `pc` for all goroutines: main, the cron job, and one per HTTP
request.  The Go channel is `token` (it holds the value) and `queue` (blocked
receivers in order, as the Go runtime serves them): `Take`, `Block`, `Give` and
`Leave` are a receive that finds the token, one that blocks, a send, and a
`select` that returns by another case.  A send to a channel with a blocked
receiver hands the value over, which is why nobody can steal the token from one
who waits.

| actions | code |
|---|---|
| `StartAPI`, `LeaveAPI`, `ListenerFails`, `StopListening` | `SetupAndStartAPI`, `RunHTTPServer` |
| `StartSchedule`, `EndOnStart` | update-on-start in `RunUpgradesOnSchedule` |
| `StopScheduler`, `Drain`, `StopWaiting`, `HandBack`, `Exit` | the end of `RunUpgradesOnSchedule`, `WaitForRunningUpdate` |
| `Tick`, `JobLocks`, `JobEnds` | the cron job, `scheduledUpdateFunc`, `updateFunc` |
| `Arrive`, `TryLock`, `WaitLock`, `Withdraw`, `RequestEnds`, `Disconnect` | the four `Handle` functions |
| `Signal`, `CancelContext` | `signal.Notify` and `signal.NotifyContext` |

A session is the time between taking the token and giving it back.  The flow
`UpdateSession` details happens there; its liveness property `SessionEnds` is the
fairness `SessionsEnd` that `UpdateLock` assumes of it.

The run-once path (`--run-once`) takes no lock and starts neither schedule nor
server, so there is nothing to interleave; it is not in the module.  The branch
of the scheduled function for a Watchtower that finds itself a parent is not
reachable: `preRun` exits before.

### CycleSearch

`graph`, `colors`, `path` and `cycles` are the fields of `cycleDetector`; `left`
holds, for each node, the links its loop has still to follow, so the recursion is
the path and a state is a moment of the search.

| actions | code |
|---|---|
| `Init` (`Alias`, `Graph`) | the alias map and the graph of `DetectCycles`; a later container overwrites an earlier one under the same key |
| `Start` | the loop over the nodes, in the order of a Go map |
| `Visit`, `BackEdge`, `CrossEdge` | a white, gray or black neighbour in `dfs` |
| `Backtrack` | the end of `dfs` |

A list gives each container a name, the identifier `ResolveContainerIdentifier`
computes, and the names it links to.  The order of the links of a node is left
open, which covers every order the labels may give; a link listed twice marks
the same nodes again.

### Rollout

`place` says of each container whether it is kept, down, back or left (given up),
`over` that the session has returned or its process is gone.  `TakeDown`,
`BringBack`, `Swap`, `GiveUp` and `End` are all a reader has to know: a batch
takes all down before it brings one back, a rolling restart has one down at a
time, Watchtowers are swapped and come last, and nothing is down at the end.
`UpdateRollout` computes `place` from `failed`, `stopped`, `new` and the
containers `--no-restart` withholds; a scan, a plan and a failed call that
changes nothing are stuttering steps.

### RegistryDigest and ImageScan

A round is `FetchDigest` or `CompareDigest`'s HEAD or GET, and the variables are
what the code passes along: the method, the host asked, the host of the
challenge's realm.  The registry is a record of what it does (another host in
front of it, a redirect, a kind of challenge, a realm), and each of its replies
is any of seven kinds at any time; only a successful one is bound to the truth.

| actions | code |
|---|---|
| `Inspect`, `Challenge`, `Bearer` | `digest.go`, `auth.go`: image inspection, `GetChallengeRequest`, `GetBearerHeader` |
| `Manifest`, `Retries`, `Elsewhere` | `makeManifestRequest`, `retryManifestRequest`, the conditions for a retry |
| `List`, `Cancelled`, `Pick...`, `MoveOn`, `Finish` | the loops of `Update`, `CheckForUpdates`, `DownloadImages`, `isPinned` |
| `Authenticate` | credentials from the environment or the file (`trust.go`) |
| `AskRegistry`, `HeadUseless`, `Compare`, `CheckAnswered` | `CompareDigest`, `shouldSkipPull`, the body of the check's loop |
| `Pull`, `HasNewImage` | `performImagePull`, `HasNewImage` |
| `Publish`, `ForeignPullStarts`, `ForeignPullEnds` | a push to the registry; `services.go` pulls the same tag |

Images are their digests.  A container is named by the common tag, by a digest,
by an identifier or by something that is no reference.  `seen` records the
images the tag had in the registry since the scan of a container began, `torn`
and `overtaken` what nobody in the code can notice: an error inside the stream
of a pull, and another pull of the tag.

### Notifier, MetricsQueue and SessionFlow

`call` is the program counter of every goroutine inside the notifier: a call is
cut where another goroutine can come between, at the mutex (`FireLocks`), the
send on the channel (`Put`), and the two looks after a send that did not succeed
(`FoundFull`, `LooksForWorker`).  `worker` and `close` are the worker and `Close`.
`delivered` and `lost` say what became of an entry.

| actions | code |
|---|---|
| `StartsMessage`, `NoMessage`, `SendsMessage` | `WriteStartupMessage`, `logNotify` |
| `Stops`, `Closes`, `Exits` | the end of `RunUpgradesOnSchedule` and of `runMain`, `Close` |
| `Begin`, `Succeeds`, `Errs` | `RunUpdatesWithNotifications` |
| `TellReport`, `TellEntries`, `NextKind`, `Told` | `sendNotifications`, `sendSplitNotifications` |
| `End` | the caller registers the metric, or is the apply handler, which does not |
| `Logs`, `Sends` | `Fire` and the rest of any call |
| `Works`, `Counts` | `sendNotifications`, `HandleUpdate` |

The context of the notifier is cancelled after the worker is over, so no branch
on it is in the model.  The delay before a message lies between `Take` and
`Deliver`.  An entry is a log record; the text of a message is not kept, only
which entries it has and which subject (a container, the report, the empty
report, or the log).  `fate` is what the update did to each container, whether it
then returned a report (`Succeeds`) or an error (`Errs`, the session is
`"failed"`): the report of the second is dropped.  `told`, `own` and `latest` are
history: what the session has put in the queue, the entries since it began, the
last session whose metric was not dropped.

### ServiceRequests and SharedHost

A host is a set of containers with a state and a name; a container that is made
takes the next identifier.  A request is a sequence of Docker calls, each of
which may fail and end it.  Between the networks and the first container of a
deployment lies the search that puts the services in order; it makes no call, and
its steps are the entries into a service and the returns from it: `path` are the
services it is inside of, `todo` those it has put in order.

| actions | code |
|---|---|
| `VisitNext`, `VisitReturns`, `SearchReturns` | `orderedServiceNames`, `serviceDependencies` |
| `EnsureNetwork`, `OrderServices`, `Prepare`, `Create`, `Start` | `DeployServices`, `ensureNetworks` |
| `List`, `StopOne`, `StartOne`, `StopToRemove`, `RemoveOne` | `StopServices`, `StartServices`, `RestartServices`, `RemoveServices` |
| `Begin`, `Inspect`, `Plan` | `ListSourceContainers` and the choice of what to replace |
| `StopOld`, `StopOldFails`, `RemoveOld` | `StopSourceContainer`, `StopAndRemoveSourceContainer` |
| `CreateNew`, `RenameNew`, `SetUpFails`, `Clear`, `StartNew` | `StartTargetContainer` |

Which containers a session replaces and in which order is left open here; that
a batch stops all before it starts one is kept.

## 3. Runs

| run | what it shows | instance |
|---|---|---|
| `session` | the nine invariants of a session, `SessionEnds`, and that it implements `Rollout` | four containers, 26 hosts, every fault, cancellation anywhere |
| `lock` | `TypeOK`, `OneSession`, `TokenKept`, `NoIdleWaiter`, `NoEarlySelfUpdate`, `RefusedOnlyWhenBusy` | three requests, all 24 settings, the 60 s time-out may elapse |
| `lock_live` | `WaitersAreServed`, `ShutdownEnds` | three requests, three settings, the time-out never helps |
| `cycles` | `OnlyCycles`, `NoCycleLeft`, `SearchEnds` and the types | all 512 graphs of three containers, 768 lists with aliases |
| `images` | `VerdictIsCurrent`, `ListedIsNews`, `EveryoneIsJudged`, `ScanEnds` and the types | two containers, three images, 9 registries, three jobs |
| `flow` | `EntriesAreKept`, `DrainedBeforeClosed`, `ReportHasItsEntries`, `NewsIsTold`, `MetricsAddUp`, `CloseEnds` and the types | two sessions, three goroutines that log, two entries, six modes |
| `host` | `DependenciesFirst`, `RemovedStaysGone`, `StoppedStaysDown`, `NoTwins` and the types | three services, two clients, up to two sessions, 512 dependency graphs |
| `cancelled` | a cancellation strands containers | chain, no fault but a cancellation (`Faults` is `{"cancel"}`) |
| `failedfresh` | a failed linked restart is counted as fresh | chain, only starts fail, no cancellation (`Faults` is `{"start"}`) |
| `withheld` | `--no-restart` removes and does not recreate | links through Watchtower |
| `drained` | the shutdown does not wait for a session | three requests, three settings |
| `incomplete` | a container on a cycle that is not marked | as `cycles` |

The last five are expected to violate their property: each states what the
repository's documentation or comments say, and section 5 tells what the code
does.

**Bounds of `session`.**  Four containers are the fewest that hold a chain of
three beside Watchtower, and every rule of the session relates at most two links
and Watchtower.  The hosts are a chain, a fan, two overlapping cycles and links
through Watchtower, with a monitor-only container or an unselected one in the
middle, a stopped container, a self-dependent one, `--no-restart`, `--run-once`,
a second Watchtower that knows or does not know itself, in a batch and in a
rolling restart.  Two images let two containers share one.  No counter is
bounded: a session is finite.

**Bounds of `lock`.**  Two targeted requests and a full one are what it takes to
have a holder, a waiting request before the job and one after it, and a refusal.
Each request arrives once; one that arrives again is another request.  The job
runs any number of times.

**Bounds of `cycles`.**  Three nodes hold self-dependencies, two cycles that
share a node, and a cycle that closes through a finished node, the shapes the
three colours tell apart.  The lists with aliases have an identifier that is
another container's name, one that two containers share, and links to names that
are not listed.  The theorems hold for every list.

**Bounds of `images`.**  Two containers of one tag are what it takes for a pull
for one to change the verdict on the other, and an image, its successor and one
built on the host are the digests a comparison tells apart.  The hosts have every
kind of name, credentials of every kind, an image the daemon no longer knows and
containers that are not to be pulled; the registries have every challenge, a
realm at each host or at none, and a redirect.  The tag may move at every step.

**Bounds of `flow`.**  The queues hold one message and one metric, so that they
are full as soon as the worker is slow; the code has 1000 and ten.  One entry
shows where entries may be, and the case of two has one in the batch while
another is in the queue or in hand.  Two sessions are the fewest in which one can
meet what another left; the level of errors is a mode of its own, because there a
session without a failure leaves its batch to the next one.  One container is
enough for the kinds of news; that each of several is told once is a loop over
them.  `Callers` is `main`, the session and one more goroutine that logs; the
theorems hold for any set that has the first two.

**Bounds of `host`.**  `MaxIds` = 6 bounds the containers that are ever made: a
host of three and three more.  A deployment finds `Unused` empty only where its
create could as well fail.  Two requests beside one session, or one beside two,
are what it takes to undo and redo what another has done; the cases fix how many
of each there are, since all at once would not end.  All dependencies of three
services, with a name that is none, are tried with a deployment alone.

**Fairness.**  The search is one goroutine (weak fairness of its
steps).  A session is one goroutine, so weak fairness of its steps is all that
`SessionEnds` needs; nothing is assumed of the environment's good will, a
cancellation never has to come.  In `UpdateLock` every goroutine that can go on
does (weak fairness of main, the job and the requests, of the cancellation once
the signal has come, and of the closing of the listener).  Ticks, requests,
disconnections and signals have no fairness: they may never come.  `lock_live`
checks under `StuckSpec`, where sessions of the job and of requests may hang for
ever (a Docker call without a time-out): `ShutdownEnds` must hold all the same.
`WaitersAreServed` is conditional on sessions that end.  Only update-on-start is
assumed to end in both, because main itself runs it.

In `ImageScan` the job is one goroutine and every wait of it is bounded: the
registry's client gives each request 30 s, and the daemon answers or the context
ends; pushes and other pulls have no fairness.  In `SessionFlow` the worker, the
senders and `main` on its way out go on when they can; that needs the router to
answer a message, for which the code has no time-out of its own.  Sessions,
entries and the signal may never come.  `SharedHost` states safety only.

Deadlock is checked in every run; a finished session, an exited process and a
`Close` that waits for ever stutter (`Over`, `Exited`).

## 4. Proofs

All theorems are stated for every value of the constants that satisfies the named
assumption of its module (`SessionAssumption`, `LockAssumption`,
`SearchAssumption`, `ImageScanAssumption` and `RegistryAssumption`,
`FlowAssumption` with `NotifierAssumption` and `MetricsAssumption`,
`HostAssumption` with `RequestsAssumption`), so for any number of containers,
requests, hosts, images, entries, sessions and services, any fault and any
capacity, and are checked by `tlapm` to the last leaf.

**The lock** (`UpdateLockProofs`).  The safety properties are not inductive:
that two goroutines never hold the token depends on who is queued, because
`Give` passes the token to the head of the queue whatever it is.  `LockInv`
adds that the token is in exactly one place, that the queue lists exactly the
waiting goroutines and none twice.  Every action moves the lock in one of five
ways (`Goto`, `Take`, `Block`, `Give`, `Leave`), so the proof goes through a
`Move`: each way keeps types and `LockInv`, each action is a move.
`MutualExclusion`, `TokenIsKept`, `NoLostWakeUp` and the action property
`RefusalIsJustified` follow.  `SelfUpdateGuard` has an invariant of its own,
`GuardInv`, that relates the flag of the first run to the job's place.

**The session** (`UpdateSessionProofs`, `OutcomeProofs`).
Every invariant of the run `session` is a theorem.

| theorem | property | what the invariant adds |
|---|---|---|
| `Typing` | `TypeOK` | |
| `TouchesAreJustified` | `TouchedForAReason` | `ReasonInv`: stale containers are selected and not monitor-only, linked ones reach a stale one, only planned ones are touched |
| `DependenciesFirst`, `SelfComesLast` | `StartRespectsLinks`, `SelfUpdateIsLast` | `OrderInv`: a container out of the loop is settled or was never started, and what is still in `todo` is untouched |
| `DependentsStopFirst` | `StopRespectsLinks` | `StopInv`: in the stop phase a container out of `todo` has its dependents out of `todo` |
| `NoSilentLoss` | `NothingLost` | `LostInv`: a container that is not running is in `todo`, in hand, settled or failed, and a failed one has an entry in the progress |
| `ReportsAreTrue` | `TruthfulReport` | `TruthInv`: what is marked as updated is stale and planned, and settled once its turn is over; `StaleInv`: no part of the plan is passed over |
| `DependentsAreTaken` | `DependentsFollow` | `FollowInv`: a plan made without cycles holds the dependents of its members, because the passes of `UpdateImplicitRestart` end with a set no pass would extend (`RestartsAreClosed`) |
| `CleanupMatches` | `CleanupIsExact` | `CleanInv`: the equation holds at every step, not only at the end |

**The refinement** (`RolloutProofs`).  `SessionImplementsRollout` is
`Spec => ImplementsRollout`.  `TurnInv` adds what the mapping needs and the order
of a session does not say: the two ways to replace are told apart by the phase,
what is ahead has no new instance, and no Watchtower has had its turn while
others are ahead.  The lemmas `GivesUp` and `Moves` turn a statement about the
place of each container into a step of `Rollout`; each action of the session is
then shown to move one container, to give some up, or to leave all where they
are.

**The search** (`CycleSearchProofs`).  That a marked stretch of the path is a
cycle needs the path to be a chain of links without repetition (`PathInv`), and
an induction along it.  The provers have no induction over data, so the search
carries it: `ChainInv` says that a set which holds a node of the path, and with a
node the next one, holds the rest of the path; each push extends it by one.
`FollowInv` is the argument that no cycle is left: what an unmarked node has
followed is finished, or is the next node of the path; so the finished unmarked
nodes link only to finished ones, and the one finished last adds no cycle.
`SearchTyping`, `MarksLieOnCycles` (`OnlyCycles`) and `UnmarkedAreAcyclic`
(`NoCycleLeft`) follow.

**The images** (`ImageScanProofs`).  `VerdictsAreCurrent` needs to know where a
digest and the tag come from: `SeenInv` says that a digest at hand is one the
registry's tag has had since the scan of this container began, `CompareInv` that
a comparison is reached only by a container that is not to be pulled, by a digest
that matched, or by a pull, after which the tag is one that was seen unless the
pull was torn or overtaken.  `ListingsAreNews` follows from the same invariant.
`NobodyIsPassedOver` rests on `AnswerInv`: who has no answer is ahead or at hand.

**The process and its notifier** (`SessionFlowProofs`).  The notifier is proved
first, action by action, whoever calls it (`NotifierInv`), then placed in the
process, each of whose steps is one of the notifier's or leaves it alone
(`NotifierMoves`).  `DrainInv` (a worker drains only when told to stop, and what
comes then is late) gives `ClosesWhenDrained`.  `ReportsKeepTheirEntries` needs
three facts at once: no goroutine but the session starts a batch once `main` has
started up (`StarterInv`), a session tells one report or none (`NewsInv`), and
from its start to its report the batch is its own (`BatchInv`).  `MetricsAreKept`
needs that a session's metric is registered only after the session has ended, so
that what comes into the queue is newer than all it holds (`CountInv`), and that
the last session whose metric was kept is the newest in the queue or, when that
is empty, the one the gauges show (`Newest`).

`EntriesArePlaced` (`EntriesAreKept`) says of every entry that it is at exactly
one place from the moment it is logged (`Placed`), though it goes from the batch
to a call, the queue, the hands of the worker and out, by steps of four kinds of
goroutines.  Each step moves an entry from one place to another or leaves it
(`Moves`); what makes the moves meet is `CallsInv`: a goroutine that starts a
batch holds the mutex and has in hand exactly the batch, so that the two count as
one place, and who has met a full queue has left a record of it.
`SessionsTellTheirNews` (`NewsIsTold`) rests on `TellInv`: every subject a session
has yet to tell, is telling, or has told is in one of the three only (`OnceInv`),
and as long as nothing stands against a message, no newsworthy container is in
none of them (`AllInv`).  For an update that returned an error `ErrInv` says that
its empty report is on its way or told, alone, unless a legacy template had
nothing to print.

**The host** (`SharedHostProofs`).  Every invariant of the run `host` is a
theorem.  Each call of the daemon sets the state of one container, makes one, or
names one (`Sets`, `Makes`, `Names`), whoever makes it, so that each action is
looked at once and what follows is about the three.

| theorem | property | what the invariant adds |
|---|---|---|
| `TypeCorrect` | `TypeOK` | `SeenInv`: what a session holds are containers that were made, it holds an old one exactly while it replaces it, and the new one has its service |
| `DependenciesComeFirst` | `DependenciesFirst` | `InOrder`: what stands in the order waits only for what stands before it or has started, and never for itself; `SearchInv`: the path repeats nothing and holds nothing that is in order; `CreatesInv`: every service has started or is still in the order |
| `RemovedStayGone` | `RemovedStaysGone` | `ClaimInv`: what a request claims and nobody has made since is among what it has left; `GoneInv`: nothing a session holds was removed for good |
| `StoppedStayDown` | `StoppedStaysDown` | `ClaimInv` for what still runs, and `DownInv`: nothing a session has seen run was stopped for good, and nothing is while sessions revive |
| `NobodyRunsTwice` | `NoTwins` | `NameInv`: every container but the one being made bears its service's name, unless one was left behind; names being unique, there are no two |

**Only model-checked.**  Liveness (`SessionEnds`, `SearchEnds`,
`WaitersAreServed`, `ShutdownEnds`, `ScanEnds`, `CloseEnds`) is out of the
prover's reach.  Every other property of the passing runs is a theorem.

## 5. Where the code and its documentation disagree

1. *A cancellation strands containers* (run `cancelled`).  The restart of one
   container is detached from the context so that it completes, but the loop
   around it checks the context before each container.  After a SIGTERM between
   the stops and the starts, the containers that were removed are not recreated.
   `NothingLost` shows they are at least recorded as failed.
2. *Failures counted as fresh* (run `failedfresh`).  A container restarted for
   its dependency has two equal images; `categorizeContainer` looks at that
   before it looks at the failed state.
3. *Restarted but gone* (run `withheld`).  With `--no-restart` Watchtower still
   updates itself; a container linked to it is stopped and removed, its start is
   withheld without an error, and it is reported as restarted.
4. *The shutdown does not wait* (run `drained`).  The signal that stops the
   scheduler cancels the context that `WaitForRunningUpdate` also waits for.
5. *Cycles found in part* (run `incomplete`).  `DetectCycles` says it marks every
   container that is part of a cycle.  It does not mark one whose cycle closes
   only through a node that is already finished, and which one that is depends on
   the order of a map.  `UnmarkedAreAcyclic` shows that what is left can still be
   sorted.

Met while modelling, and stated here without a run:

* `internal/actions/check.go:17` says the check answers only the containers with
  newer upstream images.  An answer without a digest and without an error (an
  image without digests, or a manifest request whose one retry would itself need
  another) is compared with the empty string and listed, with no upstream digest.
  `ListedIsNews` states what holds of a listing that has one.
* The same loop passes no progress to `isPinned`, which writes to it: a container
  pinned by a digest makes the handler panic, and `net/http` recovers it.  An
  image the daemon no longer knows does the same at `check.go:68`.
* A comment at `pkg/notifications/shoutrrr.go:705` says that a send never comes
  after the shutdown.  `sendEntries` does not look at `closed` before it sends: a
  message is queued behind the end of the worker, and after the channel is closed
  the send panics.  When the queue is full its look at the worker's signal takes
  the signal away, and `Close` waits for ever; `CloseEnds` excludes both by name.
* A rolling restart that ends with an error after it has replaced containers
  (`internal/actions/update.go:369`) returns its report with the error, and
  `handleUpdateResult` (`internal/actions/actions.go:169`) drops the report: an
  empty one is sent, the metric is zero, and nobody is told which containers were
  replaced.  No comment or document says otherwise, so it is no finding;
  `NewsIsTold` names it as the exception.
* With notifications split by container and no reports the batch of a session is
  never sent: its entries are dropped when the next session begins, or at the end.
* `docs/advanced-features/linked-containers` says dependents are stopped first
  and restarted last.  A dependent whose pre-update hook or stop fails goes on
  running while its dependency is replaced, and a dependent is started although
  the start of its dependency failed.  `StopRespectsLinks` and
  `StartRespectsLinks` state what holds: failures are the only exceptions.
* The same page says a circular dependency fails with an error.  The containers
  found on a cycle are skipped and the session goes on without implicit restarts.
* `docs/advanced-features/lifecycle-hooks` says an unexpected exit code aborts
  the update process.  It aborts the update of that container.

## 6. Not modelled

* Parsing and formatting: labels (Compose labels too), image references,
  templates, service URLs, cgroup files, headers and JSON.  Conversions without a
  state of their own.
* Flags, secrets from files, the template preview and the examples: read once, or
  tools beside the program.
* Network, MAC and CPU settings carried over to a new container.
* Validation of rolling restarts: a pure check when the process starts.  A
  session may meet links all the same, since containers come later, and the run
  `session` has such hosts.
* The logs API: a stream has no state but its goroutines, which end with the
  context of their request.
* What the networks of a deployment are for: `EnsureNetwork` models the calls and
  their failures, and no property speaks of them.
* Links resolved by replica prefix or service name, the steps of the sort, and
  the retries around the removal of an excess instance.

The list of components in `PROJECT.json` says of each part what is left out.

## 7. Plan

Done: the session, the lock and the search for cycles with their proofs;
`Rollout` and its refinement; the images and the registry; notifier, metrics and
the flow around a session; services on a shared host; a proof of every invariant
and action property the passing runs check.

Left, in this order:

1. `DependencySort` and `LinkResolution`: the queue of the sort over the edges it
   resolves, against `NextToStart`; the three ways to resolve a link, which the
   sort, the search for cycles and the implicit restarts use differently.
2. `SelfUpdate`: successive Watchtowers, the removal of excess instances with its
   retries, restart after a crash; composed with `Rollout`.
3. `LogStream`: the goroutines and pipes of a stream.
