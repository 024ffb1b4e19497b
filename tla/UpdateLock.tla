----------------------------- MODULE UpdateLock -----------------------------
(***************************************************************************)
(* Who may run an update session, and when the process ends: the main      *)
(* goroutine (cmd/root.go, internal/scheduling/scheduling.go), the cron    *)
(* job it schedules, and the HTTP handlers that run sessions (pkg/api/     *)
(* update, apply, check, download), all synchronised by one channel of     *)
(* capacity one that holds one token.                                      *)
(*                                                                         *)
(* A session itself is module UpdateSession; here it is the time between   *)
(* taking the token and giving it back.                                    *)
(***************************************************************************)
EXTENDS Naturals, Sequences

CONSTANTS
    Requests,    \* the HTTP requests that will arrive
    Targeted,    \* those with an image parameter
    Fallible,    \* those whose function returns an error: check, download
    Settings,    \* the settings and circumstances the process starts in
    Main, Job,   \* the main goroutine and the cron job
    Patient      \* whether the 60 s of WaitForRunningUpdate never elapse

Procs == Requests \cup {Main, Job}

Setting ==
    [api     : {"off", "blocking", "unblocked"},
     cron    : BOOLEAN,     \* a schedule is set
     onStart : BOOLEAN,     \* --update-on-start
     removed : BOOLEAN]     \* excess Watchtower instances were removed

ASSUME LockAssumption ==
    /\ Main # Job /\ Main \notin Requests /\ Job \notin Requests
    /\ Targeted \subseteq Requests /\ Fallible \subseteq Requests
    /\ Settings \subseteq Setting
    /\ Patient \in BOOLEAN

VARIABLES
    cfg,          \* the settings
    token,        \* the token is in the channel
    queue,        \* goroutines blocked in a receive, in the order they came
    pc,           \* where each goroutine is
    status,       \* the answer to each request
    listening,    \* the HTTP server accepts requests
    gone,         \* requests whose client has disconnected
    skipsSelf,    \* the job's session skips the self-update
    firstRun,     \* the flag of the first scheduled run is still unset
    guarded,      \* a scheduled session that skipped the self-update is over
    signalled,    \* SIGINT or SIGTERM has arrived
    interrupted,  \* ... and is in the interrupt channel
    cancelled     \* ... and has cancelled the context

vars == <<cfg, token, queue, pc, status, listening, gone, skipsSelf, firstRun,
          guarded, signalled, interrupted, cancelled>>

lockVars   == <<token, queue>>
signalVars == <<signalled, interrupted, cancelled>>
jobVars    == <<skipsSelf, firstRun, guarded>>
httpVars   == <<status, listening, gone>>

MainStates    == {"api", "schedule", "onstart", "serve", "drain", "waiting",
                  "handing", "close", "exit"}
JobStates     == {"idle", "locking", "waiting", "running"}
RequestStates == {"idle", "locking", "waiting", "running", "answered"}

Alive == pc[Main] # "exit"

(* p has the token. *)
Holds(p) == pc[p] \in {"running", "onstart", "handing"}

(* p is inside an update session. *)
InSession(p) == pc[p] \in {"running", "onstart"}

Goto(p, state) == pc' = [pc EXCEPT ![p] = state]

-----------------------------------------------------------------------------
(* The channel *)

(* Variant: WaitForRunningUpdate goes on as a session would. *)
GrantedRuns(p) == "running"

(* What a goroutine does with the token: WaitForRunningUpdate gives it back. *)
Granted(p) == IF p = Main THEN "handing" ELSE "running"

(* A receive that finds the token. *)
Take(p, state) ==
    /\ token
    /\ token' = FALSE
    /\ Goto(p, state)
    /\ UNCHANGED queue

(* A receive that blocks. *)
Block(p) ==
    /\ ~token
    /\ queue' = Append(queue, p)
    /\ Goto(p, "waiting")
    /\ UNCHANGED token

(* Variant: the token is handed over and put back. *)
GiveTwice(p, state) ==
    /\ token' = TRUE
    /\ IF queue = <<>>
       THEN Goto(p, state) /\ UNCHANGED queue
       ELSE /\ queue' = Tail(queue)
            /\ pc' = [pc EXCEPT ![p] = state, ![Head(queue)] = Granted(Head(queue))]

(* Variant: the sender leaves the token in the channel and wakes nobody. *)
GiveToChannel(p, state) ==
    /\ token' = TRUE
    /\ Goto(p, state)
    /\ UNCHANGED queue

(* A send hands the token to the goroutine that has waited longest, if any. *)
Give(p, state) ==
    IF queue = <<>>
    THEN /\ token' = TRUE
         /\ Goto(p, state)
         /\ UNCHANGED queue
    ELSE /\ queue' = Tail(queue)
         /\ pc' = [pc EXCEPT ![p] = state, ![Head(queue)] = Granted(Head(queue))]
         /\ UNCHANGED token

(* A blocked select returns by another case: p is taken out of the queue. *)
Leave(p, state) ==
    /\ \E i \in 1 .. Len(queue) :
          /\ queue[i] = p
          /\ queue' = [j \in 1 .. Len(queue) - 1 |->
                          IF j < i THEN queue[j] ELSE queue[j + 1]]
    /\ Goto(p, state)
    /\ UNCHANGED token

-----------------------------------------------------------------------------
Init ==
    /\ cfg \in Settings
    /\ token = TRUE
    /\ queue = <<>>
    /\ pc = [p \in Procs |-> IF p = Main THEN "api" ELSE "idle"]
    /\ status = [r \in Requests |-> 0]
    /\ listening = FALSE
    /\ gone = {}
    /\ skipsSelf = FALSE /\ firstRun = cfg.removed /\ guarded = FALSE
    /\ signalled = FALSE /\ interrupted = FALSE /\ cancelled = FALSE

(***************************************************************************)
(* SIGINT or SIGTERM: delivered to the interrupt channel only once main    *)
(* has registered it, and to the goroutine that cancels the context.       *)
(***************************************************************************)
Signal ==
    /\ Alive /\ ~signalled
    /\ signalled' = TRUE
    /\ interrupted' = (pc[Main] = "serve")
    /\ UNCHANGED <<cfg, lockVars, pc, httpVars, jobVars, cancelled>>

CancelContext ==
    /\ Alive /\ signalled /\ ~cancelled
    /\ cancelled' = TRUE
    /\ UNCHANGED <<cfg, lockVars, pc, httpVars, jobVars, signalled, interrupted>>

-----------------------------------------------------------------------------
(* The main goroutine *)

(* SetupAndStartAPI starts the server; unless it blocks, main goes on. *)
StartAPI ==
    /\ pc[Main] = "api" /\ ~listening /\ ~cancelled
    /\ cfg.api # "off"
    /\ listening' = TRUE
    /\ IF cfg.api = "unblocked" THEN Goto(Main, "schedule") ELSE UNCHANGED pc
    /\ UNCHANGED <<cfg, lockVars, status, gone, jobVars, signalVars>>

(* No API, or its blocking server has shut down for the cancelled context. *)
LeaveAPI ==
    /\ pc[Main] = "api"
    /\ cfg.api = "off" \/ (cancelled /\ ~listening)
    /\ Goto(Main, "schedule")
    /\ UNCHANGED <<cfg, lockVars, httpVars, jobVars, signalVars>>

(* The listener fails: if main is blocked in it, the process ends with code 1. *)
ListenerFails ==
    /\ Alive /\ listening
    /\ listening' = FALSE
    /\ IF pc[Main] = "api" THEN Goto(Main, "exit") ELSE UNCHANGED pc
    /\ UNCHANGED <<cfg, lockVars, status, gone, jobVars, signalVars>>

(* RunHTTPServer: the context is done, the listener closes. *)
StopListening ==
    /\ Alive /\ listening /\ cancelled
    /\ listening' = FALSE
    /\ UNCHANGED <<cfg, lockVars, pc, status, gone, jobVars, signalVars>>

(* Variant: update-on-start stays enabled after excess instances were removed. *)
UpdatesOnStartAlways == cfg.onStart

(* runMain and updateFunc: whether the immediate update asks for the token. *)
UpdatesOnStart == cfg.onStart /\ ~cfg.removed

StartSchedule ==
    /\ pc[Main] = "schedule"
    /\ \/ UpdatesOnStart /\ Take(Main, "onstart")
       \/ ~(UpdatesOnStart /\ token) /\ Goto(Main, "serve") /\ UNCHANGED lockVars
    /\ UNCHANGED <<cfg, httpVars, jobVars, signalVars>>

EndOnStart ==
    /\ pc[Main] = "onstart"
    /\ Give(Main, "serve")
    /\ UNCHANGED <<cfg, httpVars, jobVars, signalVars>>

(* The select on the context and the interrupt channel; scheduler.Stop. *)
StopScheduler ==
    /\ pc[Main] = "serve"
    /\ cancelled \/ interrupted
    /\ Goto(Main, IF token THEN "close" ELSE "drain")
    /\ UNCHANGED <<cfg, lockVars, httpVars, jobVars, signalVars>>

(* WaitForRunningUpdate found the channel empty: its select. *)
Drain ==
    /\ pc[Main] = "drain"
    /\ \/ Take(Main, "handing")
       \/ ~cancelled /\ Block(Main)
       \/ cancelled /\ Goto(Main, "close") /\ UNCHANGED lockVars
    /\ UNCHANGED <<cfg, httpVars, jobVars, signalVars>>

(* Variant: only the time-out ends the wait. *)
StopWaitingPatiently ==
    /\ pc[Main] = "waiting"
    /\ ~Patient
    /\ Leave(Main, "close")
    /\ UNCHANGED <<cfg, httpVars, jobVars, signalVars>>

StopWaiting ==
    /\ pc[Main] = "waiting"
    /\ cancelled \/ ~Patient
    /\ Leave(Main, "close")
    /\ UNCHANGED <<cfg, httpVars, jobVars, signalVars>>

(* Variant: the token is kept. *)
HandBackKeeps ==
    /\ pc[Main] = "handing"
    /\ Goto(Main, "close")
    /\ UNCHANGED <<cfg, lockVars, httpVars, jobVars, signalVars>>

(* lock <- v *)
HandBack ==
    /\ pc[Main] = "handing"
    /\ Give(Main, "close")
    /\ UNCHANGED <<cfg, httpVars, jobVars, signalVars>>

(* notifier.Close, and the process ends with whatever still runs in it. *)
Exit ==
    /\ pc[Main] = "close"
    /\ Goto(Main, "exit")
    /\ UNCHANGED <<cfg, lockVars, httpVars, jobVars, signalVars>>

MainStep ==
    \/ StartAPI \/ LeaveAPI \/ StartSchedule \/ StopScheduler
    \/ Drain \/ StopWaiting \/ HandBack \/ Exit

-----------------------------------------------------------------------------
(* The cron job *)

(***************************************************************************)
(* The scheduler runs between update-on-start and its Stop.  A run still   *)
(* going on makes it skip (SkipIfStillRunning).  The first run after a     *)
(* removal of excess instances skips the self-update.                      *)
(***************************************************************************)
Tick ==
    /\ pc[Main] = "serve" /\ cfg.cron
    /\ pc[Job] = "idle"
    /\ skipsSelf' = firstRun
    /\ firstRun' = FALSE
    /\ Goto(Job, "locking")
    /\ UNCHANGED <<cfg, lockVars, httpVars, guarded, signalVars>>

(* A receive without a context: the job waits as long as it takes. *)
JobLocks ==
    /\ Alive /\ pc[Job] = "locking"
    /\ Take(Job, "running") \/ Block(Job)
    /\ UNCHANGED <<cfg, httpVars, jobVars, signalVars>>

(* The session ends, or panics and is recovered: the token is given back. *)
JobEnds ==
    /\ Alive /\ pc[Job] = "running"
    /\ Give(Job, "idle")
    /\ guarded' = (guarded \/ skipsSelf)
    /\ UNCHANGED <<cfg, httpVars, skipsSelf, firstRun, signalVars>>

-----------------------------------------------------------------------------
(* The HTTP handlers *)

(* The request's context is done: shutdown, or the client is gone. *)
Done(r) == cancelled \/ r \in gone

Answer(r, code) == status' = [status EXCEPT ![r] = code]

(* The request arrives; its body may be unreadable. *)
Arrive(r) ==
    /\ Alive /\ listening /\ pc[r] = "idle"
    /\ \/ Goto(r, "locking") /\ UNCHANGED status
       \/ Goto(r, "answered") /\ Answer(r, 500)
    /\ UNCHANGED <<cfg, lockVars, listening, gone, jobVars, signalVars>>

Disconnect(r) ==
    /\ Alive /\ pc[r] \in {"locking", "waiting", "running"} /\ r \notin gone
    /\ gone' = gone \cup {r}
    /\ UNCHANGED <<cfg, lockVars, pc, status, listening, jobVars, signalVars>>

(* A full request: no waiting. *)
TryLock(r) ==
    /\ Alive /\ pc[r] = "locking" /\ r \notin Targeted
    /\ \/ Take(r, "running") /\ UNCHANGED status
       \/ ~token /\ Goto(r, "answered") /\ Answer(r, 429) /\ UNCHANGED lockVars
    /\ UNCHANGED <<cfg, listening, gone, jobVars, signalVars>>

(* A targeted request: a select on the token and on the request's context. *)
WaitLock(r) ==
    /\ Alive /\ pc[r] = "locking" /\ r \in Targeted
    /\ \/ Take(r, "running") /\ UNCHANGED status
       \/ ~Done(r) /\ Block(r) /\ UNCHANGED status
       \/ Done(r) /\ Goto(r, "answered") /\ Answer(r, 503) /\ UNCHANGED lockVars
    /\ UNCHANGED <<cfg, listening, gone, jobVars, signalVars>>

Withdraw(r) ==
    /\ Alive /\ pc[r] = "waiting" /\ Done(r)
    /\ Leave(r, "answered") /\ Answer(r, 503)
    /\ UNCHANGED <<cfg, listening, gone, jobVars, signalVars>>

(* The function returns with or without an error, or panics: no answer then. *)
SessionAnswer(r) ==
    \/ Answer(r, 200)
    \/ r \in Fallible /\ Answer(r, 500)
    \/ UNCHANGED status

(* Variant: nothing is given back if the client has left. *)
RequestEndsForgets(r) ==
    /\ Alive /\ pc[r] = "running"
    /\ IF r \in gone THEN Goto(r, "answered") /\ UNCHANGED lockVars ELSE Give(r, "answered")
    /\ SessionAnswer(r)
    /\ UNCHANGED <<cfg, listening, gone, jobVars, signalVars>>

(* The deferred send runs in every case. *)
RequestEnds(r) ==
    /\ Alive /\ pc[r] = "running"
    /\ Give(r, "answered")
    /\ SessionAnswer(r)
    /\ UNCHANGED <<cfg, listening, gone, jobVars, signalVars>>

RequestStep(r) == TryLock(r) \/ WaitLock(r) \/ Withdraw(r)

-----------------------------------------------------------------------------
Exited == ~Alive /\ UNCHANGED vars

Next ==
    \/ Signal \/ CancelContext \/ StopListening \/ ListenerFails
    \/ MainStep \/ EndOnStart
    \/ Tick \/ JobLocks \/ JobEnds
    \/ \E r \in Requests : Arrive(r) \/ Disconnect(r) \/ RequestStep(r) \/ RequestEnds(r)
    \/ Exited

(* Every goroutine runs on; nothing makes a signal, a tick or a request come. *)
Progress ==
    /\ WF_vars(CancelContext) /\ WF_vars(StopListening)
    /\ WF_vars(MainStep) /\ WF_vars(JobLocks)
    /\ \A r \in Requests : WF_vars(RequestStep(r))

(* SessionEnds of module UpdateSession, for each kind of caller. *)
OnStartEnds  == WF_vars(EndOnStart)
SessionsEnd == OnStartEnds /\ WF_vars(JobEnds) /\ \A r \in Requests : WF_vars(RequestEnds(r))

Spec == Init /\ [][Next]_vars /\ Progress /\ SessionsEnd

(* Docker may keep the sessions of the job and of the handlers for ever. *)
StuckSpec == Init /\ [][Next]_vars /\ Progress /\ OnStartEnds

-----------------------------------------------------------------------------
(* The variables hold values of their types. *)
TypeOK ==
    /\ cfg \in Settings
    /\ token \in BOOLEAN
    /\ queue \in Seq(Procs)
    /\ pc \in [Procs -> MainStates \cup JobStates \cup RequestStates]
    /\ pc[Main] \in MainStates /\ pc[Job] \in JobStates
    /\ \A r \in Requests : pc[r] \in RequestStates
    /\ status \in [Requests -> {0, 200, 429, 500, 503}]
    /\ listening \in BOOLEAN
    /\ gone \subseteq Requests
    /\ skipsSelf \in BOOLEAN /\ firstRun \in BOOLEAN /\ guarded \in BOOLEAN
    /\ signalled \in BOOLEAN /\ interrupted \in BOOLEAN /\ cancelled \in BOOLEAN

(***************************************************************************)
(* At most one session at a time: no two goroutines have the token, and    *)
(* none has it while it is in the channel.  The token passes through       *)
(* deferred sends, withdrawals and the hand-back of the shutdown.          *)
(***************************************************************************)
OneSession ==
    /\ \A p, q \in Procs : Holds(p) /\ Holds(q) => p = q
    /\ token => \A p \in Procs : ~Holds(p)

(***************************************************************************)
(* The token is never lost: it is in the channel or a goroutine has it.    *)
(* A session that panics or whose client has left gives it back too.       *)
(***************************************************************************)
TokenKept == token \/ \E p \in Procs : Holds(p)

(* No goroutine waits while the token lies in the channel: no lost wake-up. *)
NoIdleWaiter == token => \A p \in Procs : pc[p] # "waiting"

(***************************************************************************)
(* After excess instances were removed, no session may update Watchtower   *)
(* itself before a scheduled session that skipped it is over (skipFirstRun *)
(* in scheduling.go, UpdateOnStart in root.go).  A session of the API      *)
(* never updates Watchtower: it runs with RunOnce.                         *)
(***************************************************************************)
NoEarlySelfUpdate ==
    /\ cfg.removed /\ pc[Job] = "running" => skipsSelf \/ guarded
    /\ cfg.removed => pc[Main] # "onstart"

(***************************************************************************)
(* A full request is refused with 429 only while another goroutine has the *)
(* token (TryLock's default branch).                                       *)
(***************************************************************************)
RefusedOnlyWhenBusy ==
    [][\A r \in Requests :
          status[r] = 0 /\ status'[r] = 429 =>
              \E p \in Procs \ {r} : Holds(p)]_vars

(***************************************************************************)
(* The job and the targeted requests, which wait for the token, get it or  *)
(* give up, whatever the others do: requests that keep coming do not       *)
(* starve the schedule, nor the schedule a request, if no session hangs.   *)
(***************************************************************************)
WaitersAreServed ==
    SessionsEnd => \A p \in Targeted \cup {Job} : pc[p] = "waiting" ~> pc[p] # "waiting" \/ ~Alive

(* A signal ends the process even if a session never ends. *)
ShutdownEnds == signalled ~> ~Alive

(***************************************************************************)
(* "Stop the scheduler and wait for any running update to complete": with  *)
(* no time-out, the wait does not end during a session (comment in      *)
(* RunUpgradesOnSchedule).                                                 *)
(***************************************************************************)
WaitsForRunningUpdate ==
    pc[Main] = "close" => \A p \in Procs : ~InSession(p)
=============================================================================
