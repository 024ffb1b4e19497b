----------------------------- MODULE SessionFlow -----------------------------
(***************************************************************************)
(* A process from its start-up message to its last notification: main, the *)
(* sessions it runs one after the other (RunUpdatesWithNotifications in    *)
(* internal/actions/actions.go), whatever else logs, the notifier they     *)
(* share, and the metrics.  What an update does to its containers is in    *)
(* UpdateSession; here it is the fate its report gives each of them.       *)
(***************************************************************************)
EXTENDS Notifier, MetricsQueue

CONSTANTS
    Containers,
    MaxSessions,   \* bound on the number of sessions
    Settings       \* the settings to consider

ASSUME FlowAssumption ==
    /\ {"main", "session"} \subseteq Callers   \* and whatever else logs
    /\ Subjects = {"log", "empty", "report"} \cup Containers
    /\ Containers \cap {"log", "empty", "report"} = {}
    /\ MaxSessions \in Nat \ {0}
    /\ Settings \subseteq
         [split : BOOLEAN,        \* one notification for each container
          report : BOOLEAN,       \* the template prints the report, not the entries
          errorsOnly : BOOLEAN,   \* the notification level is error
          greet : BOOLEAN,        \* there is a start-up message
          once : BOOLEAN,         \* one session, and exit
          overlap : BOOLEAN,      \* the HTTP API runs sessions from the start
          entries : SUBSET Entries]  \* bound: what will be logged

VARIABLES
    cfg,         \* the settings
    main,        \* where main is
    session,     \* where the session is
    fate,        \* what the session's report says of each container
    todo,        \* the notifications it has still to send, kind by kind
    told,        \* the subjects it has put in the queue
    own,         \* the entries collected since it began
    latest,      \* the last session whose metric was not dropped
    sessions,    \* how many have begun
    registered,  \* how many have registered their metric
    logged       \* the entries logged so far

sessionVars == <<session, fate, todo, sessions, registered>>
historyVars == <<told, own, latest>>
vars == <<notifierVars, metricsVars, cfg, main, sessionVars, historyVars, logged>>

Fates  == {"fresh", "updated", "restarted", "monitored", "failed"}
Mains  == {"boot", "greeting", "failing", "serving", "closing", "exited"}
States == {"idle", "updating", "telling", "ended", "failed"}

(* Without reports the templates are the legacy ones. *)
Legacy  == ~cfg.report
With(f) == {c \in Containers : fate[c] = f}

(* Every variable holds a value of its kind; no session is in a call when  *)
(* there is none, what is to be told belongs to one that tells, and only   *)
(* main on its way out closes the notifier.                                *)
TypeOK ==
    /\ NotifierTypeOK /\ MetricsTypeOK
    /\ cfg \in Settings /\ main \in Mains /\ session \in States
    /\ fate \in [Containers -> Fates]
    /\ todo \in Seq(SUBSET Subjects) /\ told \in Seq(Subjects)
    /\ own \subseteq Entries /\ logged \subseteq Entries
    /\ sessions \in 0..MaxSessions /\ registered \in 0..sessions /\ latest \in 0..sessions
    /\ session = "idle" => call["session"] = Idle
    /\ session # "telling" => todo = <<>>
    /\ close # "open" => main \in {"closing", "exited"}

Init ==
    /\ cfg \in Settings
    /\ NotifierInit /\ MetricsInit
    /\ main = "boot" /\ session = "idle"
    /\ fate = [c \in Containers |-> "fresh"] /\ todo = <<>>
    /\ told = <<>> /\ own = {} /\ latest = 0
    /\ sessions = 0 /\ registered = 0 /\ logged = {}

Returned(p) == call[p] = Idle

-----------------------------------------------------------------------------
(* main: the start-up message, or the notification of an error, the        *)
(* signal, and Close.                                                      *)

MainRest == UNCHANGED <<metricsVars, cfg, sessionVars, logged>>

(* The first half of the start-up message and of logNotify. *)
StartsMessage ==
    /\ main = "boot" /\ Returned("main")
    /\ main' \in (IF cfg.greet THEN {"greeting"} ELSE {}) \cup {"failing"}
    /\ StartNotification("main", FALSE)

NoMessage ==
    /\ main = "boot" /\ ~cfg.greet
    /\ main' = "serving"
    /\ UNCHANGED notifierVars

SendsMessage ==
    /\ main \in {"greeting", "failing"} /\ Returned("main")
    /\ main' = IF main = "greeting" THEN "serving" ELSE "closing"
    /\ SendNotification("main", "log")

(* The signal, or the end of the only session; a session of the scheduler  *)
(* or of the HTTP API may be under way.                                    *)
Stops ==
    /\ main = "serving" /\ Returned("main")
    /\ cfg.once => sessions = 1 /\ session = "idle"
    /\ main' = "closing"
    /\ UNCHANGED notifierVars

Closes ==
    /\ main = "closing" /\ Returned("main") /\ close # "shut"
    /\ CloseStep
    /\ UNCHANGED main

Exits ==
    /\ main = "closing" /\ close = "shut"
    /\ main' = "exited"
    /\ UNCHANGED notifierVars

Finishes == (SendsMessage \/ Closes \/ Exits) /\ MainRest
Main     == (StartsMessage \/ NoMessage \/ Stops) /\ MainRest

-----------------------------------------------------------------------------
(* One session. *)

(* Cron and the only session begin after the message and before the        *)
(* signal, the HTTP API's at any time.                                     *)
Open == main = "serving" \/ cfg.overlap

Begin ==
    /\ session = "idle" /\ sessions < MaxSessions /\ Open
    /\ cfg.once => sessions = 0
    /\ StartNotification("session", cfg.split)
    /\ session' = "updating" /\ sessions' = sessions + 1
    /\ UNCHANGED <<metricsVars, fate, todo, registered>>

(* ShouldSendNotification: at the level of errors, only of failures. *)
ShouldSend(f) == cfg.errorsOnly => \E c \in Containers : f[c] = "failed"

(* A split notification that looks at the updated containers only. *)
NewsOfUpdates(f) ==
    IF ~cfg.split THEN <<{"report"}>> ELSE <<{c \in Containers : f[c] = "updated"}>>

News(f) ==
    IF ~cfg.split THEN <<{"report"}>>
    ELSE <<{c \in Containers : f[c] = "updated"},
           {c \in Containers : f[c] = "restarted"},
           {c \in Containers : f[c] = "monitored"}>>

Succeeds ==
    /\ session = "updating" /\ Returned("session")
    /\ fate' \in [Containers -> Fates]
    /\ IF ShouldSend(fate') THEN session' = "telling" /\ todo' = News(fate')
                            ELSE session' = "ended" /\ UNCHANGED todo
    /\ UNCHANGED <<notifierVars, metricsVars, sessions, registered>>

(* An update that returns an error may have replaced containers before it: *)
(* its report is dropped, an empty one is sent, and its metric is zero.    *)
Errs ==
    /\ session = "updating" /\ Returned("session")
    /\ session' = "failed" /\ fate' \in [Containers -> Fates]
    /\ SendNotification("session", "empty")
    /\ UNCHANGED <<metricsVars, todo, sessions, registered>>

Tells(about) ==
    /\ session = "telling" /\ Returned("session")
    /\ todo # <<>> /\ about \in Head(todo)
    /\ todo' = <<Head(todo) \ {about}>> \o Tail(todo)
    /\ UNCHANGED <<metricsVars, session, fate, sessions, registered>>

TellReport(about) ==
    /\ cfg.report \/ ~cfg.split
    /\ Tells(about) /\ SendNotification("session", about)

(* In split mode the entries are composed for each container unless there  *)
(* are reports.                                                            *)
TellEntries(about) ==
    /\ ~cfg.report /\ cfg.split
    /\ Tells(about) /\ SendFilteredEntries("session", about)

NextKind ==
    /\ session = "telling" /\ todo # <<>> /\ Head(todo) = {}
    /\ todo' = Tail(todo)
    /\ UNCHANGED <<notifierVars, metricsVars, session, fate, sessions, registered>>

(* A session that stops telling after the first kind of news. *)
ToldEnough ==
    /\ session = "telling" /\ Returned("session")
    /\ session' = "ended"
    /\ UNCHANGED <<notifierVars, metricsVars, fate, todo, sessions, registered>>

Told ==
    /\ session = "telling" /\ todo = <<>> /\ Returned("session")
    /\ session' = "ended"
    /\ UNCHANGED <<notifierVars, metricsVars, fate, todo, sessions, registered>>

(* The caller registers the metric, but for the handler that applies       *)
(* updates.                                                                *)
End ==
    /\ session \in {"ended", "failed"} /\ Returned("session")
    /\ session' = "idle" /\ fate' = [c \in Containers |-> "fresh"]
    /\ \/ Register(sessions) /\ registered' = registered + 1
       \/ UNCHANGED <<metricsVars, registered>>
    /\ UNCHANGED <<notifierVars, todo, sessions>>

Session ==
    /\ \/ Begin \/ Succeeds \/ Errs \/ NextKind \/ Told \/ End
       \/ \E a \in Subjects : TellReport(a) \/ TellEntries(a)
    /\ UNCHANGED <<cfg, main, logged>>

-----------------------------------------------------------------------------
(* The rest of the process. *)

Logs(p) ==
    /\ Returned(p)
    /\ \/ p = "main" /\ main \in {"boot", "greeting"}
       \/ p = "session" /\ session # "idle"
       \/ p \notin {"main", "session"}
    /\ cfg.entries # logged
    /\ LET e == CHOOSE e \in cfg.entries : e \notin logged
       IN Fire(p, e) /\ logged' = logged \cup {e}
    /\ UNCHANGED <<metricsVars, cfg, main, sessionVars>>

Sends(p) == Sender(p, Legacy) /\ UNCHANGED <<metricsVars, cfg, main, sessionVars, logged>>
Works    == Worker /\ UNCHANGED <<metricsVars, cfg, main, sessionVars, logged>>
Counts   == HandleUpdate /\ UNCHANGED <<notifierVars, cfg, main, sessionVars, logged>>

(* The session's StartNotification returns; the session's message is       *)
(* queued.                                                                 *)
BatchOpened ==
    /\ Returned("session")'
    /\ \/ session = "idle" /\ session' = "updating"
       \/ call["session"].op = "start" /\ ~Returned("session")

MessageQueued ==
    /\ queue' # queue /\ Len(queue') > Len(queue)
    /\ call["session"].op = "send" /\ Returned("session")'

History ==
    /\ own' = IF BatchOpened \/ session' = "idle" THEN {} ELSE own \cup (batch' \ batch)
    /\ told' = IF session' = "idle" THEN <<>>
               ELSE IF MessageQueued THEN Append(told, call["session"].msg.about) ELSE told
    /\ latest' = IF registered' # registered /\ dropped' = dropped THEN sessions ELSE latest

Alive   == main # "exited" /\ ~panicked
Turn(A) == Alive /\ A /\ History

Step ==
    \/ Turn(Main)
    \/ Turn(Finishes)
    \/ Turn(Session)
    \/ Turn(Works)
    \/ Turn(Counts)
    \/ \E p \in Callers : Turn(Logs(p)) \/ Turn(Sends(p))

(* A process that is over, or whose Close waits for the worker, for ever   *)
(* if its signal is gone.                                                  *)
Over == (~Alive \/ close = "stopped") /\ UNCHANGED vars

Next == Step \/ Over

(* The goroutines run, and every service of the router answers a message.  *)
Fairness ==
    /\ WF_vars(Turn(Works))
    /\ WF_vars(Turn(Finishes))
    /\ \A p \in Callers : WF_vars(Turn(Sends(p)))

Spec == Init /\ [][Next]_vars /\ Fairness

-----------------------------------------------------------------------------
(* The places an entry may be at. *)
Holders(e) ==
    {<<"call", p>> : p \in {p \in Callers : e \in call[p].msg.lines}} \cup
    {<<"queue", i>> : i \in {i \in DOMAIN queue : e \in queue[i].lines}} \cup
    {<<"batch">> : x \in {x \in {e} : e \in batch /\ \A p \in Callers : call[p].op # "start"}} \cup
    {<<"worker">> : x \in {x \in {e} : inHand # Free /\ e \in inHand.lines}} \cup
    {<<"services">> : x \in {x \in {e} : e \in delivered}} \cup
    {<<"lost">> : x \in {x \in {e} : e \in lost}}

(* Whatever the goroutines do at the same time, every log entry is at one  *)
(* place, so that it is never sent twice; and none is lost but by a new    *)
(* session that splits its notifications, by a queue that was full, or     *)
(* because the notifier was being closed (Fire, StartNotification,         *)
(* SendNotification, sendEntries).                                         *)
EntriesAreKept ==
    /\ \A e \in logged : Cardinality(Holders(e)) = 1
    /\ lost # {} => cfg.split \/ filled \/ Closed

(* The worker is over before the channel is closed, and every message that *)
(* was queued before Close began has been sent (Close, sendNotifications). *)
DrainedBeforeClosed ==
    close \in {"over", "shut"} =>
        worker = "over" /\ \A i \in DOMAIN queue : queue[i].late

(* The report of a session goes out with the entries collected since it    *)
(* began, all of them and no others, unless it ran beside the start-up     *)
(* message, which shares its batch (RunUpdatesWithNotifications).          *)
ReportHasItsEntries ==
    call["session"].op = "send" /\ call["session"].msg.about \in {"report", "empty"}
        /\ ~cfg.overlap
        => call["session"].msg.lines = own

(* Unless the queue was full or the notifier closing: a session that ends  *)
(* with a report has told of every container it updated, restarted or only *)
(* monitored, once, but below its level or where a legacy template had     *)
(* nothing to print.  One whose update returned an error names none of the *)
(* containers, replaced though they may be: it has sent an empty report    *)
(* and nothing else (sendNotifications, handleUpdateResult).               *)
NewsIsTold ==
    Returned("session") /\ ~filled /\ close = "open" =>
        /\ session = "ended" /\ ~cfg.errorsOnly =>
             /\ \A i, j \in DOMAIN told : told[i] = told[j] => i = j
             /\ \A c \in With("updated") \cup With("restarted") \cup With("monitored") :
                  \/ \E i \in DOMAIN told : told[i] \in {c, "report"}
                  \/ ~cfg.split /\ Legacy
        /\ session = "failed" =>
             told = <<"empty">> \/ (Legacy /\ told = <<>>)

(* Close ends, unless a sender that found the queue full took the signal   *)
(* Close waits for, or the process panics.                                 *)
CloseEnds == main = "closing" ~> main = "exited" \/ panicked \/ stolen

(* Every metric registered is counted, waiting or known to be dropped; the *)
(* gauges show sessions in the order they ended, and what they show when   *)
(* nothing waits, or will show in the end, is the last session whose       *)
(* metric was not dropped (Register, HandleUpdate).                        *)
MetricsAddUp ==
    /\ registered = scans + dropped + Len(metrics)
    /\ \A i \in DOMAIN metrics : gauge < metrics[i]
    /\ \A i, j \in DOMAIN metrics : i < j => metrics[i] < metrics[j]
    /\ latest = IF metrics = <<>> THEN gauge ELSE metrics[Len(metrics)]
=============================================================================
