------------------------- MODULE SessionFlowProofs --------------------------
(***************************************************************************)
(* The notifier and the metrics beside the sessions, for every number of   *)
(* callers, entries and sessions and every size of the channels.           *)
(***************************************************************************)
EXTENDS SessionFlow, FiniteSetTheorems, SequenceTheorems, TLAPS

-----------------------------------------------------------------------------
(* The notifier *)

(* The worker drains only when told to stop, and what comes then is late. *)
DrainInv ==
    /\ worker \in {"draining", "flushing", "over"} => Stopped
    /\ worker = "over" => \A i \in DOMAIN queue : queue[i].late

NotifierInv == NotifierTypeOK /\ DrainInv

LEMMA MessageTypes ==
    ASSUME NEW lines \in SUBSET Entries, NEW about \in Subjects
    PROVE  /\ Msg(lines, about) \in Message
           /\ [Msg(lines, about) EXCEPT !.made = TRUE] \in Message
           /\ Idle \in [op : Calls, step : Steps, msg : Message]
           /\ Idle.op = "none" /\ Msg({}, "log") \in Message
  BY NotifierAssumption DEF Msg, Message, Idle, Calls, Steps

(* A call is entered while nobody else moves. *)
LEMMA EnterTypes ==
    ASSUME NotifierInv, NEW p \in Callers, NEW op \in Calls, NEW step \in Steps, NEW msg \in Message,
           Enter(p, op, step, msg)
    PROVE  /\ call' \in [Callers -> [op : Calls, step : Steps, msg : Message]]
           /\ call'[p].op = op
           /\ \A q \in Callers : q # p => call'[q] = call[q]
  BY DEF NotifierInv, NotifierTypeOK, Enter

(* What leaves the worker and the way of Close alone keeps DrainInv. *)
LEMMA QuietDrains ==
    ASSUME NotifierInv, Quiet
    PROVE  DrainInv'
  BY DEF NotifierInv, DrainInv, Quiet, workerVars, Stopped

LEMMA StartsNotifier ==
    ASSUME NotifierInv, NEW p \in Callers, NEW s, StartNotification(p, s)
    PROVE  NotifierInv'
  <1>1. CASE batch # {} /\ ~s
    <2>1. /\ mutex' = p /\ Enter(p, "start", "put", Msg(batch, "log"))
          /\ UNCHANGED <<batching, batch, lossVars>>
      BY <1>1 DEF StartNotification
    <2>2. Msg(batch, "log") \in Message
      BY MessageTypes, NotifierAssumption DEF NotifierInv, NotifierTypeOK
    <2>3. /\ call' \in [Callers -> [op : Calls, step : Steps, msg : Message]]
          /\ call'[p].op = "start"
      BY <2>1, <2>2, EnterTypes DEF Calls, Steps
    <2>4. QED
      BY <2>1, <2>3, QuietDrains
         DEF StartNotification, NotifierInv, NotifierTypeOK, Quiet, workerVars, lossVars
  <1>2. CASE ~(batch # {} /\ ~s)
    BY <1>2, QuietDrains
       DEF StartNotification, NotifierInv, NotifierTypeOK, Quiet, workerVars
  <1>3. QED
    BY <1>1, <1>2

LEMMA SendsNotifier ==
    ASSUME NotifierInv, NEW p \in Callers, NEW about \in Subjects,
           SendNotification(p, about) \/ (SendFilteredEntries(p, about) /\ Returned(p))
    PROVE  NotifierInv'
  <1>1. \E m \in Message : Enter(p, "send", "put", m)
    BY MessageTypes DEF SendNotification, SendFilteredEntries, NotifierInv, NotifierTypeOK
  <1>2. /\ call' \in [Callers -> [op : Calls, step : Steps, msg : Message]]
        /\ \A q \in Callers : q # p => call'[q] = call[q]
    BY <1>1, EnterTypes DEF Calls, Steps
  <1>3. mutex' = mutex /\ mutex # p
    BY NotifierAssumption DEF SendNotification, SendFilteredEntries, batchVars, Returned, Idle,
       NotifierInv, NotifierTypeOK
  <1>4. Quiet /\ UNCHANGED lossVars /\ batching' \in BOOLEAN /\ batch' \subseteq Entries
        /\ (~batching' => batch' = {})
    BY DEF SendNotification, SendFilteredEntries, NotifierInv, NotifierTypeOK, batchVars
  <1>5. QED
    BY <1>2, <1>3, <1>4, QuietDrains
       DEF NotifierInv, NotifierTypeOK, Quiet, workerVars, lossVars

LEMMA FiresNotifier ==
    ASSUME NotifierInv, NEW p \in Callers, NEW e \in Entries, Returned(p), Fire(p, e)
    PROVE  NotifierInv'
  <1>1. mutex # p /\ "log" \in Subjects
    BY NotifierAssumption DEF Returned, Idle, NotifierInv, NotifierTypeOK
  <1>2. CASE Closed
    BY <1>2, QuietDrains
       DEF Fire, NotifierInv, NotifierTypeOK, Quiet, workerVars, batchVars
  <1>3. CASE ~Closed
    <2>1. Msg({e}, "log") \in Message
      BY <1>1, MessageTypes
    <2>2. /\ call' \in [Callers -> [op : Calls, step : Steps, msg : Message]]
          /\ \A q \in Callers : q # p => call'[q] = call[q]
      BY <1>3, <2>1, EnterTypes DEF Fire, Calls, Steps
    <2>3. QED
      BY <1>1, <1>3, <2>2, QuietDrains
         DEF Fire, NotifierInv, NotifierTypeOK, Quiet, workerVars, batchVars
  <1>4. QED
    BY <1>2, <1>3

LEMMA ReturnTypes ==
    ASSUME NotifierInv, NEW p \in Callers, Return(p)
    PROVE  /\ call' \in [Callers -> [op : Calls, step : Steps, msg : Message]]
           /\ mutex' \in Callers \cup {Free}
           /\ \A q \in Callers : mutex' = q => call'[q].op \in {"start", "fire"}
           /\ batching' \in BOOLEAN /\ batch' \subseteq Entries /\ (~batching' => batch' = {})
  <1>1. Idle \in [op : Calls, step : Steps, msg : Message]
    BY MessageTypes, NotifierAssumption DEF Idle, Msg, Message, Calls, Steps
  <1>2. mutex' # p /\ \A q \in Callers : q # p => call'[q] = call[q]
    BY NotifierAssumption DEF Return, NotifierInv, NotifierTypeOK
  <1>3. QED
    BY <1>1, <1>2, NotifierAssumption DEF Return, NotifierInv, NotifierTypeOK

(* The call goes on to its next step. *)
LEMMA StepTypes ==
    ASSUME NotifierInv, NEW p \in Callers, NEW s \in Steps, call' = [call EXCEPT ![p].step = s]
    PROVE  /\ call' \in [Callers -> [op : Calls, step : Steps, msg : Message]]
           /\ \A q \in Callers : call'[q].op = call[q].op
  BY DEF NotifierInv, NotifierTypeOK

LEMMA LocksNotifier ==
    ASSUME NotifierInv, NEW p \in Callers, FireLocks(p)
    PROVE  NotifierInv'
  <1>1. DrainInv'
    BY QuietDrains DEF FireLocks
  <1>2. CASE batching
    <2>1. /\ call' = [call EXCEPT ![p] = Idle] /\ mutex' = mutex /\ mutex = Free
          /\ batch' = batch \cup call[p].msg.lines /\ call[p].msg \in Message
          /\ UNCHANGED <<batching, lossVars>>
      BY <1>2 DEF FireLocks, NotifierInv, NotifierTypeOK
    <2>2. batch' \subseteq Entries
      BY <2>1 DEF Message, NotifierInv, NotifierTypeOK
    <2>3. Idle \in [op : Calls, step : Steps, msg : Message]
      BY MessageTypes, NotifierAssumption DEF Idle, Msg, Message, Calls, Steps
    <2>4. QED
      BY <1>1, <1>2, <2>1, <2>2, <2>3, NotifierAssumption
         DEF FireLocks, Quiet, workerVars, lossVars, NotifierInv, NotifierTypeOK
  <1>3. CASE ~batching
    <2>1. call' = [call EXCEPT ![p].step = "put"] /\ mutex' = p /\ call[p].op = "fire" /\ mutex = Free
      BY <1>3 DEF FireLocks
    <2>2. /\ call' \in [Callers -> [op : Calls, step : Steps, msg : Message]]
          /\ \A q \in Callers : call'[q].op = call[q].op
      BY <2>1, StepTypes DEF Steps
    <2>3. QED
      BY <1>1, <1>3, <2>1, <2>2
         DEF FireLocks, Quiet, workerVars, lossVars, NotifierInv, NotifierTypeOK
  <1>4. QED
    BY <1>2, <1>3

LEMMA PutsNotifier ==
    ASSUME NotifierInv, NEW p \in Callers, NEW legacy, Put(p, legacy)
    PROVE  NotifierInv'
  <1>1. /\ UNCHANGED <<worker, inHand, done, delivered, close, lost, stolen>>
        /\ filled' \in BOOLEAN /\ panicked' \in BOOLEAN
    BY DEF Put, NotifierInv, NotifierTypeOK
  <1>2. /\ queue' \in Seq(Message) /\ Len(queue') <= Cap
        /\ worker = "over" => \A i \in DOMAIN queue' : queue'[i].late
    <2>1. CASE queue' = queue
      BY <2>1 DEF NotifierInv, NotifierTypeOK, DrainInv
    <2>2. CASE queue' # queue
      <3>1. Len(queue) < Cap /\ queue' = Append(queue, [call[p].msg EXCEPT !.late = Closed])
        BY <2>2 DEF Put
      <3>2. [call[p].msg EXCEPT !.late = Closed] \in Message
        BY DEF NotifierInv, NotifierTypeOK, Message, Closed
      <3>3. queue \in Seq(Message) /\ Cap \in Nat
        BY NotifierAssumption DEF NotifierInv, NotifierTypeOK
      <3>4. worker = "over" => Closed
        BY DEF NotifierInv, DrainInv, Stopped, Closed
      <3>5. worker = "over" => [call[p].msg EXCEPT !.late = Closed].late
        BY <3>4 DEF NotifierInv, NotifierTypeOK, Message
      <3>6. \A i \in DOMAIN queue' : \/ i \in DOMAIN queue /\ queue'[i] = queue[i]
                                     \/ queue'[i] = [call[p].msg EXCEPT !.late = Closed]
        BY <3>1, <3>2, <3>3
      <3>7. queue' \in Seq(Message) /\ Len(queue') <= Cap
        BY <3>1, <3>2, <3>3
      <3>8. QED
        BY <3>5, <3>6, <3>7 DEF NotifierInv, DrainInv
    <2>3. QED
      BY <2>1, <2>2
  <1>3. CASE Return(p)
    BY <1>1, <1>2, <1>3, ReturnTypes
       DEF NotifierInv, NotifierTypeOK, DrainInv, Stopped
  <1>4. CASE ~Return(p)
    <2>1. /\ UNCHANGED batchVars
          /\ call' = call \/ call' = [call EXCEPT ![p].step = "full"]
      BY <1>4 DEF Put
    <2>2. /\ call' \in [Callers -> [op : Calls, step : Steps, msg : Message]]
          /\ \A q \in Callers : call'[q].op = call[q].op
      BY <2>1, StepTypes DEF Steps, NotifierInv, NotifierTypeOK
    <2>3. QED
      BY <1>1, <1>2, <2>1, <2>2 DEF NotifierInv, NotifierTypeOK, DrainInv, Stopped, batchVars
  <1>5. QED
    BY <1>3, <1>4

LEMMA FullNotifier ==
    ASSUME NotifierInv, NEW p \in Callers, FoundFull(p) \/ LooksForWorker(p)
    PROVE  NotifierInv'
  <1>1. /\ UNCHANGED <<queue, worker, inHand, delivered, close, panicked, filled>>
        /\ done' \in BOOLEAN /\ (done' => done) /\ stolen' \in BOOLEAN
    <2>1. CASE FoundFull(p)
      BY <2>1 DEF FoundFull, workerVars, NotifierInv, NotifierTypeOK
    <2>2. CASE LooksForWorker(p)
      BY <2>2 DEF LooksForWorker, NotifierInv, NotifierTypeOK
    <2>3. QED
      BY <2>1, <2>2
  <1>2. CASE Drops(p)
    <2>1. Return(p) /\ lost' \subseteq Entries
      BY <1>2 DEF Drops, NotifierInv, NotifierTypeOK, Message
    <2>2. QED
      BY <1>1, <2>1, ReturnTypes DEF NotifierInv, NotifierTypeOK, DrainInv, Stopped
  <1>3. CASE ~Drops(p)
    <2>1. call' = [call EXCEPT ![p].step = "look"] /\ UNCHANGED <<batchVars, lost>>
      BY <1>3 DEF FoundFull, LooksForWorker
    <2>2. /\ call' \in [Callers -> [op : Calls, step : Steps, msg : Message]]
          /\ \A q \in Callers : call'[q].op = call[q].op
      BY <2>1, StepTypes DEF Steps
    <2>3. QED
      BY <1>1, <2>1, <2>2 DEF NotifierInv, NotifierTypeOK, DrainInv, Stopped, batchVars
  <1>4. QED
    BY <1>2, <1>3

LEMMA WorkerNotifier ==
    ASSUME NotifierInv, Worker
    PROVE  NotifierInv'
  <1>1. UNCHANGED <<batchVars, lossVars, call, close, panicked>>
    BY DEF Worker, WorkerRest
  <1>2. CASE WorkerTakes \/ WorkerDrains
    <2>1. /\ queue # <<>> /\ inHand' = Head(queue) /\ queue' = Tail(queue)
          /\ UNCHANGED <<done, delivered>> /\ worker \in {"idle", "draining"}
          /\ worker' = IF worker = "idle" THEN "sending" ELSE "flushing"
      BY <1>2 DEF WorkerTakes, WorkerDrains, Take
    <2>2. inHand' \in Message /\ queue' \in Seq(Message) /\ Len(queue') <= Cap
      BY <2>1, NotifierAssumption DEF NotifierInv, NotifierTypeOK
    <2>3. inHand' # Free
      BY <2>2, NotifierAssumption
    <2>4. QED
      BY <1>1, <2>1, <2>2, <2>3
         DEF NotifierInv, NotifierTypeOK, DrainInv, Stopped, batchVars, lossVars, Workers
  <1>3. CASE WorkerStops \/ Deliver \/ WorkerEnds
    <2>1. /\ queue' = queue /\ worker' \in Workers /\ delivered' \subseteq Entries
          /\ inHand' \in Message \cup {Free}
          /\ inHand' # Free <=> worker' \in {"sending", "flushing"}
      BY <1>3 DEF WorkerStops, Deliver, WorkerEnds, NotifierInv, NotifierTypeOK, Workers, Message
    <2>2. done' \in BOOLEAN /\ (done' = TRUE => worker' = "over")
      <3>1. done \in BOOLEAN /\ (done = TRUE => worker = "over")
        BY DEF NotifierInv, NotifierTypeOK
      <3>2. (done' = done /\ worker # "over") \/ (done' = TRUE /\ worker' = "over")
        BY <1>3 DEF WorkerStops, Deliver, WorkerEnds
      <3>3. QED
        BY <3>1, <3>2
    <2>3. /\ worker' = "over" => queue = <<>> \/ worker = "over"
          /\ worker' \in {"draining", "flushing", "over"} => Stopped
          /\ worker = "over" => worker' = "over"
      BY <1>3 DEF WorkerStops, Deliver, WorkerEnds, NotifierInv, NotifierTypeOK, DrainInv
    <2>4. DrainInv'
      BY <1>1, <2>1, <2>3 DEF NotifierInv, DrainInv, Stopped
    <2>5. QED
      BY <1>1, <2>1, <2>2, <2>3, <2>4 DEF NotifierInv, NotifierTypeOK, batchVars, lossVars
  <1>4. QED
    BY <1>2, <1>3 DEF Worker

LEMMA ClosesNotifier ==
    ASSUME NotifierInv, CloseStep
    PROVE  NotifierInv'
  <1>1. UNCHANGED <<batchVars, lossVars, call, panicked, queue, worker, inHand, delivered>>
    BY DEF CloseStep
  <1>2. /\ close' \in Closing /\ (close' \in {"over", "shut"} => worker = "over")
        /\ Stopped => Stopped'
    BY DEF CloseStep, NotifierInv, NotifierTypeOK, Closing, Stopped
  <1>3. done' \in BOOLEAN /\ (done' = TRUE => worker = "over")
    <2>1. done \in BOOLEAN /\ (done = TRUE => worker = "over")
      BY DEF NotifierInv, NotifierTypeOK
    <2>2. done' = done \/ done' = FALSE
      BY DEF CloseStep
    <2>3. QED
      BY <2>1, <2>2
  <1>4. QED
    BY <1>1, <1>2, <1>3 DEF NotifierInv, NotifierTypeOK, DrainInv, batchVars, lossVars

LEMMA SenderNotifier ==
    ASSUME NotifierInv, NEW p \in Callers, NEW legacy, Sender(p, legacy)
    PROVE  NotifierInv'
  BY LocksNotifier, PutsNotifier, FullNotifier DEF Sender

-----------------------------------------------------------------------------
(* The process around the notifier *)

(* The types, what the notifier adds to them, and the bound on what is logged. *)
FlowInv == TypeOK /\ DrainInv /\ logged \subseteq cfg.entries

LEMMA Actors ==
    ASSUME cfg \in Settings
    PROVE  /\ "main" \in Callers /\ "session" \in Callers
           /\ {"log", "empty", "report"} \subseteq Subjects /\ Containers \subseteq Subjects
           /\ cfg.entries \subseteq Entries
  BY FlowAssumption

(* The entry that is logged next. *)
LEMMA LogsEntry ==
    ASSUME FlowInv, NEW p \in Callers, Logs(p)
    PROVE  \E e \in Entries : Fire(p, e) /\ logged' = logged \cup {e} /\ e \in cfg.entries
  <1>1. \E e \in cfg.entries : e \notin logged
    BY DEF Logs, FlowInv
  <1>2. PICK e \in cfg.entries : Fire(p, e) /\ logged' = logged \cup {e}
    BY <1>1 DEF Logs
  <1>3. QED
    BY <1>2, Actors DEF FlowInv, TypeOK

(* Every step of the process is one of the notifier's, or leaves it alone. *)
LEMMA NotifierMoves ==
    ASSUME FlowInv, Step
    PROVE  NotifierInv'
  <1>1. NotifierInv
    BY DEF FlowInv, TypeOK, NotifierInv
  <1>2. cfg \in Settings
    BY DEF FlowInv, TypeOK
  <1>3. CASE UNCHANGED notifierVars
    BY <1>1, <1>3 DEF NotifierInv, NotifierTypeOK, DrainInv, Stopped, notifierVars, batchVars,
                      workerVars, lossVars
  <1>4. CASE Main \/ Finishes
    BY <1>1, <1>2, <1>3, <1>4, Actors, StartsNotifier, SendsNotifier, ClosesNotifier
       DEF Main, Finishes, StartsMessage, NoMessage, SendsMessage, Stops, Closes, Exits
  <1>5. CASE Session
    <2>1. CASE Begin \/ Succeeds \/ Errs \/ NextKind \/ Told \/ End
      BY <1>1, <1>2, <1>3, <2>1, Actors, StartsNotifier, SendsNotifier
         DEF Begin, Succeeds, Errs, NextKind, Told, End
    <2>2. ASSUME NEW a \in Subjects, TellReport(a) \/ TellEntries(a)
          PROVE  NotifierInv'
      BY <1>1, <1>2, <2>2, Actors, SendsNotifier DEF TellReport, TellEntries, Tells
    <2>3. QED
      BY <1>5, <2>1, <2>2 DEF Session
  <1>6. CASE Works \/ Counts
    BY <1>1, <1>3, <1>6, WorkerNotifier DEF Works, Counts
  <1>7. ASSUME NEW p \in Callers, Logs(p) \/ Sends(p)
        PROVE  NotifierInv'
    <2>1. CASE Sends(p)
      BY <1>1, <2>1, SenderNotifier DEF Sends
    <2>2. CASE Logs(p)
      <3>1. PICK e \in Entries : Fire(p, e)
        BY <2>2, LogsEntry
      <3>2. QED
        BY <1>1, <2>2, <3>1, FiresNotifier DEF Logs
    <2>3. QED
      BY <1>7, <2>1, <2>2
  <1>8. QED
    BY <1>4, <1>5, <1>6, <1>7 DEF Step, Turn

-----------------------------------------------------------------------------
(* Metrics: each session's is registered once, when it has ended. *)
CountInv ==
    /\ MetricsTypeOK
    /\ sessions \in Nat /\ sessions <= MaxSessions /\ registered \in Nat
    /\ registered <= sessions /\ (session # "idle" => registered < sessions)
    /\ registered = scans + dropped + Len(metrics)
    /\ \A i \in DOMAIN metrics : gauge < metrics[i]
    /\ \A i, j \in DOMAIN metrics : i < j => metrics[i] < metrics[j]
    /\ gauge <= sessions /\ \A i \in DOMAIN metrics : metrics[i] <= sessions
    /\ session # "idle" => gauge < sessions /\ \A i \in DOMAIN metrics : metrics[i] < sessions

LEMMA SameMetrics ==
    ASSUME CountInv, UNCHANGED <<metricsVars, sessions, registered>>,
           session' = "idle" => session = "idle",
           session = "idle" => session' = "idle"
    PROVE  CountInv'
  BY DEF CountInv, MetricsTypeOK, metricsVars

LEMMA EndCounts ==
    ASSUME CountInv, End
    PROVE  CountInv'
  <1>1. /\ session # "idle" /\ session' = "idle" /\ sessions' = sessions
        /\ \/ Register(sessions) /\ registered' = registered + 1
           \/ UNCHANGED <<metricsVars, registered>>
    BY DEF End
  <1>2. CASE UNCHANGED <<metricsVars, registered>>
    BY <1>1, <1>2 DEF CountInv, MetricsTypeOK, metricsVars
  <1>3. CASE Register(sessions) /\ registered' = registered + 1
    <2>1. metrics \in Seq(Nat) /\ sessions \in Nat /\ UNCHANGED <<gauge, scans>>
      BY <1>3 DEF CountInv, MetricsTypeOK, Register
    <2>2. CASE Len(metrics) < ChannelCap /\ metrics' = Append(metrics, sessions) /\ UNCHANGED dropped
      <3>1. /\ metrics' \in Seq(Nat) /\ Len(metrics') = Len(metrics) + 1
            /\ \A i \in DOMAIN metrics' :
                  \/ i \in DOMAIN metrics /\ metrics'[i] = metrics[i]
                  \/ i = Len(metrics) + 1 /\ metrics'[i] = sessions
            /\ \A i \in DOMAIN metrics : i \in Nat /\ i <= Len(metrics) /\ metrics[i] \in Nat
        BY <2>1, <2>2
      <3>2. \A i, j \in DOMAIN metrics' : i < j => metrics'[i] < metrics'[j]
        <4>1. SUFFICES ASSUME NEW i \in DOMAIN metrics', NEW j \in DOMAIN metrics', i < j
                       PROVE  metrics'[i] < metrics'[j]
          OBVIOUS
        <4>2. i \in DOMAIN metrics /\ metrics'[i] = metrics[i]
          BY <3>1, <4>1 DEF CountInv, MetricsTypeOK
        <4>3. CASE j \in DOMAIN metrics /\ metrics'[j] = metrics[j]
          BY <4>1, <4>2, <4>3 DEF CountInv
        <4>4. CASE metrics'[j] = sessions
          BY <1>1, <4>2, <4>4 DEF CountInv
        <4>5. QED
          BY <3>1, <4>3, <4>4
      <3>3. \A i \in DOMAIN metrics' : gauge < metrics'[i] /\ metrics'[i] <= sessions
        <4>1. gauge < sessions /\ sessions <= sessions
          BY <1>1, <2>1 DEF CountInv
        <4>2. \A i \in DOMAIN metrics : gauge < metrics[i] /\ metrics[i] <= sessions
          BY DEF CountInv
        <4>3. QED
          BY <3>1, <4>1, <4>2
      <3>4. QED
        BY <1>1, <1>3, <2>1, <2>2, <3>1, <3>2, <3>3, MetricsAssumption DEF CountInv, MetricsTypeOK
    <2>3. CASE dropped' = dropped + 1 /\ UNCHANGED metrics
      BY <1>1, <1>3, <2>1, <2>3 DEF CountInv, MetricsTypeOK
    <2>4. QED
      BY <1>3, <2>2, <2>3 DEF Register
  <1>4. QED
    BY <1>1, <1>2, <1>3

LEMMA CountsCount ==
    ASSUME CountInv, HandleUpdate, UNCHANGED <<session, sessions, registered>>
    PROVE  CountInv'
  <1>1. /\ metrics # <<>> /\ metrics \in Seq(Nat) /\ gauge' = Head(metrics)
        /\ metrics' = Tail(metrics) /\ scans' = scans + 1 /\ dropped' = dropped
    BY DEF HandleUpdate, CountInv, MetricsTypeOK
  <1>2. /\ metrics' \in Seq(Nat) /\ Len(metrics') = Len(metrics) - 1 /\ Len(metrics) >= 1
        /\ \A i \in DOMAIN metrics' : i \in Nat /\ i + 1 \in DOMAIN metrics /\ 1 < i + 1
                                      /\ metrics'[i] = metrics[i + 1]
        /\ 1 \in DOMAIN metrics /\ gauge' = metrics[1] /\ gauge' \in Nat
    BY <1>1
  <1>3. \A i, j \in DOMAIN metrics' : i < j => metrics'[i] < metrics'[j]
    <2>1. SUFFICES ASSUME NEW i \in DOMAIN metrics', NEW j \in DOMAIN metrics', i < j
                   PROVE  metrics'[i] < metrics'[j]
      OBVIOUS
    <2>2. i + 1 < j + 1 /\ i + 1 \in DOMAIN metrics /\ j + 1 \in DOMAIN metrics
      BY <1>2, <2>1
    <2>3. metrics[i + 1] < metrics[j + 1]
      BY <2>2 DEF CountInv
    <2>4. QED
      BY <1>2, <2>1, <2>3
  <1>4. \A i \in DOMAIN metrics' : gauge' < metrics'[i] /\ metrics'[i] <= sessions
                                   /\ (session # "idle" => metrics'[i] < sessions)
    BY <1>2 DEF CountInv
  <1>5. gauge' <= sessions /\ (session # "idle" => gauge' < sessions)
    BY <1>2 DEF CountInv
  <1>6. QED
    BY <1>1, <1>2, <1>3, <1>4, <1>5, MetricsAssumption DEF CountInv, MetricsTypeOK

LEMMA NextCounts == CountInv /\ [Next]_vars => CountInv'
  <1> SUFFICES ASSUME CountInv, [Next]_vars
               PROVE  CountInv'
    OBVIOUS
  <1>1. CASE Over \/ UNCHANGED vars
    BY <1>1, SameMetrics DEF Over, vars, sessionVars
  <1>2. CASE Begin
    <2>1. /\ sessions' = sessions + 1 /\ sessions < MaxSessions /\ MaxSessions \in Nat
          /\ UNCHANGED <<metrics, gauge, scans, dropped, registered>>
      BY <1>2, FlowAssumption DEF Begin, metricsVars
    <2>2. \A i \in DOMAIN metrics : metrics[i] \in Nat
      BY DEF CountInv, MetricsTypeOK
    <2>3. gauge < sessions' /\ (\A i \in DOMAIN metrics : metrics[i] < sessions') /\ registered < sessions'
      BY <2>1, <2>2 DEF CountInv, MetricsTypeOK
    <2>4. gauge <= sessions' /\ (\A i \in DOMAIN metrics : metrics[i] <= sessions') /\ registered <= sessions'
      BY <2>1, <2>2, <2>3 DEF CountInv, MetricsTypeOK
    <2>5. sessions' \in Nat /\ sessions' <= MaxSessions
      BY <2>1 DEF CountInv
    <2>6. QED
      BY <2>1, <2>3, <2>4, <2>5 DEF CountInv, MetricsTypeOK
  <1>3. CASE Succeeds \/ Errs \/ NextKind \/ Told \/ \E a \in Subjects : TellReport(a) \/ TellEntries(a)
    BY <1>3, SameMetrics DEF Succeeds, Errs, NextKind, Told, TellReport, TellEntries, Tells
  <1>4. CASE Main \/ Finishes \/ Works \/ \E p \in Callers : Logs(p) \/ Sends(p)
    BY <1>4, SameMetrics DEF Main, Finishes, MainRest, Works, Logs, Sends, sessionVars
  <1>5. CASE Counts
    BY <1>5, CountsCount DEF Counts, sessionVars
  <1>6. QED
    BY <1>1, <1>2, <1>3, <1>4, <1>5, EndCounts DEF Next, Step, Turn, Session

(* What the gauges show, or will when all that waits is counted. *)
Newest == IF metrics = <<>> THEN gauge ELSE metrics[Len(metrics)]

MetricsInv == CountInv /\ latest = Newest

(* Only a metric that is registered and not dropped is a newer one. *)
LEMMA NextMetrics == MetricsInv /\ [Next]_vars => MetricsInv'
  <1> SUFFICES ASSUME MetricsInv, [Next]_vars
               PROVE  MetricsInv'
    OBVIOUS
  <1>1. CountInv /\ CountInv' /\ latest = Newest
    BY NextCounts DEF MetricsInv
  <1>2. metrics \in Seq(Nat) /\ registered \in Nat /\ dropped \in Nat
    BY <1>1 DEF CountInv, MetricsTypeOK
  <1>3. CASE Over \/ UNCHANGED vars
    BY <1>1, <1>3 DEF Over, vars, metricsVars, historyVars, MetricsInv, Newest
  <1>4. CASE Step
    <2>1. latest' = IF registered' # registered /\ dropped' = dropped THEN sessions ELSE latest
      BY <1>4 DEF Step, Turn, History
    <2>2. CASE UNCHANGED <<metrics, gauge, registered>>
      BY <1>1, <2>1, <2>2 DEF MetricsInv, Newest
    <2>3. CASE End /\ Register(sessions) /\ registered' = registered + 1
      <3>1. CASE metrics' = Append(metrics, sessions) /\ UNCHANGED dropped
        <4>1. metrics' # <<>> /\ metrics'[Len(metrics')] = sessions
          BY <1>1, <1>2, <3>1 DEF CountInv
        <4>2. QED
          BY <1>1, <1>2, <2>1, <2>3, <3>1, <4>1 DEF MetricsInv, Newest
      <3>2. CASE dropped' = dropped + 1 /\ UNCHANGED <<metrics, gauge>>
        BY <1>1, <1>2, <2>1, <3>2 DEF MetricsInv, Newest
      <3>3. QED
        BY <2>3, <3>1, <3>2 DEF Register
    <2>4. CASE HandleUpdate /\ UNCHANGED registered
      <3>1. metrics # <<>> /\ gauge' = Head(metrics) /\ metrics' = Tail(metrics) /\ latest' = latest
        BY <2>1, <2>4 DEF HandleUpdate
      <3>2. Newest' = metrics[Len(metrics)]
        <4>1. CASE Len(metrics) = 1
          BY <1>2, <3>1, <4>1 DEF Newest
        <4>2. CASE Len(metrics) # 1
          <5>1. Len(metrics) \in Nat /\ Len(metrics) > 1
            <6>1. Len(metrics) \in Nat /\ Len(metrics) # 0
              <7>1. metrics \in Seq(Nat) /\ metrics # <<>>
                BY <1>2, <3>1
              <7>2. QED
                BY <7>1
            <6>2. \A n \in Nat : n = 0 \/ n = 1 \/ n > 1
              OBVIOUS
            <6>3. QED
              BY <4>2, <6>1, <6>2
          <5>2. Len(metrics') = Len(metrics) - 1 /\ metrics' # <<>>
            <6>1. Len(Tail(metrics)) = Len(metrics) - 1
              BY <1>2, <3>1
            <6>2. Len(metrics') # 0 /\ Len(<<>>) = 0
              BY <3>1, <5>1, <6>1
            <6>3. QED
              BY <3>1, <6>1, <6>2
          <5>3. metrics'[Len(metrics) - 1] = metrics[Len(metrics)]
            BY <1>2, <3>1, <5>1
          <5>4. QED
            BY <5>2, <5>3 DEF Newest
        <4>3. QED
          BY <4>1, <4>2
      <3>3. QED
        BY <1>1, <3>1, <3>2 DEF MetricsInv, Newest
    <2>5. QED
      BY <1>4, <2>2, <2>3, <2>4
         DEF Step, Turn, Main, Finishes, MainRest, Session, Begin, Succeeds, Errs, TellReport, TellEntries,
             Tells, NextKind, Told, End, Works, Counts, Logs, Sends, metricsVars, sessionVars
  <1>5. QED
    BY <1>3, <1>4 DEF Next

(***************************************************************************)
(* Every metric registered is counted, waiting or dropped, and the gauges  *)
(* show the sessions in the order they ended, in the end the last of them  *)
(* whose metric was not dropped (Register and HandleUpdate of              *)
(* pkg/metrics/metrics.go).                                                *)
(***************************************************************************)
THEOREM MetricsAreKept == Spec => []MetricsAddUp
  <1>1. Init => MetricsInv
    BY MetricsAssumption, FlowAssumption DEF Init, MetricsInit, MetricsInv, CountInv, Newest, MetricsTypeOK
  <1>2. MetricsInv => MetricsAddUp
    BY DEF MetricsInv, CountInv, Newest, MetricsAddUp
  <1>3. QED
    BY <1>1, <1>2, NextMetrics, PTL DEF Spec

-----------------------------------------------------------------------------
(* The variables of the sessions *)

(* What a session's steps leave to tell, when they can. *)
LEMMA TodoTypes ==
    ASSUME FlowInv, Session
    PROVE  todo' \in Seq(SUBSET Subjects) /\ (session' # "telling" => todo' = <<>>)
  <1>1. todo \in Seq(SUBSET Subjects) /\ (session # "telling" => todo = <<>>) /\ cfg \in Settings
    BY DEF FlowInv, TypeOK
  <1>2. {"report"} \in SUBSET Subjects /\ \A f : With(f) \in SUBSET Subjects
    BY <1>1, Actors DEF With
  <1>3. CASE Begin \/ Errs \/ Told \/ End
    BY <1>1, <1>3 DEF Begin, Errs, Told, End
  <1>4. CASE Succeeds
    <2>1. {"report"} \in SUBSET Subjects
          /\ \A f : {c \in Containers : fate'[c] = f} \in SUBSET Subjects
      BY <1>1, Actors
    <2>2. \A a, b, c \in SUBSET Subjects :
            <<a>> \in Seq(SUBSET Subjects) /\ <<a, b, c>> \in Seq(SUBSET Subjects)
      OBVIOUS
    <2>3. News(fate') \in Seq(SUBSET Subjects)
      BY <2>1, <2>2 DEF News
    <2>4. QED
      BY <1>1, <1>4, <2>3 DEF Succeeds
  <1>5. ASSUME NEW a \in Subjects, Tells(a)
        PROVE  todo' \in Seq(SUBSET Subjects) /\ (session' # "telling" => todo' = <<>>)
    <2>1. Head(todo) \in SUBSET Subjects /\ Tail(todo) \in Seq(SUBSET Subjects)
      BY <1>1, <1>5 DEF Tells
    <2>2. <<Head(todo) \ {a}>> \in Seq(SUBSET Subjects)
      BY <2>1
    <2>3. todo' \in Seq(SUBSET Subjects)
      BY <1>5, <2>1, <2>2 DEF Tells
    <2>4. QED
      BY <1>5, <2>3 DEF Tells
  <1>6. CASE NextKind
    BY <1>1, <1>6 DEF NextKind
  <1>7. QED
    BY <1>3, <1>4, <1>5, <1>6 DEF Session, TellReport, TellEntries

(* The state and the fates of a session are values of their kinds. *)
LEMMA SessionTypes ==
    ASSUME FlowInv, Session
    PROVE  session' \in States /\ fate' \in [Containers -> Fates]
  <1>1. session \in States /\ fate \in [Containers -> Fates]
    BY DEF FlowInv, TypeOK
  <1>2. CASE Begin \/ NextKind \/ Told \/ Errs \/ End
    BY <1>1, <1>2 DEF Begin, NextKind, Told, Errs, End, States, Fates
  <1>3. CASE Succeeds
    BY <1>1, <1>3 DEF Succeeds, States
  <1>4. CASE \E a \in Subjects : TellReport(a) \/ TellEntries(a)
    BY <1>1, <1>4 DEF TellReport, TellEntries, Tells
  <1>5. QED
    BY <1>2, <1>3, <1>4 DEF Session

(* A session that is over is in no call, and others enter none for it. *)
LEMMA IdleSession ==
    ASSUME FlowInv, Step, session' = "idle"
    PROVE  call'["session"] = Idle
  <1>1. /\ session = "idle" => call["session"] = Idle
        /\ call \in [Callers -> [op : Calls, step : Steps, msg : Message]]
    BY DEF FlowInv, TypeOK, NotifierTypeOK
  <1>2. CASE Session
    <2>1. ~Begin /\ ~Succeeds /\ ~Errs /\ ~NextKind /\ ~Told
      BY <1>2 DEF Begin, Succeeds, Errs, NextKind, Told
    <2>2. \A a : ~TellReport(a) /\ ~TellEntries(a)
      BY DEF TellReport, TellEntries, Tells
    <2>3. End
      BY <1>2, <2>1, <2>2 DEF Session
    <2>4. QED
      BY <2>3 DEF End, Returned, notifierVars
  <1>3. CASE Main \/ Finishes
    <2>1. session = "idle"
      BY <1>3 DEF Main, Finishes, MainRest, sessionVars
    <2>2. call' = call \/ \E c : call' = [call EXCEPT !["main"] = c]
      BY <1>3 DEF Main, Finishes, StartsMessage, NoMessage, SendsMessage, Stops, Closes, Exits,
         StartNotification, SendNotification, Enter, CloseStep, notifierVars
    <2>3. QED
      BY <1>1, <2>1, <2>2, FlowAssumption
  <1>4. CASE Works \/ Counts
    BY <1>1, <1>4 DEF Works, Counts, Worker, WorkerRest, notifierVars, sessionVars
  <1>5. ASSUME NEW p \in Callers, Logs(p) \/ Sends(p)
        PROVE  call'["session"] = Idle
    <2>1. session = "idle"
      BY <1>5 DEF Logs, Sends, sessionVars
    <2>2. p # "session"
      <3>1. call["session"].step = "none" /\ call["session"].op = "none"
        BY <1>1, <2>1 DEF Idle
      <3>2. CASE Logs(p)
        BY <2>1, <3>2 DEF Logs
      <3>3. CASE Sends(p)
        BY <3>1, <3>3 DEF Sends, Sender, FireLocks, Put, FoundFull, LooksForWorker
      <3>4. QED
        BY <1>5, <3>2, <3>3
    <2>3. \E c : call' = [call EXCEPT ![p] = c] \/ call' = call
      <3>1. CASE Logs(p)
        BY <3>1, LogsEntry DEF Fire, Enter
      <3>2. CASE Sends(p)
        <4>1. call' = call \/ call' = [call EXCEPT ![p] = Idle]
              \/ \E s : call' = [call EXCEPT ![p].step = s]
          BY <3>2 DEF Sends, Sender, FireLocks, Put, FoundFull, LooksForWorker, Drops, Return, batchVars
        <4>2. \A s : [call EXCEPT ![p].step = s] = [call EXCEPT ![p] = [call[p] EXCEPT !.step = s]]
          BY <1>1
        <4>3. QED
          BY <4>1, <4>2
      <3>3. QED
        BY <1>5, <3>1, <3>2
    <2>4. QED
      BY <1>1, <2>1, <2>2, <2>3, FlowAssumption
  <1>6. QED
    BY <1>2, <1>3, <1>4, <1>5 DEF Step, Turn

(* main comes to Close on its way out, and to nothing else after it. *)
LEMMA MainTypes ==
    ASSUME FlowInv, Step
    PROVE  main' \in Mains /\ (close' # "open" => main' \in {"closing", "exited"})
  <1>1. main \in Mains /\ (close # "open" => main \in {"closing", "exited"})
    BY DEF FlowInv, TypeOK
  <1>2. CASE Main
    BY <1>1, <1>2 DEF Main, StartsMessage, NoMessage, Stops, StartNotification, Quiet, notifierVars,
                      Mains
  <1>3. CASE Finishes
    BY <1>1, <1>3 DEF Finishes, SendsMessage, Closes, Exits, SendNotification, Quiet, notifierVars,
                      Mains
  <1>4. CASE ~Main /\ ~Finishes
    <2>1. main' = main /\ close' = close
      <3>1. CASE Session
        <4>1. main' = main
          BY <3>1 DEF Session
        <4>2. CASE Begin \/ Succeeds \/ Errs \/ NextKind \/ Told \/ End
          BY <4>1, <4>2 DEF Begin, Succeeds, Errs, NextKind, Told, End, StartNotification, SendNotification,
             Quiet, notifierVars
        <4>3. CASE \E a \in Subjects : TellReport(a) \/ TellEntries(a)
          BY <4>1, <4>3 DEF TellReport, TellEntries, SendNotification, SendFilteredEntries, Quiet
        <4>4. QED
          BY <3>1, <4>1, <4>2, <4>3 DEF Session
      <3>2. CASE Works \/ Counts
        BY <3>2 DEF Works, Counts, Worker, WorkerRest, notifierVars
      <3>3. ASSUME NEW p \in Callers, Logs(p)
            PROVE  main' = main /\ close' = close
        BY <3>3, LogsEntry DEF Logs, Fire, Quiet
      <3>4. ASSUME NEW p \in Callers, Sends(p)
            PROVE  main' = main /\ close' = close
        BY <3>4 DEF Sends, Sender, FireLocks, Put, FoundFull, LooksForWorker, Quiet
      <3>5. QED
        BY <1>4, <3>1, <3>2, <3>3, <3>4 DEF Step, Turn
    <2>2. QED
      BY <1>1, <2>1
  <1>5. QED
    BY <1>2, <1>3, <1>4

LEMMA NextFlows == FlowInv /\ MetricsInv /\ MetricsInv' /\ [Next]_vars => FlowInv'
  <1> SUFFICES ASSUME FlowInv, MetricsInv', [Next]_vars
               PROVE  FlowInv'
    OBVIOUS
  <1>1. CASE UNCHANGED vars
    BY <1>1 DEF FlowInv, TypeOK, DrainInv, Stopped, NotifierTypeOK, MetricsTypeOK, vars, notifierVars,
       batchVars, workerVars, lossVars, metricsVars, sessionVars, historyVars
  <1>2. CASE Step
    <2>1. NotifierInv'
      BY <1>2, NotifierMoves
    <2>2. cfg' = cfg /\ cfg \in Settings
      BY <1>2 DEF Step, Turn, Main, Finishes, MainRest, Session, Works, Counts, Logs, Sends, FlowInv, TypeOK
    <2>4. /\ todo' \in Seq(SUBSET Subjects) /\ (session' # "telling" => todo' = <<>>)
          /\ session' \in States /\ fate' \in [Containers -> Fates]
      <3>1. CASE ~Session
        <4>1. UNCHANGED <<session, fate, todo>>
          BY <1>2, <3>1 DEF Step, Turn, Main, Finishes, MainRest, Works, Counts, Logs, Sends, sessionVars
        <4>2. QED
          BY <4>1 DEF FlowInv, TypeOK
      <3>2. QED
        BY <3>1, TodoTypes, SessionTypes
    <2>5. logged' \subseteq cfg.entries
      <3>1. ASSUME NEW p \in Callers, Logs(p)
            PROVE  logged' \subseteq cfg.entries
        BY <3>1, LogsEntry DEF FlowInv
      <3>2. CASE ~\E p \in Callers : Logs(p)
        BY <1>2, <3>2 DEF Step, Turn, Main, Finishes, MainRest, Session, Works, Counts, Sends, FlowInv
      <3>3. QED
        BY <3>1, <3>2
    <2>6. told' \in Seq(Subjects) /\ own' \subseteq Entries
      <3>1. History
        BY <1>2 DEF Step, Turn
      <3>2. batch' \subseteq Entries /\ own \subseteq Entries /\ told \in Seq(Subjects)
        BY <2>1 DEF NotifierInv, NotifierTypeOK, FlowInv, TypeOK
      <3>3. call["session"].msg.about \in Subjects
        BY <2>2, Actors DEF FlowInv, TypeOK, NotifierTypeOK, Message
      <3>4. told' \in {<<>>, told, Append(told, call["session"].msg.about)}
            /\ own' \subseteq own \cup batch'
        BY <3>1 DEF History
      <3>5. Append(told, call["session"].msg.about) \in Seq(Subjects) /\ <<>> \in Seq(Subjects)
        BY <3>2, <3>3
      <3>6. QED
        BY <3>2, <3>4, <3>5
    <2>7. /\ sessions' \in 0..MaxSessions /\ registered' \in 0..sessions' /\ MetricsTypeOK'
          /\ latest' \in 0..sessions'
      <3>1. CountInv' /\ latest' = Newest'
        BY DEF MetricsInv
      <3>2. Newest' \in 0..sessions'
        <4>1. metrics' # <<>> => Len(metrics') \in DOMAIN metrics'
          BY <3>1 DEF CountInv, MetricsTypeOK
        <4>2. \A i \in DOMAIN metrics' : metrics'[i] \in Nat /\ metrics'[i] <= sessions'
          BY <3>1 DEF CountInv, MetricsTypeOK
        <4>3. gauge' \in Nat /\ gauge' <= sessions' /\ sessions' \in Nat
          BY <3>1 DEF CountInv, MetricsTypeOK
        <4>4. QED
          BY <4>1, <4>2, <4>3 DEF Newest
      <3>3. QED
        BY <3>1, <3>2, FlowAssumption DEF CountInv
    <2>8. cfg'.entries = cfg.entries /\ logged' \subseteq Entries
      BY <2>2, <2>5, Actors
    <2>9. QED
      BY <1>2, <2>1, <2>2, <2>4, <2>5, <2>6, <2>7, <2>8, IdleSession, MainTypes
         DEF FlowInv, TypeOK, NotifierInv
  <1>3. QED
    BY <1>1, <1>2 DEF Next, Over

LEMMA FirstFlow == Init => FlowInv /\ MetricsInv
  <1> SUFFICES ASSUME Init
               PROVE  FlowInv /\ MetricsInv
    OBVIOUS
  <1>1. MetricsInv
    BY MetricsAssumption, FlowAssumption DEF Init, MetricsInit, MetricsInv, CountInv, Newest, MetricsTypeOK
  <1>2. NotifierInv
    <2>1. Idle \in [op : Calls, step : Steps, msg : Message]
      BY NotifierAssumption, MessageTypes DEF Idle, Msg, Message, Calls, Steps
    <2>2. call \in [Callers -> [op : Calls, step : Steps, msg : Message]]
          /\ mutex \in Callers \cup {Free} /\ \A p \in Callers : mutex # p
      BY <2>1, NotifierAssumption DEF Init, NotifierInit
    <2>3. queue = <<>> /\ queue \in Seq(Message) /\ Len(queue) <= Cap
          /\ \A i \in DOMAIN queue : queue[i].late
      BY NotifierAssumption DEF Init, NotifierInit
    <2>4. inHand = Free /\ worker = "idle" /\ close = "open" /\ done = FALSE
      BY DEF Init, NotifierInit
    <2>5. NotifierTypeOK
      BY <2>2, <2>3, <2>4 DEF Init, NotifierInit, NotifierTypeOK, Workers, Closing
    <2>6. QED
      BY <2>4, <2>5 DEF NotifierInv, DrainInv
  <1>3. fate \in [Containers -> Fates] /\ call["session"] = Idle
    BY FlowAssumption, Actors DEF Init, NotifierInit, Fates
  <1>4. QED
    BY <1>1, <1>2, <1>3, FlowAssumption
       DEF FlowInv, TypeOK, NotifierInv, Init, NotifierInit, MetricsInv, CountInv, Mains, States

(* The variables of the process keep to their values. *)
THEOREM FlowTyping == Spec => []TypeOK
  <1>1. FlowInv => TypeOK
    BY DEF FlowInv
  <1>2. QED
    BY <1>1, FirstFlow, NextFlows, NextMetrics, PTL DEF Spec

(***************************************************************************)
(* The channel of messages is closed only when the worker is over, and     *)
(* what is then in the queue came after Close began: all that was queued   *)
(* before has been sent (Close and sendNotifications of shoutrrr.go).      *)
(***************************************************************************)
THEOREM ClosesWhenDrained == Spec => []DrainedBeforeClosed
  <1>1. FlowInv => DrainedBeforeClosed
    BY DEF FlowInv, TypeOK, NotifierTypeOK, DrainInv, DrainedBeforeClosed
  <1>2. QED
    BY <1>1, FirstFlow, NextFlows, NextMetrics, PTL DEF Spec

-----------------------------------------------------------------------------
(* The batch a session collects is its own *)

Starting == {"boot", "greeting", "failing"}

(* The session holds the batch, from its StartNotification to its report. *)
Collecting ==
    \/ session = "updating" /\ call["session"].op # "start"
    \/ session = "telling" /\ \E i \in DOMAIN todo : "report" \in todo[i]

Reporting == call["session"].op = "send" /\ call["session"].msg.about \in {"report", "empty"}

(* Nobody else starts a batch once main has started up. *)
Others == Callers \ {"main", "session"}
StarterInv ==
    /\ main \in Starting => session = "idle"
    /\ call["main"].op = "start" => main \in {"greeting", "failing"}
    /\ \A p \in Others : call[p].op # "start"

(* The report is the only kind of news, or no news. *)
NewsInv ==
    /\ \A i \in DOMAIN todo : "empty" \notin todo[i]
    /\ \/ todo = <<{"report"}>> /\ ~cfg.split
       \/ \A i \in DOMAIN todo : "report" \notin todo[i]

BatchInv ==
    /\ Collecting => batching /\ batch = own
    /\ Reporting => ~batching /\ call["session"].msg.lines = own

OwnInv == NewsInv /\ (~cfg.overlap => StarterInv /\ BatchInv)

LEMMA SameNews == ASSUME NewsInv, UNCHANGED <<todo, cfg>> PROVE NewsInv'
  BY DEF NewsInv

(* What is left to tell after each step of a session. *)
LEMMA NewsMoves ==
    ASSUME FlowInv, NewsInv, Session
    PROVE  NewsInv'
  <1>1. cfg \in Settings /\ todo \in Seq(SUBSET Subjects) /\ cfg' = cfg
    BY DEF FlowInv, TypeOK, Session
  <1>2. CASE Begin \/ Errs \/ Told \/ End
    BY <1>1, <1>2, SameNews DEF Begin, Errs, Told, End
  <1>3. CASE Succeeds
    <2>1. \A f : "report" \notin {c \in Containers : fate'[c] = f}
                 /\ "empty" \notin {c \in Containers : fate'[c] = f}
      BY FlowAssumption
    <2>2. CASE todo' = todo
      BY <1>1, <2>2, SameNews
    <2>3. CASE todo' = News(fate') /\ ~cfg.split
      BY <1>1, <2>3 DEF News, NewsInv
    <2>4. CASE todo' = News(fate') /\ cfg.split
      <3> DEFINE K(f) == {c \in Containers : fate'[c] = f}
      <3>1. todo' = <<K("updated"), K("restarted"), K("monitored")>>
        BY <2>4 DEF News
      <3>2. \A i \in DOMAIN todo' : \E f : todo'[i] = K(f)
        <4> HIDE DEF K
        <4>1. \A i \in DOMAIN todo' : todo'[i] \in {K("updated"), K("restarted"), K("monitored")}
          BY <3>1
        <4>2. QED
          BY <4>1
      <3>3. QED
        BY <2>1, <3>2 DEF NewsInv
    <2>5. QED
      BY <1>3, <2>2, <2>3, <2>4 DEF Succeeds
  <1>4. ASSUME NEW a \in Subjects, Tells(a)
        PROVE  NewsInv'
    <2>1. /\ todo # <<>> /\ todo' = <<Head(todo) \ {a}>> \o Tail(todo)
          /\ Head(todo) = todo[1] /\ 1 \in DOMAIN todo
      BY <1>1, <1>4 DEF Tells
    <2>2. CASE todo = <<{"report"}>>
      <3>1. a = "report"
        BY <1>4, <2>2 DEF Tells
      <3>2. Head(todo) = {"report"} /\ Tail(todo) = <<>>
        BY <2>2
      <3>3. todo' = <<{}>> \o <<>>
        BY <2>1, <3>1, <3>2
      <3>4. QED
        BY <3>3 DEF NewsInv
    <2>3. CASE \A i \in DOMAIN todo : "report" \notin todo[i]
      <3>1. /\ DOMAIN todo' = DOMAIN todo
            /\ todo'[1] = todo[1] \ {a}
            /\ \A i \in DOMAIN todo : i # 1 => todo'[i] = todo[i]
        BY <1>1, <2>1
      <3>2. QED
        BY <2>1, <2>3, <3>1 DEF NewsInv
    <2>4. QED
      BY <2>2, <2>3 DEF NewsInv
  <1>5. CASE NextKind
    <2>1. todo # <<>> /\ todo' = Tail(todo) /\ Head(todo) = {} /\ Head(todo) = todo[1]
      BY <1>1, <1>5 DEF NextKind
    <2>2. \A i \in DOMAIN todo' : i + 1 \in DOMAIN todo /\ todo'[i] = todo[i + 1]
      BY <1>1, <2>1
    <2>3. todo # <<{"report"}>>
      BY <2>1
    <2>4. QED
      BY <2>2, <2>3 DEF NewsInv
  <1>6. QED
    BY <1>2, <1>3, <1>4, <1>5 DEF Session, TellReport, TellEntries

(* What a session tells is news, and its report is told once. *)
LEMMA TellsNews ==
    ASSUME FlowInv, NewsInv, NEW about \in Subjects, Tells(about)
    PROVE  /\ about # "empty"
           /\ about = "report" => ~cfg.split /\ \E i \in DOMAIN todo : "report" \in todo[i]
           /\ \A i \in DOMAIN todo' : "report" \notin todo'[i]
  <1>1. todo \in Seq(SUBSET Subjects)
    BY DEF FlowInv, TypeOK
  <1>2. /\ todo # <<>> /\ about \in Head(todo) /\ todo' = <<Head(todo) \ {about}>> \o Tail(todo)
        /\ Head(todo) = todo[1] /\ 1 \in DOMAIN todo
    BY <1>1 DEF Tells
  <1>3. CASE todo = <<{"report"}>>
    <2>1. Head(todo) = {"report"} /\ Tail(todo) = <<>>
      BY <1>3
    <2>2. about = "report" /\ todo' = <<{}>> \o <<>>
      BY <1>2, <2>1
    <2>3. "report" \in todo[1] /\ ~cfg.split
      BY <1>2, <1>3, <2>1 DEF NewsInv
    <2>4. QED
      BY <1>2, <2>2, <2>3
  <1>4. CASE \A i \in DOMAIN todo : "report" \notin todo[i]
    <2>1. /\ DOMAIN todo' = DOMAIN todo
          /\ todo'[1] = todo[1] \ {about}
          /\ \A i \in DOMAIN todo : i # 1 => todo'[i] = todo[i]
      BY <1>1, <1>2
    <2>2. QED
      BY <1>2, <1>4, <2>1 DEF NewsInv
  <1>5. QED
    BY <1>3, <1>4 DEF NewsInv

(* Steps that leave a session its batch, but for new entries. *)
LEMMA KeepsBatch ==
    ASSUME BatchInv, History, session # "idle", session' # "idle", batching' = batching,
           batch \subseteq batch', batching \/ batch' = batch,
           call["session"].op = "start" => call'["session"].op = "start",
           Collecting' => Collecting,
           Reporting' => Reporting /\ call'["session"].msg = call["session"].msg
    PROVE  BatchInv'
  <1>1. ~BatchOpened
    BY DEF BatchOpened, Returned, Idle
  <1>2. own' = own \cup (batch' \ batch)
    BY <1>1 DEF History
  <1>3. QED
    BY <1>2 DEF BatchInv

(* A step of others, or of a call of the session. *)
LEMMA SameBatch ==
    ASSUME FlowInv, BatchInv, History, session' = session, todo' = todo, batching' = batching,
           batch \subseteq batch', batching \/ batch' = batch,
           call["session"] = Idle /\ session = "idle" => call'["session"] = Idle,
           call["session"].op = "start" <=> call'["session"].op = "start",
           call'["session"].op = "send" => call["session"].op = "send"
                                           /\ call'["session"].msg = call["session"].msg
    PROVE  BatchInv'
  <1>1. CASE session = "idle"
    <2>1. call'["session"].op = "none"
      BY <1>1 DEF FlowInv, TypeOK, Idle
    <2>2. QED
      BY <1>1, <2>1 DEF BatchInv, Collecting, Reporting
  <1>2. CASE session # "idle"
    BY <1>2, KeepsBatch DEF Collecting, Reporting
  <1>3. QED
    BY <1>1, <1>2

(* A step before the first session. *)
LEMMA NoBatch ==
    ASSUME FlowInv, Step, session' = "idle"
    PROVE  BatchInv'
  <1>1. call'["session"].op = "none"
    BY IdleSession DEF Idle
  <1>2. QED
    BY <1>1 DEF BatchInv, Collecting, Reporting

(* The steps of a session. *)
LEMMA SessionBatch ==
    ASSUME FlowInv, NewsInv, BatchInv, Step, Session, History
    PROVE  BatchInv'
  <1>1. /\ session = "idle" => call["session"] = Idle
        /\ call \in [Callers -> [op : Calls, step : Steps, msg : Message]]
        /\ "session" \in Callers
    BY FlowAssumption DEF FlowInv, TypeOK, NotifierTypeOK
  <1>2. CASE Begin
    <2>1. CASE Enter("session", "start", "put", Msg(batch, "log"))
      <3>1. call'["session"].op = "start" /\ session' = "updating"
        BY <1>1, <1>2, <2>1 DEF Enter, Begin
      <3>2. QED
        BY <3>1 DEF BatchInv, Collecting, Reporting
    <2>2. CASE call' = call /\ batching' = TRUE /\ batch' = {}
      <3>1. call'["session"] = Idle /\ BatchOpened
        BY <1>1, <1>2, <2>2 DEF Begin, BatchOpened, Returned
      <3>2. own' = {} /\ ~Reporting'
        BY <3>1 DEF History, Reporting, Idle
      <3>3. QED
        BY <2>2, <3>2 DEF BatchInv
    <2>3. QED
      BY <1>2, <2>1, <2>2 DEF Begin, StartNotification
  <1>3. CASE Succeeds \/ Told
    <2>1. /\ call["session"].op = "none" /\ call' = call /\ UNCHANGED <<batching, batch>>
          /\ session # "idle" /\ session' # "idle"
      BY <1>3 DEF Succeeds, Told, Returned, Idle, notifierVars, batchVars
    <2>2. ~Reporting' /\ (Collecting' => Collecting)
      BY <1>3, <2>1 DEF Reporting, Collecting, Succeeds, Told
    <2>3. QED
      BY <2>1, <2>2, KeepsBatch
  <1>4. CASE Errs
    <2>1. Collecting /\ call["session"].op = "none" /\ ~Collecting' /\ session' = "failed"
      BY <1>4 DEF Errs, Collecting, Returned, Idle
    <2>2. call'["session"].msg.lines = batch /\ batching' = FALSE /\ batch' = {}
      BY <1>1, <1>4 DEF Errs, SendNotification, Enter, Msg
    <2>3. own' = own
      BY <1>4, <2>1, <2>2 DEF History, BatchOpened, Errs
    <2>4. QED
      BY <2>1, <2>2, <2>3 DEF BatchInv
  <1>5. ASSUME NEW a \in Subjects, TellReport(a) \/ TellEntries(a)
        PROVE  BatchInv'
    <2>0. Tells(a)
      BY <1>5 DEF TellReport, TellEntries
    <2>1. call["session"].op = "none" /\ session = "telling" /\ session' = "telling"
      BY <2>0 DEF Tells, Returned, Idle
    <2>2. a # "empty" /\ ~Collecting' /\ (a = "report" => Collecting /\ ~cfg.split)
      BY <2>0, <2>1, TellsNews DEF Collecting
    <2>3. CASE a # "report"
      <3>1. call'["session"].msg.about = a
        <4>1. Enter("session", "send", "put", Msg(batch, a))
              \/ Enter("session", "send", "put", [Msg({}, a) EXCEPT !.made = TRUE])
          BY <1>5 DEF TellReport, TellEntries, SendNotification, SendFilteredEntries
        <4>2. QED
          BY <1>1, <4>1 DEF Enter, Msg
      <3>2. QED
        BY <2>2, <2>3, <3>1 DEF BatchInv, Reporting
    <2>4. CASE a = "report" /\ SendNotification("session", a)
      <3>1. call'["session"].msg.lines = batch /\ batching' = FALSE /\ batch' = {}
        BY <1>1, <2>4 DEF SendNotification, Enter, Msg
      <3>2. own' = own
        BY <2>1, <3>1 DEF History, BatchOpened
      <3>3. QED
        BY <2>2, <2>4, <3>1, <3>2 DEF BatchInv
    <2>5. CASE a = "report" /\ TellEntries(a)
      BY <2>2, <2>5 DEF TellEntries
    <2>6. QED
      BY <1>5, <2>3, <2>4, <2>5 DEF TellReport
  <1>6. CASE NextKind
    <2>1. /\ call' = call /\ UNCHANGED <<batching, batch>> /\ session = "telling" /\ session' = session
          /\ todo' = Tail(todo) /\ todo # <<>>
      BY <1>6 DEF NextKind, notifierVars, batchVars
    <2>2. \A i \in DOMAIN todo' : i + 1 \in DOMAIN todo /\ todo'[i] = todo[i + 1]
      BY <2>1 DEF FlowInv, TypeOK
    <2>3. Collecting' => Collecting
      BY <2>1, <2>2 DEF Collecting
    <2>4. QED
      BY <2>1, <2>3, KeepsBatch DEF Reporting
  <1>7. CASE End
    BY <1>7, NoBatch DEF End
  <1>8. QED
    BY <1>2, <1>3, <1>4, <1>5, <1>6, <1>7 DEF Session

(* The steps of a caller's call, and the calls that log. *)
LEMMA CallerBatch ==
    ASSUME FlowInv, StarterInv, BatchInv, Step, History, NEW p \in Callers, Logs(p) \/ Sends(p)
    PROVE  BatchInv'
  <1>1. /\ session' = session /\ todo' = todo
        /\ call \in [Callers -> [op : Calls, step : Steps, msg : Message]] /\ "session" \in Callers
        /\ (session = "idle" => call'["session"] = Idle)
    BY IdleSession, FlowAssumption DEF Logs, Sends, sessionVars, FlowInv, TypeOK, NotifierTypeOK
  <1>2. CASE Logs(p)
    <2>1. /\ call[p].op = "none" /\ UNCHANGED <<batching, batch>>
          /\ call' = call \/ \E m : call' = [call EXCEPT ![p] = [op |-> "fire", step |-> "lock", msg |-> m]]
      BY <1>2, LogsEntry DEF Logs, Returned, Idle, Fire, Enter, batchVars
    <2>2. call'["session"] = call["session"] \/ (p = "session" /\ call'["session"].op = "fire")
      BY <1>1, <2>1
    <2>3. QED
      BY <1>1, <2>1, <2>2, SameBatch
  <1>3. CASE Sends(p) /\ Return(p) /\ call[p].op = "start"
    <2>1. CASE p = "session"
      <3>1. /\ batching' = TRUE /\ batch' = {} /\ call'["session"] = Idle /\ call["session"].op = "start"
        BY <1>1, <1>3, <2>1 DEF Return
      <3>2. own' = {} /\ ~Reporting'
        BY <3>1 DEF History, BatchOpened, Returned, Idle, Reporting
      <3>3. QED
        BY <3>1, <3>2 DEF BatchInv
    <2>2. CASE p = "main"
      BY <1>1, <1>3, <2>2, NoBatch DEF StarterInv, Starting
    <2>3. QED
      BY <1>3, <2>1, <2>2 DEF StarterInv, Others
  <1>4. CASE Sends(p) /\ ~(Return(p) /\ call[p].op = "start")
    <2>1. /\ batching' = batching /\ batch \subseteq batch' /\ (batching \/ batch' = batch)
          /\ \/ call' = call
             \/ call' = [call EXCEPT ![p] = Idle] /\ call[p].op # "start"
             \/ \E s : call' = [call EXCEPT ![p].step = s]
      <3>1. CASE FireLocks(p)
        BY <3>1 DEF FireLocks
      <3>2. CASE Put(p, Legacy) \/ FoundFull(p) \/ LooksForWorker(p)
        <4>1. CASE Return(p)
          BY <1>4, <4>1 DEF Return
        <4>2. CASE ~Return(p)
          BY <3>2, <4>2 DEF Put, FoundFull, LooksForWorker, Drops, batchVars
        <4>3. QED
          BY <4>1, <4>2
      <3>3. QED
        BY <1>4, <3>1, <3>2 DEF Sends, Sender
    <2>2. \/ call'["session"] = call["session"]
          \/ call'["session"] = Idle /\ call["session"].op # "start"
          \/ call'["session"].op = call["session"].op /\ call'["session"].msg = call["session"].msg
      BY <1>1, <2>1
    <2>3. QED
      BY <1>1, <2>1, <2>2, SameBatch DEF Idle
  <1>5. QED
    BY <1>2, <1>3, <1>4

(* A step of main, which starts and ends its batch before any session. *)
LEMMA MainBatch ==
    ASSUME FlowInv, StarterInv, BatchInv, Step, History, Main \/ Finishes
    PROVE  BatchInv'
  <1>1. session' = session /\ todo' = todo
    BY DEF Main, Finishes, MainRest, sessionVars
  <1>2. CASE StartsMessage \/ NoMessage \/ SendsMessage
    <2>1. main \in Starting
      BY <1>2 DEF StartsMessage, NoMessage, SendsMessage, Starting
    <2>2. QED
      BY <1>1, <2>1, NoBatch DEF StarterInv
  <1>3. CASE Stops \/ Closes \/ Exits
    <2>1. call' = call /\ UNCHANGED <<batching, batch>>
      BY <1>3 DEF Stops, Closes, Exits, CloseStep, notifierVars, batchVars
    <2>2. QED
      BY <1>1, <2>1, SameBatch
  <1>4. QED
    BY <1>2, <1>3 DEF Main, Finishes

(* What a step does to the calls of the callers that are not the session. *)
LEMMA StarterMoves ==
    ASSUME FlowInv, ~cfg.overlap, StarterInv, Step
    PROVE  StarterInv'
  <1>1. /\ call \in [Callers -> [op : Calls, step : Steps, msg : Message]]
        /\ {"main", "session"} \subseteq Callers
    BY FlowAssumption DEF FlowInv, TypeOK, NotifierTypeOK
  <1>2. CASE Main \/ Finishes
    <2>1. session' = session
      BY <1>2 DEF Main, Finishes, MainRest, sessionVars
    <2>2. CASE StartsMessage
      <3>1. main = "boot" /\ main' \in {"greeting", "failing"}
        BY <2>2 DEF StartsMessage
      <3>2. call' = call \/ \E c : call' = [call EXCEPT !["main"] = c]
        BY <2>2 DEF StartsMessage, StartNotification, Enter
      <3>3. QED
        BY <1>1, <2>1, <3>1, <3>2 DEF StarterInv, Starting, Others
    <2>3. CASE SendsMessage
      <3>1. main' \in {"serving", "closing"}
            /\ \E m : call' = [call EXCEPT !["main"] = [op |-> "send", step |-> "put", msg |-> m]]
        BY <2>3 DEF SendsMessage, SendNotification, Enter
      <3>2. call'["main"].op = "send" /\ \A p \in Others : call'[p] = call[p]
        BY <1>1, <3>1 DEF Others
      <3>3. QED
        BY <3>1, <3>2 DEF StarterInv, Starting
    <2>4. CASE NoMessage \/ Stops \/ Closes \/ Exits
      <3>1. call' = call
        BY <2>4 DEF NoMessage, Stops, Closes, Exits, CloseStep, notifierVars
      <3>2. main' \notin Starting /\ main \notin {"greeting", "failing"}
        BY <2>4 DEF NoMessage, Stops, Closes, Exits, Starting
      <3>3. QED
        BY <3>1, <3>2 DEF StarterInv
    <2>5. QED
      BY <1>2, <2>2, <2>3, <2>4 DEF Main, Finishes
  <1>3. CASE Session
    <2>1. main' = main /\ (main \in Starting => session' = "idle")
      BY <1>3 DEF Session, Begin, Open, Succeeds, Errs, TellReport, TellEntries, Tells, NextKind, Told, End,
                  StarterInv, Starting
    <2>2. call' = call \/ \E c : call' = [call EXCEPT !["session"] = c]
      BY <1>3 DEF Session, Begin, Succeeds, Errs, TellReport, TellEntries, NextKind, Told, End, Enter,
                  StartNotification, SendNotification, SendFilteredEntries, notifierVars
    <2>3. call'["main"] = call["main"] /\ \A p \in Others : call'[p] = call[p]
      BY <1>1, <2>2 DEF Others
    <2>4. QED
      BY <2>1, <2>3 DEF StarterInv
  <1>4. CASE Works \/ Counts
    BY <1>4 DEF Works, Counts, Worker, WorkerRest, notifierVars, sessionVars, StarterInv
  <1>5. ASSUME NEW p \in Callers, Logs(p) \/ Sends(p)
        PROVE  StarterInv'
    <2>1. main' = main /\ session' = session
      BY <1>5 DEF Logs, Sends, sessionVars
    <2>2. \A q \in Callers : call'[q].op = "start" => call[q].op = "start"
      <3>1. CASE Logs(p)
        <4>1. call' = call
              \/ \E m : call' = [call EXCEPT ![p] = [op |-> "fire", step |-> "lock", msg |-> m]]
          BY <3>1, LogsEntry DEF Fire, Enter
        <4>2. QED
          BY <1>1, <4>1
      <3>2. CASE Sends(p)
        <4>1. call' = call \/ call' = [call EXCEPT ![p] = Idle]
              \/ \E s : call' = [call EXCEPT ![p].step = s]
          BY <3>2 DEF Sends, Sender, FireLocks, Put, FoundFull, LooksForWorker, Drops, Return, batchVars
        <4>2. QED
          BY <1>1, <4>1 DEF Idle
      <3>3. QED
        BY <1>5, <3>1, <3>2
    <2>3. QED
      BY <1>1, <2>1, <2>2 DEF StarterInv, Others
  <1>6. QED
    BY <1>2, <1>3, <1>4, <1>5 DEF Step, Turn

LEMMA NextOwns == FlowInv /\ OwnInv /\ [Next]_vars => OwnInv'
  <1> SUFFICES ASSUME FlowInv, OwnInv, [Next]_vars
               PROVE  OwnInv'
    OBVIOUS
  <1>1. CASE UNCHANGED vars
    BY <1>1 DEF OwnInv, NewsInv, StarterInv, BatchInv, Collecting, Reporting, vars, notifierVars,
       batchVars, sessionVars, historyVars
  <1>2. CASE Step
    <2>1. cfg' = cfg
      BY <1>2 DEF Step, Turn, Main, Finishes, MainRest, Session, Works, Counts, Logs, Sends
    <2>2. NewsInv'
      <3>1. CASE ~Session
        <4>1. todo' = todo
          BY <1>2, <3>1 DEF Step, Turn, Main, Finishes, MainRest, Works, Counts, Logs, Sends, sessionVars
        <4>2. QED
          BY <2>1, <4>1, SameNews DEF OwnInv
      <3>2. QED
        BY <3>1, NewsMoves DEF OwnInv
    <2>3. ASSUME ~cfg.overlap
          PROVE  StarterInv' /\ BatchInv'
      <3>1. StarterInv /\ BatchInv /\ NewsInv
        BY <2>3 DEF OwnInv
      <3>2. History
        BY <1>2 DEF Step, Turn
      <3>3. CASE Works \/ Counts
        <4>1. UNCHANGED <<batching, batch, call, session, todo>>
          BY <3>3 DEF Works, Counts, Worker, WorkerRest, notifierVars, batchVars, sessionVars
        <4>2. QED
          BY <1>2, <2>3, <3>1, <3>2, <4>1, SameBatch, StarterMoves
      <3>4. QED
        BY <1>2, <2>3, <3>1, <3>2, <3>3, StarterMoves, MainBatch, SessionBatch, CallerBatch DEF Step, Turn
    <2>4. QED
      BY <2>1, <2>2, <2>3 DEF OwnInv
  <1>3. QED
    BY <1>1, <1>2 DEF Next, Over

(***************************************************************************)
(* The report of a session goes out with the entries collected since it    *)
(* began, all of them and no others, unless the HTTP API may run sessions  *)
(* beside the start-up message (StartNotification, SendNotification and    *)
(* Fire of shoutrrr.go, called by RunUpdatesWithNotifications).            *)
(***************************************************************************)
THEOREM ReportsKeepTheirEntries == Spec => []ReportHasItsEntries
  <1>1. Init => OwnInv
    BY FlowAssumption DEF Init, NotifierInit, OwnInv, NewsInv, StarterInv, Others, BatchInv, Collecting,
       Reporting, Idle
  <1>2. OwnInv => ReportHasItsEntries
    BY DEF OwnInv, BatchInv, Reporting, ReportHasItsEntries
  <1>3. QED
    BY <1>1, <1>2, FirstFlow, NextFlows, NextMetrics, NextOwns, PTL DEF Spec

-----------------------------------------------------------------------------
(* Where each entry is *)

(* An entry is at one place when it is logged, and nowhere before. *)
Placed(e) ==
    /\ e \notin logged => Holders(e) = {}
    /\ e \in logged => \E h : Holders(e) = {h}

(* StartNotification sends the batch and keeps the mutex until it is empty. *)
Starts(p) == call[p].op = "start" => mutex = p /\ call[p].msg.lines = batch

CallsInv ==
    /\ \A p \in Callers : Starts(p) /\ (call[p].step \in {"full", "look"} => filled)
    /\ lost # {} => cfg.split \/ filled \/ Closed

KeptInv == CallsInv /\ \A e \in Entries : Placed(e)

LEMMA HolderPlaces ==
    ASSUME NEW e
    PROVE  /\ \A h : h \in Holders(e) <=>
                \/ \E p \in Callers : h = <<"call", p>> /\ e \in call[p].msg.lines
                \/ \E i \in DOMAIN queue : h = <<"queue", i>> /\ e \in queue[i].lines
                \/ h = <<"batch">> /\ e \in batch /\ \A p \in Callers : call[p].op # "start"
                \/ h = <<"worker">> /\ inHand # Free /\ e \in inHand.lines
                \/ h = <<"services">> /\ e \in delivered
                \/ h = <<"lost">> /\ e \in lost
           /\ \A h : h \in Holders(e)' <=>
                \/ \E p \in Callers : h = <<"call", p>> /\ e \in call'[p].msg.lines
                \/ \E i \in DOMAIN queue' : h = <<"queue", i>> /\ e \in queue'[i].lines
                \/ h = <<"batch">> /\ e \in batch' /\ \A p \in Callers : call'[p].op # "start"
                \/ h = <<"worker">> /\ inHand' # Free /\ e \in inHand'.lines
                \/ h = <<"services">> /\ e \in delivered'
                \/ h = <<"lost">> /\ e \in lost'
  BY DEF Holders

LEMMA PlacesDiffer ==
    /\ \A p, i : <<"call", p>> # <<"queue", i>>
    /\ \A p : <<"call", p>> \notin {<<"batch">>, <<"worker">>, <<"services">>, <<"lost">>}
    /\ \A p : <<"queue", p>> \notin {<<"batch">>, <<"worker">>, <<"services">>, <<"lost">>}
    /\ <<"batch">> \notin {<<"worker">>, <<"services">>, <<"lost">>}
    /\ <<"worker">> \notin {<<"services">>, <<"lost">>} /\ <<"services">> # <<"lost">>
    /\ \A p, q : <<"call", p>> = <<"call", q>> => p = q
    /\ \A p, q : <<"queue", p>> = <<"queue", q>> => p = q
  OBVIOUS

LEMMA AtPlace ==
    ASSUME NEW e
    PROVE  /\ \A p \in Callers : <<"call", p>> \in Holders(e) <=> e \in call[p].msg.lines
           /\ \A i \in DOMAIN queue : <<"queue", i>> \in Holders(e) <=> e \in queue[i].lines
           /\ <<"batch">> \in Holders(e) <=> e \in batch /\ \A p \in Callers : call[p].op # "start"
           /\ <<"worker">> \in Holders(e) <=> inHand # Free /\ e \in inHand.lines
           /\ <<"services">> \in Holders(e) <=> e \in delivered
           /\ <<"lost">> \in Holders(e) <=> e \in lost
  BY HolderPlaces, PlacesDiffer

(* An entry goes from one place to another, if it was there. *)
Moves(e, from, to) ==
    \A h : h \in Holders(e)' <=> (h # from /\ h \in Holders(e)) \/ (h = to /\ from \in Holders(e))

LEMMA MovesKeep ==
    ASSUME NEW e, NEW from, NEW to, Moves(e, from, to)
    PROVE  /\ Holders(e) = {} => Holders(e)' = {}
           /\ (\E h : Holders(e) = {h}) => \E h : Holders(e)' = {h}
  BY DEF Moves

(* What is at no other place than before has not moved. *)
LEMMA StillThere ==
    ASSUME NEW e, UNCHANGED <<queue, inHand, delivered>>, e \in lost' <=> e \in lost,
           \A p \in Callers : e \in call'[p].msg.lines <=> e \in call[p].msg.lines,
           (e \in batch' /\ \A p \in Callers : call'[p].op # "start")
             <=> (e \in batch /\ \A p \in Callers : call[p].op # "start")
    PROVE  Moves(e, <<"lost">>, <<"lost">>)
  <1>1. \A h : h \in Holders(e)' <=> h \in Holders(e)
    <2>1. TAKE h
    <2>2. (\E p \in Callers : h = <<"call", p>> /\ e \in call'[p].msg.lines)
            <=> (\E p \in Callers : h = <<"call", p>> /\ e \in call[p].msg.lines)
      OBVIOUS
    <2>3. QED
      BY <2>2, HolderPlaces
  <1>2. QED
    BY <1>1 DEF Moves

(* StartNotification sends the batch on, or drops it. *)
LEMMA StartsMove ==
    ASSUME NotifierInv, KeptInv, NEW p \in Callers, Returned(p), NEW s, StartNotification(p, s),
           NEW e \in Entries
    PROVE  \/ Moves(e, <<"batch">>, <<"call", p>>)
           \/ Moves(e, <<"batch">>, <<"lost">>)
  <1>1. /\ mutex = Free /\ \A q \in Callers : call[q].op # "start"
        /\ UNCHANGED <<queue, inHand, delivered>>
        /\ call \in [Callers -> [op : Calls, step : Steps, msg : Message]]
        /\ e \notin call[p].msg.lines
    BY NotifierAssumption DEF StartNotification, Quiet, workerVars, KeptInv, CallsInv, Starts, Returned,
       Idle, Msg, NotifierInv, NotifierTypeOK
  <1>2. CASE batch # {} /\ ~s
    <2>1. /\ call' = [call EXCEPT ![p] = [op |-> "start", step |-> "put", msg |-> Msg(batch, "log")]]
          /\ UNCHANGED <<batch, lost>>
      BY <1>2 DEF StartNotification, Enter, lossVars
    <2>2. /\ call'[p].op = "start" /\ call'[p].msg.lines = batch
          /\ \A q \in Callers : q # p => call'[q] = call[q]
      BY <1>1, <2>1 DEF Msg
    <2>3. Moves(e, <<"batch">>, <<"call", p>>)
      BY <1>1, <2>1, <2>2, HolderPlaces, AtPlace DEF Moves
    <2>4. QED
      BY <2>3
  <1>3. CASE ~(batch # {} /\ ~s)
    <2>1. batch' = {} /\ lost' = lost \cup batch /\ call' = call
      BY <1>3 DEF StartNotification
    <2>2. Moves(e, <<"batch">>, <<"lost">>)
      BY <1>1, <2>1, HolderPlaces, AtPlace DEF Moves
    <2>3. QED
      BY <2>2
  <1>4. QED
    BY <1>2, <1>3

(* SendNotification takes the batch with it, a composed message nothing. *)
LEMMA SendsMove ==
    ASSUME NotifierInv, KeptInv, NEW p \in Callers, Returned(p), NEW about,
           SendNotification(p, about) \/ SendFilteredEntries(p, about), NEW e \in Entries
    PROVE  \/ Moves(e, <<"batch">>, <<"call", p>>)
           \/ Moves(e, <<"lost">>, <<"lost">>)
  <1>1. /\ UNCHANGED <<queue, inHand, delivered, lost>>
        /\ call \in [Callers -> [op : Calls, step : Steps, msg : Message]]
        /\ e \notin call[p].msg.lines /\ call[p].op = "none"
    BY DEF SendNotification, SendFilteredEntries, Quiet, workerVars, lossVars, Returned, Idle, Msg,
       NotifierInv, NotifierTypeOK
  <1>2. CASE SendNotification(p, about)
    <2>1. /\ call' = [call EXCEPT ![p] = [op |-> "send", step |-> "put", msg |-> Msg(batch, about)]]
          /\ mutex = Free /\ batch' = {} /\ \A q \in Callers : call[q].op # "start"
      BY <1>2, NotifierAssumption DEF SendNotification, Enter, KeptInv, CallsInv, Starts
    <2>2. /\ call'[p].op = "send" /\ call'[p].msg.lines = batch
          /\ \A q \in Callers : q # p => call'[q] = call[q]
      BY <1>1, <2>1 DEF Msg
    <2>3. Moves(e, <<"batch">>, <<"call", p>>)
      BY <1>1, <2>1, <2>2, HolderPlaces, AtPlace DEF Moves
    <2>4. QED
      BY <2>3
  <1>3. CASE SendFilteredEntries(p, about)
    <2>1. /\ call' = [call EXCEPT ![p] = [op |-> "send", step |-> "put",
                                           msg |-> [Msg({}, about) EXCEPT !.made = TRUE]]]
          /\ batch' = batch
      BY <1>3 DEF SendFilteredEntries, Enter, batchVars
    <2>2. /\ call'[p].op = "send" /\ call'[p].msg.lines = {}
          /\ \A q \in Callers : q # p => call'[q] = call[q]
      BY <1>1, <2>1 DEF Msg
    <2>3. Moves(e, <<"lost">>, <<"lost">>)
      BY <1>1, <2>1, <2>2, StillThere
    <2>4. QED
      BY <2>3
  <1>4. QED
    BY <1>2, <1>3

(* Fire gives the entry it is called with a place, and no other moves. *)
LEMMA FiresMove ==
    ASSUME NotifierInv, KeptInv, NEW p \in Callers, Returned(p), NEW f \in Entries, f \notin logged,
           Fire(p, f), NEW e \in Entries
    PROVE  /\ e # f => Moves(e, <<"lost">>, <<"lost">>)
           /\ e = f => \E h : Holders(e)' = {h}
  <1>1. /\ UNCHANGED <<queue, inHand, delivered, batch>>
        /\ call \in [Callers -> [op : Calls, step : Steps, msg : Message]]
        /\ call[p].msg.lines = {} /\ call[p].op = "none"
        /\ \A h : h \notin Holders(f)
    BY DEF Fire, Quiet, workerVars, batchVars, Returned, Idle, Msg, KeptInv, Placed, NotifierInv,
       NotifierTypeOK
  <1>0. /\ \A q \in Callers : f \notin call[q].msg.lines
        /\ \A i \in DOMAIN queue : f \notin queue[i].lines
        /\ ~(f \in batch /\ \A q \in Callers : call[q].op # "start")
        /\ ~(inHand # Free /\ f \in inHand.lines) /\ f \notin delivered /\ f \notin lost
    BY <1>1, AtPlace
  <1>2. CASE Closed
    <2>1. lost' = lost \cup {f} /\ call' = call
      BY <1>2 DEF Fire
    <2>2. ASSUME e = f
          PROVE  Holders(e)' = {<<"lost">>}
      <3>1. \A h : h \in Holders(e)' <=> h = <<"lost">>
        BY <1>0, <1>1, <2>1, <2>2, HolderPlaces
      <3>2. QED
        BY <3>1
    <2>3. e # f => Moves(e, <<"lost">>, <<"lost">>)
      BY <1>1, <2>1, StillThere
    <2>4. QED
      BY <2>2, <2>3
  <1>3. CASE ~Closed
    <2>1. /\ call' = [call EXCEPT ![p] = [op |-> "fire", step |-> "lock", msg |-> Msg({f}, "log")]]
          /\ lost' = lost
      BY <1>3 DEF Fire, Enter
    <2>2. /\ call'[p].op = "fire" /\ call'[p].msg.lines = {f}
          /\ \A q \in Callers : q # p => call'[q] = call[q]
      BY <1>1, <2>1 DEF Msg
    <2>3. ASSUME e = f
          PROVE  Holders(e)' = {<<"call", p>>}
      <3>0. \A q \in Callers : /\ e \in call'[q].msg.lines <=> q = p
                               /\ call'[q].op = "start" <=> call[q].op = "start"
        BY <1>0, <1>1, <2>2, <2>3
      <3>1. ASSUME NEW h
            PROVE  h \in Holders(e)' <=> h = <<"call", p>>
        <4>1. (\E q \in Callers : h = <<"call", q>> /\ e \in call'[q].msg.lines) <=> h = <<"call", p>>
          BY <3>0
        <4>2. /\ ~\E i \in DOMAIN queue' : h = <<"queue", i>> /\ e \in queue'[i].lines
              /\ ~(e \in batch' /\ \A q \in Callers : call'[q].op # "start")
              /\ ~(inHand' # Free /\ e \in inHand'.lines) /\ e \notin delivered' /\ e \notin lost'
          BY <1>0, <1>1, <2>1, <3>0, <2>3
        <4>3. QED
          BY <4>1, <4>2, HolderPlaces
      <3>2. QED
        BY <3>1
    <2>4. e # f => Moves(e, <<"lost">>, <<"lost">>)
      BY <1>1, <2>1, <2>2, StillThere
    <2>5. QED
      BY <2>3, <2>4
  <1>4. QED
    BY <1>2, <1>3

(* A call that is over has left its entries with nobody but whom it says. *)
LEMMA ReturnMoves ==
    ASSUME NotifierInv, KeptInv, NEW p \in Callers, Return(p)
    PROVE  /\ call'[p] = Idle /\ call'[p].msg.lines = {} /\ call'[p].op # "start"
           /\ \A q \in Callers : q # p => call'[q] = call[q]
           /\ \A e : (e \in batch' /\ \A q \in Callers : call'[q].op # "start")
                       <=> (e \in batch /\ \A q \in Callers : call[q].op # "start")
  <1>1. call \in [Callers -> [op : Calls, step : Steps, msg : Message]]
    BY DEF NotifierInv, NotifierTypeOK
  <1>2. /\ call'[p] = Idle /\ Idle.msg.lines = {} /\ Idle.op # "start"
        /\ \A q \in Callers : q # p => call'[q] = call[q]
    BY <1>1 DEF Return, Idle, Msg
  <1>3. CASE call[p].op = "start"
    BY <1>2, <1>3 DEF Return
  <1>4. CASE call[p].op # "start"
    BY <1>2, <1>4 DEF Return
  <1>5. QED
    BY <1>2, <1>3, <1>4

LEMMA LocksMove ==
    ASSUME NotifierInv, KeptInv, NEW p \in Callers, FireLocks(p), NEW e \in Entries
    PROVE  \/ Moves(e, <<"call", p>>, <<"batch">>)
           \/ Moves(e, <<"lost">>, <<"lost">>)
  <1>1. /\ UNCHANGED <<queue, inHand, delivered, lost>>
        /\ call \in [Callers -> [op : Calls, step : Steps, msg : Message]]
        /\ \A q \in Callers : call[q].op # "start"
    BY NotifierAssumption DEF FireLocks, Quiet, workerVars, lossVars, KeptInv, CallsInv, Starts,
       NotifierInv, NotifierTypeOK
  <1>2. CASE batching
    <2>1. call' = [call EXCEPT ![p] = Idle] /\ batch' = batch \cup call[p].msg.lines
      BY <1>2 DEF FireLocks
    <2>2. /\ call'[p].op # "start" /\ call'[p].msg.lines = {}
          /\ \A q \in Callers : q # p => call'[q] = call[q]
      BY <1>1, <2>1 DEF Msg, Idle
    <2>3. Moves(e, <<"call", p>>, <<"batch">>)
      BY <1>1, <2>1, <2>2, HolderPlaces, AtPlace DEF Moves
    <2>4. QED
      BY <2>3
  <1>3. CASE ~batching
    <2>1. call' = [call EXCEPT ![p].step = "put"] /\ batch' = batch
      BY <1>3 DEF FireLocks
    <2>2. \A q \in Callers : call'[q].msg = call[q].msg /\ call'[q].op = call[q].op
      BY <1>1, <2>1
    <2>3. Moves(e, <<"lost">>, <<"lost">>)
      BY <1>1, <2>1, <2>2, StillThere
    <2>4. QED
      BY <2>3
  <1>4. QED
    BY <1>2, <1>3

(* A message that is queued is the last of the queue. *)
LEMMA PutsMove ==
    ASSUME NotifierInv, KeptInv, NEW p \in Callers, NEW legacy, Put(p, legacy), NEW e \in Entries
    PROVE  \/ Moves(e, <<"call", p>>, <<"queue", Len(queue) + 1>>)
           \/ Moves(e, <<"lost">>, <<"lost">>)
  <1>1. /\ UNCHANGED <<inHand, delivered, lost>>
        /\ call \in [Callers -> [op : Calls, step : Steps, msg : Message]]
        /\ queue \in Seq(Message)
    BY DEF Put, NotifierInv, NotifierTypeOK
  <1>2. CASE IsEmpty(call[p].msg, legacy) /\ Return(p) /\ queue' = queue
    <2>1. call[p].msg.lines = {}
      BY <1>2 DEF IsEmpty
    <2>2. Moves(e, <<"lost">>, <<"lost">>)
      BY <1>1, <1>2, <2>1, ReturnMoves, StillThere
    <2>3. QED
      BY <2>2
  <1>3. CASE UNCHANGED <<call, batch, queue>>
    BY <1>1, <1>3, StillThere
  <1>4. CASE call' = [call EXCEPT ![p].step = "full"] /\ UNCHANGED <<batch, queue>>
    <2>1. \A q \in Callers : call'[q].msg = call[q].msg /\ call'[q].op = call[q].op
      BY <1>1, <1>4
    <2>2. QED
      BY <1>1, <1>4, <2>1, StillThere
  <1>5. CASE queue' = Append(queue, [call[p].msg EXCEPT !.late = Closed]) /\ Return(p)
    <2> DEFINE m == [call[p].msg EXCEPT !.late = Closed]
               n == Len(queue) + 1
    <2>1. m \in Message /\ m.lines = call[p].msg.lines
      BY <1>1 DEF Message, Closed
    <2>2. /\ n \in DOMAIN queue' /\ queue'[n] = m /\ n \notin DOMAIN queue
          /\ \A i : i \in DOMAIN queue' <=> i \in DOMAIN queue \/ i = n
          /\ \A i \in DOMAIN queue : queue'[i] = queue[i]
      <3> HIDE DEF m
      <3>1. queue' = Append(queue, m)
        BY <1>5 DEF m
      <3>2. QED
        BY <1>1, <2>1, <3>1
    <2> HIDE DEF m, n
    <2>3. Moves(e, <<"call", p>>, <<"queue", n>>)
      BY <1>1, <1>5, <2>1, <2>2, HolderPlaces, AtPlace, ReturnMoves DEF Moves
    <2>4. QED
      BY <2>3 DEF n
  <1>6. QED
    BY <1>2, <1>3, <1>4, <1>5 DEF Put, batchVars

(* A message the queue refused for good takes its entries with it. *)
LEMMA FullMoves ==
    ASSUME NotifierInv, KeptInv, NEW p \in Callers, FoundFull(p) \/ LooksForWorker(p), NEW e \in Entries
    PROVE  \/ Moves(e, <<"call", p>>, <<"lost">>)
           \/ Moves(e, <<"lost">>, <<"lost">>)
  <1>1. /\ UNCHANGED <<queue, inHand, delivered>>
        /\ call \in [Callers -> [op : Calls, step : Steps, msg : Message]]
    BY DEF FoundFull, LooksForWorker, workerVars, NotifierInv, NotifierTypeOK
  <1>2. CASE Drops(p)
    <2>1. Return(p) /\ lost' = lost \cup call[p].msg.lines
      BY <1>2 DEF Drops
    <2>2. Moves(e, <<"call", p>>, <<"lost">>)
      BY <1>1, <2>1, HolderPlaces, AtPlace, ReturnMoves DEF Moves
    <2>3. QED
      BY <2>2
  <1>3. CASE ~Drops(p)
    <2>1. call' = [call EXCEPT ![p].step = "look"] /\ UNCHANGED <<batch, lost>>
      BY <1>3 DEF FoundFull, LooksForWorker, batchVars
    <2>2. \A q \in Callers : call'[q].msg = call[q].msg /\ call'[q].op = call[q].op
      BY <1>1, <2>1
    <2>3. QED
      BY <1>1, <2>1, <2>2, StillThere
  <1>4. QED
    BY <1>2, <1>3

(* The place an entry has when the head of the queue is taken. *)
LEMMA TakesMove ==
    ASSUME NotifierInv, KeptInv, WorkerTakes \/ WorkerDrains, WorkerRest, NEW e \in Entries
    PROVE  \A h : h \in Holders(e)' <=>
             \/ h \in Holders(e) /\ \A i \in DOMAIN queue : h # <<"queue", i>>
             \/ h = <<"worker">> /\ <<"queue", 1>> \in Holders(e)
             \/ \E i \in DOMAIN queue : i # 1 /\ h = <<"queue", i - 1>> /\ <<"queue", i>> \in Holders(e)
  <1>1. /\ UNCHANGED <<call, batch, delivered, lost>> /\ inHand = Free
        /\ queue # <<>> /\ queue \in Seq(Message) /\ inHand' = Head(queue) /\ queue' = Tail(queue)
    BY DEF WorkerTakes, WorkerDrains, Take, WorkerRest, batchVars, lossVars, NotifierInv, NotifierTypeOK
  <1>2. /\ 1 \in DOMAIN queue /\ inHand' = queue[1] /\ queue[1] \in Message
        /\ \A i : i \in DOMAIN queue' <=> i \in Nat /\ i + 1 \in DOMAIN queue /\ i # 0
        /\ \A i \in DOMAIN queue' : queue'[i] = queue[i + 1]
        /\ \A i \in DOMAIN queue : i \in Nat /\ i # 0
    BY <1>1
  <1>3. inHand' # Free
    BY <1>2, NotifierAssumption
  <1>4. \A h : (\E i \in DOMAIN queue' : h = <<"queue", i>> /\ e \in queue'[i].lines)
              <=> \E i \in DOMAIN queue : i # 1 /\ h = <<"queue", i - 1>> /\ e \in queue[i].lines
    <2>1. \A i \in DOMAIN queue' : i + 1 \in DOMAIN queue /\ i + 1 # 1 /\ (i + 1) - 1 = i
      BY <1>2
    <2>2. \A i \in DOMAIN queue : i # 1 => i - 1 \in DOMAIN queue' /\ (i - 1) + 1 = i
      BY <1>2
    <2>3. QED
      BY <1>2, <2>1, <2>2
  <1>5. TAKE h
  <1>6. h \in Holders(e)' <=>
          \/ \E p \in Callers : h = <<"call", p>> /\ e \in call[p].msg.lines
          \/ \E i \in DOMAIN queue : i # 1 /\ h = <<"queue", i - 1>> /\ e \in queue[i].lines
          \/ h = <<"batch">> /\ e \in batch /\ \A p \in Callers : call[p].op # "start"
          \/ h = <<"worker">> /\ e \in queue[1].lines
          \/ h = <<"services">> /\ e \in delivered
          \/ h = <<"lost">> /\ e \in lost
    BY <1>1, <1>2, <1>3, <1>4, HolderPlaces
  <1>7. h \in Holders(e) /\ (\A i \in DOMAIN queue : h # <<"queue", i>>) <=>
          \/ \E p \in Callers : h = <<"call", p>> /\ e \in call[p].msg.lines
          \/ h = <<"batch">> /\ e \in batch /\ \A p \in Callers : call[p].op # "start"
          \/ h = <<"services">> /\ e \in delivered
          \/ h = <<"lost">> /\ e \in lost
    BY <1>1, HolderPlaces, PlacesDiffer
  <1>8. \A i \in DOMAIN queue : <<"queue", i>> \in Holders(e) <=> e \in queue[i].lines
    BY AtPlace
  <1>9. QED
    BY <1>2, <1>6, <1>7, <1>8

LEMMA WorkerMoves ==
    ASSUME NotifierInv, KeptInv, Worker, NEW e \in Entries
    PROVE  /\ Holders(e) = {} => Holders(e)' = {}
           /\ (\E h : Holders(e) = {h}) => \E h : Holders(e)' = {h}
  <1>1. UNCHANGED <<call, batch, lost>>
    BY DEF Worker, WorkerRest, batchVars, lossVars
  <1>2. CASE WorkerStops \/ WorkerEnds
    <2>1. Moves(e, <<"lost">>, <<"lost">>)
      BY <1>1, <1>2, StillThere DEF WorkerStops, WorkerEnds
    <2>2. QED
      BY <2>1, MovesKeep
  <1>3. CASE Deliver
    <2>1. inHand # Free /\ inHand' = Free /\ delivered' = delivered \cup inHand.lines /\ queue' = queue
      BY <1>3 DEF Deliver, NotifierInv, NotifierTypeOK
    <2>2. Moves(e, <<"worker">>, <<"services">>)
      BY <1>1, <2>1, HolderPlaces, AtPlace DEF Moves
    <2>3. QED
      BY <2>2, MovesKeep
  <1>4. CASE WorkerTakes \/ WorkerDrains
    <2>1. ASSUME Holders(e) = {}
          PROVE  Holders(e)' = {}
      <3>1. \A h : h \notin Holders(e)'
        BY <1>4, <2>1, TakesMove DEF Worker
      <3>2. QED
        BY <3>1
    <2>2. ASSUME NEW g, Holders(e) = {g}
          PROVE  \E h : Holders(e)' = {h}
      <3>0. \A h : h \in Holders(e) <=> h = g
        BY <2>2
      <3>1. ASSUME NEW h
            PROVE  h \in Holders(e)' <=>
                     \/ h = g /\ \A i \in DOMAIN queue : g # <<"queue", i>>
                     \/ h = <<"worker">> /\ g = <<"queue", 1>>
                     \/ \E i \in DOMAIN queue : i # 1 /\ h = <<"queue", i - 1>> /\ g = <<"queue", i>>
        <4>1. h \in Holders(e) /\ (\A i \in DOMAIN queue : h # <<"queue", i>>)
                <=> h = g /\ \A i \in DOMAIN queue : g # <<"queue", i>>
          BY <3>0
        <4>2. \A i : <<"queue", i>> \in Holders(e) <=> g = <<"queue", i>>
          BY <3>0
        <4>3. WorkerRest
          BY DEF Worker
        <4>4. h \in Holders(e)' <=>
                \/ h \in Holders(e) /\ \A i \in DOMAIN queue : h # <<"queue", i>>
                \/ h = <<"worker">> /\ <<"queue", 1>> \in Holders(e)
                \/ \E i \in DOMAIN queue : i # 1 /\ h = <<"queue", i - 1>> /\ <<"queue", i>> \in Holders(e)
          BY <1>4, <4>3, TakesMove
        <4>5. QED
          BY <4>1, <4>2, <4>4, Zenon
      <3>2. CASE \A i \in DOMAIN queue : g # <<"queue", i>>
        <4>1. g # <<"queue", 1>>
          BY <1>4, <3>2 DEF WorkerTakes, WorkerDrains, Take, NotifierInv, NotifierTypeOK
        <4>2. \A h : h \in Holders(e)' <=> h = g
          BY <3>1, <3>2, <4>1
        <4>3. Holders(e)' = {g}
          BY <4>2
        <4>4. QED
          BY <4>3
      <3>3. ASSUME NEW i \in DOMAIN queue, g = <<"queue", i>>
            PROVE  \E h : Holders(e)' = {h}
        <4> DEFINE to == IF i = 1 THEN <<"worker">> ELSE <<"queue", i - 1>>
        <4>1. \A j : g = <<"queue", j>> <=> j = i
          BY <3>3, PlacesDiffer
        <4>2. \A h : h \in Holders(e)' <=> h = to
          BY <3>1, <3>3, <4>1
        <4> HIDE DEF to
        <4>3. Holders(e)' = {to}
          BY <4>2
        <4>4. QED
          BY <4>3
      <3>4. QED
        BY <3>2, <3>3
    <2>3. QED
      BY <2>1, <2>2
  <1>5. QED
    BY <1>2, <1>3, <1>4 DEF Worker

(* What a step does to one entry. *)
LEMMA EntryMoves ==
    ASSUME FlowInv, KeptInv, Step, NEW e \in Entries
    PROVE  Placed(e)'
  <1>1. NotifierInv /\ cfg \in Settings /\ "main" \in Callers /\ "session" \in Callers
    BY Actors DEF FlowInv, TypeOK, NotifierInv
  <1>2. Placed(e)
    BY DEF KeptInv
  <1>3. ASSUME NEW from, NEW to, Moves(e, from, to), logged' = logged
        PROVE  Placed(e)'
    BY <1>2, <1>3, MovesKeep DEF Placed
  <1>4. CASE UNCHANGED <<notifierVars, logged>>
    <2>1. Moves(e, <<"lost">>, <<"lost">>)
      BY <1>4, StillThere DEF notifierVars, batchVars, workerVars, lossVars
    <2>2. QED
      BY <1>3, <1>4, <2>1
  <1>5. CASE Main \/ Finishes
    <2>1. logged' = logged
      BY <1>5 DEF Main, Finishes, MainRest
    <2>2. CASE StartsMessage
      BY <1>1, <1>3, <2>1, <2>2, StartsMove DEF StartsMessage
    <2>3. CASE SendsMessage
      BY <1>1, <1>3, <2>1, <2>3, SendsMove DEF SendsMessage
    <2>4. CASE Closes
      <3>1. Moves(e, <<"lost">>, <<"lost">>)
        BY <2>4, StillThere DEF Closes, CloseStep, batchVars, lossVars
      <3>2. QED
        BY <1>3, <2>1, <3>1
    <2>5. CASE NoMessage \/ Stops \/ Exits
      BY <1>4, <2>1, <2>5 DEF NoMessage, Stops, Exits
    <2>6. QED
      BY <1>5, <2>2, <2>3, <2>4, <2>5 DEF Main, Finishes
  <1>6. CASE Session
    <2>1. logged' = logged
      BY <1>6 DEF Session
    <2>2. CASE Begin
      <3>1. Returned("session") /\ StartNotification("session", cfg.split)
        BY <2>2 DEF Begin, Returned, FlowInv, TypeOK
      <3>2. QED
        BY <1>1, <1>3, <2>1, <3>1, StartsMove
    <2>3. CASE Errs
      <3>1. Returned("session") /\ SendNotification("session", "empty")
        BY <2>3 DEF Errs
      <3>2. QED
        BY <1>1, <1>3, <2>1, <3>1, SendsMove
    <2>4. ASSUME NEW a \in Subjects, TellReport(a) \/ TellEntries(a)
          PROVE  Placed(e)'
      <3>1. Returned("session") /\ (SendNotification("session", a) \/ SendFilteredEntries("session", a))
        BY <2>4 DEF TellReport, TellEntries, Tells
      <3>2. QED
        BY <1>1, <1>3, <2>1, <3>1, SendsMove
    <2>5. CASE Succeeds \/ NextKind \/ Told \/ End
      BY <1>4, <2>1, <2>5 DEF Succeeds, NextKind, Told, End
    <2>6. QED
      BY <1>6, <2>2, <2>3, <2>4, <2>5 DEF Session
  <1>7. CASE Works
    <2>1. Worker /\ logged' = logged
      BY <1>7 DEF Works
    <2>2. QED
      BY <1>1, <1>2, <2>1, WorkerMoves DEF Placed
  <1>8. CASE Counts
    BY <1>4, <1>8 DEF Counts
  <1>9. ASSUME NEW p \in Callers, Logs(p)
        PROVE  Placed(e)'
    <2>1. PICK f \in Entries : Fire(p, f) /\ logged' = logged \cup {f} /\ f \in cfg.entries /\ f \notin logged
      <3>1. \E f \in cfg.entries : f \notin logged
        BY <1>9 DEF Logs, FlowInv
      <3>2. PICK f \in cfg.entries : f \notin logged /\ Fire(p, f) /\ logged' = logged \cup {f}
        BY <1>9, <3>1 DEF Logs
      <3>3. QED
        BY <3>2, <1>1, Actors
    <2>2. /\ e # f => Moves(e, <<"lost">>, <<"lost">>)
          /\ e = f => \E h : Holders(e)' = {h}
      BY <1>1, <1>9, <2>1, FiresMove DEF Logs
    <2>3. CASE e = f
      BY <2>1, <2>2, <2>3 DEF Placed
    <2>4. CASE e # f
      <3>1. /\ Holders(e) = {} => Holders(e)' = {}
            /\ (\E h : Holders(e) = {h}) => \E h : Holders(e)' = {h}
        BY <2>2, <2>4, MovesKeep
      <3>2. QED
        BY <1>2, <2>1, <2>4, <3>1 DEF Placed
    <2>5. QED
      BY <2>3, <2>4
  <1>10. ASSUME NEW p \in Callers, Sends(p)
         PROVE  Placed(e)'
    <2>1. logged' = logged /\ Sender(p, Legacy)
      BY <1>10 DEF Sends
    <2>2. CASE FireLocks(p)
      BY <1>1, <1>3, <2>1, <2>2, LocksMove
    <2>3. CASE Put(p, Legacy)
      BY <1>1, <1>3, <2>1, <2>3, PutsMove
    <2>4. CASE FoundFull(p) \/ LooksForWorker(p)
      BY <1>1, <1>3, <2>1, <2>4, FullMoves
    <2>5. QED
      BY <2>1, <2>2, <2>3, <2>4 DEF Sender
  <1>11. \/ Main \/ Finishes \/ Session \/ Works \/ Counts
         \/ \E p \in Callers : Logs(p) \/ Sends(p)
    BY DEF Step, Turn
  <1>12. QED
    BY <1>5, <1>6, <1>7, <1>8, <1>9, <1>10, <1>11

(* A caller enters a call, while nobody holds the mutex if it moves the batch. *)
LEMMA EnterCalls ==
    ASSUME NotifierInv, CallsInv, NEW p \in Callers, Returned(p), cfg' = cfg,
           NEW about, NEW s, s => cfg.split,
           \/ StartNotification(p, s) \/ SendNotification(p, about) \/ SendFilteredEntries(p, about)
           \/ \E e \in Entries : Fire(p, e)
    PROVE  CallsInv'
  <1>1. /\ call \in [Callers -> [op : Calls, step : Steps, msg : Message]]
        /\ close' = close /\ filled' = filled
    BY DEF StartNotification, SendNotification, SendFilteredEntries, Fire, Quiet, lossVars, NotifierInv,
       NotifierTypeOK
  <1>2. CASE StartNotification(p, s)
    <2>1. mutex = Free /\ \A q \in Callers : call[q].op # "start"
      BY <1>2, NotifierAssumption DEF StartNotification, CallsInv, Starts
    <2>2. CASE batch # {} /\ ~s
      <3>1. /\ call' = [call EXCEPT ![p] = [op |-> "start", step |-> "put", msg |-> Msg(batch, "log")]]
            /\ mutex' = p /\ UNCHANGED <<batch, lost>>
        BY <1>2, <2>2 DEF StartNotification, Enter, lossVars
      <3>2. /\ call'[p].step = "put" /\ call'[p].msg.lines = batch
            /\ \A q \in Callers : q # p => call'[q] = call[q]
        BY <1>1, <3>1 DEF Msg
      <3>3. QED
        BY <1>1, <2>1, <3>1, <3>2 DEF CallsInv, Starts, Closed
    <2>3. CASE ~(batch # {} /\ ~s)
      <3>1. lost' = lost \cup batch /\ call' = call
        BY <1>2, <2>3 DEF StartNotification
      <3>2. QED
        BY <1>1, <2>1, <2>3, <3>1 DEF CallsInv, Starts, Closed
    <2>4. QED
      BY <2>2, <2>3
  <1>3. CASE SendNotification(p, about)
    <2>1. mutex = Free /\ \A q \in Callers : call[q].op # "start"
      BY <1>3, NotifierAssumption DEF SendNotification, CallsInv, Starts
    <2>2. /\ call' = [call EXCEPT ![p] = [op |-> "send", step |-> "put", msg |-> Msg(batch, about)]]
          /\ lost' = lost
      BY <1>3 DEF SendNotification, Enter, lossVars
    <2>3. /\ call'[p].op = "send" /\ call'[p].step = "put"
          /\ \A q \in Callers : q # p => call'[q] = call[q]
      BY <1>1, <2>2
    <2>4. QED
      BY <1>1, <2>1, <2>2, <2>3 DEF CallsInv, Starts, Closed
  <1>4. CASE SendFilteredEntries(p, about) \/ \E e \in Entries : Fire(p, e)
    <2>1. UNCHANGED <<mutex, batch>> /\ (lost' = lost \/ Closed)
      BY <1>4 DEF SendFilteredEntries, Fire, batchVars, lossVars
    <2>2. \/ call' = call
          \/ \E op \in {"send", "fire"}, step \in {"put", "lock"} : \E m :
               call' = [call EXCEPT ![p] = [op |-> op, step |-> step, msg |-> m]]
      BY <1>4 DEF SendFilteredEntries, Fire, Enter
    <2>3. /\ call'[p].op # "start" /\ call'[p].step \notin {"full", "look"}
          /\ \A q \in Callers : q # p => call'[q] = call[q]
      BY <1>1, <2>2 DEF Returned, Idle
    <2>4. QED
      BY <1>1, <2>1, <2>3 DEF CallsInv, Starts, Closed
  <1>5. QED
    BY <1>2, <1>3, <1>4

LEMMA ReturnCalls ==
    ASSUME NotifierInv, CallsInv, NEW p \in Callers, Return(p), cfg' = cfg,
           filled => filled', Closed => Closed',
           lost' = lost \/ filled \/ Closed
    PROVE  CallsInv'
  <1>1. call \in [Callers -> [op : Calls, step : Steps, msg : Message]]
    BY DEF NotifierInv, NotifierTypeOK
  <1>2. /\ call'[p].op # "start" /\ call'[p].step = "none"
        /\ \A q \in Callers : q # p => call'[q] = call[q]
    BY <1>1 DEF Return, Idle
  <1>3. \A q \in Callers : q # p /\ call[q].op = "start" => mutex' = mutex /\ batch' = batch
    BY DEF Return, CallsInv, Starts
  <1>4. QED
    BY <1>2, <1>3 DEF CallsInv, Starts

LEMMA SenderCalls ==
    ASSUME NotifierInv, CallsInv, NEW p \in Callers, NEW legacy, Sender(p, legacy), cfg' = cfg
    PROVE  CallsInv'
  <1>1. /\ call \in [Callers -> [op : Calls, step : Steps, msg : Message]]
        /\ close' = close
    BY DEF Sender, FireLocks, Put, FoundFull, LooksForWorker, Quiet, NotifierInv, NotifierTypeOK
  <1>2. CASE FireLocks(p)
    <2>1. /\ mutex = Free /\ filled' = filled /\ lost' = lost
          /\ call[p].op = "fire" /\ \A q \in Callers : call[q].op # "start"
      BY <1>2, NotifierAssumption DEF FireLocks, lossVars, CallsInv, Starts
    <2>2. call' = [call EXCEPT ![p] = Idle] \/ call' = [call EXCEPT ![p].step = "put"]
      BY <1>2 DEF FireLocks
    <2>3. /\ call'[p].op # "start" /\ call'[p].step \notin {"full", "look"}
          /\ \A q \in Callers : q # p => call'[q] = call[q]
      BY <1>1, <2>1, <2>2 DEF Idle
    <2>4. QED
      BY <1>1, <2>1, <2>3 DEF CallsInv, Starts, Closed
  <1>3. CASE Return(p) /\ ~FireLocks(p)
    <2>1. /\ filled => filled'
          /\ lost' = lost \/ filled \/ Closed
      BY <1>3 DEF Sender, Put, FoundFull, LooksForWorker, Drops, CallsInv
    <2>2. QED
      BY <1>1, <1>3, <2>1, ReturnCalls DEF Closed
  <1>4. CASE ~Return(p) /\ ~FireLocks(p)
    <2>1. /\ UNCHANGED <<mutex, batch, lost>> /\ (filled => filled')
          /\ \/ call' = call
             \/ \E s \in {"full", "look"} : filled' /\ call' = [call EXCEPT ![p].step = s]
      BY <1>4 DEF Sender, Put, FoundFull, LooksForWorker, Drops, batchVars, CallsInv
    <2>2. \A q \in Callers : /\ call'[q].op = call[q].op /\ call'[q].msg = call[q].msg
                             /\ call'[q].step = call[q].step \/ filled'
      BY <1>1, <2>1
    <2>3. QED
      BY <1>1, <2>1, <2>2 DEF CallsInv, Starts, Closed
  <1>5. QED
    BY <1>2, <1>3, <1>4

LEMMA NextCalls ==
    ASSUME FlowInv, CallsInv, Step
    PROVE  CallsInv'
  <1>1. NotifierInv /\ "main" \in Callers /\ "session" \in Callers
    BY Actors DEF FlowInv, TypeOK, NotifierInv
  <1>2. cfg' = cfg
    BY DEF Step, Turn, Main, Finishes, MainRest, Session, Works, Counts, Logs, Sends
  <1>3. CASE UNCHANGED notifierVars
    BY <1>2, <1>3 DEF CallsInv, Starts, Closed, notifierVars, batchVars, lossVars
  <1>4. CASE Main \/ Finishes
    <2>1. CASE StartsMessage \/ SendsMessage
      BY <1>1, <1>2, <2>1, EnterCalls DEF StartsMessage, SendsMessage
    <2>2. CASE Closes
      <3>1. UNCHANGED <<batchVars, lossVars, call>> /\ (Closed => Closed')
        BY <2>2 DEF Closes, CloseStep, Closed
      <3>2. QED
        BY <1>2, <3>1 DEF CallsInv, Starts, batchVars, lossVars
    <2>3. CASE NoMessage \/ Stops \/ Exits
      BY <1>3, <2>3 DEF NoMessage, Stops, Exits
    <2>4. QED
      BY <1>4, <2>1, <2>2, <2>3 DEF Main, Finishes
  <1>5. CASE Session
    <2>1. CASE Begin
      <3>1. Returned("session") /\ StartNotification("session", cfg.split)
        BY <2>1 DEF Begin, Returned, FlowInv, TypeOK
      <3>2. QED
        BY <1>1, <1>2, <3>1, EnterCalls
    <2>2. CASE Errs
      BY <1>1, <1>2, <2>2, EnterCalls DEF Errs
    <2>3. ASSUME NEW a \in Subjects, TellReport(a) \/ TellEntries(a)
          PROVE  CallsInv'
      BY <1>1, <1>2, <2>3, EnterCalls DEF TellReport, TellEntries, Tells
    <2>4. CASE Succeeds \/ NextKind \/ Told \/ End
      BY <1>3, <2>4 DEF Succeeds, NextKind, Told, End
    <2>5. QED
      BY <1>5, <2>1, <2>2, <2>3, <2>4 DEF Session
  <1>6. CASE Works
    BY <1>2, <1>6 DEF Works, Worker, WorkerRest, CallsInv, Starts, Closed, batchVars, lossVars
  <1>7. CASE Counts
    BY <1>3, <1>7 DEF Counts
  <1>8. ASSUME NEW p \in Callers, Logs(p) \/ Sends(p)
        PROVE  CallsInv'
    <2>1. CASE Logs(p)
      <3>1. Returned(p) /\ \E e \in Entries : Fire(p, e)
        BY <2>1, LogsEntry DEF Logs
      <3>2. QED
        BY <1>1, <1>2, <3>1, EnterCalls
    <2>2. CASE Sends(p)
      BY <1>1, <1>2, <2>2, SenderCalls DEF Sends
    <2>3. QED
      BY <1>8, <2>1, <2>2
  <1>9. \/ Main \/ Finishes \/ Session \/ Works \/ Counts
        \/ \E p \in Callers : Logs(p) \/ Sends(p)
    BY DEF Step, Turn
  <1>10. QED
    BY <1>4, <1>5, <1>6, <1>7, <1>8, <1>9

LEMMA NextKept == FlowInv /\ KeptInv /\ [Next]_vars => KeptInv'
  <1> SUFFICES ASSUME FlowInv, KeptInv, [Next]_vars
               PROVE  KeptInv'
    OBVIOUS
  <1>1. CASE UNCHANGED vars
    <2>1. CallsInv'
      BY <1>1 DEF KeptInv, CallsInv, Starts, Closed, vars, notifierVars, batchVars, lossVars
    <2>2. ASSUME NEW e \in Entries
          PROVE  Placed(e)'
      <3>1. Moves(e, <<"lost">>, <<"lost">>)
        BY <1>1, StillThere DEF vars, notifierVars, batchVars, workerVars, lossVars
      <3>2. QED
        BY <1>1, <3>1, MovesKeep DEF KeptInv, Placed, vars
    <2>3. QED
      BY <2>1, <2>2 DEF KeptInv
  <1>2. CASE Step
    <2>1. CallsInv'
      BY <1>2, NextCalls DEF KeptInv
    <2>2. \A e \in Entries : Placed(e)'
      BY <1>2, EntryMoves
    <2>3. QED
      BY <2>1, <2>2 DEF KeptInv
  <1>3. QED
    BY <1>1, <1>2 DEF Next, Over

LEMMA FirstKept == Init => KeptInv
  <1> SUFFICES ASSUME Init
               PROVE  KeptInv
    OBVIOUS
  <1>1. /\ batch = {} /\ delivered = {} /\ lost = {} /\ logged = {} /\ inHand = Free
        /\ DOMAIN queue = {}
        /\ \A p \in Callers : call[p].op = "none" /\ call[p].step = "none" /\ call[p].msg.lines = {}
    BY DEF Init, NotifierInit, Idle, Msg
  <1>2. ASSUME NEW e \in Entries
        PROVE  Placed(e)
    <2>1. \A h : h \notin Holders(e)
      BY <1>1, HolderPlaces
    <2>2. QED
      BY <1>1, <2>1 DEF Placed
  <1>3. QED
    BY <1>1, <1>2 DEF KeptInv, CallsInv, Starts

(***************************************************************************)
(* Every entry logged is at one place, from the call that brings it to the *)
(* services or to its loss, and entries are lost only for a reason (Fire,  *)
(* StartNotification, SendNotification and sendEntries of shoutrrr.go).    *)
(***************************************************************************)
THEOREM EntriesArePlaced == Spec => []EntriesAreKept
  <1>1. FlowInv /\ KeptInv => EntriesAreKept
    <2> SUFFICES ASSUME FlowInv, KeptInv
                 PROVE  EntriesAreKept
      OBVIOUS
    <2>1. ASSUME NEW e \in logged
          PROVE  Cardinality(Holders(e)) = 1
      <3>1. e \in Entries
        BY DEF FlowInv, TypeOK
      <3>2. \E h : Holders(e) = {h}
        BY <3>1 DEF KeptInv, Placed
      <3>3. QED
        BY <3>2, FS_Singleton
    <2>2. QED
      BY <2>1 DEF EntriesAreKept, KeptInv, CallsInv
  <1>2. QED
    BY <1>1, FirstKept, FirstFlow, NextFlows, NextMetrics, NextKept, PTL DEF Spec

-----------------------------------------------------------------------------
(* What a session tells *)

(* What the session has still to tell, is telling, and has told. *)
ToTell(x)  == \E i \in DOMAIN todo : x \in todo[i]
Pending(x) == call["session"].op = "send" /\ call["session"].msg.about = x
IsTold(x)  == \E i \in DOMAIN told : told[i] = x

(* A legacy template that may have nothing to print. *)
Mute == ~cfg.split /\ Legacy

(* Each piece of news is in one of these, once. *)
OnceInv ==
    /\ session \in {"idle", "updating"} => told = <<>> /\ call["session"].op # "send"
    /\ \A i, j \in DOMAIN told : told[i] = told[j] => i = j
    /\ \A x : ToTell(x) => x \in Containers \cup {"report"} /\ ~Pending(x) /\ ~IsTold(x)
    /\ \A x : Pending(x) => ~IsTold(x)
    /\ \A i, j \in DOMAIN todo : i # j => todo[i] \cap todo[j] = {}

(* News of a container is in one of them, and is a message that is sent. *)
Newsworthy(c) == fate[c] \in {"updated", "restarted", "monitored"}
AllInv ==
    /\ session \in {"telling", "ended"} =>
         \A c \in Containers : Newsworthy(c) => \E x \in {c, "report"} : ToTell(x) \/ Pending(x) \/ IsTold(x)
    /\ \A x : Pending(x) /\ x # "empty" => ~IsEmpty(call["session"].msg, Legacy)

TellInv == OnceInv /\ (~cfg.errorsOnly /\ ~Mute /\ ~filled /\ close = "open" => AllInv)

(* A queue that was full stays known as such, and a notifier closed. *)
LEMMA NoWayBack ==
    ASSUME FlowInv, Step
    PROVE  /\ filled => filled'
           /\ close' = "open" => close = "open"
  <1>1. CASE UNCHANGED notifierVars
    BY <1>1 DEF notifierVars, lossVars
  <1>2. CASE Main \/ Finishes
    BY <1>1, <1>2 DEF Main, Finishes, StartsMessage, NoMessage, SendsMessage, Stops, Closes, Exits,
       StartNotification, SendNotification, CloseStep, Quiet, lossVars
  <1>3. CASE Session
    <2>1. CASE Succeeds \/ NextKind \/ Told \/ End
      BY <1>1, <2>1 DEF Succeeds, NextKind, Told, End
    <2>2. CASE Begin \/ Errs
      BY <1>1, <2>2 DEF Begin, Errs, StartNotification, SendNotification, Quiet, lossVars
    <2>3. CASE \E a \in Subjects : TellReport(a) \/ TellEntries(a)
      BY <2>3 DEF TellReport, TellEntries, SendNotification, SendFilteredEntries, Quiet, lossVars
    <2>4. QED
      BY <1>3, <2>1, <2>2, <2>3 DEF Session
  <1>4. CASE Works \/ Counts
    BY <1>1, <1>4 DEF Works, Counts, Worker, WorkerRest, lossVars
  <1>5. ASSUME NEW p \in Callers, Logs(p) \/ Sends(p)
        PROVE  (filled => filled') /\ (close' = "open" => close = "open")
    <2>1. CASE Logs(p)
      BY <2>1, LogsEntry DEF Fire, Quiet
    <2>2. CASE Sends(p)
      BY <2>2 DEF Sends, Sender, FireLocks, Put, FoundFull, LooksForWorker, Quiet, lossVars
    <2>3. QED
      BY <1>5, <2>1, <2>2
  <1>6. QED
    BY <1>2, <1>3, <1>4, <1>5 DEF Step, Turn

(* A step of others, or one of the session's that is not about its news. *)
LEMMA SameNewsTold ==
    ASSUME FlowInv, Step, TellInv, UNCHANGED <<session, fate, todo>>,
           call["session"].op = "send" \/ call'["session"].op = "send"
             => call'["session"] = call["session"]
    PROVE  TellInv'
  <1>1. History /\ cfg' = cfg
    BY DEF Step, Turn, Main, Finishes, MainRest, Session, Works, Counts, Logs, Sends
  <1>2. told' = told
    <2>1. ~MessageQueued
      BY DEF MessageQueued, Returned, Idle
    <2>2. QED
      BY <1>1, <2>1 DEF History, TellInv, OnceInv
  <1>3. \A x : /\ ToTell(x)' <=> ToTell(x)
               /\ Pending(x)' <=> Pending(x)
               /\ IsTold(x)' <=> IsTold(x)
    BY <1>2 DEF ToTell, Pending, IsTold
  <1>4. OnceInv'
    BY <1>2, <1>3 DEF TellInv, OnceInv
  <1>5. ASSUME AllInv
        PROVE  AllInv'
    <2>1. \A x : Pending(x) => call'["session"] = call["session"]
      BY DEF Pending
    <2>2. \A c : Newsworthy(c)' <=> Newsworthy(c)
      BY DEF Newsworthy
    <2>3. Legacy' = Legacy
      BY <1>1 DEF Legacy
    <2>4. QED
      BY <1>3, <1>5, <2>1, <2>2, <2>3 DEF AllInv, IsEmpty
  <1>6. QED
    BY <1>1, <1>4, <1>5, NoWayBack DEF TellInv, Mute, Legacy

LEMMA AppendIs ==
    ASSUME NEW S, NEW s \in Seq(S), NEW x \in S, NEW t, t = Append(s, x)
    PROVE  /\ \A i : i \in DOMAIN t <=> i \in DOMAIN s \/ i = Len(s) + 1
           /\ \A i \in DOMAIN s : t[i] = s[i] /\ i # Len(s) + 1
           /\ t[Len(s) + 1] = x
  <1>1. \A i : i \in DOMAIN t <=> i \in DOMAIN s \/ i = Len(s) + 1
    OBVIOUS
  <1>2. \A i \in DOMAIN s : t[i] = s[i] /\ i # Len(s) + 1
    OBVIOUS
  <1>3. t[Len(s) + 1] = x
    OBVIOUS
  <1>4. QED
    BY <1>1, <1>2, <1>3

(* A message that was not queued was refused, or had nothing in it. *)
LEMMA NotQueued ==
    ASSUME FlowInv, CallsInv, Sends("session"), call["session"].op = "send",
           call'["session"].op # "send", ~MessageQueued
    PROVE  filled \/ IsEmpty(call["session"].msg, Legacy)
  <1>1. /\ call \in [Callers -> [op : Calls, step : Steps, msg : Message]] /\ "session" \in Callers
        /\ queue \in Seq(Message)
    BY Actors DEF FlowInv, TypeOK, NotifierTypeOK
  <1>2. CASE Put("session", Legacy)
    <2>1. call' = [call EXCEPT !["session"] = Idle]
      BY <1>1, <1>2 DEF Put, Return
    <2>2. Returned("session")'
      BY <1>1, <2>1 DEF Returned
    <2>3. ~(Len(queue') > Len(queue))
      BY <2>2 DEF MessageQueued
    <2>4. \A m : Len(Append(queue, m)) > Len(queue)
      BY <1>1
    <2>5. call'["session"].step = "none"
      BY <1>1, <2>1 DEF Idle
    <2>6. QED
      BY <1>1, <1>2, <2>3, <2>4, <2>5 DEF Put
  <1>3. CASE FoundFull("session") \/ LooksForWorker("session")
    BY <1>1, <1>3 DEF FoundFull, LooksForWorker, CallsInv
  <1>4. QED
    BY <1>2, <1>3 DEF Sends, Sender, FireLocks

(* The message of the session is queued, refused, or had nothing in it. *)
LEMMA SessionPutsTold ==
    ASSUME FlowInv, CallsInv, Step, TellInv, Sends("session")
    PROVE  TellInv'
  <1>1. /\ History /\ cfg' = cfg /\ UNCHANGED <<session, fate, todo>>
        /\ call \in [Callers -> [op : Calls, step : Steps, msg : Message]] /\ "session" \in Callers
        /\ told \in Seq(Subjects) /\ queue \in Seq(Message)
    BY Actors DEF Step, Turn, Sends, sessionVars, FlowInv, TypeOK, NotifierTypeOK
  <1>2. CASE call["session"].op # "send"
    <2>1. call'["session"].op # "send"
      <3>1. \/ call' = call \/ call' = [call EXCEPT !["session"] = Idle]
            \/ \E s : call' = [call EXCEPT !["session"].step = s]
        BY DEF Sends, Sender, FireLocks, Put, FoundFull, LooksForWorker, Drops, Return, batchVars
      <3>2. QED
        BY <1>1, <1>2, <3>1 DEF Idle
    <2>2. QED
      BY <1>1, <1>2, <2>1, SameNewsTold
  <1>3. CASE call["session"].op = "send" /\ ~Return("session")
    <2>1. \/ call' = call
          \/ \E s : filled' /\ call' = [call EXCEPT !["session"].step = s]
      <3>1. CASE Put("session", Legacy)
        BY <1>3, <3>1 DEF Put
      <3>2. CASE FoundFull("session") \/ LooksForWorker("session")
        <4>1. call["session"].step \in {"full", "look"} /\ filled' = filled
          BY <3>2 DEF FoundFull, LooksForWorker
        <4>2. filled'
          BY <1>1, <4>1 DEF CallsInv
        <4>3. \E s : call' = [call EXCEPT !["session"].step = s]
          BY <1>3, <3>2 DEF FoundFull, LooksForWorker, Drops
        <4>4. QED
          BY <4>2, <4>3
      <3>3. QED
        BY <1>3, <3>1, <3>2 DEF Sends, Sender, FireLocks
    <2>2. /\ call'["session"].op = "send" /\ call'["session"].msg = call["session"].msg
          /\ call' = call \/ filled'
      BY <1>1, <1>3, <2>1
    <2>3. told' = told
      <3>1. ~MessageQueued
        BY <2>2 DEF MessageQueued, Returned, Idle
      <3>2. QED
        BY <1>1, <3>1 DEF History, TellInv, OnceInv
    <2>4. CASE call' = call
      BY <1>1, <2>4, SameNewsTold
    <2>5. CASE filled'
      <3>1. \A x : /\ ToTell(x)' <=> ToTell(x)
                   /\ Pending(x)' <=> Pending(x)
                   /\ IsTold(x)' <=> IsTold(x)
        BY <1>1, <1>3, <2>2, <2>3 DEF ToTell, Pending, IsTold
      <3>2. OnceInv'
        BY <1>1, <1>3, <2>2, <2>3, <3>1 DEF TellInv, OnceInv
      <3>3. QED
        BY <2>5, <3>2 DEF TellInv
    <2>6. QED
      BY <2>2, <2>4, <2>5
  <1>4. CASE call["session"].op = "send" /\ Return("session")
    <2> DEFINE x == call["session"].msg.about
    <2>1. call'["session"] = Idle /\ call'["session"].op = "none"
      BY <1>1, <1>4 DEF Return, Idle
    <2>2. /\ Pending(x) /\ ~IsTold(x) /\ ~ToTell(x) /\ x \in Subjects
          /\ session \notin {"idle", "updating"}
          /\ \A y : ~Pending(y)' /\ (Pending(y) => y = x)
      BY <1>1, <1>4, <2>1 DEF Pending, TellInv, OnceInv, Message
    <2>3. CASE ~MessageQueued
      <3>1. told' = told
        BY <1>1, <2>2, <2>3 DEF History
      <3>2. \A y : /\ ToTell(y)' <=> ToTell(y)
                   /\ IsTold(y)' <=> IsTold(y)
        BY <1>1, <3>1 DEF ToTell, IsTold
      <3>3. OnceInv'
        BY <1>1, <2>2, <3>1, <3>2 DEF TellInv, OnceInv
      <3>4. filled \/ IsEmpty(call["session"].msg, Legacy)
        BY <1>4, <2>1, <2>3, NotQueued
      <3>5. ASSUME AllInv, ~filled
            PROVE  AllInv'
        <4>1. x = "empty"
          BY <2>2, <3>4, <3>5 DEF AllInv
        <4>2. \A c \in Containers : c # "empty" /\ "report" # "empty"
          BY FlowAssumption
        <4>3. \A c : Newsworthy(c)' <=> Newsworthy(c)
          BY <1>1 DEF Newsworthy
        <4>4. QED
          BY <1>1, <2>2, <3>2, <3>5, <4>1, <4>2, <4>3 DEF AllInv
      <3>6. QED
        BY <1>1, <3>3, <3>5, NoWayBack DEF TellInv, Mute, Legacy
    <2>4. CASE MessageQueued
      <3>1. told' = Append(told, x)
        BY <1>1, <2>2, <2>4 DEF History
      <3>2. /\ \A i : i \in DOMAIN told' <=> i \in DOMAIN told \/ i = Len(told) + 1
            /\ \A i \in DOMAIN told : told'[i] = told[i] /\ i # Len(told) + 1
            /\ told'[Len(told) + 1] = x
        BY <1>1, <2>2, <3>1, AppendIs
      <3>3. \A y : /\ ToTell(y)' <=> ToTell(y)
                   /\ IsTold(y)' <=> IsTold(y) \/ y = x
        BY <1>1, <3>2 DEF ToTell, IsTold
      <3>4. \A i, j \in DOMAIN told' : told'[i] = told'[j] => i = j
        <4>1. \A i \in DOMAIN told : told[i] # x
          BY <2>2 DEF IsTold
        <4>2. \A i, j \in DOMAIN told : told[i] = told[j] => i = j
          BY DEF TellInv, OnceInv
        <4> HIDE DEF x
        <4>3. QED
          BY <3>2, <4>1, <4>2
      <3>5. OnceInv'
        BY <1>1, <2>2, <3>3, <3>4 DEF TellInv, OnceInv
      <3>6. ASSUME AllInv
            PROVE  AllInv'
        <4>1. \A c : Newsworthy(c)' <=> Newsworthy(c)
          BY <1>1 DEF Newsworthy
        <4>2. QED
          BY <1>1, <2>2, <3>3, <3>6, <4>1 DEF AllInv
      <3>7. QED
        BY <1>1, <3>5, <3>6, NoWayBack DEF TellInv, Mute, Legacy
    <2>5. QED
      BY <2>3, <2>4
  <1>5. QED
    BY <1>2, <1>3, <1>4

(* Steps of a session: it has news, ... *)
LEMMA SucceedsTold ==
    ASSUME FlowInv, Step, TellInv, Session, Succeeds
    PROVE  TellInv'
  <1>1. /\ History /\ cfg' = cfg /\ UNCHANGED notifierVars
        /\ told = <<>> /\ todo = <<>> /\ call["session"].op = "none" /\ session' \in {"telling", "ended"}
        /\ fate' \in [Containers -> Fates]
    BY DEF Step, Turn, Session, Succeeds, Returned, Idle, FlowInv, TypeOK, TellInv, OnceInv
  <1>2. told' = <<>> /\ call' = call
    BY <1>1 DEF History, MessageQueued, notifierVars
  <1>3. \A x : ~Pending(x)' /\ ~IsTold(x)'
    BY <1>1, <1>2 DEF Pending, IsTold
  <1>4. CASE todo' = todo
    <2>1. \A x : ~ToTell(x)'
      BY <1>1, <1>4 DEF ToTell
    <2>2. cfg.errorsOnly
      BY <1>4, <1>1 DEF Succeeds, ShouldSend, News
    <2>3. QED
      BY <1>1, <1>2, <1>3, <1>4, <2>1, <2>2 DEF TellInv, OnceInv
  <1>5. CASE todo' = News(fate') /\ ~cfg.split
    <2>1. todo' = <<{"report"}>>
      BY <1>5 DEF News
    <2>2. \A x : ToTell(x)' <=> x = "report"
      BY <2>1 DEF ToTell
    <2>3. QED
      BY <1>1, <1>2, <1>3, <2>1, <2>2 DEF TellInv, OnceInv, AllInv
  <1>6. CASE todo' = News(fate') /\ cfg.split
    <2> DEFINE K(f) == {c \in Containers : fate'[c] = f}
    <2>1. todo' = <<K("updated"), K("restarted"), K("monitored")>>
      BY <1>6 DEF News
    <2>2. /\ \A f, g : f # g => K(f) \cap K(g) = {}
          /\ \A f : K(f) \subseteq Containers
          /\ \A c \in Containers : Newsworthy(c)' =>
               c \in K("updated") \cup K("restarted") \cup K("monitored")
      BY DEF Newsworthy
    <2> HIDE DEF K
    <2>3. /\ DOMAIN todo' = 1..3 /\ todo'[1] = K("updated") /\ todo'[2] = K("restarted")
          /\ todo'[3] = K("monitored")
      BY <2>1
    <2>4. \A i \in DOMAIN todo' : i \in {1, 2, 3}
      BY <2>3
    <2>5. \A i, j \in DOMAIN todo' : i # j => todo'[i] \cap todo'[j] = {}
      BY <2>2, <2>3, <2>4
    <2>6. \A x : ToTell(x)' <=> x \in K("updated") \cup K("restarted") \cup K("monitored")
      BY <2>3, <2>4 DEF ToTell
    <2>7. OnceInv'
      BY <1>1, <1>2, <1>3, <2>2, <2>5, <2>6 DEF OnceInv
    <2>8. AllInv'
      BY <1>3, <2>2, <2>6 DEF AllInv
    <2>9. QED
      BY <2>7, <2>8 DEF TellInv
  <1>7. QED
    BY <1>4, <1>5, <1>6 DEF Succeeds

(* ... none, or no more. *)
LEMMA EndsTold ==
    ASSUME FlowInv, Step, TellInv, Session, Begin \/ Errs \/ Told \/ End
    PROVE  TellInv'
  <1>1. /\ History /\ cfg' = cfg
        /\ call \in [Callers -> [op : Calls, step : Steps, msg : Message]] /\ "session" \in Callers
    BY Actors DEF Step, Turn, Session, FlowInv, TypeOK, NotifierTypeOK
  <1>2. /\ todo = <<>> /\ todo' = <<>> /\ call["session"].op = "none"
        /\ \A x : ~ToTell(x)' /\ ~ToTell(x) /\ ~Pending(x)
    BY DEF Begin, Errs, Told, End, Returned, Idle, FlowInv, TypeOK, ToTell, Pending
  <1>3. told' = IF session' = "idle" THEN <<>> ELSE told
    BY <1>1, <1>2 DEF History, MessageQueued
  <1>4. CASE Begin
    <2>1. session' = "updating" /\ told' = <<>> /\ told = <<>>
      BY <1>3, <1>4 DEF Begin, TellInv, OnceInv
    <2>2. call'["session"].op \in {"none", "start"}
      <3>1. \/ call' = call
            \/ \E m : call' = [call EXCEPT !["session"] = [op |-> "start", step |-> "put", msg |-> m]]
        BY <1>4 DEF Begin, StartNotification, Enter
      <3>2. QED
        BY <1>1, <1>2, <3>1
    <2>3. QED
      BY <1>2, <2>1, <2>2 DEF TellInv, OnceInv, AllInv, Pending, IsTold
  <1>5. CASE Errs
    <2>1. session' = "failed" /\ told' = <<>>
      BY <1>3, <1>5 DEF Errs, TellInv, OnceInv
    <2>2. \A x : Pending(x)' => x = "empty"
      <3> DEFINE m == Msg(batch, "empty")
      <3>1. call' = [call EXCEPT !["session"] = [op |-> "send", step |-> "put", msg |-> m]]
        BY <1>5 DEF Errs, SendNotification, Enter
      <3>2. m.about = "empty"
        BY DEF Msg
      <3> HIDE DEF m
      <3>3. call'["session"].msg = m
        BY <1>1, <3>1
      <3>4. QED
        BY <3>2, <3>3 DEF Pending
    <2>3. QED
      BY <1>2, <2>1, <2>2 DEF TellInv, OnceInv, AllInv, IsTold
  <1>6. CASE Told
    <2>1. session = "telling" /\ session' = "ended" /\ told' = told /\ UNCHANGED <<fate, call, filled, close>>
      BY <1>3, <1>6 DEF Told, notifierVars, lossVars
    <2>2. \A x : ~Pending(x)' /\ (IsTold(x)' <=> IsTold(x))
      BY <1>2, <2>1 DEF Pending, IsTold
    <2>3. OnceInv'
      BY <1>2, <2>1, <2>2 DEF TellInv, OnceInv
    <2>4. ASSUME AllInv
          PROVE  AllInv'
      BY <1>2, <2>1, <2>2, <2>4 DEF AllInv, Newsworthy
    <2>5. QED
      BY <1>1, <2>1, <2>3, <2>4 DEF TellInv, Mute, Legacy
  <1>7. CASE End
    <2>1. session' = "idle" /\ told' = <<>> /\ call' = call
      BY <1>3, <1>7 DEF End, notifierVars
    <2>2. QED
      BY <1>2, <2>1 DEF TellInv, OnceInv, AllInv, Pending, IsTold
  <1>8. QED
    BY <1>4, <1>5, <1>6, <1>7

LEMMA NextKindTold ==
    ASSUME FlowInv, Step, TellInv, Session, NextKind
    PROVE  TellInv'
  <1>1. /\ History /\ cfg' = cfg /\ UNCHANGED <<notifierVars, fate>>
        /\ session = "telling" /\ session' = session /\ todo \in Seq(SUBSET Subjects)
        /\ todo # <<>> /\ todo' = Tail(todo) /\ Head(todo) = {}
    BY DEF Step, Turn, Session, NextKind, FlowInv, TypeOK
  <1>2. told' = told /\ call' = call /\ filled' = filled /\ close' = close
    BY <1>1 DEF History, MessageQueued, notifierVars, workerVars, lossVars
  <1>3. /\ \A i : i \in DOMAIN todo' <=> i \in Nat /\ i # 0 /\ i + 1 \in DOMAIN todo
        /\ \A i \in DOMAIN todo' : todo'[i] = todo[i + 1]
        /\ todo[1] = {}
    BY <1>1
  <1>4. \A x : ToTell(x)' <=> ToTell(x)
    <2>1. \A x : ToTell(x)' => ToTell(x)
      BY <1>3 DEF ToTell
    <2>2. ASSUME NEW x, ToTell(x)
          PROVE  ToTell(x)'
      <3>1. PICK i \in DOMAIN todo : x \in todo[i]
        BY <2>2 DEF ToTell
      <3>2. i # 1 /\ i - 1 \in DOMAIN todo' /\ todo'[i - 1] = todo[i]
        BY <1>1, <1>3, <3>1
      <3>3. QED
        BY <3>1, <3>2 DEF ToTell
    <2>3. QED
      BY <2>1, <2>2
  <1>5. \A x : (Pending(x)' <=> Pending(x)) /\ (IsTold(x)' <=> IsTold(x))
    BY <1>2 DEF Pending, IsTold
  <1>6. \A i, j \in DOMAIN todo' : i # j => todo'[i] \cap todo'[j] = {}
    <2>1. \A i, j \in DOMAIN todo : i # j => todo[i] \cap todo[j] = {}
      BY DEF TellInv, OnceInv
    <2>2. \A i, j \in DOMAIN todo' : i # j => i + 1 # j + 1
      BY <1>3
    <2>3. QED
      BY <1>3, <2>1, <2>2
  <1>7. OnceInv'
    BY <1>1, <1>2, <1>4, <1>5, <1>6 DEF TellInv, OnceInv
  <1>8. ASSUME AllInv
        PROVE  AllInv'
    BY <1>1, <1>2, <1>4, <1>5, <1>8 DEF AllInv, Newsworthy, Legacy
  <1>9. QED
    BY <1>1, <1>2, <1>7, <1>8 DEF TellInv, Mute, Legacy

(* It sends the news of one container, or the report of all. *)
LEMMA TellsTold ==
    ASSUME FlowInv, Step, TellInv, Session, NEW a \in Subjects, TellReport(a) \/ TellEntries(a)
    PROVE  TellInv'
  <1>1. /\ History /\ cfg' = cfg /\ Tells(a)
        /\ call \in [Callers -> [op : Calls, step : Steps, msg : Message]] /\ "session" \in Callers
    BY Actors DEF Step, Turn, Session, TellReport, TellEntries, FlowInv, TypeOK, NotifierTypeOK
  <1>2. /\ session = "telling" /\ session' = session /\ fate' = fate /\ call["session"].op = "none"
        /\ todo # <<>> /\ todo \in Seq(SUBSET Subjects) /\ a \in Head(todo)
        /\ todo' = <<Head(todo) \ {a}>> \o Tail(todo)
    BY <1>1 DEF Tells, Returned, Idle, FlowInv, TypeOK
  <1>3. told' = told
    BY <1>1, <1>2 DEF History, MessageQueued
  <1>4. /\ DOMAIN todo' = DOMAIN todo /\ 1 \in DOMAIN todo
        /\ todo'[1] = todo[1] \ {a} /\ a \in todo[1]
        /\ \A i \in DOMAIN todo : i # 1 => todo'[i] = todo[i]
    BY <1>2
  <1>5. \A x : ToTell(x)' <=> ToTell(x) /\ x # a
    <2>1. \A i \in DOMAIN todo : i # 1 => a \notin todo[i]
      BY <1>4 DEF TellInv, OnceInv
    <2>2. \A i \in DOMAIN todo : todo'[i] = todo[i] \ {a}
      BY <1>4, <2>1
    <2>3. QED
      BY <1>4, <2>2 DEF ToTell
  <1>6. ToTell(a) /\ ~IsTold(a) /\ a \in Containers \cup {"report"}
    BY <1>4 DEF ToTell, TellInv, OnceInv
  <1>7. filled' = filled /\ close' = close
    BY DEF TellReport, TellEntries, SendNotification, SendFilteredEntries, Quiet, lossVars
  <1>8. PICK m : /\ call' = [call EXCEPT !["session"] = [op |-> "send", step |-> "put", msg |-> m]]
                 /\ \/ m = Msg(batch, a) /\ (cfg.report \/ ~cfg.split)
                    \/ m = [Msg({}, a) EXCEPT !.made = TRUE]
    <2>1. CASE TellReport(a)
      BY <2>1 DEF TellReport, SendNotification, Enter
    <2>2. CASE TellEntries(a)
      BY <2>2 DEF TellEntries, SendFilteredEntries, Enter
    <2>3. QED
      BY <2>1, <2>2
  <1>9. m.about = a /\ (m.made \/ cfg.report \/ ~cfg.split)
    BY <1>8 DEF Msg
  <1>10. call'["session"].op = "send" /\ call'["session"].msg = m
    BY <1>1, <1>8
  <1>11. \A x : /\ Pending(x)' <=> x = a
                /\ IsTold(x)' <=> IsTold(x)
                /\ ~Pending(x)
    BY <1>2, <1>3, <1>9, <1>10 DEF Pending, IsTold
  <1>12. \A i, j \in DOMAIN todo' : i # j => todo'[i] \cap todo'[j] = {}
    <2>1. \A i \in DOMAIN todo : todo'[i] \subseteq todo[i]
      BY <1>4
    <2>2. QED
      BY <1>4, <2>1 DEF TellInv, OnceInv
  <1>13. OnceInv'
    BY <1>1, <1>2, <1>3, <1>5, <1>6, <1>11, <1>12 DEF TellInv, OnceInv
  <1>14. ASSUME AllInv, ~Mute
         PROVE  AllInv'
    <2>1. a # "log"
      BY <1>6, FlowAssumption
    <2>2. ~IsEmpty(m, Legacy)'
      BY <1>1, <1>9, <1>14, <2>1 DEF IsEmpty, Mute, Legacy
    <2>3. QED
      BY <1>2, <1>5, <1>10, <1>11, <1>14, <2>2 DEF AllInv, Newsworthy
  <1>15. QED
    BY <1>1, <1>7, <1>13, <1>14 DEF TellInv, Mute, Legacy

(* What the others do leaves the session's call alone. *)
LEMMA OthersTold ==
    ASSUME FlowInv, CallsInv, Step, TellInv, ~Session
    PROVE  TellInv'
  <1>1. /\ UNCHANGED <<session, fate, todo>>
        /\ call \in [Callers -> [op : Calls, step : Steps, msg : Message]]
        /\ {"main", "session"} \subseteq Callers
    BY FlowAssumption
       DEF Step, Turn, Main, Finishes, MainRest, Works, Counts, Logs, Sends, sessionVars, FlowInv,
          TypeOK, NotifierTypeOK
  <1>2. CASE Main \/ Finishes
    <2>1. call' = call \/ \E c : call' = [call EXCEPT !["main"] = c]
      BY <1>2 DEF Main, Finishes, StartsMessage, NoMessage, SendsMessage, Stops, Closes, Exits,
         StartNotification, SendNotification, Enter, CloseStep, notifierVars
    <2>2. QED
      BY <1>1, <2>1, SameNewsTold
  <1>3. CASE Works \/ Counts
    BY <1>1, <1>3, SameNewsTold DEF Works, Counts, Worker, WorkerRest, notifierVars
  <1>4. ASSUME NEW p \in Callers, Logs(p)
        PROVE  TellInv'
    <2>1. /\ call' = call \/ \E m : call' = [call EXCEPT ![p] = [op |-> "fire", step |-> "lock", msg |-> m]]
          /\ call[p].op = "none"
      BY <1>4, LogsEntry DEF Logs, Returned, Idle, Fire, Enter
    <2>2. QED
      BY <1>1, <2>1, SameNewsTold
  <1>5. ASSUME NEW p \in Callers, p # "session", Sends(p)
        PROVE  TellInv'
    <2>1. \/ call' = call \/ call' = [call EXCEPT ![p] = Idle]
          \/ \E s : call' = [call EXCEPT ![p].step = s]
      BY <1>5 DEF Sends, Sender, FireLocks, Put, FoundFull, LooksForWorker, Drops, Return, batchVars
    <2>2. call'["session"] = call["session"]
      BY <1>1, <1>5, <2>1
    <2>3. QED
      BY <1>1, <2>2, SameNewsTold
  <1>6. QED
    BY <1>2, <1>3, <1>4, <1>5, SessionPutsTold DEF Step, Turn

LEMMA NextTells == FlowInv /\ CallsInv /\ TellInv /\ [Next]_vars => TellInv'
  <1> SUFFICES ASSUME FlowInv, CallsInv, TellInv, [Next]_vars
               PROVE  TellInv'
    OBVIOUS
  <1>1. CASE UNCHANGED vars
    BY <1>1 DEF TellInv, OnceInv, AllInv, ToTell, Pending, IsTold, Mute, Newsworthy, Legacy, IsEmpty, vars,
       notifierVars, lossVars, sessionVars, historyVars
  <1>2. CASE Step /\ Session
    <2>1. \/ Succeeds \/ (Begin \/ Errs \/ Told \/ End) \/ NextKind
          \/ \E a \in Subjects : TellReport(a) \/ TellEntries(a)
      BY <1>2 DEF Session
    <2>2. QED
      BY <1>2, <2>1, SucceedsTold, EndsTold, NextKindTold, TellsTold
  <1>3. CASE Step /\ ~Session
    BY <1>3, OthersTold
  <1>4. QED
    BY <1>1, <1>2, <1>3 DEF Next, Over

(* What the others do leaves a message of the session as it is. *)
LEMMA OthersMove ==
    ASSUME FlowInv, Step, ~Session, ~(Sends("session") /\ call["session"].op = "send")
    PROVE  \/ call'["session"] = call["session"]
           \/ call["session"].op # "send" /\ call'["session"].op # "send"
  <1>1. /\ call \in [Callers -> [op : Calls, step : Steps, msg : Message]]
        /\ {"main", "session"} \subseteq Callers
    BY FlowAssumption DEF FlowInv, TypeOK, NotifierTypeOK
  <1>2. CASE Main \/ Finishes
    <2>1. call' = call \/ \E c : call' = [call EXCEPT !["main"] = c]
      BY <1>2 DEF Main, Finishes, StartsMessage, NoMessage, SendsMessage, Stops, Closes, Exits,
         StartNotification, SendNotification, Enter, CloseStep, notifierVars
    <2>2. QED
      BY <1>1, <2>1
  <1>3. CASE Works \/ Counts
    BY <1>3 DEF Works, Counts, Worker, WorkerRest, notifierVars
  <1>4. ASSUME NEW p \in Callers, Logs(p)
        PROVE  call'["session"] = call["session"]
               \/ (call["session"].op # "send" /\ call'["session"].op # "send")
    <2>1. /\ call' = call \/ \E m : call' = [call EXCEPT ![p] = [op |-> "fire", step |-> "lock", msg |-> m]]
          /\ call[p].op = "none"
      BY <1>4, LogsEntry DEF Logs, Returned, Idle, Fire, Enter
    <2>2. QED
      BY <1>1, <2>1
  <1>5. ASSUME NEW p \in Callers, Sends(p)
        PROVE  call'["session"] = call["session"]
               \/ (call["session"].op # "send" /\ call'["session"].op # "send")
    <2>1. \/ call' = call \/ call' = [call EXCEPT ![p] = Idle]
          \/ \E s : call' = [call EXCEPT ![p].step = s]
      BY <1>5 DEF Sends, Sender, FireLocks, Put, FoundFull, LooksForWorker, Drops, Return, batchVars
    <2>2. QED
      BY <1>1, <1>5, <2>1 DEF Idle
  <1>6. QED
    BY <1>2, <1>3, <1>4, <1>5 DEF Step, Turn

(* A session that failed sends nothing but the empty report. *)
ErrInv ==
    session = "failed" =>
        /\ \A x : Pending(x) \/ IsTold(x) => x = "empty"
        /\ ~Legacy /\ ~filled /\ close = "open" => Pending("empty") \/ IsTold("empty")

LEMMA NextErrs == FlowInv /\ CallsInv /\ TellInv /\ ErrInv /\ [Next]_vars => ErrInv'
  <1> SUFFICES ASSUME FlowInv, CallsInv, TellInv, ErrInv, [Next]_vars, session' = "failed"
               PROVE  ErrInv'
    BY DEF ErrInv
  <1>0. /\ call \in [Callers -> [op : Calls, step : Steps, msg : Message]] /\ "session" \in Callers
        /\ told \in Seq(Subjects)
    BY Actors DEF FlowInv, TypeOK, NotifierTypeOK
  <1>1. CASE UNCHANGED vars
    BY <1>1 DEF ErrInv, Pending, IsTold, Legacy, vars, notifierVars, lossVars, sessionVars, historyVars
  <1>2. CASE Step /\ Session
    <2>1. Errs /\ History
      BY <1>2 DEF Step, Turn, Session, Begin, Succeeds, TellReport, TellEntries, Tells, NextKind, Told, End
    <2>2. call["session"].op = "none" /\ told = <<>>
      BY <2>1 DEF Errs, Returned, Idle, TellInv, OnceInv
    <2>3. told' = <<>>
      BY <2>1, <2>2 DEF History, MessageQueued
    <2> DEFINE m == Msg(batch, "empty")
    <2>4. call' = [call EXCEPT !["session"] = [op |-> "send", step |-> "put", msg |-> m]]
      BY <2>1 DEF Errs, SendNotification, Enter
    <2>5. m.about = "empty"
      BY DEF Msg
    <2> HIDE DEF m
    <2>6. call'["session"].op = "send" /\ call'["session"].msg.about = "empty"
      BY <1>0, <2>4, <2>5
    <2>7. QED
      BY <2>3, <2>6 DEF ErrInv, Pending, IsTold
  <1>3. CASE Step /\ ~Session
    <2>1. /\ session = "failed" /\ History /\ cfg' = cfg
      BY <1>3 DEF Step, Turn, Main, Finishes, MainRest, Works, Counts, Logs, Sends, sessionVars
    <2>2. /\ \A x : Pending(x) \/ IsTold(x) => x = "empty"
          /\ ~Legacy /\ ~filled /\ close = "open" => Pending("empty") \/ IsTold("empty")
          /\ Legacy' = Legacy /\ (filled => filled') /\ (close' = "open" => close = "open")
      BY <1>3, <2>1, NoWayBack DEF ErrInv, Legacy
    <2>3. CASE ~MessageQueued
      <3>1. told' = told
        BY <2>1, <2>3 DEF History
      <3>2. \A x : IsTold(x)' <=> IsTold(x)
        BY <3>1 DEF IsTold
      <3>3. CASE \/ call'["session"] = call["session"]
                 \/ call["session"].op # "send" /\ call'["session"].op # "send"
        <4>1. \A x : Pending(x)' <=> Pending(x)
          BY <3>3 DEF Pending
        <4>2. QED
          BY <2>2, <3>2, <4>1 DEF ErrInv
      <3>4. CASE Sends("session") /\ call["session"].op = "send"
        <4>1. \/ call' = call \/ call' = [call EXCEPT !["session"] = Idle]
              \/ \E s : call' = [call EXCEPT !["session"].step = s]
          BY <3>4 DEF Sends, Sender, FireLocks, Put, FoundFull, LooksForWorker, Drops, Return, batchVars
        <4>2. CASE call'["session"].op = "send"
          <5>1. call'["session"].msg = call["session"].msg
            BY <1>0, <4>1, <4>2 DEF Idle
          <5>2. \A x : Pending(x)' <=> Pending(x)
            BY <3>4, <4>2, <5>1 DEF Pending
          <5>3. QED
            BY <2>2, <3>2, <5>2 DEF ErrInv
        <4>3. CASE call'["session"].op # "send"
          <5>1. filled \/ IsEmpty(call["session"].msg, Legacy)
            BY <2>3, <3>4, <4>3, NotQueued
          <5>2. call["session"].msg.about = "empty"
            BY <2>2, <3>4 DEF Pending
          <5>3. filled \/ Legacy
            BY <5>1, <5>2 DEF IsEmpty
          <5>4. \A x : ~Pending(x)'
            BY <4>3 DEF Pending
          <5>5. QED
            BY <2>2, <3>2, <5>3, <5>4 DEF ErrInv
        <4>4. QED
          BY <4>2, <4>3
      <3>5. QED
        BY <1>3, <3>3, <3>4, OthersMove
    <2>4. CASE MessageQueued
      <3>1. call["session"].op = "send" /\ call'["session"].op # "send"
        BY <2>4 DEF MessageQueued, Returned, Idle
      <3>2. call["session"].msg.about = "empty" /\ "empty" \in Subjects
        BY <2>2, <3>1, FlowAssumption DEF Pending
      <3>3. told' = Append(told, "empty")
        BY <2>1, <2>4, <3>2 DEF History
      <3>4. /\ \A i : i \in DOMAIN told' <=> i \in DOMAIN told \/ i = Len(told) + 1
            /\ \A i \in DOMAIN told : told'[i] = told[i] /\ i # Len(told) + 1
            /\ told'[Len(told) + 1] = "empty"
        BY <1>0, <3>2, <3>3, AppendIs
      <3>5. IsTold("empty")' /\ \A x : IsTold(x)' => IsTold(x) \/ x = "empty"
        BY <3>4 DEF IsTold
      <3>6. \A x : ~Pending(x)'
        BY <3>1 DEF Pending
      <3>7. QED
        BY <2>2, <3>5, <3>6 DEF ErrInv
    <2>5. QED
      BY <2>3, <2>4
  <1>4. QED
    BY <1>1, <1>2, <1>3 DEF Next, Over

(***************************************************************************)
(* A session that ends with a report has told of every container it        *)
(* updated, restarted or only monitored, and of none twice; one whose      *)
(* update returned an error has sent an empty report and nothing else, so  *)
(* that it names no container, replaced or not.  This is so whatever was   *)
(* logged, sent and counted meanwhile, unless the queue was full or the    *)
(* notifier closing, the level was errors or a template had nothing to     *)
(* print (RunUpdatesWithNotifications, handleUpdateResult and              *)
(* sendNotifications of actions.go, sendEntries of shoutrrr.go).           *)
(***************************************************************************)
THEOREM SessionsTellTheirNews == Spec => []NewsIsTold
  <1>1. Init => TellInv /\ ErrInv
    BY FlowAssumption
       DEF Init, NotifierInit, TellInv, OnceInv, AllInv, ErrInv, ToTell, Pending, IsTold, Idle
  <1>2. FlowInv /\ TellInv /\ ErrInv => NewsIsTold
    <2> SUFFICES ASSUME FlowInv, TellInv, ErrInv, Returned("session"), ~filled, close = "open"
                 PROVE  NewsIsTold
      BY DEF NewsIsTold
    <2>1. \A x : ~Pending(x)
      BY DEF Pending, Returned, Idle
    <2>2. \A i, j \in DOMAIN told : told[i] = told[j] => i = j
      BY DEF TellInv, OnceInv
    <2>3. ASSUME session = "ended", ~cfg.errorsOnly, ~Mute,
                 NEW c \in With("updated") \cup With("restarted") \cup With("monitored")
          PROVE  \E i \in DOMAIN told : told[i] \in {c, "report"}
      <3>1. c \in Containers /\ Newsworthy(c)
        BY DEF With, Newsworthy
      <3>2. \A x : ~ToTell(x)
        BY <2>3 DEF FlowInv, TypeOK, ToTell
      <3>3. \E x \in {c, "report"} : IsTold(x)
        BY <2>1, <2>3, <3>1, <3>2 DEF TellInv, AllInv
      <3>4. QED
        BY <3>3 DEF IsTold
    <2>4. ASSUME session = "failed"
          PROVE  told = <<"empty">> \/ (Legacy /\ told = <<>>)
      <3>1. \A i \in DOMAIN told : told[i] = "empty"
        BY <2>4 DEF ErrInv, IsTold
      <3>2. told \in Seq(Subjects) /\ \A i, j \in DOMAIN told : i = j
        BY <2>2, <3>1 DEF FlowInv, TypeOK
      <3>3. told = <<>> \/ told = <<"empty">>
        <4>1. Len(told) \in Nat /\ (Len(told) >= 2 => 1 \in DOMAIN told /\ 2 \in DOMAIN told)
          BY <3>2
        <4>2. Len(told) = 0 \/ Len(told) = 1
          <5>1. ~(Len(told) >= 2)
            <6>1. SUFFICES ASSUME Len(told) >= 2
                           PROVE  FALSE
              OBVIOUS
            <6>2. 1 \in DOMAIN told /\ 2 \in DOMAIN told
              BY <4>1, <6>1
            <6>3. 1 = 2
              BY <3>2, <6>2
            <6>4. QED
              BY <6>3
          <5>2. \A n \in Nat : n = 0 \/ n = 1 \/ n >= 2
            OBVIOUS
          <5>3. QED
            BY <4>1, <5>1, <5>2
        <4>3. CASE Len(told) = 1
          BY <3>1, <3>2, <4>3
        <4>4. CASE Len(told) = 0
          BY <3>2, <4>4
        <4>5. QED
          BY <4>2, <4>3, <4>4
      <3>4. Legacy \/ told # <<>>
        BY <2>1, <2>4 DEF ErrInv, IsTold
      <3>5. QED
        BY <3>3, <3>4
    <2>5. QED
      BY <2>2, <2>3, <2>4 DEF NewsIsTold, Mute
  <1>3. KeptInv => CallsInv
    BY DEF KeptInv
  <1>4. QED
    BY <1>1, <1>2, <1>3, FirstFlow, FirstKept, NextFlows, NextMetrics, NextKept, NextTells, NextErrs, PTL
       DEF Spec
=============================================================================
