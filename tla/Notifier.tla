------------------------------ MODULE Notifier ------------------------------
(***************************************************************************)
(* The notifier (pkg/notifications/shoutrrr.go): log entries are collected *)
(* in a batch or sent at once, messages wait in a bounded channel for one  *)
(* worker, and Close stops the worker and closes the channel.  The callers *)
(* are the goroutines that log, run sessions and shut down; every step     *)
(* that another goroutine can come between is a step here.                 *)
(*                                                                         *)
(* The context of the notifier is cancelled at the end of Close only, when *)
(* the worker is over, so its branches of the worker's selects are left    *)
(* out: nothing can take them.                                             *)
(***************************************************************************)
EXTENDS Naturals, Sequences, FiniteSets

CONSTANTS
    Callers,   \* goroutines that call the notifier
    Free,      \* nobody: the mutex is free, no message is being sent
    Entries,   \* the log entries there will be
    Subjects,  \* what a message can report on, "log" for nothing
    Cap        \* messageChannelBufferSize

(* made: entries are composed for the message, not taken from the log;     *)
(* late: it was queued when Close had begun.                               *)
Message == [lines : SUBSET Entries, about : Subjects, made : BOOLEAN, late : BOOLEAN]

ASSUME NotifierAssumption ==
    /\ Free \notin Callers \cup Message
    /\ "log" \in Subjects
    /\ Cap \in Nat \ {0}

Calls   == {"none", "start", "fire", "send"}
Steps   == {"none", "lock", "put", "full", "look"}
Workers == {"idle", "sending", "draining", "flushing", "over"}
Closing == {"open", "closed", "stopped", "over", "shut"}

VARIABLES
    batching,   \* entries is not nil
    batch,      \* the entries collected
    mutex,      \* who holds entriesMutex
    call,       \* the call each caller is in
    queue,      \* the messages channel
    worker,     \* where the worker is
    inHand,     \* the message it sends
    done,       \* its signal that it is over lies in the done channel
    close,      \* how far Close has come
    panicked,   \* a goroutine has sent on the closed channel
    delivered,  \* the entries handed to the router
    lost,       \* the entries that never will be
    filled,     \* the queue has refused a message
    stolen      \* a sender has taken the worker's signal

batchVars  == <<batching, batch, mutex>>
workerVars == <<queue, worker, inHand, done, delivered>>
lossVars   == <<lost, filled, stolen>>
notifierVars == <<batchVars, workerVars, lossVars, call, close, panicked>>

Msg(lines, about) == [lines |-> lines, about |-> about, made |-> FALSE, late |-> FALSE]
Idle == [op |-> "none", step |-> "none", msg |-> Msg({}, "log")]
Closed == close # "open"

(* A message is empty without a report and without entries; the templates  *)
(* of legacy mode print entries only.                                      *)
IsEmpty(msg, legacy) == msg.lines = {} /\ ~msg.made /\ (legacy \/ msg.about = "log")

NotifierTypeOK ==
    /\ batching \in BOOLEAN /\ batch \subseteq Entries /\ (~batching => batch = {})
    /\ mutex \in Callers \cup {Free}
    /\ call \in [Callers -> [op : Calls, step : Steps, msg : Message]]
    /\ \A p \in Callers : mutex = p => call[p].op \in {"start", "fire"}
    /\ queue \in Seq(Message) /\ Len(queue) <= Cap
    /\ worker \in Workers /\ done \in BOOLEAN /\ (done => worker = "over")
    /\ inHand \in Message \cup {Free}
    /\ inHand # Free <=> worker \in {"sending", "flushing"}
    /\ close \in Closing /\ (close \in {"over", "shut"} => worker = "over")
    /\ delivered \subseteq Entries /\ lost \subseteq Entries
    /\ panicked \in BOOLEAN /\ filled \in BOOLEAN /\ stolen \in BOOLEAN

NotifierInit ==
    /\ batching = TRUE /\ batch = {} /\ mutex = Free
    /\ call = [p \in Callers |-> Idle]
    /\ queue = <<>> /\ worker = "idle" /\ inHand = Free /\ done = FALSE
    /\ close = "open" /\ panicked = FALSE
    /\ delivered = {} /\ lost = {} /\ filled = FALSE /\ stolen = FALSE

-----------------------------------------------------------------------------
(* The calls. *)

Enter(p, op, step, msg) ==
    call' = [call EXCEPT ![p] = [op |-> op, step |-> step, msg |-> msg]]

Quiet == UNCHANGED <<workerVars, close, panicked>>

(* StartNotification sends what is queued, unless suppressed, and begins   *)
(* an empty batch, all under the mutex.                                    *)
StartNotification(p, suppress) ==
    /\ mutex = Free
    /\ IF batch # {} /\ ~suppress
         THEN /\ mutex' = p /\ Enter(p, "start", "put", Msg(batch, "log"))
              /\ UNCHANGED <<batching, batch, lossVars>>
         ELSE /\ batching' = TRUE /\ batch' = {} /\ lost' = lost \cup batch
              /\ UNCHANGED <<mutex, call, filled, stolen>>
    /\ Quiet

(* A batch that is copied and not cleared. *)
SendNotificationKeeps(p, about) ==
    /\ mutex = Free
    /\ Enter(p, "send", "put", Msg(batch, about))
    /\ UNCHANGED <<batchVars, lossVars>> /\ Quiet

(* SendNotification empties the batch under the mutex and sends after it. *)
SendNotification(p, about) ==
    /\ mutex = Free
    /\ Enter(p, "send", "put", Msg(batch, about))
    /\ batching' = FALSE /\ batch' = {}
    /\ UNCHANGED <<mutex, lossVars>> /\ Quiet

SendFilteredEntries(p, about) ==
    /\ Enter(p, "send", "put", [Msg({}, about) EXCEPT !.made = TRUE])
    /\ UNCHANGED <<batchVars, lossVars>> /\ Quiet

(* Fire looks at closed first and takes the mutex later. *)
Fire(p, e) ==
    /\ IF Closed THEN lost' = lost \cup {e} /\ UNCHANGED call
       ELSE Enter(p, "fire", "lock", Msg({e}, "log")) /\ UNCHANGED lost
    /\ UNCHANGED <<batchVars, filled, stolen>> /\ Quiet

FireLocks(p) ==
    /\ call[p].op = "fire" /\ call[p].step = "lock" /\ mutex = Free
    /\ IF batching
         THEN /\ batch' = batch \cup call[p].msg.lines
              /\ call' = [call EXCEPT ![p] = Idle] /\ UNCHANGED mutex
         ELSE mutex' = p /\ call' = [call EXCEPT ![p].step = "put"] /\ UNCHANGED batch
    /\ UNCHANGED <<batching, lossVars>> /\ Quiet

-----------------------------------------------------------------------------
(* sendEntries: a send that does not block, and what follows when it fails. *)

(* A StartNotification that leaves what it has sent in the batch. *)
ReturnKeeps(p) ==
    /\ call' = [call EXCEPT ![p] = Idle]
    /\ mutex' = IF mutex = p THEN Free ELSE mutex
    /\ batching' = (batching \/ call[p].op = "start") /\ UNCHANGED batch

(* The call returns; StartNotification resets the batch on its way out. *)
Return(p) ==
    /\ call' = [call EXCEPT ![p] = Idle]
    /\ mutex' = IF mutex = p THEN Free ELSE mutex
    /\ IF call[p].op = "start" THEN batching' = TRUE /\ batch' = {}
       ELSE UNCHANGED <<batching, batch>>

Put(p, legacy) ==
    /\ call[p].step = "put"
    /\ \/ /\ IsEmpty(call[p].msg, legacy)
          /\ Return(p) /\ UNCHANGED <<queue, filled, panicked>>
       \/ /\ ~IsEmpty(call[p].msg, legacy) /\ close = "shut"
          /\ panicked' = TRUE /\ UNCHANGED <<batchVars, call, queue, filled>>
       \/ /\ ~IsEmpty(call[p].msg, legacy) /\ close # "shut" /\ Len(queue) < Cap
          /\ queue' = Append(queue, [call[p].msg EXCEPT !.late = Closed])
          /\ Return(p) /\ UNCHANGED <<filled, panicked>>
       \/ /\ ~IsEmpty(call[p].msg, legacy) /\ close # "shut" /\ Len(queue) = Cap
          /\ call' = [call EXCEPT ![p].step = "full"] /\ filled' = TRUE
          /\ UNCHANGED <<batchVars, queue, panicked>>
    /\ UNCHANGED <<worker, inHand, done, delivered, close, lost, stolen>>

Drops(p) == Return(p) /\ lost' = lost \cup call[p].msg.lines

FoundFull(p) ==
    /\ call[p].step = "full"
    /\ IF Closed THEN Drops(p)
       ELSE call' = [call EXCEPT ![p].step = "look"] /\ UNCHANGED <<batchVars, lost>>
    /\ UNCHANGED <<workerVars, close, panicked, filled, stolen>>

(* The look at the done channel takes the signal out of it. *)
LooksForWorker(p) ==
    /\ call[p].step = "look"
    /\ Drops(p)
    /\ done' = FALSE /\ stolen' = (stolen \/ done)
    /\ UNCHANGED <<queue, worker, inHand, delivered, close, panicked, filled>>

Sender(p, legacy) == FireLocks(p) \/ Put(p, legacy) \/ FoundFull(p) \/ LooksForWorker(p)

-----------------------------------------------------------------------------
(* The worker, and Close. *)

WorkerRest == UNCHANGED <<batchVars, lossVars, call, close, panicked>>

(* The delay before a message lies between Take and Deliver. *)
Take(to) ==
    /\ queue # <<>>
    /\ inHand' = Head(queue) /\ queue' = Tail(queue) /\ worker' = to
    /\ UNCHANGED <<done, delivered>>

Stopped == close \in {"stopped", "over", "shut"}

(* A worker that is over as soon as it is told to stop. *)
WorkerStopsAtOnce ==
    /\ worker = "idle" /\ Stopped
    /\ worker' = "over" /\ done' = TRUE
    /\ UNCHANGED <<queue, inHand, delivered>>

WorkerStops ==
    /\ worker = "idle" /\ Stopped
    /\ worker' = "draining"
    /\ UNCHANGED <<queue, inHand, done, delivered>>

WorkerTakes  == worker = "idle" /\ Take("sending")
WorkerDrains == worker = "draining" /\ Take("flushing")

Deliver ==
    /\ worker \in {"sending", "flushing"}
    /\ delivered' = delivered \cup inHand.lines
    /\ inHand' = Free
    /\ worker' = IF worker = "sending" THEN "idle" ELSE "draining"
    /\ UNCHANGED <<queue, done>>

WorkerEndsQuietly ==
    /\ worker = "draining" /\ queue = <<>>
    /\ worker' = "over" /\ UNCHANGED done
    /\ UNCHANGED <<queue, inHand, delivered>>

WorkerEnds ==
    /\ worker = "draining" /\ queue = <<>>
    /\ worker' = "over" /\ done' = TRUE
    /\ UNCHANGED <<queue, inHand, delivered>>

Worker ==
    /\ WorkerStops \/ WorkerTakes \/ WorkerDrains \/ Deliver \/ WorkerEnds
    /\ WorkerRest

(* closed, close(stop), <-done, close(messages). *)
CloseStep ==
    /\ \/ close = "open" /\ close' = "closed" /\ UNCHANGED done
       \/ close = "closed" /\ close' = "stopped" /\ UNCHANGED done
       \/ close = "stopped" /\ done /\ done' = FALSE /\ close' = "over"
       \/ close = "over" /\ close' = "shut" /\ UNCHANGED done
    /\ UNCHANGED <<batchVars, lossVars, call, panicked, queue, worker, inHand, delivered>>
=============================================================================
