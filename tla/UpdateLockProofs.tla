-------------------------- MODULE UpdateLockProofs --------------------------
(***************************************************************************)
(* The safety properties of UpdateLock, for every set of requests and      *)
(* every setting.  The invariant behind them is LockInv, which relates the *)
(* token, the queue of blocked receivers and the program counters.         *)
(***************************************************************************)
EXTENDS UpdateLock, TLAPS

Holding == {"running", "onstart", "handing"}
Neutral == {"api", "schedule", "serve", "drain", "close", "exit",
            "idle", "locking", "answered"}

(* The token is in one place, and the queue lists exactly the waiting ones. *)
LockInv ==
    /\ \A p, q \in Procs : Holds(p) /\ Holds(q) => p = q
    /\ token => queue = <<>> /\ \A p \in Procs : ~Holds(p)
    /\ token \/ \E p \in Procs : Holds(p)
    /\ \A p \in Procs : pc[p] = "waiting" => \E i \in 1 .. Len(queue) : queue[i] = p
    /\ \A i \in 1 .. Len(queue) : pc[queue[i]] = "waiting"
    /\ \A i, j \in 1 .. Len(queue) : queue[i] = queue[j] => i = j

(* What the five ways to move a goroutine need to know of the state. *)
LockTypes ==
    /\ token \in BOOLEAN
    /\ queue \in Seq(Procs)
    /\ pc \in [Procs -> MainStates \cup JobStates \cup RequestStates]
    /\ pc[Main] \in MainStates /\ pc[Job] \in JobStates
    /\ \A r \in Requests : pc[r] \in RequestStates

-----------------------------------------------------------------------------
(* The channel operations keep LockInv. *)

LEMMA Stutters ==
    ASSUME LockInv, UNCHANGED <<lockVars, pc>>
    PROVE  LockInv'
  BY DEF LockInv, lockVars, Holds

LEMMA GotoKeeps ==
    ASSUME LockTypes, LockInv, NEW p \in Procs, NEW state \in Neutral,
           pc[p] \in Neutral, Goto(p, state), UNCHANGED lockVars
    PROVE  LockInv'
  BY DEF LockInv, LockTypes, lockVars, Holds, Goto, Neutral

LEMMA TakeKeeps ==
    ASSUME LockTypes, LockInv, NEW p \in Procs, NEW state \in Holding,
           pc[p] \in Neutral, Take(p, state)
    PROVE  LockInv'
  BY DEF LockInv, LockTypes, Holds, Take, Goto, Neutral, Holding

LEMMA BlockKeeps ==
    ASSUME LockTypes, LockInv, NEW p \in Procs, pc[p] \in Neutral, Block(p)
    PROVE  LockInv'
  <1>1. /\ pc' = [pc EXCEPT ![p] = "waiting"]
        /\ queue' = Append(queue, p)
        /\ ~token /\ ~token'
    BY DEF Block, Goto, LockTypes
  <1>2. /\ Len(queue') = Len(queue) + 1
        /\ \A i \in 1 .. Len(queue) : queue'[i] = queue[i] /\ queue[i] \in Procs
        /\ queue'[Len(queue) + 1] = p
        /\ Len(queue) \in Nat
    BY <1>1 DEF LockTypes
  <1>3. \A i \in 1 .. Len(queue) : queue[i] # p
    BY DEF LockInv, Neutral
  <1>4. QED
    BY <1>1, <1>2, <1>3 DEF LockInv, LockTypes, Holds, Neutral

(* What Head and Tail do to a sequence that is not empty. *)
LEMMA TailShifts ==
    ASSUME NEW S, NEW s \in Seq(S), s # <<>>
    PROVE  /\ Len(s) \in Nat /\ 1 \in 1 .. Len(s)
           /\ Head(s) = s[1] /\ Head(s) \in S
           /\ Len(Tail(s)) = Len(s) - 1
           /\ \A i \in 1 .. Len(s) - 1 : Tail(s)[i] = s[i + 1] /\ i + 1 \in 1 .. Len(s)
           /\ \A i \in 1 .. Len(s) : s[i] \in S
  <1>1. Len(s) \in Nat /\ 1 \in 1 .. Len(s)
    OBVIOUS
  <1>2. \A i \in 1 .. Len(s) : s[i] \in S
    OBVIOUS
  <1>3. Head(s) = s[1] /\ Head(s) \in S
    BY <1>1, <1>2
  <1>4. /\ Len(Tail(s)) = Len(s) - 1
        /\ \A i \in 1 .. Len(s) - 1 : Tail(s)[i] = s[i + 1]
    BY <1>1
  <1>5. \A i \in 1 .. Len(s) - 1 : i + 1 \in 1 .. Len(s)
    BY <1>1
  <1>6. QED
    BY <1>1, <1>2, <1>3, <1>4, <1>5

LEMMA GiveKeeps ==
    ASSUME LockTypes, LockInv, NEW p \in Procs, NEW state \in Neutral,
           Holds(p), Give(p, state)
    PROVE  LockInv'
  <1>1. CASE queue = <<>>
    BY <1>1 DEF LockInv, LockTypes, Give, Goto, Holds, Neutral
  <1>2. CASE queue # <<>>
    <2> DEFINE h == Head(queue)
    <2>1. /\ Len(queue) \in Nat /\ 1 \in 1 .. Len(queue)
          /\ h = queue[1] /\ h \in Procs
          /\ queue' = Tail(queue)
          /\ Len(queue') = Len(queue) - 1
          /\ \A i \in 1 .. Len(queue') :
                queue'[i] = queue[i + 1] /\ i + 1 \in 1 .. Len(queue)
          /\ \A i \in 1 .. Len(queue) : queue[i] \in Procs
      <3>1. queue' = Tail(queue)
        BY <1>2 DEF Give
      <3>2. queue \in Seq(Procs)
        BY DEF LockTypes
      <3>3. QED
        BY <3>1, <1>2, <3>2, TailShifts
    <2>2. /\ pc' = [pc EXCEPT ![p] = state, ![h] = Granted(h)]
          /\ UNCHANGED token
      BY <1>2 DEF Give
    <2>3. pc[h] = "waiting" /\ h # p
      BY <2>1 DEF LockInv, Holds
    <2>4. /\ pc'[h] = Granted(h) /\ pc'[p] = state
          /\ \A q \in Procs \ {h, p} : pc'[q] = pc[q]
      BY <2>1, <2>2, <2>3 DEF LockTypes
    <2>5. Granted(h) \in Holding
      BY DEF Granted, Holding
    <2>6. ~token /\ ~token'
      BY <2>2 DEF LockInv, LockTypes
    <2>7. \A q \in Procs : pc'[q] \in Holding => q = h
      BY <2>4 DEF LockInv, Holds, Holding, Neutral
    <2>8. pc'[h] \in Holding
      BY <2>4, <2>5
    <2>9. ASSUME NEW i \in 1 .. Len(queue')
          PROVE  queue'[i] \in Procs \ {h, p} /\ pc'[queue'[i]] = "waiting"
      <3>1. queue'[i] = queue[i + 1] /\ i + 1 \in 1 .. Len(queue) /\ i + 1 # 1
        BY <2>1
      <3>2. pc[queue[i + 1]] = "waiting" /\ queue[i + 1] \in Procs
        BY <3>1, <2>1 DEF LockInv
      <3>3. queue[i + 1] # p
        BY <3>2 DEF Holds
      <3>4. queue[i + 1] # h
        BY <3>1, <2>1 DEF LockInv
      <3>5. QED
        BY <3>1, <3>2, <3>3, <3>4, <2>4
    <2>10. ASSUME NEW q \in Procs, pc'[q] = "waiting"
           PROVE  \E i \in 1 .. Len(queue') : queue'[i] = q
      <3>1. q \notin {h, p} /\ pc[q] = "waiting"
        BY <2>4, <2>5, <2>10 DEF Neutral, Holding
      <3>2. PICK i \in 1 .. Len(queue) : queue[i] = q
        BY <3>1 DEF LockInv
      <3>3. i # 1
        BY <3>1, <3>2, <2>1
      <3>4. i - 1 \in 1 .. Len(queue') /\ queue'[i - 1] = queue[i]
        BY <3>3, <2>1
      <3>5. QED
        BY <3>2, <3>4
    <2>11. \A i, j \in 1 .. Len(queue') : queue'[i] = queue'[j] => i = j
      BY <2>1 DEF LockInv
    <2>12. /\ \A q, r \in Procs : pc'[q] \in Holding /\ pc'[r] \in Holding => q = r
           /\ \E q \in Procs : pc'[q] \in Holding
      BY <2>1, <2>7, <2>8
    <2>13. \A i \in 1 .. Len(queue') : pc'[queue'[i]] = "waiting"
      BY <2>9
    <2>14. QED
      BY <2>6, <2>10, <2>11, <2>12, <2>13 DEF LockInv, Holds, Holding
  <1>3. QED
    BY <1>1, <1>2

(* The queue without its i-th member. *)
LEMMA LeaveQueue ==
    ASSUME LockTypes, LockInv, NEW p \in Procs, NEW state, Leave(p, state)
    PROVE  \E i \in 1 .. Len(queue) :
              /\ queue[i] = p
              /\ queue' \in Seq(Procs)
              /\ Len(queue) \in Nat
              /\ Len(queue') = Len(queue) - 1
              /\ \A j \in 1 .. Len(queue') :
                    queue'[j] = IF j < i THEN queue[j] ELSE queue[j + 1]
  <1>1. PICK i \in 1 .. Len(queue) :
           /\ queue[i] = p
           /\ queue' = [j \in 1 .. Len(queue) - 1 |->
                           IF j < i THEN queue[j] ELSE queue[j + 1]]
    BY DEF Leave
  <1> DEFINE n == Len(queue) - 1
  <1>2. n \in Nat /\ Len(queue) \in Nat
    BY <1>1 DEF LockTypes
  <1>3. \A j \in 1 .. n : (IF j < i THEN queue[j] ELSE queue[j + 1]) \in Procs
    BY <1>2 DEF LockTypes
  <1>4. queue' \in [1 .. n -> Procs]
    BY <1>1, <1>3
  <1>5. queue' \in Seq(Procs) /\ Len(queue') = n
    BY <1>2, <1>4
  <1>6. QED
    BY <1>1, <1>2, <1>5

LEMMA LeaveKeeps ==
    ASSUME LockTypes, LockInv, NEW p \in Procs, NEW state \in Neutral,
           pc[p] = "waiting", Leave(p, state)
    PROVE  LockInv'
  <1>1. PICK i \in 1 .. Len(queue) :
           /\ queue[i] = p
           /\ queue' \in Seq(Procs)
           /\ Len(queue) \in Nat
           /\ Len(queue') = Len(queue) - 1
           /\ \A j \in 1 .. Len(queue') :
                 queue'[j] = IF j < i THEN queue[j] ELSE queue[j + 1]
    BY LeaveQueue
  <1>2. /\ pc' = [pc EXCEPT ![p] = state]
        /\ UNCHANGED token
    BY DEF Leave, Goto
  <1>3. pc'[p] = state /\ \A q \in Procs \ {p} : pc'[q] = pc[q]
    BY <1>2 DEF LockTypes
  <1>4. ~token /\ ~token'
    BY <1>1, <1>2 DEF LockInv, LockTypes
  <1>5. /\ \A q, r \in Procs : pc'[q] \in Holding /\ pc'[r] \in Holding => q = r
        /\ \E q \in Procs : pc'[q] \in Holding
    BY <1>3, <1>4 DEF LockInv, Holds, Holding, Neutral
  <1>6. \A j \in 1 .. Len(queue) : queue[j] \in Procs
    BY DEF LockTypes
  <1>7. \A j \in 1 .. Len(queue') :
           \E k \in 1 .. Len(queue) : k # i /\ queue'[j] = queue[k]
    BY <1>1
  <1>8. \A j \in 1 .. Len(queue') : pc'[queue'[j]] = "waiting"
    BY <1>1, <1>3, <1>6, <1>7 DEF LockInv
  <1>9. ASSUME NEW q \in Procs, pc'[q] = "waiting"
        PROVE  \E j \in 1 .. Len(queue') : queue'[j] = q
    <2>1. q # p /\ pc[q] = "waiting"
      BY <1>3, <1>9 DEF Neutral
    <2>2. PICK k \in 1 .. Len(queue) : queue[k] = q
      BY <2>1 DEF LockInv
    <2>3. k # i
      BY <2>1, <2>2, <1>1
    <2>4. CASE k < i
      BY <2>2, <2>4, <1>1
    <2>5. CASE k > i
      <3>1. k - 1 \in 1 .. Len(queue') /\ ~(k - 1 < i) /\ (k - 1) + 1 = k
        BY <2>5, <1>1
      <3>2. queue'[k - 1] = queue[k]
        BY <3>1, <1>1
      <3>3. QED
        BY <3>1, <3>2, <2>2
    <2>6. QED
      BY <2>3, <2>4, <2>5, <1>1
  <1>10. ASSUME NEW j \in 1 .. Len(queue'), NEW k \in 1 .. Len(queue'),
                queue'[j] = queue'[k]
         PROVE  j = k
    <2>1. PICK a \in 1 .. Len(queue) : queue'[j] = queue[a] /\ a = IF j < i THEN j ELSE j + 1
      BY <1>1
    <2>2. PICK b \in 1 .. Len(queue) : queue'[k] = queue[b] /\ b = IF k < i THEN k ELSE k + 1
      BY <1>1
    <2>3. a = b
      BY <2>1, <2>2, <1>10 DEF LockInv
    <2>4. QED
      BY <2>1, <2>2, <2>3, <1>1
  <1>11. \A j, k \in 1 .. Len(queue') : queue'[j] = queue'[k] => j = k
    BY <1>10
  <1>12. \A q \in Procs : pc'[q] = "waiting" => \E j \in 1 .. Len(queue') : queue'[j] = q
    BY <1>9
  <1>13. QED
    BY <1>4, <1>5, <1>8, <1>11, <1>12 DEF LockInv, Holds, Holding

-----------------------------------------------------------------------------
(* The channel operations keep the types. *)

Suits(p, state) ==
    /\ p = Main => state \in MainStates
    /\ p = Job => state \in JobStates
    /\ p \in Requests => state \in RequestStates

LEMMA SuitableMove ==
    ASSUME LockTypes, NEW p \in Procs, NEW state, Suits(p, state),
           pc' = [pc EXCEPT ![p] = state], token' \in BOOLEAN, queue' \in Seq(Procs)
    PROVE  LockTypes'
  BY LockAssumption DEF LockTypes, Suits, Procs

LEMMA GrantedSuits ==
    ASSUME NEW p \in Procs
    PROVE  Suits(p, Granted(p))
  BY LockAssumption DEF Suits, Granted, MainStates, JobStates, RequestStates, Procs

LEMMA GotoTypes ==
    ASSUME LockTypes, NEW p \in Procs, NEW state, Suits(p, state),
           Goto(p, state), UNCHANGED lockVars
    PROVE  LockTypes'
  BY SuitableMove DEF LockTypes, Goto, lockVars

LEMMA TakeTypes ==
    ASSUME LockTypes, NEW p \in Procs, NEW state, Suits(p, state), Take(p, state)
    PROVE  LockTypes'
  BY SuitableMove DEF LockTypes, Goto, Take

LEMMA BlockTypes ==
    ASSUME LockTypes, NEW p \in Procs, Block(p)
    PROVE  LockTypes'
  <1>1. Suits(p, "waiting")
    BY DEF Suits, MainStates, JobStates, RequestStates
  <1>2. queue' \in Seq(Procs) /\ token' \in BOOLEAN
    BY DEF LockTypes, Block
  <1>3. QED
    BY <1>1, <1>2, SuitableMove DEF Goto, Block

LEMMA GiveTypes ==
    ASSUME LockTypes, LockInv, NEW p \in Procs, NEW state, Suits(p, state),
           Holds(p), Give(p, state)
    PROVE  LockTypes'
  <1>1. CASE queue = <<>>
    BY <1>1, SuitableMove DEF LockTypes, Give, Goto
  <1>2. CASE queue # <<>>
    <2>1. queue' \in Seq(Procs) /\ token' \in BOOLEAN /\ Head(queue) \in Procs
      BY <1>2 DEF LockTypes, Give
    <2>2. pc' = [pc EXCEPT ![p] = state, ![Head(queue)] = Granted(Head(queue))]
      BY <1>2 DEF Give
    <2>3. Suits(Head(queue), Granted(Head(queue)))
      BY <2>1, GrantedSuits
    <2>4. QED
      BY <2>1, <2>2, <2>3, LockAssumption DEF LockTypes, Suits, Procs
  <1>3. QED
    BY <1>1, <1>2

LEMMA LeaveTypes ==
    ASSUME LockTypes, LockInv, NEW p \in Procs, NEW state, Suits(p, state),
           Leave(p, state)
    PROVE  LockTypes'
  <1>1. queue' \in Seq(Procs)
    BY LeaveQueue
  <1>2. QED
    BY <1>1, SuitableMove DEF LockTypes, Leave, Goto

-----------------------------------------------------------------------------
(* Every step moves one goroutine through one of those operations, or none. *)

Resting(p) == p \in Procs /\ pc[p] \in Neutral

Move ==
    \/ UNCHANGED <<lockVars, pc>>
    \/ \E p \in Procs :
          \/ /\ Resting(p)
             /\ \/ \E s \in Neutral : Suits(p, s) /\ Goto(p, s) /\ UNCHANGED lockVars
                \/ \E s \in Holding : Suits(p, s) /\ Take(p, s)
                \/ Block(p)
          \/ Holds(p) /\ \E s \in Neutral : Suits(p, s) /\ Give(p, s)
          \/ pc[p] = "waiting" /\ \E s \in Neutral : Suits(p, s) /\ Leave(p, s)

LEMMA MoveKeeps ==
    ASSUME LockTypes, LockInv, Move
    PROVE  LockTypes' /\ LockInv'
  <1>1. CASE UNCHANGED <<lockVars, pc>>
    BY <1>1, Stutters DEF LockTypes, lockVars
  <1>2. ASSUME NEW p \in Procs, Resting(p), NEW s \in Neutral,
               Suits(p, s), Goto(p, s), UNCHANGED lockVars
        PROVE  LockTypes' /\ LockInv'
    BY <1>2, GotoKeeps, GotoTypes DEF Resting
  <1>3. ASSUME NEW p \in Procs, Resting(p), NEW s \in Holding, Suits(p, s), Take(p, s)
        PROVE  LockTypes' /\ LockInv'
    BY <1>3, TakeKeeps, TakeTypes DEF Resting
  <1>4. ASSUME NEW p \in Procs, Resting(p), Block(p)
        PROVE  LockTypes' /\ LockInv'
    BY <1>4, BlockKeeps, BlockTypes DEF Resting
  <1>5. ASSUME NEW p \in Procs, Holds(p), NEW s \in Neutral, Suits(p, s), Give(p, s)
        PROVE  LockTypes' /\ LockInv'
    BY <1>5, GiveKeeps, GiveTypes
  <1>6. ASSUME NEW p \in Procs, pc[p] = "waiting", NEW s \in Neutral,
               Suits(p, s), Leave(p, s)
        PROVE  LockTypes' /\ LockInv'
    BY <1>6, LeaveKeeps, LeaveTypes
  <1>7. QED
    BY <1>1, <1>2, <1>3, <1>4, <1>5, <1>6 DEF Move

LEMMA MainMoves ==
    ASSUME LockTypes, MainStep \/ EndOnStart
    PROVE  Move
  <1> USE LockAssumption DEF Move, Resting, Neutral, Holding, Suits, MainStates, Procs
  <1>1. CASE StartAPI
    BY <1>1 DEF StartAPI
  <1>2. CASE LeaveAPI
    BY <1>2 DEF LeaveAPI
  <1>3. CASE StartSchedule
    BY <1>3 DEF StartSchedule
  <1>4. CASE StopScheduler
    BY <1>4 DEF StopScheduler
  <1>5. CASE Drain
    BY <1>5 DEF Drain
  <1>6. CASE StopWaiting
    BY <1>6 DEF StopWaiting
  <1>7. CASE HandBack
    BY <1>7 DEF HandBack, Holds
  <1>8. CASE Exit
    BY <1>8 DEF Exit
  <1>9. CASE EndOnStart
    BY <1>9 DEF EndOnStart, Holds
  <1>10. QED
    BY <1>1, <1>2, <1>3, <1>4, <1>5, <1>6, <1>7, <1>8, <1>9 DEF MainStep

LEMMA JobMoves ==
    ASSUME LockTypes, Tick \/ JobLocks \/ JobEnds
    PROVE  Move
  <1> USE LockAssumption DEF Move, Resting, Neutral, Holding, Suits, JobStates, Procs
  <1>1. CASE Tick
    BY <1>1 DEF Tick
  <1>2. CASE JobLocks
    BY <1>2 DEF JobLocks
  <1>3. CASE JobEnds
    BY <1>3 DEF JobEnds, Holds
  <1>4. QED
    BY <1>1, <1>2, <1>3

LEMMA RequestMoves ==
    ASSUME LockTypes, NEW r \in Requests,
           Arrive(r) \/ Disconnect(r) \/ RequestStep(r) \/ RequestEnds(r)
    PROVE  Move
  <1> USE LockAssumption DEF Move, Resting, Neutral, Holding, Suits, RequestStates, Procs
  <1>1. CASE Arrive(r)
    BY <1>1 DEF Arrive
  <1>2. CASE Disconnect(r)
    BY <1>2 DEF Disconnect
  <1>3. CASE TryLock(r)
    BY <1>3 DEF TryLock
  <1>4. CASE WaitLock(r)
    BY <1>4 DEF WaitLock
  <1>5. CASE Withdraw(r)
    BY <1>5 DEF Withdraw
  <1>6. CASE RequestEnds(r)
    BY <1>6 DEF RequestEnds, Holds
  <1>7. QED
    BY <1>1, <1>2, <1>3, <1>4, <1>5, <1>6 DEF RequestStep

LEMMA NextMoves ==
    ASSUME LockTypes, [Next]_vars
    PROVE  Move
  <1>1. CASE Signal \/ CancelContext \/ StopListening \/ Exited \/ UNCHANGED vars
    BY <1>1 DEF Signal, CancelContext, StopListening, Exited, vars, Move, lockVars
  <1>2. CASE ListenerFails
    BY <1>2, LockAssumption
       DEF ListenerFails, Move, Resting, Neutral, Suits, MainStates, Procs
  <1>3. QED
    BY <1>1, <1>2, MainMoves, JobMoves, RequestMoves DEF Next

-----------------------------------------------------------------------------
(* The invariant of the specification. *)

IInv == TypeOK /\ LockInv

LEMMA InitIInv == Init => IInv
  <1> SUFFICES ASSUME Init
               PROVE  TypeOK /\ LockInv
    BY DEF IInv
  <1>1. TypeOK
    <2>1. cfg \in Settings /\ cfg.removed \in BOOLEAN
      BY LockAssumption DEF Init, Setting
    <2>2. /\ pc \in [Procs -> MainStates \cup JobStates \cup RequestStates]
          /\ pc[Main] \in MainStates /\ pc[Job] \in JobStates
          /\ \A r \in Requests : pc[r] \in RequestStates
      BY LockAssumption DEF Init, Procs, MainStates, JobStates, RequestStates
    <2>3. firstRun \in BOOLEAN
      BY <2>1 DEF Init
    <2>4. /\ queue \in Seq(Procs)
          /\ status \in [Requests -> {0, 200, 429, 500, 503}]
          /\ gone \subseteq Requests
      BY DEF Init
    <2>5. /\ token \in BOOLEAN /\ listening \in BOOLEAN
          /\ skipsSelf \in BOOLEAN /\ guarded \in BOOLEAN
          /\ signalled \in BOOLEAN /\ interrupted \in BOOLEAN /\ cancelled \in BOOLEAN
      BY DEF Init
    <2>6. QED
      BY <2>1, <2>2, <2>3, <2>4, <2>5 DEF TypeOK
  <1>2. LockInv
    BY LockAssumption DEF Init, LockInv, Holds
  <1>3. QED
    BY <1>1, <1>2

(* The variables that no channel operation changes. *)
LEMMA OtherTypes ==
    ASSUME TypeOK, [Next]_vars
    PROVE  /\ cfg' \in Settings
           /\ status' \in [Requests -> {0, 200, 429, 500, 503}]
           /\ listening' \in BOOLEAN
           /\ gone' \subseteq Requests
           /\ skipsSelf' \in BOOLEAN /\ firstRun' \in BOOLEAN /\ guarded' \in BOOLEAN
           /\ signalled' \in BOOLEAN /\ interrupted' \in BOOLEAN /\ cancelled' \in BOOLEAN
  <1>1. CASE Signal \/ CancelContext \/ StopListening \/ ListenerFails \/ Exited \/ UNCHANGED vars
    <2>1. /\ UNCHANGED <<cfg, jobVars, status, gone>>
          /\ signalled' \in {signalled, TRUE}
          /\ cancelled' \in {cancelled, TRUE}
          /\ listening' \in {listening, FALSE}
      BY <1>1 DEF Signal, CancelContext, StopListening, ListenerFails, Exited, vars,
                  httpVars, jobVars, signalVars
    <2>2. UNCHANGED interrupted \/ interrupted' = (pc[Main] = "serve")
      BY <1>1 DEF Signal, CancelContext, StopListening, ListenerFails, Exited, vars, signalVars
    <2>3. interrupted' \in BOOLEAN
      BY <2>2 DEF TypeOK
    <2>4. QED
      BY <2>1, <2>3 DEF TypeOK, jobVars
  <1>2. CASE MainStep \/ EndOnStart
    <2>1. /\ UNCHANGED <<cfg, jobVars, signalVars, status, gone>>
          /\ listening' \in {listening, TRUE}
      BY <1>2 DEF MainStep, StartAPI, LeaveAPI, StartSchedule, StopScheduler, Drain,
                  StopWaiting, HandBack, Exit, EndOnStart, httpVars
    <2>2. QED
      BY <2>1 DEF TypeOK, jobVars, signalVars
  <1>3. CASE Tick \/ JobLocks \/ JobEnds
    <2>1. /\ UNCHANGED <<cfg, httpVars, signalVars>>
          /\ skipsSelf' \in {skipsSelf, firstRun}
          /\ firstRun' \in {firstRun, FALSE}
          /\ UNCHANGED guarded \/ guarded' = (guarded \/ skipsSelf)
      BY <1>3 DEF Tick, JobLocks, JobEnds, jobVars
    <2>2. guarded' \in BOOLEAN
      BY <2>1 DEF TypeOK
    <2>3. QED
      BY <2>1, <2>2 DEF TypeOK, httpVars, signalVars
  <1>4. ASSUME NEW r \in Requests,
               Arrive(r) \/ Disconnect(r) \/ RequestStep(r) \/ RequestEnds(r)
        PROVE  /\ UNCHANGED <<cfg, jobVars, signalVars, listening>>
               /\ gone' \subseteq Requests
               /\ status' \in [Requests -> {0, 200, 429, 500, 503}]
    BY <1>4 DEF TypeOK, Arrive, Disconnect, RequestStep, TryLock, WaitLock, Withdraw,
                RequestEnds, SessionAnswer, Answer
  <1>5. QED
    BY <1>1, <1>2, <1>3, <1>4 DEF Next, TypeOK, jobVars, signalVars

LEMMA NextIInv == IInv /\ [Next]_vars => IInv'
  <1> SUFFICES ASSUME TypeOK, LockInv, [Next]_vars
               PROVE  TypeOK' /\ LockInv'
    BY DEF IInv
  <1>1. LockTypes
    BY DEF TypeOK, LockTypes
  <1>2. LockTypes' /\ LockInv'
    BY <1>1, NextMoves, MoveKeeps
  <1>3. TypeOK'
    BY <1>2, OtherTypes DEF TypeOK, LockTypes
  <1>4. QED
    BY <1>2, <1>3

LEMMA Invariance == Spec => []IInv
  BY InitIInv, NextIInv, PTL DEF Spec

(* The variables hold values of their types. *)
THEOREM Typing == Spec => []TypeOK
  <1>1. IInv => TypeOK
    BY DEF IInv
  <1>2. QED
    BY <1>1, Invariance, PTL

(* No two sessions overlap, and none runs while the token is in the channel. *)
THEOREM MutualExclusion == Spec => []OneSession
  <1>1. IInv => OneSession
    BY DEF IInv, LockInv, OneSession
  <1>2. QED
    BY <1>1, Invariance, PTL

(* Whoever took the token gives it back, on every path. *)
THEOREM TokenIsKept == Spec => []TokenKept
  <1>1. IInv => TokenKept
    BY DEF IInv, LockInv, TokenKept
  <1>2. QED
    BY <1>1, Invariance, PTL

(* A goroutine blocked on the channel is in its queue, and the queue is empty
   when the token is in the channel. *)
THEOREM NoLostWakeUp == Spec => []NoIdleWaiter
  <1>1. IInv => NoIdleWaiter
    <2> SUFFICES ASSUME IInv, token, NEW p \in Procs, pc[p] = "waiting"
                 PROVE  FALSE
      BY DEF NoIdleWaiter
    <2>1. queue = <<>>
      BY DEF IInv, LockInv
    <2>2. PICK i \in 1 .. Len(queue) : queue[i] = p
      BY DEF IInv, LockInv
    <2>3. QED
      BY <2>1, <2>2
  <1>2. QED
    BY <1>1, Invariance, PTL

(* A request is refused only while another goroutine has the token. *)
THEOREM RefusalIsJustified == Spec => RefusedOnlyWhenBusy
  <1>1. ASSUME IInv, [Next]_vars, NEW r \in Requests, status[r] = 0, status'[r] = 429
        PROVE  \E p \in Procs \ {r} : Holds(p)
    <2>1. pc[r] = "locking" /\ ~token
      <3>1. status \in [Requests -> {0, 200, 429, 500, 503}]
        BY <1>1 DEF IInv, TypeOK
      <3>2. CASE Signal \/ CancelContext \/ StopListening \/ ListenerFails \/ Exited
                  \/ UNCHANGED vars
        BY <3>2, <1>1 DEF Signal, CancelContext, StopListening, ListenerFails, Exited,
                          vars, httpVars
      <3>3. CASE MainStep \/ EndOnStart
        BY <3>3, <1>1 DEF MainStep, StartAPI, LeaveAPI, StartSchedule, StopScheduler, Drain,
                          StopWaiting, HandBack, Exit, EndOnStart, httpVars
      <3>4. CASE Tick \/ JobLocks \/ JobEnds
        BY <3>4, <1>1 DEF Tick, JobLocks, JobEnds, httpVars
      <3>5. ASSUME NEW q \in Requests,
                   Arrive(q) \/ Disconnect(q) \/ RequestStep(q) \/ RequestEnds(q)
            PROVE  pc[r] = "locking" /\ ~token
        BY <3>1, <3>5, <1>1 DEF Arrive, Disconnect, RequestStep, TryLock, WaitLock,
                                Withdraw, RequestEnds, SessionAnswer, Answer
      <3>6. QED
        BY <3>2, <3>3, <3>4, <3>5, <1>1 DEF Next
    <2>2. QED
      BY <2>1, <1>1 DEF IInv, LockInv, Holds
  <1>2. IInv /\ [Next]_vars =>
           [\A r \in Requests : status[r] = 0 /\ status'[r] = 429 =>
               \E p \in Procs \ {r} : Holds(p)]_vars
    BY <1>1
  <1>3. QED
    BY <1>2, Invariance, PTL DEF RefusedOnlyWhenBusy, Spec

-----------------------------------------------------------------------------
(***************************************************************************)
(* The self-update guard: until a session that skipped the self-update is  *)
(* over, either no scheduled session has begun or such a one is under way. *)
(***************************************************************************)
GuardInv ==
    cfg.removed =>
        /\ pc[Main] # "onstart"
        /\ firstRun => pc[Job] = "idle"
        /\ firstRun \/ guarded \/ (skipsSelf /\ pc[Job] # "idle")

(* A hand-over changes no other goroutine than the first of the queue. *)
LEMMA GiveOthers ==
    ASSUME LockTypes, LockInv, NEW p \in Procs, NEW s \in Neutral, Holds(p), Give(p, s),
           NEW q \in Procs, q # p
    PROVE  pc'[q] = pc[q] \/ (pc[q] = "waiting" /\ pc'[q] = Granted(q))
  <1>1. CASE queue = <<>>
    BY <1>1 DEF Give, Goto, LockTypes
  <1>2. CASE queue # <<>>
    <2>1. /\ pc' = [pc EXCEPT ![p] = s, ![Head(queue)] = Granted(Head(queue))]
          /\ Head(queue) = queue[1] /\ 1 \in 1 .. Len(queue) /\ queue[1] \in Procs
      BY <1>2 DEF Give, LockTypes
    <2>2. pc[queue[1]] = "waiting"
      BY <2>1 DEF LockInv
    <2>3. QED
      BY <2>1, <2>2 DEF LockTypes
  <1>3. QED
    BY <1>1, <1>2

(* Steps of main: the immediate update is not run after a removal. *)
LEMMA MainGuard ==
    ASSUME LockTypes, LockInv, GuardInv, MainStep \/ EndOnStart
    PROVE  GuardInv'
  <1>1. UNCHANGED <<cfg, jobVars>>
    BY DEF MainStep, StartAPI, LeaveAPI, StartSchedule, StopScheduler, Drain,
           StopWaiting, HandBack, Exit, EndOnStart
  <1>2. (pc'[Job] = "idle") <=> (pc[Job] = "idle")
    <2>1. CASE EndOnStart \/ HandBack
      BY <2>1, GiveOthers, LockAssumption
         DEF EndOnStart, HandBack, Holds, Neutral, Procs, Granted
    <2>2. CASE MainStep /\ ~HandBack
      BY <2>2, LockAssumption
         DEF MainStep, StartAPI, LeaveAPI, StartSchedule, StopScheduler, Drain, StopWaiting,
             Exit, Goto, Take, Block, Leave, LockTypes, Procs
    <2>3. QED
      BY <2>1, <2>2
  <1>3. cfg.removed => pc'[Main] # "onstart"
    <2>1. CASE EndOnStart \/ HandBack
      <3>1. PICK s \in {"serve", "close"} : Give(Main, s) /\ Holds(Main)
        BY <2>1 DEF EndOnStart, HandBack, Holds
      <3>2. pc'[Main] = s \/ pc'[Main] \in {"running", "handing"}
        BY <3>1, LockAssumption DEF Give, Goto, Granted, LockTypes, Procs
      <3>3. QED
        BY <3>2
    <2>2. CASE StartSchedule
      BY <2>2, LockAssumption
         DEF StartSchedule, UpdatesOnStart, Goto, LockTypes, Procs
    <2>3. CASE MainStep /\ ~HandBack /\ ~StartSchedule
      BY <2>3, LockAssumption
         DEF MainStep, StartAPI, LeaveAPI, StopScheduler, Drain, StopWaiting,
             Exit, Goto, Take, Block, Leave, LockTypes, Procs, GuardInv
    <2>4. QED
      BY <2>1, <2>2, <2>3
  <1>4. QED
    BY <1>1, <1>2, <1>3 DEF GuardInv, jobVars

(* Steps of the job: its first session after a removal skips the self-update. *)
LEMMA JobGuard ==
    ASSUME LockTypes, LockInv, GuardInv, Tick \/ JobLocks \/ JobEnds,
           firstRun \in BOOLEAN, guarded \in BOOLEAN, skipsSelf \in BOOLEAN
    PROVE  GuardInv'
  <1>1. UNCHANGED cfg
    BY DEF Tick, JobLocks, JobEnds
  <1>2. cfg.removed => pc'[Main] # "onstart"
    <2>1. CASE Tick \/ JobLocks
      BY <2>1, LockAssumption
         DEF GuardInv, Tick, JobLocks, Goto, Take, Block, LockTypes, Procs
    <2>2. CASE JobEnds
      <3>1. pc'[Main] = pc[Main] \/ pc'[Main] = Granted(Main)
        BY <2>2, GiveOthers, LockAssumption DEF JobEnds, Holds, Neutral, Procs
      <3>2. QED
        BY <3>1 DEF GuardInv, Granted
    <2>3. QED
      BY <2>1, <2>2
  <1>3. CASE Tick
    <2>1. pc[Job] = "idle" /\ pc'[Job] = "locking"
      BY <1>3 DEF Tick, Goto, LockTypes, Procs
    <2>2. skipsSelf' = firstRun /\ firstRun' = FALSE /\ guarded' = guarded
      BY <1>3 DEF Tick
    <2>3. QED
      BY <1>1, <1>2, <2>1, <2>2 DEF GuardInv
  <1>4. CASE JobLocks
    <2>1. pc[Job] = "locking" /\ pc'[Job] \in {"running", "waiting"}
      BY <1>4 DEF JobLocks, Take, Block, Goto, LockTypes, Procs
    <2>2. UNCHANGED jobVars
      BY <1>4 DEF JobLocks
    <2>3. QED
      BY <1>1, <1>2, <2>1, <2>2 DEF GuardInv, jobVars
  <1>5. CASE JobEnds
    <2>1. pc[Job] = "running" /\ firstRun' = firstRun /\ skipsSelf' = skipsSelf
      BY <1>5 DEF JobEnds
    <2>2. guarded' = (guarded \/ skipsSelf)
      BY <1>5 DEF JobEnds
    <2>3. cfg.removed => ~firstRun' /\ guarded'
      BY <2>1, <2>2 DEF GuardInv
    <2>4. QED
      BY <1>1, <1>2, <2>3 DEF GuardInv
  <1>6. QED
    BY <1>3, <1>4, <1>5

LEMMA RequestGuard ==
    ASSUME LockTypes, LockInv, GuardInv, NEW r \in Requests,
           Arrive(r) \/ Disconnect(r) \/ RequestStep(r) \/ RequestEnds(r)
    PROVE  GuardInv'
  <1>1. UNCHANGED <<cfg, jobVars>>
    BY DEF Arrive, Disconnect, RequestStep, TryLock, WaitLock, Withdraw, RequestEnds
  <1>2. ASSUME NEW q \in {Main, Job}
        PROVE  pc'[q] = pc[q] \/ (pc[q] = "waiting" /\ pc'[q] = Granted(q))
    <2>1. CASE RequestEnds(r)
      BY <2>1, GiveOthers, LockAssumption DEF RequestEnds, Holds, Neutral, Procs
    <2>2. CASE Arrive(r) \/ Disconnect(r) \/ RequestStep(r)
      BY <2>2, LockAssumption
         DEF Arrive, Disconnect, RequestStep, TryLock, WaitLock, Withdraw,
             Goto, Take, Block, Leave, LockTypes, Procs
    <2>3. QED
      BY <2>1, <2>2
  <1>3. QED
    BY <1>1, <1>2 DEF GuardInv, jobVars, Granted

LEMMA NextGuard == IInv /\ GuardInv /\ [Next]_vars => GuardInv'
  <1> SUFFICES ASSUME IInv, GuardInv, [Next]_vars
               PROVE  GuardInv'
    OBVIOUS
  <1>1. /\ LockTypes /\ LockInv
        /\ firstRun \in BOOLEAN /\ guarded \in BOOLEAN /\ skipsSelf \in BOOLEAN
    BY DEF IInv, TypeOK, LockTypes
  <1>2. CASE Signal \/ CancelContext \/ StopListening \/ Exited \/ UNCHANGED vars
    BY <1>2 DEF Signal, CancelContext, StopListening, Exited, vars, GuardInv, jobVars
  <1>3. CASE ListenerFails
    BY <1>1, <1>3, LockAssumption
       DEF ListenerFails, GuardInv, Goto, LockTypes, jobVars, Procs
  <1>4. QED
    BY <1>1, <1>2, <1>3, MainGuard, JobGuard, RequestGuard DEF Next

(* No session updates Watchtower itself before a scheduled one has skipped it. *)
THEOREM SelfUpdateGuard == Spec => []NoEarlySelfUpdate
  <1>1. Init => GuardInv
    BY LockAssumption DEF Init, GuardInv, Procs
  <1>2. GuardInv => NoEarlySelfUpdate
    BY DEF GuardInv, NoEarlySelfUpdate
  <1>3. QED
    BY <1>1, <1>2, NextGuard, Invariance, PTL DEF Spec
=============================================================================
