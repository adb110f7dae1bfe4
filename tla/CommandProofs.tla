---------------------------- MODULE CommandProofs ----------------------------
(* The command queue of StrategyRuntime: nobody loses a command it executes. *)
EXTENDS StrategyRuntimeProofs

\* What the row updates leave alone.
LEMMA AgedCommandFields ==
  ASSUME NEW c \in CommandRow
  PROVE LET d == AgedCommand(c)
        IN /\ d.status = c.status /\ d.type = c.type /\ d.sid = c.sid
           /\ d.by = c.by /\ d.attempts = c.attempts /\ d.timer >= c.timer - 1
BY DEF AgedCommand, CommandRow, Down

LEMMA FinishedFields ==
  ASSUME NEW c \in CommandRow, NEW st, NEW n
  PROVE LET d == Finished(c, st, n)
        IN /\ d.status = IF c.status = "absent" THEN "absent" ELSE st
           /\ d.type = c.type /\ d.sid = c.sid /\ d.attempts = c.attempts
BY DEF Finished, CommandRow

LEMMA ClaimedFields ==
  ASSUME NEW c \in CommandRow, NEW w
  PROVE LET d == Claimed(c, w)
        IN /\ d.status = "processing" /\ d.type = c.type /\ d.sid = c.sid
           /\ d.by = w /\ d.attempts = c.attempts + 1 /\ d.timer = CmdLease
BY DEF Claimed, CommandRow

LEMMA NewCommandFields ==
  ASSUME NEW s, NEW type, NEW close
  PROVE LET d == NewCommand(s, type, close)
        IN d.status = "pending" /\ d.type = type /\ d.sid = s /\ d.attempts = 0
BY DEF NewCommand

\* A worker that executes a command after a step executed it before, in the
\* same pass.
KeepsTasks ==
  \A w \in Workers : pc'[w] \in ExecPCs =>
    pc[w] \in ExecPCs /\ task'[w] = task[w] /\ passAge'[w] = passAge[w]

LEMMA CommandFrame ==
  ASSUME CommandInv, UNCHANGED <<cmd, nextId>>, KeepsTasks
  PROVE CommandInv'
BY DEF CommandInv, UnusedIds, PendingIsClaimable, OneOpenCommand, ExecutesOwn, KeepsTasks

\* Every step that does not write qd_strategy_commands keeps the tasks.
QuietStep ==
  \/ \E r \in Requests :
       \/ EndWait(r) \/ MarkStopped(r) \/ EnqueueError(r)
       \/ \E kind \in RequestKinds, s \in Strategies : Issue(r, kind, s)
  \/ \E w \in Workers :
       \/ Boot(w) \/ RestoreStep(w) \/ LoopTop(w) \/ ClaimNone(w)
       \/ StartCheck(w) \/ StartAcquire(w) \/ StartLaunch(w) \/ StartAwait(w)
       \/ ReleaseThenFail(w) \/ StopRuntime(w) \/ StopRelease(w) \/ GiveUp(w)
       \/ EndStep(w) \/ FaultStep(w)
       \/ \E s \in Strategies : RenewOne(w, s) \/ ThreadStep(w, s)

LEMMA QuietKeepsTasks ==
  ASSUME TypeOK, QuietStep
  PROVE UNCHANGED <<cmd, nextId>> /\ KeepsTasks
<1> USE DEF TypeOK, KeepsTasks, dbVars, execVars, workerVars, Goto, Return, ExecPCs
<1>1. ASSUME NEW r \in Requests,
             \/ EndWait(r) \/ MarkStopped(r) \/ EnqueueError(r)
             \/ \E kind \in RequestKinds, s \in Strategies : Issue(r, kind, s)
      PROVE UNCHANGED <<cmd, nextId>> /\ KeepsTasks
  BY <1>1 DEF EndWait, MarkStopped, EnqueueError, Issue
<1>2. ASSUME NEW w \in Workers, Boot(w) \/ LoopTop(w) \/ ClaimNone(w) \/ GiveUp(w)
      PROVE UNCHANGED <<cmd, nextId>> /\ KeepsTasks
  BY <1>2 DEF Boot, LoopTop, ClaimNone, GiveUp
<1>3. ASSUME NEW w \in Workers, RestoreStep(w)
      PROVE UNCHANGED <<cmd, nextId>> /\ KeepsTasks
  <2>1. ASSUME NEW s \in Strategies, RestoreAcquire(w, s)
        PROVE UNCHANGED <<cmd, nextId>> /\ KeepsTasks
    BY <2>1 DEF RestoreAcquire
  <2>2. CASE RestoreLaunch(w) \/ RestoreRelease(w) \/ RestoreMark(w)
    BY <2>2 DEF RestoreLaunch, RestoreRelease, RestoreMark, AfterRestoring
  <2>3. QED
    BY <1>3, <2>1, <2>2 DEF RestoreStep
<1>4. ASSUME NEW w \in Workers,
             \/ StartCheck(w) \/ StartAcquire(w) \/ StartLaunch(w) \/ StartAwait(w)
             \/ ReleaseThenFail(w) \/ StopRuntime(w) \/ StopRelease(w)
      PROVE UNCHANGED <<cmd, nextId>> /\ KeepsTasks
  <2>1. CASE StartCheck(w) \/ StartAcquire(w) \/ StartLaunch(w) \/ StartAwait(w)
    BY <2>1 DEF StartCheck, StartAcquire, StartLaunch, StartAwait
  <2>2. CASE ReleaseThenFail(w) \/ StopRuntime(w) \/ StopRelease(w)
    BY <2>2 DEF ReleaseThenFail, StopRuntime, StopRelease
  <2>3. QED
    BY <1>4, <2>1, <2>2
<1>5. ASSUME NEW w \in Workers, EndStep(w) \/ FaultStep(w)
      PROVE UNCHANGED <<cmd, nextId>> /\ KeepsTasks
  <2>1. CASE Exit(w) \/ Crash(w)
    BY <2>1 DEF Exit, Crash, ProcessGone
  <2>2. CASE Shutdown(w)
    BY <2>2 DEF Shutdown
  <2>3. ASSUME NEW s \in Strategies, ShutdownOne(w, s) \/ ThreadCrash(w, s) \/ AutoStop(w, s)
        PROVE UNCHANGED <<cmd, nextId>> /\ KeepsTasks
    BY <2>3 DEF ShutdownOne, ThreadCrash, AutoStop
  <2>4. QED
    BY <1>5, <2>1, <2>2, <2>3 DEF EndStep, FaultStep
<1>6. ASSUME NEW w \in Workers, NEW s \in Strategies, RenewOne(w, s) \/ ThreadStep(w, s)
      PROVE UNCHANGED <<cmd, nextId>> /\ KeepsTasks
  BY <1>6 DEF RenewOne, RenewDone, ThreadStep, ThreadExit, ZombieExit
<1>7. QED
  BY <1>1, <1>2, <1>3, <1>4, <1>5, <1>6 DEF QuietStep

\* A step of one worker w that rewrites the row of its own command and then
\* leaves _execute disturbs no other worker's command.
LEMMA FinishOwn ==
  ASSUME TypeOK, CommandInv, NEW w \in Workers, pc[w] \in ExecPCs,
         NEW st \in {"pending", "succeeded", "failed"}, NEW n \in Int,
         st = "pending" => task[w].attempts < MaxAttempts,
         FinishRow(task[w].id, st, n), nextId' = nextId, passAge' = passAge,
         pc'[w] \notin ExecPCs,
         \A v \in Workers \ {w} : pc'[v] = pc[v] /\ task'[v] = task[v]
  PROVE CommandInv'
<1> DEFINE k == task[w].id
<1>1. k \in CmdIds /\ cmd[k].status = "processing" /\ cmd[k].by = w
      /\ cmd[k].attempts = task[w].attempts
  BY DEF CommandInv, ExecutesOwn
<1>2. /\ cmd'[k] = Finished(cmd[k], st, n)
      /\ \A i \in CmdIds \ {k} : cmd'[i] = cmd[i]
  BY <1>1 DEF FinishRow, TypeOK
<1>3. /\ cmd'[k].status = st /\ cmd'[k].type = cmd[k].type /\ cmd'[k].sid = cmd[k].sid
      /\ cmd'[k].attempts = cmd[k].attempts
  BY <1>1, <1>2, FinishedFields DEF TypeOK
<1>4. UnusedIds'
  BY <1>1, <1>2, <1>3 DEF CommandInv, UnusedIds
<1>5. PendingIsClaimable'
  BY <1>1, <1>2, <1>3 DEF CommandInv, PendingIsClaimable
<1>6. OneOpenCommand'
  BY <1>1, <1>2, <1>3 DEF CommandInv, OneOpenCommand, OpenStatuses
<1>7. ASSUME NEW v \in Workers PROVE ExecutesOwn(v)'
  <2>1. CASE v = w
    BY <2>1 DEF ExecutesOwn
  <2>2. CASE v # w
    <3>1. pc[v] \in ExecPCs => task[v].id # k
      BY <1>1, <2>2 DEF CommandInv, ExecutesOwn
    <3>2. QED
      BY <2>2, <3>1, <1>2 DEF CommandInv, ExecutesOwn
  <2>3. QED
    BY <2>1, <2>2
<1>8. QED
  BY <1>4, <1>5, <1>6, <1>7 DEF CommandInv

\* The lease of a command in execution has not run out.
LEMMA OwnUnexpired ==
  ASSUME Timely, TypeOK, CommandInv, NEW w \in Workers, pc[w] \in ExecPCs
  PROVE task[w].id \in CmdIds /\ cmd[task[w].id].timer >= 0
<1>1. passAge[w] \in 0..MaxStall /\ MaxStall \in Nat /\ CmdLease \in Nat /\ MaxStall <= CmdLease
  BY ConstantsAssumption DEF TypeOK, Timely
<1>2. /\ task[w].id \in CmdIds
      /\ cmd[task[w].id].timer \in Int /\ cmd[task[w].id].timer >= CmdLease - passAge[w]
  BY CommandFields DEF CommandInv, ExecutesOwn, TypeOK
<1>3. QED
  BY <1>1, <1>2

LEMMA CommandInit == Init => CommandInv
BY DEF Init, CommandInv, UnusedIds, PendingIsClaimable, OneOpenCommand, ExecutesOwn,
       NoCommand, OpenStatuses, ExecPCs

LEMMA ClaimKeeps ==
  ASSUME Timely, TypeOK, CommandInv, NEW w \in Workers, NEW k \in CmdIds, Claim(w, k)
  PROVE CommandInv'
<1>1. /\ cmd[k].attempts < MaxAttempts /\ cmd[k].status \in OpenStatuses
      /\ cmd[k].status = "processing" => cmd[k].timer < 0
  BY DEF Claim, Claimable, OpenStatuses
<1>2. /\ cmd'[k] = Claimed(cmd[k], w) /\ nextId' = nextId /\ passAge' = passAge
      /\ \A i \in CmdIds \ {k} : cmd'[i] = cmd[i]
      /\ \A v \in Workers \ {w} : pc'[v] = pc[v] /\ task'[v] = task[v]
      /\ task'[w].id = k /\ task'[w].attempts = cmd[k].attempts + 1
  BY DEF Claim, TypeOK, Goto
<1>3. /\ cmd'[k].status = "processing" /\ cmd'[k].type = cmd[k].type
      /\ cmd'[k].sid = cmd[k].sid /\ cmd'[k].by = w
      /\ cmd'[k].attempts = cmd[k].attempts + 1 /\ cmd'[k].timer = CmdLease
  BY <1>2, ClaimedFields DEF TypeOK
<1>4. UnusedIds'
  BY <1>1, <1>2, <1>3 DEF CommandInv, UnusedIds, OpenStatuses
<1>5. PendingIsClaimable'
  BY <1>2, <1>3 DEF CommandInv, PendingIsClaimable
<1>6. OneOpenCommand'
  BY <1>1, <1>2, <1>3 DEF CommandInv, OneOpenCommand, OpenStatuses
<1>7. ASSUME NEW v \in Workers PROVE ExecutesOwn(v)'
  <2>1. CASE v = w
    <3>1. passAge[w] \in 0..MaxStall /\ MaxStall \in Nat /\ CmdLease \in Nat
      BY ConstantsAssumption DEF TypeOK
    <3>2. CmdLease >= CmdLease - passAge[w]
      BY <3>1
    <3>3. QED
      BY <2>1, <1>2, <1>3, <3>2 DEF ExecutesOwn
  <2>2. CASE v # w
    <3>1. ASSUME pc[v] \in ExecPCs PROVE task[v].id # k
      <4>1. cmd[task[v].id].timer \in Int /\ cmd[task[v].id].status = "processing"
        BY <3>1, CommandFields, OwnUnexpired DEF CommandInv, ExecutesOwn, TypeOK
      <4>2. QED
        BY <1>1, <3>1, <4>1, OwnUnexpired
    <3>2. QED
      BY <2>2, <3>1, <1>2 DEF CommandInv, ExecutesOwn
  <2>3. QED
    BY <2>1, <2>2
<1>8. QED
  BY <1>4, <1>5, <1>6, <1>7 DEF CommandInv

\* fail_exhausted_commands and the maintenance task write rows nobody executes.
LEMMA SweepKeeps ==
  ASSUME Timely, TypeOK, CommandInv, NEW rows \in SUBSET CmdIds,
         NEW st \in {"failed", "absent"},
         \A i \in rows : cmd[i].status # "processing" \/ cmd[i].timer < 0,
         cmd' = [i \in CmdIds |-> IF i \in rows THEN Finished(cmd[i], st, 0) ELSE cmd[i]],
         UNCHANGED <<nextId, pc, task, passAge>>
  PROVE CommandInv'
<1>1. \A i \in CmdIds :
        /\ cmd'[i].type = cmd[i].type /\ cmd'[i].sid = cmd[i].sid
        /\ cmd'[i].attempts = cmd[i].attempts
        /\ cmd'[i].status \in {cmd[i].status, st}
        /\ cmd[i].status = "absent" => cmd'[i].status = "absent"
  BY FinishedFields DEF TypeOK
<1>2. UnusedIds' /\ PendingIsClaimable' /\ OneOpenCommand'
  BY <1>1 DEF CommandInv, UnusedIds, PendingIsClaimable, OneOpenCommand, OpenStatuses
<1>3. ASSUME NEW v \in Workers PROVE ExecutesOwn(v)'
  <2>1. ASSUME pc[v] \in ExecPCs PROVE task[v].id \in CmdIds \ rows
    <3>1. cmd[task[v].id].timer \in Int /\ cmd[task[v].id].status = "processing"
      BY <2>1, CommandFields, OwnUnexpired DEF CommandInv, ExecutesOwn, TypeOK
    <3>2. QED
      BY <2>1, <3>1, OwnUnexpired
  <2>2. QED
    BY <2>1 DEF CommandInv, ExecutesOwn
<1>4. QED
  BY <1>2, <1>3 DEF CommandInv

LEMMA EnqueueKeeps ==
  ASSUME TypeOK, CommandInv, NEW r \in Requests, Enqueue(r)
  PROVE CommandInv'
<1> DEFINE s == req[r].sid
           type == CommandOf(req[r].kind)
           open == OpenCommands(s, type)
<1>0. UNCHANGED <<pc, task, passAge>>
  BY DEF Enqueue, workerVars
<1>1. CASE open # {}
  BY <1>0, <1>1, CommandFrame DEF Enqueue, KeepsTasks
<1>2. CASE open = {}
  <2>1. /\ nextId \in CmdIds /\ nextId' = nextId + 1
        /\ cmd' = [cmd EXCEPT ![nextId] = NewCommand(s, type, req[r].kind = "close")]
    BY <1>2, ConstantsAssumption DEF Enqueue, TypeOK, CmdIds
  <2>2. /\ cmd'[nextId].status = "pending" /\ cmd'[nextId].type = type
        /\ cmd'[nextId].sid = s /\ cmd'[nextId].attempts = 0
        /\ \A i \in CmdIds \ {nextId} : cmd'[i] = cmd[i]
    BY <2>1, NewCommandFields DEF TypeOK
  <2>3. cmd[nextId].status = "absent"
    BY <2>1 DEF CommandInv, UnusedIds, CmdIds
  <2>4. UnusedIds'
    BY <2>1, <2>2 DEF CommandInv, UnusedIds, CmdIds
  <2>5. PendingIsClaimable'
    BY <2>1, <2>2, ConstantsAssumption DEF CommandInv, PendingIsClaimable
  <2>6. OneOpenCommand'
    BY <1>2, <2>1, <2>2 DEF CommandInv, OneOpenCommand, OpenCommands
  <2>7. ASSUME NEW v \in Workers PROVE ExecutesOwn(v)'
    BY <1>0, <2>1, <2>2, <2>3 DEF CommandInv, ExecutesOwn
  <2>8. QED
    BY <2>4, <2>5, <2>6, <2>7 DEF CommandInv
<1>3. QED
  BY <1>1, <1>2

\* A tick takes one from every timer and adds one to the age of every pass.
LEMMA TickKeeps ==
  ASSUME TypeOK, CommandInv, Tick
  PROVE CommandInv'
<1>1. \A i \in CmdIds :
        /\ cmd'[i].status = cmd[i].status /\ cmd'[i].type = cmd[i].type
        /\ cmd'[i].sid = cmd[i].sid /\ cmd'[i].by = cmd[i].by
        /\ cmd'[i].attempts = cmd[i].attempts
        /\ cmd'[i].timer >= cmd[i].timer - 1
  BY AgedCommandFields DEF Tick, TypeOK
<1>2. UnusedIds' /\ PendingIsClaimable' /\ OneOpenCommand'
  BY <1>1 DEF Tick, CommandInv, UnusedIds, PendingIsClaimable, OneOpenCommand
<1>3. ASSUME NEW v \in Workers, pc[v] \in ExecPCs PROVE ExecutesOwn(v)'
  <2>1. passAge'[v] = passAge[v] + 1 /\ pc' = pc /\ task' = task
    BY <1>3 DEF Tick, Live, ExecPCs
  <2>2. LET k == task[v].id
        IN /\ k \in CmdIds /\ cmd[k].timer \in Int /\ cmd'[k].timer \in Int
           /\ passAge[v] \in Nat /\ CmdLease \in Nat
           /\ cmd[k].timer >= CmdLease - passAge[v]
           /\ cmd'[k].timer >= cmd[k].timer - 1
    <3>1. task[v].id \in CmdIds /\ cmd[task[v].id].timer >= CmdLease - passAge[v]
      BY <1>3 DEF CommandInv, ExecutesOwn
    <3>2. \A c \in CommandRow : c.timer \in Int /\ AgedCommand(c).timer \in Int
      BY AgedCommandTyped, CommandFields
    <3>3. cmd[task[v].id].timer \in Int /\ cmd'[task[v].id].timer \in Int
      BY <3>1, <3>2 DEF TypeOK, Tick
    <3>4. passAge[v] \in Nat /\ CmdLease \in Nat
      BY ConstantsAssumption DEF TypeOK
    <3>5. QED
      BY <1>1, <3>1, <3>3, <3>4
  <2>3. cmd'[task[v].id].timer >= CmdLease - passAge'[v]
    BY <2>1, <2>2
  <2>4. QED
    BY <1>1, <1>3, <2>1, <2>2, <2>3 DEF CommandInv, ExecutesOwn
<1>4. ASSUME NEW v \in Workers PROVE ExecutesOwn(v)'
  BY <1>3 DEF ExecutesOwn, Tick
<1>5. QED
  BY <1>2, <1>4 DEF CommandInv

LEMMA CommandStep ==
  ASSUME Timely, TypeOK, CommandInv, [Next]_vars
  PROVE CommandInv'
<1>1. CASE UNCHANGED vars
  BY <1>1, CommandFrame DEF vars, dbVars, workerVars, KeepsTasks
<1>2. CASE Tick
  BY <1>2, TickKeeps
<1>3. CASE Cleanup
  <2> DEFINE old == {i \in CmdIds : cmd[i].status \in TerminalStatuses /\ cmd[i].timer < -CmdKeep}
  <2>1. old \in SUBSET CmdIds /\ \A i \in old : cmd[i].status # "processing"
    BY DEF TerminalStatuses
  <2>2. /\ cmd' = [i \in CmdIds |-> IF i \in old THEN Finished(cmd[i], "absent", 0) ELSE cmd[i]]
        /\ UNCHANGED <<nextId, pc, task, passAge>>
    BY <1>3 DEF Cleanup, workerVars
  <2>3. QED
    BY <2>1, <2>2, SweepKeeps
<1>4. ASSUME NEW w \in Workers, Heartbeat(w) PROVE CommandInv'
  <2> DEFINE exhausted == {i \in CmdIds : /\ cmd[i].status = "processing"
                                          /\ cmd[i].timer < 0
                                          /\ cmd[i].attempts >= MaxAttempts}
  <2>1. exhausted \in SUBSET CmdIds /\ \A i \in exhausted : cmd[i].timer < 0
    OBVIOUS
  <2>2. /\ cmd' = [i \in CmdIds |-> IF i \in exhausted THEN Finished(cmd[i], "failed", 0) ELSE cmd[i]]
        /\ UNCHANGED <<nextId, pc, task, passAge>>
    BY <1>4 DEF Heartbeat, workerVars
  <2>3. QED
    BY <2>1, <2>2, SweepKeeps
<1>5. ASSUME NEW w \in Workers, Complete(w) PROVE CommandInv'
  <2>1. /\ pc[w] \in ExecPCs /\ pc'[w] \notin ExecPCs /\ nextId' = nextId /\ passAge' = passAge
        /\ FinishRow(task[w].id, "succeeded", 0)
        /\ \A v \in Workers \ {w} : pc'[v] = pc[v] /\ task'[v] = task[v]
    BY <1>5 DEF Complete, Return, Goto, ExecPCs, TypeOK
  <2>2. QED
    BY <2>1, FinishOwn
<1>6. ASSUME NEW w \in Workers, Fail(w) PROVE CommandInv'
  <2>1. /\ pc[w] \in ExecPCs /\ pc'[w] \notin ExecPCs /\ nextId' = nextId /\ passAge' = passAge
        /\ \A v \in Workers \ {w} : pc'[v] = pc[v] /\ task'[v] = task[v]
        /\ \/ /\ task[w].attempts < MaxAttempts
              /\ FinishRow(task[w].id, "pending", RetryDelay(task[w].attempts))
           \/ FinishRow(task[w].id, "failed", 0)
    BY <1>6 DEF Fail, Return, Goto, ExecPCs, TypeOK
  <2>2. RetryDelay(task[w].attempts) \in Int
    BY ConstantsAssumption, TaskFields DEF TypeOK
  <2>3. QED
    BY <2>1, <2>2, FinishOwn
<1>7. ASSUME NEW w \in Workers, NEW i \in CmdIds, Claim(w, i) PROVE CommandInv'
  BY <1>7, ClaimKeeps
<1>8. ASSUME NEW r \in Requests, Enqueue(r) PROVE CommandInv'
  BY <1>8, EnqueueKeeps
<1>9. CASE QuietStep
  BY <1>9, QuietKeepsTasks, CommandFrame
<1>10. QED
  BY <1>1, <1>2, <1>3, <1>4, <1>5, <1>6, <1>7, <1>8, <1>9
  DEF Next, QuietStep, RequestStep, WorkerStep, LoopStep, ExecStep

\* Timely says nothing of the state, so it is carried along.
LEMMA CommandAlways == Timely /\ Spec => [](Timely /\ TypeOK /\ CommandInv)
<1>1. Timely /\ Init => Timely /\ TypeOK /\ CommandInv
  BY TypeInit, CommandInit
<1>2. Timely /\ TypeOK /\ CommandInv /\ [Next]_vars => (Timely /\ TypeOK /\ CommandInv)'
  <2>1. Timely => Timely'
    BY DEF Timely
  <2>2. QED
    BY <2>1, TypeStep, CommandStep
<1>3. QED
  BY <1>1, <1>2, PTL DEF Spec

(* A worker loses no command it executes: while passes of the worker loop    *)
(* stay within the command lease, claim_next, fail_exhausted_commands and    *)
(* the maintenance task leave a command in execution to its claimer.         *)
THEOREM CommandStaysOwned == Timely /\ Spec => []CommandOwned
<1>1. Timely /\ TypeOK /\ CommandInv => CommandOwned
  BY OwnUnexpired DEF CommandOwned, CommandInv, ExecutesOwn
<1>2. QED
  BY <1>1, CommandAlways, PTL

(* No command is stuck in the queue with its attempts used up: fail sends a  *)
(* row back to "pending" only with an attempt left.                          *)
THEOREM PendingStaysClaimable == Timely /\ Spec => []PendingIsClaimable
<1>1. TypeOK /\ CommandInv => PendingIsClaimable
  BY DEF CommandInv
<1>2. QED
  BY <1>1, CommandAlways, PTL

(* The deduplication of enqueue holds in every reachable state: retries and  *)
(* reclaims never leave two open commands of a strategy and type.            *)
THEOREM OneStaysOpen == Timely /\ Spec => []OneOpenCommand
<1>1. TypeOK /\ CommandInv => OneOpenCommand
  BY DEF CommandInv
<1>2. QED
  BY <1>1, CommandAlways, PTL

LEMMA TerminalStep ==
  ASSUME Timely, TypeOK, CommandInv, [Next]_vars,
         NEW i \in CmdIds, cmd[i].status \in TerminalStatuses
  PROVE cmd'[i].status \in {cmd[i].status, "absent"}
<1> USE DEF TerminalStatuses
<1>0. cmd[i] \in CommandRow /\ cmd \in [CmdIds -> CommandRow]
  BY DEF TypeOK
<1>1. CASE UNCHANGED cmd
  BY <1>1
<1>2. CASE Tick
  BY <1>0, <1>2, AgedCommandFields DEF Tick
<1>3. CASE Cleanup
  BY <1>0, <1>3, FinishedFields DEF Cleanup
<1>4. ASSUME NEW w \in Workers, Heartbeat(w) PROVE cmd'[i] = cmd[i]
  BY <1>4 DEF Heartbeat
<1>5. ASSUME NEW w \in Workers, Complete(w) \/ Fail(w) PROVE cmd'[i] = cmd[i]
  <2>1. task[w].id # i
    BY <1>5 DEF Complete, Fail, ExecPCs, CommandInv, ExecutesOwn
  <2>2. QED
    BY <1>0, <1>5, <2>1 DEF Complete, Fail, FinishRow
<1>6. ASSUME NEW w \in Workers, NEW k \in CmdIds, Claim(w, k) PROVE cmd'[i] = cmd[i]
  BY <1>0, <1>6 DEF Claim, Claimable
<1>7. ASSUME NEW r \in Requests, Enqueue(r) PROVE cmd'[i] = cmd[i]
  <2>1. nextId # i
    BY DEF CommandInv, UnusedIds, TypeOK, CmdIds
  <2>2. QED
    BY <1>0, <1>7, <2>1 DEF Enqueue
<1>8. CASE QuietStep
  BY <1>8, QuietKeepsTasks
<1>9. CASE UNCHANGED vars
  BY <1>9 DEF vars, dbVars
<1>10. QED
  BY <1>2, <1>3, <1>4, <1>5, <1>6, <1>7, <1>8, <1>9
  DEF Next, QuietStep, RequestStep, WorkerStep, LoopStep, ExecStep

(* A command that reached a terminal status keeps it until its row is        *)
(* deleted, although _finish and fail update by id without a check: the      *)
(* writer is always the current claimer of a row in processing.              *)
THEOREM TerminalStaysFinal == Timely /\ Spec => TerminalIsFinal
<1>1. Timely /\ TypeOK /\ CommandInv /\ [Next]_vars =>
        [\A i \in CmdIds : cmd[i].status \in TerminalStatuses =>
           cmd'[i].status \in {cmd[i].status, "absent"}]_vars
  BY TerminalStep
<1>2. QED
  BY <1>1, CommandAlways, PTL DEF Spec, TerminalIsFinal
=============================================================================
