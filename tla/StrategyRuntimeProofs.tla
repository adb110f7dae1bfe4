------------------------ MODULE StrategyRuntimeProofs ------------------------
(* Theorems about StrategyRuntime, for every value of its constants. *)
EXTENDS StrategyRuntime, TLAPS

LEMMA AnyStrategyIn == AnyStrategy \in Strategies
BY ConstantsAssumption DEF AnyStrategy

LEMMA NullsTyped ==
  /\ NoCommand \in CommandRow /\ NoLease \in LeaseRow
  /\ NoTask \in Task /\ NoRequest \in Request
BY ConstantsAssumption, AnyStrategyIn
DEF NoCommand, CommandRow, NoLease, LeaseRow, NoTask, Task, NoRequest, Request,
    CommandTypes, OpenStatuses, TerminalStatuses, CmdIds, RequestKinds

\* Fields of the rows and what the update operators return, so that no proof
\* below expands the row types.
LEMMA CommandFields ==
  ASSUME NEW c \in CommandRow
  PROVE /\ c.timer \in Int /\ c.attempts \in 0..MaxAttempts /\ c.sid \in Strategies
        /\ c.type \in CommandTypes /\ c.close \in BOOLEAN
BY DEF CommandRow

LEMMA FinishedTyped ==
  ASSUME NEW c \in CommandRow, NEW n \in Int,
         NEW st \in OpenStatuses \cup TerminalStatuses \cup {"absent"}
  PROVE Finished(c, st, n) \in CommandRow
BY DEF CommandRow, Finished

LEMMA ClaimedTyped ==
  ASSUME NEW c \in CommandRow, NEW w \in Workers, c.attempts < MaxAttempts
  PROVE Claimed(c, w) \in CommandRow
<1>1. c.attempts + 1 \in 0..MaxAttempts /\ CmdLease \in Int
  BY ConstantsAssumption, CommandFields
<1>2. QED
  BY <1>1 DEF CommandRow, Claimed, OpenStatuses

LEMMA NewCommandTyped ==
  ASSUME NEW s \in Strategies, NEW type \in CommandTypes, NEW close \in BOOLEAN
  PROVE NewCommand(s, type, close) \in CommandRow
BY ConstantsAssumption DEF CommandRow, NewCommand, OpenStatuses

LEMMA DownInt == ASSUME NEW x \in Int, NEW f PROVE Down(x, f) \in Int
BY DEF Down

LEMMA AgedCommandTyped == ASSUME NEW c \in CommandRow PROVE AgedCommand(c) \in CommandRow
BY DownInt DEF CommandRow, AgedCommand

LEMMA AgedLeaseTyped == ASSUME NEW l \in LeaseRow PROVE AgedLease(l) \in LeaseRow
BY DownInt DEF LeaseRow, AgedLease

LEMMA AcquiredTyped ==
  ASSUME NEW l \in LeaseRow, NEW w \in Workers
  PROVE AcquiredLease(l, w) \in LeaseRow
BY ConstantsAssumption DEF LeaseRow, AcquiredLease

LEMMA TaskFields ==
  ASSUME NEW t \in Task
  PROVE t.sid \in Strategies /\ t.attempts \in 0..MaxAttempts /\ t.close \in BOOLEAN
BY DEF Task

LEMMA RestoreTaskTyped ==
  ASSUME NEW s \in Strategies PROVE [NoTask EXCEPT !.sid = s] \in Task
BY NullsTyped DEF Task

LEMMA RequestTyped ==
  ASSUME NEW q \in Request
  PROVE /\ q.sid \in Strategies /\ q.kind \in RequestKinds
        /\ \A l \in {"idle", "enqueue", "wait", "undo", "mark", "done"} : At(q, l) \in Request
        /\ \A i \in CmdIds : WaitFor(q, i) \in Request
BY DEF Request, At, WaitFor

LEMMA CommandOfTyped == ASSUME NEW k \in RequestKinds PROVE CommandOf(k) \in CommandTypes
BY DEF CommandOf, RequestKinds, CommandTypes

LEMMA TypeInit == Init => TypeOK
BY ConstantsAssumption, NullsTyped DEF Init, TypeOK, WorkerPCs

LEMMA TypeStep == TypeOK /\ [Next]_vars => TypeOK'
<1> SUFFICES ASSUME TypeOK, [Next]_vars PROVE TypeOK'
  OBVIOUS
<1> USE ConstantsAssumption DEF TypeOK, dbVars, execVars, workerVars
<1>1. CASE UNCHANGED vars
  BY <1>1 DEF vars
<1>2. CASE Tick
  <2>1. cmd' \in [CmdIds -> CommandRow]
    BY <1>2, AgedCommandTyped DEF Tick
  <2>2. lease' \in [Strategies -> LeaseRow]
    BY <1>2, AgedLeaseTyped DEF Tick
  <2>3. passAge' \in [Workers -> 0..MaxStall] /\ renewAge' \in [Workers -> 0..RenewEvery]
    BY <1>2 DEF Tick
  <2>4. QED
    BY <1>2, <2>1, <2>2, <2>3 DEF Tick
<1>3. CASE Cleanup
  <2>1. cmd' \in [CmdIds -> CommandRow]
    BY <1>3, FinishedTyped DEF Cleanup
  <2>2. QED
    BY <1>3, <2>1, NullsTyped DEF Cleanup
<1>4. ASSUME NEW r \in Requests, RequestStep(r) \/ EnqueueError(r) PROVE TypeOK'
  <2>0. /\ req[r] \in Request /\ At(NoRequest, "done") \in Request
        /\ At(req[r], "undo") \in Request /\ At(req[r], "mark") \in Request
        /\ req[r].sid \in Strategies /\ req[r].kind \in RequestKinds
    BY NullsTyped, RequestTyped
  <2>1. CASE Enqueue(r)
    <3> DEFINE type == CommandOf(req[r].kind)
               open == OpenCommands(req[r].sid, type)
    <3>1. open \subseteq CmdIds
      BY DEF OpenCommands
    <3>2. NewCommand(req[r].sid, type, req[r].kind = "close") \in CommandRow
      BY <2>0, CommandOfTyped, NewCommandTyped
    <3>3. nextId <= MaxCmds => nextId \in CmdIds
      BY DEF CmdIds
    <3>4. cmd' \in [CmdIds -> CommandRow] /\ nextId' \in 1..(MaxCmds + 1)
      BY <2>1, <3>2, <3>3 DEF Enqueue
    <3>5. req' \in [Requests -> Request]
      BY <2>0, <2>1, <3>1, <3>3, RequestTyped DEF Enqueue
    <3>6. QED
      BY <2>1, <3>4, <3>5 DEF Enqueue
  <2>2. CASE EndWait(r)
    BY <2>0, <2>2 DEF EndWait, Respond
  <2>3. CASE MarkStopped(r)
    BY <2>0, <2>3 DEF MarkStopped, SetDesired, Respond
  <2>4. CASE EnqueueError(r)
    BY <2>0, <2>4 DEF EnqueueError, Fault, Respond
  <2>5. QED
    BY <1>4, <2>1, <2>2, <2>3, <2>4 DEF RequestStep
<1>5. ASSUME NEW r \in Requests, NEW kind \in RequestKinds, NEW s \in Strategies, Issue(r, kind, s)
      PROVE TypeOK'
  BY <1>5 DEF Issue, Request
<1>6. ASSUME NEW w \in Workers, Boot(w) \/ Heartbeat(w) PROVE TypeOK'
  <2>1. CASE Boot(w)
    BY <2>1 DEF Boot, Goto, WorkerPCs, RestorePCs
  <2>2. CASE Heartbeat(w)
    <3>1. cmd' \in [CmdIds -> CommandRow]
      BY <2>2, FinishedTyped DEF Heartbeat, TerminalStatuses
    <3>2. QED
      BY <2>2, <3>1 DEF Heartbeat
  <2>3. QED
    BY <1>6, <2>1, <2>2
<1>7. ASSUME NEW w \in Workers, RestoreStep(w) PROVE TypeOK'
  <2>1. ASSUME NEW s \in Strategies, RestoreAcquire(w, s) PROVE TypeOK'
    <3>1. lease' \in [Strategies -> LeaseRow]
      <4>1. \A l \in LeaseRow : AcquiredLease(l, w) \in LeaseRow
        BY AcquiredTyped
      <4>2. QED
        BY <2>1, <4>1 DEF RestoreAcquire, Acquire
    <3>2. task' \in [Workers -> Task]
      BY <2>1, RestoreTaskTyped DEF RestoreAcquire
    <3>3. pc' \in [Workers -> WorkerPCs]
      BY <2>1 DEF RestoreAcquire, Goto, WorkerPCs, RestorePCs
    <3>4. QED
      BY <2>1, <3>1, <3>2, <3>3 DEF RestoreAcquire
  <2>2. CASE RestoreLaunch(w)
    <3>1. task[w].sid \in Strategies
      BY TaskFields
    <3>2. running' \in [Workers -> SUBSET Strategies]
      BY <2>2, <3>1 DEF RestoreLaunch
    <3>3. pc' \in [Workers -> WorkerPCs]
      BY <2>2 DEF RestoreLaunch, Return, AfterRestoring, Goto, WorkerPCs, RestorePCs
    <3>4. task' \in [Workers -> Task] /\ faults' \in 0..MaxFaults
      BY <2>2, NullsTyped DEF RestoreLaunch, Return, Fault
    <3>5. QED
      BY <2>2, <3>2, <3>3, <3>4 DEF RestoreLaunch
  <2>3. CASE RestoreRelease(w)
    BY <2>3, NullsTyped DEF RestoreRelease, Release, Goto, WorkerPCs, RestorePCs
  <2>4. CASE RestoreMark(w)
    BY <2>4, NullsTyped DEF RestoreMark, SetDesired, Return, AfterRestoring, Goto, Task, WorkerPCs, RestorePCs
  <2>5. QED
    BY <1>7, <2>1, <2>2, <2>3, <2>4 DEF RestoreStep
<1>8. ASSUME NEW w \in Workers, LoopStep(w) PROVE TypeOK'
  <2>1. CASE LoopTop(w)
    BY <2>1 DEF LoopTop, Goto, WorkerPCs
  <2>2. ASSUME NEW s \in Strategies, RenewOne(w, s) PROVE TypeOK'
    <3>1. lease' \in [Strategies -> LeaseRow]
      BY <2>2 DEF RenewOne, LeaseRow
    <3>2. running' \in [Workers -> SUBSET Strategies] /\ zombie' \in [Workers -> SUBSET Strategies]
      BY <2>2 DEF RenewOne, Detach, StopFails
    <3>3. faults' \in 0..MaxFaults
      BY <2>2 DEF RenewOne, StopFails, Fault
    <3>4. todo' \in [Workers -> SUBSET Strategies] /\ pc' \in [Workers -> WorkerPCs]
      BY <2>2 DEF RenewOne, RenewDone, Goto, WorkerPCs
    <3>5. QED
      BY <2>2, <3>1, <3>2, <3>3, <3>4 DEF RenewOne
  <2>3. ASSUME NEW i \in CmdIds, Claim(w, i) PROVE TypeOK'
    <3>1. cmd[i] \in CommandRow /\ cmd[i].attempts + 1 \in 0..MaxAttempts
      BY <2>3 DEF Claim, Claimable, CommandRow
    <3>2. cmd' \in [CmdIds -> CommandRow]
      BY <2>3, <3>1, ClaimedTyped DEF Claim, Claimable
    <3>3. task' \in [Workers -> Task]
      BY <2>3, <3>1 DEF Claim, CommandRow, Task
    <3>4. pc' \in [Workers -> WorkerPCs]
      BY <2>3 DEF Claim, Goto, FirstStep, WorkerPCs, ExecPCs
    <3>5. QED
      BY <2>3, <3>2, <3>3, <3>4 DEF Claim
  <2>4. CASE ClaimNone(w)
    BY <2>4 DEF ClaimNone, Goto, WorkerPCs
  <2>5. QED
    BY <1>8, <2>1, <2>2, <2>3, <2>4 DEF LoopStep
<1>9. ASSUME NEW w \in Workers, ExecStep(w) PROVE TypeOK'
  <2>1. CASE StartCheck(w)
    BY <2>1 DEF StartCheck, Goto, WorkerPCs, ExecPCs
  <2>2. CASE StartAcquire(w)
    <3>1. lease' \in [Strategies -> LeaseRow]
      <4>1. \A l \in LeaseRow : AcquiredLease(l, w) \in LeaseRow
        BY AcquiredTyped
      <4>2. QED
        BY <2>2, <4>1 DEF StartAcquire, Acquire
    <3>2. pc' \in [Workers -> WorkerPCs]
      BY <2>2 DEF StartAcquire, Goto, WorkerPCs, ExecPCs
    <3>3. QED
      BY <2>2, <3>1, <3>2 DEF StartAcquire
  <2>3. CASE StartLaunch(w)
    <3>1. task[w].sid \in Strategies
      BY TaskFields
    <3>2. running' \in [Workers -> SUBSET Strategies] /\ faults' \in 0..MaxFaults
      BY <2>3, <3>1 DEF StartLaunch, Fault
    <3>3. pc' \in [Workers -> WorkerPCs]
      BY <2>3 DEF StartLaunch, Goto, WorkerPCs, ExecPCs
    <3>4. QED
      BY <2>3, <3>2, <3>3 DEF StartLaunch
  <2>4. CASE StartAwait(w)
    BY <2>4 DEF StartAwait, Goto, WorkerPCs, ExecPCs
  <2>5. CASE ReleaseThenFail(w)
    BY <2>5, NullsTyped DEF ReleaseThenFail, Release, Goto, WorkerPCs, ExecPCs
  <2>6. CASE StopRuntime(w)
    <3>1. running' \in [Workers -> SUBSET Strategies] /\ zombie' \in [Workers -> SUBSET Strategies]
      BY <2>6, TaskFields DEF StopRuntime, Detach, StopFails
    <3>2. desired' \in [Strategies -> {"running", "stopped"}] /\ faults' \in 0..MaxFaults
      BY <2>6 DEF StopRuntime, StopFails, Fault, Task
    <3>3. pc' \in [Workers -> WorkerPCs]
      BY <2>6 DEF StopRuntime, Goto, WorkerPCs, ExecPCs
    <3>4. QED
      BY <2>6, <3>1, <3>2, <3>3 DEF StopRuntime
  <2>7. CASE StopRelease(w)
    BY <2>7, NullsTyped DEF StopRelease, Release, Goto, WorkerPCs, ExecPCs
  <2>8. CASE Complete(w)
    <3>1. cmd' \in [CmdIds -> CommandRow]
      <4>1. \A c \in CommandRow : Finished(c, "succeeded", 0) \in CommandRow
        BY FinishedTyped DEF TerminalStatuses
      <4>2. QED
        BY <2>8, <4>1 DEF Complete, FinishRow
    <3>2. QED
      BY <2>8, <3>1, NullsTyped DEF Complete, Return, Goto, WorkerPCs
  <2>9. CASE Fail(w)
    <3>1. cmd' \in [CmdIds -> CommandRow]
      <4>1. task[w].attempts \in 0..MaxAttempts /\ RetryDelay(task[w].attempts) \in Int
        BY TaskFields
      <4>2. \A c \in CommandRow :
              /\ Finished(c, "pending", RetryDelay(task[w].attempts)) \in CommandRow
              /\ Finished(c, "failed", 0) \in CommandRow
        BY <4>1, FinishedTyped DEF OpenStatuses, TerminalStatuses
      <4>3. QED
        BY <2>9, <4>2 DEF Fail, FinishRow
    <3>2. pc' \in [Workers -> WorkerPCs] /\ task' \in [Workers -> Task]
      BY <2>9, NullsTyped DEF Fail, Return, Goto, WorkerPCs
    <3>3. QED
      BY <2>9, <3>1, <3>2 DEF Fail
  <2>10. CASE GiveUp(w)
    BY <2>10, NullsTyped DEF GiveUp, SetDesired, Return, Goto, WorkerPCs
  <2>11. QED
    BY <1>9, <2>1, <2>2, <2>3, <2>4, <2>5, <2>6, <2>7, <2>8, <2>9, <2>10 DEF ExecStep
<1>10. ASSUME NEW w \in Workers, EndStep(w) PROVE TypeOK'
  <2>1. CASE Exit(w)
    BY <2>1, NullsTyped DEF Exit, ProcessGone, Goto, WorkerPCs
  <2>2. ASSUME NEW s \in Strategies, ShutdownOne(w, s) PROVE TypeOK'
    <3>1. running' \in [Workers -> SUBSET Strategies] /\ zombie' \in [Workers -> SUBSET Strategies]
      BY <2>2 DEF ShutdownOne, Detach, StopFails
    <3>2. lease' \in [Strategies -> LeaseRow]
      BY <2>2, NullsTyped DEF ShutdownOne, Release
    <3>3. faults' \in 0..MaxFaults
      BY <2>2 DEF ShutdownOne, StopFails, Fault
    <3>4. QED
      BY <2>2, <3>1, <3>2, <3>3 DEF ShutdownOne
  <2>3. QED
    BY <1>10, <2>1, <2>2 DEF EndStep
<1>11. ASSUME NEW w \in Workers, NEW s \in Strategies, ThreadStep(w, s) PROVE TypeOK'
  BY <1>11 DEF ThreadStep, ThreadExit, ZombieExit
<1>12. ASSUME NEW w \in Workers, FaultStep(w) PROVE TypeOK'
  <2>1. CASE Crash(w)
    BY <2>1, NullsTyped DEF Crash, ProcessGone, Fault, Goto, WorkerPCs
  <2>2. CASE Shutdown(w)
    BY <2>2 DEF Shutdown, Fault, Goto, WorkerPCs
  <2>3. ASSUME NEW s \in Strategies, ThreadCrash(w, s) PROVE TypeOK'
    BY <2>3 DEF ThreadCrash, Fault, SetDesired
  <2>4. ASSUME NEW s \in Strategies, AutoStop(w, s) PROVE TypeOK'
    BY <2>4 DEF AutoStop, Fault, SetDesired, Detach
  <2>5. QED
    BY <1>12, <2>1, <2>2, <2>3, <2>4 DEF FaultStep
<1>13. QED
  BY <1>1, <1>2, <1>3, <1>4, <1>5, <1>6, <1>7, <1>8, <1>9, <1>10, <1>11, <1>12
  DEF Next, WorkerStep

(* The type invariant: every table row, worker, request and counter stays    *)
(* within its type under all interleavings.                                  *)
THEOREM TypeCorrect == Spec => []TypeOK
<1>1. Init => TypeOK
  BY TypeInit
<1>2. TypeOK /\ [Next]_vars => TypeOK'
  BY TypeStep
<1>3. QED
  BY <1>1, <1>2, PTL DEF Spec
=============================================================================
