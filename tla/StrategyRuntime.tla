--------------------------- MODULE StrategyRuntime ---------------------------
(***************************************************************************)
(* Durable strategy commands, runtime leases and trading workers.          *)
(*                                                                         *)
(* API requests write the desired status of a strategy and queue commands  *)
(* in qd_strategy_commands; trading workers claim commands, own a lease    *)
(* row per running strategy in qd_strategy_runtime_leases and run one      *)
(* executor thread per strategy.  Every database transaction is one step.  *)
(*                                                                         *)
(* The database clock appears only in comparisons with NOW(), so every     *)
(* timestamp is kept as the number of ticks left until it (negative once   *)
(* it has passed): Tick ages all of them together.                         *)
(***************************************************************************)
EXTENDS Integers, FiniteSets

CONSTANTS
  Workers,      \* worker ids: a process draws a fresh one unless QD_WORKER_ID is set
  Strategies,   \* strategy ids
  Requests,     \* API requests: each one issues a single start or stop
  Kinds,        \* the request kinds issued, a subset of RequestKinds
  NoOwner,      \* "no lease row"
  StableIds,    \* TRUE when QD_WORKER_ID names the process across restarts
  MaxAttempts,  \* STRATEGY_COMMAND_MAX_ATTEMPTS
  CmdLease,     \* STRATEGY_COMMAND_LEASE_SEC in ticks
  RtLease,      \* STRATEGY_RUNTIME_LEASE_SEC in ticks
  RenewEvery,   \* max(1, lease / 3): the interval of lease renewal
  RetryDelay(_),\* min(60, 2^(attempts-1)) in ticks
  CmdKeep,      \* command retention of the maintenance task
  LeaseKeep,    \* the one day an expired lease row is kept
  MaxStall,     \* bound: ticks between two loop passes of a live worker
  MaxCmds,      \* bound: command ids
  Faults,       \* the fault kinds that may strike, a subset of FaultKinds
  MaxFaults     \* bound: number of faults in a behaviour

RequestKinds == {"start", "stop", "close", "agentStop", "restart", "reconcile"}

FaultKinds == {"crash", "shutdown", "preflight", "threadCrash", "stopFail",
               "renewError", "autoStop", "enqueueError"}

ASSUME ConstantsAssumption ==
  /\ Strategies # {} /\ NoOwner \notin Workers
  /\ Kinds \subseteq RequestKinds /\ Faults \subseteq FaultKinds
  /\ StableIds \in BOOLEAN
  /\ MaxAttempts \in Nat \ {0} /\ CmdLease \in Nat /\ RtLease \in Nat
  /\ RenewEvery \in Nat \ {0} /\ MaxStall \in Nat /\ MaxCmds \in Nat
  /\ CmdKeep \in Nat /\ LeaseKeep \in Nat /\ MaxFaults \in Nat
  /\ \A a \in 0..MaxAttempts : RetryDelay(a) \in Nat

VARIABLES
  cmd,       \* qd_strategy_commands
  nextId,    \* its id sequence
  desired,   \* qd_strategies_trading.status
  lease,     \* qd_strategy_runtime_leases
  running,   \* executor.running_strategies of each worker
  zombie,    \* threads dropped from running_strategies, still in their last cycle
  quiet,     \* _quiet_sids of each worker: strategies it auto-stopped
  pc,        \* where each worker process is in run_forever / _execute
  task,      \* the StrategyCommand it executes
  todo,      \* the strategies left in its restore / renewal / shutdown loop
  passAge,   \* ticks since its loop pass began
  renewAge,  \* ticks since _last_lease_renewal, saturated at RenewEvery
  req,       \* the API requests
  faults     \* faults so far

dbVars == <<cmd, nextId, desired, lease>>
execVars == <<running, zombie, quiet>>
workerVars == <<pc, task, todo, passAge, renewAge>>
vars == <<dbVars, execVars, workerVars, req, faults>>

-----------------------------------------------------------------------------
(* Types *)

CmdIds == 1..MaxCmds
CommandTypes == {"start", "stop", "restart", "reconcile"}
OpenStatuses == {"pending", "processing"}
TerminalStatuses == {"succeeded", "failed"}
AnyStrategy == CHOOSE s \in Strategies : TRUE

CommandRow ==
  [status : OpenStatuses \cup TerminalStatuses \cup {"absent"},
   type : CommandTypes, sid : Strategies, close : BOOLEAN,
   attempts : 0..MaxAttempts, by : Workers \cup {NoOwner}, timer : Int]

NoCommand ==
  [status |-> "absent", type |-> "start", sid |-> AnyStrategy, close |-> FALSE,
   attempts |-> 0, by |-> NoOwner, timer |-> 0]

\* _finish, fail and fail_exhausted_commands write a row's status and reset its
\* timestamps; a deleted row matches no update.
Finished(c, status, timer) ==
  IF c.status = "absent" THEN c ELSE [c EXCEPT !.status = status, !.timer = timer]

LeaseRow == [owner : Workers \cup {NoOwner}, token : Nat, ttl : Int]
NoLease == [owner |-> NoOwner, token |-> 0, ttl |-> 0]

Task == [id : CmdIds \cup {0}, type : CommandTypes, sid : Strategies,
         close : BOOLEAN, attempts : 0..MaxAttempts]
NoTask == [id |-> 0, type |-> "start", sid |-> AnyStrategy,
           close |-> FALSE, attempts |-> 0]

RestorePCs == {"restore", "restLaunch", "restRelease", "restMark"}
ExecPCs == {"start", "acquire", "launch", "await", "relFail", "stop",
            "release", "complete", "fail"}
WorkerPCs == {"off", "dead", "loop", "renew", "claim", "giveUp", "shutdown"}
               \cup RestorePCs \cup ExecPCs

Request == [pc : {"idle", "enqueue", "wait", "undo", "mark", "done"},
            kind : RequestKinds, sid : Strategies, cid : CmdIds \cup {0}]
NoRequest == [pc |-> "idle", kind |-> "start", sid |-> AnyStrategy, cid |-> 0]

TypeOK ==
  /\ cmd \in [CmdIds -> CommandRow] /\ nextId \in 1..(MaxCmds + 1)
  /\ desired \in [Strategies -> {"running", "stopped"}]
  /\ lease \in [Strategies -> LeaseRow]
  /\ running \in [Workers -> SUBSET Strategies]
  /\ zombie \in [Workers -> SUBSET Strategies]
  /\ quiet \in [Workers -> SUBSET Strategies]
  /\ pc \in [Workers -> WorkerPCs]
  /\ task \in [Workers -> Task]
  /\ todo \in [Workers -> SUBSET Strategies]
  /\ passAge \in [Workers -> 0..MaxStall]
  /\ renewAge \in [Workers -> 0..RenewEvery]
  /\ req \in [Requests -> Request]
  /\ faults \in 0..MaxFaults

Init ==
  /\ cmd = [i \in CmdIds |-> NoCommand] /\ nextId = 1
  /\ desired \in [Strategies -> {"running", "stopped"}]
  /\ lease = [s \in Strategies |-> NoLease]
  /\ running = [w \in Workers |-> {}]
  /\ zombie = [w \in Workers |-> {}]
  /\ quiet = [w \in Workers |-> {}]
  /\ pc = [w \in Workers |-> "off"]
  /\ task = [w \in Workers |-> NoTask]
  /\ todo = [w \in Workers |-> {}]
  /\ passAge = [w \in Workers |-> 0]
  /\ renewAge = [w \in Workers |-> RenewEvery]
  /\ req = [r \in Requests |-> NoRequest]
  /\ faults = 0

-----------------------------------------------------------------------------
(* Shared by several steps *)

Live(w) == pc[w] \notin {"off", "dead"}

\* A fault of kind k strikes in this step.
Fault(k) == k \in Faults /\ faults < MaxFaults /\ faults' = faults + 1

Goto(w, label) == pc' = [pc EXCEPT ![w] = label]

\* _execute, or one round of the restore loop, returns.
Return(w, label) == Goto(w, label) /\ task' = [task EXCEPT ![w] = NoTask]

SetDesired(s, status) == desired' = [desired EXCEPT ![s] = status]

\* executor.stop_strategy drops the thread from running_strategies; the thread
\* itself ends when it next looks there.
Detach(w, s) ==
  /\ running' = [running EXCEPT ![w] = @ \ {s}]
  /\ zombie' = [zombie EXCEPT ![w] = @ \cup (running[w] \cap {s})]

\* executor.stop_strategy: shutting down the resting grid may raise, and then
\* the thread stays registered.
StopFails == Fault("stopFail") /\ UNCHANGED <<running, zombie>>

\* Mutant: the upsert without its WHERE clause.
AcquireAlways(w, s) == TRUE

\* Mutant: a worker's own lease, left from before its restart, keeps it out.
AcquireFree(w, s) == lease[s].owner = NoOwner \/ lease[s].ttl < 0

\* acquire_strategy_lease: insert, or update when owned or expired.
CanAcquire(w, s) == lease[s].owner \in {NoOwner, w} \/ lease[s].ttl < 0

\* Mutant: a takeover of an expired lease keeps the fencing token.
SameTokenLease(l, w) ==
  [owner |-> w, token |-> IF l.owner = NoOwner THEN 1 ELSE l.token, ttl |-> RtLease]

AcquiredLease(l, w) ==
  [owner |-> w,
   token |-> CASE l.owner = NoOwner -> 1
               [] l.owner = w -> l.token
               [] OTHER -> l.token + 1,
   ttl |-> RtLease]

Acquire(w, s) ==
  lease' = [lease EXCEPT ![s] = AcquiredLease(@, w)]

\* renew_strategy_lease matches the row only while it is owned and unexpired.
CanRenew(w, s) == lease[s].owner = w /\ lease[s].ttl >= 0

\* release_strategy_lease deletes the row only when w owns it.
Release(w, s) ==
  lease' = [lease EXCEPT ![s] = IF @.owner = w THEN NoLease ELSE @]

-----------------------------------------------------------------------------
(* API requests *)

CommandOf(kind) ==
  CASE kind = "start" -> "start"
    [] kind \in {"stop", "close", "agentStop"} -> "stop"
    [] kind = "restart" -> "restart"
    [] kind = "reconcile" -> "reconcile"

\* A route writes the desired status first, except the stop route, which
\* writes it only after the wait.
Issue(r, kind, s) ==
  /\ req[r].pc = "idle" /\ kind \in Kinds
  /\ req' = [req EXCEPT ![r] =
       [pc |-> "enqueue", kind |-> kind, sid |-> s, cid |-> 0]]
  /\ desired' = IF kind = "start" THEN [desired EXCEPT ![s] = "running"]
                ELSE IF kind = "agentStop" THEN [desired EXCEPT ![s] = "stopped"]
                ELSE desired
  /\ UNCHANGED <<cmd, nextId, lease, execVars, workerVars, faults>>

\* A request moves on in its route; with the id of the command it waits for.
At(q, label) == [q EXCEPT !.pc = label]
WaitFor(q, i) == [q EXCEPT !.pc = "wait", !.cid = i]

\* Mutant: the deduplication looks at waiting commands only.
PendingCommands(s, type) ==
  {i \in CmdIds : cmd[i].status = "pending" /\ cmd[i].sid = s /\ cmd[i].type = type}

OpenCommands(s, type) ==
  {i \in CmdIds : cmd[i].status \in OpenStatuses /\ cmd[i].sid = s /\ cmd[i].type = type}

NewCommand(s, type, close) ==
  [status |-> "pending", type |-> type, sid |-> s, close |-> close,
   attempts |-> 0, by |-> NoOwner, timer |-> 0]

\* enqueue: under the advisory lock of the strategy, the latest open command
\* of the same type is returned as it is, otherwise a row is inserted.
Enqueue(r) ==
  LET kind == req[r].kind
      s == req[r].sid
      type == CommandOf(kind)
      open == OpenCommands(s, type)
  IN /\ req[r].pc = "enqueue"
     /\ \/ /\ open # {}
           /\ \E i \in open :
                /\ \A j \in open : j <= i
                /\ req' = [req EXCEPT ![r] = WaitFor(@, i)]
           /\ UNCHANGED <<cmd, nextId>>
        \/ /\ open = {} /\ nextId <= MaxCmds
           /\ cmd' = [cmd EXCEPT ![nextId] = NewCommand(s, type, kind = "close")]
           /\ nextId' = nextId + 1
           /\ req' = [req EXCEPT ![r] = WaitFor(@, nextId)]
     /\ UNCHANGED <<desired, lease, execVars, workerVars, faults>>

\* The route returns.
Respond(r) == req' = [req EXCEPT ![r] = At(NoRequest, "done")]

\* The client swallows a failed enqueue; the start route then takes back the
\* status it wrote, the stop route writes "stopped" all the same.
EnqueueError(r) ==
  /\ req[r].pc = "enqueue" /\ Fault("enqueueError")
  /\ CASE req[r].kind = "start" -> req' = [req EXCEPT ![r] = At(@, "undo")]
       [] req[r].kind \in {"stop", "close"} -> req' = [req EXCEPT ![r] = At(@, "mark")]
       [] OTHER -> Respond(r)
  /\ UNCHANGED <<dbVars, execVars, workerVars>>

\* wait_strategy_running reads the command last remembered for the strategy:
\* its own, or one a later request of this process queued.
RememberedFor(r) ==
  {i \in CmdIds : /\ i >= req[r].cid /\ cmd[i].sid = req[r].sid
                  /\ cmd[i].type = CommandOf(req[r].kind)
                  /\ i = req[r].cid \/ cmd[i].status # "absent"}

\* _wait polls until the command is terminal or the timeout passes, whichever
\* comes first; a failed or vanished start command takes the status back.
EndWait(r) ==
  /\ req[r].pc = "wait"
  /\ CASE req[r].kind = "start" ->
            \E i \in RememberedFor(r) :
              IF cmd[i].status \in {"failed", "absent"}
                THEN req' = [req EXCEPT ![r] = At(@, "undo")]
                ELSE Respond(r)
       [] req[r].kind \in {"stop", "close"} -> req' = [req EXCEPT ![r] = At(@, "mark")]
       [] OTHER -> Respond(r)
  /\ UNCHANGED <<dbVars, execVars, workerVars, faults>>

\* The status a route writes last: after a failed start, after any stop.
MarkStopped(r) ==
  /\ req[r].pc \in {"undo", "mark"}
  /\ SetDesired(req[r].sid, "stopped")
  /\ Respond(r)
  /\ UNCHANGED <<cmd, nextId, lease, execVars, workerVars, faults>>

-----------------------------------------------------------------------------
(* Worker boot: restore_desired_strategies *)

Boot(w) ==
  LET rows == {s \in Strategies : desired[s] = "running"}
  IN /\ pc[w] = "off"
     /\ Goto(w, IF rows = {} THEN "loop" ELSE "restore")
     /\ todo' = [todo EXCEPT ![w] = rows]
     /\ passAge' = [passAge EXCEPT ![w] = 0]
     /\ renewAge' = [renewAge EXCEPT ![w] = RenewEvery]
     /\ UNCHANGED <<dbVars, execVars, task, req, faults>>

AfterRestoring(w) == IF todo[w] = {} THEN "loop" ELSE "restore"

\* Mutant: the restore ignores the result of _acquire_runtime.
RestoreAnyway(w, s) ==
  /\ pc[w] = "restore" /\ s \in todo[w]
  /\ todo' = [todo EXCEPT ![w] = @ \ {s}]
  /\ IF CanAcquire(w, s) THEN Acquire(w, s) ELSE UNCHANGED lease
  /\ task' = [task EXCEPT ![w] = [NoTask EXCEPT !.sid = s]]
  /\ Goto(w, "restLaunch")
  /\ UNCHANGED <<cmd, nextId, desired, execVars, passAge, renewAge, req, faults>>

RestoreAcquire(w, s) ==
  /\ pc[w] = "restore" /\ s \in todo[w]
  /\ todo' = [todo EXCEPT ![w] = @ \ {s}]
  /\ IF CanAcquire(w, s)
       THEN /\ Acquire(w, s)
            /\ task' = [task EXCEPT ![w] = [NoTask EXCEPT !.sid = s]]
            /\ Goto(w, "restLaunch")
       ELSE /\ Goto(w, IF todo[w] = {s} THEN "loop" ELSE "restore")
            /\ UNCHANGED <<lease, task>>
  /\ UNCHANGED <<cmd, nextId, desired, execVars, passAge, renewAge, req, faults>>

RestoreLaunch(w) ==
  LET s == task[w].sid
  IN /\ pc[w] = "restLaunch"
     /\ \/ /\ s \notin running[w]
           /\ running' = [running EXCEPT ![w] = @ \cup {s}]
           /\ Return(w, AfterRestoring(w))
           /\ UNCHANGED faults
        \/ /\ Fault("preflight")
           /\ Goto(w, "restRelease")
           /\ UNCHANGED <<running, task>>
     /\ UNCHANGED <<dbVars, zombie, quiet, todo, passAge, renewAge, req>>

RestoreRelease(w) ==
  /\ pc[w] = "restRelease"
  /\ Release(w, task[w].sid)
  /\ Goto(w, "restMark")
  /\ UNCHANGED <<cmd, nextId, desired, execVars, task, todo, passAge, renewAge, req, faults>>

RestoreMark(w) ==
  /\ pc[w] = "restMark"
  /\ SetDesired(task[w].sid, "stopped")
  /\ Return(w, AfterRestoring(w))
  /\ UNCHANGED <<cmd, nextId, lease, execVars, todo, passAge, renewAge, req, faults>>

-----------------------------------------------------------------------------
(* The loop of run_forever *)

\* _heartbeat: fail_exhausted_commands.
Heartbeat(w) ==
  LET exhausted == {i \in CmdIds : /\ cmd[i].status = "processing"
                                   /\ cmd[i].timer < 0
                                   /\ cmd[i].attempts >= MaxAttempts}
  IN /\ pc[w] = "loop" /\ exhausted # {}
     /\ cmd' = [i \in CmdIds |->
          IF i \in exhausted THEN Finished(cmd[i], "failed", 0) ELSE cmd[i]]
     /\ UNCHANGED <<nextId, desired, lease, execVars, workerVars, req, faults>>

\* Mutant: the interval test of _renew_runtime_leases is off by one tick and
\* never met.
LoopTopLate(w) ==
  /\ pc[w] = "loop"
  /\ passAge' = [passAge EXCEPT ![w] = 0]
  /\ todo' = [todo EXCEPT ![w] = IF renewAge[w] > RenewEvery THEN running[w] ELSE {}]
  /\ Goto(w, "claim")
  /\ UNCHANGED <<dbVars, execVars, task, renewAge, req, faults>>

\* A pass begins; _renew_runtime_leases returns at once unless it is due.
LoopTop(w) ==
  LET due == renewAge[w] >= RenewEvery
  IN /\ pc[w] = "loop"
     /\ passAge' = [passAge EXCEPT ![w] = 0]
     /\ renewAge' = [renewAge EXCEPT ![w] = IF due THEN 0 ELSE @]
     /\ todo' = [todo EXCEPT ![w] = IF due THEN running[w] ELSE {}]
     /\ Goto(w, IF due /\ running[w] # {} THEN "renew" ELSE "claim")
     /\ UNCHANGED <<dbVars, execVars, task, req, faults>>

RenewDone(w, s) ==
  /\ todo' = [todo EXCEPT ![w] = @ \ {s}]
  /\ Goto(w, IF todo[w] = {s} THEN "claim" ELSE "renew")

\* Mutant: a renewal that matches no row is only logged.
RenewLogOnly(w, s) ==
  /\ pc[w] = "renew" /\ s \in todo[w]
  /\ RenewDone(w, s)
  /\ lease' = IF CanRenew(w, s) THEN [lease EXCEPT ![s] = [@ EXCEPT !.ttl = RtLease]] ELSE lease
  /\ UNCHANGED <<cmd, nextId, desired, execVars, task, passAge, renewAge, req, faults>>

\* A lease that cannot be renewed is lost: the local runtime is stopped.
RenewOne(w, s) ==
  /\ pc[w] = "renew" /\ s \in todo[w]
  /\ RenewDone(w, s)
  /\ \/ /\ CanRenew(w, s)
        /\ lease' = [lease EXCEPT ![s] = [@ EXCEPT !.ttl = RtLease]]
        /\ UNCHANGED <<running, zombie, faults>>
     \/ /\ ~CanRenew(w, s)
        /\ Detach(w, s)
        /\ UNCHANGED <<lease, faults>>
     \/ /\ ~CanRenew(w, s) /\ StopFails
        /\ UNCHANGED lease
     \/ /\ Fault("renewError")
        /\ UNCHANGED <<lease, running, zombie>>
  /\ UNCHANGED <<cmd, nextId, desired, quiet, task, passAge, renewAge, req>>

\* Mutant: a command in processing is claimed again before its lease expired.
ClaimableEarly(w, i) ==
  LET c == cmd[i]
  IN /\ c.attempts < MaxAttempts
     /\ \/ c.status = "processing"
        \/ c.status = "pending" /\ c.timer <= 0
     /\ c.type \in {"start", "reconcile"} \/ CanAcquire(w, c.sid)

\* Mutant: the status is not compared, only the timestamps.
ClaimableAny(w, i) ==
  LET c == cmd[i]
  IN /\ c.attempts < MaxAttempts /\ c.status # "absent" /\ c.timer < 0
     /\ c.type \in {"start", "reconcile"} \/ CanAcquire(w, c.sid)

\* Mutant: the attempts are not limited.
ClaimableForever(w, i) ==
  LET c == cmd[i]
  IN /\ \/ c.status = "pending" /\ c.timer <= 0
        \/ c.status = "processing" /\ c.timer < 0
     /\ c.type \in {"start", "reconcile"} \/ CanAcquire(w, c.sid)

\* Mutant: expired commands of crashed workers are not reclaimed.
ClaimablePending(w, i) ==
  LET c == cmd[i]
  IN /\ c.attempts < MaxAttempts /\ c.status = "pending" /\ c.timer <= 0
     /\ c.type \in {"start", "reconcile"} \/ CanAcquire(w, c.sid)

\* claim_next: start and reconcile go to any worker, stop and restart wait for
\* the lease to be free, expired or the claimer's.
Claimable(w, i) ==
  LET c == cmd[i]
  IN /\ c.attempts < MaxAttempts
     /\ \/ c.status = "pending" /\ c.timer <= 0
        \/ c.status = "processing" /\ c.timer < 0
     /\ c.type \in {"start", "reconcile"} \/ CanAcquire(w, c.sid)

\* A duplicate enqueue holds the row lock that SKIP LOCKED passes over.
Locked(i) ==
  \E r \in Requests : /\ req[r].pc = "enqueue"
                      /\ i \in OpenCommands(req[r].sid, CommandOf(req[r].kind))

Claimed(c, w) ==
  [c EXCEPT !.status = "processing", !.by = w, !.timer = CmdLease, !.attempts = @ + 1]

FirstStep(type) ==
  CASE type = "start" -> "start"
    [] type \in {"stop", "restart"} -> "stop"
    [] OTHER -> "complete"

Claim(w, i) ==
  /\ pc[w] = "claim" /\ Claimable(w, i)
  /\ \A j \in CmdIds : j < i /\ Claimable(w, j) => Locked(j)
  /\ cmd' = [cmd EXCEPT ![i] = Claimed(@, w)]
  /\ task' = [task EXCEPT ![w] =
       [id |-> i, type |-> cmd[i].type, sid |-> cmd[i].sid,
        close |-> cmd[i].close, attempts |-> cmd[i].attempts + 1]]
  /\ Goto(w, FirstStep(cmd[i].type))
  /\ UNCHANGED <<nextId, desired, lease, execVars, todo, passAge, renewAge, req, faults>>

ClaimNone(w) ==
  /\ pc[w] = "claim"
  /\ \A i \in CmdIds : Claimable(w, i) => Locked(i)
  /\ Goto(w, "loop")
  /\ UNCHANGED <<dbVars, execVars, task, todo, passAge, renewAge, req, faults>>

-----------------------------------------------------------------------------
(* _execute *)

\* _start: skip when the desired status changed or the strategy is local.
StartCheck(w) ==
  LET s == task[w].sid
  IN /\ pc[w] = "start"
     /\ Goto(w, IF desired[s] # "running" \/ s \in running[w]
                THEN "complete" ELSE "acquire")
     /\ UNCHANGED <<dbVars, execVars, task, todo, passAge, renewAge, req, faults>>

StartAcquire(w) ==
  LET s == task[w].sid
  IN /\ pc[w] = "acquire"
     /\ IF CanAcquire(w, s)
          THEN Acquire(w, s) /\ Goto(w, "launch")
          ELSE Goto(w, "fail") /\ UNCHANGED lease
     /\ UNCHANGED <<cmd, nextId, desired, execVars, task, todo, passAge, renewAge, req, faults>>

StartLaunch(w) ==
  LET s == task[w].sid
  IN /\ pc[w] = "launch"
     /\ \/ /\ s \notin running[w]
           /\ running' = [running EXCEPT ![w] = @ \cup {s}]
           /\ Goto(w, "await")
           /\ UNCHANGED faults
        \/ /\ Fault("preflight")
           /\ Goto(w, "relFail")
           /\ UNCHANGED running
     /\ UNCHANGED <<dbVars, zombie, quiet, task, todo, passAge, renewAge, req>>

\* wait_strategy_running: the thread survived the startup window, or not.
StartAwait(w) ==
  /\ pc[w] = "await"
  /\ Goto(w, IF task[w].sid \in running[w] THEN "complete" ELSE "relFail")
  /\ UNCHANGED <<dbVars, execVars, task, todo, passAge, renewAge, req, faults>>

ReleaseThenFail(w) ==
  /\ pc[w] = "relFail"
  /\ Release(w, task[w].sid)
  /\ Goto(w, "fail")
  /\ UNCHANGED <<cmd, nextId, desired, execVars, task, todo, passAge, renewAge, req, faults>>

\* _stop_strategy: a plain stop that fails raises; the close policy persists
\* "stopped" itself and goes on to release whatever its result says.
StopRuntime(w) ==
  LET s == task[w].sid
  IN /\ pc[w] = "stop"
     /\ \/ /\ Detach(w, s)
           /\ desired' = IF task[w].close THEN [desired EXCEPT ![s] = "stopped"]
                         ELSE desired
           /\ Goto(w, "release")
           /\ UNCHANGED faults
        \/ /\ StopFails
           /\ Goto(w, IF task[w].close THEN "release" ELSE "fail")
           /\ UNCHANGED desired
     /\ UNCHANGED <<cmd, nextId, lease, quiet, task, todo, passAge, renewAge, req>>

StopRelease(w) ==
  /\ pc[w] = "release"
  /\ Release(w, task[w].sid)
  /\ Goto(w, IF task[w].type = "restart" THEN "start" ELSE "complete")
  /\ UNCHANGED <<cmd, nextId, desired, execVars, task, todo, passAge, renewAge, req, faults>>

\* _finish and fail update the row by id alone: neither its claimer nor its
\* status is compared.
FinishRow(i, status, timer) ==
  cmd' = [cmd EXCEPT ![i] = Finished(@, status, timer)]

Complete(w) ==
  /\ pc[w] = "complete"
  /\ FinishRow(task[w].id, "succeeded", 0)
  /\ Return(w, "loop")
  /\ UNCHANGED <<nextId, desired, lease, execVars, todo, passAge, renewAge, req, faults>>

\* Mutant: one attempt too many is retried.
FailLate(w) ==
  LET t == task[w]
  IN /\ pc[w] = "fail" /\ t.attempts <= MaxAttempts
     /\ FinishRow(t.id, "pending", RetryDelay(t.attempts))
     /\ Return(w, "loop")
     /\ UNCHANGED <<nextId, desired, lease, execVars, todo, passAge, renewAge, req, faults>>

Fail(w) ==
  LET t == task[w]
  IN /\ pc[w] = "fail"
     /\ \/ /\ t.attempts < MaxAttempts
           /\ FinishRow(t.id, "pending", RetryDelay(t.attempts))
           /\ Return(w, "loop")
        \/ /\ t.attempts >= MaxAttempts
           /\ FinishRow(t.id, "failed", 0)
           /\ IF t.type \in {"start", "restart"}
                THEN Goto(w, "giveUp") /\ UNCHANGED task
                ELSE Return(w, "loop")
     /\ UNCHANGED <<nextId, desired, lease, execVars, todo, passAge, renewAge, req, faults>>

\* The last failed attempt of a start writes the desired status.
GiveUp(w) ==
  /\ pc[w] = "giveUp"
  /\ SetDesired(task[w].sid, "stopped")
  /\ Return(w, "loop")
  /\ UNCHANGED <<cmd, nextId, lease, execVars, todo, passAge, renewAge, req, faults>>

-----------------------------------------------------------------------------
(* Executor threads *)

\* Mutant: the thread looks only at its registration, not at the status.
ThreadExitUnregistered(w, s) ==
  /\ s \in zombie[w] /\ s \in running[w] /\ desired[s] # "running"
  /\ running' = [running EXCEPT ![w] = @ \ {s}]
  /\ UNCHANGED <<dbVars, zombie, quiet, workerVars, req, faults>>

\* _is_strategy_running is false once the desired status changed.
ThreadExit(w, s) ==
  /\ s \in running[w] /\ desired[s] # "running"
  /\ running' = [running EXCEPT ![w] = @ \ {s}]
  /\ UNCHANGED <<dbVars, zombie, quiet, workerVars, req, faults>>

\* ... or once the thread is no longer the registered one.
ZombieExit(w, s) ==
  /\ s \in zombie[w]
  /\ zombie' = [zombie EXCEPT ![w] = @ \ {s}]
  /\ UNCHANGED <<dbVars, running, quiet, workerVars, req, faults>>

\* An exception in the loop marks the strategy stopped, even when the thread
\* has been replaced; the lease row stays.
ThreadCrash(w, s) ==
  /\ Fault("threadCrash")
  /\ SetDesired(s, "stopped")
  /\ \/ /\ s \in running[w]
        /\ running' = [running EXCEPT ![w] = @ \ {s}]
        /\ UNCHANGED zombie
     \/ /\ s \in zombie[w]
        /\ zombie' = [zombie EXCEPT ![w] = @ \ {s}]
        /\ UNCHANGED running
  /\ UNCHANGED <<cmd, nextId, lease, quiet, workerVars, req>>

\* auto_stop_live_strategy, called from the order and position workers of the
\* same process, once per strategy and process.
AutoStop(w, s) ==
  /\ Live(w) /\ Fault("autoStop") /\ s \notin quiet[w]
  /\ quiet' = [quiet EXCEPT ![w] = @ \cup {s}]
  /\ SetDesired(s, "stopped")
  /\ \/ Detach(w, s)
     \/ "stopFail" \in Faults /\ UNCHANGED <<running, zombie>>
  /\ UNCHANGED <<cmd, nextId, lease, workerVars, req>>

-----------------------------------------------------------------------------
(* Process end, maintenance, time *)

ProcessGone(w) ==
  /\ running' = [running EXCEPT ![w] = {}]
  /\ zombie' = [zombie EXCEPT ![w] = {}]
  /\ quiet' = [quiet EXCEPT ![w] = {}]
  /\ task' = [task EXCEPT ![w] = NoTask]
  /\ todo' = [todo EXCEPT ![w] = {}]
  /\ passAge' = [passAge EXCEPT ![w] = 0]
  /\ renewAge' = [renewAge EXCEPT ![w] = RenewEvery]
  /\ Goto(w, IF StableIds THEN "off" ELSE "dead")

Crash(w) ==
  /\ Live(w) /\ Fault("crash")
  /\ ProcessGone(w)
  /\ UNCHANGED <<dbVars, req>>

\* A signal, or the loss of the global service lease, sets _stop: the loop ends.
Shutdown(w) ==
  /\ pc[w] = "loop" /\ Fault("shutdown")
  /\ Goto(w, "shutdown")
  /\ todo' = [todo EXCEPT ![w] = running[w]]
  /\ UNCHANGED <<dbVars, execVars, task, passAge, renewAge, req>>

\* _shutdown_local_runtimes
ShutdownOne(w, s) ==
  /\ pc[w] = "shutdown" /\ s \in todo[w]
  /\ todo' = [todo EXCEPT ![w] = @ \ {s}]
  /\ \/ Detach(w, s)
     \/ "stopFail" \in Faults /\ UNCHANGED <<running, zombie>>
  /\ Release(w, s)
  /\ UNCHANGED <<cmd, nextId, desired, quiet, pc, task, passAge, renewAge, req, faults>>

Exit(w) ==
  /\ pc[w] = "shutdown" /\ todo[w] = {}
  /\ ProcessGone(w)
  /\ UNCHANGED <<dbVars, req, faults>>

\* cleanup_runtime_metadata
Cleanup ==
  LET old == {i \in CmdIds : cmd[i].status \in TerminalStatuses /\ cmd[i].timer < -CmdKeep}
      stale == {s \in Strategies : lease[s].owner # NoOwner /\ lease[s].ttl < -LeaseKeep}
  IN /\ old # {} \/ stale # {}
     /\ cmd' = [i \in CmdIds |->
          IF i \in old THEN Finished(cmd[i], "absent", 0) ELSE cmd[i]]
     /\ lease' = [s \in Strategies |-> IF s \in stale THEN NoLease ELSE lease[s]]
     /\ UNCHANGED <<nextId, desired, execVars, workerVars, req, faults>>

Down(x, floor) == IF x > floor THEN x - 1 ELSE x

AgedCommand(c) ==
  IF c.status = "absent" THEN c ELSE [c EXCEPT !.timer = Down(@, -(CmdKeep + 1))]

AgedLease(l) ==
  IF l.owner = NoOwner THEN l ELSE [l EXCEPT !.ttl = Down(@, -(LeaseKeep + 1))]

\* One tick of the database clock.  MaxStall bounds how long a live worker may
\* take from one loop pass to the next.
Tick ==
  /\ \A w \in Workers : Live(w) => passAge[w] < MaxStall
  /\ cmd' = [i \in CmdIds |-> AgedCommand(cmd[i])]
  /\ lease' = [s \in Strategies |-> AgedLease(lease[s])]
  /\ passAge' = [w \in Workers |-> IF Live(w) THEN passAge[w] + 1 ELSE passAge[w]]
  /\ renewAge' = [w \in Workers |->
       IF Live(w) /\ renewAge[w] < RenewEvery THEN renewAge[w] + 1 ELSE renewAge[w]]
  /\ UNCHANGED <<nextId, desired, execVars, pc, task, todo, req, faults>>

-----------------------------------------------------------------------------
(* Specification *)

RequestStep(r) ==
  \/ Enqueue(r) \/ EndWait(r) \/ MarkStopped(r)

RestoreStep(w) ==
  \/ \E s \in Strategies : RestoreAcquire(w, s)
  \/ RestoreLaunch(w) \/ RestoreRelease(w) \/ RestoreMark(w)

LoopStep(w) ==
  \/ LoopTop(w)
  \/ \E s \in Strategies : RenewOne(w, s)
  \/ \E i \in CmdIds : Claim(w, i)
  \/ ClaimNone(w)

ExecStep(w) ==
  \/ StartCheck(w) \/ StartAcquire(w) \/ StartLaunch(w) \/ StartAwait(w)
  \/ ReleaseThenFail(w) \/ StopRuntime(w) \/ StopRelease(w)
  \/ Complete(w) \/ Fail(w) \/ GiveUp(w)

EndStep(w) == Exit(w) \/ \E s \in Strategies : ShutdownOne(w, s)

WorkerStep(w) == RestoreStep(w) \/ LoopStep(w) \/ ExecStep(w) \/ EndStep(w)

ThreadStep(w, s) == ThreadExit(w, s) \/ ZombieExit(w, s)

FaultStep(w) ==
  \/ Crash(w) \/ Shutdown(w)
  \/ \E s \in Strategies : ThreadCrash(w, s) \/ AutoStop(w, s)

Next ==
  \/ Tick \/ Cleanup
  \/ \E r \in Requests :
       \/ RequestStep(r) \/ EnqueueError(r)
       \/ \E kind \in RequestKinds, s \in Strategies : Issue(r, kind, s)
  \/ \E w \in Workers :
       \/ Boot(w) \/ Heartbeat(w) \/ WorkerStep(w) \/ FaultStep(w)
       \/ \E s \in Strategies : ThreadStep(w, s)

Spec == Init /\ [][Next]_vars

\* Time passes, processes are restarted, and every process, request and thread
\* that can take a step takes one.  Nothing is assumed of faults, of requests
\* being issued or of the maintenance task.
Fairness ==
  /\ WF_vars(Tick)
  /\ \A r \in Requests : WF_vars(RequestStep(r))
  /\ \A w \in Workers :
       /\ WF_vars(Boot(w)) /\ WF_vars(WorkerStep(w)) /\ SF_vars(Heartbeat(w))
       /\ \A s \in Strategies : WF_vars(ThreadStep(w, s))

FairSpec == Spec /\ Fairness
-----------------------------------------------------------------------------
(* Correctness *)

\* The timing the leases are built for: passes of the worker loop are close
\* enough that a renewal comes before the lease ends (a third of the lease for
\* the interval, a third for each of two passes), and a command is finished
\* within its own lease.
Timely == RenewEvery + 2 * MaxStall <= RtLease /\ MaxStall <= CmdLease

\* executor.stop_strategy and renew_strategy_lease do not raise.
NoLeaseFaults == Faults \cap {"stopFail", "renewError"} = {}

\* A strategy runtime requires a renewable row in qd_strategy_runtime_leases:
\* whatever a worker runs, it holds an unexpired lease for, through renewals,
\* takeovers, crashes, failed starts, stops and clean-ups.
RuntimeHoldsLease ==
  \A w \in Workers : \A s \in running[w] : lease[s].owner = w /\ lease[s].ttl >= 0

\* No two workers have the same strategy in running_strategies.
OneRuntime ==
  \A v, w \in Workers : v # w => running[v] \cap running[w] = {}

\* A command in execution is still the executing worker's: no other worker has
\* claimed it again, failed it or swept it as exhausted, although _finish and
\* fail would overwrite it without a look.
CommandOwned ==
  \A w \in Workers : pc[w] \in ExecPCs =>
    LET c == cmd[task[w].id]
    IN /\ c.status = "processing" /\ c.by = w
       /\ c.attempts = task[w].attempts /\ c.timer >= 0

\* A waiting command can still be claimed: a row left pending with its attempts
\* used up is claimed by nobody, failed by nobody, and swallows every later
\* request of its type in enqueue.
PendingIsClaimable ==
  \A i \in CmdIds : cmd[i].status = "pending" => cmd[i].attempts < MaxAttempts

\* enqueue keeps one open command per strategy and type; retries by fail and
\* claims of expired rows never bring back a second one.
OneOpenCommand ==
  \A i, j \in CmdIds :
    /\ cmd[i].status \in OpenStatuses /\ cmd[j].status \in OpenStatuses
    /\ cmd[i].sid = cmd[j].sid /\ cmd[i].type = cmd[j].type
    => i = j

\* A command that reached a terminal status keeps it until the maintenance task
\* deletes the row: no late worker reopens or rewrites it.
TerminalIsFinal ==
  [][\A i \in CmdIds : cmd[i].status \in TerminalStatuses =>
       cmd'[i].status \in {cmd[i].status, "absent"}]_vars

\* A lease changes hands only after it expired, was released by its owner or
\* was deleted long after it expired, and a direct takeover raises the fencing
\* token.
FencedTakeover ==
  [][\A s \in Strategies : lease'[s].owner # lease[s].owner =>
       \/ lease[s].owner = NoOwner
       \/ lease'[s].owner = NoOwner /\
            (lease[s].ttl < 0 \/ \E w \in Workers : w = lease[s].owner /\ s \notin running'[w])
       \/ lease[s].ttl < 0 /\ lease'[s].token > lease[s].token]_vars

\* runners[s] of SingleRuntime: the workers that have s in running_strategies.
Runners == [s \in Strategies |-> {w \in Workers : s \in running[w]}]

Single == INSTANCE SingleRuntime WITH runners <- Runners

\* The workers implement SingleRuntime.
RunsOnce == Single!Spec

\* Every queued command reaches a terminal status, across retries, crashed
\* claimers and leases of dead owners.
CommandsFinish ==
  \A i \in CmdIds : cmd[i].status \in OpenStatuses ~> cmd[i].status \notin OpenStatuses

\* A strategy marked stopped stops running everywhere, threads included, unless
\* it is marked running again.
StopTakesEffect ==
  \A s \in Strategies :
    desired[s] = "stopped" ~>
      \/ desired[s] = "running"
      \/ \A w \in Workers : s \notin running[w] \cup zombie[w]

\* A worker whose lease is gone stops the runtime: however long it stalled, and
\* whoever runs the strategy meanwhile, its next renewal notices, and a renewal
\* or a stop that raised is tried again.
LostLeaseStops ==
  \A w \in Workers, s \in Strategies :
    s \in running[w] /\ ~CanRenew(w, s) ~> s \notin running[w] \/ CanRenew(w, s)

\* A strategy marked running is run by some worker sooner or later, or marked
\* stopped: a restarted process finds it (restore_desired_strategies), or the
\* start command does.  A process that comes back under another id does not,
\* when the lease of its predecessor is still valid at its only restore.
StaleStatusRepaired ==
  \A s \in Strategies :
    desired[s] = "running" ~>
      desired[s] = "stopped" \/ \E w \in Workers : s \in running[w]
-----------------------------------------------------------------------------
(* Inductive invariants *)

\* Worker w executes the command it claimed, within the command's lease: the
\* lease was whole when the pass was passAge[w] ticks younger.
ExecutesOwn(w) ==
  pc[w] \in ExecPCs =>
    LET c == cmd[task[w].id]
    IN /\ task[w].id \in CmdIds /\ c.status = "processing" /\ c.by = w
       /\ c.attempts = task[w].attempts /\ c.timer >= CmdLease - passAge[w]

\* Ids that were not handed out yet have no row.
UnusedIds == \A i \in CmdIds : i >= nextId => cmd[i].status = "absent"

CommandInv ==
  UnusedIds /\ PendingIsClaimable /\ OneOpenCommand /\ \A w \in Workers : ExecutesOwn(w)

\* The lease of s is w's to keep: w runs s, or is about to.
Holds(w, s) ==
  \/ s \in running[w]
  \/ pc[w] \in {"launch", "restLaunch"} /\ task[w].sid = s

\* The renewal of s is still to come in this pass of w's loop.
InRenewal(w, s) == pc[w] = "renew" /\ s \in todo[w]

\* How much of a lease is left at least, from the age of the loop pass and of
\* the last renewal: a lease still to be renewed in this pass has been carried
\* over from the pass before.
LeaseLeft(w, s) ==
  /\ lease[s].ttl >= RtLease - RenewEvery - passAge[w]
                      - (IF InRenewal(w, s) THEN MaxStall ELSE 0)
  /\ renewAge[w] < RenewEvery /\ ~InRenewal(w, s) => lease[s].ttl >= RtLease - renewAge[w]

HeldLeases(w) ==
  \A s \in Strategies : Holds(w, s) => lease[s].owner = w /\ LeaseLeft(w, s)

\* A process that is not there runs nothing, and where a worker acquires or
\* releases a lease for its task the strategy is not among its runtimes.
LocalInv(w) ==
  /\ pc[w] \in {"off", "dead"} => running[w] = {}
  /\ pc[w] \in RestorePCs => todo[w] \cap running[w] = {}
  /\ pc[w] \in RestorePCs \ {"restore"} => task[w].sid \notin running[w] \cup todo[w]
  /\ pc[w] \in {"acquire", "launch", "relFail", "release"} => task[w].sid \notin running[w]

LeaseInv == \A w \in Workers : LocalInv(w) /\ HeldLeases(w)
=============================================================================
