---------------------------- MODULE AgentGateway -----------------------------
(***************************************************************************)
(* The agent gateway: mutating calls of one agent token, made safe to      *)
(* repeat by an idempotency key.  Two routes are modelled, the live quick  *)
(* order with its daily notional cap and the backtest with its job, the    *)
(* Celery message or thread that runs the job, and the clients that follow *)
(* it.  Every database transaction, broker call and venue call is one      *)
(* step; a process may die between any two of them.                        *)
(*                                                                         *)
(* A call that is answered from the idempotency table without doing        *)
(* anything (a replay, a mismatch, one still in progress) changes no state *)
(* and is no step.  An order's notional is estimated the same way each     *)
(* time it is sent.  Paper orders and the kill switch are left out.        *)
(***************************************************************************)
EXTENDS Integers, FiniteSets, Totals

CONSTANTS
  OrderKeys,   \* idempotency keys used on the order route
  JobKeys,     \* idempotency keys used on the backtest route
  NoKey,       \* not a key
  Bodies,      \* request bodies, told apart by their fingerprint
  Handlers,    \* API processes, each serving one call at a time
  NoHandler,   \* not a handler
  Grants,      \* sets of scopes the token may have: "T" trading, "B" backtests
  Clients,     \* clients following a job
  Notional,    \* estimated notional of the order behind a key
  DailyCap,    \* max_daily_notional of the token
  JobCap,      \* concurrent jobs a token may have
  Modes,       \* where jobs run: "celery", "local" (a thread of the API process)
  Faults,      \* faults that may happen, a subset of FaultKinds
  MaxFaults    \* bound on the number of faults, each kind at most once

\* An API process or a Celery worker dies; the broker refuses a message; the
\* completion of a key, the record of an order or the lookup of a job fails; an
\* order is accepted and its placement raises all the same.
FaultKinds == {"crash", "workerCrash", "broker", "complete", "record", "lookup",
               "lostReply"}

Keys == OrderKeys \cup JobKeys

ASSUME KeysAssumption ==
  /\ OrderKeys \cap JobKeys = {} /\ NoKey \notin Keys /\ NoHandler \notin Handlers
  /\ IsFiniteSet(OrderKeys)
ASSUME CapsAssumption ==
  /\ Notional \in [OrderKeys -> Nat] /\ DailyCap \in Nat
  /\ JobCap \in Nat \ {0} /\ Modes \subseteq {"celery", "local"}
  /\ Grants \subseteq SUBSET {"T", "B"}
ASSUME FaultsAssumption == Faults \subseteq FaultKinds /\ MaxFaults \in Nat

VARIABLES
  scopes,      \* the scopes of the token
  idem,        \* qd_agent_idempotency
  handler,     \* the call each API process is serving
  reservation, \* qd_agent_notional_reservations, status per key
  placed,      \* venue orders placed, per key
  recorded,    \* order keys with a completed row in qd_agent_jobs
  job,         \* the other rows of qd_agent_jobs, one per key
  message,     \* the Celery message of a job
  runner,      \* the execution of a job
  told,        \* what each client was told of the end of each job
  faults       \* the kinds of fault that have happened

callVars == <<idem, handler>>
orderVars == <<reservation, placed, recorded>>
jobVars == <<job, message, runner>>
vars == <<scopes, callVars, orderVars, jobVars, told, faults>>

-----------------------------------------------------------------------------
(* Data *)

NoCall == [pc |-> "idle", key |-> NoKey]

NoJob == [st |-> "none", mode |-> "none", owner |-> NoHandler]

Active == {"queued", "running"}
Terminal == {"succeeded", "failed", "cancelled"}

\* A key was not touched for the time to live of a call in progress: the process
\* that served it is gone.
Stale(k) == \A h \in Handlers : handler[h].key # k

ActiveJobs == Cardinality({k \in JobKeys : job[k].st \in Active})

Goto(h, pc) == handler' = [handler EXCEPT ![h].pc = pc]

\* A fault of kind f happens in this step; no fault of these kinds has happened.
Fault(f) ==
  /\ f \in Faults \ faults /\ Cardinality(faults) < MaxFaults
  /\ faults' = faults \cup {f}
Without(kinds) == faults \cap kinds = {}

Init ==
  /\ scopes \in Grants
  /\ idem = [k \in Keys |-> [st |-> "none", body |-> "none"]]
  /\ handler = [h \in Handlers |-> NoCall]
  /\ reservation = [k \in OrderKeys |-> "none"]
  /\ placed = [k \in OrderKeys |-> 0]
  /\ recorded = {}
  /\ job = [k \in JobKeys |-> NoJob]
  /\ message = [k \in JobKeys |-> "none"]
  /\ runner = [k \in JobKeys |-> "idle"]
  /\ told = [c \in Clients |-> [k \in JobKeys |-> "none"]]
  /\ faults = {}

-----------------------------------------------------------------------------
(* Calls and their keys *)

\* The key is new, or its call with the same body was given up.
Reservable(k, b) ==
  \/ idem[k].st = "none"
  \/ idem[k].st = "started" /\ idem[k].body = b /\ Stale(k)

\* A call reserves its key and goes on to its route.
ReserveIdempotency(h, k, b) ==
  /\ handler[h].pc = "idle" /\ Reservable(k, b)
  /\ (IF k \in OrderKeys THEN "T" ELSE "B") \in scopes
  /\ idem' = [idem EXCEPT ![k] = [st |-> "started", body |-> b]]
  /\ handler' = [handler EXCEPT ![h] =
       [pc |-> IF k \in OrderKeys THEN "lookup" ELSE "count", key |-> k]]
  /\ UNCHANGED <<scopes, orderVars, jobVars, told, faults>>

\* The answer is stored under the key, or the write fails, and the call ends.
CompleteIdempotency(h) ==
  /\ handler[h].pc = "complete"
  /\ \/ /\ idem' = [idem EXCEPT ![handler[h].key].st = "completed"]
        /\ UNCHANGED faults
     \/ Fault("complete") /\ UNCHANGED idem
  /\ handler' = [handler EXCEPT ![h] = NoCall]
  /\ UNCHANGED <<scopes, orderVars, jobVars, told>>

\* The route refuses the call: its parameters, permissions or price.
RefuseCall(h) ==
  /\ handler[h].pc \in {"lookup", "count"}
  /\ Goto(h, "complete")
  /\ UNCHANGED <<scopes, idem, orderVars, jobVars, told, faults>>

\* A job row of the key exists.
HasJobRow(k) == IF k \in OrderKeys THEN k \in recorded ELSE job[k].st # "none"

\* with_idempotency: a row of an earlier call answers this one.  When the
\* lookup fails the call goes on as if there was none.
WithIdempotency(h) ==
  LET k == handler[h].key IN
  /\ handler[h].pc = "lookup"
  /\ \/ /\ Goto(h, IF HasJobRow(k) THEN "complete"
                   ELSE IF k \in OrderKeys THEN "reserve" ELSE "insert")
        /\ UNCHANGED faults
     \/ /\ Fault("lookup")
        /\ Goto(h, IF k \in OrderKeys THEN "reserve" ELSE "insert")
  /\ UNCHANGED <<scopes, idem, orderVars, jobVars, told>>

-----------------------------------------------------------------------------
(* The live quick order *)

\* Mutant: only orders that went through count against the cap.
CountsExecuted(k) == reservation[k] = "executed"

\* A reservation counts against the cap until its order has failed.
CountsAgainstCap(k) == reservation[k] \in {"reserved", "executed"}

UsedToday ==
  Total([k \in OrderKeys |-> IF CountsAgainstCap(k) THEN Notional[k] ELSE 0])

\* One transaction under the lock of the token row: the sum of the day, the
\* cap, and a reservation unless the key has one.
ReserveLiveNotional(h) ==
  LET k == handler[h].key
      fits == UsedToday + Notional[k] <= DailyCap
  IN /\ handler[h].pc = "reserve"
     /\ reservation' = [reservation EXCEPT ![k] =
          IF fits /\ @ = "none" THEN "reserved" ELSE @]
     /\ Goto(h, IF fits THEN "place" ELSE "complete")
     /\ UNCHANGED <<scopes, idem, placed, recorded, jobVars, told, faults>>

\* The venue accepts the order.
PlaceLiveOrder(h) ==
  /\ handler[h].pc = "place"
  /\ placed' = [placed EXCEPT ![handler[h].key] = @ + 1]
  /\ Goto(h, "finish")
  /\ UNCHANGED <<scopes, idem, reservation, recorded, jobVars, told, faults>>

\* The placement raises, before or after the venue accepted the order.
PlaceLiveFails(h) ==
  /\ handler[h].pc = "place"
  /\ \/ UNCHANGED <<placed, faults>>
     \/ /\ Fault("lostReply")
        /\ placed' = [placed EXCEPT ![handler[h].key] = @ + 1]
  /\ reservation' = [reservation EXCEPT ![handler[h].key] = "failed"]
  /\ Goto(h, "complete")
  /\ UNCHANGED <<scopes, idem, recorded, jobVars, told>>

\* The reservation becomes final.
FinishLiveNotional(h) ==
  /\ handler[h].pc = "finish"
  /\ reservation' = [reservation EXCEPT ![handler[h].key] = "executed"]
  /\ Goto(h, "record")
  /\ UNCHANGED <<scopes, idem, placed, recorded, jobVars, told, faults>>

\* Mutant: the order leaves no row for a later replay.
NoCompletedRow(k) == recorded

\* A completed row is inserted for the key.
CompletedRows(k) == recorded \cup {k}

\* The order is recorded for replay; when that fails the call answers an error.
RecordCompletedJob(h) ==
  /\ handler[h].pc = "record"
  /\ \/ recorded' = CompletedRows(handler[h].key) /\ UNCHANGED faults
     \/ Fault("record") /\ UNCHANGED recorded
  /\ Goto(h, "complete")
  /\ UNCHANGED <<scopes, idem, reservation, placed, jobVars, told>>

-----------------------------------------------------------------------------
(* The backtest and its job *)

\* The call counts the active jobs: at the cap it is refused.
CountActiveJobs(h) ==
  /\ handler[h].pc = "count"
  /\ Goto(h, IF ActiveJobs >= JobCap THEN "complete" ELSE "lookup")
  /\ UNCHANGED <<scopes, idem, orderVars, jobVars, told, faults>>

\* The job row is inserted; a second row for the key is an error.
InsertJob(h) ==
  LET k == handler[h].key IN
  /\ handler[h].pc = "insert"
  /\ IF job[k].st = "none"
       THEN /\ \E m \in Modes :
                 job' = [job EXCEPT ![k] = [st |-> "queued", mode |-> m, owner |-> h]]
            /\ Goto(h, "enqueue")
       ELSE Goto(h, "complete") /\ UNCHANGED job
  /\ UNCHANGED <<scopes, idem, orderVars, message, runner, told, faults>>

\* The job is handed to Celery or to the thread pool.
EnqueueJob(h) ==
  LET k == handler[h].key IN
  /\ handler[h].pc = "enqueue"
  /\ \/ /\ IF job[k].mode = "celery"
             THEN message' = [message EXCEPT ![k] = "queued"] /\ UNCHANGED runner
             ELSE runner' = [runner EXCEPT ![k] = "start"] /\ UNCHANGED message
        /\ UNCHANGED faults
     \/ job[k].mode = "celery" /\ Fault("broker") /\ UNCHANGED <<message, runner>>
  /\ Goto(h, "complete")
  /\ UNCHANGED <<scopes, idem, orderVars, job, told>>

\* Mutant: a redelivered message runs its job whatever became of it.
AlwaysRuns(st) == TRUE

\* The statuses for which a delivered message still runs its job.
StillToRun(st) == st \notin {"succeeded", "cancelled"}

\* A Celery worker takes the message; it is acknowledged only at the end.
TakeMessage(k) ==
  /\ message[k] = "queued"
  /\ IF StillToRun(job[k].st)
       THEN /\ message' = [message EXCEPT ![k] = "taken"]
            /\ runner' = [runner EXCEPT ![k] = "start"]
       ELSE message' = [message EXCEPT ![k] = "acked"] /\ UNCHANGED runner
  /\ UNCHANGED <<scopes, callVars, orderVars, job, told, faults>>

\* Mutant: the outcome is stored under a name no reader knows.
StatusDone(k, st) == [job EXCEPT ![k].st = IF @ = "cancelled" THEN @ ELSE "done"]

\* _set_status, _set_result, _set_failure: a cancelled row keeps its status.
SetStatus(k, st) == [job EXCEPT ![k].st = IF @ = "cancelled" THEN @ ELSE st]

\* The job is marked running.  A thread that finds it cancelled stops there, a
\* Celery worker computes on.
StartJob(k) ==
  /\ runner[k] = "start"
  /\ job' = SetStatus(k, "running")
  /\ runner' = [runner EXCEPT ![k] =
       IF job[k].mode = "local" /\ job[k].st = "cancelled" THEN "idle" ELSE "running"]
  /\ UNCHANGED <<scopes, callVars, orderVars, message, told, faults>>

\* The runner returns or raises and its outcome is stored.
FinishJob(k) ==
  /\ runner[k] = "running"
  /\ \E st \in {"succeeded", "failed"} : job' = SetStatus(k, st)
  /\ runner' = [runner EXCEPT ![k] = "publish"]
  /\ UNCHANGED <<scopes, callVars, orderVars, message, told, faults>>

\* The last progress event is published and the message acknowledged.
AckJob(k) ==
  /\ runner[k] = "publish"
  /\ runner' = [runner EXCEPT ![k] = "idle"]
  /\ message' = [message EXCEPT ![k] = IF @ = "taken" THEN "acked" ELSE @]
  /\ UNCHANGED <<scopes, callVars, orderVars, job, told, faults>>

\* The user cancels a queued or running job.
CancelJob(k) ==
  /\ job[k].st \in Active
  /\ job' = [job EXCEPT ![k].st = "cancelled"]
  /\ UNCHANGED <<scopes, callVars, orderVars, message, runner, told, faults>>

\* A client that follows a job is told its end once the row shows one.
StreamResult(c, k) ==
  /\ told[c][k] = "none" /\ job[k].st \in Terminal
  /\ told' = [told EXCEPT ![c][k] = job[k].st]
  /\ UNCHANGED <<scopes, callVars, orderVars, jobVars, faults>>

-----------------------------------------------------------------------------
(* Crashes *)

\* Mutant: the message is acknowledged when it is taken.
LostMessage(m) == m

\* A message that was not acknowledged is delivered again.
Redelivered(m) == IF m = "taken" THEN "queued" ELSE m

\* A Celery worker dies in the middle of a job.
WorkerCrash(k) ==
  /\ runner[k] # "idle" /\ job[k].mode = "celery"
  /\ Fault("workerCrash")
  /\ runner' = [runner EXCEPT ![k] = "idle"]
  /\ message' = [message EXCEPT ![k] = Redelivered(@)]
  /\ UNCHANGED <<scopes, callVars, orderVars, job, told>>

\* An API process dies with its call and with the jobs on its threads.
Crash(h) ==
  /\ \/ handler[h].pc # "idle"
     \/ \E k \in JobKeys :
          runner[k] # "idle" /\ job[k].mode = "local" /\ job[k].owner = h
  /\ Fault("crash")
  /\ handler' = [handler EXCEPT ![h] = NoCall]
  /\ runner' = [k \in JobKeys |->
       IF job[k].mode = "local" /\ job[k].owner = h THEN "idle" ELSE runner[k]]
  /\ UNCHANGED <<scopes, idem, orderVars, job, message, told>>

CallStep(h) ==
  \/ CompleteIdempotency(h) \/ RefuseCall(h) \/ WithIdempotency(h)
  \/ ReserveLiveNotional(h) \/ PlaceLiveOrder(h) \/ PlaceLiveFails(h)
  \/ FinishLiveNotional(h) \/ RecordCompletedJob(h)
  \/ CountActiveJobs(h) \/ InsertJob(h) \/ EnqueueJob(h)

JobStep(k) == TakeMessage(k) \/ StartJob(k) \/ FinishJob(k) \/ AckJob(k)

Next ==
  \/ \E h \in Handlers, k \in Keys, b \in Bodies : ReserveIdempotency(h, k, b)
  \/ \E h \in Handlers : CallStep(h) \/ Crash(h)
  \/ \E k \in JobKeys : JobStep(k) \/ CancelJob(k) \/ WorkerCrash(k)
  \/ \E c \in Clients, k \in JobKeys : StreamResult(c, k)

Spec == Init /\ [][Next]_vars

\* A call and a job go on once begun, a worker takes what is queued, and a
\* client keeps polling.  Nobody has to call or to cancel.
Fairness ==
  /\ \A h \in Handlers : WF_vars(CallStep(h))
  /\ \A k \in JobKeys : WF_vars(JobStep(k))
  /\ \A c \in Clients, k \in JobKeys : WF_vars(StreamResult(c, k))

FairSpec == Spec /\ Fairness

-----------------------------------------------------------------------------
(* Properties *)

\* The rows of the tables and the calls.
IdemRow == [st : {"none", "started", "completed"}, body : Bodies \cup {"none"}]
CallPcs == {"idle", "lookup", "count", "reserve", "place", "finish", "record",
            "insert", "enqueue", "complete"}
Call == [pc : CallPcs, key : Keys \cup {NoKey}]
JobRow == [st : {"none"} \cup Active \cup Terminal,
           mode : {"none", "celery", "local"}, owner : Handlers \cup {NoHandler}]

\* Type invariant of the gateway's tables, calls and executions.
GatewayTypeOK ==
  /\ scopes \in Grants
  /\ idem \in [Keys -> IdemRow]
  /\ handler \in [Handlers -> Call]
  /\ reservation \in [OrderKeys -> {"none", "reserved", "executed", "failed"}]
  /\ placed \in [OrderKeys -> Nat] /\ recorded \subseteq OrderKeys
  /\ job \in [JobKeys -> JobRow]
  /\ message \in [JobKeys -> {"none", "queued", "taken", "acked"}]
  /\ runner \in [JobKeys -> {"idle", "start", "running", "publish"}]
  /\ told \in [Clients -> [JobKeys -> {"none"} \cup Terminal]]
  /\ faults \subseteq Faults

\* However often a call is sent again, its key buys one venue order: the
\* reservation of the key keeps concurrent calls out, and when storing the
\* answer fails the completed row stops the retry.  A process that dies after
\* the placement does break it, and so does a lost answer when the completed
\* row was not written or not found either.
OrderOnce ==
  /\ Without({"crash"})
  /\ Without({"complete"}) \/ Without({"record", "lookup", "lostReply"})
  => \A k \in OrderKeys : placed[k] <= 1

\* The orders at the venue never exceed the daily notional of the token,
\* however the calls of several keys interleave.  Three things do break it: an
\* order at the venue whose placement raised, a process that dies after a
\* placement, and a retry after the stored answer was lost, whose reservation
\* is still the failed one of the first try while its order is placed.
DailyCapHolds ==
  Without({"crash", "lostReply", "complete"}) =>
    Total([k \in OrderKeys |-> placed[k] * Notional[k]]) <= DailyCap

\* What a client was told is how the job ended: it can change only when the
\* worker died between storing a failure and acknowledging the message.
ToldIsFinal ==
  \A c \in Clients, k \in JobKeys :
    told[c][k] # "none" /\ told[c][k] # job[k].st =>
      told[c][k] = "failed" /\ ~Without({"workerCrash"})

\* A job that was inserted comes to an end and its clients learn of it, even
\* when workers die on it.  The death of the API process or a refusal by the
\* broker between the insert and the hand-over leaves it queued for ever.
JobEnds ==
  \A c \in Clients, k \in JobKeys :
    job[k].st = "queued" ~> (told[c][k] # "none" \/ ~Without({"crash", "broker"}))
-----------------------------------------------------------------------------
(* The inductive invariants behind the safety properties *)

OrderPcs == {"lookup", "reserve", "place", "finish", "record", "complete"}
JobPcs == {"count", "lookup", "insert", "enqueue", "complete"}

\* A handler is idle or has a key, and stands where the route of the key leads.
RouteInv ==
  \A h \in Handlers :
    \/ handler[h] = NoCall
    \/ handler[h].key \in OrderKeys /\ handler[h].pc \in OrderPcs
    \/ handler[h].key \in JobKeys /\ handler[h].pc \in JobPcs

\* A key that is being served is reserved, and served by one handler.
KeyInv ==
  /\ \A h \in Handlers : handler[h] # NoCall => idem[handler[h].key].st = "started"
  /\ \A g, h \in Handlers :
       handler[g] # NoCall /\ handler[g].key = handler[h].key => g = h

\* Before its call has come to the placement, a key has no order.
NoOrderYet(h) == placed[handler[h].key] = 0

\* While every call stores its answer, an open key is being served, so that no
\* call ever runs for the second time.
FirstTryInv ==
  Without({"crash", "complete"}) =>
    /\ \A k \in Keys :
         idem[k].st = "started" => \E h \in Handlers : handler[h].key = k
    /\ \A k \in OrderKeys :
         /\ placed[k] <= 1
         /\ idem[k].st = "none" => placed[k] = 0 /\ reservation[k] = "none"
    /\ \A h \in Handlers :
         /\ handler[h].key \in OrderKeys /\ handler[h].pc \in {"lookup", "reserve", "place"}
              => NoOrderYet(h)
         /\ handler[h].key \in OrderKeys /\ handler[h].pc \in {"lookup", "reserve"}
              => reservation[handler[h].key] = "none"
         /\ handler[h].pc \in {"place", "finish"} => reservation[handler[h].key] = "reserved"

\* While every order is recorded and every record found, a key with an order has
\* its record, or the call that placed the order is about to write it.
RecordInv ==
  Without({"crash", "record", "lookup", "lostReply"}) =>
    \A k \in OrderKeys :
      /\ placed[k] <= 1
      /\ placed[k] = 1 => \/ k \in recorded
                          \/ \E h \in Handlers :
                               handler[h].key = k /\ handler[h].pc \in {"finish", "record"}
      /\ \A h \in Handlers :
           handler[h].key = k /\ handler[h].pc \in {"reserve", "place"} => NoOrderYet(h)

\* Every order at the venue counts against the cap, which the reservations keep.
CapInv ==
  Without({"crash", "lostReply", "complete"}) =>
    /\ \A k \in OrderKeys : placed[k] > 0 => CountsAgainstCap(k)
    /\ UsedToday <= DailyCap

\* One execution of a job at a time: a waiting message finds it idle, and only a
\* worker that dies brings an ended job back.
JobOK(k) ==
  /\ job[k].st = "none" => message[k] = "none" /\ runner[k] = "idle"
  /\ message[k] = "queued" => runner[k] = "idle"
  /\ runner[k] = "start" => job[k].st # "succeeded"
  /\ runner[k] = "running" => job[k].st \in {"running", "cancelled"}
  /\ (runner[k] = "start" \/ message[k] = "queued") /\ Without({"workerCrash"})
       => job[k].st \in {"queued", "cancelled"}

\* So does a call about to hand the job over.
JobInv ==
  /\ \A k \in JobKeys : JobOK(k)
  /\ \A h \in Handlers : handler[h].pc = "enqueue" =>
       /\ message[handler[h].key] = "none" /\ runner[handler[h].key] = "idle"
       /\ job[handler[h].key].st \in {"queued", "cancelled"}
=============================================================================
