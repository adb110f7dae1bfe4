---------------------------- MODULE PendingOrders ----------------------------
(***************************************************************************)
(* The pending_orders queue: a live strategy session inserts a row, a      *)
(* PendingOrderWorker claims it, sends it to the venue and stores the      *)
(* result, and the same worker later reconciles the rows that were sent    *)
(* until the venue has finished with them.  Every UPDATE of the code is    *)
(* one step, every call to the venue another, so that two workers, the     *)
(* venue and a crash can come between any two of them.                     *)
(*                                                                         *)
(* A quantity is a number of equal units.  Prices, fees, notifications and *)
(* native protection are left out, except that a fill may be reported      *)
(* before its price.  All the orders belong to one strategy run and one    *)
(* position lane, the unit in which the gateway serialises live orders.    *)
(***************************************************************************)
EXTENDS Integers, FiniteSets, Totals

CONSTANTS
  Orders,       \* idempotency keys of the lane: at most one row each
  Procs,        \* processes whose PendingOrderWorker thread is running
  NoOrder,      \* not an order
  Algos,        \* kinds of order the session queues, a subset of AlgoKinds
  Amount,       \* requested quantity, in units
  MaxAttempts,  \* pending_orders.max_attempts
  Slow,         \* TRUE: a dispatch or a sync may outlast the stale time
  Faults,       \* faults that may happen, a subset of FaultKinds
  MaxFaults     \* bound on the number of faults, each kind at most once

AlgoKinds == {"signal", "market", "limit", "maker", "alpaca"}

\* A worker dies in a dispatch or in a sync, the answer to a placement is lost, a
\* query fails, a fill comes without its price, a projection raises, a REST
\* audit falls due while the private stream is up.
FaultKinds == {"crash", "syncCrash", "lostReply", "query", "noPrice", "project",
               "audit"}

ASSUME OrdersAssumption == NoOrder \notin Orders
ASSUME ProcsAssumption == IsFiniteSet(Procs)
ASSUME AmountAssumption == Amount \in Nat \ {0}
ASSUME AttemptsAssumption == MaxAttempts \in Nat \ {0}
ASSUME SlowAssumption == Slow \in BOOLEAN
ASSUME AlgosAssumption == Algos \subseteq AlgoKinds
ASSUME FaultsAssumption == Faults \subseteq FaultKinds /\ MaxFaults \in Nat

VARIABLES
  row,       \* the pending_orders table
  venue,     \* the orders the venue holds, by the client order id they carry
  traded,    \* quantity in qd_strategy_trades, per order
  applied,   \* quantity applied to the local position, per order
  worker,    \* what each worker thread is doing
  faults     \* the kinds of fault that have happened

vars == <<row, venue, traded, applied, worker, faults>>

-----------------------------------------------------------------------------
(* Data *)

\* The states of a row; "none" is a key that has not been inserted.
Statuses == {"none", "pending", "processing", "sent", "syncing",
             "filled", "cancelled", "failed"}

\* Statuses that keep the lane of an order busy.
ActivePending == {"pending", "processing", "sent", "syncing"}

\* The client order ids of an order: one per phase on the crypto venues, a new
\* venue order for every submission to a broker.
Legs == {<<"lmt", 0>>, <<"mkt", 0>>} \cup ({"new"} \X (1 .. MaxAttempts))

NoLeg == <<"none", 0>>

\* Mutant: the attempt is part of the client order id.
ClientIdPerAttempt(algo, phase, attempt) == <<"new", attempt>>

\* The client order id of a phase of an order.
ClientId(algo, phase, attempt) ==
  IF algo = "alpaca" THEN <<"new", attempt>> ELSE <<phase, 0>>

NoRow == [st |-> "none", algo |-> "none", attempts |-> 0, filled |-> 0,
          tracked |-> -1, leg |-> NoLeg]

Idle == [pc |-> "idle", ord |-> NoOrder, attempt |-> 0, lim |-> 0, got |-> 0,
         mkt |-> -1, leg |-> NoLeg, vst |-> "none", prev |-> 0, base |-> 0,
         cum |-> 0, delta |-> 0, after |-> "idle"]

Unplaced == [st |-> "none", qty |-> 0, fill |-> 0]

Pcs == {"idle", "dispatch", "wait", "cancel", "market", "sent", "record",
        "position", "trade", "query", "snapshot"}

MaxOf(a, b) == IF a >= b THEN a ELSE b

\* Mutant: any fill at all closes the row.
IsAnyFill(filled, status) == filled > 0

\* A fill is final when the venue says so or the whole quantity is there.
IsFinalFill(filled, status) ==
  filled > 0 /\ (status = "filled" \/ filled >= Amount)

Syncing(p) == worker[p].pc = "query" \/ worker[p].after = "snapshot"
Busy(o) == \E p \in Procs : worker[p].ord = o

\* The row was not touched for the stale time: its worker is gone, or slow.
Stale(o) == Slow \/ ~Busy(o)

\* The quantity the venue has filled for an order, over all its legs.
VenueFill(o) == Total([l \in Legs |-> venue[o][l].fill])

\* The quantity the venue has filled or may still fill for an order.
Exposure(o) ==
  Total([l \in Legs |-> IF venue[o][l].st \in {"open", "filled"}
                          THEN venue[o][l].qty ELSE venue[o][l].fill])

\* The new row of an order, the new state of a worker thread.
SetRow(o, r) == row' = [row EXCEPT ![o] = r]
SetWorker(p, w) == worker' = [worker EXCEPT ![p] = w]

\* A fault of kind k happens in this step.
Fault(k) ==
  /\ k \in Faults \ faults /\ Cardinality(faults) < MaxFaults
  /\ faults' = faults \cup {k}

\* No fault of these kinds has happened.
Without(kinds) == faults \cap kinds = {}

Init ==
  /\ row = [o \in Orders |-> NoRow]
  /\ venue = [o \in Orders |-> [l \in Legs |-> Unplaced]]
  /\ traded = [o \in Orders |-> 0]
  /\ applied = [o \in Orders |-> 0]
  /\ worker = [p \in Procs |-> Idle]
  /\ faults = {}

-----------------------------------------------------------------------------
(* The strategy session *)

\* Mutant: a second live order does not wait for the first one on its lane.
NotInFlight(algo) == FALSE

\* The lane of a live order already has work in flight.
HasInflight(algo) ==
  algo # "signal" /\ \E o \in Orders : row[o].st \in ActivePending

\* A session queues an order: one row per idempotency key.
Submit(o) ==
  /\ row[o].st = "none"
  /\ \E a \in Algos :
       /\ ~HasInflight(a)
       /\ SetRow(o, [NoRow EXCEPT !.st = "pending", !.algo = a])
  /\ UNCHANGED <<venue, traded, applied, worker, faults>>

-----------------------------------------------------------------------------
(* Dispatch *)

\* Mutant: a stale row is never given back.
NoRequeue(o) == FALSE /\ UNCHANGED vars

\* A tick gives a stale processing row back while attempts are left.
RequeueProcessing(o) ==
  /\ \E p \in Procs : worker[p].pc = "idle"
  /\ row[o].st = "processing" /\ Stale(o) /\ row[o].attempts < MaxAttempts
  /\ SetRow(o, [row[o] EXCEPT !.st = "pending"])
  /\ UNCHANGED <<venue, traded, applied, worker, faults>>

\* A worker claims a pending row.
Claim(p, o) ==
  /\ worker[p].pc = "idle"
  /\ row[o].st = "pending" /\ row[o].attempts < MaxAttempts
  /\ SetRow(o, [row[o] EXCEPT !.st = "processing", !.attempts = @ + 1])
  /\ SetWorker(p, [Idle EXCEPT !.pc = "dispatch", !.ord = o,
                              !.attempt = row[o].attempts + 1])
  /\ UNCHANGED <<venue, traded, applied, faults>>

\* The row fails, whatever its status is by now, and the worker moves on.
MarkFailed(p) ==
  /\ SetRow(worker[p].ord, [row[worker[p].ord] EXCEPT !.st = "failed"])
  /\ SetWorker(p, Idle)
  /\ UNCHANGED <<traded, applied>>

\* The order's context, client, budget or position guard refuses it.
RejectDispatch(p) ==
  /\ worker[p].pc = "dispatch"
  /\ MarkFailed(p)
  /\ UNCHANGED <<venue, faults>>

\* A signal-only order is a notification: some channel took it, or none did.
NotifySignal(p) ==
  LET o == worker[p].ord IN
  /\ worker[p].pc = "dispatch" /\ row[o].algo = "signal"
  /\ \E st \in {"sent", "failed"} : SetRow(o, [row[o] EXCEPT !.st = st])
  /\ SetWorker(p, Idle)
  /\ UNCHANGED <<venue, traded, applied, faults>>

\* What a worker about to place an order places, and with which client id.
PlacePhase(p) ==
  IF worker[p].pc = "dispatch" /\ row[worker[p].ord].algo \in {"limit", "maker"}
    THEN "lmt" ELSE "mkt"

PlaceLeg(p) ==
  ClientId(row[worker[p].ord].algo, PlacePhase(p), worker[p].attempt)

Placing(p) ==
  \/ worker[p].pc = "dispatch" /\ row[worker[p].ord].algo # "signal"
  \/ worker[p].pc = "market"

\* The venue accepts an order under an id it has not seen.
VenueAccepts(p) ==
  /\ venue[worker[p].ord][PlaceLeg(p)].st = "none"
  /\ venue' = [venue EXCEPT ![worker[p].ord][PlaceLeg(p)] =
                 [st |-> "open", qty |-> Amount - worker[p].lim, fill |-> 0]]

\* The order is placed and the worker reads the answer.
Place(p) ==
  /\ Placing(p)
  /\ VenueAccepts(p)
  /\ SetWorker(p, [worker[p] EXCEPT
       !.pc = IF row[worker[p].ord].algo = "limit" THEN "sent" ELSE "wait",
       !.leg = PlaceLeg(p),
       !.mkt = IF worker[p].pc = "market" THEN 0 ELSE -1])
  /\ UNCHANGED <<row, traded, applied, faults>>

\* The venue refuses the order: a duplicate client id, or any other reason.
PlaceRefused(p) ==
  /\ Placing(p)
  /\ MarkFailed(p)
  /\ UNCHANGED <<venue, faults>>

\* The venue accepts the order and the answer is lost.
PlaceLost(p) ==
  /\ Placing(p)
  /\ Fault("lostReply")
  /\ VenueAccepts(p)
  /\ MarkFailed(p)

\* The venue's record of the leg a worker is on.
CurrentLeg(p) == venue[worker[p].ord][worker[p].leg]

\* The limit leg of a maker order has been watched long enough.
WaitLimit(p) ==
  LET v == CurrentLeg(p) IN
  /\ worker[p].pc = "wait" /\ worker[p].leg = <<"lmt", 0>>
  /\ SetWorker(p, IF IsFinalFill(v.fill, v.st)
       THEN [worker[p] EXCEPT !.pc = "sent", !.got = v.fill, !.vst = v.st]
       ELSE [worker[p] EXCEPT !.pc = "cancel", !.lim = v.fill])
  /\ UNCHANGED <<row, venue, traded, applied, faults>>

\* A market leg has been watched long enough: what it filled is the result.
WaitMarket(p) ==
  LET v == CurrentLeg(p) IN
  /\ worker[p].pc = "wait" /\ worker[p].leg # <<"lmt", 0>>
  /\ SetWorker(p, [worker[p] EXCEPT !.pc = "sent", !.got = worker[p].lim + v.fill,
                     !.mkt = IF @ < 0 THEN @ ELSE v.fill, !.vst = v.st])
  /\ UNCHANGED <<row, venue, traded, applied, faults>>

\* The rest of the limit leg is cancelled before the market leg is placed.  A
\* leg that is finished by then may make the venue refuse the cancel, which
\* fails the row.
CancelLimit(p) ==
  /\ worker[p].pc = "cancel"
  /\ \/ /\ venue' = IF CurrentLeg(p).st = "open"
                      THEN [venue EXCEPT ![worker[p].ord][worker[p].leg].st = "cancelled"]
                      ELSE venue
        /\ SetWorker(p, [worker[p] EXCEPT !.pc = "market"])
        /\ UNCHANGED <<row, traded, applied>>
     \/ /\ CurrentLeg(p).st # "open"
        /\ MarkFailed(p)
        /\ UNCHANGED venue
  /\ UNCHANGED faults

\* The fill a dispatch reports: a zero is looked up once more.
FinalFill(p) ==
  IF worker[p].got = 0 /\ row[worker[p].ord].algo # "alpaca"
    THEN CurrentLeg(p).fill ELSE worker[p].got

\* The result of the dispatch is stored, over whatever the row says by now.
MarkSent(p) ==
  LET o == worker[p].ord
      f == FinalFill(p)
  IN /\ worker[p].pc = "sent"
     /\ SetRow(o, [row[o] EXCEPT
          !.st = IF @ = "filled" \/ IsFinalFill(f, worker[p].vst)
                   THEN "filled" ELSE "sent",
          !.filled = MaxOf(@, f),
          !.tracked = worker[p].mkt,
          !.leg = worker[p].leg])
     /\ SetWorker(p, [worker[p] EXCEPT !.pc = "record", !.got = f])
     /\ UNCHANGED <<venue, traded, applied, faults>>

\* What is left to record of a cumulative fill.
UnrecordedPendingFill(o, cumulative) == MaxOf(0, cumulative - traded[o])

\* The dispatch reads what the trades already hold.
ReadUnrecorded(p) ==
  LET d == UnrecordedPendingFill(worker[p].ord, worker[p].got) IN
  /\ worker[p].pc = "record"
  /\ SetWorker(p, IF d > 0 THEN [worker[p] EXCEPT !.pc = "position", !.delta = d]
                           ELSE Idle)
  /\ UNCHANGED <<row, venue, traded, applied, faults>>

-----------------------------------------------------------------------------
(* persist_strategy_fill: the position first, then the trade *)

ApplyPosition(p) ==
  /\ worker[p].pc = "position"
  /\ applied' = [applied EXCEPT ![worker[p].ord] = @ + worker[p].delta]
  /\ SetWorker(p, [worker[p] EXCEPT !.pc = "trade"])
  /\ UNCHANGED <<row, venue, traded, faults>>

RecordTrade(p) ==
  /\ worker[p].pc = "trade"
  /\ traded' = [traded EXCEPT ![worker[p].ord] = @ + worker[p].delta]
  /\ SetWorker(p, IF worker[p].after = "idle" THEN Idle
                    ELSE [worker[p] EXCEPT !.pc = worker[p].after])
  /\ UNCHANGED <<row, venue, applied, faults>>

-----------------------------------------------------------------------------
(* Reconciliation of the rows that were sent *)

\* A tick gives a stale syncing row back.
RequeueSyncing(o) ==
  /\ \E p \in Procs : worker[p].pc = "idle"
  /\ row[o].st = "syncing" /\ Stale(o)
  /\ SetRow(o, [row[o] EXCEPT !.st = "sent"])
  /\ UNCHANGED <<venue, traded, applied, worker, faults>>

\* Mutant: the sync forgets what the dispatch has recorded.
NoBaseline(r) == IF r.tracked >= 0 THEN r.tracked ELSE 0

\* Mutant: a row that was never synced is taken for one with a tracked fill.
RawBaseline(r) == r.tracked

\* The part of the tracked leg that is already accounted for.
TrackedFillBaseline(r) ==
  IF r.algo # "alpaca" /\ r.tracked >= 0 THEN r.tracked ELSE r.filled

\* Rows worth asking the venue about: sent ones and, except for Alpaca, filled
\* ones without a quantity or with a trade that still lacks its fee.
Reconcilable(o) ==
  /\ row[o].leg # NoLeg
  /\ \/ row[o].st = "sent"
     \/ /\ row[o].st = "filled" /\ row[o].algo # "alpaca"
        /\ row[o].filled = 0 \/ traded[o] > 0

\* A worker claims a sent row and remembers the row it claimed.
ClaimSentRow(p, o) ==
  /\ worker[p].pc = "idle" /\ Reconcilable(o)
  /\ SetRow(o, [row[o] EXCEPT !.st = "syncing"])
  /\ SetWorker(p, [Idle EXCEPT !.pc = "query", !.ord = o, !.leg = row[o].leg,
                     !.prev = row[o].filled, !.base = TrackedFillBaseline(row[o])])
  /\ UNCHANGED <<venue, traded, applied>>

ClaimSent(p, o) == ClaimSentRow(p, o) /\ UNCHANGED faults

\* The venue answers with the cumulative fill of the leg.
QueryFill(p) ==
  LET v == CurrentLeg(p)
      d == MaxOf(0, v.fill - worker[p].base)
  IN /\ worker[p].pc = "query"
     /\ SetWorker(p, [worker[p] EXCEPT !.cum = v.fill, !.vst = v.st, !.delta = d,
                        !.pc = IF d > 0 THEN "position" ELSE "snapshot",
                        !.after = "snapshot"])
     /\ UNCHANGED <<row, venue, traded, applied, faults>>

\* The venue reports a new fill whose price is not there yet.
QueryNoPrice(p) ==
  LET v == CurrentLeg(p) IN
  /\ worker[p].pc = "query" /\ v.fill > worker[p].base
  /\ Fault("noPrice")
  /\ SetWorker(p, [worker[p] EXCEPT !.cum = v.fill, !.pc = "snapshot",
       !.vst = IF row[worker[p].ord].algo = "alpaca" THEN v.st ELSE "noPrice"])
  /\ UNCHANGED <<row, venue, traded, applied>>

\* The venue does not answer: the row is given back as it was claimed, without
\* its tracking data.  An Alpaca row keeps its claim until it is stale.
QueryFails(p) ==
  LET o == worker[p].ord IN
  /\ worker[p].pc = "query"
  /\ Fault("query")
  /\ row' = IF row[o].algo = "alpaca" THEN row
             ELSE [row EXCEPT ![o] = [@ EXCEPT !.st = "sent", !.tracked = -1,
                                              !.filled = worker[p].prev]]
  /\ SetWorker(p, Idle)
  /\ UNCHANGED <<venue, traded, applied>>

\* The queue status that a reconciled fill gives.
ReconciledQueueStatus(algo, filled, status) ==
  IF IF algo = "alpaca" THEN status = "filled" ELSE IsFinalFill(filled, status)
    THEN "filled"
    ELSE IF status = "cancelled" THEN "cancelled" ELSE "sent"

\* The aggregate after a query: the claimed one and what is new.
AggregateFill(p) ==
  IF row[worker[p].ord].algo = "alpaca" THEN worker[p].cum
    ELSE worker[p].prev + worker[p].delta

\* The snapshot is stored, over whatever the row says by now.
UpdateSnapshot(p) ==
  LET o == worker[p].ord IN
  /\ worker[p].pc = "snapshot"
  /\ SetRow(o, [row[o] EXCEPT
       !.st = ReconciledQueueStatus(row[o].algo, AggregateFill(p), worker[p].vst),
       !.filled = AggregateFill(p),
       !.tracked = worker[p].cum])
  /\ SetWorker(p, Idle)
  /\ UNCHANGED <<venue, traded, applied, faults>>

-----------------------------------------------------------------------------
(* The venue and the processes *)

\* The venue fills one more unit of an open leg.
VenueFills(o, l) ==
  /\ venue[o][l].st = "open"
  /\ venue' = [venue EXCEPT ![o][l] =
       [venue[o][l] EXCEPT
          !.fill = @ + 1,
          !.st = IF venue[o][l].fill + 1 = venue[o][l].qty THEN "filled" ELSE "open"]]
  /\ UNCHANGED <<row, traded, applied, worker, faults>>

\* An open leg is cancelled or expires at the venue.
VenueCancels(o, l) ==
  /\ venue[o][l].st = "open"
  /\ venue' = [venue EXCEPT ![o][l].st = "cancelled"]
  /\ UNCHANGED <<row, traded, applied, worker, faults>>

\* A process dies in the middle of its work and starts again.
Crash(p) ==
  /\ worker[p].pc # "idle"
  /\ Fault(IF Syncing(p) THEN "syncCrash" ELSE "crash")
  /\ SetWorker(p, Idle)
  /\ UNCHANGED <<row, venue, traded, applied>>

DispatchStep(p) ==
  \/ RejectDispatch(p) \/ NotifySignal(p)
  \/ Place(p) \/ PlaceRefused(p) \/ PlaceLost(p)
  \/ WaitLimit(p) \/ WaitMarket(p) \/ CancelLimit(p)
  \/ MarkSent(p) \/ ReadUnrecorded(p)

SyncStep(p) ==
  QueryFill(p) \/ QueryNoPrice(p) \/ QueryFails(p) \/ UpdateSnapshot(p)

PersistStep(p) == ApplyPosition(p) \/ RecordTrade(p)

WorkerStep(p) == DispatchStep(p) \/ SyncStep(p) \/ PersistStep(p)

Next ==
  \/ \E o \in Orders : Submit(o) \/ RequeueProcessing(o) \/ RequeueSyncing(o)
  \/ \E p \in Procs, o \in Orders : Claim(p, o) \/ ClaimSent(p, o)
  \/ \E p \in Procs : WorkerStep(p) \/ Crash(p)
  \/ \E o \in Orders, l \in Legs : VenueFills(o, l) \/ VenueCancels(o, l)

Spec == Init /\ [][Next]_vars

\* A worker thread goes on with what it has begun, and every tick looks at all
\* the rows, so a row that keeps being eligible is taken in the end.  The
\* session and the venue owe nothing.
Fairness ==
  /\ \A p \in Procs : WF_vars(WorkerStep(p))
  /\ \A o \in Orders :
       /\ SF_vars(\E p \in Procs : Claim(p, o))
       /\ SF_vars(\E p \in Procs : ClaimSent(p, o))
       /\ SF_vars(RequeueProcessing(o))
       /\ SF_vars(RequeueSyncing(o))

FairSpec == Spec /\ Fairness

-----------------------------------------------------------------------------
(* Properties *)

OrderIds == Orders \cup {NoOrder}

LegStates == {"none", "open", "filled", "cancelled"}

Row == [st : Statuses, algo : AlgoKinds \cup {"none"}, attempts : 0 .. MaxAttempts,
        filled : Nat, tracked : Nat \cup {-1}, leg : Legs \cup {NoLeg}]

VenueLeg == [st : LegStates, qty : 0 .. Amount, fill : 0 .. Amount]

Thread == [pc : Pcs, ord : OrderIds, attempt : 0 .. MaxAttempts, lim : 0 .. Amount,
           got : Nat, mkt : Nat \cup {-1}, leg : Legs \cup {NoLeg},
           vst : LegStates \cup {"noPrice"}, prev : Nat, base : Nat, cum : Nat,
           delta : Nat, after : {"idle", "snapshot"}]

\* Type invariant of the queue, the venue and the worker threads.
PendingTypeOK ==
  /\ row \in [Orders -> Row]
  /\ venue \in [Orders -> [Legs -> VenueLeg]]
  /\ traded \in [Orders -> Nat] /\ applied \in [Orders -> Nat]
  /\ worker \in [Procs -> Thread]
  /\ faults \subseteq Faults

\* Every unit the venue fills is recorded at most once: neither the trades nor
\* the position of an order hold more than the venue filled.
NoDuplicateFill ==
  \A o \in Orders : traded[o] <= VenueFill(o) /\ applied[o] <= VenueFill(o)

\* The dispatch, the syncs after it and the private stream events together
\* record no unit twice, whatever fails, as long as no worker dies between
\* recording a fill and storing the snapshot of its sync, and no REST audit
\* runs beside a private stream (persist_strategy_fill and its three callers).
FillRecordedOnce == Without({"syncCrash", "audit"}) => NoDuplicateFill

\* A row that has come to rest as filled or cancelled is settled: nothing of it
\* is open at the venue and the row, the trades and the position all hold
\* exactly what the venue filled.  A crash between two of the writes, and a
\* fill without a price, do break it.
SettledRow ==
  \A o \in Orders :
    /\ row[o].st \in {"filled", "cancelled"} /\ ~Busy(o)
    /\ Without({"crash", "syncCrash", "noPrice"})
    => /\ \A l \in Legs : venue[o][l].st # "open"
       /\ row[o].filled = VenueFill(o)
       /\ traded[o] = VenueFill(o)
       /\ applied[o] = VenueFill(o)

\* The lane gate of the gateway works at the venue too: two orders of a lane
\* never have an open venue order at the same time, unless a placement died or
\* its answer was lost, after which the row is failed and the order lives.
LaneSerial ==
  Without({"crash", "lostReply"}) =>
    Cardinality({o \in Orders : \E l \in Legs : venue[o][l].st = "open"}) <= 1

\* However often a dispatch is repeated, after a crash or because it was slow,
\* a market or limit order never stands at the venue for more than was asked.
PlacedOnce ==
  \A o \in Orders : row[o].algo \in {"market", "limit"} => Exposure(o) <= Amount

\* The leg that a row tracks is over at the venue.
LegOver(o) == row[o].leg # NoLeg /\ venue[o][row[o].leg].st \in {"filled", "cancelled"}

\* Once the venue is done with a sent order the syncs close its row, whatever
\* dies or fails in between, except that a fill which once came without its
\* price is never recorded (_sync_live_sent_orders, _sync_alpaca_sent_orders).
SentOrderSettles ==
  \A o \in Orders :
    (row[o].st = "sent" /\ LegOver(o)) ~>
      (row[o].st \in {"filled", "cancelled"} \/ ~Without({"noPrice"}))

\* A queued order is dispatched to an end, even when its worker dies on it.
QueueDrains ==
  \A o \in Orders :
    row[o].st = "pending" ~> row[o].st \notin {"none", "pending", "processing"}

-----------------------------------------------------------------------------
(* Inductive invariants, for the proofs *)

\* The legs an order of a kind is placed in.
LegsOf(algo) ==
  CASE algo = "market" -> {<<"mkt", 0>>}
    [] algo = "limit" -> {<<"lmt", 0>>}
    [] algo = "maker" -> {<<"lmt", 0>>, <<"mkt", 0>>}
    [] algo = "alpaca" -> {"new"} \X (1 .. MaxAttempts)
    [] OTHER -> {}

\* A worker has claimed a row and not yet stored what came of it; it has stored
\* it and records the fill; it reconciles a sent row.
Early(p) == worker[p].pc \in {"dispatch", "wait", "cancel", "market", "sent"}
Late(p) == worker[p].pc \in {"record", "position", "trade"} /\ worker[p].after = "idle"
Reconciling(p) == worker[p].pc \in {"query", "snapshot"} \/ worker[p].after = "snapshot"

\* The local variables of a worker and what it works on.
ThreadOK(w) ==
  /\ w.pc = "idle" => w = Idle
  /\ w.pc # "idle" => w.ord \in Orders /\ row[w.ord].algo # "none"
  /\ w.pc \in {"dispatch", "wait", "cancel", "market"} => w.attempt \in 1 .. MaxAttempts
  /\ w.pc = "dispatch" => w.lim = 0 /\ w.got = 0
  /\ w.pc \in {"cancel", "market"} \/ w.lim > 0 \/ w.mkt >= 0 => row[w.ord].algo = "maker"
  /\ w.pc = "wait" => row[w.ord].algo # "limit"
  /\ w.pc \in {"wait", "cancel", "sent", "query"} => w.leg # NoLeg
  /\ w.leg # NoLeg => w.leg \in LegsOf(row[w.ord].algo)
  /\ w.after = "snapshot" => w.pc \in {"position", "trade", "snapshot"}
  /\ w.pc \in {"query", "snapshot"} /\ w.after = "idle" => w.delta = 0
  /\ w.lim < Amount

ThreadInv == \A p \in Procs : ThreadOK(worker[p])

\* The venue holds only legs of the order's kind, and an open leg has units left.
LegInv ==
  \A o \in Orders :
    /\ row[o].st = "none" \/ row[o].algo = "none" => row[o] = NoRow
    /\ row[o].leg # NoLeg => row[o].leg \in LegsOf(row[o].algo)
    /\ \A l \in Legs :
         /\ venue[o][l].st # "none" => l \in LegsOf(row[o].algo)
         /\ venue[o][l].st = "none" => venue[o][l] = Unplaced
         /\ venue[o][l].st = "open" => venue[o][l].fill < venue[o][l].qty

\* No dispatch outlasts the stale time, or there is only one worker to be slow.
Paced == ~Slow \/ \A p, q \in Procs : p = q

\* A dispatch has its row to itself until it stores the result; then a sync may
\* join it, and the row stays as the sync has claimed it.
ClaimInv ==
  /\ \A p \in Procs :
       /\ Early(p) => row[worker[p].ord].st = "processing" /\ row[worker[p].ord].leg = NoLeg
       /\ Late(p) \/ Reconciling(p) => row[worker[p].ord].leg # NoLeg
       /\ Reconciling(p) /\ Without({"audit"})
            => row[worker[p].ord].st = "syncing" /\ row[worker[p].ord].filled = worker[p].prev
  /\ \A p, q \in Procs :
       p # q /\ worker[p].ord = worker[q].ord /\ worker[p].pc # "idle"
         => \/ Late(p) /\ Reconciling(q)
            \/ Reconciling(p) /\ Late(q)
            \/ Reconciling(p) /\ Reconciling(q) /\ ~Without({"audit"})
  /\ \A o \in Orders :
       IF row[o].leg = NoLeg
         THEN row[o].filled = 0 /\ row[o].tracked = -1 /\ traded[o] = 0 /\ applied[o] = 0
         ELSE row[o].st \notin {"none", "pending", "processing"}

\* What a dispatch has read of its legs is there.
ReadOK(p) ==
  LET w == worker[p] IN
  /\ Early(p) => w.lim <= venue[w.ord][<<"lmt", 0>>].fill
  /\ w.pc \in {"wait", "sent"} /\ w.leg = <<"lmt", 0>> => w.lim = 0
  /\ w.pc = "sent" => w.got <= w.lim + venue[w.ord][w.leg].fill

ReadInv == \A p \in Procs : ReadOK(p)

\* Without maker orders, the fills of a row are fills of the leg it tracks, and
\* its baseline covers them ...
RowTracked(o) ==
  row[o].leg # NoLeg =>
    /\ row[o].filled <= venue[o][row[o].leg].fill
    /\ row[o].tracked = -1 \/ row[o].algo = "alpaca" \/ row[o].tracked >= row[o].filled

\* ... and a sync adds only what that leg has filled beyond.
SyncOK(p) ==
  LET w == worker[p] IN
  Reconciling(p) =>
    /\ w.prev <= w.base /\ w.leg = row[w.ord].leg
    /\ w.pc # "query" => w.prev + w.delta <= w.cum /\ w.cum <= venue[w.ord][w.leg].fill

TrackInv ==
  Without({"audit"}) => (\A o \in Orders : RowTracked(o)) /\ (\A p \in Procs : SyncOK(p))

\* What a dispatch will still add to the trades, and to the position, and what a
\* sync has added to them before it stores it in the row.
OwedTrade(o, w) ==
  IF w.ord # o \/ w.after = "snapshot" THEN 0
    ELSE IF w.pc = "record" THEN MaxOf(0, w.got - traded[o])
    ELSE IF w.pc \in {"position", "trade"} THEN w.delta ELSE 0

OwedPosition(o, w) == IF w.pc = "trade" THEN 0 ELSE OwedTrade(o, w)

AheadTrade(o, w) == IF w.ord = o /\ w.pc = "snapshot" THEN w.delta ELSE 0

AheadPosition(o, w) ==
  IF w.ord = o /\ w.after = "snapshot" /\ w.pc = "trade" THEN w.delta ELSE AheadTrade(o, w)

OwedTrades(o) == Total([p \in Procs |-> OwedTrade(o, worker[p])])
OwedPositions(o) == Total([p \in Procs |-> OwedPosition(o, worker[p])])
AheadTrades(o) == Total([p \in Procs |-> AheadTrade(o, worker[p])])
AheadPositions(o) == Total([p \in Procs |-> AheadPosition(o, worker[p])])

\* The row accounts for everything recorded and still to be recorded.
FillInv ==
  Without({"syncCrash", "audit"}) =>
    \A o \in Orders :
      /\ traded[o] + OwedTrades(o) <= row[o].filled + AheadTrades(o)
      /\ applied[o] + OwedPositions(o) <= row[o].filled + AheadPositions(o)
\* Without maker orders and until a dispatch dies, an order has one leg.  A row
\* that is processed has its worker, and a row that is closed has its leg over.
OneLegOK(o) ==
  /\ row[o].st = "pending" => \A l \in Legs : venue[o][l].st = "none"
  /\ row[o].st = "processing" => \E p \in Procs : Early(p) /\ worker[p].ord = o
  /\ row[o].leg # NoLeg => \A l \in Legs \ {row[o].leg} : venue[o][l].st = "none"
  /\ row[o].st \in {"syncing", "filled", "cancelled"} => row[o].leg # NoLeg
  /\ row[o].st \in {"filled", "cancelled"} => venue[o][row[o].leg].st # "open"

\* An end that a worker was told of is the end, with the fill it was told.
AnswerOK(p) ==
  LET w == worker[p] IN
  /\ w.pc = "dispatch" => w.leg = NoLeg /\ w.vst = "none"
  /\ Early(p) => \A l \in Legs \ {w.leg} : venue[w.ord][l].st = "none"
  /\ w.pc = "sent" /\ w.vst \in {"filled", "cancelled"} =>
       venue[w.ord][w.leg].st = w.vst /\ venue[w.ord][w.leg].fill = w.got
  /\ Reconciling(p) /\ w.pc # "query" /\ w.vst \in {"filled", "cancelled"} =>
       venue[w.ord][w.leg].st = w.vst /\ venue[w.ord][w.leg].fill = w.cum

OverInv ==
  Without({"crash"}) => (\A o \in Orders : OneLegOK(o)) /\ (\A p \in Procs : AnswerOK(p))

\* An order of the lane that is queued, dispatched or open at the venue.
Live(o) ==
  /\ row[o].algo # "signal"
  /\ \/ row[o].st \in {"pending", "processing"}
     \/ \E l \in Legs : venue[o][l].st = "open"

\* As long as every placement is answered, one order of the lane is live.
LaneInv ==
  Without({"crash", "lostReply"}) =>
    /\ \A o \in Orders : row[o].st = "failed" => \A l \in Legs : venue[o][l].st # "open"
    /\ \A a, b \in Orders : Live(a) /\ Live(b) => a = b

\* With one worker, the row is exact: it tracks what it has filled, a closed one
\* all that its leg has filled, and the trades and the position hold what the row
\* says but for what the worker still owes or is ahead.
RowExact(o) ==
  /\ row[o].tracked \in {-1, row[o].filled}
  /\ row[o].st \in {"filled", "cancelled"} => row[o].filled = venue[o][row[o].leg].fill

RecordsExact(o, w) ==
  /\ traded[o] + OwedTrade(o, w) = row[o].filled + AheadTrade(o, w)
  /\ applied[o] + OwedPosition(o, w) = row[o].filled + AheadPosition(o, w)

SyncExact(p) ==
  LET w == worker[p] IN
  Reconciling(p) => w.base = w.prev /\ (w.pc # "query" => w.cum = w.prev + w.delta)

ExactInv ==
  Without({"crash", "syncCrash", "noPrice"}) =>
    /\ \A o \in Orders : RowExact(o) /\ \A p \in Procs : RecordsExact(o, worker[p])
    /\ \A p \in Procs : SyncExact(p)
=============================================================================
