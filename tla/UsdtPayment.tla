----------------------------- MODULE UsdtPayment -----------------------------
(***************************************************************************)
(* USDT membership orders: order creation, the on-chain reconciler, the    *)
(* administrator's manual confirmation and the activation of a membership. *)
(*                                                                         *)
(* One plan and one chain: orders of different chains share neither the    *)
(* amount index nor a watcher.  API handlers and the scheduler's order     *)
(* worker read rows in one transaction and write them in later ones; every *)
(* statement whose effect others can see is one step.  Timestamps are kept *)
(* as ages, saturated at the limits they are compared with.                *)
(***************************************************************************)
EXTENDS Integers, FiniteSets

CONSTANTS
  Users,        \* buyers
  Amounts,      \* base price plus suffix: what a suffix draw can give
  Handlers,     \* API request threads
  Worker,       \* the UsdtOrderWorker thread of the scheduler leader
  Expire,       \* USDT_PAY_EXPIRE_MINUTES in ticks
  Confirm,      \* USDT_PAY_CONFIRM_SECONDS in ticks
  Grace,        \* the minute before created_at a watcher still accepts
  RetryLimit,   \* _CREATE_RETRY_LIMIT
  MaxOrders,    \* bound: orders created
  MaxTransfers, \* bound: transfers on the chain
  Faults,       \* the fault kinds that may strike, a subset of FaultKinds
  MaxFaults     \* bound: faults in a behaviour

FaultKinds == {"crash", "probe", "watcher", "db", "purchase"}

ASSUME UsdtAssumption ==
  /\ Worker \notin Handlers /\ Faults \subseteq FaultKinds
  /\ Users # {} /\ Amounts # {}
  /\ Expire \in Nat /\ Confirm \in Nat /\ Grace \in Nat /\ RetryLimit \in Nat \ {0}
  /\ MaxOrders \in Nat /\ MaxTransfers \in Nat /\ MaxFaults \in Nat

VARIABLES
  order,     \* qd_usdt_orders
  transfer,  \* incoming transfers the chain watchers can see
  grants,    \* memberships activated per order: credit log rows by reference
  pc,        \* where each thread is
  batch,     \* rows a thread has read and not yet refreshed
  job,       \* the order a thread works on
  faults     \* faults so far

vars == <<order, transfer, grants, pc, batch, job, faults>>

Procs == Handlers \cup {Worker}
Orders == 1..MaxOrders
Transfers == 1..MaxTransfers

-----------------------------------------------------------------------------
(* Types *)

Statuses == {"pending", "paid", "confirmed", "expired"}
ActiveStatuses == {"pending", "paid"}

\* tooOld: the transfers before created_at minus Grace; ttl: ticks to expires_at.
OrderRow ==
  [status : Statuses \cup {"absent"}, user : Users, amount : Amounts,
   tx : Transfers \cup {0}, manual : BOOLEAN, tooOld : SUBSET Transfers,
   ttl : 0..Expire, paidAge : 0..Confirm]

NoOrder ==
  [status |-> "absent", user |-> CHOOSE u \in Users : TRUE,
   amount |-> CHOOSE a \in Amounts : TRUE, tx |-> 0, manual |-> FALSE,
   tooOld |-> {}, ttl |-> 0, paidAge |-> 0]

TransferAge == Confirm + Grace + 1

TransferRow == [seen : BOOLEAN, amount : Amounts, age : 0..TransferAge]

NoTransfer == [seen |-> FALSE, amount |-> CHOOSE a \in Amounts : TRUE, age |-> 0]

\* What is left of a row in memory: its id and the status it had.
Snapshot == [id : Orders, status : Statuses]

Labels == {"idle", "insert", "refresh", "markPaid", "markExpired",
           "confirm", "update", "activate", "manual"}

\* ready: the transfer is old enough to confirm at once; done: an order that
\* was confirmed when the administrator's request read it.
Job == [id : Orders \cup {0}, user : Users, tx : Transfers \cup {0},
        ready : BOOLEAN, done : BOOLEAN, tries : 0..(RetryLimit - 1)]

NoJob == [id |-> 0, user |-> CHOOSE u \in Users : TRUE, tx |-> 0,
          ready |-> FALSE, done |-> FALSE, tries |-> 0]

UsdtTypeOK ==
  /\ order \in [Orders -> OrderRow]
  /\ transfer \in [Transfers -> TransferRow]
  /\ grants \in [Orders -> Nat]
  /\ pc \in [Procs -> Labels]
  /\ batch \in [Procs -> SUBSET Snapshot]
  /\ job \in [Procs -> Job]
  /\ faults \in 0..MaxFaults

Init ==
  /\ order = [o \in Orders |-> NoOrder]
  /\ transfer = [t \in Transfers |-> NoTransfer]
  /\ grants = [o \in Orders |-> 0]
  /\ pc = [p \in Procs |-> "idle"]
  /\ batch = [p \in Procs |-> {}]
  /\ job = [p \in Procs |-> NoJob]
  /\ faults = 0

-----------------------------------------------------------------------------
(* Shared by several steps *)

Fault(k) == k \in Faults /\ faults < MaxFaults /\ faults' = faults + 1

\* p goes on with job j at the given label.
Goto(p, label, j) ==
  /\ pc' = [pc EXCEPT ![p] = label]
  /\ job' = [job EXCEPT ![p] = j]

\* p is through with an order and turns to the rows left in its batch.
NextRow(p, rows) ==
  /\ batch' = [batch EXCEPT ![p] = rows]
  /\ Goto(p, IF rows = {} THEN "idle" ELSE "refresh", NoJob)

Done(p) == NextRow(p, batch[p])

SetStatus(o, status) == order' = [order EXCEPT ![o] = [@ EXCEPT !.status = status]]

\* The partial unique index idx_usdt_orders_amount_active.
AmountTaken(a, o) ==
  \E x \in Orders \ {o} : order[x].status \in ActiveStatuses /\ order[x].amount = a

-----------------------------------------------------------------------------
(* create_order *)

\* _find_active_order
Open(u) == {o \in Orders : order[o].status = "pending" /\ order[o].user = u /\ order[o].ttl > 0}

\* An open order of the user is returned and nothing changes; a probe that
\* raises counts as none found.
CreateOrder(p, u) ==
  /\ p \in Handlers /\ pc[p] = "idle"
  /\ \/ Open(u) = {} /\ UNCHANGED faults
     \/ Open(u) # {} /\ Fault("probe")
  /\ Goto(p, "insert", [NoJob EXCEPT !.user = u])
  /\ UNCHANGED <<order, transfer, grants, batch>>

NewOrder(u, a) ==
  [NoOrder EXCEPT !.status = "pending", !.user = u, !.amount = a, !.ttl = Expire,
                  !.tooOld = {t \in Transfers : transfer[t].seen /\ transfer[t].age > Grace}]

\* Mutant: one attempt more than the limit.
InsertOnceMore(p, a) ==
  LET tries == job[p].tries + 1
  IN /\ pc[p] = "insert"
     /\ \/ /\ ~AmountTaken(a, 0)
           /\ \E o \in Orders :
                /\ \A x \in Orders : order[x].status = "absent" <=> x >= o
                /\ order' = [order EXCEPT ![o] = NewOrder(job[p].user, a)]
           /\ Goto(p, "idle", NoJob)
        \/ /\ AmountTaken(a, 0)
           /\ IF tries <= RetryLimit
                THEN Goto(p, "insert", [job[p] EXCEPT !.tries = tries])
                ELSE Goto(p, "idle", NoJob)
           /\ UNCHANGED order
     /\ UNCHANGED <<transfer, grants, batch, faults>>

\* The insert, with a suffix drawn anew for each attempt: a collision with an
\* active order of the chain is retried up to the limit.
Insert(p, a) ==
  LET tries == job[p].tries + 1
  IN /\ pc[p] = "insert"
     /\ \/ /\ ~AmountTaken(a, 0)
           /\ \E o \in Orders :
                /\ \A x \in Orders : order[x].status = "absent" <=> x >= o
                /\ order' = [order EXCEPT ![o] = NewOrder(job[p].user, a)]
           /\ Goto(p, "idle", NoJob)
        \/ /\ AmountTaken(a, 0)
           /\ IF tries < RetryLimit
                THEN Goto(p, "insert", [job[p] EXCEPT !.tries = tries])
                ELSE Goto(p, "idle", NoJob)
           /\ UNCHANGED order
     /\ UNCHANGED <<transfer, grants, batch, faults>>

-----------------------------------------------------------------------------
(* get_order and refresh_all_active_orders *)

Row(o) == [id |-> o, status |-> order[o].status]

\* The worker reads all active rows, then refreshes them one by one.
Scan ==
  LET rows == {Row(o) : o \in {x \in Orders : order[x].status \in ActiveStatuses}}
  IN /\ pc[Worker] = "idle" /\ rows # {}
     /\ NextRow(Worker, rows)
     /\ UNCHANGED <<order, transfer, grants, faults>>

\* The order page refreshes an expired order too; a confirmed one is returned.
GetOrder(p, o) ==
  /\ p \in Handlers /\ pc[p] = "idle"
  /\ order[o].status \in {"pending", "paid", "expired"}
  /\ NextRow(p, {Row(o)})
  /\ UNCHANGED <<order, transfer, grants, faults>>

\* A chain watcher: any transfer of the exact amount since the order was made,
\* whether or not it paid another order.
Matching(o) ==
  {t \in Transfers : /\ transfer[t].seen /\ transfer[t].amount = order[o].amount
                     /\ t \notin order[o].tooOld}

-----------------------------------------------------------------------------
(* _refresh_one_order *)

\* A paid order waits for the confirmation delay.
RefreshPaid(p, x) ==
  /\ x.status = "paid"
  /\ \/ /\ order[x.id].paidAge >= Confirm
        /\ Goto(p, "confirm", [NoJob EXCEPT !.id = x.id])
        /\ batch' = [batch EXCEPT ![p] = @ \ {x}]
     \/ order[x.id].paidAge < Confirm /\ NextRow(p, batch[p] \ {x})
  /\ UNCHANGED faults

\* The watcher reports a transfer, its block time sometimes unknown.
RefreshFound(p, x) ==
  /\ x.status \in {"pending", "expired"}
  /\ \E t \in Matching(x.id), known \in BOOLEAN :
       Goto(p, "markPaid",
            [NoJob EXCEPT !.id = x.id, !.tx = t, !.ready = known /\ transfer[t].age >= Confirm])
  /\ batch' = [batch EXCEPT ![p] = @ \ {x}]
  /\ UNCHANGED faults

\* Mutant: an order out of time is expired without asking the watcher.
RefreshBlind(p, x) ==
  /\ x.status \in {"pending", "expired"}
  /\ IF x.status = "pending" /\ order[x.id].ttl = 0
       THEN /\ Goto(p, "markExpired", [NoJob EXCEPT !.id = x.id])
            /\ batch' = [batch EXCEPT ![p] = @ \ {x}]
       ELSE NextRow(p, batch[p] \ {x})
  /\ UNCHANGED faults

\* No transfer, or none the watcher could see: a failed lookup looks the same.
RefreshNothing(p, x) ==
  /\ x.status \in {"pending", "expired"}
  /\ \/ Matching(x.id) = {} /\ UNCHANGED faults
     \/ Matching(x.id) # {} /\ Fault("watcher")
  /\ IF x.status = "pending" /\ order[x.id].ttl = 0
       THEN /\ Goto(p, "markExpired", [NoJob EXCEPT !.id = x.id])
            /\ batch' = [batch EXCEPT ![p] = @ \ {x}]
       ELSE NextRow(p, batch[p] \ {x})

Refresh(p) ==
  /\ pc[p] = "refresh"
  /\ \E x \in batch[p] :
       /\ \A y \in batch[p] : x.id <= y.id
       /\ RefreshPaid(p, x) \/ RefreshFound(p, x) \/ RefreshNothing(p, x)
  /\ UNCHANGED <<order, transfer, grants>>

AsPaid(r, t) == [r EXCEPT !.status = "paid", !.tx = t, !.paidAge = 0]

\* Mutant: the update compares no status.
MarkPaidById(p) ==
  LET j == job[p]
  IN /\ pc[p] = "markPaid"
     /\ order' = [order EXCEPT ![j.id] = AsPaid(@, j.tx)]
     /\ IF j.ready THEN Goto(p, "confirm", j) /\ UNCHANGED batch ELSE Done(p)
     /\ UNCHANGED <<transfer, grants, faults>>

\* Mutant: the hash of the transfer is not stored.
MarkPaidNoHash(p) ==
  LET j == job[p]
  IN /\ pc[p] = "markPaid"
     /\ IF order[j.id].status \in {"pending", "expired"}
          THEN SetStatus(j.id, "paid") ELSE UNCHANGED order
     /\ Done(p)
     /\ UNCHANGED <<transfer, grants, faults>>

\* UPDATE ... SET status='paid' WHERE status IN ('pending','expired'): it fails
\* on the amount index when an expired order's amount was given out again, and
\* goes on when it matched no row.
MarkPaid(p) ==
  LET j == job[p]
      open == order[j.id].status \in {"pending", "expired"}
  IN /\ pc[p] = "markPaid"
     /\ \/ /\ open /\ AmountTaken(order[j.id].amount, j.id)
           /\ Done(p) /\ UNCHANGED order
        \/ /\ ~(open /\ AmountTaken(order[j.id].amount, j.id))
           /\ order' = IF open THEN [order EXCEPT ![j.id] = AsPaid(@, j.tx)] ELSE order
           /\ IF j.ready THEN Goto(p, "confirm", j) /\ UNCHANGED batch ELSE Done(p)
     /\ UNCHANGED <<transfer, grants, faults>>

\* Mutant: the expiry compares no status.
MarkExpiredById(p) ==
  /\ pc[p] = "markExpired"
  /\ SetStatus(job[p].id, "expired")
  /\ Done(p)
  /\ UNCHANGED <<transfer, grants, faults>>

MarkExpired(p) ==
  /\ pc[p] = "markExpired"
  /\ IF order[job[p].id].status = "pending"
       THEN SetStatus(job[p].id, "expired")
       ELSE UNCHANGED order
  /\ Done(p)
  /\ UNCHANGED <<transfer, grants, faults>>

\* A statement that raises is logged, or reported to the caller, and the order
\* is left as it was.
UpdateError(p) ==
  /\ pc[p] \in {"insert", "markPaid", "markExpired", "confirm", "update", "manual"}
  /\ Fault("db")
  /\ Done(p)
  /\ UNCHANGED <<order, transfer, grants>>

-----------------------------------------------------------------------------
(* _confirm_and_activate *)

\* SELECT status: an order confirmed already is left alone.
ConfirmRead(p) ==
  /\ pc[p] = "confirm"
  /\ IF order[job[p].id].status = "confirmed"
       THEN Done(p)
       ELSE Goto(p, "update", job[p]) /\ UNCHANGED batch
  /\ UNCHANGED <<order, transfer, grants, faults>>

\* Mutant: the confirmation ends with the update.
ConfirmUpdateOnly(p) ==
  /\ pc[p] = "update"
  /\ IF order[job[p].id].status \in ActiveStatuses
       THEN SetStatus(job[p].id, "confirmed")
       ELSE UNCHANGED order
  /\ Done(p)
  /\ UNCHANGED <<transfer, grants, faults>>

\* UPDATE ... WHERE status IN ('paid','pending'): whether it matched a row is
\* not looked at.
ConfirmUpdate(p) ==
  /\ pc[p] = "update"
  /\ IF order[job[p].id].status \in ActiveStatuses
       THEN SetStatus(job[p].id, "confirmed")
       ELSE UNCHANGED order
  /\ Goto(p, "activate", job[p])
  /\ UNCHANGED <<transfer, grants, batch, faults>>

\* purchase_membership: a transaction of its own, whose failure is logged.
Activate(p) ==
  /\ pc[p] = "activate"
  /\ \/ /\ grants' = [grants EXCEPT ![job[p].id] = @ + 1]
        /\ UNCHANGED faults
     \/ Fault("purchase") /\ UNCHANGED grants
  /\ Done(p)
  /\ UNCHANGED <<order, transfer>>

-----------------------------------------------------------------------------
(* manual_confirm_order *)

ManualRead(p, o) ==
  /\ p \in Handlers /\ pc[p] = "idle" /\ order[o].status # "absent"
  /\ Goto(p, "manual", [NoJob EXCEPT !.id = o, !.done = (order[o].status = "confirmed")])
  /\ UNCHANGED <<order, transfer, grants, batch, faults>>

AsVouched(r, t) == [r EXCEPT !.status = "confirmed", !.tx = t, !.manual = TRUE]

\* The administrator's transaction hash is written as given.
ManualUpdate(p) ==
  LET j == job[p]
  IN /\ pc[p] = "manual"
     /\ \E t \in Transfers \cup {0} :
          order' = [order EXCEPT ![j.id] = AsVouched(@, t)]
     /\ Goto(p, IF j.done THEN "idle" ELSE "activate", IF j.done THEN NoJob ELSE j)
     /\ UNCHANGED <<transfer, grants, batch, faults>>

-----------------------------------------------------------------------------
(* The chain, process restarts, time *)

\* A buyer transfers the amount shown for an order, in time or late.
Transfer(o) ==
  /\ order[o].status # "absent"
  /\ \E t \in Transfers :
       /\ \A x \in Transfers : ~transfer[x].seen <=> x >= t
       /\ transfer' = [transfer EXCEPT ![t] =
                         [seen |-> TRUE, amount |-> order[o].amount, age |-> 0]]
  /\ UNCHANGED <<order, grants, pc, batch, job, faults>>

Crash(p) ==
  /\ pc[p] # "idle" /\ Fault("crash")
  /\ NextRow(p, {})
  /\ UNCHANGED <<order, transfer, grants>>

Older(age, limit) == IF age < limit THEN age + 1 ELSE age

Tick ==
  /\ order' = [o \in Orders |->
       IF order[o].status = "absent" THEN order[o]
       ELSE [order[o] EXCEPT !.ttl = IF @ > 0 THEN @ - 1 ELSE 0,
                             !.paidAge = IF order[o].status = "paid" THEN Older(@, Confirm) ELSE @]]
  /\ transfer' = [t \in Transfers |->
       IF transfer[t].seen THEN [transfer[t] EXCEPT !.age = Older(@, TransferAge)]
       ELSE transfer[t]]
  /\ UNCHANGED <<grants, pc, batch, job, faults>>

-----------------------------------------------------------------------------
(* Specification *)

Step(p) ==
  \/ \E a \in Amounts : Insert(p, a)
  \/ Refresh(p) \/ MarkPaid(p) \/ MarkExpired(p)
  \/ ConfirmRead(p) \/ ConfirmUpdate(p) \/ Activate(p)
  \/ ManualUpdate(p)

Call(p) ==
  \/ \E u \in Users : CreateOrder(p, u)
  \/ \E o \in Orders : GetOrder(p, o) \/ ManualRead(p, o)

Next ==
  \/ Tick \/ Scan
  \/ \E o \in Orders : Transfer(o)
  \/ \E p \in Procs : Call(p) \/ Step(p) \/ UpdateError(p) \/ Crash(p)

Spec == Init /\ [][Next]_vars

\* Time passes, requests that began go on, and the worker keeps scanning.
\* Nothing is assumed of buyers, requests or faults.
FairSpec ==
  Spec /\ WF_vars(Tick) /\ WF_vars(Scan) /\ \A p \in Procs : WF_vars(Step(p))

-----------------------------------------------------------------------------
(* Correctness *)

\* A membership is activated only for an order that is confirmed and stays so,
\* whatever the other threads did between reading a row and writing it.
ActivatedIsConfirmed ==
  \A o \in Orders : grants[o] > 0 => order[o].status = "confirmed"

\* An order is paid or confirmed by a transfer of its exact amount that is not
\* older than the order, unless an administrator vouched for it.
PaidByTransfer ==
  \A o \in Orders :
    order[o].status \in {"paid", "confirmed"} /\ ~order[o].manual =>
      order[o].tx \in Matching(o)

\* The moves of an order's status.
StatusStep(o) ==
  LET was == order[o].status
      is == order'[o].status
  IN \/ is = was
     \/ <<was, is>> \in {<<"absent", "pending">>, <<"pending", "paid">>,
                         <<"pending", "expired">>, <<"expired", "paid">>,
                         <<"paid", "confirmed">>}
     \/ is = "confirmed" /\ was # "absent" /\ order'[o].manual

\* An order never goes back and skips no state: a stale row in the memory of a
\* thread cannot reopen, expire or unconfirm an order that another thread has
\* moved on, nor confirm one that was not paid.
StatusForward == [][\A o \in Orders : StatusStep(o)]_vars

\* A transfer that reaches the chain before its order expires confirms the
\* order, across crashes, failed updates and requests on the same order.
OnTimePaymentConfirms ==
  \A o \in Orders :
    order[o].status = "pending" /\ order[o].ttl > 0 /\ Matching(o) # {} ~>
      order[o].status = "confirmed"

\* A confirmed order's membership is activated in the end, whichever of the
\* threads confirmed it (_confirm_and_activate, manual_confirm_order).  The two
\* are separate transactions: a thread that dies or an activation that raises
\* between them leaves the order confirmed for nothing.
ConfirmedIsActivated ==
  \A o \in Orders : order[o].status = "confirmed" ~> grants[o] > 0 \/ faults > 0
-----------------------------------------------------------------------------
(* Inductive invariant *)

\* The order a thread works on exists and has got at least as far as the
\* thread's next step needs it.
JobInv(p) ==
  LET j == job[p]
      status == order[j.id].status
  IN /\ pc[p] \in Labels \ {"idle", "insert", "refresh"} =>
          j.id \in Orders /\ status # "absent"
     /\ pc[p] = "markPaid" => j.tx \in Matching(j.id)
     /\ pc[p] \in {"confirm", "update"} => status \in {"paid", "confirmed"}
     /\ pc[p] = "activate" => status = "confirmed"

\* A row read as paid is paid still, or confirmed.
BatchInv(p) ==
  \A x \in batch[p] :
    /\ order[x.id].status # "absent"
    /\ x.status = "paid" => order[x.id].status \in {"paid", "confirmed"}

PaymentInv ==
  /\ ActivatedIsConfirmed /\ PaidByTransfer
  /\ \A p \in Procs : JobInv(p) /\ BatchInv(p)
=============================================================================
