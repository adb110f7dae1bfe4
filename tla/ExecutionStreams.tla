-------------------------- MODULE ExecutionStreams ---------------------------
(***************************************************************************)
(* The private execution streams beside the order queue: the venue reports *)
(* every fill on a websocket, the supervisor stores the report as an event *)
(* row, and the event processor of the same process projects the event on  *)
(* the pending order, the position and the trades.  The processor and the  *)
(* pending order worker write the same tables from two threads.            *)
(*                                                                         *)
(* An event <<o, l, n>> reports the n-th unit that leg l of order o filled. *)
(* Reports are delivered in any order, or never, and a second delivery of  *)
(* one finds its key taken.                                                *)
(***************************************************************************)
EXTENDS PendingOrders

CONSTANTS
  Streamers,   \* the processes that run an execution stream supervisor
  Cumulative,  \* TRUE: the venue's events carry the cumulative quantity
  MaxTries     \* processing attempts an event gets

ASSUME StreamAssumption ==
  /\ Streamers \subseteq Procs /\ MaxTries \in Nat \ {0}
  /\ Cumulative \in BOOLEAN

VARIABLES
  inbox,      \* qd_execution_events: "none", "new" or "done"
  tries,      \* process_attempts of an event
  projector,  \* what the event processor of each process is doing
  tradedBy,   \* events that own a trade row (its execution_event_id)
  feeBy,      \* events with a fee projection row
  feesAdded   \* how often the fee of an event was added to a trade

streamVars == <<inbox, tries, projector, tradedBy, feeBy, feesAdded>>
allVars == <<vars, streamVars>>

Events == Orders \X {<<"lmt", 0>>, <<"mkt", 0>>} \X (1 .. Amount)

NoEvent == <<NoOrder, NoLeg, 0>>

ProjectorIdle == [pc |-> "idle", ev |-> NoEvent, delta |-> 0]

StreamInit ==
  /\ Init
  /\ inbox = [e \in Events |-> "none"]
  /\ tries = [e \in Events |-> 0]
  /\ projector = [q \in Streamers |-> ProjectorIdle]
  /\ tradedBy = {}
  /\ feeBy = {}
  /\ feesAdded = [e \in Events |-> 0]

-----------------------------------------------------------------------------
(* The event table *)

\* A report arrives: its row is inserted unless its key is there already.
Ingest(e) ==
  /\ inbox[e] = "none" /\ venue[e[1]][e[2]].fill >= e[3]
  /\ inbox' = [inbox EXCEPT ![e] = "new"]
  /\ UNCHANGED <<vars, tries, projector, tradedBy, feeBy, feesAdded>>

\* The order of an event is known once its row carries the venue's order id.
ResolveBinding(e) == row[e[1]].leg = e[2]

Pending(e) == inbox[e] = "new" /\ tries[e] < MaxTries

\* A trade row already carries this event.
AlreadyProjected(e) == e \in tradedBy

\* An event that was projected before the process died is closed.
SkipProjected(q, e) ==
  /\ projector[q].pc = "idle" /\ Pending(e) /\ AlreadyProjected(e)
  /\ inbox' = [inbox EXCEPT ![e] = "done"]
  /\ UNCHANGED <<vars, tries, projector, tradedBy, feeBy, feesAdded>>

\* Mutant: an event without an order is kept for ever.
KeepUnbound(q, e) == FALSE /\ UNCHANGED allVars

\* An event that has no order after two minutes is closed without one.
DropUnbound(q, e) ==
  /\ projector[q].pc = "idle" /\ Pending(e)
  /\ ~AlreadyProjected(e) /\ ~ResolveBinding(e)
  /\ Slow \/ ~Busy(e[1])
  /\ inbox' = [inbox EXCEPT ![e] = "done"]
  /\ UNCHANGED <<vars, tries, projector, tradedBy, feeBy, feesAdded>>

-----------------------------------------------------------------------------
(* Projection of an event on its pending order *)

\* Mutant: every event counts as one more unit.
EveryEventTarget(r, e) == r.filled + 1

\* The row's quantity once the event is counted.
TargetFill(r, e) == IF Cumulative THEN MaxOf(r.filled, e[3]) ELSE r.filled + 1

\* The first transaction: the row takes the new quantity and, unless it has
\* failed or was cancelled, the status of a filled order.
ProjectRow(q, e) ==
  LET o == e[1]
      target == TargetFill(row[o], e)
      full == venue[o][e[2]].qty = e[3]
  IN /\ projector[q].pc = "idle" /\ Pending(e)
     /\ ~AlreadyProjected(e) /\ ResolveBinding(e)
     /\ SetRow(o, [row[o] EXCEPT
          !.filled = target,
          !.st = IF full /\ @ \notin {"failed", "cancelled"} THEN "filled" ELSE @])
     /\ projector' = [projector EXCEPT ![q] =
          [pc |-> IF target > row[o].filled THEN "position" ELSE "fee",
           ev |-> e, delta |-> target - row[o].filled]]
     /\ UNCHANGED <<venue, traded, applied, worker, faults>>
     /\ UNCHANGED <<inbox, tries, tradedBy, feeBy, feesAdded>>

\* persist_strategy_fill applies the new quantity to the position ...
ProjectPosition(q) ==
  /\ projector[q].pc = "position"
  /\ applied' = [applied EXCEPT ![projector[q].ev[1]] = @ + projector[q].delta]
  /\ projector' = [projector EXCEPT ![q].pc = "trade"]
  /\ UNCHANGED <<row, venue, traded, worker, faults>>
  /\ UNCHANGED <<inbox, tries, tradedBy, feeBy, feesAdded>>

\* ... and then inserts the trade, with its fee, under the event's id.
ProjectTrade(q) ==
  LET e == projector[q].ev IN
  /\ projector[q].pc = "trade" /\ e \notin tradedBy
  /\ traded' = [traded EXCEPT ![e[1]] = @ + projector[q].delta]
  /\ tradedBy' = tradedBy \cup {e}
  /\ feesAdded' = [feesAdded EXCEPT ![e] = @ + 1]
  /\ projector' = [projector EXCEPT ![q].pc = "mark"]
  /\ UNCHANGED <<row, venue, applied, worker, faults, inbox, tries, feeBy>>

\* Mutant: the fee projection row is not consulted.
FeeNotGuarded(e) == TRUE

\* The fee of an event is projected at most once.
FeeOpen(e) == e \notin feeBy

\* An event that brings no new quantity may still bring a fee for the newest
\* trade of the order, unless that trade has its fee from REST.
ApplyLateFee(q) ==
  LET e == projector[q].ev IN
  /\ projector[q].pc = "fee" /\ traded[e[1]] > 0
  /\ feeBy' = feeBy \cup {e}
  /\ \E n \in (IF FeeOpen(e) THEN {0, 1} ELSE {0}) :
       feesAdded' = [feesAdded EXCEPT ![e] = @ + n]
  /\ projector' = [projector EXCEPT ![q].pc = "mark"]
  /\ UNCHANGED <<vars, inbox, tries, tradedBy>>

\* An event that brings neither new quantity nor a fee is done.
NoLateFee(q) ==
  /\ projector[q].pc = "fee"
  /\ projector' = [projector EXCEPT ![q].pc = "mark"]
  /\ UNCHANGED <<vars, inbox, tries, tradedBy, feeBy, feesAdded>>

\* The trade the fee belongs to is not there yet: the event is tried again.
LateFeeTooEarly(q) ==
  LET e == projector[q].ev IN
  /\ projector[q].pc = "fee" /\ traded[e[1]] = 0
  /\ tries' = [tries EXCEPT ![e] = @ + 1]
  /\ projector' = [projector EXCEPT ![q] = ProjectorIdle]
  /\ UNCHANGED <<vars, inbox, tradedBy, feeBy, feesAdded>>

\* Anything raised after the first transaction counts as a failed attempt.
ProjectFails(q) ==
  LET e == projector[q].ev IN
  /\ projector[q].pc \in {"position", "trade", "fee"}
  /\ Fault("project")
  /\ tries' = [tries EXCEPT ![e] = @ + 1]
  /\ projector' = [projector EXCEPT ![q] = ProjectorIdle]
  /\ UNCHANGED <<row, venue, traded, applied, worker, inbox, tradedBy, feeBy, feesAdded>>

\* The event is closed.
MarkProcessed(q) ==
  /\ projector[q].pc = "mark"
  /\ inbox' = [inbox EXCEPT ![projector[q].ev] = "done"]
  /\ projector' = [projector EXCEPT ![q] = ProjectorIdle]
  /\ UNCHANGED <<vars, tries, tradedBy, feeBy, feesAdded>>

-----------------------------------------------------------------------------
(* Both components *)

\* REST reconciles when no stream is up, after a reconnect, or for an audit.
RestAudit(p, o) ==
  /\ Fault("audit")
  /\ ClaimSentRow(p, o)
  /\ UNCHANGED streamVars

\* A process that dies takes both of its threads with it.
ProcessCrash(p) ==
  /\ worker[p].pc # "idle" \/ (p \in Streamers /\ projector[p].pc # "idle")
  /\ Fault(IF Syncing(p) THEN "syncCrash" ELSE "crash")
  /\ SetWorker(p, Idle)
  /\ projector' = [q \in Streamers |-> IF q = p THEN ProjectorIdle ELSE projector[q]]
  /\ UNCHANGED <<row, venue, traded, applied, inbox, tries, tradedBy, feeBy, feesAdded>>

ProjectorStep(q) ==
  \/ ProjectPosition(q) \/ ProjectTrade(q) \/ ApplyLateFee(q)
  \/ NoLateFee(q) \/ LateFeeTooEarly(q) \/ ProjectFails(q) \/ MarkProcessed(q)

TakeEvent(q, e) == SkipProjected(q, e) \/ DropUnbound(q, e) \/ ProjectRow(q, e)

\* The steps of the order queue, which leave the event tables alone.
QueueNext ==
  /\ \/ \E o \in Orders : Submit(o) \/ RequeueProcessing(o) \/ RequeueSyncing(o)
     \/ \E p \in Procs, o \in Orders : Claim(p, o)
     \/ \E p \in Procs : WorkerStep(p)
     \/ \E o \in Orders, l \in Legs : VenueFills(o, l) \/ VenueCancels(o, l)
  /\ UNCHANGED streamVars

StreamNext ==
  \/ QueueNext
  \/ \E e \in Events : Ingest(e)
  \/ \E q \in Streamers, e \in Events : TakeEvent(q, e)
  \/ \E q \in Streamers : ProjectorStep(q)
  \/ \E p \in Procs, o \in Orders : RestAudit(p, o)
  \/ \E p \in Procs : ProcessCrash(p)

StreamSpec == StreamInit /\ [][StreamNext]_allVars

\* Both threads go on with what they have begun and look at every row.
StreamFairness ==
  /\ \A p \in Procs : WF_allVars(WorkerStep(p) /\ UNCHANGED streamVars)
  /\ \A o \in Orders :
       /\ SF_allVars((\E p \in Procs : Claim(p, o)) /\ UNCHANGED streamVars)
       /\ SF_allVars(RequeueProcessing(o) /\ UNCHANGED streamVars)
  /\ \A q \in Streamers : WF_allVars(ProjectorStep(q))
  /\ \A q \in Streamers : WF_allVars(\E e \in Events : TakeEvent(q, e))

StreamFairSpec == StreamSpec /\ StreamFairness

-----------------------------------------------------------------------------
(* Properties *)

\* The fee of an event is added to a trade at most once, whether it came with
\* the trade or late, and whatever the process died between
\* (_already_projected, _apply_late_fee).
FeeCountedOnce == \A e \in Events : feesAdded[e] <= 1

\* Every stored event is closed in the end, or its attempts are used up: no
\* crash and no missing order keeps it coming back (process_pending).
EventsSettle ==
  \A e \in Events : inbox[e] = "new" ~> (inbox[e] = "done" \/ tries[e] = MaxTries)

-----------------------------------------------------------------------------
(* Inductive invariants, for the proofs *)

Projector == [pc : {"idle", "position", "trade", "fee", "mark"},
              ev : Events \cup {NoEvent}, delta : Nat]

\* An event reports a unit that was filled, and is projected on a row that was
\* sent.
ProjectorInv ==
  /\ projector \in [Streamers -> Projector]
  /\ inbox \in [Events -> {"none", "new", "done"}]
  /\ feesAdded \in [Events -> Nat]
  /\ \A e \in Events : inbox[e] # "none" => e[3] <= venue[e[1]][e[2]].fill
  /\ \A q \in Streamers :
       projector[q].pc # "idle" =>
         /\ projector[q].ev \in Events /\ inbox[projector[q].ev] # "none"
         /\ row[projector[q].ev[1]].leg # NoLeg

\* Before the first audit no worker reconciles.
NoSyncInv == Without({"audit"}) => \A p \in Procs : ~Reconciling(p)

\* What the projectors will still add to the trades and to the position.
ReportedTrade(o, w) == IF w.ev[1] = o /\ w.pc \in {"position", "trade"} THEN w.delta ELSE 0
ReportedPosition(o, w) == IF w.ev[1] = o /\ w.pc = "position" THEN w.delta ELSE 0

ReportedTrades(o) == Total([q \in Streamers |-> ReportedTrade(o, projector[q])])
ReportedPositions(o) == Total([q \in Streamers |-> ReportedPosition(o, projector[q])])

\* The row accounts for what the worker and the projectors record, and the venue
\* for the row.
StreamFillInv ==
  Without({"audit"}) =>
    \A o \in Orders :
      /\ row[o].filled <= VenueFill(o)
      /\ traded[o] + OwedTrades(o) + ReportedTrades(o) <= row[o].filled
      /\ applied[o] + OwedPositions(o) + ReportedPositions(o) <= row[o].filled

\* With one event processor: an event is on its way to a trade of its own, or to
\* a late fee because the row counts it already, and never to both.
FeeInv ==
  Without({"audit"}) =>
    /\ \A e \in Events :
         /\ feesAdded[e] <= 1
         /\ e \notin tradedBy /\ e \notin feeBy => feesAdded[e] = 0
         /\ e \in feeBy => Cumulative /\ row[e[1]].filled >= e[3]
    /\ \A q \in Streamers :
         LET w == projector[q] IN
         /\ w.pc \in {"position", "trade", "fee"} => w.ev \notin tradedBy
         /\ w.pc \in {"position", "trade"} => w.ev \notin feeBy
         /\ w.pc = "fee" => Cumulative /\ row[w.ev[1]].filled >= w.ev[3]
=============================================================================
