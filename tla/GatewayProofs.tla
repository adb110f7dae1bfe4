---------------------------- MODULE GatewayProofs ----------------------------
(* Theorems about AgentGateway, for every value of its constants. *)
EXTENDS AgentGateway, TotalsProofs

LEMMA NullsTyped ==
  /\ NoCall \in Call /\ NoCall.pc = "idle" /\ NoCall.key = NoKey
  /\ NoJob \in JobRow /\ NoJob.st = "none"
BY DEF NoCall, Call, CallPcs, NoJob, JobRow

\* A call that goes on keeps its key.
LEMMA GotoStep ==
  ASSUME handler \in [Handlers -> Call], NEW h \in Handlers, NEW p \in CallPcs, Goto(h, p)
  PROVE /\ handler' \in [Handlers -> Call]
        /\ handler'[h].pc = p /\ handler'[h].key = handler[h].key
        /\ \A g \in Handlers \ {h} : handler'[g] = handler[g]
BY DEF Goto, Call

\* Where a call stands tells which route it is on.
LEMMA RoutePcs ==
  ASSUME RouteInv, NEW h \in Handlers
  PROVE /\ handler[h].pc = "idle" <=> handler[h] = NoCall
        /\ handler[h].pc \in {"reserve", "place", "finish", "record"} => handler[h].key \in OrderKeys
        /\ handler[h].pc \in {"count", "insert", "enqueue"} => handler[h].key \in JobKeys
        /\ handler[h].pc # "idle" => handler[h].key \in Keys
BY NullsTyped DEF RouteInv, OrderPcs, JobPcs, Keys

\* A fault is remembered.
LEMMA FaultStep ==
  ASSUME NEW f, faults \subseteq Faults, Fault(f)
  PROVE faults' = faults \cup {f} /\ faults' \subseteq Faults
BY DEF Fault

\* A job row after an update of its status.
LEMMA SetStatusStep ==
  ASSUME job \in [JobKeys -> JobRow], NEW k \in JobKeys,
         NEW st \in Active \cup Terminal, job' = SetStatus(k, st)
  PROVE /\ job' \in [JobKeys -> JobRow]
        /\ job'[k].st = IF job[k].st = "cancelled" THEN "cancelled" ELSE st
        /\ job'[k].mode = job[k].mode /\ job'[k].owner = job[k].owner
        /\ \A j \in JobKeys \ {k} : job'[j] = job[j]
BY DEF SetStatus, JobRow, Terminal

LEMMA TypeInit == Init => GatewayTypeOK
BY NullsTyped DEF Init, IdemRow, GatewayTypeOK

LEMMA TypeStep == GatewayTypeOK /\ RouteInv /\ [Next]_vars => GatewayTypeOK'
<1> USE NullsTyped DEF GatewayTypeOK
<1> SUFFICES ASSUME GatewayTypeOK, RouteInv, [Next]_vars PROVE GatewayTypeOK'
  OBVIOUS
<1>1. ASSUME NEW h \in Handlers, NEW k \in Keys, NEW b \in Bodies, ReserveIdempotency(h, k, b)
      PROVE GatewayTypeOK'
  BY <1>1 DEF ReserveIdempotency, orderVars, jobVars, IdemRow, Call, CallPcs
<1>2. ASSUME NEW h \in Handlers, CallStep(h) PROVE GatewayTypeOK'
  <2>1. CASE CompleteIdempotency(h)
    BY <2>1, FaultStep DEF CompleteIdempotency, orderVars, jobVars, IdemRow
  <2>2. CASE RefuseCall(h)
    BY <2>2, GotoStep DEF RefuseCall, orderVars, jobVars, CallPcs
  <2>3. CASE WithIdempotency(h)
    BY <2>3, GotoStep, FaultStep DEF WithIdempotency, orderVars, jobVars, CallPcs
  <2>4. CASE ReserveLiveNotional(h)
    BY <2>4, RoutePcs, GotoStep DEF ReserveLiveNotional, orderVars, jobVars, CallPcs
  <2>5. CASE PlaceLiveOrder(h)
    BY <2>5, RoutePcs, GotoStep DEF PlaceLiveOrder, orderVars, jobVars, CallPcs
  <2>6. CASE PlaceLiveFails(h)
    BY <2>6, RoutePcs, GotoStep, FaultStep DEF PlaceLiveFails, orderVars, jobVars, CallPcs
  <2>7. CASE FinishLiveNotional(h)
    BY <2>7, RoutePcs, GotoStep DEF FinishLiveNotional, orderVars, jobVars, CallPcs
  <2>8. CASE RecordCompletedJob(h)
    BY <2>8, RoutePcs, GotoStep, FaultStep DEF RecordCompletedJob, CompletedRows, orderVars, jobVars, CallPcs
  <2>9. CASE CountActiveJobs(h)
    BY <2>9, GotoStep DEF CountActiveJobs, orderVars, jobVars, CallPcs
  <2>10. CASE InsertJob(h)
    <3>1. job' \in [JobKeys -> JobRow]
      <4>1. \A m \in Modes : [st |-> "queued", mode |-> m, owner |-> h] \in JobRow
        BY CapsAssumption DEF JobRow, Active
      <4>2. QED
        BY <2>10, <4>1 DEF InsertJob
    <3>2. handler' \in [Handlers -> Call]
      BY <2>10, GotoStep DEF InsertJob, CallPcs
    <3>3. QED
      BY <2>10, <3>1, <3>2 DEF InsertJob, orderVars
  <2>11. CASE EnqueueJob(h)
    BY <2>11, RoutePcs, GotoStep, FaultStep DEF EnqueueJob, orderVars, jobVars, CallPcs
  <2>12. QED
    BY <1>2, <2>1, <2>2, <2>3, <2>4, <2>5, <2>6, <2>7, <2>8, <2>9, <2>10, <2>11 DEF CallStep
<1>3. ASSUME NEW h \in Handlers, Crash(h) PROVE GatewayTypeOK'
  BY <1>3, FaultStep DEF Crash, orderVars
<1>4. ASSUME NEW k \in JobKeys, JobStep(k) PROVE GatewayTypeOK'
  <2>1. CASE TakeMessage(k)
    BY <2>1 DEF TakeMessage, callVars, orderVars
  <2>2. CASE StartJob(k)
    BY <2>2, SetStatusStep DEF StartJob, callVars, orderVars, Active
  <2>3. CASE FinishJob(k)
    <3>1. PICK st \in {"succeeded", "failed"} : job' = SetStatus(k, st)
      BY <2>3 DEF FinishJob
    <3>2. QED
      BY <2>3, <3>1, SetStatusStep DEF FinishJob, callVars, orderVars, Terminal
  <2>4. CASE AckJob(k)
    BY <2>4 DEF AckJob, callVars, orderVars
  <2>5. QED
    BY <1>4, <2>1, <2>2, <2>3, <2>4 DEF JobStep
<1>5. ASSUME NEW k \in JobKeys, CancelJob(k) PROVE GatewayTypeOK'
  BY <1>5 DEF CancelJob, callVars, orderVars, JobRow, Terminal
<1>6. ASSUME NEW k \in JobKeys, WorkerCrash(k) PROVE GatewayTypeOK'
  BY <1>6, FaultStep DEF WorkerCrash, Redelivered, callVars, orderVars
<1>7. ASSUME NEW c \in Clients, NEW k \in JobKeys, StreamResult(c, k) PROVE GatewayTypeOK'
  BY <1>7 DEF StreamResult, callVars, orderVars, jobVars
<1>8. CASE UNCHANGED vars
  BY <1>8 DEF vars, callVars, orderVars, jobVars
<1>9. QED
  BY <1>1, <1>2, <1>3, <1>4, <1>5, <1>6, <1>7, <1>8 DEF Next

CallInv == RouteInv /\ KeyInv

\* A call that goes on along its route keeps the invariant of the calls.
LEMMA GotoCallInv ==
  ASSUME GatewayTypeOK, CallInv, NEW h \in Handlers, NEW p \in CallPcs, Goto(h, p),
         idem' = idem, handler[h].pc # "idle",
         handler[h].key \in OrderKeys => p \in OrderPcs,
         handler[h].key \in JobKeys => p \in JobPcs
  PROVE CallInv'
<1> USE DEF CallInv, GatewayTypeOK
<1>1. /\ handler'[h].pc = p /\ handler'[h].key = handler[h].key
      /\ \A g \in Handlers \ {h} : handler'[g] = handler[g]
  BY GotoStep
<1>2. handler[h].key \in Keys /\ handler[h] # NoCall
  BY RoutePcs
<1>3. RouteInv'
  BY <1>1, <1>2 DEF RouteInv, Keys
<1>4. \A g \in Handlers : handler'[g] # NoCall => handler[g] # NoCall /\ handler'[g].key = handler[g].key
  BY <1>1, <1>2
<1>5. \A g \in Handlers : handler'[g].key = handler[g].key
  BY <1>1
<1>6. KeyInv'
  BY <1>4, <1>5 DEF KeyInv
<1>7. QED
  BY <1>3, <1>6

LEMMA CallInit == Init => CallInv
BY DEF Init, CallInv, RouteInv, KeyInv

LEMMA CallInvStep == GatewayTypeOK /\ CallInv /\ [Next]_vars => CallInv'
<1> SUFFICES ASSUME GatewayTypeOK, CallInv, [Next]_vars PROVE CallInv'
  OBVIOUS
<1> USE DEF CallInv
<1>1. ASSUME NEW h \in Handlers, NEW k \in Keys, NEW b \in Bodies, ReserveIdempotency(h, k, b)
      PROVE CallInv'
  <2>1. handler[h] = NoCall /\ \A g \in Handlers : handler[g].key # k
    <3>1. idem[k].st = "none" => \A g \in Handlers : handler[g].key # k
      BY NullsTyped, KeysAssumption DEF KeyInv
    <3>2. QED
      BY <1>1, <3>1, RoutePcs DEF ReserveIdempotency, Reservable, Stale
  <2>2. /\ handler'[h].key = k /\ handler'[h] # NoCall
        /\ handler'[h].pc = IF k \in OrderKeys THEN "lookup" ELSE "count"
        /\ \A g \in Handlers \ {h} : handler'[g] = handler[g]
    BY <1>1, NullsTyped, KeysAssumption DEF ReserveIdempotency, GatewayTypeOK
  <2>3. RouteInv'
    BY <2>2 DEF RouteInv, OrderPcs, JobPcs, Keys
  <2>4. idem'[k].st = "started" /\ \A j \in Keys \ {k} : idem'[j] = idem[j]
    BY <1>1 DEF ReserveIdempotency, GatewayTypeOK
  <2>5. KeyInv'
    BY <2>1, <2>2, <2>4, RoutePcs DEF KeyInv
  <2>6. QED
    BY <2>3, <2>5
<1>2. ASSUME NEW h \in Handlers, CallStep(h) PROVE CallInv'
  <2> USE RoutePcs DEF OrderPcs, JobPcs, CallPcs
  <2>1. CASE CompleteIdempotency(h)
    <3>1. /\ handler'[h] = NoCall
          /\ \A g \in Handlers \ {h} : handler'[g] = handler[g]
      BY <2>1 DEF CompleteIdempotency, GatewayTypeOK
    <3>2. \A j \in Keys : j # handler[h].key => idem'[j] = idem[j]
      BY <2>1 DEF CompleteIdempotency, GatewayTypeOK
    <3>3. RouteInv'
      BY <3>1 DEF RouteInv
    <3>4. KeyInv'
      BY <3>1, <3>2, NullsTyped, KeysAssumption DEF KeyInv
    <3>5. QED
      BY <3>3, <3>4
  <2>2. CASE RefuseCall(h)
    BY <2>2, GotoCallInv DEF RefuseCall
  <2>3. CASE WithIdempotency(h)
    BY <2>3, GotoCallInv, KeysAssumption DEF WithIdempotency
  <2>4. CASE ReserveLiveNotional(h)
    BY <2>4, GotoCallInv, KeysAssumption DEF ReserveLiveNotional
  <2>5. CASE PlaceLiveOrder(h)
    BY <2>5, GotoCallInv, KeysAssumption DEF PlaceLiveOrder
  <2>6. CASE PlaceLiveFails(h)
    BY <2>6, GotoCallInv, KeysAssumption DEF PlaceLiveFails
  <2>7. CASE FinishLiveNotional(h)
    BY <2>7, GotoCallInv, KeysAssumption DEF FinishLiveNotional
  <2>8. CASE RecordCompletedJob(h)
    BY <2>8, GotoCallInv, KeysAssumption DEF RecordCompletedJob
  <2>9. CASE CountActiveJobs(h)
    BY <2>9, GotoCallInv, KeysAssumption DEF CountActiveJobs
  <2>10. CASE InsertJob(h)
    BY <2>10, GotoCallInv, KeysAssumption DEF InsertJob
  <2>11. CASE EnqueueJob(h)
    BY <2>11, GotoCallInv, KeysAssumption DEF EnqueueJob
  <2>12. QED
    BY <1>2, <2>1, <2>2, <2>3, <2>4, <2>5, <2>6, <2>7, <2>8, <2>9, <2>10, <2>11 DEF CallStep
<1>3. ASSUME NEW h \in Handlers, Crash(h) PROVE CallInv'
  <2>1. /\ handler'[h] = NoCall /\ idem' = idem
        /\ \A g \in Handlers \ {h} : handler'[g] = handler[g]
    BY <1>3 DEF Crash, GatewayTypeOK
  <2>2. QED
    BY <2>1, NullsTyped, RoutePcs, KeysAssumption DEF RouteInv, KeyInv
<1>4. ASSUME handler' = handler, idem' = idem PROVE CallInv'
  BY <1>4 DEF RouteInv, KeyInv
<1>5. ASSUME NEW k \in JobKeys, JobStep(k) \/ CancelJob(k) \/ WorkerCrash(k) PROVE CallInv'
  BY <1>4, <1>5 DEF JobStep, TakeMessage, StartJob, FinishJob, AckJob, CancelJob, WorkerCrash, callVars
<1>6. ASSUME NEW c \in Clients, NEW k \in JobKeys, StreamResult(c, k) PROVE CallInv'
  BY <1>4, <1>6 DEF StreamResult, callVars
<1>7. CASE UNCHANGED vars
  BY <1>4, <1>7 DEF vars, callVars
<1>8. QED
  BY <1>1, <1>2, <1>3, <1>5, <1>6, <1>7 DEF Next

\* The tables, calls and executions of the gateway stay well formed.
THEOREM GatewayTypeCorrect == Spec => []GatewayTypeOK
<1>1. GatewayTypeOK /\ CallInv /\ [Next]_vars => (GatewayTypeOK /\ CallInv)'
  BY TypeStep, CallInvStep DEF CallInv
<1>2. QED
  BY <1>1, TypeInit, CallInit, PTL DEF Spec
-----------------------------------------------------------------------------
(* One order per key *)

\* Faults are never forgotten.
LEMMA FaultsGrow ==
  ASSUME [Next]_vars
  PROVE faults \subseteq faults'
<1> USE DEF Fault
<1>1. ASSUME NEW h \in Handlers, NEW k \in Keys, NEW b \in Bodies, ReserveIdempotency(h, k, b)
      PROVE faults \subseteq faults'
  BY <1>1 DEF ReserveIdempotency
<1>2. ASSUME NEW h \in Handlers, CallStep(h) PROVE faults \subseteq faults'
  BY <1>2 DEF CallStep, CompleteIdempotency, RefuseCall, WithIdempotency, ReserveLiveNotional,
              PlaceLiveOrder, PlaceLiveFails, FinishLiveNotional, RecordCompletedJob,
              CountActiveJobs, InsertJob, EnqueueJob
<1>3. ASSUME NEW h \in Handlers, Crash(h) PROVE faults \subseteq faults'
  BY <1>3 DEF Crash
<1>4. ASSUME NEW k \in JobKeys, JobStep(k) \/ CancelJob(k) \/ WorkerCrash(k)
      PROVE faults \subseteq faults'
  BY <1>4 DEF JobStep, TakeMessage, StartJob, FinishJob, AckJob, CancelJob, WorkerCrash
<1>5. ASSUME NEW c \in Clients, NEW k \in JobKeys, StreamResult(c, k) PROVE faults \subseteq faults'
  BY <1>5 DEF StreamResult
<1>6. CASE UNCHANGED vars
  BY <1>6 DEF vars
<1>7. QED
  BY <1>1, <1>2, <1>3, <1>4, <1>5, <1>6 DEF Next

\* Jobs and their clients leave calls and orders alone.
OrderFrame == UNCHANGED <<idem, handler, reservation, placed, recorded>>

LEMMA JobStepsFrame ==
  ASSUME NEW k \in JobKeys, JobStep(k) \/ CancelJob(k) \/ WorkerCrash(k)
  PROVE OrderFrame
BY DEF JobStep, TakeMessage, StartJob, FinishJob, AckJob, CancelJob, WorkerCrash,
       callVars, orderVars, OrderFrame

LEMMA StreamFrame ==
  ASSUME NEW c \in Clients, NEW k \in JobKeys, StreamResult(c, k)
  PROVE OrderFrame
BY DEF StreamResult, callVars, orderVars, OrderFrame

LEMMA FirstTryInit == Init => FirstTryInv
BY NullsTyped, KeysAssumption DEF Init, FirstTryInv, NoOrderYet, Keys

\* A call that goes on without touching its order.
LEMMA FirstTryGoto ==
  ASSUME GatewayTypeOK, CallInv, FirstTryInv, faults \subseteq faults',
         NEW h \in Handlers, NEW p \in CallPcs, Goto(h, p),
         handler[h].pc # "idle", idem' = idem, placed' = placed, reservation' = reservation,
         p \in {"reserve", "complete", "record", "insert", "enqueue", "lookup"},
         p \in {"reserve", "lookup"} => handler[h].pc \in {"lookup", "count"}
                                         /\ (p = "lookup" => handler[h].key \in JobKeys)
  PROVE FirstTryInv'
<1> USE DEF GatewayTypeOK, Without
<1>1. /\ handler'[h].pc = p
      /\ \A g \in Handlers : handler'[g].key = handler[g].key
      /\ \A g \in Handlers \ {h} : handler'[g] = handler[g]
  BY GotoStep
<1>2. QED
  BY <1>1, RoutePcs, KeysAssumption DEF CallInv, FirstTryInv, NoOrderYet

\* A call that goes on with its order: the only one that serves the key.
LEMMA FirstTryServe ==
  ASSUME GatewayTypeOK, CallInv, FirstTryInv, Without({"crash", "complete"}),
         NEW h \in Handlers, NEW p \in {"place", "finish", "record", "complete"}, Goto(h, p),
         NEW k \in OrderKeys, handler[h].key = k, idem' = idem, placed'[k] <= 1,
         \A j \in OrderKeys \ {k} : placed'[j] = placed[j] /\ reservation'[j] = reservation[j],
         p = "place" => placed'[k] = 0,
         p \in {"place", "finish"} => reservation'[k] = "reserved"
  PROVE FirstTryInv'
<1> USE DEF GatewayTypeOK
<1>1. /\ handler'[h].pc = p
      /\ \A g \in Handlers : handler'[g].key = handler[g].key
      /\ \A g \in Handlers \ {h} : handler'[g] = handler[g]
  BY GotoStep DEF CallPcs
<1>2. handler[h] # NoCall
  BY NullsTyped, KeysAssumption DEF Keys
<1>3. idem[k].st = "started" /\ \A g \in Handlers \ {h} : handler[g].key # k
  BY <1>2 DEF CallInv, KeyInv
<1>4. /\ \A j \in Keys : idem'[j].st = "started" => \E g \in Handlers : handler'[g].key = j
      /\ \A j \in OrderKeys : 
           /\ placed'[j] <= 1
           /\ idem'[j].st = "none" => placed'[j] = 0 /\ reservation'[j] = "none"
  BY <1>1, <1>3 DEF FirstTryInv
<1>5. ASSUME NEW g \in Handlers
      PROVE /\ handler'[g].key \in OrderKeys /\ handler'[g].pc \in {"lookup", "reserve", "place"}
                 => placed'[handler'[g].key] = 0
            /\ handler'[g].key \in OrderKeys /\ handler'[g].pc \in {"lookup", "reserve"}
                 => reservation'[handler'[g].key] = "none"
            /\ handler'[g].pc \in {"place", "finish"} => reservation'[handler'[g].key] = "reserved"
  <2>1. CASE g = h
    BY <2>1, <1>1
  <2>2. CASE g # h
    BY <2>2, <1>1, <1>3, RoutePcs DEF FirstTryInv, CallInv, NoOrderYet
  <2>3. QED
    BY <2>1, <2>2
<1>6. QED
  BY <1>4, <1>5 DEF FirstTryInv, NoOrderYet

LEMMA FirstTryStep ==
  ASSUME GatewayTypeOK, CallInv, FirstTryInv, [Next]_vars
  PROVE FirstTryInv'
<1> SUFFICES ASSUME Without({"crash", "complete"})' PROVE FirstTryInv'
  BY DEF FirstTryInv
<1>0. faults \subseteq faults' /\ Without({"crash", "complete"})
  BY FaultsGrow DEF Without
<1>f. OrderFrame => FirstTryInv'
  BY <1>0 DEF OrderFrame, FirstTryInv, NoOrderYet, Without
<1> USE DEF CallInv
<1>1. ASSUME NEW h \in Handlers, NEW k \in Keys, NEW b \in Bodies, ReserveIdempotency(h, k, b)
      PROVE FirstTryInv'
  <2>1. idem[k].st = "none"
    BY <1>0, <1>1 DEF ReserveIdempotency, Reservable, Stale, FirstTryInv
  <2>2. /\ handler'[h].key = k
        /\ handler'[h].pc = IF k \in OrderKeys THEN "lookup" ELSE "count"
        /\ handler[h].pc = "idle"
        /\ \A g \in Handlers \ {h} : handler'[g] = handler[g]
        /\ placed' = placed /\ reservation' = reservation
    BY <1>1 DEF ReserveIdempotency, GatewayTypeOK, orderVars
  <2>3. idem'[k].st = "started" /\ \A j \in Keys \ {k} : idem'[j] = idem[j]
    BY <1>1 DEF ReserveIdempotency, GatewayTypeOK
  <2>4. handler[h].key = NoKey
    BY <2>2, RoutePcs, NullsTyped
  <2>5. QED
    BY <1>0, <2>1, <2>2, <2>3, <2>4, KeysAssumption DEF FirstTryInv, NoOrderYet, Keys
<1>2. ASSUME NEW h \in Handlers, CallStep(h) PROVE FirstTryInv'
  <2> USE RoutePcs DEF CallPcs
  <2>1. CASE CompleteIdempotency(h)
    <3>1. /\ handler'[h] = NoCall
          /\ \A g \in Handlers \ {h} : handler'[g] = handler[g]
          /\ placed' = placed /\ reservation' = reservation
      BY <2>1 DEF CompleteIdempotency, GatewayTypeOK, orderVars
    <3>2. /\ idem'[handler[h].key].st = "completed"
          /\ \A j \in Keys : j # handler[h].key => idem'[j] = idem[j]
      BY <2>1 DEF CompleteIdempotency, GatewayTypeOK, IdemRow, Without, Fault
    <3>3. QED
      BY <1>0, <3>1, <3>2, NullsTyped, KeysAssumption DEF FirstTryInv, NoOrderYet, Keys
  <2>2. CASE RefuseCall(h)
    BY <2>2, <1>0, FirstTryGoto DEF RefuseCall, orderVars
  <2>3. CASE WithIdempotency(h)
    BY <2>3, <1>0, FirstTryGoto DEF WithIdempotency, orderVars
  <2>4. CASE ReserveLiveNotional(h)
    <3> DEFINE k == handler[h].key
    <3>1. k \in OrderKeys /\ reservation[k] = "none" /\ placed[k] = 0
      BY <1>0, <2>4 DEF FirstTryInv, NoOrderYet, ReserveLiveNotional
    <3>2. \E p \in {"place", "complete"} :
            /\ Goto(h, p) /\ (p = "place" => reservation'[k] = "reserved")
            /\ idem' = idem /\ placed' = placed
            /\ \A j \in OrderKeys \ {k} : reservation'[j] = reservation[j]
      BY <2>4, <3>1 DEF ReserveLiveNotional, GatewayTypeOK
    <3>3. QED
      BY <1>0, <3>1, <3>2, FirstTryServe
  <2>5. CASE PlaceLiveOrder(h)
    <3> DEFINE k == handler[h].key
    <3>1. k \in OrderKeys /\ reservation[k] = "reserved" /\ placed[k] = 0
      BY <1>0, <2>5 DEF FirstTryInv, NoOrderYet, PlaceLiveOrder
    <3>2. /\ Goto(h, "finish") /\ idem' = idem /\ reservation' = reservation
          /\ placed'[k] = 1 /\ \A j \in OrderKeys \ {k} : placed'[j] = placed[j]
      BY <2>5, <3>1 DEF PlaceLiveOrder, GatewayTypeOK
    <3>3. QED
      BY <1>0, <3>1, <3>2, FirstTryServe
  <2>6. CASE PlaceLiveFails(h)
    <3> DEFINE k == handler[h].key
    <3>1. k \in OrderKeys /\ placed[k] = 0
      BY <1>0, <2>6 DEF FirstTryInv, NoOrderYet, PlaceLiveFails
    <3>2. /\ Goto(h, "complete") /\ idem' = idem
          /\ \A j \in OrderKeys \ {k} : reservation'[j] = reservation[j]
          /\ placed'[k] <= 1 /\ \A j \in OrderKeys \ {k} : placed'[j] = placed[j]
      BY <2>6, <3>1 DEF PlaceLiveFails, GatewayTypeOK
    <3>3. QED
      BY <1>0, <3>1, <3>2, FirstTryServe
  <2>7. CASE FinishLiveNotional(h)
    <3> DEFINE k == handler[h].key
    <3>1. k \in OrderKeys /\ placed[k] <= 1
      BY <1>0, <2>7 DEF FirstTryInv, FinishLiveNotional
    <3>2. /\ Goto(h, "record") /\ idem' = idem /\ placed' = placed
          /\ \A j \in OrderKeys \ {k} : reservation'[j] = reservation[j]
      BY <2>7, <3>1 DEF FinishLiveNotional, GatewayTypeOK
    <3>3. QED
      BY <1>0, <3>1, <3>2, FirstTryServe
  <2>8. CASE RecordCompletedJob(h)
    BY <2>8, <1>0, FirstTryGoto, KeysAssumption DEF RecordCompletedJob, orderVars
  <2>9. CASE CountActiveJobs(h)
    BY <2>9, <1>0, FirstTryGoto, KeysAssumption DEF CountActiveJobs, orderVars
  <2>10. CASE InsertJob(h)
    BY <2>10, <1>0, FirstTryGoto, KeysAssumption DEF InsertJob, orderVars
  <2>11. CASE EnqueueJob(h)
    BY <2>11, <1>0, FirstTryGoto, KeysAssumption DEF EnqueueJob, orderVars
  <2>12. QED
    BY <1>2, <2>1, <2>2, <2>3, <2>4, <2>5, <2>6, <2>7, <2>8, <2>9, <2>10, <2>11 DEF CallStep
<1>3. ASSUME NEW h \in Handlers, Crash(h) PROVE FirstTryInv'
  BY <1>3 DEF Crash, Fault, Without
<1>4. QED
  BY <1>1, <1>2, <1>3, <1>f, JobStepsFrame, StreamFrame DEF Next, vars, callVars, orderVars, OrderFrame

\* The faults that let a key with an order lose its record.
RecordFaults == {"crash", "record", "lookup", "lostReply"}

LEMMA RecordInit == Init => RecordInv
BY NullsTyped DEF Init, RecordInv, NoOrderYet

\* A call on the job route goes on.
LEMMA RecordJobGoto ==
  ASSUME GatewayTypeOK, CallInv, RecordInv, Without(RecordFaults),
         NEW h \in Handlers, NEW p \in CallPcs, Goto(h, p), handler[h].key \in JobKeys,
         placed' = placed, recorded' = recorded
  PROVE RecordInv'
<1>1. /\ \A g \in Handlers : handler'[g].key = handler[g].key
      /\ \A g \in Handlers \ {h} : handler'[g] = handler[g]
  BY GotoStep DEF GatewayTypeOK
<1>2. handler[h].key \notin OrderKeys
  BY KeysAssumption
<1>3. QED
  BY <1>1, <1>2 DEF RecordInv, NoOrderYet, RecordFaults

\* A call on the order route goes on: the only one that serves its key.
LEMMA RecordServe ==
  ASSUME GatewayTypeOK, CallInv, RecordInv, Without(RecordFaults),
         NEW h \in Handlers, NEW p \in CallPcs, Goto(h, p),
         NEW k \in OrderKeys, handler[h].key = k,
         \A j \in OrderKeys \ {k} : placed'[j] = placed[j], recorded \subseteq recorded',
         placed'[k] <= 1, placed'[k] = 1 => k \in recorded' \/ p \in {"finish", "record"},
         p \in {"reserve", "place"} => placed'[k] = 0
  PROVE RecordInv'
<1>1. /\ handler'[h].pc = p
      /\ \A g \in Handlers : handler'[g].key = handler[g].key
      /\ \A g \in Handlers \ {h} : handler'[g] = handler[g]
  BY GotoStep DEF GatewayTypeOK
<1>2. handler[h] # NoCall
  BY NullsTyped, KeysAssumption DEF Keys
<1>3. \A g \in Handlers \ {h} : handler[g].key # k
  BY <1>2 DEF CallInv, KeyInv
<1>4. ASSUME NEW j \in OrderKeys
      PROVE /\ placed'[j] <= 1
            /\ placed'[j] = 1 =>
                 \/ j \in recorded'
                 \/ \E g \in Handlers : handler'[g].key = j /\ handler'[g].pc \in {"finish", "record"}
            /\ \A g \in Handlers :
                 handler'[g].key = j /\ handler'[g].pc \in {"reserve", "place"} => placed'[handler'[g].key] = 0
  <2>1. CASE j = k
    BY <2>1, <1>1, <1>3
  <2>2. CASE j # k
    BY <2>2, <1>1 DEF RecordInv, NoOrderYet, RecordFaults
  <2>3. QED
    BY <2>1, <2>2
<1>5. QED
  BY <1>4 DEF RecordInv, NoOrderYet

LEMMA RecordStep ==
  ASSUME GatewayTypeOK, CallInv, RecordInv, [Next]_vars
  PROVE RecordInv'
<1> SUFFICES ASSUME Without(RecordFaults)' PROVE RecordInv'
  BY DEF RecordInv, RecordFaults
<1>0. faults \subseteq faults' /\ Without(RecordFaults)
  BY FaultsGrow DEF Without
<1>f. OrderFrame => RecordInv'
  BY <1>0 DEF OrderFrame, RecordInv, NoOrderYet, RecordFaults
<1> USE DEF CallInv
<1>1. ASSUME NEW h \in Handlers, NEW k \in Keys, NEW b \in Bodies, ReserveIdempotency(h, k, b)
      PROVE RecordInv'
  <2>1. /\ handler'[h].pc \in {"lookup", "count"} /\ handler[h].pc = "idle"
        /\ \A g \in Handlers \ {h} : handler'[g] = handler[g]
        /\ placed' = placed /\ recorded' = recorded
    BY <1>1 DEF ReserveIdempotency, GatewayTypeOK, orderVars
  <2>2. QED
    BY <1>0, <2>1 DEF RecordInv, NoOrderYet, RecordFaults
<1>2. ASSUME NEW h \in Handlers, CallStep(h) PROVE RecordInv'
  <2> USE RoutePcs, <1>0 DEF CallPcs
  <2> DEFINE k == handler[h].key
  <2>0. k \in OrderKeys => placed[k] \in Nat /\ placed[k] <= 1
    BY DEF GatewayTypeOK, RecordInv, RecordFaults
  <2>1. CASE CompleteIdempotency(h)
    <3>1. /\ handler'[h].pc = "idle" /\ handler[h].pc = "complete"
          /\ \A g \in Handlers \ {h} : handler'[g] = handler[g]
          /\ placed' = placed /\ recorded' = recorded
      BY <2>1, NullsTyped DEF CompleteIdempotency, GatewayTypeOK, orderVars
    <3>2. QED
      BY <3>1 DEF RecordInv, NoOrderYet, RecordFaults
  <2>2. ASSUME k \in OrderKeys, handler[h].pc \in {"lookup", "complete"}, k \notin recorded
        PROVE placed[k] = 0
    <3>1. \A g \in Handlers \ {h} : handler[g].key # k
      BY <2>2, NullsTyped, KeysAssumption DEF KeyInv, Keys
    <3>2. QED
      BY <2>0, <2>2, <3>1 DEF RecordInv, RecordFaults
  <2>3. CASE RefuseCall(h)
    <3>1. Goto(h, "complete") /\ placed' = placed /\ recorded' = recorded
      BY <2>3 DEF RefuseCall, orderVars
    <3>2. CASE k \in JobKeys
      BY <3>1, <3>2, RecordJobGoto
    <3>3. CASE k \in OrderKeys
      <4>1. handler[h].pc = "lookup"
        BY <2>3, <3>3, KeysAssumption DEF RefuseCall
      <4>2. QED
        BY <2>0, <2>2, <3>1, <3>3, <4>1, RecordServe
    <3>4. QED
      BY <2>3, <3>2, <3>3 DEF RefuseCall, Keys
  <2>4. CASE WithIdempotency(h)
    <3>1. CASE k \in JobKeys
      BY <2>4, <3>1, RecordJobGoto, KeysAssumption DEF WithIdempotency, orderVars
    <3>2. CASE k \in OrderKeys
      <4>1. /\ Goto(h, IF k \in recorded THEN "complete" ELSE "reserve")
            /\ placed' = placed /\ recorded' = recorded /\ handler[h].pc = "lookup"
        BY <2>4, <3>2 DEF WithIdempotency, HasJobRow, orderVars, Fault, Without, RecordFaults
      <4>2. QED
        BY <2>0, <2>2, <3>2, <4>1, RecordServe
    <3>3. QED
      BY <2>4, <3>1, <3>2 DEF WithIdempotency, Keys
  <2>5. CASE ReserveLiveNotional(h)
    <3>1. k \in OrderKeys /\ placed[k] = 0
      BY <2>5 DEF ReserveLiveNotional, RecordInv, NoOrderYet, RecordFaults
    <3>2. \E p \in {"place", "complete"} : Goto(h, p) /\ placed' = placed /\ recorded' = recorded
      BY <2>5 DEF ReserveLiveNotional
    <3>3. QED
      BY <3>1, <3>2, RecordServe
  <2>6. CASE PlaceLiveOrder(h)
    <3>1. k \in OrderKeys /\ placed[k] = 0
      BY <2>6 DEF PlaceLiveOrder, RecordInv, NoOrderYet, RecordFaults
    <3>2. /\ Goto(h, "finish") /\ recorded' = recorded
          /\ placed'[k] = 1 /\ \A j \in OrderKeys \ {k} : placed'[j] = placed[j]
      BY <2>6, <3>1 DEF PlaceLiveOrder, GatewayTypeOK
    <3>3. QED
      BY <3>1, <3>2, RecordServe
  <2>7. CASE PlaceLiveFails(h)
    <3>1. k \in OrderKeys /\ placed[k] = 0
      BY <2>7 DEF PlaceLiveFails, RecordInv, NoOrderYet, RecordFaults
    <3>2. Goto(h, "complete") /\ recorded' = recorded /\ placed' = placed
      BY <2>7 DEF PlaceLiveFails, Fault, Without, RecordFaults
    <3>3. QED
      BY <3>1, <3>2, RecordServe
  <2>8. CASE FinishLiveNotional(h)
    BY <2>0, <2>8, RecordServe DEF FinishLiveNotional
  <2>9. CASE RecordCompletedJob(h)
    <3>1. /\ Goto(h, "complete") /\ recorded' = recorded \cup {k} /\ placed' = placed
          /\ k \in OrderKeys
      BY <2>9 DEF RecordCompletedJob, CompletedRows, Fault, Without, RecordFaults
    <3>2. QED
      BY <2>0, <3>1, RecordServe
  <2>10. CASE CountActiveJobs(h)
    BY <2>10, RecordJobGoto DEF CountActiveJobs, orderVars
  <2>11. CASE InsertJob(h)
    BY <2>11, RecordJobGoto DEF InsertJob, orderVars
  <2>12. CASE EnqueueJob(h)
    BY <2>12, RecordJobGoto DEF EnqueueJob, orderVars
  <2>13. QED
    BY <1>2, <2>1, <2>3, <2>4, <2>5, <2>6, <2>7, <2>8, <2>9, <2>10, <2>11, <2>12 DEF CallStep
<1>3. ASSUME NEW h \in Handlers, Crash(h) PROVE RecordInv'
  BY <1>3 DEF Crash, Fault, Without, RecordFaults
<1>4. QED
  BY <1>1, <1>2, <1>3, <1>f, JobStepsFrame, StreamFrame DEF Next, vars, callVars, orderVars, OrderFrame

\* However often a call is sent again, its key buys one order at the venue
\* (OrderOnce), for any number of handlers, keys and calls, under the exceptions
\* the property names (_reserve_idempotency, _complete_idempotency).
THEOREM OneOrderPerKey == Spec => []OrderOnce
<1> DEFINE Inv == GatewayTypeOK /\ CallInv /\ FirstTryInv /\ RecordInv
<1>1. Init => Inv
  BY TypeInit, CallInit, FirstTryInit, RecordInit
<1>2. Inv /\ [Next]_vars => Inv'
  BY TypeStep, CallInvStep, FirstTryStep, RecordStep DEF CallInv
<1>3. Inv => OrderOnce
  BY DEF OrderOnce, FirstTryInv, RecordInv, Without
<1>4. QED
  BY <1>1, <1>2, <1>3, PTL DEF Spec

-----------------------------------------------------------------------------
(* The daily cap *)

\* What each key adds to the sum of the day.
Counted == [k \in OrderKeys |-> IF CountsAgainstCap(k) THEN Notional[k] ELSE 0]

LEMMA CountedType == Counted \in [OrderKeys -> Nat] /\ UsedToday \in Nat
<1>1. Counted \in [OrderKeys -> Nat]
  BY CapsAssumption DEF Counted
<1>2. QED
  BY <1>1, KeysAssumption, TotalType DEF UsedToday, Counted

LEMMA CountedTypeNext == (Counted \in [OrderKeys -> Nat] /\ UsedToday \in Nat)'
<1>1. Counted' \in [OrderKeys -> Nat]
  BY CapsAssumption DEF Counted
<1>2. QED
  BY <1>1, KeysAssumption, TotalType DEF UsedToday, Counted

\* The sum of the day does not grow unless a key begins to count.
LEMMA UsedShrinks ==
  ASSUME \A k \in OrderKeys : CountsAgainstCap(k)' => CountsAgainstCap(k)
  PROVE UsedToday' <= UsedToday
<1>1. \A k \in OrderKeys : Counted'[k] <= Counted[k]
  BY CapsAssumption DEF Counted
<1>2. Total(Counted') <= Total(Counted)
  BY <1>1, CountedType, CountedTypeNext, KeysAssumption, TotalMonotone
<1>3. QED
  BY <1>2 DEF UsedToday, Counted

\* A key that begins to count adds its notional.
LEMMA UsedGrows ==
  ASSUME NEW k \in OrderKeys, ~CountsAgainstCap(k), CountsAgainstCap(k)',
         \A j \in OrderKeys \ {k} : CountsAgainstCap(j)' <=> CountsAgainstCap(j)
  PROVE UsedToday' = UsedToday + Notional[k]
<1>1. /\ Counted[k] = 0 /\ Counted'[k] = Notional[k]
      /\ \A j \in OrderKeys \ {k} : Counted'[j] = Counted[j]
  BY DEF Counted
<1>2. Total(Counted') + Counted[k] = Total(Counted) + Counted'[k]
  BY <1>1, CountedType, CountedTypeNext, KeysAssumption, TotalUpdate
<1>3. Total(Counted') = UsedToday' /\ Total(Counted) = UsedToday
  BY DEF UsedToday, Counted
<1>4. QED
  BY <1>1, <1>2, <1>3, CountedType, CountedTypeNext, CapsAssumption

CapFaults == {"crash", "lostReply", "complete"}

LEMMA CapInit == Init => CapInv
<1> SUFFICES ASSUME Init PROVE CapInv
  OBVIOUS
<1>1. \A k \in OrderKeys : ~CountsAgainstCap(k) /\ placed[k] = 0
  BY DEF Init, CountsAgainstCap
<1>2. Total(Counted) = 0
  BY <1>1, CountedType, TotalZero DEF Counted
<1>3. QED
  BY <1>1, <1>2, CapsAssumption DEF CapInv, UsedToday, Counted

\* The orders and their reservations stay, or fewer reservations count.
LEMMA CapShrinks ==
  ASSUME CapInv, Without(CapFaults),
         \A k \in OrderKeys : CountsAgainstCap(k)' => CountsAgainstCap(k),
         \A k \in OrderKeys : placed'[k] > 0 => CountsAgainstCap(k)'
  PROVE CapInv'
<1>1. UsedToday' <= UsedToday /\ UsedToday <= DailyCap
  BY UsedShrinks DEF CapInv, CapFaults
<1>2. UsedToday' <= DailyCap
  BY <1>1, CountedType, CountedTypeNext, CapsAssumption
<1>3. QED
  BY <1>2 DEF CapInv

LEMMA CapStep ==
  ASSUME GatewayTypeOK, CallInv, FirstTryInv, CapInv, [Next]_vars
  PROVE CapInv'
<1> SUFFICES ASSUME Without(CapFaults)' PROVE CapInv'
  BY DEF CapInv, CapFaults
<1>0. faults \subseteq faults' /\ Without(CapFaults) /\ Without({"crash", "complete"})
  BY FaultsGrow DEF Without, CapFaults
<1>f. ASSUME reservation' = reservation, placed' = placed PROVE CapInv'
  BY <1>0, <1>f, CapShrinks DEF CapInv, CapFaults, CountsAgainstCap
<1> USE RoutePcs DEF CallInv
<1>1. ASSUME NEW h \in Handlers, ReserveLiveNotional(h) PROVE CapInv'
  <2>0. PICK k \in OrderKeys : k = handler[h].key
    BY <1>1 DEF ReserveLiveNotional
  <2>1. reservation[k] = "none" /\ placed' = placed /\ placed[k] = 0
    BY <1>0, <1>1, <2>0 DEF FirstTryInv, NoOrderYet, ReserveLiveNotional
  <2>2. CASE UsedToday + Notional[k] <= DailyCap
    <3>1. /\ ~CountsAgainstCap(k) /\ CountsAgainstCap(k)'
          /\ \A j \in OrderKeys \ {k} : CountsAgainstCap(j)' <=> CountsAgainstCap(j)
      BY <1>1, <2>0, <2>1, <2>2 DEF ReserveLiveNotional, GatewayTypeOK, CountsAgainstCap
    <3>2. UsedToday' <= DailyCap
      BY <2>1, <2>2, <3>1, UsedGrows
    <3>3. QED
      BY <1>0, <2>1, <3>1, <3>2 DEF CapInv, CapFaults
  <2>3. CASE ~(UsedToday + Notional[k] <= DailyCap)
    BY <1>1, <1>f, <2>0, <2>1, <2>3 DEF ReserveLiveNotional, GatewayTypeOK
  <2>4. QED
    BY <2>2, <2>3
<1>2. ASSUME NEW h \in Handlers, PlaceLiveOrder(h) PROVE CapInv'
  <2> DEFINE k == handler[h].key
  <2>1. k \in OrderKeys /\ reservation[k] = "reserved" /\ reservation' = reservation
    BY <1>0, <1>2 DEF FirstTryInv, PlaceLiveOrder
  <2>2. \A j \in OrderKeys \ {k} : placed'[j] = placed[j]
    BY <1>2 DEF PlaceLiveOrder, GatewayTypeOK
  <2>3. QED
    BY <1>0, <2>1, <2>2, CapShrinks DEF CapInv, CapFaults, CountsAgainstCap
<1>3. ASSUME NEW h \in Handlers, PlaceLiveFails(h) PROVE CapInv'
  <2> DEFINE k == handler[h].key
  <2>1. k \in OrderKeys /\ placed[k] = 0
    BY <1>0, <1>3 DEF FirstTryInv, NoOrderYet, PlaceLiveFails
  <2>2. /\ placed' = placed /\ reservation'[k] = "failed"
        /\ \A j \in OrderKeys \ {k} : reservation'[j] = reservation[j]
    BY <1>3, <2>1 DEF PlaceLiveFails, Fault, Without, CapFaults, GatewayTypeOK
  <2>3. QED
    BY <1>0, <2>1, <2>2, CapShrinks DEF CapInv, CapFaults, CountsAgainstCap
<1>4. ASSUME NEW h \in Handlers, FinishLiveNotional(h) PROVE CapInv'
  <2> DEFINE k == handler[h].key
  <2>1. k \in OrderKeys /\ reservation[k] = "reserved"
    BY <1>0, <1>4 DEF FirstTryInv, FinishLiveNotional
  <2>2. /\ placed' = placed /\ reservation'[k] = "executed"
        /\ \A j \in OrderKeys \ {k} : reservation'[j] = reservation[j]
    BY <1>4, <2>1 DEF FinishLiveNotional, GatewayTypeOK
  <2>3. QED
    BY <1>0, <2>1, <2>2, CapShrinks DEF CapInv, CapFaults, CountsAgainstCap
<1>5. ASSUME NEW h \in Handlers, CallStep(h) PROVE CapInv'
  BY <1>f, <1>1, <1>2, <1>3, <1>4, <1>5
     DEF CallStep, CompleteIdempotency, RefuseCall, WithIdempotency, RecordCompletedJob,
         CountActiveJobs, InsertJob, EnqueueJob, orderVars
<1>6. ASSUME NEW h \in Handlers, NEW k \in Keys, NEW b \in Bodies, ReserveIdempotency(h, k, b)
      PROVE CapInv'
  BY <1>f, <1>6 DEF ReserveIdempotency, orderVars
<1>7. ASSUME NEW h \in Handlers, Crash(h) PROVE CapInv'
  BY <1>f, <1>7 DEF Crash, orderVars
<1>8. QED
  BY <1>5, <1>6, <1>7, <1>f, JobStepsFrame, StreamFrame DEF Next, vars, orderVars, OrderFrame

LEMMA CapHolds ==
  ASSUME GatewayTypeOK, FirstTryInv, CapInv
  PROVE DailyCapHolds
<1> SUFFICES ASSUME Without(CapFaults)
             PROVE Total([k \in OrderKeys |-> placed[k] * Notional[k]]) <= DailyCap
  BY DEF DailyCapHolds, CapFaults
<1> DEFINE spent == [k \in OrderKeys |-> placed[k] * Notional[k]]
<1>1. ASSUME NEW k \in OrderKeys
      PROVE spent[k] \in Nat /\ spent[k] <= Counted[k]
  <2>0. Without({"crash", "complete"})
    BY DEF Without, CapFaults
  <2>1. placed[k] = 0 \/ (placed[k] = 1 /\ CountsAgainstCap(k))
    <3>1. placed[k] = 0 \/ placed[k] = 1
      <4>1. placed[k] \in Nat /\ placed[k] <= 1
        BY <2>0 DEF GatewayTypeOK, FirstTryInv
      <4>2. QED
        BY <4>1
    <3>2. placed[k] = 1 => CountsAgainstCap(k)
      BY DEF CapInv, CapFaults, CountsAgainstCap
    <3>3. QED
      BY <3>1, <3>2
  <2>2. Notional[k] \in Nat /\ 0 * Notional[k] = 0 /\ 1 * Notional[k] = Notional[k]
    BY CapsAssumption
  <2>3. QED
    BY <2>1, <2>2 DEF Counted
<1>2. spent \in [OrderKeys -> Nat]
  BY <1>1
<1> HIDE DEF spent
<1>3. Total(spent) <= Total(Counted)
  BY <1>1, <1>2, CountedType, KeysAssumption, TotalMonotone
<1>4. Total(Counted) = UsedToday /\ UsedToday <= DailyCap
  BY DEF CapInv, CapFaults, UsedToday, Counted
<1>5. Total(spent) <= DailyCap
  BY <1>2, <1>3, <1>4, CountedType, KeysAssumption, CapsAssumption, TotalType
<1>6. QED
  BY <1>5 DEF spent

\* The orders of a token stay within its daily cap (DailyCapHolds), for any
\* notional of its orders and any number of concurrent calls, under the
\* exceptions the property names: the reservations made under the lock cover
\* every order placed or about to be.
THEOREM CapAlwaysHolds == Spec => []DailyCapHolds
<1> DEFINE Inv == GatewayTypeOK /\ CallInv /\ FirstTryInv /\ CapInv
<1>1. Init => Inv
  BY TypeInit, CallInit, FirstTryInit, CapInit
<1>2. Inv /\ [Next]_vars => Inv'
  BY TypeStep, CallInvStep, FirstTryStep, CapStep DEF CallInv
<1>3. Inv => DailyCapHolds
  BY CapHolds
<1>4. QED
  BY <1>1, <1>2, <1>3, PTL DEF Spec

-----------------------------------------------------------------------------
(* What a client was told *)

LEMMA JobInit == Init => JobInv
BY NullsTyped DEF Init, JobInv, JobOK

\* A step that leaves the jobs alone and takes no call to the hand-over.
LEMMA JobFrame ==
  ASSUME JobInv, faults \subseteq faults', UNCHANGED jobVars,
         \A h \in Handlers : handler'[h].pc = "enqueue" => handler'[h] = handler[h]
  PROVE JobInv'
BY DEF JobInv, JobOK, jobVars, Without

LEMMA JobGoto ==
  ASSUME GatewayTypeOK, JobInv, faults \subseteq faults', UNCHANGED jobVars,
         NEW h \in Handlers, NEW p \in CallPcs, Goto(h, p), p # "enqueue"
  PROVE JobInv'
<1>1. handler'[h].pc = p /\ \A g \in Handlers \ {h} : handler'[g] = handler[g]
  BY GotoStep DEF GatewayTypeOK
<1>2. QED
  BY <1>1, JobFrame

\* A step of one job that is not about to be handed over.
LEMMA OneJob ==
  ASSUME GatewayTypeOK, JobInv, faults \subseteq faults', NEW k \in JobKeys, JobOK(k)',
         \A j \in JobKeys \ {k} :
           job'[j] = job[j] /\ message'[j] = message[j] /\ runner'[j] = runner[j],
         \A h \in Handlers :
           handler'[h].pc = "enqueue" =>
             /\ handler'[h] = handler[h] /\ handler[h].key \in JobKeys
             /\ handler[h].key = k =>
                  message'[k] = "none" /\ runner'[k] = "idle" /\ job'[k].st \in {"queued", "cancelled"}
  PROVE JobInv'
<1>1. ASSUME NEW j \in JobKeys \ {k} PROVE JobOK(j)'
  BY DEF JobInv, JobOK, Without
<1>2. QED
  BY <1>1 DEF JobInv

LEMMA JobInvStep ==
  ASSUME GatewayTypeOK, CallInv, JobInv, [Next]_vars
  PROVE JobInv'
<1>0. faults \subseteq faults'
  BY FaultsGrow
<1> USE <1>0, RoutePcs DEF CallInv
<1>1. ASSUME NEW h \in Handlers, NEW k \in Keys, NEW b \in Bodies, ReserveIdempotency(h, k, b)
      PROVE JobInv'
  <2>1. /\ handler'[h].pc \in {"lookup", "count"}
        /\ \A g \in Handlers \ {h} : handler'[g] = handler[g]
    BY <1>1 DEF ReserveIdempotency, GatewayTypeOK
  <2>2. QED
    BY <1>1, <2>1, JobFrame DEF ReserveIdempotency
<1>2. ASSUME NEW h \in Handlers, CallStep(h) PROVE JobInv'
  <2> USE DEF CallPcs
  <2>1. CASE CompleteIdempotency(h)
    <3>1. /\ handler'[h].pc = "idle"
          /\ \A g \in Handlers \ {h} : handler'[g] = handler[g]
      BY <2>1, NullsTyped DEF CompleteIdempotency, GatewayTypeOK
    <3>2. QED
      BY <2>1, <3>1, JobFrame DEF CompleteIdempotency
  <2>2. CASE RefuseCall(h)
    BY <2>2, JobGoto DEF RefuseCall
  <2>3. CASE WithIdempotency(h)
    BY <2>3, JobGoto DEF WithIdempotency
  <2>4. CASE ReserveLiveNotional(h) \/ PlaceLiveOrder(h) \/ FinishLiveNotional(h)
    BY <2>4, JobGoto DEF ReserveLiveNotional, PlaceLiveOrder, FinishLiveNotional
  <2>5. CASE PlaceLiveFails(h) \/ RecordCompletedJob(h) \/ CountActiveJobs(h)
    BY <2>5, JobGoto DEF PlaceLiveFails, RecordCompletedJob, CountActiveJobs
  <2>6. CASE InsertJob(h)
    <3>1. CASE job[handler[h].key].st # "none"
      BY <2>6, <3>1, JobGoto DEF InsertJob, jobVars
    <3>2. CASE job[handler[h].key].st = "none"
      <4>1. PICK k \in JobKeys : k = handler[h].key
        BY <2>6 DEF InsertJob
      <4>2. /\ message' = message /\ runner' = runner
            /\ job'[k].st = "queued" /\ \A j \in JobKeys \ {k} : job'[j] = job[j]
        <5>1. PICK m \in Modes :
                job' = [job EXCEPT ![k] = [st |-> "queued", mode |-> m, owner |-> h]]
          BY <2>6, <3>2, <4>1 DEF InsertJob
        <5>2. QED
          BY <2>6, <5>1 DEF InsertJob, GatewayTypeOK
      <4>3. /\ handler'[h].pc = "enqueue" /\ handler'[h].key = k
            /\ \A g \in Handlers \ {h} : handler'[g] = handler[g]
        BY <2>6, <3>2, <4>1, GotoStep DEF InsertJob, GatewayTypeOK
      <4>4. \A g \in Handlers \ {h} : handler[g].key # k
        BY <2>6, <4>1, NullsTyped DEF KeyInv, InsertJob
      <4>5. message[k] = "none" /\ runner[k] = "idle"
        BY <3>2, <4>1 DEF JobInv, JobOK
      <4>6. ASSUME NEW j \in JobKeys PROVE JobOK(j)'
        BY <4>2, <4>5 DEF JobInv, JobOK, Without
      <4>7. ASSUME NEW g \in Handlers, handler'[g].pc = "enqueue"
            PROVE /\ message'[handler'[g].key] = "none" /\ runner'[handler'[g].key] = "idle"
                  /\ job'[handler'[g].key].st \in {"queued", "cancelled"}
        <5>1. CASE g = h
          BY <4>2, <4>3, <4>5, <5>1
        <5>2. CASE g # h
          BY <4>2, <4>3, <4>4, <4>7, <5>2 DEF JobInv
        <5>3. QED
          BY <5>1, <5>2
      <4>8. QED
        BY <4>6, <4>7 DEF JobInv
    <3>3. QED
      BY <3>1, <3>2
  <2>7. CASE EnqueueJob(h)
    <3>1. PICK k \in JobKeys : k = handler[h].key
      BY <2>7 DEF EnqueueJob
    <3>2. /\ handler'[h].pc = "complete"
          /\ \A g \in Handlers \ {h} : handler'[g] = handler[g]
      BY <2>7, GotoStep DEF EnqueueJob, GatewayTypeOK
    <3>3. \A g \in Handlers \ {h} : handler[g].key # k
      BY <2>7, <3>1, NullsTyped DEF KeyInv, EnqueueJob
    <3>4. message[k] = "none" /\ runner[k] = "idle" /\ job[k].st \in {"queued", "cancelled"}
      BY <2>7, <3>1 DEF JobInv, EnqueueJob
    <3>5. /\ job' = job
          /\ \A j \in JobKeys \ {k} : message'[j] = message[j] /\ runner'[j] = runner[j]
          /\ \/ message'[k] = "queued" /\ runner'[k] = "idle"
             \/ message'[k] = "none" /\ runner'[k] \in {"idle", "start"}
      BY <2>7, <3>1, <3>4 DEF EnqueueJob, GatewayTypeOK
    <3>6. JobOK(k)'
      BY <3>4, <3>5 DEF JobOK
    <3>7. QED
      BY <3>2, <3>3, <3>5, <3>6, OneJob
  <2>8. QED
    BY <1>2, <2>1, <2>2, <2>3, <2>4, <2>5, <2>6, <2>7 DEF CallStep
<1>3. ASSUME NEW h \in Handlers, Crash(h) PROVE JobInv'
  <2>1. /\ \A g \in Handlers : handler'[g].pc = "enqueue" => handler'[g] = handler[g]
        /\ job' = job /\ message' = message
        /\ \A k \in JobKeys : runner'[k] \in {runner[k], "idle"}
    BY <1>3, NullsTyped DEF Crash, GatewayTypeOK
  <2>2. ASSUME NEW k \in JobKeys PROVE JobOK(k)'
    BY <2>1 DEF JobInv, JobOK, Without
  <2>3. QED
    BY <2>1, <2>2 DEF JobInv
<1>4. ASSUME NEW k \in JobKeys, JobStep(k) \/ CancelJob(k) \/ WorkerCrash(k) PROVE JobInv'
  <2> USE DEF GatewayTypeOK
  <2>0. handler' = handler
    BY <1>4, JobStepsFrame DEF OrderFrame
  <2>1. \A h \in Handlers : handler[h].pc = "enqueue" /\ handler[h].key = k =>
          message[k] = "none" /\ runner[k] = "idle" /\ job[k].st \in {"queued", "cancelled"}
    BY DEF JobInv
  <2>2. JobOK(k)
    BY DEF JobInv
  <2>3. CASE TakeMessage(k)
    <3>1. /\ job' = job /\ message[k] = "queued"
          /\ \A j \in JobKeys \ {k} : message'[j] = message[j] /\ runner'[j] = runner[j]
          /\ \/ message'[k] = "taken" /\ runner'[k] = "start" /\ job[k].st # "succeeded"
             \/ message'[k] = "acked" /\ runner'[k] = runner[k]
      BY <2>3 DEF TakeMessage, StillToRun
    <3>2. JobOK(k)'
      BY <2>2, <3>1 DEF JobOK, Without
    <3>3. QED
      BY <2>0, <2>1, <3>1, <3>2, OneJob
  <2>4. CASE StartJob(k)
    <3>1. /\ job'[k].st \in {"running", "cancelled"} /\ message' = message
          /\ \A j \in JobKeys \ {k} : job'[j] = job[j] /\ runner'[j] = runner[j]
          /\ runner[k] = "start" /\ runner'[k] \in {"idle", "running"}
      BY <2>4, SetStatusStep DEF StartJob, Active
    <3>2. JobOK(k)'
      BY <2>2, <3>1 DEF JobOK, Without
    <3>3. QED
      BY <2>0, <2>1, <3>1, <3>2, OneJob
  <2>5. CASE FinishJob(k)
    <3>0. PICK st \in {"succeeded", "failed"} : job' = SetStatus(k, st)
      BY <2>5 DEF FinishJob
    <3>1. /\ job'[k].st \in {"succeeded", "failed", "cancelled"} /\ message' = message
          /\ \A j \in JobKeys \ {k} : job'[j] = job[j] /\ runner'[j] = runner[j]
          /\ runner[k] = "running" /\ runner'[k] = "publish"
      BY <2>5, <3>0, SetStatusStep DEF FinishJob, Terminal
    <3>2. JobOK(k)'
      BY <2>2, <3>1 DEF JobOK, Without
    <3>3. QED
      BY <2>0, <2>1, <3>1, <3>2, OneJob
  <2>6. CASE AckJob(k)
    <3>1. /\ job' = job /\ message'[k] \in {message[k], "acked"}
          /\ \A j \in JobKeys \ {k} : message'[j] = message[j] /\ runner'[j] = runner[j]
          /\ runner[k] = "publish" /\ runner'[k] = "idle"
      BY <2>6 DEF AckJob
    <3>2. JobOK(k)'
      BY <2>2, <3>1 DEF JobOK, Without
    <3>3. QED
      BY <2>0, <2>1, <3>1, <3>2, OneJob
  <2>7. CASE CancelJob(k)
    <3>1. /\ job'[k].st = "cancelled" /\ message' = message /\ runner' = runner
          /\ \A j \in JobKeys \ {k} : job'[j] = job[j]
      BY <2>7 DEF CancelJob, JobRow
    <3>2. JobOK(k)'
      BY <2>2, <3>1 DEF JobOK, Without
    <3>3. QED
      BY <2>0, <2>1, <3>1, <3>2, OneJob
  <2>8. CASE WorkerCrash(k)
    <3>1. /\ job' = job /\ runner[k] # "idle" /\ runner'[k] = "idle"
          /\ message'[k] \in {message[k], "queued"}
          /\ message'[k] = "queued" => message[k] \in {"taken", "queued"}
          /\ \A j \in JobKeys \ {k} : message'[j] = message[j] /\ runner'[j] = runner[j]
          /\ "workerCrash" \in faults'
      BY <2>8 DEF WorkerCrash, Redelivered, Fault
    <3>2. JobOK(k)'
      BY <2>2, <3>1 DEF JobOK, Without
    <3>3. QED
      BY <2>0, <2>1, <3>1, <3>2, OneJob
  <2>9. QED
    BY <1>4, <2>3, <2>4, <2>5, <2>6, <2>7, <2>8 DEF JobStep
<1>5. ASSUME NEW c \in Clients, NEW k \in JobKeys, StreamResult(c, k) PROVE JobInv'
  BY <1>5, JobFrame DEF StreamResult, callVars
<1>6. CASE UNCHANGED vars
  BY <1>6, JobFrame DEF vars, callVars
<1>7. QED
  BY <1>1, <1>2, <1>3, <1>4, <1>5, <1>6 DEF Next

\* What the clients know stays true while the row of the job keeps its status, or
\* goes from one that nobody was told of.
LEMMA ToldKept ==
  ASSUME ToldIsFinal, faults \subseteq faults', told' = told, NEW k \in JobKeys,
         \A j \in JobKeys \ {k} : job'[j] = job[j],
         \/ job'[k].st = job[k].st
         \/ job[k].st \notin Terminal
         \/ job[k].st = "failed" /\ ~Without({"workerCrash"}),
         GatewayTypeOK
  PROVE ToldIsFinal'
<1>1. \A c \in Clients : told[c][k] \in {"none"} \cup Terminal
  BY DEF GatewayTypeOK
<1>2. QED
  BY <1>1 DEF ToldIsFinal, Without

LEMMA ToldStep ==
  ASSUME GatewayTypeOK, CallInv, JobInv, ToldIsFinal, [Next]_vars
  PROVE ToldIsFinal'
<1>0. faults \subseteq faults'
  BY FaultsGrow
<1>f. ASSUME told' = told, job' = job PROVE ToldIsFinal'
  BY <1>0, <1>f DEF ToldIsFinal, Without
<1>1. ASSUME NEW h \in Handlers, NEW k \in Keys, NEW b \in Bodies, ReserveIdempotency(h, k, b)
      PROVE ToldIsFinal'
  BY <1>1, <1>f DEF ReserveIdempotency, jobVars
<1>2. ASSUME NEW h \in Handlers, CallStep(h) PROVE ToldIsFinal'
  <2>1. CASE InsertJob(h) /\ job[handler[h].key].st = "none"
    <3>1. PICK k \in JobKeys : k = handler[h].key
      BY <2>1, RoutePcs DEF InsertJob, CallInv
    <3>2. told' = told /\ \A j \in JobKeys \ {k} : job'[j] = job[j]
      BY <2>1, <3>1 DEF InsertJob, GatewayTypeOK
    <3>3. QED
      BY <1>0, <2>1, <3>1, <3>2, ToldKept DEF Terminal
  <2>2. QED
    BY <1>2, <1>f, <2>1
       DEF CallStep, CompleteIdempotency, RefuseCall, WithIdempotency, ReserveLiveNotional,
           PlaceLiveOrder, PlaceLiveFails, FinishLiveNotional, RecordCompletedJob,
           CountActiveJobs, InsertJob, EnqueueJob, jobVars
<1>3. ASSUME NEW h \in Handlers, Crash(h) PROVE ToldIsFinal'
  BY <1>3, <1>f DEF Crash
<1>4. ASSUME NEW k \in JobKeys, JobStep(k) \/ CancelJob(k) \/ WorkerCrash(k) PROVE ToldIsFinal'
  <2>0. JobOK(k) /\ job \in [JobKeys -> JobRow]
    BY DEF JobInv, GatewayTypeOK
  <2>1. CASE StartJob(k)
    <3>1. /\ \A j \in JobKeys \ {k} : job'[j] = job[j]
          /\ job[k].st = "cancelled" => job'[k].st = "cancelled"
          /\ told' = told /\ runner[k] = "start"
      BY <2>0, <2>1, SetStatusStep DEF StartJob, Active
    <3>2. \/ job'[k].st = job[k].st \/ job[k].st \notin Terminal
          \/ job[k].st = "failed" /\ ~Without({"workerCrash"})
      BY <2>0, <3>1 DEF JobOK, Terminal
    <3>3. QED
      BY <1>0, <3>1, <3>2, ToldKept
  <2>2. CASE FinishJob(k)
    <3>0. PICK st \in {"succeeded", "failed"} : job' = SetStatus(k, st)
      BY <2>2 DEF FinishJob
    <3>1. /\ \A j \in JobKeys \ {k} : job'[j] = job[j]
          /\ job[k].st = "cancelled" => job'[k].st = "cancelled"
          /\ told' = told /\ runner[k] = "running"
      BY <2>0, <2>2, <3>0, SetStatusStep DEF FinishJob, Terminal
    <3>2. job'[k].st = job[k].st \/ job[k].st \notin Terminal
      BY <2>0, <3>1 DEF JobOK, Terminal
    <3>3. QED
      BY <1>0, <3>1, <3>2, ToldKept
  <2>3. CASE CancelJob(k)
    <3>1. told' = told /\ job[k].st \notin Terminal /\ \A j \in JobKeys \ {k} : job'[j] = job[j]
      BY <2>0, <2>3 DEF CancelJob, Active, Terminal
    <3>2. QED
      BY <1>0, <3>1, ToldKept
  <2>4. CASE TakeMessage(k) \/ AckJob(k) \/ WorkerCrash(k)
    BY <2>4, <1>f DEF TakeMessage, AckJob, WorkerCrash
  <2>5. QED
    BY <1>4, <2>1, <2>2, <2>3, <2>4 DEF JobStep
<1>5. ASSUME NEW c \in Clients, NEW k \in JobKeys, StreamResult(c, k) PROVE ToldIsFinal'
  <2>1. job' = job /\ faults' = faults
    BY <1>5 DEF StreamResult, jobVars
  <2>2. ASSUME NEW d \in Clients, NEW j \in JobKeys
        PROVE told'[d][j] = told[d][j] \/ told'[d][j] = job[j].st
    BY <1>5 DEF StreamResult, GatewayTypeOK
  <2>3. QED
    BY <2>1, <2>2 DEF ToldIsFinal, Without
<1>6. CASE UNCHANGED vars
  BY <1>6, <1>f DEF vars, jobVars
<1>7. QED
  BY <1>1, <1>2, <1>3, <1>4, <1>5, <1>6 DEF Next

\* The end of a job that a client was told stays its end (ToldIsFinal), however
\* calls, deliveries and cancellations interleave; a failure stored by a worker
\* that then dies is the one exception.
THEOREM ToldStaysFinal == Spec => []ToldIsFinal
<1> DEFINE Inv == GatewayTypeOK /\ CallInv /\ JobInv /\ ToldIsFinal
<1>1. Init => Inv
  <2>1. Init => ToldIsFinal
    BY DEF Init, ToldIsFinal
  <2>2. QED
    BY <2>1, TypeInit, CallInit, JobInit
<1>2. Inv /\ [Next]_vars => Inv'
  BY TypeStep, CallInvStep, JobInvStep, ToldStep DEF CallInv
<1>3. QED
  BY <1>1, <1>2, PTL DEF Spec

=============================================================================
