----------------------------- MODULE LeaseProofs -----------------------------
(* The runtime leases of StrategyRuntime keep every strategy to one worker. *)
EXTENDS StrategyRuntimeProofs

LEMMA LeaseFields ==
  ASSUME NEW l \in LeaseRow
  PROVE l.ttl \in Int /\ l.token \in Nat /\ l.owner \in Workers \cup {NoOwner}
BY DEF LeaseRow

LEMMA AgedLeaseFields ==
  ASSUME NEW l \in LeaseRow
  PROVE AgedLease(l).owner = l.owner /\ AgedLease(l).ttl >= l.ttl - 1
BY DEF AgedLease, LeaseRow, Down

LEMMA AcquiredFields ==
  ASSUME NEW l, NEW w
  PROVE AcquiredLease(l, w).owner = w /\ AcquiredLease(l, w).ttl = RtLease
BY DEF AcquiredLease

LEMMA Ages ==
  ASSUME TypeOK, NEW w \in Workers
  PROVE /\ passAge[w] \in Nat /\ passAge[w] <= MaxStall
        /\ renewAge[w] \in Nat /\ renewAge[w] <= RenewEvery
        /\ MaxStall \in Nat /\ RenewEvery \in Nat /\ RtLease \in Nat
BY ConstantsAssumption DEF TypeOK

LEMMA Ttl ==
  ASSUME TypeOK, NEW s \in Strategies
  PROVE lease[s] \in LeaseRow /\ lease[s].ttl \in Int
BY LeaseFields DEF TypeOK

\* A held lease is the holder's and has not expired.
LEMMA HeldUnexpired ==
  ASSUME Timely, TypeOK, LeaseInv, NEW w \in Workers, NEW s \in Strategies, Holds(w, s)
  PROVE lease[s].owner = w /\ lease[s].ttl >= 0
<1>1. /\ lease[s].owner = w
      /\ lease[s].ttl >= RtLease - RenewEvery - passAge[w]
                           - (IF InRenewal(w, s) THEN MaxStall ELSE 0)
  BY DEF LeaseInv, HeldLeases, LeaseLeft
<1>2. RenewEvery + 2 * MaxStall <= RtLease
  BY DEF Timely
<1>3. QED
  BY <1>1, <1>2, Ages, Ttl

\* Nobody else can acquire a held lease.
LEMMA HeldNotAcquired ==
  ASSUME Timely, TypeOK, LeaseInv, NEW v \in Workers, NEW w \in Workers, v # w,
         NEW s \in Strategies, Holds(v, s)
  PROVE ~CanAcquire(w, s)
<1>1. lease[s].owner = v /\ lease[s].ttl >= 0 /\ lease[s].ttl \in Int
  BY HeldUnexpired, Ttl
<1>2. QED
  BY <1>1, ConstantsAssumption DEF CanAcquire

\* A lease that has just been written is whole.
LEMMA WholeLease ==
  ASSUME TypeOK', NEW w \in Workers, NEW s \in Strategies, lease'[s].ttl = RtLease
  PROVE LeaseLeft(w, s)'
<1>1. /\ passAge'[w] \in Nat /\ renewAge'[w] \in Nat
      /\ MaxStall \in Nat /\ RenewEvery \in Nat /\ RtLease \in Nat
  BY ConstantsAssumption DEF TypeOK
<1>2. QED
  BY <1>1 DEF LeaseLeft

\* What keeps the leases of a worker through a step: each one is newly written,
\* or untouched while the worker's clocks stand.
LEMMA HeldFrame ==
  ASSUME TypeOK', NEW w \in Workers, HeldLeases(w),
         \A s \in Strategies : Holds(w, s)' =>
           \/ lease'[s].owner = w /\ lease'[s].ttl = RtLease
           \/ /\ Holds(w, s) /\ lease'[s] = lease[s] /\ InRenewal(w, s)' = InRenewal(w, s)
              /\ passAge'[w] = passAge[w] /\ renewAge'[w] = renewAge[w]
  PROVE HeldLeases(w)'
<1> SUFFICES ASSUME NEW s \in Strategies, Holds(w, s)'
             PROVE lease'[s].owner = w /\ LeaseLeft(w, s)'
  BY DEF HeldLeases
<1>1. CASE lease'[s].owner = w /\ lease'[s].ttl = RtLease
  BY <1>1, WholeLease
<1>2. CASE /\ Holds(w, s) /\ lease'[s] = lease[s] /\ InRenewal(w, s)' = InRenewal(w, s)
           /\ passAge'[w] = passAge[w] /\ renewAge'[w] = renewAge[w]
  BY <1>2 DEF HeldLeases, LeaseLeft
<1>3. QED
  BY <1>1, <1>2

\* A worker that takes no step: its runtimes may end, its leases are untouched.
Rests(v) ==
  /\ pc'[v] = pc[v] /\ task'[v] = task[v] /\ todo'[v] = todo[v]
  /\ passAge'[v] = passAge[v] /\ renewAge'[v] = renewAge[v]
  /\ running'[v] \subseteq running[v]
  /\ \A s \in Strategies : Holds(v, s) => lease'[s] = lease[s]

LEMMA RestKeeps ==
  ASSUME TypeOK', NEW v \in Workers, LocalInv(v), HeldLeases(v), Rests(v)
  PROVE LocalInv(v)' /\ HeldLeases(v)'
<1>1. LocalInv(v)'
  BY DEF LocalInv, Rests
<1>2. \A s \in Strategies : Holds(v, s)' =>
        /\ Holds(v, s) /\ lease'[s] = lease[s] /\ InRenewal(v, s)' = InRenewal(v, s)
        /\ passAge'[v] = passAge[v] /\ renewAge'[v] = renewAge[v]
  BY DEF Rests, Holds, InRenewal
<1>3. QED
  BY <1>1, <1>2, HeldFrame

\* The variables of every worker but w stand still.
OthersStand(w) ==
  \A v \in Workers \ {w} :
    /\ pc'[v] = pc[v] /\ task'[v] = task[v] /\ todo'[v] = todo[v]
    /\ passAge'[v] = passAge[v] /\ renewAge'[v] = renewAge[v] /\ running'[v] = running[v]

\* A write to the lease of s that is w's to make.
WritesOwn(w, s) ==
  /\ \A t \in Strategies \ {s} : lease'[t] = lease[t]
  /\ CanAcquire(w, s) \/ lease[s].owner = w \/ lease'[s] = lease[s]

LEMMA OthersRest ==
  ASSUME Timely, TypeOK, LeaseInv, NEW w \in Workers, OthersStand(w),
         NEW s \in Strategies, WritesOwn(w, s), NEW v \in Workers \ {w}
  PROVE Rests(v)
<1>1. ASSUME NEW t \in Strategies, Holds(v, t) PROVE lease'[t] = lease[t]
  <2>1. ~CanAcquire(w, t) /\ lease[t].owner = v
    BY <1>1, HeldNotAcquired, HeldUnexpired
  <2>2. QED
    BY <2>1 DEF WritesOwn
<1>2. QED
  BY <1>1 DEF Rests, OthersStand

\* One worker steps: its own part of the invariant is what is left to show.
LEMMA StepOf ==
  ASSUME Timely, TypeOK, TypeOK', LeaseInv, NEW w \in Workers, OthersStand(w),
         NEW s \in Strategies, WritesOwn(w, s), LocalInv(w)', HeldLeases(w)'
  PROVE LeaseInv'
<1>1. ASSUME NEW v \in Workers \ {w} PROVE LocalInv(v)' /\ HeldLeases(v)'
  BY OthersRest, RestKeeps DEF LeaseInv
<1>2. QED
  BY <1>1 DEF LeaseInv

LEMMA LeaseInit == Init => LeaseInv
BY DEF Init, LeaseInv, LocalInv, HeldLeases, Holds, RestorePCs

\* acquire_strategy_lease and release_strategy_lease write w's own rows only.
LEMMA AcquireWrites ==
  ASSUME TypeOK, NEW w \in Workers, NEW s \in Strategies, CanAcquire(w, s), Acquire(w, s)
  PROVE WritesOwn(w, s) /\ lease'[s].owner = w /\ lease'[s].ttl = RtLease
<1>1. lease'[s] = AcquiredLease(lease[s], w) /\ \A t \in Strategies \ {s} : lease'[t] = lease[t]
  BY DEF Acquire, TypeOK
<1>2. QED
  BY <1>1, AcquiredFields DEF WritesOwn

LEMMA ReleaseWrites ==
  ASSUME TypeOK, NEW w \in Workers, NEW s \in Strategies, Release(w, s)
  PROVE WritesOwn(w, s)
BY DEF Release, TypeOK, WritesOwn

LEMMA NoWrite ==
  ASSUME lease' = lease, NEW w, NEW s PROVE WritesOwn(w, s)
BY DEF WritesOwn

LEMMA TaskSid == ASSUME TypeOK, NEW w \in Workers PROVE task[w].sid \in Strategies
BY TaskFields DEF TypeOK

\* A step of w at neither end of the renewal loop that adds no runtime and no
\* claim to a lease keeps w's leases, if it writes only a lease w does not hold
\* afterwards.
LEMMA PlainStep ==
  ASSUME Timely, TypeOK, TypeOK', LeaseInv, NEW w \in Workers, OthersStand(w),
         NEW s \in Strategies, WritesOwn(w, s), LocalInv(w)',
         \A t \in Strategies : Holds(w, t)' => Holds(w, t),
         lease'[s] = lease[s] \/ ~Holds(w, s)',
         pc[w] # "renew", pc'[w] # "renew",
         passAge'[w] = passAge[w], renewAge'[w] = renewAge[w]
  PROVE LeaseInv'
<1>1. \A t \in Strategies : Holds(w, t)' =>
        /\ Holds(w, t) /\ lease'[t] = lease[t] /\ InRenewal(w, t)' = InRenewal(w, t)
  BY DEF WritesOwn, InRenewal
<1>2. HeldLeases(w)'
  BY <1>1, HeldFrame DEF LeaseInv
<1>3. QED
  BY <1>2, StepOf

LEMMA RestoreKeepsLeases ==
  ASSUME Timely, TypeOK, TypeOK', LeaseInv, NEW w \in Workers, RestoreStep(w)
  PROVE LeaseInv'
<1> USE DEF execVars, dbVars
<1>0. LocalInv(w) /\ HeldLeases(w) /\ task[w].sid \in Strategies
  BY TaskSid DEF LeaseInv
<1>1. ASSUME NEW s \in Strategies, RestoreAcquire(w, s) PROVE LeaseInv'
  <2>1. OthersStand(w)
    BY <1>1 DEF RestoreAcquire, OthersStand, Goto, TypeOK
  <2>2. /\ pc[w] = "restore" /\ s \in todo[w] /\ running' = running
        /\ todo'[w] = todo[w] \ {s} /\ passAge' = passAge /\ renewAge' = renewAge
    BY <1>1 DEF RestoreAcquire, TypeOK
  <2>3. CASE CanAcquire(w, s)
    <3>1. /\ Acquire(w, s) /\ pc'[w] = "restLaunch" /\ task'[w].sid = s
      BY <1>1, <2>3, NullsTyped DEF RestoreAcquire, Goto, TypeOK, Task
    <3>2. WritesOwn(w, s) /\ lease'[s].owner = w /\ lease'[s].ttl = RtLease
      BY <2>3, <3>1, AcquireWrites
    <3>3. LocalInv(w)'
      BY <1>0, <2>2, <3>1 DEF LocalInv, RestorePCs
    <3>4. \A t \in Strategies : Holds(w, t)' =>
            t = s \/ (Holds(w, t) /\ lease'[t] = lease[t] /\ InRenewal(w, t)' = InRenewal(w, t))
      BY <2>2, <3>1, <3>2 DEF Holds, InRenewal, WritesOwn
    <3>5. HeldLeases(w)'
      BY <1>0, <2>2, <3>2, <3>4, HeldFrame
    <3>6. QED
      BY <2>1, <3>2, <3>3, <3>5, StepOf
  <2>4. CASE ~CanAcquire(w, s)
    <3>1. lease' = lease /\ task' = task /\ pc'[w] \in {"loop", "restore"}
      BY <1>1, <2>4 DEF RestoreAcquire, Goto, TypeOK
    <3>2. LocalInv(w)'
      BY <1>0, <2>2, <3>1 DEF LocalInv, RestorePCs
    <3>3. \A t \in Strategies : Holds(w, t)' => Holds(w, t)
      BY <2>2, <3>1 DEF Holds
    <3>4. QED
      BY <2>1, <2>2, <3>1, <3>2, <3>3, NoWrite, PlainStep
  <2>5. QED
    BY <2>3, <2>4
<1>2. CASE RestoreLaunch(w)
  <2>1. /\ OthersStand(w) /\ lease' = lease /\ todo' = todo
        /\ passAge' = passAge /\ renewAge' = renewAge /\ pc[w] = "restLaunch"
    BY <1>2 DEF RestoreLaunch, OthersStand, Return, Goto, TypeOK
  <2>2. \/ /\ pc'[w] = (IF todo[w] = {} THEN "loop" ELSE "restore")
           /\ running'[w] = running[w] \cup {task[w].sid}
        \/ pc'[w] = "restRelease" /\ running' = running /\ task' = task
    BY <1>2 DEF RestoreLaunch, Return, Goto, AfterRestoring, TypeOK
  <2>3. LocalInv(w)'
    BY <1>0, <2>1, <2>2 DEF LocalInv, RestorePCs
  <2>4. \A t \in Strategies : Holds(w, t)' => Holds(w, t)
    BY <2>1, <2>2 DEF Holds
  <2>5. pc'[w] # "renew"
    BY <2>2
  <2>6. QED
    BY <1>0, <2>1, <2>3, <2>4, <2>5, NoWrite, PlainStep
<1>3. CASE RestoreRelease(w)
  <2>1. /\ OthersStand(w) /\ todo' = todo /\ task' = task /\ running' = running
        /\ passAge' = passAge /\ renewAge' = renewAge
        /\ pc[w] = "restRelease" /\ pc'[w] = "restMark" /\ WritesOwn(w, task[w].sid)
    BY <1>0, <1>3, ReleaseWrites DEF RestoreRelease, OthersStand, Goto, TypeOK
  <2>2. LocalInv(w)' /\ ~Holds(w, task[w].sid)'
    BY <1>0, <2>1 DEF LocalInv, RestorePCs, Holds
  <2>3. \A t \in Strategies : Holds(w, t)' => Holds(w, t)
    BY <2>1 DEF Holds
  <2>4. QED
    BY <1>0, <2>1, <2>2, <2>3, PlainStep
<1>4. CASE RestoreMark(w)
  <2>1. /\ OthersStand(w) /\ todo' = todo /\ running' = running /\ lease' = lease
        /\ passAge' = passAge /\ renewAge' = renewAge
        /\ pc[w] = "restMark" /\ pc'[w] \in {"loop", "restore"}
    BY <1>4 DEF RestoreMark, OthersStand, Return, Goto, AfterRestoring, TypeOK
  <2>2. LocalInv(w)' /\ \A t \in Strategies : Holds(w, t)' => Holds(w, t)
    BY <1>0, <2>1 DEF LocalInv, RestorePCs, Holds
  <2>3. QED
    BY <1>0, <2>1, <2>2, NoWrite, PlainStep
<1>5. QED
  BY <1>1, <1>2, <1>3, <1>4 DEF RestoreStep

LEMMA SomeStrategy == \E s \in Strategies : TRUE
BY AnyStrategyIn

\* A pass that skips the renewal was preceded by one less than RenewEvery ago;
\* a pass that renews carries every lease over from a pass within MaxStall.
LEMMA LoopTopKeepsLeases ==
  ASSUME Timely, TypeOK, TypeOK', LeaseInv, NEW w \in Workers, LoopTop(w)
  PROVE LeaseInv'
<1> DEFINE due == renewAge[w] >= RenewEvery
<1>0. LocalInv(w) /\ HeldLeases(w)
  BY DEF LeaseInv
<1>1. /\ OthersStand(w) /\ lease' = lease /\ running' = running /\ task' = task
      /\ pc[w] = "loop" /\ passAge'[w] = 0 /\ renewAge'[w] = (IF due THEN 0 ELSE renewAge[w])
      /\ todo'[w] = (IF due THEN running[w] ELSE {})
      /\ pc'[w] = (IF due /\ running[w] # {} THEN "renew" ELSE "claim")
  BY DEF LoopTop, OthersStand, Goto, dbVars, execVars, TypeOK
<1>2. LocalInv(w)'
  BY <1>0, <1>1 DEF LocalInv, RestorePCs
<1>3. ASSUME NEW s \in Strategies, Holds(w, s)'
      PROVE lease'[s].owner = w /\ LeaseLeft(w, s)'
  <2>1. s \in running[w] /\ ~InRenewal(w, s) /\ lease[s].owner = w /\ LeaseLeft(w, s)
    BY <1>0, <1>1, <1>3 DEF Holds, InRenewal, HeldLeases
  <2>2. lease[s].ttl >= RtLease - RenewEvery - passAge[w]
        /\ (renewAge[w] < RenewEvery => lease[s].ttl >= RtLease - renewAge[w])
    BY <2>1, Ages, Ttl DEF LeaseLeft
  <2>3. InRenewal(w, s)' = due
    BY <1>1, <2>1 DEF InRenewal
  <2>4. CASE due
    <3>1. lease[s].ttl >= RtLease - RenewEvery - 0 - MaxStall
      BY <2>2, Ages, Ttl
    <3>2. QED
      BY <1>1, <2>1, <2>3, <2>4, <3>1 DEF LeaseLeft
  <2>5. CASE ~due
    <3>1. lease[s].ttl >= RtLease - renewAge[w] /\ lease[s].ttl >= RtLease - RenewEvery - 0 - 0
      BY <2>2, <2>5, Ages, Ttl
    <3>2. QED
      BY <1>1, <2>1, <2>3, <2>5, <3>1 DEF LeaseLeft
  <2>6. QED
    BY <2>4, <2>5
<1>4. HeldLeases(w)'
  BY <1>3 DEF HeldLeases
<1>5. PICK s \in Strategies : TRUE
  BY SomeStrategy
<1>6. QED
  BY <1>1, <1>2, <1>4, NoWrite, StepOf

LEMMA RenewKeepsLeases ==
  ASSUME Timely, NoLeaseFaults, TypeOK, TypeOK', LeaseInv,
         NEW w \in Workers, NEW s \in Strategies, RenewOne(w, s)
  PROVE LeaseInv'
<1>0. LocalInv(w) /\ HeldLeases(w)
  BY DEF LeaseInv
<1>1. /\ OthersStand(w) /\ task' = task /\ passAge' = passAge /\ renewAge' = renewAge
      /\ pc[w] = "renew" /\ pc'[w] = (IF todo[w] = {s} THEN "claim" ELSE "renew")
      /\ s \in todo[w] /\ todo'[w] = todo[w] \ {s} /\ running'[w] \subseteq running[w]
  BY DEF RenewOne, RenewDone, Detach, StopFails, OthersStand, Goto, TypeOK
<1>2. \/ /\ lease[s].owner = w /\ lease'[s].owner = w /\ lease'[s].ttl = RtLease
         /\ \A t \in Strategies \ {s} : lease'[t] = lease[t]
      \/ s \notin running'[w] /\ lease' = lease
  <2>1. ~Fault("stopFail") /\ ~Fault("renewError")
    BY DEF NoLeaseFaults, Fault
  <2>2. CASE CanRenew(w, s)
    BY <2>1, <2>2, Ttl DEF RenewOne, CanRenew, TypeOK, LeaseRow
  <2>3. CASE ~CanRenew(w, s)
    BY <2>1, <2>3 DEF RenewOne, StopFails, Detach, TypeOK
  <2>4. QED
    BY <2>2, <2>3
<1>3. WritesOwn(w, s)
  BY <1>2 DEF WritesOwn
<1>4. LocalInv(w)'
  BY <1>0, <1>1 DEF LocalInv, RestorePCs
<1>5. \A t \in Strategies : Holds(w, t)' =>
        \/ lease'[t].owner = w /\ lease'[t].ttl = RtLease
        \/ Holds(w, t) /\ lease'[t] = lease[t] /\ InRenewal(w, t)' = InRenewal(w, t)
  <2> SUFFICES ASSUME NEW t \in Strategies, Holds(w, t)'
               PROVE \/ lease'[t].owner = w /\ lease'[t].ttl = RtLease
                     \/ Holds(w, t) /\ lease'[t] = lease[t] /\ InRenewal(w, t)' = InRenewal(w, t)
    OBVIOUS
  <2>1. t \in running'[w] /\ t \in running[w] /\ Holds(w, t)
    BY <1>1 DEF Holds
  <2>2. CASE t = s
    BY <1>2, <2>1, <2>2
  <2>3. CASE t # s
    BY <1>1, <1>2, <2>1, <2>3 DEF InRenewal
  <2>4. QED
    BY <2>2, <2>3
<1>6. HeldLeases(w)'
  BY <1>0, <1>1, <1>5, HeldFrame
<1>7. QED
  BY <1>1, <1>3, <1>4, <1>6, StepOf

LEMMA ClaimKeepsLeases ==
  ASSUME Timely, TypeOK, TypeOK', LeaseInv, NEW w \in Workers,
         ClaimNone(w) \/ \E i \in CmdIds : Claim(w, i)
  PROVE LeaseInv'
<1>0. LocalInv(w)
  BY DEF LeaseInv
<1>1. /\ OthersStand(w) /\ lease' = lease /\ running' = running
      /\ passAge' = passAge /\ renewAge' = renewAge
      /\ pc[w] = "claim" /\ pc'[w] \in {"loop", "start", "stop", "complete"}
  BY DEF ClaimNone, Claim, FirstStep, OthersStand, Goto, dbVars, execVars, TypeOK
<1>2. LocalInv(w)' /\ \A t \in Strategies : Holds(w, t)' => Holds(w, t)
  BY <1>0, <1>1 DEF LocalInv, RestorePCs, Holds
<1>3. PICK s \in Strategies : TRUE
  BY SomeStrategy
<1>4. QED
  BY <1>1, <1>2, NoWrite, PlainStep

LEMMA ExecKeepsLeases ==
  ASSUME Timely, NoLeaseFaults, TypeOK, TypeOK', LeaseInv, NEW w \in Workers, ExecStep(w)
  PROVE LeaseInv'
<1> DEFINE s == task[w].sid
<1> USE DEF execVars, dbVars
<1>0. LocalInv(w) /\ HeldLeases(w) /\ s \in Strategies
  BY TaskSid DEF LeaseInv
<1>1. CASE StartCheck(w) \/ StartAwait(w)
  <2>1. /\ OthersStand(w) /\ lease' = lease /\ running' = running /\ task' = task
        /\ passAge' = passAge /\ renewAge' = renewAge
        /\ pc[w] \in {"start", "await"} /\ pc'[w] \in {"complete", "acquire", "relFail"}
        /\ pc'[w] # "complete" => s \notin running[w]
    BY <1>1 DEF StartCheck, StartAwait, OthersStand, Goto, TypeOK
  <2>2. LocalInv(w)' /\ \A t \in Strategies : Holds(w, t)' => Holds(w, t)
    BY <1>0, <2>1 DEF LocalInv, RestorePCs, Holds
  <2>3. QED
    BY <1>0, <2>1, <2>2, NoWrite, PlainStep
<1>2. CASE StartAcquire(w)
  <2>1. /\ OthersStand(w) /\ running' = running /\ task' = task /\ todo' = todo
        /\ passAge' = passAge /\ renewAge' = renewAge /\ pc[w] = "acquire"
        /\ \/ CanAcquire(w, s) /\ Acquire(w, s) /\ pc'[w] = "launch"
           \/ lease' = lease /\ pc'[w] = "fail"
    BY <1>2 DEF StartAcquire, OthersStand, Goto, TypeOK
  <2>2. LocalInv(w)'
    BY <1>0, <2>1 DEF LocalInv, RestorePCs
  <2>3. CASE CanAcquire(w, s) /\ Acquire(w, s) /\ pc'[w] = "launch"
    <3>1. WritesOwn(w, s) /\ lease'[s].owner = w /\ lease'[s].ttl = RtLease
      BY <1>0, <2>3, AcquireWrites
    <3>2. \A t \in Strategies : Holds(w, t)' =>
            t = s \/ (Holds(w, t) /\ lease'[t] = lease[t] /\ InRenewal(w, t)' = InRenewal(w, t))
      BY <2>1, <2>3, <3>1 DEF Holds, InRenewal, WritesOwn
    <3>3. HeldLeases(w)'
      BY <1>0, <2>1, <3>1, <3>2, HeldFrame
    <3>4. QED
      BY <1>0, <2>1, <2>2, <3>1, <3>3, StepOf
  <2>4. CASE lease' = lease /\ pc'[w] = "fail"
    <3>1. \A t \in Strategies : Holds(w, t)' => Holds(w, t)
      BY <2>1, <2>4 DEF Holds
    <3>2. QED
      BY <1>0, <2>1, <2>2, <2>4, <3>1, NoWrite, PlainStep
  <2>5. QED
    BY <2>1, <2>3, <2>4
<1>3. CASE StartLaunch(w)
  <2>1. /\ OthersStand(w) /\ lease' = lease /\ task' = task
        /\ passAge' = passAge /\ renewAge' = renewAge /\ pc[w] = "launch"
        /\ \/ pc'[w] = "await" /\ running'[w] = running[w] \cup {s}
           \/ pc'[w] = "relFail" /\ running' = running
    BY <1>3 DEF StartLaunch, OthersStand, Goto, TypeOK
  <2>2. LocalInv(w)' /\ \A t \in Strategies : Holds(w, t)' => Holds(w, t)
    BY <1>0, <2>1 DEF LocalInv, RestorePCs, Holds
  <2>3. pc'[w] # "renew"
    BY <2>1
  <2>4. QED
    BY <1>0, <2>1, <2>2, <2>3, NoWrite, PlainStep
<1>4. CASE ReleaseThenFail(w) \/ StopRelease(w)
  <2>1. /\ OthersStand(w) /\ running' = running /\ task' = task
        /\ passAge' = passAge /\ renewAge' = renewAge /\ WritesOwn(w, s)
        /\ pc[w] \in {"relFail", "release"} /\ pc'[w] \in {"fail", "start", "complete"}
    BY <1>0, <1>4, ReleaseWrites
    DEF ReleaseThenFail, StopRelease, OthersStand, Goto, TypeOK
  <2>2. /\ LocalInv(w)' /\ ~Holds(w, s)'
        /\ \A t \in Strategies : Holds(w, t)' => Holds(w, t)
    BY <1>0, <2>1 DEF LocalInv, RestorePCs, Holds
  <2>3. QED
    BY <1>0, <2>1, <2>2, PlainStep
<1>5. CASE StopRuntime(w)
  <2>1. ~Fault("stopFail")
    BY DEF NoLeaseFaults, Fault
  <2>2. /\ OthersStand(w) /\ running'[w] = running[w] \ {s} /\ task' = task /\ lease' = lease
        /\ passAge' = passAge /\ renewAge' = renewAge /\ pc[w] = "stop" /\ pc'[w] = "release"
    BY <1>5, <2>1 DEF StopRuntime, StopFails, Detach, OthersStand, Goto, TypeOK
  <2>3. LocalInv(w)' /\ \A t \in Strategies : Holds(w, t)' => Holds(w, t)
    BY <1>0, <2>2 DEF LocalInv, RestorePCs, Holds
  <2>4. QED
    BY <1>0, <2>2, <2>3, NoWrite, PlainStep
<1>6. CASE Complete(w) \/ Fail(w) \/ GiveUp(w)
  <2>1. /\ OthersStand(w) /\ running' = running /\ lease' = lease
        /\ passAge' = passAge /\ renewAge' = renewAge
        /\ pc[w] \in {"complete", "fail", "giveUp"} /\ pc'[w] \in {"loop", "giveUp"}
    BY <1>6 DEF Complete, Fail, GiveUp, Return, OthersStand, Goto, TypeOK
  <2>2. LocalInv(w)' /\ \A t \in Strategies : Holds(w, t)' => Holds(w, t)
    BY <1>0, <2>1 DEF LocalInv, RestorePCs, Holds
  <2>3. QED
    BY <1>0, <2>1, <2>2, NoWrite, PlainStep
<1>7. QED
  BY <1>1, <1>2, <1>3, <1>4, <1>5, <1>6 DEF ExecStep

\* The end of a process takes its runtimes with it.
LEMMA GoneKeepsLeases ==
  ASSUME Timely, TypeOK, TypeOK', LeaseInv, NEW w \in Workers, ProcessGone(w), lease' = lease
  PROVE LeaseInv'
<1>1. /\ OthersStand(w) /\ running'[w] = {} /\ pc'[w] \in {"off", "dead"}
  BY DEF ProcessGone, OthersStand, Goto, TypeOK
<1>2. LocalInv(w)' /\ \A t \in Strategies : ~Holds(w, t)'
  BY <1>1 DEF LocalInv, RestorePCs, Holds
<1>3. HeldLeases(w)'
  BY <1>2 DEF HeldLeases
<1>4. PICK s \in Strategies : TRUE
  BY SomeStrategy
<1>5. QED
  BY <1>1, <1>2, <1>3, NoWrite, StepOf

LEMMA EndKeepsLeases ==
  ASSUME Timely, NoLeaseFaults, TypeOK, TypeOK', LeaseInv, NEW w \in Workers,
         EndStep(w) \/ Shutdown(w)
  PROVE LeaseInv'
<1> USE DEF execVars, dbVars
<1>0. LocalInv(w) /\ HeldLeases(w)
  BY DEF LeaseInv
<1>1. CASE Exit(w)
  BY <1>1, GoneKeepsLeases DEF Exit
<1>2. ASSUME NEW s \in Strategies, ShutdownOne(w, s) PROVE LeaseInv'
  <2>1. /\ OthersStand(w) /\ running'[w] = running[w] \ {s} /\ task' = task
        /\ passAge' = passAge /\ renewAge' = renewAge /\ WritesOwn(w, s)
        /\ pc[w] = "shutdown" /\ pc'[w] = "shutdown"
    BY <1>2, ReleaseWrites DEF ShutdownOne, Detach, NoLeaseFaults, OthersStand, TypeOK
  <2>2. /\ LocalInv(w)' /\ ~Holds(w, s)'
        /\ \A t \in Strategies : Holds(w, t)' => Holds(w, t)
    BY <1>0, <2>1 DEF LocalInv, RestorePCs, Holds
  <2>3. QED
    BY <2>1, <2>2, PlainStep
<1>3. CASE Shutdown(w)
  <2>1. /\ OthersStand(w) /\ running' = running /\ lease' = lease
        /\ passAge' = passAge /\ renewAge' = renewAge
        /\ pc[w] = "loop" /\ pc'[w] = "shutdown"
    BY <1>3 DEF Shutdown, OthersStand, Goto, TypeOK
  <2>2. LocalInv(w)' /\ \A t \in Strategies : Holds(w, t)' => Holds(w, t)
    BY <1>0, <2>1 DEF LocalInv, RestorePCs, Holds
  <2>3. PICK s \in Strategies : TRUE
    BY SomeStrategy
  <2>4. QED
    BY <2>1, <2>2, NoWrite, PlainStep
<1>4. QED
  BY <1>1, <1>2, <1>3 DEF EndStep

LEMMA AllRest ==
  ASSUME TypeOK', LeaseInv, \A v \in Workers : Rests(v)
  PROVE LeaseInv'
BY RestKeeps DEF LeaseInv

\* Steps outside the worker loops: requests, the sweep of the command table,
\* executor threads and the clean-up of leases that expired long ago.
LEMMA QuietKeepsLeases ==
  ASSUME Timely, TypeOK, TypeOK', LeaseInv,
         \/ \E r \in Requests : RequestStep(r) \/ EnqueueError(r)
         \/ \E r \in Requests, kind \in RequestKinds, s \in Strategies : Issue(r, kind, s)
         \/ \E w \in Workers : Heartbeat(w)
         \/ \E w \in Workers, s \in Strategies :
              ThreadStep(w, s) \/ ThreadCrash(w, s) \/ AutoStop(w, s)
         \/ Cleanup \/ UNCHANGED vars
  PROVE LeaseInv'
<1> USE DEF execVars, dbVars, workerVars
<1>1. ASSUME NEW r \in Requests, RequestStep(r) \/ EnqueueError(r) PROVE LeaseInv'
  <2>1. UNCHANGED <<lease, running, pc, task, todo, passAge, renewAge>>
    BY <1>1 DEF RequestStep, Enqueue, EndWait, MarkStopped, EnqueueError
  <2>2. QED
    BY <2>1, AllRest DEF Rests
<1>2. ASSUME NEW r \in Requests, NEW kind \in RequestKinds, NEW s \in Strategies, Issue(r, kind, s)
      PROVE LeaseInv'
  BY <1>2, AllRest DEF Issue, Rests
<1>3. ASSUME NEW w \in Workers, Heartbeat(w) PROVE LeaseInv'
  BY <1>3, AllRest DEF Heartbeat, Rests
<1>4. ASSUME NEW w \in Workers, NEW s \in Strategies,
             ThreadStep(w, s) \/ ThreadCrash(w, s) \/ AutoStop(w, s)
      PROVE LeaseInv'
  <2>1. UNCHANGED <<lease, pc, task, todo, passAge, renewAge>>
    BY <1>4 DEF ThreadStep, ThreadExit, ZombieExit, ThreadCrash, AutoStop
  <2>2. \A v \in Workers : running'[v] \subseteq running[v]
    BY <1>4 DEF ThreadStep, ThreadExit, ZombieExit, ThreadCrash, AutoStop, Detach, TypeOK
  <2>3. QED
    BY <2>1, <2>2, AllRest DEF Rests
<1>5. CASE Cleanup
  <2>1. UNCHANGED <<running, pc, task, todo, passAge, renewAge>>
    BY <1>5 DEF Cleanup
  <2>2. ASSUME NEW v \in Workers, NEW s \in Strategies, Holds(v, s) PROVE lease'[s] = lease[s]
    <3>1. ~(lease[s].ttl < -LeaseKeep)
      BY <2>2, HeldUnexpired, Ttl, ConstantsAssumption
    <3>2. QED
      BY <1>5, <3>1 DEF Cleanup
  <2>3. QED
    BY <2>1, <2>2, AllRest DEF Rests
<1>6. CASE UNCHANGED vars
  BY <1>6, AllRest DEF vars, Rests
<1>7. QED
  BY <1>1, <1>2, <1>3, <1>4, <1>5, <1>6

LEMMA BootKeepsLeases ==
  ASSUME Timely, TypeOK, TypeOK', LeaseInv, NEW w \in Workers, Boot(w)
  PROVE LeaseInv'
<1>0. LocalInv(w)
  BY DEF LeaseInv
<1>1. /\ OthersStand(w) /\ lease' = lease /\ pc[w] = "off" /\ pc'[w] \in {"loop", "restore"}
      /\ running' = running
  BY DEF Boot, OthersStand, Goto, dbVars, execVars, TypeOK
<1>2. running[w] = {}
  BY <1>0, <1>1 DEF LocalInv
<1>3. LocalInv(w)' /\ \A t \in Strategies : ~Holds(w, t)'
  BY <1>1, <1>2 DEF LocalInv, RestorePCs, Holds
<1>4. HeldLeases(w)'
  BY <1>3 DEF HeldLeases
<1>5. PICK s \in Strategies : TRUE
  BY SomeStrategy
<1>6. QED
  BY <1>1, <1>3, <1>4, NoWrite, StepOf

\* A tick takes one from every lease and adds one to the ages it is measured by.
LEMMA TickKeepsLeases ==
  ASSUME TypeOK, TypeOK', LeaseInv, Tick
  PROVE LeaseInv'
<1> SUFFICES ASSUME NEW w \in Workers PROVE LocalInv(w)' /\ HeldLeases(w)'
  BY DEF LeaseInv
<1>0. LocalInv(w) /\ HeldLeases(w) /\ UNCHANGED <<running, pc, task, todo>>
  BY DEF LeaseInv, Tick, execVars
<1>1. LocalInv(w)'
  BY <1>0 DEF LocalInv
<1>2. ASSUME NEW s \in Strategies, Holds(w, s)'
      PROVE lease'[s].owner = w /\ LeaseLeft(w, s)'
  <2>1. Holds(w, s) /\ InRenewal(w, s)' = InRenewal(w, s) /\ Live(w)
    BY <1>0, <1>2 DEF Holds, InRenewal, LocalInv, Live
  <2>2. /\ passAge'[w] = passAge[w] + 1
        /\ renewAge'[w] = (IF renewAge[w] < RenewEvery THEN renewAge[w] + 1 ELSE renewAge[w])
    BY <2>1 DEF Tick
  <2>3. lease'[s].owner = lease[s].owner /\ lease'[s].ttl >= lease[s].ttl - 1
    BY Ttl, AgedLeaseFields DEF Tick
  <2>4. lease[s].owner = w /\ LeaseLeft(w, s)
    BY <1>0, <2>1 DEF HeldLeases
  <2>5. lease[s].ttl \in Int /\ lease'[s].ttl \in Int
    BY Ttl, LeaseFields DEF TypeOK
  <2>6. LeaseLeft(w, s)'
    <3>1. CASE InRenewal(w, s)
      BY <2>1, <2>2, <2>3, <2>4, <2>5, <3>1, Ages DEF LeaseLeft
    <3>2. CASE ~InRenewal(w, s)
      BY <2>1, <2>2, <2>3, <2>4, <2>5, <3>2, Ages DEF LeaseLeft
    <3>3. QED
      BY <3>1, <3>2
  <2>7. QED
    BY <2>3, <2>4, <2>6
<1>3. QED
  BY <1>1, <1>2 DEF HeldLeases

LEMMA LeaseStep ==
  ASSUME Timely, NoLeaseFaults, TypeOK, LeaseInv, [Next]_vars
  PROVE LeaseInv'
<1>0. TypeOK'
  BY TypeStep
<1>1. CASE Tick
  BY <1>0, <1>1, TickKeepsLeases
<1>2. ASSUME NEW w \in Workers, Boot(w) \/ WorkerStep(w) PROVE LeaseInv'
  BY <1>0, <1>2, BootKeepsLeases, RestoreKeepsLeases, LoopTopKeepsLeases, RenewKeepsLeases,
     ClaimKeepsLeases, ExecKeepsLeases, EndKeepsLeases
  DEF WorkerStep, LoopStep
<1>3. ASSUME NEW w \in Workers, Crash(w) PROVE LeaseInv'
  BY <1>0, <1>3, GoneKeepsLeases DEF Crash, dbVars
<1>4. ASSUME NEW w \in Workers, Shutdown(w) PROVE LeaseInv'
  BY <1>0, <1>4, EndKeepsLeases
<1>5. QED
  BY <1>0, <1>1, <1>2, <1>3, <1>4, QuietKeepsLeases DEF Next, FaultStep

\* Timely and NoLeaseFaults say nothing of the state, so they are carried along.
Safe == Timely /\ NoLeaseFaults /\ TypeOK /\ LeaseInv

LEMMA LeaseAlways == Timely /\ NoLeaseFaults /\ Spec => []Safe
<1>1. Timely /\ NoLeaseFaults /\ Init => Safe
  BY TypeInit, LeaseInit DEF Safe
<1>2. Safe /\ [Next]_vars => Safe'
  <2>1. Timely /\ NoLeaseFaults => (Timely /\ NoLeaseFaults)'
    BY DEF Timely, NoLeaseFaults
  <2>2. QED
    BY <2>1, TypeStep, LeaseStep DEF Safe
<1>3. QED
  BY <1>1, <1>2, PTL DEF Spec

LEMMA RunnerHolds ==
  ASSUME Safe, NEW w \in Workers, NEW s \in running[w]
  PROVE s \in Strategies /\ lease[s].owner = w /\ lease[s].ttl >= 0
<1>1. s \in Strategies
  BY DEF Safe, TypeOK
<1>2. Holds(w, s)
  BY DEF Holds
<1>3. QED
  BY <1>1, <1>2, HeldUnexpired DEF Safe

(* Every runtime is covered by its worker's unexpired lease row: renewal,    *)
(* takeover, failed start, stop, shutdown, crash and clean-up never leave    *)
(* running_strategies ahead of qd_strategy_runtime_leases, as long as loop   *)
(* passes are short enough and stops and renewals do not raise.              *)
THEOREM RuntimeAlwaysHoldsLease == Timely /\ NoLeaseFaults /\ Spec => []RuntimeHoldsLease
<1>1. Safe => RuntimeHoldsLease
  BY RunnerHolds DEF RuntimeHoldsLease
<1>2. QED
  BY <1>1, LeaseAlways, PTL

(* No two workers run the same strategy, whatever their number.              *)
THEOREM AlwaysOneRuntime == Timely /\ NoLeaseFaults /\ Spec => []OneRuntime
<1>1. Safe => OneRuntime
  BY RunnerHolds DEF OneRuntime
<1>2. QED
  BY <1>1, LeaseAlways, PTL

\* Only start_strategy adds a runtime, and only where the lease is held.
LEMMA OnlyLaunchAdds ==
  ASSUME TypeOK, [Next]_vars, NEW w \in Workers, NEW s \in running'[w], s \notin running[w]
  PROVE /\ pc[w] \in {"launch", "restLaunch"} /\ task[w].sid = s
        /\ \A v \in Workers \ {w} : running'[v] = running[v]
<1> USE DEF execVars, TypeOK
<1>1. CASE UNCHANGED running
  BY <1>1
<1>2. ASSUME NEW v \in Workers, StartLaunch(v) \/ RestoreLaunch(v)
      PROVE /\ pc[w] \in {"launch", "restLaunch"} /\ task[w].sid = s
            /\ \A u \in Workers \ {w} : running'[u] = running[u]
  BY <1>2 DEF StartLaunch, RestoreLaunch
<1>3. ASSUME NEW v \in Workers, StopRuntime(v) \/ Exit(v) \/ Crash(v) PROVE FALSE
  BY <1>3 DEF StopRuntime, StopFails, Detach, Exit, Crash, ProcessGone
<1>4. ASSUME NEW v \in Workers, NEW t \in Strategies,
             \/ RenewOne(v, t) \/ ShutdownOne(v, t) \/ ThreadStep(v, t)
             \/ ThreadCrash(v, t) \/ AutoStop(v, t)
      PROVE FALSE
  BY <1>4 DEF RenewOne, StopFails, Detach, ShutdownOne, ThreadStep, ThreadExit, ZombieExit,
              ThreadCrash, AutoStop
<1>5. ASSUME NEW r \in Requests,
             \/ RequestStep(r) \/ EnqueueError(r)
             \/ \E kind \in RequestKinds, t \in Strategies : Issue(r, kind, t)
      PROVE UNCHANGED running
  BY <1>5 DEF RequestStep, Enqueue, EndWait, MarkStopped, EnqueueError, Issue
<1>6. ASSUME NEW v \in Workers,
             \/ Boot(v) \/ Heartbeat(v) \/ RestoreRelease(v) \/ RestoreMark(v)
             \/ LoopTop(v) \/ ClaimNone(v) \/ Shutdown(v)
             \/ \E t \in Strategies : RestoreAcquire(v, t)
             \/ \E i \in CmdIds : Claim(v, i)
      PROVE UNCHANGED running
  BY <1>6 DEF Boot, Heartbeat, RestoreRelease, RestoreMark, LoopTop, ClaimNone, Shutdown,
              RestoreAcquire, Claim
<1>7. ASSUME NEW v \in Workers,
             \/ StartCheck(v) \/ StartAcquire(v) \/ StartAwait(v) \/ ReleaseThenFail(v)
             \/ StopRelease(v) \/ Complete(v) \/ Fail(v) \/ GiveUp(v)
      PROVE UNCHANGED running
  BY <1>7 DEF StartCheck, StartAcquire, StartAwait, ReleaseThenFail, StopRelease,
              Complete, Fail, GiveUp
<1>8. Tick \/ Cleanup \/ UNCHANGED vars => UNCHANGED running
  BY DEF Tick, Cleanup, vars
<1>9. QED
  BY <1>1, <1>2, <1>3, <1>4, <1>5, <1>6, <1>7, <1>8
  DEF Next, WorkerStep, RestoreStep, LoopStep, ExecStep, EndStep, FaultStep

LEMMA RefineStep ==
  ASSUME Safe, [Next]_vars
  PROVE Single!Next
<1>0. TypeOK /\ TypeOK'
  BY TypeStep DEF Safe
<1>1. Runners' \in [Strategies -> SUBSET Workers]
  BY DEF Runners
<1>2. ASSUME NEW s \in Strategies PROVE Single!Begin(s) \/ Single!End(s)
  <2>1. CASE \A w \in Workers : s \in running'[w] => s \in running[w]
    BY <2>1 DEF Single!End, Runners
  <2>2. ASSUME NEW w \in Workers, s \in running'[w], s \notin running[w]
        PROVE Single!Begin(s)
    <3>1. Holds(w, s) /\ \A v \in Workers \ {w} : running'[v] = running[v]
      BY <1>0, <2>2, OnlyLaunchAdds DEF Holds
    <3>2. lease[s].owner = w
      BY <3>1, HeldUnexpired DEF Safe
    <3>3. \A v \in Workers : s \notin running[v]
      BY <2>2, <3>2, RunnerHolds
    <3>4. Runners[s] = {} /\ Runners'[s] = {w}
      BY <2>2, <3>1, <3>3 DEF Runners
    <3>5. QED
      BY <3>4 DEF Single!Begin
  <2>3. QED
    BY <2>1, <2>2
<1>3. QED
  BY <1>1, <1>2 DEF Single!Next

(* The workers implement SingleRuntime: a runtime begins only where no       *)
(* worker, itself included, runs the strategy.                               *)
THEOREM ImplementsSingleRuntime == Timely /\ NoLeaseFaults /\ Spec => RunsOnce
<1>1. Init => Single!Init
  BY DEF Init, Single!Init, Runners
<1>2. Safe /\ [Next]_vars => [Single!Next]_Runners
  BY RefineStep
<1>3. QED
  BY <1>1, <1>2, LeaseAlways, PTL DEF Spec, RunsOnce, Single!Spec

\* What a step may do to the lease of s when it changes hands.
HandOver(s) ==
  \/ lease[s].owner = NoOwner
  \/ lease'[s].owner = NoOwner /\
       (lease[s].ttl < 0 \/ \E w \in Workers : w = lease[s].owner /\ s \notin running'[w])
  \/ lease[s].ttl < 0 /\ lease'[s].token > lease[s].token

LEMMA AcquireHandsOver ==
  ASSUME TypeOK, NEW w \in Workers, NEW t \in Strategies, CanAcquire(w, t), Acquire(w, t),
         NEW s \in Strategies, lease'[s].owner # lease[s].owner
  PROVE HandOver(s)
<1>1. s = t /\ lease'[s] = AcquiredLease(lease[s], w)
  BY DEF Acquire, TypeOK
<1>2. lease[s].owner = NoOwner \/ (lease[s].ttl < 0 /\ lease[s].owner # w)
  BY <1>1 DEF CanAcquire, AcquiredLease
<1>3. lease[s].token \in Nat
  BY LeaseFields DEF TypeOK
<1>4. QED
  BY <1>1, <1>2, <1>3 DEF HandOver, AcquiredLease

LEMMA ReleaseHandsOver ==
  ASSUME TypeOK, NEW w \in Workers, NEW t \in Strategies, Release(w, t), t \notin running'[w],
         NEW s \in Strategies, lease'[s].owner # lease[s].owner
  PROVE HandOver(s)
BY DEF Release, TypeOK, HandOver, NoLease

LEMMA HandOverStep ==
  ASSUME Safe, [Next]_vars, NEW s \in Strategies, lease'[s].owner # lease[s].owner
  PROVE HandOver(s)
<1> USE DEF dbVars, execVars
<1>0. TypeOK /\ LeaseInv /\ NoLeaseFaults
  BY DEF Safe
<1>1. lease' # lease
  OBVIOUS
<1>2. ASSUME Tick PROVE FALSE
  BY <1>0, <1>2, Ttl, AgedLeaseFields DEF Tick
<1>3. CASE Cleanup
  <2>1. lease[s].ttl < -LeaseKeep /\ lease'[s] = NoLease
    BY <1>3 DEF Cleanup
  <2>2. lease[s].ttl < 0
    BY <1>0, <2>1, Ttl, ConstantsAssumption
  <2>3. QED
    BY <2>1, <2>2 DEF HandOver, NoLease
<1>4. ASSUME NEW w \in Workers, NEW t \in Strategies, RestoreAcquire(w, t) PROVE HandOver(s)
  BY <1>0, <1>1, <1>4, AcquireHandsOver DEF RestoreAcquire
<1>5. ASSUME NEW w \in Workers, StartAcquire(w) PROVE HandOver(s)
  BY <1>0, <1>1, <1>5, AcquireHandsOver, TaskSid DEF StartAcquire
<1>6. ASSUME NEW w \in Workers, RestoreRelease(w) \/ ReleaseThenFail(w) \/ StopRelease(w)
      PROVE HandOver(s)
  <2>1. task[w].sid \in Strategies /\ Release(w, task[w].sid) /\ task[w].sid \notin running'[w]
    BY <1>0, <1>6, TaskSid
    DEF RestoreRelease, ReleaseThenFail, StopRelease, LeaseInv, LocalInv, RestorePCs
  <2>2. QED
    BY <1>0, <2>1, ReleaseHandsOver
<1>7. ASSUME NEW w \in Workers, NEW t \in Strategies, ShutdownOne(w, t) PROVE HandOver(s)
  <2>1. Release(w, t) /\ t \notin running'[w]
    BY <1>0, <1>7 DEF ShutdownOne, Detach, NoLeaseFaults, TypeOK
  <2>2. QED
    BY <1>0, <2>1, ReleaseHandsOver
<1>8. ASSUME NEW w \in Workers, NEW t \in Strategies, RenewOne(w, t) PROVE FALSE
  BY <1>0, <1>1, <1>8, Ttl DEF RenewOne, StopFails, TypeOK, LeaseRow
<1>9. ASSUME NEW w \in Workers,
             \/ Boot(w) \/ Heartbeat(w) \/ RestoreLaunch(w) \/ RestoreMark(w)
             \/ LoopTop(w) \/ ClaimNone(w) \/ Exit(w) \/ Crash(w) \/ Shutdown(w)
             \/ \E i \in CmdIds : Claim(w, i)
             \/ \E t \in Strategies : ThreadStep(w, t) \/ ThreadCrash(w, t) \/ AutoStop(w, t)
      PROVE FALSE
  BY <1>1, <1>9 DEF Boot, Heartbeat, RestoreLaunch, RestoreMark, LoopTop, ClaimNone, Exit,
                    Crash, Shutdown, Claim, ThreadStep, ThreadExit, ZombieExit, ThreadCrash, AutoStop
<1>10. ASSUME NEW w \in Workers,
              \/ StartCheck(w) \/ StartLaunch(w) \/ StartAwait(w) \/ StopRuntime(w)
              \/ Complete(w) \/ Fail(w) \/ GiveUp(w)
       PROVE FALSE
  BY <1>1, <1>10 DEF StartCheck, StartLaunch, StartAwait, StopRuntime, Complete, Fail, GiveUp
<1>11. ASSUME NEW r \in Requests,
              \/ RequestStep(r) \/ EnqueueError(r)
              \/ \E kind \in RequestKinds, t \in Strategies : Issue(r, kind, t)
       PROVE FALSE
  BY <1>1, <1>11 DEF RequestStep, Enqueue, EndWait, MarkStopped, EnqueueError, Issue
<1>12. ASSUME UNCHANGED vars PROVE FALSE
  BY <1>1, <1>12 DEF vars
<1>13. QED
  BY <1>2, <1>3, <1>4, <1>5, <1>6, <1>7, <1>8, <1>9, <1>10, <1>11, <1>12
  DEF Next, WorkerStep, RestoreStep, LoopStep, ExecStep, EndStep, FaultStep

(* A lease changes hands only when it expired, with a higher fencing token,  *)
(* or when its owner released it after ending the runtime.                   *)
THEOREM TakeoversFenced == Timely /\ NoLeaseFaults /\ Spec => FencedTakeover
<1>1. Safe /\ [Next]_vars =>
        [\A s \in Strategies : lease'[s].owner # lease[s].owner => HandOver(s)]_vars
  BY HandOverStep
<1>2. QED
  BY <1>1, LeaseAlways, PTL DEF Spec, FencedTakeover, HandOver
=============================================================================
