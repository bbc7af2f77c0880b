---------------------------- MODULE MountProofs ----------------------------
(***************************************************************************)
(* Proofs about the mount manager: its hand nudges (MountMove), and its    *)
(* operations with the automation loop that uses them (MountManager,       *)
(* MountAutomation), for any number of clients, leases, directions,        *)
(* workers and components that suspend the automatic flip.                 *)
(***************************************************************************)
EXTENDS MountMove, MountAutomation, FiniteSetTheorems, TLAPS

-----------------------------------------------------------------------------
(***************************************************************************)
(* The nudges.  The lock is what the argument turns on: the holder is the  *)
(* one actor inside a call of the driver, a lease that sleeps or waits is  *)
(* the one start_move set last, and a start that was called before a stop  *)
(* is still before it in line.                                             *)
(***************************************************************************)


\* The one inside the lock is its holder; clients do not sleep.
LockInv ==
  /\ \A a \in Actors : stage[a] \in {"lock", "driver"} <=> holder = a
  /\ \A c \in Clients : stage[c] # "sleep"

\* A lease that is not over is the current one; the current one is not over, and it
\* empties _move_leases before it waits for the driver.
LeaseInv ==
  /\ \A l \in Leases : stage[l] \in {"sleep", "wait", "lock"} => l = lease
  /\ lease # NoOne => stage[lease] \in {"sleep", "wait", "lock"}

\* A client waits or is inside the lock exactly while its call is under way, and the
\* starts a waiting stop was called after hold the lock or wait before it.
OrderInv ==
  /\ \A c \in Clients : asked[c] = NoCall <=> stage[c] = "none"
  /\ \A c \in Clients : \A s \in ahead[c] :
       /\ stage[c] = "wait"
       /\ holder = s \/ s \in behind[c]
  /\ \A a \in Actors : \A b \in behind[a] : stage[b] = "wait"

\* A moving mount has a lease, or its motion is being ended by the holder, unless it is
\* loose.
MotionInv ==
  Stands \/ loose \/ lease # NoOne \/ \E a \in Actors : stage[a] = "driver" /\ Stopper(a)

IInv == TypeOK /\ LockInv /\ LeaseInv /\ OrderInv

-----------------------------------------------------------------------------
LEMMA InitIInv == Init => IInv
  BY ActorsAssumption, MotionAssumption
     DEF Init, IInv, TypeOK, LockInv, LeaseInv, OrderInv, Actors, AllStill, NoCall

\* Asking for the lock: the one that asks is last in line.
LEMMA CallStep ==
  ASSUME IInv, NEW c \in Clients, ClientCalls(c) PROVE IInv'
<1> USE ActorsAssumption
<1> PICK request \in StartCalls \cup {StopCall} : Call(c, request)
  BY DEF ClientCalls
<1>1. TypeOK'
  BY DEF IInv, TypeOK, Call, Queue, Actors, Starting
<1>2. LockInv'
  BY DEF IInv, TypeOK, LockInv, OrderInv, Call, Queue, Actors
<1>3. LeaseInv'
  BY DEF IInv, TypeOK, LeaseInv, Call, Queue, Actors
<1>4. \A d \in Clients : asked'[d] = NoCall <=> stage'[d] = "none"
  BY DEF IInv, TypeOK, OrderInv, Call, Queue, Actors, StartCalls, StopCall, NoCall
<1>5. ASSUME NEW d \in Clients, NEW s \in ahead'[d]
      PROVE stage'[d] = "wait" /\ (holder' = s \/ s \in behind'[d])
  <2>1. CASE d # c
    BY <2>1, <1>5 DEF IInv, TypeOK, OrderInv, Call, Queue, Actors
  <2>2. CASE d = c
    <3>1. s \in Starting
      BY <2>2, <1>5 DEF IInv, TypeOK, Call
    <3>2. stage[s] \in {"wait", "lock", "driver"}
      BY <3>1 DEF IInv, TypeOK, LockInv, OrderInv, Starting, NoCall, Actors
    <3> QED
      BY <2>2, <3>1, <3>2 DEF IInv, TypeOK, LockInv, Call, Queue, Actors, Starting
  <2> QED BY <2>1, <2>2
<1>6. \A a \in Actors : \A b \in behind'[a] : stage'[b] = "wait"
  BY DEF IInv, TypeOK, OrderInv, Call, Queue, Actors
<1> QED BY <1>1, <1>2, <1>3, <1>4, <1>5, <1>6 DEF IInv, OrderInv

LEMMA ExpiryStep ==
  ASSUME IInv, NEW l \in Leases, LeaseExpires(l) PROVE IInv'
<1> USE ActorsAssumption
<1>1. TypeOK'
  BY DEF IInv, TypeOK, LeaseExpires, Queue, Actors
<1>2. LockInv'
  BY DEF IInv, TypeOK, LockInv, LeaseExpires, Queue, Actors
<1>3. LeaseInv'
  BY DEF IInv, TypeOK, LeaseInv, LeaseExpires, Queue, Actors
<1>4. OrderInv'
  BY DEF IInv, TypeOK, OrderInv, LeaseExpires, Queue, Actors
<1> QED BY <1>1, <1>2, <1>3, <1>4 DEF IInv

\* Nobody waits before the one that takes the lock, so no start is before its stop.
LEMMA AcquireStep ==
  ASSUME IInv, NEW a \in Actors, Acquire(a) PROVE IInv'
<1> USE ActorsAssumption
<1>1. TypeOK'
  BY DEF IInv, TypeOK, Acquire, Unqueue, Actors
<1>2. LockInv'
  BY DEF IInv, TypeOK, LockInv, Acquire, Unqueue, Actors
<1>3. LeaseInv'
  BY DEF IInv, TypeOK, LeaseInv, Acquire, Unqueue, Actors
<1>4. \A d \in Clients : asked'[d] = NoCall <=> stage'[d] = "none"
  BY DEF IInv, TypeOK, OrderInv, Acquire, Actors
<1>5. ASSUME NEW d \in Clients, NEW s \in ahead'[d]
      PROVE stage'[d] = "wait" /\ (holder' = s \/ s \in behind'[d])
  <2>1. s \in ahead[d] /\ s \in Clients
    BY <1>5 DEF IInv, TypeOK, Acquire
  <2>2. stage[d] = "wait" /\ s \in behind[d]
    BY <2>1 DEF IInv, OrderInv, Acquire
  <2>3. d # a
    BY <2>2 DEF Acquire
  <2> QED
    BY <2>1, <2>2, <2>3 DEF IInv, TypeOK, Acquire, Unqueue, Actors
<1>6. \A x \in Actors : \A b \in behind'[x] : stage'[b] = "wait"
  BY DEF IInv, TypeOK, OrderInv, Acquire, Unqueue, Actors
<1> QED BY <1>1, <1>2, <1>3, <1>4, <1>5, <1>6 DEF IInv, OrderInv

\* The end of start_move, from inside the lock: the new lease is the only one.
LEMMA EndStartStep ==
  ASSUME IInv, NEW c \in Clients, holder = c, asked[c].op = "start", EndStart(c),
         moving' \in [Directions -> Rates \cup {Still}],
         motion' \in [Directions -> Rates \cup {Still}],
         loose' \in BOOLEAN
  PROVE  IInv'
<1> USE ActorsAssumption
<1> PICK l \in IdleLeases :
      /\ Unqueue({lease})
      /\ lease' = IF asked[c].timed THEN l ELSE NoOne
      /\ stage' = [a \in Actors |-> IF a \in {c, lease} THEN "none"
                                    ELSE IF a = lease' THEN "sleep" ELSE stage[a]]
      /\ Release(c)
  BY DEF EndStart
<1>0. l \in Leases /\ stage[l] = "none" /\ l # lease /\ lease # c /\ lease' \notin Clients
  BY DEF IInv, TypeOK, LeaseInv, IdleLeases
<1>1. TypeOK'
  BY <1>0 DEF IInv, TypeOK, Unqueue, Release, Actors
<1>2. LockInv'
  <2>1. \A a \in Actors : stage'[a] \notin {"lock", "driver"}
    BY <1>0 DEF IInv, LockInv, Actors
  <2>2. \A d \in Clients : stage'[d] # "sleep"
    BY <1>0 DEF IInv, LockInv, Actors
  <2>3. holder' = NoOne
    BY DEF Release
  <2> QED BY <2>1, <2>2, <2>3 DEF LockInv, Actors
<1>3. LeaseInv'
  BY <1>0 DEF IInv, LeaseInv, Actors
<1>4. \A d \in Clients : asked'[d] = NoCall <=> stage'[d] = "none"
  BY <1>0 DEF IInv, TypeOK, OrderInv, Release, Actors
<1>5. ASSUME NEW d \in Clients, NEW s \in ahead'[d]
      PROVE stage'[d] = "wait" /\ (holder' = s \/ s \in behind'[d])
  <2>1. d # c /\ s \in ahead[d] /\ s # c /\ s \in Clients
    BY <1>5 DEF IInv, TypeOK, Release
  <2>2. stage[d] = "wait" /\ s \in behind[d]
    BY <2>1 DEF IInv, OrderInv
  <2>3. s # lease /\ d # lease
    BY <2>1 DEF IInv, TypeOK
  <2> QED
    BY <1>0, <2>1, <2>2, <2>3 DEF Unqueue, Actors
<1>6. \A a \in Actors : \A b \in behind'[a] : stage'[b] = "wait"
  <2> SUFFICES ASSUME NEW a \in Actors, NEW b \in behind'[a] PROVE stage'[b] = "wait"
    OBVIOUS
  <2>1. b \in behind[a] /\ b # lease /\ b \in Actors
    BY DEF IInv, TypeOK, Unqueue
  <2>2. stage[b] = "wait"
    BY <2>1 DEF IInv, OrderInv
  <2>3. b # c /\ b # l
    BY <1>0, <2>2 DEF IInv, LockInv, Actors
  <2>4. b # lease'
    BY <2>1, <2>3 DEF Actors
  <2> QED BY <2>1, <2>2, <2>3, <2>4
<1> QED BY <1>1, <1>2, <1>3, <1>4, <1>5, <1>6 DEF IInv, OrderInv

LEMMA StartSteps ==
  ASSUME IInv, NEW c \in Clients, Renew(c) \/ MountStarts(c) PROVE IInv'
<1> USE ActorsAssumption
<1>1. holder = c /\ asked[c].op = "start" /\ EndStart(c)
  BY DEF IInv, LockInv, Renew, MountStarts, Actors
<1>2. asked[c] \in StartCalls
  BY <1>1 DEF IInv, TypeOK, NoCall, StopCall, StartCalls
<1>3. /\ moving' \in [Directions -> Rates \cup {Still}]
      /\ motion' \in [Directions -> Rates \cup {Still}]
  BY <1>2 DEF IInv, TypeOK, Renew, MountStarts, StartCalls
<1>4. loose' \in BOOLEAN
  BY <1>1 DEF EndStart
<1> QED BY <1>1, <1>3, <1>4, EndStartStep

LEMMA BeginStartStep ==
  ASSUME IInv, NEW c \in Clients, BeginStart(c) PROVE IInv'
<1> USE ActorsAssumption
<1>1. TypeOK'
  BY DEF IInv, TypeOK, BeginStart, Actors
<1>2. LockInv'
  BY DEF IInv, TypeOK, LockInv, BeginStart, Actors
<1>3. LeaseInv'
  BY DEF IInv, TypeOK, LeaseInv, BeginStart, Actors
<1>4. OrderInv'
  BY DEF IInv, TypeOK, OrderInv, BeginStart, Actors
<1> QED BY <1>1, <1>2, <1>3, <1>4 DEF IInv

\* Leaving the lock without touching the lease: a start that failed, a stop.
LEMMA LeaveStep ==
  ASSUME IInv, NEW a \in Actors, stage[a] = "driver", Release(a),
         stage' = [stage EXCEPT ![a] = "none"],
         motion' \in {motion, AllStill},
         loose' \in BOOLEAN,
         UNCHANGED <<behind, moving, lease>>
  PROVE  IInv'
<1> USE ActorsAssumption
<1>0. holder = a
  BY DEF IInv, LockInv
<1>1. TypeOK'
  BY DEF IInv, TypeOK, Release, Actors, AllStill
<1>2. LockInv'
  BY <1>0 DEF IInv, TypeOK, LockInv, Release, Actors
<1>3. LeaseInv'
  BY DEF IInv, TypeOK, LeaseInv, Actors
<1>4. \A d \in Clients : asked'[d] = NoCall <=> stage'[d] = "none"
  BY DEF IInv, TypeOK, OrderInv, Release, Actors
<1>5. ASSUME NEW d \in Clients, NEW s \in ahead'[d]
      PROVE stage'[d] = "wait" /\ (holder' = s \/ s \in behind'[d])
  <2>1. d # a /\ s \in ahead[d] /\ s # a
    BY <1>5 DEF IInv, TypeOK, Release
  <2> QED
    BY <1>0, <2>1 DEF IInv, TypeOK, OrderInv, Actors
<1>6. \A x \in Actors : \A b \in behind'[x] : stage'[b] = "wait"
  BY DEF IInv, TypeOK, OrderInv, Actors
<1> QED BY <1>1, <1>2, <1>3, <1>4, <1>5, <1>6 DEF IInv, OrderInv

\* stop_move drops the lease before it waits for the driver.
LEMMA BeginStopStep ==
  ASSUME IInv, NEW a \in Actors, BeginStop(a) PROVE IInv'
<1> USE ActorsAssumption
<1>0. /\ holder = a
      /\ lease' = NoOne
      /\ Unqueue({lease})
      /\ stage' = [x \in Actors |-> IF x = a THEN "driver" ELSE IF x = lease THEN "none" ELSE stage[x]]
  BY DEF IInv, LockInv, BeginStop
<1>1. TypeOK'
  BY DEF IInv, TypeOK, BeginStop, Unqueue, Actors, AllStill
<1>2. LockInv'
  BY <1>0 DEF IInv, TypeOK, LockInv, BeginStop, Actors
<1>3. LeaseInv'
  BY <1>0 DEF IInv, TypeOK, LeaseInv, Actors
<1>4. \A d \in Clients : asked'[d] = NoCall <=> stage'[d] = "none"
  BY <1>0 DEF IInv, TypeOK, OrderInv, BeginStop, Actors
<1>5. ASSUME NEW d \in Clients, NEW s \in ahead'[d]
      PROVE stage'[d] = "wait" /\ (holder' = s \/ s \in behind'[d])
  <2>1. s \in ahead[d] /\ s \in Clients /\ holder' = holder
    BY <1>5 DEF IInv, TypeOK, BeginStop
  <2>2. stage[d] = "wait" /\ (holder = s \/ s \in behind[d])
    BY <2>1 DEF IInv, OrderInv
  <2>3. d # a /\ d # lease /\ s # lease
    BY <2>1, <2>2 DEF IInv, TypeOK, BeginStop
  <2> QED BY <1>0, <2>1, <2>2, <2>3 DEF Unqueue, Actors
<1>6. \A x \in Actors : \A b \in behind'[x] : stage'[b] = "wait"
  <2> SUFFICES ASSUME NEW x \in Actors, NEW b \in behind'[x] PROVE stage'[b] = "wait"
    OBVIOUS
  <2>1. b \in behind[x] /\ b # lease /\ b \in Actors
    BY <1>0 DEF IInv, TypeOK, Unqueue
  <2>2. stage[b] = "wait" /\ b # a
    BY <2>1 DEF IInv, OrderInv, BeginStop
  <2> QED BY <1>0, <2>1, <2>2
<1> QED BY <1>1, <1>2, <1>3, <1>4, <1>5, <1>6 DEF IInv, OrderInv

LEMMA NextIInv == IInv /\ [Next]_moveVars => IInv'
<1> SUFFICES ASSUME IInv, [Next]_moveVars PROVE IInv'
  OBVIOUS
<1>1. CASE \E c \in Clients : ClientCalls(c)
  BY <1>1, CallStep
<1>2. CASE \E l \in Leases : LeaseExpires(l)
  BY <1>2, ExpiryStep
<1>3. ASSUME NEW a \in Actors, ActorStep(a) PROVE IInv'
  <2>1. CASE Acquire(a)
    BY <2>1, AcquireStep
  <2>2. CASE a \in Clients /\ (Renew(a) \/ MountStarts(a))
    BY <2>2, StartSteps
  <2>3. CASE a \in Clients /\ BeginStart(a)
    BY <2>3, BeginStartStep
  <2>4. CASE a \in Clients /\ StartFails(a)
    <3>1. loose' \in BOOLEAN
      BY <2>4 DEF IInv, TypeOK, StartFails
    <3> QED BY <2>4, <3>1, LeaveStep DEF StartFails
  <2>5. CASE BeginStop(a)
    BY <2>5, BeginStopStep
  <2>6. CASE MountStops(a)
    <3>1. loose' \in BOOLEAN
      BY <2>6 DEF MountStops
    <3> QED BY <2>6, <3>1, LeaveStep DEF MountStops
  <2> QED BY <1>3, <2>1, <2>2, <2>3, <2>4, <2>5, <2>6 DEF ActorStep
<1>4. CASE EmergencyStop
  BY <1>4 DEF EmergencyStop, IInv, TypeOK, LockInv, LeaseInv, OrderInv, Actors, AllStill
<1>5. CASE UNCHANGED moveVars
  BY <1>5 DEF moveVars, IInv, TypeOK, LockInv, LeaseInv, OrderInv, Actors
<1> QED BY <1>1, <1>2, <1>3, <1>4, <1>5 DEF Next

\* The lock, the lease and the line keep their shape, whatever clients call and
\* whether the driver fails or not.
THEOREM NudgeInvariance == Spec => []IInv
<1> QED BY InitIInv, NextIInv, PTL DEF Spec

\* A lease ends the nudge it was set for and no newer one (_cancel_move_lease is
\* called with the lock held by whoever replaces the lease).
THEOREM LeaseEndsItsNudge == Spec => []LeaseIsCurrent
<1>1. IInv => LeaseIsCurrent
  BY DEF IInv, LeaseInv, LeaseIsCurrent
<1> QED BY <1>1, NudgeInvariance, PTL

\* A stop that reaches the driver comes after every start called before it
\* (MountManager._move_locks).
THEOREM StopsInOrder == Spec => []StopNotOvertaken
<1>1. IInv => StopNotOvertaken
  BY DEF IInv, TypeOK, OrderInv, StopNotOvertaken
<1> QED BY <1>1, NudgeInvariance, PTL

-----------------------------------------------------------------------------
(* The lease of a moving mount *)

LEMMA StopIsNoStart == StopCall.op # "start"
BY DEF StopCall

LEMMA NextMotionInv ==
  ASSUME IInv, MotionInv, [Next]_moveVars PROVE MotionInv'
<1> USE ActorsAssumption
<1>1. CASE \E c \in Clients : ClientCalls(c)
  <2> PICK c \in Clients, request \in StartCalls \cup {StopCall} : Call(c, request)
    BY <1>1 DEF ClientCalls
  <2>1. UNCHANGED <<motion, lease, loose>>
    BY DEF Call
  <2>2. ASSUME NEW a \in Actors, stage[a] = "driver", Stopper(a)
        PROVE stage'[a] = "driver" /\ Stopper(a)'
    BY <2>2 DEF IInv, TypeOK, OrderInv, Call, Queue, Stopper, Actors
  <2> QED BY <2>1, <2>2 DEF MotionInv, Stands, AllStill
<1>2. ASSUME NEW l \in Leases, LeaseExpires(l) PROVE MotionInv'
  BY <1>2 DEF IInv, TypeOK, MotionInv, LeaseExpires, Queue, Stopper, Stands, AllStill, Actors
<1>3. ASSUME NEW a \in Actors, ActorStep(a) PROVE MotionInv'
  <2>1. CASE Acquire(a)
    BY <2>1 DEF IInv, TypeOK, MotionInv, Acquire, Stopper, Stands, AllStill, Actors
  <2>2. CASE a \in Clients /\ (Renew(a) \/ MountStarts(a))
    <3>1. CASE asked[a].timed
      <4> lease' \in Leases
        BY <2>2, <3>1 DEF Renew, MountStarts, EndStart, IdleLeases
      <4> QED BY DEF MotionInv, Actors
    <3>2. CASE ~asked[a].timed
      <4> loose'
        BY <2>2, <3>2 DEF Renew, MountStarts, EndStart
      <4> QED BY DEF MotionInv
    <3> QED BY <3>1, <3>2
  <2>3. CASE a \in Clients /\ BeginStart(a)
    BY <2>3 DEF IInv, TypeOK, MotionInv, BeginStart, Stopper, Stands, AllStill, Actors
  <2>4. CASE a \in Clients /\ StartFails(a)
    <3>1. UNCHANGED <<motion, lease, loose>>
      BY <2>4 DEF StartFails
    <3>2. ~Stopper(a)
      BY <2>4, StopIsNoStart DEF Stopper, StartFails
    <3>3. ASSUME NEW b \in Actors, stage[b] = "driver", Stopper(b)
          PROVE  stage'[b] = "driver" /\ Stopper(b)'
      BY <2>4, <3>2, <3>3 DEF IInv, TypeOK, StartFails, Release, Stopper, Actors
    <3> QED BY <3>1, <3>3 DEF MotionInv, Stands, AllStill
  <2>5. CASE BeginStop(a)
    <3>1. stage'[a] = "driver" /\ Stopper(a)'
      BY <2>5 DEF BeginStop, Stopper
    <3> QED BY <3>1 DEF MotionInv
  <2>6. CASE MountStops(a)
    <3>1. loose' \/ Stands'
      BY <2>6 DEF MountStops, Stands, AllStill
    <3> QED BY <3>1 DEF MotionInv
  <2> QED BY <1>3, <2>1, <2>2, <2>3, <2>4, <2>5, <2>6 DEF ActorStep
<1>4. CASE EmergencyStop
  BY <1>4 DEF EmergencyStop, MotionInv, Stands, AllStill
<1>5. CASE UNCHANGED moveVars
  BY <1>5 DEF moveVars, MotionInv, Stands, AllStill, Stopper
<1> QED BY <1>1, <1>2, <1>3, <1>4, <1>5 DEF Next

\* A mount that moves while nobody holds the lock has a lease that has not run out
\* or waits for the lock, unless its last nudge had none or the driver would not stop
\* it: a client that vanishes does not leave it running.
THEOREM NudgesAreLeased == Spec => []MotionHasLease
<1>1. Init => MotionInv
  BY DEF Init, MotionInv, Stands
<1>2. IInv /\ MotionInv /\ [Next]_moveVars => MotionInv'
  BY NextMotionInv
<1>3. IInv /\ MotionInv => MotionHasLease
  BY ActorsAssumption DEF IInv, TypeOK, LockInv, LeaseInv, MotionInv, MotionHasLease, Actors
<1> QED BY <1>1, <1>2, <1>3, NudgeInvariance, PTL DEF Spec

-----------------------------------------------------------------------------
(***************************************************************************)
(* The operations of the mount.                                            *)
(***************************************************************************)

\* What is under way outside the slot was put out of it, and a stop() waits for the one
\* operation that it found.
OpsInv ==
  /\ MountTypeOK
  /\ Live \ adrift \subseteq {slot}
  /\ \A c \in Callers : /\ found[c] \subseteq {aim[c]}
                        /\ call[c] = "stopMount" => found[c] = {}

LEMMA MountInitInv == MountInit => OpsInv
  BY WorkerAssumption DEF MountInit, OpsInv, MountTypeOK, Live

\* A new worker takes the slot and has an identity that no stop() refers to.
LEMMA CreateInv ==
  ASSUME OpsInv, NEW k \in Motions, Create(k), adrift' = PutOut, UNCHANGED <<aim, motor>>,
         call' \in [Callers -> {"none", "flip", "stopWait", "stopMount"}],
         \A c \in Callers : call'[c] = "stopMount" => call[c] = "stopMount"
  PROVE  OpsInv'
<1>1. PICK w \in Unused : /\ slot' = w
                          /\ job' = [job EXCEPT ![w] = k]
                          /\ work' = [work EXCEPT ![w] = "created"]
  BY DEF Create
<1>2. w \in Workers /\ w \notin Live
  BY <1>1 DEF Unused
<1>3. Live' = Live \cup {w}
  BY <1>1, <1>2 DEF Live, OpsInv, MountTypeOK
<1>4. adrift' \subseteq Live /\ Live \subseteq adrift'
  BY DEF PutOut, IsBusy, OpsInv, MountTypeOK
<1>5. UNCHANGED <<cancelled, found>>
  BY DEF Create
<1>6. MountTypeOK'
  <2>1. found' \in [Callers -> SUBSET Live']
    BY <1>3, <1>5 DEF OpsInv, MountTypeOK
  <2>2. slot' \in Workers \cup {NoWorker} /\ job' \in [Workers -> Motions \cup {"none"}]
        /\ work' \in [Workers -> {"done", "created", "driving"}]
    BY <1>1, <1>2 DEF OpsInv, MountTypeOK
  <2>3. cancelled' \subseteq Live' /\ adrift' \subseteq Live'
    BY <1>3, <1>4, <1>5 DEF OpsInv, MountTypeOK
  <2> QED
    BY <2>1, <2>2, <2>3 DEF OpsInv, MountTypeOK
<1>7. Live' \ adrift' \subseteq {slot'}
  BY <1>1, <1>3, <1>4
<1> QED
  BY <1>5, <1>6, <1>7 DEF OpsInv

LEMMA ClientStepInv ==
  ASSUME OpsInv, ClientStep PROVE OpsInv'
<1> PICK c \in Callers :
      \/ \E k \in Motions : Start(c, k)
      \/ AskFlip(c) \/ BeginFlip(c) \/ RefuseFlip(c)
      \/ Stop(c) \/ StopWakes(c) \/ StopMount(c)
  BY DEF ClientStep
<1>1. ASSUME NEW k \in Motions, Start(c, k) PROVE OpsInv'
  BY <1>1, CreateInv DEF Start, PutOut, OpsInv, MountTypeOK, callVars
<1>2. CASE AskFlip(c) \/ RefuseFlip(c)
  BY <1>2 DEF AskFlip, RefuseFlip, OpsInv, MountTypeOK, Live, workVars
<1>3. CASE BeginFlip(c)
  <2>1. call' \in [Callers -> {"none", "flip", "stopWait", "stopMount"}]
    BY <1>3 DEF BeginFlip, OpsInv, MountTypeOK
  <2>2. \A d \in Callers : call'[d] = "stopMount" => call[d] = "stopMount"
    BY <1>3 DEF BeginFlip, OpsInv, MountTypeOK
  <2> QED
    BY <1>3, <2>1, <2>2, CreateInv DEF BeginFlip, CreateFlip, Motions
<1>4. CASE Stop(c)
  <2>1. Live' = Live /\ UNCHANGED <<slot, adrift>>
    BY <1>4 DEF Stop, Live
  <2>2. found' = [found EXCEPT ![c] = Live \ adrift] /\ Live \ adrift \subseteq {aim'[c]}
        /\ (call'[c] = "stopMount" => Live \ adrift = {})
    BY <1>4 DEF Stop, IsBusy, OpsInv, MountTypeOK
  <2>3. \A d \in Callers \ {c} : UNCHANGED <<call[d], aim[d]>>
    BY <1>4 DEF Stop, OpsInv, MountTypeOK
  <2>4. MountTypeOK'
    BY <1>4, <2>1, WorkerAssumption DEF Stop, IsBusy, OpsInv, MountTypeOK
  <2> QED
    BY <2>1, <2>2, <2>3, <2>4 DEF OpsInv, MountTypeOK
<1>5. CASE StopWakes(c)
  <2>1. Live' = Live /\ Live \ adrift' = {} /\ adrift' \subseteq Live
    BY <1>5 DEF StopWakes, Live, PutOut, IsBusy, OpsInv, MountTypeOK
  <2>2. found[c] = {}
    BY <1>5 DEF StopWakes, OpsInv, MountTypeOK
  <2>3. MountTypeOK'
    BY <1>5, <2>1 DEF StopWakes, OpsInv, MountTypeOK
  <2> QED
    BY <1>5, <2>1, <2>2, <2>3 DEF StopWakes, OpsInv, MountTypeOK
<1>6. CASE StopMount(c)
  BY <1>6 DEF StopMount, OpsInv, MountTypeOK, Live, workVars
<1> QED
  BY <1>1, <1>2, <1>3, <1>4, <1>5, <1>6

LEMMA WorkerStepInv ==
  ASSUME OpsInv, WorkerStep PROVE OpsInv'
<1> PICK w \in Workers :
      \/ WorkerDrives(w) \/ WorkerReturns(w) \/ WorkerGivesUp(w)
      \/ WorkerCancelled(w) \/ WorkerNeverRuns(w)
  BY DEF WorkerStep
<1>1. CASE WorkerDrives(w)
  <2>1. Live' = Live
    BY <1>1 DEF WorkerDrives, Live, OpsInv, MountTypeOK
  <2> QED
    BY <1>1, <2>1 DEF WorkerDrives, OpsInv, MountTypeOK, callVars
<1>2. CASE WorkerReturns(w) \/ WorkerGivesUp(w) \/ WorkerCancelled(w) \/ WorkerNeverRuns(w)
  <2>1. Done(w) /\ motor' \in {motor, "none"} /\ UNCHANGED <<call, aim>>
    BY <1>2 DEF WorkerReturns, WorkerGivesUp, WorkerCancelled, WorkerNeverRuns, Ends, callVars
  <2>2. \/ slot' = slot /\ adrift' = adrift \ {w}
        \/ slot' = NoWorker /\ adrift' = PutOut \ {w}
    BY <1>2 DEF WorkerReturns, WorkerGivesUp, WorkerCancelled, WorkerNeverRuns, Ends
  <2>3. Live' = Live \ {w}
    BY <2>1 DEF Done, Live, OpsInv, MountTypeOK
  <2>4. Live' \ adrift' \subseteq {slot'} /\ adrift' \subseteq Live'
    BY <2>2, <2>3 DEF PutOut, IsBusy, OpsInv, MountTypeOK
  <2>5. found' \in [Callers -> SUBSET Live'] /\ \A c \in Callers : found'[c] = found[c] \ {w}
    BY <2>1, <2>3 DEF Done, OpsInv, MountTypeOK
  <2>6. MountTypeOK'
    BY <2>1, <2>2, <2>3, <2>4, <2>5 DEF Done, OpsInv, MountTypeOK
  <2> QED
    BY <2>1, <2>4, <2>5, <2>6 DEF OpsInv
<1> QED
  BY <1>1, <1>2

LEMMA MountStandsInv ==
  ASSUME OpsInv, UNCHANGED <<workVars, callVars>>, motor' \in {motor, "none"}
  PROVE  OpsInv'
  BY DEF OpsInv, MountTypeOK, Live, workVars, callVars

LEMMA MountNextInv == OpsInv /\ [MountNext]_mountVars => OpsInv'
  BY ClientStepInv, WorkerStepInv, MountStandsInv DEF MountNext, MotorArrives, mountVars

\* When a stop() halts the mount itself, what it found under way is over, however many clients
\* start, flip and stop at once: an operation in the slot is only lost to a stop() by being put
\* out of the slot.
THEOREM StopFindsAllInTheSlot == MountSpec => [](MountTypeOK /\ StopEndsWhatItFinds)
<1>1. MountSpec => []OpsInv
  BY MountInitInv, MountNextInv, PTL DEF MountSpec
<1>2. OpsInv => MountTypeOK /\ StopEndsWhatItFinds
  BY DEF OpsInv, StopEndsWhatItFinds
<1> QED
  BY <1>1, <1>2, PTL

-----------------------------------------------------------------------------
(***************************************************************************)
(* The automation loop.                                                    *)
(***************************************************************************)

AutoTypes ==
  /\ auto \in {"sleep", "ask", "look", "tracking", "flip"}
  /\ seen \in Status \cup {NoStatus} /\ sky \in Status
  /\ parkLast \in BOOLEAN /\ horizonTried \in BOOLEAN /\ flipTried \in BOOLEAN
  /\ holding \subseteq Holders
  /\ clock \in {"before", "at", "after"} /\ woke \in BOOLEAN
  /\ parkedToday \in BOOLEAN /\ climbed \in BOOLEAN
  /\ forgot \subseteq {"park", "horizon"}

\* The depth of the suspension is the number of components inside it.
HoldInv == IsFiniteSet(holding) /\ depth = Cardinality(holding)

\* A park of today is one that the loop remembers, or forgot in a reconnection.
ParkInv == parkedToday => parkLast \/ "park" \in forgot

\* The guard of the horizon action is only reset by a status read when the mount was clear
\* of the limit, or lost in a reconnection, and what is remembered of that status is not older
\* than the last action.
HorizonInv ==
  /\ horizonTried \/ climbed \/ "horizon" \in forgot
  /\ sky.alt = "above" => climbed
  /\ auto = "look" /\ seen.alt = "above" => climbed

AutoInv == OpsInv /\ AutoTypes /\ HoldInv /\ ParkInv /\ HorizonInv

LEMMA AutoInitInv == AutoInit => AutoInv
<1> SUFFICES ASSUME AutoInit PROVE AutoInv
  OBVIOUS
<1>1. AutoTypes
  BY DEF AutoInit, AutoTypes, Status
<1>2. HoldInv
  BY FS_EmptySet DEF AutoInit, HoldInv
<1>3. ParkInv /\ HorizonInv
  BY DEF AutoInit, ParkInv, HorizonInv
<1> QED
  BY <1>1, <1>2, <1>3, MountInitInv DEF AutoInit, AutoInv

-----------------------------------------------------------------------------
(* The loop's own workers are created as those of clients are. *)

LEMMA LoopCreates ==
  ASSUME OpsInv, NEW k \in Motions, Create(k), adrift' = PutOut, UNCHANGED <<callVars, motor>>
  PROVE  OpsInv'
  BY CreateInv DEF OpsInv, MountTypeOK, callVars

LEMMA MountStands ==
  ASSUME OpsInv, UNCHANGED mountVars PROVE OpsInv'
  BY MountStandsInv DEF mountVars

LEMMA AutoStepOps ==
  ASSUME OpsInv, AutoStep PROVE OpsInv'
<1>1. CASE Wake
  <2>1. (~IsBusy /\ Create("park") /\ UNCHANGED adrift) \/ UNCHANGED workVars
    BY <1>1 DEF Wake, AutoParks
  <2> QED
    BY <1>1, <2>1, LoopCreates, MountStands DEF Wake, PutOut, mountVars, Motions
<1>2. CASE Look
  <2>1. (~IsBusy /\ Create("park") /\ UNCHANGED adrift) \/ UNCHANGED workVars
    BY <1>2 DEF Look, HorizonReached
  <2> QED
    BY <1>2, <2>1, LoopCreates, MountStands DEF Look, PutOut, mountVars, Motions
<1>3. CASE AutoFlips
  <2>1. (Create("flip") /\ adrift' = PutOut) \/ UNCHANGED workVars
    BY <1>3 DEF AutoFlips, CreateFlip
  <2> QED
    BY <1>3, <2>1, LoopCreates, MountStands DEF AutoFlips, mountVars, Motions
<1>4. CASE ReadStatus \/ TrackingStops
  BY <1>4, MountStands DEF ReadStatus, TrackingStops
<1> QED
  BY <1>1, <1>2, <1>3, <1>4 DEF AutoStep

LEMMA WorldStepOps ==
  ASSUME OpsInv, WorldStep PROVE OpsInv'
<1>1. CASE Arrives
  BY <1>1, MountStandsInv DEF Arrives, MotorArrives
<1>2. CASE Repoints \/ Westward \/ Sinks \/ Rises \/ ClockMoves
  BY <1>2, MountStands DEF Repoints, Westward, Sinks, Rises, ClockMoves
<1> QED
  BY <1>1, <1>2 DEF WorldStep

LEMMA AutoNextOps ==
  ASSUME OpsInv, [AutoNext]_vars PROVE OpsInv'
<1>1. CASE ClientStep \/ WorkerStep
  BY <1>1, ClientStepInv, WorkerStepInv
<1>2. CASE (\E h \in Holders : Suspend(h) \/ Restore(h)) \/ Reconnects \/ UNCHANGED vars
  BY <1>2, MountStands DEF Suspend, Restore, Reconnects, vars
<1> QED
  BY <1>1, <1>2, AutoStepOps, WorldStepOps DEF AutoNext

-----------------------------------------------------------------------------
(* The loop, its memory and the sky. *)

LEMMA FlipSectionTypes ==
  ASSUME AutoTypes, NEW busy \in BOOLEAN, FlipSection(busy)
  PROVE  /\ auto' \in {"sleep", "flip"} /\ seen' = NoStatus /\ flipTried' \in BOOLEAN
         /\ auto' = "flip" => depth = 0
  BY DEF FlipSection, Forget, AutoTypes

LEMMA AutoStepTypes ==
  ASSUME AutoTypes, AutoStep PROVE AutoTypes'
<1>1. CASE Wake
  BY <1>1 DEF Wake, AutoParks, AutoTypes
<1>2. CASE ReadStatus
  BY <1>2 DEF ReadStatus, AutoTypes, worldVars, history
<1>3. CASE Look
  <2>1. auto' \in {"sleep", "flip", "tracking"} /\ seen' \in {seen, NoStatus} /\ flipTried' \in BOOLEAN
    <3>1. IsBusy \in BOOLEAN
      BY DEF IsBusy
    <3> QED
      BY <1>3, <3>1, FlipSectionTypes DEF Look, AutoTypes
  <2>2. horizonTried' \in BOOLEAN /\ climbed' \in BOOLEAN /\ forgot' \subseteq {"park", "horizon"}
    BY <1>3 DEF Look, Rearmed, AutoTypes
  <2> QED
    BY <1>3, <2>1, <2>2 DEF Look, AutoTypes, worldVars
<1>4. CASE TrackingStops
  <2>1. auto' \in {"sleep", "flip"} /\ seen' = NoStatus /\ flipTried' \in BOOLEAN
    <3>1. IsBusy \in BOOLEAN
      BY DEF IsBusy
    <3> QED
      BY <1>4, <3>1, FlipSectionTypes DEF TrackingStops, Forget, AutoTypes
  <2>2. sky' \in Status
    BY <1>4 DEF TrackingStops, AutoTypes, Status
  <2> QED
    BY <1>4, <2>1, <2>2 DEF TrackingStops, AutoTypes, history
<1>5. CASE AutoFlips
  BY <1>5 DEF AutoFlips, AutoTypes, worldVars, history
<1> QED
  BY <1>1, <1>2, <1>3, <1>4, <1>5 DEF AutoStep

LEMMA ArrivedIsStatus ==
  ASSUME sky \in Status PROVE Arrived \subseteq Status
  BY DEF Arrived, Elsewhere, Status

\* The sky moves: it stays a status, and is above the limit only if that is remembered.
LEMMA WorldStepSky ==
  ASSUME AutoTypes, WorldStep
  PROVE  /\ sky' \in Status
         /\ climbed' \in BOOLEAN
         /\ climbed => climbed'
         /\ forgot' = forgot
         /\ sky'.alt = "above" => climbed' \/ sky.alt = "above"
<1>1. CASE Arrives
  BY <1>1, ArrivedIsStatus DEF Arrives, AutoTypes
<1>2. CASE Repoints
  BY <1>2 DEF Repoints, Elsewhere, Status, AutoTypes
<1>3. CASE Westward
  BY <1>3 DEF Westward, Status, AutoTypes, history
<1>4. CASE Sinks
  BY <1>4 DEF Sinks, Status, AutoTypes, history
<1>5. CASE Rises
  BY <1>5 DEF Rises, Status, AutoTypes
<1>6. CASE ClockMoves
  BY <1>6 DEF ClockMoves, AutoTypes
<1> QED
  BY <1>1, <1>2, <1>3, <1>4, <1>5, <1>6 DEF WorldStep

LEMMA AutoNextTypes ==
  ASSUME AutoTypes, [AutoNext]_vars PROVE AutoTypes'
<1>1. CASE UNCHANGED <<autoVars, worldVars, history>>
  BY <1>1 DEF AutoTypes, autoVars, worldVars, history
<1>2. ASSUME NEW h \in Holders, Suspend(h) \/ Restore(h) PROVE AutoTypes'
  BY <1>2 DEF Suspend, Restore, AutoTypes, worldVars, history
<1>3. CASE Reconnects
  BY <1>3 DEF Reconnects, Forget, AutoTypes, worldVars
<1>4. CASE WorldStep
  <2>1. UNCHANGED autoVars
    BY <1>4 DEF WorldStep, Arrives, Repoints, Westward, Sinks, Rises, ClockMoves
  <2>2. clock' \in {"before", "at", "after"} /\ woke' \in BOOLEAN /\ parkedToday' \in BOOLEAN
        /\ forgot' \subseteq {"park", "horizon"}
    BY <1>4 DEF WorldStep, Arrives, Repoints, Westward, Sinks, Rises, ClockMoves, AutoTypes, history
  <2> QED
    BY <1>4, <2>1, <2>2, WorldStepSky DEF AutoTypes, autoVars
<1> QED
  BY <1>1, <1>2, <1>3, <1>4, AutoStepTypes DEF AutoNext, vars

LEMMA AutoNextHold ==
  ASSUME HoldInv, [AutoNext]_vars PROVE HoldInv'
<1>1. ASSUME NEW h \in Holders, Suspend(h) PROVE HoldInv'
  BY <1>1, FS_AddElement DEF Suspend, HoldInv
<1>2. ASSUME NEW h \in Holders, Restore(h) PROVE HoldInv'
  BY <1>2, FS_RemoveElement DEF Restore, HoldInv
<1>3. CASE UNCHANGED <<depth, holding>>
  BY <1>3 DEF HoldInv
<1>4. AutoStep \/ Reconnects \/ WorldStep => UNCHANGED <<depth, holding>>
  BY DEF AutoStep, Wake, ReadStatus, Look, TrackingStops, AutoFlips, Reconnects, WorldStep, Arrives,
         Repoints, Westward, Sinks, Rises, ClockMoves, autoVars
<1> QED
  BY <1>1, <1>2, <1>3, <1>4 DEF AutoNext, vars, autoVars

LEMMA AutoNextPark ==
  ASSUME AutoTypes, ParkInv, [AutoNext]_vars PROVE ParkInv'
<1>1. CASE Wake
  BY <1>1 DEF Wake, AutoParks, ParkInv
<1>2. CASE ReadStatus \/ Look \/ TrackingStops \/ AutoFlips
  BY <1>2 DEF ReadStatus, Look, TrackingStops, AutoFlips, ParkInv, history
<1>3. CASE Reconnects \/ WorldStep
  BY <1>3 DEF Reconnects, WorldStep, Arrives, Repoints, Westward, Sinks, Rises, ClockMoves, ParkInv,
              AutoTypes, autoVars, history
<1>4. ASSUME NEW h \in Holders, Suspend(h) \/ Restore(h) PROVE ParkInv'
  BY <1>4 DEF Suspend, Restore, ParkInv, history
<1>5. CASE UNCHANGED <<autoVars, worldVars, history>>
  BY <1>5 DEF ParkInv, autoVars, history
<1> QED
  BY <1>1, <1>2, <1>3, <1>4, <1>5 DEF AutoNext, AutoStep, vars

LEMMA AutoNextHorizon ==
  ASSUME AutoTypes, HorizonInv, [AutoNext]_vars PROVE HorizonInv'
<1>1. CASE Wake
  BY <1>1 DEF Wake, HorizonInv
<1>2. CASE ReadStatus
  BY <1>2 DEF ReadStatus, HorizonInv, worldVars, history
<1>3. CASE Look
  <2>1. auto' # "look"
    BY <1>3 DEF Look, FlipSection
  <2>2. \/ horizonTried' = Rearmed /\ UNCHANGED <<climbed, forgot>>
        \/ horizonTried' = TRUE /\ climbed' = (sky.alt = "above")
    BY <1>3 DEF Look
  <2>3. UNCHANGED sky
    BY <1>3 DEF Look, worldVars
  <2> QED
    BY <1>3, <2>1, <2>2, <2>3 DEF Look, HorizonInv, Rearmed, AutoTypes
<1>4. CASE TrackingStops
  <2>1. auto' # "look"
    BY <1>4 DEF TrackingStops, FlipSection
  <2>2. sky'.alt = sky.alt
    BY <1>4 DEF TrackingStops, AutoTypes, Status
  <2> QED
    BY <1>4, <2>1, <2>2 DEF TrackingStops, HorizonInv, history
<1>5. CASE AutoFlips \/ Reconnects
  BY <1>5 DEF AutoFlips, Reconnects, HorizonInv, worldVars, history
<1>6. CASE WorldStep
  <2>1. UNCHANGED autoVars
    BY <1>6 DEF WorldStep, Arrives, Repoints, Westward, Sinks, Rises, ClockMoves
  <2> QED
    BY <1>6, <2>1, WorldStepSky DEF HorizonInv, autoVars
<1>7. ASSUME NEW h \in Holders, Suspend(h) \/ Restore(h) PROVE HorizonInv'
  BY <1>7 DEF Suspend, Restore, HorizonInv, worldVars, history
<1>8. CASE UNCHANGED <<autoVars, worldVars, history>>
  BY <1>8 DEF HorizonInv, autoVars, worldVars, history
<1> QED
  BY <1>1, <1>2, <1>3, <1>4, <1>5, <1>6, <1>7, <1>8 DEF AutoNext, AutoStep, vars

LEMMA AutoNextInv == AutoInv /\ [AutoNext]_vars => AutoInv'
  BY AutoNextOps, AutoNextTypes, AutoNextHold, AutoNextPark, AutoNextHorizon DEF AutoInv

LEMMA AutoInvariance == AutoSpec => []AutoInv
  BY AutoInitInv, AutoNextInv, PTL DEF AutoSpec

-----------------------------------------------------------------------------
\* Every variable of the loop and of the operations it uses keeps its type, and a stop() ends
\* what it finds under way also when the loop parks, flips and loses its guards meanwhile.
THEOREM StopFindsTheLoopsWork == AutoSpec => [](AutoTypeOK /\ StopEndsWhatItFinds)
<1>1. AutoInv => AutoTypeOK /\ StopEndsWhatItFinds
  BY FS_CardinalityType DEF AutoInv, OpsInv, StopEndsWhatItFinds, AutoTypes, HoldInv, AutoTypeOK
<1> QED
  BY <1>1, AutoInvariance, PTL

\* The loop never decides to flip while a component is inside suspend_auto_flip, however many
\* components there are and however their contexts overlap.
THEOREM SuspensionIsCounted == AutoSpec => SuspensionCounts
<1>1. AutoInv /\ [AutoNext]_vars => [auto' = "flip" /\ auto # "flip" => holding = {}]_vars
  <2> SUFFICES ASSUME AutoInv, AutoNext, auto' = "flip", auto # "flip" PROVE holding = {}
    OBVIOUS
  <2>1. Look \/ TrackingStops
    BY DEF AutoNext, AutoStep, Wake, ReadStatus, AutoFlips, Reconnects, Suspend, Restore, WorldStep, Arrives,
           Repoints, Westward, Sinks, Rises, ClockMoves, autoVars
  <2>2. depth = 0
    BY <2>1 DEF Look, TrackingStops, FlipSection
  <2> QED
    BY <2>2, FS_EmptySet DEF AutoInv, HoldInv
<1> QED
  BY <1>1, AutoInvariance, PTL DEF AutoSpec, SuspensionCounts

\* The loop starts at most one park a day, also when the mount is taken out of its park within
\* the minute and when clients move it meanwhile; a second one follows a reconnection after which
\* the loop has not parked yet.
THEOREM ParkIsOncePerDay == AutoSpec => ParksOnce
<1>1. AutoInv /\ [AutoNext]_vars => [Wake /\ slot' # slot => ~parkedToday \/ "park" \in forgot]_vars
  BY DEF AutoInv, ParkInv, Wake, workVars
<1> QED
  BY <1>1, AutoInvariance, PTL DEF AutoSpec, ParksOnce

\* The horizon action is taken once for each time the mount sinks, also when the mount moves
\* between the status that is read and the action it leads to; a second one follows a
\* reconnection after which the loop has not acted yet.
THEOREM HorizonActsOnce == AutoSpec => ActsOncePerCrossing
<1>1. AutoInv /\ [AutoNext]_vars
        => [Look /\ (auto' = "tracking" \/ slot' # slot) => climbed \/ "horizon" \in forgot]_vars
  BY DEF AutoInv, HorizonInv, Look, HorizonReached, FlipSection, workVars
<1> QED
  BY <1>1, AutoInvariance, PTL DEF AutoSpec, ActsOncePerCrossing
=============================================================================
