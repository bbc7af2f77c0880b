----------------------------- MODULE MountMove ------------------------------
(***************************************************************************)
(* Hand nudges of one mount: MountManager.start_move and stop_move, the    *)
(* lock that orders them and the lease that ends a nudge nobody renewed    *)
(* (mount/manager.py).                                                     *)
(*                                                                         *)
(* Clients and leases are the actors that take the lock, in the order in   *)
(* which they asked for it.  The driver's calls are the only suspensions   *)
(* inside it.  The order of the waiters is kept as the set of actors each  *)
(* one is behind.  An axis of the mount makes the last motion it was told to.  *)
(***************************************************************************)
EXTENDS FiniteSets

CONSTANTS
  Clients,     \* callers of start_move and stop_move
  Leases,      \* identities for the lease tasks
  NoOne,
  Directions, Axes,
  AxisOf,      \* the axis a direction moves
  Rates,
  Still,       \* no rate: the axis does not move that way
  Timed,       \* whether a start may carry a duration, may not, or both
  Emergency,   \* MountManager.stop() is used too
  MoveFaults   \* "driver": the driver's calls may fail

ASSUME ActorsAssumption == Clients \cap Leases = {} /\ NoOne \notin Clients \cup Leases
ASSUME MotionAssumption ==
  /\ AxisOf \in [Directions -> Axes]
  /\ Still \notin Rates
  /\ Timed \subseteq BOOLEAN

VARIABLES
  asked,     \* each client's call: none, or a start or a stop
  stage,     \* each actor: "none", "sleep" (a lease), "wait" for the lock, "lock", "driver"
  behind,    \* for an actor that waits for the lock: who waits before it
  holder,    \* who has it
  moving,    \* _moving: the rate each direction was started at
  lease,     \* _move_leases: the lease that will end the motion
  motion,    \* what the mount does: the rate of each direction
  ahead,     \* history: the starts a stop was called after, still under way
  loose      \* history: the motion was asked for without a duration, or would not stop

moveVars == <<asked, stage, behind, holder, moving, lease, motion, ahead, loose>>

Actors == Clients \cup Leases
NoCall == [op |-> "none"]
StartCalls == [op: {"start"}, dir: Directions, rate: Rates, timed: Timed]
StopCall == [op |-> "stop"]

AllStill == [d \in Directions |-> Still]
Stands == motion = AllStill

TypeOK ==
  /\ asked \in [Clients -> StartCalls \cup {NoCall, StopCall}]
  /\ stage \in [Actors -> {"none", "sleep", "wait", "lock", "driver"}]
  /\ behind \in [Actors -> SUBSET Actors]
  /\ holder \in Actors \cup {NoOne}
  /\ moving \in [Directions -> Rates \cup {Still}]
  /\ lease \in Leases \cup {NoOne}
  /\ motion \in [Directions -> Rates \cup {Still}]
  /\ ahead \in [Clients -> SUBSET Clients]
  /\ loose \in BOOLEAN

Init ==
  /\ asked = [c \in Clients |-> NoCall]
  /\ stage = [a \in Actors |-> "none"]
  /\ behind = [a \in Actors |-> {}] /\ holder = NoOne
  /\ moving = AllStill /\ motion = AllStill
  /\ lease = NoOne
  /\ ahead = [c \in Clients |-> {}]
  /\ loose = FALSE

Starting == {c \in Clients : asked[c].op = "start"}

\* The actor a asks for the lock.
Queue(a) ==
  /\ stage' = [stage EXCEPT ![a] = "wait"]
  /\ behind' = [behind EXCEPT ![a] = {b \in Actors : stage[b] = "wait"}]

\* The actors of S no longer wait.
Unqueue(S) == behind' = [a \in Actors |-> IF a \in S THEN {} ELSE behind[a] \ S]

\* A client calls start_move or stop_move.
Call(c, request) ==
  /\ asked[c] = NoCall
  /\ asked' = [asked EXCEPT ![c] = request]
  /\ Queue(c)
  /\ ahead' = [ahead EXCEPT ![c] = IF request = StopCall THEN Starting ELSE {}]
  /\ UNCHANGED <<holder, moving, lease, motion, loose>>

\* asyncio.sleep(seconds) is over: the lease asks for the lock.
LeaseExpires(l) ==
  /\ stage[l] = "sleep"
  /\ Queue(l)
  /\ UNCHANGED <<asked, holder, moving, lease, motion, ahead, loose>>

\* Seeded fault: a stop overtakes what waits for the lock.
AcquireStopFirst(a) ==
  /\ stage[a] = "wait"
  /\ holder = NoOne
  /\ behind[a] = {} \/ (a \in Clients /\ asked[a] = StopCall)
  /\ holder' = a
  /\ stage' = [stage EXCEPT ![a] = "lock"]
  /\ Unqueue({a})
  /\ UNCHANGED <<asked, moving, lease, motion, ahead, loose>>

\* The lock goes to whoever asked first.
Acquire(a) ==
  /\ stage[a] = "wait"
  /\ holder = NoOne /\ behind[a] = {}
  /\ holder' = a
  /\ stage' = [stage EXCEPT ![a] = "lock"]
  /\ Unqueue({a})
  /\ UNCHANGED <<asked, moving, lease, motion, ahead, loose>>

\* The lock is released by a, whose call is over; a lease that stopped the mount ends.
Release(a) ==
  /\ holder' = NoOne
  /\ asked' = [c \in Clients |-> IF c = a THEN NoCall ELSE asked[c]]
  /\ ahead' = [c \in Clients |-> IF c = a THEN {} ELSE ahead[c] \ {a}]

IdleLeases == {l \in Leases : stage[l] = "none"}

\* Seeded fault: a start cancels the lease and sets no new one.
EndStartUnleased(c) ==
  /\ Unqueue({lease})
  /\ loose' = ~asked[c].timed
  /\ lease' = NoOne
  /\ stage' = [a \in Actors |-> IF a \in {c, lease} THEN "none" ELSE stage[a]]
  /\ Release(c)

\* Seeded fault: the lease before is not cancelled.
EndStartKeepsLease(c) ==
  \E l \in IdleLeases :
    /\ UNCHANGED behind
    /\ loose' = ~asked[c].timed
    /\ lease' = IF asked[c].timed THEN l ELSE NoOne
    /\ stage' = [a \in Actors |-> IF a = c THEN "none" ELSE IF a = lease' THEN "sleep" ELSE stage[a]]
    /\ Release(c)

\* The end of start_move: the lease is cancelled, and a new one set for a timed start.
EndStart(c) ==
  \E l \in IdleLeases :
    /\ Unqueue({lease})
    /\ loose' = ~asked[c].timed
    /\ lease' = IF asked[c].timed THEN l ELSE NoOne
    /\ stage' = [a \in Actors |-> IF a \in {c, lease} THEN "none"
                                  ELSE IF a = lease' THEN "sleep" ELSE stage[a]]
    /\ Release(c)

\* A renewal does not touch the driver.
Renew(c) ==
  /\ stage[c] = "lock" /\ asked[c].op = "start"
  /\ moving[asked[c].dir] = asked[c].rate
  /\ EndStart(c)
  /\ UNCHANGED <<moving, motion>>

BeginStart(c) ==
  /\ stage[c] = "lock" /\ asked[c].op = "start"
  /\ moving[asked[c].dir] # asked[c].rate
  /\ stage' = [stage EXCEPT ![c] = "driver"]
  /\ UNCHANGED <<asked, behind, holder, moving, lease, motion, ahead, loose>>

\* mount.start_move() answered: the axis moves this way now, whatever it did.
MountStarts(c) ==
  /\ stage[c] = "driver" /\ asked[c].op = "start"
  /\ LET d == asked[c].dir IN
       /\ motion' = [e \in Directions |-> IF e = d THEN asked[c].rate
                                          ELSE IF AxisOf[e] = AxisOf[d] THEN Still ELSE motion[e]]
       /\ moving' = [moving EXCEPT ![d] = asked[c].rate]
  /\ EndStart(c)

\* The driver refused (an unknown rate, a limit) or failed: the lease before stays.
StartFails(c) ==
  /\ "driver" \in MoveFaults
  /\ stage[c] = "driver" /\ asked[c].op = "start"
  /\ stage' = [stage EXCEPT ![c] = "none"]
  /\ Release(c)
  /\ UNCHANGED <<behind, moving, lease, motion, loose>>

\* stop_move, called by a client or by the lease itself.
Stopper(a) == a \in Leases \cup {c \in Clients : asked[c] = StopCall}

BeginStop(a) ==
  /\ stage[a] = "lock" /\ Stopper(a)
  /\ Unqueue({lease})
  /\ lease' = NoOne
  /\ moving' = AllStill
  /\ stage' = [x \in Actors |-> IF x = a THEN "driver" ELSE IF x = lease THEN "none" ELSE stage[x]]
  /\ UNCHANGED <<asked, holder, motion, ahead, loose>>

\* mount.stop_move() answered, or failed.
MountStops(a) ==
  /\ stage[a] = "driver" /\ Stopper(a)
  /\ motion' \in IF "driver" \in MoveFaults THEN {AllStill, motion} ELSE {AllStill}
  /\ loose' = (motion' # AllStill)
  /\ stage' = [stage EXCEPT ![a] = "none"]
  /\ Release(a)
  /\ UNCHANGED <<behind, moving, lease>>

\* MountManager.stop() halts the motors and knows nothing of nudges.
EmergencyStop ==
  /\ Emergency
  /\ motion' = AllStill
  /\ UNCHANGED <<asked, stage, behind, holder, moving, lease, ahead, loose>>

ClientCalls(c) == \E request \in StartCalls \cup {StopCall} : Call(c, request)

ActorStep(a) ==
  \/ Acquire(a)
  \/ a \in Clients /\ (Renew(a) \/ BeginStart(a) \/ MountStarts(a) \/ StartFails(a))
  \/ BeginStop(a) \/ MountStops(a)

Next ==
  \/ \E c \in Clients : ClientCalls(c)
  \/ \E l \in Leases : LeaseExpires(l)
  \/ \E a \in Actors : ActorStep(a)
  \/ EmergencyStop

Spec == Init /\ [][Next]_moveVars

\* The driver answers, timers fire and the lock is handed on; clients may vanish.
FairSpec ==
  /\ Spec
  /\ \A a \in Actors : WF_moveVars(ActorStep(a))
  /\ \A l \in Leases : WF_moveVars(LeaseExpires(l))

-----------------------------------------------------------------------------
\* While the lock is free a mount that moves has a lease that will end the motion,
\* unless the last nudge asked for none or the mount would not stop (start_move: "a
\* client that vanishes cannot leave the mount running").
MotionHasLease ==
  holder = NoOne /\ ~Stands /\ ~loose => lease # NoOne /\ stage[lease] \in {"sleep", "wait"}

\* A lease that is not over ends the nudge it was set for, and no newer one.
LeaseIsCurrent == \A l \in Leases : stage[l] \in {"sleep", "wait"} => l = lease

\* A stop is not over before every start called before it is ("a quick click's stop
\* can never overtake its start").
StopNotOvertaken == \A c \in Clients : stage[c] = "driver" /\ asked[c] = StopCall => ahead[c] = {}

\* When every client has gone the mount comes to a stand, with the same exceptions.
VanishedClientsStop == <>[](\A c \in Clients : asked[c] = NoCall) => <>[](Stands \/ loose)

\* Once start_move has returned the mount moves that way at that rate (start_move:
\* "Start continuous directional motion at the given slew rate").
NudgeMoves ==
  [][\A c \in Clients : asked[c].op = "start" /\ asked'[c] = NoCall /\ ~StartFails(c)
       => motion'[asked[c].dir] = asked[c].rate]_moveVars
=============================================================================
