---------------------------- MODULE MountManager ----------------------------
(***************************************************************************)
(* The operations of one mount: MountManager.slew, park, meridian_flip and *)
(* stop, and the worker tasks they create (mount/manager.py).              *)
(*                                                                         *)
(* An operation that moves the mount for a while is a worker task kept in  *)
(* the controller's one slot (_active_task); the mount is busy while that  *)
(* task is not done.  Everything runs on one event loop, so a step is what *)
(* happens between two suspensions: slew() and park() check and create     *)
(* their worker in one step, meridian_flip() asks the mount for its status *)
(* between the check and the creation, stop() waits for the worker it      *)
(* cancelled and then for the mount.                                       *)
(*                                                                         *)
(* A worker identity is used again once nothing refers to it, so that the  *)
(* number of operations over time is not bounded.                          *)
(***************************************************************************)
EXTENDS Naturals, FiniteSets

CONSTANTS
  Callers,   \* clients of the manager: API requests, the sequencer, the wizard
  Workers,   \* identities for the worker tasks alive or referred to at once
  NoWorker,
  Ops        \* the operations clients use (an environment choice)

ASSUME WorkerAssumption == NoWorker \notin Workers

VARIABLES
  slot,       \* ctrl._active_task: the last worker stored there, or NoWorker
  job,        \* the motion each worker is there for, "none" once it is done
  work,       \* "done" (or never made), "created" (not started yet), "driving"
  cancelled,  \* the workers whose cancellation is requested and not yet over
  call,       \* where each client is inside its call
  aim,        \* the worker a client's stop() cancelled
  motor,      \* the motion the mount is executing, or "none"
  adrift,     \* history: live workers that were put out of the slot
  found       \* history: what a client's stop() found under way and has not ended yet

workVars == <<slot, job, work, cancelled, adrift, found>>
callVars == <<call, aim>>
mountVars == <<workVars, callVars, motor>>

Motions == {"slew", "park", "flip"}
Live == {w \in Workers : work[w] # "done"}
\* MountController.is_busy
IsBusy == slot \in Live

Unused == Workers \ (Live \cup {slot} \cup {aim[c] : c \in Callers})

MountTypeOK ==
  /\ slot \in Workers \cup {NoWorker}
  /\ job \in [Workers -> Motions \cup {"none"}]
  /\ work \in [Workers -> {"done", "created", "driving"}]
  /\ cancelled \subseteq Live
  /\ call \in [Callers -> {"none", "flip", "stopWait", "stopMount"}]
  /\ aim \in [Callers -> Workers \cup {NoWorker}]
  /\ motor \in Motions \cup {"none"}
  /\ adrift \subseteq Live
  /\ found \in [Callers -> SUBSET Live]

MountInit ==
  /\ slot = NoWorker
  /\ job = [w \in Workers |-> "none"]
  /\ work = [w \in Workers |-> "done"]
  /\ cancelled = {}
  /\ call = [c \in Callers |-> "none"]
  /\ aim = [c \in Callers |-> NoWorker]
  /\ motor = "none"
  /\ adrift = {} /\ found = [c \in Callers |-> {}]

\* ctrl._active_task = asyncio.create_task(worker)
Create(k) ==
  /\ \E w \in Unused :
       /\ slot' = w
       /\ job' = [job EXCEPT ![w] = k]
       /\ work' = [work EXCEPT ![w] = "created"]
  /\ UNCHANGED <<cancelled, found>>

\* Whatever is under way in the slot is no longer found there.
PutOut == IF IsBusy THEN adrift \cup {slot} ELSE adrift

\* Seeded fault: a busy mount is not refused.
StartUnchecked(c, k) ==
  /\ k \in Ops \ {"flip"}
  /\ call[c] = "none"
  /\ Create(k)
  /\ UNCHANGED <<callVars, motor, adrift>>

\* slew() and park(): _require_idle, then the worker, without suspending.
Start(c, k) ==
  /\ k \in Ops \ {"flip"}
  /\ call[c] = "none"
  /\ ~IsBusy
  /\ Create(k)
  /\ UNCHANGED <<callVars, motor, adrift>>

\* meridian_flip(): _require_idle, then the mount is asked for its status.
AskFlip(c) ==
  /\ "flip" \in Ops
  /\ call[c] = "none"
  /\ ~IsBusy
  /\ call' = [call EXCEPT ![c] = "flip"]
  /\ UNCHANGED <<workVars, aim, motor>>

\* The status came, and a flip is due or the pier side is not known: the worker is
\* created, whatever the slot holds by now.
CreateFlip == Create("flip") /\ adrift' = PutOut

BeginFlip(c) ==
  /\ call[c] = "flip"
  /\ call' = [call EXCEPT ![c] = "none"]
  /\ CreateFlip
  /\ UNCHANGED <<aim, motor>>

\* The status call failed, or the mount is on its normal side.
RefuseFlip(c) ==
  /\ call[c] = "flip"
  /\ call' = [call EXCEPT ![c] = "none"]
  /\ UNCHANGED <<workVars, aim, motor>>

\* stop(): the worker in the slot is cancelled and awaited.
Stop(c) ==
  /\ "stop" \in Ops
  /\ call[c] = "none"
  /\ IF IsBusy
     THEN /\ cancelled' = cancelled \cup {slot}
          /\ aim' = [aim EXCEPT ![c] = slot]
          /\ call' = [call EXCEPT ![c] = "stopWait"]
     ELSE /\ call' = [call EXCEPT ![c] = "stopMount"]
          /\ aim' = [aim EXCEPT ![c] = NoWorker]
          /\ UNCHANGED cancelled
  /\ found' = [found EXCEPT ![c] = Live \ adrift]
  /\ UNCHANGED <<slot, job, work, motor, adrift>>

\* Seeded fault: stop() waits until the mount is idle, not for its worker.
StopAwaitsIdle(c) ==
  /\ call[c] = "stopWait"
  /\ ~IsBusy
  /\ slot' = NoWorker /\ adrift' = PutOut
  /\ call' = [call EXCEPT ![c] = "stopMount"]
  /\ UNCHANGED <<job, work, cancelled, found, aim, motor>>

\* stop() wakes after the worker is done, and empties the slot whoever is in it.
StopWakes(c) ==
  /\ call[c] = "stopWait"
  /\ aim[c] \notin Live
  /\ slot' = NoWorker /\ adrift' = PutOut
  /\ call' = [call EXCEPT ![c] = "stopMount"]
  /\ UNCHANGED <<job, work, cancelled, found, aim, motor>>

\* The mount's own stop, at most 10 s: a failure is only logged.
StopMount(c) ==
  /\ call[c] = "stopMount"
  /\ call' = [call EXCEPT ![c] = "none"]
  /\ motor' \in {motor, "none"}
  /\ aim' = [aim EXCEPT ![c] = NoWorker]
  /\ UNCHANGED workVars

\* The worker's first step: the driver is told to move, in place of what it did.
WorkerDrives(w) ==
  /\ work[w] = "created" /\ w \notin cancelled
  /\ work' = [work EXCEPT ![w] = "driving"]
  /\ motor' = job[w]
  /\ UNCHANGED <<slot, job, cancelled, adrift, found, callVars>>

Done(w) ==
  /\ work' = [work EXCEPT ![w] = "done"]
  /\ job' = [job EXCEPT ![w] = "none"]
  /\ cancelled' = cancelled \ {w}
  /\ found' = [c \in Callers |-> found[c] \ {w}]

\* Every way a worker that was driving ends goes through its finally clause,
\* which empties the slot whoever is in it.
Ends(w) == Done(w) /\ slot' = NoWorker /\ adrift' = PutOut \ {w}

\* The driver saw the mount arrive or stand still.
WorkerReturns(w) ==
  /\ work[w] = "driving" /\ w \notin cancelled
  /\ motor = "none"
  /\ Ends(w)
  /\ UNCHANGED <<callVars, motor>>

\* Seeded fault: no limit on how long the driver may take.
WaitsForever(w) == FALSE /\ UNCHANGED mountVars

\* The driver failed, or SLEW_TIMEOUT / PARK_TIMEOUT passed: the mount may still move.
WorkerGivesUp(w) ==
  /\ work[w] = "driving" /\ w \notin cancelled
  /\ Ends(w)
  /\ UNCHANGED <<callVars, motor>>

\* The cancellation reaches a driving worker; a driver may stop the motors or not.
WorkerCancelled(w) ==
  /\ work[w] = "driving" /\ w \in cancelled
  /\ Ends(w)
  /\ motor' \in {motor, "none"}
  /\ UNCHANGED callVars

\* A worker cancelled before its first step never runs, its finally clause neither.
WorkerNeverRuns(w) ==
  /\ work[w] = "created" /\ w \in cancelled
  /\ Done(w)
  /\ adrift' = adrift \ {w}
  /\ UNCHANGED <<slot, callVars, motor>>

\* The mount reaches the end of the motion it was told to make.
MotorArrives ==
  /\ motor # "none"
  /\ motor' = "none"
  /\ UNCHANGED <<workVars, callVars>>

ClientStep ==
  \E c \in Callers :
    \/ \E k \in Motions : Start(c, k)
    \/ AskFlip(c) \/ BeginFlip(c) \/ RefuseFlip(c)
    \/ Stop(c) \/ StopWakes(c) \/ StopMount(c)

WorkerStep ==
  \E w \in Workers :
    \/ WorkerDrives(w) \/ WorkerReturns(w) \/ WorkerGivesUp(w)
    \/ WorkerCancelled(w) \/ WorkerNeverRuns(w)

MountNext == ClientStep \/ WorkerStep \/ MotorArrives

MountSpec == MountInit /\ [][MountNext]_mountVars

\* The event loop runs what is ready, wait_for() limits a worker and the mount's
\* stop; nothing says when clients call or that the mount ever arrives.
MountFairness ==
  /\ \A w \in Workers : /\ WF_mountVars(WorkerDrives(w))
                        /\ WF_mountVars(WorkerGivesUp(w))
                        /\ WF_mountVars(WorkerCancelled(w) \/ WorkerNeverRuns(w))
  /\ \A c \in Callers : /\ WF_mountVars(BeginFlip(c) \/ RefuseFlip(c))
                        /\ WF_mountVars(StopWakes(c) \/ StopMount(c))

FairMountSpec == MountSpec /\ MountFairness

-----------------------------------------------------------------------------
\* When stop() goes on to halt the mount itself, every operation that was under way when it
\* was called is over and will not command the mount again, whatever clients have asked for
\* while it waited: it cancels one worker, and relies on all requests to keep to the one slot
\* (manager.py 201-213).  Excepted are the operations put out of the slot: by a flip that was
\* asked for before they began, by a stop() that waited while they began, and by the end of
\* one that was put out itself.
StopEndsWhatItFinds == \A c \in Callers : call[c] = "stopMount" => found[c] = {}

\* Every operation ends, whatever the driver does, and the mount is free again
\* (the timeouts of the three workers).
OperationsEnd == \A w \in Workers : w \in Live ~> w \notin Live

\* stop() always gets to the mount's own stop and returns, however the operation
\* it cancelled behaves and whatever else is asked meanwhile.
StopReturns == \A c \in Callers : call[c] \in {"stopWait", "stopMount"} ~> call[c] = "none"

\* slew(), park() and meridian_flip() refuse a busy mount, so one operation at
\* most drives it (_require_idle).
OneOperation == Cardinality(Live) <= 1

\* The operation under way is the one in the slot, where stop() finds it and where
\* the next request sees that the mount is busy.
LiveIsInSlot == \A w \in Live : w = slot
=============================================================================
