------------------------------ MODULE Focusing ------------------------------
(***************************************************************************)
(* One focuser and the two that command it: the focuser manager            *)
(* (focuser/manager.py: move_to, move_by, halt) and the autofocus engine   *)
(* (plugins/autofocus/engine.py: start, focus, abort and the run itself).  *)
(*                                                                         *)
(* The motor belongs to the driver (devices/indi/focuser.py): a command    *)
(* replaces the one before it, a wait for a move ends when the motor is    *)
(* still, and a wait that is cancelled or times out leaves the motor going.*)
(* A driver may fail: a command is not sent or ends in Alert, or the motor *)
(* is not seen to move in time, and the wait returns as if it had arrived. *)
(* Where a sweep goes and what is measured there is a choice.  A position  *)
(* read while the motor moves may be any.                                  *)
(***************************************************************************)
EXTENDS Naturals, FiniteSets

CONSTANTS
  Clients,   \* concurrent callers: the API, lanes of the sequencer
  Runs,      \* identities for the autofocus runs alive or referred to at once
  Workers,   \* the same for the manager's moves
  Positions,
  Zero,      \* the position 0
  None,
  Faults     \* "driver": the focuser's driver may fail

ASSUME FocusingAssumption ==
  /\ Zero \in Positions /\ None \notin Positions \cup Runs \cup Workers \cup Clients
  /\ Runs \cap Workers = {}

VARIABLES
  pos,       \* where the focuser stands, or stood when it was last still
  goal,      \* where the motor is going, or None
  by,        \* history: the run in _task, if the last to command or halt the motor was that run, or None
  astray,    \* history: the driver failed that command, its wait or the next one
  task,      \* _task of the engine, or None
  run,       \* where each run is
  status,    \* AutofocusRun.status
  home,      \* restore_to
  want,      \* where each run has sent the focuser last
  cancelled, \* the runs and workers whose cancellation is requested and not yet delivered
  slot,      \* _active_task of the focuser's controller, or None
  worker,    \* where each move of the manager is
  call       \* where each client is, and the task it waits for

motorVars == <<pos, goal, by, astray>>
runVars == <<task, run, status, home, want>>
workerVars == <<slot, worker>>
vars == <<motorVars, runVars, workerVars, cancelled, call>>

NoCall == [at |-> "none", on |-> None]
LiveRuns == {r \in Runs : run[r] # "none"}
LiveWorkers == {w \in Workers : worker[w] # "none"}
Live == LiveRuns \cup LiveWorkers
Awaited == {call[c].on : c \in Clients}
UnusedRuns == Runs \ (LiveRuns \cup Awaited \cup {task})
UnusedWorkers == Workers \ (LiveWorkers \cup Awaited \cup {slot})

FocusTypeOK ==
  /\ pos \in Positions /\ goal \in Positions \cup {None} /\ by \in Runs \cup {None}
  /\ astray \in BOOLEAN
  /\ task \in Runs \cup {None} /\ cancelled \subseteq Live
  /\ run \in [Runs -> {"none", "created", "status", "move", "expose", "final", "restore"}]
  /\ status \in [Runs -> {"none", "running", "completed", "aborted", "failed"}]
  /\ home \in [Runs -> Positions \cup {None}] /\ want \in [Runs -> Positions \cup {None}]
  /\ \A r \in Runs : run[r] = "restore" => status[r] \in {"aborted", "failed"} /\ home[r] # None
  /\ slot \in Workers \cup {None} /\ worker \in [Workers -> {"none", "created", "move"}]
  /\ \A c \in Clients : call[c].at \in {"none", "moveBy", "halt", "focus", "abort"}
  /\ Awaited \subseteq Runs \cup Workers \cup {None}

FocusInit ==
  /\ pos \in Positions /\ goal = None /\ by = None /\ astray = FALSE
  /\ task = None /\ run = [r \in Runs |-> "none"] /\ status = [r \in Runs |-> "none"]
  /\ home = [r \in Runs |-> None] /\ want = [r \in Runs |-> None]
  /\ cancelled = {} /\ slot = None /\ worker = [w \in Workers |-> "none"]
  /\ call = [c \in Clients |-> NoCall]

-----------------------------------------------------------------------------
(* The motor. *)

DriverFails == "driver" \in Faults

\* A run or somebody else sends the focuser to p; a command for a property that is gone or disabled is not
\* sent, and nobody is told.
Commands(r, p) ==
  /\ by' = r /\ UNCHANGED pos
  /\ \/ goal' = p /\ astray' = FALSE
     \/ DriverFails /\ UNCHANGED goal /\ astray' = (r \in Runs)

\* What get_status() reads; the run takes a position that cannot be read for 0.
Readings == (IF goal = None THEN {pos} ELSE Positions) \cup {Zero}

MotorArrives ==
  /\ goal # None
  /\ pos' = goal /\ goal' = None
  /\ UNCHANGED <<by, astray, runVars, workerVars, cancelled, call>>

\* The driver refuses the move or gives it up: Alert, with the focuser anywhere.
MotorFails ==
  /\ DriverFails /\ goal # None
  /\ pos' \in Positions /\ goal' = None /\ astray' = (by # None)
  /\ UNCHANGED <<by, runVars, workerVars, cancelled, call>>

\* Run r takes its last command for carried out, or cannot send the next.
Misled(r) == astray' = (astray \/ by = r) /\ UNCHANGED <<pos, goal, by>>

\* The wait for a move ends: the driver is not Busy, or it was not within 2 s.
MoveReturns(r) ==
  \/ goal = None /\ UNCHANGED motorVars
  \/ DriverFails /\ Misled(r)

-----------------------------------------------------------------------------
(* The focuser manager. *)

Busy == slot \in LiveWorkers
Awaits(c, place, what) == call' = [call EXCEPT ![c] = [at |-> place, on |-> what]]
Returns(c) == call' = [call EXCEPT ![c] = NoCall]

\* The worker of a move, put into the slot whatever it holds.
CreatesWorker ==
  \E w \in UnusedWorkers :
    /\ slot' = w
    /\ worker' = [worker EXCEPT ![w] = "created"]

MoveTo(c) ==
  /\ call[c] = NoCall /\ ~Busy
  /\ CreatesWorker
  /\ UNCHANGED <<motorVars, runVars, cancelled, call>>

\* move_by(): the target needs the position, which is awaited after the check.
MoveBy(c) ==
  /\ call[c] = NoCall /\ ~Busy
  /\ Awaits(c, "moveBy", None)
  /\ UNCHANGED <<motorVars, runVars, workerVars, cancelled>>

MoveByGoesOn(c) ==
  /\ call[c].at = "moveBy"
  /\ CreatesWorker
  /\ Returns(c)
  /\ UNCHANGED <<motorVars, runVars, cancelled>>

\* The driver's halt, which may fail: that is only logged.
HaltsMotor ==
  \/ goal # None /\ goal' = None /\ pos' \in Positions /\ by' = None /\ astray' = FALSE
  \/ UNCHANGED motorVars

\* halt(): the worker is cancelled and awaited before the motor is halted.
Halt(c) ==
  /\ call[c] = NoCall
  /\ IF Busy
     THEN cancelled' = cancelled \cup {slot} /\ Awaits(c, "halt", slot) /\ UNCHANGED motorVars
     ELSE HaltsMotor /\ UNCHANGED <<cancelled, call>>
  /\ UNCHANGED <<runVars, workerVars>>

HaltGoesOn(c) ==
  /\ call[c].at = "halt" /\ call[c].on \notin LiveWorkers
  /\ slot' = None
  /\ HaltsMotor
  /\ Returns(c)
  /\ UNCHANGED <<runVars, worker, cancelled>>

WorkerMoves(w) ==
  /\ worker[w] = "created" /\ w \notin cancelled
  /\ worker' = [worker EXCEPT ![w] = "move"]
  /\ \E p \in Positions : Commands(None, p)
  /\ UNCHANGED <<runVars, slot, cancelled, call>>

\* The move ends, times out or fails; the slot is emptied whoever is in it.
WorkerEnds(w) ==
  /\ worker[w] = "move" /\ w \notin cancelled
  /\ worker' = [worker EXCEPT ![w] = "none"]
  /\ slot' = None
  /\ UNCHANGED <<motorVars, runVars, cancelled, call>>

\* A worker that has not begun never runs, and leaves the slot alone.
WorkerCancelled(w) ==
  /\ worker[w] # "none" /\ w \in cancelled
  /\ cancelled' = cancelled \ {w}
  /\ worker' = [worker EXCEPT ![w] = "none"]
  /\ slot' = IF worker[w] = "move" THEN None ELSE slot
  /\ UNCHANGED <<motorVars, runVars, call>>

-----------------------------------------------------------------------------
(* The autofocus engine: start, focus, abort. *)

\* The engine remembers the last run only.
CreatesRun(c, awaited) ==
  \E r \in UnusedRuns :
    /\ task' = r
    /\ run' = [run EXCEPT ![r] = "created"]
    /\ by' = None /\ astray' = FALSE /\ UNCHANGED <<pos, goal>>
    /\ status' = [q \in Runs |-> IF q = r THEN "running" ELSE IF q \in LiveRuns THEN status[q] ELSE "none"]
    /\ home' = [q \in Runs |-> IF q \in LiveRuns THEN home[q] ELSE None]
    /\ want' = [q \in Runs |-> IF q \in LiveRuns THEN want[q] ELSE None]
    /\ IF awaited THEN Awaits(c, "focus", r) ELSE UNCHANGED call

\* Seeded fault: start() looks at the status of the last run, not at its task.
StartByStatus(c) ==
  /\ call[c] = NoCall /\ IF task = None THEN TRUE ELSE status[task] # "running"
  /\ \E awaited \in BOOLEAN : CreatesRun(c, awaited)
  /\ UNCHANGED <<workerVars, cancelled>>

\* start(), or focus(), which waits for the run.
Start(c) ==
  /\ call[c] = NoCall /\ task \notin LiveRuns
  /\ \E awaited \in BOOLEAN : CreatesRun(c, awaited)
  /\ UNCHANGED <<workerVars, cancelled>>

\* Seeded fault: abort() waits for the run and does not cancel it.
AbortsLater(c) ==
  /\ IF task \in LiveRuns THEN Awaits(c, "abort", task) ELSE Returns(c)
  /\ UNCHANGED cancelled

\* abort(): whichever run is in _task.
Aborts(c) ==
  IF task \in LiveRuns
  THEN cancelled' = cancelled \cup {task} /\ Awaits(c, "abort", task)
  ELSE UNCHANGED cancelled /\ Returns(c)

Abort(c) ==
  /\ call[c] = NoCall /\ task \in LiveRuns
  /\ Aborts(c)
  /\ UNCHANGED <<motorVars, runVars, workerVars>>

\* The caller of focus() is cancelled: it aborts the run.
FocusCancelled(c) ==
  /\ call[c].at = "focus"
  /\ Aborts(c)
  /\ UNCHANGED <<motorVars, runVars, workerVars>>

RunAwaited(c) ==
  /\ call[c].at \in {"focus", "abort"} /\ call[c].on \notin LiveRuns
  /\ Returns(c)
  /\ UNCHANGED <<motorVars, runVars, workerVars, cancelled>>

-----------------------------------------------------------------------------
(* The autofocus run. *)

At(r, place) == run[r] = place /\ r \notin cancelled
Goes(r, place) == run' = [run EXCEPT ![r] = place]

Sends(r, p) == want' = [want EXCEPT ![r] = p] /\ Commands(r, p)

\* Seeded fault: only a run that fails puts the focuser back.
GivesUpSweep(r, result) ==
  /\ status' = [status EXCEPT ![r] = result]
  /\ IF home[r] = None \/ result = "aborted"
     THEN Goes(r, "none") /\ UNCHANGED <<want, motorVars>>
     ELSE Goes(r, "restore") /\ Sends(r, home[r])

\* A run that fails or is aborted: the focuser is sent back to where the run found it, if it knows;
\* when the device is gone nothing is sent, which is only logged.
GivesUp(r, result) ==
  /\ status' = [status EXCEPT ![r] = result]
  /\ \/ home[r] = None /\ Goes(r, "none") /\ UNCHANGED <<want, motorVars>>
     \/ home[r] # None /\ Goes(r, "restore") /\ Sends(r, home[r])
     \/ /\ home[r] # None /\ DriverFails
        /\ Goes(r, "none")
        /\ Misled(r) /\ UNCHANGED want

Sweeping == {"status", "move", "expose", "final"}

RunBegins(r) ==
  /\ At(r, "created")
  /\ Goes(r, "status")
  /\ UNCHANGED <<task, status, home, want, motorVars, workerVars, cancelled, call>>

\* The position is known: the first move.
StatusRead(r) ==
  /\ At(r, "status")
  /\ \E p \in Readings : home' = [home EXCEPT ![r] = p]
  /\ \E p \in Positions : Sends(r, p)
  /\ Goes(r, "move")
  /\ UNCHANGED <<task, status, workerVars, cancelled, call>>

\* Seeded fault: a move that times out is taken for one that ended.
MovedOrLate(r) ==
  /\ At(r, "move")
  /\ Goes(r, "expose")
  /\ UNCHANGED <<task, status, home, want, motorVars, workerVars, cancelled, call>>

Moved(r) ==
  /\ At(r, "move") /\ MoveReturns(r)
  /\ Goes(r, "expose")
  /\ UNCHANGED <<task, status, home, want, workerVars, cancelled, call>>

\* The next position of the sweep, or the optimum of the curve.
Measured(r) ==
  /\ At(r, "expose")
  /\ \E p \in Positions : Sends(r, p)
  /\ Goes(r, "move") \/ Goes(r, "final")
  /\ UNCHANGED <<task, status, home, workerVars, cancelled, call>>

Completes(r) ==
  /\ At(r, "final") /\ MoveReturns(r)
  /\ status' = [status EXCEPT ![r] = "completed"]
  /\ Goes(r, "none")
  /\ UNCHANGED <<task, home, want, workerVars, cancelled, call>>

\* No device, a move or an exposure that fails or times out, no stars, no curve.
RunFails(r) ==
  /\ run[r] \in Sweeping /\ r \notin cancelled
  /\ GivesUp(r, "failed")
  /\ UNCHANGED <<task, home, workerVars, cancelled, call>>

\* The focuser is back, or that failed too.
Restored(r) ==
  /\ At(r, "restore")
  /\ Goes(r, "none")
  /\ UNCHANGED <<task, status, home, want, motorVars, workerVars, cancelled, call>>

\* Aborted: before the first step nothing runs, and a restore is not waited for any longer.
RunCancelled(r) ==
  /\ r \in cancelled /\ run[r] # "none"
  /\ cancelled' = cancelled \ {r}
  /\ IF run[r] \in Sweeping
     THEN GivesUp(r, "aborted")
     ELSE Goes(r, "none") /\ UNCHANGED <<status, want, motorVars>>
  /\ UNCHANGED <<task, home, workerVars, call>>

-----------------------------------------------------------------------------
ClientStep(c) ==
  \/ MoveTo(c) \/ MoveBy(c) \/ Halt(c) \/ Start(c) \/ Abort(c) \/ FocusCancelled(c)

CallStep(c) == MoveByGoesOn(c) \/ HaltGoesOn(c) \/ RunAwaited(c)
WorkerStep(w) == WorkerMoves(w) \/ WorkerEnds(w) \/ WorkerCancelled(w)

RunStep(r) ==
  \/ RunBegins(r) \/ StatusRead(r) \/ Moved(r) \/ Measured(r) \/ Completes(r)
  \/ RunFails(r) \/ Restored(r) \/ RunCancelled(r)

FocusNext ==
  \/ \E c \in Clients : ClientStep(c) \/ CallStep(c)
  \/ \E w \in Workers : WorkerStep(w)
  \/ \E r \in Runs : RunStep(r)
  \/ MotorArrives \/ MotorFails

FocusSpec == FocusInit /\ [][FocusNext]_vars

\* The event loop runs every task that is ready; waits for the focuser end by a timeout if not by the motor.
FocusFairness ==
  /\ \A c \in Clients : WF_vars(CallStep(c))
  /\ \A w \in Workers : WF_vars(WorkerStep(w))
  /\ \A r \in Runs : WF_vars(RunStep(r))

FairFocusSpec == FocusSpec /\ FocusFairness

-----------------------------------------------------------------------------
(* Properties. *)

\* "Manages one autofocus run at a time": also while an aborted run puts the focuser back.
OneRun == LiveRuns \subseteq {task}

Heading == IF goal = None THEN pos ELSE goal

\* "A failed/aborted run always lands back where the user actually was", and a completed one at the optimum, unless
\* somebody else has commanded the focuser since or the driver failed the last command: however often and wherever
\* it is aborted.
LeavesFocuser ==
  \A r \in Runs : task = r /\ run[r] = "none" /\ by = r /\ ~astray =>
    CASE status[r] \in {"aborted", "failed"} -> Heading = home[r]
      [] status[r] = "completed" -> Heading = want[r] /\ goal = None
      [] OTHER -> FALSE

\* An autofocus exposes with the focuser still, where the run sent it, unless somebody else commanded it or the
\* driver failed the move.
ExposesInPlace ==
  \A r \in Runs : run[r] = "expose" /\ by = r /\ ~astray => goal = None /\ pos = want[r]

\* The same whatever the driver does: the run "always lands back" (engine.py 241-243), is completed only at
\* the optimum, and measures every sample at the position it is recorded for.
AlwaysLandsBack ==
  \A r \in Runs : task = r /\ run[r] = "none" /\ by = r /\ status[r] \in {"aborted", "failed"} => Heading = home[r]
CompletedAtOptimum ==
  \A r \in Runs : task = r /\ run[r] = "none" /\ by = r /\ status[r] = "completed" => pos = want[r]
MeasuresInPlace == \A r \in Runs : run[r] = "expose" /\ by = r => pos = want[r]

\* abort() and halt() return, whoever else starts, aborts or halts meanwhile.
CallsReturn == \A c \in Clients : call[c].at \in {"abort", "halt"} ~> call[c].at = "none"

\* A run that is over says how it ended.
StatusTells == \A r \in Runs : status[r] = "running" => run[r] # "none"

\* Cancelling the caller of focus() aborts its own run.
AbortsOwnRun == [][\A c \in Clients : FocusCancelled(c) /\ task \in LiveRuns => task = call[c].on]_vars

\* A run goes back to a position at which the focuser stood.
HomeIsReal == [][\A r \in Runs : home'[r] # home[r] /\ home'[r] # None => goal = None /\ home'[r] = pos]_vars

\* One move at a time, and halt() finds it.
OneMove == LiveWorkers \subseteq {slot}

\* Nobody moves the focuser during an autofocus run.
OneCommander == \A r \in Runs : run[r] \in {"move", "final"} => by = r
=============================================================================
