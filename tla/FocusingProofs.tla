--------------------------- MODULE FocusingProofs ---------------------------
(***************************************************************************)
(* Proofs about the autofocus runs of Focusing, for any number of clients, *)
(* runs, moves and positions.                                              *)
(*                                                                         *)
(* The argument: at most one run is alive, and while the motor's last      *)
(* command is a run's that the driver has not failed, the motor stands     *)
(* where the run sent it or is on its way there; a run sent back goes to   *)
(* where it found the focuser.                                             *)
(***************************************************************************)
EXTENDS Focusing, TLAPS

Placed == {"none", "created", "status", "move", "expose", "final", "restore"}

\* The part of the types that the argument uses.
RunType ==
  /\ pos \in Positions /\ (goal # None => goal \in Positions)
  /\ by \in Runs \cup {None} /\ astray \in BOOLEAN
  /\ task \in Runs \cup {None}
  /\ run \in [Runs -> Placed]
  /\ status \in [Runs -> {"none", "running", "completed", "aborted", "failed"}]
  /\ home \in [Runs -> Positions \cup {None}] /\ want \in [Runs -> Positions \cup {None}]

\* The motor is where run r sent it, or on its way.
Obeys(r) == IF goal = None THEN pos = want[r] ELSE goal = want[r]

\* Run r commanded the motor last, and the driver has done what it could.
Commanded(r) == by = r /\ ~astray

\* What is known of a run at each place.
RunInv(r) ==
  /\ run[r] \in {"created", "status"} => by # r /\ home[r] = None
  /\ run[r] \in {"move", "expose", "final"} => home[r] # None /\ (Commanded(r) => Obeys(r))
  /\ run[r] = "expose" /\ Commanded(r) => goal = None
  /\ run[r] = "restore" =>
       status[r] \in {"aborted", "failed"} /\ want[r] = home[r] /\ (Commanded(r) => Obeys(r))
  /\ run[r] = "none" /\ task = r /\ Commanded(r) =>
       /\ status[r] \in {"aborted", "failed", "completed"}
       /\ status[r] \in {"aborted", "failed"} => want[r] = home[r] /\ Obeys(r)
       /\ status[r] = "completed" => goal = None /\ Obeys(r)

IInv == RunType /\ OneRun /\ \A r \in Runs : RunInv(r)

-----------------------------------------------------------------------------
LEMMA InitIInv == FocusInit => IInv
  BY FocusingAssumption
  DEF FocusInit, IInv, RunType, Placed, OneRun, LiveRuns, RunInv, Commanded, Obeys

\* Steps that leave the runs and the motor alone.
LEMMA StutterRuns ==
  ASSUME IInv, UNCHANGED <<motorVars, runVars>>
  PROVE  IInv'
  BY DEF IInv, motorVars, runVars, RunType, OneRun, LiveRuns, RunInv, Commanded, Obeys

\* The motor is commanded by somebody else, or halted.
LEMMA OthersCommand ==
  ASSUME IInv, by' = None, astray' \in BOOLEAN, pos' \in Positions, goal' \in Positions \cup {None},
         UNCHANGED runVars
  PROVE  IInv'
  BY FocusingAssumption DEF IInv, runVars, RunType, OneRun, LiveRuns, RunInv, Commanded, Obeys

LEMMA HaltStep ==
  ASSUME IInv, HaltsMotor, UNCHANGED runVars
  PROVE  IInv'
<1>1. CASE goal' = None /\ by' = None /\ pos' \in Positions /\ astray' = FALSE
  BY <1>1, OthersCommand
<1>2. CASE UNCHANGED motorVars
  BY <1>2, StutterRuns
<1> QED
  BY <1>1, <1>2 DEF HaltsMotor

\* Somebody else's command.
LEMMA CommandStep ==
  ASSUME IInv, NEW p \in Positions, Commands(None, p), UNCHANGED runVars
  PROVE  IInv'
<1>1. by' = None /\ UNCHANGED pos /\ goal' \in {goal, p}
  BY DEF Commands
<1>2. CASE astray' = FALSE
  BY <1>1, <1>2, OthersCommand DEF IInv, RunType
<1>3. CASE astray' = (None \in Runs)
  <2>1. astray' \in BOOLEAN
    BY <1>3
  <2> QED
    BY <1>1, <2>1, OthersCommand DEF IInv, RunType
<1> QED
  BY <1>2, <1>3, Zenon DEF Commands

LEMMA ManagerStep ==
  ASSUME IInv,
         \/ \E c \in Clients : MoveTo(c) \/ MoveBy(c) \/ MoveByGoesOn(c) \/ Halt(c) \/ HaltGoesOn(c)
         \/ \E w \in Workers : WorkerStep(w)
  PROVE  IInv'
<1>1. ASSUME NEW c \in Clients, MoveTo(c) \/ MoveBy(c) \/ MoveByGoesOn(c) PROVE IInv'
  BY <1>1, StutterRuns DEF MoveTo, MoveBy, MoveByGoesOn
<1>2. ASSUME NEW c \in Clients, Halt(c) \/ HaltGoesOn(c) PROVE IInv'
  <2>1. UNCHANGED runVars /\ (HaltsMotor \/ UNCHANGED motorVars)
    BY <1>2 DEF Halt, HaltGoesOn
  <2> QED
    BY <2>1, HaltStep, StutterRuns
<1>3. ASSUME NEW w \in Workers, WorkerMoves(w) PROVE IInv'
  BY <1>3, CommandStep DEF WorkerMoves
<1>4. ASSUME NEW w \in Workers, WorkerEnds(w) \/ WorkerCancelled(w) PROVE IInv'
  BY <1>4, StutterRuns DEF WorkerEnds, WorkerCancelled
<1> QED
  BY <1>1, <1>2, <1>3, <1>4 DEF WorkerStep

-----------------------------------------------------------------------------
(* Runs *)

\* A new run is created with none alive, and is nobody the motor knows.
LEMMA StartStep ==
  ASSUME IInv, NEW c \in Clients, Start(c)
  PROVE  IInv'
<1>1. PICK r \in UnusedRuns :
        /\ task' = r
        /\ run' = [run EXCEPT ![r] = "created"]
        /\ status' = [q \in Runs |-> IF q = r THEN "running" ELSE IF q \in LiveRuns THEN status[q] ELSE "none"]
        /\ home' = [q \in Runs |-> IF q \in LiveRuns THEN home[q] ELSE None]
        /\ want' = [q \in Runs |-> IF q \in LiveRuns THEN want[q] ELSE None]
  BY DEF Start, CreatesRun
<1>2. r \in Runs /\ by' = None /\ astray' = FALSE /\ UNCHANGED <<pos, goal>> /\ None \notin Runs
  BY FocusingAssumption DEF UnusedRuns, Start, CreatesRun
<1>3. \A q \in Runs : run[q] = "none"
  BY DEF Start, IInv, OneRun, LiveRuns
<1>4. RunType'
  BY <1>1, <1>2 DEF IInv, RunType, Placed
<1>5. \A q \in Runs : run'[q] # "none" => q = r
  BY <1>1, <1>2, <1>3 DEF IInv, RunType
<1>6. OneRun'
  BY <1>1, <1>5 DEF OneRun, LiveRuns
<1>7. ASSUME NEW q \in Runs PROVE RunInv(q)'
  <2>1. CASE q = r
    BY <1>1, <1>2, <1>3, <2>1 DEF IInv, RunType, RunInv, LiveRuns
  <2>2. CASE q # r
    BY <1>1, <1>2, <1>5, <2>2 DEF RunInv
  <2> QED
    BY <2>1, <2>2
<1> QED
  BY <1>4, <1>6, <1>7 DEF IInv

\* A step of run r: what it does to itself is what has to be shown, for it is the only one alive.
LEMMA OwnStep ==
  ASSUME IInv, NEW r \in Runs, run[r] # "none", RunType', UNCHANGED task,
         \A q \in Runs : q # r => run'[q] = run[q], RunInv(r)'
  PROVE  IInv'
<1>1. task = r /\ \A q \in Runs : q # r => run[q] = "none"
  BY DEF IInv, OneRun, LiveRuns
<1>2. OneRun'
  BY <1>1 DEF OneRun, LiveRuns
<1>3. ASSUME NEW q \in Runs PROVE RunInv(q)'
  BY <1>1 DEF RunInv
<1> QED
  BY <1>2, <1>3 DEF IInv

LEMMA GivesUpStep ==
  ASSUME IInv, NEW r \in Runs, run[r] \in Sweeping, NEW result \in {"aborted", "failed"},
         GivesUp(r, result), UNCHANGED <<task, home>>
  PROVE  IInv'
<1>1. status' = [status EXCEPT ![r] = result]
  BY DEF GivesUp
<1>2. CASE home[r] = None /\ Goes(r, "none") /\ UNCHANGED <<want, motorVars>>
  <2>1. Goes(r, "none") /\ UNCHANGED <<want, motorVars>>
    BY <1>2
  <2>2. RunType'
    BY <1>1, <2>1 DEF IInv, RunType, Goes, motorVars, Placed
  <2>3. by # r
    BY <1>2 DEF IInv, RunInv, Sweeping
  <2>4. RunInv(r)'
    BY <1>1, <2>1, <2>3 DEF IInv, RunType, RunInv, Commanded, Goes, motorVars
  <2> QED
    BY <2>1, <2>2, <2>4, OwnStep DEF IInv, RunType, Goes, Sweeping
<1>3. CASE home[r] # None /\ Goes(r, "restore") /\ Sends(r, home[r])
  <2>1. Goes(r, "restore") /\ want' = [want EXCEPT ![r] = home[r]] /\ Commands(r, home[r])
    BY <1>3 DEF Sends
  <2>2. home[r] \in Positions
    BY <1>3 DEF IInv, RunType
  <2>3. RunType'
    BY <1>1, <2>1, <2>2 DEF IInv, RunType, Goes, Commands, Placed
  <2>4. RunInv(r)'
    BY <1>1, <1>3, <2>1, <2>2, FocusingAssumption DEF IInv, RunType, RunInv, Commanded, Obeys, Goes, Commands
  <2> QED
    BY <2>1, <2>3, <2>4, OwnStep DEF IInv, RunType, Goes, Sweeping
<1>4. CASE home[r] # None /\ Goes(r, "none") /\ Misled(r) /\ UNCHANGED want
  <2>1. RunType'
    BY <1>1, <1>4 DEF IInv, RunType, Goes, Misled, Placed
  <2>2. RunInv(r)'
    BY <1>1, <1>4 DEF IInv, RunType, RunInv, Commanded, Goes, Misled
  <2> QED
    BY <1>4, <2>1, <2>2, OwnStep DEF IInv, RunType, Goes, Sweeping
<1> QED
  BY <1>2, <1>3, <1>4 DEF GivesUp

\* A run whose wait is over has only moved the focuser if the driver did not fail.
LEMMA MoveReturnsKeeps ==
  ASSUME IInv, NEW r \in Runs, MoveReturns(r)
  PROVE  /\ UNCHANGED <<pos, goal, by>> /\ astray' \in BOOLEAN
         /\ by = r /\ ~astray' => goal = None /\ ~astray
<1>1. CASE goal = None /\ UNCHANGED motorVars
  BY <1>1 DEF IInv, RunType, motorVars
<1>2. CASE Misled(r)
  BY <1>2, Zenon DEF Misled
<1> QED
  BY <1>1, <1>2 DEF MoveReturns

LEMMA RunStepInv ==
  ASSUME IInv, NEW r \in Runs, RunStep(r)
  PROVE  IInv'
<1> USE DEF At
<1>1. CASE RunBegins(r)
  <2>1. RunType'
    BY <1>1 DEF IInv, RunType, RunBegins, Goes, motorVars, Placed
  <2>2. RunInv(r)'
    BY <1>1 DEF IInv, RunType, RunInv, RunBegins, Goes, motorVars
  <2> QED
    BY <1>1, <2>1, <2>2, OwnStep DEF IInv, RunType, RunBegins, Goes
<1>2. CASE StatusRead(r)
  <2>1. PICK p \in Readings, q \in Positions :
          home' = [home EXCEPT ![r] = p] /\ want' = [want EXCEPT ![r] = q] /\ Commands(r, q)
    BY <1>2 DEF StatusRead, Sends
  <2>2. run' = [run EXCEPT ![r] = "move"] /\ UNCHANGED <<task, status>> /\ run[r] = "status"
    BY <1>2 DEF StatusRead, Goes
  <2>3. p # None /\ p \in Positions
    BY FocusingAssumption DEF Readings, IInv, RunType
  <2>4. RunType'
    BY <2>1, <2>2, <2>3 DEF IInv, RunType, Commands, Placed
  <2>5. RunInv(r)'
    BY <2>1, <2>2, <2>3, FocusingAssumption DEF IInv, RunType, RunInv, Commanded, Obeys, Commands
  <2> QED
    BY <2>2, <2>4, <2>5, OwnStep DEF IInv, RunType
<1>3. CASE Moved(r)
  <2>1. RunType'
    BY <1>3, MoveReturnsKeeps DEF IInv, RunType, Moved, Goes, Placed
  <2>2. RunInv(r)'
    BY <1>3, MoveReturnsKeeps DEF IInv, RunType, RunInv, Commanded, Obeys, Moved, Goes
  <2> QED
    BY <1>3, <2>1, <2>2, OwnStep DEF IInv, RunType, Moved, Goes
<1>4. CASE Measured(r)
  <2>1. PICK p \in Positions : want' = [want EXCEPT ![r] = p] /\ Commands(r, p)
    BY <1>4 DEF Measured, Sends
  <2>2. PICK place \in {"move", "final"} : run' = [run EXCEPT ![r] = place]
    BY <1>4 DEF Measured, Goes
  <2>3. RunType'
    BY <1>4, <2>1, <2>2 DEF IInv, RunType, Measured, Commands, Placed
  <2>4. RunInv(r)'
    BY <1>4, <2>1, <2>2, FocusingAssumption DEF IInv, RunType, RunInv, Commanded, Obeys, Measured, Commands
  <2> QED
    BY <1>4, <2>2, <2>3, <2>4, OwnStep DEF IInv, RunType, Measured
<1>5. CASE Completes(r)
  <2>1. RunType'
    BY <1>5, MoveReturnsKeeps DEF IInv, RunType, Completes, Goes, Placed
  <2>2. RunInv(r)'
    BY <1>5, MoveReturnsKeeps DEF IInv, RunType, RunInv, Commanded, Obeys, Completes, Goes
  <2> QED
    BY <1>5, <2>1, <2>2, OwnStep DEF IInv, RunType, Completes, Goes
<1>6. CASE RunFails(r)
  BY <1>6, GivesUpStep DEF RunFails
<1>7. CASE Restored(r)
  <2>1. RunType'
    BY <1>7 DEF IInv, RunType, Restored, Goes, motorVars, Placed
  <2>2. RunInv(r)'
    BY <1>7 DEF IInv, RunType, RunInv, Commanded, Obeys, Restored, Goes, motorVars
  <2> QED
    BY <1>7, <2>1, <2>2, OwnStep DEF IInv, RunType, Restored, Goes
<1>8. CASE RunCancelled(r)
  <2>1. CASE run[r] \in Sweeping
    BY <1>8, <2>1, GivesUpStep DEF RunCancelled
  <2>2. CASE run[r] \notin Sweeping
    <3>1. run[r] \in {"created", "restore"}
      BY <1>8, <2>2 DEF RunCancelled, Sweeping, IInv, RunType, Placed
    <3>2. Goes(r, "none") /\ UNCHANGED <<task, home, status, want, motorVars>>
      BY <1>8, <2>2 DEF RunCancelled
    <3>3. RunType'
      BY <3>2 DEF IInv, RunType, Goes, motorVars, Placed
    <3>4. RunInv(r)'
      BY <3>1, <3>2 DEF IInv, RunType, RunInv, Commanded, Obeys, Goes, motorVars
    <3> QED
      BY <3>1, <3>2, <3>3, <3>4, OwnStep DEF IInv, RunType, Goes
  <2> QED
    BY <2>1, <2>2
<1> QED
  BY <1>1, <1>2, <1>3, <1>4, <1>5, <1>6, <1>7, <1>8 DEF RunStep

LEMMA MotorStep ==
  ASSUME IInv, MotorArrives \/ MotorFails
  PROVE  IInv'
<1>1. UNCHANGED <<runVars, by>> /\ goal # None /\ goal' = None /\ pos' \in Positions
  BY DEF MotorArrives, MotorFails, IInv, RunType
<1>2. CASE MotorArrives
  BY <1>1, <1>2 DEF MotorArrives, IInv, runVars, RunType, OneRun, LiveRuns, RunInv, Commanded, Obeys
<1>3. CASE MotorFails
  <2>1. astray' \in BOOLEAN /\ (by # None => astray')
    BY <1>3, Zenon DEF MotorFails
  <2>2. \A r \in Runs : ~Commanded(r)'
    BY <1>1, <2>1, FocusingAssumption DEF Commanded
  <2> QED
    BY <1>1, <2>1, <2>2 DEF IInv, runVars, RunType, OneRun, LiveRuns, RunInv, Commanded
<1> QED
  BY <1>2, <1>3

-----------------------------------------------------------------------------
LEMMA NextIInv == IInv /\ [FocusNext]_vars => IInv'
<1> SUFFICES ASSUME IInv, [FocusNext]_vars PROVE IInv'
  OBVIOUS
<1>1. ASSUME NEW c \in Clients, ClientStep(c) \/ CallStep(c) PROVE IInv'
  <2>1. CASE MoveTo(c) \/ MoveBy(c) \/ MoveByGoesOn(c) \/ Halt(c) \/ HaltGoesOn(c)
    BY <2>1, ManagerStep
  <2>2. CASE Start(c)
    BY <2>2, StartStep
  <2>3. CASE Abort(c) \/ FocusCancelled(c) \/ RunAwaited(c)
    BY <2>3, StutterRuns DEF Abort, FocusCancelled, RunAwaited
  <2> QED
    BY <1>1, <2>1, <2>2, <2>3 DEF ClientStep, CallStep
<1>2. CASE UNCHANGED vars
  BY <1>2, StutterRuns DEF vars
<1> QED
  BY <1>1, <1>2, ManagerStep, RunStepInv, MotorStep DEF FocusNext

THEOREM FocusInvariance == FocusSpec => []IInv
  BY InitIInv, NextIInv, PTL DEF FocusSpec

(* At most one autofocus run is alive, also while an aborted one puts the focuser back: for
   any clients that start, await and abort runs (engine.py, start and abort). *)
THEOREM OneRunAlive == FocusSpec => []OneRun
<1>1. IInv => OneRun
  BY DEF IInv
<1> QED
  BY <1>1, FocusInvariance, PTL

(* Wherever and however often it is aborted or fails, the last run leaves the focuser where
   it found it, and a completed one at the optimum, unless somebody else has commanded it
   since or the driver failed the last command (engine.py, _run and _restore_focus). *)
THEOREM FocuserIsLeft == FocusSpec => []LeavesFocuser
<1>1. IInv => LeavesFocuser
  BY DEF IInv, RunType, LeavesFocuser, Heading, RunInv, Commanded, Obeys
<1> QED
  BY <1>1, FocusInvariance, PTL

(* An autofocus exposes with the focuser still and in the place it asked for, unless
   somebody else has commanded the focuser since or the driver failed the move
   (engine.py, _run). *)
THEOREM ExposuresInPlace == FocusSpec => []ExposesInPlace
<1>1. IInv => ExposesInPlace
  BY DEF IInv, ExposesInPlace, RunInv, Commanded, Obeys
<1> QED
  BY <1>1, FocusInvariance, PTL
=============================================================================
