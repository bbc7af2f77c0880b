----------------------- MODULE SequencerRunnerProofs -----------------------
(***************************************************************************)
(* Theorems about the sequencer's runner, for every set of tasks and lanes *)
(* and every choice of requests, edits and faults.                         *)
(***************************************************************************)
EXTENDS SequencerRunner, TLAPS

-----------------------------------------------------------------------------
(* Lemmas about the operations shared by several actions: each gives the types *)
(* of the variables it assigns.                                                *)

LaneStates == {"off", "ready", "exposing", "recording", "duties", "ended"}

LEMMA NoBodyType ==
  ASSUME NoBody
  PROVE  /\ body' = "none" /\ cancelled' = FALSE /\ setupDone' = FALSE
         /\ result' \in Results
         /\ lane' \in [Lanes -> LaneStates]
  BY DEF NoBody, NoResult, Results, LanesOff, LaneStates

LEMMA EndRunType ==
  ASSUME TypeOK, EndRun
  PROVE  /\ at' = "idle" /\ state' = "idle" /\ request' = NoRequest
         /\ run' \in Runs /\ current' = NoTask /\ resumeReq' \in BOOLEAN
         /\ NoBody
  BY DEF EndRun, NoRun, Runs, TypeOK

LEMMA FinishType ==
  ASSUME QueueTypeOK, NEW t \in Tasks, NEW s \in TaskStatus, Finish(t, s)
  PROVE  QueueTypeOK'
  BY DEF QueueTypeOK, Finish

LEMMA StartBodyType ==
  ASSUME NEW t \in Tasks, NEW setup \in BOOLEAN, StartBody(t, setup)
  PROVE  /\ body' \in {"setup", "lanes"} /\ cancelled' = FALSE /\ setupDone' \in BOOLEAN
         /\ result' \in Results
         /\ lane' \in [Lanes -> LaneStates]
  BY DEF StartBody, NoResult, Results, LanesOff, LaneStates

LEMMA BeginType ==
  ASSUME NEW only \in SUBSET Tasks, NEW excluded \in SUBSET Tasks, Begin(only, excluded)
  PROVE  /\ at' = "starting" /\ state' = "starting" /\ request' = NoRequest
         /\ resumeReq' = FALSE /\ run' \in Runs
         /\ UNCHANGED <<current, bodyVars>>
  BY DEF Begin, Runs

LEMMA NoFramesType == NoFrames \in [Lanes -> Nat]
  BY DEF NoFrames

LEMMA PendingStatusType ==
  ASSUME NEW t \in Tasks
  PROVE  PendingStatus(t) \in {"completed", "interrupted", "pending"}
  BY DEF PendingStatus

(* Every queue operation keeps the queue well typed. *)
LEMMA QueueEditType ==
  ASSUME QueueTypeOK, QueueEdit
  PROVE  QueueTypeOK'
<1>1. ASSUME NEW t \in Tasks, Add(t) PROVE QueueTypeOK'
  BY <1>1, NoFramesType DEF QueueTypeOK, Add, TaskStatus
<1>2. ASSUME NEW t \in Tasks, Update(t) PROVE QueueTypeOK'
  <2>1. PICK p \in Plans, kept \in SUBSET Lanes :
          /\ plan' = [plan EXCEPT ![t] = p]
          /\ done' = [done EXCEPT ![t] =
                        [l \in Lanes |-> IF l \in kept THEN done[t][l] ELSE 0]]
    BY <1>2 DEF Update
  <2>2. [l \in Lanes |-> IF l \in kept THEN done[t][l] ELSE 0] \in [Lanes -> Nat]
    BY DEF QueueTypeOK
  <2>3. done' \in [Tasks -> [Lanes -> Nat]] /\ plan' \in [Tasks -> Plans]
    BY <2>1, <2>2 DEF QueueTypeOK
  <2>4. status' \in [Tasks -> TaskStatus \cup Gone]
    BY <1>2 DEF QueueTypeOK, Update, TaskStatus
  <2> QED
    BY <1>2, <2>3, <2>4 DEF QueueTypeOK, Update
<1>3. ASSUME NEW t \in Tasks, Remove(t) PROVE QueueTypeOK'
  BY <1>3 DEF QueueTypeOK, Remove, Gone
<1>4. ASSUME NEW t \in Tasks, ResetProgress(t) PROVE QueueTypeOK'
  BY <1>4, NoFramesType DEF QueueTypeOK, ResetProgress, TaskStatus
<1>5. ASSUME NEW t \in Tasks, SetSkipped(t) PROVE QueueTypeOK'
  BY <1>5 DEF QueueTypeOK, SetSkipped, TaskStatus
<1>6. ASSUME NEW t \in Tasks, SetPending(t) PROVE QueueTypeOK'
  BY <1>6, PendingStatusType DEF QueueTypeOK, SetPending, TaskStatus
<1>7. CASE Reorder
  BY <1>7 DEF QueueTypeOK, Reorder
<1>8. CASE Clear
  BY <1>8 DEF QueueTypeOK, Clear, Gone
<1> QED
  BY <1>1, <1>2, <1>3, <1>4, <1>5, <1>6, <1>7, <1>8 DEF QueueEdit

-----------------------------------------------------------------------------
(* Type correctness *)

(* The run is inside a task exactly when it is not between tasks: what Finish(current)
   and SetAside(current) rely on. *)
WithinTask == at \in {"exec", "pausing", "resuming"} => current \in Tasks

LEMMA OnRequestType ==
  ASSUME TypeOK, current \in Tasks, NEW req \in Requests \cup {NoRequest},
         OnRequest(req), request' \in Requests \cup {NoRequest}
  PROVE  TypeOK'
<1>1. CASE req.kind = "pause"
  <2>1. at' = "pausing" /\ QueueTypeOK'
    BY <1>1 DEF OnRequest, TypeOK, QueueTypeOK, Ends
  <2>2. /\ body' = "none" /\ cancelled' = FALSE /\ result' = NoResult /\ lane' = LanesOff
        /\ UNCHANGED <<run, current, setupDone, state, resumeReq>>
    BY <1>1 DEF OnRequest, Ends
  <2> QED
    BY <2>1, <2>2 DEF TypeOK, NoResult, Results, LanesOff
<1>2. CASE req.kind \in Ends
  <2>1. Finish(current, "interrupted") /\ EndRun
    BY <1>2 DEF OnRequest, Ends
  <2> QED
    BY <2>1, FinishType, EndRunType, NoBodyType DEF TypeOK, TaskStatus, RunState, LaneStates
<1>3. CASE req.kind = "skip"
  <2>1. /\ Finish(current, "skipped") /\ NoBody
        /\ at' = "loop" /\ current' = NoTask
        /\ UNCHANGED <<run, state, resumeReq>>
    BY <1>3 DEF OnRequest, Ends
  <2> QED
    BY <2>1, FinishType, NoBodyType DEF TypeOK, TaskStatus, LaneStates
<1>4. CASE req.kind = "switch"
  <2>1. /\ Finish(current, "interrupted") /\ NoBody
        /\ at' = "loop" /\ current' = NoTask
        /\ run' = [SetAside(current) EXCEPT !.forced = req.target]
        /\ UNCHANGED <<state, resumeReq>>
    BY <1>4 DEF OnRequest, Ends
  <2>2. req.target \in Tasks \cup {NoTask}
    BY DEF Requests, NoRequest
  <2>3. run' \in Runs
    BY <2>1, <2>2 DEF TypeOK, Runs, SetAside
  <2> QED
    BY <2>1, <2>3, FinishType, NoBodyType DEF TypeOK, TaskStatus, LaneStates
<1> QED
  BY <1>1, <1>2, <1>3, <1>4 DEF OnRequest

LEMMA CloseType ==
  ASSUME TypeOK, NEW kind \in {"ok", "boundary", "cancelled", "error", "crash"},
         NEW req \in Requests \cup {NoRequest}, Close(kind, req),
         lane' \in [Lanes -> LaneStates]
  PROVE  TypeOK'
  BY DEF TypeOK, QueueTypeOK, queueVars, runVars, ctlVars, Close, Results, LaneStates

LEMMA InitType == Init => TypeOK
<1> SUFFICES ASSUME Init PROVE TypeOK
  OBVIOUS
<1>1. QueueTypeOK
  BY NoFramesType DEF Init, QueueInit, QueueTypeOK, TaskStatus, Gone
<1> QED
  BY <1>1 DEF Init, TypeOK, RunState, NoRun, Runs, NoResult, Results, LanesOff

LEMMA ClientType ==
  ASSUME TypeOK, Client
  PROVE  TypeOK'
<1>1. ASSUME NEW only \in SUBSET Tasks, Start(only) PROVE TypeOK'
  <2>1. PICK excluded \in SUBSET Tasks : Begin(only, excluded)
    BY <1>1 DEF Start
  <2>2. UNCHANGED queueVars
    BY <1>1 DEF Start
  <2> QED
    BY <2>1, <2>2, BeginType DEF TypeOK, QueueTypeOK, queueVars, bodyVars, RunState
<1>2. ASSUME NEW t \in Tasks, StartOnly(t) PROVE TypeOK'
  <2>1. QueueTypeOK'
    BY <1>2, PendingStatusType DEF StartOnly, TypeOK, QueueTypeOK, TaskStatus
  <2>2. CASE Begin({t}, {})
    BY <2>1, <2>2, BeginType DEF TypeOK, bodyVars, RunState
  <2>3. CASE UNCHANGED <<runVars, ctlVars, bodyVars>>
    BY <2>1, <2>3 DEF TypeOK, runVars, ctlVars, bodyVars
  <2> QED
    BY <1>2, <2>2, <2>3 DEF StartOnly
<1>3. ASSUME NEW kind \in Kinds, NEW when \in Whens, NEW target \in Tasks \cup {NoTask},
             Request(kind, when, target)
      PROVE  TypeOK'
  <2>1. request' \in Requests
    BY <1>3, WhensAssumption DEF Request, Requests
  <2>2. state' \in RunState
    BY <1>3 DEF Request, TypeOK, RunState
  <2>3. cancelled' \in BOOLEAN
    BY <1>3 DEF Request, TypeOK
  <2> QED
    BY <1>3, <2>1, <2>2, <2>3 DEF Request, TypeOK, QueueTypeOK, queueVars, runVars
<1>4. CASE Resume
  BY <1>4 DEF Resume, TypeOK, QueueTypeOK, queueVars, runVars, bodyVars, RunState
<1>5. CASE QueueEdit /\ UNCHANGED <<runVars, bodyVars, ctlVars>>
  BY <1>5, QueueEditType DEF TypeOK, runVars, bodyVars, ctlVars
<1> QED
  BY <1>1, <1>2, <1>3, <1>4, <1>5 DEF Client

LEMMA LoopType ==
  ASSUME TypeOK, Loop
  PROVE  TypeOK'
<1>1. CASE BoundaryEnd
  BY <1>1, EndRunType, NoBodyType
  DEF BoundaryEnd, TypeOK, QueueTypeOK, queueVars, RunState, LaneStates
<1>2. CASE BoundarySwitch
  <2>1. request.target \in Tasks \cup {NoTask}
    BY DEF TypeOK, Requests, NoRequest
  <2>2. run' \in Runs
    BY <1>2, <2>1 DEF BoundarySwitch, TypeOK, Runs
  <2> QED
    BY <1>2, <2>2 DEF BoundarySwitch, TypeOK, QueueTypeOK, queueVars, bodyVars
<1>3. CASE BoundarySkip
  BY <1>3 DEF BoundarySkip, TypeOK, QueueTypeOK, queueVars, runVars, bodyVars
<1>4. CASE BoundaryPause
  BY <1>4 DEF BoundaryPause, TypeOK, QueueTypeOK, queueVars, bodyVars, RunState
<1>5. ASSUME NEW t \in Tasks, Execute(t) PROVE TypeOK'
  <2>1. QueueTypeOK'
    BY <1>5, FinishType DEF Execute, TypeOK, TaskStatus
  <2>2. run' \in Runs
    BY <1>5 DEF Execute, TypeOK, Runs
  <2> QED
    BY <1>5, <2>1, <2>2, StartBodyType DEF Execute, TypeOK, ctlVars, LaneStates
<1>6. ASSUME NEW t \in Tasks, CompleteUnexecuted(t) PROVE TypeOK'
  <2>1. QueueTypeOK'
    BY <1>6, FinishType DEF CompleteUnexecuted, TypeOK, TaskStatus
  <2>2. run' \in Runs
    BY <1>6 DEF CompleteUnexecuted, TypeOK, Runs
  <2> QED
    BY <1>6, <2>1, <2>2 DEF CompleteUnexecuted, TypeOK, ctlVars, bodyVars
<1>7. CASE NothingLeft
  <2>1. run' \in Runs
    BY <1>7 DEF NothingLeft, TypeOK, Runs
  <2> QED
    BY <1>7, <2>1 DEF NothingLeft, TypeOK, QueueTypeOK, queueVars, bodyVars, ctlVars
<1> QED
  BY <1>1, <1>2, <1>3, <1>4, <1>5, <1>6, <1>7 DEF Loop

LEMMA RunStepType ==
  ASSUME TypeOK, WithinTask, RunStep
  PROVE  TypeOK'
<1>1. CASE Started
  <2>1. CASE EndRun
    BY <1>1, <2>1, EndRunType, NoBodyType
    DEF Started, TypeOK, QueueTypeOK, queueVars, RunState, LaneStates
  <2>2. CASE ~EndRun
    BY <1>1, <2>2 DEF Started, TypeOK, QueueTypeOK, queueVars, bodyVars, RunState
  <2> QED
    BY <2>1, <2>2
<1>2. CASE Loop
  BY <1>2, LoopType
<1>3. CASE Ended
  BY <1>3, EndRunType, NoBodyType
  DEF Ended, TypeOK, QueueTypeOK, queueVars, RunState, LaneStates
<1>4. CASE WakeDone
  BY <1>4, FinishType, NoBodyType
  DEF WakeDone, WithinTask, TypeOK, ctlVars, TaskStatus, LaneStates
<1>5. CASE WakeBoundary
  <2>1. result.req \in Requests \cup {NoRequest}
    BY DEF TypeOK, Results
  <2>2. current \in Tasks
    BY <1>5 DEF WakeBoundary, WithinTask
  <2>3. request' \in Requests \cup {NoRequest}
    <3>1. CASE result.req.kind \in Ends
      BY <1>5, <3>1 DEF WakeBoundary, OnRequest, EndRun, Ends
    <3>2. CASE result.req.kind \notin Ends
      BY <1>5, <3>2 DEF WakeBoundary, Take, TypeOK
    <3> QED
      BY <3>1, <3>2
  <2> QED
    BY <1>5, <2>1, <2>2, <2>3, OnRequestType DEF WakeBoundary
<1>6. CASE WakeCancelled
  <2>1. current \in Tasks
    BY <1>6 DEF WakeCancelled, WithinTask
  <2>2. PICK req \in Requests \cup {NoRequest} : OnRequest(req) /\ request' = NoRequest
    BY <1>6 DEF WakeCancelled, SystemCancel, TypeOK, Requests, Kinds
  <2> QED
    BY <2>1, <2>2, OnRequestType
<1>7. CASE WakeError
  <2>1. current \in Tasks
    BY <1>7 DEF WakeError, WithinTask
  <2>2. CASE OnError[current] \in {"skip", "defer"}
    <3>1. QueueTypeOK'
      <4>1. PICK s \in TaskStatus : Finish(current, s)
        BY <1>7, <2>2 DEF WakeError, TaskStatus
      <4> QED
        BY <2>1, <4>1, FinishType DEF TypeOK
    <3>2. run' \in Runs
      BY <1>7, <2>1, <2>2 DEF WakeError, TypeOK, Runs, SetAside
    <3>3. NoBody /\ at' = "loop" /\ current' = NoTask /\ UNCHANGED ctlVars
      BY <1>7, <2>2 DEF WakeError
    <3> QED
      BY <3>1, <3>2, <3>3, NoBodyType DEF TypeOK, ctlVars, LaneStates
  <2>3. CASE OnError[current] = "abort"
    <3>1. Finish(current, "failed") /\ EndRun
      BY <1>7, <2>3 DEF WakeError
    <3> QED
      BY <2>1, <3>1, FinishType, EndRunType, NoBodyType
      DEF TypeOK, TaskStatus, RunState, LaneStates
  <2>4. CASE OnError[current] = "pause"
    <3>1. /\ at' = "pausing"
          /\ body' = "none" /\ cancelled' = FALSE /\ result' = NoResult /\ lane' = LanesOff
          /\ UNCHANGED <<queueVars, run, current, setupDone, ctlVars>>
      BY <1>7, <2>4 DEF WakeError
    <3> QED
      BY <3>1 DEF TypeOK, QueueTypeOK, queueVars, ctlVars, NoResult, Results, LanesOff
  <2>5. OnError[current] \in {"skip", "defer", "pause", "abort"}
    BY <2>1, OnErrorAssumption
  <2> QED
    BY <2>2, <2>3, <2>4, <2>5
<1>8. CASE WakeCrash
  BY <1>8, FinishType, EndRunType, NoBodyType
  DEF WakeCrash, WithinTask, TypeOK, TaskStatus, RunState, LaneStates
<1>9. CASE EnterPaused
  BY <1>9 DEF EnterPaused, TypeOK, QueueTypeOK, queueVars, bodyVars, RunState
<1>10. CASE PausedDropsPause
  BY <1>10 DEF PausedDropsPause, TypeOK, QueueTypeOK, queueVars, runVars, bodyVars
<1>11. CASE PausedTakes
  <2>1. CASE current = NoTask
    BY <1>11, <2>1 DEF PausedTakes, TypeOK, QueueTypeOK, queueVars, bodyVars, ctlVars
  <2>2. CASE current # NoTask
    <3>1. OnRequest(request) /\ request' = NoRequest /\ current \in Tasks
      BY <1>11, <2>2 DEF PausedTakes, TypeOK
    <3>2. request \in Requests \cup {NoRequest}
      BY DEF TypeOK
    <3> QED
      BY <3>1, <3>2, OnRequestType
  <2> QED
    BY <2>1, <2>2
<1>12. CASE PausedResumes
  BY <1>12 DEF PausedResumes, TypeOK, QueueTypeOK, queueVars, bodyVars, RunState
<1>13. CASE Resumed
  <2>1. PICK setup \in BOOLEAN : StartBody(current, setup)
    BY <1>13 DEF Resumed, TypeOK
  <2>2. current \in Tasks
    BY <1>13 DEF Resumed, WithinTask
  <2> QED
    BY <1>13, <2>1, <2>2, StartBodyType
    DEF Resumed, TypeOK, QueueTypeOK, queueVars, RunState, LaneStates
<1> QED
  BY <1>1, <1>2, <1>3, <1>4, <1>5, <1>6, <1>7, <1>8, <1>9, <1>10, <1>11, <1>12, <1>13
  DEF RunStep

(* The steps of a lane of the task body, on a body that is executing. *)
LEMMA LaneStepType ==
  ASSUME TypeOK, NEW l \in Lanes, LaneStep(l)
  PROVE  TypeOK'
<1>1. CASE ExposeFrame(l)
  BY <1>1 DEF ExposeFrame, TypeOK, QueueTypeOK, queueVars, runVars, ctlVars
<1>2. CASE FrameDone(l)
  <2>1. done' \in [Tasks -> [Lanes -> Nat]]
    BY <1>2 DEF FrameDone, TypeOK, QueueTypeOK
  <2> QED
    BY <1>2, <2>1 DEF FrameDone, TypeOK, QueueTypeOK, runVars, ctlVars
<1>3. CASE FrameCommitted(l)
  BY <1>3 DEF FrameCommitted, TypeOK, QueueTypeOK, runVars, ctlVars
<1>4. CASE LaneStops(l)
  BY <1>4 DEF LaneStops, TypeOK, QueueTypeOK, queueVars, runVars, ctlVars
<1>5. CASE LaneDone(l)
  BY <1>5 DEF LaneDone, TypeOK, QueueTypeOK, queueVars, runVars, ctlVars
<1> QED
  BY <1>1, <1>2, <1>3, <1>4, <1>5 DEF LaneStep

LEMMA BodyStepType ==
  ASSUME TypeOK, WithinTask, body # "none" => at = "exec", BodyStep
  PROVE  TypeOK'
<1>0. LanesOff \in [Lanes -> LaneStates] /\ lane \in [Lanes -> LaneStates]
  BY DEF LanesOff, LaneStates, TypeOK
<1>1. CASE SetupEnds
  <2>1. current \in Tasks
    BY <1>1 DEF SetupEnds, WithinTask
  <2> QED
    BY <1>1, <2>1, StartBodyType
    DEF SetupEnds, TypeOK, QueueTypeOK, queueVars, runVars, ctlVars, LaneStates
<1>2. CASE SetupStops
  BY <1>0, <1>2, CloseType DEF SetupStops, TypeOK
<1>3. CASE LanesReturn
  BY <1>0, <1>3, CloseType DEF LanesReturn, TypeOK
<1>4. CASE BodyCancelled
  BY <1>0, <1>4, CloseType DEF BodyCancelled
<1>5. CASE DutiesEnd
  BY <1>5 DEF DutiesEnd, TypeOK, QueueTypeOK, queueVars, runVars, ctlVars
<1>6. CASE BodyFails("error")
  BY <1>0, <1>6, CloseType DEF BodyFails
<1>7. CASE BodyFails("crash")
  BY <1>0, <1>7, CloseType DEF BodyFails
<1> QED
  BY <1>1, <1>2, <1>3, <1>4, <1>5, <1>6, <1>7 DEF BodyStep

LEMMA ProcessType ==
  ASSUME TypeOK, Crash \/ Shutdown
  PROVE  TypeOK'
<1>1. QueueTypeOK'
  BY DEF Crash, Shutdown, Load, TypeOK, QueueTypeOK, TaskStatus, Gone
<1>2. NoProcess
  BY DEF Crash, Shutdown
<1> QED
  BY <1>1, <1>2, NoBodyType DEF NoProcess, TypeOK, RunState, NoRun, Runs, LaneStates

-----------------------------------------------------------------------------
(* The task being executed *)

LEMMA EndRunTask ==
  ASSUME EndRun PROVE at' = "idle" /\ current' = NoTask /\ body' = "none" /\ lane' = LanesOff
  BY DEF EndRun, NoBody

(* No queue operation starts, ends or touches the running task. *)
LEMMA QueueEditLeavesRunning ==
  ASSUME QueueTypeOK, QueueEdit
  PROVE  \A u \in Tasks : status'[u] = "running" <=> status[u] = "running"
<1> TAKE u \in Tasks
<1>1. ASSUME NEW t \in Tasks, Add(t) PROVE status'[u] = "running" <=> status[u] = "running"
  BY <1>1 DEF QueueTypeOK, Add
<1>2. ASSUME NEW t \in Tasks, Update(t) PROVE status'[u] = "running" <=> status[u] = "running"
  BY <1>2 DEF QueueTypeOK, Update, Editable
<1>3. ASSUME NEW t \in Tasks, Remove(t) PROVE status'[u] = "running" <=> status[u] = "running"
  BY <1>3 DEF QueueTypeOK, Remove, Editable
<1>4. ASSUME NEW t \in Tasks, ResetProgress(t)
      PROVE  status'[u] = "running" <=> status[u] = "running"
  BY <1>4 DEF QueueTypeOK, ResetProgress, Editable
<1>5. ASSUME NEW t \in Tasks, SetSkipped(t)
      PROVE  status'[u] = "running" <=> status[u] = "running"
  BY <1>5 DEF QueueTypeOK, SetSkipped, Editable
<1>6. ASSUME NEW t \in Tasks, SetPending(t)
      PROVE  status'[u] = "running" <=> status[u] = "running"
  BY <1>6, PendingStatusType DEF QueueTypeOK, SetPending, Editable
<1>7. CASE Reorder
  BY <1>7 DEF Reorder
<1>8. CASE Clear
  BY <1>8 DEF QueueTypeOK, Clear
<1> QED
  BY <1>1, <1>2, <1>3, <1>4, <1>5, <1>6, <1>7, <1>8 DEF QueueEdit

(* The task body exists while the run waits for it, and its lanes within it. *)
LanesInBody ==
  /\ body # "none" <=> at = "exec"
  /\ \A l \in Lanes : lane[l] # "off" => body \in {"lanes", "closing"}

(* What the invariants say of the run's place in the queue. *)
TaskInv == OneTaskRuns /\ LanesInBody /\ WithinTask

(* Acting on a request at a boundary keeps the task executed the one that is marked. *)
LEMMA OnRequestTask ==
  ASSUME QueueTypeOK, TaskInv, current \in Tasks, NEW req, OnRequest(req)
  PROVE  TaskInv'
<1>1. CASE req.kind = "pause"
  <2>1. /\ at' = "pausing" /\ body' = "none" /\ lane' = LanesOff
        /\ UNCHANGED <<current, status>>
    BY <1>1 DEF OnRequest, Ends
  <2> QED
    BY <2>1 DEF TaskInv, OneTaskRuns, LanesInBody, WithinTask, LanesOff
<1>2. CASE req.kind \in Ends
  <2>1. Finish(current, "interrupted") /\ EndRun
    BY <1>2 DEF OnRequest, Ends
  <2> QED
    BY <2>1, EndRunTask, NoTaskAssumption
    DEF Finish, QueueTypeOK, TaskInv, OneTaskRuns, LanesInBody, WithinTask, LanesOff
<1>3. CASE req.kind \in {"skip", "switch"}
  <2>1. PICK s \in {"skipped", "interrupted"} : Finish(current, s)
    BY <1>3 DEF OnRequest, Ends
  <2>2. at' = "loop" /\ current' = NoTask /\ NoBody
    BY <1>3 DEF OnRequest, Ends
  <2> QED
    BY <2>1, <2>2, NoTaskAssumption
    DEF Finish, NoBody, QueueTypeOK, TaskInv, OneTaskRuns, LanesInBody, WithinTask,
        LanesOff
<1> QED
  BY <1>1, <1>2, <1>3 DEF OnRequest

LEMMA InitTask == Init => TaskInv
  BY NoTaskAssumption
  DEF Init, QueueInit, TaskInv, OneTaskRuns, LanesInBody, WithinTask, LanesOff

LEMMA ClientTask ==
  ASSUME TypeOK, TaskInv, Client
  PROVE  TaskInv'
<1>1. ASSUME NEW only \in SUBSET Tasks, Start(only) PROVE TaskInv'
  BY <1>1
  DEF Start, Begin, queueVars, bodyVars, TypeOK, QueueTypeOK, TaskInv, OneTaskRuns,
      LanesInBody, WithinTask, IsRunning
<1>2. ASSUME NEW t \in Tasks, StartOnly(t) PROVE TaskInv'
  <2>1. /\ \A u \in Tasks : status'[u] = "running" <=> status[u] = "running"
        /\ UNCHANGED <<current, body, lane>>
        /\ at = "idle" /\ at' \in {"idle", "starting"}
    BY <1>2, PendingStatusType
    DEF StartOnly, Begin, runVars, bodyVars, TypeOK, QueueTypeOK, IsRunning, Switchable, Runnable
  <2> QED
    BY <2>1 DEF TaskInv, OneTaskRuns, LanesInBody, WithinTask
<1>3. ASSUME NEW kind \in Kinds, NEW when \in Whens, NEW target \in Tasks \cup {NoTask},
             Request(kind, when, target)
      PROVE  TaskInv'
  BY <1>3 DEF Request, queueVars, runVars, TaskInv, OneTaskRuns, LanesInBody, WithinTask
<1>4. CASE Resume
  BY <1>4
  DEF Resume, queueVars, runVars, bodyVars, TaskInv, OneTaskRuns, LanesInBody, WithinTask
<1>5. CASE QueueEdit /\ UNCHANGED <<runVars, bodyVars, ctlVars>>
  BY <1>5, QueueEditLeavesRunning
  DEF TypeOK, runVars, bodyVars, TaskInv, OneTaskRuns, LanesInBody, WithinTask
<1> QED
  BY <1>1, <1>2, <1>3, <1>4, <1>5 DEF Client

LEMMA LoopTask ==
  ASSUME TypeOK, TaskInv, Loop
  PROVE  TaskInv'
<1>1. CASE BoundaryEnd
  BY <1>1, EndRunTask, NoTaskAssumption
  DEF BoundaryEnd, queueVars, TaskInv, OneTaskRuns, LanesInBody, WithinTask, LanesOff
<1>2. CASE BoundarySwitch
  BY <1>2
  DEF BoundarySwitch, queueVars, bodyVars, TaskInv, OneTaskRuns, LanesInBody, WithinTask
<1>3. CASE BoundarySkip
  BY <1>3
  DEF BoundarySkip, queueVars, runVars, bodyVars, TaskInv, OneTaskRuns, LanesInBody,
      WithinTask
<1>4. CASE BoundaryPause
  BY <1>4
  DEF BoundaryPause, queueVars, bodyVars, TaskInv, OneTaskRuns, LanesInBody, WithinTask
<1>5. ASSUME NEW t \in Tasks, Execute(t) PROVE TaskInv'
  <2>1. /\ status' = [status EXCEPT ![t] = "running"]
        /\ at' = "exec" /\ current' = t /\ body' = "setup" /\ lane' = LanesOff
    BY <1>5 DEF Execute, Finish, StartBody
  <2>2. \A u \in Tasks : status[u] # "running"
    BY <1>5, NoTaskAssumption DEF Execute, TaskInv, OneTaskRuns
  <2> QED
    BY <2>1, <2>2, NoTaskAssumption
    DEF TypeOK, QueueTypeOK, TaskInv, OneTaskRuns, LanesInBody, WithinTask, LanesOff
<1>6. ASSUME NEW t \in Tasks, CompleteUnexecuted(t) PROVE TaskInv'
  <2>1. status' = [status EXCEPT ![t] = "completed"] /\ UNCHANGED <<at, current, body, lane>>
    BY <1>6 DEF CompleteUnexecuted, Finish, bodyVars
  <2>2. \A u \in Tasks : status[u] # "running"
    BY <1>6, NoTaskAssumption DEF CompleteUnexecuted, TaskInv, OneTaskRuns
  <2> QED
    BY <1>6, <2>1, <2>2
    DEF CompleteUnexecuted, TypeOK, QueueTypeOK, TaskInv, OneTaskRuns, LanesInBody,
        WithinTask
<1>7. CASE NothingLeft
  BY <1>7
  DEF NothingLeft, queueVars, bodyVars, TaskInv, OneTaskRuns, LanesInBody, WithinTask
<1> QED
  BY <1>1, <1>2, <1>3, <1>4, <1>5, <1>6, <1>7 DEF Loop

LEMMA RunStepTask ==
  ASSUME TypeOK, TaskInv, RunStep
  PROVE  TaskInv'
<1>0. QueueTypeOK
  BY DEF TypeOK
<1>1. CASE Started
  <2>1. CASE EndRun
    BY <1>1, <2>1, EndRunTask, NoTaskAssumption
    DEF Started, queueVars, TaskInv, OneTaskRuns, LanesInBody, WithinTask, LanesOff
  <2>2. CASE ~EndRun
    BY <1>1, <2>2
    DEF Started, queueVars, bodyVars, TaskInv, OneTaskRuns, LanesInBody, WithinTask
  <2> QED
    BY <2>1, <2>2
<1>2. CASE Loop
  BY <1>2, LoopTask
<1>3. CASE Ended
  BY <1>3, EndRunTask, NoTaskAssumption
  DEF Ended, queueVars, TaskInv, OneTaskRuns, LanesInBody, WithinTask, LanesOff
<1>4. CASE WakeDone
  BY <1>4, NoTaskAssumption
  DEF WakeDone, Finish, NoBody, TypeOK, QueueTypeOK, TaskInv, OneTaskRuns, LanesInBody,
      WithinTask, LanesOff
<1>5. CASE WakeBoundary
  BY <1>0, <1>5, OnRequestTask DEF WakeBoundary, TaskInv, WithinTask
<1>6. CASE WakeCancelled
  <2>1. PICK req : OnRequest(req)
    BY <1>6 DEF WakeCancelled
  <2> QED
    BY <1>0, <1>6, <2>1, OnRequestTask DEF WakeCancelled, TaskInv, WithinTask
<1>7. CASE WakeError
  <2>1. current \in Tasks
    BY <1>7 DEF WakeError, TaskInv, WithinTask
  <2>2. CASE OnError[current] \in {"skip", "defer"}
    <3>1. PICK s \in {"failed", "interrupted"} : Finish(current, s)
      BY <1>7, <2>2 DEF WakeError
    <3>2. NoBody /\ at' = "loop" /\ current' = NoTask
      BY <1>7, <2>2 DEF WakeError
    <3> QED
      BY <3>1, <3>2, NoTaskAssumption
      DEF Finish, NoBody, TypeOK, QueueTypeOK, TaskInv, OneTaskRuns, LanesInBody,
          WithinTask, LanesOff
  <2>3. CASE OnError[current] = "abort"
    <3>1. Finish(current, "failed") /\ EndRun
      BY <1>7, <2>3 DEF WakeError
    <3> QED
      BY <3>1, EndRunTask, NoTaskAssumption
      DEF Finish, TypeOK, QueueTypeOK, TaskInv, OneTaskRuns, LanesInBody, WithinTask,
          LanesOff
  <2>4. CASE OnError[current] = "pause"
    <3>1. /\ at' = "pausing" /\ body' = "none" /\ lane' = LanesOff
          /\ UNCHANGED <<current, status>>
      BY <1>7, <2>4 DEF WakeError, queueVars
    <3> QED
      BY <2>1, <3>1 DEF TaskInv, OneTaskRuns, LanesInBody, WithinTask, LanesOff
  <2>5. OnError[current] \in {"skip", "defer", "pause", "abort"}
    BY <2>1, OnErrorAssumption
  <2> QED
    BY <2>2, <2>3, <2>4, <2>5
<1>8. CASE WakeCrash
  BY <1>8, EndRunTask, NoTaskAssumption
  DEF WakeCrash, Finish, TypeOK, QueueTypeOK, TaskInv, OneTaskRuns, LanesInBody,
      WithinTask, LanesOff
<1>9. CASE EnterPaused
  BY <1>9
  DEF EnterPaused, queueVars, bodyVars, TaskInv, OneTaskRuns, LanesInBody, WithinTask
<1>10. CASE PausedDropsPause
  BY <1>10
  DEF PausedDropsPause, queueVars, runVars, bodyVars, TaskInv, OneTaskRuns, LanesInBody,
      WithinTask
<1>11. CASE PausedTakes
  <2>1. CASE current = NoTask
    BY <1>11, <2>1
    DEF PausedTakes, queueVars, bodyVars, TaskInv, OneTaskRuns, LanesInBody, WithinTask
  <2>2. CASE current # NoTask
    BY <1>0, <1>11, <2>2, OnRequestTask DEF PausedTakes, TypeOK
  <2> QED
    BY <2>1, <2>2
<1>12. CASE PausedResumes
  BY <1>12
  DEF PausedResumes, queueVars, bodyVars, TypeOK, TaskInv, OneTaskRuns, LanesInBody,
      WithinTask
<1>13. CASE Resumed
  <2>1. PICK setup \in BOOLEAN : StartBody(current, setup)
    BY <1>13 DEF Resumed, TypeOK
  <2>2. /\ body' \in {"setup", "lanes"}
        /\ body' = "setup" => lane' = LanesOff
    BY <2>1 DEF StartBody
  <2> QED
    BY <1>13, <2>2
    DEF Resumed, queueVars, TaskInv, OneTaskRuns, LanesInBody, WithinTask, LanesOff
<1> QED
  BY <1>1, <1>2, <1>3, <1>4, <1>5, <1>6, <1>7, <1>8, <1>9, <1>10, <1>11, <1>12, <1>13
  DEF RunStep

(* Nothing the task body does changes which task is executed. *)
LEMMA BodyTask ==
  ASSUME TypeOK, TaskInv, BodyStep \/ \E l \in Lanes : LaneStep(l)
  PROVE  TaskInv'
<1>1. ASSUME NEW l \in Lanes, LaneStep(l) PROVE TaskInv'
  <2>1. /\ UNCHANGED <<status, at, current, body>>
        /\ \A m \in Lanes : lane'[m] # "off" => lane[m] # "off" \/ lane[l] # "off"
    BY <1>1
    DEF LaneStep, ExposeFrame, FrameDone, FrameCommitted, LaneStops, LaneDone, queueVars,
        runVars, TypeOK
  <2> QED
    BY <2>1 DEF TaskInv, OneTaskRuns, LanesInBody, WithinTask
<1>2. ASSUME NEW kind, NEW req, Close(kind, req), body # "none",
             lane' = LanesOff \/ UNCHANGED lane
      PROVE  TaskInv'
  BY <1>2
  DEF Close, queueVars, runVars, TaskInv, OneTaskRuns, LanesInBody, WithinTask, LanesOff
<1>3. CASE SetupEnds
  BY <1>3
  DEF SetupEnds, StartBody, queueVars, runVars, TaskInv, OneTaskRuns, LanesInBody,
      WithinTask
<1>4. CASE SetupStops \/ LanesReturn \/ BodyFails("error") \/ BodyFails("crash")
  BY <1>2, <1>4 DEF SetupStops, LanesReturn, BodyFails
<1>5. CASE BodyCancelled
  BY <1>2, <1>5 DEF BodyCancelled
<1>6. CASE DutiesEnd
  BY <1>6
  DEF DutiesEnd, queueVars, runVars, TypeOK, TaskInv, OneTaskRuns, LanesInBody, WithinTask
<1> QED
  BY <1>1, <1>3, <1>4, <1>5, <1>6 DEF BodyStep

LEMMA ProcessTask ==
  ASSUME TypeOK, Crash \/ Shutdown
  PROVE  TaskInv'
<1>1. \A t \in Tasks : status'[t] # "running"
  BY DEF Crash, Shutdown, Load, TypeOK, QueueTypeOK
<1>2. at' = "idle" /\ current' = NoTask /\ body' = "none" /\ lane' = LanesOff
  BY DEF Crash, Shutdown, NoProcess, NoBody
<1> QED
  BY <1>1, <1>2, NoTaskAssumption
  DEF TaskInv, OneTaskRuns, LanesInBody, WithinTask, LanesOff

-----------------------------------------------------------------------------
(* The queue file *)

(* What a step may do to the file: bring it up to date, or leave it and the frames
   alone without leaving a task. *)
FileStep ==
  \/ savedDone' = done'
  \/ /\ UNCHANGED <<done, savedDone>>
     /\ current' = current \/ current = NoTask

(* Such a step keeps the file up with the memory. *)
LEMMA FileStepKeepsUp ==
  ASSUME QueueTypeOK', FileKeepsUp, FileStep
  PROVE  FileKeepsUp'
<1>1. CASE savedDone' = done'
  BY <1>1 DEF QueueTypeOK, FileKeepsUp
<1>2. CASE UNCHANGED <<done, savedDone>> /\ (current' = current \/ current = NoTask)
  BY <1>2, NoTaskAssumption DEF FileKeepsUp
<1> QED
  BY <1>1, <1>2 DEF FileStep

LEMMA ClientFile ==
  ASSUME Client
  PROVE  FileStep
<1>1. ASSUME NEW only \in SUBSET Tasks, Start(only) PROVE FileStep
  BY <1>1 DEF Start, Begin, queueVars, FileStep
<1>2. ASSUME NEW t \in Tasks, StartOnly(t) PROVE FileStep
  <2>1. done' = done /\ current' = current /\ (savedDone' = savedDone \/ savedDone' = done)
    BY <1>2 DEF StartOnly, Begin, runVars
  <2> QED
    BY <2>1 DEF FileStep
<1>3. ASSUME NEW kind \in Kinds, NEW when \in Whens, NEW target \in Tasks \cup {NoTask},
             Request(kind, when, target)
      PROVE  FileStep
  BY <1>3 DEF Request, queueVars, runVars, FileStep
<1>4. CASE Resume
  BY <1>4 DEF Resume, queueVars, runVars, FileStep
<1>5. CASE QueueEdit
  BY <1>5
  DEF QueueEdit, Add, Update, Remove, ResetProgress, SetSkipped, SetPending, Reorder, Clear,
      FileStep
<1> QED
  BY <1>1, <1>2, <1>3, <1>4, <1>5 DEF Client

(* Between tasks there is no current task, so nothing is left behind. *)
LEMMA LoopFile ==
  ASSUME TaskInv, Loop
  PROVE  FileStep
<1>1. at = "loop"
  BY DEF Loop, BoundaryEnd, BoundarySwitch, BoundarySkip, BoundaryPause, Execute,
         CompleteUnexecuted, NothingLeft
<1>2. current = NoTask
  BY <1>1 DEF TaskInv, OneTaskRuns
<1>3. savedDone' = done' \/ UNCHANGED <<done, savedDone>>
  BY DEF Loop, BoundaryEnd, BoundarySwitch, BoundarySkip, BoundaryPause, Execute,
         CompleteUnexecuted, NothingLeft, Finish, queueVars
<1> QED
  BY <1>2, <1>3 DEF FileStep

LEMMA OnRequestFile ==
  ASSUME NEW req, OnRequest(req)
  PROVE  FileStep
  BY DEF OnRequest, Finish, FileStep

LEMMA RunStepFile ==
  ASSUME TaskInv, RunStep
  PROVE  FileStep
<1>1. CASE Started
  <2>1. current = NoTask /\ UNCHANGED <<done, savedDone>>
    BY <1>1 DEF Started, TaskInv, OneTaskRuns, queueVars
  <2> QED
    BY <2>1 DEF FileStep
<1>2. CASE Loop
  BY <1>2, LoopFile
<1>3. CASE Ended
  <2>1. current = NoTask /\ UNCHANGED <<done, savedDone>>
    BY <1>3 DEF Ended, TaskInv, OneTaskRuns, queueVars
  <2> QED
    BY <2>1 DEF FileStep
<1>4. CASE WakeDone \/ WakeCrash
  BY <1>4 DEF WakeDone, WakeCrash, Finish, FileStep
<1>5. CASE WakeBoundary
  BY <1>5, OnRequestFile DEF WakeBoundary
<1>6. CASE WakeCancelled
  <2>1. PICK req : OnRequest(req)
    BY <1>6 DEF WakeCancelled
  <2> QED
    BY <2>1, OnRequestFile
<1>7. CASE WakeError
  BY <1>7 DEF WakeError, Finish, queueVars, FileStep
<1>8. CASE EnterPaused \/ PausedDropsPause \/ PausedResumes \/ Resumed
  BY <1>8
  DEF EnterPaused, PausedDropsPause, PausedResumes, Resumed, queueVars, runVars, FileStep
<1>9. CASE PausedTakes
  <2>1. OnRequest(request) \/ UNCHANGED <<queueVars, current>>
    BY <1>9 DEF PausedTakes
  <2> QED
    BY <2>1, OnRequestFile DEF queueVars, FileStep
<1> QED
  BY <1>1, <1>2, <1>3, <1>4, <1>5, <1>6, <1>7, <1>8, <1>9 DEF RunStep

(* A frame is only ever counted for the task being executed. *)
LEMMA FrameDoneFile ==
  ASSUME TypeOK, TaskInv, FileKeepsUp, NEW l \in Lanes, FrameDone(l)
  PROVE  FileKeepsUp'
<1>1. current \in Tasks /\ UNCHANGED <<current, savedDone>>
  BY DEF FrameDone, TaskInv, LanesInBody, WithinTask, runVars
<1>2. CASE UNCHANGED done
  BY <1>1, <1>2 DEF FileKeepsUp
<1>3. CASE done' = [done EXCEPT ![current][l] = @ + 1]
  BY <1>1, <1>3 DEF TypeOK, QueueTypeOK, FileKeepsUp
<1> QED
  BY <1>2, <1>3 DEF FrameDone

LEMMA BodyFile ==
  ASSUME TypeOK, TypeOK', TaskInv, FileKeepsUp, BodyStep \/ \E l \in Lanes : LaneStep(l)
  PROVE  FileKeepsUp'
<1>0. QueueTypeOK'
  BY DEF TypeOK
<1>1. ASSUME NEW l \in Lanes, LaneStep(l) PROVE FileKeepsUp'
  <2>1. CASE FrameDone(l)
    BY <2>1, FrameDoneFile
  <2>2. CASE ExposeFrame(l) \/ FrameCommitted(l) \/ LaneStops(l) \/ LaneDone(l)
    <3>1. FileStep
      BY <2>2 DEF ExposeFrame, FrameCommitted, LaneStops, LaneDone, queueVars, runVars, FileStep
    <3> QED
      BY <1>0, <3>1, FileStepKeepsUp
  <2> QED
    BY <1>1, <2>1, <2>2 DEF LaneStep
<1>2. CASE BodyStep
  <2>1. FileStep
    BY <1>2
    DEF BodyStep, SetupEnds, SetupStops, LanesReturn, BodyCancelled, DutiesEnd, BodyFails,
        Close, queueVars, runVars, FileStep
  <2> QED
    BY <1>0, <2>1, FileStepKeepsUp
<1> QED
  BY <1>1, <1>2

-----------------------------------------------------------------------------
(* Requests *)

(* No request outlives its run: the finally block of _main drops what is pending. *)
IdleHasNoRequest == at = "idle" => request = NoRequest

(* The only steps that end a run, or are taken without one. *)
LEMMA IdleSteps ==
  ASSUME IdleHasNoRequest, [Next]_vars
  PROVE  IdleHasNoRequest'
<1>1. CASE Client
  <2>1. ASSUME NEW only \in SUBSET Tasks, Start(only) PROVE IdleHasNoRequest'
    BY <2>1 DEF Start, Begin, IdleHasNoRequest
  <2>2. ASSUME NEW t \in Tasks, StartOnly(t) PROVE IdleHasNoRequest'
    BY <2>2 DEF StartOnly, Begin, runVars, ctlVars, IdleHasNoRequest
  <2>3. ASSUME NEW kind \in Kinds, NEW when \in Whens, NEW target \in Tasks \cup {NoTask},
               Request(kind, when, target)
        PROVE  IdleHasNoRequest'
    BY <2>3 DEF Request, IsRunning, runVars, IdleHasNoRequest
  <2>4. CASE Resume
    BY <2>4 DEF Resume, IsRunning, runVars, IdleHasNoRequest
  <2>5. CASE UNCHANGED <<runVars, bodyVars, ctlVars>>
    BY <2>5 DEF runVars, ctlVars, IdleHasNoRequest
  <2> QED
    BY <1>1, <2>1, <2>2, <2>3, <2>4, <2>5 DEF Client
<1>2. CASE Started \/ Loop \/ Ended
  BY <1>2
  DEF Started, Ended, Loop, BoundaryEnd, BoundarySwitch, BoundarySkip, BoundaryPause, Execute,
      CompleteUnexecuted, NothingLeft, EndRun, runVars, IdleHasNoRequest
<1>3. ASSUME NEW req, OnRequest(req), at # "idle" PROVE IdleHasNoRequest'
  BY <1>3 DEF OnRequest, EndRun, IdleHasNoRequest
<1>4. CASE WakeDone \/ WakeError \/ WakeCrash
  BY <1>4 DEF WakeDone, WakeError, WakeCrash, EndRun, IdleHasNoRequest
<1>5. CASE WakeBoundary \/ WakeCancelled
  BY <1>3, <1>5 DEF WakeBoundary, WakeCancelled
<1>6. CASE PausedTakes
  BY <1>3, <1>6 DEF PausedTakes, IdleHasNoRequest
<1>7. CASE EnterPaused \/ PausedDropsPause \/ PausedResumes \/ Resumed
  BY <1>7
  DEF EnterPaused, PausedDropsPause, PausedResumes, Resumed, runVars, IdleHasNoRequest
<1>8. CASE BodyStep
  BY <1>8
  DEF BodyStep, SetupEnds, SetupStops, LanesReturn, BodyCancelled, DutiesEnd, BodyFails, Close,
      runVars, ctlVars, IdleHasNoRequest
<1>9. CASE \E l \in Lanes : LaneStep(l)
  BY <1>9
  DEF LaneStep, ExposeFrame, FrameDone, FrameCommitted, LaneStops, LaneDone, runVars, ctlVars,
      IdleHasNoRequest
<1>10. CASE Crash \/ Shutdown
  BY <1>10 DEF Crash, Shutdown, NoProcess, IdleHasNoRequest
<1>11. CASE UNCHANGED vars
  BY <1>11 DEF vars, runVars, ctlVars, IdleHasNoRequest
<1> QED
  BY <1>1, <1>2, <1>4, <1>5, <1>6, <1>7, <1>8, <1>9, <1>10, <1>11 DEF Next, RunStep

-----------------------------------------------------------------------------
(* The invariant *)

(* The inductive invariant: the types alone do not bound which task a step of the run
   finishes or counts frames for, so the place of the current task comes with them. *)
IInv == TypeOK /\ TaskInv /\ FileKeepsUp /\ IdleHasNoRequest

LEMMA InitInv == Init => IInv
<1> SUFFICES ASSUME Init PROVE IInv
  OBVIOUS
<1>1. FileKeepsUp
  BY DEF Init, QueueInit, NoFrames, FileKeepsUp
<1>2. IdleHasNoRequest
  BY DEF Init, IdleHasNoRequest
<1> QED
  BY <1>1, <1>2, InitType, InitTask DEF IInv

LEMMA NextInv == IInv /\ [Next]_vars => IInv'
<1> SUFFICES ASSUME IInv, [Next]_vars PROVE IInv'
  OBVIOUS
<1> USE DEF IInv
<1>0. IdleHasNoRequest'
  BY IdleSteps
<1>1. CASE Client
  <2>1. TypeOK' /\ TaskInv' /\ FileStep
    BY <1>1, ClientType, ClientTask, ClientFile
  <2> QED
    BY <1>0, <2>1, FileStepKeepsUp DEF TypeOK
<1>2. CASE RunStep
  <2>1. TypeOK' /\ TaskInv' /\ FileStep
    BY <1>2, RunStepType, RunStepTask, RunStepFile DEF TaskInv
  <2> QED
    BY <1>0, <2>1, FileStepKeepsUp DEF TypeOK
<1>3. CASE BodyStep
  <2>1. TypeOK'
    BY <1>3, BodyStepType DEF TaskInv, LanesInBody
  <2> QED
    BY <1>0, <1>3, <2>1, BodyTask, BodyFile
<1>4. CASE \E l \in Lanes : LaneStep(l)
  <2>1. TypeOK'
    BY <1>4, LaneStepType
  <2> QED
    BY <1>0, <1>4, <2>1, BodyTask, BodyFile
<1>5. CASE Crash \/ Shutdown
  <2>1. TypeOK' /\ TaskInv'
    BY <1>5, ProcessType, ProcessTask
  <2>2. savedDone' = done'
    BY <1>5 DEF Crash, Shutdown, Load
  <2> QED
    BY <1>0, <2>1, <2>2, FileStepKeepsUp DEF FileStep, TypeOK
<1>6. CASE UNCHANGED vars
  BY <1>0, <1>6
  DEF vars, queueVars, runVars, bodyVars, ctlVars, TypeOK, QueueTypeOK, TaskInv, OneTaskRuns,
      LanesInBody, WithinTask, FileKeepsUp
<1> QED
  BY <1>1, <1>2, <1>3, <1>4, <1>5, <1>6 DEF Next

(* IInv holds in every state of every behaviour of the runner. *)
THEOREM Invariance == Spec => []IInv
  BY InitInv, NextInv, PTL DEF Spec

(* Every variable of the runner and its queue keeps its type, whatever clients ask for
   and whatever fails (runner.py, service.py). *)
THEOREM TypeCorrect == Spec => []TypeOK
<1>1. IInv => TypeOK
  BY DEF IInv
<1> QED
  BY <1>1, Invariance, PTL

(* The queue entry marked running is the one the runner executes, for any number of
   tasks: the guard of the queue's edits (service.py, _check_not_running) is sound. *)
THEOREM OneTaskAtATime == Spec => []OneTaskRuns
<1>1. IInv => OneTaskRuns
  BY DEF IInv, TaskInv
<1> QED
  BY <1>1, Invariance, PTL

(* The queue file is behind the memory only for the task being executed, so a restart
   loses no frame of any other task (service.py commit, runner.py _finish_task). *)
THEOREM FileIsCurrent == Spec => []FileKeepsUp
<1>1. IInv => FileKeepsUp
  BY DEF IInv
<1> QED
  BY <1>1, Invariance, PTL

-----------------------------------------------------------------------------
(* A stop is never lost *)

(* What a step may do while a stop or a cancel is pending. *)
KeepsStop ==
  at' # "idle" =>
    /\ request'.kind \in Ends
    /\ request.when # "task" => \A l \in Lanes : lane'[l] = "exposing" => lane[l] = "exposing"

(* A step that keeps the request and starts no exposure. *)
LEMMA QuietStep ==
  ASSUME request.kind \in Ends, UNCHANGED request,
         \A l \in Lanes : lane'[l] = "exposing" => lane[l] = "exposing"
  PROVE  KeepsStop
  BY DEF KeepsStop

LEMMA EndsDistinct ==
  /\ NoRequest.kind \notin Ends
  /\ \A kind \in {"pause", "skip", "switch"} : kind \notin Ends
  BY DEF NoRequest, Ends

(* _on_request ends the run when it acts on a stop; on anything else it starts nothing. *)
LEMMA OnRequestStop ==
  ASSUME NEW req, OnRequest(req), request.kind \in Ends,
         req.kind \in Ends \/ UNCHANGED request
  PROVE  KeepsStop
<1>1. CASE req.kind \in Ends
  <2>1. at' = "idle"
    BY <1>1, EndsDistinct DEF OnRequest, EndRun
  <2> QED
    BY <2>1 DEF KeepsStop
<1>2. CASE req.kind \notin Ends
  <2>1. lane' = LanesOff
    BY <1>2 DEF OnRequest, NoBody
  <2> QED
    BY <1>2, <2>1, QuietStep DEF LanesOff
<1> QED
  BY <1>1, <1>2

LEMMA ClientStop ==
  ASSUME TypeOK, IdleHasNoRequest, request.kind \in Ends, Client
  PROVE  KeepsStop
<1>1. at # "idle"
  BY EndsDistinct DEF IdleHasNoRequest
<1>2. ASSUME NEW only \in SUBSET Tasks, Start(only) PROVE KeepsStop
  BY <1>1, <1>2 DEF Start, IsRunning
<1>3. ASSUME NEW t \in Tasks, StartOnly(t) PROVE KeepsStop
  BY <1>1, <1>3 DEF StartOnly, IsRunning
<1>4. ASSUME NEW kind \in Kinds, NEW when \in Whens, NEW target \in Tasks \cup {NoTask},
             Request(kind, when, target)
      PROVE  KeepsStop
  <2>1. request' = [kind |-> kind, when |-> when, target |-> target] /\ UNCHANGED lane
    BY <1>4 DEF Request
  <2>2. kind \in Ends
    BY <1>4 DEF Request, Priority, Kinds, Ends
  <2> QED
    BY <2>1, <2>2 DEF KeepsStop
<1>5. CASE Resume
  <2>1. UNCHANGED <<request, lane>>
    BY <1>5, EndsDistinct DEF Resume, bodyVars
  <2> QED
    BY <2>1, QuietStep
<1>6. CASE UNCHANGED <<runVars, bodyVars, ctlVars>>
  BY <1>6, QuietStep DEF bodyVars, ctlVars
<1> QED
  BY <1>2, <1>3, <1>4, <1>5, <1>6 DEF Client

LEMMA LoopStop ==
  ASSUME request.kind \in Ends, Loop
  PROVE  KeepsStop
<1>1. request # NoRequest /\ request.kind \notin {"pause", "skip", "switch"}
  BY EndsDistinct
<1>2. CASE BoundaryEnd
  BY <1>2 DEF BoundaryEnd, EndRun, KeepsStop
<1> QED
  BY <1>1, <1>2
  DEF Loop, BoundarySwitch, BoundarySkip, BoundaryPause, Execute, CompleteUnexecuted,
      NothingLeft, NothingPending

LEMMA RunStepStop ==
  ASSUME request.kind \in Ends, RunStep
  PROVE  KeepsStop
<1>0. request # NoRequest
  BY EndsDistinct
<1>1. ASSUME NoBody, UNCHANGED request PROVE KeepsStop
  BY <1>1, QuietStep DEF NoBody, LanesOff
<1>2. ASSUME EndRun PROVE KeepsStop
  BY <1>2 DEF EndRun, KeepsStop
<1>3. CASE Started
  BY <1>2, <1>3, QuietStep DEF Started, bodyVars
<1>4. CASE Loop
  BY <1>4, LoopStop
<1>5. CASE Ended \/ WakeCrash
  BY <1>2, <1>5 DEF Ended, WakeCrash
<1>6. CASE WakeDone
  BY <1>1, <1>6 DEF WakeDone, ctlVars
<1>7. CASE WakeBoundary
  <2>1. result.req.kind \in Ends \/ UNCHANGED request
    BY <1>7 DEF WakeBoundary, Take
  <2> QED
    BY <1>7, <2>1, OnRequestStop DEF WakeBoundary
<1>8. CASE WakeCancelled
  BY <1>0, <1>8, OnRequestStop DEF WakeCancelled
<1>9. CASE WakeError
  <2>1. CASE OnError[current] = "pause"
    <3>1. lane' = LanesOff /\ UNCHANGED request
      BY <1>9, <2>1 DEF WakeError, ctlVars
    <3> QED
      BY <3>1, QuietStep DEF LanesOff
  <2>2. CASE OnError[current] # "pause"
    BY <1>1, <1>2, <1>9, <2>2 DEF WakeError, ctlVars
  <2> QED
    BY <2>1, <2>2
<1>10. CASE EnterPaused \/ PausedResumes
  BY <1>10, QuietStep DEF EnterPaused, PausedResumes, bodyVars
<1>11. CASE PausedDropsPause
  BY <1>11, EndsDistinct DEF PausedDropsPause
<1>12. CASE PausedTakes
  <2>1. CASE current = NoTask
    BY <1>12, <2>1, QuietStep DEF PausedTakes, bodyVars, ctlVars
  <2>2. CASE current # NoTask
    BY <1>12, <2>2, OnRequestStop DEF PausedTakes
  <2> QED
    BY <2>1, <2>2
<1>13. CASE Resumed
  <2>1. \A l \in Lanes : lane'[l] # "exposing"
    BY <1>13 DEF Resumed, StartBody, LanesOff
  <2> QED
    BY <1>13, <2>1, QuietStep DEF Resumed
<1> QED
  BY <1>3, <1>4, <1>5, <1>6, <1>7, <1>8, <1>9, <1>10, <1>11, <1>12, <1>13 DEF RunStep

LEMMA LaneStop ==
  ASSUME TypeOK, NEW l \in Lanes, LaneStep(l), request.kind \in Ends
  PROVE  KeepsStop
<1>1. CASE ExposeFrame(l)
  <2>1. request # NoRequest /\ UNCHANGED request
    BY <1>1, EndsDistinct DEF ExposeFrame, ctlVars
  <2>2. request.when = "task"
    BY <1>1, <2>1 DEF ExposeFrame, FrameRequest, TypeOK, Requests
  <2> QED
    BY <2>1, <2>2 DEF KeepsStop
<1>2. CASE FrameDone(l) \/ FrameCommitted(l) \/ LaneStops(l) \/ LaneDone(l)
  <2>1. UNCHANGED request
    BY <1>2 DEF FrameDone, FrameCommitted, LaneStops, LaneDone, ctlVars
  <2>2. \A m \in Lanes : lane'[m] = "exposing" => lane[m] = "exposing"
    BY <1>2 DEF FrameDone, FrameCommitted, LaneStops, LaneDone, TypeOK
  <2> QED
    BY <2>1, <2>2, QuietStep
<1> QED
  BY <1>1, <1>2 DEF LaneStep

LEMMA BodyStop ==
  ASSUME TypeOK, BodyStep, request.kind \in Ends
  PROVE  KeepsStop
<1>1. UNCHANGED request
  BY DEF BodyStep, SetupEnds, SetupStops, LanesReturn, BodyCancelled, DutiesEnd, BodyFails,
         Close, ctlVars
<1>2. \A m \in Lanes : lane'[m] = "exposing" => lane[m] = "exposing"
  <2>1. CASE SetupEnds
    BY <2>1 DEF SetupEnds, StartBody
  <2>2. CASE DutiesEnd
    BY <2>2 DEF DutiesEnd, TypeOK
  <2>3. CASE UNCHANGED lane \/ lane' = LanesOff
    BY <2>3 DEF LanesOff
  <2> QED
    BY <2>1, <2>2, <2>3
    DEF BodyStep, SetupStops, LanesReturn, BodyCancelled, BodyFails
<1> QED
  BY <1>1, <1>2, QuietStep

(* An accepted stop or cancel stays pending until the run has ended, and once it is due at
   a frame boundary no lane starts an exposure: for any number of tasks and cameras,
   whatever clients and faults do (runner.py, request and pending_frame_request). *)
THEOREM StopIsNeverLost == Spec => StopIsFinal
<1>1. ASSUME IInv, Next, request.kind \in Ends PROVE KeepsStop
  <2>1. CASE Crash \/ Shutdown
    BY <2>1 DEF Crash, Shutdown, NoProcess, KeepsStop
  <2> QED
    BY <1>1, <2>1, ClientStop, RunStepStop, BodyStop, LaneStop DEF Next, IInv
<1>2. ASSUME UNCHANGED vars, request.kind \in Ends PROVE KeepsStop
  BY <1>2, QuietStep DEF vars, bodyVars, ctlVars
<1>3. IInv /\ [Next]_vars =>
        [request.kind \in Ends /\ at' # "idle" =>
           /\ request'.kind \in Ends
           /\ request.when # "task" =>
                \A l \in Lanes : lane'[l] = "exposing" => lane[l] = "exposing"]_vars
  BY <1>1, <1>2 DEF KeepsStop
<1> QED
  BY <1>3, Invariance, PTL DEF Spec, StopIsFinal

-----------------------------------------------------------------------------
(* A skip does not reach another task *)

\* What a step may do while a skip is pending.
KeepsSkip == at' # "loop" => UNCHANGED current \/ request'.kind # "skip"

\* _on_request leaves its task for the loop, ends the run or stays with the task.
LEMMA OnRequestSkip ==
  ASSUME NEW req, OnRequest(req)
  PROVE  KeepsSkip
  BY DEF OnRequest, EndRun, NoRequest, KeepsSkip

LEMMA RunStepSkip ==
  ASSUME request.kind = "skip", RunStep
  PROVE  KeepsSkip
<1>1. CASE UNCHANGED current \/ at' = "loop"
  BY <1>1 DEF KeepsSkip
<1>2. CASE EndRun
  BY <1>2 DEF EndRun, NoRequest, KeepsSkip
<1>3. CASE Started \/ Ended \/ WakeCrash
  BY <1>1, <1>2, <1>3 DEF Started, Ended, WakeCrash
<1>4. CASE WakeDone \/ WakeError
  <2>1. at' = "loop" \/ UNCHANGED current \/ EndRun
    BY <1>4 DEF WakeDone, WakeError
  <2> QED
    BY <1>1, <1>2, <2>1
<1>5. CASE Loop
  <2>1. request # NoRequest
    BY DEF NoRequest
  <2>2. UNCHANGED current \/ EndRun
    BY <1>5, <2>1
    DEF Loop, BoundaryEnd, BoundarySwitch, BoundarySkip, BoundaryPause, Execute, CompleteUnexecuted,
        NothingLeft, NothingPending, runVars
  <2> QED
    BY <1>1, <1>2, <2>2
<1>6. CASE WakeBoundary \/ WakeCancelled
  BY <1>6, OnRequestSkip DEF WakeBoundary, WakeCancelled
<1>7. CASE EnterPaused \/ PausedDropsPause \/ PausedTakes \/ PausedResumes \/ Resumed
  BY <1>1, <1>7, OnRequestSkip DEF EnterPaused, PausedDropsPause, PausedTakes, PausedResumes, Resumed
<1> QED
  BY <1>3, <1>4, <1>5, <1>6, <1>7 DEF RunStep

(* A pending skip is only ever acted on for the task that was running when it was asked for: whoever leaves
   that task also leaves the skip behind, or goes through the boundary that drops it (runner.py,
   skip_current and _task_boundary). *)
THEOREM SkipReachesNoOther == Spec => SkipStaysWithItsTask
<1>1. ASSUME Next, request.kind = "skip" PROVE KeepsSkip
  <2>1. CASE Client
    <3>1. UNCHANGED current
      BY <2>1 DEF Client, Start, StartOnly, Begin, Request, Resume, runVars
    <3> QED
      BY <3>1 DEF KeepsSkip
  <2>2. CASE BodyStep \/ \E l \in Lanes : LaneStep(l)
    <3>1. UNCHANGED current
      BY <2>2
      DEF BodyStep, SetupEnds, SetupStops, LanesReturn, BodyCancelled, DutiesEnd, BodyFails, Close,
          LaneStep, ExposeFrame, FrameDone, FrameCommitted, LaneStops, LaneDone, runVars
    <3> QED
      BY <3>1 DEF KeepsSkip
  <2>3. CASE Crash \/ Shutdown
    <3>1. NoProcess
      BY <2>3 DEF Crash, Shutdown
    <3> QED
      BY <3>1 DEF NoProcess, NoRequest, KeepsSkip
  <2> QED
    BY <1>1, <2>1, <2>2, <2>3, RunStepSkip DEF Next
<1>2. ASSUME UNCHANGED vars PROVE KeepsSkip
  BY <1>2 DEF vars, runVars, KeepsSkip
<1>3. [Next]_vars =>
        [request.kind = "skip" /\ at' # "loop" => current' = current \/ request'.kind # "skip"]_vars
  BY <1>1, <1>2 DEF KeepsSkip
<1> QED
  BY <1>3, PTL DEF Spec, SkipStaysWithItsTask

-----------------------------------------------------------------------------
(***************************************************************************)
(* The runner implements the ledger of frames (FrameLedger).               *)
(***************************************************************************)
\* What a step of the runner has to be for the ledger: one of its steps, or none.
LedgerStep == Ledger!LedgerNext \/ UNCHANGED <<current, done, savedDone>>

LEMMA InitLedger == Init => Ledger!LedgerInit
  BY DEF Init, QueueInit, NoFrames, Ledger!LedgerInit

-----------------------------------------------------------------------------
(* Steps that only bring the file up to date, or leave a task. *)

LEMMA FilesOrNothing ==
  ASSUME UNCHANGED <<current, done>>, savedDone' = done \/ savedDone' = savedDone
  PROVE  LedgerStep
  BY DEF LedgerStep, Ledger!LedgerNext, Ledger!Files

LEMMA LeavesTask ==
  ASSUME current' = NoTask, savedDone' = done, done' = done
  PROVE  LedgerStep
  BY DEF LedgerStep, Ledger!LedgerNext, Ledger!Leaves

LEMMA OnRequestLedger ==
  ASSUME NEW req, OnRequest(req)
  PROVE  LedgerStep
<1>1. UNCHANGED done /\ savedDone' = done
  BY DEF OnRequest, Finish
<1>2. UNCHANGED current \/ current' = NoTask
  BY DEF OnRequest, EndRun
<1> QED
  BY <1>1, <1>2, FilesOrNothing, LeavesTask

-----------------------------------------------------------------------------
(* Clients *)

\* An edit keeps or clears counts, and those of the task being executed are kept because
\* the entry marked running is that task.
LEMMA EditKeepsCounts ==
  ASSUME QueueTypeOK, TaskInv, QueueEdit, NEW u \in Tasks, NEW l \in Lanes
  PROVE  \/ done'[u][l] = done[u][l]
         \/ u # current /\ done'[u][l] = 0
<1>1. ASSUME NEW t \in Tasks, t # current, NEW frames \in [Lanes -> Nat],
             done' = [done EXCEPT ![t] = frames],
             frames[l] = 0 \/ frames[l] = done[t][l]
      PROVE  \/ done'[u][l] = done[u][l]
             \/ u # current /\ done'[u][l] = 0
  BY <1>1 DEF QueueTypeOK
<1>2. ASSUME NEW t \in Tasks, status[t] # "running" PROVE t # current
  BY <1>2 DEF TaskInv, OneTaskRuns
<1>3. NoFrames \in [Lanes -> Nat] /\ NoFrames[l] = 0
  BY DEF NoFrames
<1>4. ASSUME NEW t \in Tasks, Add(t) \/ ResetProgress(t)
      PROVE  \/ done'[u][l] = done[u][l]
             \/ u # current /\ done'[u][l] = 0
  <2>1. status[t] # "running" /\ done' = [done EXCEPT ![t] = NoFrames]
    BY <1>4 DEF Add, ResetProgress, Editable
  <2> QED
    BY <1>1, <1>2, <1>3, <2>1
<1>5. ASSUME NEW t \in Tasks, Update(t)
      PROVE  \/ done'[u][l] = done[u][l]
             \/ u # current /\ done'[u][l] = 0
  <2>1. PICK kept \in SUBSET Lanes :
          done' = [done EXCEPT ![t] = [m \in Lanes |-> IF m \in kept THEN done[t][m] ELSE 0]]
    BY <1>5 DEF Update
  <2>2. [m \in Lanes |-> IF m \in kept THEN done[t][m] ELSE 0] \in [Lanes -> Nat]
    BY DEF QueueTypeOK
  <2>3. status[t] # "running"
    BY <1>5 DEF Update, Editable
  <2> QED
    BY <1>1, <1>2, <2>1, <2>2, <2>3
<1>6. ASSUME \/ Reorder \/ Clear
             \/ \E t \in Tasks : Remove(t) \/ SetSkipped(t) \/ SetPending(t)
      PROVE  done'[u][l] = done[u][l]
  BY <1>6 DEF Reorder, Clear, Remove, SetSkipped, SetPending
<1> QED
  BY <1>4, <1>5, <1>6 DEF QueueEdit

LEMMA EditLedger ==
  ASSUME QueueTypeOK, TaskInv, QueueEdit, UNCHANGED current
  PROVE  LedgerStep
<1>1. done' \in [Tasks -> [Lanes -> Nat]]
  BY QueueEditType DEF QueueTypeOK
<1>2. savedDone' = done'
  BY DEF QueueEdit, Add, Update, Remove, ResetProgress, SetSkipped, SetPending, Reorder, Clear
<1>3. \A u \in Tasks, l \in Lanes : Ledger!IsEdited(u, l)
  BY EditKeepsCounts DEF Ledger!IsEdited
<1>4. Ledger!Rewrites
  BY <1>1, <1>2, <1>3 DEF Ledger!Rewrites
<1> QED
  BY <1>4 DEF LedgerStep, Ledger!LedgerNext

LEMMA ClientLedger ==
  ASSUME IInv, Client
  PROVE  LedgerStep
<1>1. ASSUME NEW only \in SUBSET Tasks, Start(only) PROVE LedgerStep
  BY <1>1, FilesOrNothing DEF Start, Begin, queueVars
<1>2. ASSUME NEW t \in Tasks, StartOnly(t) PROVE LedgerStep
  <2>1. UNCHANGED <<current, done>> /\ (savedDone' = savedDone \/ savedDone' = done)
    BY <1>2 DEF StartOnly, Begin, runVars
  <2> QED
    BY <2>1, FilesOrNothing
<1>3. ASSUME NEW kind \in Kinds, NEW when \in Whens, NEW target \in Tasks \cup {NoTask},
             Request(kind, when, target)
      PROVE  LedgerStep
  BY <1>3, FilesOrNothing DEF Request, queueVars, runVars
<1>4. CASE Resume
  BY <1>4, FilesOrNothing DEF Resume, queueVars, runVars
<1>5. CASE QueueEdit /\ UNCHANGED <<runVars, bodyVars, ctlVars>>
  BY <1>5, EditLedger DEF IInv, TypeOK, runVars
<1> QED
  BY <1>1, <1>2, <1>3, <1>4, <1>5 DEF Client

-----------------------------------------------------------------------------
(* The run *)

\* Between two tasks none is worked on, so the next one may be taken up.
LEMMA LoopLedger ==
  ASSUME IInv, Loop
  PROVE  LedgerStep
<1>1. current = NoTask
  BY DEF Loop, BoundaryEnd, BoundarySwitch, BoundarySkip, BoundaryPause, Execute,
         CompleteUnexecuted, NothingLeft, IInv, TaskInv, OneTaskRuns
<1>2. ASSUME NEW t \in Tasks, Execute(t) PROVE LedgerStep
  <2>1. Ledger!TakesUp(t)
    BY <1>1, <1>2 DEF Execute, Finish, Ledger!TakesUp
  <2> QED
    BY <2>1 DEF LedgerStep, Ledger!LedgerNext
<1>3. ASSUME NEW t \in Tasks, CompleteUnexecuted(t) PROVE LedgerStep
  BY <1>3, FilesOrNothing DEF CompleteUnexecuted, Finish
<1>4. CASE BoundaryEnd
  BY <1>1, <1>4, FilesOrNothing DEF BoundaryEnd, EndRun, queueVars
<1>5. CASE BoundarySwitch \/ BoundarySkip \/ BoundaryPause \/ NothingLeft
  BY <1>5, FilesOrNothing
  DEF BoundarySwitch, BoundarySkip, BoundaryPause, NothingLeft, queueVars, runVars
<1> QED
  BY <1>2, <1>3, <1>4, <1>5 DEF Loop

LEMMA RunStepLedger ==
  ASSUME IInv, RunStep
  PROVE  LedgerStep
<1>1. CASE Started \/ Ended
  <2>1. current = NoTask
    BY <1>1 DEF Started, Ended, IInv, TaskInv, OneTaskRuns
  <2>2. UNCHANGED <<current, done, savedDone>>
    BY <1>1, <2>1 DEF Started, Ended, EndRun, queueVars
  <2> QED
    BY <2>2 DEF LedgerStep
<1>2. CASE Loop
  BY <1>2, LoopLedger
<1>3. CASE WakeDone \/ WakeCrash
  BY <1>3, LeavesTask DEF WakeDone, WakeCrash, Finish, EndRun
<1>4. CASE WakeBoundary
  BY <1>4, OnRequestLedger DEF WakeBoundary
<1>5. CASE WakeCancelled
  <2>1. PICK req : OnRequest(req)
    BY <1>5 DEF WakeCancelled
  <2> QED
    BY <2>1, OnRequestLedger
<1>6. CASE WakeError
  <2>1. \/ current' = NoTask /\ savedDone' = done /\ done' = done
        \/ UNCHANGED <<current, done, savedDone>>
    BY <1>6 DEF WakeError, Finish, EndRun, queueVars
  <2> QED
    BY <2>1, LeavesTask, FilesOrNothing
<1>7. CASE EnterPaused \/ PausedDropsPause \/ PausedResumes \/ Resumed
  BY <1>7, FilesOrNothing
  DEF EnterPaused, PausedDropsPause, PausedResumes, Resumed, queueVars, runVars
<1>8. CASE PausedTakes
  <2>1. OnRequest(request) \/ UNCHANGED <<queueVars, current>>
    BY <1>8 DEF PausedTakes
  <2> QED
    BY <2>1, OnRequestLedger, FilesOrNothing DEF queueVars
<1> QED
  BY <1>1, <1>2, <1>3, <1>4, <1>5, <1>6, <1>7, <1>8 DEF RunStep

-----------------------------------------------------------------------------
(* The task body and the process *)

LEMMA LaneLedger ==
  ASSUME IInv, NEW l \in Lanes, LaneStep(l)
  PROVE  LedgerStep
<1>1. CASE FrameDone(l)
  <2>1. current # NoTask /\ UNCHANGED <<current, savedDone>>
    BY <1>1, NoTaskAssumption
    DEF FrameDone, IInv, TaskInv, LanesInBody, WithinTask, runVars
  <2>2. CASE UNCHANGED done
    BY <2>1, <2>2, FilesOrNothing
  <2>3. CASE done' = [done EXCEPT ![current][l] = @ + 1]
    <3>1. Ledger!TakesFrame(l)
      BY <2>1, <2>3 DEF Ledger!TakesFrame
    <3> QED
      BY <3>1 DEF LedgerStep, Ledger!LedgerNext
  <2> QED
    BY <1>1, <2>2, <2>3 DEF FrameDone
<1>2. CASE ExposeFrame(l) \/ FrameCommitted(l) \/ LaneStops(l) \/ LaneDone(l)
  BY <1>2, FilesOrNothing
  DEF ExposeFrame, FrameCommitted, LaneStops, LaneDone, queueVars, runVars
<1> QED
  BY <1>1, <1>2 DEF LaneStep

LEMMA BodyLedger ==
  ASSUME BodyStep
  PROVE  LedgerStep
  BY FilesOrNothing
  DEF BodyStep, SetupEnds, SetupStops, LanesReturn, BodyCancelled, DutiesEnd, BodyFails, Close,
      queueVars, runVars

LEMMA ProcessLedger ==
  ASSUME Crash \/ Shutdown
  PROVE  LedgerStep
<1>1. CASE Crash
  <2>1. Ledger!Restarts
    BY <1>1 DEF Crash, Load, NoProcess, Ledger!Restarts
  <2> QED
    BY <2>1 DEF LedgerStep, Ledger!LedgerNext
<1>2. CASE Shutdown
  BY <1>2, LeavesTask DEF Shutdown, NoProcess
<1> QED
  BY <1>1, <1>2

-----------------------------------------------------------------------------
(* Refinement: with the current task as the one worked on, the counts in memory and those
   in the queue file, every behaviour of the runner is one of the ledger, for any tasks
   and cameras, whatever clients ask for and whatever fails: frames are counted one at a
   time and only for the task being executed, no edit touches them, no task is left before
   its frames are on disk, and a restart goes back to the file (runner.py, lanes.py,
   service.py, store.py). *)
THEOREM RunnerKeepsLedger == Spec => KeepsLedger
<1>1. Init => Ledger!LedgerInit
  BY InitLedger
<1>2. IInv /\ [Next]_vars => [Ledger!LedgerNext]_(Ledger!ledger)
  <2> SUFFICES ASSUME IInv, [Next]_vars PROVE LedgerStep
    BY DEF LedgerStep, Ledger!ledger
  <2>1. CASE UNCHANGED vars
    BY <2>1, FilesOrNothing DEF vars, queueVars, runVars
  <2>2. CASE Next
    BY <2>2, ClientLedger, RunStepLedger, BodyLedger, LaneLedger, ProcessLedger DEF Next
  <2> QED
    BY <2>1, <2>2
<1> QED
  BY <1>1, <1>2, Invariance, PTL DEF Spec, KeepsLedger, Ledger!LedgerSpec
=============================================================================
