---------------------------- MODULE CameraProofs ----------------------------
(***************************************************************************)
(* Proofs about the cameras: about Imager, which exposes with one, for any *)
(* number of exposing tasks and callers, and about SequencerRig, where     *)
(* several share a mount, for any number of lanes, any plan and any times. *)
(*                                                                         *)
(* The argument about Imager: what a halt finds at the camera or behind it *)
(* is marked and the mark stays until the exposure is dropped; and         *)
(* whenever the state says busy, some task or call is there that will      *)
(* reset it, a mark taken away from a task being one that the halting call *)
(* answers for.                                                            *)
(*                                                                         *)
(* The argument about SequencerRig: a lane is busy before it exposes and   *)
(* the mount is announced before the primary looks at who is; and the plan *)
(* that the primary publishes never promises more time until its next      *)
(* dither than its frames will take, so that a frame found to fit ends     *)
(* before it.                                                              *)
(***************************************************************************)
EXTENDS Imager, SequencerRig, TLAPS

-----------------------------------------------------------------------------
(* Imager: the tasks that expose. *)

\* The part of the types that the argument uses.
TaskTypes ==
  /\ kind \in [Exposures -> {"none", "single", "loop"}]
  /\ phase \in [Exposures -> Phases]
  /\ met \in [Exposures -> {"no", "before", "during", "after"}]
  /\ \A e \in Exposures : kind[e] = "none" <=> phase[e] = "none"
  /\ \A e \in Exposures : phase[e] = "abort" => kind[e] = "single"
  /\ \A e \in cancelled : e \in Exposures /\ phase[e] # "none"

\* Where a halt may have met an exposure.
MetInv ==
  \A e \in Exposures :
    /\ phase[e] \in {"none", "created"} => met[e] = "no"
    /\ phase[e] \in {"prepare", "upload", "save", "between"} => met[e] # "during"

TaskInv == TaskTypes /\ MetInv

LEMMA InitTasks == ImagerInit => TaskInv
  BY DEF ImagerInit, TaskInv, TaskTypes, MetInv, Phases

LEMMA UnusedIsFree ==
  ASSUME TaskInv, NEW e \in Unused
  PROVE  e \in Exposures /\ phase[e] = "none" /\ kind[e] = "none" /\ met[e] = "no" /\ e \notin cancelled
  BY DEF Unused, Working, TaskInv, TaskTypes, MetInv

LEMMA CreationTasks ==
  ASSUME TaskInv, NEW e \in Exposures, Expose(e) \/ StartLoop(e) \/ Cancel(e)
  PROVE  TaskInv'
<1>1. CASE Expose(e)
  BY <1>1, UnusedIsFree DEF Expose, Moves, TaskInv, TaskTypes, MetInv, Phases
<1>2. CASE StartLoop(e)
  BY <1>2, UnusedIsFree DEF StartLoop, Moves, TaskInv, TaskTypes, MetInv, Phases
<1>3. CASE Cancel(e)
  BY <1>3 DEF Cancel, TaskInv, TaskTypes, MetInv
<1> QED
  BY <1>1, <1>2, <1>3

LEMMA OverTasks ==
  ASSUME TaskInv, NEW e \in Exposures, Over(e)
  PROVE  TaskInv'
  BY DEF Over, TaskInv, TaskTypes, MetInv, Phases

\* A task goes on to where its mark may be.
LEMMA MovesTasks ==
  ASSUME TaskInv, NEW e \in Exposures, NEW p \in Phases \ {"none", "created"}, Moves(e, p), phase[e] # "none",
         cancelled' \subseteq cancelled, UNCHANGED <<kind, met>>,
         p \in {"prepare", "upload", "save", "between"} => met[e] # "during",
         p = "abort" => kind[e] = "single"
  PROVE  TaskInv'
  BY DEF Moves, TaskInv, TaskTypes, MetInv

LEMMA AbandonsTasks ==
  ASSUME TaskInv, NEW e \in Exposures, phase[e] # "none", Abandons(e)
  PROVE  TaskInv'
  BY OverTasks, MovesTasks DEF Abandons, Moves, Phases

LEMMA StepTasks ==
  ASSUME TaskInv, NEW e \in Exposures, TaskStep(e)
  PROVE  TaskInv'
<1> USE DEF At
<1>1. CASE NextFrame(e)
  <2>1. phase[e] \in {"created", "between"} /\ Moves(e, "prepare") /\ met' = [met EXCEPT ![e] = "no"]
        /\ UNCHANGED <<kind, cancelled>>
    BY <1>1 DEF NextFrame
  <2> QED
    BY <2>1 DEF Moves, TaskInv, TaskTypes, MetInv, Phases
<1>2. CASE LoopDone(e) \/ FilesFail(e) \/ NoCamera(e) \/ AbortEnds(e) \/ Dropped(e)
  BY <1>2, OverTasks DEF LoopDone, FilesFail, NoCamera, AbortEnds, Dropped, Raises, Quits
<1>3. CASE Prepared(e) \/ Uploaded(e) \/ FrameArrives(e) \/ CameraFails(e)
  BY <1>3, MovesTasks DEF Prepared, Uploaded, FrameArrives, CameraFails, Phases, TaskInv, MetInv
<1>4. CASE Restored(e)
  BY <1>4, OverTasks, MovesTasks, AbandonsTasks DEF Restored, Raises, Quits, Phases
<1>5. CASE Saved(e)
  BY <1>5, OverTasks, MovesTasks DEF Saved, Phases, TaskInv, MetInv
<1>6. CASE Cancelled(e)
  <2>1. phase[e] # "none"
    BY <1>6 DEF Cancelled, TaskInv, TaskTypes
  <2>2. CASE Over(e) \/ Abandons(e)
    BY <2>1, <2>2, OverTasks, AbandonsTasks
  <2>3. CASE Moves(e, "unwind") /\ cancelled' = cancelled \ {e} /\ UNCHANGED <<kind, met>>
    BY <2>1, <2>3, MovesTasks DEF Phases
  <2> QED
    BY <1>6, <2>2, <2>3 DEF Cancelled
<1> QED
  BY <1>1, <1>2, <1>3, <1>4, <1>5, <1>6 DEF TaskStep

LEMMA CountsUpTasks ==
  ASSUME TaskInv, NEW c \in Clients, CountsUp(c), UNCHANGED <<kind, phase, cancelled>>
  PROVE  TaskInv'
<1>1. met' = [e \in Exposures |->
         CASE phase[e] \in {"prepare", "upload"} -> "before"
           [] phase[e] \in {"camera", "frame"} -> "during"
           [] phase[e] = "save" -> "after"
           [] OTHER -> met[e]]
  BY DEF CountsUp
<1>2. ASSUME NEW e \in Exposures
      PROVE  /\ phase[e] \in {"prepare", "upload"} => met'[e] = "before"
             /\ phase[e] \in {"camera", "frame"} => met'[e] = "during"
             /\ phase[e] = "save" => met'[e] = "after"
             /\ phase[e] \notin {"prepare", "upload", "camera", "frame", "save"} => met'[e] = met[e]
  BY <1>1
<1>3. met' \in [Exposures -> {"no", "before", "during", "after"}]
  BY <1>1, <1>2 DEF TaskInv, TaskTypes
<1> QED
  BY <1>2, <1>3 DEF TaskInv, TaskTypes, MetInv

LEMMA CallTasks ==
  ASSUME TaskInv, NEW c \in Clients, StopLoop(c) \/ Halt(c) \/ CallStep(c)
  PROVE  TaskInv'
<1>1. CASE UNCHANGED <<kind, phase, cancelled, met>>
  BY <1>1 DEF TaskInv, TaskTypes, MetInv
<1>2. CASE LoopLive /\ cancelled' = cancelled \cup {loopTask} /\ UNCHANGED <<kind, phase, met>>
  BY <1>2 DEF LoopLive, Working, TaskInv, TaskTypes, MetInv
<1> QED
  BY <1>1, <1>2, CountsUpTasks
  DEF StopLoop, Halt, Awaits, CallStep, StopLoopWakes, HaltWakes, HaltEnds

LEMMA NextTasks == TaskInv /\ [ImagerNext]_vars => TaskInv'
<1> SUFFICES ASSUME TaskInv, [ImagerNext]_vars PROVE TaskInv'
  OBVIOUS
<1>1. CASE UNCHANGED vars
  BY <1>1 DEF vars, codeVars, TaskInv, TaskTypes, MetInv
<1> QED
  BY <1>1, CreationTasks, StepTasks, CallTasks DEF ImagerNext, CodeStep, Requests

THEOREM TaskInvariance == ImagerSpec => []TaskInv
  BY InitTasks, NextTasks, PTL DEF ImagerSpec

(* A frame that a halt found at the camera is never announced and the loop it belongs to
   takes no other, whatever exposures and calls come in between (imager.py, halt_epoch). *)
THEOREM HaltedIsDropped == ImagerSpec => HaltedFrameIsDropped
<1>1. TaskInv /\ [ImagerNext]_vars =>
        [\A e \in Exposures : Saved(e) \/ NextFrame(e) => met[e] # "during"]_vars
  BY DEF TaskInv, MetInv, Saved, NextFrame, At
<1> QED
  BY <1>1, TaskInvariance, PTL DEF ImagerSpec, HaltedFrameIsDropped

-----------------------------------------------------------------------------
(* The state *)

Settled == \A c \in Clients : call[c] = "none"

\* A task that resets the state when it ends.
Answers(e) ==
  \/ kind[e] = "loop"
  \/ kind[e] = "single" /\ phase[e] = "unwind"
  \/ kind[e] = "single" /\ phase[e] \in {"upload", "camera", "frame", "save"} /\ met[e] # "during"

\* A loop is cancelled by a call that waits for it.
WaitedFor ==
  \A e \in Exposures : e \in cancelled /\ kind[e] = "loop" =>
    \E c \in Clients : call[c] \in {"stopLoop", "halt"} /\ awaited[c] = e

\* With no call under way, a busy state is some task's.
OwnedState ==
  Settled =>
    /\ state = "looping" => \E e \in Exposures : kind[e] = "loop"
    /\ state = "exposing" /\ ~stuck => \E e \in Exposures : Answers(e)

StateTypes ==
  /\ call \in [Clients -> {"none", "stopLoop", "halt", "abort"}]
  /\ awaited \in [Clients -> Exposures \cup {NoLoop}]
  /\ loopTask \in Exposures \cup {NoLoop}
  /\ state \in {"idle", "exposing", "looping", "error"}

StateInv == StateTypes /\ WaitedFor /\ OwnedState

LEMMA InitState == ImagerInit => StateInv
  BY DEF ImagerInit, StateInv, StateTypes, WaitedFor, OwnedState

\* Only the task e changes, and it is not cancelled by it.
LEMMA WaitedForStep ==
  ASSUME TaskInv, StateInv, NEW e \in Exposures,
         cancelled' \subseteq cancelled \/ (kind[e] = "single" /\ cancelled' \subseteq cancelled \cup {e}),
         kind'[e] = "loop" => kind[e] = "loop" \/ e \notin cancelled',
         \A f \in Exposures : f # e => kind'[f] = kind[f],
         UNCHANGED <<call, awaited>>
  PROVE  WaitedFor'
  BY DEF StateInv, WaitedFor, TaskInv, TaskTypes

\* A step of e keeps a busy state owned if e resets it, passes it on or never owned it.
LEMMA OwnedStep ==
  ASSUME TaskInv, StateInv, NEW e \in Exposures, UNCHANGED call,
         \A f \in Exposures : f # e => (Answers(f) => Answers(f)') /\ (kind[f] = "loop" => kind'[f] = "loop"),
         \/ state' \in {"idle", "error"}
         \/ state' = "looping" /\ kind'[e] = "loop"
         \/ state' = "exposing" /\ Answers(e)'
         \/ /\ state' = state
            /\ kind[e] = "loop" => kind'[e] = "loop" \/ ~Settled
            /\ Answers(e) => Answers(e)' \/ ~Settled \/ (state = "exposing" => stuck')
            /\ state = "exposing" /\ stuck => stuck'
  PROVE  OwnedState'
<1> SUFFICES ASSUME Settled' PROVE OwnedState'
  BY DEF OwnedState
<1>1. Settled
  BY DEF Settled
<1>2. state = "looping" => \E f \in Exposures : kind[f] = "loop"
  BY <1>1 DEF StateInv, OwnedState
<1>3. state = "exposing" /\ ~stuck => \E f \in Exposures : Answers(f)
  BY <1>1 DEF StateInv, OwnedState
<1>4. CASE state' \in {"idle", "error"}
  BY <1>4 DEF OwnedState
<1>5. CASE state' = "looping" /\ kind'[e] = "loop"
  BY <1>5 DEF OwnedState
<1>6. CASE state' = "exposing" /\ Answers(e)'
  BY <1>6 DEF OwnedState
<1>7. CASE /\ state' = state
           /\ kind[e] = "loop" => kind'[e] = "loop" \/ ~Settled
           /\ Answers(e) => Answers(e)' \/ ~Settled \/ (state = "exposing" => stuck')
           /\ state = "exposing" /\ stuck => stuck'
  <2>1. state' = "looping" => \E f \in Exposures : kind'[f] = "loop"
    BY <1>1, <1>2, <1>7
  <2>2. state' = "exposing" /\ ~stuck' => \E f \in Exposures : Answers(f)'
    BY <1>1, <1>3, <1>7
  <2> QED
    BY <2>1, <2>2 DEF OwnedState
<1> QED
  BY <1>4, <1>5, <1>6, <1>7

\* A step of e touches no other task.
LEMMA OthersKept ==
  ASSUME TaskInv, NEW e \in Exposures, Expose(e) \/ StartLoop(e) \/ Cancel(e) \/ TaskStep(e)
  PROVE  /\ \A f \in Exposures : f # e => kind'[f] = kind[f] /\ phase'[f] = phase[f] /\ met'[f] = met[f]
         /\ UNCHANGED <<call, awaited>>
  BY DEF Expose, StartLoop, Cancel, TaskStep, NextFrame, LoopDone, Prepared, Uploaded, FrameArrives,
     CameraFails,
       Restored, Dropped, Saved, FilesFail, NoCamera, AbortEnds, Cancelled, Moves, Over, Raises, Quits, Abandons,
       TaskInv, TaskTypes

\* What each step of e does to the state.
LEMMA StepState ==
  ASSUME TaskInv, StateInv, NEW e \in Exposures, TaskStep(e),
         stuck' = (state' = "exposing" /\ (stuck \/ LeavesBusy))
  PROVE  \/ state' \in {"idle", "error"}
         \/ state' = "looping" /\ kind'[e] = "loop"
         \/ state' = "exposing" /\ Answers(e)'
         \/ /\ state' = state
            /\ kind[e] = "loop" => kind'[e] = "loop" \/ ~Settled
            /\ Answers(e) => Answers(e)' \/ ~Settled \/ (state = "exposing" => stuck')
            /\ state = "exposing" /\ stuck => stuck'
<1> USE DEF At, TaskInv, TaskTypes, Answers
<1>0. state' = state => (state = "exposing" /\ stuck => stuck')
  OBVIOUS
<1>1. CASE LoopDone(e)
  BY <1>1 DEF LoopDone, LoopEndsAs
<1>2. CASE NextFrame(e)
  BY <1>0, <1>2 DEF NextFrame, Moves
<1>3. CASE Prepared(e)
  BY <1>3 DEF Prepared, Moves, MetInv
<1>4. CASE Uploaded(e) \/ FrameArrives(e) \/ CameraFails(e)
  BY <1>0, <1>4 DEF Uploaded, FrameArrives, CameraFails, Moves
<1>5. CASE Restored(e)
  BY <1>0, <1>5 DEF Restored, Raises, Quits, Abandons, LoopEndsAs, Moves
<1>6. CASE Dropped(e) \/ NoCamera(e) \/ AbortEnds(e)
  BY <1>0, <1>6 DEF Dropped, NoCamera, AbortEnds, Raises, Quits, LoopEndsAs
<1>7. CASE Saved(e)
  BY <1>7 DEF Saved
<1>8. CASE FilesFail(e)
  <2>1. CASE kind[e] = "loop"
    BY <1>8, <2>1 DEF FilesFail, Raises
  <2>2. CASE kind[e] # "loop"
    <3>1. state' = state /\ kind[e] = "single"
      BY <1>8, <2>2 DEF FilesFail, Raises
    <3>2. LeavesBusy
      BY <1>8, <3>1 DEF LeavesBusy
    <3> QED
      BY <2>2, <3>1, <3>2
  <2> QED
    BY <2>1, <2>2
<1>9. CASE Cancelled(e)
  <2>1. CASE phase[e] \in {"created", "abort"}
    <3>1. kind[e] = "loop" => ~Settled
      BY <1>9 DEF Cancelled, StateInv, WaitedFor, Settled
    <3> QED
      BY <1>0, <1>9, <2>1, <3>1 DEF Cancelled, Abandons, LoopEndsAs
  <2>2. CASE phase[e] = "camera"
    BY <1>0, <1>9, <2>2 DEF Cancelled, Abandons, LoopEndsAs, Moves
  <2>3. CASE phase[e] \notin {"created", "abort", "camera"}
    BY <1>9, <2>3 DEF Cancelled, Abandons, LoopEndsAs
  <2> QED
    BY <2>1, <2>2, <2>3
<1> QED
  BY <1>1, <1>2, <1>3, <1>4, <1>5, <1>6, <1>7, <1>8, <1>9 DEF TaskStep

LEMMA TaskState ==
  ASSUME TaskInv, StateInv, NEW e \in Exposures, Expose(e) \/ StartLoop(e) \/ Cancel(e) \/ TaskStep(e),
         stuck' = (state' = "exposing" /\ (stuck \/ LeavesBusy))
  PROVE  StateInv'
<1>1. \A f \in Exposures : f # e => (Answers(f) => Answers(f)') /\ (kind[f] = "loop" => kind'[f] = "loop")
  BY OthersKept DEF Answers
<1>2. OwnedState'
  <2>1. CASE Expose(e)
    <3>1. state' = "idle"
      BY <2>1 DEF Expose
    <3> QED
      BY <1>1, <3>1, OthersKept, OwnedStep
  <2>2. CASE StartLoop(e)
    <3>1. state' = "looping" /\ kind'[e] = "loop"
      BY <2>2 DEF StartLoop, TaskInv, TaskTypes
    <3> QED
      BY <1>1, <3>1, OthersKept, OwnedStep
  <2>3. CASE Cancel(e)
    <3>1. UNCHANGED <<state, kind, phase, met>>
      BY <2>3 DEF Cancel
    <3>2. Answers(e) => Answers(e)'
      BY <3>1 DEF Answers
    <3> QED
      BY <1>1, <3>1, <3>2, OthersKept, OwnedStep
  <2>4. CASE TaskStep(e)
    BY <1>1, <2>4, OthersKept, OwnedStep, StepState
  <2> QED
    BY <2>1, <2>2, <2>3, <2>4
<1>3. /\ cancelled' \subseteq cancelled \/ (kind[e] = "single" /\ cancelled' \subseteq cancelled \cup {e})
      /\ kind'[e] = "loop" => kind[e] = "loop" \/ e \notin cancelled'
  <2>1. CASE Expose(e) \/ StartLoop(e)
    BY <2>1, UnusedIsFree DEF Expose, StartLoop
  <2>2. CASE Cancel(e)
    BY <2>2 DEF Cancel
  <2>3. CASE TaskStep(e)
    BY <2>3 DEF TaskStep, NextFrame, LoopDone, Prepared, Uploaded, FrameArrives, CameraFails,
         Restored, Dropped, Saved, FilesFail, NoCamera, AbortEnds, Cancelled, Over, Raises, Quits, Abandons,
         TaskInv, TaskTypes
  <2> QED
    BY <2>1, <2>2, <2>3
<1>4. WaitedFor'
  BY <1>3, OthersKept, WaitedForStep
<1>5. StateTypes'
  BY OthersKept
  DEF Expose, StartLoop, Cancel, TaskStep, NextFrame, LoopDone, Prepared, Uploaded, FrameArrives, CameraFails,
      Restored, Dropped, Saved, FilesFail, NoCamera, AbortEnds, Cancelled, Raises, Quits, Abandons, LoopEndsAs,
      StateInv, StateTypes
<1> QED
  BY <1>2, <1>4, <1>5 DEF StateInv

LEMMA CallState ==
  ASSUME TaskInv, StateInv, NEW c \in Clients, StopLoop(c) \/ Halt(c) \/ CallStep(c)
  PROVE  StateInv'
<1> USE DEF StateInv, StateTypes
<1>1. CASE StopLoop(c) \/ (Halt(c) /\ LoopLive)
  <2>1. PICK where \in {"stopLoop", "halt"} : Awaits(c, where)
    BY <1>1 DEF StopLoop, Halt
  <2>2. LoopLive /\ call[c] = "none" /\ UNCHANGED <<state, loopTask, kind, phase, met>>
    BY <1>1 DEF StopLoop, Halt
  <2>3. loopTask \in Exposures
    BY <2>2 DEF LoopLive, Working
  <2>4. StateTypes' /\ call'[c] = where /\ awaited'[c] = loopTask
    BY <2>1, <2>2, <2>3 DEF Awaits
  <2>5. \A d \in Clients : d # c => call'[d] = call[d] /\ awaited'[d] = awaited[d]
    BY <2>1 DEF Awaits
  <2>6. WaitedFor'
    BY <2>1, <2>2, <2>4, <2>5 DEF Awaits, WaitedFor
  <2>7. ~Settled'
    BY <2>4 DEF Settled
  <2> QED
    BY <2>4, <2>6, <2>7 DEF OwnedState
<1>2. CASE (Halt(c) /\ ~LoopLive) \/ HaltWakes(c)
  <2>1. CountsUp(c) /\ UNCHANGED <<state, kind, phase, cancelled>>
        /\ (call[c] = "none" \/ (call[c] = "halt" /\ awaited[c] \notin Working))
    BY <1>2 DEF Halt, HaltWakes, AwaitedIsOver
  <2>2. StateTypes' /\ call'[c] = "abort"
    BY <1>2, <2>1 DEF CountsUp, Halt, HaltWakes
  <2>3. \A d \in Clients : d # c => call'[d] = call[d] /\ awaited'[d] = awaited[d]
    BY <2>1 DEF CountsUp
  <2>4. \A e \in cancelled : e \in Working
    BY DEF Working, TaskInv, TaskTypes
  <2>5. WaitedFor'
    BY <2>1, <2>3, <2>4 DEF WaitedFor
  <2> QED
    BY <2>2, <2>5 DEF OwnedState, Settled
<1>3. CASE StopLoopWakes(c) \/ HaltEnds(c)
  <2>1. state' = "idle" /\ UNCHANGED <<kind, phase, cancelled>>
        /\ (call[c] = "abort" \/ (call[c] = "stopLoop" /\ awaited[c] \notin Working))
    BY <1>3 DEF StopLoopWakes, HaltEnds, AwaitedIsOver
  <2>2. \A d \in Clients : d # c => call'[d] = call[d] /\ awaited'[d] = awaited[d]
    BY <1>3 DEF StopLoopWakes, HaltEnds
  <2>3. \A e \in cancelled : e \in Working
    BY DEF Working, TaskInv, TaskTypes
  <2>4. WaitedFor'
    BY <2>1, <2>2, <2>3 DEF WaitedFor
  <2>5. StateTypes'
    BY <1>3 DEF StopLoopWakes, HaltEnds
  <2> QED
    BY <2>1, <2>4, <2>5 DEF OwnedState
<1> QED
  BY <1>1, <1>2, <1>3 DEF CallStep

(* A camera shown as busy has a task that exposes or a call that is about to reset it, unless
   a single exposure failed on a file operation: for any number of exposures, loops, stops
   and halts (imager.py, the handlers that set state). *)
THEOREM BusyIsOwned == ImagerSpec => []BusyIsBusy
<1>1. TaskInv /\ StateInv /\ [ImagerNext]_vars => StateInv'
  <2> SUFFICES ASSUME TaskInv, StateInv, [ImagerNext]_vars PROVE StateInv'
    OBVIOUS
  <2>1. CASE UNCHANGED vars
    BY <2>1 DEF vars, codeVars, StateInv, StateTypes, WaitedFor, OwnedState, Settled, Answers
  <2> QED
    BY <2>1, TaskState, CallState DEF ImagerNext, CodeStep, Requests
<1>2. TaskInv /\ StateInv => BusyIsBusy
  BY DEF TaskInv, TaskTypes, StateInv, OwnedState, Settled, Answers, BusyIsBusy, Working
<1> QED
  BY <1>1, <1>2, InitState, TaskInvariance, PTL DEF ImagerSpec

-----------------------------------------------------------------------------
(* SequencerRig: the invariant. *)

\* The frames that are prepared and taken are there to be taken; the primary prepares and
\* takes none once it is done.
PlaceInv ==
  /\ at[Primary] = "begin" => \A l \in Secondaries : at[l] = "top"
  /\ \A l \in Lanes : at[l] \in {"prepare", "focus", "fit", "expose", "record"} => FramesLeft(l)
  /\ at[Primary] \in {"status", "flipwait", "guide", "starting", "waits", "moves"} /\ ~primaryDone
       => FramesLeft(Primary)
  /\ at[Primary] \in {"begin", "top", "prepare", "focus", "expose", "record"} => ~primaryDone
  /\ at[Primary] = "duties" => primaryDone

\* A secondary that exposes is busy, and the mount is announced before the primary looks at who is.
MountInv ==
  /\ \A l \in Secondaries : at[l] = "expose" => l \in busy
  /\ at[Primary] \in {"waits", "moves"} => mountBusy
  /\ at[Primary] = "moves" => \A l \in Secondaries : at[l] # "expose"

\* The ticks of frames the primary has left until its next dither, the one in flight included.
Remaining ==
  IF sinceDither >= DitherEvery THEN 0
  ELSE Total(Primary, done[Primary] + DitherEvery - sinceDither) - Total(Primary, done[Primary])

\* What the primary published is a lower bound for what remains.
PlanInv ==
  /\ DitherEvery = 0 => plan = NoDither
  /\ plan = NoDither => DitherEvery = 0 \/ at[Primary] = "begin" \/ primaryDone
  /\ Exposing => plan = Published(sinceDither, done[Primary], TRUE)
  /\ ~Exposing => DitherIn <= Remaining
  /\ at[Primary] = "record" => until[Primary] <= Margin
  /\ op = "dither" => plan.due /\ ~primaryDone /\ at[Primary] \in {"waits", "moves"}

\* A secondary's frame ends before the dither the primary has published.
FitInv ==
  ~uncounted /\ ~primaryDone /\ plan # NoDither =>
    \A l \in Secondaries : at[l] = "expose" => until[l] <= DitherIn

RigInv == RigTypeOK /\ PlaceInv /\ MountInv /\ PlanInv /\ FitInv

-----------------------------------------------------------------------------
(* SequencerRig: the time that frames take. *)

\* A plan gives each lane times that grow.
LEMMA PlanTyped ==
  ASSUME frames \in Plans, NEW l \in Lanes
  PROVE  /\ Len(frames[l]) \in Nat
         /\ \A i \in 1..Len(frames[l]) : frames[l][i] \in Nat \ {0}
         /\ \A i, j \in 1..Len(frames[l]) : i < j => frames[l][i] < frames[l][j]
<1>1. frames[l] \in Seq(Nat \ {0}) /\ \A i, j \in 1..Len(frames[l]) : i < j => frames[l][i] < frames[l][j]
  BY PlansAssumption
<1>2. Len(frames[l]) \in Nat /\ \A i \in 1..Len(frames[l]) : frames[l][i] \in Nat \ {0}
  BY <1>1
<1> QED
  BY <1>1, <1>2

\* The time that frames take is a number of ticks.
LEMMA TotalNat ==
  ASSUME frames \in Plans, NEW l \in Lanes, NEW n \in Nat
  PROVE  Total(l, n) \in Nat
<1> DEFINE taken == IF n <= Len(frames[l]) THEN n ELSE Len(frames[l])
<1>1. taken \in Nat /\ (taken # 0 => taken \in 1..Len(frames[l]))
  BY PlanTyped
<1>2. Total(l, n) = IF taken = 0 THEN 0 ELSE frames[l][taken]
  BY DEF Total
<1> HIDE DEF taken
<1> QED
  BY <1>1, <1>2, PlanTyped

\* More frames take no less time.
LEMMA TotalMonotone ==
  ASSUME frames \in Plans, NEW l \in Lanes, NEW m \in Nat, NEW n \in Nat, m <= n
  PROVE  Total(l, m) <= Total(l, n)
<1> DEFINE first == IF m <= Len(frames[l]) THEN m ELSE Len(frames[l])
           last  == IF n <= Len(frames[l]) THEN n ELSE Len(frames[l])
<1>1. /\ first \in Nat /\ last \in Nat /\ first <= last
      /\ first # 0 => first \in 1..Len(frames[l])
      /\ last # 0 => last \in 1..Len(frames[l])
  BY PlanTyped
<1>2. /\ Total(l, m) = IF first = 0 THEN 0 ELSE frames[l][first]
      /\ Total(l, n) = IF last = 0 THEN 0 ELSE frames[l][last]
  BY DEF Total
<1> HIDE DEF first, last
<1>3. CASE first = 0
  BY <1>1, <1>2, <1>3, PlanTyped
<1>4. CASE first # 0 /\ first = last
  BY <1>1, <1>2, <1>4, PlanTyped
<1>5. CASE first # 0 /\ first < last
  BY <1>1, <1>2, <1>5, PlanTyped
<1> QED
  BY <1>1, <1>3, <1>4, <1>5

\* The next frame of a lane takes it from one total to the next.
LEMMA DurationNat ==
  ASSUME frames \in Plans, NEW l \in Lanes, done[l] \in Nat
  PROVE  /\ Duration(l) \in Nat
         /\ Total(l, done[l] + 1) = Total(l, done[l]) + Duration(l)
<1>1. /\ Total(l, done[l]) \in Nat /\ Total(l, done[l] + 1) \in Nat
      /\ Total(l, done[l]) <= Total(l, done[l] + 1)
  BY TotalNat, TotalMonotone
<1> QED
  BY <1>1 DEF Duration

LEMMA DitherEveryNat == DitherEvery \in Nat /\ Margin \in Nat /\ Lookahead \in Nat
  BY TimesAssumption

\* What a plan is made of.
LEMMA PlanFields ==
  ASSUME NEW due \in BOOLEAN, NEW ahead \in Nat, NEW p, p = [due |-> due, ahead |-> ahead]
  PROVE  p \in [due : BOOLEAN, ahead : Nat] /\ p.due = due /\ p.ahead = ahead
  OBVIOUS

\* A plan whose time is known is one.
LEMMA PlanIsThere ==
  ASSUME NEW p \in [due : BOOLEAN, ahead : Nat]
  PROVE  p # NoDither
<1>1. p.ahead \in Nat /\ NoDither.ahead = -1
  BY DEF NoDither
<1>2. p.ahead # NoDither.ahead
  BY <1>1
<1> QED
  BY <1>2, Zenon

\* What is published between frames: the frames up to the dither.
LEMMA PublishedIdle ==
  ASSUME frames \in Plans, NEW since \in Nat, NEW taken \in Nat, DitherEvery # 0
  PROVE  /\ Published(since, taken, FALSE) \in [due : BOOLEAN, ahead : Nat]
         /\ Published(since, taken, FALSE).due <=> since >= DitherEvery
         /\ since >= DitherEvery => Published(since, taken, FALSE).ahead = 0
         /\ since < DitherEvery =>
              Published(since, taken, FALSE).ahead
                = Total(Primary, taken + DitherEvery - since) - Total(Primary, taken)
<1> DEFINE last  == taken + (IF DitherEvery > since THEN DitherEvery - since ELSE 0)
           ahead == Total(Primary, last) - Total(Primary, taken)
           isDue == since >= DitherEvery
<1>1. Published(since, taken, FALSE) = [due |-> isDue, ahead |-> ahead]
  BY DEF Published
<1>2. last \in Nat /\ taken <= last /\ (isDue => last = taken) /\ (~isDue => last = taken + DitherEvery - since)
  BY DitherEveryNat
<1>3. since < DitherEvery <=> ~isDue
  BY DitherEveryNat
<1>4. ahead \in Nat /\ (isDue => ahead = 0) /\ (~isDue => ahead = Total(Primary, taken + DitherEvery - since) - Total(Primary, taken))
  <2> HIDE DEF last, isDue
  <2>1. /\ Total(Primary, last) \in Nat /\ Total(Primary, taken) \in Nat
        /\ Total(Primary, taken) <= Total(Primary, last)
    BY <1>2, PrimaryAssumption, TotalNat, TotalMonotone
  <2> QED
    BY <1>2, <2>1
<1>5. isDue \in BOOLEAN
  OBVIOUS
<1> HIDE DEF ahead, isDue
<1>6. /\ Published(since, taken, FALSE) \in [due : BOOLEAN, ahead : Nat]
      /\ Published(since, taken, FALSE).due = isDue /\ Published(since, taken, FALSE).ahead = ahead
  BY <1>1, <1>4, <1>5, PlanFields, Zenon
<1>7. isDue <=> since >= DitherEvery
  BY DEF isDue
<1> QED
  BY <1>3, <1>4, <1>6, <1>7, Zenon

\* What is published when a frame starts: the frames after it, up to the dither.
LEMMA PublishedExposing ==
  ASSUME frames \in Plans, NEW since \in Nat, NEW taken \in Nat, DitherEvery # 0
  PROVE  /\ Published(since, taken, TRUE) \in [due : BOOLEAN, ahead : Nat]
         /\ Published(since, taken, TRUE).due <=> since >= DitherEvery
         /\ since >= DitherEvery => Published(since, taken, TRUE).ahead = 0
         /\ since < DitherEvery =>
              Published(since, taken, TRUE).ahead
                = Total(Primary, taken + DitherEvery - since) - Total(Primary, taken + 1)
<1> DEFINE last  == taken + (IF DitherEvery > since THEN DitherEvery - since ELSE 0)
           first == IF last > taken THEN taken + 1 ELSE taken
           ahead == Total(Primary, last) - Total(Primary, first)
           isDue == since >= DitherEvery
<1>1. Published(since, taken, TRUE) = [due |-> isDue, ahead |-> ahead]
  BY DEF Published
<1>2. /\ last \in Nat /\ first \in Nat /\ first <= last
      /\ isDue => last = taken /\ first = taken
      /\ ~isDue => last = taken + DitherEvery - since /\ first = taken + 1
  BY DitherEveryNat
<1>3. since < DitherEvery <=> ~isDue
  BY DitherEveryNat
<1>4. ahead \in Nat /\ (isDue => ahead = 0) /\ (~isDue => ahead = Total(Primary, taken + DitherEvery - since) - Total(Primary, taken + 1))
  <2> HIDE DEF last, first, isDue
  <2>1. /\ Total(Primary, last) \in Nat /\ Total(Primary, first) \in Nat
        /\ Total(Primary, first) <= Total(Primary, last)
    BY <1>2, PrimaryAssumption, TotalNat, TotalMonotone
  <2> QED
    BY <1>2, <2>1
<1>5. isDue \in BOOLEAN
  OBVIOUS
<1> HIDE DEF ahead, isDue
<1>6. /\ Published(since, taken, TRUE) \in [due : BOOLEAN, ahead : Nat]
      /\ Published(since, taken, TRUE).due = isDue /\ Published(since, taken, TRUE).ahead = ahead
  BY <1>1, <1>4, <1>5, PlanFields, Zenon
<1>7. isDue <=> since >= DitherEvery
  BY DEF isDue
<1> QED
  BY <1>3, <1>4, <1>6, <1>7, Zenon

\* What is published is a plan or none.
LEMMA PublishedTyped ==
  ASSUME frames \in Plans, NEW since \in Nat, NEW taken \in Nat
  PROVE  /\ Published(since, taken, FALSE) \in [due : BOOLEAN, ahead : Nat \cup {-1}]
         /\ Published(since, taken, TRUE) \in [due : BOOLEAN, ahead : Nat \cup {-1}]
<1>1. CASE DitherEvery = 0
  BY <1>1 DEF Published, NoDither
<1>2. CASE DitherEvery # 0
  <2>1. [due : BOOLEAN, ahead : Nat] \subseteq [due : BOOLEAN, ahead : Nat \cup {-1}]
    OBVIOUS
  <2>2. /\ Published(since, taken, FALSE) \in [due : BOOLEAN, ahead : Nat]
        /\ Published(since, taken, TRUE) \in [due : BOOLEAN, ahead : Nat]
    BY <1>2, PublishedIdle, PublishedExposing, Zenon
  <2> QED
    BY <2>1, <2>2, Zenon
<1> QED
  BY <1>1, <1>2

-----------------------------------------------------------------------------
(* SequencerRig: every step keeps the types. *)

LEMMA PrimaryIsLane == Primary \in Lanes /\ Nobody \notin Lanes /\ Secondaries \subseteq Lanes /\ Primary \notin Secondaries
  BY PrimaryAssumption DEF Secondaries

LEMMA PrimaryTypes ==
  ASSUME RigTypeOK, PlaceInv, PrimaryStep
  PROVE  RigTypeOK'
<1> USE PrimaryIsLane, DitherEveryNat DEF RigTypeOK, laneVars, schedVars, mountVars, guideVars
<1>0. done[Primary] \in Nat /\ sinceDither \in Nat /\ frames \in Plans
  BY DEF LaneTypeOK, ScheduleTypeOK
<1>1. CASE PrimaryTop
  <2>1. plan' = plan \/ plan' = Published(sinceDither, done[Primary], FALSE)
    BY <1>1 DEF PrimaryTop
  <2>2. plan' \in [due : BOOLEAN, ahead : Nat \cup {-1}]
    <3>1. Published(sinceDither, done[Primary], FALSE) \in [due : BOOLEAN, ahead : Nat \cup {-1}]
      BY <1>0, PublishedTyped, Zenon
    <3> QED
      BY <2>1, <3>1, Zenon DEF ScheduleTypeOK
  <2>3. LaneTypeOK'
    BY <1>1, <2>2 DEF PrimaryTop, Leaves, Stops, LaneTypeOK, Goes, Places
  <2>4. ScheduleTypeOK'
    BY <1>1, <2>2 DEF PrimaryTop, Leaves, Stops, ScheduleTypeOK
  <2>5. OperationTypeOK'
    BY <1>1, <2>2 DEF PrimaryTop, Leaves, Stops, OperationTypeOK
  <2> QED
    BY <2>3, <2>4, <2>5
<1>2. CASE FlipCheck \/ FlipWaits
  <2>1. LaneTypeOK'
    BY <1>2 DEF FlipCheck, FlipWaits, BeginFlip, BeginOp, StopsGuiding, AfterFlipCheck, Leaves, Stops,
       LaneTypeOK, Goes, Places
  <2>2. ScheduleTypeOK'
    BY <1>2 DEF FlipCheck, FlipWaits, BeginFlip, BeginOp, StopsGuiding, AfterFlipCheck, Leaves, Stops,
       ScheduleTypeOK
  <2>3. OperationTypeOK'
    BY <1>2 DEF FlipCheck, FlipWaits, BeginFlip, BeginOp, StopsGuiding, AfterFlipCheck, Leaves, Stops,
       OperationTypeOK
  <2> QED
    BY <2>1, <2>2, <2>3
<1>3. CASE Prepare(Primary) \/ FocusEnds(Primary)
  <2>1. LaneTypeOK'
    BY <1>3 DEF Prepare, FocusEnds, LaneTypeOK, Goes, Places
  <2>2. ScheduleTypeOK'
    BY <1>3 DEF Prepare, FocusEnds, ScheduleTypeOK
  <2>3. OperationTypeOK'
    BY <1>3 DEF Prepare, FocusEnds, OperationTypeOK
  <2> QED
    BY <2>1, <2>2, <2>3
<1>4. CASE GuideStops \/ GuideActs \/ GuideStarts
  <2>1. LaneTypeOK'
    BY <1>4 DEF GuideStops, GuideActs, GuideStarts, BeginOp, Leaves, Stops, LaneTypeOK, Goes, Places
  <2>2. ScheduleTypeOK'
    BY <1>4 DEF GuideStops, GuideActs, GuideStarts, BeginOp, Leaves, Stops, ScheduleTypeOK
  <2>3. OperationTypeOK'
    BY <1>4 DEF GuideStops, GuideActs, GuideStarts, BeginOp, Leaves, Stops, OperationTypeOK
  <2> QED
    BY <2>1, <2>2, <2>3
<1>5. CASE GuideIsHealthy
  <2>1. sinceDither' \in Nat
    BY <1>0, <1>5 DEF GuideIsHealthy
  <2>2. plan' \in [due : BOOLEAN, ahead : Nat \cup {-1}]
    <3>1. plan' = plan \/ plan' = Published(sinceDither', done[Primary], TRUE)
      BY <1>5 DEF GuideIsHealthy
    <3>2. Published(sinceDither', done[Primary], TRUE) \in [due : BOOLEAN, ahead : Nat \cup {-1}]
      BY <1>0, <2>1, PublishedTyped, Zenon
    <3> QED
      BY <3>1, <3>2, Zenon DEF ScheduleTypeOK
  <2>3. until' \in [Lanes -> Nat]
    <3>1. Duration(Primary) + Margin \in Nat
      BY <1>0, DurationNat
    <3> QED
      BY <1>5, <3>1 DEF GuideIsHealthy, LaneTypeOK, ScheduleTypeOK
  <2>4. LaneTypeOK'
    BY <1>5, <2>1, <2>2, <2>3 DEF GuideIsHealthy, LaneTypeOK, Goes, Places
  <2>5. ScheduleTypeOK'
    BY <1>5, <2>1, <2>2, <2>3 DEF GuideIsHealthy, ScheduleTypeOK
  <2>6. OperationTypeOK'
    BY <1>5, <2>1, <2>2, <2>3 DEF GuideIsHealthy, OperationTypeOK
  <2> QED
    BY <2>4, <2>5, <2>6
<1>6. CASE FrameReady(Primary)
  <2>1. LaneTypeOK'
    BY <1>6 DEF FrameReady, LaneTypeOK, Goes, Places
  <2>2. ScheduleTypeOK'
    BY <1>6 DEF FrameReady, ScheduleTypeOK
  <2>3. OperationTypeOK'
    BY <1>6 DEF FrameReady, OperationTypeOK
  <2> QED
    BY <2>1, <2>2, <2>3
<1>7. CASE PrimaryRecords
  <2>1. sinceDither' \in Nat
    BY <1>0, <1>7 DEF PrimaryRecords, OneMoreFrame
  <2>2. done' \in [Lanes -> Nat] /\ \A l \in Lanes : done'[l] <= Len(frames'[l])
    <3>1. done[Primary] + 1 <= Len(frames[Primary])
      BY <1>0, <1>7, PlanTyped DEF PrimaryRecords, PlaceInv, FramesLeft
    <3>2. frames' = frames /\ (done' = done \/ done' = [done EXCEPT ![Primary] = @ + 1])
      BY <1>7 DEF PrimaryRecords
    <3>3. CASE done' = done
      BY <3>2, <3>3 DEF LaneTypeOK
    <3>4. CASE done' = [done EXCEPT ![Primary] = @ + 1]
      <4>1. done' \in [Lanes -> Nat] /\ \A l \in Lanes : done'[l] = IF l = Primary THEN done[l] + 1 ELSE done[l]
        BY <1>0, <3>4 DEF LaneTypeOK
      <4> QED
        BY <3>1, <3>2, <4>1 DEF LaneTypeOK
    <3> QED
      BY <3>2, <3>3, <3>4
  <2>3. plan' \in [due : BOOLEAN, ahead : Nat \cup {-1}]
    <3>1. plan' = Published(sinceDither', done'[Primary], FALSE)
      BY <1>7 DEF PrimaryRecords
    <3> QED
      BY <1>0, <2>1, <2>2, <3>1, PublishedTyped
  <2>4. LaneTypeOK'
    BY <1>7, <2>1, <2>2, <2>3 DEF PrimaryRecords, Leaves, Stops, BeginOp, LaneTypeOK, Goes, Places
  <2>5. ScheduleTypeOK'
    BY <1>7, <2>1, <2>2, <2>3 DEF PrimaryRecords, Leaves, Stops, BeginOp, ScheduleTypeOK
  <2>6. OperationTypeOK'
    BY <1>7, <2>1, <2>2, <2>3 DEF PrimaryRecords, Leaves, Stops, BeginOp, OperationTypeOK
  <2> QED
    BY <2>4, <2>5, <2>6
<1>8. CASE Duties \/ OpBegins \/ RecenterEnds
  <2>1. LaneTypeOK'
    BY <1>8 DEF Duties, OpBegins, RecenterEnds, StopsGuiding, LaneTypeOK, Goes, Places
  <2>2. ScheduleTypeOK'
    BY <1>8 DEF Duties, OpBegins, RecenterEnds, StopsGuiding, ScheduleTypeOK
  <2>3. OperationTypeOK'
    BY <1>8 DEF Duties, OpBegins, RecenterEnds, StopsGuiding, OperationTypeOK
  <2> QED
    BY <2>1, <2>2, <2>3
<1>9. CASE FlipEnds
  <2>1. LaneTypeOK'
    BY <1>9 DEF FlipEnds, AfterFlipCheck, Leaves, Stops, LaneTypeOK, Goes, Places
  <2>2. sinceDither' \in Nat
    BY <1>0, <1>9 DEF FlipEnds
  <2>3. primaryDone' \in BOOLEAN
    BY <1>9 DEF FlipEnds, Leaves, Stops, ScheduleTypeOK
  <2>4. ScheduleTypeOK'
    BY <1>9, <2>2, <2>3 DEF FlipEnds, ScheduleTypeOK
  <2>5. OperationTypeOK'
    BY <1>9 DEF FlipEnds, AfterFlipCheck, Leaves, Stops, OperationTypeOK
  <2> QED
    BY <2>1, <2>4, <2>5
<1>10. CASE DitherEnds
  <2>1. plan' \in [due : BOOLEAN, ahead : Nat \cup {-1}]
    BY <1>0, <1>10, PublishedTyped DEF DitherEnds
  <2>2. LaneTypeOK'
    BY <1>10, <2>1 DEF DitherEnds, LaneTypeOK, Goes, Places
  <2>3. ScheduleTypeOK'
    BY <1>10, <2>1 DEF DitherEnds, ScheduleTypeOK
  <2>4. OperationTypeOK'
    BY <1>10, <2>1 DEF DitherEnds, OperationTypeOK
  <2> QED
    BY <2>2, <2>3, <2>4
<1> QED
  BY <1>1, <1>2, <1>3, <1>4, <1>5, <1>6, <1>7, <1>8, <1>9, <1>10 DEF PrimaryStep

LEMMA SecondaryTypes ==
  ASSUME RigTypeOK, PlaceInv, NEW l \in Secondaries, SecondaryStep(l)
  PROVE  RigTypeOK'
<1> USE PrimaryIsLane, DitherEveryNat DEF RigTypeOK, laneVars, schedVars, mountVars, guideVars
<1>0. done[l] \in Nat /\ frames \in Plans /\ l \in Lanes
  BY DEF LaneTypeOK, ScheduleTypeOK
<1>1. CASE SecondaryTop(l) \/ SecondaryStops(l)
  <2>1. LaneTypeOK'
    BY <1>1 DEF SecondaryTop, SecondaryStops, LaneEnds, LaneTypeOK, Goes, Places
  <2>2. ScheduleTypeOK'
    BY <1>1 DEF SecondaryTop, SecondaryStops, LaneEnds, ScheduleTypeOK
  <2>3. OperationTypeOK'
    BY <1>1 DEF SecondaryTop, SecondaryStops, LaneEnds, OperationTypeOK
  <2> QED
    BY <2>1, <2>2, <2>3
<1>2. CASE Prepare(l) \/ FocusEnds(l) \/ FrameReady(l)
  <2>1. LaneTypeOK'
    BY <1>2 DEF Prepare, FocusEnds, FrameReady, LaneTypeOK, Goes, Places
  <2>2. ScheduleTypeOK'
    BY <1>2 DEF Prepare, FocusEnds, FrameReady, ScheduleTypeOK
  <2>3. OperationTypeOK'
    BY <1>2 DEF Prepare, FocusEnds, FrameReady, OperationTypeOK
  <2> QED
    BY <2>1, <2>2, <2>3
<1>3. CASE SecondaryExposes(l)
  <2>1. Duration(l) + Margin \in Nat
    BY <1>0, DurationNat
  <2>2. LaneTypeOK'
    BY <1>3, <2>1 DEF SecondaryExposes, LaneTypeOK, Goes, Places
  <2>3. ScheduleTypeOK'
    BY <1>3, <2>1 DEF SecondaryExposes, ScheduleTypeOK
  <2>4. OperationTypeOK'
    BY <1>3, <2>1 DEF SecondaryExposes, OperationTypeOK
  <2> QED
    BY <2>2, <2>3, <2>4
<1>4. CASE SecondaryRecords(l)
  <2>1. done' \in [Lanes -> Nat] /\ \A k \in Lanes : done'[k] <= Len(frames'[k])
    <3>1. FramesLeft(l) /\ Len(frames[l]) \in Nat
      BY <1>0, <1>4, PlanTyped DEF SecondaryRecords, PlaceInv
    <3>2. done \in [Lanes -> Nat] /\ \A k \in Lanes : done[k] <= Len(frames[k])
      BY DEF LaneTypeOK
    <3>3. frames' = frames /\ (done' = [done EXCEPT ![l] = done[l] + 1] \/ done' = done)
      BY <1>4 DEF SecondaryRecords
    <3>4. done[l] \in Nat /\ done[l] + 1 \in Nat /\ done[l] + 1 <= Len(frames[l])
      BY <1>0, <3>1, <3>2 DEF FramesLeft
    <3>5. CASE done' = done
      BY <3>2, <3>3, <3>5
    <3>6. CASE done' = [done EXCEPT ![l] = done[l] + 1]
      <4>1. done' \in [Lanes -> Nat]
        BY <3>2, <3>4, <3>6
      <4>2. \A k \in Lanes : done'[k] = IF k = l THEN done[l] + 1 ELSE done[k]
        BY <3>2, <3>6
      <4> QED
        BY <3>2, <3>3, <3>4, <4>1, <4>2
    <3> QED
      BY <3>3, <3>5, <3>6
  <2>2. LaneTypeOK'
    BY <1>4, <2>1 DEF SecondaryRecords, LaneTypeOK, Goes, Places
  <2>3. ScheduleTypeOK'
    BY <1>4, <2>1 DEF SecondaryRecords, ScheduleTypeOK
  <2>4. OperationTypeOK'
    BY <1>4, <2>1 DEF SecondaryRecords, OperationTypeOK
  <2> QED
    BY <2>2, <2>3, <2>4
<1> QED
  BY <1>1, <1>2, <1>3, <1>4 DEF SecondaryStep

LEMMA OtherTypes ==
  ASSUME RigTypeOK, Disturbs \/ GuideSettles \/ Tick \/ \E l \in Lanes : TakesFocus(l)
  PROVE  RigTypeOK'
<1> USE PrimaryIsLane DEF RigTypeOK, laneVars, schedVars, mountVars, guideVars
<1>1. CASE BodyFails
  <2>1. LaneTypeOK'
    BY <1>1 DEF BodyFails, LaneTypeOK, Goes, Places
  <2>2. ScheduleTypeOK'
    BY <1>1 DEF BodyFails, ScheduleTypeOK
  <2>3. OperationTypeOK'
    BY <1>1 DEF BodyFails, OperationTypeOK
  <2> QED
    BY <2>1, <2>2, <2>3
<1>2. CASE Again
  <2>1. LaneTypeOK'
    BY <1>2 DEF Again, LaneTypeOK, Goes, Places
  <2>2. sinceDither' \in Nat
    BY <1>2 DEF Again, ScheduleTypeOK
  <2>3. ScheduleTypeOK'
    BY <1>2, <2>2 DEF Again, ScheduleTypeOK
  <2>4. OperationTypeOK'
    BY <1>2 DEF Again, OperationTypeOK
  <2> QED
    BY <2>1, <2>3, <2>4
<1>3. CASE Pause \/ Resume \/ GuideLost \/ StarBack \/ GuideSettles
  <2>1. LaneTypeOK'
    BY <1>3 DEF Pause, Resume, GuideLost, StarBack, GuideSettles, LaneTypeOK, Goes, Places
  <2>2. ScheduleTypeOK'
    BY <1>3 DEF Pause, Resume, GuideLost, StarBack, GuideSettles, ScheduleTypeOK
  <2>3. OperationTypeOK'
    BY <1>3 DEF Pause, Resume, GuideLost, StarBack, GuideSettles, OperationTypeOK
  <2> QED
    BY <2>1, <2>2, <2>3
<1>4. CASE FlipUnknown
  <2>1. LaneTypeOK'
    BY <1>4 DEF FlipUnknown, AfterFlipCheck, LaneTypeOK, Goes, Places
  <2>2. ScheduleTypeOK'
    BY <1>4 DEF FlipUnknown, AfterFlipCheck, ScheduleTypeOK
  <2>3. OperationTypeOK'
    BY <1>4 DEF FlipUnknown, AfterFlipCheck, OperationTypeOK
  <2> QED
    BY <2>1, <2>2, <2>3
<1>5. CASE \E l \in Lanes : TakesFocus(l)
  <2>1. LaneTypeOK'
    BY <1>5 DEF TakesFocus, LaneTypeOK, Goes, Places
  <2>2. ScheduleTypeOK'
    BY <1>5 DEF TakesFocus, ScheduleTypeOK
  <2>3. OperationTypeOK'
    BY <1>5 DEF TakesFocus, OperationTypeOK
  <2> QED
    BY <2>1, <2>2, <2>3
<1>6. CASE Tick
  <2>1. LaneTypeOK'
    BY <1>6 DEF Tick, LaneTypeOK, Goes, Places
  <2>2. ScheduleTypeOK'
    BY <1>6 DEF Tick, ScheduleTypeOK
  <2>3. OperationTypeOK'
    BY <1>6 DEF Tick, OperationTypeOK
  <2> QED
    BY <2>1, <2>2, <2>3
<1> QED
  BY <1>1, <1>2, <1>3, <1>4, <1>5, <1>6 DEF Disturbs

-----------------------------------------------------------------------------
(* SequencerRig: what the primary and the others leave alone of each other. *)

LEMMA PrimaryAlone ==
  ASSUME RigTypeOK, PrimaryStep
  PROVE  /\ UNCHANGED frames /\ busy' = busy
         /\ \A l \in Secondaries : at'[l] = at[l] /\ done'[l] = done[l] /\ until'[l] = until[l]
<1> USE PrimaryIsLane DEF laneVars, schedVars, mountVars, guideVars, Goes
<1>1. CASE PrimaryTop \/ FlipCheck \/ FlipWaits \/ GuideStops \/ GuideActs \/ GuideStarts \/ Duties
  BY <1>1 DEF PrimaryTop, FlipCheck, FlipWaits, BeginFlip, BeginOp, GuideStops, GuideActs, GuideStarts,
     Duties, Leaves,
              Stops, RigTypeOK, LaneTypeOK
<1>2. CASE Prepare(Primary) \/ FocusEnds(Primary) \/ FrameReady(Primary)
  <2>1. busy \ {Primary} = busy
    BY DEF RigTypeOK, ScheduleTypeOK
  <2> QED
    BY <1>2, <2>1 DEF Prepare, FocusEnds, FrameReady, RigTypeOK, LaneTypeOK
<1>3. CASE GuideIsHealthy
  BY <1>3 DEF GuideIsHealthy, RigTypeOK, LaneTypeOK
<1>4. CASE PrimaryRecords
  BY <1>4 DEF PrimaryRecords, BeginOp, Leaves, Stops, RigTypeOK, LaneTypeOK
<1>5. CASE OpBegins \/ FlipEnds \/ DitherEnds \/ RecenterEnds
  BY <1>5 DEF OpBegins, FlipEnds, DitherEnds, RecenterEnds, Leaves, Stops, RigTypeOK, LaneTypeOK
<1> QED
  BY <1>1, <1>2, <1>3, <1>4, <1>5 DEF PrimaryStep

LEMMA SecondaryAlone ==
  ASSUME RigTypeOK, NEW l \in Secondaries, SecondaryStep(l)
  PROVE  /\ UNCHANGED <<frames, sinceDither, plan, primaryDone, mountBusy, op, uncounted>>
         /\ \A k \in Lanes \ {l} : at'[k] = at[k] /\ done'[k] = done[k] /\ until'[k] = until[k] /\ (k \in busy' <=> k \in busy)
  BY PrimaryIsLane
  DEF laneVars, schedVars, mountVars, guideVars, Goes, SecondaryStep, SecondaryTop, SecondaryStops, LaneEnds,
      Prepare,
      FocusEnds, FrameReady, SecondaryExposes, SecondaryRecords, RigTypeOK, LaneTypeOK

-----------------------------------------------------------------------------
(* SequencerRig: where the lanes are. *)

TakesFrames == {"prepare", "focus", "fit", "expose", "record"}

\* Where the primary goes, with what PlaceInv asks of it there.
PrimaryMoves ==
  \E p \in Places :
    /\ at' = [at EXCEPT ![Primary] = p]
    /\ p # "begin"
    /\ p \in TakesFrames => done'[Primary] < Len(frames[Primary])
    /\ p \in {"status", "flipwait", "guide", "starting", "waits", "moves"} /\ ~primaryDone'
           => done'[Primary] < Len(frames[Primary])
    /\ p \in {"top", "prepare", "focus", "expose", "record"} => ~primaryDone'
    /\ p = "duties" => primaryDone'

LEMMA PrimaryGoes ==
  ASSUME RigTypeOK, PlaceInv, PlanInv, PrimaryStep
  PROVE  PrimaryMoves
<1> USE DEF laneVars, schedVars, mountVars, guideVars, Goes, Places, TakesFrames, PrimaryMoves, PlaceInv,
            FramesLeft
<1>0. /\ Primary \in Lanes /\ done[Primary] \in Nat /\ Len(frames[Primary]) \in Nat
      /\ done[Primary] <= Len(frames[Primary])
  BY PrimaryIsLane, PlanTyped DEF RigTypeOK, LaneTypeOK
<1>1. CASE PrimaryTop
  BY <1>0, <1>1 DEF PrimaryTop, Leaves, Stops
<1>2. CASE FlipCheck
  BY <1>0, <1>2 DEF FlipCheck, BeginFlip, BeginOp, AfterFlipCheck
<1>3. CASE FlipWaits
  BY <1>0, <1>3 DEF FlipWaits, BeginFlip, BeginOp, Leaves, Stops
<1>4. CASE Prepare(Primary) \/ FocusEnds(Primary) \/ FrameReady(Primary)
  BY <1>0, <1>4 DEF Prepare, FocusEnds, FrameReady
<1>5. CASE GuideStops \/ GuideActs \/ GuideStarts
  BY <1>0, <1>5 DEF GuideStops, GuideActs, GuideStarts, BeginOp, Leaves, Stops
<1>6. CASE GuideIsHealthy
  BY <1>0, <1>6 DEF GuideIsHealthy
<1>7. CASE PrimaryRecords
  <2>1. done'[Primary] \in Nat /\ done'[Primary] <= Len(frames[Primary])
    BY <1>0, <1>7 DEF PrimaryRecords, RigTypeOK, LaneTypeOK
  <2>2. ~primaryDone
    BY <1>7 DEF PrimaryRecords
  <2>3. done'[Primary] # Len(frames[Primary]) => done'[Primary] < Len(frames[Primary])
    BY <1>0, <2>1
  <2>4. (\E p \in {"ended", "duties"} : at' = [at EXCEPT ![Primary] = p] /\ primaryDone')
        \/ \E p \in {"moves", "waits", "top"} :
             at' = [at EXCEPT ![Primary] = p] /\ done'[Primary] # Len(frames[Primary]) /\ primaryDone' = primaryDone
    BY <1>7 DEF PrimaryRecords, BeginOp, Leaves, Stops
  <2> QED
    BY <2>2, <2>3, <2>4
<1>8. CASE Duties \/ OpBegins \/ RecenterEnds
  BY <1>0, <1>8 DEF Duties, OpBegins, RecenterEnds
<1>9. CASE FlipEnds
  BY <1>0, <1>9 DEF FlipEnds, AfterFlipCheck, Leaves, Stops
<1>10. CASE DitherEnds
  BY <1>0, <1>10 DEF DitherEnds, PlanInv
<1> QED
  BY <1>1, <1>2, <1>3, <1>4, <1>5, <1>6, <1>7, <1>8, <1>9, <1>10 DEF PrimaryStep

LEMMA PrimaryPlaces ==
  ASSUME RigTypeOK, PlaceInv, PlanInv, PrimaryStep
  PROVE  PlaceInv'
<1>1. PICK p \in Places :
        /\ at' = [at EXCEPT ![Primary] = p] /\ p # "begin"
        /\ p \in TakesFrames => done'[Primary] < Len(frames[Primary])
        /\ p \in {"status", "flipwait", "guide", "starting", "waits", "moves"} /\ ~primaryDone'
               => done'[Primary] < Len(frames[Primary])
        /\ p \in {"top", "prepare", "focus", "expose", "record"} => ~primaryDone'
        /\ p = "duties" => primaryDone'
  BY PrimaryGoes DEF PrimaryMoves
<1>2. at'[Primary] = p /\ \A l \in Lanes : l = Primary \/ (l \in Secondaries /\ at'[l] = at[l] /\ done'[l] = done[l])
  BY <1>1, PrimaryIsLane, PrimaryAlone DEF RigTypeOK, LaneTypeOK, Secondaries
<1> QED
  BY <1>1, <1>2, PrimaryAlone DEF PlaceInv, FramesLeft, TakesFrames

LEMMA SecondaryPlaces ==
  ASSUME RigTypeOK, PlaceInv, NEW l \in Secondaries, SecondaryStep(l)
  PROVE  PlaceInv'
<1> USE PrimaryIsLane, SecondaryAlone DEF laneVars, schedVars, mountVars, guideVars, Goes
<1>1. at'[l] \in TakesFrames => done'[l] < Len(frames'[l])
  <2>1. CASE SecondaryTop(l) \/ SecondaryStops(l)
    BY <2>1 DEF SecondaryTop, SecondaryStops, LaneEnds, FramesLeft, TakesFrames, RigTypeOK, LaneTypeOK
  <2>2. CASE Prepare(l) \/ FocusEnds(l) \/ FrameReady(l) \/ SecondaryExposes(l)
    BY <2>2 DEF Prepare, FocusEnds, FrameReady, SecondaryExposes, PlaceInv, FramesLeft, TakesFrames,
       RigTypeOK, LaneTypeOK
  <2>3. CASE SecondaryRecords(l)
    BY <2>3 DEF SecondaryRecords, TakesFrames, RigTypeOK, LaneTypeOK
  <2> QED
    BY <2>1, <2>2, <2>3 DEF SecondaryStep
<1>2. at[Primary] # "begin"
  BY DEF SecondaryStep, SecondaryTop, Prepare, FocusEnds, SecondaryStops, SecondaryExposes, FrameReady,
     SecondaryRecords, PlaceInv
<1> QED
  BY <1>1, <1>2 DEF PlaceInv, FramesLeft, TakesFrames

LEMMA OtherPlaces ==
  ASSUME RigTypeOK, PlaceInv, Disturbs \/ GuideSettles \/ Tick \/ \E l \in Lanes : TakesFocus(l)
  PROVE  PlaceInv'
<1> USE PrimaryIsLane DEF laneVars, schedVars, mountVars, guideVars, PlaceInv, FramesLeft
<1>1. CASE BodyFails
  BY <1>1 DEF BodyFails
<1>2. CASE Again
  BY <1>2 DEF Again, Secondaries
<1>3. CASE Pause \/ Resume \/ GuideLost \/ StarBack \/ GuideSettles \/ Tick \/ \E l \in Lanes : TakesFocus(l)
  BY <1>3 DEF Pause, Resume, GuideLost, StarBack, GuideSettles, Tick, TakesFocus
<1>4. CASE FlipUnknown
  BY <1>4 DEF FlipUnknown, AfterFlipCheck, Goes, RigTypeOK, LaneTypeOK
<1> QED
  BY <1>1, <1>2, <1>3, <1>4 DEF Disturbs

-----------------------------------------------------------------------------
(* SequencerRig: the mount moves alone. *)

LEMMA PrimaryMount ==
  ASSUME RigTypeOK, MountInv, PrimaryStep
  PROVE  MountInv'
<1> USE PrimaryIsLane, PrimaryAlone DEF laneVars, schedVars, mountVars, guideVars, Goes, MountInv, RigTypeOK,
        LaneTypeOK
<1>1. CASE PrimaryTop \/ GuideStops \/ GuideStarts \/ Duties
  BY <1>1 DEF PrimaryTop, GuideStops, GuideStarts, Duties, Leaves, Stops
<1>2. CASE FlipCheck \/ FlipWaits \/ GuideActs
  BY <1>2 DEF FlipCheck, FlipWaits, GuideActs, BeginFlip, BeginOp, AfterFlipCheck, Leaves, Stops
<1>3. CASE Prepare(Primary) \/ FocusEnds(Primary) \/ FrameReady(Primary)
  BY <1>3 DEF Prepare, FocusEnds, FrameReady
<1>4. CASE GuideIsHealthy
  BY <1>4 DEF GuideIsHealthy
<1>5. CASE PrimaryRecords
  BY <1>5 DEF PrimaryRecords, BeginOp, Leaves, Stops
<1>6. CASE OpBegins
  BY <1>6 DEF OpBegins, SecondariesIdle
<1>7. CASE FlipEnds \/ DitherEnds \/ RecenterEnds
  BY <1>7 DEF FlipEnds, DitherEnds, RecenterEnds, AfterFlipCheck, Leaves, Stops
<1> QED
  BY <1>1, <1>2, <1>3, <1>4, <1>5, <1>6, <1>7 DEF PrimaryStep

LEMMA SecondaryMount ==
  ASSUME RigTypeOK, MountInv, NEW l \in Secondaries, SecondaryStep(l)
  PROVE  MountInv'
<1>1. at'[l] = "expose" => l \in busy' /\ (at[Primary] = "moves" => ~mountBusy)
  BY PrimaryIsLane
  DEF laneVars, schedVars, mountVars, guideVars, Goes, SecondaryStep, SecondaryTop, SecondaryStops, LaneEnds,
      Prepare,
      FocusEnds, FrameReady, SecondaryExposes, SecondaryRecords, Fits, RigTypeOK, LaneTypeOK, MountInv
<1> QED
  BY <1>1, PrimaryIsLane, SecondaryAlone DEF MountInv

LEMMA OtherMount ==
  ASSUME RigTypeOK, MountInv, Disturbs \/ GuideSettles \/ Tick \/ \E l \in Lanes : TakesFocus(l)
  PROVE  MountInv'
<1> USE PrimaryIsLane DEF laneVars, schedVars, mountVars, guideVars, MountInv, RigTypeOK, LaneTypeOK
<1>1. CASE BodyFails \/ Again
  BY <1>1 DEF BodyFails, Again
<1>2. CASE Pause \/ Resume \/ GuideLost \/ StarBack \/ GuideSettles \/ Tick \/ \E l \in Lanes : TakesFocus(l)
  BY <1>2 DEF Pause, Resume, GuideLost, StarBack, GuideSettles, Tick, TakesFocus
<1>3. CASE FlipUnknown
  BY <1>3 DEF FlipUnknown, AfterFlipCheck, Goes
<1> QED
  BY <1>1, <1>2, <1>3 DEF Disturbs

-----------------------------------------------------------------------------
(* SequencerRig: what the primary publishes. *)

\* The numbers the primary works with.
LEMMA PrimaryNat ==
  ASSUME RigTypeOK
  PROVE  /\ Primary \in Lanes /\ frames \in Plans
         /\ done[Primary] \in Nat /\ until[Primary] \in Nat /\ sinceDither \in Nat
         /\ plan.due \in BOOLEAN /\ plan.ahead \in Int
         /\ DitherEvery \in Nat /\ Margin \in Nat
<1>1. plan \in [due : BOOLEAN, ahead : Nat \cup {-1}]
  BY DEF RigTypeOK, ScheduleTypeOK
<1>2. plan.due \in BOOLEAN /\ plan.ahead \in Int
  BY <1>1
<1> QED
  BY <1>2, PrimaryIsLane, DitherEveryNat DEF RigTypeOK, LaneTypeOK, ScheduleTypeOK

\* What the primary has published, the frame in flight apart.
Ahead == IF plan.due THEN 0 ELSE plan.ahead

LEMMA RemainingNat ==
  ASSUME RigTypeOK
  PROVE  Remaining \in Nat
<1>1. CASE sinceDither >= DitherEvery
  BY <1>1 DEF Remaining
<1>2. CASE sinceDither < DitherEvery
  <2> DEFINE last == done[Primary] + DitherEvery - sinceDither
  <2>1. last \in Nat /\ done[Primary] <= last
    BY <1>2, PrimaryNat
  <2>2. /\ Total(Primary, last) \in Nat /\ Total(Primary, done[Primary]) \in Nat
        /\ Total(Primary, done[Primary]) <= Total(Primary, last)
    <3> HIDE DEF last
    <3> QED
      BY <2>1, PrimaryNat, TotalNat, TotalMonotone
  <2> QED
    BY <1>2, <2>2, PrimaryNat DEF Remaining
<1> QED
  BY <1>1, <1>2, PrimaryNat

\* The same of the state that a step leads to.
LEMMA NextNat ==
  ASSUME RigTypeOK'
  PROVE  /\ frames' \in Plans
         /\ done'[Primary] \in Nat /\ until'[Primary] \in Nat /\ sinceDither' \in Nat
         /\ plan'.due \in BOOLEAN /\ plan'.ahead \in Int
         /\ Remaining' \in Nat
<1>1. (RigTypeOK => Remaining \in Nat)'
  BY RemainingNat, PTL
<1>2. (RigTypeOK => plan.due \in BOOLEAN /\ plan.ahead \in Int)'
  BY PrimaryNat, PTL
<1>3. (RigTypeOK => frames \in Plans /\ done[Primary] \in Nat /\ until[Primary] \in Nat /\ sinceDither \in Nat)'
  BY PrimaryNat, PTL
<1> QED
  BY <1>1, <1>2, <1>3

\* A count that starts again, or goes on, leaves no less.
LEMMA RemainingGrows ==
  ASSUME RigTypeOK, RigTypeOK', UNCHANGED frames, done'[Primary] = done[Primary], sinceDither' <= sinceDither
  PROVE  Remaining <= Remaining'
<1>1. CASE sinceDither >= DitherEvery
  BY <1>1, NextNat DEF Remaining
<1>2. CASE sinceDither < DitherEvery
  <2> DEFINE last(since) == done[Primary] + DitherEvery - since
  <2>1. /\ sinceDither \in Nat /\ sinceDither' \in Nat /\ DitherEvery \in Nat
        /\ done[Primary] \in Nat /\ frames \in Plans /\ Primary \in Lanes
    BY PrimaryNat DEF RigTypeOK, ScheduleTypeOK
  <2>2. /\ last(sinceDither) \in Nat /\ last(sinceDither') \in Nat
        /\ last(sinceDither) <= last(sinceDither') /\ sinceDither' < DitherEvery
    BY <1>2, <2>1
  <2>3. Remaining = Total(Primary, last(sinceDither)) - Total(Primary, done[Primary])
    BY <1>2, <2>1 DEF Remaining
  <2>4. Remaining' = Total(Primary, last(sinceDither')) - Total(Primary, done[Primary])
    BY <2>1, <2>2 DEF Remaining, Total
  <2> HIDE DEF last
  <2>5. /\ Total(Primary, last(sinceDither)) \in Nat /\ Total(Primary, last(sinceDither')) \in Nat
        /\ Total(Primary, done[Primary]) \in Nat
        /\ Total(Primary, last(sinceDither)) <= Total(Primary, last(sinceDither'))
    BY <2>1, <2>2, TotalNat, TotalMonotone
  <2> QED
    BY <2>3, <2>4, <2>5
<1> QED
  BY <1>1, <1>2, PrimaryNat

\* Published between frames, it is what remains.
LEMMA PublishedBetween ==
  ASSUME RigTypeOK, DitherEvery # 0, plan = Published(sinceDither, done[Primary], FALSE)
  PROVE  /\ plan # NoDither
         /\ sinceDither >= DitherEvery => plan.due /\ Remaining = 0
         /\ sinceDither < DitherEvery => ~plan.due /\ Remaining = plan.ahead
<1>1. /\ plan \in [due : BOOLEAN, ahead : Nat]
      /\ plan.due <=> sinceDither >= DitherEvery
      /\ sinceDither < DitherEvery =>
           plan.ahead = Total(Primary, done[Primary] + DitherEvery - sinceDither) - Total(Primary, done[Primary])
  BY PrimaryNat, PublishedIdle, Zenon
<1>2. plan # NoDither
  BY <1>1, PlanIsThere, Zenon
<1>3. sinceDither < DitherEvery <=> ~(sinceDither >= DitherEvery)
  BY PrimaryNat
<1>4. sinceDither >= DitherEvery => Remaining = 0
  BY DEF Remaining
<1>5. sinceDither < DitherEvery => Remaining = plan.ahead
  BY <1>1, <1>3 DEF Remaining
<1> QED
  BY <1>1, <1>2, <1>3, <1>4, <1>5, Zenon

\* Published with a frame in flight, it is what remains after that frame.
LEMMA PublishedInFlight ==
  ASSUME RigTypeOK, DitherEvery # 0, plan = Published(sinceDither, done[Primary], TRUE)
  PROVE  /\ plan # NoDither
         /\ sinceDither >= DitherEvery => plan.due /\ Remaining = 0
         /\ sinceDither < DitherEvery => ~plan.due /\ Remaining = plan.ahead + Duration(Primary)
<1>1. /\ plan \in [due : BOOLEAN, ahead : Nat]
      /\ plan.due <=> sinceDither >= DitherEvery
      /\ sinceDither < DitherEvery =>
           plan.ahead = Total(Primary, done[Primary] + DitherEvery - sinceDither) - Total(Primary, done[Primary] + 1)
  BY PrimaryNat, PublishedExposing, Zenon
<1>2. plan # NoDither
  BY <1>1, PlanIsThere, Zenon
<1>3. sinceDither < DitherEvery <=> ~(sinceDither >= DitherEvery)
  BY PrimaryNat
<1>4. sinceDither >= DitherEvery => Remaining = 0
  BY DEF Remaining
<1>5. ASSUME sinceDither < DitherEvery
      PROVE  Remaining = plan.ahead + Duration(Primary)
  <2> DEFINE last == done[Primary] + DitherEvery - sinceDither
  <2>1. last \in Nat
    BY <1>5, PrimaryNat
  <2>2. /\ plan.ahead = Total(Primary, last) - Total(Primary, done[Primary] + 1)
        /\ Remaining = Total(Primary, last) - Total(Primary, done[Primary])
    BY <1>1, <1>3, <1>5 DEF Remaining
  <2> HIDE DEF last
  <2>3. Total(Primary, last) \in Nat /\ Total(Primary, done[Primary]) \in Nat
    BY <2>1, PrimaryNat, TotalNat
  <2>4. /\ Duration(Primary) \in Nat
        /\ Total(Primary, done[Primary] + 1) = Total(Primary, done[Primary]) + Duration(Primary)
    BY PrimaryNat, DurationNat
  <2> DEFINE end == Total(Primary, last)
             now == Total(Primary, done[Primary])
             next == Total(Primary, done[Primary] + 1)
             d == Duration(Primary)
  <2>5. end \in Nat /\ now \in Nat /\ d \in Nat /\ next = now + d
    BY <2>3, <2>4
  <2>6. plan.ahead = end - next /\ Remaining = end - now
    BY <2>2
  <2> HIDE DEF end, now, next, d
  <2>7. end - now = (end - next) + d
    BY <2>5
  <2>8. Remaining = plan.ahead + d
    BY <2>6, <2>7, Zenon
  <2> QED
    BY <2>8 DEF d
<1> QED
  BY <1>1, <1>2, <1>3, <1>4, <1>5, Zenon

\* What is published with a frame in flight is a lower bound without it.
LEMMA AheadBound ==
  ASSUME RigTypeOK, PlaceInv, PlanInv
  PROVE  Ahead <= Remaining /\ Ahead \in Int
<1>0. Ahead \in Int
  BY PrimaryNat DEF Ahead
<1>1. CASE ~Exposing
  BY <1>0, <1>1, PrimaryNat DEF PlanInv, DitherIn, Ahead
<1>2. CASE Exposing
  <2>1. CASE DitherEvery = 0
    BY <2>1, RemainingNat DEF PlanInv, NoDither, Ahead
  <2>2. CASE DitherEvery # 0
    <3>1. plan = Published(sinceDither, done[Primary], TRUE)
      BY <1>2 DEF PlanInv
    <3>2. Duration(Primary) \in Nat
      BY PrimaryNat, DurationNat
    <3>3. CASE sinceDither >= DitherEvery
      <4>1. plan.due /\ Remaining = 0
        BY <2>2, <3>1, <3>3, PublishedInFlight, Zenon
      <4> QED
        BY <4>1 DEF Ahead
    <3>4. CASE sinceDither < DitherEvery
      <4>1. ~plan.due /\ Remaining = plan.ahead + Duration(Primary)
        BY <2>2, <3>1, <3>4, PublishedInFlight, Zenon
      <4> QED
        BY <3>2, <4>1, PrimaryNat DEF Ahead
    <3> QED
      BY <3>3, <3>4, PrimaryNat
  <2> QED
    BY <2>1, <2>2
<1> QED
  BY <1>0, <1>1, <1>2

\* Steps that publish nothing and neither begin nor end a frame of the primary.
LEMMA PlanKept ==
  ASSUME RigTypeOK, RigTypeOK', PlaceInv, PlanInv, UNCHANGED <<plan, frames>>,
         done'[Primary] = done[Primary], sinceDither' <= sinceDither, ~Exposing',
         at[Primary] = "begin" => at'[Primary] = "begin" \/ primaryDone',
         primaryDone => primaryDone' \/ at'[Primary] = "begin",
         op' = "dither" => op = "dither" /\ primaryDone' = primaryDone /\ at'[Primary] \in {"waits", "moves"}
  PROVE  PlanInv'
<1>1. Ahead <= Remaining' /\ DitherIn' = Ahead
  <2>1. Ahead <= Remaining /\ Ahead \in Int /\ Remaining \in Nat /\ Remaining' \in Nat
    BY AheadBound, RemainingNat, NextNat
  <2>2. Remaining <= Remaining'
    BY RemainingGrows
  <2>3. DitherIn' = Ahead
    BY PrimaryNat DEF DitherIn, Ahead
  <2> QED
    BY <2>1, <2>2, <2>3
<1> QED
  BY <1>1 DEF PlanInv, Exposing

\* Between two frames nothing is added to what was published.
LEMMA AheadIsDitherIn ==
  ASSUME RigTypeOK, ~Exposing
  PROVE  DitherIn = Ahead /\ Ahead \in Int
<1>1. plan.ahead \in Int
  BY PrimaryNat
<1>2. CASE plan.due
  BY <1>2 DEF DitherIn, Ahead
<1>3. CASE ~plan.due
  <2>1. DitherIn = plan.ahead + 0 /\ Ahead = plan.ahead
    BY <1>3 DEF DitherIn, Ahead
  <2> QED
    BY <1>1, <2>1
<1> QED
  BY <1>2, <1>3

\* A plan published between two frames is what remains.
LEMMA PlanBetween ==
  ASSUME RigTypeOK, plan = Published(sinceDither, done[Primary], FALSE), ~Exposing,
         op = "dither" =>
              /\ DitherEvery # 0 /\ sinceDither >= DitherEvery
              /\ ~primaryDone /\ at[Primary] \in {"waits", "moves"}
  PROVE  PlanInv /\ (plan # NoDither => DitherIn = Remaining)
<1>1. Remaining \in Nat /\ (sinceDither >= DitherEvery \/ sinceDither < DitherEvery) /\ DitherIn = Ahead
  BY PrimaryNat, RemainingNat, AheadIsDitherIn
<1>2. at[Primary] # "record"
  BY DEF Exposing
<1>3. CASE DitherEvery = 0
  <2>1. plan = NoDither
    BY <1>3 DEF Published
  <2>2. ~NoDither.due /\ NoDither.ahead = -1
    BY DEF NoDither
  <2>3. Ahead = -1
    BY <2>1, <2>2, Zenon DEF Ahead
  <2>4. DitherIn <= Remaining
    BY <1>1, <2>3
  <2> QED
    BY <1>1, <1>2, <1>3, <2>1, <2>4, Zenon DEF PlanInv
<1>4. CASE DitherEvery # 0
  <2>1. /\ plan # NoDither
        /\ sinceDither >= DitherEvery => plan.due /\ Remaining = 0
        /\ sinceDither < DitherEvery => ~plan.due /\ Remaining = plan.ahead
    BY <1>4, PublishedBetween
  <2>2. Ahead = Remaining
    BY <1>1, <2>1 DEF Ahead
  <2>3. DitherIn <= Remaining
    BY <1>1, <2>2
  <2>4. op = "dither" => plan.due /\ ~primaryDone /\ at[Primary] \in {"waits", "moves"}
    BY <2>1
  <2> QED
    BY <1>1, <1>2, <1>4, <2>1, <2>2, <2>3, <2>4, Zenon DEF PlanInv
<1> QED
  BY <1>3, <1>4

\* Steps that publish what remains between two frames.
LEMMA PlanPublished ==
  ASSUME RigTypeOK', plan' = Published(sinceDither', done'[Primary], FALSE), ~Exposing', UNCHANGED frames,
         op' = "dither" =>
              /\ DitherEvery # 0 /\ sinceDither' >= DitherEvery
              /\ ~primaryDone' /\ at'[Primary] \in {"waits", "moves"}
  PROVE  PlanInv' /\ (plan' # NoDither => DitherIn' = Remaining')
<1>1. plan' = Published(sinceDither, done[Primary], FALSE)'
  BY DEF Published, Total
<1>2. (/\ RigTypeOK /\ plan = Published(sinceDither, done[Primary], FALSE) /\ ~Exposing
       /\ op = "dither" =>
               /\ DitherEvery # 0 /\ sinceDither >= DitherEvery
               /\ ~primaryDone /\ at[Primary] \in {"waits", "moves"}
       => PlanInv /\ (plan # NoDither => DitherIn = Remaining))'
  BY PlanBetween, PTL
<1>3. NoDither' = NoDither
  OBVIOUS
<1> QED
  BY <1>1, <1>2, <1>3, Zenon

-----------------------------------------------------------------------------
(* SequencerRig: the plan bounds what remains, after every step. *)

\* Neither the primary nor its schedule is touched.
LEMMA PlanSame ==
  ASSUME UNCHANGED <<frames, sinceDither, plan, primaryDone, op>>,
         at'[Primary] = at[Primary], done'[Primary] = done[Primary], until'[Primary] = until[Primary]
  PROVE  /\ PlanInv => PlanInv'
         /\ DitherIn' = DitherIn
<1>1. /\ Exposing' <=> Exposing
      /\ Published(sinceDither, done[Primary], TRUE)' = Published(sinceDither, done[Primary], TRUE)
      /\ Remaining' = Remaining
  BY DEF Exposing, Published, Remaining, Total
<1>2. DitherIn' = DitherIn
  BY <1>1 DEF DitherIn
<1>3. NoDither' = NoDither
  OBVIOUS
<1> QED
  BY <1>1, <1>2, <1>3, Zenon DEF PlanInv

LEMMA PrimaryPlan ==
  ASSUME RigTypeOK, RigTypeOK', PlaceInv, PlanInv, PrimaryStep
  PROVE  PlanInv'
<1> USE DEF laneVars, schedVars, mountVars, guideVars, Goes
<1>0. /\ at'[Primary] \in Places => at' \in [Lanes -> Places]
      /\ Primary \in Lanes /\ at \in [Lanes -> Places] /\ sinceDither \in Nat /\ 0 <= sinceDither
      /\ frames' = frames
  BY PrimaryIsLane, PrimaryAlone DEF RigTypeOK, LaneTypeOK, ScheduleTypeOK
<1>1. CASE PrimaryTop
  <2>1. CASE plan' = plan /\ primaryDone'
    <3>1. /\ at'[Primary] \in {"ended", "duties"} /\ done' = done /\ sinceDither' = sinceDither /\ op' = op
          /\ op # "dither"
      BY <1>0, <1>1, <2>1 DEF PrimaryTop, Leaves, Stops, PlanInv, PlaceInv
    <3>2. sinceDither' <= sinceDither /\ done'[Primary] = done[Primary] /\ ~Exposing' /\ op' # "dither"
      BY <1>0, <3>1 DEF Exposing
    <3> QED
      BY <1>0, <2>1, <3>2, PlanKept
  <2>2. CASE plan' = Published(sinceDither, done[Primary], FALSE) /\ at'[Primary] = "status"
    <3>1. done' = done /\ sinceDither' = sinceDither /\ op' = op /\ op # "dither"
      BY <1>1 DEF PrimaryTop, PlanInv
    <3> QED
      BY <1>0, <2>2, <3>1, PlanPublished DEF Exposing
  <2> QED
    BY <1>0, <1>1, <2>1, <2>2 DEF PrimaryTop, Leaves, Stops
<1>2. CASE FlipCheck \/ FlipWaits
  <2>1. /\ UNCHANGED <<plan, done, sinceDither>> /\ at[Primary] # "begin" /\ (primaryDone => primaryDone')
        /\ op' # "dither" /\ at'[Primary] \notin {"expose", "record"}
    BY <1>0, <1>2 DEF FlipCheck, FlipWaits, BeginFlip, BeginOp, AfterFlipCheck, Leaves, Stops, PlanInv
  <2> QED
    BY <1>0, <2>1, PlanKept DEF Exposing
<1>3. CASE Prepare(Primary) \/ FocusEnds(Primary) \/ Duties \/ RecenterEnds
  <2>1. /\ UNCHANGED <<plan, done, sinceDither, primaryDone>> /\ at[Primary] # "begin"
        /\ op' # "dither" /\ at'[Primary] \notin {"expose", "record"}
    BY <1>0, <1>3 DEF Prepare, FocusEnds, Duties, RecenterEnds, PlanInv
  <2> QED
    BY <1>0, <2>1, PlanKept DEF Exposing
<1>4. CASE GuideStops \/ GuideActs \/ GuideStarts
  <2>1. /\ UNCHANGED <<plan, done, sinceDither>> /\ at[Primary] # "begin" /\ (primaryDone => primaryDone')
        /\ op' # "dither" /\ at'[Primary] \notin {"expose", "record"}
    BY <1>0, <1>4 DEF GuideStops, GuideActs, GuideStarts, BeginOp, Leaves, Stops, PlanInv
  <2> QED
    BY <1>0, <2>1, PlanKept DEF Exposing
<1>5. CASE GuideIsHealthy /\ primaryDone
  <2>1. /\ UNCHANGED <<plan, done, primaryDone>> /\ sinceDither' <= sinceDither /\ at[Primary] # "begin"
        /\ op' # "dither" /\ at'[Primary] \notin {"expose", "record"}
    BY <1>0, <1>5 DEF GuideIsHealthy, PlanInv
  <2> QED
    BY <1>0, <2>1, PlanKept DEF Exposing
<1>6. CASE GuideIsHealthy /\ ~primaryDone
  <2>1. /\ done' = done /\ op' = op /\ op # "dither" /\ at'[Primary] = "expose"
        /\ plan' = Published(sinceDither', done[Primary], TRUE)
    BY <1>0, <1>6 DEF GuideIsHealthy, PlanInv
  <2>2. plan' = Published(sinceDither, done[Primary], TRUE)'
    BY <1>0, <2>1 DEF Published, Total
  <2>3. DitherEvery = 0 => plan' = NoDither
    BY <2>1 DEF Published
  <2>4. DitherEvery # 0 => plan' # NoDither
    <3>1. frames \in Plans /\ done[Primary] \in Nat /\ sinceDither' \in Nat
      BY PrimaryNat, NextNat
    <3> QED
      BY <2>1, <3>1, PublishedExposing, PlanIsThere, Zenon
  <2>5. NoDither' = NoDither /\ Exposing' /\ at'[Primary] # "record"
    BY <2>1 DEF Exposing
  <2> QED
    BY <2>1, <2>2, <2>3, <2>4, <2>5, Zenon DEF PlanInv
<1>7. CASE FrameReady(Primary)
  <2>1. /\ UNCHANGED <<plan, done, sinceDither, primaryDone, op, until>>
        /\ at[Primary] = "expose" /\ at'[Primary] = "record" /\ until[Primary] <= Margin
    BY <1>0, <1>7 DEF FrameReady
  <2>2. Exposing /\ Exposing' /\ op # "dither"
    BY <2>1 DEF Exposing, PlanInv
  <2>3. Published(sinceDither, done[Primary], TRUE)' = Published(sinceDither, done[Primary], TRUE)
    BY <1>0, <2>1 DEF Published, Total
  <2> QED
    BY <2>1, <2>2, <2>3 DEF PlanInv
<1>8. CASE PrimaryRecords
  <2>1. plan' = Published(sinceDither', done'[Primary], FALSE)
    BY <1>8 DEF PrimaryRecords
  <2>2. op # "dither" /\ ~primaryDone
    BY <1>8 DEF PrimaryRecords, PlanInv, PlaceInv
  <2>3. \/ op' = op /\ at'[Primary] \in {"ended", "duties", "top"}
        \/ DitherEvery > 0 /\ sinceDither' >= DitherEvery /\ primaryDone' = primaryDone /\ at'[Primary] \in {"waits", "moves"}
    BY <1>0, <1>8 DEF PrimaryRecords, BeginOp, Leaves, Stops
  <2>4. DitherEvery > 0 => DitherEvery # 0
    BY DitherEveryNat
  <2>5. ~Exposing'
    BY <2>3 DEF Exposing
  <2>6. op' = "dither" =>
          DitherEvery # 0 /\ sinceDither' >= DitherEvery /\ ~primaryDone' /\ at'[Primary] \in {"waits", "moves"}
    BY <2>2, <2>3, <2>4
  <2> QED
    BY <1>0, <2>1, <2>5, <2>6, PlanPublished, Zenon
<1>9. CASE OpBegins
  <2>1. /\ UNCHANGED <<plan, done, sinceDither, primaryDone, op>> /\ at[Primary] = "waits" /\ at'[Primary] = "moves"
    BY <1>0, <1>9 DEF OpBegins
  <2> QED
    BY <1>0, <2>1, PlanKept DEF Exposing
<1>10. CASE FlipEnds
  <2>1. /\ UNCHANGED <<plan, done>> /\ at[Primary] = "moves" /\ op' = "none" /\ (primaryDone => primaryDone')
        /\ sinceDither' <= sinceDither /\ at'[Primary] \notin {"expose", "record"}
    BY <1>0, <1>10 DEF FlipEnds, AfterFlipCheck, Leaves, Stops
  <2> QED
    BY <1>0, <2>1, PlanKept DEF Exposing
<1>11. CASE DitherEnds
  <2>1. /\ plan' = Published(sinceDither', done'[Primary], FALSE) /\ op' = "none" /\ at'[Primary] = "top"
    BY <1>0, <1>11 DEF DitherEnds
  <2> QED
    BY <1>0, <2>1, PlanPublished DEF Exposing
<1> QED
  BY <1>1, <1>2, <1>3, <1>4, <1>5, <1>6, <1>7, <1>8, <1>9, <1>10, <1>11 DEF PrimaryStep

LEMMA SecondaryPlan ==
  ASSUME RigTypeOK, PlanInv, NEW l \in Secondaries, SecondaryStep(l)
  PROVE  PlanInv' /\ DitherIn' = DitherIn
<1>1. Primary \in Lanes \ {l}
  BY PrimaryIsLane
<1> QED
  BY <1>1, SecondaryAlone, PlanSame

LEMMA OtherPlan ==
  ASSUME RigTypeOK, RigTypeOK', PlaceInv, PlanInv,
         Disturbs \/ GuideSettles \/ Tick \/ \E l \in Lanes : TakesFocus(l)
  PROVE  PlanInv'
<1> USE DEF laneVars, schedVars, mountVars, guideVars
<1>0. Primary \in Lanes /\ at \in [Lanes -> Places] /\ sinceDither \in Nat /\ 0 <= sinceDither
  BY PrimaryIsLane DEF RigTypeOK, LaneTypeOK, ScheduleTypeOK
<1>1. CASE BodyFails
  <2>1. /\ UNCHANGED <<plan, frames, done, sinceDither>> /\ primaryDone' /\ at'[Primary] = "ended" /\ op' = "none"
    BY <1>0, <1>1 DEF BodyFails
  <2> QED
    BY <1>0, <2>1, PlanKept DEF Exposing
<1>2. CASE Again
  <2>1. /\ UNCHANGED <<plan, frames, done, op>> /\ at[Primary] = "ended" /\ at'[Primary] = "begin"
        /\ sinceDither' <= sinceDither
    BY <1>0, <1>2 DEF Again, BodyOver
  <2>2. op # "dither"
    BY <2>1 DEF PlanInv
  <2> QED
    BY <1>0, <2>1, <2>2, PlanKept DEF Exposing
<1>3. CASE Pause \/ Resume \/ GuideLost \/ StarBack \/ GuideSettles \/ \E l \in Lanes : TakesFocus(l)
  <2>1. UNCHANGED <<at, until, frames, done, sinceDither, plan, primaryDone, op>>
    BY <1>3 DEF Pause, Resume, GuideLost, StarBack, GuideSettles, TakesFocus
  <2> QED
    BY <2>1, PlanSame
<1>4. CASE FlipUnknown
  <2>1. /\ UNCHANGED <<plan, frames, done, sinceDither, primaryDone, op>> /\ at[Primary] \in {"status", "flipwait"}
        /\ at'[Primary] \in {"prepare", "guide", "duties"}
    BY <1>0, <1>4 DEF FlipUnknown, AfterFlipCheck, Goes
  <2>2. op # "dither"
    BY <2>1 DEF PlanInv
  <2> QED
    BY <1>0, <2>1, <2>2, PlanKept DEF Exposing
<1>5. CASE Tick
  <2>1. /\ UNCHANGED <<plan, frames, at, done, sinceDither, primaryDone, op>>
        /\ until'[Primary] <= until[Primary] /\ until'[Primary] \in Nat /\ until[Primary] \in Nat
    BY <1>0, <1>5 DEF Tick, RigTypeOK, LaneTypeOK
  <2>2. /\ Exposing' <=> Exposing
        /\ Published(sinceDither, done[Primary], TRUE)' = Published(sinceDither, done[Primary], TRUE)
        /\ Remaining' = Remaining /\ NoDither' = NoDither
    BY <2>1 DEF Exposing, Published, Remaining, Total
  <2>3. ~Exposing => DitherIn' = DitherIn
    BY <2>1, <2>2 DEF DitherIn
  <2>4. at'[Primary] = "record" => until'[Primary] <= Margin
    BY <2>1, DitherEveryNat DEF PlanInv
  <2> QED
    BY <2>1, <2>2, <2>3, <2>4, Zenon DEF PlanInv
<1> QED
  BY <1>1, <1>2, <1>3, <1>4, <1>5 DEF Disturbs

-----------------------------------------------------------------------------
(* SequencerRig: the frames of the others end before the dither, after every step. *)

\* The time until the dither is a number, below 0 at most by what there is no plan for.
LEMMA DitherInInt ==
  ASSUME RigTypeOK
  PROVE  DitherIn \in Int
<1>1. CASE plan.due
  BY <1>1 DEF DitherIn
<1>2. CASE ~plan.due
  <2>1. plan.ahead + (until[Primary] - Margin) \in Int /\ plan.ahead + 0 \in Int
    BY PrimaryNat
  <2> QED
    BY <1>2, <2>1 DEF DitherIn
<1> QED
  BY <1>1, <1>2

LEMMA NextDitherInInt == RigTypeOK' => DitherIn' \in Int
<1>1. (RigTypeOK => DitherIn \in Int)'
  BY DitherInInt, PTL
<1> QED
  BY <1>1

\* Steps that take no frame of the others nearer to its end, nor the dither nearer than it was.
LEMMA FitGrows ==
  ASSUME RigTypeOK, RigTypeOK', FitInv,
         \A l \in Secondaries : at'[l] = "expose" => at[l] = "expose" /\ until'[l] = until[l],
         ~uncounted' /\ ~primaryDone' /\ plan' # NoDither =>
           ~uncounted /\ ~primaryDone /\ plan # NoDither /\ DitherIn <= DitherIn'
  PROVE  FitInv'
<1> SUFFICES ASSUME ~uncounted', ~primaryDone', plan' # NoDither, NEW l \in Secondaries, at'[l] = "expose"
             PROVE  until'[l] <= DitherIn'
  BY DEF FitInv
<1>1. until[l] <= DitherIn /\ DitherIn <= DitherIn' /\ until'[l] = until[l]
  BY DEF FitInv
<1>2. until[l] \in Nat /\ DitherIn \in Int /\ DitherIn' \in Int
  BY DitherInInt, NextDitherInInt, PrimaryIsLane DEF RigTypeOK, LaneTypeOK
<1> QED
  BY <1>1, <1>2

\* Steps of the primary between two frames that publish nothing.
LEMMA FitKept ==
  ASSUME RigTypeOK, RigTypeOK', FitInv, UNCHANGED <<plan, uncounted>>, ~Exposing, ~Exposing',
         primaryDone => primaryDone',
         \A l \in Secondaries : at'[l] = at[l] /\ until'[l] = until[l]
  PROVE  FitInv'
<1>1. DitherIn' = DitherIn
  BY DEF DitherIn
<1>2. DitherIn <= DitherIn'
  BY <1>1, DitherInInt
<1> QED
  BY <1>2, FitGrows

\* A frame that starts ends what remains at the dither.
LEMMA FlightIsRemaining ==
  ASSUME RigTypeOK, DitherEvery # 0, plan = Published(sinceDither, done[Primary], TRUE), Exposing,
         until[Primary] = Duration(Primary) + Margin
  PROVE  DitherIn = Remaining
<1>1. /\ sinceDither >= DitherEvery => plan.due /\ Remaining = 0
      /\ sinceDither < DitherEvery => ~plan.due /\ Remaining = plan.ahead + Duration(Primary)
  BY PublishedInFlight
<1>2. CASE sinceDither >= DitherEvery
  BY <1>1, <1>2 DEF DitherIn
<1>3. CASE sinceDither < DitherEvery
  <2>1. DitherIn = plan.ahead + (until[Primary] - Margin)
    BY <1>1, <1>3 DEF DitherIn
  <2>2. Duration(Primary) \in Nat
    BY PrimaryNat, DurationNat
  <2>3. until[Primary] - Margin = Duration(Primary)
    BY <2>2, PrimaryNat
  <2> QED
    BY <1>1, <1>3, <2>1, <2>3, Zenon
<1> QED
  BY <1>2, <1>3, PrimaryNat

\* The same of the state that a step leads to.
LEMMA NextFlight ==
  ASSUME RigTypeOK', DitherEvery # 0, plan' = Published(sinceDither, done[Primary], TRUE)', Exposing',
         until'[Primary] = Duration(Primary)' + Margin
  PROVE  DitherIn' = Remaining'
<1>1. (/\ RigTypeOK /\ DitherEvery # 0 /\ plan = Published(sinceDither, done[Primary], TRUE) /\ Exposing
       /\ until[Primary] = Duration(Primary) + Margin
       => DitherIn = Remaining)'
  BY FlightIsRemaining, PTL
<1> QED
  BY <1>1

\* At the end of the frame in flight, what was published is what remains after it has counted.
LEMMA CountedIsAhead ==
  ASSUME RigTypeOK, RigTypeOK', DitherEvery # 0, plan = Published(sinceDither, done[Primary], TRUE),
         UNCHANGED frames,
         done'[Primary] = done[Primary] + 1, sinceDither' = OneMoreFrame
  PROVE  Ahead = Remaining'
<1>0. /\ sinceDither \in Nat /\ DitherEvery \in Nat /\ done[Primary] \in Nat /\ frames \in Plans /\ Primary \in Lanes
      /\ plan.ahead \in Int
  BY PrimaryNat
<1>1. /\ plan.due <=> sinceDither >= DitherEvery
      /\ sinceDither < DitherEvery =>
           plan.ahead = Total(Primary, done[Primary] + DitherEvery - sinceDither) - Total(Primary, done[Primary] + 1)
  BY <1>0, PublishedExposing, Zenon
<1>2. CASE sinceDither >= DitherEvery
  <2>1. sinceDither' >= DitherEvery
    BY <1>0, <1>2 DEF OneMoreFrame
  <2> QED
    BY <1>1, <1>2, <2>1 DEF Ahead, Remaining
<1>3. CASE sinceDither < DitherEvery
  <2> DEFINE last == done[Primary] + DitherEvery - sinceDither
  <2>1. /\ sinceDither' = sinceDither + 1 /\ ~(sinceDither >= DitherEvery)
        /\ last \in Nat /\ done[Primary] + 1 \in Nat
    BY <1>0, <1>3 DEF OneMoreFrame
  <2>2. Ahead = Total(Primary, last) - Total(Primary, done[Primary] + 1)
    BY <1>1, <1>3, <2>1, Zenon DEF Ahead
  <2>3. CASE sinceDither' >= DitherEvery
    <3>1. last = done[Primary] + 1 /\ Remaining' = 0
      BY <1>0, <1>3, <2>1, <2>3 DEF Remaining
    <3>2. Total(Primary, done[Primary] + 1) \in Nat
      BY <1>0, <2>1, TotalNat
    <3>3. Total(Primary, done[Primary] + 1) - Total(Primary, done[Primary] + 1) = 0
      BY <3>2
    <3> QED
      BY <2>2, <3>1, <3>3, Zenon
  <2>4. CASE ~(sinceDither' >= DitherEvery)
    <3>1. done'[Primary] + DitherEvery - sinceDither' = last
      BY <1>0, <2>1
    <3>2. Remaining' = Total(Primary, done'[Primary] + DitherEvery - sinceDither') - Total(Primary, done'[Primary])
      BY <2>4, Zenon DEF Remaining, Total
    <3> QED
      BY <2>2, <3>1, <3>2, Zenon
  <2> QED
    BY <2>3, <2>4
<1> QED
  BY <1>0, <1>2, <1>3

LEMMA PrimaryFits ==
  ASSUME RigInv, RigTypeOK', PlanInv', PrimaryStep
  PROVE  FitInv'
<1> USE DEF laneVars, schedVars, mountVars, guideVars, Goes
<1>0. /\ RigTypeOK /\ PlaceInv /\ MountInv /\ PlanInv /\ FitInv
      /\ Primary \in Lanes /\ at \in [Lanes -> Places] /\ sinceDither \in Nat /\ 0 <= sinceDither
      /\ frames' = frames
      /\ \A l \in Secondaries : at'[l] = at[l] /\ until'[l] = until[l]
  BY PrimaryIsLane, PrimaryAlone DEF RigInv, RigTypeOK, LaneTypeOK, ScheduleTypeOK
<1>1. CASE PrimaryTop
  <2>1. CASE primaryDone'
    BY <2>1 DEF FitInv
  <2>2. CASE at[Primary] = "begin"
    BY <1>0, <2>2 DEF FitInv, PlaceInv
  <2>3. CASE ~primaryDone' /\ at[Primary] = "top"
    <3>1. /\ plan' = Published(sinceDither', done'[Primary], FALSE) /\ at'[Primary] = "status" /\ op' = op
          /\ sinceDither' = sinceDither /\ done' = done /\ uncounted' = uncounted
      BY <1>0, <1>1, <2>3 DEF PrimaryTop, Leaves, Stops
    <3>2. ~Exposing /\ ~Exposing' /\ ~primaryDone /\ op' # "dither"
      BY <1>0, <2>3, <3>1 DEF Exposing, PlaceInv, PlanInv
    <3>3. plan' # NoDither => DitherIn' = Remaining'
      BY <1>0, <3>1, <3>2, PlanPublished, Zenon
    <3>4. DitherIn <= Remaining /\ Remaining <= Remaining'
      BY <1>0, <3>1, <3>2, RemainingGrows DEF PlanInv
    <3>5. plan' # NoDither => plan # NoDither
      BY <1>0, <2>3, <3>1, <3>2 DEF PlanInv, Published
    <3>6. plan' # NoDither => DitherIn <= DitherIn'
      BY <1>0, <3>3, <3>4, DitherInInt, RemainingNat, NextNat
    <3> QED
      BY <1>0, <3>1, <3>2, <3>5, <3>6, FitGrows
  <2> QED
    BY <1>1, <2>1, <2>2, <2>3 DEF PrimaryTop
<1>2. CASE FlipCheck \/ FlipWaits
  <2>1. /\ UNCHANGED <<plan, uncounted>> /\ (primaryDone => primaryDone')
        /\ at[Primary] \notin {"expose", "record"} /\ at'[Primary] \notin {"expose", "record"}
    BY <1>0, <1>2 DEF FlipCheck, FlipWaits, BeginFlip, BeginOp, AfterFlipCheck, Leaves, Stops
  <2> QED
    BY <1>0, <2>1, FitKept DEF Exposing
<1>3. CASE Prepare(Primary) \/ FocusEnds(Primary) \/ Duties \/ RecenterEnds \/ OpBegins
  <2>1. /\ UNCHANGED <<plan, uncounted, primaryDone>>
        /\ at[Primary] \notin {"expose", "record"} /\ at'[Primary] \notin {"expose", "record"}
    BY <1>0, <1>3 DEF Prepare, FocusEnds, Duties, RecenterEnds, OpBegins
  <2> QED
    BY <1>0, <2>1, FitKept DEF Exposing
<1>4. CASE GuideStops \/ GuideActs \/ GuideStarts \/ (GuideIsHealthy /\ primaryDone)
  <2>1. /\ UNCHANGED <<plan, uncounted>> /\ (primaryDone => primaryDone')
        /\ at[Primary] \notin {"expose", "record"} /\ at'[Primary] \notin {"expose", "record"}
    BY <1>0, <1>4 DEF GuideStops, GuideActs, GuideStarts, GuideIsHealthy, BeginOp, Leaves, Stops
  <2> QED
    BY <1>0, <2>1, FitKept DEF Exposing
<1>5. CASE GuideIsHealthy /\ ~primaryDone
  <2>1. /\ plan' = Published(sinceDither', done[Primary], TRUE) /\ done' = done /\ sinceDither' <= sinceDither
        /\ at[Primary] = "guide" /\ at'[Primary] = "expose" /\ until'[Primary] = Duration(Primary) + Margin
        /\ uncounted' = uncounted /\ primaryDone' = primaryDone
    BY <1>0, <1>5 DEF GuideIsHealthy, RigTypeOK, LaneTypeOK
  <2>2. ~Exposing /\ Exposing'
    BY <2>1 DEF Exposing
  <2>3. DitherEvery # 0 => DitherIn' = Remaining'
    <3>1. plan' = Published(sinceDither, done[Primary], TRUE)' /\ until'[Primary] = Duration(Primary)' + Margin
      BY <1>0, <2>1 DEF Published, Duration, Total
    <3> QED
      BY <2>2, <3>1, NextFlight, Zenon
  <2>4. DitherIn <= Remaining /\ Remaining <= Remaining'
    BY <1>0, <2>1, <2>2, RemainingGrows DEF PlanInv
  <2>5. plan' # NoDither => DitherEvery # 0 /\ plan # NoDither
    BY <1>0, <1>5, <2>1 DEF PlanInv, Published
  <2>6. plan' # NoDither => DitherIn <= DitherIn'
    BY <1>0, <2>3, <2>4, <2>5, DitherInInt, RemainingNat, NextNat
  <2> QED
    BY <1>0, <1>5, <2>1, <2>5, <2>6, FitGrows
<1>6. CASE FrameReady(Primary)
  <2>1. UNCHANGED <<plan, uncounted, primaryDone, until>> /\ Exposing /\ Exposing'
    BY <1>0, <1>6 DEF FrameReady, Exposing
  <2>2. DitherIn' = DitherIn
    BY <2>1 DEF DitherIn
  <2>3. DitherIn <= DitherIn'
    BY <1>0, <2>2, DitherInInt
  <2> QED
    BY <1>0, <2>1, <2>3, FitGrows
<1>7. CASE PrimaryRecords
  <2>1. CASE uncounted'
    BY <2>1 DEF FitInv
  <2>2. CASE primaryDone'
    BY <2>2 DEF FitInv
  <2>3. CASE ~uncounted' /\ ~primaryDone' /\ plan' # NoDither
    <3>1. /\ plan' = Published(sinceDither', done'[Primary], FALSE) /\ sinceDither' = OneMoreFrame
          /\ done'[Primary] = done[Primary] + 1 /\ ~uncounted /\ at[Primary] = "record"
      BY <1>0, <1>7, <2>3 DEF PrimaryRecords, RigTypeOK, LaneTypeOK
    <3>2. DitherEvery # 0
      BY <2>3, <3>1 DEF Published
    <3>3. /\ ~primaryDone /\ Exposing /\ plan = Published(sinceDither, done[Primary], TRUE)
          /\ until[Primary] <= Margin
      BY <1>0, <3>1 DEF PlaceInv, PlanInv, Exposing
    <3>4. plan # NoDither
      BY <1>0, <3>2, <3>3, PublishedInFlight
    <3>5. Ahead = Remaining'
      BY <1>0, <3>1, <3>2, <3>3, CountedIsAhead
    <3>6. DitherIn <= Ahead /\ Ahead \in Int
      <4>1. CASE plan.due
        BY <4>1 DEF DitherIn, Ahead
      <4>2. CASE ~plan.due
        <5>1. DitherIn = plan.ahead + (until[Primary] - Margin) /\ Ahead = plan.ahead
          BY <3>3, <4>2 DEF DitherIn, Ahead
        <5>2. /\ plan.ahead \in Int /\ until[Primary] \in Nat /\ Margin \in Nat /\ until[Primary] <= Margin
          BY <1>0, <3>3, PrimaryNat
        <5> QED
          BY <5>1, <5>2
      <4> QED
        BY <4>1, <4>2
    <3>7. DitherIn' = Remaining'
      <4>1. at'[Primary] \notin {"expose", "record"}
        BY <1>0, <1>7 DEF PrimaryRecords, BeginOp, Leaves, Stops
      <4>2. ~Exposing'
        BY <4>1 DEF Exposing
      <4>3. op' = "dither" =>
                 /\ DitherEvery # 0 /\ sinceDither' >= DitherEvery
                 /\ ~primaryDone' /\ at'[Primary] \in {"waits", "moves"}
        BY <1>0, <1>7, <2>3, <3>2 DEF PrimaryRecords, BeginOp, Leaves, Stops, PlanInv
      <4> QED
        BY <1>0, <2>3, <3>1, <4>2, <4>3, PlanPublished, Zenon
    <3> QED
      BY <1>0, <2>3, <3>1, <3>3, <3>4, <3>5, <3>6, <3>7, FitGrows
  <2> QED
    BY <2>1, <2>2, <2>3 DEF FitInv
<1>8. CASE DitherEnds
  <2>1. \A l \in Secondaries : at'[l] # "expose"
    BY <1>0, <1>8 DEF DitherEnds, MountInv
  <2> QED
    BY <2>1 DEF FitInv
<1>9. CASE FlipEnds
  <2>1. /\ UNCHANGED <<plan, uncounted>> /\ (primaryDone => primaryDone')
        /\ at[Primary] \notin {"expose", "record"} /\ at'[Primary] \notin {"expose", "record"}
    BY <1>0, <1>9 DEF FlipEnds, AfterFlipCheck, Leaves, Stops
  <2> QED
    BY <1>0, <2>1, FitKept DEF Exposing
<1> QED
  BY <1>1, <1>2, <1>3, <1>4, <1>5, <1>6, <1>7, <1>8, <1>9 DEF PrimaryStep

LEMMA SecondaryFits ==
  ASSUME RigInv, RigTypeOK', NEW l \in Secondaries, SecondaryStep(l)
  PROVE  FitInv'
<1> USE DEF laneVars, schedVars, mountVars, guideVars, Goes
<1>0. /\ RigTypeOK /\ FitInv /\ DitherIn' = DitherIn /\ DitherIn \in Int
      /\ UNCHANGED <<plan, primaryDone, uncounted>>
      /\ l \in Lanes /\ at \in [Lanes -> Places] /\ until \in [Lanes -> Nat]
      /\ \A k \in Secondaries \ {l} : at'[k] = at[k] /\ until'[k] = until[k]
  BY PrimaryIsLane, SecondaryAlone, SecondaryPlan, DitherInInt DEF RigInv, RigTypeOK, LaneTypeOK
<1>1. CASE SecondaryExposes(l)
  <2>1. /\ ~primaryDone /\ plan # NoDither => Duration(l) + Margin <= DitherIn
        /\ until'[l] = Duration(l) + Margin
    BY <1>0, <1>1 DEF SecondaryExposes, Fits
  <2> QED
    BY <1>0, <2>1 DEF FitInv
<1>2. CASE ~SecondaryExposes(l)
  <2>1. at'[l] # "expose"
    BY <1>0, <1>2 DEF SecondaryStep, SecondaryTop, Prepare, FocusEnds, SecondaryStops, LaneEnds, FrameReady,
       SecondaryRecords
  <2>2. DitherIn <= DitherIn'
    BY <1>0
  <2> QED
    BY <1>0, <2>1, <2>2, FitGrows
<1> QED
  BY <1>1, <1>2

LEMMA OtherFits ==
  ASSUME RigInv, RigTypeOK', Disturbs \/ GuideSettles \/ Tick \/ \E l \in Lanes : TakesFocus(l)
  PROVE  FitInv'
<1> USE DEF laneVars, schedVars, mountVars, guideVars
<1>0. /\ RigTypeOK /\ PlaceInv /\ PlanInv /\ FitInv /\ DitherIn \in Int
      /\ Primary \in Lanes /\ Secondaries \subseteq Lanes /\ at \in [Lanes -> Places] /\ until \in [Lanes -> Nat]
  BY PrimaryIsLane, DitherInInt DEF RigInv, RigTypeOK, LaneTypeOK
<1>1. CASE BodyFails
  BY <1>1 DEF BodyFails, FitInv
<1>2. CASE Again
  <2>1. \A l \in Secondaries : at'[l] # "expose"
    BY <1>0, <1>2, PrimaryIsLane DEF Again
  <2> QED
    BY <2>1 DEF FitInv
<1>3. CASE Pause \/ Resume \/ GuideLost \/ StarBack \/ GuideSettles \/ \E l \in Lanes : TakesFocus(l)
  <2>1. UNCHANGED <<at, until, frames, done, sinceDither, plan, primaryDone, op, uncounted>>
    BY <1>3 DEF Pause, Resume, GuideLost, StarBack, GuideSettles, TakesFocus
  <2>2. DitherIn' = DitherIn
    BY <2>1, PlanSame
  <2>3. DitherIn <= DitherIn'
    BY <1>0, <2>2
  <2> QED
    BY <1>0, <2>1, <2>3, FitGrows
<1>4. CASE FlipUnknown
  <2>1. /\ UNCHANGED <<plan, uncounted, primaryDone, until>>
        /\ at[Primary] \notin {"expose", "record"} /\ at'[Primary] \notin {"expose", "record"}
        /\ \A l \in Secondaries : at'[l] = at[l]
    BY <1>0, <1>4, PrimaryIsLane DEF FlipUnknown, AfterFlipCheck, Goes
  <2> QED
    BY <1>0, <2>1, FitKept DEF Exposing
<1>5. CASE Tick
  <2>1. UNCHANGED <<at, plan, primaryDone, uncounted>> /\ (Exposing' <=> Exposing)
    BY <1>5 DEF Tick, Exposing
  <2>2. \A l \in Lanes : /\ until'[l] = IF until[l] > 0 THEN until[l] - 1 ELSE 0
                         /\ at[l] \in {"expose", "record"} => until[l] > 0
    BY <1>5 DEF Tick
  <2> SUFFICES ASSUME ~uncounted, ~primaryDone, plan # NoDither, NEW l \in Secondaries, at[l] = "expose"
               PROVE  until'[l] <= DitherIn'
    BY <2>1 DEF FitInv
  <2>3. until[l] \in Nat /\ until[l] > 0 /\ until'[l] = until[l] - 1 /\ until[l] <= DitherIn
    BY <1>0, <2>2 DEF FitInv
  <2>4. DitherIn' = DitherIn \/ DitherIn' = DitherIn - 1
    <3>1. CASE plan.due \/ ~Exposing
      BY <2>1, <3>1 DEF DitherIn
    <3>2. CASE ~plan.due /\ Exposing
      <4>1. /\ DitherIn = plan.ahead + (until[Primary] - Margin)
            /\ DitherIn' = plan.ahead + (until'[Primary] - Margin)
        BY <2>1, <3>2 DEF DitherIn
      <4>2. until[Primary] \in Nat /\ until'[Primary] = until[Primary] - 1
        BY <1>0, <2>2, <3>2 DEF Exposing
      <4> QED
        BY <1>0, <4>1, <4>2, PrimaryNat
    <3> QED
      BY <3>1, <3>2
  <2> QED
    BY <1>0, <2>3, <2>4
<1> QED
  BY <1>1, <1>2, <1>3, <1>4, <1>5 DEF Disturbs

-----------------------------------------------------------------------------
(* SequencerRig: the invariant and the theorems. *)

LEMMA RigBegins == RigInit => RigInv
<1> SUFFICES ASSUME RigInit
             PROVE  RigInv
  OBVIOUS
<1>1. frames \in Plans /\ \A l \in Lanes : Len(frames[l]) \in Nat
  BY PlanTyped DEF RigInit
<1>2. LaneTypeOK
  BY <1>1 DEF RigInit, LaneTypeOK, Places
<1>3. ScheduleTypeOK
  <2>1. NoDither \in [due : BOOLEAN, ahead : Nat \cup {-1}]
    BY DEF NoDither
  <2> QED
    BY <2>1 DEF RigInit, ScheduleTypeOK
<1>4. OperationTypeOK
  BY TimesAssumption DEF RigInit, OperationTypeOK
<1>5. RigTypeOK
  BY <1>2, <1>3, <1>4 DEF RigTypeOK
<1>6. /\ at[Primary] = "begin" /\ \A l \in Secondaries : at[l] = "top"
      /\ plan = NoDither /\ primaryDone = FALSE /\ op = "none"
  BY PrimaryIsLane DEF RigInit, Secondaries
<1>7. PlaceInv /\ MountInv /\ FitInv
  BY <1>6, PrimaryIsLane DEF PlaceInv, MountInv, FitInv, Secondaries
<1>8. PlanInv
  <2>1. ~NoDither.due /\ NoDither.ahead = -1
    BY DEF NoDither
  <2>2. ~Exposing /\ Ahead = -1
    BY <1>6, <2>1 DEF Exposing, Ahead
  <2>3. DitherIn <= Remaining
    BY <1>5, <2>2, AheadIsDitherIn, RemainingNat
  <2> QED
    BY <1>6, <2>2, <2>3 DEF PlanInv
<1> QED
  BY <1>5, <1>7, <1>8 DEF RigInv

LEMMA RigGoesOn == RigInv /\ [RigNext]_rigVars => RigInv'
<1> SUFFICES ASSUME RigInv, [RigNext]_rigVars
             PROVE  RigInv'
  OBVIOUS
<1>0. RigTypeOK /\ PlaceInv /\ MountInv /\ PlanInv /\ FitInv
  BY DEF RigInv
<1>1. CASE PrimaryStep
  <2>1. RigTypeOK'
    BY <1>0, <1>1, PrimaryTypes
  <2>2. PlaceInv' /\ MountInv' /\ PlanInv'
    BY <1>0, <1>1, <2>1, PrimaryPlaces, PrimaryMount, PrimaryPlan
  <2> QED
    BY <1>1, <2>1, <2>2, PrimaryFits DEF RigInv
<1>2. ASSUME NEW l \in Secondaries, SecondaryStep(l)
      PROVE  RigInv'
  <2>1. RigTypeOK'
    BY <1>0, <1>2, SecondaryTypes
  <2>2. PlaceInv' /\ MountInv' /\ PlanInv'
    BY <1>0, <1>2, SecondaryPlaces, SecondaryMount, SecondaryPlan
  <2> QED
    BY <1>2, <2>1, <2>2, SecondaryFits DEF RigInv
<1>3. CASE Disturbs \/ GuideSettles \/ Tick \/ \E l \in Lanes : TakesFocus(l)
  <2>1. RigTypeOK'
    BY <1>0, <1>3, OtherTypes
  <2>2. PlaceInv' /\ MountInv' /\ PlanInv'
    BY <1>0, <1>3, <2>1, OtherPlaces, OtherMount, OtherPlan
  <2> QED
    BY <1>3, <2>1, <2>2, OtherFits DEF RigInv
<1>4. CASE UNCHANGED rigVars
  BY <1>4 DEF rigVars, laneVars, schedVars, mountVars, guideVars, RigInv, RigTypeOK, LaneTypeOK,
     ScheduleTypeOK, OperationTypeOK,
              PlaceInv, MountInv, PlanInv, FitInv, FramesLeft, Exposing, DitherIn, Remaining, Published, Total
<1> QED
  BY <1>1, <1>2, <1>3, <1>4 DEF RigNext

(* The state of the lanes is well formed in every reachable state and satisfies the invariant
   that the two theorems below follow from. *)
THEOREM LanesInvariant == RigSpec => []RigInv
  BY RigBegins, RigGoesOn, PTL DEF RigSpec

(* While the primary dithers, flips or re-centres, no other camera of the task exposes,
   whatever the plan, the number of cameras and the faults (mount_operation, secondary_lane). *)
THEOREM NobodyExposesWhileTheMountMoves == RigSpec => [](RigTypeOK /\ MountMovesAlone)
<1>1. RigInv => RigTypeOK /\ MountMovesAlone
  BY DEF RigInv, MountInv, MountMovesAlone
<1> QED
  BY <1>1, LanesInvariant, PTL

(* A frame of another camera that was found to fit is over when the primary waits to dither:
   the primary waits for downloads only (RigSchedule.fits, _publish_primary_plan). *)
THEOREM DitherFindsFramesOver == RigSpec => []DithersUnhindered
<1>1. RigInv => DithersUnhindered
  <2> SUFFICES ASSUME RigInv, at[Primary] = "waits", op = "dither", ~uncounted, NEW l \in Secondaries,
                      at[l] = "expose"
               PROVE  until[l] = 0
    BY DEF DithersUnhindered
  <2>1. RigTypeOK /\ plan.due /\ ~primaryDone /\ DitherIn = 0
    BY DEF RigInv, PlanInv, DitherIn
  <2>2. plan # NoDither
    <3>1. ~NoDither.due
      BY DEF NoDither
    <3> QED
      BY <2>1, <3>1, Zenon
  <2>3. until[l] <= 0
    BY <2>1, <2>2 DEF RigInv, FitInv
  <2>4. until[l] \in Nat
    BY <2>1, PrimaryIsLane DEF RigTypeOK, LaneTypeOK
  <2> QED
    BY <2>3, <2>4
<1> QED
  BY <1>1, LanesInvariant, PTL
=============================================================================
