------------------------------- MODULE Imager -------------------------------
(***************************************************************************)
(* One camera of the ImagerManager (imaging/imager.py): single exposures,  *)
(* looping exposures, stop_loop() and halt().                              *)
(*                                                                         *)
(* An exposure is a task that suspends many times between expose() finding *)
(* the camera idle and the frame being announced; "phase" is where it      *)
(* waits.  A single exposure runs in its caller's task, which may be       *)
(* cancelled; a loop is a task of its own, kept in _loop_task, that takes  *)
(* one exposure after another.  halt() invalidates what is in flight by    *)
(* counting up halt_epoch, which an exposure reads before it hands over to *)
(* the camera and compares afterwards.  The epoch itself is abstracted to  *)
(* the place where the last halt met each exposure.                        *)
(*                                                                         *)
(* Waits that only some configurations have (mount, filter wheel, upload   *)
(* directory) are always there: without them an exposure just passes       *)
(* through the phase.  Frames, headers, file names and previews are left   *)
(* out; any file operation may fail, and so may the camera.                *)
(***************************************************************************)
EXTENDS Naturals, FiniteSets

CONSTANTS
  Exposures,  \* identities of the exposing tasks alive or referred to at once
  Clients,    \* callers of stop_loop() and halt()
  NoLoop

ASSUME NoLoopAssumption == NoLoop \notin Exposures

VARIABLES
  state,      \* imager.state
  loopTask,   \* imager._loop_task: the last loop stored there, or NoLoop
  kind,       \* "single" or "loop", "none" for an identity not in use
  phase,      \* where each exposing task waits
  cancelled,  \* the tasks whose cancellation is requested and not yet delivered
  met,        \* where the last halt met the exposure a task is making
  call,       \* where each client is inside stop_loop() or halt()
  awaited,    \* the loop a client cancelled and waits for
  stuck       \* history: a single exposure failed on a file operation and nobody has set state since

codeVars == <<state, loopTask, kind, phase, cancelled, met, call, awaited>>
vars == <<codeVars, stuck>>

\* Waiting for: nothing, the first step of a loop, the mount and the filter wheel, the upload mode,
\* the frame, the upload mode to be restored (with a frame, a failure, a halted failure or a cancellation in
\* hand), the deletion of a halted frame, the files, the next frame of a loop, the abort of a cancelled exposure.
Phases == {"none", "created", "prepare", "upload", "camera", "frame", "failed", "halted", "unwind",
           "drop", "save", "between", "abort"}

Working == {e \in Exposures : phase[e] # "none"}
LoopLive == loopTask \in Working
Unused == Exposures \ (Working \cup {loopTask} \cup {awaited[c] : c \in Clients})
\* The task may go on: nothing is about to be thrown into it.
At(e, p) == phase[e] = p /\ e \notin cancelled

ImagerTypeOK ==
  /\ state \in {"idle", "exposing", "looping", "error"}
  /\ loopTask \in Exposures \cup {NoLoop}
  /\ kind \in [Exposures -> {"none", "single", "loop"}]
  /\ phase \in [Exposures -> Phases]
  /\ \A e \in Exposures : (kind[e] = "none") = (e \notin Working)
  /\ cancelled \subseteq Working
  /\ met \in [Exposures -> {"no", "before", "during", "after"}]
  /\ call \in [Clients -> {"none", "stopLoop", "halt", "abort"}]
  /\ \A c \in Clients : IF call[c] \in {"stopLoop", "halt"} THEN awaited[c] \in Exposures ELSE awaited[c] = NoLoop
  /\ stuck \in BOOLEAN

ImagerInit ==
  /\ state = "idle"
  /\ loopTask = NoLoop
  /\ kind = [e \in Exposures |-> "none"]
  /\ phase = [e \in Exposures |-> "none"]
  /\ cancelled = {}
  /\ met = [e \in Exposures |-> "no"]
  /\ call = [c \in Clients |-> "none"]
  /\ awaited = [c \in Clients |-> NoLoop]
  /\ stuck = FALSE

-----------------------------------------------------------------------------
(* How an exposing task ends. *)

Over(e) ==
  /\ phase' = [phase EXCEPT ![e] = "none"]
  /\ kind' = [kind EXCEPT ![e] = "none"]
  /\ met' = [met EXCEPT ![e] = "no"]
  /\ cancelled' = cancelled \ {e}

Moves(e, p) == phase' = [phase EXCEPT ![e] = p]

\* The finally clause of _loop_worker.
LoopEndsAs(s) == state' = IF s = "error" THEN "error" ELSE "idle"

\* An exception leaves _do_expose: a single exposure passes it on, a loop reports an error.
Raises(e) ==
  /\ Over(e)
  /\ state' = IF kind[e] = "loop" THEN "error" ELSE state

\* ExposureHalted leaves _do_expose: whoever halted has the state.
Quits(e) ==
  /\ Over(e)
  /\ IF kind[e] = "loop" THEN LoopEndsAs(state) ELSE UNCHANGED state

\* Seeded fault: a cancelled exposure aborts the camera but does not free it.
AbandonsBusy(e) ==
  \/ kind[e] = "single" /\ Moves(e, "abort") /\ cancelled' = cancelled \ {e} /\ UNCHANGED <<state, kind, met>>
  \/ kind[e] = "loop" /\ LoopEndsAs(state) /\ Over(e)

\* CancelledError leaves _do_expose: a single exposure frees the camera, then aborts whatever it exposes.
Abandons(e) ==
  \/ /\ kind[e] = "single"
     /\ state' = "idle"
     /\ phase' = [phase EXCEPT ![e] = "abort"]
     /\ cancelled' = cancelled \ {e}
     /\ UNCHANGED <<kind, met>>
  \/ /\ kind[e] = "loop"
     /\ LoopEndsAs(state)
     /\ Over(e)

-----------------------------------------------------------------------------
(* The exposing tasks. *)

\* expose(): _require_idle; the state says EXPOSING only once the preparations are over.
Expose(e) ==
  /\ state = "idle"
  /\ e \in Unused
  /\ kind' = [kind EXCEPT ![e] = "single"]
  /\ Moves(e, "prepare")
  /\ UNCHANGED <<state, loopTask, cancelled, met, call, awaited>>

StartLoop(e) ==
  /\ state = "idle"
  /\ e \in Unused
  /\ state' = "looping"
  /\ loopTask' = e
  /\ kind' = [kind EXCEPT ![e] = "loop"]
  /\ Moves(e, "created")
  /\ UNCHANGED <<cancelled, met, call, awaited>>

\* The loop takes its first or its next frame.
NextFrame(e) ==
  /\ At(e, "created") \/ At(e, "between")
  /\ Moves(e, "prepare")
  /\ met' = [met EXCEPT ![e] = "no"]
  /\ UNCHANGED <<state, loopTask, kind, cancelled, call, awaited>>

\* The loop has taken as many frames as were asked for.
LoopDone(e) ==
  /\ At(e, "between")
  /\ LoopEndsAs(state)
  /\ Over(e)
  /\ UNCHANGED <<loopTask, call, awaited>>

Prepared(e) ==
  /\ At(e, "prepare")
  /\ state' = "exposing"
  /\ Moves(e, "upload")
  /\ UNCHANGED <<loopTask, kind, cancelled, met, call, awaited>>

\* epoch = imager.halt_epoch: whatever halted before this line is forgotten by the code.
Uploaded(e) ==
  /\ At(e, "upload")
  /\ Moves(e, "camera")
  /\ UNCHANGED <<state, loopTask, kind, cancelled, met, call, awaited>>

FrameArrives(e) ==
  /\ At(e, "camera")
  /\ Moves(e, "frame")
  /\ UNCHANGED <<state, loopTask, kind, cancelled, met, call, awaited>>

\* camera.expose() raises, by itself or because abort() told it to.
CameraFails(e) ==
  /\ At(e, "camera")
  /\ \/ met[e] = "during" /\ Moves(e, "halted") /\ UNCHANGED state
     \/ met[e] # "during" /\ Moves(e, "failed") /\ state' = "idle"
  /\ UNCHANGED <<loopTask, kind, cancelled, met, call, awaited>>

\* Seeded fault: halted frames are not told from others.
RestoredKeeps(e) ==
  /\ \/ At(e, "frame") /\ Moves(e, "save") /\ UNCHANGED <<state, kind, met, cancelled>>
     \/ At(e, "failed") /\ Raises(e)
     \/ At(e, "halted") /\ Quits(e)
     \/ At(e, "unwind") /\ Abandons(e)
  /\ UNCHANGED <<loopTask, call, awaited>>

\* The upload mode is restored: what was in hand goes on.
Restored(e) ==
  /\ \/ At(e, "frame") /\ met[e] = "during" /\ Moves(e, "drop") /\ UNCHANGED <<state, kind, met, cancelled>>
     \/ At(e, "frame") /\ met[e] # "during" /\ Moves(e, "save") /\ UNCHANGED <<state, kind, met, cancelled>>
     \/ At(e, "failed") /\ Raises(e)
     \/ At(e, "halted") /\ Quits(e)
     \/ At(e, "unwind") /\ Abandons(e)
  /\ UNCHANGED <<loopTask, call, awaited>>

Dropped(e) ==
  /\ At(e, "drop")
  /\ Quits(e)
  /\ UNCHANGED <<loopTask, call, awaited>>

\* ExposureCompleted: the frame is announced and the camera freed, whoever has it by now.
Saved(e) ==
  /\ At(e, "save")
  /\ \/ kind[e] = "single" /\ state' = "idle" /\ Over(e)
     \/ kind[e] = "loop" /\ state' = "looping" /\ Moves(e, "between") /\ UNCHANGED <<kind, met, cancelled>>
  /\ UNCHANGED <<loopTask, call, awaited>>

\* A directory cannot be made, a file not written, read or removed.
FilesFail(e) ==
  /\ At(e, "upload") \/ At(e, "drop") \/ At(e, "save")
  /\ Raises(e)
  /\ UNCHANGED <<loopTask, call, awaited>>

\* The camera is not connected any more when the exposure asks for it.
NoCamera(e) ==
  /\ At(e, "prepare")
  /\ Raises(e)
  /\ UNCHANGED <<loopTask, call, awaited>>

AbortEnds(e) ==
  /\ At(e, "abort")
  /\ Over(e)
  /\ UNCHANGED <<state, loopTask, call, awaited>>

\* CancelledError is thrown where the task waits; one that has not started never runs.
Cancelled(e) ==
  /\ e \in cancelled
  /\ \/ phase[e] \in {"created", "abort"} /\ Over(e) /\ UNCHANGED state
     \/ phase[e] = "camera" /\ Moves(e, "unwind") /\ cancelled' = cancelled \ {e} /\ UNCHANGED <<state, kind, met>>
     \/ phase[e] \notin {"created", "abort", "camera"} /\ Abandons(e)
  /\ UNCHANGED <<loopTask, call, awaited>>

\* The task that called expose() is cancelled: "now" requests of the sequencer, a cancelled plate solve.
Cancel(e) ==
  /\ kind[e] = "single"
  /\ e \notin cancelled
  /\ cancelled' = cancelled \cup {e}
  /\ UNCHANGED <<state, loopTask, kind, phase, met, call, awaited>>

-----------------------------------------------------------------------------
(* stop_loop() and halt(). *)

\* Seeded fault: a loop is waited for without being cancelled.
AwaitsOnly(c, where) ==
  /\ call' = [call EXCEPT ![c] = where]
  /\ awaited' = [awaited EXCEPT ![c] = loopTask]
  /\ UNCHANGED cancelled

Awaits(c, where) ==
  /\ cancelled' = cancelled \cup {loopTask}
  /\ call' = [call EXCEPT ![c] = where]
  /\ awaited' = [awaited EXCEPT ![c] = loopTask]

StopLoop(c) ==
  /\ call[c] = "none"
  /\ LoopLive
  /\ Awaits(c, "stopLoop")
  /\ UNCHANGED <<state, loopTask, kind, phase, met>>

AwaitedIsOver(c, where) == call[c] = where /\ awaited[c] \notin Working

\* Whatever _loop_task and state hold by now.
StopLoopWakes(c) ==
  /\ AwaitedIsOver(c, "stopLoop")
  /\ loopTask' = NoLoop
  /\ state' = "idle"
  /\ call' = [call EXCEPT ![c] = "none"]
  /\ awaited' = [awaited EXCEPT ![c] = NoLoop]
  /\ UNCHANGED <<kind, phase, cancelled, met>>

\* halt_epoch += 1, then camera.abort().
CountsUp(c) ==
  /\ met' = [e \in Exposures |->
       CASE phase[e] \in {"prepare", "upload"} -> "before"
         [] phase[e] \in {"camera", "frame"} -> "during"
         [] phase[e] = "save" -> "after"
         [] OTHER -> met[e]]
  /\ call' = [call EXCEPT ![c] = "abort"]
  /\ awaited' = [awaited EXCEPT ![c] = NoLoop]

Halt(c) ==
  /\ call[c] = "none"
  /\ \/ LoopLive /\ Awaits(c, "halt") /\ UNCHANGED met
     \/ ~LoopLive /\ CountsUp(c) /\ UNCHANGED cancelled
  /\ UNCHANGED <<state, loopTask, kind, phase>>

HaltWakes(c) ==
  /\ AwaitedIsOver(c, "halt")
  /\ loopTask' = NoLoop
  /\ CountsUp(c)
  /\ UNCHANGED <<state, kind, phase, cancelled>>

HaltEnds(c) ==
  /\ call[c] = "abort"
  /\ state' = "idle"
  /\ call' = [call EXCEPT ![c] = "none"]
  /\ UNCHANGED <<loopTask, kind, phase, cancelled, met, awaited>>

-----------------------------------------------------------------------------
Requests ==
  \/ \E e \in Exposures : Expose(e) \/ StartLoop(e) \/ Cancel(e)
  \/ \E c \in Clients : StopLoop(c) \/ Halt(c)

TaskStep(e) ==
  \/ NextFrame(e) \/ LoopDone(e) \/ Prepared(e) \/ Uploaded(e) \/ FrameArrives(e) \/ CameraFails(e) \/ Restored(e)
  \/ Dropped(e) \/ Saved(e) \/ FilesFail(e) \/ NoCamera(e) \/ AbortEnds(e) \/ Cancelled(e)

CallStep(c) == StopLoopWakes(c) \/ HaltWakes(c) \/ HaltEnds(c)

CodeStep ==
  \/ Requests
  \/ \E e \in Exposures : TaskStep(e)
  \/ \E c \in Clients : CallStep(c)

LeavesBusy == \E e \in Exposures : kind[e] = "single" /\ FilesFail(e)

ImagerNext ==
  /\ CodeStep
  /\ stuck' = (state' = "exposing" /\ (stuck \/ LeavesBusy))

ImagerSpec == ImagerInit /\ [][ImagerNext]_vars

\* Every wait ends: the camera's within its timeout, the others by the event loop.
ImagerFairness ==
  /\ \A e \in Exposures : WF_codeVars(TaskStep(e))
  /\ \A c \in Clients : WF_codeVars(CallStep(c))

FairImagerSpec == ImagerSpec /\ ImagerFairness

-----------------------------------------------------------------------------
(* Properties. *)

\* A frame that the halt found at the camera is never announced, and a loop it belongs to takes no other
\* (imager.py:97, :310), whatever else happens between the halt and the answer of the driver.
HaltedFrameIsDropped ==
  [][\A e \in Exposures : Saved(e) \/ NextFrame(e) => met[e] # "during"]_vars

\* A camera shown as busy is busy: some task is exposing or some call is about to reset the state, unless a
\* single exposure failed on a file operation (imager.py:262 "otherwise it stays EXPOSING forever").
BusyIsBusy ==
  state \in {"exposing", "looping"} /\ ~stuck => Working # {} \/ \E c \in Clients : call[c] # "none"

\* stop_loop() and halt() return, however many frames the loop was to take and whoever starts another one.
CallsReturn == \A c \in Clients : call[c] # "none" ~> call[c] = "none"

\* "An exposure that started before it never delivers a frame" (imager.py:97).
HaltNeverDelivers ==
  [][\A e \in Exposures : Saved(e) => met[e] = "no"]_vars

\* expose() raises if the camera is busy (imager.py:255), so the camera serves one exposure at a time.
OneAtCamera == Cardinality({e \in Exposures : phase[e] = "camera"}) <= 1

\* A loop that is not over is the one stop_loop() and halt() would stop (imager.py:287).
LoopIsInSlot == \A e \in Working : kind[e] = "loop" => e = loopTask
=============================================================================
