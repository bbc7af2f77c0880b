--------------------------- MODULE SequencerRunner ---------------------------
(***************************************************************************)
(* The sequencer's runner (plugins/sequencer/runner.py) over its queue,    *)
(* with the lanes of a task (lanes.py) reduced to their frames.            *)
(*                                                                         *)
(* Three kinds of coroutines share this state: the clients of the service  *)
(* (their requests are atomic, none of them suspends), the run (_main and  *)
(* what it calls) and the task body (_exec_task and one task per lane).    *)
(* One action is what a coroutine does between two suspensions; the run's  *)
(* loop never suspends between the end of a task and the start of the      *)
(* next, so nothing else happens while at = "loop".                        *)
(*                                                                         *)
(* start() suspends in its pre-flight; here its check and its effect are   *)
(* one step, so clients are assumed to start runs one after the other      *)
(* (the README plans a module without that assumption).                    *)
(***************************************************************************)
EXTENDS SequencerQueue

CONSTANTS
  NoTask,    \* no task: current_task_id is None
  OnError,   \* task.on_error of each task
  Controls,  \* the control operations clients use (an environment choice)
  Whens,     \* the boundaries they ask for
  Faults     \* what can go wrong: step errors, crashes, unguided frames, a lost file

ASSUME NoTaskAssumption == NoTask \notin Tasks
ASSUME OnErrorAssumption == OnError \in [Tasks -> {"skip", "defer", "pause", "abort"}]
ASSUME WhensAssumption == Whens \subseteq {"frame", "task", "now"}

VARIABLES
  state,      \* _state, the lifecycle clients see
  request,    \* _request, the pending control request
  resumeReq,  \* _resume_requested
  at,         \* where the run coroutine is suspended ("idle": no run)
  run,        \* _Run: only, excluded, forced_next
  current,    \* _current
  body,       \* where _exec_task is ("none": there is none)
  cancelled,  \* _exec_task.cancel() was called and has not been delivered
  result,     \* how the task body ended, until the run wakes up
  setupDone,  \* _TaskState.setup_done of the current task
  lane        \* where each lane of the current task is

runVars  == <<at, run, current>>
bodyVars == <<body, cancelled, result, setupDone, lane>>
ctlVars  == <<state, request, resumeReq>>
vars     == <<queueVars, runVars, bodyVars, ctlVars>>

RunState == {"idle", "starting", "running", "pausing", "paused", "stopping"}
Kinds == {"pause", "skip", "switch", "stop", "cancel"}
Ends  == {"stop", "cancel"}
NoRequest == [kind |-> "none", when |-> "none", target |-> NoTask]
Requests == [kind : Kinds, when : {"frame", "task", "now"}, target : Tasks \cup {NoTask}]
Priority == [pause |-> 0, skip |-> 1, switch |-> 1, stop |-> 2, cancel |-> 3, none |-> 0]

Runs == [only : SUBSET Tasks, excluded : SUBSET Tasks, forced : Tasks \cup {NoTask}]
NoRun == [only |-> {}, excluded |-> {}, forced |-> NoTask]
NoResult == [kind |-> "none", req |-> NoRequest]
Results == [kind : {"none", "ok", "boundary", "cancelled", "error", "crash"},
            req : Requests \cup {NoRequest}]
LanesOff == [l \in Lanes |-> "off"]

TypeOK ==
  /\ QueueTypeOK
  /\ state \in RunState
  /\ request \in Requests \cup {NoRequest}
  /\ resumeReq \in BOOLEAN
  /\ at \in {"idle", "starting", "loop", "exec", "pausing", "paused", "resuming", "ending"}
  /\ run \in Runs
  /\ current \in Tasks \cup {NoTask}
  /\ body \in {"none", "setup", "lanes", "closing"}
  /\ cancelled \in BOOLEAN
  /\ result \in Results
  /\ setupDone \in BOOLEAN
  /\ lane \in [Lanes -> {"off", "ready", "exposing", "recording", "duties", "ended"}]

Init ==
  /\ QueueInit
  /\ state = "idle" /\ request = NoRequest /\ resumeReq = FALSE
  /\ at = "idle" /\ run = NoRun /\ current = NoTask
  /\ body = "none" /\ cancelled = FALSE /\ result = NoResult /\ setupDone = FALSE
  /\ lane = LanesOff

IsRunning == at # "idle"

-----------------------------------------------------------------------------
(* Control requests *)

\* start(): candidates are the runnable tasks (of only); from_task excludes the
\* candidates listed before it.  Pre-flight refuses an empty list.
Begin(only, excluded) ==
  /\ at' = "starting"
  /\ run' = [only |-> only, excluded |-> excluded, forced |-> NoTask]
  /\ state' = "starting"
  /\ request' = NoRequest
  /\ resumeReq' = FALSE
  /\ UNCHANGED <<current, bodyVars>>

Start(only) ==
  /\ ~IsRunning
  /\ LET candidates == {t \in only : status[t] \in Runnable}
     IN \E from \in candidates :
          Begin(only, {t \in candidates : rank[t] < rank[from]})
  /\ UNCHANGED queueVars

\* switch_to() with no run: the task is made runnable and started alone.
StartOnly(t) ==
  /\ "switch" \in Controls
  /\ ~IsRunning
  /\ status[t] \in Switchable
  /\ LET s == IF status[t] \in Runnable THEN status[t] ELSE PendingStatus(t)
     IN /\ status' = [status EXCEPT ![t] = s]
        /\ IF s \in Runnable
           THEN Begin({t}, {})
           ELSE UNCHANGED <<runVars, ctlVars, bodyVars>>
  /\ savedDone' = IF status[t] \in Runnable THEN savedDone ELSE done
  /\ UNCHANGED <<rank, plan, done>>

\* request(): a weaker request never replaces the pending one; a "now" request
\* cancels the task body if it is still executing.  A body that is releasing the
\* flat panels on its way out may be done already.
Request(kind, when, target) ==
  /\ kind \in Controls
  /\ IsRunning /\ at # "loop"
  /\ kind = "skip" => current # NoTask
  /\ kind = "switch" <=> target # NoTask
  /\ kind = "switch" => target # current /\ status[target] \in Switchable
  /\ kind = "cancel" => when = "now"
  /\ ~(kind = "pause" /\ state = "paused")
  /\ Priority[request.kind] <= Priority[kind]
  /\ request' = [kind |-> kind, when |-> when, target |-> target]
  /\ state' = IF state \in {"paused", "starting"} THEN state
              ELSE IF kind = "pause" THEN "pausing"
              ELSE IF kind \in Ends THEN "stopping" ELSE state
  /\ IF when = "now" /\ body \in {"setup", "lanes"} THEN cancelled' = TRUE
     ELSE IF when = "now" /\ body = "closing" THEN cancelled' \in {cancelled, TRUE}
     ELSE UNCHANGED cancelled
  /\ UNCHANGED <<queueVars, runVars, resumeReq, body, result, setupDone, lane>>

\* resume(): a pause that has not taken effect is dropped; a paused run is woken.
Resume ==
  /\ "resume" \in Controls
  /\ IsRunning /\ at # "loop"
  /\ \/ /\ state = "pausing" /\ request.kind = "pause"
        /\ request' = NoRequest
        /\ state' = "running"
        /\ UNCHANGED resumeReq
     \/ /\ state = "paused"
        /\ resumeReq' = TRUE
        /\ UNCHANGED <<request, state>>
  /\ UNCHANGED <<queueVars, runVars, bodyVars>>

-----------------------------------------------------------------------------
(* The run: between tasks *)

NoBody ==
  /\ body' = "none" /\ cancelled' = FALSE /\ result' = NoResult
  /\ setupDone' = FALSE /\ lane' = LanesOff

\* The finally block of _main.  The outcome it keeps for wait_idle() is left out.
EndRun ==
  /\ at' = "idle" /\ run' = NoRun /\ current' = NoTask
  /\ state' = "idle" /\ request' = NoRequest
  /\ UNCHANGED resumeReq
  /\ NoBody

\* Seeded fault: the task is finished in memory only.
FinishUnsaved(t, s) ==
  /\ status' = [status EXCEPT ![t] = s]
  /\ UNCHANGED <<rank, plan, done, savedDone>>

\* _finish_task(): the status is committed with the progress.
Finish(t, s) ==
  /\ status' = [status EXCEPT ![t] = s]
  /\ savedDone' = done
  /\ UNCHANGED <<rank, plan, done>>

\* STARTING (unparking the mount) is over; unparking may have failed.
Started ==
  /\ at = "starting"
  /\ \/ /\ at' = "loop" /\ state' = "running"
        /\ UNCHANGED <<run, current, bodyVars, request, resumeReq>>
     \/ /\ "error" \in Faults
        /\ EndRun
  /\ UNCHANGED queueVars

\* _task_boundary(): the request pending between two tasks.
BoundaryEnd ==
  /\ at = "loop" /\ request.kind \in Ends
  /\ EndRun
  /\ UNCHANGED queueVars

BoundarySwitch ==
  /\ at = "loop" /\ request.kind = "switch"
  /\ run' = [run EXCEPT !.forced = request.target]
  /\ request' = NoRequest
  /\ UNCHANGED <<queueVars, at, current, bodyVars, state, resumeReq>>

\* The task the skip aimed at has finished already.
BoundarySkip ==
  /\ at = "loop" /\ request.kind = "skip"
  /\ request' = NoRequest
  /\ UNCHANGED <<queueVars, runVars, bodyVars, state, resumeReq>>

BoundaryPause ==
  /\ at = "loop" /\ request.kind = "pause"
  /\ at' = "paused" /\ state' = "paused"
  /\ request' = NoRequest /\ resumeReq' = FALSE
  /\ UNCHANGED <<queueVars, run, current, bodyVars>>

\* Seeded fault: a skip left over from the task before stays pending.
NothingPendingButSkip == request.kind \in {"none", "skip"}
\* _task_boundary() is through: it leaves no request behind.
NothingPending == request = NoRequest

\* _next_entry(): the forced task if it still can run, else the first runnable
\* entry of the list that this run neither excluded nor left out.
Eligible == {t \in run.only \ run.excluded : status[t] \in Runnable}
Next_entry(t) ==
  IF run.forced # NoTask /\ status[run.forced] \in Switchable
  THEN t = run.forced
  ELSE t \in Eligible /\ \A u \in Eligible : rank[t] <= rank[u]

\* Start the task body, through setup when it is needed.
StartBody(t, setup) ==
  /\ body' = IF setup THEN "setup" ELSE "lanes"
  /\ setupDone' = ~setup
  /\ lane' = IF setup THEN LanesOff
             ELSE [l \in Lanes |-> IF l = Primary \/ plan[t][l] > 0 THEN "ready" ELSE "off"]
  /\ cancelled' = FALSE
  /\ result' = NoResult

\* The head of _execute().
Execute(t) ==
  /\ at = "loop" /\ NothingPending
  /\ Next_entry(t)
  /\ RemainingFrames(t) > 0
  /\ Finish(t, "running")
  /\ at' = "exec" /\ current' = t
  /\ run' = [run EXCEPT !.forced = NoTask]
  /\ StartBody(t, TRUE)
  /\ UNCHANGED <<ctlVars>>

\* Nothing left on lanes[0]: completed without being executed.
CompleteUnexecuted(t) ==
  /\ at = "loop" /\ NothingPending
  /\ Next_entry(t)
  /\ RemainingFrames(t) = 0
  /\ Finish(t, "completed")
  /\ run' = [run EXCEPT !.forced = NoTask]
  /\ UNCHANGED <<at, current, bodyVars, ctlVars>>

\* No task left: park the mount and warm the cameras.
NothingLeft ==
  /\ at = "loop" /\ NothingPending
  /\ \A t \in Tasks : ~Next_entry(t)
  /\ at' = "ending"
  /\ run' = [run EXCEPT !.forced = NoTask]
  /\ UNCHANGED <<queueVars, current, bodyVars, ctlVars>>

Ended ==
  /\ at = "ending"
  /\ EndRun
  /\ UNCHANGED queueVars

-----------------------------------------------------------------------------
(* The run: acting on how the task body ended *)

\* Seeded fault: a deferred task stays eligible.
NotSetAside(t) == run
\* The task is not started again by this run, unless a client switches to it.
SetAside(t) == [run EXCEPT !.excluded = @ \cup {t}]

\* _on_request(): act on req at a boundary of the current task.
OnRequest(req) ==
  \/ /\ req.kind = "pause"   \* suspended in _pointing() before PAUSED
     /\ at' = "pausing"
     /\ savedDone' = done
     /\ body' = "none" /\ cancelled' = FALSE /\ result' = NoResult /\ lane' = LanesOff
     /\ UNCHANGED <<status, rank, plan, done, run, current, setupDone, state, resumeReq>>
  \/ /\ req.kind \in Ends
     /\ Finish(current, "interrupted")
     /\ EndRun
  \/ /\ req.kind = "skip"
     /\ Finish(current, "skipped")
     /\ at' = "loop" /\ current' = NoTask
     /\ NoBody
     /\ UNCHANGED <<run, state, resumeReq>>
  \/ /\ req.kind = "switch" /\ req.target # current
     /\ Finish(current, "interrupted")
     /\ at' = "loop" /\ current' = NoTask
     /\ run' = [SetAside(current) EXCEPT !.forced = req.target]
     /\ NoBody
     /\ UNCHANGED <<state, resumeReq>>

\* Every frame was taken, or every lane returned with no request pending.
WakeDone ==
  /\ at = "exec" /\ body = "closing" /\ ~cancelled
  /\ result.kind = "ok"
  /\ Finish(current, "completed")
  /\ at' = "loop" /\ current' = NoTask
  /\ NoBody
  /\ UNCHANGED <<run, ctlVars>>

\* Seeded fault: whatever is pending by now is taken too.
TakeAny(req) == NoRequest
\* The request the body stopped for is taken, unless another one replaced it.
Take(req) == IF request = req THEN NoRequest ELSE request

WakeBoundary ==
  /\ at = "exec" /\ body = "closing" /\ ~cancelled
  /\ result.kind = "boundary"
  /\ OnRequest(result.req)
  /\ result.req.kind \notin Ends => request' = Take(result.req)

\* A cancelled body: the pending request, or else a cancellation by the system.
SystemCancel == [kind |-> "cancel", when |-> "now", target |-> NoTask]
WakeCancelled ==
  /\ at = "exec" /\ body = "closing" /\ ~cancelled
  /\ result.kind = "cancelled"
  /\ LET req == IF request # NoRequest THEN request ELSE SystemCancel
     IN /\ OnRequest(req)
        /\ request' = NoRequest

\* _on_error(): the task's policy for a step that failed.
WakeError ==
  /\ at = "exec" /\ body = "closing" /\ ~cancelled
  /\ result.kind = "error"
  /\ \/ /\ OnError[current] \in {"skip", "defer"}
        /\ Finish(current, IF OnError[current] = "skip" THEN "failed" ELSE "interrupted")
        /\ run' = IF OnError[current] = "skip" THEN run
                  ELSE SetAside(current)
        /\ at' = "loop" /\ current' = NoTask
        /\ NoBody
        /\ UNCHANGED <<ctlVars>>
     \/ /\ OnError[current] = "abort"
        /\ Finish(current, "failed")
        /\ EndRun
     \/ /\ OnError[current] = "pause"
        /\ at' = "pausing"
        /\ body' = "none" /\ cancelled' = FALSE /\ result' = NoResult /\ lane' = LanesOff
        /\ UNCHANGED <<queueVars, run, current, setupDone, ctlVars>>

\* Any other exception ends the run and interrupts the task.
WakeCrash ==
  /\ at = "exec" /\ body = "closing" /\ ~cancelled
  /\ result.kind = "crash"
  /\ Finish(current, "interrupted")
  /\ EndRun

\* _wait_paused(): entered once the pointing has been read.
EnterPaused ==
  /\ at = "pausing"
  /\ at' = "paused" /\ state' = "paused" /\ resumeReq' = FALSE
  /\ UNCHANGED <<queueVars, run, current, bodyVars, request>>

PausedDropsPause ==
  /\ at = "paused" /\ request.kind = "pause"
  /\ request' = NoRequest
  /\ UNCHANGED <<queueVars, runVars, bodyVars, state, resumeReq>>

EndsWait(kind) == kind \notin {"none", "pause"}

\* Another request ends the wait: within a task _on_request acts on it at once,
\* between tasks _task_boundary does.
PausedTakes ==
  /\ at = "paused" /\ EndsWait(request.kind)
  /\ IF current = NoTask
     THEN /\ at' = "loop"
          /\ UNCHANGED <<queueVars, run, current, bodyVars, ctlVars>>
     ELSE OnRequest(request) /\ request' = NoRequest

Woken == request = NoRequest /\ resumeReq

PausedResumes ==
  /\ at = "paused" /\ Woken
  /\ resumeReq' = FALSE
  /\ IF current = NoTask
     THEN at' = "loop" /\ state' = "running"
     ELSE at' = "resuming" /\ UNCHANGED state
  /\ UNCHANGED <<queueVars, run, current, bodyVars, request>>

\* _resumed(): suspended in _pointing(); setup runs again when it was never done, or
\* the pointing moved, the pause was long, or the failed step needs it.
Resumed ==
  /\ at = "resuming"
  /\ at' = "exec" /\ state' = "running"
  /\ \E setup \in {TRUE, ~setupDone} : StartBody(current, setup)
  /\ UNCHANGED <<queueVars, run, current, request, resumeReq>>

-----------------------------------------------------------------------------
(* The task body *)

\* pending_frame_request()
FrameRequest == request # NoRequest /\ request.when \in {"frame", "now"}

\* The body is over: it still releases the flat panels before the run wakes up.
Close(kind, req) ==
  /\ body' = "closing"
  /\ result' = [kind |-> kind, req |-> req]
  /\ cancelled' = FALSE
  /\ UNCHANGED <<queueVars, runVars, ctlVars, setupDone>>

SetupEnds ==
  /\ body = "setup" /\ ~cancelled
  /\ StartBody(current, FALSE)
  /\ UNCHANGED <<queueVars, runVars, ctlVars>>

\* Waiting for guiding or for the next centering attempt checks the boundary.
SetupStops ==
  /\ body = "setup" /\ ~cancelled /\ FrameRequest
  /\ Close("boundary", request)
  /\ UNCHANGED lane

Active(l) == lane[l] \notin {"off", "ended"}
SecondariesRunning == \E l \in Lanes \ {Primary} : Active(l)

\* The boundary check and the start of the exposure are one step.
ExposeFrame(l) ==
  /\ body = "lanes" /\ lane[l] = "ready"
  /\ Left(current, l) > 0 /\ ~FrameRequest
  /\ lane' = [lane EXCEPT ![l] = "exposing"]
  /\ UNCHANGED <<queueVars, runVars, ctlVars, body, cancelled, result, setupDone>>

\* The frame is on disk; one that was unguided for too long does not count.
FrameDone(l) ==
  /\ lane[l] = "exposing"
  /\ lane' = [lane EXCEPT ![l] = "recording"]
  /\ \/ done' = [done EXCEPT ![current][l] = @ + 1]
     \/ "unguided" \in Faults /\ UNCHANGED done
  /\ UNCHANGED <<status, rank, plan, savedDone, runVars, ctlVars, body, cancelled, result, setupDone>>

FrameCommitted(l) ==
  /\ lane[l] = "recording"
  /\ lane' = [lane EXCEPT ![l] = "ready"]
  /\ savedDone' = done
  /\ UNCHANGED <<status, rank, plan, done, runVars, ctlVars, body, cancelled, result, setupDone>>

\* The lane stops at its frame boundary; the other lanes finish their frame.
LaneStops(l) ==
  /\ FrameRequest
  /\ \/ lane[l] = "ready" /\ Left(current, l) > 0
     \/ lane[l] = "duties"
  /\ lane' = [lane EXCEPT ![l] = "ended"]
  /\ UNCHANGED <<queueVars, runVars, ctlVars, body, cancelled, result, setupDone>>

\* The lane has all its frames.  The primary then stays on duty for the others.
LaneDone(l) ==
  /\ lane[l] = "ready" /\ Left(current, l) = 0
  /\ lane' = [lane EXCEPT ![l] =
                IF l = Primary /\ SecondariesRunning THEN "duties" ELSE "ended"]
  /\ UNCHANGED <<queueVars, runVars, ctlVars, body, cancelled, result, setupDone>>

DutiesEnd ==
  /\ lane[Primary] = "duties" /\ ~SecondariesRunning
  /\ lane' = [lane EXCEPT ![Primary] = "ended"]
  /\ UNCHANGED <<queueVars, runVars, ctlVars, body, cancelled, result, setupDone>>

\* The end of run_lanes(): every lane is over.
LanesReturn ==
  /\ body = "lanes" /\ ~cancelled
  /\ \A l \in Lanes : ~Active(l)
  /\ IF FrameRequest /\ FramesLeft(current)
     THEN Close("boundary", request)
     ELSE Close("ok", NoRequest)
  /\ UNCHANGED lane

\* A step of the setup or of a lane fails: the other lanes are cancelled and their
\* frames discarded, or left uncommitted.  Nothing fails while a frame is recorded.
BodyFails(kind) ==
  /\ kind \in Faults
  /\ \/ body = "setup"
     \/ body = "lanes" /\ \E l \in Lanes : Active(l) /\ lane[l] # "recording"
  /\ Close(kind, NoRequest)
  /\ lane' = LanesOff

\* The cancellation is delivered, whatever the body was about to return.
BodyCancelled ==
  /\ body # "none" /\ cancelled
  /\ Close("cancelled", NoRequest)
  /\ lane' = LanesOff

-----------------------------------------------------------------------------
(* The process *)

\* Killed, or shut down: the run is cancelled and its task interrupted with what
\* it has counted, where a crash leaves what the file holds.  Then it starts again.
NoProcess ==
  /\ state' = "idle" /\ request' = NoRequest /\ resumeReq' = FALSE
  /\ at' = "idle" /\ run' = NoRun /\ current' = NoTask
  /\ NoBody

Crash ==
  /\ "restart" \in Faults
  /\ at # "loop"
  /\ \E readable \in {TRUE, "unreadable" \notin Faults} : Load(readable)
  /\ NoProcess

Shutdown ==
  /\ "restart" \in Faults
  /\ IsRunning /\ at # "loop"
  /\ status' = [t \in Tasks |-> IF status[t] = "running" THEN "interrupted" ELSE status[t]]
  /\ savedDone' = done
  /\ UNCHANGED <<rank, plan, done>>
  /\ NoProcess

-----------------------------------------------------------------------------
Client ==
  \/ Start(Tasks)
  \/ \E t \in Tasks : Start({t}) \/ StartOnly(t)
  \/ \E kind \in Kinds, when \in Whens, target \in Tasks \cup {NoTask} :
       Request(kind, when, target)
  \/ Resume
  \/ at # "loop" /\ QueueEdit /\ UNCHANGED <<runVars, bodyVars, ctlVars>>

\* The code between the end of a task and the start of the next.
Loop ==
  \/ BoundaryEnd \/ BoundarySwitch \/ BoundarySkip \/ BoundaryPause
  \/ \E t \in Tasks : Execute(t) \/ CompleteUnexecuted(t)
  \/ NothingLeft

RunStep ==
  \/ Started \/ Loop \/ Ended
  \/ WakeDone \/ WakeBoundary \/ WakeCancelled \/ WakeError \/ WakeCrash
  \/ EnterPaused \/ PausedDropsPause \/ PausedTakes \/ PausedResumes \/ Resumed

LaneStep(l) ==
  \/ ExposeFrame(l) \/ FrameDone(l) \/ FrameCommitted(l)
  \/ LaneStops(l) \/ LaneDone(l)

BodyStep ==
  \/ SetupEnds \/ SetupStops \/ LanesReturn \/ BodyCancelled \/ DutiesEnd
  \/ BodyFails("error") \/ BodyFails("crash")

Next == Client \/ RunStep \/ BodyStep \/ (\E l \in Lanes : LaneStep(l)) \/ Crash \/ Shutdown

\* What ends by itself once it can: a request or a cancellation that is noticed, lanes
\* that are over, an exposure (the imager gives it up), the record of a frame.  Setup
\* and what precedes a frame are no part of it: centering and guiding are tried again
\* without end unless stall_timeout_min says otherwise (stalls.py:5, settings.py:62).
BodyGoesOn == SetupStops \/ LanesReturn \/ BodyCancelled \/ DutiesEnd
LaneGoesOn(l) == FrameDone(l) \/ FrameCommitted(l) \/ LaneStops(l) \/ LaneDone(l)

\* The event loop runs every coroutine that can run.  Clients, faults and the sky are
\* not scheduled.
Fairness ==
  /\ WF_vars(RunStep)
  /\ WF_vars(BodyGoesOn)
  /\ \A l \in Lanes : WF_vars(LaneGoesOn(l))

Spec == Init /\ [][Next]_vars
FairSpec == Spec /\ Fairness

-----------------------------------------------------------------------------
(* Properties *)

(* The entry marked RUNNING is the one the runner executes, and there is none when no
   run is active: every edit that may remove, reset or redefine a task is refused by
   looking at that status alone (service.py:131). *)
OneTaskRuns ==
  /\ \A t \in Tasks : status[t] = "running" <=> t = current
  /\ current # NoTask => at \in {"exec", "pausing", "paused", "resuming"}

(* skip_current only ever skips the task that was running when it was asked for: a skip
   still pending when its task is left never reaches another task (runner.py:425). *)
SkipStaysWithItsTask ==
  [][request.kind = "skip" /\ at' # "loop" => current' = current \/ request'.kind # "skip"]_vars

(* The queue file is never ahead of the memory, and behind it only for the frames of the
   task being executed: a crash loses nothing of any other task (store.py, commit). *)
FileKeepsUp ==
  \A t \in Tasks, l \in Lanes :
    /\ savedDone[t][l] <= done[t][l]
    /\ t # current => savedDone[t][l] = done[t][l]

(* An accepted stop or cancel is never dropped, weakened or forgotten, whatever else
   clients ask for and whatever fails meanwhile; at a frame boundary or at once, no lane
   starts an exposure any more. *)
StopIsFinal ==
  [][request.kind \in Ends /\ at' # "idle" =>
       /\ request'.kind \in Ends
       /\ request.when # "task" =>
            \A l \in Lanes : lane'[l] = "exposing" => lane[l] = "exposing"]_vars

(* The frames of the queue are a ledger: counted one at a time and only for the task being
   executed, cleared only for others, on disk before a task is left, and taken back to the
   file by a restart, whatever clients ask for and whatever fails. *)
Ledger == INSTANCE FrameLedger WITH worked <- current, counted <- done, kept <- savedDone
KeepsLedger == Ledger!LedgerSpec

(* A task body that ends normally has taken every frame of every lane ("The task
   completes when every lane has finished", SEQUENCER_SPEC.md). *)
DoneMeansEveryFrame == result.kind = "ok" => \A l \in Lanes : Left(current, l) = 0

(* A task is only marked completed between tasks if no lane has frames left. *)
CompletedMeansEveryLane ==
  [][\A t \in Tasks :
       at = "loop" /\ status[t] # "completed" /\ status'[t] = "completed" => ~FramesLeft(t)]_vars

(* A run whose body was cancelled goes on unless a stop or a cancel is pending: "now"
   requests to pause, skip or switch never end the run. *)
OnlyStopEndsRun ==
  [][at = "exec" /\ result.kind = "cancelled" /\ at' = "idle" => request.kind \in Ends]_vars

(* What clients see as PAUSED is quiet: no setup, no exposure. *)
PausedIsQuiet == state = "paused" => body = "none"

(* A pause takes effect only while it is still pending: one that was dropped by a resume
   does not pause the run. *)
DroppedPauseIsGone ==
  [][at = "exec" /\ result.kind = "boundary" /\ at' = "pausing" => request # NoRequest]_vars

\* A step waits for the sky and nobody has asked it to stop at the next boundary.
WaitsForSky ==
  /\ ~cancelled /\ ~FrameRequest
  /\ body = "setup" \/ \E l \in Lanes : lane[l] = "ready" /\ Left(current, l) > 0

(* Left alone by its clients a run ends, waits in a pause for somebody, or waits for the
   sky in one step for ever: a task set aside by an error is not started again, and a stop
   or a cancel ends the run whatever it is doing, exposing, stalled, paused or between
   tasks. *)
UnattendedRunSettles ==
  <>[][~Client]_vars =>
     <>[](\/ at = "idle"
          \/ at = "paused" /\ request.kind \notin Ends
          \/ WaitsForSky)
=============================================================================
