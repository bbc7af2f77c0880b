------------------------------- MODULE Guider -------------------------------
(***************************************************************************)
(* The built-in guider (plugins/guider/guider.py) with the frame stream of *)
(* its camera (imaging/streaming.py): guide, stop, dither, pause, resume,  *)
(* the preview, darks and changed settings, called by concurrent clients.  *)
(*                                                                         *)
(* A guiding run, a preview and a dark capture are tasks that share the    *)
(* camera's one stream, the attribute _sub, and the pending settle         *)
(* request.  A step is what a task does between two suspensions: waiting   *)
(* for a frame, for the mount, for a stream to stop, for another task to   *)
(* end.  stop_stream() stops the stream whoever started it, and ends every *)
(* subscription once the camera has aborted.                               *)
(*                                                                         *)
(* What the frames show is a choice: a usable star, none, or something the *)
(* run gives up on.  Choosing stars and calibrating take frames and fail   *)
(* alike and are one phase.  A stream that failed is off.  A request that  *)
(* waits for _start_lock has read nothing yet: it is a request made later. *)
(***************************************************************************)
EXTENDS Naturals, FiniteSets

CONSTANTS
  Runs,      \* identities for the guiding tasks alive or referred to at once
  Previews,  \* the same for previews
  Clients,   \* concurrent callers: the sequencer, the API
  Requests,  \* identities for settle requests
  None,
  Uses       \* the calls clients make (an environment choice)

ASSUME GuiderAssumption ==
  /\ None \notin Runs \cup Previews \cup Requests \cup Clients
  /\ Runs \cap Previews = {} /\ (Runs \cup Previews) \cap Clients = {}

VARIABLES
  task,      \* _task: the run stored there, or None (also once that run is over)
  run,       \* where each run waits
  preview,   \* _preview, likewise
  view,      \* where each preview waits
  cancelled, \* the tasks whose cancellation is requested and not yet delivered
  failed,    \* the runs whose _finish has an error in hand
  stream,    \* who started the stream that is on, or None
  stopping,  \* whose stop_stream() waits for the camera to abort
  subs,      \* whose subscriptions are open
  sub,       \* _sub: the run whose subscription it is, or None
  paused,    \* _paused
  begun,     \* the runs that have chosen their stars and know their calibration
  locked,    \* there is a tracker with a calibration, whichever run's
  guiding,   \* health: active guiding
  dark,      \* _capturing_dark
  settle,    \* _settle: the pending request, or None
  timed,     \* its timeout has started
  outcome,   \* the future of each request
  call,      \* where each client is inside its call
  deaf,      \* history: the runs that swallowed their cancellation
  disturbed  \* history: a run was started over another, or stopped before its first step, inside _finish
             \* or while it restarts its stream

taskVars == <<task, run, begun, preview, view, cancelled, failed>>
streamVars == <<stream, stopping, subs, sub>>
guideVars == <<paused, locked, guiding, dark>>
settleVars == <<settle, timed, outcome>>
history == <<deaf, disturbed>>
vars == <<taskVars, streamVars, guideVars, settleVars, call, history>>

Live == {r \in Runs : run[r] # "none"}
Shown == {p \in Previews : view[p] # "none"}
Running == task # None
Previewing == preview # None
Awaited == {call[c].on : c \in Clients}
UnusedRuns == Runs \ (Live \cup Awaited \cup stopping \cup subs)
UnusedPreviews == Previews \ (Shown \cup Awaited \cup stopping)
UnusedRequests == {q \in Requests : outcome[q] = "none"}

NoCall == [at |-> "none", on |-> None, again |-> FALSE, wait |-> TRUE]
Places == {"none", "guidePreview", "guideScale", "guideStop", "settle", "stop", "previewScale", "previewStop",
           "setPreview", "darkPreview", "dark", "darkClose"}

TaskTypeOK ==
  /\ task \in Live \cup {None} /\ preview \in Shown \cup {None}
  /\ run \in [Runs -> {"none", "created", "mount", "select", "guide", "refit", "retry", "restart", "finish"}]
  /\ view \in [Previews -> {"none", "created", "show", "close"}]
  /\ cancelled \subseteq Live \cup Shown
  /\ failed \subseteq {r \in Runs : run[r] = "finish"}
  /\ begun \subseteq Live /\ deaf \subseteq Live

StreamTypeOK ==
  /\ stream \in Runs \cup Previews \cup Clients \cup {None}
  /\ stopping \subseteq Runs \cup Previews \cup Clients
  /\ subs \subseteq Runs \cup Previews \cup Clients
  /\ sub \in Live \cup {None}

CallTypeOK ==
  /\ call \in [Clients -> [at: Places, on: Runs \cup Previews \cup Requests \cup {None},
                          again: BOOLEAN, wait: BOOLEAN]]
  /\ settle \in Requests \cup {None}
  /\ settle # None => outcome[settle] = "pending"
  /\ outcome \in [Requests -> {"none", "pending", "ok", "failed"}]
  /\ timed \in BOOLEAN /\ disturbed \in BOOLEAN
  /\ paused \in BOOLEAN /\ locked \in BOOLEAN /\ guiding \in BOOLEAN /\ dark \in BOOLEAN

GuiderTypeOK == TaskTypeOK /\ StreamTypeOK /\ CallTypeOK

GuiderInit ==
  /\ task = None /\ preview = None
  /\ run = [r \in Runs |-> "none"] /\ view = [p \in Previews |-> "none"]
  /\ cancelled = {} /\ failed = {}
  /\ stream = None /\ stopping = {} /\ subs = {} /\ sub = None
  /\ paused = FALSE /\ locked = FALSE /\ begun = {} /\ guiding = FALSE /\ dark = FALSE
  /\ settle = None /\ timed = FALSE /\ outcome = [q \in Requests |-> "none"]
  /\ call = [c \in Clients |-> NoCall]
  /\ deaf = {} /\ disturbed = FALSE

-----------------------------------------------------------------------------
(* Settle requests. *)

Awaits(c, place, what) ==
  call' = [call EXCEPT ![c] = [at |-> place, on |-> what, again |-> FALSE, wait |-> TRUE]]
Returns(c) == call' = [call EXCEPT ![c] = NoCall]

\* _begin_settle(): the request before it, if any, is forgotten; the caller waits for the new one or not.
BeginSettle(c, wait, started) ==
  \E q \in UnusedRequests :
    /\ settle' = q
    /\ timed' = started
    /\ outcome' = [o \in Requests |->
         CASE o = q -> "pending"
           [] o = settle /\ settle \notin Awaited -> "none"
           [] OTHER -> outcome[o]]
    /\ IF wait THEN Awaits(c, "settle", q) ELSE Returns(c)

\* _end_settle(): a request nobody waits for is gone with its result.
EndSettle(result) ==
  /\ settle' = None
  /\ timed' = FALSE
  /\ outcome' = IF settle = None THEN outcome
                ELSE [outcome EXCEPT ![settle] = IF settle \in Awaited THEN result ELSE "none"]

\* The caller of guide() or dither() learns how its request ended.
Settled(c) ==
  /\ call[c].at = "settle"
  /\ outcome[call[c].on] \in {"ok", "failed"}
  /\ outcome' = [outcome EXCEPT ![call[c].on] = "none"]
  /\ Returns(c)
  /\ UNCHANGED <<taskVars, streamVars, guideVars, settle, timed, history>>

-----------------------------------------------------------------------------
(* guide, stop, dither, pause, resume *)

LockFree == \A c \in Clients : call[c].at \notin {"guidePreview", "guideScale", "guideStop"}

\* stop(): the slot is emptied at once, then the run is cancelled and awaited.
Stops(c, place, again, wait) ==
  /\ task' = None
  /\ IF Running
     THEN /\ cancelled' = cancelled \cup {task}
          /\ call' = [call EXCEPT ![c] = [at |-> place, on |-> task, again |-> again, wait |-> wait]]
          /\ disturbed' = (disturbed \/ run[task] \in {"created", "refit", "restart", "finish"})
     ELSE Returns(c) /\ UNCHANGED <<cancelled, disturbed>>
  /\ UNCHANGED <<run, begun, preview, view, failed, deaf>>

\* _begin_settle and the task of a new run, in one step.
Creates(c, wait) ==
  /\ BeginSettle(c, wait, FALSE)
  /\ \E r \in UnusedRuns :
       /\ task' = r
       /\ run' = [run EXCEPT ![r] = "created"]
  /\ disturbed' = (disturbed \/ Live # {})
  /\ UNCHANGED <<begun, preview, view, cancelled, failed, streamVars, guideVars, deaf>>

\* Seeded fault: a request to calibrate again starts its run beside the one that guides.
DecidesBeside(c, again, wait) ==
  \/ /\ Running /\ ~again
     /\ IF settle # None THEN Returns(c) /\ UNCHANGED settleVars ELSE BeginSettle(c, wait, TRUE)
     /\ UNCHANGED <<taskVars, streamVars, guideVars, history>>
  \/ (Running => again) /\ Creates(c, wait)

\* The rest of guide(), once the preview is over and the pixel scale is known.
Decides(c, again, wait) ==
  \/ /\ Running /\ again
     /\ Stops(c, "guideStop", again, wait)
     /\ UNCHANGED <<streamVars, guideVars, settleVars>>
  \/ /\ Running /\ ~again
     /\ IF settle # None THEN Returns(c) /\ UNCHANGED settleVars ELSE BeginSettle(c, wait, TRUE)
     /\ UNCHANGED <<taskVars, streamVars, guideVars, history>>
  \/ ~Running /\ Creates(c, wait)

\* refresh_pixel_scale() asks for the optics, unless a run keeps its scale.
Scales(c, again, wait) ==
  \/ Running /\ Decides(c, again, wait)
  \/ /\ ~Running
     /\ call' = [call EXCEPT ![c] = [at |-> "guideScale", on |-> None, again |-> again, wait |-> wait]]
     /\ UNCHANGED <<taskVars, streamVars, guideVars, settleVars, history>>

\* stop_preview()
StopsPreview(c, place, again, wait) ==
  /\ preview' = None
  /\ cancelled' = cancelled \cup {preview}
  /\ call' = [call EXCEPT ![c] = [at |-> place, on |-> preview, again |-> again, wait |-> wait]]
  /\ UNCHANGED <<task, run, begun, view, failed, streamVars, guideVars, settleVars, history>>

\* guide(): the lock is free, so this request has it; darks are not disturbed.
Guide(c) ==
  /\ "guide" \in Uses
  /\ call[c] = NoCall /\ LockFree /\ ~dark
  /\ \E again, wait \in BOOLEAN :
       IF Previewing THEN StopsPreview(c, "guidePreview", again, wait) ELSE Scales(c, again, wait)

GuideGoesOn(c) ==
  LET again == call[c].again
      wait == call[c].wait
  IN \/ call[c].at = "guidePreview" /\ call[c].on \notin Shown /\ Scales(c, again, wait)
     \/ call[c].at = "guideScale" /\ Decides(c, again, wait)
     \/ call[c].at = "guideStop" /\ call[c].on \notin Live /\ Decides(c, again, wait)

Stop(c) ==
  /\ "stop" \in Uses
  /\ call[c] = NoCall
  /\ Running
  /\ Stops(c, "stop", FALSE, TRUE)
  /\ UNCHANGED <<streamVars, guideVars, settleVars>>

\* stop() and stop_preview() return once the task they cancelled is over.
StopReturns(c) ==
  /\ call[c].at \in {"stop", "previewStop"} /\ call[c].on \notin Live \cup Shown
  /\ Returns(c)
  /\ UNCHANGED <<taskVars, streamVars, guideVars, settleVars, history>>

\* dither(): refused unless a run is there with a tracker and a calibration, whichever run they belong to.
Dither(c) ==
  /\ "dither" \in Uses
  /\ call[c] = NoCall
  /\ Running /\ ~paused /\ locked /\ settle = None
  /\ BeginSettle(c, TRUE, TRUE)
  /\ UNCHANGED <<taskVars, streamVars, guideVars, history>>

Pause(c) ==
  /\ "pause" \in Uses
  /\ call[c] = NoCall
  /\ Running /\ ~paused
  /\ paused' = TRUE /\ guiding' = FALSE
  /\ UNCHANGED <<taskVars, streamVars, locked, dark, settleVars, call, history>>

Resume(c) ==
  /\ call[c] = NoCall
  /\ paused
  /\ paused' = FALSE
  /\ UNCHANGED <<taskVars, streamVars, locked, guiding, dark, settleVars, call, history>>

-----------------------------------------------------------------------------
(* The preview, darks and changed settings. *)

\* start_preview(): refused while guiding; the preview is created only once the pixel scale is known.
AsksPreview(c) ==
  /\ IF Running \/ dark \/ Previewing THEN Returns(c) ELSE Awaits(c, "previewScale", None)
  /\ UNCHANGED <<taskVars, streamVars, guideVars, settleVars, history>>

StartPreview(c) ==
  /\ "preview" \in Uses
  /\ call[c] = NoCall /\ ~Running /\ ~dark /\ ~Previewing
  /\ AsksPreview(c)

PreviewBegins(c) ==
  /\ call[c].at = "previewScale"
  /\ Returns(c)
  /\ \E p \in UnusedPreviews :
       /\ preview' = p
       /\ view' = [view EXCEPT ![p] = "created"]
  /\ UNCHANGED <<task, run, begun, cancelled, failed, streamVars, guideVars, settleVars, history>>

StopPreview(c) ==
  /\ "preview" \in Uses
  /\ call[c] = NoCall /\ Previewing
  /\ StopsPreview(c, "previewStop", FALSE, TRUE)

\* update_settings(): a new exposure or gain restarts the preview; a run swaps its stream at a later frame (Restarts).
UpdateSettings(c) ==
  /\ "settings" \in Uses
  /\ call[c] = NoCall /\ ~dark /\ Previewing
  /\ StopsPreview(c, "setPreview", FALSE, TRUE)

SettingsGoOn(c) ==
  /\ call[c].at = "setPreview" /\ call[c].on \notin Shown
  /\ AsksPreview(c)

-----------------------------------------------------------------------------
(* The stream and those who use it: a start is refused while the stream is on. *)

\* stop_stream(): the stream is off at once; its end is waited for.
StopsStream(u) ==
  /\ stream' = None
  /\ stopping' = IF stream = None THEN stopping ELSE stopping \cup {u}

\* The camera has aborted: every subscription ends, also one made since.
StreamStopped(u) ==
  /\ u \in stopping
  /\ stopping' = stopping \ {u}
  /\ subs' = {}
  /\ UNCHANGED <<taskVars, stream, sub, guideVars, settleVars, call, history>>

\* The camera fails.
StreamFails ==
  /\ stream # None
  /\ stream' = None /\ subs' = {}
  /\ UNCHANGED <<taskVars, stopping, sub, guideVars, settleVars, call, history>>

\* capture_dark(), after its stop_preview(): the flag, the subscription, the stream.
BeginsDark(c) ==
  /\ dark' = TRUE
  /\ IF stream = None
     THEN /\ stream' = c /\ subs' = subs \cup {c}
          /\ Awaits(c, "dark", None)
          /\ UNCHANGED stopping
     ELSE /\ StopsStream(c)
          /\ Awaits(c, "darkClose", None)
          /\ UNCHANGED subs
  /\ UNCHANGED <<taskVars, sub, paused, locked, guiding, settleVars, history>>

CaptureDark(c) ==
  /\ "dark" \in Uses
  /\ call[c] = NoCall
  /\ ~Running /\ ~dark
  /\ IF Previewing THEN StopsPreview(c, "darkPreview", FALSE, TRUE) ELSE BeginsDark(c)

DarkGoesOn(c) ==
  /\ call[c].at = "darkPreview" /\ call[c].on \notin Shown
  /\ BeginsDark(c)

\* Enough frames came, the stream ended, or no frame came in time.
DarkEnds(c) ==
  /\ call[c].at = "dark"
  /\ Awaits(c, "darkClose", None)
  /\ StopsStream(c)
  /\ subs' = subs \ {c}
  /\ UNCHANGED <<taskVars, sub, guideVars, settleVars, history>>

DarkCloses(c) ==
  /\ call[c].at = "darkClose" /\ c \notin stopping
  /\ Returns(c)
  /\ dark' = FALSE
  /\ UNCHANGED <<taskVars, streamVars, paused, locked, guiding, settleVars, history>>

\* The preview subscribes and starts the stream, or finds it on and stops it.
PreviewStarts(p) ==
  /\ view[p] = "created" /\ p \notin cancelled
  /\ IF stream = None
     THEN /\ stream' = p /\ subs' = subs \cup {p}
          /\ view' = [view EXCEPT ![p] = "show"]
          /\ UNCHANGED stopping
     ELSE /\ StopsStream(p)
          /\ view' = [view EXCEPT ![p] = "close"]
          /\ UNCHANGED subs
  /\ UNCHANGED <<task, run, begun, preview, cancelled, failed, sub, guideVars, settleVars, call, history>>

\* Seeded fault: only the preview of the attribute _preview stops the stream.
PreviewEndsIfCurrent(p) ==
  /\ view[p] = "show"
  /\ view' = [view EXCEPT ![p] = "close"]
  /\ cancelled' = cancelled \ {p}
  /\ IF preview = p THEN StopsStream(p) ELSE UNCHANGED <<stream, stopping>>
  /\ subs' = subs \ {p}
  /\ UNCHANGED <<task, run, begun, preview, failed, sub, guideVars, settleVars, call, history>>

\* Its frames ended, or it is cancelled.
PreviewEnds(p) ==
  /\ view[p] = "show"
  /\ view' = [view EXCEPT ![p] = "close"]
  /\ cancelled' = cancelled \ {p}
  /\ StopsStream(p)
  /\ subs' = subs \ {p}
  /\ UNCHANGED <<task, run, begun, preview, failed, sub, guideVars, settleVars, call, history>>

\* The stream has stopped, or the wait for it is cancelled; a preview cancelled before its start never starts.
PreviewOver(p) ==
  /\ \/ view[p] = "close" /\ (p \notin stopping \/ p \in cancelled)
     \/ view[p] = "created" /\ p \in cancelled
  /\ view' = [view EXCEPT ![p] = "none"]
  /\ cancelled' = cancelled \ {p}
  /\ preview' = IF preview = p THEN None ELSE preview
  /\ UNCHANGED <<task, run, begun, failed, streamVars, guideVars, settleVars, call, history>>

-----------------------------------------------------------------------------
(* A guiding run. *)

At(r, place) == run[r] = place /\ r \notin cancelled
Goes(r, place) == run' = [run EXCEPT ![r] = place]

\* The task is over.
Over(r) ==
  /\ Goes(r, "none")
  /\ task' = IF task = r THEN None ELSE task
  /\ begun' = begun \ {r} /\ failed' = failed \ {r} /\ deaf' = deaf \ {r}

\* Seeded fault: a run that ends leaves the request that was settling.
FinishesUnsettled(r) ==
  /\ Over(r)
  /\ paused' = FALSE /\ locked' = FALSE /\ guiding' = FALSE
  /\ UNCHANGED settleVars

\* Seeded fault: the end of a run is not told to the health tracker.
FinishesQuietly(r) ==
  /\ Over(r)
  /\ paused' = FALSE /\ locked' = FALSE
  /\ EndSettle("failed")
  /\ UNCHANGED guiding

\* The end of _finish(), whichever run the state and the request belong to by now.
Finishes(r) ==
  /\ Over(r)
  /\ paused' = FALSE /\ locked' = FALSE /\ guiding' = FALSE
  /\ EndSettle("failed")

\* _finish() up to stop_stream(): the subscription in _sub is closed, whose ever it is.
BeginsFinish(r, error) ==
  /\ Goes(r, "finish")
  /\ failed' = IF error THEN failed \cup {r} ELSE failed
  /\ subs' = subs \ {sub}
  /\ sub' = None
  /\ StopsStream(r)

GivesUp(r) ==
  /\ BeginsFinish(r, TRUE)
  /\ UNCHANGED <<task, begun, preview, view, cancelled, guideVars, settleVars, call, history>>

\* The devices are there and the mount is asked where it is, or _finish() has no camera to stop.
RunBegins(r) ==
  /\ At(r, "created")
  /\ \/ /\ Goes(r, "mount")
        /\ UNCHANGED <<task, begun, failed, subs, sub, guideVars, settleVars, history>>
     \/ /\ Finishes(r)
        /\ subs' = subs \ {sub} /\ sub' = None
        /\ UNCHANGED <<dark, disturbed>>
  /\ UNCHANGED <<preview, view, cancelled, stream, stopping, call>>

\* The mount is still: the run subscribes and starts the stream, which is refused while it is on.
MountKnown(r) ==
  /\ At(r, "mount")
  /\ \/ GivesUp(r)
     \/ /\ stream = None
        /\ Goes(r, "select")
        /\ stream' = r /\ sub' = r /\ subs' = subs \cup {r}
        /\ UNCHANGED <<task, begun, preview, view, cancelled, failed, stopping, guideVars, settleVars, call, history>>
     \/ /\ stream # None
        /\ Goes(r, "finish")
        /\ failed' = failed \cup {r}
        /\ sub' = None
        /\ StopsStream(r)
        /\ UNCHANGED <<task, begun, preview, view, cancelled, subs, guideVars, settleVars, call, history>>

FrameComes == stream # None /\ sub \in subs

\* The stars are chosen and the calibration is known.
GuidingBegins(r) ==
  /\ At(r, "select") /\ FrameComes
  /\ Goes(r, "guide")
  /\ begun' = begun \cup {r} /\ locked' = TRUE
  /\ UNCHANGED <<task, preview, view, cancelled, failed, streamVars, paused, guiding, dark, settleVars, call, history>>

\* No star, a calibration that fails, a mount that slews, a runaway, a camera that keeps failing, no _sub.
RunFails(r) ==
  /\ At(r, "select") \/ At(r, "guide") \/ At(r, "retry")
  /\ GivesUp(r)

\* A usable frame: a step, unless paused; the request may be settled, or its timeout over.
GuideStep(r) ==
  /\ At(r, "guide") /\ FrameComes
  /\ guiding' \in IF paused THEN {guiding} ELSE {guiding, TRUE}
  /\ \/ timed /\ EndSettle("failed")
     \/ ~paused /\ settle # None /\ EndSettle("ok")
     \/ timed' = (timed \/ (~paused /\ settle # None)) /\ UNCHANGED <<settle, outcome>>
  /\ UNCHANGED <<taskVars, streamVars, paused, locked, dark, call, history>>

\* A frame without the star, or pulses that fail again and again.
LosesStar(r) ==
  /\ At(r, "guide") /\ FrameComes
  /\ guiding' = FALSE
  /\ \/ timed /\ EndSettle("failed")
     \/ UNCHANGED settleVars
  /\ UNCHANGED <<taskVars, streamVars, paused, locked, dark, call, history>>

\* The stream ended or no frame came in time: it is started again after a while.
FrameLate(r) ==
  /\ At(r, "select") \/ At(r, "guide")
  /\ sub # None
  /\ Goes(r, "retry")
  /\ guiding' = FALSE
  /\ UNCHANGED <<task, begun, preview, view, cancelled, failed, streamVars, paused, locked, dark, settleVars, call, history>>

\* subscribe_frames(), start_stream(): somebody may have started the stream meanwhile.
Resubscribes(r) ==
  /\ stream = None
  /\ stream' = r /\ sub' = r /\ subs' = (subs \ {sub}) \cup {r}
  /\ Goes(r, IF r \in begun THEN "guide" ELSE "select")
  /\ UNCHANGED <<failed, stopping>>

\* The start is refused: tried again after a failure of the stream, the end of the run otherwise.
RestartRefused(r) ==
  /\ sub = None \/ stream # None
  /\ IF run[r] = "restart" /\ sub # None
     THEN /\ sub' = r /\ subs' = (subs \ {sub}) \cup {r}
          /\ Goes(r, "retry")
          /\ UNCHANGED <<failed, stream, stopping>>
     ELSE BeginsFinish(r, TRUE)

\* _restart_stream(): for changed settings or to move the window, or again after a failure.
Restarts(r) ==
  /\ At(r, "retry") \/ At(r, "guide") \/ At(r, "select")
  /\ sub # None
  /\ \/ stream = None /\ Resubscribes(r)
     \/ /\ stream # None
        /\ Goes(r, IF run[r] = "retry" THEN "restart" ELSE "refit")
        /\ StopsStream(r)
        /\ subs' = subs \ {sub}
        /\ UNCHANGED <<failed, sub>>
  /\ UNCHANGED <<task, begun, preview, view, cancelled, guideVars, settleVars, call, history>>

\* stop_stream() returns; it also swallows the cancellation of the run (contextlib.suppress around its await).
Restarted(r) ==
  /\ run[r] \in {"refit", "restart"} /\ r \notin stopping
  /\ \/ sub # None /\ Resubscribes(r)
     \/ RestartRefused(r)
  /\ cancelled' = cancelled \ {r}
  /\ deaf' = IF r \in cancelled THEN deaf \cup {r} ELSE deaf
  /\ UNCHANGED <<task, begun, preview, view, guideVars, settleVars, call, disturbed>>

\* The cancellation is delivered: before the first step nothing runs, inside _finish() the rest of it does not.
RunCancelled(r) ==
  /\ r \in cancelled /\ run[r] \notin {"refit", "restart"}
  /\ cancelled' = cancelled \ {r}
  /\ IF run[r] \in {"created", "finish"}
     THEN Over(r) /\ UNCHANGED streamVars
     ELSE BeginsFinish(r, FALSE) /\ UNCHANGED <<task, begun, deaf>>
  /\ UNCHANGED <<preview, view, guideVars, settleVars, call, disturbed>>

RunOver(r) ==
  /\ At(r, "finish") /\ r \notin stopping
  /\ Finishes(r)
  /\ UNCHANGED <<preview, view, cancelled, streamVars, dark, call, disturbed>>

-----------------------------------------------------------------------------
ClientStep(c) ==
  \/ Guide(c) \/ Stop(c) \/ Dither(c) \/ Pause(c) \/ Resume(c)
  \/ StartPreview(c) \/ StopPreview(c) \/ UpdateSettings(c) \/ CaptureDark(c)

CallStep(c) ==
  \/ Settled(c) \/ GuideGoesOn(c) \/ StopReturns(c) \/ PreviewBegins(c) \/ SettingsGoOn(c)
  \/ DarkGoesOn(c) \/ DarkEnds(c) \/ DarkCloses(c)

RunStep(r) ==
  \/ RunBegins(r) \/ MountKnown(r) \/ GuidingBegins(r) \/ RunFails(r) \/ GuideStep(r) \/ LosesStar(r)
  \/ FrameLate(r) \/ Restarts(r) \/ Restarted(r) \/ RunCancelled(r) \/ RunOver(r)

PreviewStep(p) == PreviewStarts(p) \/ PreviewEnds(p) \/ PreviewOver(p)

GuiderNext ==
  \/ \E c \in Clients : ClientStep(c) \/ CallStep(c)
  \/ \E r \in Runs : RunStep(r)
  \/ \E p \in Previews : PreviewStep(p)
  \/ \E u \in Runs \cup Previews \cup Clients : StreamStopped(u)
  \/ StreamFails

GuiderSpec == GuiderInit /\ [][GuiderNext]_vars

-----------------------------------------------------------------------------
(* Properties. *)

\* "Two requests at once must not start two runs" (guider.py:383): a run that no stop() would find is on its way
\* out, unless it is one that swallowed its cancellation.
StrayRunsEnd ==
  \A r \in Live : r = task \/ r \in cancelled \/ r \in deaf \/ run[r] = "finish"

\* The camera is never left streaming for nobody, however runs, previews and darks displace one another: who
\* started the stream is still there to stop it (the finally clauses of _run, _preview_loop, capture_dark).
NoStreamForNobody ==
  stream # None => stream \in Live \cup Shown \/ \E c \in Clients : stream = c /\ call[c].at = "dark"

\* A caller of guide() or dither() that waits for its request waits for a run that is there to settle it or to
\* fail it (_finish ends the request), as long as no run was displaced or stopped at a bad moment.
WaitersAreServed ==
  ~disturbed => \A c \in Clients :
    call[c].at = "settle" /\ outcome[call[c].on] = "pending" => settle = call[c].on /\ Live # {}

\* The health that the sequencer asks for says guiding only while a run guides, under the same condition.
HealthTells == ~disturbed /\ guiding => \E r \in Live : run[r] \in {"guide", "refit", "finish"}

\* stop() stops: the run a client waits for in stop() is on its way out.
StopIsHeard ==
  \A c \in Clients : call[c].at = "stop" =>
    call[c].on \notin Live \/ call[c].on \in cancelled \/ run[call[c].on] = "finish"

\* A pause lasts until it is resumed or the run it was asked of ends.
PauseLasts == [][paused /\ ~paused' => (\E c \in Clients : Resume(c)) \/ ~(Running /\ Running')]_vars

\* Darks are taken while nothing guides: "Stop guiding before taking darks".
DarksAlone == dark => \A r \in Live : ~At(r, "guide")
=============================================================================
