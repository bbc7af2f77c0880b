---------------------------- MODULE SequencerRig ----------------------------
(***************************************************************************)
(* The cameras of one task (plugins/sequencer/lanes.py): one lane each,    *)
(* the primary of which dithers, flips the mount and keeps it guiding      *)
(* (guiding.py, _maybe_flip of runner.py), while the others only start     *)
(* frames that end before the mount can be moved next (RigSchedule).       *)
(*                                                                         *)
(* This is what SequencerRunner reduces to frames and duties: run_lanes()  *)
(* between the setup of the task and the end of its body.  Here frames     *)
(* have durations and time passes in ticks.  A frame, its download and its *)
(* recording take at most Margin ticks more than its exposure, which is    *)
(* what download_margin_s is for; everything else takes any time.          *)
(*                                                                         *)
(* The guider and the mount are reduced to what the lanes ask of them, a   *)
(* change of filter and the flat panel to the suspension they cause.       *)
(***************************************************************************)
EXTENDS Integers, Sequences

CONSTANTS
  Lanes, Primary,
  Plans,        \* for each lane when its frames end, were they taken one after the other
  DitherEvery,  \* task.dither_every, in frames of the primary; 0: never
  Margin,       \* download_margin_s
  Lookahead,    \* FLIP_LOOKAHEAD_MARGIN_S
  FlipTimes,    \* the ticks there may be until the mount has to be flipped
  Nobody,       \* the autofocus lock is free
  Uses,         \* "pause" and "resume": what clients do at frame boundaries
  Faults        \* "error", "guider", "unguided", "blind": what can go wrong

ASSUME PrimaryAssumption == Primary \in Lanes /\ Nobody \notin Lanes
ASSUME PlansAssumption ==
  \A p \in Plans :
    /\ p \in [Lanes -> Seq(Nat \ {0})]
    /\ \A l \in Lanes : \A i, j \in 1..Len(p[l]) : i < j => p[l][i] < p[l][j]
ASSUME TimesAssumption ==
  {DitherEvery, Margin, Lookahead} \cup FlipTimes \subseteq Nat

Secondaries == Lanes \ {Primary}

VARIABLES
  at,           \* where each lane is suspended
  until,        \* the ticks a lane that exposes or records has left, Margin included
  frames,       \* the plan of the task, in Plans
  done,         \* the frames counted of each lane
  sinceDither,  \* frames_since_dither
  plan,         \* RigSchedule: what the primary published about its next dither
  primaryDone,  \* RigSchedule.primary_done
  mountBusy,    \* RigSchedule.mount_busy
  busy,         \* RigSchedule._busy
  running,      \* RigSchedule._running
  flipIn,       \* ticks until the mount reaches the flip point
  flipKnown,    \* RigSchedule.flip_at is set (it is then flipIn from now)
  flipped,      \* the mount is on the side for what lies west
  op,           \* the mount operation the primary is in
  guide,        \* the guider's health
  restarted,    \* ensure_guiding: guiding was restarted or had stalled
  recentered,   \* ensure_guiding: recentered
  focusing,     \* the holder of af_lock
  pending,      \* a request is pending that takes effect at a frame boundary
  uncounted     \* history: a frame of the primary since the last dither did not count

laneVars  == <<at, until, frames, done>>
schedVars == <<sinceDither, plan, primaryDone, mountBusy, busy, running, flipKnown>>
mountVars == <<flipIn, flipped, op>>
guideVars == <<guide, restarted, recentered>>
rigVars == <<laneVars, schedVars, mountVars, guideVars, focusing, pending, uncounted>>

Places == {"begin", "top", "status", "flipwait", "prepare", "focus", "guide", "starting",
           "fit", "expose", "record", "waits", "moves", "duties", "ended"}
NoDither == [due |-> FALSE, ahead |-> -1]

\* How long the first n frames of a lane take, all of them if it has fewer.
Total(l, n) ==
  LET taken == IF n <= Len(frames[l]) THEN n ELSE Len(frames[l])
  IN IF taken = 0 THEN 0 ELSE frames[l][taken]

Duration(l) == Total(l, done[l] + 1) - Total(l, done[l])
FramesLeft(l) == done[l] < Len(frames[l])
BodyOver == \A l \in Lanes : at[l] = "ended"

LaneTypeOK ==
  /\ at \in [Lanes -> Places]
  /\ until \in [Lanes -> Nat]
  /\ frames \in Plans
  /\ done \in [Lanes -> Nat] /\ \A l \in Lanes : done[l] <= Len(frames[l])

ScheduleTypeOK ==
  /\ sinceDither \in Nat
  /\ plan \in [due : BOOLEAN, ahead : Nat \cup {-1}]
  /\ primaryDone \in BOOLEAN /\ mountBusy \in BOOLEAN /\ flipKnown \in BOOLEAN
  /\ busy \subseteq Secondaries /\ running \subseteq Secondaries

OperationTypeOK ==
  /\ flipIn \in Nat /\ flipped \in BOOLEAN
  /\ op \in {"none", "flip", "dither", "recenter"}
  /\ guide \in {"healthy", "young", "lost", "off"}
  /\ restarted \in BOOLEAN /\ recentered \in BOOLEAN
  /\ focusing \in Lanes \cup {Nobody}
  /\ pending \in BOOLEAN /\ uncounted \in BOOLEAN

RigTypeOK == LaneTypeOK /\ ScheduleTypeOK /\ OperationTypeOK

RigInit ==
  /\ at = [l \in Lanes |-> IF l = Primary THEN "begin" ELSE "top"]
  /\ until = [l \in Lanes |-> 0]
  /\ frames \in Plans
  /\ done = [l \in Lanes |-> 0]
  /\ sinceDither = 0 /\ plan = NoDither
  /\ primaryDone = FALSE /\ mountBusy = FALSE
  /\ busy = {} /\ running = Secondaries
  /\ flipIn \in FlipTimes /\ flipKnown = FALSE /\ flipped \in BOOLEAN
  /\ op = "none"
  /\ guide = "healthy" /\ restarted = FALSE /\ recentered = FALSE
  /\ focusing = Nobody /\ pending = FALSE /\ uncounted = FALSE

Goes(l, place) == at' = [at EXCEPT ![l] = place]

-----------------------------------------------------------------------------
(* The schedule *)

\* Seeded fault: the frame in flight is counted among those still to come.
PublishedTwice(since, taken, exposing) ==
  IF DitherEvery = 0 THEN NoDither
  ELSE LET last == taken + (IF DitherEvery > since THEN DitherEvery - since ELSE 0)
       IN [due |-> since >= DitherEvery,
           ahead |-> Total(Primary, last) - Total(Primary, taken)]

\* _publish_primary_plan(): the frames the primary takes before its next dither, without
\* the one in flight.
Published(since, taken, exposing) ==
  IF DitherEvery = 0 THEN NoDither
  ELSE LET last  == taken + (IF DitherEvery > since THEN DitherEvery - since ELSE 0)
           first == IF exposing /\ last > taken THEN taken + 1 ELSE taken
       IN [due |-> since >= DitherEvery,
           ahead |-> Total(Primary, last) - Total(Primary, first)]

\* primary_exposure_end is set: it may have passed, by Margin at most.
Exposing == at[Primary] \in {"expose", "record"}
DitherIn ==
  IF plan.due THEN 0
  ELSE plan.ahead + (IF Exposing THEN until[Primary] - Margin ELSE 0)

\* RigSchedule.fits(), with next_mount_op() spelled out.
Fits(d) ==
  /\ ~mountBusy
  /\ flipKnown => d + Margin <= flipIn
  /\ ~primaryDone /\ plan # NoDither => d + Margin <= DitherIn

-----------------------------------------------------------------------------
(* The primary *)

\* Its loop is left, by its last frame or at a boundary.  Only the former leads to duties.
Leaves(place) ==
  /\ Goes(Primary, place)
  /\ primaryDone' = TRUE

Stops ==
  /\ pending
  /\ Leaves("ended")

\* The head of primary_lane()'s loop; "begin" is its first step, taken before any other
\* lane runs.
PrimaryTop ==
  /\ at[Primary] \in {"begin", "top"}
  /\ \/ /\ ~FramesLeft(Primary)
        /\ Leaves(IF running = {} THEN "ended" ELSE "duties")
        /\ UNCHANGED plan
     \/ FramesLeft(Primary) /\ Stops /\ UNCHANGED plan
     \/ /\ FramesLeft(Primary) /\ ~pending
        /\ plan' = Published(sinceDither, done[Primary], FALSE)
        /\ Goes(Primary, "status")
        /\ UNCHANGED primaryDone
  /\ UNCHANGED <<until, frames, done, sinceDither, mountBusy, busy, running, flipKnown,
                 mountVars, guideVars, focusing, pending, uncounted>>

\* What follows _maybe_flip(): the frame, or in primary_duties() a look at the guider.
AfterFlipCheck ==
  IF ~primaryDone THEN "prepare"
  ELSE IF guide \in {"lost", "off"} THEN "guide" ELSE "duties"

\* mount_operation(): announced, then it waits until no secondary exposes or focuses.
BeginOp(kind) ==
  /\ op' = kind
  /\ mountBusy' = TRUE
  /\ Goes(Primary, IF busy = {} THEN "moves" ELSE "waits")

\* _flip_now() stops the guiding once the other lanes are idle.
StopsGuiding(kind) == guide' = IF kind = "flip" THEN "off" ELSE guide
BeginFlip ==
  /\ BeginOp("flip")
  /\ IF busy = {} THEN StopsGuiding("flip") ELSE UNCHANGED guide

\* _maybe_flip(): the mount's status is read.
FlipCheck ==
  /\ at[Primary] = "status"
  /\ LET d == IF primaryDone THEN 0 ELSE Duration(Primary)
     IN \/ /\ flipped \/ (flipIn >= d + Lookahead /\ flipIn > 0)
           /\ Goes(Primary, AfterFlipCheck)
           /\ UNCHANGED <<op, mountBusy, guide>>
        \/ /\ ~flipped /\ flipIn > 0 /\ flipIn < d + Lookahead
           /\ Goes(Primary, "flipwait")
           /\ UNCHANGED <<op, mountBusy, guide>>
        \/ ~flipped /\ flipIn = 0 /\ BeginFlip
  /\ flipKnown' = ~flipped
  /\ UNCHANGED <<until, frames, done, sinceDither, plan, primaryDone, busy, running,
                 flipIn, flipped, restarted, recentered, focusing, pending, uncounted>>

\* The mount's status is not known: nothing is decided, flip_at stays as it is.  (On the
\* far side FlipCheck decides nothing either.)
FlipUnknown ==
  /\ "blind" \in Faults /\ ~flipped
  /\ at[Primary] = "status" \/ (at[Primary] = "flipwait" /\ ~pending)
  /\ Goes(Primary, AfterFlipCheck)
  /\ UNCHANGED <<until, frames, done, schedVars, mountVars, guideVars, focusing, pending,
                 uncounted>>

\* The frame would cross the flip point: wait for it.
FlipWaits ==
  /\ at[Primary] = "flipwait"
  /\ \/ Stops /\ UNCHANGED <<op, mountBusy, guide>>
     \/ /\ ~pending /\ flipIn = 0
        /\ BeginFlip
        /\ UNCHANGED primaryDone
  /\ UNCHANGED <<until, frames, done, sinceDither, plan, busy, running, flipKnown,
                 flipIn, flipped, restarted, recentered, focusing, pending, uncounted>>

\* Seeded fault: exposing lanes are waited for, focusing ones are not looked at again.
SecondariesSeemIdle == TRUE
\* RigSchedule.secondaries_idle
SecondariesIdle == busy = {}

OpBegins ==
  /\ at[Primary] = "waits" /\ SecondariesIdle
  /\ Goes(Primary, "moves")
  /\ StopsGuiding(op)
  /\ UNCHANGED <<until, frames, done, schedVars, mountVars, restarted, recentered,
                 focusing, pending, uncounted>>

\* A flip, with the centering after it; the mount may say that none is needed.
FlipEnds ==
  /\ at[Primary] = "moves" /\ op = "flip"
  /\ flipped' = TRUE /\ flipKnown' = FALSE
  /\ \/ /\ sinceDither' = 0
        /\ Goes(Primary, AfterFlipCheck)
        /\ UNCHANGED primaryDone
     \/ Stops /\ UNCHANGED sinceDither
  /\ mountBusy' = FALSE /\ op' = "none"
  /\ UNCHANGED <<until, frames, done, plan, busy, running, flipIn, guideVars, focusing,
                 pending, uncounted>>

DitherEnds ==
  /\ at[Primary] = "moves" /\ op = "dither"
  /\ sinceDither' = 0
  /\ plan' = Published(0, done[Primary], FALSE)
  /\ mountBusy' = FALSE /\ op' = "none" /\ uncounted' = FALSE
  /\ Goes(Primary, "top")
  /\ UNCHANGED <<until, frames, done, primaryDone, busy, running, flipKnown, flipIn,
                 flipped, guideVars, focusing, pending>>

\* Centering after a long loss; guiding is started next, unless centering failed.
RecenterEnds ==
  /\ at[Primary] = "moves" /\ op = "recenter"
  /\ \/ Goes(Primary, "starting")
     \/ "guider" \in Faults /\ Goes(Primary, "guide")
  /\ mountBusy' = FALSE /\ op' = "none"
  /\ UNCHANGED <<until, frames, done, sinceDither, plan, primaryDone, busy, running,
                 flipKnown, flipIn, flipped, guideVars, focusing, pending, uncounted>>

\* ensure_guiding(): a boundary ends it.
GuideStops ==
  /\ at[Primary] = "guide"
  /\ Stops
  /\ restarted' = FALSE /\ recentered' = FALSE
  /\ UNCHANGED <<until, frames, done, sinceDither, plan, mountBusy, busy, running,
                 flipKnown, mountVars, guide, focusing, pending, uncounted>>

\* ensure_guiding(): restart what has stopped; re-centre first, once, after a long loss.
GuideActs ==
  /\ at[Primary] = "guide" /\ ~pending
  /\ \/ /\ guide = "off"
        /\ Goes(Primary, "starting")
        /\ UNCHANGED <<op, mountBusy, guide, recentered>>
     \/ /\ guide \in {"off", "lost"} /\ ~recentered
        /\ recentered' = TRUE /\ guide' = "off"
        /\ BeginOp("recenter")
  /\ UNCHANGED <<until, frames, done, sinceDither, plan, primaryDone, busy, running,
                 flipKnown, flipIn, flipped, restarted, focusing, pending, uncounted>>

GuideStarts ==
  /\ at[Primary] = "starting"
  /\ Goes(Primary, "guide")
  /\ \/ guide' \in {"young", "healthy"} /\ restarted' = TRUE
     \/ "guider" \in Faults /\ UNCHANGED <<guide, restarted>>
  /\ UNCHANGED <<until, frames, done, schedVars, mountVars, recentered, focusing, pending,
                 uncounted>>

\* Guiding is healthy: the frame is started, or the duties go on.
GuideIsHealthy ==
  /\ at[Primary] = "guide" /\ ~pending /\ guide = "healthy"
  /\ restarted' = FALSE /\ recentered' = FALSE
  /\ sinceDither' = IF restarted THEN 0 ELSE sinceDither
  /\ IF primaryDone
     THEN Goes(Primary, "duties") /\ UNCHANGED <<until, plan>>
     ELSE /\ Goes(Primary, "expose")
          /\ until' = [until EXCEPT ![Primary] = Duration(Primary) + Margin]
          /\ plan' = Published(sinceDither', done[Primary], TRUE)
  /\ UNCHANGED <<frames, done, primaryDone, mountBusy, busy, running, flipKnown, mountVars,
                 guide, focusing, pending, uncounted>>

\* frames_since_dither only matters up to dither_every.
OneMoreFrame == IF sinceDither < DitherEvery THEN sinceDither + 1 ELSE sinceDither

\* The frame is recorded; one that was unguided for too long does not count.
PrimaryRecords ==
  /\ at[Primary] = "record"
  /\ \/ /\ done' = [done EXCEPT ![Primary] = @ + 1]
        /\ UNCHANGED uncounted
     \/ "unguided" \in Faults /\ uncounted' = TRUE /\ UNCHANGED done
  /\ sinceDither' = OneMoreFrame
  /\ plan' = Published(sinceDither', done'[Primary], FALSE)
  /\ until' = [until EXCEPT ![Primary] = 0]
  /\ LET last == done'[Primary] = Len(frames[Primary])
     IN \/ last /\ Leaves(IF running = {} THEN "ended" ELSE "duties") /\ UNCHANGED <<op, mountBusy>>
        \/ ~last /\ Stops /\ UNCHANGED <<op, mountBusy>>
        \/ /\ ~last /\ ~pending /\ DitherEvery > 0 /\ sinceDither' >= DitherEvery
           /\ BeginOp("dither")
           /\ UNCHANGED primaryDone
        \/ /\ ~last /\ ~pending /\ ~(DitherEvery > 0 /\ sinceDither' >= DitherEvery)
           /\ Goes(Primary, "top")
           /\ UNCHANGED <<primaryDone, op, mountBusy>>
  /\ UNCHANGED <<frames, busy, running, flipKnown, flipIn, flipped, guideVars, focusing, pending>>

\* primary_duties(): the mount is the primary's until the other lanes are over.
Duties ==
  /\ at[Primary] = "duties"
  /\ Goes(Primary, IF running = {} \/ pending THEN "ended" ELSE "status")
  /\ UNCHANGED <<until, frames, done, schedVars, mountVars, guideVars, focusing, pending,
                 uncounted>>

-----------------------------------------------------------------------------
(* The other lanes, and what all lanes do *)

\* Before a frame: flat panel and filter, then the autofocus that is due, if any.
Prepare(l) ==
  /\ at[l] = "prepare"
  /\ \/ /\ Goes(l, "focus")
        /\ busy' = IF l = Primary THEN busy ELSE busy \cup {l}
     \/ Goes(l, IF l = Primary THEN "guide" ELSE "fit") /\ UNCHANGED busy
  /\ UNCHANGED <<until, frames, done, sinceDither, plan, primaryDone, mountBusy, running,
                 flipKnown, mountVars, guideVars, focusing, pending, uncounted>>

TakesFocus(l) ==
  /\ at[l] = "focus" /\ focusing = Nobody
  /\ focusing' = l
  /\ UNCHANGED <<laneVars, schedVars, mountVars, guideVars, pending, uncounted>>

\* autofocus_triggers() returns, with an autofocus or without one.
FocusEnds(l) ==
  /\ at[l] = "focus"
  /\ focusing' = IF focusing = l THEN Nobody ELSE focusing
  /\ busy' = busy \ {l}
  /\ Goes(l, IF l = Primary THEN "guide" ELSE "fit")
  /\ UNCHANGED <<until, frames, done, sinceDither, plan, primaryDone, mountBusy, running,
                 flipKnown, mountVars, guideVars, pending, uncounted>>

\* Seeded fault: a lane that is over still counts as running.
LaneEndsRunning(l) ==
  /\ Goes(l, "ended")
  /\ running' = running

\* A lane that is over no longer counts as running.
LaneEnds(l) ==
  /\ Goes(l, "ended")
  /\ running' = running \ {l}

SecondaryTop(l) ==
  /\ at[l] = "top" /\ at[Primary] # "begin"
  /\ \/ ~FramesLeft(l) /\ LaneEnds(l)
     \/ FramesLeft(l) /\ pending /\ LaneEnds(l)
     \/ FramesLeft(l) /\ ~pending /\ Goes(l, "prepare") /\ UNCHANGED running
  /\ UNCHANGED <<until, frames, done, sinceDither, plan, primaryDone, mountBusy, busy,
                 flipKnown, mountVars, guideVars, focusing, pending, uncounted>>

SecondaryStops(l) ==
  /\ at[l] = "fit" /\ pending
  /\ LaneEnds(l)
  /\ UNCHANGED <<until, frames, done, sinceDither, plan, primaryDone, mountBusy, busy,
                 flipKnown, mountVars, guideVars, focusing, pending, uncounted>>

\* Guiding is healthy and the frame fits: checks and start are one step.
SecondaryExposes(l) ==
  /\ at[l] = "fit" /\ ~pending
  /\ guide = "healthy" /\ Fits(Duration(l))
  /\ Goes(l, "expose")
  /\ busy' = busy \cup {l}
  /\ until' = [until EXCEPT ![l] = Duration(l) + Margin]
  /\ UNCHANGED <<frames, done, sinceDither, plan, primaryDone, mountBusy, running,
                 flipKnown, mountVars, guideVars, focusing, pending, uncounted>>

\* The exposure has ended and the frame is downloaded.
FrameReady(l) ==
  /\ at[l] = "expose" /\ until[l] <= Margin
  /\ Goes(l, "record")
  /\ busy' = busy \ {l}
  /\ UNCHANGED <<until, frames, done, sinceDither, plan, primaryDone, mountBusy, running,
                 flipKnown, mountVars, guideVars, focusing, pending, uncounted>>

SecondaryRecords(l) ==
  /\ at[l] = "record"
  /\ \/ done' = [done EXCEPT ![l] = @ + 1]
     \/ "unguided" \in Faults /\ UNCHANGED done
  /\ until' = [until EXCEPT ![l] = 0]
  /\ Goes(l, "top")
  /\ UNCHANGED <<frames, schedVars, mountVars, guideVars, focusing, pending, uncounted>>

-----------------------------------------------------------------------------
(* The whole body *)

\* A step of a lane fails, or the body is cancelled: every lane is.
BodyFails ==
  /\ "error" \in Faults
  /\ ~BodyOver
  /\ at' = [l \in Lanes |-> "ended"]
  /\ until' = [l \in Lanes |-> 0]
  /\ primaryDone' = TRUE /\ mountBusy' = FALSE /\ op' = "none"
  /\ busy' = {} /\ running' = {} /\ focusing' = Nobody
  /\ restarted' = FALSE /\ recentered' = FALSE
  /\ UNCHANGED <<frames, done, sinceDither, plan, flipKnown, flipIn, flipped, guide,
                 pending, uncounted>>

\* The task goes on after a pause, through its setup or not, with the schedule it has.
Again ==
  /\ BodyOver /\ \E l \in Lanes : FramesLeft(l)
  /\ at' = [l \in Lanes |-> IF l = Primary THEN "begin" ELSE "top"]
  /\ primaryDone' = FALSE /\ mountBusy' = FALSE /\ running' = Secondaries
  /\ pending' = FALSE
  /\ \/ sinceDither' = 0 /\ guide' = "healthy"
     \/ UNCHANGED <<sinceDither, guide>>
  /\ UNCHANGED <<until, frames, done, plan, busy, flipKnown, mountVars, restarted,
                 recentered, focusing, uncounted>>

\* A request at a frame boundary; resume() drops a pause that has not taken effect.
Pause ==
  /\ "pause" \in Uses /\ ~BodyOver /\ ~pending
  /\ pending' = TRUE
  /\ UNCHANGED <<laneVars, schedVars, mountVars, guideVars, focusing, uncounted>>

Resume ==
  /\ "resume" \in Uses /\ ~BodyOver /\ pending
  /\ pending' = FALSE
  /\ UNCHANGED <<laneVars, schedVars, mountVars, guideVars, focusing, uncounted>>

\* The star is lost, or the guider stops.
GuideLost ==
  /\ "guider" \in Faults
  /\ guide \in {"healthy", "young"}
  /\ guide' \in {"lost", "off"}
  /\ UNCHANGED <<laneVars, schedVars, mountVars, restarted, recentered, focusing, pending,
                 uncounted>>

\* The star comes back by itself: had it been away for long, that was a stall.
StarBack ==
  /\ guide = "lost"
  /\ guide' = "young"
  /\ \/ UNCHANGED restarted
     \/ at[Primary] = "guide" /\ restarted' = TRUE
  /\ UNCHANGED <<laneVars, schedVars, mountVars, recentered, focusing, pending, uncounted>>

\* guide_healthy_after_s
GuideSettles ==
  /\ guide = "young"
  /\ guide' = "healthy"
  /\ UNCHANGED <<laneVars, schedVars, mountVars, restarted, recentered, focusing, pending,
                 uncounted>>

\* Time: no frame takes longer than its exposure and Margin.
Tick ==
  /\ ~BodyOver
  /\ \A l \in Lanes : at[l] \in {"expose", "record"} => until[l] > 0
  /\ until' = [l \in Lanes |-> IF until[l] > 0 THEN until[l] - 1 ELSE 0]
  /\ flipIn' = IF flipIn > 0 THEN flipIn - 1 ELSE 0
  /\ UNCHANGED <<at, frames, done, schedVars, flipped, op, guideVars, focusing, pending,
                 uncounted>>

PrimaryStep ==
  \/ PrimaryTop \/ FlipCheck \/ FlipWaits \/ Prepare(Primary) \/ FocusEnds(Primary)
  \/ GuideStops \/ GuideActs \/ GuideStarts \/ GuideIsHealthy
  \/ FrameReady(Primary) \/ PrimaryRecords \/ Duties
  \/ OpBegins \/ FlipEnds \/ DitherEnds \/ RecenterEnds

SecondaryStep(l) ==
  \/ SecondaryTop(l) \/ Prepare(l) \/ FocusEnds(l)
  \/ SecondaryStops(l) \/ SecondaryExposes(l) \/ FrameReady(l) \/ SecondaryRecords(l)

Disturbs == BodyFails \/ Again \/ Pause \/ Resume \/ GuideLost \/ StarBack \/ FlipUnknown

RigNext ==
  \/ PrimaryStep
  \/ \E l \in Secondaries : SecondaryStep(l)
  \/ \E l \in Lanes : TakesFocus(l)
  \/ Disturbs \/ GuideSettles \/ Tick

RigSpec == RigInit /\ [][RigNext]_rigVars

\* The event loop runs every lane that can run, steps have timeouts, time passes, and a
\* star that is tracked is tracked for long enough.
RigFairness ==
  /\ WF_rigVars(PrimaryStep)
  /\ \A l \in Secondaries : WF_rigVars(SecondaryStep(l))
  /\ WF_rigVars(Tick) /\ WF_rigVars(GuideSettles)
FairRigSpec == RigSpec /\ RigFairness

-----------------------------------------------------------------------------
(* Properties *)

(* While the mount is dithered, flipped or re-centred no other camera exposes: the primary
   looks at who is busy, the others at whether the mount is, and both go on exposing and
   moving across several awaits (mount_operation, secondary_lane). *)
MountMovesAlone ==
  at[Primary] = "moves" => \A l \in Secondaries : at[l] # "expose"

(* "The primary never waits for secondaries except when a download overruns" the margin
   (SEQUENCER_SPEC.md): a frame that was found to fit is over when the primary dithers,
   whatever the primary's pauses, guiding losses, flips and errors make of its plan.
   Intervals in which one of its own frames did not count are excepted: the plan it
   published counted on another next frame. *)
DithersUnhindered ==
  at[Primary] = "waits" /\ op = "dither" /\ ~uncounted =>
    \A l \in Secondaries : at[l] = "expose" => until[l] = 0

(* Left alone, with guiding that is healthy again and again, every lane ends: a frame that
   fits no interval is taken once the primary is done (next_mount_op() then knows of no
   dither; the comments that let such a lane stall for ever do not look at that, see
   UnfitNeverStarts), nobody waits for a flip that is over, and the primary does not wait
   for lanes that wait for it (secondary_lane, primary_duties).  Excepted is a pause
   withdrawn once the primary has stopped for it: the others then wait for duties that
   nobody does. *)
Quiet ==
  /\ ~Disturbs
  /\ \A l \in Lanes : at[l] = "record" /\ at'[l] # "record" => done'[l] > done[l]
Stranded == at[Primary] = "ended" /\ running # {} /\ ~pending
RigFinishes ==
  <>[][Quiet]_rigVars /\ []<>(guide = "healthy") => <>[](BodyOver \/ Stranded)

\* No frame of the lane, with its margin, fits between two dithers of the primary.
Unfit(l) ==
  /\ DitherEvery > 0
  /\ \A n \in 0..Len(frames[Primary]), m \in 1..Len(frames[l]) :
       Total(Primary, n + DitherEvery) - Total(Primary, n) < Total(l, m) - Total(l, m - 1) + Margin

(* "the secondary will actually stall forever in WAITING_FOR_PRIMARY at runtime"
   (lanes.py:172): a lane whose frames fit no interval never exposes. *)
UnfitNeverStarts ==
  \A l \in Secondaries : Unfit(l) => at[l] # "expose"

(* A lane marked busy is focusing or exposing: no secondary focuses while the mount moves
   ("Wait until no secondary is exposing or focusing", lanes.py). *)
FocusesAtRest ==
  at[Primary] = "moves" => \A l \in Secondaries : focusing # l

(* No lane, primary included, starts an exposure that would end after the flip point
   (SEQUENCER_SPEC.md). *)
NoneCrossesFlip ==
  [][\A l \in Lanes : at[l] # "expose" /\ at'[l] = "expose" /\ ~flipped
       => Duration(l) <= flipIn]_rigVars
=============================================================================
