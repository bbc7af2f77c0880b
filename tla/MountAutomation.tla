--------------------------- MODULE MountAutomation --------------------------
(***************************************************************************)
(* The automation loop of one mount: auto-park at a local time, the        *)
(* horizon action and the automatic meridian flip, with the suspension     *)
(* other components take while they flip themselves (mount/manager.py).    *)
(*                                                                         *)
(* The loop wakes every _AUTOMATION_INTERVAL, twice in a minute, and uses  *)
(* the operations of MountManager.  The sky is what moves by itself: the   *)
(* altitude against the horizon limit, the hour angle against the flip     *)
(* threshold, the pier side, and the local time against the park time.     *)
(***************************************************************************)
EXTENDS MountManager

CONSTANTS
  Holders,        \* components that suspend the automatic flip
  AutoPark,       \* settings: auto_park_enabled with a time
  AutoFlip,       \* auto_flip_enabled
  HorizonActions, \* the horizon actions the user sets: "none", "stop_tracking", "park"
  Faults          \* "driver": the mount's status and tracking calls may fail

ASSUME SettingsAssumption ==
  /\ AutoPark \in BOOLEAN /\ AutoFlip \in BOOLEAN
  /\ HorizonActions \subseteq {"none", "stop_tracking", "park"}

VARIABLES
  auto,         \* where the loop is: "sleep", "ask", "look", "tracking", "flip"
  seen,         \* the status this check works with
  parkLast,     \* _auto_park_last holds the park time
  horizonTried, \* _horizon_triggered
  flipTried,    \* _auto_flip_triggered
  depth,        \* _flip_suspended, 0 when the key is absent
  holding,      \* the components inside suspend_auto_flip
  clock,        \* local time: "before", "at" (the park minute) or "after"
  woke,         \* the loop has woken in this minute
  sky,          \* what the mount's status tells
  parkedToday,  \* history: the loop has started a park since the last midnight
  climbed,      \* history: the mount was clear of the limit since the last horizon action
  forgot        \* history: the guards lost in a reconnection and not set again since

autoVars == <<auto, seen, parkLast, horizonTried, flipTried, depth, holding>>
worldVars == <<clock, woke, sky>>
history == <<parkedToday, climbed, forgot>>
vars == <<mountVars, autoVars, worldVars, history>>

\* Altitude: 1 degree or more above the limit, just above it, below it.  Hour angle:
\* well east of the meridian, between, past the flip threshold.
Status == [alt: {"above", "near", "below"}, ha: {"east", "near", "past"},
           wrongSide: BOOLEAN, tracking: BOOLEAN]
NoStatus == [alt |-> "unknown"]

AutoTypeOK ==
  /\ MountTypeOK
  /\ auto \in {"sleep", "ask", "look", "tracking", "flip"}
  /\ seen \in Status \cup {NoStatus} /\ sky \in Status
  /\ parkLast \in BOOLEAN /\ horizonTried \in BOOLEAN /\ flipTried \in BOOLEAN
  /\ depth \in Nat /\ holding \subseteq Holders
  /\ clock \in {"before", "at", "after"} /\ woke \in BOOLEAN
  /\ parkedToday \in BOOLEAN /\ climbed \in BOOLEAN
  /\ forgot \subseteq {"park", "horizon"}

AutoInit ==
  /\ MountInit
  /\ auto = "sleep"
  /\ sky = [alt |-> "above", ha |-> "east", wrongSide |-> FALSE, tracking |-> TRUE]
  /\ seen = NoStatus
  /\ parkLast = FALSE /\ horizonTried = FALSE /\ flipTried = FALSE
  /\ depth = 0 /\ holding = {}
  /\ clock = "before" /\ woke = FALSE
  /\ parkedToday = FALSE /\ climbed = TRUE /\ forgot = {}

-----------------------------------------------------------------------------
(* suspend_auto_flip *)

Suspend(h) ==
  /\ h \notin holding
  /\ holding' = holding \cup {h}
  /\ depth' = depth + 1
  /\ UNCHANGED <<mountVars, auto, seen, parkLast, horizonTried, flipTried, worldVars, history>>

\* Seeded fault: leaving the context restores the flip whoever else holds it.
RestoreAll(h) ==
  /\ h \in holding
  /\ holding' = holding \ {h}
  /\ depth' = 0
  /\ UNCHANGED <<mountVars, auto, seen, parkLast, horizonTried, flipTried, worldVars, history>>

Restore(h) ==
  /\ h \in holding
  /\ holding' = holding \ {h}
  /\ depth' = depth - 1
  /\ UNCHANGED <<mountVars, auto, seen, parkLast, horizonTried, flipTried, worldVars, history>>

-----------------------------------------------------------------------------
(* _check_automation *)

\* park() on the loop's behalf, which is refused while the mount is busy.
AutoParks ==
  IF IsBusy
  THEN UNCHANGED <<workVars, parkedToday>>
  ELSE Create("park") /\ parkedToday' = TRUE /\ UNCHANGED adrift

\* Seeded fault: the park time is not remembered once acted on.
WakeForgets ==
  /\ auto = "sleep"
  /\ auto' = "ask" /\ woke' = (clock = "at")
  /\ IF AutoPark /\ clock = "at" THEN AutoParks ELSE UNCHANGED <<workVars, parkedToday>>
  /\ UNCHANGED <<callVars, motor, seen, parkLast, horizonTried, flipTried, depth, holding, clock, sky,
                 climbed, forgot>>

\* The loop wakes: the park time is compared, and remembered even when the mount
\* is busy.  The status is asked for next.
Wake ==
  /\ auto = "sleep"
  /\ auto' = "ask" /\ woke' = (clock = "at")
  /\ IF AutoPark /\ clock = "at" /\ ~parkLast
     THEN parkLast' = TRUE /\ forgot' = forgot \ {"park"} /\ AutoParks
     ELSE UNCHANGED <<parkLast, forgot, workVars, parkedToday>>
  /\ UNCHANGED <<callVars, motor, seen, horizonTried, flipTried, depth, holding, clock, sky, climbed>>

\* get_status() reads the mount now and answers later; without one the check ends.
ReadStatus ==
  /\ auto = "ask"
  /\ \/ auto' = "look" /\ seen' = sky
     \/ "driver" \in Faults /\ auto' = "sleep" /\ UNCHANGED seen
  /\ UNCHANGED <<mountVars, parkLast, horizonTried, flipTried, depth, holding, worldVars, history>>

\* The check has no more use for its status.
Forget == seen' = NoStatus

\* The flip section: the guard is set before the busy check and the suspension is
\* not looked at again once meridian_flip() waits for the status.
FlipSection(busy) ==
  /\ Forget
  /\ IF AutoFlip /\ depth = 0
     THEN LET tried == flipTried /\ seen.ha # "east"
              due == seen.ha = "past" /\ seen.wrongSide /\ ~tried
          IN /\ flipTried' = (tried \/ due)
             /\ auto' = IF due /\ ~busy THEN "flip" ELSE "sleep"
     ELSE auto' = "sleep" /\ UNCHANGED flipTried

\* _check_horizon(): an action is taken, if one is set.
HorizonReached ==
  /\ seen.alt = "below" /\ seen.tracking
  /\ ~horizonTried
  /\ ~IsBusy

\* Seeded fault: the action re-arms as soon as the mount is above the limit.
RearmedAtLimit == horizonTried /\ seen.alt = "below"

\* What _horizon_triggered becomes when no action is taken.
Rearmed == horizonTried /\ seen.alt # "above"

\* The status came: the horizon, then the flip, in one step unless tracking has to
\* be stopped, which waits for the mount.
Look ==
  /\ auto = "look"
  /\ \E action \in HorizonActions :
       \/ /\ ~HorizonReached \/ action = "none"
          /\ horizonTried' = Rearmed
          /\ FlipSection(IsBusy)
          /\ UNCHANGED <<workVars, climbed, forgot>>
       \/ /\ HorizonReached /\ action # "none"
          /\ horizonTried' = TRUE /\ climbed' = (sky.alt = "above")
          /\ forgot' = forgot \ {"horizon"}
          /\ IF action = "park"
             THEN Create("park") /\ FlipSection(TRUE) /\ UNCHANGED adrift
             ELSE auto' = "tracking" /\ UNCHANGED <<seen, flipTried, workVars>>
  /\ UNCHANGED <<callVars, motor, parkLast, depth, holding, worldVars, parkedToday>>

\* set_tracking(False) succeeded, or failed and ended the check.
TrackingStops ==
  /\ auto = "tracking"
  /\ \/ sky' = [sky EXCEPT !.tracking = FALSE] /\ FlipSection(IsBusy)
     \/ /\ "driver" \in Faults
        /\ auto' = "sleep" /\ Forget /\ UNCHANGED <<sky, flipTried>>
  /\ UNCHANGED <<mountVars, parkLast, horizonTried, depth, holding, clock, woke, history>>

\* meridian_flip(): the second status came and the worker is created, or the flip
\* is refused.
AutoFlips ==
  /\ auto = "flip"
  /\ auto' = "sleep"
  /\ \/ sky.wrongSide /\ CreateFlip
     \/ ("driver" \in Faults \/ ~sky.wrongSide) /\ UNCHANGED workVars
  /\ UNCHANGED <<callVars, motor, seen, parkLast, horizonTried, flipTried, depth, holding, worldVars, history>>

\* The mount is disconnected and connected again: the loop is cancelled wherever it
\* is and starts anew, its guards forgotten (stop_automation, start_automation).
Reconnects ==
  /\ "reconnect" \in Ops
  /\ auto' = "sleep" /\ Forget
  /\ parkLast' = FALSE /\ horizonTried' = FALSE /\ flipTried' = FALSE
  /\ forgot' = {"park", "horizon"}
  /\ UNCHANGED <<mountVars, depth, holding, worldVars, parkedToday, climbed>>

AutoStep == Wake \/ ReadStatus \/ Look \/ TrackingStops \/ AutoFlips

-----------------------------------------------------------------------------
(* The world: what no setting looks at stands still. *)

\* Where a slew may leave the mount: on the side meant for the target, and tracking it.
Elsewhere == [alt: {"above", "near"}, ha: {"east", "past"}, wrongSide: {FALSE}, tracking: {TRUE}]

\* The mount arrives: parked, it does not track; after a flip it has changed sides.
Arrived ==
  CASE motor = "park" -> {[sky EXCEPT !.tracking = FALSE]}
    [] motor = "flip" -> {[sky EXCEPT !.tracking = TRUE, !.wrongSide = ~@]}
    [] OTHER -> Elsewhere

Arrives ==
  /\ MotorArrives
  /\ sky' \in Arrived
  /\ climbed' = (climbed \/ sky'.alt = "above")
  /\ UNCHANGED <<autoVars, clock, woke, parkedToday, forgot>>

\* Another program or the hand controller slews the mount.
Repoints ==
  /\ sky' \in Elsewhere
  /\ climbed' = (climbed \/ sky'.alt = "above")
  /\ UNCHANGED <<mountVars, autoVars, clock, woke, parkedToday, forgot>>

\* A tracked target crosses the meridian: the side that was normal no longer is.
Westward ==
  /\ AutoFlip /\ sky.tracking
  /\ \/ sky.ha = "east" /\ sky' = [sky EXCEPT !.ha = "near", !.wrongSide = TRUE]
     \/ sky.ha = "near" /\ sky' = [sky EXCEPT !.ha = "past"]
  /\ UNCHANGED <<mountVars, autoVars, clock, woke, history>>

Sinks ==
  /\ HorizonActions # {"none"} /\ sky.tracking
  /\ \/ sky.alt = "above" /\ sky' = [sky EXCEPT !.alt = "near"]
     \/ sky.alt = "near" /\ sky' = [sky EXCEPT !.alt = "below"]
  /\ UNCHANGED <<mountVars, autoVars, clock, woke, history>>

\* A target in the east rises, a nudge moves the mount up.
Rises ==
  /\ \/ sky.alt = "near" /\ sky' = [sky EXCEPT !.alt = "above"]
     \/ sky.alt = "below" /\ sky' = [sky EXCEPT !.alt = "near"]
  /\ climbed' = (climbed \/ sky'.alt = "above")
  /\ UNCHANGED <<mountVars, autoVars, clock, woke, parkedToday, forgot>>

\* A minute is longer than the loop's interval: it is not over before the loop has
\* looked at the time.
ClockMoves ==
  /\ AutoPark
  /\ clock = "at" => woke
  /\ clock' = CASE clock = "before" -> "at" [] clock = "at" -> "after" [] OTHER -> "before"
  /\ woke' = FALSE
  /\ parkedToday' = (parkedToday /\ clock # "after")
  /\ UNCHANGED <<mountVars, autoVars, sky, climbed, forgot>>

WorldStep == Arrives \/ Repoints \/ Westward \/ Sinks \/ Rises \/ ClockMoves

-----------------------------------------------------------------------------
AutoNext ==
  \/ (ClientStep \/ WorkerStep) /\ UNCHANGED <<autoVars, worldVars, history>>
  \/ \E h \in Holders : Suspend(h) \/ Restore(h)
  \/ AutoStep
  \/ Reconnects
  \/ WorldStep

AutoSpec == AutoInit /\ [][AutoNext]_vars

\* As MountFairness, and the loop's timer fires.
AutoFairness ==
  /\ \A w \in Workers :
       /\ WF_vars(WorkerDrives(w) /\ UNCHANGED <<autoVars, worldVars, history>>)
       /\ WF_vars(WorkerGivesUp(w) /\ UNCHANGED <<autoVars, worldVars, history>>)
       /\ WF_vars((WorkerCancelled(w) \/ WorkerNeverRuns(w)) /\ UNCHANGED <<autoVars, worldVars, history>>)
  /\ \A c \in Callers :
       /\ WF_vars((BeginFlip(c) \/ RefuseFlip(c)) /\ UNCHANGED <<autoVars, worldVars, history>>)
       /\ WF_vars((StopWakes(c) \/ StopMount(c)) /\ UNCHANGED <<autoVars, worldVars, history>>)
  /\ WF_vars(AutoStep)

FairAutoSpec == AutoSpec /\ AutoFairness

-----------------------------------------------------------------------------
\* The loop never decides to flip while some component holds the suspension,
\* however the holders' contexts nest (suspend_auto_flip counts its depth).
SuspensionCounts == [][auto' = "flip" /\ auto # "flip" => holding = {}]_vars

\* The loop parks at most once a day, as long as it remembers: a mount taken out of park within
\* the minute is not parked again (_auto_park_last), unless it was disconnected in between,
\* which forgets the guard (stop_automation).
ParksOnce == [][Wake /\ slot' # slot => ~parkedToday \/ "park" \in forgot]_vars

\* A tracking mount that sinks below the limit is dealt with once, until it has been
\* 1 degree above the limit again (_HORIZON_REARM_DEG) or was disconnected, which forgets the
\* guard (stop_automation).
ActsOncePerCrossing ==
  [][Look /\ (auto' = "tracking" \/ slot' # slot) => climbed \/ "horizon" \in forgot]_vars

\* The same across reconnections: the guard remembers the time the mount was "last parked" at
\* (manager.py 97), and the horizon action is applied "once when a tracking mount
\* sinks below the limit" (manager.py 419).
ParksOnceADay == [][Wake /\ slot' # slot => ~parkedToday]_vars
ActsOnceBelow == [][Look /\ (auto' = "tracking" \/ slot' # slot) => climbed]_vars

\* A mount does not track below the limit for good, unless something keeps it busy
\* (the horizon action of a loop whose calls to the mount succeed).
HorizonEnforced == <>[](sky.alt = "below" /\ sky.tracking) => []<>IsBusy

\* The automatic flip is never started while a component holds the suspension
\* ("so two components never flip the mount at once", manager.py 458).
NoAutoFlipUnderHold == [][AutoFlips /\ slot' # slot => holding = {}]_vars

\* The loop parks the mount at the park time every day (docs/en/mount.md, "Park
\* automatically at a local time, so the mount is safe at dawn").
ParkedAtDawn == AutoPark /\ clock = "after" => parkedToday

\* A mount that stays past the threshold on the wrong side, with nobody holding the
\* flip or keeping the mount busy, gets an automatic flip (docs/en/mount.md, "Flip
\* automatically when HA >").
AutoFlipHappens ==
  <>[](AutoFlip /\ sky.ha = "past" /\ sky.wrongSide /\ holding = {})
    => []<>IsBusy \/ <>(auto = "flip")
=============================================================================
