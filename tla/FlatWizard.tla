----------------------------- MODULE FlatWizard -----------------------------
(***************************************************************************)
(* The flat wizard (plugins/flat_wizard/engine.py) with the filter wheel   *)
(* and the flat panels it commands through their managers: one run lights  *)
(* the panels, solves every camera's filters at once under a lock per      *)
(* wheel, releases the panels and queues the flats.                        *)
(*                                                                         *)
(* One wheel serves the cameras, every panel has a cover and a light, and  *)
(* nobody else commands them.  A frame's brightness is its duration times  *)
(* a level fixed for one filter; units are whole, so a duration below one  *)
(* is 0.  Queueing the task does not suspend and is part of the run's end. *)
(***************************************************************************)
EXTENDS Integers, Sequences, FiniteSets

CONSTANTS
  Cameras,
  Filters,      \* the slots of the wheel
  Plans,        \* the orders of filters a camera may be asked for
  Panels,       \* the sequence of the cameras' panels
  Levels,       \* brightness of a frame of duration 1
  Seed, MinDuration, MaxDuration, MaxAttempts,
  Target, Tolerance, Saturation,
  Faults,       \* a subset of {"expose", "wheel", "panel"}: what may fail
  None

ASSUME WizardAssumption ==
  /\ None \notin Cameras \cup Filters
  /\ Levels \cup {Seed, MaxDuration, MaxAttempts, Target, Tolerance, Saturation} \subseteq Nat
  /\ MinDuration \in Nat \ {0}
  /\ \A p \in Plans : p \in Seq(Filters) \ {<<>>}
  /\ Panels \in Seq({Panels[i] : i \in DOMAIN Panels})

VARIABLES
  run,       \* the task: where it is, what ends it, its panels, those left and the await on the first
  status,    \* FlatWizardRun.status
  cancelled, \* abort() has asked for the task's cancellation, not delivered yet
  cam,       \* per camera: where its task is, filters left, the search for the first of them
             \* and the verdict of the last one that ended
  solved,    \* the cameras with a filter solved: those with a lane in the task to queue
  holder,    \* who holds the wheel's lock
  wheel,     \* where the wheel is, and where it goes or None
  faulty,    \* history: the wheel's last move was given up, or failed
  cover,     \* the panels' covers
  lit,       \* the panels whose light is on
  seen,      \* the panels whose light the client believes on
  missed     \* history: panels the release failed for, was cut short before, or misread

searchVars == <<cam, solved, holder>>
wheelVars == <<wheel, faulty>>
panelVars == <<cover, lit, seen>>
vars == <<run, status, cancelled, searchVars, wheelVars, panelVars, missed>>

PanelSet == {Panels[i] : i \in DOMAIN Panels}
Idle == [at |-> "none", cause |-> "ok", panels |-> <<>>, left |-> <<>>, await |-> "none"]
Resting ==
  [at |-> "done", todo |-> <<>>, level |-> 0, duration |-> 0, attempt |-> 0, verdict |-> "none"]

WizardTypeOK ==
  /\ run.at \in {"none", "created", "lighting", "solving", "releasing"}
  /\ run.cause \in {"ok", "cancelled", "error"} /\ run.await \in {"none", "status", "cover", "light"}
  /\ status \in {"none", "running", "completed", "failed", "aborted"} /\ cancelled \in BOOLEAN
  /\ \A c \in Cameras : cam[c].at \in {"turn", "select", "expose", "done"}
  /\ \A c \in Cameras : cam[c].verdict \in {"none", "solved", "stuck", "saturated", "exhausted", "error"}
  /\ solved \subseteq Cameras /\ holder \in Cameras \cup {None}
  /\ wheel.at \in Filters /\ wheel.goal \in Filters \cup {None} /\ faulty \in BOOLEAN
  /\ cover \in [PanelSet -> {"open", "closing", "closed", "opening"}]
  /\ lit \subseteq PanelSet /\ seen \subseteq PanelSet /\ missed \subseteq PanelSet

WizardInit ==
  /\ run = Idle /\ status = "none" /\ cancelled = FALSE
  /\ cam = [c \in Cameras |-> Resting]
  /\ solved = {} /\ holder = None
  /\ wheel \in [at : Filters, goal : {None}] /\ faulty = FALSE
  /\ cover \in [PanelSet -> {"open", "closed"}] /\ lit = {} /\ seen = {} /\ missed = {}

-----------------------------------------------------------------------------
(* The API. *)

Start ==
  /\ run.at = "none"
  /\ run' = [Idle EXCEPT !.at = "created"]
  /\ status' = "running"
  /\ missed' = {}
  /\ UNCHANGED <<cancelled, searchVars, wheelVars, panelVars>>

Abort ==
  /\ run.at # "none"
  /\ cancelled' = TRUE
  /\ UNCHANGED <<run, status, searchVars, wheelVars, panelVars, missed>>

-----------------------------------------------------------------------------
(* The run's task. *)

\* The handlers at the end of _run(), and the queueing before it ends well.
Outcome(cause) ==
  CASE cause = "cancelled" -> "aborted"
    [] cause = "error" -> "failed"
    [] OTHER -> IF solved = {} THEN "failed" ELSE "completed"

\* The run is over, its results queued or dropped.
Ends(cause) ==
  /\ run' = [Idle EXCEPT !.panels = run.panels]
  /\ status' = Outcome(cause)
  /\ solved' = {}

Solves ==
  /\ run' = [run EXCEPT !.at = "solving", !.await = "none"]
  /\ \E plan \in [Cameras -> Plans] :
       cam' = [c \in Cameras |-> [Resting EXCEPT !.at = "turn", !.todo = plan[c]]]

\* Seeded fault: the panels are released on an error or a cancellation only.
UnwindsOnFailure(cause) ==
  run' = [run EXCEPT !.at = "releasing", !.cause = cause, !.await = "status",
                     !.left = IF cause = "ok" THEN <<>> ELSE run.panels]

\* The run begins to release its panels; what ends it waits until they are.
Unwinds(cause) ==
  run' = [run EXCEPT !.at = "releasing", !.cause = cause, !.left = run.panels, !.await = "status"]

\* The task's first step; a camera without a panel fails the run.
Begins ==
  /\ run.at = "created" /\ ~cancelled
  /\ \/ Solves /\ UNCHANGED <<status, solved>>
     \/ /\ Panels # <<>>
        /\ run' = [run EXCEPT !.at = "lighting", !.panels = Panels, !.left = Panels, !.await = "status"]
        /\ UNCHANGED <<status, cam, solved>>
     \/ /\ "panel" \in Faults
        /\ Ends("error")
        /\ UNCHANGED cam
  /\ UNCHANGED <<cancelled, holder, wheelVars, panelVars, missed>>

\* A task cancelled before its first step never enters _run().
NeverBegins ==
  /\ run.at = "created" /\ cancelled
  /\ run' = Idle /\ cancelled' = FALSE
  /\ UNCHANGED <<status, searchVars, wheelVars, panelVars, missed>>

-----------------------------------------------------------------------------
(* Lighting the panels: each one's status is read, then its cover closed and its light put on. *)

This == Head(run.left)
Awaiting(at, what) == run.at = at /\ run.await = what /\ run.left # <<>>
AwaitsNext(what) == run' = [run EXCEPT !.await = what]

LightReads ==
  /\ Awaiting("lighting", "status")
  /\ IF cover[This] = "closed"
       THEN AwaitsNext("light") /\ UNCHANGED cover
       ELSE AwaitsNext("cover") /\ cover' = [cover EXCEPT ![This] = "closing"]
  /\ UNCHANGED <<status, cancelled, searchVars, wheelVars, lit, seen, missed>>

LightCovered ==
  /\ Awaiting("lighting", "cover") /\ ~cancelled /\ cover[This] = "closed"
  /\ AwaitsNext("light")
  /\ UNCHANGED <<status, cancelled, searchVars, wheelVars, panelVars, missed>>

\* The command is sent; the client learns that the light is on when the driver says so.
LightSent ==
  /\ Awaiting("lighting", "light") /\ ~cancelled
  /\ lit' = lit \cup {This}
  /\ IF Len(run.left) = 1 THEN Solves
       ELSE run' = [run EXCEPT !.left = Tail(run.left), !.await = "status"] /\ UNCHANGED cam
  /\ UNCHANGED <<status, cancelled, solved, holder, wheelVars, cover, seen, missed>>

\* A panel's error, or the cancellation, whose command may have been sent: every panel is released.
LightFails ==
  /\ run.at = "lighting" /\ run.await # "status"
  /\ \/ "panel" \in Faults /\ ~cancelled /\ Unwinds("error") /\ UNCHANGED lit
     \/ /\ cancelled /\ Unwinds("cancelled")
        /\ lit' \in IF run.await = "light" THEN {lit, lit \cup {This}} ELSE {lit}
  /\ cancelled' = FALSE
  /\ UNCHANGED <<status, searchVars, wheelVars, cover, seen, missed>>

-----------------------------------------------------------------------------
(* Releasing them: light off if it is seen on, then cover open. *)

OpensOrPasses ==
  IF cover[This] # "open"
    THEN AwaitsNext("cover") /\ cover' = [cover EXCEPT ![This] = "opening"]
    ELSE run' = [run EXCEPT !.left = Tail(run.left), !.await = "status"] /\ UNCHANGED cover

ReleaseReads ==
  /\ Awaiting("releasing", "status")
  /\ missed' = missed \cup (IF This \in lit \ seen THEN {This} ELSE {})
  /\ IF This \in seen THEN AwaitsNext("light") /\ UNCHANGED cover ELSE OpensOrPasses
  /\ UNCHANGED <<status, cancelled, searchVars, wheelVars, lit, seen>>

ReleaseDarkens ==
  /\ Awaiting("releasing", "light") /\ ~cancelled
  /\ lit' = lit \ {This}
  /\ OpensOrPasses
  /\ UNCHANGED <<status, cancelled, searchVars, wheelVars, seen, missed>>

ReleaseOpened ==
  /\ Awaiting("releasing", "cover") /\ ~cancelled /\ cover[This] = "open"
  /\ run' = [run EXCEPT !.left = Tail(run.left), !.await = "status"]
  /\ UNCHANGED <<status, cancelled, searchVars, wheelVars, panelVars, missed>>

\* An error is only logged, and the next panel's turn comes.
ReleaseFails ==
  /\ run.at = "releasing" /\ run.await \in {"light", "cover"}
  /\ "panel" \in Faults /\ ~cancelled
  /\ missed' = missed \cup {This}
  /\ run' = [run EXCEPT !.left = Tail(run.left), !.await = "status"]
  /\ UNCHANGED <<status, cancelled, searchVars, wheelVars, panelVars>>

\* A cancellation is no Exception: it ends the release and the run.
ReleaseCut ==
  /\ run.at = "releasing" /\ run.await \in {"light", "cover"} /\ cancelled
  /\ missed' = missed \cup {run.left[i] : i \in DOMAIN run.left}
  /\ cancelled' = FALSE
  /\ Ends("cancelled")
  /\ UNCHANGED <<cam, holder, wheelVars, panelVars>>

Released ==
  /\ run.at = "releasing" /\ run.left = <<>>
  /\ Ends(run.cause)
  /\ cancelled' = FALSE
  /\ UNCHANGED <<cam, holder, wheelVars, panelVars, missed>>

-----------------------------------------------------------------------------
(* One camera's task: the lock, the wheel, then trial exposures. *)

Solving(c, place) == run.at = "solving" /\ run.cause = "ok" /\ cam[c].at = place
Wanted(c) == Head(cam[c].todo)

\* What _select_filter() reads: a wheel on its way reports either end.
WheelReads == {wheel.at} \cup ({wheel.goal} \ {None})

\* Nothing makes the caller name the limits in order: the lower one counts.
Clamped(d) ==
  IF d < MinDuration \/ MaxDuration < MinDuration THEN MinDuration
  ELSE IF d > MaxDuration THEN MaxDuration ELSE d

\* The first trial of a filter.
Searches(c) ==
  \E level \in Levels :
    cam' = [cam EXCEPT ![c] = [@ EXCEPT !.at = "expose", !.level = level, !.verdict = "none", !.attempt = 1,
                                        !.duration = Clamped(Seed)]]

\* A filter has its result: the lock goes, and the next filter's turn comes.
Concludes(c, what) ==
  /\ solved' = IF what = "solved" THEN solved \cup {c} ELSE solved
  /\ holder' = None
  /\ LET rest == Tail(cam[c].todo) IN
     cam' = [cam EXCEPT ![c] = [Resting EXCEPT !.at = IF rest = <<>> THEN "done" ELSE "turn",
                                               !.todo = rest, !.level = cam[c].level,
                                               !.verdict = what]]

\* Seeded fault: a lock for each camera instead of one for the wheel.
LockUnshared(c) == holder # c

LockFree(c) == holder = None

Selects(c) ==
  /\ Solving(c, "turn") /\ LockFree(c)
  /\ \/ /\ Wanted(c) \in WheelReads
        /\ holder' = c
        /\ Searches(c)
        /\ UNCHANGED <<solved, wheelVars>>
     \/ /\ WheelReads # {Wanted(c)}
        /\ holder' = c
        /\ wheel' = [wheel EXCEPT !.goal = Wanted(c)] /\ faulty' = FALSE
        /\ cam' = [cam EXCEPT ![c].at = "select", ![c].verdict = "none", ![c].level = 0]
        /\ UNCHANGED solved
     \/ "wheel" \in Faults /\ Concludes(c, "error") /\ UNCHANGED wheelVars
  /\ UNCHANGED <<run, status, cancelled, panelVars, missed>>

Selected(c) ==
  /\ Solving(c, "select") /\ wheel.goal = None
  /\ Searches(c)
  /\ UNCHANGED <<run, status, cancelled, solved, holder, wheelVars, panelVars, missed>>

\* The wait for the wheel times out; the wheel goes on.
SelectTimesOut(c) ==
  /\ Solving(c, "select") /\ "wheel" \in Faults /\ wheel.goal # None
  /\ faulty' = TRUE
  /\ Concludes(c, "error")
  /\ UNCHANGED <<run, status, cancelled, wheel, panelVars, missed>>

\* Seeded fault: the limit is looked at after the duration is halved.
SaturatedNearMinimum(d) == d \div 2 <= MinDuration

SaturatedAtMinimum(d) == d <= MinDuration

\* The next trial lasts d, unless the attempts are used up or the limit has been reached again.
Retries(c, d) ==
  IF cam[c].attempt = MaxAttempts THEN Concludes(c, "exhausted")
  ELSE IF Clamped(d) = cam[c].duration THEN Concludes(c, "stuck")
  ELSE /\ cam' = [cam EXCEPT ![c].duration = Clamped(d), ![c].attempt = @ + 1]
       /\ UNCHANGED <<solved, holder>>

OnTarget(ratio) == ratio \in (Target - Tolerance)..(Target + Tolerance)

Trial(c) ==
  LET d == cam[c].duration
      ratio == cam[c].level * d
  IN /\ Solving(c, "expose")
     /\ \/ /\ ratio >= Saturation
           /\ IF SaturatedAtMinimum(d) THEN Concludes(c, "saturated") ELSE Retries(c, d \div 2)
        \/ /\ ratio < Saturation /\ OnTarget(ratio)
           /\ Concludes(c, "solved")
        \/ /\ ratio < Saturation /\ ~OnTarget(ratio)
           /\ IF ratio = 0 THEN Retries(c, d * 5) ELSE Retries(c, (d * Target) \div ratio)
        \/ "expose" \in Faults /\ Concludes(c, "error")
     /\ UNCHANGED <<run, status, cancelled, wheelVars, panelVars, missed>>

\* The TaskGroup's cancellation ends a camera's task wherever it is.
CameraCancelled(c) ==
  /\ run.at = "solving" /\ run.cause = "cancelled" /\ cam[c].at # "done"
  /\ cam' = [cam EXCEPT ![c] = Resting]
  /\ holder' = IF holder = c THEN None ELSE holder
  /\ faulty' = (faulty \/ (cam[c].at = "select" /\ wheel.goal # None))
  /\ UNCHANGED <<run, status, cancelled, solved, wheel, panelVars, missed>>

\* The group is cancelled once; while it waits for its tasks another request changes nothing.
GroupCancelled ==
  /\ run.at = "solving" /\ cancelled
  /\ run' = [run EXCEPT !.cause = "cancelled"]
  /\ cancelled' = FALSE
  /\ UNCHANGED <<status, searchVars, wheelVars, panelVars, missed>>

GroupEnds ==
  /\ run.at = "solving" /\ ~cancelled /\ \A c \in Cameras : cam[c].at = "done"
  /\ Unwinds(run.cause)
  /\ cam' = [c \in Cameras |-> Resting]
  /\ UNCHANGED <<status, cancelled, solved, holder, wheelVars, panelVars, missed>>

-----------------------------------------------------------------------------
(* The devices. *)

WheelArrives ==
  /\ wheel.goal # None
  /\ wheel' = [at |-> wheel.goal, goal |-> None]
  /\ UNCHANGED <<run, status, cancelled, searchVars, faulty, panelVars, missed>>

\* A wheel that stops short reports an alert, which the wait takes for the end of the move.
WheelFails ==
  /\ "wheel" \in Faults /\ wheel.goal # None
  /\ wheel' = [wheel EXCEPT !.goal = None] /\ faulty' = TRUE
  /\ UNCHANGED <<run, status, cancelled, searchVars, panelVars, missed>>

CoverStops(p) ==
  /\ cover[p] \in {"closing", "opening"}
  /\ cover' = [cover EXCEPT ![p] = IF @ = "closing" THEN "closed" ELSE "open"]
  /\ UNCHANGED <<run, status, cancelled, searchVars, wheelVars, lit, seen, missed>>

LightReported(p) ==
  /\ (p \in lit) # (p \in seen)
  /\ seen' = IF p \in lit THEN seen \cup {p} ELSE seen \ {p}
  /\ UNCHANGED <<run, status, cancelled, searchVars, wheelVars, cover, lit, missed>>

-----------------------------------------------------------------------------
RunNext ==
  \/ Begins \/ NeverBegins
  \/ LightReads \/ LightCovered \/ LightSent \/ LightFails
  \/ ReleaseReads \/ ReleaseDarkens \/ ReleaseOpened \/ ReleaseFails \/ ReleaseCut \/ Released
  \/ GroupCancelled \/ GroupEnds

CameraNext(c) ==
  Selects(c) \/ Selected(c) \/ SelectTimesOut(c) \/ Trial(c) \/ CameraCancelled(c)

DeviceNext ==
  WheelArrives \/ WheelFails \/ \E p \in PanelSet : CoverStops(p) \/ LightReported(p)

WizardNext == Start \/ Abort \/ RunNext \/ (\E c \in Cameras : CameraNext(c)) \/ DeviceNext

WizardSpec == WizardInit /\ [][WizardNext]_vars

-----------------------------------------------------------------------------
(* Properties. *)

\* A trial exposure for a filter is taken with the wheel on that filter and at rest, whatever the
\* other cameras on the same wheel do; a wheel whose move was given up or failed is no one's (engine.py:173).
WheelStays ==
  \A c \in Cameras :
    cam[c].at = "expose" => faulty \/ (wheel.at = Wanted(c) /\ wheel.goal = None)

\* However a run that lit its panels ends, completed, failed or aborted, they are left dark and open,
\* those excepted whose release failed, was cut short or misread the light (engine.py:133-135, 347-349).
PanelsReleased ==
  run.at = "none" =>
    \A i \in DOMAIN run.panels :
      run.panels[i] \in missed \/ (cover[run.panels[i]] = "open" /\ run.panels[i] \notin lit)

Reachable(level) == \E d \in MinDuration..MaxDuration : OnTarget(level * d)

\* The numbers a search can be relied on with.  A frame on target does not count as saturated; rounding
\* a duration down to whole units, which the code does not do, never steps over the target; and the
\* attempts suffice to halve the seed down to the minimum and to take one frame more.
TargetBelowSaturation == Target + Tolerance < Saturation
UnitsAreFine ==
  \A level \in Levels, d \in MinDuration..MaxDuration :
    level * d < Target - Tolerance => level * (d + 1) <= Target \/ level * (d + 1) > Target + Tolerance
EnoughAttempts ==
  \E halved \in [1..MaxAttempts -> MinDuration..Clamped(Seed)] :
    /\ halved[1] = Clamped(Seed)
    /\ \A i \in 1..MaxAttempts - 1 : halved[i + 1] = Clamped(halved[i] \div 2)
    /\ MaxAttempts > 1 /\ halved[MaxAttempts - 1] = MinDuration

\* A search that takes frames and gives up does so only where no duration within the limits would
\* have reached the target (engine.py:228-301).
ReachableIsSolved ==
  \A c \in Cameras :
    cam[c].verdict \in {"stuck", "saturated", "exhausted"} => ~Reachable(cam[c].level)

\* Claimed by engine.py:353 ("Never raises: it runs while another error unwinds"), and not so.
AllPanelsReleased ==
  run.at = "none" /\ "panel" \notin Faults =>
    \A i \in DOMAIN run.panels : cover[run.panels[i]] = "open" /\ run.panels[i] \notin lit

\* A run that is over says how it ended; a run aborted before its first step says it is running.
StatusTellsWizard == run.at = "none" => status # "running"
=============================================================================
