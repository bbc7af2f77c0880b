-------------------------- MODULE FlatWizardProofs --------------------------
(***************************************************************************)
(* Proofs about FlatWizard, for any cameras, filters, panels and limits.   *)
(*                                                                         *)
(* The arguments: the wheel turns only for the camera that holds its lock, *)
(* and the lock is held from the wheel's command to the filter's verdict;  *)
(* a panel of a run that unwinds is released, accounted for, or still to   *)
(* be released; and a search halves its duration, takes the one closest to *)
(* the target, or is in vain.                                              *)
(***************************************************************************)
EXTENDS FlatWizard, TLAPS

-----------------------------------------------------------------------------
(* The wheel *)

Turning(c) == cam[c].at \in {"select", "expose"}

WheelType ==
  /\ wheel \in [at : Filters, goal : Filters \cup {None}]
  /\ holder \in Cameras \cup {None}
  /\ DOMAIN cam = Cameras
  /\ \A c \in Cameras : cam[c].todo \in Seq(Filters) /\ (cam[c].at # "done" => cam[c].todo # <<>>)

\* The lock is held by the camera that turns the wheel or exposes, and a free wheel is at rest.
LockInv ==
  /\ \A c \in Cameras : Turning(c) => holder = c
  /\ \A c \in Cameras : holder = c => Turning(c)
  /\ holder = None => faulty \/ wheel.goal = None
  /\ run.at # "solving" => \A c \in Cameras : ~Turning(c)

\* A wheel on its way goes where the camera that holds it wants.
TurnInv ==
  \A c \in Cameras : Turning(c) =>
    \/ faulty
    \/ wheel.goal = None /\ wheel.at = Wanted(c)
    \/ wheel.goal = Wanted(c) /\ cam[c].at = "select"

WheelInv == WheelType /\ LockInv /\ TurnInv

LEMMA RestingCamera == Resting.at = "done" /\ Resting.todo \in Seq(Filters)
  BY DEF Resting

LEMMA InitWheel == WizardInit => WheelInv
<1> SUFFICES ASSUME WizardInit PROVE WheelInv
  OBVIOUS
<1>1. \A c \in Cameras : cam[c].at = "done"
  BY DEF WizardInit, Resting
<1>2. wheel.goal = None /\ holder = None /\ wheel \in [at : Filters, goal : Filters \cup {None}]
  BY DEF WizardInit
<1>3. DOMAIN cam = Cameras /\ \A c \in Cameras : cam[c].todo \in Seq(Filters)
  <2>1. cam = [c \in Cameras |-> Resting]
    BY DEF WizardInit
  <2> QED
    BY <2>1, RestingCamera
<1> QED
  BY <1>1, <1>2, <1>3, WizardAssumption DEF WheelInv, WheelType, LockInv, TurnInv, Turning

LEMMA WheelStutter ==
  ASSUME WheelInv, UNCHANGED <<cam, holder, wheelVars>>,
         run'.at # "solving" => run.at # "solving"
  PROVE  WheelInv'
  BY DEF WheelInv, WheelType, LockInv, TurnInv, Turning, Wanted, wheelVars

\* What is left of a plan.
TodoOK(c) == cam[c].todo \in Seq(Filters) /\ (cam[c].at # "done" => cam[c].todo # <<>>)

\* Nobody turns the wheel when every camera has finished or has yet to begin.
LEMMA NobodyTurns ==
  ASSUME WheelInv, DOMAIN cam' = Cameras, \A c \in Cameras : ~Turning(c) /\ ~Turning(c)' /\ TodoOK(c)',
         UNCHANGED <<holder, wheelVars>>
  PROVE  WheelInv'
  BY WizardAssumption DEF WheelInv, WheelType, LockInv, TurnInv, TodoOK, wheelVars

\* Camera c, which has the lock or takes it, turns on; the others keep away from the wheel.
LEMMA TurnsOn ==
  ASSUME WheelInv, NEW c \in Cameras, holder \in {c, None}, holder' = c,
         DOMAIN cam' = Cameras, \A d \in Cameras : d # c => cam'[d] = cam[d],
         Turning(c)', TodoOK(c)', run.at = "solving", run' = run,
         wheel' \in [at : Filters, goal : Filters \cup {None}],
         \/ faulty'
         \/ wheel'.goal = None /\ wheel'.at = Wanted(c)'
         \/ wheel'.goal = Wanted(c)' /\ cam'[c].at = "select"
  PROVE  WheelInv'
<1>1. \A d \in Cameras : d # c => ~Turning(d) /\ ~Turning(d)'
  BY WizardAssumption DEF WheelInv, LockInv, Turning
<1> QED
  BY <1>1, WizardAssumption DEF WheelInv, WheelType, LockInv, TurnInv, TodoOK

\* Camera c gives the lock back, or is refused the wheel: the wheel is at rest, or no one's.
LEMMA TurnsOff ==
  ASSUME WheelInv, NEW c \in Cameras, holder \in {c, None}, holder' = None,
         DOMAIN cam' = Cameras, \A d \in Cameras : d # c => cam'[d] = cam[d],
         ~Turning(c)', TodoOK(c)', run.at = "solving", run'.at = "solving", UNCHANGED wheel,
         faulty' \/ wheel.goal = None
  PROVE  WheelInv'
<1>1. \A d \in Cameras : d # c => ~Turning(d) /\ ~Turning(d)'
  BY WizardAssumption DEF WheelInv, LockInv, Turning
<1> QED
  BY <1>1, WizardAssumption DEF WheelInv, WheelType, LockInv, TurnInv, TodoOK

\* What the operators of a search do to the camera's place.
LEMMA SearchesDoes ==
  ASSUME DOMAIN cam = Cameras, NEW c \in Cameras, Searches(c)
  PROVE  /\ DOMAIN cam' = Cameras
         /\ \A d \in Cameras : d # c => cam'[d] = cam[d]
         /\ cam'[c].at = "expose" /\ cam'[c].todo = cam[c].todo
<1>1. PICK level \in Levels :
        cam' = [cam EXCEPT ![c] = [@ EXCEPT !.at = "expose", !.level = level, !.verdict = "none", !.attempt = 1,
                                            !.duration = Clamped(Seed)]]
  BY DEF Searches
<1> QED
  BY <1>1

LEMMA ConcludesDoes ==
  ASSUME DOMAIN cam = Cameras, NEW c \in Cameras, NEW what, Concludes(c, what),
         TodoOK(c), cam[c].todo # <<>>
  PROVE  /\ DOMAIN cam' = Cameras
         /\ \A d \in Cameras : d # c => cam'[d] = cam[d]
         /\ ~Turning(c)' /\ holder' = None /\ TodoOK(c)'
<1>1. cam' = [cam EXCEPT ![c] = [Resting EXCEPT !.at = IF Tail(cam[c].todo) = <<>> THEN "done" ELSE "turn",
                                                !.todo = Tail(cam[c].todo), !.level = cam[c].level,
                                                !.verdict = what]]
  BY DEF Concludes
<1>2. cam'[c].at \in {"done", "turn"}
  BY <1>1 DEF Resting
<1>3. TodoOK(c)'
  BY <1>1 DEF Resting, TodoOK
<1> QED
  BY <1>1, <1>2, <1>3 DEF Concludes, Turning

LEMMA RetriesDoes ==
  ASSUME DOMAIN cam = Cameras, NEW c \in Cameras, cam[c].at = "expose", holder = c, TodoOK(c), NEW d, Retries(c, d)
  PROVE  /\ DOMAIN cam' = Cameras
         /\ \A e \in Cameras : e # c => cam'[e] = cam[e]
         /\ \/ ~Turning(c)' /\ holder' = None /\ TodoOK(c)'
            \/ cam'[c].at = "expose" /\ cam'[c].todo = cam[c].todo /\ holder' = c
<1>1. CASE \E what : Concludes(c, what)
  BY <1>1, ConcludesDoes DEF TodoOK
<1>2. CASE /\ cam' = [cam EXCEPT ![c].duration = Clamped(d), ![c].attempt = @ + 1]
           /\ UNCHANGED <<solved, holder>>
  BY <1>2
<1> QED
  BY <1>1, <1>2 DEF Retries

LEMMA CameraWheel ==
  ASSUME WheelInv, NEW c \in Cameras, CameraNext(c)
  PROVE  WheelInv'
<1>0. DOMAIN cam = Cameras /\ None \notin Cameras \cup Filters /\ TodoOK(c)
  BY WizardAssumption DEF WheelInv, WheelType, TodoOK
<1>a. Turning(c) => holder = c
  BY DEF WheelInv, LockInv
<1>b. cam[c].at # "done" => Wanted(c) \in Filters /\ cam[c].todo # <<>>
  BY <1>0 DEF TodoOK, Wanted
<1>c. wheel \in [at : Filters, goal : Filters \cup {None}]
  BY DEF WheelInv, WheelType
<1>1. CASE Selects(c)
  <2>1. run.at = "solving" /\ run' = run /\ holder = None /\ cam[c].at = "turn"
    BY <1>1 DEF Selects, Solving, LockFree
  <2>2. faulty \/ wheel.goal = None
    BY <2>1 DEF WheelInv, LockInv
  <2>3. CASE Wanted(c) \in WheelReads /\ holder' = c /\ Searches(c) /\ UNCHANGED <<solved, wheelVars>>
    <3>1. faulty \/ (wheel.goal = None /\ wheel.at = Wanted(c))
      BY <2>2, <2>3 DEF WheelReads
    <3>2. Turning(c)' /\ TodoOK(c)' /\ Wanted(c)' = Wanted(c)
      BY <1>0, <1>b, <2>1, <2>3, SearchesDoes DEF Turning, TodoOK, Wanted
    <3> QED
      BY <1>0, <1>c, <2>1, <2>3, <3>1, <3>2, SearchesDoes, TurnsOn DEF wheelVars
  <2>4. CASE /\ WheelReads # {Wanted(c)} /\ holder' = c
             /\ wheel' = [wheel EXCEPT !.goal = Wanted(c)] /\ faulty' = FALSE
             /\ cam' = [cam EXCEPT ![c].at = "select", ![c].verdict = "none", ![c].level = 0]
    <3>1. wheel' \in [at : Filters, goal : Filters \cup {None}] /\ wheel'.goal = Wanted(c)
      BY <1>b, <1>c, <2>1, <2>4
    <3>2. DOMAIN cam' = Cameras /\ \A d \in Cameras : d # c => cam'[d] = cam[d]
      BY <1>0, <2>4
    <3>3. cam'[c].at = "select" /\ cam'[c].todo = cam[c].todo
      BY <1>0, <2>4
    <3>4. Turning(c)' /\ TodoOK(c)' /\ Wanted(c)' = Wanted(c)
      BY <1>0, <1>b, <2>1, <3>3 DEF Turning, TodoOK, Wanted
    <3> QED
      BY <2>1, <2>4, <3>1, <3>2, <3>3, <3>4, TurnsOn
  <2>5. CASE Concludes(c, "error") /\ UNCHANGED wheelVars
    BY <1>0, <1>b, <2>1, <2>2, <2>5, ConcludesDoes, TurnsOff DEF wheelVars
  <2> QED
    BY <1>1, <2>3, <2>4, <2>5 DEF Selects
<1>2. CASE Selected(c)
  <2>1. run.at = "solving" /\ run' = run /\ cam[c].at = "select" /\ holder = c /\ wheel.goal = None
        /\ Searches(c) /\ UNCHANGED <<holder, wheelVars>>
    BY <1>2, <1>a DEF Selected, Solving, Turning
  <2>2. faulty \/ wheel.at = Wanted(c)
    BY <1>0, <1>b, <2>1 DEF WheelInv, TurnInv, Turning
  <2>3. Turning(c)' /\ TodoOK(c)' /\ Wanted(c)' = Wanted(c)
    BY <1>0, <1>b, <2>1, SearchesDoes DEF Turning, TodoOK, Wanted
  <2> QED
    BY <1>0, <1>c, <2>1, <2>2, <2>3, SearchesDoes, TurnsOn DEF wheelVars
<1>3. CASE SelectTimesOut(c)
  <2>1. run.at = "solving" /\ run' = run /\ cam[c].at = "select" /\ holder = c /\ faulty'
        /\ Concludes(c, "error") /\ UNCHANGED wheel
    BY <1>3, <1>a DEF SelectTimesOut, Solving, Turning
  <2> QED
    BY <1>0, <1>b, <2>1, ConcludesDoes, TurnsOff
<1>4. CASE Trial(c)
  <2>1. run.at = "solving" /\ run' = run /\ cam[c].at = "expose" /\ holder = c /\ UNCHANGED wheelVars
    BY <1>4, <1>a DEF Trial, Solving, Turning
  <2>2. faulty \/ (wheel.goal = None /\ wheel.at = Wanted(c))
    BY <2>1 DEF WheelInv, TurnInv, Turning
  <2>3. (\E what : Concludes(c, what)) \/ (\E d : Retries(c, d))
    BY <1>4 DEF Trial
  <2>4. CASE \E what : Concludes(c, what)
    BY <1>0, <1>b, <2>1, <2>2, <2>4, ConcludesDoes, TurnsOff DEF wheelVars
  <2>5. ASSUME NEW d, Retries(c, d) PROVE WheelInv'
    <3>1. DOMAIN cam' = Cameras /\ \A e \in Cameras : e # c => cam'[e] = cam[e]
      BY <1>0, <2>1, <2>5, RetriesDoes
    <3>2. CASE ~Turning(c)' /\ holder' = None /\ TodoOK(c)'
      BY <2>1, <2>2, <3>1, <3>2, TurnsOff DEF wheelVars
    <3>3. CASE cam'[c].at = "expose" /\ cam'[c].todo = cam[c].todo /\ holder' = c
      <4>1. Turning(c)' /\ TodoOK(c)' /\ Wanted(c)' = Wanted(c)
        BY <1>0, <1>b, <2>1, <3>3 DEF Turning, TodoOK, Wanted
      <4> QED
        BY <1>c, <2>1, <2>2, <3>1, <3>3, <4>1, TurnsOn DEF wheelVars
    <3> QED
      BY <1>0, <2>1, <2>5, <3>2, <3>3, RetriesDoes
  <2> QED
    BY <2>3, <2>4, <2>5
<1>5. CASE CameraCancelled(c)
  <2>1. run.at = "solving" /\ run' = run /\ cam' = [cam EXCEPT ![c] = Resting] /\ UNCHANGED wheel
        /\ holder' = (IF holder = c THEN None ELSE holder)
        /\ faulty' = (faulty \/ (cam[c].at = "select" /\ wheel.goal # None))
    BY <1>5 DEF CameraCancelled
  <2>2. DOMAIN cam' = Cameras /\ (\A d \in Cameras : d # c => cam'[d] = cam[d]) /\ cam'[c] = Resting
    BY <1>0, <2>1
  <2>3. ~Turning(c)' /\ TodoOK(c)'
    BY <2>2 DEF Turning, TodoOK, Resting
  <2>4. CASE holder = c
    <3>1. faulty' \/ wheel.goal = None
      BY <2>1, <2>4 DEF WheelInv, LockInv, TurnInv, Turning
    <3> QED
      BY <2>1, <2>2, <2>3, <2>4, <3>1, TurnsOff
  <2>5. CASE holder # c
    <3>1. ~Turning(c)
      BY <1>a, <2>5
    <3>2. (faulty' <=> faulty) /\ holder' = holder
      BY <2>1, <2>5, <3>1 DEF Turning, WheelInv, WheelType
    <3>3. WheelType'
      BY <2>1, <2>2, <2>3, <3>2 DEF WheelInv, WheelType, TodoOK
    <3>4. LockInv'
      BY <2>1, <2>2, <2>3, <2>5, <3>2 DEF WheelInv, LockInv, Turning
    <3>5. TurnInv'
      BY <2>1, <2>2, <2>3, <3>2 DEF WheelInv, TurnInv, Turning, Wanted
    <3> QED
      BY <3>3, <3>4, <3>5 DEF WheelInv
  <2> QED
    BY <2>4, <2>5
<1> QED
  BY <1>1, <1>2, <1>3, <1>4, <1>5 DEF CameraNext
LEMMA RunWheel ==
  ASSUME WheelInv, RunNext
  PROVE  WheelInv'
<1>0. DOMAIN cam = Cameras
  BY DEF WheelInv, WheelType
<1>1. ASSUME run.at # "solving", Solves, UNCHANGED <<holder, wheelVars>> PROVE WheelInv'
  <2>1. PICK plan \in [Cameras -> Plans] :
          cam' = [c \in Cameras |-> [Resting EXCEPT !.at = "turn", !.todo = plan[c]]]
    BY <1>1 DEF Solves
  <2>2. \A c \in Cameras : cam'[c].at = "turn" /\ cam'[c].todo = plan[c]
    BY <2>1 DEF Resting
  <2>3. \A c \in Cameras : ~Turning(c) /\ ~Turning(c)' /\ TodoOK(c)'
    BY <1>1, <2>2, WizardAssumption DEF WheelInv, LockInv, Turning, TodoOK
  <2> QED
    BY <1>1, <2>1, <2>3, NobodyTurns
<1>2. CASE Begins
  <2>1. run.at # "solving" /\ UNCHANGED <<holder, wheelVars>>
    BY <1>2 DEF Begins
  <2> QED
    BY <1>1, <1>2, <2>1, WheelStutter DEF Begins
<1>3. CASE LightSent
  <2>1. run.at # "solving" /\ UNCHANGED <<holder, wheelVars>>
    BY <1>3 DEF LightSent, Awaiting
  <2> QED
    BY <1>1, <1>3, <2>1, WheelStutter DEF LightSent
<1>4. CASE GroupEnds
  <2>1. run.at = "solving" /\ cam' = [c \in Cameras |-> Resting] /\ UNCHANGED <<holder, wheelVars>>
        /\ \A c \in Cameras : cam[c].at = "done"
    BY <1>4 DEF GroupEnds
  <2>2. \A c \in Cameras : cam'[c] = Resting
    BY <2>1
  <2>3. \A c \in Cameras : ~Turning(c) /\ ~Turning(c)' /\ TodoOK(c)'
    BY <2>1, <2>2, RestingCamera DEF Turning, TodoOK
  <2> QED
    BY <2>1, <2>3, NobodyTurns
<1>5. CASE GroupCancelled
  <2>1. run'.at # "solving" => run.at # "solving"
    BY <1>5 DEF GroupCancelled
  <2>2. LockInv'
    BY <1>5 DEF GroupCancelled, WheelInv, LockInv, Turning, searchVars, wheelVars
  <2> QED
    BY <1>5, <2>2 DEF GroupCancelled, WheelInv, WheelType, TurnInv, Turning, Wanted, searchVars, wheelVars
<1>6. CASE NeverBegins \/ LightReads \/ LightCovered \/ LightFails \/ ReleaseReads \/ ReleaseDarkens
           \/ ReleaseOpened \/ ReleaseFails \/ ReleaseCut \/ Released
  <2>1. UNCHANGED <<cam, holder, wheelVars>> /\ run.at # "solving"
    BY <1>6 DEF NeverBegins, LightReads, LightCovered, LightFails, ReleaseReads, ReleaseDarkens, ReleaseOpened,
         ReleaseFails, ReleaseCut, Released, Awaiting, searchVars
  <2> QED
    BY <2>1, WheelStutter
<1> QED
  BY <1>2, <1>3, <1>4, <1>5, <1>6 DEF RunNext

LEMMA DeviceWheel ==
  ASSUME WheelInv, DeviceNext
  PROVE  WheelInv'
<1>1. CASE WheelArrives
  <2>1. wheel.goal \in Filters /\ wheel' = [at |-> wheel.goal, goal |-> None]
        /\ UNCHANGED <<run, cam, holder, faulty>>
    BY <1>1 DEF WheelArrives, WheelInv, WheelType, searchVars
  <2>2. wheel'.at = wheel.goal /\ wheel'.goal = None /\ wheel' \in [at : Filters, goal : Filters \cup {None}]
    BY <2>1
  <2>3. wheel.goal # None
    BY <1>1 DEF WheelArrives
  <2> QED
    BY <2>1, <2>2, <2>3 DEF WheelInv, WheelType, LockInv, TurnInv, Turning, Wanted
<1>2. CASE WheelFails
  <2>1. wheel' = [wheel EXCEPT !.goal = None] /\ faulty' /\ UNCHANGED <<run, cam, holder>>
    BY <1>2 DEF WheelFails, searchVars
  <2>2. wheel' \in [at : Filters, goal : Filters \cup {None}]
    BY <2>1 DEF WheelInv, WheelType
  <2> QED
    BY <2>1, <2>2 DEF WheelInv, WheelType, LockInv, TurnInv, Turning
<1>3. ASSUME NEW p, CoverStops(p) \/ LightReported(p) PROVE WheelInv'
  BY <1>3, WheelStutter DEF CoverStops, LightReported, searchVars
<1> QED
  BY <1>1, <1>2, <1>3 DEF DeviceNext

(* A trial exposure is taken with the wheel at rest on its filter, whatever the other cameras
   on the wheel do, unless the wheel's last move was given up or failed: for any cameras and
   plans (engine.py, the lock around _solve_filter). *)
THEOREM WheelHeldStill == WizardSpec => []WheelStays
<1>1. WheelInv /\ [WizardNext]_vars => WheelInv'
  <2> SUFFICES ASSUME WheelInv, [WizardNext]_vars PROVE WheelInv'
    OBVIOUS
  <2>1. CASE Start \/ Abort
    <3>1. UNCHANGED <<cam, holder, wheelVars>> /\ (run'.at # "solving" => run.at # "solving")
      BY <2>1 DEF Start, Abort, searchVars
    <3> QED
      BY <3>1, WheelStutter
  <2>2. CASE UNCHANGED vars
    BY <2>2, WheelStutter DEF vars, searchVars
  <2> QED
    BY <2>1, <2>2, RunWheel, CameraWheel, DeviceWheel DEF WizardNext
<1>2. WheelInv => WheelStays
  BY WizardAssumption DEF WheelInv, WheelType, TurnInv, Turning, WheelStays
<1> QED
  BY <1>1, <1>2, InitWheel, PTL DEF WizardSpec

-----------------------------------------------------------------------------
(* The panels *)

Out(p) == cover[p] = "open" /\ p \notin lit
InSeq(s) == {s[i] : i \in DOMAIN s}

PanelType ==
  /\ run.panels \in Seq(PanelSet) /\ run.left \in Seq(PanelSet)
  /\ DOMAIN cover = PanelSet

\* While a run unwinds, each of its panels is released, accounted for or still to come.
ReleaseInv ==
  /\ run.at = "none" => \A p \in InSeq(run.panels) : p \in missed \/ Out(p)
  /\ run.at = "releasing" => \A p \in InSeq(run.panels) : p \in missed \/ Out(p) \/ p \in InSeq(run.left)
  /\ run.at = "releasing" /\ run.await = "cover" => This \in missed \/ This \notin lit
  /\ run.at = "releasing" /\ run.await # "status" => run.left # <<>>
  /\ run.at = "created" => run.panels = <<>>

PanelInv == PanelType /\ ReleaseInv

\* A sequence is its head and its tail.
LEMMA HeadTail ==
  ASSUME NEW S, NEW s \in Seq(S), s # <<>>
  PROVE  /\ Head(s) \in S /\ Tail(s) \in Seq(S)
         /\ InSeq(s) \subseteq {Head(s)} \cup InSeq(Tail(s))
<1>1. Len(s) \in Nat \ {0} /\ Tail(s) \in Seq(S) /\ Head(s) = s[1] /\ Head(s) \in S
  OBVIOUS
<1>2. ASSUME NEW i \in DOMAIN s, i # 1 PROVE s[i] \in InSeq(Tail(s))
  <2>1. i - 1 \in 1..Len(Tail(s)) /\ Tail(s)[i - 1] = s[i]
    BY <1>1, <1>2
  <2> QED
    BY <2>1 DEF InSeq
<1> QED
  BY <1>1, <1>2 DEF InSeq

\* The panels of the run are untouched when it begins to solve.
LEMMA SolvesRun ==
  ASSUME Solves
  PROVE  run'.at = "solving" /\ run'.panels = run.panels /\ run'.left = run.left
<1>1. run' = [run EXCEPT !.at = "solving", !.await = "none"]
  BY DEF Solves
<1> QED
  BY <1>1

LEMMA InitPanels == WizardInit => PanelInv
<1> SUFFICES ASSUME WizardInit PROVE PanelInv
  OBVIOUS
<1>1. run.at = "none" /\ run.panels = <<>> /\ run.left = <<>> /\ DOMAIN cover = PanelSet
  BY DEF WizardInit, Idle
<1> QED
  BY <1>1 DEF PanelInv, PanelType, ReleaseInv, InSeq

\* The panels themselves: a cover that stops and a light that is reported.
LEMMA PanelStep ==
  ASSUME PanelInv, UNCHANGED <<run, lit, missed>>, DOMAIN cover' = PanelSet,
         \A p \in PanelSet : cover[p] = "open" => cover'[p] = "open"
  PROVE  PanelInv'
<1>1. \A p \in PanelSet : Out(p) => Out(p)'
  BY DEF Out
<1>2. InSeq(run.panels) \subseteq PanelSet
  BY DEF InSeq, PanelInv, PanelType
<1>3. run' = run /\ lit' = lit /\ missed' = missed
  OBVIOUS
<1> QED
  BY <1>1, <1>2, <1>3 DEF PanelInv, PanelType, ReleaseInv, This

\* A run that neither unwinds nor is over owes its panels nothing yet.
LEMMA Underway ==
  ASSUME PanelInv, run'.at \in {"created", "lighting", "solving"}, DOMAIN cover' = PanelSet,
         run'.panels \in Seq(PanelSet), run'.left \in Seq(PanelSet),
         run'.at = "created" => run'.panels = <<>>
  PROVE  PanelInv'
  BY DEF PanelInv, PanelType, ReleaseInv

\* The release begins with every panel of the run.
LEMMA UnwindStep ==
  ASSUME PanelInv, NEW cause, Unwinds(cause), DOMAIN cover' = PanelSet
  PROVE  PanelInv'
<1>1. run'.at = "releasing" /\ run'.left = run.panels /\ run'.panels = run.panels /\ run'.await = "status"
  BY DEF Unwinds
<1> QED
  BY <1>1 DEF PanelInv, PanelType, ReleaseInv, InSeq

\* The first panel left is done with: released, or accounted for.
LEMMA DropsFirst ==
  ASSUME PanelInv, run.at = "releasing", run.left # <<>>,
         run' = [run EXCEPT !.left = Tail(run.left), !.await = "status"],
         This \in missed' \/ (cover'[This] = "open" /\ This \notin lit'),
         missed \subseteq missed', \A p \in PanelSet : Out(p) => Out(p)', DOMAIN cover' = PanelSet
  PROVE  PanelInv'
<1>1. /\ run'.left = Tail(run.left) /\ run'.panels = run.panels /\ run'.await = "status" /\ run'.at = "releasing"
  OBVIOUS
<1>2. Tail(run.left) \in Seq(PanelSet) /\ InSeq(run.left) \subseteq {This} \cup InSeq(Tail(run.left))
  BY HeadTail DEF PanelInv, PanelType, This
<1>3. InSeq(run.panels) \subseteq PanelSet
  BY DEF InSeq, PanelInv, PanelType
<1>4. ASSUME NEW p \in InSeq(run.panels) PROVE p \in missed' \/ Out(p)' \/ p \in InSeq(run'.left)
  <2>1. p = This => p \in missed' \/ Out(p)'
    BY DEF Out
  <2> QED
    BY <1>1, <1>2, <1>3, <2>1 DEF PanelInv, ReleaseInv
<1> QED
  BY <1>1, <1>2, <1>4 DEF PanelInv, PanelType, ReleaseInv

\* Something about the first panel left is awaited; a cover only with the light out.
LEMMA AwaitsFirst ==
  ASSUME PanelInv, run.at = "releasing", run.left # <<>>, NEW what, AwaitsNext(what),
         what = "cover" => This \in missed' \/ This \notin lit',
         missed \subseteq missed', \A p \in PanelSet : Out(p) => Out(p)', DOMAIN cover' = PanelSet
  PROVE  PanelInv'
<1>1. /\ run'.left = run.left /\ run'.panels = run.panels /\ run'.await = what /\ run'.at = "releasing"
  BY DEF AwaitsNext
<1>2. InSeq(run.panels) \subseteq PanelSet
  BY DEF InSeq, PanelInv, PanelType
<1> QED
  BY <1>1, <1>2 DEF PanelInv, PanelType, ReleaseInv, This

\* A dark panel is opened, or is open already.
LEMMA OpensFirst ==
  ASSUME PanelInv, run.at = "releasing", run.left # <<>>, OpensOrPasses,
         This \in missed' \/ This \notin lit', missed \subseteq missed', lit' \subseteq lit
  PROVE  PanelInv'
<1>1. \A p \in PanelSet : Out(p) => Out(p)'
  BY DEF OpensOrPasses, Out, PanelInv, PanelType
<1>2. DOMAIN cover' = PanelSet
  BY DEF OpensOrPasses, PanelInv, PanelType
<1>3. CASE cover[This] # "open"
  BY <1>1, <1>2, <1>3, AwaitsFirst DEF OpensOrPasses
<1>4. CASE cover[This] = "open"
  <2>1. This \in missed' \/ (cover'[This] = "open" /\ This \notin lit')
    BY <1>4 DEF OpensOrPasses, Out
  <2> QED
    BY <1>1, <1>2, <1>4, <2>1, DropsFirst DEF OpensOrPasses
<1> QED
  BY <1>3, <1>4

\* The run is over: nothing is still to come.
LEMMA EndsStep ==
  ASSUME PanelInv, NEW cause, Ends(cause), UNCHANGED panelVars,
         \A p \in InSeq(run.panels) : p \in missed' \/ Out(p)
  PROVE  PanelInv'
<1>1. run'.at = "none" /\ run'.panels = run.panels /\ run'.left = <<>>
  BY DEF Ends, Idle
<1>2. \A p : Out(p)' = Out(p)
  BY DEF Out, panelVars
<1> QED
  BY <1>1, <1>2 DEF PanelInv, PanelType, ReleaseInv, panelVars

LEMMA ReleasePanels ==
  ASSUME PanelInv,
         ReleaseReads \/ ReleaseDarkens \/ ReleaseOpened \/ ReleaseFails \/ ReleaseCut \/ Released
  PROVE  PanelInv'
<1>1. CASE ReleaseReads
  <2>1. run.at = "releasing" /\ run.left # <<>> /\ missed \subseteq missed' /\ lit' = lit
    BY <1>1 DEF ReleaseReads, Awaiting
  <2>2. CASE This \in seen
    <3>1. AwaitsNext("light") /\ cover' = cover
      BY <1>1, <2>2 DEF ReleaseReads
    <3>2. DOMAIN cover' = PanelSet /\ \A p \in PanelSet : Out(p) => Out(p)'
      BY <2>1, <3>1 DEF Out, PanelInv, PanelType
    <3> QED
      BY <2>1, <3>1, <3>2, AwaitsFirst
  <2>3. CASE This \notin seen
    <3>1. OpensOrPasses /\ (This \in missed' \/ This \notin lit')
      BY <1>1, <2>3 DEF ReleaseReads
    <3> QED
      BY <2>1, <3>1, OpensFirst
  <2> QED
    BY <2>2, <2>3
<1>2. CASE ReleaseDarkens
  <2>1. run.at = "releasing" /\ run.left # <<>> /\ missed' = missed /\ lit' = lit \ {This} /\ OpensOrPasses
    BY <1>2 DEF ReleaseDarkens, Awaiting
  <2> QED
    BY <2>1, OpensFirst
<1>3. CASE ReleaseOpened
  <2>1. run.at = "releasing" /\ run.left # <<>> /\ UNCHANGED <<panelVars, missed>> /\ cover[This] = "open"
        /\ run' = [run EXCEPT !.left = Tail(run.left), !.await = "status"] /\ run.await = "cover"
    BY <1>3 DEF ReleaseOpened, Awaiting
  <2>2. This \in missed' \/ (cover'[This] = "open" /\ This \notin lit')
    BY <2>1 DEF PanelInv, ReleaseInv, Out, panelVars
  <2>3. DOMAIN cover' = PanelSet /\ (\A p \in PanelSet : Out(p) => Out(p)') /\ missed \subseteq missed'
    BY <2>1 DEF Out, PanelInv, PanelType, panelVars
  <2> QED
    BY <2>1, <2>2, <2>3, DropsFirst
<1>4. CASE ReleaseFails
  <2>1. run.at = "releasing" /\ UNCHANGED panelVars /\ missed' = missed \cup {This}
        /\ run' = [run EXCEPT !.left = Tail(run.left), !.await = "status"]
    BY <1>4 DEF ReleaseFails
  <2>2. DOMAIN cover' = PanelSet /\ (\A p \in PanelSet : Out(p) => Out(p)') /\ missed \subseteq missed'
    BY <2>1 DEF Out, PanelInv, PanelType, panelVars
  <2>3. run.left # <<>>
    BY <1>4 DEF ReleaseFails, PanelInv, ReleaseInv
  <2> QED
    BY <1>4, <2>1, <2>2, <2>3, DropsFirst
<1>5. CASE ReleaseCut
  <2>1. run.at = "releasing" /\ UNCHANGED panelVars /\ missed' = missed \cup InSeq(run.left) /\ Ends("cancelled")
    BY <1>5 DEF ReleaseCut, InSeq
  <2>2. \A p \in InSeq(run.panels) : p \in missed' \/ Out(p)
    BY <2>1 DEF PanelInv, ReleaseInv
  <2> QED
    BY <2>1, <2>2, EndsStep
<1>6. CASE Released
  <2>1. run.at = "releasing" /\ run.left = <<>> /\ Ends(run.cause) /\ UNCHANGED <<panelVars, missed>>
    BY <1>6 DEF Released
  <2>2. InSeq(run.left) = {}
    BY <2>1 DEF InSeq
  <2>3. \A p \in InSeq(run.panels) : p \in missed' \/ Out(p)
    BY <2>1, <2>2 DEF PanelInv, ReleaseInv
  <2> QED
    BY <2>1, <2>3, EndsStep
<1> QED
  BY <1>1, <1>2, <1>3, <1>4, <1>5, <1>6

LEMMA RunPanels ==
  ASSUME PanelInv, RunNext
  PROVE  PanelInv'
<1>0. Panels \in Seq(PanelSet) /\ <<>> \in Seq(PanelSet)
  BY WizardAssumption DEF PanelSet
<1>1. CASE Begins
  <2>1. run.at = "created" /\ run.panels = <<>> /\ UNCHANGED <<panelVars, missed>> /\ DOMAIN cover' = PanelSet
    BY <1>1 DEF Begins, PanelInv, PanelType, ReleaseInv, panelVars
  <2>2. CASE Solves
    <3>1. run'.at = "solving" /\ run'.panels = run.panels /\ run'.left = run.left
      BY <2>2, SolvesRun
    <3> QED
      BY <2>1, <3>1, Underway DEF PanelInv, PanelType
  <2>3. CASE run' = [run EXCEPT !.at = "lighting", !.panels = Panels, !.left = Panels, !.await = "status"]
    <3>1. run'.at = "lighting" /\ run'.panels = Panels /\ run'.left = Panels
      BY <2>3
    <3> QED
      BY <1>0, <2>1, <3>1, Underway
  <2>4. CASE Ends("error")
    <3>1. InSeq(run.panels) = {}
      BY <2>1 DEF InSeq
    <3> QED
      BY <2>1, <2>4, <3>1, EndsStep
  <2> QED
    BY <1>1, <2>2, <2>3, <2>4 DEF Begins
<1>2. CASE NeverBegins
  <2>1. run'.at = "none" /\ run'.panels = <<>> /\ run'.left = <<>> /\ cover' = cover
    BY <1>2 DEF NeverBegins, Idle, panelVars
  <2>2. InSeq(run'.panels) = {}
    BY <2>1 DEF InSeq
  <2> QED
    BY <1>0, <2>1, <2>2 DEF PanelInv, PanelType, ReleaseInv
<1>3. CASE LightReads \/ LightCovered
  <2>1. run.at = "lighting" /\ DOMAIN cover' = PanelSet
    BY <1>3 DEF LightReads, LightCovered, Awaiting, PanelInv, PanelType, panelVars
  <2>2. PICK what \in {"light", "cover"} : run' = [run EXCEPT !.await = what]
    BY <1>3 DEF LightReads, LightCovered, AwaitsNext
  <2>3. run'.at = "lighting" /\ run'.panels = run.panels /\ run'.left = run.left
    BY <2>1, <2>2
  <2> QED
    BY <2>1, <2>3, Underway DEF PanelInv, PanelType
<1>4. CASE LightSent
  <2>1. run.at = "lighting" /\ run.left # <<>> /\ DOMAIN cover' = PanelSet
    BY <1>4 DEF LightSent, Awaiting, PanelInv, PanelType
  <2>2. CASE Solves
    <3>1. run'.at = "solving" /\ run'.panels = run.panels /\ run'.left = run.left
      BY <2>2, SolvesRun
    <3> QED
      BY <2>1, <3>1, Underway DEF PanelInv, PanelType
  <2>3. CASE run' = [run EXCEPT !.left = Tail(run.left), !.await = "status"]
    <3>1. run'.at = "lighting" /\ run'.panels = run.panels /\ run'.left = Tail(run.left)
      BY <2>1, <2>3
    <3>2. Tail(run.left) \in Seq(PanelSet)
      BY <2>1, HeadTail DEF PanelInv, PanelType
    <3> QED
      BY <2>1, <3>1, <3>2, Underway DEF PanelInv, PanelType
  <2> QED
    BY <1>4, <2>2, <2>3 DEF LightSent
<1>5. CASE LightFails
  <2>1. DOMAIN cover' = PanelSet
    BY <1>5 DEF LightFails, PanelInv, PanelType
  <2> QED
    BY <1>5, <2>1, UnwindStep DEF LightFails
<1>6. CASE GroupCancelled
  <2>1. run'.at = "solving" /\ run'.panels = run.panels /\ run'.left = run.left /\ cover' = cover
    BY <1>6 DEF GroupCancelled, panelVars
  <2> QED
    BY <2>1, Underway DEF PanelInv, PanelType
<1>7. CASE GroupEnds
  <2>1. DOMAIN cover' = PanelSet
    BY <1>7 DEF GroupEnds, PanelInv, PanelType, panelVars
  <2> QED
    BY <1>7, <2>1, UnwindStep DEF GroupEnds
<1> QED
  BY <1>1, <1>2, <1>3, <1>4, <1>5, <1>6, <1>7, ReleasePanels DEF RunNext

(* However a run ends that lit its panels, completed, failed or aborted, they are dark and
   open, those excepted that the run is known to have failed to release: for any number of
   panels (engine.py, _run and _release_panels). *)
THEOREM PanelsAreReleased == WizardSpec => []PanelsReleased
<1>1. PanelInv /\ [WizardNext]_vars => PanelInv'
  <2> SUFFICES ASSUME PanelInv, [WizardNext]_vars PROVE PanelInv'
    OBVIOUS
  <2>0. ASSUME UNCHANGED <<run, panelVars, missed>> PROVE PanelInv'
    BY <2>0, PanelStep DEF panelVars, PanelInv, PanelType
  <2>1. CASE Start
    <3>1. run'.at = "created" /\ run'.panels = <<>> /\ run'.left = <<>> /\ cover' = cover
      BY <2>1 DEF Start, Idle, panelVars
    <3> QED
      BY <3>1, Underway DEF PanelInv, PanelType
  <2>2. CASE Abort \/ UNCHANGED vars
    BY <2>0, <2>2 DEF Abort, vars
  <2>3. ASSUME NEW c \in Cameras, CameraNext(c) PROVE PanelInv'
    BY <2>0, <2>3 DEF CameraNext, Selects, Selected, SelectTimesOut, Trial, CameraCancelled
  <2>4. CASE WheelArrives \/ WheelFails
    BY <2>0, <2>4 DEF WheelArrives, WheelFails
  <2>5. ASSUME NEW p \in PanelSet, CoverStops(p) \/ LightReported(p) PROVE PanelInv'
    <3>1. UNCHANGED <<run, lit, missed>> /\ DOMAIN cover' = PanelSet
      BY <2>5 DEF CoverStops, LightReported, PanelInv, PanelType
    <3>2. \A q \in PanelSet : cover[q] = "open" => cover'[q] = "open"
      BY <2>5 DEF CoverStops, LightReported, PanelInv, PanelType
    <3> QED
      BY <3>1, <3>2, PanelStep
  <2> QED
    BY <2>1, <2>2, <2>3, <2>4, <2>5, RunPanels DEF WizardNext, DeviceNext
<1>2. PanelInv => PanelsReleased
  BY DEF PanelInv, ReleaseInv, PanelsReleased, Out, InSeq
<1> QED
  BY <1>1, <1>2, InitPanels, PTL DEF WizardSpec

-----------------------------------------------------------------------------
(* The search for a duration *)

LEMMA Numbers ==
  /\ Levels \subseteq Nat
  /\ Seed \in Nat /\ MinDuration \in Nat \ {0} /\ MaxDuration \in Nat /\ MaxAttempts \in Nat
  /\ Target \in Nat /\ Tolerance \in Nat /\ Saturation \in Nat
  BY WizardAssumption

LEMMA Attempts ==
  ASSUME NEW n \in Nat, NEW i \in 1..n, i # n
  PROVE  i \in 1..n - 1 /\ i + 1 \in 2..n /\ (i + 1) - 1 = i
  OBVIOUS

\* What a duration d at a level says of the durations that differ from it.
LEMMA Brighter ==
  ASSUME NEW level \in Nat, NEW d \in Nat, NEW e \in Nat, d <= e
  PROVE  level * d \in Nat /\ level * e \in Nat /\ level * d <= level * e
<1>1. e - d \in Nat /\ level * (e - d) >= 0
  OBVIOUS
<1>2. level * e = level * d + level * (e - d)
  BY <1>1
<1> QED
  BY <1>1, <1>2

\* Scaling a duration to the target does not depend on the duration that was taken.
LEMMA Scaled ==
  ASSUME NEW level \in Nat \ {0}, NEW d \in Nat \ {0}
  PROVE  LET q == (d * Target) \div (level * d)
         IN  q \in Nat /\ level * q <= Target /\ Target < level * (q + 1)
<1> DEFINE q == (d * Target) \div (level * d)
<1>0. Target \in Nat
  BY Numbers
<1>1. level * d \in Nat \ {0} /\ d * Target \in Nat
  BY <1>0
<1>2. \A a \in Nat, b \in Nat \ {0} :
        a \div b \in Nat /\ b * (a \div b) <= a /\ a < b * ((a \div b) + 1)
  OBVIOUS
<1>3. q \in Nat /\ (level * d) * q <= d * Target /\ d * Target < (level * d) * (q + 1)
  BY <1>1, <1>2
<1> HIDE DEF q
<1>4. d * (level * q) <= d * Target /\ d * Target < d * (level * (q + 1))
  BY <1>0, <1>3
<1>5. \A a, b \in Nat : a < b => d * a < d * b
  OBVIOUS
<1>6. level * q \in Nat /\ level * (q + 1) \in Nat
  BY <1>3
<1>7. level * q <= Target
  BY <1>0, <1>4, <1>5, <1>6
<1>8. Target < level * (q + 1)
  <2>1. CASE level * (q + 1) = Target
    BY <1>4, <2>1, <1>0
  <2>2. CASE level * (q + 1) < Target
    <3>1. d * (level * (q + 1)) < d * Target
      BY <1>0, <1>5, <1>6, <2>2
    <3> QED
      BY <1>0, <1>3, <1>4, <1>6, <3>1
  <2> QED
    BY <1>0, <1>6, <2>1, <2>2
<1> QED
  BY <1>3, <1>7, <1>8 DEF q

\* The limits hold for every duration that is tried.
LEMMA ClampedInLimits ==
  ASSUME NEW d \in Nat
  PROVE  /\ Clamped(d) \in Nat \ {0} /\ Clamped(d) >= MinDuration
         /\ MinDuration <= MaxDuration => Clamped(d) <= MaxDuration
  BY Numbers DEF Clamped

\* The duration closest to the target within the limits: if it misses, every other one does.
LEMMA ClosestMisses ==
  ASSUME UnitsAreFine, NEW level \in Levels, NEW q \in Nat,
         level * q <= Target, Target < level * (q + 1), ~OnTarget(level * Clamped(q))
  PROVE  ~Reachable(level)
<1> DEFINE d == Clamped(q)
<1>0. level \in Nat /\ Target \in Nat /\ Tolerance \in Nat /\ MinDuration \in Nat /\ MaxDuration \in Nat
  BY Numbers
<1>1. d \in Nat /\ d >= MinDuration /\ level * d \in Nat
  BY <1>0, ClampedInLimits, Brighter
<1> SUFFICES ASSUME NEW e \in MinDuration..MaxDuration PROVE ~OnTarget(level * e)
  BY DEF Reachable
<1>2. e \in Nat /\ e >= MinDuration /\ e <= MaxDuration /\ d <= MaxDuration /\ level * e \in Nat
  BY <1>0, ClampedInLimits, Brighter
<1>3. level * d < Target - Tolerance \/ level * d > Target + Tolerance
  BY <1>0, <1>1 DEF OnTarget
<1>4. CASE level * d > Target + Tolerance
  <2>1. ~(d <= q)
    BY <1>0, <1>1, <1>4, Brighter
  <2>2. d = MinDuration
    BY <1>0, <1>2, <2>1 DEF Clamped
  <2>3. level * d <= level * e
    BY <1>0, <1>1, <1>2, <2>2, Brighter
  <2> QED
    BY <1>0, <1>1, <1>2, <1>4, <2>3 DEF OnTarget
<1>5. CASE level * d < Target - Tolerance
  <2>1. CASE e <= d
    <3>1. level * e <= level * d
      BY <1>0, <1>1, <1>2, <2>1, Brighter
    <3> QED
      BY <1>0, <1>1, <1>2, <1>5, <3>1 DEF OnTarget
  <2>2. CASE e > d
    <3>1. d < MaxDuration
      BY <1>0, <1>1, <1>2, <2>2
    <3>2. q <= d
      BY <1>0, <1>2, <3>1 DEF Clamped
    <3>3. level * (q + 1) <= level * (d + 1) /\ level * (q + 1) \in Nat /\ level * (d + 1) \in Nat
      BY <1>0, <1>1, <3>2, Brighter
    <3>4. Target < level * (d + 1)
      BY <1>0, <3>3
    <3>5. level * (d + 1) > Target + Tolerance
      BY <1>0, <1>1, <1>2, <1>5, <3>3, <3>4 DEF UnitsAreFine
    <3>6. level * (d + 1) <= level * e
      BY <1>0, <1>1, <1>2, <2>2, Brighter
    <3> QED
      BY <1>0, <1>2, <3>3, <3>5, <3>6 DEF OnTarget
  <2> QED
    BY <1>1, <1>2, <2>1, <2>2
<1> QED
  BY <1>3, <1>4, <1>5


-----------------------------------------------------------------------------
\* The durations of a search whose frames are all saturated.
Halves(h) ==
  /\ h \in [1..MaxAttempts -> MinDuration..Clamped(Seed)]
  /\ h[1] = Clamped(Seed)
  /\ \A i \in 1..MaxAttempts - 1 : h[i + 1] = Clamped(h[i] \div 2)
  /\ MaxAttempts > 1 /\ h[MaxAttempts - 1] = MinDuration

\* A search that exposes has halved its duration so far, or takes the closest one, or is in vain.
Exposing(c, h) ==
  /\ cam[c].level \in Levels
  /\ cam[c].duration \in Nat /\ cam[c].duration >= MinDuration
  /\ cam[c].attempt \in 1..MaxAttempts
  /\ \/ /\ cam[c].duration = h[cam[c].attempt]
        /\ cam[c].attempt > 1 => h[cam[c].attempt - 1] > MinDuration
     \/ \E q \in Nat : /\ cam[c].duration = Clamped(q)
                       /\ cam[c].level * q <= Target /\ Target < cam[c].level * (q + 1)
     \/ ~Reachable(cam[c].level)

GivesUp(c) == cam[c].verdict \in {"stuck", "saturated", "exhausted"} => ~Reachable(cam[c].level)

SearchInv(h) ==
  /\ DOMAIN cam = Cameras
  /\ \A c \in Cameras : GivesUp(c) /\ (cam[c].at = "expose" => Exposing(c, h))

\* A step that leaves the searches alone, or puts a camera to rest or in its turn.
LEMMA SearchKept ==
  ASSUME NEW h, SearchInv(h), DOMAIN cam' = Cameras,
         \A c \in Cameras : cam'[c] = cam[c] \/ (cam'[c].at # "expose" /\ cam'[c].verdict \in {"none", "error", "solved"})
  PROVE  SearchInv(h)'
<1> SUFFICES ASSUME NEW c \in Cameras PROVE (GivesUp(c) /\ (cam[c].at = "expose" => Exposing(c, h)))'
  BY DEF SearchInv
<1>1. CASE cam'[c] = cam[c]
  BY <1>1 DEF SearchInv, GivesUp, Exposing, Reachable, OnTarget, Clamped
<1>2. CASE cam'[c].at # "expose" /\ cam'[c].verdict \in {"none", "error", "solved"}
  BY <1>2 DEF GivesUp
<1> QED
  BY <1>1, <1>2

\* The same for a step of one camera, whose own search is as it should be.
LEMMA SearchOfOne ==
  ASSUME NEW h, SearchInv(h), NEW c \in Cameras, NEW r, cam' = [cam EXCEPT ![c] = r],
         r.verdict \in {"stuck", "saturated", "exhausted"} => ~Reachable(r.level),
         r.at = "expose" => Exposing(c, h)'
  PROVE  SearchInv(h)'
<1>1. DOMAIN cam' = Cameras /\ cam'[c] = r /\ \A d \in Cameras : d # c => cam'[d] = cam[d]
  BY DEF SearchInv
<1> SUFFICES ASSUME NEW d \in Cameras PROVE (GivesUp(d) /\ (cam[d].at = "expose" => Exposing(d, h)))'
  BY <1>1 DEF SearchInv
<1>2. CASE d = c
  BY <1>1, <1>2 DEF GivesUp, Reachable, OnTarget
<1>3. CASE d # c
  BY <1>1, <1>3 DEF SearchInv, GivesUp, Exposing, Reachable, OnTarget, Clamped
<1> QED
  BY <1>2, <1>3

LEMMA SearchBegins ==
  ASSUME NEW h, Halves(h), SearchInv(h), NEW c \in Cameras, Searches(c)
  PROVE  SearchInv(h)'
<1>1. PICK level \in Levels :
        cam' = [cam EXCEPT ![c] = [@ EXCEPT !.at = "expose", !.level = level, !.verdict = "none", !.attempt = 1,
                                            !.duration = Clamped(Seed)]]
  BY DEF Searches
<1> DEFINE r == [cam[c] EXCEPT !.at = "expose", !.level = level, !.verdict = "none", !.attempt = 1,
                               !.duration = Clamped(Seed)]
<1>2. cam' = [cam EXCEPT ![c] = r] /\ cam'[c] = r
  BY <1>1 DEF SearchInv
<1>3. r.verdict = "none" /\ r.level = level /\ r.attempt = 1 /\ r.duration = Clamped(Seed)
  BY DEF SearchInv
<1> HIDE DEF r
<1>4. Exposing(c, h)'
  <2>1. Seed \in Nat /\ 1 \in 1..MaxAttempts
    BY Numbers DEF Halves
  <2>2. Clamped(Seed) \in Nat /\ Clamped(Seed) >= MinDuration /\ Clamped(Seed) = h[1]
    BY <2>1, ClampedInLimits DEF Halves
  <2> QED
    BY <1>2, <1>3, <2>1, <2>2 DEF Exposing
<1> QED
  BY <1>2, <1>3, <1>4, SearchOfOne

LEMMA SearchConcludes ==
  ASSUME NEW h, SearchInv(h), NEW c \in Cameras, NEW what, Concludes(c, what),
         what \in {"error", "solved"} \/ ~Reachable(cam[c].level)
  PROVE  SearchInv(h)'
<1> DEFINE rest == Tail(cam[c].todo)
           r == [Resting EXCEPT !.at = IF rest = <<>> THEN "done" ELSE "turn",
                                !.todo = rest, !.level = cam[c].level, !.verdict = what]
<1>1. cam' = [cam EXCEPT ![c] = r]
  BY DEF Concludes
<1>2. r.verdict = what /\ r.level = cam[c].level /\ r.at # "expose"
  BY DEF Resting
<1> HIDE DEF r
<1> QED
  BY <1>1, <1>2, SearchOfOne

\* The next trial: by halving, at the closest duration, or in vain; giving up is right.
LEMMA SearchRetries ==
  ASSUME NEW h, SearchInv(h), NEW c \in Cameras, NEW d \in Nat, Retries(c, d), Exposing(c, h), cam[c].at = "expose",
         cam[c].attempt = MaxAttempts => ~Reachable(cam[c].level),
         Clamped(d) = cam[c].duration => ~Reachable(cam[c].level),
         \/ ~Reachable(cam[c].level)
         \/ cam[c].level * d <= Target /\ Target < cam[c].level * (d + 1)
         \/ h[cam[c].attempt] > MinDuration /\ Clamped(d) = h[cam[c].attempt + 1]
  PROVE  SearchInv(h)'
<1>1. CASE Concludes(c, "exhausted") /\ cam[c].attempt = MaxAttempts
  BY <1>1, SearchConcludes
<1>2. CASE Concludes(c, "stuck") /\ Clamped(d) = cam[c].duration
  BY <1>2, SearchConcludes
<1>3. CASE cam[c].attempt # MaxAttempts /\ cam' = [cam EXCEPT ![c].duration = Clamped(d), ![c].attempt = @ + 1]
  <2> DEFINE r == [cam[c] EXCEPT !.duration = Clamped(d), !.attempt = @ + 1]
  <2>1. cam' = [cam EXCEPT ![c] = r] /\ cam'[c] = r
    BY <1>3 DEF SearchInv
  <2>2. r.level = cam[c].level /\ r.verdict = cam[c].verdict /\ r.at = "expose"
        /\ r.duration = Clamped(d) /\ r.attempt = cam[c].attempt + 1
    OBVIOUS
  <2> HIDE DEF r
  <2>3. r.attempt \in 2..MaxAttempts /\ r.attempt - 1 = cam[c].attempt
    BY <1>3, <2>2, Numbers, Attempts DEF Exposing
  <2>4. Exposing(c, h)'
    <3>1. r.level \in Levels /\ r.duration \in Nat /\ r.duration >= MinDuration /\ r.attempt \in 1..MaxAttempts
      <4>1. r.attempt \in 1..MaxAttempts
        BY <2>3, Numbers
      <4> QED
        BY <2>2, <4>1, ClampedInLimits, Numbers DEF Exposing
    <3>2. CASE ~Reachable(cam[c].level)
      BY <2>1, <2>2, <3>1, <3>2 DEF Exposing, Reachable, OnTarget
    <3>3. CASE cam[c].level * d <= Target /\ Target < cam[c].level * (d + 1)
      BY <2>1, <2>2, <3>1, <3>3 DEF Exposing, Clamped
    <3>4. CASE h[cam[c].attempt] > MinDuration /\ Clamped(d) = h[cam[c].attempt + 1]
      BY <2>1, <2>2, <2>3, <3>1, <3>4 DEF Exposing
    <3> QED
      BY <3>2, <3>3, <3>4
  <2> QED
    BY <2>1, <2>2, <2>4, SearchOfOne DEF SearchInv, GivesUp
<1> QED
  BY <1>1, <1>2, <1>3 DEF Retries

LEMMA SearchTrial ==
  ASSUME TargetBelowSaturation, UnitsAreFine, NEW h, Halves(h), SearchInv(h), NEW c \in Cameras, Trial(c)
  PROVE  SearchInv(h)'
<1> DEFINE d == cam[c].duration
           level == cam[c].level
           attempt == cam[c].attempt
           ratio == level * d
<1>0. /\ Target \in Nat /\ Tolerance \in Nat /\ MinDuration \in Nat \ {0} /\ MaxDuration \in Nat
      /\ MaxAttempts \in Nat /\ Saturation \in Nat
  BY Numbers
<1>1. cam[c].at = "expose" /\ Exposing(c, h)
  BY DEF Trial, Solving, SearchInv
<1>2. level \in Levels /\ level \in Nat /\ d \in Nat \ {0} /\ d >= MinDuration /\ ratio \in Nat /\ attempt \in 1..MaxAttempts
  <2>1. level \in Levels /\ d \in Nat /\ d >= MinDuration /\ attempt \in 1..MaxAttempts
    BY <1>1 DEF Exposing
  <2>2. level \in Nat /\ d # 0
    BY <1>0, <2>1, Numbers
  <2> QED
    BY <2>1, <2>2
\* A saturated frame is brighter than the target.
<1>3. ratio >= Saturation => ~OnTarget(ratio)
  BY <1>0, <1>2 DEF TargetBelowSaturation, OnTarget
\* A search that neither halves nor is on target is in vain.
<1>4. ~OnTarget(ratio) => ~Reachable(level) \/ (d = h[attempt] /\ (attempt > 1 => h[attempt - 1] > MinDuration))
  BY <1>1, <1>2, ClosestMisses DEF Exposing
\* One that has only halved has attempts left, unless it is at the minimum.
<1>5. d = h[attempt] /\ (attempt > 1 => h[attempt - 1] > MinDuration) => attempt # MaxAttempts
  BY <1>0 DEF Halves
<1>6. ~OnTarget(ratio) /\ attempt = MaxAttempts => ~Reachable(level)
  BY <1>4, <1>5
<1>7. CASE ratio >= Saturation /\ IF SaturatedAtMinimum(d) THEN Concludes(c, "saturated") ELSE Retries(c, d \div 2)
  <2>1. CASE d <= MinDuration
    <3>1. d = MinDuration
      BY <1>0, <1>2, <2>1
    <3>2. \A e \in MinDuration..MaxDuration : ratio <= level * e /\ level * e \in Nat
      BY <1>0, <1>2, <3>1, Brighter
    <3>3. ~Reachable(level)
      BY <1>0, <1>2, <1>7, <3>2 DEF Reachable, OnTarget, TargetBelowSaturation
    <3> QED
      BY <1>7, <2>1, <3>3, SearchConcludes DEF SaturatedAtMinimum
  <2>2. CASE d > MinDuration
    <3>1. d \div 2 \in Nat /\ d \div 2 < d
      BY <1>2
    <3>2. Retries(c, d \div 2)
      BY <1>0, <1>2, <1>7, <2>2 DEF SaturatedAtMinimum
    <3>3. Clamped(d \div 2) # d
      BY <1>0, <1>2, <2>2, <3>1 DEF Clamped
    <3>4. d = h[attempt] /\ attempt # MaxAttempts => Clamped(d \div 2) = h[attempt + 1]
      <4>1. attempt # MaxAttempts => attempt \in 1..MaxAttempts - 1
        BY <1>0, <1>2, Attempts
      <4> QED
        BY <4>1 DEF Halves
    <3> QED
      BY <1>0, <1>1, <1>2, <1>3, <1>4, <1>5, <1>6, <1>7, <2>2, <3>1, <3>2, <3>3, <3>4, SearchRetries
  <2> QED
    BY <1>0, <1>2, <2>1, <2>2
<1>8. CASE ratio < Saturation /\ OnTarget(ratio) /\ Concludes(c, "solved")
  BY <1>8, SearchConcludes
<1>9. CASE /\ ratio < Saturation /\ ~OnTarget(ratio)
           /\ IF ratio = 0 THEN Retries(c, d * 5) ELSE Retries(c, (d * Target) \div ratio)
  <2>1. CASE ratio = 0
    <3>1. level = 0
      BY <1>2, <2>1
    <3>2. \A e \in MinDuration..MaxDuration : level * e = 0
      BY <1>0, <3>1
    <3>3. ~Reachable(level)
      BY <1>9, <2>1, <3>2 DEF Reachable
    <3>4. d * 5 \in Nat /\ Retries(c, d * 5)
      BY <1>2, <1>9, <2>1
    <3> QED
      BY <1>1, <3>3, <3>4, SearchRetries
  <2>2. CASE ratio # 0
    <3> DEFINE q == (d * Target) \div ratio
    <3>1. level # 0
      BY <1>2, <2>2
    <3>2. q \in Nat /\ level * q <= Target /\ Target < level * (q + 1)
      BY <1>2, <3>1, Scaled
    <3>3. Retries(c, q)
      BY <1>9, <2>2
    <3> HIDE DEF q
    <3>4. Clamped(q) = d => ~Reachable(level)
      BY <1>2, <1>9, <3>2, ClosestMisses
    <3> QED
      BY <1>1, <1>6, <1>9, <3>2, <3>3, <3>4, SearchRetries
  <2> QED
    BY <2>1, <2>2
<1>10. CASE Concludes(c, "error")
  BY <1>10, SearchConcludes
<1> QED
  BY <1>7, <1>8, <1>9, <1>10 DEF Trial

LEMMA SearchCamera ==
  ASSUME TargetBelowSaturation, UnitsAreFine, NEW h, Halves(h), SearchInv(h), NEW c \in Cameras, CameraNext(c)
  PROVE  SearchInv(h)'
<1>1. CASE Selects(c)
  <2>1. CASE Searches(c)
    BY <2>1, SearchBegins
  <2>2. CASE cam' = [cam EXCEPT ![c].at = "select", ![c].verdict = "none", ![c].level = 0]
    BY <2>2, SearchKept DEF SearchInv
  <2>3. CASE Concludes(c, "error")
    BY <2>3, SearchConcludes
  <2> QED
    BY <1>1, <2>1, <2>2, <2>3 DEF Selects
<1>2. CASE Selected(c)
  BY <1>2, SearchBegins DEF Selected
<1>3. CASE SelectTimesOut(c)
  BY <1>3, SearchConcludes DEF SelectTimesOut
<1>4. CASE Trial(c)
  BY <1>4, SearchTrial
<1>5. CASE CameraCancelled(c)
  <2>1. cam' = [cam EXCEPT ![c] = Resting]
    BY <1>5 DEF CameraCancelled
  <2> QED
    BY <2>1, SearchKept DEF SearchInv, Resting
<1> QED
  BY <1>1, <1>2, <1>3, <1>4, <1>5 DEF CameraNext

LEMMA SearchRun ==
  ASSUME NEW h, SearchInv(h), RunNext
  PROVE  SearchInv(h)'
<1>1. CASE Solves
  BY <1>1, SearchKept DEF Solves, Resting
<1>2. CASE UNCHANGED cam
  BY <1>2, SearchKept DEF SearchInv
<1>3. CASE GroupEnds
  BY <1>3, SearchKept DEF GroupEnds, Resting
<1> QED
  BY <1>1, <1>2, <1>3
  DEF RunNext, Begins, NeverBegins, LightReads, LightCovered, LightSent, LightFails, ReleaseReads, ReleaseDarkens,
      ReleaseOpened, ReleaseFails, ReleaseCut, Released, GroupCancelled, searchVars

(* A search that takes frames and gives up does so only where no duration within the limits reaches the
   target, for any seed, limits, target and levels: if a frame on target is not saturated, rounding does not
   step over the target, and the attempts suffice to halve the seed down to the minimum (engine.py,
   _solve_filter). *)
THEOREM GivesUpOnlyInVain ==
  ASSUME TargetBelowSaturation, UnitsAreFine, EnoughAttempts
  PROVE  WizardSpec => []ReachableIsSolved
<1>1. PICK h \in [1..MaxAttempts -> MinDuration..Clamped(Seed)] : Halves(h)
  BY DEF EnoughAttempts, Halves
<1>2. WizardInit => SearchInv(h)
  BY DEF WizardInit, SearchInv, GivesUp, Resting
<1>3. SearchInv(h) /\ [WizardNext]_vars => SearchInv(h)'
  <2> SUFFICES ASSUME SearchInv(h), [WizardNext]_vars PROVE SearchInv(h)'
    OBVIOUS
  <2>1. CASE UNCHANGED cam
    BY <2>1, SearchKept DEF SearchInv
  <2>2. ASSUME NEW c \in Cameras, CameraNext(c) PROVE SearchInv(h)'
    BY <1>1, <2>2, SearchCamera
  <2> QED
    BY <2>1, <2>2, SearchRun
    DEF WizardNext, Start, Abort, DeviceNext, WheelArrives, WheelFails, CoverStops, LightReported, searchVars, vars
<1>4. SearchInv(h) => ReachableIsSolved
  BY DEF SearchInv, GivesUp, ReachableIsSolved
<1> QED
  BY <1>2, <1>3, <1>4, PTL DEF WizardSpec
=============================================================================
