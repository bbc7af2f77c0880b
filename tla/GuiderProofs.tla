---------------------------- MODULE GuiderProofs ----------------------------
(***************************************************************************)
(* Proofs about the guider, for any number of clients, runs, previews and  *)
(* requests.                                                               *)
(*                                                                         *)
(* Tasks that were displaced go on acting on what they share with their    *)
(* successors: the stream, _sub, the pending request.  The invariants say  *)
(* in which places a task may be for what is shared to be its own.         *)
(***************************************************************************)
EXTENDS Guider, TLAPS

\* Who started the stream that is on is in a place from which it stops it; _sub is a run's
\* from its start until its end.
StreamInv ==
  /\ \A r \in Runs : stream = r => run[r] \in {"select", "guide", "retry"}
  /\ \A r \in Runs : sub = r => run[r] \in {"select", "guide", "retry", "refit", "restart"}
  /\ \A p \in Previews : stream = p => view[p] = "show"
  /\ \A c \in Clients : stream = c => call[c].at = "dark"

\* What a client waits for in guide() or dither() is a request.  As long as nothing was disturbed: a cancelled run ends through all of _finish(), a pending
\* request has a run, and the request a client waits for is the pending one.
SettleInv ==
  /\ \A c \in Clients : call[c].at = "settle" => call[c].on \in Requests
  /\ ~disturbed =>
    /\ \A r \in Runs \cap cancelled : run[r] \notin {"created", "refit", "restart", "finish"}
    /\ settle # None => Live # {}
    /\ \A c \in Clients : call[c].at = "settle" /\ outcome[call[c].on] = "pending" => settle = call[c].on

\* A run that guides has begun to; health says guiding while such a run guides, restarts its
\* stream or is about to report its end.
HealthInv ==
  /\ \A r \in Runs : run[r] = "guide" => r \in begun
  /\ ~disturbed /\ guiding =>
       \E r \in Live : run[r] = "finish" \/ (run[r] \in {"guide", "refit"} /\ r \in begun)

IInv == GuiderTypeOK /\ StrayRunsEnd /\ StreamInv /\ SettleInv /\ HealthInv

-----------------------------------------------------------------------------
(* What the steps of a client amount to. *)

\* stop() empties the slot and cancels the run in it.
Cancels(c) ==
  /\ Running /\ call[c].at # "dark"
  /\ \E place \in {"guideStop", "stop"}, again, wait \in BOOLEAN : Stops(c, place, again, wait)
  /\ UNCHANGED <<streamVars, guideVars, settleVars>>

Begins(c) == ~Running /\ call[c].at # "dark" /\ \E wait \in BOOLEAN : Creates(c, wait)

Asks(c) ==
  /\ Running /\ settle = None /\ call[c].at # "dark"
  /\ \E wait \in BOOLEAN : BeginSettle(c, wait, TRUE)
  /\ UNCHANGED <<taskVars, streamVars, guideVars, history>>

Hides(c) ==
  /\ Previewing /\ call[c].at # "dark"
  /\ \E place \in {"guidePreview", "previewStop", "setPreview", "darkPreview"}, again, wait \in BOOLEAN :
       StopsPreview(c, place, again, wait)

\* Only where the client is in its call changes.
Moves(c) ==
  /\ call[c].at # "dark"
  /\ \E place \in {"none", "guideScale", "previewScale"}, again, wait \in BOOLEAN :
       call' = [call EXCEPT ![c] = [at |-> place, on |-> None, again |-> again, wait |-> wait]]
  /\ UNCHANGED <<taskVars, streamVars, guideVars, settleVars, history>>

Darkens(c) == call[c].at # "dark" /\ BeginsDark(c)

ClientForms(c) ==
  \/ Cancels(c) \/ Begins(c) \/ Asks(c) \/ Hides(c) \/ Moves(c) \/ Darkens(c)
  \/ Settled(c) \/ Pause(c) \/ Resume(c) \/ PreviewBegins(c) \/ DarkEnds(c) \/ DarkCloses(c)

LEMMA DecidesForms ==
  ASSUME NEW c \in Clients, NEW again \in BOOLEAN, NEW wait \in BOOLEAN, call[c].at # "dark",
         Decides(c, again, wait)
  PROVE  ClientForms(c)
<1>1. CASE Running /\ again /\ Stops(c, "guideStop", again, wait) /\ UNCHANGED <<streamVars, guideVars, settleVars>>
  BY <1>1 DEF Cancels, ClientForms
<1>2. CASE Running /\ settle # None /\ Returns(c) /\ UNCHANGED <<settleVars, taskVars, streamVars, guideVars, history>>
  <2>1. call' = [call EXCEPT ![c] = [at |-> "none", on |-> None, again |-> FALSE, wait |-> TRUE]]
    BY <1>2 DEF Returns, NoCall
  <2> QED
    BY <1>2, <2>1 DEF Moves, ClientForms
<1>3. CASE Running /\ settle = None /\ BeginSettle(c, wait, TRUE) /\ UNCHANGED <<taskVars, streamVars, guideVars, history>>
  BY <1>3 DEF Asks, ClientForms
<1>4. CASE ~Running /\ Creates(c, wait)
  BY <1>4 DEF Begins, ClientForms
<1> QED
  BY <1>1, <1>2, <1>3, <1>4 DEF Decides

LEMMA ScalesForms ==
  ASSUME NEW c \in Clients, NEW again \in BOOLEAN, NEW wait \in BOOLEAN, call[c].at # "dark",
         Scales(c, again, wait)
  PROVE  ClientForms(c)
<1>1. CASE Decides(c, again, wait)
  BY <1>1, DecidesForms
<1>2. CASE ~Decides(c, again, wait)
  BY <1>2 DEF Scales, Moves, ClientForms
<1> QED
  BY <1>1, <1>2

LEMMA AsksPreviewForms ==
  ASSUME NEW c \in Clients, call[c].at # "dark", AsksPreview(c)
  PROVE  ClientForms(c)
  BY DEF AsksPreview, Returns, Awaits, NoCall, Moves, ClientForms

LEMMA ClientStepForms ==
  ASSUME NEW c \in Clients, ClientStep(c)
  PROVE  ClientForms(c)
<1> DEFINE Idle == call[c] = NoCall
<1>0. Idle => call[c].at # "dark"
  BY DEF NoCall
<1>1. CASE Guide(c)
  <2>1. PICK again, wait \in BOOLEAN :
          IF Previewing THEN StopsPreview(c, "guidePreview", again, wait) ELSE Scales(c, again, wait)
    BY <1>1 DEF Guide
  <2>2. call[c].at # "dark"
    BY <1>0, <1>1 DEF Guide
  <2> QED
    BY <2>1, <2>2, ScalesForms DEF Hides, ClientForms
<1>2. CASE Stop(c)
  BY <1>0, <1>2 DEF Stop, Cancels, ClientForms
<1>3. CASE Dither(c)
  BY <1>0, <1>3 DEF Dither, Asks, ClientForms
<1>4. CASE Pause(c) \/ Resume(c)
  BY <1>4 DEF ClientForms
<1>5. CASE StartPreview(c)
  BY <1>0, <1>5, AsksPreviewForms DEF StartPreview
<1>6. CASE StopPreview(c) \/ UpdateSettings(c)
  BY <1>0, <1>6 DEF StopPreview, UpdateSettings, Hides, ClientForms
<1>7. CASE CaptureDark(c)
  BY <1>0, <1>7 DEF CaptureDark, Hides, Darkens, ClientForms
<1> QED
  BY <1>1, <1>2, <1>3, <1>4, <1>5, <1>6, <1>7 DEF ClientStep

LEMMA CallStepForms ==
  ASSUME CallTypeOK, NEW c \in Clients, CallStep(c)
  PROVE  ClientForms(c)
<1>1. CASE GuideGoesOn(c)
  <2>1. call[c].again \in BOOLEAN /\ call[c].wait \in BOOLEAN
    BY DEF CallTypeOK
  <2>2. call[c].at # "dark" /\ (Scales(c, call[c].again, call[c].wait) \/ Decides(c, call[c].again, call[c].wait))
    BY <1>1 DEF GuideGoesOn
  <2> QED
    BY <2>1, <2>2, ScalesForms, DecidesForms
<1>2. CASE StopReturns(c)
  BY <1>2 DEF StopReturns, Returns, NoCall, Moves, ClientForms
<1>3. CASE SettingsGoOn(c)
  BY <1>3, AsksPreviewForms DEF SettingsGoOn
<1>4. CASE DarkGoesOn(c)
  BY <1>4 DEF DarkGoesOn, Darkens, ClientForms
<1>5. CASE Settled(c) \/ PreviewBegins(c) \/ DarkEnds(c) \/ DarkCloses(c)
  BY <1>5 DEF ClientForms
<1> QED
  BY <1>1, <1>2, <1>3, <1>4, <1>5 DEF CallStep

-----------------------------------------------------------------------------
(* Types. *)

LEMMA Distinct ==
  /\ \A r \in Runs : r # None /\ r \notin Previews /\ r \notin Clients
  /\ \A p \in Previews : p # None /\ p \notin Runs /\ p \notin Clients
  /\ \A c \in Clients : c # None /\ c \notin Runs /\ c \notin Previews
  /\ \A q \in Requests : q # None
  BY GuiderAssumption

CallType == [at: Places, on: Runs \cup Previews \cup Requests \cup {None}, again: BOOLEAN, wait: BOOLEAN]

LEMMA CallsTyped ==
  ASSUME CallTypeOK, NEW c \in Clients,
         \/ Returns(c)
         \/ \E place \in Places, what \in Runs \cup Previews \cup Requests \cup {None} : Awaits(c, place, what)
  PROVE  call' \in [Clients -> CallType]
<1>1. call \in [Clients -> CallType]
  BY DEF CallTypeOK, CallType
<1>2. CASE Returns(c)
  <2>1. NoCall \in CallType
    BY DEF NoCall, CallType, Places
  <2> QED
    BY <1>1, <1>2, <2>1 DEF Returns
<1>3. ASSUME NEW place \in Places, NEW what \in Runs \cup Previews \cup Requests \cup {None}, Awaits(c, place, what)
      PROVE  call' \in [Clients -> CallType]
  <2>1. [at |-> place, on |-> what, again |-> FALSE, wait |-> TRUE] \in CallType
    BY DEF CallType
  <2> QED
    BY <1>1, <1>3, <2>1 DEF Awaits
<1> QED
  BY <1>2, <1>3

LEMMA BeginSettleTypes ==
  ASSUME CallTypeOK, NEW c \in Clients, NEW wait \in BOOLEAN, NEW started \in BOOLEAN,
         BeginSettle(c, wait, started), UNCHANGED <<guideVars>>, disturbed' \in BOOLEAN
  PROVE  CallTypeOK'
<1>1. PICK q \in UnusedRequests :
        /\ settle' = q /\ timed' = started
        /\ outcome' = [o \in Requests |-> CASE o = q -> "pending"
                         [] o = settle /\ settle \notin Awaited -> "none"
                         [] OTHER -> outcome[o]]
        /\ IF wait THEN Awaits(c, "settle", q) ELSE Returns(c)
  BY DEF BeginSettle
<1>2. q \in Requests /\ q # settle /\ q # None
  BY Distinct DEF CallTypeOK, UnusedRequests
<1>3. \A o \in Requests : outcome'[o] = IF o = q THEN "pending"
                                        ELSE IF o = settle /\ settle \notin Awaited THEN "none" ELSE outcome[o]
  BY <1>1, <1>2
<1>4. outcome' \in [Requests -> {"none", "pending", "ok", "failed"}] /\ outcome'[q] = "pending"
  <2>1. \A o \in Requests : outcome'[o] \in {"none", "pending", "ok", "failed"}
    BY <1>3 DEF CallTypeOK
  <2> QED
    BY <1>1, <1>2, <1>3, <2>1
<1>5. call' \in [Clients -> CallType]
  BY <1>1, <1>2, CallsTyped DEF Places
<1> QED
  BY <1>1, <1>2, <1>4, <1>5 DEF CallTypeOK, CallType, guideVars

LEMMA EndSettleTypes ==
  ASSUME CallTypeOK, NEW result \in {"ok", "failed"}, EndSettle(result)
  PROVE  /\ settle' = None /\ timed' = FALSE
         /\ outcome' \in [Requests -> {"none", "pending", "ok", "failed"}]
  BY DEF CallTypeOK, EndSettle

LEMMA ClientTypes ==
  ASSUME GuiderTypeOK, NEW c \in Clients, ClientForms(c)
  PROVE  GuiderTypeOK'
<1> USE Distinct DEF GuiderTypeOK, taskVars, streamVars, guideVars, settleVars, history
<1>1. CASE Cancels(c)
  <2>1. PICK place \in {"guideStop", "stop"}, again, wait \in BOOLEAN : Stops(c, place, again, wait)
    BY <1>1 DEF Cancels
  <2>2. task \in Live /\ task' = None
    BY <1>1, <2>1 DEF Cancels, Running, TaskTypeOK, Stops
  <2>3. TaskTypeOK'
    BY <1>1, <2>1, <2>2 DEF Cancels, Stops, Running, TaskTypeOK, Live, Shown
  <2>4. StreamTypeOK'
    BY <1>1, <2>1 DEF Cancels, Stops, StreamTypeOK, Live
  <2>5. CallTypeOK'
    BY <1>1, <2>1, <2>2 DEF Cancels, Stops, Running, CallTypeOK, Places, Live
  <2> QED
    BY <2>3, <2>4, <2>5
<1>2. CASE Begins(c)
  <2>1. PICK wait \in BOOLEAN : Creates(c, wait)
    BY <1>2 DEF Begins
  <2>2. PICK r \in UnusedRuns : task' = r /\ run' = [run EXCEPT ![r] = "created"]
    BY <2>1 DEF Creates
  <2>3. r \in Runs /\ r \notin Live
    BY <2>2 DEF UnusedRuns
  <2>4. TaskTypeOK'
    BY <2>1, <2>2, <2>3 DEF Creates, TaskTypeOK, Live, Shown
  <2>5. StreamTypeOK'
    BY <2>1, <2>2, <2>3 DEF Creates, StreamTypeOK, Live
  <2>6. CallTypeOK'
    <3>1. disturbed' \in BOOLEAN
      BY <2>1 DEF Creates
    <3> QED
      BY <2>1, <3>1, BeginSettleTypes DEF Creates
  <2> QED
    BY <2>4, <2>5, <2>6
<1>3. CASE Asks(c)
  <2>1. CallTypeOK'
    BY <1>3, BeginSettleTypes DEF Asks, CallTypeOK
  <2> QED
    BY <1>3, <2>1 DEF Asks, TaskTypeOK, StreamTypeOK, Live, Shown
<1>4. CASE Hides(c)
  <2>1. PICK place \in {"guidePreview", "previewStop", "setPreview", "darkPreview"}, again, wait \in BOOLEAN :
          StopsPreview(c, place, again, wait)
    BY <1>4 DEF Hides
  <2>2. preview \in Shown
    BY <1>4 DEF Hides, Previewing, TaskTypeOK
  <2> QED
    BY <2>1, <2>2 DEF StopsPreview, TaskTypeOK, StreamTypeOK, CallTypeOK, Live, Shown, Places
<1>5. CASE Moves(c)
  BY <1>5 DEF Moves, TaskTypeOK, StreamTypeOK, CallTypeOK, Live, Shown, Places
<1>6. CASE Darkens(c)
  <2>1. call' \in [Clients -> CallType]
    BY <1>6, CallsTyped DEF Darkens, BeginsDark, Places
  <2>2. CallTypeOK'
    BY <1>6, <2>1 DEF Darkens, BeginsDark, CallTypeOK, CallType
  <2> QED
    BY <1>6, <2>2 DEF Darkens, BeginsDark, StopsStream, TaskTypeOK, StreamTypeOK, Live, Shown
<1>7. CASE Settled(c)
  <2>1. call' \in [Clients -> CallType]
    BY <1>7, CallsTyped DEF Settled
  <2>2. CallTypeOK'
    BY <1>7, <2>1 DEF Settled, CallTypeOK, CallType
  <2> QED
    BY <1>7, <2>2 DEF Settled, TaskTypeOK, StreamTypeOK, Live, Shown
<1>8. CASE Pause(c) \/ Resume(c)
  BY <1>8 DEF Pause, Resume, TaskTypeOK, StreamTypeOK, CallTypeOK, Live, Shown
<1>9. CASE PreviewBegins(c)
  BY <1>9 DEF PreviewBegins, Returns, NoCall, UnusedPreviews, TaskTypeOK, StreamTypeOK, CallTypeOK, Live, Shown, Places
<1>10. CASE DarkEnds(c) \/ DarkCloses(c)
  <2>1. call' \in [Clients -> CallType]
    BY <1>10, CallsTyped DEF DarkEnds, DarkCloses, Places
  <2>2. CallTypeOK'
    BY <1>10, <2>1 DEF DarkEnds, DarkCloses, CallTypeOK, CallType
  <2> QED
    BY <1>10, <2>2 DEF DarkEnds, DarkCloses, StopsStream, TaskTypeOK, StreamTypeOK, Live, Shown
<1> QED
  BY <1>1, <1>2, <1>3, <1>4, <1>5, <1>6, <1>7, <1>8, <1>9, <1>10 DEF ClientForms

LEMMA PreviewTypes ==
  ASSUME GuiderTypeOK, NEW p \in Previews, PreviewStep(p)
  PROVE  GuiderTypeOK'
<1> USE Distinct DEF GuiderTypeOK, taskVars, streamVars, guideVars, settleVars, history
<1>1. CASE PreviewStarts(p)
  BY <1>1 DEF PreviewStarts, StopsStream, TaskTypeOK, StreamTypeOK, CallTypeOK, Live, Shown
<1>2. CASE PreviewEnds(p)
  BY <1>2 DEF PreviewEnds, StopsStream, TaskTypeOK, StreamTypeOK, CallTypeOK, Live, Shown
<1>3. CASE PreviewOver(p)
  BY <1>3 DEF PreviewOver, TaskTypeOK, StreamTypeOK, CallTypeOK, Live, Shown
<1> QED
  BY <1>1, <1>2, <1>3 DEF PreviewStep

LEMMA CameraTypes ==
  ASSUME GuiderTypeOK, (\E u \in Runs \cup Previews \cup Clients : StreamStopped(u)) \/ StreamFails
  PROVE  GuiderTypeOK'
  BY DEF StreamStopped, StreamFails, GuiderTypeOK, TaskTypeOK, StreamTypeOK, CallTypeOK, Live, Shown,
         taskVars, streamVars, guideVars, settleVars, history

\* A run that is over: nothing refers to it any more.
LEMMA OverTypes ==
  ASSUME TaskTypeOK, NEW r \in Runs, Over(r), UNCHANGED <<preview, view>>, cancelled' = cancelled \ {r}
  PROVE  TaskTypeOK' /\ Live' = Live \ {r}
  BY Distinct DEF Over, Goes, TaskTypeOK, Live, Shown

LEMMA RunTypes ==
  ASSUME GuiderTypeOK, StreamInv, NEW r \in Runs, RunStep(r)
  PROVE  GuiderTypeOK'
<1> USE Distinct DEF GuiderTypeOK, taskVars, streamVars, guideVars, settleVars, history, Goes, At
<1>1. CASE RunBegins(r)
  <2>1. CASE Goes(r, "mount") /\ UNCHANGED <<task, begun, failed, subs, sub, guideVars, settleVars, history>>
    BY <1>1, <2>1 DEF RunBegins, TaskTypeOK, StreamTypeOK, CallTypeOK, Live, Shown
  <2>2. CASE Finishes(r) /\ subs' = subs \ {sub} /\ sub' = None /\ UNCHANGED <<dark, disturbed>>
    <3>1. TaskTypeOK'
      BY <1>1, <2>2, OverTypes DEF RunBegins, Finishes
    <3> QED
      BY <1>1, <2>2, <3>1, EndSettleTypes DEF RunBegins, Finishes, StreamTypeOK, CallTypeOK
  <2> QED
    BY <1>1, <2>1, <2>2 DEF RunBegins
<1>2. CASE MountKnown(r)
  BY <1>2 DEF MountKnown, GivesUp, BeginsFinish, StopsStream, TaskTypeOK, StreamTypeOK, CallTypeOK, Live, Shown
<1>3. CASE GuidingBegins(r)
  BY <1>3 DEF GuidingBegins, TaskTypeOK, StreamTypeOK, CallTypeOK, Live, Shown
<1>4. CASE RunFails(r)
  BY <1>4 DEF RunFails, GivesUp, BeginsFinish, StopsStream, TaskTypeOK, StreamTypeOK, CallTypeOK, Live, Shown
<1>5. CASE GuideStep(r)
  <2>1. guiding' \in BOOLEAN
    BY <1>5 DEF GuideStep, CallTypeOK
  <2>2. CallTypeOK'
    BY <1>5, <2>1, EndSettleTypes DEF GuideStep, CallTypeOK
  <2> QED
    BY <1>5, <2>2 DEF GuideStep, TaskTypeOK, StreamTypeOK, Live, Shown
<1>6. CASE LosesStar(r)
  <2>2. CallTypeOK'
    BY <1>6, EndSettleTypes DEF LosesStar, CallTypeOK
  <2> QED
    BY <1>6, <2>2 DEF LosesStar, TaskTypeOK, StreamTypeOK, Live, Shown
<1>7. CASE FrameLate(r)
  BY <1>7 DEF FrameLate, TaskTypeOK, StreamTypeOK, CallTypeOK, Live, Shown
<1>8. CASE Restarts(r)
  BY <1>8 DEF Restarts, Resubscribes, StopsStream, TaskTypeOK, StreamTypeOK, CallTypeOK, Live, Shown
<1>9. CASE Restarted(r)
  BY <1>9 DEF Restarted, Resubscribes, RestartRefused, BeginsFinish, StopsStream,
              TaskTypeOK, StreamTypeOK, CallTypeOK, Live, Shown
<1>10. CASE RunCancelled(r)
  <2>1. CASE run[r] \in {"created", "finish"}
    <3>1. TaskTypeOK' /\ Live' = Live \ {r}
      BY <1>10, <2>1, OverTypes DEF RunCancelled
    <3>2. sub # r
      BY <2>1 DEF StreamInv
    <3> QED
      BY <1>10, <2>1, <3>1, <3>2 DEF RunCancelled, StreamTypeOK, CallTypeOK
  <2>2. CASE run[r] \notin {"created", "finish"}
    BY <1>10, <2>2 DEF RunCancelled, BeginsFinish, StopsStream, TaskTypeOK, StreamTypeOK, CallTypeOK, Live, Shown
  <2> QED
    BY <2>1, <2>2
<1>11. CASE RunOver(r)
  <2>1. TaskTypeOK' /\ Live' = Live \ {r}
    BY <1>11, OverTypes DEF RunOver, Finishes
  <2>2. sub # r
    BY <1>11 DEF RunOver, StreamInv
  <2> QED
    BY <1>11, <2>1, <2>2, EndSettleTypes DEF RunOver, Finishes, StreamTypeOK, CallTypeOK
<1> QED
  BY <1>1, <1>2, <1>3, <1>4, <1>5, <1>6, <1>7, <1>8, <1>9, <1>10, <1>11 DEF RunStep

-----------------------------------------------------------------------------
(* Runs that no stop() would find. *)

LEMMA ClientStray ==
  ASSUME TaskTypeOK, StrayRunsEnd, NEW c \in Clients, ClientForms(c)
  PROVE  StrayRunsEnd'
<1> USE DEF StrayRunsEnd, taskVars, history
<1>1. CASE Cancels(c)
  BY <1>1 DEF Cancels, Stops, Running, TaskTypeOK, Live
<1>2. CASE Begins(c)
  <2>1. PICK r \in Runs : task' = r /\ run' = [run EXCEPT ![r] = "created"] /\ UNCHANGED <<cancelled, deaf>>
    BY <1>2 DEF Begins, Creates, UnusedRuns
  <2>2. \A o \in Live : o # task
    BY <1>2, Distinct DEF Begins, Running, Live
  <2> QED
    BY <2>1, <2>2 DEF TaskTypeOK, Live
<1>3. CASE ~Cancels(c) /\ ~Begins(c)
  <2>1. UNCHANGED <<task, run, deaf>> /\ cancelled \subseteq cancelled'
    BY <1>3 DEF ClientForms, Asks, Hides, StopsPreview, Moves, Darkens, BeginsDark, Settled, Pause, Resume,
                PreviewBegins, DarkEnds, DarkCloses
  <2> QED
    BY <2>1 DEF Live
<1> QED
  BY <1>1, <1>2, <1>3

LEMMA TaskStray ==
  ASSUME TaskTypeOK, StrayRunsEnd,
         \/ \E p \in Previews : PreviewStep(p)
         \/ \E u \in Runs \cup Previews \cup Clients : StreamStopped(u)
         \/ StreamFails
  PROVE  StrayRunsEnd'
  BY Distinct DEF StrayRunsEnd, taskVars, history, PreviewStep, PreviewStarts, PreviewEnds, PreviewOver, StreamStopped,
                  StreamFails, Live

\* What becomes of a run and its slot in a step of that run.
LEMMA RunEffect ==
  ASSUME TaskTypeOK, NEW r \in Runs, RunStep(r)
  PROVE  \/ Over(r)
         \/ \E place \in {"mount", "select", "guide", "refit", "retry", "restart", "finish"} :
              /\ run' = [run EXCEPT ![r] = place]
              /\ UNCHANGED task
              /\ r \in cancelled \ cancelled' => place = "finish" \/ r \in deaf'
              /\ deaf \subseteq deaf'
<1> USE DEF Goes, At, taskVars, history
<1>1. CASE RunBegins(r)
  BY <1>1 DEF RunBegins, Finishes
<1>2. CASE MountKnown(r)
  BY <1>2 DEF MountKnown, GivesUp, BeginsFinish
<1>3. CASE GuidingBegins(r) \/ RunFails(r) \/ FrameLate(r)
  BY <1>3 DEF GuidingBegins, RunFails, GivesUp, BeginsFinish, FrameLate
<1>4. CASE GuideStep(r) \/ LosesStar(r)
  <2>1. run' = run /\ run[r] = "guide" /\ UNCHANGED <<task, cancelled, deaf>>
    BY <1>4 DEF GuideStep, LosesStar
  <2>2. run' = [run EXCEPT ![r] = "guide"]
    BY <2>1 DEF TaskTypeOK
  <2> QED
    BY <2>1, <2>2
<1>5. CASE Restarts(r)
  BY <1>5 DEF Restarts, Resubscribes
<1>6. CASE Restarted(r)
  BY <1>6 DEF Restarted, Resubscribes, RestartRefused, BeginsFinish
<1>7. CASE RunCancelled(r)
  BY <1>7 DEF RunCancelled, BeginsFinish
<1>8. CASE RunOver(r)
  BY <1>8 DEF RunOver, Finishes
<1> QED
  BY <1>1, <1>2, <1>3, <1>4, <1>5, <1>6, <1>7, <1>8 DEF RunStep

\* A step of a run leaves the cancellations of the others alone.
LEMMA RunCancels ==
  ASSUME NEW r \in Runs, RunStep(r)
  PROVE  cancelled' \in {cancelled, cancelled \ {r}}
  BY DEF RunStep, RunBegins, MountKnown, GuidingBegins, RunFails, GivesUp, GuideStep, LosesStar, FrameLate, Restarts,
         Restarted, RunCancelled, RunOver, taskVars

LEMMA RunStray ==
  ASSUME TaskTypeOK, StrayRunsEnd, NEW r \in Runs, RunStep(r)
  PROVE  StrayRunsEnd'
<1>1. CASE Over(r)
  BY <1>1, RunCancels DEF Over, Goes, StrayRunsEnd, TaskTypeOK, Live
<1>2. ASSUME NEW place \in {"mount", "select", "guide", "refit", "retry", "restart", "finish"},
             run' = [run EXCEPT ![r] = place], UNCHANGED task,
             r \in cancelled \ cancelled' => place = "finish" \/ r \in deaf', deaf \subseteq deaf',
             run[r] # "finish", r \in Live
      PROVE  StrayRunsEnd'
  BY <1>2, RunCancels DEF StrayRunsEnd, TaskTypeOK, Live
<1>3. run[r] # "none" /\ (run[r] = "finish" => Over(r))
  <2>1. CASE RunCancelled(r)
    BY <2>1, Distinct DEF RunCancelled, TaskTypeOK, Live, Shown
  <2>2. CASE RunOver(r)
    BY <2>2 DEF RunOver, Finishes, At
  <2>3. CASE RunBegins(r) \/ MountKnown(r) \/ GuidingBegins(r) \/ RunFails(r)
    BY <2>3 DEF RunBegins, MountKnown, GuidingBegins, RunFails, At
  <2>4. CASE GuideStep(r) \/ LosesStar(r) \/ FrameLate(r) \/ Restarts(r) \/ Restarted(r)
    BY <2>4 DEF FrameLate, GuideStep, LosesStar, Restarts, Restarted, At
  <2> QED
    BY <2>1, <2>2, <2>3, <2>4 DEF RunStep
<1> QED
  BY <1>1, <1>2, <1>3, RunEffect DEF Live

-----------------------------------------------------------------------------
(* Whose the stream is. *)

LEMMA ClientStream ==
  ASSUME GuiderTypeOK, StreamInv, NEW c \in Clients, ClientForms(c)
  PROVE  StreamInv'
<1> USE Distinct DEF StreamInv, GuiderTypeOK, streamVars
<1>1. CASE Cancels(c)
  BY <1>1 DEF Cancels, Stops, Returns, CallTypeOK
<1>2. CASE Begins(c)
  <2>1. PICK wait \in BOOLEAN : Creates(c, wait)
    BY <1>2 DEF Begins
  <2>2. PICK r \in UnusedRuns : run' = [run EXCEPT ![r] = "created"]
    BY <2>1 DEF Creates
  <2>3. stream # r /\ sub # r
    BY <2>2 DEF UnusedRuns, Live
  <2>4. \A d \in Clients : d # c => call'[d] = call[d]
    BY <2>1 DEF Creates, BeginSettle, Awaits, Returns, CallTypeOK
  <2> QED
    BY <1>2, <2>1, <2>2, <2>3, <2>4 DEF Begins, Creates, TaskTypeOK
<1>3. CASE Asks(c)
  <2>1. \A d \in Clients : d # c => call'[d] = call[d]
    BY <1>3 DEF Asks, BeginSettle, Awaits, Returns, CallTypeOK
  <2> QED
    BY <1>3, <2>1 DEF Asks, taskVars
<1>4. CASE Hides(c)
  BY <1>4 DEF Hides, StopsPreview, CallTypeOK
<1>5. CASE Moves(c)
  BY <1>5 DEF Moves, CallTypeOK, taskVars
<1>6. CASE Darkens(c)
  BY <1>6 DEF Darkens, BeginsDark, StopsStream, Awaits, CallTypeOK, taskVars
<1>7. CASE Settled(c)
  BY <1>7 DEF Settled, Returns, CallTypeOK, taskVars
<1>8. CASE Pause(c) \/ Resume(c)
  BY <1>8 DEF Pause, Resume, taskVars
<1>9. CASE PreviewBegins(c)
  BY <1>9 DEF PreviewBegins, Returns, UnusedPreviews, Shown, TaskTypeOK, CallTypeOK
<1>10. CASE DarkEnds(c) \/ DarkCloses(c)
  BY <1>10 DEF DarkEnds, DarkCloses, StopsStream, Awaits, Returns, CallTypeOK, taskVars
<1> QED
  BY <1>1, <1>2, <1>3, <1>4, <1>5, <1>6, <1>7, <1>8, <1>9, <1>10 DEF ClientForms

LEMMA OtherStream ==
  ASSUME GuiderTypeOK, StreamInv,
         \/ \E p \in Previews : PreviewStep(p)
         \/ \E u \in Runs \cup Previews \cup Clients : StreamStopped(u)
         \/ StreamFails
  PROVE  StreamInv'
<1> USE Distinct DEF GuiderTypeOK, StreamInv, TaskTypeOK, taskVars
<1>1. ASSUME NEW p \in Previews, PreviewStep(p)
      PROVE  StreamInv'
  <2>1. CASE PreviewStarts(p)
    BY <2>1 DEF PreviewStarts, StopsStream
  <2>2. CASE PreviewEnds(p)
    BY <2>2 DEF PreviewEnds, StopsStream
  <2>3. CASE PreviewOver(p)
    BY <2>3 DEF PreviewOver, streamVars
  <2> QED
    BY <1>1, <2>1, <2>2, <2>3 DEF PreviewStep
<1>2. CASE StreamFails
  BY <1>2 DEF StreamFails
<1>3. CASE \E u \in Runs \cup Previews \cup Clients : StreamStopped(u)
  BY <1>3 DEF StreamStopped
<1> QED
  BY <1>1, <1>2, <1>3

LEMMA RunStream ==
  ASSUME GuiderTypeOK, StreamInv, NEW r \in Runs, RunStep(r)
  PROVE  StreamInv'
<1> USE Distinct DEF GuiderTypeOK, StreamInv, TaskTypeOK, taskVars, streamVars, Goes, At, Over, StopsStream
<1>1. CASE RunBegins(r)
  BY <1>1 DEF RunBegins, Finishes
<1>2. CASE MountKnown(r)
  BY <1>2 DEF MountKnown, GivesUp, BeginsFinish
<1>3. CASE GuidingBegins(r) \/ RunFails(r) \/ FrameLate(r)
  BY <1>3 DEF GuidingBegins, RunFails, GivesUp, BeginsFinish, FrameLate
<1>4. CASE GuideStep(r) \/ LosesStar(r)
  BY <1>4 DEF GuideStep, LosesStar
<1>5. CASE Restarts(r)
  BY <1>5 DEF Restarts, Resubscribes
<1>6. CASE Restarted(r)
  BY <1>6 DEF Restarted, Resubscribes, RestartRefused, BeginsFinish
<1>7. CASE RunCancelled(r)
  BY <1>7 DEF RunCancelled, BeginsFinish
<1>8. CASE RunOver(r)
  BY <1>8 DEF RunOver, Finishes
<1> QED
  BY <1>1, <1>2, <1>3, <1>4, <1>5, <1>6, <1>7, <1>8 DEF RunStep

-----------------------------------------------------------------------------
(* Whose the pending request is. *)

\* The two parts of SettleInv about requests, for steps that end the pending one or leave it.
LEMMA EndSettleKeeps ==
  ASSUME GuiderTypeOK, SettleInv, UNCHANGED call, ~disturbed,
         \/ UNCHANGED <<settle, outcome>>
         \/ \E result \in {"ok", "failed"} : EndSettle(result)
  PROVE  /\ \A c \in Clients : call'[c].at = "settle" => call'[c].on \in Requests
         /\ \A c \in Clients : call'[c].at = "settle" /\ outcome'[call'[c].on] = "pending" => settle' = call'[c].on
<1>1. CASE UNCHANGED <<settle, outcome>>
  BY <1>1 DEF SettleInv
<1>2. ASSUME NEW result \in {"ok", "failed"}, EndSettle(result)
      PROVE  \A c \in Clients : call[c].at = "settle" => outcome'[call[c].on] # "pending"
  <2> TAKE c \in Clients
  <2> HAVE call[c].at = "settle"
  <2>1. call[c].on \in Requests /\ call[c].on \in Awaited
    BY DEF SettleInv, Awaited
  <2>2. CASE call[c].on = settle
    BY <1>2, <2>1, <2>2, Distinct DEF EndSettle, GuiderTypeOK, CallTypeOK
  <2>3. CASE call[c].on # settle
    BY <1>2, <2>1, <2>3, Distinct DEF EndSettle, GuiderTypeOK, CallTypeOK, SettleInv
  <2> QED
    BY <2>2, <2>3
<1> QED
  BY <1>1, <1>2 DEF SettleInv

\* For steps that make a request when none is pending.
LEMMA BeginSettleKeeps ==
  ASSUME GuiderTypeOK, SettleInv, ~disturbed, settle = None,
         NEW c \in Clients, NEW wait \in BOOLEAN, NEW started \in BOOLEAN, BeginSettle(c, wait, started)
  PROVE  /\ \A d \in Clients : call'[d].at = "settle" => call'[d].on \in Requests
         /\ \A d \in Clients : call'[d].at = "settle" /\ outcome'[call'[d].on] = "pending" => settle' = call'[d].on
<1>1. PICK q \in UnusedRequests :
        /\ settle' = q
        /\ outcome' = [o \in Requests |-> CASE o = q -> "pending"
                         [] o = settle /\ settle \notin Awaited -> "none"
                         [] OTHER -> outcome[o]]
        /\ IF wait THEN Awaits(c, "settle", q) ELSE Returns(c)
  BY DEF BeginSettle
<1>2. q \in Requests /\ \A o \in Requests : o # settle
  BY Distinct DEF UnusedRequests
<1>3. \A o \in Requests : outcome'[o] = IF o = q THEN "pending" ELSE outcome[o]
  BY <1>1, <1>2
<1>4. \A d \in Clients : d # c => call'[d] = call[d]
  BY <1>1 DEF Awaits, Returns, GuiderTypeOK, CallTypeOK
<1>5. call'[c].at = "settle" => call'[c].on = q
  BY <1>1 DEF Awaits, Returns, NoCall, GuiderTypeOK, CallTypeOK
<1>6. \A d \in Clients : call'[d].at = "settle" => call'[d].on \in Requests
  BY <1>2, <1>4, <1>5 DEF SettleInv
<1>7. ASSUME NEW d \in Clients, call'[d].at = "settle", outcome'[call'[d].on] = "pending", d # c
      PROVE  call'[d].on = q
  <2>1. call[d].at = "settle" /\ call[d].on \in Requests /\ call'[d].on = call[d].on
    BY <1>4, <1>7 DEF SettleInv
  <2>2. outcome[call[d].on] # "pending"
    BY <1>2, <2>1 DEF SettleInv
  <2> QED
    BY <1>3, <1>7, <2>1, <2>2
<1> QED
  BY <1>1, <1>5, <1>6, <1>7

\* Where nothing waits for a request that did not before, and no request is made.
LEMMA SameSettle ==
  ASSUME GuiderTypeOK, SettleInv, UNCHANGED <<settle, outcome, run, cancelled, disturbed>>,
         \A c \in Clients : call'[c].at # "settle" \/ call'[c] = call[c]
  PROVE  SettleInv'
  BY DEF SettleInv, Live

LEMMA ClientSettle ==
  ASSUME GuiderTypeOK, SettleInv, NEW c \in Clients, ClientForms(c)
  PROVE  SettleInv'
<1> USE DEF taskVars, streamVars, guideVars, settleVars, history
<1>1. CASE Cancels(c)
  <2>1. PICK place \in {"guideStop", "stop"}, again, wait \in BOOLEAN : Stops(c, place, again, wait)
    BY <1>1 DEF Cancels
  <2>2. \A d \in Clients : call'[d].at # "settle" \/ call'[d] = call[d]
    BY <1>1, <2>1 DEF Cancels, Stops, GuiderTypeOK, CallTypeOK
  <2>3. disturbed' = (disturbed \/ run[task] \in {"created", "refit", "restart", "finish"})
    BY <1>1, <2>1 DEF Cancels, Stops
  <2>4. cancelled' = cancelled \cup {task} /\ UNCHANGED <<run, settle, outcome>>
    BY <1>1, <2>1 DEF Cancels, Stops
  <2> QED
    BY <2>2, <2>3, <2>4 DEF SettleInv, Live
<1>2. CASE Begins(c)
  <2>1. PICK wait \in BOOLEAN : Creates(c, wait)
    BY <1>2 DEF Begins
  <2>2. PICK r \in UnusedRuns : run' = [run EXCEPT ![r] = "created"]
    BY <2>1 DEF Creates
  <2>3. r \in Runs /\ r \notin Live /\ r \notin cancelled
    BY <2>2, Distinct DEF UnusedRuns, GuiderTypeOK, TaskTypeOK, Shown
  <2>4. disturbed' = (disturbed \/ Live # {}) /\ cancelled' = cancelled /\ BeginSettle(c, wait, FALSE)
    BY <2>1 DEF Creates
  <2>5. \A d \in Clients : call'[d].at = "settle" => call'[d].on \in Requests
    <3>1. PICK q \in Requests : IF wait THEN Awaits(c, "settle", q) ELSE Returns(c)
      BY <2>4 DEF BeginSettle, UnusedRequests
    <3> QED
      BY <3>1 DEF Awaits, Returns, NoCall, GuiderTypeOK, CallTypeOK, SettleInv
  <2>6. CASE disturbed'
    BY <2>5, <2>6 DEF SettleInv
  <2>7. CASE ~disturbed'
    <3>1. ~disturbed /\ Live = {} /\ settle = None
      BY <2>4, <2>7 DEF SettleInv
    <3>2. \A d \in Clients : call'[d].at = "settle" /\ outcome'[call'[d].on] = "pending" => settle' = call'[d].on
      BY <2>4, <3>1, BeginSettleKeeps
    <3>3. Live' # {}
      BY <2>2, <2>3 DEF Live, GuiderTypeOK, TaskTypeOK
    <3>4. \A o \in Runs \cap cancelled' : run'[o] \notin {"created", "refit", "restart", "finish"}
      BY <2>2, <2>3, <2>4, <3>1 DEF SettleInv, GuiderTypeOK, TaskTypeOK
    <3> QED
      BY <2>5, <3>2, <3>3, <3>4 DEF SettleInv
  <2> QED
    BY <2>6, <2>7
<1>3. CASE Asks(c)
  <2>1. PICK wait \in BOOLEAN : BeginSettle(c, wait, TRUE)
    BY <1>3 DEF Asks
  <2>2. UNCHANGED <<run, cancelled, disturbed>> /\ settle = None /\ Live # {}
    BY <1>3 DEF Asks, Running, GuiderTypeOK, TaskTypeOK
  <2>3. \A d \in Clients : call'[d].at = "settle" => call'[d].on \in Requests
    <3>1. PICK q \in Requests : IF wait THEN Awaits(c, "settle", q) ELSE Returns(c)
      BY <2>1 DEF BeginSettle, UnusedRequests
    <3> QED
      BY <3>1 DEF Awaits, Returns, NoCall, GuiderTypeOK, CallTypeOK, SettleInv
  <2>4. CASE disturbed
    BY <2>2, <2>3, <2>4 DEF SettleInv
  <2>5. CASE ~disturbed
    BY <2>1, <2>2, <2>5, BeginSettleKeeps DEF SettleInv, Live
  <2> QED
    BY <2>4, <2>5
<1>4. CASE Hides(c)
  <2>1. UNCHANGED <<settle, outcome, run, disturbed>> /\ \A d \in Clients : call'[d].at # "settle" \/ call'[d] = call[d]
    BY <1>4 DEF Hides, StopsPreview, GuiderTypeOK, CallTypeOK
  <2>2. Runs \cap cancelled' = Runs \cap cancelled
    BY <1>4, Distinct DEF Hides, StopsPreview, Previewing, GuiderTypeOK, TaskTypeOK, Shown
  <2> QED
    BY <2>1, <2>2 DEF SettleInv, Live
<1>5. CASE Moves(c)
  <2>1. \A d \in Clients : call'[d].at # "settle" \/ call'[d] = call[d]
    BY <1>5 DEF Moves, GuiderTypeOK, CallTypeOK
  <2> QED
    BY <1>5, <2>1, SameSettle DEF Moves
<1>6. CASE Darkens(c)
  <2>1. \A d \in Clients : call'[d].at # "settle" \/ call'[d] = call[d]
    BY <1>6 DEF Darkens, BeginsDark, Awaits, GuiderTypeOK, CallTypeOK
  <2> QED
    BY <1>6, <2>1, SameSettle DEF Darkens, BeginsDark
<1>7. CASE Settled(c)
  <2>1. \A d \in Clients : call'[d].at # "settle" \/ (call'[d] = call[d] /\ call[d].at = "settle")
    BY <1>7 DEF Settled, Returns, NoCall, GuiderTypeOK, CallTypeOK
  <2>2. \A o \in Requests : outcome'[o] \in {"none", outcome[o]}
    BY <1>7 DEF Settled, GuiderTypeOK, CallTypeOK
  <2> QED
    BY <1>7, <2>1, <2>2 DEF Settled, SettleInv, Live
<1>8. CASE Pause(c) \/ Resume(c)
  BY <1>8, SameSettle DEF Pause, Resume
<1>9. CASE PreviewBegins(c)
  <2>1. \A d \in Clients : call'[d].at # "settle" \/ call'[d] = call[d]
    BY <1>9 DEF PreviewBegins, Returns, NoCall, GuiderTypeOK, CallTypeOK
  <2> QED
    BY <1>9, <2>1, SameSettle DEF PreviewBegins
<1>10. CASE DarkEnds(c) \/ DarkCloses(c)
  <2>1. \A d \in Clients : call'[d].at # "settle" \/ call'[d] = call[d]
    BY <1>10 DEF DarkEnds, DarkCloses, Awaits, Returns, NoCall, GuiderTypeOK, CallTypeOK
  <2> QED
    BY <1>10, <2>1, SameSettle DEF DarkEnds, DarkCloses
<1> QED
  BY <1>1, <1>2, <1>3, <1>4, <1>5, <1>6, <1>7, <1>8, <1>9, <1>10 DEF ClientForms

LEMMA OtherSettle ==
  ASSUME GuiderTypeOK, SettleInv,
         \/ \E p \in Previews : PreviewStep(p)
         \/ \E u \in Runs \cup Previews \cup Clients : StreamStopped(u)
         \/ StreamFails
  PROVE  SettleInv'
<1> USE DEF taskVars, settleVars, history
<1>1. UNCHANGED <<settle, outcome, run, disturbed, call>>
  BY DEF PreviewStep, PreviewStarts, PreviewEnds, PreviewOver, StreamStopped, StreamFails
<1>2. cancelled' \subseteq cancelled
  BY DEF PreviewStep, PreviewStarts, PreviewEnds, PreviewOver, StreamStopped, StreamFails
<1> QED
  BY <1>1, <1>2 DEF SettleInv, Live

LEMMA RunSettle ==
  ASSUME GuiderTypeOK, SettleInv, NEW r \in Runs, RunStep(r)
  PROVE  SettleInv'
<1> USE DEF taskVars, streamVars, guideVars, settleVars, history
<1>1. UNCHANGED <<call, disturbed>> /\ (UNCHANGED <<settle, outcome>> \/ \E result \in {"ok", "failed"} : EndSettle(result))
  <2>1. CASE RunBegins(r) \/ RunOver(r)
    BY <2>1 DEF RunBegins, RunOver, Finishes
  <2>2. CASE GuideStep(r) \/ LosesStar(r)
    BY <2>2 DEF GuideStep, LosesStar
  <2>3. CASE MountKnown(r) \/ GuidingBegins(r) \/ RunFails(r) \/ FrameLate(r) \/ Restarts(r)
    BY <2>3 DEF MountKnown, GuidingBegins, RunFails, GivesUp, FrameLate, Restarts
  <2>4. CASE Restarted(r) \/ RunCancelled(r)
    BY <2>4 DEF Restarted, RunCancelled
  <2> QED
    BY <2>1, <2>2, <2>3, <2>4 DEF RunStep
<1>2. CASE disturbed
  BY <1>1, <1>2 DEF SettleInv
<1>3. CASE ~disturbed
  <2>1. /\ \A c \in Clients : call'[c].at = "settle" => call'[c].on \in Requests
        /\ \A c \in Clients : call'[c].at = "settle" /\ outcome'[call'[c].on] = "pending" => settle' = call'[c].on
    BY <1>1, <1>3, EndSettleKeeps
  <2>2. \A o \in Runs \cap cancelled' : run'[o] \notin {"created", "refit", "restart", "finish"}
    <3>1. CASE r \notin cancelled'
      <4>1. \A o \in Runs : o # r => run'[o] = run[o]
        BY RunEffect DEF Over, Goes, GuiderTypeOK, TaskTypeOK
      <4> QED
        BY <1>3, <3>1, <4>1, RunCancels DEF SettleInv
    <3>2. CASE r \in cancelled'
      <4>1. r \in cancelled /\ run[r] \notin {"created", "refit", "restart", "finish"}
        BY <1>3, <3>2, RunCancels DEF SettleInv
      <4>2. CASE RunCancelled(r)
        BY <3>2, <4>2 DEF RunCancelled
      <4> QED
        BY <4>1, <4>2 DEF RunStep, RunBegins, MountKnown, GuidingBegins, RunFails, GuideStep, LosesStar, FrameLate,
                          Restarts, Restarted, RunOver, At
    <3> QED
      BY <3>1, <3>2
  <2>3. settle' # None => Live' # {}
    <3>1. CASE Over(r)
      <4>1. CASE RunCancelled(r)
        <5>1. run[r] \in {"mount", "select", "guide", "retry"} \cup {"none"}
          BY <1>3, <4>1 DEF RunCancelled, SettleInv, GuiderTypeOK, TaskTypeOK
        <5>2. run'[r] = "finish"
          BY <4>1, <5>1 DEF RunCancelled, BeginsFinish, Goes, GuiderTypeOK, TaskTypeOK
        <5> QED
          BY <3>1, <5>2 DEF Over, Goes, GuiderTypeOK, TaskTypeOK
      <4>2. CASE RunBegins(r) \/ RunOver(r)
        BY <3>1, <4>2 DEF RunBegins, RunOver, Finishes, EndSettle, Over, Goes, GuiderTypeOK, TaskTypeOK
      <4>3. CASE GuideStep(r) \/ LosesStar(r)
        BY <3>1, <4>3 DEF GuideStep, LosesStar, Over, Goes, At, GuiderTypeOK, TaskTypeOK
      <4>4. CASE MountKnown(r) \/ GuidingBegins(r) \/ RunFails(r) \/ FrameLate(r)
        BY <3>1, <4>4 DEF MountKnown, GuidingBegins, RunFails, GivesUp, BeginsFinish, FrameLate, Over, Goes, GuiderTypeOK, TaskTypeOK
      <4>5. CASE Restarts(r) \/ Restarted(r)
        BY <3>1, <4>5 DEF Restarts, Restarted, Resubscribes, RestartRefused, BeginsFinish, Over, Goes, GuiderTypeOK, TaskTypeOK
      <4> QED
        BY <4>1, <4>2, <4>3, <4>4, <4>5 DEF RunStep
    <3>2. CASE ~Over(r)
      BY <3>2, RunEffect DEF GuiderTypeOK, TaskTypeOK, Live
    <3> QED
      BY <3>1, <3>2
  <2> QED
    BY <1>1, <2>1, <2>2, <2>3 DEF SettleInv
<1> QED
  BY <1>2, <1>3

-----------------------------------------------------------------------------
(* What health tells. *)

\* A run that guides, restarts its stream to go on guiding, or is about to report its end.
Reports(r) == run[r] = "finish" \/ (run[r] \in {"guide", "refit"} /\ r \in begun)

LEMMA ClientHealth ==
  ASSUME GuiderTypeOK, HealthInv, NEW c \in Clients, ClientForms(c)
  PROVE  HealthInv'
<1> USE DEF taskVars, guideVars, history, HealthInv, Live
<1>1. CASE Cancels(c)
  <2>1. UNCHANGED <<run, begun, guiding>> /\ (disturbed => disturbed')
    BY <1>1 DEF Cancels, Stops
  <2> QED
    BY <2>1
<1>2. CASE Begins(c)
  <2>1. PICK r \in UnusedRuns : run' = [run EXCEPT ![r] = "created"]
    BY <1>2 DEF Begins, Creates
  <2>2. r \in Runs /\ run[r] = "none" /\ UNCHANGED <<begun, guiding>> /\ (disturbed => disturbed')
    BY <1>2, <2>1 DEF Begins, Creates, UnusedRuns
  <2> QED
    BY <2>1, <2>2 DEF GuiderTypeOK, TaskTypeOK
<1>3. CASE Pause(c) \/ Resume(c)
  BY <1>3 DEF Pause, Resume
<1>4. CASE Hides(c) \/ PreviewBegins(c)
  BY <1>4 DEF Hides, StopsPreview, PreviewBegins
<1>5. CASE Asks(c) \/ Moves(c) \/ Darkens(c) \/ Settled(c) \/ DarkEnds(c) \/ DarkCloses(c)
  <2>1. UNCHANGED <<run, begun, guiding, disturbed>>
    BY <1>5 DEF Asks, Moves, Darkens, BeginsDark, Settled, DarkEnds, DarkCloses
  <2> QED
    BY <2>1
<1> QED
  BY <1>1, <1>2, <1>3, <1>4, <1>5 DEF ClientForms

LEMMA OtherHealth ==
  ASSUME HealthInv,
         \/ \E p \in Previews : PreviewStep(p)
         \/ \E u \in Runs \cup Previews \cup Clients : StreamStopped(u)
         \/ StreamFails
  PROVE  HealthInv'
<1>1. UNCHANGED <<run, begun, guiding, disturbed>>
  BY DEF PreviewStep, PreviewStarts, PreviewEnds, PreviewOver, StreamStopped, StreamFails, taskVars, guideVars, history
<1> QED
  BY <1>1 DEF HealthInv, Live

\* The other runs are not touched: it is enough that this one goes on reporting, if it did.
LEMMA ReportsOn ==
  ASSUME GuiderTypeOK, HealthInv, NEW r \in Runs, NEW place \in {"mount", "select", "guide", "refit", "retry", "restart", "finish"},
         run' = [run EXCEPT ![r] = place], begun' \in {begun, begun \cup {r}},
         place = "guide" => r \in begun',
         guiding' => guiding \/ Reports(r)',
         guiding' /\ Reports(r) => Reports(r)',
         disturbed' = disturbed
  PROVE  HealthInv'
<1>1. \A o \in Runs : run'[o] = "guide" => o \in begun'
  BY DEF HealthInv, GuiderTypeOK, TaskTypeOK
<1>2. ASSUME ~disturbed', guiding'
      PROVE  \E o \in Runs : run'[o] # "none" /\ Reports(o)'
  <2>1. CASE Reports(r)'
    BY <2>1 DEF GuiderTypeOK, TaskTypeOK
  <2>2. CASE ~Reports(r)'
    <3>1. PICK o \in Live : Reports(o)
      BY <1>2, <2>2 DEF HealthInv, Reports
    <3>2. o # r
      BY <1>2, <2>2, <3>1
    <3> QED
      BY <3>1, <3>2 DEF Reports, Live, GuiderTypeOK, TaskTypeOK
  <2> QED
    BY <2>1, <2>2
<1> QED
  BY <1>1, <1>2 DEF HealthInv, Reports, Live

LEMMA RunHealth ==
  ASSUME GuiderTypeOK, SettleInv, HealthInv, NEW r \in Runs, RunStep(r)
  PROVE  HealthInv'
<1> USE DEF taskVars, streamVars, guideVars, settleVars, history, Goes, At
<1>1. CASE Over(r) /\ (guiding' = FALSE \/ disturbed')
  BY <1>1 DEF Over, HealthInv, Live, GuiderTypeOK, TaskTypeOK
<1>2. CASE RunBegins(r)
  <2>1. CASE Goes(r, "mount") /\ UNCHANGED <<begun, guideVars, history>>
    BY <1>2, <2>1, ReportsOn DEF RunBegins, Reports
  <2> QED
    BY <1>1, <1>2, <2>1 DEF RunBegins, Finishes
<1>3. CASE MountKnown(r)
  <2>1. UNCHANGED <<begun, guiding, disturbed>> /\ run[r] = "mount"
    BY <1>3 DEF MountKnown, GivesUp
  <2>2. run' = [run EXCEPT ![r] = "select"] \/ run' = [run EXCEPT ![r] = "finish"]
    BY <1>3 DEF MountKnown, GivesUp, BeginsFinish
  <2> QED
    BY <2>1, <2>2, ReportsOn DEF Reports
<1>4. CASE GuidingBegins(r)
  BY <1>4, ReportsOn DEF GuidingBegins, Reports, GuiderTypeOK, TaskTypeOK
<1>5. CASE RunFails(r)
  <2>1. run' = [run EXCEPT ![r] = "finish"] /\ UNCHANGED <<begun, guiding, disturbed>>
    BY <1>5 DEF RunFails, GivesUp, BeginsFinish
  <2>2. Reports(r)'
    BY <2>1 DEF Reports, GuiderTypeOK, TaskTypeOK
  <2> QED
    BY <2>1, <2>2, ReportsOn
<1>6. CASE GuideStep(r) \/ LosesStar(r)
  <2>1. UNCHANGED <<run, begun, disturbed>> /\ run[r] = "guide"
    BY <1>6 DEF GuideStep, LosesStar
  <2>2. r \in begun
    BY <2>1 DEF HealthInv
  <2> QED
    BY <2>1, <2>2 DEF HealthInv, Live
<1>7. CASE FrameLate(r)
  BY <1>7, ReportsOn DEF FrameLate
<1>8. CASE Restarts(r)
  <2>1. UNCHANGED <<begun, guiding, disturbed>> /\ run[r] \in {"retry", "guide", "select"}
    BY <1>8 DEF Restarts
  <2>2. CASE stream = None /\ Resubscribes(r)
    <3>1. run' = [run EXCEPT ![r] = IF r \in begun THEN "guide" ELSE "select"]
      BY <2>2 DEF Resubscribes
    <3>2. CASE r \in begun
      <4>1. Reports(r)'
        BY <2>1, <3>1, <3>2 DEF Reports, GuiderTypeOK, TaskTypeOK
      <4> QED
        BY <2>1, <3>1, <3>2, <4>1, ReportsOn
    <3>3. CASE r \notin begun
      BY <2>1, <3>1, <3>3, ReportsOn DEF Reports
    <3> QED
      BY <3>2, <3>3
  <2>3. CASE run' = [run EXCEPT ![r] = IF run[r] = "retry" THEN "restart" ELSE "refit"]
    <3>1. Reports(r) => Reports(r)'
      BY <2>1, <2>3 DEF Reports, GuiderTypeOK, TaskTypeOK
    <3> QED
      BY <2>1, <2>3, <3>1, ReportsOn
  <2> QED
    BY <1>8, <2>2, <2>3 DEF Restarts
<1>9. CASE Restarted(r)
  <2>1. UNCHANGED <<begun, guiding, disturbed>> /\ run[r] \in {"refit", "restart"}
    BY <1>9 DEF Restarted
  <2>2. CASE Resubscribes(r)
    <3>1. run' = [run EXCEPT ![r] = IF r \in begun THEN "guide" ELSE "select"]
      BY <2>2 DEF Resubscribes
    <3>2. CASE r \in begun
      <4>1. Reports(r)'
        BY <2>1, <3>1, <3>2 DEF Reports, GuiderTypeOK, TaskTypeOK
      <4> QED
        BY <2>1, <3>1, <3>2, <4>1, ReportsOn
    <3>3. CASE r \notin begun
      BY <2>1, <3>1, <3>3, ReportsOn DEF Reports
    <3> QED
      BY <3>2, <3>3
  <2>3. CASE RestartRefused(r)
    <3>1. CASE run[r] = "restart" /\ run' = [run EXCEPT ![r] = "retry"]
      BY <2>1, <3>1, ReportsOn DEF Reports
    <3>2. CASE run' = [run EXCEPT ![r] = "finish"]
      <4>1. Reports(r)'
        BY <2>1, <3>2 DEF Reports, GuiderTypeOK, TaskTypeOK
      <4> QED
        BY <2>1, <3>2, <4>1, ReportsOn
    <3> QED
      BY <2>3, <3>1, <3>2 DEF RestartRefused, BeginsFinish
  <2> QED
    BY <1>9, <2>2, <2>3 DEF Restarted
<1>10. CASE RunCancelled(r)
  <2>1. CASE run[r] \in {"created", "finish"}
    <3>1. disturbed'
      BY <1>10, <2>1 DEF RunCancelled, SettleInv
    <3> QED
      BY <1>1, <1>10, <2>1, <3>1 DEF RunCancelled
  <2>2. CASE run[r] \notin {"created", "finish"}
    <3>1. run' = [run EXCEPT ![r] = "finish"] /\ UNCHANGED <<begun, guiding, disturbed>>
      BY <1>10, <2>2 DEF RunCancelled, BeginsFinish
    <3>2. Reports(r)'
      BY <3>1 DEF Reports, GuiderTypeOK, TaskTypeOK
    <3> QED
      BY <3>1, <3>2, ReportsOn
  <2> QED
    BY <2>1, <2>2
<1>11. CASE RunOver(r)
  BY <1>1, <1>11 DEF RunOver, Finishes
<1> QED
  BY <1>2, <1>3, <1>4, <1>5, <1>6, <1>7, <1>8, <1>9, <1>10, <1>11 DEF RunStep

-----------------------------------------------------------------------------
(* The theorems. *)

LEMMA InitIInv == GuiderInit => IInv
<1> SUFFICES ASSUME GuiderInit PROVE IInv
  OBVIOUS
<1> USE Distinct DEF GuiderInit
<1>1. TaskTypeOK /\ StreamTypeOK /\ StrayRunsEnd
  BY DEF TaskTypeOK, StreamTypeOK, StrayRunsEnd, Live, Shown
<1>2. CallTypeOK
  <2>1. NoCall \in CallType
    BY DEF NoCall, CallType, Places
  <2>2. call \in [Clients -> CallType]
    BY <2>1
  <2> QED
    BY <2>2 DEF CallTypeOK, CallType
<1>3. StreamInv
  BY DEF StreamInv
<1>4. SettleInv /\ HealthInv
  BY DEF SettleInv, HealthInv, NoCall
<1> QED
  BY <1>1, <1>2, <1>3, <1>4 DEF IInv, GuiderTypeOK

LEMMA NextIInv == IInv /\ [GuiderNext]_vars => IInv'
<1> SUFFICES ASSUME IInv, [GuiderNext]_vars PROVE IInv'
  OBVIOUS
<1> USE DEF IInv
<1>1. ASSUME NEW c \in Clients, ClientStep(c) \/ CallStep(c)
      PROVE  IInv'
  <2>1. ClientForms(c)
    BY <1>1, ClientStepForms, CallStepForms DEF GuiderTypeOK
  <2> QED
    BY <2>1, ClientTypes, ClientStray, ClientStream, ClientSettle, ClientHealth DEF GuiderTypeOK
<1>2. ASSUME NEW r \in Runs, RunStep(r)
      PROVE  IInv'
  BY <1>2, RunTypes, RunStray, RunStream, RunSettle, RunHealth DEF GuiderTypeOK
<1>3. CASE \E p \in Previews : PreviewStep(p)
  BY <1>3, PreviewTypes, TaskStray, OtherStream, OtherSettle, OtherHealth DEF GuiderTypeOK
<1>4. CASE (\E u \in Runs \cup Previews \cup Clients : StreamStopped(u)) \/ StreamFails
  BY <1>4, CameraTypes, TaskStray, OtherStream, OtherSettle, OtherHealth DEF GuiderTypeOK
<1>5. CASE UNCHANGED vars
  BY <1>5 DEF vars, taskVars, streamVars, guideVars, settleVars, history, GuiderTypeOK, TaskTypeOK, StreamTypeOK,
              CallTypeOK, StrayRunsEnd, StreamInv, SettleInv, HealthInv, Live, Shown
<1> QED
  BY <1>1, <1>2, <1>3, <1>4, <1>5 DEF GuiderNext

\* The invariants hold whatever the clients ask for and whenever frames, streams and tasks end.
THEOREM GuiderInvariant == GuiderSpec => []IInv
<1> QED
  BY InitIInv, NextIInv, PTL DEF GuiderSpec

\* Types, and a run that no stop() would find is on its way out: it is cancelled, in _finish(), or one whose
\* restart of the stream swallowed its cancellation (_run, _finish, _restart_stream, stop).
THEOREM StrayRunsAreOnTheirWayOut == GuiderSpec => [](GuiderTypeOK /\ StrayRunsEnd)
<1>1. IInv => GuiderTypeOK /\ StrayRunsEnd
  BY DEF IInv
<1> QED
  BY <1>1, GuiderInvariant, PTL

\* The camera is never left streaming for nobody: who started the stream that is on is in a place from which it
\* stops it (the finally clauses of _run, _preview_loop and capture_dark).
THEOREM StreamHasAnOwner == GuiderSpec => []NoStreamForNobody
<1>1. IInv => NoStreamForNobody
  BY DEF IInv, GuiderTypeOK, StreamTypeOK, StreamInv, NoStreamForNobody, Live, Shown
<1> QED
  BY <1>1, GuiderInvariant, PTL

\* As long as no run was displaced or stopped at a bad moment, the request a caller of guide() or dither() waits for
\* is the pending one, and there is a run that settles it or fails it (_begin_settle, _end_settle, _finish).
THEOREM WaitersHaveARun == GuiderSpec => []WaitersAreServed
<1>1. IInv => WaitersAreServed
  BY Distinct DEF IInv, SettleInv, WaitersAreServed
<1> QED
  BY <1>1, GuiderInvariant, PTL

\* Under the same condition the health the sequencer asks for says guiding only while a run guides, restarts its
\* stream, or is in the _finish() that will report its end.
THEOREM HealthIsARuns == GuiderSpec => []HealthTells
<1>1. IInv => HealthTells
  BY DEF IInv, HealthInv, HealthTells
<1> QED
  BY <1>1, GuiderInvariant, PTL
=============================================================================
