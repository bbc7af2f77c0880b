----------------------------- MODULE Phd2Client -----------------------------
(***************************************************************************)
(* The client of PHD2 (plugins/phd2/client.py): the loop that connects,    *)
(* asks two questions and then reads the socket, the JSON-RPC calls with   *)
(* their timeout, the one settle that may be awaited, and the disconnects. *)
(*                                                                         *)
(* Every loop has its own connection, but _writer, _pending and the settle *)
(* belong to the client: a loop that ends clears them whoever uses them.   *)
(* _connected and _writer change together and are one variable.  PHD2 is   *)
(* external: it answers a call once or never, and sends events at any      *)
(* time, in the order they are read.  What is left out of the events is    *)
(* the statistics and the state shown; the health keeps guiding or not.    *)
(*                                                                         *)
(* Timeouts are 10 s and more, long against a step of the reader: a call   *)
(* does not time out while its answer is there for a loop that reads.      *)
(***************************************************************************)
EXTENDS Naturals, Sequences, FiniteSets

CONSTANTS
  Clients,  \* concurrent callers of guide, dither, pause and the like
  Admins,   \* concurrent callers of reconnect and stop
  Loops,    \* identities for the reconnect loops alive at once
  Calls,    \* identities for the request ids in use at once
  None,
  Buffer    \* bound: messages of PHD2 not yet read, per connection

ASSUME Phd2Assumption ==
  /\ None \notin Clients \cup Admins \cup Loops \cup Calls /\ Buffer \in Nat \ {0}
  /\ Clients \cap Loops = {}

VARIABLES
  loop,      \* where each reconnect loop is
  task,      \* _task: the loop stored there, or None
  cancelled, \* the loops whose cancellation is requested and not yet delivered
  stopped,   \* _stop
  admin,     \* the loop each reconnect() or stop() waits for, and whether it starts another
  writer,    \* _writer: the loop whose connection it is, or None
  link,      \* the messages PHD2 has sent and that loop has not read
  sent,      \* _pending: the connection each pending request was written to, or None
  answer,    \* the future of each request
  asks,      \* the request each caller waits for, or None
  client,    \* where each client is inside its call
  settle,    \* _settle_event: the client whose settle it is, or None
  woken,     \* that event is set
  failed,    \* _settle_error is not None
  dithering, \* _dithering
  guiding,   \* health: guiding
  settled    \* history: PHD2 said done without error since the settle was asked for

loopVars == <<loop, task, cancelled, stopped, admin>>
callVars == <<sent, answer, asks>>
settleVars == <<settle, woken, failed, dithering>>
vars == <<loopVars, writer, link, callVars, client, settleVars, guiding, settled>>

Callers == Clients \cup Loops
Events == [kind : {"settle"}, ok : BOOLEAN] \cup [kind : {"step", "lost", "calibrated", "eof"}]
Answers == [kind : {"answer"}, of : Calls, ok : BOOLEAN]
InLink(l) == {link[l][i] : i \in DOMAIN link[l]}
Answered(k) == \E l \in Loops : \E m \in InLink(l) : m.kind = "answer" /\ m.of = k
UnusedCalls == {k \in Calls : answer[k] = "none" /\ ~Answered(k)}
Live == {l \in Loops : loop[l] # "none"}
UnusedLoops(a) == Loops \ (Live \cup {admin[b].on : b \in Admins \ {a}})
NoAdmin == [on |-> None, start |-> FALSE]
Idle == [at |-> "none", dither |-> FALSE]

Phd2TypeOK ==
  /\ loop \in [Loops -> {"none", "connect", "scale", "state", "read", "calibrated", "sleep"}]
  /\ task \in Loops \cup {None} /\ cancelled \subseteq Live /\ stopped \in BOOLEAN
  /\ \A a \in Admins : admin[a].on \in Loops \cup {None} /\ admin[a].start \in BOOLEAN
  /\ writer \in Live \cup {None}
  /\ \A l \in Loops : InLink(l) \subseteq Events \cup Answers /\ Len(link[l]) <= Buffer + 1
  /\ sent \in [Calls -> Loops \cup {None}]
  /\ answer \in [Calls -> {"none", "waiting", "ok", "error", "lost"}]
  /\ \A k \in Calls : sent[k] # None => answer[k] = "waiting"
  /\ asks \in [Callers -> Calls \cup {None}]
  /\ \A x \in Callers : asks[x] # None => answer[asks[x]] # "none"
  /\ \A c \in Clients : client[c].at \in {"none", "call", "settleCall", "settleWait"}
  /\ settle \in Clients \cup {None} /\ (settle = None => ~woken)
  /\ {woken, failed, dithering, guiding, settled} \subseteq BOOLEAN

Phd2Init ==
  \E l \in Loops :
    /\ loop = [m \in Loops |-> IF m = l THEN "connect" ELSE "none"] /\ task = l
    /\ cancelled = {} /\ stopped = FALSE /\ admin = [a \in Admins |-> NoAdmin]
    /\ writer = None /\ link = [m \in Loops |-> <<>>]
    /\ sent = [k \in Calls |-> None] /\ answer = [k \in Calls |-> "none"]
    /\ asks = [x \in Callers |-> None] /\ client = [c \in Clients |-> Idle]
    /\ settle = None /\ woken = FALSE /\ failed = FALSE /\ dithering = FALSE
    /\ guiding = FALSE /\ settled = FALSE

-----------------------------------------------------------------------------
(* JSON-RPC calls: _call() *)

\* The request is written to a connection and its caller waits.
Calling(x, connection) ==
  \E k \in UnusedCalls :
    /\ sent' = [sent EXCEPT ![k] = connection]
    /\ answer' = [answer EXCEPT ![k] = "waiting"]
    /\ asks' = [asks EXCEPT ![x] = k]

Waits(x) == asks[x] # None
Resolved(x) == Waits(x) /\ answer[asks[x]] # "waiting"

\* The call returns, raises or is cancelled: its id is not pending any more.
CallOver(x) ==
  /\ sent' = [sent EXCEPT ![asks[x]] = None]
  /\ answer' = [answer EXCEPT ![asks[x]] = "none"]
  /\ asks' = [asks EXCEPT ![x] = None]

\* 10 s have passed without the answer being read.
TimedOut(x) ==
  /\ Waits(x) /\ ~Resolved(x)
  /\ \A l \in Loops : loop[l] = "read" => \A m \in InLink(l) : m.kind = "answer" => m.of # asks[x]

-----------------------------------------------------------------------------
(* guide, dither, stop_capture, pause, resume *)

\* A request without settling; it is refused at once while there is no connection.
Ask(c) ==
  /\ client[c] = Idle /\ writer # None
  /\ Calling(c, writer)
  /\ client' = [client EXCEPT ![c].at = "call"]
  /\ UNCHANGED <<loopVars, writer, link, settleVars, guiding, settled>>

\* dither(), or guide() with wait_settle; a second settle is refused.
Settle(c) ==
  /\ client[c] = Idle /\ writer # None /\ settle = None
  /\ Calling(c, writer)
  /\ \E dither \in BOOLEAN :
       /\ dither => ~dithering
       /\ client' = [client EXCEPT ![c] = [at |-> "settleCall", dither |-> dither]]
       /\ dithering' = (dithering \/ dither)
  /\ settle' = c /\ woken' = FALSE /\ failed' = FALSE
  /\ settled' = FALSE
  /\ UNCHANGED <<loopVars, writer, link, guiding>>

\* Seeded fault: the flag and the settle are only given back by a settle that ends well.
ReturnsLeavingSettle(c) ==
  /\ client' = [client EXCEPT ![c] = Idle]
  /\ IF client[c].at = "settleWait" /\ woken /\ ~failed
     THEN settle' = None /\ woken' = FALSE /\ dithering' = (dithering /\ ~client[c].dither)
     ELSE UNCHANGED <<settle, woken, dithering>>
  /\ UNCHANGED <<loopVars, writer, link, failed, guiding, settled>>

\* The finally clauses of _call_and_settle() and dither(), or the end of a plain call.
Returns(c) ==
  /\ client' = [client EXCEPT ![c] = Idle]
  /\ IF client[c].at = "call"
     THEN UNCHANGED <<settle, woken, dithering>>
     ELSE settle' = None /\ woken' = FALSE /\ dithering' = (dithering /\ ~client[c].dither)
  /\ UNCHANGED <<loopVars, writer, link, failed, guiding, settled>>

\* The answer has come, or the connection is lost.
CallReturns(c) ==
  /\ Resolved(c)
  /\ CallOver(c)
  /\ IF client[c].at = "settleCall" /\ answer[asks[c]] = "ok"
     THEN /\ client' = [client EXCEPT ![c].at = "settleWait"]
          /\ UNCHANGED <<loopVars, writer, link, settleVars, guiding, settled>>
     ELSE Returns(c)

CallTimesOut(c) ==
  /\ TimedOut(c)
  /\ CallOver(c)
  /\ Returns(c)

\* The event is set: the call succeeds or fails by what _settle_error says by now.
SettleEnds(c) ==
  /\ client[c].at = "settleWait" /\ woken
  /\ Returns(c)
  /\ UNCHANGED callVars

SettleTimesOut(c) ==
  /\ client[c].at = "settleWait" /\ ~woken
  /\ Returns(c)
  /\ UNCHANGED callVars

\* The caller is cancelled; PHD2 goes on with what it was asked.
ClientCancelled(c) ==
  /\ client[c] # Idle
  /\ IF Waits(c) THEN CallOver(c) ELSE UNCHANGED callVars
  /\ Returns(c)

-----------------------------------------------------------------------------
(* The reconnect loop. *)

\* _on_disconnect(): every pending call fails; the loop's own call, if it was cancelled in one, is over already.
CallsLost(l) ==
  /\ answer' = [k \in Calls |-> IF k = asks[l] THEN "none" ELSE IF sent[k] # None THEN "lost" ELSE answer[k]]
  /\ sent' = [k \in Calls |-> None]
  /\ asks' = [asks EXCEPT ![l] = None]

\* Seeded fault: a disconnect ends the wait for a settle as PHD2 would.
SettleLostAsDone == woken' = (settle # None) /\ UNCHANGED failed

\* Seeded fault: a disconnect forgets the settle.
SettleLostAsleep == UNCHANGED <<woken, failed>>

\* _on_disconnect(): the settle is over, with an error.
SettleLost ==
  /\ woken' = (settle # None)
  /\ failed' = (failed \/ settle # None)

\* Seeded fault: the health is not told of a disconnect.
DisconnectedQuietly(l) == writer' = None /\ CallsLost(l) /\ SettleLost /\ UNCHANGED guiding

Disconnected(l) == writer' = None /\ CallsLost(l) /\ SettleLost /\ guiding' = FALSE

At(l, place) == loop[l] = place /\ l \notin cancelled
Goes(l, place) == loop' = [loop EXCEPT ![l] = place]

\* The socket opens: PHD2 is asked for the pixel scale, before anything is read.
Connects(l) ==
  /\ At(l, "connect")
  /\ Goes(l, "scale")
  /\ writer' = l
  /\ link' = [link EXCEPT ![l] = <<>>]
  /\ Calling(l, l)
  /\ UNCHANGED <<task, cancelled, stopped, admin, client, settleVars, guiding, settled>>

\* The loop comes to its finally clause, from a failed connect or the end of the socket.
LoseLink(l) ==
  /\ Disconnected(l)
  /\ Goes(l, IF stopped THEN "none" ELSE "sleep")
  /\ link' = [link EXCEPT ![l] = <<>>]
  /\ UNCHANGED <<task, cancelled, stopped, admin, client, settle, dithering, settled>>

ConnectFails(l) == At(l, "connect") /\ LoseLink(l)

LoopCallOver(l) == l \notin cancelled /\ (Resolved(l) \/ TimedOut(l))

\* The first question is over: the second, unless the connection is gone.
ScaleAsked(l) ==
  /\ loop[l] = "scale" /\ LoopCallOver(l)
  /\ IF writer = None
     THEN CallOver(l) /\ Goes(l, "read")
     ELSE /\ Goes(l, "state")
          /\ \E k \in UnusedCalls :
               /\ sent' = [sent EXCEPT ![asks[l]] = None, ![k] = writer]
               /\ answer' = [answer EXCEPT ![asks[l]] = "none", ![k] = "waiting"]
               /\ asks' = [asks EXCEPT ![l] = k]
  /\ UNCHANGED <<task, cancelled, stopped, admin, writer, link, client, settleVars, guiding, settled>>

\* The last question is over: now the loop reads; also after the one asked by the reader itself.
LastAsked(l) ==
  /\ loop[l] \in {"state", "calibrated"} /\ LoopCallOver(l)
  /\ CallOver(l)
  /\ Goes(l, "read")
  /\ UNCHANGED <<task, cancelled, stopped, admin, writer, link, client, settleVars, guiding, settled>>

Receives(l, kind) == At(l, "read") /\ link[l] # <<>> /\ Head(link[l]).kind = kind
Consumes(l) == link' = [link EXCEPT ![l] = Tail(@)]

\* An answer is given to the request that is pending under its id, if there is one.
ReadsAnswer(l) ==
  LET m == Head(link[l])
  IN /\ Receives(l, "answer")
     /\ Consumes(l)
     /\ IF sent[m.of] # None
        THEN /\ answer' = [answer EXCEPT ![m.of] = IF m.ok THEN "ok" ELSE "error"]
             /\ sent' = [sent EXCEPT ![m.of] = None]
        ELSE UNCHANGED <<answer, sent>>
     /\ UNCHANGED <<loopVars, writer, asks, client, settleVars, guiding, settled>>

\* SettleDone is taken for the settle that is awaited, whatever it was sent for.
ReadsSettleDone(l) ==
  /\ Receives(l, "settle")
  /\ Consumes(l)
  /\ failed' = ~Head(link[l]).ok
  /\ woken' = (settle # None)
  /\ settled' = (settled \/ (settle # None /\ Head(link[l]).ok))
  /\ UNCHANGED <<loopVars, writer, callVars, client, settle, dithering, guiding>>

\* GuideStep, and the events that end guiding.
ReadsState(l) ==
  /\ Receives(l, "step") \/ Receives(l, "lost")
  /\ Consumes(l)
  /\ guiding' = (Head(link[l]).kind = "step")
  /\ UNCHANGED <<loopVars, writer, callVars, client, settleVars, settled>>

\* CalibrationComplete: the reader asks for the scale and waits for the answer.
ReadsCalibrated(l) ==
  /\ Receives(l, "calibrated")
  /\ Consumes(l)
  /\ IF writer = None THEN UNCHANGED <<loop, callVars>> ELSE Goes(l, "calibrated") /\ Calling(l, writer)
  /\ UNCHANGED <<task, cancelled, stopped, admin, writer, client, settleVars, guiding, settled>>

ReadsEof(l) == Receives(l, "eof") /\ LoseLink(l)

Wakes(l) ==
  /\ At(l, "sleep")
  /\ Goes(l, IF stopped THEN "none" ELSE "connect")
  /\ UNCHANGED <<task, cancelled, stopped, admin, writer, link, callVars, client, settleVars, guiding, settled>>

\* A cancelled loop runs its finally clause, unless it sleeps between two connections or has not begun.
LoopCancelled(l) ==
  /\ l \in cancelled
  /\ cancelled' = cancelled \ {l}
  /\ Goes(l, "none")
  /\ link' = [link EXCEPT ![l] = <<>>]
  /\ \/ loop[l] \in {"sleep", "connect"} /\ UNCHANGED <<writer, guiding, callVars, woken, failed>>
     \/ loop[l] # "sleep" /\ Disconnected(l)
  /\ UNCHANGED <<task, stopped, admin, client, settle, dithering, settled>>

-----------------------------------------------------------------------------
(* reconnect() and stop() *)

\* start(): a new loop, stored in _task.
Starts(a) ==
  \E l \in UnusedLoops(a) :
    /\ Goes(l, "connect")
    /\ task' = l
    /\ stopped' = FALSE

Administer(a) ==
  /\ admin[a] = NoAdmin
  /\ \E start \in BOOLEAN :
       IF task \in Live
       THEN /\ stopped' = TRUE
            /\ cancelled' = cancelled \cup {task}
            /\ admin' = [admin EXCEPT ![a] = [on |-> task, start |-> start]]
            /\ UNCHANGED <<loop, task>>
       ELSE /\ IF start THEN Starts(a) ELSE stopped' = TRUE /\ UNCHANGED <<loop, task>>
            /\ UNCHANGED <<cancelled, admin>>
  /\ UNCHANGED <<writer, link, callVars, client, settleVars, guiding, settled>>

\* The loop that was cancelled is over.
Administered(a) ==
  /\ admin[a].on # None /\ admin[a].on \notin Live
  /\ admin' = [admin EXCEPT ![a] = NoAdmin]
  /\ IF admin[a].start THEN Starts(a) ELSE UNCHANGED <<loop, task, stopped>>
  /\ UNCHANGED <<cancelled, writer, link, callVars, client, settleVars, guiding, settled>>

-----------------------------------------------------------------------------
(* PHD2 *)

Sends(l, m) ==
  /\ loop[l] \in {"scale", "state", "read", "calibrated"}
  /\ [kind |-> "eof"] \notin InLink(l)
  /\ m.kind = "eof" \/ Len(link[l]) < Buffer
  /\ link' = [link EXCEPT ![l] = Append(@, m)]
  /\ UNCHANGED <<loopVars, writer, callVars, client, settleVars, guiding, settled>>

Phd2Answers(k) ==
  /\ sent[k] # None /\ ~Answered(k)
  /\ \E ok \in BOOLEAN : Sends(sent[k], [kind |-> "answer", of |-> k, ok |-> ok])

Phd2Says(l) == \E m \in Events : Sends(l, m)

-----------------------------------------------------------------------------
ClientStep(c) ==
  \/ Ask(c) \/ Settle(c) \/ CallReturns(c) \/ CallTimesOut(c) \/ SettleEnds(c) \/ SettleTimesOut(c)
  \/ ClientCancelled(c)

LoopStep(l) ==
  \/ Connects(l) \/ ConnectFails(l) \/ ScaleAsked(l) \/ LastAsked(l) \/ Wakes(l) \/ LoopCancelled(l)
  \/ ReadsAnswer(l) \/ ReadsSettleDone(l) \/ ReadsState(l) \/ ReadsCalibrated(l) \/ ReadsEof(l)

Phd2Next ==
  \/ \E c \in Clients : ClientStep(c)
  \/ \E l \in Loops : LoopStep(l) \/ Phd2Says(l)
  \/ \E a \in Admins : Administer(a) \/ Administered(a)
  \/ \E k \in Calls : Phd2Answers(k)

Phd2Spec == Phd2Init /\ [][Phd2Next]_vars

-----------------------------------------------------------------------------
(* Properties. *)

\* The one settle, and the flag "a dither is in progress", belong to the call that waits, and are free again
\* however that call ends: answered, refused, timed out, cancelled, disconnected (the finally clauses).
SettleSlot ==
  /\ \A c \in Clients : client[c].at \in {"settleCall", "settleWait"} <=> settle = c
  /\ dithering <=> \E c \in Clients : client[c].dither

\* A dither that is reported done was reported done by PHD2: no disconnect or reconnect looks like it.
OkMeansSettled == woken /\ ~failed => settled

\* Nobody waits for a connection that is gone: every call has failed and the settle has been woken.
NobodyWaitsOnDeadLink ==
  writer = None =>
    /\ \A x \in Callers : Waits(x) => Resolved(x)
    /\ settle # None => woken

\* The health that the sequencer asks for says guiding only while a connection to PHD2 is read, however many
\* loops overlapping calls of reconnect() have left.
HealthNeedsLink == guiding => \E l \in Loops : loop[l] \in {"read", "calibrated"}

\* The health says guiding only while the client says connected.
HealthAgrees == guiding => writer # None

\* PHD2's answer to the questions asked at connect time, or after a calibration, is heard: such a question does
\* not time out while its answer is there to be read.
AnswersAreHeard ==
  [][\A l \in Loops : asks[l] # None /\ asks'[l] # asks[l] /\ answer[asks[l]] = "waiting" =>
       l \in cancelled \/ ~Answered(asks[l])]_vars

\* A client has one connection: reconnect() never leaves a loop that nothing stops.
OneLoop == \A l \in Live : l = task

\* A settle is ended by a SettleDone that was sent after it was asked for: not before PHD2 has answered the request.
SettleIsOwn == \A c \in Clients : client[c].at = "settleCall" /\ woken /\ ~failed => Resolved(c)
=============================================================================
