-------------------------- MODULE Phd2ClientProofs --------------------------
(***************************************************************************)
(* Proofs about Phd2Client, for any number of clients, callers of          *)
(* reconnect, loops, requests and messages not yet read.                   *)
(*                                                                         *)
(* The argument: a request is unanswered exactly while it is pending, and  *)
(* no two callers wait for the same one, so the disconnect that fails what *)
(* is pending reaches every caller; the settle belongs to the client that  *)
(* is inside the call that asked for it.                                   *)
(***************************************************************************)
EXTENDS Phd2Client, TLAPS

\* The part of the types that the argument uses.
SlotTypes ==
  /\ sent \in [Calls -> Loops \cup {None}]
  /\ answer \in [Calls -> {"none", "waiting", "ok", "error", "lost"}]
  /\ asks \in [Callers -> Calls \cup {None}]
  /\ client \in [Clients -> [at : {"none", "call", "settleCall", "settleWait"}, dither : BOOLEAN]]
  /\ writer \in Loops \cup {None}
  /\ settle \in Clients \cup {None}

\* A request that has no answer is pending; each caller has its own.
PendingInv ==
  /\ \A k \in Calls : answer[k] = "waiting" <=> sent[k] # None
  /\ \A x \in Callers : asks[x] # None => answer[asks[x]] # "none"
  /\ \A x, y \in Callers : asks[x] # None /\ asks[x] = asks[y] => x = y

\* Nobody waits without a connection.
DeadLinkInv ==
  writer = None => (\A k \in Calls : sent[k] = None) /\ (settle # None => woken)

\* The settle is the business of the client that asked for it.
SlotInv ==
  /\ \A c \in Clients : client[c].at \in {"settleCall", "settleWait"} <=> settle = c
  /\ \A c \in Clients : client[c].dither => settle = c
  /\ dithering <=> \E c \in Clients : client[c].dither

\* A client waits for an answer inside a call only.
AsksInv == \A c \in Clients : asks[c] # None => client[c].at \in {"call", "settleCall"}

IInv == SlotTypes /\ PendingInv /\ DeadLinkInv /\ SlotInv /\ AsksInv

-----------------------------------------------------------------------------
LEMMA InitIInv == Phd2Init => IInv
  BY Phd2Assumption
  DEF Phd2Init, IInv, SlotTypes, PendingInv, DeadLinkInv, SlotInv, AsksInv, Idle, Callers

\* Steps that touch neither the requests nor the settle.
LEMMA Stutter ==
  ASSUME IInv, UNCHANGED <<callVars, writer, client, settle, woken, dithering>>
  PROVE  IInv'
  BY DEF IInv, callVars, SlotTypes, PendingInv, DeadLinkInv, SlotInv, AsksInv

-----------------------------------------------------------------------------
(* What the operators on requests do. *)

\* A new request is written to a connection.
LEMMA CallingKeeps ==
  ASSUME IInv, NEW x \in Callers, NEW l \in Loops, Calling(x, l)
  PROVE  /\ PendingInv' /\ sent' \in [Calls -> Loops \cup {None}]
         /\ answer' \in [Calls -> {"none", "waiting", "ok", "error", "lost"}]
         /\ asks' \in [Callers -> Calls \cup {None}]
         /\ \A y \in Callers : y # x => asks'[y] = asks[y]
<1>1. PICK k \in UnusedCalls :
        /\ sent' = [sent EXCEPT ![k] = l]
        /\ answer' = [answer EXCEPT ![k] = "waiting"]
        /\ asks' = [asks EXCEPT ![x] = k]
  BY DEF Calling
<1>2. k \in Calls /\ answer[k] = "none" /\ k # None /\ l # None
  BY Phd2Assumption DEF UnusedCalls
<1>3. \A y \in Callers : asks[y] # k
  BY <1>2 DEF IInv, PendingInv
<1> QED
  BY <1>1, <1>2, <1>3 DEF IInv, PendingInv, SlotTypes

\* A request that is over is pending no more.
LEMMA CallOverKeeps ==
  ASSUME IInv, NEW x \in Callers, Waits(x), CallOver(x)
  PROVE  /\ PendingInv' /\ sent' \in [Calls -> Loops \cup {None}]
         /\ answer' \in [Calls -> {"none", "waiting", "ok", "error", "lost"}]
         /\ asks' \in [Callers -> Calls \cup {None}]
         /\ \A k \in Calls : sent[k] = None => sent'[k] = None
         /\ asks'[x] = None /\ \A y \in Callers : y # x => asks'[y] = asks[y]
<1>1. asks[x] \in Calls
  BY DEF Waits, IInv, SlotTypes
<1> QED
  BY <1>1 DEF CallOver, Waits, IInv, PendingInv, SlotTypes

\* A disconnect leaves nothing pending.
LEMMA CallsLostKeeps ==
  ASSUME IInv, NEW l \in Loops, CallsLost(l)
  PROVE  /\ PendingInv' /\ sent' \in [Calls -> Loops \cup {None}]
         /\ answer' \in [Calls -> {"none", "waiting", "ok", "error", "lost"}]
         /\ asks' \in [Callers -> Calls \cup {None}]
         /\ \A k \in Calls : sent'[k] = None
         /\ asks' = [asks EXCEPT ![l] = None]
<1>1. l \in Callers
  BY DEF Callers
<1>2. \A k \in Calls : k # None
  BY Phd2Assumption
<1>3. \A k \in Calls : answer'[k] = IF k = asks[l] THEN "none" ELSE IF sent[k] # None THEN "lost" ELSE answer[k]
  BY DEF CallsLost
<1>4. sent' = [k \in Calls |-> None] /\ asks' = [asks EXCEPT ![l] = None]
  BY DEF CallsLost
<1>5. answer' \in [Calls -> {"none", "waiting", "ok", "error", "lost"}]
  BY DEF CallsLost, IInv, SlotTypes
<1>6. \A k \in Calls : answer'[k] # "waiting"
  BY <1>3 DEF IInv, PendingInv
<1>7. \A x \in Callers : asks'[x] # None => x # l /\ asks'[x] = asks[x] /\ asks[x] # asks[l]
  BY <1>1, <1>4 DEF IInv, SlotTypes, PendingInv
<1>8. \A x \in Callers : asks'[x] # None => answer'[asks'[x]] # "none"
  BY <1>3, <1>7 DEF IInv, SlotTypes, PendingInv
<1>9. \A x, y \in Callers : asks'[x] # None /\ asks'[x] = asks'[y] => x = y
  BY <1>7 DEF IInv, PendingInv
<1> QED
  BY <1>1, <1>4, <1>5, <1>6, <1>8, <1>9 DEF IInv, SlotTypes, PendingInv

\* A call that ends gives the settle back.
LEMMA ReturnsKeeps ==
  ASSUME IInv, NEW c \in Clients, client[c] # Idle, Returns(c)
  PROVE  /\ SlotInv' /\ settle' \in Clients \cup {None}
         /\ client' \in [Clients -> [at : {"none", "call", "settleCall", "settleWait"}, dither : BOOLEAN]]
         /\ (settle' # None => settle' = settle /\ woken' = woken)
<1>1. client' = [client EXCEPT ![c] = Idle] /\ client[c].at \in {"none", "call", "settleCall", "settleWait"}
  BY DEF Returns, IInv, SlotTypes
<1>2. None \notin Clients
  BY Phd2Assumption
<1>3. client[c].at = "none" => ~client[c].dither
  BY DEF IInv, SlotInv
<1>4. client[c].at # "none"
  BY <1>3 DEF IInv, SlotTypes, Idle
<1>5. CASE client[c].at = "call"
  <2>1. UNCHANGED <<settle, woken, dithering>>
    BY <1>5 DEF Returns
  <2>2. settle # c /\ ~client[c].dither
    BY <1>5 DEF IInv, SlotInv
  <2> QED
    BY <1>1, <2>1, <2>2 DEF IInv, SlotTypes, SlotInv, Idle
<1>6. CASE client[c].at # "call"
  <2>1. settle' = None /\ woken' = FALSE /\ dithering' = (dithering /\ ~client[c].dither)
    BY <1>6 DEF Returns
  <2>2. settle = c
    BY <1>1, <1>4, <1>6 DEF IInv, SlotInv
  <2>3. \A d \in Clients : d # c => client[d].at \notin {"settleCall", "settleWait"} /\ ~client[d].dither
    BY <2>2 DEF IInv, SlotInv
  <2>4. \A d \in Clients : ~client'[d].dither /\ client'[d].at \notin {"settleCall", "settleWait"}
    BY <1>1, <2>3 DEF IInv, SlotTypes, Idle
  <2>5. ~dithering'
    BY <2>1, <2>3 DEF IInv, SlotInv
  <2> QED
    BY <1>1, <1>2, <2>1, <2>4, <2>5 DEF IInv, SlotTypes, SlotInv, Idle
<1> QED
  BY <1>5, <1>6

-----------------------------------------------------------------------------
LEMMA AskStep ==
  ASSUME IInv, NEW c \in Clients, Ask(c)
  PROVE  IInv'
<1>1. writer \in Loops /\ Calling(c, writer) /\ UNCHANGED <<writer, settle, woken, dithering>>
      /\ client[c] = Idle /\ client' = [client EXCEPT ![c].at = "call"] /\ c \in Callers
  BY DEF Ask, IInv, SlotTypes, settleVars, Callers
<1>2. SlotInv'
  BY <1>1 DEF IInv, SlotTypes, SlotInv, Idle
<1>3. AsksInv'
  BY <1>1, CallingKeeps DEF IInv, SlotTypes, AsksInv, Callers
<1>4. SlotTypes' /\ PendingInv'
  BY <1>1, CallingKeeps DEF IInv, SlotTypes
<1> QED
  BY <1>1, <1>2, <1>3, <1>4, Phd2Assumption DEF IInv, DeadLinkInv

LEMMA SettleStep ==
  ASSUME IInv, NEW c \in Clients, Settle(c)
  PROVE  IInv'
<1>1. writer \in Loops /\ Calling(c, writer) /\ UNCHANGED writer /\ client[c] = Idle
      /\ settle = None /\ settle' = c /\ c \in Callers
  BY DEF Settle, IInv, SlotTypes, Callers
<1>2. PICK dither \in BOOLEAN :
        /\ client' = [client EXCEPT ![c] = [at |-> "settleCall", dither |-> dither]]
        /\ dithering' = (dithering \/ dither)
  BY DEF Settle
<1>3. \A d \in Clients : ~client[d].dither /\ client[d].at \notin {"settleCall", "settleWait"}
  BY <1>1, Phd2Assumption DEF IInv, SlotInv
<1>4. ~dithering
  BY <1>3 DEF IInv, SlotInv
<1>5. client' \in [Clients -> [at : {"none", "call", "settleCall", "settleWait"}, dither : BOOLEAN]]
  BY <1>2 DEF IInv, SlotTypes
<1>6. \A d \in Clients : client'[d] = IF d = c THEN [at |-> "settleCall", dither |-> dither] ELSE client[d]
  BY <1>2 DEF IInv, SlotTypes
<1>7. SlotInv'
  <2>1. \A d \in Clients : client'[d].at \in {"settleCall", "settleWait"} <=> settle' = d
    BY <1>1, <1>3, <1>6
  <2>2. \A d \in Clients : client'[d].dither => settle' = d
    BY <1>1, <1>3, <1>6
  <2>3. dithering' <=> dither
    BY <1>2, <1>4
  <2>4. (\E d \in Clients : client'[d].dither) <=> dither
    BY <1>3, <1>6
  <2> QED
    BY <2>1, <2>2, <2>3, <2>4 DEF SlotInv
<1>8. AsksInv'
  BY <1>1, <1>6, CallingKeeps DEF IInv, SlotTypes, AsksInv, Callers
<1>9. SlotTypes' /\ PendingInv'
  BY <1>1, <1>5, CallingKeeps DEF IInv, SlotTypes
<1> QED
  BY <1>1, <1>7, <1>8, <1>9, Phd2Assumption DEF IInv, DeadLinkInv

\* The call of a client is over and its settle given back.
LEMMA LeavesStep ==
  ASSUME IInv, NEW c \in Clients, client[c] # Idle, Returns(c),
         (Waits(c) /\ CallOver(c)) \/ (~Waits(c) /\ UNCHANGED callVars)
  PROVE  IInv'
<1>1. c \in Callers /\ UNCHANGED writer
  BY DEF Callers, Returns
<1>2. /\ PendingInv' /\ sent' \in [Calls -> Loops \cup {None}]
      /\ answer' \in [Calls -> {"none", "waiting", "ok", "error", "lost"}]
      /\ asks' \in [Callers -> Calls \cup {None}]
      /\ \A k \in Calls : sent[k] = None => sent'[k] = None
      /\ asks'[c] = None /\ \A y \in Callers : y # c => asks'[y] = asks[y]
  <2>1. CASE Waits(c) /\ CallOver(c)
    BY <1>1, <2>1, CallOverKeeps
  <2>2. CASE ~Waits(c) /\ UNCHANGED callVars
    BY <1>1, <2>2 DEF IInv, SlotTypes, callVars, Waits, PendingInv
  <2> QED
    BY <2>1, <2>2
<1>3. SlotTypes'
  BY <1>1, <1>2, ReturnsKeeps DEF IInv, SlotTypes
<1>4. AsksInv'
  <2>1. client' = [client EXCEPT ![c] = Idle]
    BY DEF Returns
  <2> QED
    BY <1>2, <2>1 DEF IInv, SlotTypes, AsksInv, Callers
<1>5. DeadLinkInv'
  BY <1>1, <1>2, ReturnsKeeps DEF IInv, DeadLinkInv
<1> QED
  BY <1>2, <1>3, <1>4, <1>5, ReturnsKeeps DEF IInv

LEMMA ClientStepInv ==
  ASSUME IInv, NEW c \in Clients, ClientStep(c)
  PROVE  IInv'
<1>0. Waits(c) => client[c] # Idle
  BY DEF IInv, AsksInv, Waits, Idle
<1>1. CASE Ask(c)
  BY <1>1, AskStep
<1>2. CASE Settle(c)
  BY <1>2, SettleStep
<1>3. CASE CallReturns(c) /\ client[c].at = "settleCall" /\ answer[asks[c]] = "ok"
  <2>1. Waits(c) /\ CallOver(c) /\ c \in Callers
    BY <1>3 DEF CallReturns, Resolved, Callers
  <2>2. client' = [client EXCEPT ![c].at = "settleWait"] /\ UNCHANGED <<writer, settle, woken, dithering>>
    BY <1>3 DEF CallReturns, settleVars
  <2>3. SlotInv'
    BY <1>3, <2>2 DEF IInv, SlotTypes, SlotInv
  <2>4. AsksInv'
    BY <2>1, <2>2, CallOverKeeps DEF IInv, SlotTypes, AsksInv, Callers
  <2>5. SlotTypes' /\ PendingInv' /\ DeadLinkInv'
    BY <2>1, <2>2, CallOverKeeps DEF IInv, SlotTypes, DeadLinkInv
  <2> QED
    BY <2>3, <2>4, <2>5 DEF IInv
<1>4. CASE CallReturns(c) /\ ~(client[c].at = "settleCall" /\ answer[asks[c]] = "ok")
  BY <1>0, <1>4, LeavesStep DEF CallReturns, Resolved
<1>5. CASE CallTimesOut(c)
  BY <1>0, <1>5, LeavesStep DEF CallTimesOut, TimedOut
<1>6. CASE SettleEnds(c) \/ SettleTimesOut(c)
  <2>1. ~Waits(c) /\ client[c] # Idle
    BY <1>6 DEF SettleEnds, SettleTimesOut, IInv, AsksInv, Waits, Idle
  <2> QED
    BY <1>6, <2>1, LeavesStep DEF SettleEnds, SettleTimesOut
<1>7. CASE ClientCancelled(c)
  BY <1>7, LeavesStep DEF ClientCancelled
<1> QED
  BY <1>1, <1>2, <1>3, <1>4, <1>5, <1>6, <1>7 DEF ClientStep

-----------------------------------------------------------------------------
(* The loops *)

\* A loop's own requests leave the settle alone, and are no client's.
LEMMA LoopCalls ==
  ASSUME IInv, NEW l \in Loops, PendingInv',
         sent' \in [Calls -> Loops \cup {None}],
         answer' \in [Calls -> {"none", "waiting", "ok", "error", "lost"}],
         asks' \in [Callers -> Calls \cup {None}],
         \A x \in Callers : x # l => asks'[x] = asks[x],
         writer' \in Loops \cup {None},
         writer' = None => writer = None /\ \A k \in Calls : sent[k] = None => sent'[k] = None,
         UNCHANGED <<client, settleVars>>
  PROVE  IInv'
<1>1. SlotTypes' /\ SlotInv'
  BY DEF IInv, SlotTypes, SlotInv, settleVars
<1>2. AsksInv'
  BY Phd2Assumption DEF IInv, AsksInv, Callers
<1>3. DeadLinkInv'
  BY DEF IInv, DeadLinkInv, settleVars
<1> QED
  BY <1>1, <1>2, <1>3 DEF IInv

\* A connection is lost: nothing is pending and the settle is woken.
LEMMA DisconnectedStep ==
  ASSUME IInv, NEW l \in Loops, Disconnected(l), UNCHANGED <<client, settle, dithering>>
  PROVE  IInv'
<1>1. writer' = None /\ CallsLost(l) /\ woken' = (settle # None)
  BY DEF Disconnected, SettleLost
<1>2. SlotTypes' /\ PendingInv' /\ DeadLinkInv' /\ SlotInv'
  BY <1>1, CallsLostKeeps DEF IInv, SlotTypes, SlotInv, DeadLinkInv
<1>3. AsksInv'
  BY <1>1, CallsLostKeeps, Phd2Assumption DEF IInv, SlotTypes, AsksInv, Callers
<1> QED
  BY <1>2, <1>3 DEF IInv

LEMMA LoopStepInv ==
  ASSUME IInv, NEW l \in Loops, LoopStep(l)
  PROVE  IInv'
<1>0. l \in Callers /\ None \notin Loops
  BY Phd2Assumption DEF Callers
<1>1. CASE Connects(l)
  <2>1. Calling(l, l) /\ writer' = l /\ UNCHANGED <<client, settleVars>>
    BY <1>1 DEF Connects
  <2> QED
    BY <1>0, <2>1, LoopCalls, CallingKeeps
<1>2. CASE ConnectFails(l) \/ ReadsEof(l)
  BY <1>2, DisconnectedStep DEF ConnectFails, ReadsEof, LoseLink
<1>3. CASE (ScaleAsked(l) /\ writer = None) \/ LastAsked(l)
  <2>1. Waits(l) /\ CallOver(l) /\ UNCHANGED <<writer, client, settleVars>>
    BY <1>3 DEF ScaleAsked, LastAsked, LoopCallOver, Resolved, TimedOut
  <2>2. writer' \in Loops \cup {None} /\ \A x \in Callers : x # l => asks'[x] = asks[x]
    BY <1>0, <2>1, CallOverKeeps DEF IInv, SlotTypes
  <2> QED
    BY <1>0, <2>1, <2>2, LoopCalls, CallOverKeeps
<1>4. CASE ScaleAsked(l) /\ writer # None
  <2>1. PICK k \in UnusedCalls :
          /\ sent' = [sent EXCEPT ![asks[l]] = None, ![k] = writer]
          /\ answer' = [answer EXCEPT ![asks[l]] = "none", ![k] = "waiting"]
          /\ asks' = [asks EXCEPT ![l] = k]
    BY <1>4 DEF ScaleAsked
  <2>2. asks[l] \in Calls /\ asks[l] # None /\ UNCHANGED <<writer, client, settleVars>> /\ writer \in Loops
    BY <1>0, <1>4 DEF ScaleAsked, LoopCallOver, Resolved, TimedOut, Waits, IInv, SlotTypes
  <2>3. k \in Calls /\ answer[k] = "none" /\ k # asks[l] /\ k # None
    BY <1>0, <2>2, Phd2Assumption DEF UnusedCalls, IInv, PendingInv
  <2>4. \A x \in Callers : asks[x] # k
    BY <2>3 DEF IInv, PendingInv
  <2>5. sent' \in [Calls -> Loops \cup {None}] /\ asks' \in [Callers -> Calls \cup {None}]
        /\ answer' \in [Calls -> {"none", "waiting", "ok", "error", "lost"}]
    BY <2>1, <2>2, <2>3 DEF IInv, SlotTypes
  <2>6. \A x \in Callers : asks'[x] = IF x = l THEN k ELSE asks[x]
    BY <2>1 DEF IInv, SlotTypes
  <2>7. \A j \in Calls :
          /\ sent'[j] = IF j = k THEN writer ELSE IF j = asks[l] THEN None ELSE sent[j]
          /\ answer'[j] = IF j = k THEN "waiting" ELSE IF j = asks[l] THEN "none" ELSE answer[j]
    BY <2>1, <2>2, <2>3 DEF IInv, SlotTypes
  <2>8. \A j \in Calls : answer'[j] = "waiting" <=> sent'[j] # None
    BY <1>0, <2>2, <2>7 DEF IInv, PendingInv
  <2>9. \A x \in Callers : asks'[x] # None => answer'[asks'[x]] # "none"
    <3> SUFFICES ASSUME NEW x \in Callers, asks'[x] # None PROVE answer'[asks'[x]] # "none"
      OBVIOUS
    <3>1. CASE x = l
      BY <2>3, <2>6, <2>7, <3>1
    <3>2. CASE x # l
      <4>1. asks'[x] = asks[x] /\ asks[x] \in Calls /\ asks[x] # k
        BY <2>4, <2>6, <3>2 DEF IInv, SlotTypes
      <4>2. asks[x] # asks[l]
        BY <1>0, <2>2, <3>2 DEF IInv, PendingInv
      <4>3. answer[asks[x]] # "none"
        BY <4>1 DEF IInv, PendingInv
      <4> QED
        BY <2>7, <4>1, <4>2, <4>3
    <3> QED
      BY <3>1, <3>2
  <2>10. \A x, y \in Callers : asks'[x] # None /\ asks'[x] = asks'[y] => x = y
    BY <2>4, <2>6 DEF IInv, PendingInv
  <2>11. PendingInv'
    BY <2>8, <2>9, <2>10 DEF PendingInv
  <2> QED
    BY <1>0, <2>2, <2>5, <2>6, <2>11, LoopCalls
<1>5. CASE ReadsAnswer(l)
  <2>1. UNCHANGED <<writer, asks, client, settleVars>>
    BY <1>5 DEF ReadsAnswer
  <2>2. \/ UNCHANGED <<answer, sent>>
        \/ \E k, result : /\ sent[k] # None
                          /\ answer' = [answer EXCEPT ![k] = IF result THEN "ok" ELSE "error"]
                          /\ sent' = [sent EXCEPT ![k] = None]
    BY <1>5, Zenon DEF ReadsAnswer
  <2>3. CASE UNCHANGED <<answer, sent>>
    BY <2>1, <2>3, Stutter DEF callVars, settleVars
  <2>4. ASSUME NEW k, NEW result, sent[k] # None,
               answer' = [answer EXCEPT ![k] = IF result THEN "ok" ELSE "error"],
               sent' = [sent EXCEPT ![k] = None]
        PROVE  IInv'
    <3>1. PendingInv'
      BY <2>1, <2>4 DEF IInv, SlotTypes, PendingInv
    <3>2. sent' \in [Calls -> Loops \cup {None}] /\ asks' \in [Callers -> Calls \cup {None}]
          /\ answer' \in [Calls -> {"none", "waiting", "ok", "error", "lost"}]
          /\ writer' \in Loops \cup {None}
      BY <2>1, <2>4 DEF IInv, SlotTypes
    <3>3. \A j \in Calls : sent[j] = None => sent'[j] = None
      BY <2>4 DEF IInv, SlotTypes
    <3> QED
      BY <2>1, <3>1, <3>2, <3>3, LoopCalls
  <2> QED
    BY <2>2, <2>3, <2>4
<1>6. CASE ReadsSettleDone(l)
  <2>1. woken' = (settle # None) /\ UNCHANGED <<writer, callVars, client, settle, dithering>>
    BY <1>6 DEF ReadsSettleDone
  <2> QED
    BY <2>1 DEF IInv, SlotTypes, PendingInv, DeadLinkInv, SlotInv, AsksInv, callVars
<1>7. CASE ReadsState(l) \/ Wakes(l)
  BY <1>7, Stutter DEF ReadsState, Wakes, settleVars
<1>8. CASE ReadsCalibrated(l)
  <2>1. UNCHANGED <<writer, client, settleVars>> /\ (UNCHANGED callVars \/ (writer # None /\ Calling(l, writer)))
    BY <1>8 DEF ReadsCalibrated
  <2>2. CASE UNCHANGED callVars
    BY <2>1, <2>2, Stutter DEF settleVars
  <2>3. CASE writer # None /\ Calling(l, writer)
    <3>1. writer \in Loops
      BY <2>3 DEF IInv, SlotTypes
    <3> QED
      BY <1>0, <2>1, <2>3, <3>1, LoopCalls, CallingKeeps
  <2> QED
    BY <2>1, <2>2, <2>3
<1>9. CASE LoopCancelled(l)
  <2>1. CASE UNCHANGED <<writer, callVars, woken>>
    BY <1>9, <2>1, Stutter DEF LoopCancelled, callVars
  <2>2. CASE Disconnected(l)
    BY <1>9, <2>2, DisconnectedStep DEF LoopCancelled
  <2> QED
    BY <1>9, <2>1, <2>2 DEF LoopCancelled
<1> QED
  BY <1>1, <1>2, <1>3, <1>4, <1>5, <1>6, <1>7, <1>8, <1>9 DEF LoopStep

LEMMA NextIInv == IInv /\ [Phd2Next]_vars => IInv'
<1> SUFFICES ASSUME IInv, [Phd2Next]_vars PROVE IInv'
  OBVIOUS
<1>1. ASSUME NEW l \in Loops, NEW m, Sends(l, m) PROVE IInv'
  BY <1>1, Stutter DEF Sends, settleVars
<1>2. ASSUME NEW k \in Calls, Phd2Answers(k) PROVE IInv'
  <2>1. sent[k] \in Loops
    BY <1>2 DEF Phd2Answers, IInv, SlotTypes
  <2> QED
    BY <1>1, <1>2, <2>1 DEF Phd2Answers
<1>3. ASSUME NEW l \in Loops, Phd2Says(l) PROVE IInv'
  BY <1>1, <1>3 DEF Phd2Says
<1>4. ASSUME NEW a \in Admins, Administer(a) \/ Administered(a) PROVE IInv'
  BY <1>4, Stutter DEF Administer, Administered, settleVars
<1>5. CASE UNCHANGED vars
  BY <1>5, Stutter DEF vars, settleVars
<1> QED
  BY <1>2, <1>3, <1>4, <1>5, ClientStepInv, LoopStepInv DEF Phd2Next

-----------------------------------------------------------------------------
THEOREM Phd2Invariance == Phd2Spec => []IInv
  BY InitIInv, NextIInv, PTL DEF Phd2Spec

(* The one settle and the flag of the dither in progress belong to the client inside that
   call, and are free again however the call ends (client.py, the finally clauses of
   _call_and_settle and dither). *)
THEOREM SettleIsGivenBack == Phd2Spec => []SettleSlot
<1>1. IInv => SettleSlot
  BY DEF IInv, SlotInv, SettleSlot
<1> QED
  BY <1>1, Phd2Invariance, PTL

(* However many loops connect, lose their connections and clear each other's requests: with
   no connection no call waits for an answer and no settle for its end (_on_disconnect). *)
THEOREM DeadLinkWakesAll == Phd2Spec => []NobodyWaitsOnDeadLink
<1>1. IInv => NobodyWaitsOnDeadLink
  BY DEF IInv, SlotTypes, PendingInv, DeadLinkInv, NobodyWaitsOnDeadLink, Waits, Resolved
<1> QED
  BY <1>1, Phd2Invariance, PTL

(* The settle of a dither or a guide request succeeds only after PHD2 said that it is done:
   a lost connection, a reconnect or a new settle never looks like it (_on_disconnect,
   SettleDone). *)
THEOREM SettleIsTrue == Phd2Spec => []OkMeansSettled
<1>1. Phd2Init => OkMeansSettled
  BY DEF Phd2Init, OkMeansSettled
<1>2. OkMeansSettled /\ [Phd2Next]_vars => OkMeansSettled'
  <2> SUFFICES ASSUME OkMeansSettled, [Phd2Next]_vars PROVE OkMeansSettled'
    OBVIOUS
  <2>0. ASSUME UNCHANGED <<woken, failed, settled>> PROVE OkMeansSettled'
    BY <2>0 DEF OkMeansSettled
  <2>1. ASSUME NEW l \in Loops, SettleLost, UNCHANGED settled PROVE OkMeansSettled'
    BY <2>1 DEF OkMeansSettled, SettleLost
  <2>2. ASSUME NEW c \in Clients, Returns(c) PROVE OkMeansSettled'
    BY <2>2 DEF OkMeansSettled, Returns
  <2>3. ASSUME NEW c \in Clients, ClientStep(c) PROVE OkMeansSettled'
    <3>1. CASE Ask(c)
      BY <2>0, <3>1 DEF Ask, settleVars
    <3>2. CASE Settle(c)
      BY <3>2 DEF Settle, OkMeansSettled
    <3>3. CASE CallReturns(c)
      BY <2>0, <2>2, <3>3 DEF CallReturns, settleVars
    <3> QED
      BY <2>2, <2>3, <3>1, <3>2, <3>3
      DEF ClientStep, CallTimesOut, SettleEnds, SettleTimesOut, ClientCancelled
  <2>4. ASSUME NEW l \in Loops, LoopStep(l) PROVE OkMeansSettled'
    <3>1. CASE ReadsSettleDone(l)
      BY <3>1 DEF ReadsSettleDone, OkMeansSettled
    <3>2. CASE ConnectFails(l) \/ ReadsEof(l)
      BY <2>1, <3>2 DEF ConnectFails, ReadsEof, LoseLink, Disconnected
    <3>3. CASE LoopCancelled(l)
      BY <2>0, <2>1, <3>3 DEF LoopCancelled, Disconnected
    <3>4. CASE Connects(l) \/ ScaleAsked(l) \/ LastAsked(l) \/ Wakes(l) \/ ReadsAnswer(l) \/ ReadsState(l) \/ ReadsCalibrated(l)
      BY <2>0, <3>4
      DEF Connects, ScaleAsked, LastAsked, Wakes, ReadsAnswer, ReadsState, ReadsCalibrated, settleVars
    <3> QED
      BY <2>4, <3>1, <3>2, <3>3, <3>4 DEF LoopStep
  <2>5. ASSUME NEW l, NEW m, Sends(l, m) PROVE OkMeansSettled'
    BY <2>0, <2>5 DEF Sends, settleVars
  <2>6. ASSUME NEW a \in Admins, Administer(a) \/ Administered(a) PROVE OkMeansSettled'
    BY <2>0, <2>6 DEF Administer, Administered, settleVars
  <2>7. CASE UNCHANGED vars
    BY <2>0, <2>7 DEF vars, settleVars
  <2> QED
    BY <2>3, <2>4, <2>5, <2>6, <2>7 DEF Phd2Next, Phd2Says, Phd2Answers
<1> QED
  BY <1>1, <1>2, PTL DEF Phd2Spec

-----------------------------------------------------------------------------
(* The health *)

LoopTypes == loop \in [Loops -> {"none", "connect", "scale", "state", "read", "calibrated", "sleep"}]

Reading(l) == loop[l] \in {"read", "calibrated"}

\* A loop that does not read goes on: those that do still read.
LEMMA OtherLoopsRead ==
  ASSUME LoopTypes, HealthNeedsLink, NEW l \in Loops, ~Reading(l), UNCHANGED guiding,
         NEW place \in {"none", "connect", "scale", "state", "read", "calibrated", "sleep"}, Goes(l, place)
  PROVE  LoopTypes' /\ HealthNeedsLink'
  BY DEF LoopTypes, HealthNeedsLink, Reading, Goes

(* However many loops overlapping calls of reconnect() and stop() have left, and whichever of them
   lose their connection: the health says guiding only while some loop reads what PHD2 says
   (health, _on_disconnect). *)
THEOREM HealthIsOfTheLink == Phd2Spec => []HealthNeedsLink
<1> DEFINE HInv == LoopTypes /\ HealthNeedsLink
<1>1. Phd2Init => HInv
  BY DEF Phd2Init, LoopTypes, HealthNeedsLink
<1>2. HInv /\ [Phd2Next]_vars => HInv'
  <2> SUFFICES ASSUME HInv, [Phd2Next]_vars PROVE HInv'
    OBVIOUS
  <2>0. ASSUME UNCHANGED <<loop, guiding>> PROVE HInv'
    BY <2>0 DEF LoopTypes, HealthNeedsLink
  <2>1. ASSUME NEW c \in Clients, ClientStep(c) PROVE HInv'
    <3>1. ASSUME Returns(c) PROVE HInv'
      BY <2>0, <3>1 DEF Returns, loopVars
    <3> QED
      BY <2>0, <2>1, <3>1
      DEF ClientStep, Ask, Settle, CallReturns, CallTimesOut, SettleEnds, SettleTimesOut, ClientCancelled, loopVars
  <2>2. ASSUME NEW l \in Loops, NEW place \in {"none", "sleep"}, Goes(l, place), Disconnected(l)
        PROVE  HInv'
    BY <2>2 DEF LoopTypes, HealthNeedsLink, Goes, Disconnected
  <2>3. ASSUME NEW l \in Loops, LoopStep(l) PROVE HInv'
    <3>1. CASE Connects(l) \/ Wakes(l)
      BY <3>1, OtherLoopsRead DEF Connects, Wakes, At, Reading
    <3>2. CASE ConnectFails(l) \/ ReadsEof(l)
      BY <2>2, <3>2 DEF ConnectFails, ReadsEof, LoseLink
    <3>3. CASE ScaleAsked(l)
      BY <3>3, OtherLoopsRead DEF ScaleAsked, Reading
    <3>4. CASE LastAsked(l) \/ ReadsCalibrated(l)
      BY <3>4 DEF LastAsked, ReadsCalibrated, Receives, At, Goes, LoopTypes, HealthNeedsLink
    <3>5. CASE ReadsAnswer(l) \/ ReadsSettleDone(l)
      BY <2>0, <3>5 DEF ReadsAnswer, ReadsSettleDone, loopVars
    <3>6. CASE ReadsState(l)
      BY <3>6 DEF ReadsState, Receives, At, LoopTypes, HealthNeedsLink, loopVars
    <3>7. CASE LoopCancelled(l)
      <4>1. CASE loop[l] \in {"sleep", "connect"} /\ UNCHANGED guiding
        BY <3>7, <4>1, OtherLoopsRead DEF LoopCancelled, Reading
      <4>2. CASE Disconnected(l)
        BY <2>2, <3>7, <4>2 DEF LoopCancelled
      <4> QED
        BY <3>7, <4>1, <4>2 DEF LoopCancelled
    <3> QED
      BY <2>3, <3>1, <3>2, <3>3, <3>4, <3>5, <3>6, <3>7 DEF LoopStep
  <2>4. ASSUME NEW l, NEW m, Sends(l, m) PROVE HInv'
    BY <2>0, <2>4 DEF Sends, loopVars
  <2>5. ASSUME NEW a \in Admins, Starts(a), UNCHANGED guiding PROVE HInv'
    <3>1. PICK l \in Loops : loop[l] = "none" /\ Goes(l, "connect")
      BY <2>5 DEF Starts, UnusedLoops, Live
    <3> QED
      BY <2>5, <3>1, OtherLoopsRead DEF Reading
  <2>6. ASSUME NEW a \in Admins, Administer(a) \/ Administered(a) PROVE HInv'
    BY <2>0, <2>5, <2>6 DEF Administer, Administered
  <2>7. CASE UNCHANGED vars
    BY <2>0, <2>7 DEF vars, loopVars
  <2> QED
    BY <2>1, <2>3, <2>4, <2>6, <2>7 DEF Phd2Next, Phd2Says, Phd2Answers
<1> QED
  BY <1>1, <1>2, PTL DEF Phd2Spec
=============================================================================
