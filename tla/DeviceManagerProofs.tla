------------------------ MODULE DeviceManagerProofs -------------------------
(***************************************************************************)
(* Proofs about DeviceManager, for any devices, companions and number of   *)
(* concurrent callers.                                                     *)
(*                                                                         *)
(* The argument: an entry that anything refers to keeps its id, and the    *)
(* table holds an entry under its own id; so a watchdog that is stopped is *)
(* that of the very entry the table shows, and the call that stopped it is *)
(* there to close it.                                                      *)
(***************************************************************************)
EXTENDS DeviceManager, TLAPS

ClosingAt == {"close", "closeCompanion"}

\* What a call holds: the entry it is about keeps the id of the call.
CallOK(c) ==
  /\ call[c].at \in ClosingAt => call[c].entry \in Entries
  /\ call[c].at = "close" => call[c].compEntry = NoEntry
  /\ call[c].at = "closeCompanion" =>
       call[c].comp \in Ids /\ call[c].compEntry \in Entries /\ entry[call[c].compEntry].id = call[c].comp
  /\ call[c].at = "openCompanion" => call[c].comp \in Ids
  /\ call[c].at \in {"discover", "openCompanion"} => call[c].op = "connect"
  /\ call[c].op \in {"connect", "disconnect", "soft", "reconnect"} => call[c].id \in Ids
  /\ call[c].op \in {"disconnect", "soft", "reconnect"} =>
       call[c].entry \in Entries /\ entry[call[c].entry].id = call[c].id
  /\ call[c].at \in ClosingAt => call[c].op \in {"connect", "disconnect", "soft"}
  /\ call[c].left \subseteq Ids /\ call[c].victims \subseteq Ids

WatchOK(w) ==
  /\ watch[w] # "none" => entry[w].id \in Ids
  /\ watch[w] \in {"ping", "good", "bad"} => pinged[w] \in Entries /\ entry[pinged[w]].id = entry[w].id

Shapes ==
  /\ DOMAIN table = Ids /\ DOMAIN entry = Entries /\ DOMAIN watch = Entries /\ DOMAIN pinged = Entries
  /\ DOMAIN call = Clients
  /\ \A w \in Entries : watch[w] \in {"none", "sleep", "ping", "good", "bad"}
  /\ \A e \in Entries : entry[e].companions \subseteq Ids
  /\ \A i \in Ids : table[i] # NoEntry => table[i] \in Entries /\ entry[table[i]].id = i

IdInv ==
  /\ Shapes
  /\ \A w \in Entries : WatchOK(w)
  /\ \A c \in Clients : CallOK(c)

IInv == IdInv /\ ShownIsWatched

LEMMA InitIInv == DeviceInit => IInv
<1> SUFFICES ASSUME DeviceInit PROVE IInv
  OBVIOUS
<1>1. \A c \in Clients : call[c] = NoCall
  BY DEF DeviceInit
<1>2. \A c \in Clients : CallOK(c)
  BY <1>1 DEF CallOK, NoCall, ClosingAt
<1>3. Shapes
  BY DEF DeviceInit, Shapes, Blank
<1>4. \A w \in Entries : WatchOK(w)
  BY DEF DeviceInit, WatchOK
<1>5. ShownIsWatched
  BY DEF DeviceInit, ShownIsWatched
<1> QED
  BY <1>2, <1>3, <1>4, <1>5 DEF IInv, IdInv

-----------------------------------------------------------------------------
(* Objects that are referred to *)

\* Whatever something refers to, before a step and after it.
LEMMA RefersTo ==
  /\ \A i \in Ids : table[i] \in Referred
  /\ \A c \in Clients : call[c].entry \in Referred /\ call[c].compEntry \in Referred
  /\ \A w \in Entries : pinged[w] \in Referred /\ (watch[w] # "none" => w \in Referred)
  BY DEF Referred, InTable

LEMMA RefersToNext ==
  /\ \A i \in Ids : table'[i] \in Referred'
  /\ \A c \in Clients : call'[c].entry \in Referred' /\ call'[c].compEntry \in Referred'
  /\ \A w \in Entries : pinged'[w] \in Referred' /\ (watch'[w] # "none" => w \in Referred')
  BY DEF Referred, InTable

\* They keep their ids.
SameIds == \A e \in Entries : e \in Referred' => entry'[e].id = entry[e].id

LEMMA KeepsDoes ==
  ASSUME NEW objects, Keeps(objects)
  PROVE  /\ \A e \in Entries : e \in Referred' => entry'[e] = objects[e]
         /\ \A e \in Entries : e \notin Referred' => entry'[e] = Blank
         /\ DOMAIN entry' = Entries
  BY DEF Keeps, Unused

\* A step that puts no entry into the table and makes no new object, by one call or none.
LEMMA PlainStep ==
  ASSUME IdInv, SameIds, NEW movers,
         \A e \in Entries : entry'[e].companions \subseteq Ids, DOMAIN entry' = Entries,
         DOMAIN table' = Ids, \A i \in Ids : table'[i] \in {table[i], NoEntry},
         DOMAIN watch' = Entries, DOMAIN pinged' = Entries,
         \A w \in Entries :
           \/ watch'[w] = watch[w] /\ pinged'[w] = pinged[w]
           \/ watch'[w] \in {"none", "sleep"}
           \/ watch'[w] \in {"ping", "good", "bad"} /\ pinged'[w] \in Entries /\ entry[pinged'[w]].id = entry[w].id,
         \A w \in Entries : watch'[w] # "none" => entry[w].id \in Ids,
         DOMAIN call' = Clients, \A d \in Clients : d \notin movers => call'[d] = call[d],
         \A d \in Clients : d \in movers => CallOK(d)'
  PROVE  IdInv'
<1>1. Shapes'
  BY RefersToNext DEF IdInv, Shapes, SameIds
<1>2. ASSUME NEW w \in Entries PROVE WatchOK(w)'
  BY RefersToNext DEF IdInv, WatchOK, SameIds
<1>3. ASSUME NEW d \in Clients, d \notin movers PROVE CallOK(d)'
  <2>1. call'[d] = call[d] /\ CallOK(d)
    BY <1>3 DEF IdInv
  <2>2. call[d].entry \in Referred' /\ call[d].compEntry \in Referred'
    BY <1>3, <2>1, RefersToNext
  <2> QED
    BY <2>1, <2>2 DEF CallOK, SameIds
<1> QED
  BY <1>1, <1>2, <1>3 DEF IdInv

-----------------------------------------------------------------------------
(* What the steps of a call do *)

\* The watchdogs are left alone, those of the entries es excepted, which are stopped.
Stops(es) ==
  /\ DOMAIN watch' = Entries /\ DOMAIN pinged' = Entries
  /\ \A w \in Entries : w \notin es => watch'[w] = watch[w] /\ pinged'[w] = pinged[w]
  /\ \A w \in Entries : w \in es => watch'[w] = "none"

LEMMA UnwatchedDoes ==
  ASSUME NEW es, Unwatched(es)
  PROVE  Stops(es)
  BY DEF Unwatched, Stops

\* The entries that the call of c is closing and the table shows.
Mine(c) == {w \in Entries : /\ call'[c].at \in ClosingAt
                            /\ w \in {call'[c].entry, call'[c].compEntry}
                            /\ w = table'[entry[w].id]}

\* A call r that has an entry to close goes on to close it, or a companion of it first.
LEMMA ClosesDoes ==
  ASSUME IdInv, SameIds, DOMAIN table' = Ids, \A i \in Ids : table'[i] \in {table[i], NoEntry},
         NEW c \in Clients, NEW r, NEW quiet, Closes(c, r, quiet),
         r.entry \in Entries, r.left \subseteq Ids, r.victims \subseteq Ids,
         r.op \in {"connect", "disconnect", "soft"}, r.id \in Ids,
         r.op \in {"disconnect", "soft"} => entry[r.entry].id = r.id
  PROVE  /\ CallOK(c)' /\ DOMAIN call' = Clients /\ \A d \in Clients : d # c => call'[d] = call[d]
         /\ call'[c].at \in ClosingAt /\ call'[c].entry = r.entry
         /\ \/ Stops(quiet)
            \/ /\ Stops(quiet \cup {call'[c].compEntry})
               /\ call'[c].compEntry \in Mine(c)
<1>1. CASE \E k \in Present(r.left) : \E skipped \in SUBSET (r.left \ Present(r.left)) :
             /\ call' = [call EXCEPT ![c] = [r EXCEPT !.at = "closeCompanion", !.comp = k, !.compEntry = table'[k],
                                                  !.left = @ \ (skipped \cup {k})]]
             /\ Unwatched(quiet \cup {table'[k]})
  <2>1. PICK k \in Present(r.left), skipped \in SUBSET (r.left \ Present(r.left)) :
             /\ call' = [call EXCEPT ![c] = [r EXCEPT !.at = "closeCompanion", !.comp = k, !.compEntry = table'[k],
                                                  !.left = @ \ (skipped \cup {k})]]
             /\ Unwatched(quiet \cup {table'[k]})
    BY <1>1
  <2>2. k \in Ids /\ table'[k] # NoEntry /\ table'[k] \in Entries /\ entry[table'[k]].id = k
    BY DEF Present, IdInv, Shapes
  <2>3. DOMAIN call' = Clients /\ \A d \in Clients : d # c => call'[d] = call[d]
    BY <2>1 DEF IdInv, Shapes
  <2>4. /\ call'[c].at = "closeCompanion" /\ call'[c].comp = k /\ call'[c].compEntry = table'[k]
        /\ call'[c].entry = r.entry /\ call'[c].op = r.op /\ call'[c].id = r.id
        /\ call'[c].left \subseteq r.left /\ call'[c].victims = r.victims
    BY <2>1 DEF IdInv, Shapes
  <2>5. CallOK(c)'
    BY <2>2, <2>4, RefersToNext DEF CallOK, SameIds, ClosingAt
  <2>6. call'[c].compEntry \in Mine(c)
    BY <2>2, <2>4 DEF Mine, ClosingAt
  <2> QED
    BY <2>1, <2>3, <2>4, <2>5, <2>6, UnwatchedDoes DEF ClosingAt
<1>2. CASE /\ Present(r.left) = {}
           /\ call' = [call EXCEPT ![c] = [r EXCEPT !.at = "close", !.comp = "none", !.compEntry = NoEntry, !.left = {}]]
           /\ Unwatched(quiet)
  <2>1. DOMAIN call' = Clients /\ \A d \in Clients : d # c => call'[d] = call[d]
    BY <1>2 DEF IdInv, Shapes
  <2>2. /\ call'[c].at = "close" /\ call'[c].compEntry = NoEntry
        /\ call'[c].entry = r.entry /\ call'[c].op = r.op /\ call'[c].id = r.id
        /\ call'[c].left = {} /\ call'[c].victims = r.victims
    BY <1>2 DEF IdInv, Shapes
  <2>3. CallOK(c)'
    BY <2>2, RefersToNext DEF CallOK, SameIds, ClosingAt
  <2> QED
    BY <1>2, <2>1, <2>2, <2>3, UnwatchedDoes DEF ClosingAt
<1> QED
  BY <1>1, <1>2 DEF Closes

\* The only watchdogs stopped are those of entries that the call of c is now closing.
StopsMine(c) == \E es : es \subseteq Mine(c) /\ Stops(es)

\* What a step of the call of c leaves behind.
CallStepOK(c) ==
  /\ CallOK(c)' /\ DOMAIN call' = Clients /\ \A d \in Clients : d # c => call'[d] = call[d]
  /\ StopsMine(c)

LEMMA EvictsOrOpensDoes ==
  ASSUME IdInv, SameIds, DOMAIN table' = Ids, \A i \in Ids : table'[i] \in {table[i], NoEntry},
         NEW c \in Clients, NEW r, EvictsOrOpens(c, r), r.victims \subseteq Ids, r.op = "connect", r.id \in Ids
  PROVE  CallStepOK(c)
<1>1. CASE \E v \in Present(r.victims) : \E skipped \in SUBSET (r.victims \ Present(r.victims)) :
             LET e == table'[v]
             IN Closes(c, [r EXCEPT !.entry = e, !.left = entry[e].companions, !.victims = @ \ (skipped \cup {v})], {e})
  <2>1. PICK v \in Present(r.victims), skipped \in SUBSET (r.victims \ Present(r.victims)) :
             Closes(c, [r EXCEPT !.entry = table'[v], !.left = entry[table'[v]].companions,
                                 !.victims = @ \ (skipped \cup {v})], {table'[v]})
    BY <1>1
  <2> DEFINE q == [r EXCEPT !.entry = table'[v], !.left = entry[table'[v]].companions,
                            !.victims = @ \ (skipped \cup {v})]
  <2>2. v \in Ids /\ table'[v] \in Entries /\ entry[table'[v]].id = v /\ entry[table'[v]].companions \subseteq Ids
    BY DEF Present, IdInv, Shapes
  <2>3. q.entry = table'[v] /\ q.left \subseteq Ids /\ q.victims \subseteq Ids /\ q.op = "connect" /\ q.id \in Ids
    BY <2>2
  <2> HIDE DEF q
  <2>4. /\ CallOK(c)' /\ DOMAIN call' = Clients /\ \A d \in Clients : d # c => call'[d] = call[d]
        /\ call'[c].at \in ClosingAt /\ call'[c].entry = q.entry
        /\ \/ Stops({table'[v]})
           \/ /\ Stops({table'[v]} \cup {call'[c].compEntry})
              /\ call'[c].compEntry \in Mine(c)
    <3>1. Closes(c, q, {table'[v]})
      BY <2>1 DEF q
    <3> QED
      BY <2>2, <2>3, <3>1, ClosesDoes
  <2>5. table'[v] \in Mine(c)
    BY <2>2, <2>3, <2>4 DEF Mine
  <2> QED
    BY <2>4, <2>5 DEF CallStepOK, StopsMine
<1>2. CASE /\ Present(r.victims) = {}
           /\ call' = [call EXCEPT ![c] = [r EXCEPT !.at = "open", !.entry = NoEntry, !.comp = "none",
                                                !.compEntry = NoEntry, !.left = {}, !.victims = {}]]
           /\ UNCHANGED <<watch, pinged>>
  <2>1. DOMAIN call' = Clients /\ \A d \in Clients : d # c => call'[d] = call[d]
    BY <1>2 DEF IdInv, Shapes
  <2>2. call'[c].at = "open" /\ call'[c].op = "connect" /\ call'[c].id = r.id /\ call'[c].left = {}
        /\ call'[c].victims = {}
    BY <1>2 DEF IdInv, Shapes
  <2>3. CallOK(c)'
    BY <2>2 DEF CallOK, ClosingAt
  <2>4. Stops({})
    BY <1>2 DEF Stops, IdInv, Shapes
  <2> QED
    BY <2>1, <2>3, <2>4 DEF CallStepOK, StopsMine
<1> QED
  BY <1>1, <1>2 DEF EvictsOrOpens

\* A call that is over holds nothing.
LEMMA EndsDoes ==
  ASSUME IdInv, NEW c \in Clients, Ends(c)
  PROVE  /\ CallOK(c)' /\ DOMAIN call' = Clients /\ \A d \in Clients : d # c => call'[d] = call[d]
         /\ call'[c].at \notin ClosingAt
<1>1. call'[c] = NoCall /\ DOMAIN call' = Clients /\ \A d \in Clients : d # c => call'[d] = call[d]
  BY DEF Ends, IdInv, Shapes
<1> QED
  BY <1>1 DEF CallOK, NoCall, ClosingAt

LEMMA OpensCompanionsDoes ==
  ASSUME IdInv, NEW c \in Clients, NEW r, OpensCompanions(c, r), r.left \subseteq Ids, r.victims \subseteq Ids,
         r.op = "connect", r.id \in Ids
  PROVE  /\ CallOK(c)' /\ DOMAIN call' = Clients /\ \A d \in Clients : d # c => call'[d] = call[d]
         /\ call'[c].at \notin ClosingAt
         /\ call'[c].entry \in {r.entry, NoEntry}
<1>1. CASE \E k \in r.left \ Present(r.left) : \E skipped \in SUBSET Present(r.left) :
             call' = [call EXCEPT ![c] = [r EXCEPT !.at = "openCompanion", !.comp = k, !.left = @ \ (skipped \cup {k})]]
  <2>1. PICK k \in r.left \ Present(r.left), skipped \in SUBSET Present(r.left) :
             call' = [call EXCEPT ![c] = [r EXCEPT !.at = "openCompanion", !.comp = k, !.left = @ \ (skipped \cup {k})]]
    BY <1>1
  <2>2. DOMAIN call' = Clients /\ \A d \in Clients : d # c => call'[d] = call[d]
    BY <2>1 DEF IdInv, Shapes
  <2>3. /\ call'[c].at = "openCompanion" /\ call'[c].comp = k /\ call'[c].op = "connect"
        /\ call'[c].left \subseteq r.left /\ call'[c].victims = r.victims /\ call'[c].entry = r.entry
        /\ call'[c].id = r.id
    BY <2>1 DEF IdInv, Shapes
  <2> QED
    BY <2>2, <2>3 DEF CallOK, ClosingAt
<1>2. CASE Ends(c)
  <2>1. call'[c].entry = NoEntry
    BY <1>2 DEF Ends, NoCall, IdInv, Shapes
  <2> QED
    BY <1>2, <2>1, EndsDoes
<1> QED
  BY <1>1, <1>2 DEF OpensCompanions

-----------------------------------------------------------------------------
(* Devices shown as connected *)

Shown(i) == table[i] # NoEntry /\ entry[table[i]].state = "connected"
Watched(i) == \E w \in Entries : watch[w] # "none" /\ entry[w].id = i
ClosedBy(c, e) == call[c].at \in ClosingAt /\ e \in {call[c].entry, call[c].compEntry}

LEMMA ShownIsWatchedIs ==
  ShownIsWatched <=> \A i \in Ids : Shown(i) => Watched(i) \/ \E c \in Clients : ClosedBy(c, table[i])
  BY DEF ShownIsWatched, Shown, Watched, Closing, ClosedBy, ClosingAt

\* A step of the call of c stops watchdogs only of what it is closing, and leaves nothing shown unclosed.
LEMMA ShownStep ==
  ASSUME IInv, SameIds, DOMAIN table' = Ids, \A i \in Ids : table'[i] \in {table[i], NoEntry},
         NEW c \in Clients, CallStepOK(c),
         \A i \in Ids : Shown(i)' => Shown(i),
         \A i \in Ids : Shown(i)' /\ ClosedBy(c, table'[i]) => ClosedBy(c, table[i])'
  PROVE  ShownIsWatched'
<1> SUFFICES ASSUME NEW i \in Ids, Shown(i)'
             PROVE  Watched(i)' \/ \E d \in Clients : ClosedBy(d, table[i])'
  BY ShownIsWatchedIs DEF ShownIsWatched, Shown, Watched, Closing, ClosedBy, ClosingAt
<1>1. Shown(i) /\ table'[i] = table[i]
  BY DEF Shown
<1>2. CASE Watched(i)
  <2>1. PICK w \in Entries : watch[w] # "none" /\ entry[w].id = i
    BY <1>2 DEF Watched
  <2>2. PICK es : es \subseteq Mine(c) /\ Stops(es)
    BY DEF CallStepOK, StopsMine
  <2>3. CASE w \in es
    <3>1. call'[c].at \in ClosingAt /\ w \in {call'[c].entry, call'[c].compEntry} /\ w = table'[i]
      BY <2>1, <2>2, <2>3 DEF Mine
    <3> QED
      BY <3>1 DEF ClosedBy
  <2>4. CASE w \notin es
    <3>1. watch'[w] # "none"
      BY <2>1, <2>2, <2>4 DEF Stops
    <3>2. entry'[w].id = i
      BY <2>1, <3>1, RefersToNext DEF SameIds
    <3> QED
      BY <3>1, <3>2 DEF Watched
  <2> QED
    BY <2>3, <2>4
<1>3. CASE \E d \in Clients : ClosedBy(d, table[i])
  <2>1. PICK d \in Clients : ClosedBy(d, table[i])
    BY <1>3
  <2>2. CASE d = c
    BY <1>1, <2>1, <2>2
  <2>3. CASE d # c
    BY <1>1, <2>1, <2>3 DEF CallStepOK, ClosedBy
  <2> QED
    BY <2>2, <2>3
<1> QED
  BY <1>1, <1>2, <1>3, ShownIsWatchedIs DEF IInv

-----------------------------------------------------------------------------
(* The steps of calls that make no new entry *)

\* The objects a step makes of the entries: none changes its id or companions.
SameObjects(objects) ==
  \A e \in Entries : objects[e].id = entry[e].id /\ objects[e].companions = entry[e].companions

LEMMA KeepsSame ==
  ASSUME IdInv, NEW objects, Keeps(objects), SameObjects(objects)
  PROVE  SameIds /\ DOMAIN entry' = Entries /\ \A e \in Entries : entry'[e].companions \subseteq Ids
<1>1. Blank.companions \subseteq Ids
  BY DEF Blank
<1> QED
  BY <1>1, KeepsDoes DEF SameIds, SameObjects, IdInv, Shapes

\* A step of the call of c that empties places of the table at most, and connects nothing.
LEMMA ClosingStep ==
  ASSUME IInv, NEW objects, Keeps(objects), SameObjects(objects),
         \A e \in Entries : objects[e].state = "connected" => entry[e].state = "connected",
         DOMAIN table' = Ids, \A i \in Ids : table'[i] \in {table[i], NoEntry},
         NEW c \in Clients, CallStepOK(c),
         \A i \in Ids : Shown(i)' /\ ClosedBy(c, table'[i]) => ClosedBy(c, table[i])'
  PROVE  IInv'
<1>1. SameIds /\ DOMAIN entry' = Entries /\ \A e \in Entries : entry'[e].companions \subseteq Ids
  BY KeepsSame DEF IInv
<1>2. PICK es : es \subseteq Mine(c) /\ Stops(es)
  BY DEF CallStepOK, StopsMine
<1>3. DOMAIN watch' = Entries /\ DOMAIN pinged' = Entries
  BY <1>2 DEF Stops
<1>4. ASSUME NEW w \in Entries
      PROVE  \/ watch'[w] = watch[w] /\ pinged'[w] = pinged[w]
             \/ watch'[w] = "none"
  BY <1>2 DEF Stops
<1>5. \A w \in Entries : watch'[w] # "none" => entry[w].id \in Ids
  BY <1>4 DEF IInv, IdInv, WatchOK
<1>6. DOMAIN call' = Clients /\ CallOK(c)' /\ \A d \in Clients : d # c => call'[d] = call[d]
  BY DEF CallStepOK
<1>7. IdInv'
  <2> DEFINE movers == {c}
  <2>1. \A d \in Clients : d \notin movers => call'[d] = call[d]
    BY <1>6
  <2>2. \A d \in Clients : d \in movers => CallOK(d)'
    BY <1>6
  <2> HIDE DEF movers
  <2> QED
    BY <1>1, <1>3, <1>4, <1>5, <1>6, <2>1, <2>2, PlainStep DEF IInv
<1>8. ASSUME NEW i \in Ids, Shown(i)' PROVE Shown(i)
  <2>1. table'[i] = table[i] /\ table[i] # NoEntry /\ table[i] \in Entries /\ table'[i] \in Referred'
    BY <1>8, RefersToNext DEF Shown, IInv, IdInv, Shapes
  <2>2. entry'[table[i]] = objects[table[i]]
    BY <2>1, KeepsDoes
  <2> QED
    BY <1>8, <2>1, <2>2 DEF Shown
<1>9. ShownIsWatched'
  BY <1>1, <1>8, ShownStep
<1> QED
  BY <1>7, <1>9 DEF IInv

\* The entries as they are.
LEMMA EntrySame == SameObjects(entry)
  BY DEF SameObjects

LEMMA Quiet == ASSUME IdInv, NEW c \in Clients, UNCHANGED <<watch, pinged>> PROVE StopsMine(c)
<1>1. Stops({})
  BY DEF Stops, IdInv, Shapes
<1> QED
  BY <1>1 DEF StopsMine

LEMMA ConnectStep ==
  ASSUME IInv, NEW c \in Clients, NEW i \in Ids, Connect(c, i)
  PROVE  IInv'
<1> DEFINE r == [NoCall EXCEPT !.op = "connect", !.id = i, !.victims = IF i \in Mounts THEN Present(Mounts) ELSE {}]
<1>1. Keeps(entry) /\ table' = table /\ EvictsOrOpens(c, r) /\ call[c] = NoCall
  BY DEF Connect
<1>2. r.victims \subseteq Ids /\ r.op = "connect" /\ r.id \in Ids
  BY DeviceAssumption DEF Present, NoCall
<1> HIDE DEF r
<1>3. SameIds
  BY <1>1, KeepsSame, EntrySame DEF IInv
<1>4. DOMAIN table' = Ids /\ \A j \in Ids : table'[j] \in {table[j], NoEntry}
  BY <1>1 DEF IInv, IdInv, Shapes
<1>5. CallStepOK(c)
  BY <1>1, <1>2, <1>3, <1>4, EvictsOrOpensDoes DEF IInv
<1>6. \A e : ~ClosedBy(c, e)
  BY <1>1 DEF ClosedBy, NoCall, ClosingAt
<1> QED
  BY <1>1, <1>4, <1>5, <1>6, ClosingStep, EntrySame

\* disconnect() and soft_disconnect() stop the watchdog of the entry that they go on to close.
LEMMA StartsClosing ==
  ASSUME IInv, NEW c \in Clients, NEW i \in Ids, call[c] = NoCall, table[i] # NoEntry, table' = table, Keeps(entry),
         NEW r, Closes(c, r, {table[i]}), r.op \in {"disconnect", "soft"}, r.id = i, r.entry = table[i],
         r.left \subseteq Ids, r.victims = {}
  PROVE  IInv'
<1>1. SameIds
  BY KeepsSame, EntrySame DEF IInv
<1>2. DOMAIN table' = Ids /\ \A j \in Ids : table'[j] \in {table[j], NoEntry}
  BY DEF IInv, IdInv, Shapes
<1>3. table[i] \in Entries /\ entry[table[i]].id = i
  BY DEF IInv, IdInv, Shapes
<1> DEFINE quiet == {table[i]}
<1>4. quiet = {table[i]} /\ Closes(c, r, quiet)
  OBVIOUS
<1> HIDE DEF quiet
<1>5. /\ CallOK(c)' /\ DOMAIN call' = Clients /\ \A d \in Clients : d # c => call'[d] = call[d]
      /\ call'[c].at \in ClosingAt /\ call'[c].entry = r.entry
      /\ \/ Stops(quiet)
         \/ /\ Stops(quiet \cup {call'[c].compEntry})
            /\ call'[c].compEntry \in Mine(c)
  BY <1>1, <1>2, <1>3, <1>4, ClosesDoes DEF IInv
<1>6. table[i] \in Mine(c)
  BY <1>3, <1>5 DEF Mine
<1>7. CallStepOK(c)
  BY <1>4, <1>5, <1>6 DEF CallStepOK, StopsMine
<1>8. \A e : ~ClosedBy(c, e)
  BY DEF ClosedBy, NoCall, ClosingAt
<1> QED
  BY <1>2, <1>7, <1>8, ClosingStep, EntrySame

LEMMA DisconnectStep ==
  ASSUME IInv, NEW c \in Clients, NEW i \in Ids, Disconnect(c, i)
  PROVE  IInv'
<1> DEFINE r == [NoCall EXCEPT !.op = "disconnect", !.id = i, !.entry = table[i], !.left = entry[table[i]].companions]
<1>1. /\ call[c] = NoCall /\ table[i] # NoEntry /\ table' = table /\ Keeps(entry)
      /\ Closes(c, r, {table[i]})
  BY DEF Disconnect
<1>2. table[i] \in Entries /\ entry[table[i]].companions \subseteq Ids
  BY <1>1 DEF IInv, IdInv, Shapes
<1>3. /\ r.op = "disconnect" /\ r.id = i /\ r.entry = table[i] /\ r.left = entry[table[i]].companions
      /\ r.victims = {}
  BY DEF NoCall
<1> HIDE DEF r
<1> QED
  BY <1>1, <1>2, <1>3, StartsClosing

LEMMA SoftDisconnectStep ==
  ASSUME IInv, NEW c \in Clients, NEW i \in Ids, SoftDisconnect(c, i)
  PROVE  IInv'
<1> DEFINE r == [NoCall EXCEPT !.op = "soft", !.id = i, !.entry = table[i]]
<1>1. /\ call[c] = NoCall /\ table[i] # NoEntry /\ table' = table /\ Keeps(entry)
      /\ Closes(c, r, {table[i]})
  BY DEF SoftDisconnect
<1>2. r.op = "soft" /\ r.id = i /\ r.entry = table[i] /\ r.left = {} /\ r.victims = {}
  BY DEF NoCall
<1> HIDE DEF r
<1> QED
  BY <1>1, <1>2, StartsClosing

LEMMA ReconnectStep ==
  ASSUME IInv, NEW c \in Clients, NEW i \in Ids, Reconnect(c, i)
  PROVE  IInv'
<1>1. /\ call[c] = NoCall /\ table[i] # NoEntry /\ UNCHANGED <<table, watch, pinged>> /\ Keeps(entry)
      /\ call' = [call EXCEPT ![c] = [NoCall EXCEPT !.op = "reconnect", !.at = "open", !.id = i, !.entry = table[i]]]
  BY DEF Reconnect
<1>2. table[i] \in Entries /\ entry[table[i]].id = i /\ DOMAIN call = Clients
  BY <1>1 DEF IInv, IdInv, Shapes
<1>3. /\ call'[c].op = "reconnect" /\ call'[c].at = "open" /\ call'[c].id = i /\ call'[c].entry = table[i]
      /\ call'[c].left = {} /\ call'[c].victims = {}
      /\ DOMAIN call' = Clients /\ \A d \in Clients : d # c => call'[d] = call[d]
  BY <1>1, <1>2 DEF NoCall
<1>4. SameIds /\ DOMAIN table' = Ids /\ \A j \in Ids : table'[j] \in {table[j], NoEntry}
  BY <1>1, KeepsSame, EntrySame DEF IInv, IdInv, Shapes
<1>5. CallOK(c)'
  BY <1>2, <1>3, <1>4, RefersToNext DEF CallOK, ClosingAt, SameIds
<1>6. CallStepOK(c)
  BY <1>1, <1>3, <1>5, Quiet DEF CallStepOK, IInv
<1>7. \A e : ~ClosedBy(c, e)
  BY <1>1 DEF ClosedBy, NoCall, ClosingAt
<1> QED
  BY <1>1, <1>4, <1>6, <1>7, ClosingStep, EntrySame

\* A companion is closed: its place is emptied, and the call goes on.
LEMMA CompanionClosedStep ==
  ASSUME IInv, NEW c \in Clients, CompanionClosed(c)
  PROVE  IInv'
<1> DEFINE r == call[c]
<1>1. /\ r.at = "closeCompanion" /\ table' = [table EXCEPT ![r.comp] = NoEntry] /\ Closes(c, r, {})
  BY DEF CompanionClosed
<1>2. PICK l \in {"down", entry[r.compEntry].link} : Keeps([entry EXCEPT ![r.compEntry].link = l])
  BY DEF CompanionClosed
<1> DEFINE objects == [entry EXCEPT ![r.compEntry].link = l]
<1>3. SameObjects(objects) /\ \A e \in Entries : objects[e].state = entry[e].state
  BY DEF SameObjects, IInv, IdInv, Shapes
<1>4. /\ r.entry \in Entries /\ r.op \in {"connect", "disconnect", "soft"} /\ r.left \subseteq Ids
      /\ r.victims \subseteq Ids /\ r.comp \in Ids /\ r.compEntry \in Entries /\ entry[r.compEntry].id = r.comp
      /\ r.id \in Ids /\ (r.op \in {"disconnect", "soft"} => entry[r.entry].id = r.id)
  BY <1>1 DEF IInv, IdInv, CallOK, ClosingAt
<1>5. Keeps(objects)
  BY <1>2
<1> HIDE DEF objects
<1>6. SameIds
  BY <1>3, <1>5, KeepsSame DEF IInv
<1>7. DOMAIN table' = Ids /\ \A j \in Ids : table'[j] \in {table[j], NoEntry}
  BY <1>1 DEF IInv, IdInv, Shapes
<1>8. table'[r.comp] = NoEntry
  BY <1>1, <1>4 DEF IInv, IdInv, Shapes
<1> DEFINE q == call[c]  quiet == {}
<1>9. Closes(c, q, quiet) /\ quiet = {} /\ q = r
  BY <1>1
<1> HIDE DEF q, quiet
<1>10. /\ CallOK(c)' /\ DOMAIN call' = Clients /\ \A d \in Clients : d # c => call'[d] = call[d]
       /\ call'[c].at \in ClosingAt /\ call'[c].entry = r.entry
       /\ \/ Stops(quiet)
          \/ /\ Stops(quiet \cup {call'[c].compEntry})
             /\ call'[c].compEntry \in Mine(c)
  BY <1>4, <1>6, <1>7, <1>9, ClosesDoes DEF IInv
<1>11. CallStepOK(c)
  BY <1>9, <1>10 DEF CallStepOK, StopsMine
<1>12. ASSUME NEW i \in Ids, Shown(i)', ClosedBy(c, table'[i])
       PROVE  ClosedBy(c, table[i])'
  <2>1. table'[i] = table[i] /\ table[i] # NoEntry /\ entry[table[i]].id = i /\ i # r.comp
    BY <1>7, <1>8, <1>12 DEF Shown, IInv, IdInv, Shapes
  <2>2. table[i] = r.entry
    BY <1>4, <1>12, <2>1 DEF ClosedBy
  <2> QED
    BY <1>10, <2>1, <2>2 DEF ClosedBy
<1> QED
  BY <1>3, <1>5, <1>7, <1>11, <1>12, ClosingStep

\* The close is over: the entry is marked disconnected, or its place is emptied.
LEMMA ClosedStep ==
  ASSUME IInv, NEW c \in Clients, Closed(c)
  PROVE  IInv'
<1> DEFINE r == call[c]
           e == call[c].entry
<1>1. PICK l \in {"down", entry[e].link} :
          \/ /\ r.op = "soft"
             /\ UNCHANGED <<table, watch, pinged>>
             /\ Ends(c)
             /\ Keeps([entry EXCEPT ![e].link = l, ![e].state = "disconnected"])
          \/ /\ r.op = "disconnect"
             /\ table' = [table EXCEPT ![r.id] = NoEntry]
             /\ UNCHANGED <<watch, pinged>>
             /\ Ends(c)
             /\ Keeps([entry EXCEPT ![e].link = l])
          \/ /\ r.op = "connect"
             /\ table' = [table EXCEPT ![entry[e].id] = NoEntry]
             /\ EvictsOrOpens(c, r)
             /\ Keeps([entry EXCEPT ![e].link = l])
  BY DEF Closed
<1>2. /\ r.at = "close" /\ e \in Entries /\ r.compEntry = NoEntry /\ r.victims \subseteq Ids
      /\ (r.op = "connect" => r.id \in Ids)
      /\ (r.op \in {"disconnect", "soft"} => entry[e].id = r.id)
  BY DEF Closed, IInv, IdInv, CallOK, ClosingAt
<1>3. ASSUME NEW i \in Ids, table[i] # NoEntry, ClosedBy(c, table[i])
      PROVE  table[i] = e /\ entry[e].id = i
  BY <1>2, <1>3 DEF ClosedBy, IInv, IdInv, Shapes
<1>4. CASE r.op = "soft"
  <2> DEFINE objects == [entry EXCEPT ![e].link = l, ![e].state = "disconnected"]
  <2>1. Keeps(objects) /\ Ends(c) /\ UNCHANGED <<table, watch, pinged>>
    BY <1>1, <1>4
  <2>2. /\ SameObjects(objects) /\ \A x \in Entries : objects[x].state = "connected" => entry[x].state = "connected"
        /\ objects[e].state = "disconnected"
    BY <1>2 DEF SameObjects, IInv, IdInv, Shapes
  <2> HIDE DEF objects
  <2>3. DOMAIN table' = Ids /\ \A j \in Ids : table'[j] \in {table[j], NoEntry}
    BY <2>1 DEF IInv, IdInv, Shapes
  <2>4. CallStepOK(c)
    BY <2>1, EndsDoes, Quiet DEF CallStepOK, IInv
  <2>5. ASSUME NEW i \in Ids, Shown(i)', ClosedBy(c, table'[i]) PROVE FALSE
    <3>1. table'[i] = e
      BY <1>3, <2>1, <2>5 DEF Shown
    <3>2. entry'[e] = objects[e]
      BY <1>2, <2>1, <3>1, RefersToNext, KeepsDoes
    <3> QED
      BY <2>2, <2>5, <3>1, <3>2 DEF Shown
  <2> QED
    BY <2>1, <2>2, <2>3, <2>4, <2>5, ClosingStep
<1>5. CASE r.op \in {"disconnect", "connect"}
  <2> DEFINE objects == [entry EXCEPT ![e].link = l]
  <2>1. Keeps(objects) /\ table' = [table EXCEPT ![entry[e].id] = NoEntry]
    BY <1>1, <1>2, <1>5
  <2>2. SameObjects(objects) /\ \A x \in Entries : objects[x].state = entry[x].state
    BY <1>2 DEF SameObjects, IInv, IdInv, Shapes
  <2> HIDE DEF objects
  <2>3. DOMAIN table' = Ids /\ \A j \in Ids : table'[j] \in {table[j], NoEntry}
    BY <2>1 DEF IInv, IdInv, Shapes
  <2>4. CallStepOK(c)
    <3>1. CASE r.op = "disconnect"
      BY <1>1, <3>1, EndsDoes, Quiet DEF CallStepOK, IInv
    <3>2. CASE r.op = "connect"
      <4> DEFINE q == call[c]
      <4>1. EvictsOrOpens(c, q) /\ q.victims \subseteq Ids /\ q.op = "connect" /\ q.id \in Ids
        BY <1>1, <1>2, <3>2
      <4>2. SameIds
        BY <2>1, <2>2, KeepsSame DEF IInv
      <4> HIDE DEF q
      <4> QED
        BY <2>3, <4>1, <4>2, EvictsOrOpensDoes DEF IInv
    <3> QED
      BY <1>5, <3>1, <3>2
  <2>5. ASSUME NEW i \in Ids, Shown(i)', ClosedBy(c, table'[i]) PROVE FALSE
    BY <1>3, <2>1, <2>3, <2>5 DEF Shown, IInv, IdInv, Shapes
  <2> QED
    BY <2>1, <2>2, <2>3, <2>4, <2>5, ClosingStep
<1> QED
  BY <1>1, <1>4, <1>5

LEMMA ConnectFailsStep ==
  ASSUME IInv, NEW c \in Clients, ConnectFails(c)
  PROVE  IInv'
<1>1. Keeps(entry) /\ Ends(c) /\ UNCHANGED <<table, watch, pinged>> /\ call[c].at = "open"
  BY DEF ConnectFails
<1>2. CallStepOK(c)
  BY <1>1, EndsDoes, Quiet DEF CallStepOK, IInv
<1>3. DOMAIN table' = Ids /\ \A j \in Ids : table'[j] \in {table[j], NoEntry}
  BY <1>1 DEF IInv, IdInv, Shapes
<1>4. \A e : ~ClosedBy(c, e)
  BY <1>1 DEF ClosedBy, ClosingAt
<1> QED
  BY <1>1, <1>2, <1>3, <1>4, ClosingStep, EntrySame

\* The companions are known: the first of them is opened, or the call is over.
LEMMA DiscoveredStep ==
  ASSUME IInv, NEW c \in Clients, Discovered(c)
  PROVE  IInv'
<1> DEFINE r == [call[c] EXCEPT !.left = CompanionsOf[call[c].id]]
<1>1. Keeps(entry) /\ UNCHANGED <<table, watch, pinged>> /\ call[c].at = "discover" /\ (OpensCompanions(c, r) \/ Ends(c))
  BY DEF Discovered
<1>2. call[c].op = "connect" /\ call[c].id \in Ids /\ call[c].victims \subseteq Ids
  BY <1>1 DEF IInv, IdInv, CallOK
<1> HIDE DEF r
<1>3. ASSUME OpensCompanions(c, r)
      PROVE  CallOK(c)' /\ DOMAIN call' = Clients /\ \A d \in Clients : d # c => call'[d] = call[d]
  <2>1. CompanionsOf[call[c].id] \subseteq Ids
    BY <1>2, DeviceAssumption
  <2>2. r.left \subseteq Ids \/ r = call[c]
    BY <2>1 DEF r
  <2>3. r.left \subseteq Ids /\ r.victims \subseteq Ids /\ r.op = "connect" /\ r.id \in Ids
    BY <1>2, <2>1, <2>2 DEF r, IInv, IdInv, CallOK
  <2> QED
    BY <1>3, <2>3, OpensCompanionsDoes DEF IInv
<1>4. CallStepOK(c)
  BY <1>1, <1>3, EndsDoes, Quiet DEF CallStepOK, IInv
<1>5. DOMAIN table' = Ids /\ \A j \in Ids : table'[j] \in {table[j], NoEntry}
  BY <1>1 DEF IInv, IdInv, Shapes
<1>6. \A e : ~ClosedBy(c, e)
  BY <1>1 DEF ClosedBy, ClosingAt
<1> QED
  BY <1>1, <1>4, <1>5, <1>6, ClosingStep, EntrySame

LEMMA CompanionFailsStep ==
  ASSUME IInv, NEW c \in Clients, CompanionFails(c)
  PROVE  IInv'
<1> DEFINE r == [call[c] EXCEPT !.comp = "none"]
<1>1. Keeps(entry) /\ UNCHANGED <<table, watch, pinged>> /\ call[c].at = "openCompanion" /\ OpensCompanions(c, r)
  BY DEF CompanionFails
<1>2. /\ call[c].op = "connect" /\ call[c].id \in Ids /\ call[c].left \subseteq Ids /\ call[c].victims \subseteq Ids
  BY <1>1 DEF IInv, IdInv, CallOK
<1>3. r.op = "connect" /\ r.id \in Ids /\ r.left \subseteq Ids /\ r.victims \subseteq Ids
  BY <1>2
<1> HIDE DEF r
<1>4. CallStepOK(c)
  BY <1>1, <1>3, OpensCompanionsDoes, Quiet DEF CallStepOK, IInv
<1>5. DOMAIN table' = Ids /\ \A j \in Ids : table'[j] \in {table[j], NoEntry}
  BY <1>1 DEF IInv, IdInv, Shapes
<1>6. \A e : ~ClosedBy(c, e)
  BY <1>1 DEF ClosedBy, ClosingAt
<1> QED
  BY <1>1, <1>4, <1>5, <1>6, ClosingStep, EntrySame

LEMMA ReconnectFailsStep ==
  ASSUME IInv, NEW c \in Clients, ReconnectFails(c)
  PROVE  IInv'
<1> DEFINE objects == [entry EXCEPT ![call[c].entry].state = "error"]
<1>1. Keeps(objects) /\ Ends(c) /\ UNCHANGED <<table, watch, pinged>> /\ call[c].op = "reconnect"
  BY DEF ReconnectFails
<1>2. SameObjects(objects) /\ \A e \in Entries : objects[e].state = "connected" => entry[e].state = "connected"
  BY DEF SameObjects, IInv, IdInv, Shapes
<1> HIDE DEF objects
<1>3. CallStepOK(c)
  BY <1>1, EndsDoes, Quiet DEF CallStepOK, IInv
<1>4. DOMAIN table' = Ids /\ \A j \in Ids : table'[j] \in {table[j], NoEntry}
  BY <1>1 DEF IInv, IdInv, Shapes
<1>5. \A e : ~ClosedBy(c, e)
  BY <1>1 DEF ClosedBy, ClosingAt, IInv, IdInv, CallOK
<1> QED
  BY <1>1, <1>2, <1>3, <1>4, <1>5, ClosingStep

-----------------------------------------------------------------------------
(* A new entry is stored, with a watchdog of its own *)

LEMMA StoresStep ==
  ASSUME IInv, NEW c \in Clients, NEW e \in Entries, NEW i \in Ids, Stores(e, i),
         NEW objects, Keeps(objects), objects[e] = New(i),
         \A x \in Entries : x # e => /\ objects[x].id = entry[x].id /\ objects[x].state = entry[x].state
                                    /\ objects[x].companions \subseteq Ids,
         call[c].at \notin ClosingAt,
         DOMAIN call' = Clients, CallOK(c)', \A d \in Clients : d # c => call'[d] = call[d]
  PROVE  IInv'
<1>1. e \notin Referred /\ e \in Referred'
  <2>1. table'[i] = e
    BY DEF Stores, IInv, IdInv, Shapes
  <2> QED
    BY <2>1, RefersToNext DEF Stores, Unused
<1>2. \A x \in Referred : x \in Entries /\ x \in Referred' => x # e /\ entry'[x].id = entry[x].id
                                                       /\ entry'[x].state = entry[x].state
  BY <1>1, KeepsDoes
<1>3. entry'[e] = New(i) /\ DOMAIN entry' = Entries
  BY <1>1, KeepsDoes
<1>4. /\ DOMAIN table' = Ids /\ table'[i] = e /\ \A j \in Ids : j # i => table'[j] = table[j]
      /\ DOMAIN watch' = Entries /\ watch'[e] = "sleep" /\ \A w \in Entries : w # e => watch'[w] = watch[w]
      /\ pinged' = pinged
  BY DEF Stores, IInv, IdInv, Shapes
<1>5. Shapes'
  <2>1. ASSUME NEW x \in Entries PROVE entry'[x].companions \subseteq Ids
    <3>1. CASE x \in Referred'
      BY <1>3, <3>1, KeepsDoes DEF New
    <3>2. CASE x \notin Referred'
      BY <3>2, KeepsDoes DEF Blank
    <3> QED
      BY <3>1, <3>2
  <2>2. ASSUME NEW j \in Ids, table'[j] # NoEntry PROVE table'[j] \in Entries /\ entry'[table'[j]].id = j
    <3>1. CASE j = i
      BY <1>3, <1>4, <3>1 DEF New
    <3>2. CASE j # i
      BY <1>2, <1>4, <2>2, <3>2, RefersTo, RefersToNext DEF IInv, IdInv, Shapes
    <3> QED
      BY <3>1, <3>2
  <2> QED
    BY <1>3, <1>4, <2>1, <2>2 DEF Shapes, IInv, IdInv
<1>6. ASSUME NEW w \in Entries PROVE WatchOK(w)'
  <2>1. CASE w = e
    BY <1>3, <1>4, <2>1 DEF WatchOK, New
  <2>2. CASE w # e /\ watch[w] # "none"
    <3>1. entry'[w].id = entry[w].id
      BY <1>2, <1>4, <2>2, RefersTo, RefersToNext
    <3>2. pinged[w] \in Entries => entry'[pinged[w]].id = entry[pinged[w]].id
      BY <1>2, <1>4, RefersTo, RefersToNext
    <3> QED
      BY <1>4, <2>2, <3>1, <3>2 DEF WatchOK, IInv, IdInv
  <2>3. CASE w # e /\ watch[w] = "none"
    BY <1>4, <2>3 DEF WatchOK
  <2> QED
    BY <2>1, <2>2, <2>3
<1>7. ASSUME NEW d \in Clients PROVE CallOK(d)'
  <2>1. CASE d # c
    <3>1. call'[d] = call[d] /\ CallOK(d)
      BY <2>1 DEF IInv, IdInv
    <3>2. /\ call[d].entry \in Entries => entry'[call[d].entry].id = entry[call[d].entry].id
          /\ call[d].compEntry \in Entries => entry'[call[d].compEntry].id = entry[call[d].compEntry].id
      BY <1>2, <3>1, RefersTo, RefersToNext
    <3> QED
      BY <3>1, <3>2 DEF CallOK
  <2> QED
    BY <2>1
<1>8. ASSUME NEW j \in Ids, Shown(j)'
      PROVE  Watched(j)' \/ \E d \in Clients : ClosedBy(d, table[j])'
  <2>1. CASE j = i
    BY <1>3, <1>4, <2>1 DEF Watched, New
  <2>2. CASE j # i
    <3>1. table'[j] = table[j] /\ table[j] \in Entries /\ table[j] \in Referred /\ table[j] \in Referred'
      BY <1>4, <1>8, <2>2, RefersTo, RefersToNext DEF Shown, IInv, IdInv, Shapes
    <3>2. Shown(j)
      BY <1>2, <1>8, <3>1 DEF Shown
    <3>3. CASE Watched(j)
      <4>1. PICK w \in Entries : watch[w] # "none" /\ entry[w].id = j
        BY <3>3 DEF Watched
      <4>2. w \in Referred /\ w # e
        BY <1>1, <4>1, RefersTo
      <4>3. watch'[w] # "none" /\ entry'[w].id = j
        BY <1>2, <1>4, <4>1, <4>2, RefersToNext
      <4> QED
        BY <4>3 DEF Watched
    <3>4. CASE \E d \in Clients : ClosedBy(d, table[j])
      <4>1. PICK d \in Clients : ClosedBy(d, table[j])
        BY <3>4
      <4>2. d # c
        BY <4>1 DEF ClosedBy
      <4> QED
        BY <3>1, <4>1, <4>2 DEF ClosedBy
    <3> QED
      BY <3>2, <3>3, <3>4, ShownIsWatchedIs DEF IInv
  <2> QED
    BY <2>1, <2>2
<1>9. ShownIsWatched'
  BY <1>8 DEF ShownIsWatched, Shown, Watched, Closing, ClosedBy, ClosingAt
<1> QED
  BY <1>5, <1>6, <1>7, <1>9 DEF IInv, IdInv

LEMMA ConnectedStep ==
  ASSUME IInv, NEW c \in Clients, Connected(c)
  PROVE  IInv'
<1>1. PICK e \in Entries :
        /\ Stores(e, call[c].id)
        /\ call' = [call EXCEPT ![c] = [call[c] EXCEPT !.at = "discover", !.entry = e]]
        /\ Keeps([entry EXCEPT ![e] = New(call[c].id)])
  BY DEF Connected
<1> DEFINE objects == [entry EXCEPT ![e] = New(call[c].id)]
<1>2. call[c].op = "connect" /\ call[c].at = "open" /\ call[c].id \in Ids
  BY DEF Connected, IInv, IdInv, CallOK
<1>3. Keeps(objects) /\ objects[e] = New(call[c].id) /\ \A x \in Entries : x # e => objects[x] = entry[x]
  BY <1>1 DEF IInv, IdInv, Shapes
<1> HIDE DEF objects
<1>4. DOMAIN call' = Clients /\ \A d \in Clients : d # c => call'[d] = call[d]
  BY <1>1 DEF IInv, IdInv, Shapes
<1>5. /\ call'[c].at = "discover" /\ call'[c].op = "connect" /\ call'[c].id = call[c].id
      /\ call'[c].left = call[c].left /\ call'[c].victims = call[c].victims
  BY <1>1, <1>2 DEF IInv, IdInv, Shapes
<1>6. CallOK(c)'
  BY <1>2, <1>5 DEF CallOK, ClosingAt, IInv, IdInv
<1>7. \A x \in Entries : x # e => /\ objects[x].id = entry[x].id /\ objects[x].state = entry[x].state
                               /\ objects[x].companions \subseteq Ids
  BY <1>3 DEF IInv, IdInv, Shapes
<1> QED
  BY <1>1, <1>2, <1>3, <1>4, <1>6, <1>7, StoresStep DEF ClosingAt

LEMMA CompanionConnectedStep ==
  ASSUME IInv, NEW c \in Clients, CompanionConnected(c)
  PROVE  IInv'
<1> DEFINE r == [call[c] EXCEPT !.comp = "none"]
           k == call[c].comp
           p == call[c].entry
<1>1. PICK e \in Entries :
        /\ Stores(e, k)
        /\ OpensCompanions(c, r)
        /\ Keeps([entry EXCEPT ![e] = New(k), ![p].companions = @ \cup {k}])
  BY DEF CompanionConnected
<1> DEFINE objects == [entry EXCEPT ![e] = New(k), ![p].companions = @ \cup {k}]
<1>2. /\ call[c].at = "openCompanion" /\ call[c].op = "connect" /\ call[c].id \in Ids /\ k \in Ids
      /\ call[c].left \subseteq Ids /\ call[c].victims \subseteq Ids
  BY DEF CompanionConnected, IInv, IdInv, CallOK
<1>3. r.op = "connect" /\ r.id \in Ids /\ r.left \subseteq Ids /\ r.victims \subseteq Ids
  BY <1>2
<1>4. p # e
  BY <1>1, RefersTo DEF Stores, Unused
<1>5. objects[e] = New(k)
  BY <1>4 DEF IInv, IdInv, Shapes
<1>6. ASSUME NEW x \in Entries, x # e
      PROVE  /\ objects[x].id = entry[x].id /\ objects[x].state = entry[x].state
             /\ objects[x].companions \subseteq Ids
  BY <1>2, <1>6 DEF IInv, IdInv, Shapes
<1>7. Keeps(objects)
  BY <1>1
<1> HIDE DEF objects, r, k
<1>8. CallOK(c)' /\ DOMAIN call' = Clients /\ \A d \in Clients : d # c => call'[d] = call[d]
  BY <1>1, <1>3, OpensCompanionsDoes DEF IInv
<1> QED
  BY <1>1, <1>2, <1>5, <1>6, <1>7, <1>8, StoresStep DEF ClosingAt

-----------------------------------------------------------------------------
(* The table is left as it is, and no watchdog is stopped that has a device *)

LEMMA StandingStep ==
  ASSUME IInv, NEW movers, SameIds, DOMAIN entry' = Entries, \A e \in Entries : entry'[e].companions \subseteq Ids,
         table' = table, DOMAIN watch' = Entries, DOMAIN pinged' = Entries,
         \A w \in Entries :
           \/ watch'[w] = watch[w] /\ pinged'[w] = pinged[w]
           \/ watch'[w] = "none" /\ entry[w].id \in Ids /\ table[entry[w].id] = NoEntry
           \/ watch'[w] = "sleep" /\ entry[w].id \in Ids
           \/ /\ watch'[w] \in {"ping", "good", "bad"} /\ entry[w].id \in Ids
              /\ pinged'[w] \in Entries /\ entry[pinged'[w]].id = entry[w].id,
         DOMAIN call' = Clients, \A d \in Clients : d \notin movers => call'[d] = call[d],
         \A d \in Clients : d \in movers => CallOK(d)' /\ call[d].at \notin ClosingAt,
         \A i \in Ids : Shown(i)' => Shown(i) \/ Watched(i)'
  PROVE  IInv'
<1>1. DOMAIN table' = Ids /\ \A i \in Ids : table'[i] \in {table[i], NoEntry}
  BY DEF IInv, IdInv, Shapes
<1>2. \A w \in Entries : watch'[w] # "none" => entry[w].id \in Ids
  BY DEF IInv, IdInv, WatchOK
<1>3. ASSUME NEW w \in Entries
      PROVE  \/ watch'[w] = watch[w] /\ pinged'[w] = pinged[w]
             \/ watch'[w] \in {"none", "sleep"}
             \/ watch'[w] \in {"ping", "good", "bad"} /\ pinged'[w] \in Entries /\ entry[pinged'[w]].id = entry[w].id
  OBVIOUS
<1>4. IdInv'
  BY <1>1, <1>2, <1>3, PlainStep DEF IInv
<1>5. ASSUME NEW i \in Ids, Shown(i)'
      PROVE  Watched(i)' \/ \E d \in Clients : ClosedBy(d, table[i])'
  <2>1. CASE Watched(i) /\ Shown(i)
    <3>1. PICK w \in Entries : watch[w] # "none" /\ entry[w].id = i
      BY <2>1 DEF Watched
    <3>2. watch'[w] # "none"
      BY <2>1, <3>1 DEF Shown
    <3>3. entry'[w].id = i
      BY <3>1, <3>2, RefersToNext DEF SameIds
    <3> QED
      BY <3>2, <3>3 DEF Watched
  <2>2. CASE \E d \in Clients : ClosedBy(d, table[i])
    BY <2>2 DEF ClosedBy
  <2> QED
    BY <1>5, <2>1, <2>2, ShownIsWatchedIs DEF IInv
<1>6. ShownIsWatched'
  BY <1>5 DEF ShownIsWatched, Shown, Watched, Closing, ClosedBy, ClosingAt
<1> QED
  BY <1>4, <1>6 DEF IInv

\* reconnect() starts the watchdog of the entry the table holds: its own, if that is still there.
LEMMA ReconnectedStep ==
  ASSUME IInv, NEW c \in Clients, Reconnected(c)
  PROVE  IInv'
<1> DEFINE e == call[c].entry
           found == {table[call[c].id]} \ {NoEntry}
           objects == [entry EXCEPT ![e].state = "connected", ![e].link = "up"]
<1>1. /\ table' = table /\ Ends(c) /\ Keeps(objects)
      /\ watch' = [w \in Entries |-> IF w \in found THEN "sleep" ELSE watch[w]]
      /\ pinged' = [w \in Entries |-> IF w \in found THEN NoEntry ELSE pinged[w]]
  BY DEF Reconnected
<1>2. /\ e \in Entries /\ entry[e].id = call[c].id /\ call[c].id \in Ids /\ call[c].at \notin ClosingAt
  BY DEF Reconnected, IInv, IdInv, CallOK
<1>3. SameObjects(objects) /\ \A x \in Entries : x # e => objects[x] = entry[x]
  BY DEF SameObjects, IInv, IdInv, Shapes
<1> HIDE DEF objects, e
<1>4. SameIds /\ DOMAIN entry' = Entries /\ \A x \in Entries : entry'[x].companions \subseteq Ids
  BY <1>1, <1>3, KeepsSame DEF IInv
<1>5. CallOK(c)' /\ DOMAIN call' = Clients /\ \A d \in Clients : d # c => call'[d] = call[d]
  BY <1>1, EndsDoes DEF IInv
<1>6. ASSUME NEW w \in Entries
      PROVE  \/ watch'[w] = watch[w] /\ pinged'[w] = pinged[w]
             \/ watch'[w] = "sleep" /\ entry[w].id \in Ids
  <2>1. CASE w \notin found
    BY <1>1, <2>1
  <2>2. CASE w \in found
    <3>1. w = table[call[c].id] /\ entry[w].id = call[c].id
      BY <1>2, <2>2 DEF IInv, IdInv, Shapes
    <3> QED
      BY <1>1, <1>2, <2>2, <3>1
  <2> QED
    BY <2>1, <2>2
<1>7. ASSUME NEW i \in Ids, Shown(i)' PROVE Shown(i) \/ Watched(i)'
  <2>1. table[i] # NoEntry /\ table[i] \in Entries /\ entry[table[i]].id = i /\ table'[i] = table[i]
    BY <1>1, <1>7 DEF Shown, IInv, IdInv, Shapes
  <2>2. entry'[table[i]] = objects[table[i]] /\ entry'[table[i]].id = i
    BY <1>1, <1>3, <2>1, RefersToNext, KeepsDoes DEF SameObjects
  <2>3. CASE table[i] = e
    <3>1. table[i] \in found
      BY <1>2, <2>1, <2>3
    <3>2. watch'[table[i]] = "sleep"
      BY <1>1, <2>1, <3>1
    <3> QED
      BY <2>1, <2>2, <3>2 DEF Watched
  <2>4. CASE table[i] # e
    BY <1>3, <1>7, <2>1, <2>2, <2>4 DEF Shown
  <2> QED
    BY <2>3, <2>4
<1> DEFINE movers == {c}
<1>8. /\ \A d \in Clients : d \notin movers => call'[d] = call[d]
      /\ \A d \in Clients : d \in movers => CallOK(d)' /\ call[d].at \notin ClosingAt
  BY <1>2, <1>5
<1>9. DOMAIN watch' = Entries /\ DOMAIN pinged' = Entries
  BY <1>1
<1> HIDE DEF movers
<1> QED
  BY <1>1, <1>4, <1>5, <1>6, <1>7, <1>8, <1>9, StandingStep

\* A step of one watchdog.
LEMMA WatchdogKeeps ==
  ASSUME IInv, NEW w \in Entries, WatchdogStep(w)
  PROVE  IInv'
<1>1. table' = table /\ call' = call /\ watch[w] # "none"
  BY DEF WatchdogStep, WatchdogWakes, PingAnswers, WatchdogActs
<1>2. entry[w].id \in Ids /\ DOMAIN call' = Clients
  BY <1>1 DEF IInv, IdInv, Shapes, WatchOK
<1> DEFINE OneWatch ==
      /\ DOMAIN watch' = Entries /\ DOMAIN pinged' = Entries
      /\ \A v \in Entries : v # w => watch'[v] = watch[v] /\ pinged'[v] = pinged[v]
      /\ \/ watch'[w] = "none" /\ table[entry[w].id] = NoEntry
         \/ watch'[w] = "sleep"
         \/ watch'[w] \in {"ping", "good", "bad"} /\ pinged'[w] \in Entries /\ entry[pinged'[w]].id = entry[w].id
<1>3. ASSUME NEW at, NEW e, Watches(w, at, e),
             \/ at = "none" /\ table[entry[w].id] = NoEntry
             \/ at = "sleep"
             \/ at \in {"ping", "good", "bad"} /\ e \in Entries /\ entry[e].id = entry[w].id
      PROVE  OneWatch
  BY <1>3 DEF Watches, IInv, IdInv, Shapes
<1>4. ASSUME NEW objects, Keeps(objects), SameObjects(objects), OneWatch,
             \A i \in Ids : Shown(i)' => Shown(i) \/ Watched(i)'
      PROVE  IInv'
  <2>1. SameIds /\ DOMAIN entry' = Entries /\ \A e \in Entries : entry'[e].companions \subseteq Ids
    BY <1>4, KeepsSame DEF IInv
  <2> DEFINE movers == {}
  <2>2. \A d \in Clients : d \notin movers /\ call'[d] = call[d]
    BY <1>1
  <2> HIDE DEF movers
  <2>3. ASSUME NEW v \in Entries
        PROVE  \/ watch'[v] = watch[v] /\ pinged'[v] = pinged[v]
               \/ watch'[v] = "none" /\ entry[v].id \in Ids /\ table[entry[v].id] = NoEntry
               \/ watch'[v] = "sleep" /\ entry[v].id \in Ids
               \/ /\ watch'[v] \in {"ping", "good", "bad"} /\ entry[v].id \in Ids
                  /\ pinged'[v] \in Entries /\ entry[pinged'[v]].id = entry[v].id
    BY <1>2, <1>4
  <2> QED
    BY <1>1, <1>2, <1>4, <2>1, <2>2, <2>3, StandingStep
<1>5. ASSUME Keeps(entry), NEW i \in Ids, Shown(i)' PROVE Shown(i)
  <2>1. table'[i] = table[i] /\ table[i] # NoEntry /\ table[i] \in Entries
    BY <1>1, <1>5 DEF Shown, IInv, IdInv, Shapes
  <2> QED
    BY <1>5, <2>1, RefersToNext, KeepsDoes DEF Shown
<1>6. CASE WatchdogWakes(w)
  <2> DEFINE e == table[entry[w].id]
  <2>1. CASE e = NoEntry
    <3>1. Watches(w, "none", NoEntry) /\ Keeps(entry)
      BY <1>6, <2>1 DEF WatchdogWakes
    <3>2. OneWatch
      BY <1>3, <2>1, <3>1
    <3> QED
      BY <1>4, <1>5, <3>1, <3>2, EntrySame
  <2>2. CASE e # NoEntry
    <3>1. Watches(w, "ping", e) /\ Keeps(entry)
      BY <1>6, <2>2 DEF WatchdogWakes
    <3>2. e \in Entries /\ entry[e].id = entry[w].id
      BY <1>2, <2>2 DEF IInv, IdInv, Shapes
    <3>3. OneWatch
      BY <1>3, <3>1, <3>2
    <3> QED
      BY <1>4, <1>5, <3>1, <3>3, EntrySame
  <2> QED
    BY <2>1, <2>2
<1>7. CASE PingAnswers(w)
  <2>1. PICK at \in {"good", "bad"} : Watches(w, at, pinged[w]) /\ Keeps(entry) /\ watch[w] = "ping"
    BY <1>7 DEF PingAnswers
  <2>2. pinged[w] \in Entries /\ entry[pinged[w]].id = entry[w].id
    BY <2>1 DEF IInv, IdInv, WatchOK
  <2>3. OneWatch
    BY <1>3, <2>1, <2>2
  <2> QED
    BY <1>4, <1>5, <2>1, <2>3, EntrySame
<1>8. CASE WatchdogActs(w)
  <2> DEFINE e == pinged[w]
             objects == [entry EXCEPT ![e].state = Judged(@, watch[w])]
  <2>1. Watches(w, "sleep", NoEntry) /\ Keeps(objects) /\ watch[w] \in {"good", "bad"}
    BY <1>8 DEF WatchdogActs
  <2>2. e \in Entries /\ entry[e].id = entry[w].id
    BY <2>1 DEF IInv, IdInv, WatchOK
  <2>3. SameObjects(objects) /\ \A x \in Entries : x # e => objects[x] = entry[x]
    BY DEF SameObjects, IInv, IdInv, Shapes
  <2> HIDE DEF objects, e
  <2>4. OneWatch /\ watch'[w] = "sleep"
    <3>1. watch'[w] = "sleep"
      BY <2>1 DEF Watches, IInv, IdInv, Shapes
    <3> QED
      BY <1>3, <2>1, <3>1
  <2>5. ASSUME NEW i \in Ids, Shown(i)' PROVE Shown(i) \/ Watched(i)'
    <3>1. table'[i] = table[i] /\ table[i] # NoEntry /\ table[i] \in Entries /\ entry[table[i]].id = i
      BY <1>1, <2>5 DEF Shown, IInv, IdInv, Shapes
    <3>2. CASE table[i] = e
      <4>1. entry'[w].id = entry[w].id
        BY <2>1, <2>3, <2>4, RefersToNext, KeepsDoes DEF SameObjects
      <4> QED
        BY <2>2, <2>4, <3>1, <3>2, <4>1 DEF Watched
    <3>3. CASE table[i] # e
      BY <2>1, <2>3, <2>5, <3>1, <3>3, RefersToNext, KeepsDoes DEF Shown
    <3> QED
      BY <3>2, <3>3
  <2> QED
    BY <1>4, <2>1, <2>3, <2>4, <2>5
<1> QED
  BY <1>6, <1>7, <1>8 DEF WatchdogStep

LEMMA LinkStep ==
  ASSUME IInv, NEW e \in Entries, LinkChanges(e)
  PROVE  IInv'
<1>1. UNCHANGED <<table, watch, pinged, call>>
  BY DEF LinkChanges
<1>2. /\ DOMAIN entry' = Entries
      /\ \A x \in Entries : /\ entry'[x].id = entry[x].id /\ entry'[x].state = entry[x].state
                            /\ entry'[x].companions = entry[x].companions
  <2>1. DOMAIN entry = Entries
    BY DEF IInv, IdInv, Shapes
  <2>2. CASE entry' = [entry EXCEPT ![e].link = "dead"]
    BY <2>1, <2>2
  <2>3. CASE entry' = [entry EXCEPT ![e].link = "up"]
    BY <2>1, <2>3
  <2> QED
    BY <2>2, <2>3 DEF LinkChanges
<1>3. SameIds /\ \A x \in Entries : entry'[x].companions \subseteq Ids
  BY <1>2 DEF SameIds, IInv, IdInv, Shapes
<1>4. \A i \in Ids : Shown(i)' => Shown(i)
  BY <1>1, <1>2 DEF Shown, IInv, IdInv, Shapes
<1> DEFINE movers == {}
<1>5. \A d \in Clients : d \notin movers /\ call'[d] = call[d]
  BY <1>1
<1> HIDE DEF movers
<1>6. DOMAIN call' = Clients /\ DOMAIN watch' = Entries /\ DOMAIN pinged' = Entries /\ table' = table
  BY <1>1 DEF IInv, IdInv, Shapes
<1>7. \A w \in Entries : watch'[w] = watch[w] /\ pinged'[w] = pinged[w]
  BY <1>1
<1> QED
  BY <1>2, <1>3, <1>4, <1>5, <1>6, <1>7, StandingStep

-----------------------------------------------------------------------------
LEMMA NextIInv == IInv /\ [DeviceNext]_vars => IInv'
<1> SUFFICES ASSUME IInv, [DeviceNext]_vars PROVE IInv'
  OBVIOUS
<1>1. ASSUME NEW c \in Clients, NEW i \in Ids, Connect(c, i) PROVE IInv'
  BY <1>1, ConnectStep
<1>2. ASSUME NEW c \in Clients, NEW i \in Ids, Disconnect(c, i) PROVE IInv'
  BY <1>2, DisconnectStep
<1>3. ASSUME NEW c \in Clients, NEW i \in Ids, SoftDisconnect(c, i) PROVE IInv'
  BY <1>3, SoftDisconnectStep
<1>4. ASSUME NEW c \in Clients, NEW i \in Ids, Reconnect(c, i) PROVE IInv'
  BY <1>4, ReconnectStep
<1>5. ASSUME NEW c \in Clients, CallStep(c) PROVE IInv'
  <2>1. CASE CompanionClosed(c)
    BY <2>1, CompanionClosedStep
  <2>2. CASE Closed(c)
    BY <2>2, ClosedStep
  <2>3. CASE Connected(c)
    BY <2>3, ConnectedStep
  <2>4. CASE ConnectFails(c)
    BY <2>4, ConnectFailsStep
  <2>5. CASE Discovered(c)
    BY <2>5, DiscoveredStep
  <2>6. CASE CompanionConnected(c)
    BY <2>6, CompanionConnectedStep
  <2>7. CASE CompanionFails(c)
    BY <2>7, CompanionFailsStep
  <2>8. CASE Reconnected(c)
    BY <2>8, ReconnectedStep
  <2>9. CASE ReconnectFails(c)
    BY <2>9, ReconnectFailsStep
  <2> QED
    BY <1>5, <2>1, <2>2, <2>3, <2>4, <2>5, <2>6, <2>7, <2>8, <2>9 DEF CallStep
<1>6. ASSUME NEW e \in Entries, WatchdogStep(e) PROVE IInv'
  BY <1>6, WatchdogKeeps
<1>7. ASSUME NEW e \in Entries, LinkChanges(e) PROVE IInv'
  BY <1>7, LinkStep
<1>8. CASE UNCHANGED vars
  <2>1. UNCHANGED <<table, entry, watch, pinged, call>>
    BY <1>8 DEF vars
  <2>2. IdInv'
    BY <2>1 DEF IInv, IdInv, Shapes, WatchOK, CallOK
  <2>3. ShownIsWatched'
    BY <2>1 DEF IInv, ShownIsWatched, Closing
  <2> QED
    BY <2>2, <2>3 DEF IInv
<1> QED
  BY <1>1, <1>2, <1>3, <1>4, <1>5, <1>6, <1>7, <1>8 DEF DeviceNext

THEOREM DeviceInvariance == DeviceSpec => []IInv
<1>1. DeviceInit => IInv
  BY InitIInv
<1>2. IInv /\ [DeviceNext]_vars => IInv'
  BY NextIInv
<1> QED
  BY <1>1, <1>2, PTL DEF DeviceSpec

\* Hardware that dies is noticed: a device shown as connected has a watchdog, or a call is closing it
\* (_start_watchdog and _cancel_watchdog), whatever clients call at once.
THEOREM DeadHardwareIsNoticed == DeviceSpec => []ShownIsWatched
<1>1. IInv => ShownIsWatched
  BY DEF IInv
<1> QED
  BY <1>1, DeviceInvariance, PTL

-----------------------------------------------------------------------------
(* Devices that were disconnected on purpose *)

BlankInv == \A e \in Entries : e \notin Referred => entry[e] = Blank

LEMMA InitBlank == DeviceInit => BlankInv
  BY DEF DeviceInit, BlankInv

LEMMA NextBlank == BlankInv /\ IInv /\ [DeviceNext]_vars => BlankInv'
<1> SUFFICES ASSUME BlankInv, IInv, [DeviceNext]_vars PROVE BlankInv'
  OBVIOUS
<1>1. ASSUME NEW objects, Keeps(objects) PROVE BlankInv'
  BY <1>1, KeepsDoes DEF BlankInv
<1>2. CASE UNCHANGED vars
  BY <1>2 DEF BlankInv, vars, Referred, InTable
<1>3. ASSUME NEW e \in Entries, LinkChanges(e) PROVE BlankInv'
  <2>1. entry[e].link \in {"up", "dead"} /\ UNCHANGED <<table, watch, pinged, call>>
    BY <1>3 DEF LinkChanges
  <2>2. e \in Referred
    BY <2>1 DEF BlankInv, Blank
  <2>3. Referred' = Referred
    BY <2>1 DEF Referred, InTable
  <2>4. \A x \in Entries : x # e => entry'[x] = entry[x]
    BY <1>3 DEF LinkChanges, IInv, IdInv, Shapes
  <2> QED
    BY <2>2, <2>3, <2>4 DEF BlankInv
<1>4. ASSUME NEW c \in Clients, NEW i \in Ids, Connect(c, i) \/ Disconnect(c, i) \/ SoftDisconnect(c, i) \/ Reconnect(c, i)
      PROVE  BlankInv'
  <2>1. Keeps(entry)
    BY <1>4 DEF Connect, Disconnect, SoftDisconnect, Reconnect
  <2> QED
    BY <1>1, <2>1
<1>5. ASSUME NEW c \in Clients, CallStep(c) PROVE BlankInv'
  <2>1. CASE CompanionClosed(c)
    BY <1>1, <2>1 DEF CompanionClosed
  <2>2. CASE Closed(c)
    BY <1>1, <2>2 DEF Closed
  <2>3. CASE Connected(c)
    BY <1>1, <2>3 DEF Connected
  <2>4. CASE CompanionConnected(c)
    BY <1>1, <2>4 DEF CompanionConnected
  <2>5. CASE Reconnected(c)
    BY <1>1, <2>5 DEF Reconnected
  <2>6. CASE ReconnectFails(c)
    BY <1>1, <2>6 DEF ReconnectFails
  <2>7. CASE ConnectFails(c) \/ Discovered(c) \/ CompanionFails(c)
    BY <1>1, <2>7 DEF ConnectFails, Discovered, CompanionFails
  <2> QED
    BY <1>5, <2>1, <2>2, <2>3, <2>4, <2>5, <2>6, <2>7 DEF CallStep
<1>6. ASSUME NEW w \in Entries, WatchdogStep(w) PROVE BlankInv'
  BY <1>1, <1>6 DEF WatchdogStep, WatchdogWakes, PingAnswers, WatchdogActs
<1> QED
  BY <1>2, <1>3, <1>4, <1>5, <1>6 DEF DeviceNext

\* What a ping makes of an entry never turns disconnected into connected.
LEMMA JudgedStaysDown == \A answer : Judged("disconnected", answer) = "disconnected"
  BY DEF Judged

StaysDownStep ==
  \A e \in Entries :
    entry[e].state = "disconnected" /\ entry'[e].state = "connected"
      => \E c \in Clients : call[c].entry = e /\ Reconnected(c)

LEMMA OnlyReconnectedConnects == BlankInv /\ IInv /\ [DeviceNext]_vars => StaysDownStep
<1> SUFFICES ASSUME BlankInv, IInv, [DeviceNext]_vars, NEW e \in Entries,
                    entry[e].state = "disconnected", entry'[e].state = "connected"
             PROVE  \E c \in Clients : call[c].entry = e /\ Reconnected(c)
  BY DEF StaysDownStep
<1>1. ASSUME NEW objects, Keeps(objects) PROVE objects[e].state = "connected"
  <2>1. e \in Referred'
    BY <1>1, KeepsDoes DEF Blank
  <2> QED
    BY <1>1, <2>1, KeepsDoes
<1>2. DOMAIN entry = Entries
  BY DEF IInv, IdInv, Shapes
<1>3. e \in Referred
  BY DEF BlankInv, Blank
<1>4. ~Keeps(entry) /\ entry' # entry
  BY <1>1
<1>5. ASSUME NEW c \in Clients, Closed(c) \/ CompanionClosed(c) PROVE FALSE
  <2>1. PICK x, l : \/ Keeps([entry EXCEPT ![x].link = l])
                   \/ Keeps([entry EXCEPT ![x].link = l, ![x].state = "disconnected"])
    BY <1>5 DEF Closed, CompanionClosed
  <2>2. [entry EXCEPT ![x].link = l][e].state = "disconnected"
    BY <1>2
  <2>3. [entry EXCEPT ![x].link = l, ![x].state = "disconnected"][e].state = "disconnected"
    BY <1>2
  <2> QED
    BY <1>1, <2>1, <2>2, <2>3
<1>6. ASSUME NEW c \in Clients, Connected(c) PROVE FALSE
  <2>1. PICK x \in Entries : x \in Unused /\ Keeps([entry EXCEPT ![x] = New(call[c].id)])
    BY <1>6 DEF Connected, Stores
  <2>2. [entry EXCEPT ![x] = New(call[c].id)][e].state = "disconnected"
    BY <1>2, <1>3, <2>1 DEF Unused
  <2> QED
    BY <1>1, <2>1, <2>2
<1>7. ASSUME NEW c \in Clients, CompanionConnected(c) PROVE FALSE
  <2>1. PICK x \in Entries : /\ x \in Unused
                             /\ Keeps([entry EXCEPT ![x] = New(call[c].comp),
                                                     ![call[c].entry].companions = @ \cup {call[c].comp}])
    BY <1>7 DEF CompanionConnected, Stores
  <2>2. [entry EXCEPT ![x] = New(call[c].comp),
                      ![call[c].entry].companions = @ \cup {call[c].comp}][e].state = "disconnected"
    BY <1>2, <1>3, <2>1 DEF Unused
  <2> QED
    BY <1>1, <2>1, <2>2
<1>8. ASSUME NEW c \in Clients, ReconnectFails(c) PROVE FALSE
  <2>1. Keeps([entry EXCEPT ![call[c].entry].state = "error"])
    BY <1>8 DEF ReconnectFails
  <2>2. [entry EXCEPT ![call[c].entry].state = "error"][e].state # "connected"
    BY <1>2
  <2> QED
    BY <1>1, <2>1, <2>2
<1>9. ASSUME NEW c \in Clients, Reconnected(c) PROVE call[c].entry = e
  <2>1. Keeps([entry EXCEPT ![call[c].entry].state = "connected", ![call[c].entry].link = "up"])
    BY <1>9 DEF Reconnected
  <2>2. call[c].entry # e
          => [entry EXCEPT ![call[c].entry].state = "connected", ![call[c].entry].link = "up"][e].state = "disconnected"
    BY <1>2
  <2> QED
    BY <1>1, <2>1, <2>2
<1>10. ASSUME NEW w \in Entries, WatchdogActs(w) PROVE FALSE
  <2>1. Keeps([entry EXCEPT ![pinged[w]].state = Judged(@, watch[w])])
    BY <1>10 DEF WatchdogActs
  <2>2. [entry EXCEPT ![pinged[w]].state = Judged(@, watch[w])][e].state = "disconnected"
    BY <1>2, JudgedStaysDown
  <2> QED
    BY <1>1, <2>1, <2>2
<1>11. ASSUME NEW x \in Entries, LinkChanges(x) PROVE FALSE
  <2>1. PICK l : entry' = [entry EXCEPT ![x].link = l]
    BY <1>11 DEF LinkChanges
  <2> QED
    BY <1>2, <2>1
<1>12. CASE \E c \in Clients, i \in Ids : Connect(c, i) \/ Disconnect(c, i) \/ SoftDisconnect(c, i) \/ Reconnect(c, i)
  BY <1>4, <1>12 DEF Connect, Disconnect, SoftDisconnect, Reconnect
<1>13. CASE \E c \in Clients : CallStep(c)
  <2>1. PICK c \in Clients : CallStep(c)
    BY <1>13
  <2>2. ~ConnectFails(c) /\ ~Discovered(c) /\ ~CompanionFails(c)
    BY <1>4 DEF ConnectFails, Discovered, CompanionFails
  <2>3. Reconnected(c)
    BY <1>5, <1>6, <1>7, <1>8, <2>1, <2>2 DEF CallStep
  <2> QED
    BY <1>9, <2>3
<1>14. CASE \E w \in Entries : WatchdogStep(w) \/ LinkChanges(w)
  BY <1>4, <1>10, <1>11, <1>14 DEF WatchdogStep, WatchdogWakes, PingAnswers
<1>15. CASE UNCHANGED vars
  BY <1>4, <1>15 DEF vars
<1> QED
  BY <1>12, <1>13, <1>14, <1>15 DEF DeviceNext

\* Only a reconnect() brings back a device that was disconnected on purpose: no ping that was under way when it
\* was disconnected does, and no other call.
THEOREM DisconnectedStaysDown == DeviceSpec => StaysDown
<1>1. DeviceInit => BlankInv
  BY InitBlank
<1>2. BlankInv /\ IInv /\ [DeviceNext]_vars => BlankInv'
  BY NextBlank
<1>3. BlankInv /\ IInv /\ [DeviceNext]_vars => StaysDownStep
  BY OnlyReconnectedConnects
<1>4. StaysDown <=> [][StaysDownStep]_vars
  BY PTL DEF StaysDown, StaysDownStep
<1> QED
  BY <1>1, <1>2, <1>3, <1>4, DeviceInvariance, PTL DEF DeviceSpec
=============================================================================
