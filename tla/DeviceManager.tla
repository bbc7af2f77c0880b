--------------------------- MODULE DeviceManager ----------------------------
(***************************************************************************)
(* The table of connected devices (devices/manager.py): connect with the   *)
(* eviction of another mount and the companions found after it, disconnect,*)
(* soft_disconnect, reconnect, and the watchdog of each device.            *)
(*                                                                         *)
(* A call suspends where it waits for a driver to open or close, or for    *)
(* companions to be discovered; everything between two such waits is one   *)
(* step.  Calls keep a reference to the entry (the ConnectedDevice) they   *)
(* found at their start, and write the table by device id at their end,    *)
(* whatever entry it holds by then; a watchdog looks its device up by id   *)
(* each time.  A watchdog that is cancelled takes no further step, so it   *)
(* is gone at once.                                                        *)
(*                                                                         *)
(* Entries are identities that are used again once nothing refers to them. *)
(* Adapters, parameters and events are left out.                           *)
(***************************************************************************)
EXTENDS Naturals, FiniteSets

CONSTANTS
  Ids,          \* device ids
  Mounts,       \* the ids of kind "mount" (_SINGLETON_KINDS)
  CompanionsOf, \* what the companion discoverer finds for each id
  Entries,      \* identities for the ConnectedDevice objects referred to at once
  Clients,      \* concurrent callers of the manager
  NoEntry,
  Uses          \* the operations clients use (an environment choice)

ASSUME DeviceAssumption ==
  /\ Mounts \subseteq Ids
  /\ CompanionsOf \in [Ids -> SUBSET Ids]
  /\ NoEntry \notin Entries

VARIABLES
  table,  \* _devices: the entry of each id
  entry,  \* the entries: their id, state and companions, and what the driver's link is
  watch,  \* the watchdog task made for each entry
  pinged, \* the entry a watchdog is pinging
  call    \* where each client is inside its call

vars == <<table, entry, watch, pinged, call>>

Blank == [id |-> "none", state |-> "none", companions |-> {}, link |-> "down"]
NoCall == [op |-> "none", at |-> "none", id |-> "none", entry |-> NoEntry, comp |-> "none", compEntry |-> NoEntry,
           left |-> {}, victims |-> {}]

InTable == {table[i] : i \in Ids}
Referred == InTable \cup {call[c].entry : c \in Clients} \cup {call[c].compEntry : c \in Clients}
              \cup {pinged[w] : w \in Entries} \cup {w \in Entries : watch[w] # "none"}
Unused == Entries \ Referred

DeviceTypeOK ==
  /\ table \in [Ids -> Entries \cup {NoEntry}]
  /\ \A i \in Ids : table[i] # NoEntry => entry[table[i]].id = i
  /\ \A e \in Entries :
       IF e \in Unused
       THEN entry[e] = Blank
       ELSE entry[e] \in [id: Ids, state: {"connected", "disconnected", "error"}, companions: SUBSET Ids,
                          link: {"up", "dead", "down"}]
  /\ watch \in [Entries -> {"none", "sleep", "ping", "good", "bad"}]
  /\ \A w \in Entries : IF watch[w] \in {"none", "sleep"} THEN pinged[w] = NoEntry ELSE pinged[w] \in Entries
  /\ \A c \in Clients :
       /\ call[c].op \in {"none", "connect", "disconnect", "soft", "reconnect"}
       /\ call[c].at \in {"none", "open", "close", "discover", "openCompanion", "closeCompanion"}
       /\ (call[c].op = "none") = (call[c] = NoCall)

DeviceInit ==
  /\ table = [i \in Ids |-> NoEntry]
  /\ entry = [e \in Entries |-> Blank]
  /\ watch = [e \in Entries |-> "none"]
  /\ pinged = [e \in Entries |-> NoEntry]
  /\ call = [c \in Clients |-> NoCall]

-----------------------------------------------------------------------------
(* Steps of a call.  table' is known when these are used. *)

\* Objects nobody refers to any more are gone.
Keeps(objects) == entry' = [e \in Entries |-> IF e \in Unused' THEN Blank ELSE objects[e]]

\* _cancel_watchdog
Unwatched(es) ==
  /\ watch' = [w \in Entries |-> IF w \in es THEN "none" ELSE watch[w]]
  /\ pinged' = [w \in Entries |-> IF w \in es THEN NoEntry ELSE pinged[w]]

Present(ids) == {i \in ids : table'[i] # NoEntry}

Ends(c) == call' = [call EXCEPT ![c] = NoCall]

\* The next companion that is still in the table, in any order, then the device itself.
Closes(c, r, quiet) ==
  \/ \E k \in Present(r.left) : \E skipped \in SUBSET (r.left \ Present(r.left)) :
       /\ call' = [call EXCEPT ![c] = [r EXCEPT !.at = "closeCompanion", !.comp = k, !.compEntry = table'[k],
                                            !.left = @ \ (skipped \cup {k})]]
       /\ Unwatched(quiet \cup {table'[k]})
  \/ /\ Present(r.left) = {}
     /\ call' = [call EXCEPT ![c] = [r EXCEPT !.at = "close", !.comp = "none", !.compEntry = NoEntry, !.left = {}]]
     /\ Unwatched(quiet)

\* The next mount to evict that is still in the table, then the new device is opened.
EvictsOrOpens(c, r) ==
  \/ \E v \in Present(r.victims) : \E skipped \in SUBSET (r.victims \ Present(r.victims)) :
       LET e == table'[v]
       IN Closes(c, [r EXCEPT !.entry = e, !.left = entry[e].companions, !.victims = @ \ (skipped \cup {v})], {e})
  \/ /\ Present(r.victims) = {}
     /\ call' = [call EXCEPT ![c] = [r EXCEPT !.at = "open", !.entry = NoEntry, !.comp = "none", !.compEntry = NoEntry,
                                            !.left = {}, !.victims = {}]]
     /\ UNCHANGED <<watch, pinged>>

\* The next companion that is not in the table yet, then connect() is over.
OpensCompanions(c, r) ==
  \/ \E k \in r.left \ Present(r.left) : \E skipped \in SUBSET Present(r.left) :
       call' = [call EXCEPT ![c] = [r EXCEPT !.at = "openCompanion", !.comp = k, !.left = @ \ (skipped \cup {k})]]
  \/ r.left = Present(r.left) /\ Ends(c)

-----------------------------------------------------------------------------
(* The calls. *)

\* connect(): an id in use is refused; a mount evicts the mounts connected now.
Connect(c, i) ==
  /\ "connect" \in Uses
  /\ call[c] = NoCall
  /\ table[i] = NoEntry
  /\ UNCHANGED table
  /\ EvictsOrOpens(c, [NoCall EXCEPT !.op = "connect", !.id = i,
                         !.victims = IF i \in Mounts THEN Present(Mounts) ELSE {}])
  /\ Keeps(entry)

Disconnect(c, i) ==
  /\ "disconnect" \in Uses
  /\ call[c] = NoCall
  /\ table[i] # NoEntry
  /\ UNCHANGED table
  /\ Closes(c, [NoCall EXCEPT !.op = "disconnect", !.id = i, !.entry = table[i], !.left = entry[table[i]].companions],
            {table[i]})
  /\ Keeps(entry)

SoftDisconnect(c, i) ==
  /\ "soft" \in Uses
  /\ call[c] = NoCall
  /\ table[i] # NoEntry
  /\ UNCHANGED table
  /\ Closes(c, [NoCall EXCEPT !.op = "soft", !.id = i, !.entry = table[i]], {table[i]})
  /\ Keeps(entry)

\* reconnect(): refused while the entry says CONNECTED.
Reconnect(c, i) ==
  /\ "soft" \in Uses
  /\ call[c] = NoCall
  /\ table[i] # NoEntry
  /\ entry[table[i]].state # "connected"
  /\ call' = [call EXCEPT ![c] = [NoCall EXCEPT !.op = "reconnect", !.at = "open", !.id = i, !.entry = table[i]]]
  /\ UNCHANGED <<table, watch, pinged>>
  /\ Keeps(entry)

\* The driver closed or failed to: by id, whatever entry the table holds for the companion by now.
CompanionClosed(c) ==
  LET r == call[c]
  IN /\ r.at = "closeCompanion"
     /\ table' = [table EXCEPT ![r.comp] = NoEntry]
     /\ Closes(c, r, {})
     /\ \E l \in {"down", entry[r.compEntry].link} : Keeps([entry EXCEPT ![r.compEntry].link = l])

\* The driver closed or failed to: the entry is marked, or removed by id, whatever the table holds by now.
Closed(c) ==
  LET r == call[c]
      e == r.entry
      closed(l) == [entry EXCEPT ![e].link = l]
  IN /\ r.at = "close"
     /\ \E l \in {"down", entry[e].link} :
          \/ /\ r.op = "soft"
             /\ UNCHANGED <<table, watch, pinged>>
             /\ Ends(c)
             /\ Keeps([closed(l) EXCEPT ![e].state = "disconnected"])
          \/ /\ r.op = "disconnect"
             /\ table' = [table EXCEPT ![r.id] = NoEntry]
             /\ UNCHANGED <<watch, pinged>>
             /\ Ends(c)
             /\ Keeps(closed(l))
          \/ /\ r.op = "connect"
             /\ table' = [table EXCEPT ![entry[e].id] = NoEntry]
             /\ EvictsOrOpens(c, r)
             /\ Keeps(closed(l))

\* self._devices[id] = ConnectedDevice(...), _start_watchdog(id): over whatever the table holds.
Stores(e, i) ==
  /\ e \in Unused
  /\ table' = [table EXCEPT ![i] = e]
  /\ watch' = [watch EXCEPT ![e] = "sleep"]
  /\ UNCHANGED pinged

New(i) == [id |-> i, state |-> "connected", companions |-> {}, link |-> "up"]

Connected(c) ==
  LET r == call[c]
  IN /\ r.op = "connect" /\ r.at = "open"
     /\ \E e \in Entries :
          /\ Stores(e, r.id)
          /\ call' = [call EXCEPT ![c] = [r EXCEPT !.at = "discover", !.entry = e]]
          /\ Keeps([entry EXCEPT ![e] = New(r.id)])

\* The driver failed or CONNECT_TIMEOUT passed.
ConnectFails(c) ==
  /\ call[c].op = "connect" /\ call[c].at = "open"
  /\ Ends(c)
  /\ UNCHANGED <<table, watch, pinged>>
  /\ Keeps(entry)

\* The discoverer answers, or fails.
Discovered(c) ==
  /\ call[c].at = "discover"
  /\ UNCHANGED <<table, watch, pinged>>
  /\ \/ OpensCompanions(c, [call[c] EXCEPT !.left = CompanionsOf[call[c].id]])
     \/ Ends(c)
  /\ Keeps(entry)

CompanionConnected(c) ==
  LET r == call[c]
  IN /\ r.at = "openCompanion"
     /\ \E e \in Entries :
          /\ Stores(e, r.comp)
          /\ OpensCompanions(c, [r EXCEPT !.comp = "none"])
          /\ Keeps([entry EXCEPT ![e] = New(r.comp), ![r.entry].companions = @ \cup {r.comp}])

CompanionFails(c) ==
  /\ call[c].at = "openCompanion"
  /\ UNCHANGED <<table, watch, pinged>>
  /\ OpensCompanions(c, [call[c] EXCEPT !.comp = "none"])
  /\ Keeps(entry)

\* Seeded fault: reconnect() does not start a watchdog.
ReconnectedUnwatched(c) ==
  LET e == call[c].entry
  IN /\ call[c].op = "reconnect"
     /\ UNCHANGED <<table, watch, pinged>>
     /\ Ends(c)
     /\ Keeps([entry EXCEPT ![e].state = "connected", ![e].link = "up"])

\* _start_watchdog(id) replaces the watchdog of whatever entry the table holds, if any.
Reconnected(c) ==
  LET e == call[c].entry
      found == {table[call[c].id]} \ {NoEntry}
  IN /\ call[c].op = "reconnect"
     /\ watch' = [w \in Entries |-> IF w \in found THEN "sleep" ELSE watch[w]]
     /\ pinged' = [w \in Entries |-> IF w \in found THEN NoEntry ELSE pinged[w]]
     /\ UNCHANGED table
     /\ Ends(c)
     /\ Keeps([entry EXCEPT ![e].state = "connected", ![e].link = "up"])

ReconnectFails(c) ==
  /\ call[c].op = "reconnect"
  /\ UNCHANGED <<table, watch, pinged>>
  /\ Ends(c)
  /\ Keeps([entry EXCEPT ![call[c].entry].state = "error"])

-----------------------------------------------------------------------------
(* The watchdog made for entry w looks after the id of that entry. *)

Watches(w, at, e) ==
  /\ watch' = [watch EXCEPT ![w] = at]
  /\ pinged' = [pinged EXCEPT ![w] = e]

\* WATCHDOG_INTERVAL is over: the device is gone, or it is pinged unless it is disconnected.
WatchdogWakes(w) ==
  /\ watch[w] = "sleep"
  /\ LET e == table[entry[w].id]
     IN IF e = NoEntry
        THEN Watches(w, "none", NoEntry)
        ELSE /\ entry[e].state \in {"connected", "error"}
             /\ Watches(w, "ping", e)
  /\ UNCHANGED <<table, call>>
  /\ Keeps(entry)

\* The driver answers, fails, or WATCHDOG_PING_TIMEOUT passes.
PingAnswers(w) ==
  /\ watch[w] = "ping"
  /\ \/ entry[pinged[w]].link = "up" /\ Watches(w, "good", pinged[w])
     \/ Watches(w, "bad", pinged[w])
  /\ UNCHANGED <<table, call>>
  /\ Keeps(entry)

\* Seeded fault: the state is not looked at again after the ping.
JudgedBlindly(state, answer) == IF answer = "bad" THEN "error" ELSE "connected"

\* What a ping makes of the state the entry has when it is over.
Judged(state, answer) ==
  CASE answer = "bad" /\ state = "connected" -> "error"
    [] answer = "good" /\ state = "error" -> "connected"
    [] OTHER -> state

WatchdogActs(w) ==
  /\ watch[w] \in {"good", "bad"}
  /\ Watches(w, "sleep", NoEntry)
  /\ UNCHANGED <<table, call>>
  /\ Keeps([entry EXCEPT ![pinged[w]].state = Judged(@, watch[w])])

\* The hardware stops answering, or answers again.
LinkChanges(e) ==
  /\ \/ entry[e].link = "up" /\ entry' = [entry EXCEPT ![e].link = "dead"]
     \/ entry[e].link = "dead" /\ entry' = [entry EXCEPT ![e].link = "up"]
  /\ UNCHANGED <<table, watch, pinged, call>>

-----------------------------------------------------------------------------
CallStep(c) ==
  \/ CompanionClosed(c) \/ Closed(c) \/ Connected(c) \/ ConnectFails(c) \/ Discovered(c)
  \/ CompanionConnected(c) \/ CompanionFails(c) \/ Reconnected(c) \/ ReconnectFails(c)

WatchdogStep(w) == WatchdogWakes(w) \/ PingAnswers(w) \/ WatchdogActs(w)

DeviceNext ==
  \/ \E c \in Clients, i \in Ids : Connect(c, i) \/ Disconnect(c, i) \/ SoftDisconnect(c, i) \/ Reconnect(c, i)
  \/ \E c \in Clients : CallStep(c)
  \/ \E e \in Entries : WatchdogStep(e) \/ LinkChanges(e)

DeviceSpec == DeviceInit /\ [][DeviceNext]_vars

-----------------------------------------------------------------------------
(* Properties. *)

\* A device that was disconnected on purpose stays so until somebody reconnects it: a ping that was under way
\* does not bring it back (the state is checked again after the ping, manager.py:325).
StaysDown ==
  [][\A e \in Entries :
       entry[e].state = "disconnected" /\ entry'[e].state = "connected"
         => \E c \in Clients : call[c].entry = e /\ Reconnected(c)]_vars

\* A device shown as connected is watched, or some call is closing it: hardware that dies is noticed, however
\* clients connect, disconnect and reconnect meanwhile (_start_watchdog, _cancel_watchdog).
Closing(e) == \E c \in Clients : call[c].at \in {"close", "closeCompanion"} /\ e \in {call[c].entry, call[c].compEntry}
ShownIsWatched ==
  \A i \in Ids :
    table[i] # NoEntry /\ entry[table[i]].state = "connected"
      => \/ \E w \in Entries : watch[w] # "none" /\ entry[w].id = i
         \/ Closing(table[i])

\* Only one mount may be active at a time (_SINGLETON_KINDS, manager.py:35).
OneMount == Cardinality({i \in Mounts : table[i] # NoEntry}) <= 1

\* connect() refuses an id that is in use (DeviceAlreadyConnectedError), so it replaces no device.
ReplacesNothing == [][\A c \in Clients : Connected(c) => table[call[c].id] = NoEntry]_vars

\* A client that disconnects a device removes that device and not the one connected since.
RemovesItsOwn ==
  [][\A c \in Clients, i \in Ids :
       Closed(c) /\ table[i] # NoEntry /\ table'[i] = NoEntry => table[i] = call[c].entry]_vars

\* No companion is left in the table by a disconnect of its primary that came while it was being connected.
CompanionsFollow ==
  [][\A c \in Clients : CompanionConnected(c) => call[c].entry \in InTable]_vars
=============================================================================
