---------------------------- MODULE WifiManager ----------------------------
(***************************************************************************)
(* The user interface's picture of the Wi-Fi: WifiManager keeps the saved  *)
(* networks and the one it is on from the signals of NetworkManager, which *)
(* its monitor thread handles, from what the user chose, and from what a   *)
(* thread reads back when the settings open or a request fails.  Nothing   *)
(* is locked: _user_epoch tells a thread that the user chose meanwhile.    *)
(* NetworkManager is external, modelled from the signals the handler and   *)
(* its tests expect; signals the handler passes over are not sent.         *)
(***************************************************************************)
EXTENDS Naturals, Sequences, FiniteSets

CONSTANTS
  Ssids,       \* the networks there are
  Numbers,     \* tells the connections to one network apart, old and new
  NoSsid,      \* None
  Workers,     \* threads started for the user
  Settings,    \* the thread started when the settings open
  TapsMax,     \* bound of what the user does
  TurnsMax     \* bound of what NetworkManager begins and ends by itself

Callers == Workers \cup {Settings}
Monitor == "monitor"
Paths == [ssid : Ssids, n : Numbers]

ASSUME WifiAssumption ==
  /\ Numbers \subseteq Nat /\ 0 \in Numbers /\ TapsMax \in Nat /\ TurnsMax \in Nat
  /\ Settings \notin Workers /\ Monitor \notin Callers /\ NoSsid \notin Ssids \cup Paths

VARIABLES
  dev,         \* NetworkManager: the state of the device
  active,      \* ... the connection it is on or brings up
  saved,       \* ... the connections it has
  volatile,    \* ... those it deletes when it leaves them
  made,        \* ... every connection it ever had
  turns,       \* ... how often it began or ended something by itself
  wire,        \* its messages the monitor has not received
  removedQ, newQ, stateQ,  \* the filters' queues of the monitor's connection
  mon,         \* the monitor: where it is and what it has found out
  connections, \* _connections
  wifi,        \* _wifi_state
  epochs,      \* the threads for which _user_epoch is what it was
  prompt,      \* the networks whose password the user is just asked for
  ui,          \* the user's choice between _user_epoch and _wifi_state
  taps,        \* how often the user has done something
  job          \* what a thread is at

manager == <<dev, active, saved, volatile, made, turns>>
monitor == <<removedQ, newQ, stateQ, mon>>
user == <<ui, taps>>
wifiVars == <<manager, wire, monitor, connections, wifi, epochs, prompt, user, job>>

Nowhere == [ssid |-> NoSsid, status |-> "DISCONNECTED"]
Connecting(s) == [ssid |-> s, status |-> "CONNECTING"]
Listening == [at |-> "recv", next |-> Nowhere, path |-> NoSsid]
Idle == [do |-> "idle", ssid |-> NoSsid, next |-> Nowhere]
Do(what, s) == [do |-> what, ssid |-> s, next |-> Nowhere]

WifiInit ==
  /\ dev = "DISCONNECTED" /\ active = NoSsid
  /\ saved \in {{[ssid |-> s, n |-> 0] : s \in known} : known \in SUBSET Ssids}
  /\ volatile = {} /\ made = saved /\ turns = 0
  /\ wire = <<>> /\ removedQ = <<>> /\ newQ = <<>> /\ stateQ = <<>> /\ mon = Listening
  /\ connections = [s \in Ssids |-> IF [ssid |-> s, n |-> 0] \in saved
                                    THEN [ssid |-> s, n |-> 0] ELSE NoSsid]
  /\ wifi = Nowhere /\ epochs = {} /\ prompt = {}
  /\ ui = Idle /\ taps = 0
  /\ job = [t \in Callers |-> Idle]

Goes(t, j) == job' = [job EXCEPT ![t] = j]

(* The name the manager has for a connection. *)
NameOf(p) == IF p # NoSsid /\ connections[p.ssid] = p THEN p.ssid ELSE NoSsid
-----------------------------------------------------------------------------
(* NetworkManager.                                                         *)
State(new, prev, why) == [kind |-> "state", body |-> <<new, prev, why>>]
Removed(p) == [kind |-> "removed", body |-> p]
New(p) == [kind |-> "new", body |-> p]

Deleted == {active} \cap volatile
Deletion == IF Deleted = {} THEN <<>> ELSE <<Removed(active)>>

(* The device leaves its connection, after the given signals. *)
GoDown(signals) ==
  /\ dev' = "DISCONNECTED" /\ active' = NoSsid
  /\ saved' = saved \ Deleted /\ volatile' = volatile \ Deleted
  /\ wire' = wire \o signals \o Deletion

AutoConnect(p) ==
  /\ dev = "DISCONNECTED"
  /\ dev' = "PREPARE" /\ active' = p
  /\ wire' = Append(wire, State("PREPARE", dev, "NONE"))
  /\ UNCHANGED <<saved, volatile>>

Advance(from, to) ==
  /\ dev = from /\ dev' = to
  /\ wire' = Append(wire, State(to, from, "NONE"))
  /\ UNCHANGED <<active, saved, volatile>>

(* A wrong password. *)
Refuse ==
  /\ dev = "CONFIG"
  /\ GoDown(<<State("NEED_AUTH", "CONFIG", "SUPPLICANT_DISCONNECT"),
             State("FAILED", "NEED_AUTH", "NO_SECRETS"),
             State("DISCONNECTED", "FAILED", "NONE")>>)

(* The network is gone, before or after the device is on it. *)
Vanish ==
  \/ /\ dev = "CONFIG"
     /\ GoDown(<<State("FAILED", "NEED_AUTH", "NO_SECRETS"), State("DISCONNECTED", "FAILED", "NONE")>>)
  \/ dev = "ACTIVATED" /\ GoDown(<<State("DISCONNECTED", "FAILED", "NONE")>>)

OfItself ==
  /\ \/ /\ turns < TurnsMax /\ turns' = turns + 1
        /\ Refuse \/ Vanish \/ \E p \in saved : AutoConnect(p)
     \/ (Advance("PREPARE", "CONFIG") \/ Advance("CONFIG", "ACTIVATED")) /\ UNCHANGED turns
  /\ UNCHANGED <<made, monitor, connections, wifi, epochs, prompt, user, job>>

(* The device goes from where it is to p, which may be new; a refusal that *)
(* was under way may come late.                                            *)
Switch(p, first) ==
  /\ dev' = "PREPARE" /\ active' = p
  /\ saved' = (saved \cup {p}) \ (Deleted \ {p})
  /\ volatile' = (volatile \cup ({p} \ saved)) \ (Deleted \ {p})
  /\ made' = made \cup {p} /\ UNCHANGED turns
  /\ \E late \in {<<>>, <<State("NEED_AUTH", "DISCONNECTED", "SUPPLICANT_DISCONNECT")>>} :
       /\ late = <<>> \/ dev = "CONFIG"
       /\ wire' = wire \o first
                  \o (IF dev = "DISCONNECTED" THEN <<>>
                      ELSE <<State("DISCONNECTED", "DEACTIVATING", "NEW_ACTIVATION")>> \o late)
                  \o (IF active = p THEN <<>> ELSE Deletion)
                  \o <<State("PREPARE", "DISCONNECTED", "NONE")>>

(* A connection is deleted, and left when the device is on it. *)
Delete(p) ==
  /\ saved' = saved \ {p} /\ volatile' = volatile \ {p} /\ UNCHANGED <<made, turns>>
  /\ IF active = p
     THEN /\ dev' = "DISCONNECTED" /\ active' = NoSsid
          /\ wire' = wire \o <<Removed(p), State("DEACTIVATING", dev, "CONNECTION_REMOVED"),
                               State("DISCONNECTED", "DEACTIVATING", "CONNECTION_REMOVED")>>
     ELSE wire' = Append(wire, Removed(p)) /\ UNCHANGED <<dev, active>>
-----------------------------------------------------------------------------
(* The user.  _set_connecting first counts the epoch, then sets the state. *)
Tap(do, s) ==
  /\ ui = Idle /\ taps < TapsMax
  /\ do = "activate" <=> connections[s] # NoSsid
  /\ taps' = taps + 1 /\ ui' = Do(do, s) /\ epochs' = {}
  /\ UNCHANGED <<manager, wire, monitor, connections, wifi, prompt, job>>

(* ... connect_to_network and activate_connection then start their worker. *)
Choose(t) ==
  /\ ui # Idle /\ job[t] = Idle
  /\ wifi' = Connecting(ui.ssid) /\ ui' = Idle
  /\ Goes(t, Do(IF ui.do = "connect" THEN "clear" ELSE "activate", ui.ssid))
  /\ UNCHANGED <<manager, wire, monitor, connections, epochs, prompt, taps>>

(* forget_connection, or set_tethering_active(False). *)
Ask(do, s, t) ==
  /\ ui = Idle /\ taps < TapsMax /\ job[t] = Idle
  /\ taps' = taps + 1 /\ Goes(t, Do(do, s))
  /\ UNCHANGED <<manager, wire, monitor, connections, wifi, epochs, prompt, ui>>

(* set_active(True): _init_wifi_state in a thread. *)
SetActive ==
  /\ job[Settings] = Idle /\ taps < TapsMax
  /\ taps' = taps + 1 /\ Goes(Settings, Do("resync", NoSsid))
  /\ UNCHANGED <<manager, wire, monitor, connections, wifi, epochs, prompt, ui>>

UserStep ==
  \/ \E s \in Ssids, do \in {"activate", "connect"} : Tap(do, s)
  \/ \E t \in Workers : Choose(t)
  \/ \E s \in Ssids, do \in {"forget", "deactivate"}, t \in Workers : Ask(do, s, t)
  \/ SetActive
-----------------------------------------------------------------------------
(* The threads.                                                            *)
Request(t, do) == job[t].do = do /\ UNCHANGED <<monitor, connections, wifi, epochs, prompt, user>>

ForgetConnection(t) ==
  /\ Request(t, job[t].do) /\ job[t].do \in {"forget", "clear"}
  /\ LET p == connections[job[t].ssid] IN
       IF p \in saved THEN Delete(p) ELSE UNCHANGED <<manager, wire>>
  /\ Goes(t, IF job[t].do = "clear" THEN Do("add", job[t].ssid) ELSE Idle)

(* AddAndActivateConnection2: a volatile connection. *)
AddAndActivate(t) ==
  /\ Request(t, "add")
  /\ \E p \in Paths \ made : p.ssid = job[t].ssid /\ Switch(p, <<New(p)>>)
  /\ Goes(t, Idle)

ActivateConnection(t) ==
  /\ Request(t, "activate")
  /\ LET p == connections[job[t].ssid] IN p \in saved /\ Switch(p, <<>>)
  /\ Goes(t, Idle)

(* The connection is not known, or NetworkManager refuses. *)
RequestFails(t) ==
  /\ Request(t, job[t].do) /\ job[t].do \in {"activate", "add"}
  /\ Goes(t, Do("resync", NoSsid))
  /\ UNCHANGED <<manager, wire>>

DeactivateConnection(t) ==
  /\ Request(t, "deactivate") /\ Goes(t, Idle)
  /\ IF active # NoSsid /\ active.ssid = job[t].ssid
     THEN GoDown(<<State("DISCONNECTED", "DEACTIVATING", "USER_REQUESTED")>>) /\ UNCHANGED <<made, turns>>
     ELSE UNCHANGED <<manager, wire>>

(* _init_wifi_state: the epoch and the state of the device, which is in    *)
(* NEED_AUTH for parts of its CONFIG, ...                                  *)
ReadDevice(t) ==
  /\ job[t].do = "resync"
  /\ \E status \in {"DISCONNECTED", "CONNECTING", "CONNECTED"} :
       /\ status = "CONNECTED" <=> dev = "ACTIVATED"
       /\ status = "CONNECTING" => dev \in {"PREPARE", "CONFIG"}
       /\ dev = "PREPARE" => status = "CONNECTING"
       /\ Goes(t, [do |-> "find", ssid |-> NoSsid, next |-> [ssid |-> NoSsid, status |-> status]])
  /\ epochs' = epochs \cup {t}
  /\ UNCHANGED <<manager, wire, monitor, connections, wifi, prompt, user>>

(* ... then the connection, and whether the user chose in between ...      *)
FindConnection(t) ==
  /\ job[t].do = "find"
  /\ IF t \in epochs
     THEN Goes(t, [job[t] EXCEPT !.do = "store", !.next.ssid = NameOf(active)])
     ELSE Goes(t, Idle)
  /\ epochs' = epochs \ {t}
  /\ UNCHANGED <<manager, wire, monitor, connections, wifi, prompt, user>>

StoreState(t) ==
  /\ job[t].do = "store" /\ wifi' = job[t].next /\ Goes(t, Idle)
  /\ UNCHANGED <<manager, wire, monitor, connections, epochs, prompt, user>>

Step(t) ==
  \/ ForgetConnection(t) \/ AddAndActivate(t) \/ ActivateConnection(t) \/ RequestFails(t)
  \/ DeactivateConnection(t) \/ ReadDevice(t) \/ FindConnection(t) \/ StoreState(t)
-----------------------------------------------------------------------------
(* The monitor.  A message goes to the queue of its kind.                  *)
UpTo(k, msgs, i) == {h \in 1 .. i : msgs[h].kind = k}
Nth(k, msgs, n) == CHOOSE i \in UpTo(k, msgs, Len(msgs)) : Cardinality(UpTo(k, msgs, i)) = n
OfKind(k, msgs) == [n \in 1 .. Cardinality(UpTo(k, msgs, Len(msgs))) |-> msgs[Nth(k, msgs, n)].body]

(* A reply that is waited for on the monitor's connection comes after all  *)
(* that was sent before it.                                                *)
Reply ==
  /\ wire' = <<>>
  /\ removedQ' = removedQ \o OfKind("removed", wire)
  /\ newQ' = newQ \o OfKind("new", wire)
  /\ stateQ' = stateQ \o OfKind("state", wire)

Elsewhere == UNCHANGED <<dev, active, saved, made, turns, user, job>>

(* recv_messages takes one message - that a scan is done, when the queues  *)
(* alone are not empty -, then _connection_removed empties its queue.      *)
Receive ==
  /\ mon.at = "recv" /\ (wire = <<>> => removedQ # <<>> \/ newQ # <<>>)
  /\ wire' = IF wire = <<>> THEN <<>> ELSE Tail(wire)
  /\ LET one == IF wire = <<>> THEN <<>> ELSE <<Head(wire)>> gone == removedQ \o OfKind("removed", one) IN
       /\ connections' = [s \in Ssids |-> IF \E i \in DOMAIN gone : gone[i] = connections[s]
                                          THEN NoSsid ELSE connections[s]]
       /\ newQ' = newQ \o OfKind("new", one) /\ stateQ' = stateQ \o OfKind("state", one)
  /\ removedQ' = <<>> /\ mon' = [mon EXCEPT !.at = "new"]
  /\ Elsewhere /\ UNCHANGED <<volatile, wifi, epochs, prompt>>

(* _new_connection asks for its settings; it may be gone by then.          *)
NewConnection ==
  /\ mon.at = "new" /\ newQ # <<>> /\ newQ' = Tail(newQ)
  /\ LET p == Head(newQ) IN
       connections' = IF p \in saved THEN [connections EXCEPT ![p.ssid] = p] ELSE connections
  /\ Elsewhere /\ UNCHANGED <<volatile, wire, removedQ, stateQ, mon, wifi, epochs, prompt>>

(* The states come last; then the monitor waits for a message, whatever    *)
(* else has come while it dealt with them.                                 *)
Turn ==
  /\ \/ mon.at = "new" /\ newQ = <<>> /\ mon' = [mon EXCEPT !.at = "state"]
     \/ mon.at = "state" /\ stateQ = <<>> /\ mon' = Listening
  /\ Elsewhere /\ UNCHANGED <<volatile, wire, removedQ, newQ, stateQ, connections, wifi, epochs, prompt>>

(* _handle_state_change is given the next state, what was before and why.  *)
Handles(states) ==
  /\ mon.at = "state" /\ stateQ # <<>> /\ Head(stateQ)[1] \in states /\ stateQ' = Tail(stateQ)
  /\ Elsewhere /\ UNCHANGED <<volatile, wire, removedQ, newQ, connections, wifi>>

Was == Head(stateQ)[2]
Why == Head(stateQ)[3]

(* _set_connecting(NoSsid): the epoch counts, then the state is set.         *)
Clears == mon' = [mon EXCEPT !.at = "store", !.next = Nowhere] /\ epochs' = {}

(* A network that is being set up is kept when another one is left.        *)
Kept ==
  \/ Why = "NEW_ACTIVATION"
  \/ Why = "CONNECTION_REMOVED" /\ wifi.ssid # NoSsid /\ connections[wifi.ssid] # NoSsid

Disconnected ==
  /\ Handles({"DISCONNECTED"})
  /\ IF Kept THEN UNCHANGED <<mon, epochs>> ELSE Clears
  /\ UNCHANGED prompt

(* Only a connection that is not known by name is looked up.               *)
Preparing ==
  /\ Handles({"PREPARE", "CONFIG"})
  /\ mon' = [mon EXCEPT !.next = [wifi EXCEPT !.status = "CONNECTING"],
                        !.at = IF wifi.ssid # NoSsid THEN "store" ELSE "ask"]
  /\ epochs' = IF wifi.ssid # NoSsid THEN epochs ELSE epochs \cup {Monitor}
  /\ UNCHANGED prompt

WrongPassword ==
  \/ Head(stateQ)[1] = "NEED_AUTH" /\ Was = "CONFIG" /\ Why = "SUPPLICANT_DISCONNECT"
  \/ Head(stateQ)[1] = "FAILED" /\ Why = "NO_SECRETS"

Failing ==
  /\ Handles({"NEED_AUTH", "FAILED"})
  /\ IF WrongPassword /\ wifi.ssid # NoSsid
     THEN prompt' = prompt \cup {wifi.ssid} /\ Clears
     ELSE UNCHANGED <<mon, epochs, prompt>>

(* Mutant: the name is not looked up when it is set. *)
ActivatedAsNamed ==
  /\ Handles({"ACTIVATED"})
  /\ mon' = [mon EXCEPT !.next = [wifi EXCEPT !.status = "CONNECTED"],
                        !.at = IF wifi.ssid # NoSsid THEN "store" ELSE "ask"]
  /\ epochs' = IF wifi.ssid # NoSsid THEN epochs ELSE epochs \cup {Monitor}
  /\ UNCHANGED prompt

Activated ==
  /\ Handles({"ACTIVATED"})
  /\ mon' = [mon EXCEPT !.next = [wifi EXCEPT !.status = "CONNECTED"], !.at = "ask"]
  /\ epochs' = epochs \cup {Monitor}
  /\ UNCHANGED prompt

Deactivating ==
  /\ Handles({"DEACTIVATING"})
  /\ IF Why = "CONNECTION_REMOVED" /\ wifi.status = "CONNECTED"
     THEN Clears ELSE UNCHANGED <<mon, epochs>>
  /\ UNCHANGED prompt

(* _get_active_wifi_connection, and whether the user chose meanwhile.      *)
LookUp ==
  /\ mon.at = "ask" /\ Reply /\ epochs' = epochs \ {Monitor}
  /\ mon' = IF Monitor \notin epochs THEN [Listening EXCEPT !.at = "state"]
            ELSE [at |-> "store", path |-> active,
                  next |-> IF active = NoSsid THEN mon.next ELSE [mon.next EXCEPT !.ssid = NameOf(active)]]
  /\ Elsewhere /\ UNCHANGED <<volatile, connections, wifi, prompt>>

Store ==
  /\ mon.at = "store" /\ wifi' = mon.next /\ prompt' = {}
  /\ mon' = [Listening EXCEPT !.at = IF mon.next.status = "CONNECTED" /\ mon.path # NoSsid
                                    THEN "save" ELSE "state",
                              !.path = IF mon.next.status = "CONNECTED" THEN mon.path ELSE NoSsid]
  /\ Elsewhere /\ UNCHANGED <<volatile, wire, removedQ, newQ, stateQ, connections, epochs>>

(* What was looked up is kept on disk from now on. *)
Save ==
  /\ mon.at = "save" /\ Reply /\ volatile' = volatile \ {mon.path}
  /\ mon' = [Listening EXCEPT !.at = "state"]
  /\ Elsewhere /\ UNCHANGED <<connections, wifi, epochs, prompt>>

MonitorStep ==
  \/ Receive \/ NewConnection \/ Turn
  \/ Disconnected \/ Preparing \/ Failing \/ Activated \/ Deactivating
  \/ LookUp \/ Store \/ Save

WifiNext ==
  \/ OfItself \/ UserStep \/ MonitorStep
  \/ \E t \in Callers : Step(t)

WifiSpec == WifiInit /\ [][WifiNext]_wifiVars
=============================================================================
