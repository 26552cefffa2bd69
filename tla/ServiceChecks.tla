--------------------------- MODULE ServiceChecks ---------------------------
(***************************************************************************)
(* Services of the device that share nothing: a behaviour of this module   *)
(* is one of one of them, chosen by service.  The other variables added    *)
(* here only observe.                                                      *)
(***************************************************************************)
EXTENDS Segments, Rotation, ParamStore, WifiManager

VARIABLES
  service,  \* the one that runs
  owed,     \* the directories a bookmark protects, when the deleter made its list
  open,     \* loggerd was not done when the uploader made its list
  early,    \* segments marked as sent by such a list
  orderly,  \* all segments ended by the encoders, and encoderd was not started again
  refused,  \* networks that NetworkManager gave up before it was on them
  reread    \* a thread read the state of the device back

fileAll == <<segVars, owed, open, early>>
rotAll == <<rotVars, orderly>>
wifiAll == <<wifiVars, refused, reread>>
serviceVars == <<service, fileAll, rotAll, paramVars, wifiAll>>

ServiceInit ==
  /\ service \in {"files", "rotation", "params", "wifi"}
  /\ SegInit /\ owed = {} /\ open = FALSE /\ early = {}
  /\ RotInit /\ orderly = TRUE
  /\ ParamInit
  /\ WifiInit /\ refused = {} /\ reread = FALSE /\ (service # "wifi" => saved = {})

Protected ==
  {s \in dir : \E r \in marked \cap dir :
     /\ s \in {r - 2, r - 1, r}
     /\ Cardinality({q \in marked \cap dir : q > r}) < Preserve}

FileObserved ==
  /\ SegNext
  /\ owed' = IF deleter = "idle" /\ deleter' = "choosing" THEN Protected ELSE owed \cap dir'
  /\ open' = IF dash = "idle" THEN dash' = "next" /\ logger # "off" ELSE open
  /\ early' = ((IF open THEN early \cup (sent' \ sent) ELSE early) \cap dir')

RotObserved ==
  /\ RotNext
  /\ orderly' = (orderly /\ encStart' = encStart /\ (part' # part => ~TimedOut))

WifiObserved ==
  /\ WifiNext
  /\ refused' = IF dev = "CONFIG" /\ dev' = "DISCONNECTED" THEN refused \cup {active.ssid} ELSE refused
  /\ reread' = (reread \/ \E t \in Callers : job'[t].do = "resync")

ServiceNext ==
  \/ service = "files" /\ FileObserved /\ UNCHANGED <<service, rotAll, paramVars, wifiAll>>
  \/ service = "rotation" /\ RotObserved /\ UNCHANGED <<service, fileAll, paramVars, wifiAll>>
  \/ service = "params" /\ ParamNext /\ UNCHANGED <<service, fileAll, rotAll, wifiAll>>
  \/ service = "wifi" /\ WifiObserved /\ UNCHANGED <<service, fileAll, rotAll, paramVars>>

ServiceSpec == ServiceInit /\ [][ServiceNext]_serviceVars

(* loggerd gets on with what it does, and the uploader with its cycles.    *)
FairServiceSpec ==
  /\ ServiceSpec
  /\ WF_segVars(service = "files" /\ LoggerStep)
  /\ WF_segVars(service = "files" /\ DashStep)
-----------------------------------------------------------------------------
(* dashcam_uploader: a segment marked as sent is at the server, file for   *)
(* file as it was closed, whatever failed or was interrupted on the way -  *)
(* unless loggerd had not closed the drive when the cycle listed it.       *)
SentIsWhole ==
  \A s \in sent \ early, f \in Files : content[s][f] = "whole" => <<s, f>> \in remote

(* "retry from scratch next cycle": parked long enough, with a server that *)
(* answers and a deleter that lets go, every segment with files is sent.   *)
EventuallySent ==
  /\ <>[](~onroad /\ deleter = "idle")
  /\ <>[][~(DashFail /\ ~DashGone)]_segVars
  /\ <>[][~PowerCut]_segVars
  => <>[](\A s \in dir : Present(s) # {} => s \in sent)

(* clear_locks: once the uploader runs, no lock is left from before a      *)
(* power cut, which would keep its directory out of the deleter's reach,   *)
(* however soon the next drive began: a lock is of the segment loggerd     *)
(* has open.                                                               *)
StaleLocksGo ==
  uploader = "on" => lock \subseteq CASE logger = "locked" -> {seg + 1}
                                      [] logger = "logging" -> {seg}
                                      [] OTHER -> {}

(* get_preserved_segments, "skip deleting most recent N preserved          *)
(* segments": a segment that was bookmarked before the deleter listed the  *)
(* directories goes only when no other closed directory could.             *)
BookmarkKept ==
  [][deleter = "choosing" /\ deleter' = "removing" /\ victim' \in owed
       => \A s \in view : s \in owed \cup lock \/ (logger # "off" /\ s >= seg)]_serviceVars

(* handle_encoder_msg, "they go in after the rotate": while the encoders   *)
(* end the segments, a packet that waited is written into the segment it   *)
(* was encoded for, and no packet is of an older segment, "this should     *)
(* never happen", although cameras stop and come back - unless encoderd    *)
(* was started again, which that comment allows for.                       *)
OwnSegment ==
  [][/\ \A e \in Encoders : orderly /\ queued[e] # <<>> /\ queued'[e] = <<>>
          => \A i \in 1 .. Len(queued[e]) : queued[e][i] = part
     /\ \A e \in known : orderly' => offset'[e] = offset[e]]_serviceVars

(* Params::put, "safely and atomically writing": what a power cut leaves   *)
(* of a key is whole, and not older than what the last call that returned  *)
(* put there, whoever wrote at the same time and however it was killed.    *)
Durable == \A v \in may : v.whole /\ v.number >= returned

(* ~Params: assert(queue.empty()), after the writer was waited for.        *)
QueueEmptied == stage[Caller] = "destroyed" => waiting = 0

(* The monitor has dealt with all that NetworkManager said. *)
CaughtUp ==
  wire = <<>> /\ removedQ = <<>> /\ newQ = <<>> /\ stateQ = <<>> /\ mon.at = "recv"

(* _monitor_state, _handle_state_change: however far the monitor is behind *)
(* and whatever its queues and its own questions bring out of order, once  *)
(* it has caught up no network it calls saved is gone.  It shows where the *)
(* device is, if nobody interferes; one thing the user did, at any moment, *)
(* is made good when the device is on a network or off - but for the name  *)
(* of a connection that was new, and unless a thread read the state back.  *)
PictureTrue ==
  CaughtUp =>
    LET truth == IF dev = "DISCONNECTED" THEN Nowhere
                 ELSE [ssid |-> active.ssid,
                       status |-> IF dev = "ACTIVATED" THEN "CONNECTED" ELSE "CONNECTING"]
    IN /\ \A s \in Ssids : connections[s] # NoSsid => connections[s] \in saved
       /\ taps = 0 => wifi = truth
       /\ /\ taps = 1 /\ ~reread /\ ui = Idle /\ \A t \in Callers : job[t] = Idle
          /\ dev \in {"DISCONNECTED", "ACTIVATED"}
          => wifi \in {truth, [truth EXCEPT !.ssid = NoSsid]}

(* _handle_state_change, "must be ignored to avoid a false wrong-password  *)
(* callback": the user is asked only for the password of a network that    *)
(* NetworkManager has given up.                                            *)
NoFalsePrompt == prompt \subseteq refused
=============================================================================
