------------------------------- MODULE Device -------------------------------
(***************************************************************************)
(* How a drive begins and ends: pandad reports the ignition, hardwared     *)
(* says onroad or offroad, the manager clears and writes parameters and    *)
(* starts or stops processes, card fingerprints the car with pandad's help *)
(* and pandad sets the safety mode of the panda.  They share nothing but   *)
(* parameters and the latest message of each kind.                         *)
(***************************************************************************)
EXTENDS Naturals

CONSTANTS
  Onroad,      \* processes that run onroad, card among them
  Always,      \* processes that always run
  Restarted,   \* ... of which these have restart_if_crash
  Card         \* card

ASSUME DeviceAssumption ==
  /\ Card \in Onroad /\ Onroad \cap Always = {} /\ Restarted \subseteq Always

Procs == Onroad \cup Always

VARIABLES
  ignition,     \* the car's
  pandaIgn,     \* the latest pandaStates
  started,      \* the latest deviceState
  mgr,          \* where the manager is
  mgrStarted, mgrPrev,  \* started, started_prev of the manager
  todo,         \* processes that the manager has not come to in this stage
  proc,         \* ManagerProcess.proc: "none", "running" or "exited"
  shutting,     \* shutting_down
  alive,        \* instances that the system runs
  card,         \* where card is
  want,         \* the multiplexing that card asks for
  isOnroad,     \* IsOnroad
  obdEnabled, obdChanged,   \* ObdMultiplexingEnabled, ObdMultiplexingChanged
  queryDone, ready,         \* FirmwareQueryDone, ControlsReady
  carParams,    \* CarParams: "none", of a card that runs, or of one that was told to stop or died
  pd,           \* where pandad's 10 Hz step is
  pdOnroad,     \* is_onroad
  pdInit, pdConfigured, pdObd,  \* initialized_, safety_configured_, prev_obd_multiplexing_
  mode          \* the panda's: NO_OUTPUT, ELM327, or that of a CarParams

car == <<ignition, pandaIgn, started>>
mgrVars == <<mgr, mgrStarted, mgrPrev, todo>>
procVars == <<proc, shutting, alive>>
cardVars == <<card, want>>
params == <<isOnroad, obdEnabled, obdChanged, queryDone, ready, carParams>>
pdVars == <<pd, pdOnroad, pdInit, pdConfigured, pdObd, mode>>
vars == <<car, mgrVars, procVars, cardVars, params, pdVars>>

Init ==
  /\ ignition = FALSE /\ pandaIgn = FALSE /\ started = FALSE
  /\ mgr = "stop" /\ mgrStarted = FALSE /\ mgrPrev = FALSE /\ todo = Procs
  /\ proc = [p \in Procs |-> "none"] /\ shutting = [p \in Procs |-> FALSE]
  /\ alive = [p \in Procs |-> 0]
  /\ card = "off" /\ want = FALSE
  /\ isOnroad = FALSE /\ obdEnabled = FALSE /\ obdChanged = FALSE
  /\ queryDone = FALSE /\ ready = FALSE /\ carParams = "none"
  /\ pd = "read" /\ pdOnroad = FALSE /\ pdInit = FALSE /\ pdConfigured = FALSE
  /\ pdObd = FALSE /\ mode = "closed"

-----------------------------------------------------------------------------
(* The car, and hardwared as far as the others see it: without ignition    *)
(* never onroad, with it at hardwared's discretion.                        *)
Ignition == ignition' = ~ignition /\ UNCHANGED <<pandaIgn, started, mgrVars, procVars, cardVars,
                                                params, pdVars>>

Hardwared ==
  /\ started' \in {pandaIgn, FALSE}
  /\ UNCHANGED <<ignition, pandaIgn, mgrVars, procVars, cardVars, params, pdVars>>

-----------------------------------------------------------------------------
(* Processes: one ends by itself, by a crash or because it was signalled.  *)
(* What its card had written outlives it.                                  *)
Stale(p) == carParams' = IF p = Card /\ carParams = "live" THEN "old" ELSE carParams

Exit(p) ==
  /\ proc[p] = "running"
  /\ proc' = [proc EXCEPT ![p] = "exited"] /\ alive' = [alive EXCEPT ![p] = @ - 1]
  /\ card' = IF p = Card THEN "off" ELSE card
  /\ Stale(p)
  /\ UNCHANGED <<car, mgrVars, shutting, want, isOnroad, obdEnabled, obdChanged, queryDone,
                 ready, pdVars>>

(* stop: signalled, and when it did not die since, killed and awaited.     *)
Signal(p) ==
  /\ proc[p] = "running" /\ ~shutting[p]
  /\ shutting' = [shutting EXCEPT ![p] = TRUE]
  /\ Stale(p)
  /\ UNCHANGED <<proc, alive, cardVars>>

(* Mutant: it is awaited but never killed. *)
KillGently(p) ==
  /\ IF proc[p] = "running" THEN shutting[p] /\ UNCHANGED <<proc, shutting>>
     ELSE proc' = [proc EXCEPT ![p] = "none"] /\ shutting' = [shutting EXCEPT ![p] = FALSE]
  /\ UNCHANGED <<alive, cardVars, carParams>>

Kill(p) ==
  /\ proc[p] = "running" => shutting[p]
  /\ proc' = [proc EXCEPT ![p] = "none"] /\ shutting' = [shutting EXCEPT ![p] = FALSE]
  /\ alive' = IF proc[p] = "running" THEN [alive EXCEPT ![p] = @ - 1] ELSE alive
  /\ card' = IF p = Card THEN "off" ELSE card
  /\ UNCHANGED <<want, carParams>>

(* Mutant: one that is shutting down is left to die.                       *)
ReplacedCrashed(p) == proc[p] = "exited" /\ p \in Restarted

(* start: one that is shutting down is awaited first; one that crashed is  *)
(* left as it is, unless it is to be restarted.                            *)
Replaced(p) == shutting[p] \/ (proc[p] = "exited" /\ p \in Restarted)

(* Mutant: it is not awaited. *)
SurvivorsAll(p) == alive[p]

Survivors(p) == IF Replaced(p) /\ proc[p] = "running" THEN alive[p] - 1 ELSE alive[p]

Launch(p) ==
  LET spawn == Replaced(p) \/ proc[p] = "none"
  IN IF spawn
     THEN /\ proc' = [proc EXCEPT ![p] = "running"]
          /\ alive' = [alive EXCEPT ![p] = Survivors(p) + 1]
          /\ shutting' = [shutting EXCEPT ![p] = FALSE]
          /\ IF p = Card THEN card' = "boot" /\ want' = FALSE ELSE UNCHANGED cardVars
     ELSE UNCHANGED <<procVars, cardVars>>

Wanted(p) == p \in Always \/ mgrStarted

-----------------------------------------------------------------------------
(* manager_thread: a deviceState, the edges, ensure_running.               *)
MgrRead ==
  /\ mgr = "read"
  /\ mgrStarted' = started
  /\ mgr' = IF started # mgrPrev THEN "clear" ELSE "stop"
  /\ todo' = Procs
  /\ UNCHANGED <<car, mgrPrev, procVars, cardVars, params, pdVars>>

(* CLEAR_ON_ONROAD_TRANSITION; none of these is cleared when a drive ends. *)
MgrClear ==
  /\ mgr = "clear"
  /\ mgr' = "flag"
  /\ IF mgrStarted
     THEN /\ obdEnabled' = FALSE /\ obdChanged' = FALSE /\ queryDone' = FALSE /\ ready' = FALSE
          /\ carParams' = "none"
     ELSE UNCHANGED <<obdEnabled, obdChanged, queryDone, ready, carParams>>
  /\ UNCHANGED <<car, mgrStarted, mgrPrev, todo, procVars, cardVars, isOnroad, pdVars>>

MgrFlag ==
  /\ mgr = "flag"
  /\ isOnroad' = mgrStarted /\ mgrPrev' = mgrStarted
  /\ mgr' = "stop"
  /\ UNCHANGED <<car, mgrStarted, todo, procVars, cardVars, obdEnabled, obdChanged, queryDone,
                 ready, carParams, pdVars>>

(* ensure_running: first every process that is not wanted, then the rest;  *)
(* the order is that of the table, any here.                               *)
MgrStop(p) ==
  /\ mgr = "stop" /\ p \in todo /\ ~Wanted(p)
  /\ todo' = todo \ {p}
  /\ Signal(p) \/ Kill(p)
  /\ UNCHANGED <<car, mgr, mgrStarted, mgrPrev, isOnroad, obdEnabled, obdChanged, queryDone,
                 ready, pdVars>>

MgrStart(p) ==
  /\ mgr = "stop" /\ p \in todo /\ \A q \in todo : Wanted(q)
  /\ todo' = todo \ {p}
  /\ Launch(p)
  /\ UNCHANGED <<car, mgr, mgrStarted, mgrPrev, params, pdVars>>

(* Mutant: manager_cleanup signals the processes and does not await them.  *)
NextStageEarly(m) == IF m = "stop" THEN "read" ELSE "off"

NextStage(m) == CASE m = "stop" -> "read" [] m = "signal" -> "reap" [] OTHER -> "off"

(* The end of a round: the next one, or, with DoShutdown and the like,     *)
(* manager_cleanup, which signals all processes and then awaits each.      *)
MgrNext ==
  /\ mgr \in {"stop", "signal", "reap"} /\ todo = {}
  /\ mgr' = NextStage(mgr)
  /\ todo' = IF mgr = "signal" THEN Procs ELSE todo
  /\ UNCHANGED <<car, mgrStarted, mgrPrev, procVars, cardVars, params, pdVars>>

MgrShutdown ==
  /\ mgr = "stop" /\ todo = {}
  /\ mgr' = "signal" /\ todo' = Procs
  /\ UNCHANGED <<car, mgrStarted, mgrPrev, procVars, cardVars, params, pdVars>>

MgrClean(p) ==
  /\ mgr \in {"signal", "reap"} /\ p \in todo
  /\ todo' = todo \ {p}
  /\ IF mgr = "signal" THEN Signal(p) \/ Kill(p) ELSE Kill(p)
  /\ UNCHANGED <<car, mgr, mgrStarted, mgrPrev, isOnroad, obdEnabled, obdChanged, queryDone,
                 ready, pdVars>>

-----------------------------------------------------------------------------
(* card: obd_callback around the queries, then what it found.              *)
CardGoto(here, there) == card = here /\ card' = there

(* set_obd_multiplexing, for the queries and again after them; a car that  *)
(* is known from before needs none.                                        *)
CardAsk ==
  /\ \/ card = "boot" /\ want' \in BOOLEAN
     \/ card = "queries" /\ want' = FALSE
  /\ card' = IF obdEnabled # want' THEN "remove" ELSE IF want' THEN "queries" ELSE "queried"
  /\ UNCHANGED <<car, mgrVars, procVars, params, pdVars>>

CardRemove ==
  /\ CardGoto("remove", "put")
  /\ obdChanged' = FALSE
  /\ UNCHANGED <<car, mgrVars, procVars, want, isOnroad, obdEnabled, queryDone, ready,
                 carParams, pdVars>>

CardPut ==
  /\ CardGoto("put", "await")
  /\ obdEnabled' = want
  /\ UNCHANGED <<car, mgrVars, procVars, want, isOnroad, obdChanged, queryDone, ready,
                 carParams, pdVars>>

CardAnswered ==
  /\ obdChanged
  /\ CardGoto("await", IF want THEN "queries" ELSE "queried")
  /\ UNCHANGED <<car, mgrVars, procVars, want, params, pdVars>>

CardDone ==
  /\ CardGoto("queried", "identified")
  /\ queryDone' = TRUE
  /\ UNCHANGED <<car, mgrVars, procVars, want, isOnroad, obdEnabled, obdChanged, ready,
                 carParams, pdVars>>

(* A card that is shutting down may get this far.                          *)
CardParams ==
  /\ CardGoto("identified", "run")
  /\ carParams' = IF shutting[Card] THEN "old" ELSE "live"
  /\ UNCHANGED <<car, mgrVars, procVars, want, isOnroad, obdEnabled, obdChanged, queryDone,
                 ready, pdVars>>

CardReady ==
  /\ CardGoto("run", "controls")
  /\ ready' = TRUE
  /\ UNCHANGED <<car, mgrVars, procVars, want, isOnroad, obdEnabled, obdChanged, queryDone,
                 carParams, pdVars>>

-----------------------------------------------------------------------------
(* Mutant: the relay closes with the ignition alone. *)
ShouldCloseRelayIgnition == ~ignition

ShouldCloseRelay == ~ignition \/ ~started

(* pandad's 10 Hz step: the latest deviceState, process_panda_state, and   *)
(* configureSafetyMode.                                                    *)
PdRead ==
  /\ pd = "read"
  /\ pdOnroad' = started /\ pandaIgn' = ignition
  /\ mode' = IF ShouldCloseRelay THEN "closed" ELSE mode
  /\ IF started
     THEN UNCHANGED <<pdInit, pdConfigured>> /\ pd' = IF pdConfigured THEN "read" ELSE "obd"
     ELSE pdInit' = FALSE /\ pdConfigured' = FALSE /\ pd' = "read"
  /\ UNCHANGED <<ignition, started, mgrVars, procVars, cardVars, params, pdObd>>

PdObd ==
  LET before == pdInit /\ pdObd
  IN /\ pd = "obd"
     /\ pdInit' = TRUE
     /\ pdObd' = obdEnabled
     /\ mode' = IF ~pdInit \/ obdEnabled # before THEN "elm" ELSE mode
     /\ pd' = IF obdEnabled # before THEN "answer" ELSE "fetch"
     /\ UNCHANGED <<car, mgrVars, procVars, cardVars, params, pdOnroad, pdConfigured>>

PdAnswer ==
  /\ pd = "answer"
  /\ obdChanged' = TRUE
  /\ pd' = "fetch"
  /\ UNCHANGED <<car, mgrVars, procVars, cardVars, isOnroad, obdEnabled, queryDone, ready,
                 carParams, pdOnroad, pdInit, pdConfigured, pdObd, mode>>

PdFetch ==
  /\ pd = "fetch"
  /\ pd' = IF queryDone /\ ready THEN "set" ELSE "read"
  /\ UNCHANGED <<car, mgrVars, procVars, cardVars, params, pdOnroad, pdInit, pdConfigured,
                 pdObd, mode>>

(* Without CarParams there is no safety configuration to index: pandad     *)
(* fails and starts again.                                                 *)
PdSet ==
  /\ pd = "set"
  /\ pd' = "read"
  /\ IF carParams = "none"
     THEN pdInit' = FALSE /\ pdOnroad' = FALSE /\ UNCHANGED <<pdConfigured, mode>>
     ELSE pdConfigured' = TRUE /\ mode' = "car" /\ UNCHANGED <<pdInit, pdOnroad>>
  /\ UNCHANGED <<car, mgrVars, procVars, cardVars, params, pdObd>>

-----------------------------------------------------------------------------
MgrStep ==
  \/ MgrRead \/ MgrClear \/ MgrFlag \/ MgrNext
  \/ \E p \in Procs : MgrStop(p) \/ MgrStart(p) \/ MgrClean(p)

CardStep ==
  CardAsk \/ CardRemove \/ CardPut \/ CardAnswered \/ CardDone \/ CardParams \/ CardReady

PdStep == PdRead \/ PdObd \/ PdAnswer \/ PdFetch \/ PdSet

Next ==
  \/ Ignition \/ Hardwared
  \/ MgrStep \/ MgrShutdown \/ (\E p \in Procs : Exit(p))
  \/ CardStep \/ PdStep

Spec == Init /\ [][Next]_vars

(* The manager and pandad run on as long as they are not told to stop.     *)
FairSpec == Spec /\ WF_vars(MgrStep) /\ WF_vars(PdStep)
=============================================================================
