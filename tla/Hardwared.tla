----------------------------- MODULE Hardwared -----------------------------
(***************************************************************************)
(* hardwared's loop: whether the device is onroad, its thermal band, the   *)
(* request to cycle, and the decision to power down.  One HwStep is one    *)
(* iteration, woken by a pandaStates message or by its timeout; most only  *)
(* look at the ignition and skip the rest until the 2 Hz step, unless the  *)
(* device should change between onroad and offroad.                        *)
(***************************************************************************)
EXTENDS Integers

CONSTANTS
  SilenceLimit,   \* iterations without a panda in DISCONNECT_TIMEOUT
  CycleFrames,    \* iterations offroad after a request, ONROAD_CYCLE_TIME
  Temps           \* temperatures in degrees that the sensors may report

ASSUME HardwaredAssumption ==
  /\ SilenceLimit \in Nat /\ CycleFrames \in Nat
  /\ \A t \in Temps : t \in Int /\ -1000 <= t /\ t <= 1000  \* within THERMAL_BANDS

VARIABLES
  ignition,      \* onroad_conditions["ignition"]
  silent,        \* iterations since the last pandaStates
  cycling,       \* iterations left until "not_onroad_cycle"
  started,       \* started_ts is set
  offroad,       \* off_ts: "no", "fresh", or "long" for more than 5 minutes
  seen,          \* started_seen
  thermal,       \* index of the thermal band: ok, overheated, critical
  shouldPrev,    \* should_start_prev
  cycleAsked,    \* OnroadCycleRequested
  offroadMode,   \* OffroadMode
  modeSeen,      \* OffroadMode at the last 2 Hz step
  engagedParam,  \* IsEngaged
  powerDown      \* DoShutdown

hwVars == <<ignition, silent, cycling, started, offroad, seen, thermal, shouldPrev,
            cycleAsked, offroadMode, modeSeen, engagedParam, powerDown>>

HwInit ==
  /\ ignition = FALSE /\ silent = 0
  /\ cycling = CycleFrames
  /\ started = FALSE /\ offroad = "no" /\ seen = FALSE
  /\ thermal = 0 /\ shouldPrev = FALSE
  /\ cycleAsked = FALSE /\ offroadMode \in BOOLEAN /\ modeSeen = FALSE
  /\ engagedParam = FALSE /\ powerDown = FALSE

(* What an iteration may find: a panda message or none, whether it is the  *)
(* one of the 2 Hz step ...                                                *)
HwInputs == [panda : {"none", "on", "off"}, due : BOOLEAN]

(* ... and, when it goes on, the temperatures, the conditions of           *)
(* parameters and files to start, reasons to power down, a selfdriveState. *)
Samples ==
  [temp : Temps,                       \* all_comp_temp
   danger : BOOLEAN,                   \* offroad_comp_temp > OFFROAD_DANGER_TEMP
   startable : BOOLEAN,                \* the other startup_conditions
   power : {"kept", "drained", "forced"},  \* should_shutdown but for ignition and time
   enabled : {"none", "yes", "no"}]

(* THERMAL_BANDS of the tici: the band is left below and above these.      *)
MinTemp == <<-1000, 88, 94>>
MaxTemp == <<96, 107, 1000>>

(* The thermal status that the iteration sets. *)
NextBand(in, offroadLong) ==
  IF offroadLong /\ in.danger THEN 2
  ELSE IF in.temp < MinTemp[thermal + 1] THEN thermal - 1
  ELSE IF in.temp > MaxTemp[thermal + 1] THEN thermal + 1
  ELSE thermal

OffroadLong == ~started /\ (~seen \/ offroad \in {"no", "long"})

IgnitionNow(in) ==
  CASE in.panda = "on" -> TRUE
    [] in.panda = "off" -> FALSE
    [] OTHER -> ignition /\ silent < SilenceLimit

CyclingNow == IF cycleAsked THEN CycleFrames ELSE IF cycling > 0 THEN cycling - 1 ELSE 0

(* onroad_conditions with the thermal band and the mode of the last 2 Hz   *)
(* step: ign_edge compares them with what the device does.                 *)
OnroadConditions(ign, cyc, band, mode) == ign /\ cyc = 0 /\ band < 2 /\ ~mode

(* Mutant: the edge is of the last iteration's ignition. *)
IgnEdgeBefore(in) == started # OnroadConditions(ignition, CyclingNow, thermal, modeSeen)

IgnEdge(in) ==
  started # OnroadConditions(IgnitionNow(in), CyclingNow, thermal, modeSeen)

(* power_monitor.should_shutdown, for an off_ts that is set; a device that *)
(* neither drove nor was on for MIN_ON_TIME_S counts as "kept".            *)
ShouldShutdown(in, ign, off) ==
  /\ off # "no"
  /\ \/ in.power = "drained" /\ ~ign /\ off = "long"
     \/ in.power = "forced"

(* The head of the loop.                                                   *)
Listen(in) ==
  /\ ignition' = IgnitionNow(in)
  /\ silent' = IF in.panda # "none" THEN 0 ELSE IF silent < SilenceLimit THEN silent + 1 ELSE silent
  /\ cycling' = CyclingNow
  /\ cycleAsked' = FALSE

(* Mutant: it starts in any band that does not end it. *)
StartableWarm(in, band) == in.startable /\ band < 2

(* A drive starts only below the overheated band. *)
Startable(in, band) == in.startable /\ band < 1

(* The rest of the loop: band, conditions, transition, power.  A device    *)
(* that just went offroad was offroad for no time.                         *)
Decide(in, offAfter) ==
  LET band == NextBand(in, OffroadLong)
      go == /\ OnroadConditions(ignition', cycling', band, offroadMode)
            /\ started \/ Startable(in, band)
  IN /\ thermal' = band /\ modeSeen' = offroadMode
     /\ started' = go
     /\ seen' = (seen \/ go)
     /\ shouldPrev' = go
     /\ offroad' = IF go THEN "no" ELSE offAfter
     /\ engagedParam' = CASE in.enabled = "yes" -> TRUE
                          [] in.enabled = "no" -> FALSE
                          [] OTHER -> engagedParam /\ go = shouldPrev
     /\ powerDown' = (powerDown \/ ShouldShutdown(in, ignition', offroad'))

(* Most iterations end here. *)
HwSkip(in) ==
  /\ ~in.due /\ ~IgnEdge(in)
  /\ Listen(in)
  /\ UNCHANGED <<started, offroad, seen, thermal, shouldPrev, offroadMode, modeSeen,
                 engagedParam, powerDown>>

HwStep(in, s) ==
  /\ in.due \/ IgnEdge(in)
  /\ Listen(in)
  /\ \E off \in {"fresh", "long"} :
       /\ offroad = "no" => off = "fresh"
       /\ offroad = "long" => off = "long"
       /\ Decide(s, off)
  /\ UNCHANGED offroadMode

(* Selecting a setting that needs a restart of the drive, and the switch   *)
(* for always offroad.                                                     *)
AskCycle == cycleAsked' = TRUE /\ UNCHANGED <<ignition, silent, cycling, started, offroad, seen,
              thermal, shouldPrev, offroadMode, modeSeen, engagedParam, powerDown>>
SwitchMode == offroadMode' = ~offroadMode /\ UNCHANGED <<ignition, silent, cycling, started, offroad,
              seen, thermal, shouldPrev, cycleAsked, modeSeen, engagedParam, powerDown>>

HwNext ==
  \/ \E in \in HwInputs : HwSkip(in) \/ \E s \in Samples : HwStep(in, s)
  \/ AskCycle \/ SwitchMode
=============================================================================
