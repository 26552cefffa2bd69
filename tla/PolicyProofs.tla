---------------------------- MODULE PolicyProofs ----------------------------
(***************************************************************************)
(* Theorems about the loops of PolicyChecks, for every value of their      *)
(* thresholds, delays and timers and every sequence of messages.           *)
(***************************************************************************)
EXTENDS PolicyChecks, TLAPS

(* The steps of the four loops; a loop that does not run stands still.     *)
HwTurn == HwObserved \/ UNCHANGED hwAll
DmTurn == DmObserved \/ UNCHANGED dmAll
SlaTurn == SlaObserved \/ UNCHANGED slaAll
LcTurn ==
  /\ part' = part
  /\ \/ part = "lc" /\ LcObserved
     \/ UNCHANGED lcAll /\ (part # "lc" \/ UNCHANGED policyVars)

LEMMA Turns == [PolicyNext]_policyVars => HwTurn /\ DmTurn /\ SlaTurn /\ LcTurn
  BY DEF PolicyNext, policyVars, HwTurn, DmTurn, SlaTurn, LcTurn
-----------------------------------------------------------------------------
(* hardwared.  A drive that ended by heat leaves the device in a band from *)
(* which none begins, until a sample brings it into the lowest.            *)
HwInv ==
  /\ started \in BOOLEAN /\ ignition \in BOOLEAN /\ modeSeen \in BOOLEAN /\ offroadMode \in BOOLEAN
  /\ thermal \in 0 .. 2
  /\ hot \in BOOLEAN /\ (hot => thermal >= 1)
  /\ OnroadConsistent

LEMMA HwInitInv == HwInit /\ hot = FALSE => HwInv
<1> SUFFICES ASSUME HwInit, hot = FALSE PROVE HwInv
  OBVIOUS
<1>1. thermal \in 0 .. 2
  BY DEF HwInit
<1>2. started = FALSE /\ ignition = FALSE /\ modeSeen = FALSE /\ offroadMode \in BOOLEAN
  BY DEF HwInit
<1> QED
  BY <1>1, <1>2, Zenon DEF HwInv, OnroadConsistent

(* A sample moves the device by one band at most, or, offroad, to the last.*)
LEMMA Bands ==
  ASSUME thermal \in 0 .. 2, NEW s \in Samples, NEW long \in BOOLEAN
  PROVE  /\ NextBand(s, long) \in 0 .. 2
         /\ s.temp >= MinTemp[2] /\ thermal >= 1 => NextBand(s, long) >= 1
<1>1. s.temp \in Int /\ s.temp >= -1000 /\ s.temp <= 1000
  <2>1. s.temp \in Temps
    BY DEF Samples
  <2> QED
    BY <2>1, HardwaredAssumption
<1>2. /\ MinTemp[1] = -1000 /\ MinTemp[2] = 88 /\ MinTemp[3] = 94
      /\ MaxTemp[1] = 96 /\ MaxTemp[2] = 107 /\ MaxTemp[3] = 1000
  BY DEF MinTemp, MaxTemp
<1>3. thermal = 0 \/ thermal = 1 \/ thermal = 2
  OBVIOUS
<1> QED
  BY <1>1, <1>2, <1>3 DEF NextBand

LEMMA HwSkipStep ==
  ASSUME HwInv, NEW in \in HwInputs, HwSkip(in), UNCHANGED hot
  PROVE  HwInv'
<1>1. /\ ~IgnEdge(in) /\ ignition' = IgnitionNow(in) /\ cycling' = CyclingNow
      /\ UNCHANGED <<started, thermal, modeSeen, offroadMode, hot>>
  BY DEF HwSkip, Listen
<1>2. IgnitionNow(in) \in BOOLEAN
  BY DEF IgnitionNow, HwInputs, HwInv
<1>3. started => OnroadConditions(IgnitionNow(in), CyclingNow, thermal, modeSeen)
  BY <1>1 DEF IgnEdge, HwInv
<1> QED
  BY <1>1, <1>2, <1>3 DEF HwInv, OnroadConsistent, OnroadConditions

LEMMA HwStepStep ==
  ASSUME HwInv, NEW in \in HwInputs, NEW s \in Samples, HwStep(in, s),
         hot' = (s.temp >= MinTemp[2] /\ (hot \/ (started /\ thermal' = 2)))
  PROVE  HwInv' /\ (~started /\ started' => ~hot')
<1> DEFINE band == NextBand(s, OffroadLong)
<1>1. /\ thermal' = band /\ modeSeen' = offroadMode /\ offroadMode' = offroadMode
      /\ ignition' = IgnitionNow(in)
      /\ started' = (/\ OnroadConditions(ignition', cycling', band, offroadMode)
                     /\ started \/ Startable(s, band))
  BY DEF HwStep, Decide, Listen
<1>2. IgnitionNow(in) \in BOOLEAN
  BY DEF IgnitionNow, HwInputs, HwInv
<1>3. OffroadLong \in BOOLEAN
  BY DEF OffroadLong
<1>4. band \in 0 .. 2 /\ (s.temp >= MinTemp[2] /\ thermal >= 1 => band >= 1)
  BY <1>3, Bands DEF HwInv
<1>5. started' \in BOOLEAN /\ OnroadConsistent'
  BY <1>1 DEF OnroadConsistent, OnroadConditions
<1>6. hot' \in BOOLEAN /\ (hot' => s.temp >= MinTemp[2] /\ (hot \/ thermal' = 2))
  BY Zenon
<1>7. hot' => thermal' >= 1
  <2>1. CASE hot
    BY <1>1, <1>4, <1>6, <2>1 DEF HwInv
  <2>2. CASE thermal' = 2
    BY <2>2
  <2> QED
    BY <1>6, <2>1, <2>2
<1>8. ~started /\ started' => band < 1
  BY <1>1, Zenon DEF Startable
<1>9. ~started /\ started' => ~hot'
  <2>1. thermal' = band
    BY <1>1
  <2> HIDE DEF band
  <2> QED
    BY <1>4, <1>7, <1>8, <2>1
<1> QED
  BY <1>1, <1>2, <1>4, <1>5, <1>6, <1>7, <1>9 DEF HwInv

LEMMA HwTurnStep ==
  ASSUME HwInv, HwTurn
  PROVE  HwInv' /\ (~started /\ started' => ~hot')
<1>1. CASE UNCHANGED hwAll
  BY <1>1 DEF hwAll, hwVars, HwInv, OnroadConsistent
<1>2. ASSUME NEW in \in HwInputs, HwSkip(in), UNCHANGED hot
      PROVE  HwInv' /\ (~started /\ started' => ~hot')
  <2>1. started' = started
    BY <1>2 DEF HwSkip
  <2> QED
    BY <1>2, <2>1, HwSkipStep DEF HwInv
<1>3. CASE (AskCycle \/ SwitchMode) /\ UNCHANGED hot
  <2>1. offroadMode' \in BOOLEAN /\ UNCHANGED <<started, ignition, cycling, thermal, modeSeen, hot>>
    BY <1>3, Zenon DEF AskCycle, SwitchMode, HwInv
  <2> QED
    BY <2>1 DEF HwInv, OnroadConsistent
<1> QED
  BY <1>1, <1>2, <1>3, HwStepStep DEF HwTurn, HwObserved

LEMMA HwInvariance == PolicySpec => []HwInv
<1>1. PolicyInit => HwInv
  BY HwInitInv DEF PolicyInit
<1>2. HwInv /\ [PolicyNext]_policyVars => HwInv'
  BY Turns, HwTurnStep
<1> QED
  BY <1>1, <1>2, PTL DEF PolicySpec

(* A device that is onroad has the ignition, no pending cycle, no critical *)
(* heat and the driver's consent, though most iterations decide nothing.   *)
THEOREM OnroadConsistentSafe == PolicySpec => []OnroadConsistent
<1>1. HwInv => OnroadConsistent
  BY DEF HwInv
<1> QED
  BY <1>1, HwInvariance, PTL

(* After a drive was ended by heat none begins before the temperature was  *)
(* below the overheated band once.                                         *)
THEOREM NoThermalBounceSafe == PolicySpec => NoThermalBounce
<1>1. HwInv /\ [PolicyNext]_policyVars => [~started /\ started' => ~hot']_policyVars
  BY Turns, HwTurnStep
<1> QED
  BY <1>1, HwInvariance, PTL DEF PolicySpec, NoThermalBounce
-----------------------------------------------------------------------------
(* The lane change.  What the observers remember of a use of the blinker   *)
(* the controller remembers too, or the change is off until the next use;  *)
(* its timer is behind by what is left of the second.                      *)
Shortest == IF lcMode = Nudgeless THEN 0 ELSE lcMode

LcInv ==
  /\ lcState \in {"off", "pre", "starting", "finishing"}
  /\ lcMode \in Modes /\ lcWait \in Int /\ clear \in 0 .. OneSecond + 1
  /\ oneBlinker \in BOOLEAN /\ braked \in BOOLEAN /\ changed \in BOOLEAN /\ bsmDelay \in BOOLEAN
  /\ vetoed \in BOOLEAN /\ once \in BOOLEAN /\ unasked \in BOOLEAN
  /\ once => oneBlinker /\ (changed \/ lcState = "off")
  /\ vetoed => oneBlinker /\ (braked \/ lcState = "off")
  /\ bsmDelay /\ lcMode \in Delays /\ clear <= OneSecond => lcWait <= Shortest - OneSecond + clear
  /\ part # "lc" => ~unasked

LEMMA LcInitInv == PolicyInit => LcInv
<1> SUFFICES ASSUME PolicyInit PROVE LcInv
  OBVIOUS
<1>1. OneSecond \in Nat
  BY LcAssumption
<1>2. /\ lcState = "off" /\ lcWait = 0 /\ clear = OneSecond + 1 /\ lcMode \in Modes /\ bsmDelay \in BOOLEAN
      /\ oneBlinker = FALSE /\ braked = FALSE /\ changed = FALSE
      /\ vetoed = FALSE /\ once = FALSE /\ unasked = FALSE
  BY DEF PolicyInit, LcInit
<1>3. clear \in 0 .. OneSecond + 1 /\ lcWait \in Int /\ ~(clear <= OneSecond)
  BY <1>1, <1>2
<1> QED
  BY <1>2, <1>3, Zenon DEF LcInv

(* What a frame does to the state, as far as the properties ask.           *)
LEMMA LcStates ==
  ASSUME lcState \in {"off", "pre", "starting", "finishing"}, NEW in \in LcInputs, LcFrame(in)
  PROVE  /\ lcState' \in {"off", "pre", "starting", "finishing"}
         /\ lcState = "off" /\ lcState' # "off" => ~oneBlinker
         /\ lcState = "pre" /\ lcState' = "starting"
              => in.steer = lcDir' \/ (Allowed(in) /\ ~Blind(in))
<1> USE DEF Step
<1>1. CASE Stops(in)
  BY <1>1 DEF LcFrame
<1>2. CASE ~Stops(in) /\ FromOff(in)
  BY <1>2 DEF FromOff
<1>3. CASE ~Stops(in) /\ FromPre(in)
  BY <1>3 DEF FromPre
<1>4. CASE ~Stops(in) /\ FromStarting(in)
  BY <1>4 DEF FromStarting
<1>5. CASE ~Stops(in) /\ FromFinishing(in)
  BY <1>5 DEF FromFinishing
<1> QED
  BY <1>1, <1>2, <1>3, <1>4, <1>5 DEF LcFrame

(* The wait of a frame before a change, with the delay for blind spots on. *)
LEMMA LcWaits ==
  ASSUME lcMode \in Modes, lcWait \in Int, NEW in \in LcInputs
  PROVE  /\ Wait(in) \in Int
         /\ bsmDelay /\ lcMode \in Delays
              => IF Blind(in) THEN Wait(in) = Shortest - OneSecond ELSE Wait(in) <= lcWait + 1
<1>1. OneSecond \in Int /\ Delays \subseteq Int
  BY LcAssumption
<1>2. CASE bsmDelay /\ Blind(in) /\ lcMode \in Delays
  BY <1>1, <1>2 DEF Wait, Shortest
<1>3. CASE ~(bsmDelay /\ Blind(in) /\ lcMode \in Delays)
  <2>1. Wait(in) = lcWait \/ Wait(in) = lcWait + 1
    BY <1>3, Zenon DEF Wait
  <2>2. lcWait + 1 \in Int /\ lcWait <= lcWait + 1 /\ lcWait + 1 <= lcWait + 1
    OBVIOUS
  <2> QED
    BY <1>3, <2>1, <2>2, Zenon
<1> QED
  BY <1>2, <1>3

LEMMA LcFrameStep ==
  ASSUME LcInv, NEW in \in LcInputs, LcFrame(in), part' = part, part = "lc",
         vetoed' = (One(in) /\ (vetoed \/ (lcState = "pre" /\ in.brake))),
         once' = (One(in) /\ (once \/ lcState' = "starting")),
         unasked' = (lcState = "pre" /\ lcState' = "starting" /\ in.steer # lcDir'),
         clear' = IF Forgets THEN OneSecond + 1
                  ELSE IF lcState = "pre" /\ Blind(in) THEN 0
                  ELSE LeastOf(clear + 1, OneSecond + 1)
  PROVE  /\ LcInv'
         /\ unasked' => ~once /\ ~vetoed'
         /\ unasked' /\ bsmDelay => clear' > OneSecond
<1>1. OneSecond \in Nat /\ in.brake \in BOOLEAN
  BY LcAssumption DEF AllLcInputs
<1>2. /\ oneBlinker' = One(in)
      /\ changed' = (~Forgets /\ (changed \/ lcState' = "starting"))
      /\ braked' = (~Forgets /\ (IF lcState = "pre" THEN Braked(in) ELSE braked))
      /\ lcWait' = IF Forgets THEN 0 ELSE IF lcState = "pre" THEN Wait(in) ELSE lcWait
      /\ lcMode' = lcMode /\ bsmDelay' = bsmDelay
  BY DEF LcFrame, lcSettings
<1>3. /\ lcState' \in {"off", "pre", "starting", "finishing"}
      /\ lcState = "off" /\ lcState' # "off" => ~oneBlinker
      /\ unasked' => lcState = "pre" /\ lcState' = "starting" /\ Allowed(in) /\ ~Blind(in)
  BY LcStates DEF LcInv
<1>4. Forgets => lcState' = "off"
  BY DEF Forgets
<1>5. /\ oneBlinker' \in BOOLEAN /\ braked' \in BOOLEAN /\ changed' \in BOOLEAN
      /\ bsmDelay' \in BOOLEAN /\ vetoed' \in BOOLEAN /\ once' \in BOOLEAN /\ unasked' \in BOOLEAN
  <2>1. oneBlinker' \in BOOLEAN /\ vetoed' \in BOOLEAN /\ once' \in BOOLEAN
    <3>1. One(in) \in BOOLEAN
      BY DEF One
    <3> QED
      BY <1>2, <3>1, Zenon
  <2>2. changed' \in BOOLEAN /\ unasked' \in BOOLEAN /\ bsmDelay' \in BOOLEAN
    BY <1>2, Zenon DEF LcInv
  <2>3. braked' \in BOOLEAN
    BY <1>2, Zenon
  <2> QED
    BY <2>1, <2>2, <2>3
<1>6. once' => oneBlinker' /\ (changed' \/ lcState' = "off")
  BY <1>2, <1>3, <1>4, Zenon DEF LcInv
<1>7. vetoed' => oneBlinker' /\ (braked' \/ lcState' = "off")
  BY <1>2, <1>3, <1>4, Zenon DEF LcInv, Braked
<1>8. unasked' => ~once /\ ~vetoed'
  BY <1>3, Zenon DEF LcInv, Allowed, Braked
<1>9. clear' \in 0 .. OneSecond + 1 /\ lcWait' \in Int
  BY <1>1, <1>2, LcWaits DEF LcInv, LeastOf
<1>10. ASSUME bsmDelay, lcMode \in Delays, clear' <= OneSecond
       PROVE  lcWait' <= Shortest - OneSecond + clear'
  <2>1. ~Forgets /\ Shortest \in Int
    BY <1>1, <1>10, LcAssumption DEF Shortest
  <2>2. CASE lcState = "pre" /\ Blind(in)
    BY <1>1, <1>2, <1>10, <2>1, <2>2, LcWaits DEF LcInv
  <2>3. CASE ~(lcState = "pre" /\ Blind(in))
    <3>1. clear' = clear + 1 /\ clear <= OneSecond
      BY <1>1, <1>10, <2>1, <2>3 DEF LcInv, LeastOf
    <3>2. lcWait' <= lcWait + 1
      BY <1>2, <1>10, <2>1, <2>3, LcWaits DEF LcInv
    <3> QED
      BY <1>1, <1>9, <1>10, <2>1, <3>1, <3>2 DEF LcInv
  <2> QED
    BY <2>2, <2>3
<1>11. (bsmDelay /\ lcMode \in Delays /\ clear <= OneSecond => lcWait <= Shortest - OneSecond + clear)'
  BY <1>2, <1>10 DEF Shortest
<1>12. ASSUME unasked', bsmDelay
       PROVE  clear' > OneSecond
  <2>1. /\ lcState = "pre" /\ ~Blind(in) /\ ~Forgets
        /\ lcMode \in Delays /\ Wait(in) > lcMode
    BY <1>3, <1>4, <1>12 DEF Allowed
  <2>2. clear' = LeastOf(clear + 1, OneSecond + 1) /\ Wait(in) <= lcWait + 1 /\ Wait(in) \in Int
    BY <1>12, <2>1, LcWaits DEF LcInv
  <2>3. lcMode \in Nat /\ Shortest \in Int /\ Shortest <= lcMode
    BY <2>1, LcAssumption DEF Shortest
  <2>4. clear <= OneSecond => lcWait <= Shortest - OneSecond + clear
    BY <1>12, <2>1 DEF LcInv
  <2>5. lcWait \in Int /\ clear \in 0 .. OneSecond + 1
    BY DEF LcInv
  <2> QED
    BY <1>1, <2>1, <2>2, <2>3, <2>4, <2>5 DEF LeastOf
<1> QED
  BY <1>2, <1>3, <1>5, <1>6, <1>7, <1>8, <1>9, <1>11, <1>12 DEF LcInv

LEMMA LcTurnStep ==
  ASSUME LcInv, LcTurn
  PROVE  /\ LcInv'
         /\ [unasked' => ~once /\ ~vetoed']_policyVars
         /\ [unasked' /\ bsmDelay => clear' > OneSecond]_policyVars
<1>1. part' = part /\ OneSecond \in Nat
  BY LcAssumption DEF LcTurn
<1>2. CASE UNCHANGED lcAll /\ (part # "lc" \/ UNCHANGED policyVars)
  <2>1. LcInv'
    BY <1>1, <1>2 DEF lcAll, lcVars, lcSettings, LcInv, Shortest
  <2>2. unasked' => UNCHANGED policyVars
    BY <1>2 DEF LcInv, lcAll
  <2> QED
    BY <2>1, <2>2
<1>3. ASSUME part = "lc", NEW in \in LcInputs, LcFrame(in),
             vetoed' = (One(in) /\ (vetoed \/ (lcState = "pre" /\ in.brake))),
             once' = (One(in) /\ (once \/ lcState' = "starting")),
             unasked' = (lcState = "pre" /\ lcState' = "starting" /\ in.steer # lcDir'),
             clear' = IF Forgets THEN OneSecond + 1
                      ELSE IF lcState = "pre" /\ Blind(in) THEN 0
                      ELSE LeastOf(clear + 1, OneSecond + 1)
      PROVE  LcInv' /\ (unasked' => ~once /\ ~vetoed') /\ (unasked' /\ bsmDelay => clear' > OneSecond)
  BY <1>1, <1>3, LcFrameStep
<1>4. CASE part = "lc" /\ LcSettings /\ unasked' = FALSE /\ clear' = OneSecond + 1 /\ UNCHANGED <<vetoed, once>>
  <2>1. /\ lcMode' \in Modes /\ bsmDelay' \in BOOLEAN /\ ~unasked' /\ clear' \in 0 .. OneSecond + 1
        /\ ~(clear' <= OneSecond)
        /\ UNCHANGED <<lcState, lcWait, oneBlinker, braked, changed, vetoed, once>>
    BY <1>1, <1>4 DEF LcSettings
  <2> QED
    <3>1. part' = part /\ lcWait \in Int /\ (unasked' => FALSE)
      BY <1>1, <2>1 DEF LcInv
    <3>2. LcInv'
      <4>1. (bsmDelay /\ lcMode \in Delays /\ clear <= OneSecond
              => lcWait <= Shortest - OneSecond + clear)'
        BY <2>1
      <4>2. /\ (once => oneBlinker /\ (changed \/ lcState = "off"))'
            /\ (vetoed => oneBlinker /\ (braked \/ lcState = "off"))'
        BY <2>1, Zenon DEF LcInv
      <4>3. /\ oneBlinker' \in BOOLEAN /\ braked' \in BOOLEAN /\ changed' \in BOOLEAN
            /\ vetoed' \in BOOLEAN /\ once' \in BOOLEAN /\ unasked' = FALSE
            /\ lcState' \in {"off", "pre", "starting", "finishing"} /\ lcWait' \in Int
        BY <1>4, <2>1 DEF LcInv
      <4> HIDE <1>4
      <4> QED
        BY <2>1, <4>1, <4>2, <4>3, Zenon DEF LcInv
    <3> QED
      BY <2>1, <3>2
<1> QED
  BY <1>2, <1>3, <1>4 DEF LcTurn, LcObserved

LEMMA LcInvariance == PolicySpec => []LcInv
<1>1. LcInv /\ [PolicyNext]_policyVars => LcInv'
  BY Turns, LcTurnStep
<1> QED
  BY <1>1, LcInitInv, PTL DEF PolicySpec

(* For one use of the blinker a change begins by itself at most once, not  *)
(* after one the driver began, and not after he braked.                    *)
THEOREM OnceUnaskedSafe == PolicySpec => OnceUnasked
<1>1. LcInv /\ [PolicyNext]_policyVars => [unasked' => ~once /\ ~vetoed']_policyVars
  BY Turns, LcTurnStep
<1> QED
  BY <1>1, LcInvariance, PTL DEF PolicySpec, OnceUnasked

(* With the delay for blind spots on, no change begins by itself within a  *)
(* second of a car in the blind spot, whatever the mode's own delay.       *)
THEOREM BlindSpotWaitsSafe == PolicySpec => BlindSpotWaits
<1>1. LcInv /\ [PolicyNext]_policyVars => [unasked' /\ bsmDelay => clear' > OneSecond]_policyVars
  BY Turns, LcTurnStep
<1> QED
  BY <1>1, LcInvariance, PTL DEF PolicySpec, BlindSpotWaits
-----------------------------------------------------------------------------
(* The speed limit assist.  A question is only asked of a limit there is,  *)
(* the last sign read is the limit, and what is followed was agreed to.    *)
SlaInv ==
  /\ pcm \in BOOLEAN
  /\ set \in Cruises /\ sign \in Nat /\ limit \in Nat /\ told.limit \in Nat
  /\ signPrev > 0 => limit = signPrev
  /\ sla \in Active \cup {"preActive"} => limit > 0
  /\ Consent

LEMMA SlaInitInv == SlaInit /\ agreed = 0 => SlaInv
  BY DEF SlaInit, SlaInv, Consent, Active

(* Every set speed is one of the display's.                                *)
LEMMA Clipped ==
  ASSUME NEW v \in Int
  PROVE  Clip(v) \in Cruises
<1>1. PICK low \in Cruises, high \in Cruises : Cruises = low .. high
  BY AssistAssumption
<1>2. low \in Nat /\ high \in Nat
  BY <1>1, AssistAssumption
<1>3. Least(Cruises) = low
  <2>1. \A y \in Cruises : low <= y
    BY <1>1, <1>2
  <2>2. \A x \in Cruises : (\A y \in Cruises : x <= y) => x = low
    BY <1>1, <1>2, <2>1
  <2> QED
    BY <2>1, <2>2 DEF Least
<1>4. Most(Cruises) = high
  <2>1. \A y \in Cruises : y <= high
    BY <1>1, <1>2
  <2>2. \A x \in Cruises : (\A y \in Cruises : y <= x) => x = high
    BY <1>1, <1>2, <2>1
  <2> QED
    BY <2>1, <2>2 DEF Most
<1> QED
  BY <1>1, <1>2, <1>3, <1>4 DEF Clip

LEMMA Speeds ==
  /\ \A v \in Cruises : v \in Nat /\ v > 0
  /\ \A v \in Limits : v \in Nat /\ v > 0
  BY AssistAssumption

(* A limit that is followed was asked for, unless it is the one agreed to. *)
AskedFor ==
  /\ sla' \in Active \cup {"preActive"} => HasLimit
  /\ sla' \in Active => Agrees \/ (~LimitChanged /\ agreed = Limit)

LEMMA FollowsStep ==
  ASSUME pcm \in BOOLEAN, Follows, HasLimit \/ pcm
  PROVE  sla' \in Active \cup {"preActive"} => HasLimit /\ sla' \in Active
  BY DEF Follows, To, Active

LEMMA PlanAsked ==
  ASSUME SlaInv, Plan
  PROVE  AskedFor
<1> USE DEF AskedFor
<1>1. Limit \in Nat /\ (limit > 0 => HasLimit)
  BY DEF Limit, HasLimit, SlaInv
<1>2. LimitChanged => HasLimit
  BY DEF LimitChanged
<1>3. Confirmed /\ ~pcm => HasLimit
  BY <1>1, Speeds DEF Confirmed, Target, HasLimit, SlaInv
<1>4. Accepted /\ sla # "preActive" => Confirmed
  BY DEF Accepted, Answered
<1>5. HasLimit /\ Accepted => Agrees
  BY DEF Agrees, Accepted, Answered, SlaInv
<1>6. CASE sla' \in {"disabled", "inactive", "pending"}
  BY <1>6 DEF Active
<1>7. CASE Asks /\ HasLimit
  BY <1>7 DEF Asks, Active
<1>8. CASE Accepted /\ Follows
  <2>1. HasLimit \/ pcm
    BY <1>1, <1>3, <1>4, <1>8 DEF SlaInv
  <2> QED
    BY <1>5, <1>8, <2>1, FollowsStep DEF SlaInv
<1>9. CASE FromActive /\ ~SetChanged /\ ~(LimitChanged /\ MustAsk) /\ Follows
  <2>1. HasLimit /\ agreed = limit /\ agreed # 0
    BY <1>1, <1>9 DEF FromActive, SlaInv, Consent
  <2>2. CASE LimitChanged
    <3>1. set >= Threshold /\ Limit >= Threshold
      BY <1>1, <1>9, <2>2, Speeds, AssistAssumption DEF MustAsk, SlaInv
    <3> QED
      BY <1>9, <2>1, <3>1 DEF Agrees, FromActive
  <2>3. CASE ~LimitChanged
    <3>1. Limit = limit
      BY <2>1, <2>3 DEF LimitChanged, Limit, SlaInv
    <3> QED
      BY <2>1, <2>3, <3>1
  <2> QED
    BY <2>2, <2>3
<1>10. CASE sla' = "preActive" /\ sla = "preActive"
  BY <1>1, <1>10 DEF SlaInv, Active
<1>11. CASE FromAny \/ FromActive
  BY <1>2, <1>6, <1>7, <1>9, <1>11 DEF FromAny, FromActive, To
<1>12. CASE FromPreActive
  BY <1>6, <1>8, <1>10, <1>12 DEF FromPreActive, To
<1>13. CASE FromPending
  BY <1>2, <1>6, <1>7, <1>8, <1>13 DEF FromPending, To, Accepted
<1>14. CASE FromInactive
  BY <1>2, <1>6, <1>7, <1>8, <1>14 DEF FromInactive, To
<1>15. CASE FromDisabled
  BY <1>6, <1>7, <1>8, <1>15 DEF FromDisabled, To
<1> QED
  BY <1>11, <1>12, <1>13, <1>14, <1>15 DEF Plan

LEMMA SlaTurnStep ==
  ASSUME SlaInv, SlaTurn
  PROVE  SlaInv'
<1>1. CASE UNCHANGED slaAll
  BY <1>1 DEF slaAll, slaVars, planVars, SlaInv, Consent
<1>2. CASE Plan /\ agreed' = IF Agrees THEN Limit ELSE IF LimitChanged THEN 0 ELSE agreed
  <2>1. limit' = Limit /\ signPrev' = sign /\ UNCHANGED <<pcm, set, sign, told>>
    BY <1>2 DEF Plan
  <2>2. Limit \in Nat /\ (sign > 0 => Limit = sign)
    BY DEF Limit, SlaInv
  <2>3. AskedFor
    BY <1>2, PlanAsked
  <2>4. Consent'
    BY <1>2, <2>1, <2>3 DEF AskedFor, Consent
  <2> QED
    BY <2>1, <2>2, <2>3, <2>4 DEF SlaInv, AskedFor, HasLimit
<1>3. CASE Tell /\ UNCHANGED agreed
  BY <1>3 DEF Tell, planVars, SlaInv, Consent
<1>4. CASE Card /\ UNCHANGED agreed
  <2>1. UNCHANGED <<pcm, sign, signPrev, sla, limit, told, agreed>>
    BY <1>4 DEF Card, planVars
  <2>2. set' \in Cruises
    <3>1. set \in Int /\ set + 1 \in Int /\ set - 1 \in Int /\ told.limit \in Int
      BY Speeds DEF SlaInv
    <3>2. AfterPress \in Cruises
      BY <3>1, Clipped DEF AfterPress, SlaInv
    <3> QED
      BY <1>4, <3>1, <3>2, Clipped DEF Card
  <2> QED
    BY <2>1, <2>2 DEF SlaInv, Consent
<1>5. CASE Outside /\ UNCHANGED agreed
  <2>1. UNCHANGED <<pcm, signPrev, sla, limit, told, agreed>>
    BY <1>5 DEF Outside, CarSets, Engage, Press, Sign, Toggle, planVars
  <2>2. set' \in Cruises /\ sign' \in Nat
    BY <1>5, Speeds DEF Outside, CarSets, Engage, Press, Sign, Toggle, SlaInv
  <2> QED
    BY <2>1, <2>2 DEF SlaInv, Consent
<1> QED
  BY <1>1, <1>2, <1>3, <1>4, <1>5 DEF SlaTurn, SlaObserved

(* A speed limit is followed only if the driver agreed to it, or to an     *)
(* earlier one since when nothing came below the threshold.                *)
THEOREM ConsentSafe == PolicySpec => []Consent
<1>1. PolicyInit => SlaInv
  BY SlaInitInv DEF PolicyInit
<1>2. SlaInv /\ [PolicyNext]_policyVars => SlaInv'
  BY Turns, SlaTurnStep
<1>3. SlaInv => Consent
  BY DEF SlaInv
<1> QED
  BY <1>1, <1>2, <1>3, PTL DEF PolicySpec
-----------------------------------------------------------------------------
(* Driver monitoring.  What a policy that is not active keeps of its       *)
(* budget is above its own orange alert, or above nothing at the wheel.    *)
Policies == {"vision", "wheel"}

DmTypes ==
  /\ policy \in Policies /\ awareness \in -1 .. Full /\ step \in 0 .. Full
  /\ lastVision \in VisionAlert2 + 1 .. Full /\ lastWheel \in 1 .. Full
  /\ filter \in 0 .. 2 /\ hiStds \in Nat /\ alert \in 0 .. 3
  /\ face \in BOOLEAN /\ lowStd \in BOOLEAN /\ distracted \in BOOLEAN /\ uncertain \in BOOLEAN
  /\ alwaysOn \in BOOLEAN /\ dmEngaged \in BOOLEAN /\ dmStreak \in 0 .. DmUnits + 1

(* What both policies have left, at most, of frames without attention.     *)
Left ==
  (IF policy = "vision" THEN awareness + 2 * lastWheel ELSE lastVision + 2 * awareness)
    + (IF filter = 0 THEN 1 ELSE 0)

(* An alert of the camera's, or a red one, holds; before, every frame      *)
(* takes of what is left.                                                  *)
StreakInv ==
  dmStreak > 0 => (Stays /\ alert >= 2) \/ (~Stays /\ Left + dmStreak <= 3 * Full + 1)

DmInv == DmTypes /\ StreakInv /\ (alert = 3 => dmEngaged)

LEMMA DmUnitsFacts ==
  /\ Full \in Nat /\ Full > 0 /\ VisionStep \in 1 .. Full /\ DmUnits \in Nat
  /\ VisionAlert2 \in Nat /\ VisionAlert2 > 0 /\ VisionAlert2 < Full
  /\ VisionAlert1 \in Nat /\ WheelAlert1 \in Nat /\ WheelAlert2 \in Nat /\ FallbackTime \in Nat
  /\ DmUnits >= 3 * Full - VisionAlert2 - 2
  BY DmAssumption, PolicyAssumption

LEMMA DmInitInv == DmInit /\ dmStreak = 0 /\ dmEngaged = FALSE => DmInv
<1> SUFFICES ASSUME DmInit, dmStreak = 0, dmEngaged = FALSE PROVE DmInv
  OBVIOUS
<1>1. alwaysOn \in BOOLEAN
  BY DEF DmInit
<1>2. /\ policy = "vision" /\ awareness = Full /\ step = VisionStep /\ lastVision = Full
      /\ lastWheel = Full /\ filter = 0 /\ hiStds = 0 /\ alert = 0
      /\ face = FALSE /\ lowStd = TRUE /\ distracted = FALSE /\ uncertain = FALSE
  BY DEF DmInit
<1>3. /\ awareness \in -1 .. Full /\ step \in 0 .. Full /\ lastVision \in VisionAlert2 + 1 .. Full
      /\ lastWheel \in 1 .. Full /\ filter \in 0 .. 2 /\ hiStds \in Nat /\ alert \in 0 .. 3
      /\ dmStreak \in 0 .. DmUnits + 1 /\ ~(dmStreak > 0) /\ alert # 3
  BY <1>2, DmUnitsFacts
<1> QED
  BY <1>1, <1>2, <1>3, Zenon DEF DmInv, DmTypes, StreakInv, Policies

(* A recovery never takes awareness away.                                  *)
LEMMA Recovery ==
  ASSUME NEW a \in 1 .. Full, NEW cost \in 0 .. Full
  PROVE  Recovered(a, cost) \in a .. Full
<1> DEFINE gain == cost * (20 * Full - 15 * a)
           part4 == gain \div (4 * Full)
<1>1. 20 * Full - 15 * a \in Nat /\ 4 * Full \in Nat \ {0} /\ a \in Nat /\ Full \in Nat
  BY DmUnitsFacts
<1>2. gain \in Nat
  <2>1. \A x, y \in Nat : x * y \in Nat
    OBVIOUS
  <2> QED
    BY <1>1, <2>1
<1>3. part4 \in Nat
  <2>1. \A x \in Nat, y \in Nat \ {0} : x \div y \in Nat
    OBVIOUS
  <2> HIDE DEF gain
  <2> QED
    BY <1>1, <1>2, <2>1
<1>4. Recovered(a, cost) = LeastOf(a + part4, Full)
  BY DEF Recovered
<1> HIDE DEF part4
<1> QED
  BY <1>1, <1>3, <1>4 DEF LeastOf

(* What _set_policy leaves: the active policy's budget, and the other's.   *)
LEMMA PolicySet ==
  ASSUME DmTypes, NEW t \in Policies
  PROVE  /\ SetPolicy(t).policy \in Policies /\ SetPolicy(t).step \in 0 .. Full
         /\ SetPolicy(t).awareness \in -1 .. Full
         /\ SetPolicy(t).vision \in VisionAlert2 + 1 .. Full /\ SetPolicy(t).wheel \in 1 .. Full
         /\ Stays => SetPolicy(t).policy = policy /\ SetPolicy(t).awareness = awareness
         /\ ~Stays =>
              /\ SetPolicy(t).policy = t /\ SetPolicy(t).step >= 1
              /\ (IF t = "vision" THEN SetPolicy(t).awareness + 2 * SetPolicy(t).wheel
                  ELSE SetPolicy(t).vision + 2 * SetPolicy(t).awareness)
                 = (IF policy = "vision" THEN awareness + 2 * lastWheel ELSE lastVision + 2 * awareness)
<1> USE DmUnitsFacts DEF DmTypes, Policies
<1>1. CASE Stays
  <2>1. /\ SetPolicy(t).policy = policy /\ SetPolicy(t).awareness = awareness
        /\ SetPolicy(t).vision = lastVision /\ SetPolicy(t).wheel = lastWheel
        /\ SetPolicy(t).step \in {0, StepOf(policy)}
    BY <1>1, Zenon DEF SetPolicy
  <2>2. StepOf(policy) \in 0 .. Full
    BY DEF StepOf
  <2> QED
    BY <1>1, <2>1, <2>2
<1>2. CASE ~Stays
  <2>1. /\ SetPolicy(t).policy = t /\ SetPolicy(t).awareness = Budget(t)
        /\ SetPolicy(t).step = StepOf(t)
        /\ SetPolicy(t).vision = IF policy = "vision" /\ t # policy THEN awareness ELSE lastVision
        /\ SetPolicy(t).wheel = IF policy = "wheel" /\ t # policy THEN awareness ELSE lastWheel
    BY <1>2, Zenon DEF SetPolicy
  <2>2. StepOf(t) \in 1 .. Full
    BY DEF StepOf
  <2>3. awareness >= 1 /\ (policy = "vision" => awareness >= VisionAlert2 + 1)
    BY <1>2 DEF Stays
  <2>4. Budget(t) = IF t = policy THEN awareness ELSE IF t = "vision" THEN lastVision ELSE lastWheel
    BY DEF Budget
  <2>5. CASE t = policy
    BY <1>2, <2>1, <2>2, <2>3, <2>4, <2>5
  <2>6. CASE t = "vision" /\ policy = "wheel"
    BY <1>2, <2>1, <2>2, <2>3, <2>4, <2>6
  <2>7. CASE t = "wheel" /\ policy = "vision"
    BY <1>2, <2>1, <2>2, <2>3, <2>4, <2>7
  <2> QED
    BY <2>5, <2>6, <2>7
<1> QED
  BY <1>1, <1>2

(* What a frame has to work with.                                          *)
Seen(in) == IF in.look = "none" THEN SeenBefore ELSE SeenNow(in)

Sound(s) ==
  /\ s.face \in BOOLEAN /\ s.lowStd \in BOOLEAN /\ s.distracted \in BOOLEAN /\ s.uncertain \in BOOLEAN
  /\ s.filter \in 0 .. 2 /\ s.hiStds \in Nat
  /\ s.set.policy \in Policies /\ s.set.step \in 0 .. Full /\ s.set.awareness \in -1 .. Full
  /\ s.set.vision \in VisionAlert2 + 1 .. Full /\ s.set.wheel \in 1 .. Full

LEMMA NowSeen ==
  ASSUME NEW in \in DmInputs
  PROVE  /\ SeenNow(in).face = (in.look # "hidden") /\ SeenNow(in).lowStd = (in.look # "unclear")
         /\ SeenNow(in).distracted = (in.look = "distracted")
         /\ SeenNow(in).uncertain = (hiStds >= FallbackTime)
         /\ SeenNow(in).filter = IF in.look = "distracted" THEN LeastOf(filter + 1, 2)
                                 ELSE MostOf(filter - 1, 0)
         /\ SeenNow(in).set = SetPolicy(IF in.look # "hidden" /\ ~(hiStds >= FallbackTime)
                                        THEN "vision" ELSE "wheel")
         /\ SeenNow(in).hiStds \in {LeastOf(hiStds + 1, FallbackTime), 0, hiStds}
  BY DEF SeenNow

LEMMA SeenSound ==
  ASSUME DmTypes, NEW in \in DmInputs
  PROVE  /\ Sound(Seen(in))
         /\ awareness <= 0 => Seen(in).set.awareness <= 0
<1>1. CASE in.look = "none"
  <2>1. Seen(in) = SeenBefore
    BY <1>1 DEF Seen
  <2>2. /\ SeenBefore.face = face /\ SeenBefore.lowStd = lowStd
        /\ SeenBefore.distracted = distracted /\ SeenBefore.uncertain = uncertain
        /\ SeenBefore.filter = filter /\ SeenBefore.hiStds = hiStds
        /\ SeenBefore.set.policy = policy /\ SeenBefore.set.step = step
        /\ SeenBefore.set.awareness = awareness
        /\ SeenBefore.set.vision = lastVision /\ SeenBefore.set.wheel = lastWheel
    BY DEF SeenBefore
  <2> QED
    BY <2>1, <2>2 DEF Sound, DmTypes
<1>2. CASE in.look # "none"
  <2>1. Seen(in) = SeenNow(in)
    BY <1>2 DEF Seen
  <2>2. PICK t \in Policies : SeenNow(in).set = SetPolicy(t)
    BY NowSeen DEF Policies
  <2>3. awareness <= 0 => Stays
    BY DEF Stays
  <2>4. SeenNow(in).filter \in 0 .. 2 /\ SeenNow(in).hiStds \in Nat
    BY NowSeen, DmUnitsFacts DEF LeastOf, MostOf, DmTypes
  <2>5. /\ SeenNow(in).face \in BOOLEAN /\ SeenNow(in).lowStd \in BOOLEAN
        /\ SeenNow(in).distracted \in BOOLEAN /\ SeenNow(in).uncertain \in BOOLEAN
    <3>1. (hiStds >= FallbackTime) \in BOOLEAN
      BY DmUnitsFacts DEF DmTypes
    <3> QED
      BY <3>1, NowSeen, Zenon
  <2> QED
    BY <2>1, <2>2, <2>3, <2>4, <2>5, PolicySet DEF Sound
<1> QED
  BY <1>1, <1>2

(* What _update_events makes of it: a driver of an engaged system does not *)
(* leave a red alert, and there is none while disengaged.                  *)
LEMMA EventsSound ==
  ASSUME NEW in \in DmInputs, NEW s, Sound(s), alwaysOn \in BOOLEAN
  PROVE  LET e == DmEvents(in, s)
         IN /\ e.a \in -1 .. Full /\ e.vision \in VisionAlert2 + 1 .. Full /\ e.wheel \in 1 .. Full
            /\ e.shown \in BOOLEAN
            /\ in.engaged /\ s.set.awareness <= 0 => e.a <= 0
            /\ ~in.engaged /\ e.shown => e.a > 0
<1> DEFINE a == s.set.awareness
           cost == s.set.step
           always == alwaysOn /\ ~in.wrongGear
           stopped == in.standstill /\ a - cost <= Alert1Of(s.set.policy)
           regain == a > 0 /\ ((s.filter = 0 /\ s.face /\ s.lowStd) \/ stopped)
           a1 == IF regain THEN Recovered(a, cost) ELSE a
           wheel1 == IF regain /\ a1 = Full THEN LeastOf(s.set.wheel + cost, Full) ELSE s.set.wheel
           counting == /\ (s.filter = 2 /\ s.distracted /\ s.face) \/ s.uncertain \/ ~s.face
                       /\ ~stopped /\ ~Spared(in, a - cost)
           resets == \/ in.touching /\ a > 0 /\ s.set.policy = "wheel"
                     \/ ~in.engaged /\ (~always \/ a <= 0)
                     \/ regain /\ in.touching
           less == IF counting THEN MostOf(a1 - cost, -1) ELSE a1
           e == DmEvents(in, s)
<1>1. e = IF resets THEN [a |-> Full, vision |-> Full, wheel |-> Full, shown |-> FALSE]
          ELSE IF regain /\ a1 > Alert2Of(s.set.policy)
          THEN [a |-> a1, vision |-> s.set.vision, wheel |-> wheel1, shown |-> FALSE]
          ELSE [a |-> less, vision |-> s.set.vision, wheel |-> wheel1, shown |-> TRUE]
  BY DEF DmEvents
<1>2. /\ a \in -1 .. Full /\ cost \in 0 .. Full /\ s.set.vision \in VisionAlert2 + 1 .. Full
      /\ s.set.wheel \in 1 .. Full /\ Full \in Nat /\ VisionAlert2 < Full /\ VisionAlert2 \in Nat
  BY DmUnitsFacts DEF Sound
<1>3. a1 \in -1 .. Full /\ a1 >= a /\ (~regain => a1 = a)
  <2>1. CASE regain
    <3>1. a \in 1 .. Full
      BY <1>2, <2>1
    <3>2. Recovered(a, cost) \in a .. Full
      BY <1>2, <3>1, Recovery
    <3> QED
      BY <1>2, <2>1, <3>2
  <2>2. CASE ~regain
    BY <1>2, <2>2
  <2> QED
    BY <2>1, <2>2
<1>4. regain => a > 0
  OBVIOUS
<1>5. ~in.engaged /\ ~resets => a > 0 /\ always
  BY <1>2
<1>6. ~in.engaged /\ always /\ counting => a - cost > 0
  BY <1>2 DEF Spared
<1>7. wheel1 \in 1 .. Full
  BY <1>2 DEF LeastOf
<1>8. resets /\ in.engaged => a > 0
  BY <1>2
<1> HIDE DEF a, cost, always, stopped, regain, a1, wheel1, counting, resets, e
<1>9. less \in -1 .. Full /\ (a <= 0 => less <= 0)
  BY <1>2, <1>3, <1>4 DEF MostOf
<1>10. ~in.engaged /\ ~resets => less > 0
  BY <1>2, <1>3, <1>5, <1>6 DEF MostOf
<1> HIDE DEF less
<1>11. /\ e.a \in -1 .. Full /\ e.vision \in VisionAlert2 + 1 .. Full /\ e.wheel \in 1 .. Full
       /\ e.shown \in BOOLEAN
       /\ in.engaged /\ a <= 0 => e.a <= 0
       /\ ~in.engaged /\ e.shown => e.a > 0
  <2>1. CASE resets
    BY <1>1, <1>2, <1>8, <2>1
  <2>2. CASE ~resets /\ regain /\ a1 > Alert2Of(s.set.policy)
    BY <1>1, <1>2, <1>3, <1>4, <1>7, <2>2
  <2>3. CASE ~resets /\ ~(regain /\ a1 > Alert2Of(s.set.policy))
    BY <1>1, <1>2, <1>7, <1>9, <1>10, <2>3
  <2> QED
    BY <2>1, <2>2, <2>3
<1> QED
  BY <1>11 DEF e, a

LEMMA FrameFacts ==
  ASSUME NEW in \in DmInputs, DmFrame(in)
  PROVE  LET s == Seen(in)
             e == DmEvents(in, s)
         IN /\ policy' = s.set.policy /\ step' = s.set.step
            /\ awareness' = e.a /\ lastVision' = e.vision /\ lastWheel' = e.wheel
            /\ filter' = s.filter /\ hiStds' = s.hiStds /\ face' = s.face /\ lowStd' = s.lowStd
            /\ distracted' = s.distracted /\ uncertain' = s.uncertain /\ alwaysOn' = alwaysOn
            /\ alert' = IF ~e.shown THEN 0
                        ELSE IF e.a <= 0 THEN 3
                        ELSE IF e.a <= Alert2Of(s.set.policy) THEN 2
                        ELSE IF e.a <= Alert1Of(s.set.policy) THEN 1 ELSE 0
  BY DEF DmFrame, DmRun, Seen

LEMMA FrameTypes ==
  ASSUME DmTypes, NEW in \in DmInputs, DmFrame(in), dmEngaged' = in.engaged,
         dmStreak' \in 0 .. DmUnits + 1
  PROVE  /\ DmTypes'
         /\ awareness <= 0 /\ awareness' > 0 => ~dmEngaged'
         /\ alert' = 3 => dmEngaged'
<1> DEFINE s == Seen(in)
           e == DmEvents(in, s)
<1>1. Sound(s) /\ (awareness <= 0 => s.set.awareness <= 0)
  BY SeenSound
<1>2. /\ e.a \in -1 .. Full /\ e.vision \in VisionAlert2 + 1 .. Full /\ e.wheel \in 1 .. Full
      /\ e.shown \in BOOLEAN
      /\ in.engaged /\ s.set.awareness <= 0 => e.a <= 0
      /\ ~in.engaged /\ e.shown => e.a > 0
  BY <1>1, EventsSound DEF DmTypes
<1>3. /\ policy' = s.set.policy /\ step' = s.set.step
      /\ awareness' = e.a /\ lastVision' = e.vision /\ lastWheel' = e.wheel
      /\ filter' = s.filter /\ hiStds' = s.hiStds /\ face' = s.face /\ lowStd' = s.lowStd
      /\ distracted' = s.distracted /\ uncertain' = s.uncertain /\ alwaysOn' = alwaysOn
      /\ alert' = IF ~e.shown THEN 0
                  ELSE IF e.a <= 0 THEN 3
                  ELSE IF e.a <= Alert2Of(s.set.policy) THEN 2
                  ELSE IF e.a <= Alert1Of(s.set.policy) THEN 1 ELSE 0
  BY FrameFacts
<1>4. in.engaged \in BOOLEAN
  BY DmAssumption DEF AllDmInputs
<1> HIDE DEF s, e
<1>5. alert' \in 0 .. 3 /\ (alert' = 3 => e.shown /\ e.a <= 0)
  BY <1>3
<1>6. DmTypes'
  BY <1>1, <1>2, <1>3, <1>4, <1>5 DEF DmTypes, Sound
<1>7. awareness <= 0 /\ awareness' > 0 => ~dmEngaged'
  BY <1>1, <1>2, <1>3, <1>4
<1>8. alert' = 3 => dmEngaged'
  BY <1>2, <1>4, <1>5
<1> QED
  BY <1>6, <1>7, <1>8

(* A frame without attention: it takes of what is left, or holds the alert.*)
LEMMA StreakStep ==
  ASSUME DmTypes, StreakInv, NEW in \in DmInputs, DmFrame(in), DmTypes',
         in.engaged, ~in.standstill, ~in.touching, in.look \in {"hidden", "distracted"},
         dmStreak' = LeastOf(dmStreak + 1, DmUnits + 1)
  PROVE  StreakInv'
<1> DEFINE s == SeenNow(in)
           e == DmEvents(in, s)
           a == s.set.awareness
           cost == s.set.step
           counting == (s.filter = 2 /\ s.distracted /\ s.face) \/ s.uncertain \/ ~s.face
           target == IF in.look # "hidden" /\ ~(hiStds >= FallbackTime) THEN "vision" ELSE "wheel"
<1>1. Seen(in) = s /\ Sound(s)
  BY SeenSound DEF Seen
<1>2. /\ s.face = (in.look # "hidden") /\ s.distracted = (in.look = "distracted")
      /\ s.uncertain = (hiStds >= FallbackTime)
      /\ s.filter = IF in.look = "distracted" THEN LeastOf(filter + 1, 2) ELSE MostOf(filter - 1, 0)
      /\ s.set = SetPolicy(target)
  BY NowSeen
<1>3. ~(s.filter = 0 /\ s.face)
  <2>1. CASE in.look = "distracted"
    BY <1>2, <2>1 DEF LeastOf, DmTypes
  <2>2. CASE in.look = "hidden"
    BY <1>2, <2>2
  <2> QED
    BY <2>1, <2>2
<1>4. /\ e.a = IF counting THEN MostOf(a - cost, -1) ELSE a
      /\ e.vision = s.set.vision /\ e.wheel = s.set.wheel /\ e.shown = TRUE
  <2> DEFINE always == alwaysOn /\ ~in.wrongGear
             stopped == in.standstill /\ a - cost <= Alert1Of(s.set.policy)
             regain == a > 0 /\ ((s.filter = 0 /\ s.face /\ s.lowStd) \/ stopped)
             a1 == IF regain THEN Recovered(a, cost) ELSE a
             wheel1 == IF regain /\ a1 = Full THEN LeastOf(s.set.wheel + cost, Full) ELSE s.set.wheel
             counts == counting /\ ~stopped /\ ~Spared(in, a - cost)
             resets == \/ in.touching /\ a > 0 /\ s.set.policy = "wheel"
                       \/ ~in.engaged /\ (~always \/ a <= 0)
                       \/ regain /\ in.touching
             less == IF counts THEN MostOf(a1 - cost, -1) ELSE a1
  <2>1. e = IF resets THEN [a |-> Full, vision |-> Full, wheel |-> Full, shown |-> FALSE]
            ELSE IF regain /\ a1 > Alert2Of(s.set.policy)
            THEN [a |-> a1, vision |-> s.set.vision, wheel |-> wheel1, shown |-> FALSE]
            ELSE [a |-> less, vision |-> s.set.vision, wheel |-> wheel1, shown |-> TRUE]
    BY DEF DmEvents
  <2>2. ~stopped /\ ~regain /\ ~resets
    BY <1>3
  <2>3. ~Spared(in, a - cost)
    BY DEF Spared
  <2> HIDE DEF e, resets, stopped, regain, counting, a, cost
  <2> QED
    BY <2>1, <2>2, <2>3
<1>5. /\ policy' = s.set.policy /\ awareness' = e.a /\ lastVision' = e.vision /\ lastWheel' = e.wheel
      /\ filter' = s.filter
      /\ alert' = IF ~e.shown THEN 0
                  ELSE IF e.a <= 0 THEN 3
                  ELSE IF e.a <= Alert2Of(s.set.policy) THEN 2
                  ELSE IF e.a <= Alert1Of(s.set.policy) THEN 1 ELSE 0
  BY <1>1, FrameFacts
<1>6. /\ target \in Policies
      /\ Stays => s.set.policy = policy /\ a = awareness
      /\ ~Stays =>
           /\ s.set.policy = target /\ cost >= 1
           /\ (IF target = "vision" THEN a + 2 * s.set.wheel ELSE s.set.vision + 2 * a)
              = (IF policy = "vision" THEN awareness + 2 * lastWheel ELSE lastVision + 2 * awareness)
  BY <1>2, PolicySet DEF Policies
<1>7. /\ a \in -1 .. Full /\ cost \in 0 .. Full /\ s.set.vision \in VisionAlert2 + 1 .. Full
      /\ s.set.wheel \in 1 .. Full /\ s.filter \in 0 .. 2
      /\ Full \in Nat /\ VisionAlert2 \in Nat /\ DmUnits \in Nat
  BY <1>1, DmUnitsFacts DEF Sound
<1>8. counting \/ (s.filter # 2 /\ in.look = "distracted" /\ target = "vision")
  BY <1>2
<1>9. /\ in.look = "distracted" => s.filter >= 1 /\ (s.filter # 2 => filter = 0)
      /\ target = "vision" => in.look = "distracted"
  BY <1>2 DEF LeastOf, DmTypes
<1> HIDE DEF s, e, a, cost, counting, target
<1>10. CASE Stays
  <2>1. e.a <= awareness
    BY <1>4, <1>6, <1>7, <1>10 DEF MostOf, DmTypes
  <2>2. Stays' /\ alert' >= 2
    BY <1>4, <1>5, <1>6, <1>7, <1>10, <2>1, DmUnitsFacts DEF Stays, DmTypes, Alert2Of
  <2> QED
    BY <2>2 DEF StreakInv
<1>11. CASE ~Stays
  <2>1. Left + dmStreak <= 3 * Full + 1
    BY <1>7, <1>11 DEF StreakInv, Left, DmTypes
  <2>2. dmStreak' <= dmStreak + 1 /\ dmStreak \in Int /\ dmStreak' \in Int
    BY <1>7 DEF LeastOf, DmTypes
  <2>3. e.a <= 0 => Stays' /\ alert' >= 2
    BY <1>4, <1>5, <1>7 DEF Stays
  <2>4. e.a > 0 => Left' <= Left - 1
    BY <1>4, <1>5, <1>6, <1>7, <1>8, <1>9, <1>11 DEF Left, DmTypes, MostOf, Policies
  <2>5. Stays' => alert' >= 2
    BY <1>4, <1>5, <1>7 DEF Stays, Alert2Of, DmTypes
  <2>6. Left \in Int /\ Left' \in Int /\ e.a \in Int
    BY <1>5, <1>7 DEF Left, DmTypes
  <2>7. ~Stays' => Left' + dmStreak' <= 3 * Full + 1
    BY <1>5, <1>7, <2>1, <2>2, <2>3, <2>4, <2>6
  <2> QED
    BY <2>5, <2>7, Zenon DEF StreakInv
<1> QED
  BY <1>10, <1>11

LEMMA DmTurnStep ==
  ASSUME DmInv, DmTurn
  PROVE  /\ DmInv'
         /\ awareness <= 0 /\ awareness' > 0 => ~dmEngaged'
         /\ alert' = 3 => dmEngaged'
<1> USE DEF DmInv
<1>1. CASE UNCHANGED <<awareness, lastVision, lastWheel, policy, step, alert, filter, hiStds, face,
                       lowStd, distracted, uncertain, dmStreak, dmEngaged>>
           /\ alwaysOn' \in BOOLEAN
  <2>1. DmTypes'
    BY <1>1 DEF DmTypes
  <2>2. StreakInv' /\ (alert' = 3 => dmEngaged')
    BY <1>1 DEF StreakInv, Stays, Left
  <2>3. ~(awareness <= 0 /\ awareness' > 0)
    BY <1>1 DEF DmTypes
  <2> QED
    BY <2>1, <2>2, <2>3
<1>2. CASE UNCHANGED dmAll
  BY <1>1, <1>2 DEF dmAll, dmVars, DmTypes
<1>3. CASE ToggleAlwaysOn /\ UNCHANGED <<dmStreak, dmEngaged>>
  <2>1. alwaysOn' \in BOOLEAN
    BY <1>3, Zenon DEF ToggleAlwaysOn
  <2> QED
    BY <1>1, <1>3, <2>1 DEF ToggleAlwaysOn
<1>4. ASSUME NEW in \in DmInputs, DmFrame(in), dmEngaged' = in.engaged,
             dmStreak' = IF in.engaged /\ ~in.standstill /\ ~in.touching
                            /\ in.look \in {"hidden", "distracted"}
                         THEN LeastOf(dmStreak + 1, DmUnits + 1) ELSE 0
      PROVE  /\ DmInv'
             /\ awareness <= 0 /\ awareness' > 0 => ~dmEngaged'
             /\ alert' = 3 => dmEngaged'
  <2>1. dmStreak' \in 0 .. DmUnits + 1
    BY <1>4, DmUnitsFacts DEF LeastOf, DmTypes
  <2>2. /\ DmTypes'
        /\ awareness <= 0 /\ awareness' > 0 => ~dmEngaged'
        /\ alert' = 3 => dmEngaged'
    BY <1>4, <2>1, FrameTypes
  <2>3. StreakInv'
    <3>1. CASE in.engaged /\ ~in.standstill /\ ~in.touching /\ in.look \in {"hidden", "distracted"}
      BY <1>4, <2>2, <3>1, StreakStep
    <3>2. CASE ~(in.engaged /\ ~in.standstill /\ ~in.touching
                 /\ in.look \in {"hidden", "distracted"})
      BY <1>4, <3>2 DEF StreakInv
    <3> QED
      BY <3>1, <3>2
  <2> QED
    BY <2>2, <2>3
<1> QED
  BY <1>2, <1>3, <1>4 DEF DmTurn, DmObserved

LEMMA DmInvariance == PolicySpec => []DmInv
<1>1. PolicyInit => DmInv
  BY DmInitInv DEF PolicyInit
<1>2. DmInv /\ [PolicyNext]_policyVars => DmInv'
  BY Turns, DmTurnStep
<1> QED
  BY <1>1, <1>2, PTL DEF PolicySpec

(* A driver of an engaged, moving car who gives no sign of attention for   *)
(* DmUnits frames is alerted, however he alternates between looking away   *)
(* and being out of sight, for every length of the two policies' budgets.  *)
THEOREM DistractionBoundedSafe == PolicySpec => []DistractionBounded
<1>1. DmInv => DistractionBounded
  <2> SUFFICES ASSUME DmInv, dmStreak > DmUnits PROVE alert >= 2
    BY DEF DistractionBounded
  <2>1. dmStreak > 0
    BY DmUnitsFacts DEF DmInv, DmTypes
  <2>2. CASE Stays
    BY <2>1, <2>2 DEF DmInv, StreakInv
  <2>3. CASE ~Stays
    <3>1. Left + dmStreak <= 3 * Full + 1
      BY <2>1, <2>3 DEF DmInv, StreakInv
    <3>2. Left >= VisionAlert2 + 3 /\ Left \in Int
      BY <2>3, DmUnitsFacts DEF DmInv, DmTypes, Left, Stays, Policies
    <3> QED
      BY <3>1, <3>2, DmUnitsFacts DEF DmInv, DmTypes
  <2> QED
    BY <2>2, <2>3
<1> QED
  BY <1>1, DmInvariance, PTL

(* A red alert needs an engaged system, and only a frame of a disengaged   *)
(* one ends it, not a change of policy or a glance.                        *)
THEOREM RedHoldsSafe == PolicySpec => RedHolds
<1>1. DmInv /\ [PolicyNext]_policyVars
        => [/\ awareness <= 0 /\ awareness' > 0 => ~dmEngaged'
            /\ alert' = 3 => dmEngaged']_policyVars
  BY Turns, DmTurnStep
<1> QED
  BY <1>1, DmInvariance, PTL DEF PolicySpec, RedHolds
=============================================================================
