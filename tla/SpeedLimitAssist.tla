-------------------------- MODULE SpeedLimitAssist --------------------------
(***************************************************************************)
(* The speed limit assist: plannerd decides whether to follow the limit,   *)
(* and asks the driver; card holds the set speed, and takes the limit for  *)
(* it when plannerd says that it is followed.  They tell each other by     *)
(* messages that either may read late; both see the buttons.  On cars      *)
(* whose own cruise holds the set speed (pcm) card only passes it on.      *)
(*                                                                         *)
(* Speeds are rounded to the unit of the display; the limit includes the   *)
(* offset.  The frames that count are those of plannerd.                   *)
(***************************************************************************)
EXTENDS Integers

CONSTANTS
  Limits,      \* speed limits; 0 stands for none
  Cruises,     \* set speeds, from v_cruise_min to V_CRUISE_MAX
  Threshold,   \* CONFIRM_SPEED_THRESHOLD
  PcmLow, PcmHigh, \* PCM_LONG_REQUIRED_MAX_SET_SPEED
  HoldFrames,  \* CRUISE_BUTTON_CONFIRM_HOLD
  AskFrames,   \* PRE_ACTIVE_GUARD_PERIOD
  GuardFrames  \* DISABLED_GUARD_PERIOD

ASSUME AssistAssumption ==
  /\ Limits \subseteq Nat \ {0} /\ Cruises \subseteq Nat \ {0}
  /\ \E low, high \in Cruises : Cruises = low .. high
  /\ {PcmLow, PcmHigh} \subseteq Cruises /\ Threshold \in Nat
  /\ HoldFrames \in Nat /\ AskFrames \in Nat /\ GuardFrames \in Nat

VARIABLES
  pcm,         \* pcm_op_long
  assist,      \* SpeedLimitMode is assist
  engaged,     \* carControl.enabled
  sign,        \* resolver.speed_limit
  press,       \* the button event card gets next: "none", "plus", "minus"
  sla, guard, ask,  \* state, long_engaged_timer, pre_active_timer
  hold,        \* frames that _plus_hold and _minus_hold are from now
  signPrev, setPrev, engagedPrev,  \* speed_limit_prev, prev_v_cruise_cluster_conv, long_enabled_prev
  limit,       \* speed_limit_final_last
  told,        \* the state and the limit of the last longitudinalPlanSP
  set,         \* v_cruise_cluster
  cardSeen     \* prev_sla_state and prev_speed_limit_final_last of card

planVars == <<sla, guard, ask, signPrev, setPrev, engagedPrev, limit>>
slaVars == <<pcm, assist, engaged, sign, press, planVars, hold, told, set, cardSeen>>

Active == {"active", "adapting"}
Least(S) == CHOOSE x \in S : \A y \in S : x <= y
Most(S) == CHOOSE x \in S : \A y \in S : x >= y
Clip(v) == IF v < Least(Cruises) THEN Least(Cruises) ELSE IF v > Most(Cruises) THEN Most(Cruises) ELSE v
Dec(n) == IF n > 0 THEN n - 1 ELSE 0

SlaInit ==
  /\ pcm \in BOOLEAN /\ assist = TRUE /\ engaged = FALSE
  /\ sign = 0 /\ press = "none"
  /\ sla = "disabled" /\ guard = 0 /\ ask = 0 /\ hold = [plus |-> 0, minus |-> 0]
  /\ signPrev = 0 /\ setPrev = 0 /\ engagedPrev = FALSE /\ limit = 0
  /\ told = [state |-> "disabled", limit |-> 0] /\ cardSeen = told
  /\ set \in Cruises

-----------------------------------------------------------------------------
(* What a frame of plannerd reads.                                         *)
Limit == IF sign > 0 THEN sign ELSE limit    \* speed_limit_final_last
HasLimit == Limit > 0                        \* valid, or once valid
LimitChanged == HasLimit /\ sign # signPrev
SetChanged == set # setPrev
Target == IF ~pcm THEN Limit ELSE IF HasLimit /\ Limit < Threshold THEN PcmLow ELSE PcmHigh
Confirmed == set = Target

(* Mutant: only a low limit has to be confirmed. *)
MustAskLow == Limit < Threshold

MustAsk == set < Threshold \/ Limit < Threshold  \* apply_confirm_speed_threshold

(* _get_button_release; a button counts once.                              *)
Answer == IF set < Limit THEN "plus" ELSE "minus"
Answered == ~pcm /\ ~Confirmed /\ sla = "preActive" /\ set # Limit /\ hold[Answer] > 0
Passed == [b \in {"plus", "minus"} |-> Dec(hold[b])]
HoldAfter == IF Answered /\ engaged /\ assist THEN [Passed EXCEPT ![Answer] = 0] ELSE Passed

Accepted == Confirmed \/ Answered  \* _update_non_pcm_long_confirmed_state

To(s) == sla' = s /\ ask' = Dec(ask) /\ guard' = Dec(guard)
Asks == sla' = "preActive" /\ ask' = AskFrames /\ guard' = Dec(guard)
Follows ==  \* _update_confirmed_state
  IF ~pcm THEN To("active")
  ELSE IF ~HasLimit THEN To("pending")
  ELSE To("active") \/ To("adapting")  \* by the speed of the car

Ready == engaged /\ assist
FromAny == sla # "disabled" /\ ~Ready /\ To("disabled")

FromActive ==
  /\ sla \in Active /\ Ready
  /\ \/ SetChanged /\ To("inactive")
     \/ ~SetChanged /\ LimitChanged /\ MustAsk /\ Asks
     \/ ~SetChanged /\ ~(LimitChanged /\ MustAsk) /\ Follows

FromPreActive ==
  /\ sla = "preActive" /\ Ready
  /\ \/ Accepted /\ Follows
     \/ ~Accepted /\ Dec(ask) = 0 /\ To("inactive")
     \/ ~Accepted /\ Dec(ask) > 0 /\ To("preActive")

FromPending ==
  /\ sla = "pending" /\ Ready
  /\ \/ Confirmed /\ Follows
     \/ ~Confirmed /\ LimitChanged /\ Asks
     \/ ~Confirmed /\ ~LimitChanged /\ To("pending")

FromInactive ==
  /\ sla = "inactive" /\ Ready
  /\ \/ ~pcm /\ LimitChanged /\ Asks
     \/ ~pcm /\ ~LimitChanged /\ Accepted /\ Follows
     \/ (pcm \/ (~LimitChanged /\ ~Accepted)) /\ To("inactive")

FromDisabled ==
  /\ sla = "disabled"
  /\ \/ ~Ready /\ To("disabled")
     \/ Ready /\ (~engagedPrev \/ SetChanged) /\ sla' = sla /\ ask' = Dec(ask) /\ guard' = GuardFrames
     \/ /\ Ready /\ engagedPrev /\ ~SetChanged
        /\ \/ Dec(guard) > 0 /\ To("disabled")
           \/ Dec(guard) = 0 /\ Accepted /\ Follows
           \/ Dec(guard) = 0 /\ ~Accepted /\ HasLimit /\ Asks
           \/ Dec(guard) = 0 /\ ~Accepted /\ ~HasLimit /\ To(IF pcm THEN "pending" ELSE "inactive")

(* SpeedLimitAssist.update; its outcome is sent some time later.           *)
Plan ==
  /\ told = [state |-> sla, limit |-> limit]
  /\ FromAny \/ FromActive \/ FromPreActive \/ FromPending \/ FromInactive \/ FromDisabled
  /\ limit' = Limit /\ signPrev' = sign /\ setPrev' = set /\ engagedPrev' = engaged
  /\ hold' = HoldAfter
  /\ UNCHANGED <<pcm, assist, engaged, sign, press, told, set, cardSeen>>

(* card, five times as fast, reads every message.                         *)
Tell ==
  /\ pcm \/ cardSeen = told
  /\ told' = [state |-> sla, limit |-> limit]
  /\ told' # told
  /\ UNCHANGED <<pcm, assist, engaged, sign, press, planVars, hold, set, cardSeen>>

-----------------------------------------------------------------------------
(* card: a button changes the set speed, unless it answers the question.   *)
AsAnswer ==
  /\ "preActive" \in {told.state, cardSeen.state}
  /\ IF press = "plus" THEN set < told.limit ELSE set > told.limit

AfterPress ==
  IF press = "none" \/ ~engaged \/ AsAnswer THEN set
  ELSE Clip(IF press = "plus" THEN set + 1 ELSE set - 1)

(* Mutant: the set speed is taken again only when the limit changes. *)
TakesLimitOnChange == told.state \in Active /\ told.limit # cardSeen.limit

(* update_speed_limit_assist_v_cruise_non_pcm                              *)
TakesLimit == told.state \in Active /\ (cardSeen.state \notin Active \/ told.limit # cardSeen.limit)

Card ==
  /\ ~pcm
  /\ press # "none" \/ cardSeen # told
  /\ set' = IF TakesLimit THEN Clip(told.limit) ELSE AfterPress
  /\ cardSeen' = told
  /\ hold' = IF press = "none" THEN hold ELSE [hold EXCEPT ![press] = HoldFrames]
  /\ press' = "none"
  /\ UNCHANGED <<pcm, assist, engaged, sign, planVars, told>>

(* The car: its own cruise sets any speed; openpilot's starts at one.      *)
CarSets ==
  /\ pcm /\ set' \in Cruises
  /\ UNCHANGED <<pcm, assist, engaged, sign, press, planVars, hold, told, cardSeen>>

(* An engagement, and its end, last longer than a frame of plannerd.      *)
Engage ==
  /\ engaged' = ~engaged /\ engagedPrev = engaged
  /\ IF engaged' /\ ~pcm THEN set' \in Cruises ELSE UNCHANGED set
  /\ UNCHANGED <<pcm, assist, sign, press, planVars, hold, told, cardSeen>>

Press ==
  /\ ~pcm /\ press = "none" /\ press' \in {"plus", "minus"}
  /\ UNCHANGED <<pcm, assist, engaged, sign, planVars, hold, told, set, cardSeen>>

Sign ==
  /\ sign' \in Limits \cup {0}
  /\ UNCHANGED <<pcm, assist, engaged, press, planVars, hold, told, set, cardSeen>>

Toggle ==
  /\ assist' = ~assist
  /\ UNCHANGED <<pcm, engaged, sign, press, planVars, hold, told, set, cardSeen>>

Outside == CarSets \/ Engage \/ Press \/ Sign \/ Toggle
=============================================================================
