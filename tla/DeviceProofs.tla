---------------------------- MODULE DeviceProofs ----------------------------
(***************************************************************************)
(* Theorems about Device and DeviceChecks, for every table of processes.   *)
(***************************************************************************)
EXTENDS DeviceChecks, TLAPS

Stages == {"read", "clear", "flag", "stop", "signal", "reap", "off"}

TypeInv ==
  /\ ignition \in BOOLEAN /\ pandaIgn \in BOOLEAN /\ started \in BOOLEAN
  /\ mgr \in Stages /\ mgrStarted \in BOOLEAN /\ mgrPrev \in BOOLEAN
  /\ todo \subseteq Procs
  /\ proc \in [Procs -> {"none", "running", "exited"}]
  /\ shutting \in [Procs -> BOOLEAN]
  /\ alive \in [Procs -> {0, 1}]

(* What ensure_running leaves behind of a process it has come to.          *)
Settled(p) ==
  IF Wanted(p) THEN proc[p] # "none" /\ (proc[p] = "running" => ~shutting[p])
  ELSE proc[p] = "running" => shutting[p]

(* A round starts with every process, and settles one after the other.     *)
RoundInv ==
  /\ mgr \in {"clear", "flag"} => todo = Procs
  /\ mgr = "stop" => \A p \in Procs \ todo : Settled(p)
  /\ mgr = "read" => \A p \in Procs : Settled(p)

(* manager_cleanup has awaited the processes it has come to.               *)
CleanInv ==
  /\ mgr = "reap" => \A p \in Procs \ todo : proc[p] = "none"
  /\ mgr = "off" => \A p \in Procs : proc[p] = "none"

(* pandad goes on from its first step only for a drive it has seen begin   *)
(* and not configured for yet.                                             *)
PdInv ==
  /\ pd \in {"obd", "answer", "fetch", "set"} => ~pdConfigured /\ pdOnroad
  /\ pd \in {"answer", "fetch", "set"} => pdInit

IInv == TypeInv /\ NoOrphans /\ RoundInv /\ CleanInv /\ PdInv /\ ModeHeld
-----------------------------------------------------------------------------
(* What an operation of ManagerProcess does to its process; the others are *)
(* left alone.                                                             *)
ProcTypes ==
  /\ proc \in [Procs -> {"none", "running", "exited"}]
  /\ shutting \in [Procs -> BOOLEAN]
  /\ alive \in [Procs -> {0, 1}]

Only(p) ==
  \A q \in Procs : q # p => /\ proc'[q] = proc[q] /\ alive'[q] = alive[q]
                           /\ shutting'[q] = shutting[q]

LEMMA SignalProc ==
  ASSUME ProcTypes, NoOrphans, NEW p \in Procs, Signal(p)
  PROVE  ProcTypes' /\ NoOrphans' /\ Only(p) /\ shutting'[p]
<1>1. ProcTypes' /\ NoOrphans' /\ shutting'[p]
  BY DEF Signal, ProcTypes, NoOrphans
<1>2. Only(p)
  BY DEF Signal, ProcTypes, Only
<1> QED
  BY <1>1, <1>2

LEMMA KillProc ==
  ASSUME ProcTypes, NoOrphans, NEW p \in Procs, Kill(p)
  PROVE  ProcTypes' /\ NoOrphans' /\ Only(p) /\ proc'[p] = "none"
<1>1. proc' \in [Procs -> {"none", "running", "exited"}] /\ shutting' \in [Procs -> BOOLEAN]
      /\ proc'[p] = "none"
  BY DEF Kill, ProcTypes
<1>2. alive' \in [Procs -> {0, 1}] /\ alive'[p] = 0
  BY DEF Kill, ProcTypes, NoOrphans
<1>3. Only(p)
  BY DEF Kill, ProcTypes, Only
<1>4. NoOrphans'
  BY <1>1, <1>2, <1>3 DEF NoOrphans, Only
<1> QED
  BY <1>1, <1>2, <1>3, <1>4 DEF ProcTypes

(* start replaces an instance that is shutting down by a new one, and      *)
(* never has two.                                                          *)
LEMMA LaunchProc ==
  ASSUME ProcTypes, NoOrphans, NEW p \in Procs, Launch(p)
  PROVE  /\ ProcTypes' /\ NoOrphans' /\ Only(p)
         /\ proc'[p] # "none" /\ (proc'[p] = "running" => ~shutting'[p])
<1> DEFINE spawn == Replaced(p) \/ proc[p] = "none"
<1>1. CASE ~spawn
  BY <1>1 DEF Launch, procVars, ProcTypes, NoOrphans, Only, Replaced
<1>2. CASE spawn
  <2>1. Survivors(p) = 0
    BY <1>2 DEF Survivors, Replaced, NoOrphans, ProcTypes
  <2>2. /\ proc' = [proc EXCEPT ![p] = "running"] /\ alive' = [alive EXCEPT ![p] = 1]
        /\ shutting' = [shutting EXCEPT ![p] = FALSE]
    BY <1>2, <2>1 DEF Launch
  <2> QED
    BY <2>2 DEF ProcTypes, NoOrphans, Only
<1> QED
  BY <1>1, <1>2

LEMMA ExitProc ==
  ASSUME ProcTypes, NoOrphans, NEW p \in Procs, Exit(p)
  PROVE  ProcTypes' /\ NoOrphans' /\ Only(p) /\ proc[p] = "running" /\ proc'[p] = "exited"
<1>1. /\ proc[p] = "running" /\ proc' = [proc EXCEPT ![p] = "exited"]
      /\ alive' = [alive EXCEPT ![p] = 0] /\ shutting' = shutting
  <2>1. proc[p] = "running" /\ alive[p] = 1 /\ 1 - 1 = 0
    BY DEF Exit, NoOrphans
  <2>2. alive' = [alive EXCEPT ![p] = alive[p] - 1]
    BY DEF Exit
  <2> QED
    BY <2>1, <2>2 DEF Exit
<1> QED
  BY <1>1 DEF ProcTypes, NoOrphans, Only
-----------------------------------------------------------------------------
LEMMA InitInv == Init => IInv
<1> SUFFICES ASSUME Init PROVE IInv
  OBVIOUS
<1>1. TypeInv /\ NoOrphans
  BY DEF Init, TypeInv, NoOrphans, Stages
<1>2. RoundInv /\ CleanInv /\ PdInv /\ ModeHeld
  BY DEF Init, RoundInv, CleanInv, PdInv, ModeHeld
<1> QED
  BY <1>1, <1>2 DEF IInv

(* A round of the manager. *)
LEMMA MgrInv ==
  ASSUME IInv, MgrRead \/ MgrClear \/ MgrFlag \/ MgrNext \/ MgrShutdown
  PROVE  IInv'
<1> USE DEF IInv, car, procVars, pdVars, MgrRead, MgrClear, MgrFlag, MgrNext, MgrShutdown, NextStage
<1>1. TypeInv'
  BY DEF TypeInv, Stages
<1>2. (NoOrphans /\ PdInv /\ ModeHeld)'
  BY DEF NoOrphans, PdInv, ModeHeld
<1>3. (RoundInv /\ CleanInv)'
  BY DEF TypeInv, Stages, RoundInv, CleanInv, Settled, Wanted
<1> QED
  BY <1>1, <1>2, <1>3

(* One process of a stage. *)
LEMMA StageInv ==
  ASSUME IInv, NEW p \in Procs, MgrStop(p) \/ MgrStart(p) \/ MgrClean(p)
  PROVE  IInv'
<1> USE DEF IInv
<1>0. ProcTypes /\ NoOrphans
  BY DEF TypeInv, ProcTypes
<1>1. p \in todo /\ todo' = todo \ {p}
      /\ UNCHANGED <<car, mgr, mgrStarted, mgrPrev, pdVars>>
  BY DEF MgrStop, MgrStart, MgrClean
<1>2. (PdInv /\ ModeHeld)'
  BY <1>1 DEF PdInv, ModeHeld, pdVars
<1>3. \A q \in Procs : Wanted(q)' <=> Wanted(q)
  BY <1>1 DEF Wanted
<1>4. ASSUME ProcTypes', NoOrphans', Only(p),
             mgr = "stop" => Settled(p)', mgr = "reap" => proc'[p] = "none",
             mgr \in {"stop", "signal", "reap"}
      PROVE  IInv'
  <2>1. TypeInv'
    BY <1>1, <1>4 DEF TypeInv, ProcTypes, car
  <2>2. \A q \in Procs : q # p => (Settled(q)' <=> Settled(q))
    BY <1>3, <1>4 DEF Settled, Only
  <2>3. RoundInv'
    BY <1>1, <1>4, <2>2 DEF RoundInv
  <2>4. CleanInv'
    BY <1>1, <1>4 DEF CleanInv, Only
  <2> QED
    BY <1>2, <1>4, <2>1, <2>3, <2>4
<1>5. CASE MgrStart(p)
  <2>1. Launch(p) /\ Wanted(p) /\ mgr = "stop"
    BY <1>5 DEF MgrStart
  <2>2. Settled(p)'
    BY <1>0, <1>3, <2>1, LaunchProc DEF Settled
  <2> QED
    BY <1>0, <1>4, <2>1, <2>2, LaunchProc
<1>6. CASE MgrStop(p)
  <2>1. mgr = "stop" /\ ~Wanted(p) /\ (Signal(p) \/ Kill(p))
    BY <1>6 DEF MgrStop
  <2>2. ProcTypes' /\ NoOrphans' /\ Only(p) /\ (proc'[p] = "none" \/ shutting'[p])
    BY <1>0, <2>1, SignalProc, KillProc
  <2>3. Settled(p)'
    BY <1>3, <2>1, <2>2 DEF Settled
  <2> QED
    BY <1>4, <2>1, <2>2, <2>3
<1>7. CASE MgrClean(p)
  <2>1. mgr \in {"signal", "reap"} /\ (Kill(p) \/ (mgr = "signal" /\ Signal(p)))
    BY <1>7 DEF MgrClean
  <2>2. ProcTypes' /\ NoOrphans' /\ Only(p) /\ (mgr = "reap" => proc'[p] = "none")
    BY <1>0, <2>1, SignalProc, KillProc
  <2> QED
    BY <1>4, <2>1, <2>2
<1> QED
  BY <1>5, <1>6, <1>7

(* A process that ends by itself stays settled. *)
LEMMA ExitInv ==
  ASSUME IInv, NEW p \in Procs, Exit(p)
  PROVE  IInv'
<1> USE DEF IInv
<1>1. ProcTypes' /\ NoOrphans' /\ Only(p) /\ proc[p] = "running" /\ proc'[p] = "exited"
  BY ExitProc DEF TypeInv, ProcTypes
<1>2. UNCHANGED <<car, mgrVars, pdVars>>
  BY DEF Exit
<1>3. \A q \in Procs : Settled(q) => Settled(q)'
  BY <1>1, <1>2 DEF Settled, Wanted, mgrVars, Only
<1>4. TypeInv' /\ RoundInv' /\ CleanInv'
  BY <1>1, <1>2, <1>3 DEF TypeInv, ProcTypes, RoundInv, CleanInv, car, mgrVars, Only
<1>5. PdInv' /\ ModeHeld'
  BY <1>2 DEF PdInv, ModeHeld, pdVars
<1> QED
  BY <1>1, <1>4, <1>5

(* The car and card. *)
LEMMA OtherInv ==
  ASSUME IInv, UNCHANGED <<mgrVars, procVars, pdVars>>,
         (ignition \in BOOLEAN /\ pandaIgn \in BOOLEAN /\ started \in BOOLEAN)'
  PROVE  IInv'
<1> USE DEF IInv, mgrVars, procVars, pdVars
<1>1. TypeInv' /\ NoOrphans'
  BY DEF TypeInv, NoOrphans
<1>2. RoundInv' /\ CleanInv'
  BY DEF RoundInv, CleanInv, Settled, Wanted
<1>3. PdInv' /\ ModeHeld'
  BY DEF PdInv, ModeHeld
<1> QED
  BY <1>1, <1>2, <1>3

LEMMA PdStepInv ==
  ASSUME IInv, PdStep
  PROVE  IInv'
<1> USE DEF IInv
<1>1. UNCHANGED <<mgrVars, procVars, ignition, started>> /\ pandaIgn' \in BOOLEAN
  BY DEF PdStep, PdRead, PdObd, PdAnswer, PdFetch, PdSet, TypeInv, car
<1>2. TypeInv' /\ NoOrphans' /\ RoundInv' /\ CleanInv'
  BY <1>1 DEF mgrVars, procVars, TypeInv, NoOrphans, RoundInv, CleanInv, Settled, Wanted
<1>3. CASE PdRead
  BY <1>2, <1>3 DEF PdRead, ShouldCloseRelay, PdInv, ModeHeld
<1>4. CASE PdObd
  BY <1>2, <1>4 DEF PdObd, PdInv, ModeHeld
<1>5. CASE PdAnswer \/ PdFetch
  BY <1>2, <1>5 DEF PdAnswer, PdFetch, PdInv, ModeHeld
<1>6. CASE PdSet
  BY <1>2, <1>6 DEF PdSet, PdInv, ModeHeld
<1> QED
  BY <1>3, <1>4, <1>5, <1>6 DEF PdStep

LEMMA StepInv == IInv /\ [Next]_vars => IInv'
<1> SUFFICES ASSUME IInv, [Next]_vars PROVE IInv'
  OBVIOUS
<1>1. CASE Ignition \/ Hardwared \/ CardStep \/ UNCHANGED vars
  <2>1. UNCHANGED <<mgrVars, procVars, pdVars>>
    BY <1>1, Zenon DEF Ignition, Hardwared, CardStep, CardAsk, CardRemove, CardPut, CardAnswered,
       CardDone, CardParams, CardReady, vars
  <2>2. (ignition \in BOOLEAN /\ pandaIgn \in BOOLEAN /\ started \in BOOLEAN)'
    BY <1>1 DEF Ignition, Hardwared, CardStep, CardAsk, CardRemove, CardPut, CardAnswered,
       CardDone, CardParams, CardReady, vars, car, IInv, TypeInv
  <2> QED
    BY <2>1, <2>2, OtherInv
<1>2. CASE MgrStep \/ MgrShutdown
  BY <1>2, MgrInv, StageInv DEF MgrStep
<1>3. CASE (\E p \in Procs : Exit(p)) \/ PdStep
  BY <1>3, ExitInv, PdStepInv
<1> QED
  BY <1>1, <1>2, <1>3 DEF Next

LEMMA Invariance == Spec => []IInv
  BY InitInv, StepInv, PTL DEF Spec

(* The system runs one instance of each process the manager knows to run,  *)
(* and no other.                                                           *)
THEOREM NoOrphansSafe == Spec => []NoOrphans
<1>1. IInv => NoOrphans
  BY DEF IInv
<1> QED
  BY <1>1, Invariance, PTL

(* A round of ensure_running leaves no process behind, whatever exited or  *)
(* was shutting down meanwhile.                                            *)
THEOREM RoundCompleteSafe == Spec => []RoundComplete
<1>1. IInv => RoundComplete
  BY DEF IInv, RoundInv, Settled, RoundComplete
<1> QED
  BY <1>1, Invariance, PTL

(* When the manager is through with manager_cleanup nothing is alive.      *)
THEOREM EverythingDeadSafe == Spec => []EverythingDead
<1>1. IInv => EverythingDead
  BY DEF IInv, CleanInv, NoOrphans, EverythingDead
<1> QED
  BY <1>1, Invariance, PTL

(* The panda is in a car's safety mode only for a drive that pandad has    *)
(* configured and not seen end.                                            *)
THEOREM ModeHeldSafe == Spec => []ModeHeld
<1>1. IInv => ModeHeld
  BY DEF IInv
<1> QED
  BY <1>1, Invariance, PTL
=============================================================================
