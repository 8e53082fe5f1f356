-------------------------- MODULE HealthPotProofs --------------------------
(***************************************************************************)
(* Theorems about the health pot, for any times, any probe codes and any   *)
(* habits of the user: type correctness, then one inductive invariant per  *)
(* safety property.                                                        *)
(***************************************************************************)
EXTENDS HealthPot, TLAPS

-----------------------------------------------------------------------------
(* Constants and tables.                                                   *)

\* every limit is a positive number
LEMMA Times ==
  /\ Debounce \in Nat /\ Debounce > 0
  /\ TicksPerControl \in Nat /\ TicksPerControl > 0
  /\ ControlsPerSecond \in Nat /\ ControlsPerSecond > 0
  /\ DwellSeconds \in Nat /\ DwellSeconds > 0
  /\ CooldownSeconds \in Nat /\ CooldownSeconds > 0
  /\ RecoverTicks \in Nat /\ RecoverTicks > 0
  /\ BoilHoldTicks \in Nat /\ BoilHoldTicks > 0
  /\ OvertempSeconds \in Nat /\ OvertempSeconds > 0
  /\ DryFireSeconds \in Nat /\ DryFireSeconds > 0
  /\ BoilTimeout \in Nat /\ BoilTimeout > 0
  /\ SlopeWindow \in Nat /\ SlopeWindow > 0
  /\ SlopeArm \in Nat /\ SlopeArm > 0
  /\ GlitchTrip \in Nat /\ GlitchTrip > 0
  /\ HeatWrap \in Nat /\ HeatWrap > DryFireSeconds + 1
<1> QED BY RateAssumption, TimesAssumption, WidthAssumption

\* the prescaler of the one-second task is a positive number
LEMMA Prescaler == PassesPerSecond \in Nat /\ PassesPerSecond > 0
<1>1. \A a, b \in Nat : a > 0 /\ b > 0 => a * b \in Nat /\ a * b > 0
  OBVIOUS
<1> QED BY <1>1, Times DEF PassesPerSecond

\* the tables FUNC steps through
LEMMA Modes ==
  /\ \A m \in {55, 80, 100} :
       NextMode[m] \in {55, 80, 100} /\ Preset[m] \in {55, 60, 80, 90}
  /\ \A w \in {55, 60, 80} : NextWarm[w] \in {55, 60, 80, 90}
<1> QED BY DEF NextMode, Preset, NextWarm, WarmDefault

\* the code the model takes for RAM without power is a code of the probe
LEMMA AnyCodeIsCode == AnyCode \in Codes
<1> QED BY CodesAssumption DEF AnyCode

-----------------------------------------------------------------------------
(* Types.                                                                  *)

\* The counters that trip a limit stay one step below it while it can trip.
TypeInv ==
  /\ TypeOK
  /\ recover < RecoverTicks
  /\ state = "HEAT" => boilHold < BoilHoldTicks /\ glitch < GlitchTrip
  /\ state \in {"HEAT", "WARM"} => overtemp < OvertempSeconds

\* the latches
BoolType ==
  /\ muted \in BOOLEAN /\ heaterOn \in BOOLEAN /\ pin \in BOOLEAN
  /\ boilConfirm \in BOOLEAN /\ counted \in BOOLEAN /\ boiled \in BOOLEAN

\* every step keeps the flags Boolean
LEMMA BoolNext == BoolType /\ [Next]_vars => BoolType'
<1> SUFFICES ASSUME BoolType, [Next]_vars PROVE BoolType'
  OBVIOUS
<1> USE DEF BoolType, thermo, boilVars, slopeVars, keyVars, histVars
<1>1. CASE KeyStep
  <2>1. CASE Scan \/ FuncOff \/ FuncWarm \/ FuncReboil \/ FuncRefused \/ OnRefused
    <3>1. CASE Scan
      BY <3>1, Zenon DEF Scan
    <3>2. CASE FuncOff \/ FuncWarm
      BY <3>2, Zenon DEF FuncOff, FuncWarm, Press
    <3>3. CASE FuncReboil
      BY <3>3, Zenon DEF FuncReboil, Press
    <3>4. CASE FuncRefused \/ OnRefused
      BY <3>4, Zenon DEF FuncRefused, OnRefused, Press
    <3> QED BY <2>1, <3>1, <3>2, <3>3, <3>4
  <2>2. CASE FuncHeat
    BY <2>2, Zenon DEF FuncHeat, TargetReached, Press
  <2>3. CASE OnBadProbe \/ OnStart \/ OffPress
    BY <2>3, Zenon DEF OnBadProbe, OnStart, OffPress, EnterFault, Press
  <2>4. CASE Acknowledge
    BY <2>4, Zenon DEF Acknowledge, Press
  <2> QED BY <1>1, <2>1, <2>2, <2>3, <2>4 DEF KeyStep
<1>2. CASE ControlStep
  <2>1. PICK c \in Codes :
          \/ ControlBadProbe(c) \/ ControlOff(c) \/ ControlHeatDirect(c)
          \/ ControlHeatBoil(c) \/ ControlWarm(c) \/ ControlFault(c)
    BY <1>2 DEF ControlStep
  <2>2. CASE ControlBadProbe(c) \/ ControlOff(c) \/ ControlWarm(c)
    BY <2>2, Zenon DEF ControlBadProbe, ControlOff, ControlWarm, Sample
  <2>3. CASE ControlHeatDirect(c)
    BY <2>3, Zenon DEF ControlHeatDirect, Sample, TargetReached, Reclose
  <2>4. CASE ControlHeatBoil(c)
    BY <2>4, Zenon DEF ControlHeatBoil, Sample, TargetReached, Reclose
  <2>5. CASE ControlFault(c)
    BY <2>5, Zenon DEF ControlFault, Sample
  <2> QED BY <2>1, <2>2, <2>3, <2>4, <2>5
<1>3. CASE SecondStep
  <2>1. CASE SecondTask
    BY <2>1, Zenon DEF SecondTask, EnterFault
  <2>2. CASE SlopeIdle \/ SlopeUpset \/ SlopeGlitch \/ SlopeClean
    BY <2>2, Zenon DEF SlopeIdle, SlopeUpset, SlopeGlitch, SlopeClean, SlopeStep, EnterFault
  <2> QED BY <1>3, <2>1, <2>2 DEF SecondStep
<1>4. CASE Refresh
  BY <1>4, Zenon DEF Refresh, RelayOutput
<1>5. CASE PowerStep
  BY <1>5, Zenon DEF PowerStep, PowerFail, PowerUp
<1>6. CASE UNCHANGED vars
  BY <1>6 DEF vars
<1> QED BY <1>1, <1>2, <1>3, <1>4, <1>5, <1>6 DEF Next, LoopStep

\* the debounced keys keep their types
LEMMA ScanType ==
  ASSUME TypeOK, NEW k \in Keys, NEW down \in BOOLEAN
  PROVE  /\ ScanKey(k, down).held \in BOOLEAN
         /\ ScanKey(k, down).against \in 0 .. Debounce - 1
         /\ ScanKey(k, down).evt \in BOOLEAN
<1>1. /\ held[k] \in BOOLEAN /\ against[k] \in 0 .. Debounce - 1
      /\ evt[k] \in BOOLEAN
  BY DEF TypeOK
<1>2. CASE down = held[k]
  BY <1>1, <1>2, Times DEF ScanKey
<1>3. CASE down # held[k] /\ against[k] + 1 >= Debounce
  BY <1>1, <1>3, Times DEF ScanKey
<1>4. CASE down # held[k] /\ ~(against[k] + 1 >= Debounce)
  BY <1>1, <1>4, Times DEF ScanKey
<1> QED BY <1>2, <1>3, <1>4

\* a new heating window keeps the types of the slope detector
LEMMA WindowType ==
  TypeOK /\ SlopeReset => /\ ring' \in [0 .. SlopeWindow - 1 -> Codes]
                          /\ slot' \in 0 .. SlopeWindow - 1
                          /\ prev' \in Codes
                          /\ valid' \in 0 .. SlopeWindow
<1> QED BY Times DEF TypeOK, SlopeReset

\* every fault keeps the types of the state machine
LEMMA FaultType ==
  ASSUME TypeInv, NEW code \in 0 .. 4, EnterFault(code)
  PROVE  /\ cooldown' \in 0 .. CooldownSeconds /\ state' = "FAULT"
         /\ heaterOn' = FALSE /\ fault' \in 0 .. 4
         /\ recover' \in 0 .. RecoverTicks - 1
<1> QED BY Times DEF TypeInv, TypeOK, EnterFault, Latch

\* the reset state has the strict types
LEMMA TypeInit == Init => TypeInv
<1> SUFFICES ASSUME Init PROVE TypeInv
  OBVIOUS
<1>1. BoolType
  BY Zenon DEF Init, BoolType
<1>2. /\ held \in [Keys -> BOOLEAN] /\ against \in [Keys -> 0 .. Debounce - 1]
      /\ evt \in [Keys -> BOOLEAN]
  BY Times DEF Init
<1> QED BY <1>1, <1>2, Times, Prescaler, AnyCodeIsCode
        DEF Init, TypeInv, TypeOK, BoolType, WarmDefault

\* handling the keys keeps the strict types
LEMMA TypeKey == TypeInv /\ KeyStep => TypeInv'
<1> SUFFICES ASSUME TypeInv, KeyStep PROVE TypeInv'
  OBVIOUS
<1>0. BoolType'
  BY BoolNext DEF TypeInv, TypeOK, BoolType, Next, LoopStep
<1> USE Times DEF TypeOK, TypeInv, BoolType
<1>1. CASE Scan
  <2>1. PICK grip \in Grips :
          /\ held' = [k \in Keys |-> ScanKey(k, k \in grip).held]
          /\ against' = [k \in Keys |-> ScanKey(k, k \in grip).against]
          /\ evt' = [k \in Keys |-> ScanKey(k, k \in grip).evt]
    BY <1>1 DEF Scan
  <2>2. /\ held' \in [Keys -> BOOLEAN] /\ against' \in [Keys -> 0 .. Debounce - 1]
        /\ evt' \in [Keys -> BOOLEAN]
    <3>1. ASSUME NEW k \in Keys
          PROVE  /\ ScanKey(k, k \in grip).held \in BOOLEAN
                 /\ ScanKey(k, k \in grip).against \in 0 .. Debounce - 1
                 /\ ScanKey(k, k \in grip).evt \in BOOLEAN
      <4>1. (k \in grip) \in BOOLEAN
        OBVIOUS
      <4> HIDE DEF TypeOK, TypeInv
      <4>2. TypeOK
        BY DEF TypeInv
      <4> QED BY <4>1, <4>2, ScanType, Zenon
    <3> QED BY <2>1, <3>1
  <2>3. pc' \in {"func", "onoff", "control", "refresh"}
    BY <1>1 DEF Scan, AfterScan, Tasks
  <2> QED BY <1>0, <1>1, <2>2, <2>3 DEF Scan, thermo, boilVars, slopeVars, histVars
<1>2. ASSUME NEW k \in Keys, Press(k)
      PROVE  /\ pc' \in {"onoff", "control", "refresh"}
             /\ evt' \in [Keys -> BOOLEAN]
             /\ div' \in 0 .. PassesPerSecond - 1 /\ adc' = adc /\ adc' \in Codes
             /\ relayOff' \in 0 .. DwellSeconds /\ offSec' \in 0 .. DwellSeconds
             /\ held' \in [Keys -> BOOLEAN] /\ against' \in [Keys -> 0 .. Debounce - 1]
             /\ rest' \in 0 .. CooldownSeconds
  BY <1>2 DEF Press, Tasks
<1>3. Keys = {"func", "onoff"}
  BY DEF Keys
<1>4. CASE FuncOff
  <2>1. /\ Press("func") /\ heatMode' = NextMode[heatMode]
        /\ UNCHANGED <<thermo, muted, warmSet, boilVars, overtemp, heatSec, slopeVars,
                       glitch, coldSec, boiled>>
    BY <1>4 DEF FuncOff
  <2>2. heatMode' \in {55, 80, 100}
    BY <2>1, Modes
  <2> QED BY <1>0, <1>2, <1>3, <2>1, <2>2 DEF thermo, boilVars, slopeVars
<1>5. CASE FuncHeat
  <2>1. /\ state' \in {"HEAT", "WARM"} /\ boilHold' \in 0 .. BoilHoldTicks - 1
        /\ overtemp' \in 0 .. OvertempSeconds - 1
    BY <1>5 DEF FuncHeat, TargetReached, boilVars
  <2>2. heatMode' \in {55, 80, 100} /\ warmSet' \in {55, 60, 80, 90}
    BY <1>5, Modes DEF FuncHeat
  <2>3. /\ SlopeReset /\ heatSec' = 0 /\ glitch' = 0 /\ coldSec' = 0
        /\ UNCHANGED <<fault, recover, cooldown, muted, boiled>>
    BY <1>5 DEF FuncHeat, NewWindow
  <2>4. Press("func")
    BY <1>5 DEF FuncHeat
  <2>5. /\ ring' \in [0 .. SlopeWindow - 1 -> Codes] /\ slot' \in 0 .. SlopeWindow - 1
        /\ prev' \in Codes /\ valid' \in 0 .. SlopeWindow
    BY <2>3, WindowType
  <2>6. /\ state' \in {"OFF", "HEAT", "WARM", "FAULT"} /\ boilHold' \in 0 .. BoilHoldTicks
        /\ overtemp' \in 0 .. OvertempSeconds /\ fault' \in 0 .. 4
        /\ recover' \in 0 .. RecoverTicks /\ cooldown' \in 0 .. CooldownSeconds
        /\ heatSec' \in 0 .. HeatWrap - 1 /\ glitch' \in 0 .. GlitchTrip /\ coldSec' \in Nat
    BY <2>1, <2>3
  <2>7. TypeOK'
    <3> HIDE DEF TypeInv
    <3> QED BY <1>0, <1>2, <1>3, <2>2, <2>4, <2>5, <2>6
  <2>8. recover' < RecoverTicks /\ glitch' < GlitchTrip
    BY <2>3
  <2> HIDE DEF TypeOK
  <2> QED BY <2>1, <2>7, <2>8
<1>6. CASE FuncWarm
  <2>1. Press("func") /\ warmSet' = NextWarm[warmSet] /\ warmSet # 90
        /\ UNCHANGED <<thermo, muted, heatMode, boilVars, overtemp, heatSec, slopeVars,
                       glitch, coldSec, boiled>>
    BY <1>6 DEF FuncWarm
  <2>2. warmSet' \in {55, 60, 80, 90}
    BY <2>1, Modes
  <2> QED BY <1>0, <1>2, <1>3, <2>1, <2>2 DEF thermo, boilVars, slopeVars
<1>7. CASE FuncReboil
  <2>1. /\ Press("func") /\ state' = "HEAT" /\ heatMode' = 100 /\ warmSet' = WarmDefault
        /\ boilHold' = 0 /\ overtemp' = 0 /\ heatSec' = 0 /\ glitch' = 0 /\ coldSec' = 0
        /\ SlopeReset /\ fault' = fault /\ recover' = recover /\ cooldown' = cooldown
    BY <1>7 DEF FuncReboil, NewWindow
  <2>2. /\ ring' \in [0 .. SlopeWindow - 1 -> Codes] /\ slot' \in 0 .. SlopeWindow - 1
        /\ prev' \in Codes /\ valid' \in 0 .. SlopeWindow
    BY <2>1, WindowType
  <2>3. /\ heatMode' \in {55, 80, 100} /\ warmSet' \in {55, 60, 80, 90}
        /\ boilHold' \in 0 .. BoilHoldTicks - 1 /\ overtemp' \in 0 .. OvertempSeconds - 1
        /\ heatSec' \in 0 .. HeatWrap - 1 /\ glitch' \in 0 .. GlitchTrip - 1
    BY <2>1 DEF WarmDefault
  <2>4. TypeOK'
    <3>1. /\ state' \in {"OFF", "HEAT", "WARM", "FAULT"} /\ fault' \in 0 .. 4
          /\ recover' \in 0 .. RecoverTicks /\ cooldown' \in 0 .. CooldownSeconds
          /\ boilHold' \in 0 .. BoilHoldTicks /\ overtemp' \in 0 .. OvertempSeconds
          /\ glitch' \in 0 .. GlitchTrip /\ coldSec' \in Nat
      BY <2>1, <2>3
    <3> HIDE DEF TypeInv
    <3> QED BY <1>0, <1>2, <1>3, <2>1, <2>2, <2>3, <3>1
  <2> HIDE DEF TypeOK
  <2> QED BY <2>1, <2>3, <2>4
<1>8. CASE FuncRefused
  BY <1>0, <1>2, <1>3, <1>8 DEF FuncRefused, thermo, boilVars, slopeVars
<1>9. CASE OnRefused
  BY <1>0, <1>2, <1>3, <1>9 DEF OnRefused, thermo, boilVars, slopeVars
<1>10. CASE OnBadProbe
  <2>1. ProbeCode(adc) \in 0 .. 4
    BY DEF ProbeCode
  <2>2. EnterFault(ProbeCode(adc))
    BY <1>10 DEF OnBadProbe
  <2>3. /\ cooldown' \in 0 .. CooldownSeconds /\ state' = "FAULT"
        /\ fault' \in 0 .. 4 /\ recover' \in 0 .. RecoverTicks - 1
    BY <2>1, <2>2, FaultType
  <2>4. /\ Press("onoff")
        /\ UNCHANGED <<warmSet, heatMode, boilVars, overtemp, heatSec, slopeVars, glitch, coldSec>>
    BY <1>10 DEF OnBadProbe
  <2>5. recover' < RecoverTicks /\ state' = "FAULT"
    BY <2>3
  <2>6. TypeOK'
    <3>1. /\ warmSet' \in {55, 60, 80, 90} /\ heatMode' \in {55, 80, 100}
          /\ boilHold' \in 0 .. BoilHoldTicks /\ overtemp' \in 0 .. OvertempSeconds
          /\ heatSec' \in 0 .. HeatWrap - 1 /\ glitch' \in 0 .. GlitchTrip /\ coldSec' \in Nat
      BY <2>4 DEF boilVars
    <3>2. /\ ring' \in [0 .. SlopeWindow - 1 -> Codes] /\ slot' \in 0 .. SlopeWindow - 1
          /\ prev' \in Codes /\ valid' \in 0 .. SlopeWindow
      BY <2>4 DEF slopeVars
    <3>3. state' \in {"OFF", "HEAT", "WARM", "FAULT"} /\ recover' \in 0 .. RecoverTicks
      BY <2>3
    <3> HIDE DEF TypeInv
    <3> QED BY <1>0, <1>2, <1>3, <2>3, <2>4, <3>1, <3>2, <3>3
  <2> HIDE DEF TypeOK
  <2> QED BY <2>5, <2>6
<1>11. CASE OnStart
  <2>1. warmSet' \in {55, 60, 80, 90}
    BY <1>11, Modes DEF OnStart
  <2>2. /\ Press("onoff") /\ state' = "HEAT" /\ fault' = 0 /\ boilHold' = 0
        /\ overtemp' = 0 /\ SlopeReset /\ heatSec' = 0 /\ glitch' = 0 /\ coldSec' = 0
        /\ UNCHANGED <<recover, heaterOn, cooldown, heatMode>>
    BY <1>11 DEF OnStart, NewWindow
  <2>3. /\ ring' \in [0 .. SlopeWindow - 1 -> Codes] /\ slot' \in 0 .. SlopeWindow - 1
        /\ prev' \in Codes /\ valid' \in 0 .. SlopeWindow
    BY <2>2, WindowType
  <2>4. /\ boilHold' \in 0 .. BoilHoldTicks - 1 /\ overtemp' \in 0 .. OvertempSeconds - 1
        /\ heatSec' \in 0 .. HeatWrap - 1 /\ glitch' \in 0 .. GlitchTrip - 1
    BY <2>2
  <2>5. TypeOK'
    <3>1. /\ state' \in {"OFF", "HEAT", "WARM", "FAULT"} /\ fault' \in 0 .. 4
          /\ recover' \in 0 .. RecoverTicks /\ cooldown' \in 0 .. CooldownSeconds
          /\ boilHold' \in 0 .. BoilHoldTicks /\ overtemp' \in 0 .. OvertempSeconds
          /\ heatMode' \in {55, 80, 100} /\ glitch' \in 0 .. GlitchTrip /\ coldSec' \in Nat
      BY <2>2, <2>4
    <3> HIDE DEF TypeInv
    <3> QED BY <1>0, <1>2, <1>3, <2>1, <2>2, <2>3, <2>4, <3>1
  <2> HIDE DEF TypeOK
  <2> QED BY <2>2, <2>4, <2>5
<1>12. CASE OffPress
  BY <1>0, <1>2, <1>3, <1>12 DEF OffPress, slopeVars
<1>13. CASE Acknowledge
  <2>1. /\ Press("onoff") /\ state' = "OFF" /\ heatMode' = 100 /\ fault' \in {fault, 0}
        /\ recover' \in {recover, 0} /\ heatSec' \in {heatSec, 0}
        /\ overtemp' \in {overtemp, 0} /\ boilHold' = boilHold
        /\ UNCHANGED <<cooldown, warmSet, ring, slot, prev, valid, glitch, coldSec>>
    BY <1>13 DEF Acknowledge, boilVars, slopeVars
  <2>2. /\ fault' \in 0 .. 4 /\ recover' \in 0 .. RecoverTicks - 1
        /\ heatSec' \in 0 .. HeatWrap - 1 /\ overtemp' \in 0 .. OvertempSeconds
    BY <2>1
  <2>3. TypeOK'
    <3>1. /\ state' \in {"OFF", "HEAT", "WARM", "FAULT"} /\ heatMode' \in {55, 80, 100}
          /\ recover' \in 0 .. RecoverTicks /\ boilHold' \in 0 .. BoilHoldTicks
      BY <2>1, <2>2
    <3>2. /\ warmSet' \in {55, 60, 80, 90} /\ cooldown' \in 0 .. CooldownSeconds
          /\ ring' \in [0 .. SlopeWindow - 1 -> Codes] /\ slot' \in 0 .. SlopeWindow - 1
          /\ prev' \in Codes /\ valid' \in 0 .. SlopeWindow
          /\ glitch' \in 0 .. GlitchTrip /\ coldSec' \in Nat
      BY <2>1
    <3> HIDE DEF TypeInv
    <3> QED BY <1>0, <1>2, <1>3, <2>1, <2>2, <3>1, <3>2
  <2>4. recover' < RecoverTicks /\ state' = "OFF"
    BY <2>1, <2>2
  <2> QED BY <2>3, <2>4 DEF TypeInv
<1> QED BY <1>1, <1>4, <1>5, <1>6, <1>7, <1>8, <1>9, <1>10, <1>11, <1>12, <1>13
        DEF KeyStep

\* the control task keeps the strict types
LEMMA TypeControl == TypeInv /\ ControlStep => TypeInv'
<1> SUFFICES ASSUME TypeInv, NEW c \in Codes,
                    \/ ControlBadProbe(c) \/ ControlOff(c) \/ ControlHeatDirect(c)
                    \/ ControlHeatBoil(c) \/ ControlWarm(c) \/ ControlFault(c)
             PROVE  TypeInv'
  BY DEF ControlStep
<1>0. BoolType'
  BY BoolNext DEF TypeInv, TypeOK, BoolType, Next, LoopStep, ControlStep
<1> USE Times DEF TypeOK, TypeInv, BoolType
<1>1. ASSUME Sample(c)
      PROVE  /\ pc' \in {"second", "refresh"} /\ adc' \in Codes
             /\ UNCHANGED <<div, heatMode, pin, relayOff, cooldown, slopeVars, glitch,
                            keyVars, offSec, counted, rest, coldSec>>
  BY <1>1 DEF Sample, AfterControl
<1>2. Sample(c)
  BY DEF ControlBadProbe, ControlOff, ControlHeatDirect, ControlHeatBoil, ControlWarm,
         ControlFault
<1> USE DEF slopeVars, keyVars
<1>a. /\ pc' \in {"second", "refresh"} /\ adc' \in Codes
      /\ div' \in 0 .. PassesPerSecond - 1 /\ heatMode' \in {55, 80, 100}
      /\ relayOff' \in 0 .. DwellSeconds /\ cooldown' \in 0 .. CooldownSeconds
      /\ ring' \in [0 .. SlopeWindow - 1 -> Codes] /\ slot' \in 0 .. SlopeWindow - 1
      /\ prev' \in Codes /\ glitch' \in 0 .. GlitchTrip /\ valid' \in 0 .. SlopeWindow
      /\ held' \in [Keys -> BOOLEAN] /\ against' \in [Keys -> 0 .. Debounce - 1]
      /\ evt' \in [Keys -> BOOLEAN] /\ offSec' \in 0 .. DwellSeconds
      /\ rest' \in 0 .. CooldownSeconds /\ coldSec' \in Nat
  BY <1>1, <1>2
<1>3. CASE ControlBadProbe(c)
  <2>1. /\ state' = "FAULT" /\ recover' = 0 /\ fault' = Latch(ProbeCode(c))
        /\ UNCHANGED <<warmSet, boilVars, overtemp, heatSec>>
    BY <1>3 DEF ControlBadProbe
  <2>2. fault' \in 0 .. 4
    BY <2>1 DEF Latch, ProbeCode
  <2>3. TypeOK'
    <3>1. /\ state' \in {"OFF", "HEAT", "WARM", "FAULT"} /\ recover' \in 0 .. RecoverTicks
          /\ warmSet' \in {55, 60, 80, 90} /\ boilHold' \in 0 .. BoilHoldTicks
          /\ overtemp' \in 0 .. OvertempSeconds /\ heatSec' \in 0 .. HeatWrap - 1
      BY <2>1 DEF boilVars
    <3> HIDE DEF TypeInv
    <3> QED BY <1>0, <1>a, <2>2, <3>1
  <2> HIDE DEF TypeOK
  <2> QED BY <2>1, <2>3
<1>4. CASE ControlOff(c)
  BY <1>0, <1>1, <1>2, <1>4 DEF ControlOff, ProbeCode
<1>5. CASE ControlHeatDirect(c)
  <2>1. /\ state' \in {"HEAT", "WARM"} /\ boilHold' \in 0 .. BoilHoldTicks - 1
        /\ overtemp' \in 0 .. OvertempSeconds - 1 /\ warmSet' \in {55, 60, 80, 90}
    BY <1>5 DEF ControlHeatDirect, TargetReached, Reclose, boilVars
  <2>2. recover' = 0 /\ state = "HEAT" /\ UNCHANGED <<fault, muted, heatSec>>
    BY <1>5 DEF ControlHeatDirect
  <2>3. TypeOK'
    <3>1. /\ state' \in {"OFF", "HEAT", "WARM", "FAULT"} /\ recover' \in 0 .. RecoverTicks
          /\ boilHold' \in 0 .. BoilHoldTicks /\ overtemp' \in 0 .. OvertempSeconds
          /\ fault' \in 0 .. 4 /\ heatSec' \in 0 .. HeatWrap - 1
      BY <2>1, <2>2
    <3> HIDE DEF TypeInv
    <3> QED BY <1>0, <1>a, <2>1, <3>1
  <2> QED BY <1>1, <1>2, <2>1, <2>2, <2>3
<1>6. CASE ControlHeatBoil(c)
  <2>1. /\ state' \in {"HEAT", "WARM"} /\ overtemp' \in 0 .. OvertempSeconds - 1
    BY <1>6 DEF ControlHeatBoil, TargetReached, Reclose, boilVars
  <2>2. boilHold' \in 0 .. BoilHoldTicks /\ (state' = "HEAT" => boilHold' < BoilHoldTicks)
    BY <1>6 DEF ControlHeatBoil, TargetReached, boilVars
  <2>3. recover' = 0 /\ state = "HEAT" /\ UNCHANGED <<fault, muted, warmSet, heatSec>>
    BY <1>6 DEF ControlHeatBoil
  <2>4. TypeOK'
    <3>1. /\ state' \in {"OFF", "HEAT", "WARM", "FAULT"} /\ recover' \in 0 .. RecoverTicks
          /\ overtemp' \in 0 .. OvertempSeconds /\ warmSet' \in {55, 60, 80, 90}
          /\ fault' \in 0 .. 4 /\ heatSec' \in 0 .. HeatWrap - 1
      BY <2>1, <2>3
    <3> HIDE DEF TypeInv
    <3> QED BY <1>0, <1>a, <2>2, <3>1
  <2> QED BY <1>1, <1>2, <2>1, <2>2, <2>3, <2>4
<1>7. CASE ControlWarm(c)
  <2>1. /\ recover' = 0
        /\ UNCHANGED <<state, fault, muted, warmSet, boilVars, overtemp, heatSec, boiled>>
    BY <1>7 DEF ControlWarm
  <2>2. TypeOK'
    <3>1. /\ state' \in {"OFF", "HEAT", "WARM", "FAULT"} /\ fault' \in 0 .. 4
          /\ recover' \in 0 .. RecoverTicks
          /\ warmSet' \in {55, 60, 80, 90} /\ boilHold' \in 0 .. BoilHoldTicks
          /\ overtemp' \in 0 .. OvertempSeconds /\ heatSec' \in 0 .. HeatWrap - 1
      BY <2>1 DEF boilVars
    <3> HIDE DEF TypeInv
    <3> QED BY <1>0, <1>a, <3>1
  <2>3. /\ recover' < RecoverTicks
        /\ state' = "HEAT" => boilHold' < BoilHoldTicks /\ glitch' < GlitchTrip
        /\ state' \in {"HEAT", "WARM"} => overtemp' < OvertempSeconds
    BY <1>1, <1>2, <2>1 DEF boilVars
  <2> HIDE DEF TypeOK
  <2> QED BY <2>2, <2>3
<1>8. CASE ControlFault(c)
  <2>1. /\ state = "FAULT" /\ state' \in {"FAULT", "OFF"}
        /\ fault' \in {fault, 0} /\ muted' \in {muted, FALSE}
        /\ UNCHANGED <<warmSet, boilVars, overtemp, heatSec, boiled>>
    BY <1>8 DEF ControlFault
  <2>2. recover' \in 0 .. RecoverTicks - 1
    BY <1>8 DEF ControlFault
  <2>3. TypeOK'
    <3>1. /\ state' \in {"OFF", "HEAT", "WARM", "FAULT"} /\ fault' \in 0 .. 4
          /\ recover' \in 0 .. RecoverTicks
          /\ warmSet' \in {55, 60, 80, 90} /\ boilHold' \in 0 .. BoilHoldTicks
          /\ overtemp' \in 0 .. OvertempSeconds /\ heatSec' \in 0 .. HeatWrap - 1
      BY <2>1, <2>2 DEF boilVars
    <3> HIDE DEF TypeInv
    <3> QED BY <1>0, <1>a, <3>1
  <2>4. recover' < RecoverTicks /\ state' \notin {"HEAT", "WARM"}
    BY <2>1, <2>2
  <2> HIDE DEF TypeOK
  <2> QED BY <2>3, <2>4
<1> QED BY <1>3, <1>4, <1>5, <1>6, <1>7, <1>8

\* the one-second task and its slope detector keep the strict types
LEMMA TypeSecond == TypeInv /\ SecondStep => TypeInv'
<1> SUFFICES ASSUME TypeInv, SecondStep PROVE TypeInv'
  OBVIOUS
<1>0. BoolType'
  BY BoolNext DEF TypeInv, TypeOK, BoolType, Next, LoopStep
<1> USE Times DEF TypeOK, TypeInv, BoolType, slopeVars, keyVars, boilVars
<1>1. CASE SecondTask
  <2>1. /\ relayOff' \in 0 .. DwellSeconds /\ offSec' \in 0 .. DwellSeconds
    BY <1>1 DEF SecondTask, DwellTime, Smaller
  <2>2. CASE BeyondScale /\ overtemp + 1 >= OvertempSeconds
    <3>1. EnterFault(4) /\ overtemp' = overtemp + 1 /\ rest' = 0
      BY <1>1, <2>2 DEF SecondTask
    <3>2. /\ cooldown' \in 0 .. CooldownSeconds /\ state' = "FAULT"
          /\ fault' \in 0 .. 4 /\ recover' \in 0 .. RecoverTicks - 1
      BY <3>1 DEF EnterFault, Latch
    <3>3. overtemp' \in 0 .. OvertempSeconds
      BY <3>1, <2>2 DEF BeyondScale
    <3> QED BY <1>0, <1>1, <2>1, <3>1, <3>2, <3>3 DEF SecondTask
  <2>3. CASE ~(BeyondScale /\ overtemp + 1 >= OvertempSeconds)
    <3>1. /\ cooldown' = Countdown /\ rest' = Smaller(rest + 1, CooldownSeconds)
          /\ overtemp' = IF BeyondScale THEN overtemp + 1 ELSE 0
          /\ UNCHANGED <<state, fault, recover, heaterOn>>
      BY <1>1, <2>3 DEF SecondTask
    <3>2. /\ cooldown' \in 0 .. CooldownSeconds /\ rest' \in 0 .. CooldownSeconds
      BY <3>1 DEF Countdown, Smaller
    <3>3. overtemp' \in 0 .. OvertempSeconds - 1
      BY <3>1, <2>3 DEF BeyondScale
    <3> QED BY <1>0, <1>1, <2>1, <3>1, <3>2, <3>3 DEF SecondTask
  <2> QED BY <2>2, <2>3
<1>2. coldSec + 1 \in Nat /\ ColdCount \in Nat
  BY DEF ColdCount
<1>3. CASE SlopeIdle
  BY <1>0, <1>2, <1>3 DEF SlopeIdle, SlopeStep, thermo
<1>4. CASE SlopeUpset
  BY <1>0, <1>2, <1>4, WindowType DEF SlopeUpset, SlopeStep, thermo
<1>5. CASE SlopeGlitch
  <2>1. EnterFault(1)
    BY <1>5 DEF SlopeGlitch
  <2>2. /\ cooldown' \in 0 .. CooldownSeconds /\ state' = "FAULT"
        /\ fault' \in 0 .. 4 /\ recover' \in 0 .. RecoverTicks - 1
    BY <2>1 DEF EnterFault, Latch
  <2>3. glitch' \in 0 .. GlitchTrip
    BY <1>5 DEF SlopeGlitch, Heating
  <2> QED BY <1>0, <1>2, <1>5, <2>2, <2>3 DEF SlopeGlitch, SlopeStep
<1>6. CASE SlopeClean
  <2>1. /\ slot' \in 0 .. SlopeWindow - 1 /\ prev' \in Codes
        /\ valid' \in 0 .. SlopeWindow /\ glitch' = 0
    BY <1>6 DEF SlopeClean, Smaller
  <2>2. ring' \in [0 .. SlopeWindow - 1 -> Codes]
    BY <1>6, <2>1 DEF SlopeClean
  <2>3. heatSec' \in 0 .. HeatWrap - 1
    BY <1>6 DEF SlopeClean
  <2>5. /\ cooldown' \in 0 .. CooldownSeconds /\ rest' \in 0 .. CooldownSeconds
        /\ state' \in {"HEAT", "FAULT"}
        /\ fault' \in 0 .. 4 /\ recover' \in 0 .. RecoverTicks - 1
    <3>1. CASE EnterFault(3) /\ rest' = 0
      <4>1. /\ cooldown' \in 0 .. CooldownSeconds /\ state' = "FAULT"
            /\ fault' \in 0 .. 4 /\ recover' \in 0 .. RecoverTicks - 1
        BY <3>1 DEF EnterFault, Latch
      <4> QED BY <3>1, <4>1
    <3>2. CASE UNCHANGED <<thermo, rest>>
      BY <1>6, <3>2 DEF SlopeClean, Heating, thermo
    <3> QED BY <1>6, <3>1, <3>2 DEF SlopeClean
  <2>6. coldSec' \in Nat /\ state = "HEAT"
    BY <1>2, <1>6 DEF SlopeClean, Heating
  <2>7. SlopeStep
    BY <1>6 DEF SlopeClean
  <2>8. /\ pc' = "refresh" /\ div' = div /\ adc' = adc /\ warmSet' = warmSet
        /\ heatMode' = heatMode /\ relayOff' = relayOff /\ boilHold' = boilHold
        /\ overtemp' = overtemp /\ held' = held /\ against' = against /\ evt' = evt
        /\ offSec' = offSec
    BY <2>7 DEF SlopeStep
  <2>9. /\ div' \in 0 .. PassesPerSecond - 1 /\ adc' \in Codes
        /\ warmSet' \in {55, 60, 80, 90} /\ heatMode' \in {55, 80, 100}
        /\ relayOff' \in 0 .. DwellSeconds /\ boilHold' \in 0 .. BoilHoldTicks
        /\ overtemp' \in 0 .. OvertempSeconds
        /\ held' \in [Keys -> BOOLEAN] /\ against' \in [Keys -> 0 .. Debounce - 1]
        /\ evt' \in [Keys -> BOOLEAN] /\ offSec' \in 0 .. DwellSeconds
        /\ recover' \in 0 .. RecoverTicks /\ glitch' \in 0 .. GlitchTrip
    BY <2>1, <2>5, <2>8
  <2>10. TypeOK'
    <3> HIDE DEF TypeInv
    <3> QED BY <1>0, <2>1, <2>2, <2>3, <2>5, <2>6, <2>8, <2>9
  <2>11. /\ recover' < RecoverTicks /\ glitch' < GlitchTrip
         /\ state' = "HEAT" => boilHold' < BoilHoldTicks
         /\ state' = "HEAT" => overtemp' < OvertempSeconds /\ state' # "WARM"
    BY <2>1, <2>5, <2>6, <2>8
  <2> HIDE DEF TypeOK
  <2> QED BY <2>5, <2>10, <2>11
<1> QED BY <1>1, <1>3, <1>4, <1>5, <1>6 DEF SecondStep

\* every step keeps the strict types
LEMMA TypeNext == TypeInv /\ [Next]_vars => TypeInv'
<1> SUFFICES ASSUME TypeInv, [Next]_vars PROVE TypeInv'
  OBVIOUS
<1>0. BoolType'
  BY BoolNext DEF TypeInv, TypeOK, BoolType
<1>1. CASE Refresh
  <2>1. div' \in 0 .. PassesPerSecond - 1 /\ offSec' \in 0 .. DwellSeconds
    BY <1>1, Times, Prescaler DEF Refresh, TypeInv, TypeOK
  <2> QED BY <1>0, <1>1, <2>1
          DEF Refresh, TypeInv, TypeOK, BoolType, thermo, boilVars, slopeVars, keyVars
<1>2. CASE PowerFail
  <2>1. /\ held' \in [Keys -> BOOLEAN] /\ against' \in [Keys -> 0 .. Debounce - 1]
        /\ evt' \in [Keys -> BOOLEAN]
    BY <1>2, Times DEF PowerFail
  <2> QED BY <1>0, <1>2, <2>1, Times, Prescaler, AnyCodeIsCode
          DEF PowerFail, TypeInv, TypeOK, BoolType, WarmDefault
<1>3. ASSUME NEW c \in Codes, NEW grip \in Grips, PowerUp(c, grip)
      PROVE  TypeInv'
  <2>1. held' \in [Keys -> BOOLEAN]
    BY <1>3 DEF PowerUp
  <2>2. cooldown' \in 0 .. CooldownSeconds /\ rest' \in 0 .. CooldownSeconds
    BY <1>3, Times DEF PowerUp, BootLock
  <2> QED BY <1>0, <1>3, <2>1, <2>2, Times
          DEF PowerUp, TypeInv, TypeOK, BoolType, boilVars
<1>4. CASE UNCHANGED vars
  BY <1>4 DEF vars, thermo, boilVars, slopeVars, keyVars, histVars, TypeInv, TypeOK
<1> QED BY <1>1, <1>2, <1>3, <1>4, TypeKey, TypeControl, TypeSecond
        DEF Next, LoopStep, PowerStep

\* Every counter stays within its limits, and the latches and tables hold
\* what their types say, whatever is sampled, pressed or cut off.
THEOREM TypeCorrect == Spec => []TypeOK
<1>1. TypeInv => TypeOK
  BY DEF TypeInv
<1> QED BY <1>1, TypeInit, TypeNext, PTL DEF Spec

-----------------------------------------------------------------------------
(* The contact.                                                            *)

\* The latch is closed only in a state that heats, on a reading that may be
\* trusted, and outside the cooling lock; the lock lasts as long as the rest it
\* stands for; the output follows latch and lock between two passes.
ContactInv ==
  /\ heaterOn => /\ state \in {"HEAT", "WARM"}
                 /\ ~BadProbe(adc) /\ ~OverScale(adc)
  /\ cooldown > 0 => state \in {"OFF", "FAULT"}
  /\ cooldown + rest >= CooldownSeconds
  /\ pc = "scan" /\ pin => heaterOn /\ cooldown = 0
  /\ pc = "down" => ~pin /\ ~heaterOn /\ state = "OFF"

\* no key closes the contact unsafely
LEMMA ContactKey == TypeOK /\ ContactInv /\ KeyStep => ContactInv'
<1> SUFFICES ASSUME TypeOK, ContactInv, KeyStep PROVE ContactInv'
  OBVIOUS
<1> USE DEF TypeOK, ContactInv, thermo, BadProbe, OverScale
<1>1. CASE Scan
  <2>1. pc' \notin {"scan", "down"}
    BY <1>1 DEF Scan, AfterScan, Tasks
  <2>2. UNCHANGED <<thermo, adc, pin, rest>>
    BY <1>1 DEF Scan, histVars
  <2> QED BY <2>1, <2>2
<1>2. ASSUME NEW k \in {"func", "onoff"}, Press(k)
      PROVE  pc' \notin {"scan", "down"} /\ UNCHANGED <<adc, pin, rest>>
  BY <1>2 DEF Press, Tasks
<1>3. CASE FuncOff \/ FuncWarm \/ FuncRefused
  <2>1. Press("func") /\ UNCHANGED thermo
    BY <1>3 DEF FuncOff, FuncWarm, FuncRefused
  <2> QED BY <1>2, <2>1
<1>4. CASE FuncHeat
  BY <1>2, <1>4 DEF FuncHeat, TargetReached
<1>5. CASE FuncReboil
  BY <1>2, <1>5 DEF FuncReboil
<1>6. CASE OnRefused
  BY <1>2, <1>6 DEF OnRefused
<1>7. CASE OnBadProbe
  <2>1. ProbeCode(adc) \notin Thermal
    BY DEF ProbeCode, Thermal
  <2> QED BY <1>2, <1>7, <2>1 DEF OnBadProbe, EnterFault
<1>8. CASE OnStart
  BY <1>2, <1>8 DEF OnStart
<1>9. CASE OffPress
  BY <1>2, <1>9 DEF OffPress
<1>10. CASE Acknowledge
  BY <1>2, <1>10 DEF Acknowledge
<1> QED BY <1>1, <1>3, <1>4, <1>5, <1>6, <1>7, <1>8, <1>9, <1>10 DEF KeyStep

\* the control task closes the contact only after a trusted reading
LEMMA ContactControl == TypeOK /\ ContactInv /\ ControlStep => ContactInv'
<1> SUFFICES ASSUME TypeOK, ContactInv, NEW c \in Codes,
                    \/ ControlBadProbe(c) \/ ControlOff(c) \/ ControlHeatDirect(c)
                    \/ ControlHeatBoil(c) \/ ControlWarm(c) \/ ControlFault(c)
             PROVE  ContactInv'
  BY DEF ControlStep
<1> USE DEF TypeOK, ContactInv
<1>1. ASSUME Sample(c)
      PROVE  /\ pc' \in {"second", "refresh"} /\ adc' = c
             /\ UNCHANGED <<pin, cooldown, rest>>
  BY <1>1 DEF Sample, AfterControl
<1>2. CASE ControlBadProbe(c) \/ ControlOff(c) \/ ControlFault(c)
  BY <1>1, <1>2 DEF ControlBadProbe, ControlOff, ControlFault
<1>3. CASE ControlHeatDirect(c)
  <2>1. /\ ~BadProbe(c) /\ state = "HEAT" /\ state' \in {"HEAT", "WARM"}
        /\ heaterOn' => ~OverScale(c)
    BY <1>3 DEF ControlHeatDirect, TargetReached, Reclose
  <2>2. Sample(c)
    BY <1>3 DEF ControlHeatDirect
  <2> QED BY <1>1, <2>1, <2>2
<1>4. CASE ControlHeatBoil(c)
  <2>1. /\ ~BadProbe(c) /\ state = "HEAT" /\ state' \in {"HEAT", "WARM"}
        /\ heaterOn' => ~OverScale(c)
    BY <1>4 DEF ControlHeatBoil, TargetReached, Reclose
  <2>2. Sample(c)
    BY <1>4 DEF ControlHeatBoil
  <2> QED BY <1>1, <2>1, <2>2
<1>5. CASE ControlWarm(c)
  <2>1. heaterOn' => ~OverScale(c)
    BY <1>5 DEF ControlWarm
  <2> QED BY <1>1, <1>5, <2>1 DEF ControlWarm
<1> QED BY <1>2, <1>3, <1>4, <1>5

\* the one-second task never closes the contact
LEMMA ContactSecond == TypeOK /\ ContactInv /\ SecondStep => ContactInv'
<1> SUFFICES ASSUME TypeOK, ContactInv, SecondStep PROVE ContactInv'
  OBVIOUS
<1> USE Times DEF TypeOK, ContactInv, BadProbe, OverScale, Thermal
<1>1. CASE SecondTask
  BY <1>1 DEF SecondTask, EnterFault, Countdown, Smaller
<1>2. CASE SlopeIdle \/ SlopeUpset
  <2>1. CASE SlopeIdle
    BY <2>1 DEF SlopeIdle, SlopeStep, thermo
  <2>2. CASE SlopeUpset
    BY <2>2 DEF SlopeUpset, SlopeStep, thermo
  <2> QED BY <1>2, <2>1, <2>2
<1>3. CASE SlopeGlitch
  BY <1>3 DEF SlopeGlitch, SlopeStep, EnterFault
<1>4. CASE SlopeClean
  BY <1>4 DEF SlopeClean, SlopeStep, EnterFault, thermo
<1> QED BY <1>1, <1>2, <1>3, <1>4 DEF SecondStep

\* every step keeps the contact safe
LEMMA ContactNext == TypeOK /\ ContactInv /\ [Next]_vars => ContactInv'
<1> SUFFICES ASSUME TypeOK, ContactInv, [Next]_vars PROVE ContactInv'
  OBVIOUS
<1> USE Times DEF TypeOK, ContactInv, BadProbe, OverScale
<1>1. CASE Refresh
  BY <1>1 DEF Refresh, RelayOutput, thermo
<1>2. CASE PowerFail
  BY <1>2 DEF PowerFail
<1>3. ASSUME NEW c \in Codes, NEW grip \in Grips, PowerUp(c, grip)
      PROVE  ContactInv'
  <2>1. cooldown' + rest' >= CooldownSeconds
    BY <1>3 DEF PowerUp, BootLock
  <2>2. /\ pc = "down" /\ pc' = "scan"
        /\ UNCHANGED <<state, heaterOn, pin>>
    BY <1>3 DEF PowerUp
  <2>3. ~heaterOn' /\ ~pin'
    BY <2>2
  <2>4. cooldown' > 0 => state' = "OFF"
    BY <2>2
  <2> QED BY <2>1, <2>2, <2>3, <2>4
<1>4. CASE UNCHANGED vars
  BY <1>4 DEF vars, thermo, histVars
<1> QED BY <1>1, <1>2, <1>3, <1>4, ContactKey, ContactControl, ContactSecond
        DEF Next, LoopStep, PowerStep

\* the contact is open when power comes
LEMMA ContactInit == Init => ContactInv
<1> QED BY Times DEF Init, ContactInv

\* The element is under power only while the appliance heats or keeps warm on
\* a trusted reading, and never within the cooling time of a thermal fault or
\* of a power-up on a hot plate: whatever the user and the probe do and
\* wherever power fails.
THEOREM ContactIsAlwaysSafe == Spec => []ContactIsSafe
<1>1. TypeOK /\ ContactInv => ContactIsSafe
  BY Times DEF TypeOK, ContactInv, ContactIsSafe
<1>2. TypeInv => TypeOK
  BY DEF TypeInv
<1> QED BY <1>1, <1>2, TypeInit, TypeNext, ContactInit, ContactNext, PTL DEF Spec

-----------------------------------------------------------------------------
(* Presses and thermal faults.                                             *)

\* handle_buttons has consumed both events before the tasks run
PressInv ==
  /\ pc \notin {"func", "onoff"} => \A k \in Keys : ~evt[k]
  /\ pc = "onoff" => ~evt["func"]

\* every step consumes or drops the press it looks at
LEMMA PressNext == TypeOK /\ PressInv /\ [Next]_vars => PressInv'
<1> SUFFICES ASSUME TypeOK, PressInv, [Next]_vars PROVE PressInv'
  OBVIOUS
<1> USE DEF TypeOK, PressInv, Keys
<1>1. CASE Scan
  <2>1. pc' = AfterScan(evt')
    BY <1>1 DEF Scan
  <2> QED BY <2>1 DEF AfterScan, Tasks
<1>2. ASSUME NEW k \in Keys, Press(k)
      PROVE  PressInv'
  <2>1. pc = k /\ evt' = [evt EXCEPT ![k] = FALSE]
    BY <1>2 DEF Press
  <2>2. /\ pc' \in {"onoff", "control", "refresh"} /\ (pc' = "onoff" => k = "func")
        /\ k = "func" /\ pc' # "onoff" => ~evt["onoff"]
    BY <1>2 DEF Press, Tasks
  <2>3. pc' \notin {"func", "onoff"} => \A j \in Keys : ~evt'[j]
    BY <2>1, <2>2
  <2> QED BY <2>1, <2>2, <2>3
<1>3. CASE KeyStep
  BY <1>1, <1>2, <1>3
     DEF KeyStep, FuncOff, FuncHeat, FuncWarm, FuncReboil, FuncRefused, OnRefused,
         OnBadProbe, OnStart, OffPress, Acknowledge
<1>4. CASE ControlStep
  <2>1. PICK c \in Codes : Sample(c)
    BY <1>4 DEF ControlStep, ControlBadProbe, ControlOff, ControlHeatDirect,
                ControlHeatBoil, ControlWarm, ControlFault
  <2> QED BY <2>1 DEF Sample, AfterControl, keyVars
<1>5. CASE SecondStep
  BY <1>5 DEF SecondStep, SecondTask, SlopeIdle, SlopeUpset, SlopeGlitch, SlopeClean,
              SlopeStep, keyVars
<1>6. CASE Refresh
  BY <1>6 DEF Refresh, keyVars
<1>7. CASE PowerFail
  BY <1>7 DEF PowerFail
<1>8. ASSUME NEW c \in Codes, NEW grip \in Grips, PowerUp(c, grip)
      PROVE  PressInv'
  BY <1>8 DEF PowerUp
<1>9. CASE UNCHANGED vars
  BY <1>9 DEF vars, keyVars
<1> QED BY <1>3, <1>4, <1>5, <1>6, <1>7, <1>8, <1>9 DEF Next, LoopStep, PowerStep

\* A press that was refused, under the cooling lock or in a fault, is gone by
\* the end of its pass: it cannot start the heater later.
THEOREM PressesDoNotLinger == Spec => []NoGhostPress
<1>1. Init => PressInv
  BY DEF Init, PressInv
<1>2. PressInv => NoGhostPress
  BY DEF PressInv, NoGhostPress
<1>3. TypeInv => TypeOK
  BY DEF TypeInv
<1> QED BY <1>1, <1>2, <1>3, TypeInit, TypeNext, PressNext, PTL DEF Spec

\* the step of ThermalFaultSticks
Sticks ==
  state = "FAULT" /\ fault \in Thermal
  => \/ state' = "FAULT" /\ fault' = fault
     \/ pc = "onoff" \/ pc' = "down"

\* No reading of the probe, good or bad, ends or downgrades a thermal fault;
\* only ON/OFF or a power failure does.
THEOREM ThermalFaultsStick == Spec => ThermalFaultSticks
<1>1. ASSUME [Next]_vars PROVE [Sticks]_vars
  <2>1. CASE KeyStep
    BY <2>1 DEF KeyStep, Scan, FuncOff, FuncHeat, FuncWarm, FuncReboil, FuncRefused,
                OnRefused, OnBadProbe, OnStart, OffPress, Acknowledge, Press, Sticks,
                thermo
  <2>2. CASE ControlStep
    BY <2>2 DEF ControlStep, ControlBadProbe, ControlOff, ControlHeatDirect,
                ControlHeatBoil, ControlWarm, ControlFault, Latch, Sticks
  <2>3. CASE SecondStep
    BY <2>3 DEF SecondStep, SecondTask, BeyondScale, SlopeIdle, SlopeUpset, SlopeGlitch,
                SlopeClean, Heating, Sticks, thermo
  <2>4. CASE Refresh
    BY <2>4 DEF Refresh, Sticks, thermo
  <2>5. CASE PowerStep
    BY <2>5 DEF PowerStep, PowerFail, PowerUp, Sticks
  <2> QED BY <1>1, <2>1, <2>2, <2>3, <2>4, <2>5 DEF Next, LoopStep
<1> QED BY <1>1, PTL DEF Spec, ThermalFaultSticks, Sticks

-----------------------------------------------------------------------------
(* Boiling.                                                                *)

\* a boil is being confirmed only after the probe read boiling on its scale
BoilInv == state = "HEAT" /\ boilConfirm => boiled

\* a boil under confirmation always follows a boiling reading
LEMMA BoilNext == TypeOK /\ BoilInv /\ [Next]_vars => BoilInv'
<1> SUFFICES ASSUME TypeOK, BoilInv, [Next]_vars PROVE BoilInv'
  OBVIOUS
<1> USE DEF BoilInv
<1>1. CASE KeyStep
  <2>1. CASE Scan \/ FuncOff \/ FuncWarm \/ FuncRefused \/ OnRefused
    BY <2>1 DEF Scan, FuncOff, FuncWarm, FuncRefused, OnRefused, thermo, boilVars, histVars
  <2>2. CASE FuncReboil \/ OnStart \/ OffPress
    BY <2>2 DEF FuncReboil, OnStart, OffPress
  <2>3. CASE FuncHeat
    BY <2>3 DEF FuncHeat, TargetReached, boilVars
  <2>4. CASE OnBadProbe \/ Acknowledge
    BY <2>4 DEF OnBadProbe, EnterFault, Acknowledge
  <2> QED BY <1>1, <2>1, <2>2, <2>3, <2>4 DEF KeyStep
<1>2. ASSUME NEW c \in Codes, ControlHeatBoil(c) PROVE BoilInv'
  <2>1. boiled' = (boiled \/ (TempOf[c] >= BoilTemp /\ ~OverScale(c)))
    BY <1>2 DEF ControlHeatBoil
  <2>2. CASE (boilConfirm \/ TempOf[c] >= BoilTemp) /\ ~OverScale(c)
    BY <1>2, <2>1, <2>2 DEF ControlHeatBoil
  <2>3. CASE ~((boilConfirm \/ TempOf[c] >= BoilTemp) /\ ~OverScale(c))
    BY <1>2, <2>1, <2>3 DEF ControlHeatBoil, boilVars
  <2> QED BY <2>2, <2>3
<1>3. CASE ControlStep
  BY <1>2, <1>3 DEF ControlStep, ControlBadProbe, ControlOff, ControlHeatDirect,
                    ControlWarm, ControlFault, TargetReached, boilVars
<1>4. CASE SecondStep
  BY <1>4 DEF SecondStep, SecondTask, SlopeIdle, SlopeUpset, SlopeGlitch, SlopeClean,
              SlopeStep, Heating, EnterFault, thermo, boilVars
<1>5. CASE Refresh
  BY <1>5 DEF Refresh, thermo, boilVars
<1>6. CASE PowerStep
  BY <1>6 DEF PowerStep, PowerFail, PowerUp, boilVars
<1>7. CASE UNCHANGED vars
  BY <1>7 DEF vars, thermo, boilVars, histVars
<1> QED BY <1>1, <1>3, <1>4, <1>5, <1>6, <1>7 DEF Next, LoopStep

\* the step of BoilIsReal
BoilStep ==
  state = "HEAT" /\ heatMode = 100 /\ state' = "WARM" /\ pc = "control" => boiled'

\* Only boiling water takes the boil mode to keep-warm: a reading beyond the
\* probe's scale never counts, however it alternates with good ones.
THEOREM BoilIsAlwaysReal == Spec => BoilIsReal
<1>1. Init => BoilInv
  BY DEF Init, BoilInv
<1>2. TypeInv => TypeOK
  BY DEF TypeInv
<1>3. ASSUME BoilInv, [Next]_vars PROVE [BoilStep]_vars
  <2>1. CASE KeyStep
    BY <2>1 DEF KeyStep, Scan, FuncOff, FuncHeat, FuncWarm, FuncReboil, FuncRefused,
                OnRefused, OnBadProbe, OnStart, OffPress, Acknowledge, Press, BoilStep
  <2>2. ASSUME NEW c \in Codes, ControlHeatBoil(c) PROVE BoilStep
    <3>1. boiled' = (boiled \/ (TempOf[c] >= BoilTemp /\ ~OverScale(c)))
      BY <2>2 DEF ControlHeatBoil
    <3>2. CASE (boilConfirm \/ TempOf[c] >= BoilTemp) /\ ~OverScale(c)
      BY <1>3, <3>1, <3>2 DEF BoilInv, BoilStep
    <3>3. CASE ~((boilConfirm \/ TempOf[c] >= BoilTemp) /\ ~OverScale(c))
      BY <2>2, <3>3 DEF ControlHeatBoil, BoilStep
    <3> QED BY <3>2, <3>3
  <2>3. CASE ControlStep
    BY <2>2, <2>3 DEF ControlStep, ControlBadProbe, ControlOff, ControlHeatDirect,
                      ControlWarm, ControlFault, BoilStep
  <2>4. CASE SecondStep \/ Refresh
    BY <2>4 DEF SecondStep, SecondTask, SlopeIdle, SlopeUpset, SlopeGlitch, SlopeClean,
                SlopeStep, Refresh, BoilStep
  <2>5. CASE PowerStep
    BY <2>5 DEF PowerStep, PowerFail, PowerUp, BoilStep
  <2> QED BY <1>3, <2>1, <2>3, <2>4, <2>5 DEF Next, LoopStep
<1> QED BY <1>1, <1>2, <1>3, TypeInit, TypeNext, BoilNext, PTL
        DEF Spec, BoilIsReal, BoilStep

-----------------------------------------------------------------------------
(* The dwell time of the contact.                                          *)

\* After a closure that a second task has seen, the firmware's off time is at
\* most one second ahead of the true one, so a latch that may close again
\* leaves the contact at rest for all but one second of the dwell time.
DwellInv ==
  counted =>
    /\ ~pin => relayOff <= offSec + 1
    /\ ~pin /\ heaterOn => offSec >= DwellSeconds - 1
    /\ pin => offSec = 0
    /\ pin => \/ relayOff = 0
              \/ relayOff = 1 /\ ~heaterOn /\ pc \in {"slope", "refresh"}

\* outside the one-second task the off times and the contact stand still
Quiet == UNCHANGED <<pin, relayOff, offSec, counted>>

\* the latch opens, stays, or closes after its dwell time
LEMMA DwellQuiet ==
  ASSUME TypeOK, DwellInv, Quiet,
         heaterOn' => heaterOn \/ relayOff >= DwellSeconds,
         pc \in {"slope", "refresh"} => pc' \in {"slope", "refresh"} /\ (heaterOn' => heaterOn)
  PROVE  DwellInv'
<1> QED BY Times DEF TypeOK, DwellInv, Quiet

\* every step keeps the off time of a closure that was counted
LEMMA DwellNext ==
  ASSUME TypeOK, ContactInv, DwellInv, [Next]_vars
  PROVE  DwellInv'
<1>1. CASE KeyStep
  <2>1. Quiet /\ (heaterOn' => heaterOn) /\ pc \notin {"slope", "refresh"}
    BY <1>1 DEF KeyStep, Scan, FuncOff, FuncHeat, FuncWarm, FuncReboil, FuncRefused,
                OnRefused, OnBadProbe, OnStart, OffPress, Acknowledge, Press,
                TargetReached, EnterFault, thermo, histVars, Quiet
  <2> QED BY <2>1, DwellQuiet
<1>2. CASE ControlStep
  <2>1. PICK c \in Codes :
          \/ ControlBadProbe(c) \/ ControlOff(c) \/ ControlHeatDirect(c)
          \/ ControlHeatBoil(c) \/ ControlWarm(c) \/ ControlFault(c)
    BY <1>2 DEF ControlStep
  <2>2. Quiet /\ pc \notin {"slope", "refresh"}
    BY <2>1 DEF ControlBadProbe, ControlOff, ControlHeatDirect, ControlHeatBoil,
                ControlWarm, ControlFault, Sample, Quiet
  <2>3. heaterOn' => heaterOn \/ relayOff >= DwellSeconds
    <3>1. CASE ControlBadProbe(c) \/ ControlOff(c) \/ ControlFault(c)
      BY <3>1 DEF ControlBadProbe, ControlOff, ControlFault
    <3>2. CASE ControlHeatDirect(c)
      BY <3>2 DEF ControlHeatDirect, TargetReached, Reclose
    <3>3. CASE ControlHeatBoil(c)
      BY <3>3 DEF ControlHeatBoil, TargetReached, Reclose
    <3>4. CASE ControlWarm(c)
      BY <3>4 DEF ControlWarm
    <3> QED BY <2>1, <3>1, <3>2, <3>3, <3>4
  <2> QED BY <2>2, <2>3, DwellQuiet
<1>3. CASE SecondTask
  <2>1. /\ pc' = "slope" /\ pin' = pin /\ (heaterOn' => heaterOn)
        /\ relayOff' = DwellTime
        /\ offSec' = IF pin THEN 0 ELSE Smaller(offSec + 1, DwellSeconds)
        /\ counted' <=> (counted \/ (pin /\ heaterOn))
    BY <1>3 DEF SecondTask, EnterFault
  <2> QED BY <2>1, <1>3, Times DEF TypeOK, DwellInv, DwellTime, Smaller, SecondTask
<1>4. CASE SlopeIdle \/ SlopeUpset \/ SlopeGlitch \/ SlopeClean
  <2>1. Quiet /\ (heaterOn' => heaterOn) /\ pc = "slope" /\ pc' = "refresh"
    BY <1>4 DEF SlopeIdle, SlopeUpset, SlopeGlitch, SlopeClean, SlopeStep, EnterFault,
                thermo, Quiet
  <2> QED BY <2>1, DwellQuiet
<1>5. CASE Refresh
  <2>1. /\ pin' <=> heaterOn /\ cooldown = 0
        /\ heaterOn => cooldown = 0
        /\ heaterOn' = heaterOn /\ relayOff' = relayOff
        /\ offSec' = IF pin' THEN 0 ELSE offSec
        /\ counted' <=> counted /\ (pin \/ ~pin')
    BY <1>5, Times DEF Refresh, RelayOutput, ContactInv, TypeOK, thermo
  <2> QED BY <2>1, Times DEF TypeOK, DwellInv
<1>6. CASE PowerStep
  BY <1>6, Times DEF PowerStep, PowerFail, PowerUp, ContactInv, TypeOK, DwellInv
<1>7. CASE UNCHANGED vars
  BY <1>7 DEF vars, thermo, histVars, DwellInv
<1> QED BY <1>1, <1>2, <1>3, <1>4, <1>5, <1>6, <1>7 DEF Next, LoopStep, SecondStep

\* the step of DwellAfterLongClosure
DwellStep == ~pin /\ pin' /\ counted => offSec >= DwellSeconds - 1

\* A contact that was closed when a second elapsed rests its dwell time, less
\* the second under way, on every path that closes it again.
THEOREM DwellIsKept == Spec => DwellAfterLongClosure
<1>1. Init => DwellInv
  BY DEF Init, DwellInv
<1>2. TypeInv => TypeOK
  BY DEF TypeInv
<1>3. ASSUME DwellInv, [Next]_vars PROVE [DwellStep]_vars
  <2>1. CASE Refresh
    BY <1>3, <2>1 DEF Refresh, RelayOutput, DwellInv, DwellStep
  <2>2. CASE KeyStep \/ ControlStep \/ SecondStep
    <3>1. UNCHANGED pin
      BY <2>2 DEF KeyStep, Scan, FuncOff, FuncHeat, FuncWarm, FuncReboil, FuncRefused,
                  OnRefused, OnBadProbe, OnStart, OffPress, Acknowledge, Press,
                  ControlStep, ControlBadProbe, ControlOff, ControlHeatDirect,
                  ControlHeatBoil, ControlWarm, ControlFault, Sample,
                  SecondStep, SecondTask, SlopeIdle, SlopeUpset, SlopeGlitch,
                  SlopeClean, SlopeStep
    <3> QED BY <3>1 DEF DwellStep
  <2>3. CASE PowerStep
    BY <2>3 DEF PowerStep, PowerFail, PowerUp, DwellStep
  <2> QED BY <1>3, <2>1, <2>2, <2>3 DEF Next, LoopStep
<1> QED BY <1>1, <1>2, <1>3, TypeInit, TypeNext, ContactInit, ContactNext, DwellNext, PTL
        DEF Spec, DwellAfterLongClosure, DwellStep

-----------------------------------------------------------------------------
(* Dry firing.                                                             *)

\* Between two clean samples at most GlitchTrip - 1 upsets count a cold second
\* without counting a heating second; beyond DryFireSeconds, and when the 16-bit
\* count wraps, only such upsets can have counted cold seconds.
Allowance(h) == GlitchTrip * (h + 1)

DryInv ==
  /\ coldSec <= Allowance(DryFireSeconds) + GlitchTrip
  /\ state = "HEAT" =>
       IF heatSec <= DryFireSeconds THEN coldSec <= Allowance(heatSec) + glitch
                                    ELSE coldSec <= glitch

\* a later second of heating allows a longer cold spell
LEMMA AllowanceGrows ==
  /\ \A h \in Nat : /\ Allowance(h) \in Nat /\ Allowance(h) >= GlitchTrip
                    /\ Allowance(h + 1) = Allowance(h) + GlitchTrip
                    /\ h <= DryFireSeconds
                       => Allowance(h) <= Allowance(DryFireSeconds)
  /\ Allowance(DryFireSeconds) + GlitchTrip = GlitchTrip * (DryFireSeconds + 2)
<1>1. \A g, h \in Nat : g > 0 => g * (h + 1) \in Nat /\ g * (h + 1) >= g
  OBVIOUS
<1>2. \A g, h \in Nat : g * (h + 1 + 1) = g * (h + 1) + g
  OBVIOUS
<1>3. \A g, h, d \in Nat : h <= d => g * (h + 1) <= g * (d + 1)
  OBVIOUS
<1>4. \A g, d \in Nat : g * (d + 1) + g = g * (d + 2)
  OBVIOUS
<1> QED BY <1>1, <1>2, <1>3, <1>4, Times DEF Allowance

\* no key lengthens the cold spell without opening a new window
LEMMA DryKey == TypeInv /\ DryInv /\ KeyStep => DryInv'
<1> SUFFICES ASSUME TypeInv, DryInv, KeyStep PROVE DryInv'
  OBVIOUS
<1>0. /\ heatSec \in Nat /\ heatSec < HeatWrap /\ glitch \in Nat /\ coldSec \in Nat
      /\ state = "HEAT" => glitch < GlitchTrip
  BY Times DEF TypeInv, TypeOK
<1> USE DEF DryInv
<1>1. CASE Scan \/ FuncOff \/ FuncWarm \/ FuncRefused \/ OnRefused
  BY <1>1 DEF Scan, FuncOff, FuncWarm, FuncRefused, OnRefused, thermo, histVars
<1>2. CASE FuncHeat \/ FuncReboil \/ OnStart
  <2>1. coldSec' = 0 /\ heatSec' = 0 /\ glitch' = 0
    BY <1>2 DEF FuncHeat, FuncReboil, OnStart, NewWindow
  <2>2. /\ 0 <= Allowance(0) + 0 /\ 0 <= Allowance(DryFireSeconds) + GlitchTrip
        /\ 0 <= DryFireSeconds
    BY AllowanceGrows, Times
  <2> QED BY <2>1, <2>2
<1>3. CASE OnBadProbe \/ OffPress \/ Acknowledge
  <2>1. coldSec' = coldSec /\ state' # "HEAT"
    BY <1>3 DEF OnBadProbe, EnterFault, OffPress, Acknowledge
  <2> QED BY <2>1
<1> QED BY <1>1, <1>2, <1>3 DEF KeyStep

\* each verdict of the slope detector keeps the cold spell within its allowance
LEMMA DrySlope ==
  TypeInv /\ DryInv /\ (SlopeIdle \/ SlopeUpset \/ SlopeGlitch \/ SlopeClean) => DryInv'
<1> SUFFICES ASSUME TypeInv, DryInv, SlopeIdle \/ SlopeUpset \/ SlopeGlitch \/ SlopeClean
             PROVE  DryInv'
  OBVIOUS
<1>0. /\ heatSec \in Nat /\ heatSec < HeatWrap /\ glitch \in Nat /\ coldSec \in Nat
      /\ state = "HEAT" => glitch < GlitchTrip
  BY Times DEF TypeInv, TypeOK
<1> USE DEF DryInv
<1>1. /\ Allowance(heatSec) \in Nat /\ Allowance(heatSec) >= GlitchTrip
      /\ Allowance(heatSec + 1) = Allowance(heatSec) + GlitchTrip
      /\ Allowance(0) >= GlitchTrip /\ Allowance(0) \in Nat
      /\ Allowance(DryFireSeconds) \in Nat
      /\ heatSec <= DryFireSeconds => Allowance(heatSec) <= Allowance(DryFireSeconds)
      /\ GlitchTrip \in Nat /\ DryFireSeconds \in Nat
  BY <1>0, AllowanceGrows, Times
<1>2. CASE SlopeIdle
  <2>1. /\ coldSec' \in {0, coldSec} /\ heatSec' = heatSec /\ glitch' = glitch
        /\ state' = state
    BY <1>2 DEF SlopeIdle, thermo
  <2> QED BY <1>0, <1>1, <2>1
<1>3. ASSUME Heating
      PROVE  /\ state = "HEAT" /\ glitch < GlitchTrip
             /\ ColdCount \in Nat /\ ColdCount <= coldSec + 1
             /\ coldSec + 1 <= Allowance(DryFireSeconds) + GlitchTrip
  <2>1. state = "HEAT" /\ ColdCount \in {0, coldSec + 1}
    BY <1>3 DEF Heating, ColdCount
  <2>2. coldSec <= Allowance(DryFireSeconds) + glitch
    BY <2>1, <1>0, <1>1
  <2> QED BY <2>1, <2>2, <1>0, <1>1
<1>4. CASE SlopeUpset
  <2>1. /\ Heating /\ glitch' = glitch + 1 /\ coldSec' = ColdCount
        /\ heatSec' = heatSec /\ state' = state
    BY <1>4 DEF SlopeUpset, thermo
  <2> QED BY <1>0, <1>1, <1>3, <2>1
<1>5. CASE SlopeGlitch
  <2>1. Heating /\ coldSec' = ColdCount /\ state' = "FAULT"
    BY <1>5 DEF SlopeGlitch, EnterFault
  <2> QED BY <1>0, <1>1, <1>3, <2>1
<1>6. CASE SlopeClean
  <2>1. /\ Heating /\ glitch' = 0 /\ coldSec' = ColdCount
        /\ heatSec' = (heatSec + 1) % HeatWrap
    BY <1>6 DEF SlopeClean
  <2>2. CASE state' # "HEAT"
    BY <1>0, <1>1, <1>3, <2>1, <2>2
  <2>3. CASE state' = "HEAT"
    <3>1. heatSec' > DryFireSeconds => ~Cold
      BY <1>6, <2>3 DEF SlopeClean, EnterFault, DryFire
    <3>2. heatSec' > DryFireSeconds => coldSec' = 0
      BY <3>1, <2>1 DEF ColdCount
    <3>3. CASE heatSec + 1 < HeatWrap
      <4>1. heatSec' = heatSec + 1
        BY <1>0, <2>1, <3>3, Times
      <4>2. coldSec' <= Allowance(DryFireSeconds) + GlitchTrip
        BY <1>3, <1>0, <1>1, <2>1
      <4>3. CASE heatSec' > DryFireSeconds
        BY <1>0, <1>1, <2>1, <3>2, <4>1, <4>2, <4>3
      <4>4. CASE heatSec' <= DryFireSeconds
        <5>1. Allowance(heatSec') = Allowance(heatSec) + GlitchTrip
          BY <1>1, <4>1
        <5>2. heatSec <= DryFireSeconds
          BY <1>0, <1>1, <4>1, <4>4
        <5>3. coldSec' <= Allowance(heatSec') + glitch'
          BY <1>0, <1>1, <1>3, <2>1, <5>1, <5>2
        <5> QED BY <4>2, <4>4, <5>3
      <4> QED BY <4>3, <4>4, <1>0, <1>1, <4>1
    <3>4. CASE heatSec + 1 = HeatWrap
      <4>1. heatSec' = 0
        BY <2>1, <3>4, Times
      <4>2. heatSec > DryFireSeconds
        BY <1>0, <3>4, Times
      <4>3. coldSec' <= GlitchTrip
        BY <1>0, <1>1, <1>3, <2>1, <4>2
      <4>4. Allowance(heatSec') = Allowance(0)
        BY <4>1
      <4>5. coldSec' <= Allowance(0) + glitch'
        BY <1>0, <1>1, <1>3, <2>1, <4>3, <4>4
      <4> QED BY <1>0, <1>1, <1>3, <2>1, <4>1, <4>3, <4>4, <4>5
    <3> QED BY <1>0, <3>3, <3>4, Times
  <2> QED BY <2>2, <2>3
<1> QED BY <1>2, <1>4, <1>5, <1>6

\* every step keeps the cold spell within its allowance
LEMMA DryNext == TypeInv /\ DryInv /\ [Next]_vars => DryInv'
<1> SUFFICES ASSUME TypeInv, DryInv, [Next]_vars PROVE DryInv'
  OBVIOUS
<1>1. ASSUME state' = "HEAT" => state = "HEAT", UNCHANGED <<heatSec, glitch, coldSec>>
      PROVE  DryInv'
  BY <1>1 DEF DryInv
<1>2. CASE ControlStep
  <2>1. PICK c \in Codes :
          \/ ControlBadProbe(c) \/ ControlOff(c) \/ ControlHeatDirect(c)
          \/ ControlHeatBoil(c) \/ ControlWarm(c) \/ ControlFault(c)
    BY <1>2 DEF ControlStep
  <2>2. CASE ControlOff(c)
    <3>1. coldSec' = coldSec /\ state' = "OFF"
      BY <2>2 DEF ControlOff, Sample
    <3> QED BY <3>1 DEF DryInv
  <2> QED BY <1>1, <2>1, <2>2
          DEF ControlBadProbe, ControlHeatDirect, ControlHeatBoil, ControlWarm,
              ControlFault, TargetReached, Sample
<1>3. CASE SecondTask
  BY <1>1, <1>3 DEF SecondTask, EnterFault
<1>4. CASE Refresh
  BY <1>1, <1>4 DEF Refresh, thermo
<1>5. CASE PowerFail
  BY <1>5, Times, AllowanceGrows DEF PowerFail, DryInv
<1>6. ASSUME NEW c \in Codes, NEW grip \in Grips, PowerUp(c, grip)
      PROVE  DryInv'
  BY <1>1, <1>6 DEF PowerUp
<1>7. CASE UNCHANGED vars
  BY <1>1, <1>7 DEF vars, thermo, histVars
<1> QED BY <1>2, <1>3, <1>4, <1>5, <1>6, <1>7, DryKey, DrySlope
        DEF Next, LoopStep, SecondStep, PowerStep

\* However often the slope detector is reset, by cold water or a fretting
\* probe, and even if the count of heating seconds wraps, a probe that stays
\* cold under a closed contact is cut off in bounded time.
THEOREM DryFireIsCutOff == Spec => []DryFireIsBounded
<1>1. Init => DryInv
  BY Times, AllowanceGrows DEF Init, DryInv
<1>2. DryInv => DryFireIsBounded
  BY AllowanceGrows DEF DryInv, DryFireIsBounded
<1> QED BY <1>1, <1>2, TypeInit, TypeNext, DryNext, PTL DEF Spec

=============================================================================
