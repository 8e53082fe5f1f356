------------------------------ MODULE HealthPot ------------------------------
(***************************************************************************)
(* The firmware of the health pot appliance (health_pot.c): one super loop *)
(* paced by a 10 ms tick that debounces two keys, runs a thermostat state  *)
(* machine, and guards a heating element with a dry-fire slope detector,   *)
(* an over-temperature watchdog, a thermal cooling lock and a dwell time   *)
(* of the relay contact.                                                   *)
(*                                                                         *)
(* The probe may read any code of Codes at any sample and the keys any     *)
(* level at any tick; power may fail at any step of a pass.  Display,      *)
(* buzzer, indicator LEDs and telemetry only show this state and are left  *)
(* out.  Times are CONSTANTS so that small instances reach every limit.    *)
(***************************************************************************)
EXTENDS Integers, Sequences

Keys == {"onoff", "func"}

CONSTANTS
  Codes,              \* ADC codes the probe may deliver
  Grips,              \* the sets of keys the user may hold down at a time
  Debounce,           \* samples that confirm a key: 2
  TicksPerControl,    \* passes between two control tasks: 10
  ControlsPerSecond,  \* control tasks between two one-second tasks: 10
  DwellSeconds,       \* RELAY_DWELL_SECONDS: 3
  CooldownSeconds,    \* COOLDOWN_SECONDS: 60
  RecoverTicks,       \* FAULT_RECOVER_TICKS: 3
  BoilHoldTicks,      \* BOIL_HOLD_TICKS: 30
  OvertempSeconds,    \* OVERTEMP_SECONDS: 10
  DryFireSeconds,     \* DRYFIRE_SECONDS: 650
  BoilTimeout,        \* BOIL_TIMEOUT_SECONDS: 550
  SlopeWindow,        \* SLOPE_WINDOW_SEC, slots of the ADC ring: 16
  SlopeArm,           \* SLOPE_ARM_HEAT_SEC: 20
  GlitchTrip,         \* GLITCH_TRIP_COUNT: 3
  HeatWrap            \* 2^16, the width of heat_seconds

ASSUME CodesAssumption == Codes \subseteq 0 .. 4095 /\ Codes # {}
ASSUME GripsAssumption == Grips \subseteq SUBSET Keys /\ Grips # {}
ASSUME RateAssumption ==
  {Debounce, TicksPerControl, ControlsPerSecond} \subseteq Nat \ {0}
ASSUME TimesAssumption ==
  {DwellSeconds, CooldownSeconds, RecoverTicks, BoilHoldTicks, OvertempSeconds,
   DryFireSeconds, BoilTimeout, SlopeWindow, SlopeArm, GlitchTrip}
    \subseteq Nat \ {0}
ASSUME WidthAssumption ==
  /\ HeatWrap \in Nat
  /\ HeatWrap > DryFireSeconds + 1 /\ HeatWrap > BoilTimeout + 1

VARIABLES
  pc,           \* the step of the pass that comes next
  div,          \* passes since the last one-second task
  state,        \* ST_OFF, ST_HEAT, ST_WARM, ST_FAULT
  adc,          \* adc_code; temp_c is TempOf[adc]
  fault,        \* fault_code
  muted,        \* sensor_muted: a sensor fault was acknowledged
  recover,      \* recover_ticks
  warmSet,      \* warm_set
  heatMode,     \* heat_mode
  heaterOn,     \* heater_on
  pin,          \* HEATER, the relay output
  relayOff,     \* relay_off_sec, saturating at DwellSeconds
  cooldown,     \* cooldown_seconds
  boilConfirm,  \* boil_confirm
  boilHold,     \* boil_hold
  overtemp,     \* overtemp_seconds
  heatSec,      \* heat_seconds
  ring,         \* adc_hist_16s
  slot,         \* adc_hist_idx
  prev,         \* adc_prev_1s
  glitch,       \* glitch_cnt
  valid,        \* slope_valid_sec, saturating at SlopeWindow
  held,         \* btn_*_held of each key
  against,      \* db_*_press or db_*_release: samples that contradict held
  evt,          \* evt_onoff, evt_func
  offSec,       \* history: second tasks since the contact opened
  counted,      \* history: the last closure lasted over a second task
  rest,         \* history: second tasks since a thermal fault or a hot boot
  coldSec,      \* history: second tasks heating a cold probe without a break
  boiled        \* history: the probe read boiling since heating began

thermo  == <<state, fault, recover, heaterOn, cooldown>>
boilVars == <<boilConfirm, boilHold>>
slopeVars == <<ring, slot, prev, valid>>
keyVars == <<held, against, evt>>
histVars == <<offSec, counted, rest, coldSec, boiled>>
vars == <<pc, div, thermo, adc, muted, warmSet, heatMode, pin, relayOff,
          boilVars, overtemp, heatSec, slopeVars, glitch, keyVars,
          histVars>>

NtcOpen      == 3900
NtcShort     == 8
OvertempRaw  == 16
ColdJump     == 40   \* COLDWATER_JUMP
SlopeMin     == 6    \* SLOPE_MIN_DELTA
BoilTemp     == 98
DryFireTemp  == 45
WarmHyst     == 2
WarmDefault  == 60

LutRaw == <<571, 458, 369, 298, 241, 196, 160, 131, 126, 122, 117, 113, 108, 104,
  100, 97, 93, 89, 86, 83, 80, 78, 76, 73, 70, 67, 65, 63, 61, 58, 56, 54, 52, 48,
  43, 39, 35, 32, 30, 28, 26, 25, 24, 22, 21, 20, 19, 16>>
LutTemp == <<5, 10, 15, 20, 25, 30, 35, 40, 41, 42, 43, 44, 45, 46, 47, 48, 49,
  50, 51, 52, 53, 54, 55, 56, 57, 58, 59, 60, 61, 62, 63, 64, 65, 68, 71, 74, 77,
  80, 82, 85, 87, 88, 90, 92, 94, 96, 98, 105>>

\* ntc_code_to_temp: linear between the anchors, clamped at both ends
TempOf ==
  [c \in 0 .. 4095 |->
     IF c >= LutRaw[1] THEN LutTemp[1]
     ELSE IF c < LutRaw[48] THEN 105
     ELSE LET i == CHOOSE j \in 2 .. 48 :
                     c >= LutRaw[j] /\ \A k \in 2 .. j - 1 : c < LutRaw[k]
          IN LutTemp[i - 1] + ((LutTemp[i] - LutTemp[i - 1])
                               * (LutRaw[i - 1] - c))
                              \div (LutRaw[i - 1] - LutRaw[i])]

AnyCode      == CHOOSE c \in Codes : TRUE
BadProbe(c)  == c >= NtcOpen \/ c <= NtcShort
OverScale(c) == c > NtcShort /\ c <= OvertempRaw
ProbeCode(c) == IF c >= NtcOpen THEN 1 ELSE 2
Thermal      == {3, 4}
Cold         == TempOf[adc] < DryFireTemp
Heating      == state = "HEAT" /\ heaterOn
PassesPerSecond == TicksPerControl * ControlsPerSecond

Smaller(a, b) == IF a < b THEN a ELSE b

\* Every counter of the firmware keeps within the limit its guard sets.
TypeOK ==
  /\ pc \in {"down", "scan", "func", "onoff", "control", "second", "slope", "refresh"}
  /\ div \in 0 .. PassesPerSecond - 1
  /\ state \in {"OFF", "HEAT", "WARM", "FAULT"}
  /\ adc \in Codes
  /\ fault \in 0 .. 4 /\ muted \in BOOLEAN /\ recover \in 0 .. RecoverTicks
  /\ warmSet \in {55, 60, 80, 90} /\ heatMode \in {55, 80, 100}
  /\ heaterOn \in BOOLEAN /\ pin \in BOOLEAN
  /\ relayOff \in 0 .. DwellSeconds /\ cooldown \in 0 .. CooldownSeconds
  /\ boilConfirm \in BOOLEAN /\ boilHold \in 0 .. BoilHoldTicks
  /\ overtemp \in 0 .. OvertempSeconds /\ heatSec \in 0 .. HeatWrap - 1
  /\ ring \in [0 .. SlopeWindow - 1 -> Codes] /\ slot \in 0 .. SlopeWindow - 1
  /\ prev \in Codes /\ glitch \in 0 .. GlitchTrip
  /\ valid \in 0 .. SlopeWindow
  /\ held \in [Keys -> BOOLEAN] /\ against \in [Keys -> 0 .. Debounce - 1]
  /\ evt \in [Keys -> BOOLEAN]
  /\ offSec \in 0 .. DwellSeconds /\ counted \in BOOLEAN
  /\ rest \in 0 .. CooldownSeconds /\ coldSec \in Nat /\ boiled \in BOOLEAN

-----------------------------------------------------------------------------
(* Power-up: the probe is sampled before the first tick.                   *)

\* mutant: a hot plate at power-up does not latch the cooling lock
BootLockForgotten(c) == 0

\* main, step 7b: a hot plate gets the cooling lock again
BootLock(c) == IF TempOf[c] >= DryFireTemp THEN CooldownSeconds ELSE 0

\* no power: the relay is open and RAM holds what step 9 of main stores there
Init ==
  /\ pc = "down" /\ div = 0
  /\ state = "OFF" /\ adc = AnyCode /\ fault = 0 /\ muted = FALSE /\ recover = 0
  /\ warmSet = WarmDefault /\ heatMode = 100 /\ heaterOn = FALSE
  /\ pin = FALSE /\ relayOff = DwellSeconds /\ cooldown = 0
  /\ boilConfirm = FALSE /\ boilHold = 0 /\ overtemp = 0 /\ heatSec = 0
  /\ ring = [i \in 0 .. SlopeWindow - 1 |-> AnyCode] /\ slot = 0
  /\ prev = AnyCode /\ glitch = 0 /\ valid = 0
  /\ held = [k \in Keys |-> FALSE] /\ against = [k \in Keys |-> 0]
  /\ evt = [k \in Keys |-> FALSE]
  /\ offSec = DwellSeconds /\ counted = FALSE /\ coldSec = 0
  /\ rest = CooldownSeconds /\ boiled = FALSE

\* power fails, or the hardware watchdog bites, at any step
PowerFail ==
  /\ pc' = "down" /\ div' = 0
  /\ state' = "OFF" /\ adc' = AnyCode /\ fault' = 0 /\ muted' = FALSE
  /\ recover' = 0
  /\ warmSet' = WarmDefault /\ heatMode' = 100 /\ heaterOn' = FALSE
  /\ pin' = FALSE /\ relayOff' = DwellSeconds /\ cooldown' = 0
  /\ boilConfirm' = FALSE /\ boilHold' = 0 /\ overtemp' = 0 /\ heatSec' = 0
  /\ ring' = [i \in 0 .. SlopeWindow - 1 |-> AnyCode] /\ slot' = 0
  /\ prev' = AnyCode /\ glitch' = 0 /\ valid' = 0
  /\ held' = [k \in Keys |-> FALSE] /\ against' = [k \in Keys |-> 0]
  /\ evt' = [k \in Keys |-> FALSE]
  /\ offSec' = DwellSeconds /\ counted' = FALSE /\ coldSec' = 0
  /\ rest' = CooldownSeconds /\ boiled' = FALSE

\* main up to its loop; a key that is down counts as held, not as pressed
PowerUp(c, grip) ==
  /\ pc = "down"
  /\ pc' = "scan"
  /\ adc' = c
  /\ cooldown' = BootLock(c)
  /\ rest' = IF TempOf[c] >= DryFireTemp THEN 0 ELSE CooldownSeconds
  /\ ring' = [i \in 0 .. SlopeWindow - 1 |-> c]
  /\ prev' = c
  /\ held' = [k \in Keys |-> k \in grip]
  /\ UNCHANGED <<div, state, fault, recover, heaterOn, muted, warmSet, heatMode,
                 pin, relayOff, boilVars, overtemp, heatSec, slot, glitch, valid,
                 against, evt, offSec, counted, coldSec, boiled>>

-----------------------------------------------------------------------------
(* Operations that several tasks call.                                     *)

\* mutant: a sensor fault overwrites a latched thermal fault
LatchOverwritten(code) == code

\* a latched thermal fault is never downgraded
Latch(code) == IF state = "FAULT" /\ fault \in Thermal THEN fault ELSE code

\* enter_fault: a thermal fault starts the cooling lock
EnterFault(code) ==
  /\ cooldown' = IF code \in Thermal THEN CooldownSeconds ELSE cooldown
  /\ state' = "FAULT"
  /\ heaterOn' = FALSE
  /\ fault' = Latch(code)
  /\ recover' = IF state = "FAULT" THEN recover ELSE 0

\* heat_slope_reset: refill the ring, close the gate of the slope verdict
SlopeReset ==
  /\ ring' = [i \in 0 .. SlopeWindow - 1 |-> adc]
  /\ slot' = 0
  /\ prev' = adc
  /\ valid' = 0

\* every entry into HEAT opens a new heating window
NewWindow ==
  /\ heatSec' = 0
  /\ glitch' = 0
  /\ coldSec' = 0
  /\ SlopeReset

\* the target is reached: contact open, keep warm
TargetReached ==
  /\ state' = "WARM"
  /\ heaterOn' = FALSE
  /\ boilConfirm' = FALSE
  /\ overtemp' = 0

-----------------------------------------------------------------------------
(* Every 10 ms: button_scan_10ms and handle_buttons.                       *)

ControlDue == (div + 1) % TicksPerControl = 0
SecondDue  == div + 1 = PassesPerSecond
Tasks      == IF ControlDue THEN "control" ELSE "refresh"

\* the key k reads down or up at this tick
ScanKey(k, down) ==
  IF down = held[k]
  THEN [held |-> held[k], against |-> 0, evt |-> evt[k]]
  ELSE IF against[k] + 1 >= Debounce
  THEN [held |-> down, against |-> 0, evt |-> evt[k] \/ down]
  ELSE [held |-> held[k], against |-> against[k] + 1, evt |-> evt[k]]

\* handle_buttons looks at FUNC first; the prescalers say which tasks are due
AfterScan(e) == IF e["func"] THEN "func"
               ELSE IF e["onoff"] THEN "onoff" ELSE Tasks

Scan ==
  /\ pc = "scan"
  /\ \E grip \in Grips :
       /\ held' = [k \in Keys |-> ScanKey(k, k \in grip).held]
       /\ against' = [k \in Keys |-> ScanKey(k, k \in grip).against]
       /\ evt' = [k \in Keys |-> ScanKey(k, k \in grip).evt]
  /\ pc' = AfterScan(evt')
  /\ UNCHANGED <<div, thermo, adc, muted, warmSet, heatMode, pin, relayOff,
                 boilVars, overtemp, heatSec, slopeVars, glitch, histVars>>

\* the event is consumed before the state is looked at
Press(k) ==
  /\ pc = k
  /\ evt' = [evt EXCEPT ![k] = FALSE]
  /\ pc' = IF k = "func" /\ evt["onoff"] THEN "onoff" ELSE Tasks
  /\ UNCHANGED <<div, adc, pin, relayOff, held, against, offSec, counted,
                 rest>>

NextMode == [m \in {55, 80, 100} |-> IF m = 100 THEN 55 ELSE IF m = 55 THEN 80 ELSE 100]
Preset   == [m \in {55, 80, 100} |-> IF m = 100 THEN WarmDefault ELSE m]

\* FUNC in standby: the next mode
FuncOff ==
  /\ Press("func")
  /\ state = "OFF"
  /\ heatMode' = NextMode[heatMode]
  /\ UNCHANGED <<thermo, muted, warmSet, boilVars, overtemp, heatSec, slopeVars,
                 glitch, coldSec, boiled>>

\* FUNC while heating: the next mode, at once reached if the water is hot enough
FuncHeat ==
  /\ Press("func")
  /\ state = "HEAT"
  /\ heatMode' = NextMode[heatMode]
  /\ warmSet' = IF heatMode = 80 THEN warmSet ELSE Preset[heatMode']
  /\ IF heatMode # 80 /\ TempOf[adc] >= heatMode'
     THEN TargetReached /\ boilHold' = 0
     ELSE UNCHANGED <<state, heaterOn, boilVars, overtemp>>
  /\ NewWindow
  /\ UNCHANGED <<fault, recover, cooldown, muted, boiled>>

NextWarm == [w \in {55, 60, 80} |-> IF w = 55 THEN 60 ELSE IF w = 60 THEN 80 ELSE 90]

\* FUNC while keeping warm: the next setpoint
FuncWarm ==
  /\ Press("func")
  /\ state = "WARM" /\ warmSet # 90
  /\ warmSet' = NextWarm[warmSet]
  /\ UNCHANGED <<thermo, muted, heatMode, boilVars, overtemp, heatSec, slopeVars,
                 glitch, coldSec, boiled>>

\* FUNC at the last setpoint boils again, unless the cooling lock forbids it
FuncReboil ==
  /\ Press("func")
  /\ state = "WARM" /\ warmSet = 90 /\ cooldown = 0
  /\ state' = "HEAT"
  /\ heatMode' = 100 /\ warmSet' = WarmDefault
  /\ boilConfirm' = FALSE /\ boilHold' = 0 /\ overtemp' = 0
  /\ NewWindow
  /\ boiled' = FALSE
  /\ UNCHANGED <<fault, recover, heaterOn, cooldown, muted>>

\* FUNC in FAULT or under the lock only beeps
FuncRefused ==
  /\ Press("func")
  /\ state = "FAULT" \/ (state = "WARM" /\ warmSet = 90 /\ cooldown > 0)
  /\ UNCHANGED <<thermo, muted, warmSet, heatMode, boilVars, overtemp, heatSec,
                 slopeVars, glitch, coldSec, boiled>>

\* mutant: a press under the cooling lock is kept until the lock ends
OnRefusedKeepsEvent ==
  /\ pc = "onoff"
  /\ state = "OFF" /\ cooldown > 0
  /\ pc' = Tasks
  /\ UNCHANGED <<div, thermo, adc, muted, warmSet, heatMode, pin, relayOff,
                 boilVars, overtemp, heatSec, slopeVars, glitch, keyVars,
                 histVars>>

\* ON under the cooling lock is refused and forgotten
OnRefused ==
  /\ Press("onoff")
  /\ state = "OFF" /\ cooldown > 0
  /\ UNCHANGED <<thermo, muted, warmSet, heatMode, boilVars, overtemp, heatSec,
                 slopeVars, glitch, coldSec, boiled>>

\* ON with a bad probe is refused and raises the fault again
OnBadProbe ==
  /\ Press("onoff")
  /\ state = "OFF" /\ cooldown = 0 /\ BadProbe(adc)
  /\ muted' = FALSE
  /\ EnterFault(ProbeCode(adc))
  /\ UNCHANGED <<warmSet, heatMode, boilVars, overtemp, heatSec, slopeVars,
                 glitch, coldSec, boiled>>

\* ON starts heating in the selected mode
OnStart ==
  /\ Press("onoff")
  /\ state = "OFF" /\ cooldown = 0 /\ ~BadProbe(adc)
  /\ state' = "HEAT" /\ fault' = 0 /\ muted' = FALSE
  /\ warmSet' = Preset[heatMode]
  /\ boilHold' = 0 /\ boilConfirm' = FALSE /\ overtemp' = 0
  /\ NewWindow
  /\ boiled' = FALSE
  /\ UNCHANGED <<recover, heaterOn, cooldown, heatMode>>

\* OFF while heating or keeping warm
OffPress ==
  /\ Press("onoff")
  /\ state \in {"HEAT", "WARM"}
  /\ state' = "OFF" /\ heaterOn' = FALSE
  /\ boilConfirm' = FALSE /\ boilHold' = 0 /\ heatSec' = 0 /\ overtemp' = 0
  /\ heatMode' = 100
  /\ UNCHANGED <<fault, recover, cooldown, muted, warmSet, slopeVars, glitch,
                 coldSec, boiled>>

\* ON/OFF in FAULT: clear a thermal fault, or mute a sensor fault
Acknowledge ==
  /\ Press("onoff")
  /\ state = "FAULT"
  /\ state' = "OFF" /\ heatMode' = 100
  /\ IF fault \in Thermal
     THEN /\ fault' = 0 /\ muted' = FALSE /\ recover' = 0
          /\ heatSec' = 0 /\ overtemp' = 0
          /\ UNCHANGED heaterOn
     ELSE /\ muted' = TRUE /\ heaterOn' = FALSE
          /\ UNCHANGED <<fault, recover, heatSec, overtemp>>
  /\ UNCHANGED <<cooldown, warmSet, boilVars, slopeVars, glitch, coldSec, boiled>>

KeyStep ==
  \/ Scan
  \/ FuncOff \/ FuncHeat \/ FuncWarm \/ FuncReboil \/ FuncRefused
  \/ OnRefused \/ OnBadProbe \/ OnStart \/ OffPress \/ Acknowledge

-----------------------------------------------------------------------------
(* Every 100 ms: control_task samples the probe, looks at its health and   *)
(* only then runs the state machine.                                       *)

AfterControl == IF SecondDue THEN "second" ELSE "refresh"

Sample(c) ==
  /\ pc = "control"
  /\ adc' = c
  /\ pc' = AfterControl
  /\ UNCHANGED <<div, heatMode, pin, relayOff, cooldown, slopeVars, glitch,
                 keyVars, offSec, counted, rest, coldSec>>

\* a bad probe nobody has acknowledged: FAULT, whatever the state was
ControlBadProbe(c) ==
  /\ Sample(c)
  /\ BadProbe(c) /\ ~(state = "OFF" /\ muted)
  /\ state' = "FAULT" /\ heaterOn' = FALSE /\ recover' = 0
  /\ fault' = Latch(ProbeCode(c))
  /\ UNCHANGED <<muted, warmSet, boilVars, overtemp, heatSec, boiled>>

\* OFF: everything is idle; an acknowledged fault is cleared once the probe
\* has been good for long enough
ControlOff(c) ==
  /\ Sample(c)
  /\ state = "OFF"
  /\ BadProbe(c) => muted
  /\ heaterOn' = FALSE /\ boilHold' = 0 /\ boilConfirm' = FALSE /\ overtemp' = 0
  /\ heatSec' = 0
  /\ LET streak == IF ~BadProbe(c) /\ muted THEN recover + 1 ELSE 0
         clear  == muted /\ streak >= RecoverTicks
     IN /\ muted' = (muted /\ ~clear)
        /\ recover' = IF clear THEN 0 ELSE streak
        /\ fault' = IF clear THEN 0 ELSE IF BadProbe(c) THEN ProbeCode(c) ELSE fault
  /\ UNCHANGED <<state, warmSet, boiled>>

\* the contact may close again only after its dwell time, and never beyond
\* the scale of the probe
Reclose(c) == (heaterOn \/ relayOff >= DwellSeconds) /\ ~OverScale(c)

ControlHeatDirect(c) ==
  /\ Sample(c)
  /\ ~BadProbe(c)
  /\ state = "HEAT" /\ heatMode # 100
  /\ recover' = 0
  /\ IF TempOf[c] >= heatMode
     THEN TargetReached /\ boilHold' = 0 /\ warmSet' = heatMode
     ELSE /\ heaterOn' = Reclose(c)
          /\ UNCHANGED <<state, boilVars, overtemp, warmSet>>
  /\ boiled' = (boiled \/ (TempOf[c] >= BoilTemp /\ ~OverScale(c)))
  /\ UNCHANGED <<fault, muted, heatSec>>

\* mutant: a code beyond the scale counts as boiling
ControlHeatBoilOverScale(c) ==
  /\ Sample(c)
  /\ ~BadProbe(c)
  /\ state = "HEAT" /\ heatMode = 100
  /\ recover' = 0
  /\ IF boilConfirm \/ TempOf[c] >= BoilTemp
     THEN IF boilHold + 1 >= BoilHoldTicks
          THEN TargetReached /\ boilHold' = boilHold + 1
          ELSE /\ heaterOn' = FALSE /\ boilConfirm' = TRUE
               /\ boilHold' = boilHold + 1
               /\ UNCHANGED <<state, overtemp>>
     ELSE /\ heaterOn' = Reclose(c)
          /\ UNCHANGED <<state, boilVars, overtemp>>
  /\ boiled' = (boiled \/ (TempOf[c] >= BoilTemp /\ ~OverScale(c)))
  /\ UNCHANGED <<fault, muted, warmSet, heatSec>>

\* boiling is confirmed with the contact open, however the reading moves
ControlHeatBoil(c) ==
  /\ Sample(c)
  /\ ~BadProbe(c)
  /\ state = "HEAT" /\ heatMode = 100
  /\ recover' = 0
  /\ IF (boilConfirm \/ TempOf[c] >= BoilTemp) /\ ~OverScale(c)
     THEN IF boilHold + 1 >= BoilHoldTicks
          THEN TargetReached /\ boilHold' = boilHold + 1
          ELSE /\ heaterOn' = FALSE /\ boilConfirm' = TRUE
               /\ boilHold' = boilHold + 1
               /\ UNCHANGED <<state, overtemp>>
     ELSE /\ heaterOn' = Reclose(c)
          /\ UNCHANGED <<state, boilVars, overtemp>>
  /\ boiled' = (boiled \/ (TempOf[c] >= BoilTemp /\ ~OverScale(c)))
  /\ UNCHANGED <<fault, muted, warmSet, heatSec>>

ControlWarm(c) ==
  /\ Sample(c)
  /\ ~BadProbe(c)
  /\ state = "WARM"
  /\ recover' = 0
  /\ heaterOn' = IF OverScale(c) THEN FALSE
                 ELSE IF TempOf[c] < warmSet - WarmHyst
                 THEN heaterOn \/ relayOff >= DwellSeconds
                 ELSE heaterOn /\ TempOf[c] <= warmSet + WarmHyst
  /\ UNCHANGED <<state, fault, muted, warmSet, boilVars, overtemp, heatSec,
                 boiled>>

\* FAULT: a sensor fault clears itself after a streak of good readings
ControlFault(c) ==
  /\ Sample(c)
  /\ ~BadProbe(c)
  /\ state = "FAULT"
  /\ heaterOn' = FALSE
  /\ LET streak == IF fault \in Thermal THEN 0 ELSE recover + 1
     IN IF fault \notin Thermal /\ streak >= RecoverTicks
        THEN state' = "OFF" /\ fault' = 0 /\ muted' = FALSE /\ recover' = 0
        ELSE recover' = streak /\ UNCHANGED <<state, fault, muted>>
  /\ UNCHANGED <<warmSet, boilVars, overtemp, heatSec, boiled>>

ControlStep ==
  \E c \in Codes :
    \/ ControlBadProbe(c) \/ ControlOff(c) \/ ControlHeatDirect(c)
    \/ ControlHeatBoil(c) \/ ControlWarm(c) \/ ControlFault(c)

-----------------------------------------------------------------------------
(* Every second: one_second_task, then heat_slope_task_1s.                 *)

\* the countdown is unconditional
Countdown == IF cooldown > 0 THEN cooldown - 1 ELSE 0

\* mutant: a closed contact does not restart the dwell time
DwellNeverRestarts == IF relayOff < DwellSeconds THEN relayOff + 1 ELSE relayOff

\* relay_off_sec samples the heater latch once per second
DwellTime == IF heaterOn THEN 0
             ELSE IF relayOff < DwellSeconds THEN relayOff + 1 ELSE relayOff

BeyondScale == state \in {"HEAT", "WARM"} /\ OverScale(adc)

SecondTask ==
  /\ pc = "second"
  /\ pc' = "slope"
  /\ relayOff' = DwellTime
  /\ IF BeyondScale /\ overtemp + 1 >= OvertempSeconds
     THEN /\ EnterFault(4) /\ overtemp' = overtemp + 1 /\ rest' = 0
     ELSE /\ overtemp' = IF BeyondScale THEN overtemp + 1 ELSE 0
          /\ cooldown' = Countdown
          /\ rest' = Smaller(rest + 1, CooldownSeconds)
          /\ UNCHANGED <<state, fault, recover, heaterOn>>
  /\ offSec' = IF pin THEN 0 ELSE Smaller(offSec + 1, DwellSeconds)
  /\ counted' = (counted \/ (pin /\ heaterOn))
  /\ UNCHANGED <<div, adc, muted, warmSet, heatMode, pin, boilVars, heatSec,
                 slopeVars, glitch, keyVars, coldSec, boiled>>

SlopeStep ==
  /\ pc = "slope"
  /\ pc' = "refresh"
  /\ boiled' = (boiled /\ state = "HEAT")
  /\ UNCHANGED <<div, adc, muted, warmSet, heatMode, pin, relayOff, boilVars,
                 overtemp, keyVars, offSec, counted>>

\* not heating: nothing to watch
SlopeIdle ==
  /\ SlopeStep
  /\ ~Heating
  /\ coldSec' = IF state = "HEAT" THEN coldSec ELSE 0
  /\ UNCHANGED <<thermo, heatSec, slopeVars, glitch, rest>>

Jump == adc > prev /\ adc - prev > ColdJump

ColdCount == IF Cold THEN coldSec + 1 ELSE 0

\* mutant: cold water starts the heating window again
SlopeUpsetRestarting ==
  /\ SlopeStep
  /\ Heating /\ Jump /\ glitch + 1 < GlitchTrip
  /\ glitch' = glitch + 1
  /\ heatSec' = 0
  /\ SlopeReset
  /\ coldSec' = ColdCount
  /\ UNCHANGED <<thermo, rest>>

\* cold water was added: the slope starts anew, the heating time does not
SlopeUpset ==
  /\ SlopeStep
  /\ Heating /\ Jump /\ glitch + 1 < GlitchTrip
  /\ glitch' = glitch + 1
  /\ SlopeReset
  /\ coldSec' = ColdCount
  /\ UNCHANGED <<thermo, heatSec, rest>>

\* the reading jumps time and again: the probe is taken for broken
SlopeGlitch ==
  /\ SlopeStep
  /\ Heating /\ Jump /\ glitch + 1 >= GlitchTrip
  /\ glitch' = glitch + 1
  /\ EnterFault(1)
  /\ coldSec' = ColdCount
  /\ UNCHANGED <<heatSec, slopeVars, rest>>

\* the verdict on h seconds of heating, v clean samples and the code old of
\* one window ago: no slope, or one of the two timeouts
DryFire(h, v, old) ==
  \/ h >= SlopeArm /\ v >= SlopeWindow /\ Cold /\ old - adc < SlopeMin
  \/ h > DryFireSeconds /\ Cold
  \/ heatMode = 100 /\ h > BoilTimeout /\ TempOf[adc] < BoilTemp

\* a clean sample
SlopeClean ==
  /\ SlopeStep
  /\ Heating /\ ~Jump
  /\ glitch' = 0
  /\ prev' = adc
  /\ slot' = (slot + 1) % SlopeWindow
  /\ ring' = [ring EXCEPT ![slot'] = adc]
  /\ heatSec' = (heatSec + 1) % HeatWrap
  /\ valid' = Smaller(valid + 1, SlopeWindow)
  /\ IF DryFire(heatSec', valid', ring[slot'])
     THEN EnterFault(3) /\ rest' = 0
     ELSE UNCHANGED <<thermo, rest>>
  /\ coldSec' = ColdCount

SecondStep == SecondTask \/ SlopeIdle \/ SlopeUpset \/ SlopeGlitch \/ SlopeClean

\* the end of a pass: the lock clamps the relay output itself
RelayOutput == heaterOn /\ cooldown = 0

Refresh ==
  /\ pc = "refresh"
  /\ pin' = RelayOutput
  /\ offSec' = IF pin' THEN 0 ELSE offSec
  /\ counted' = (counted /\ (pin \/ ~pin'))
  /\ div' = (div + 1) % PassesPerSecond
  /\ pc' = "scan"
  /\ UNCHANGED <<thermo, adc, muted, warmSet, heatMode, relayOff, boilVars,
                 overtemp, heatSec, slopeVars, glitch, keyVars, rest,
                 coldSec, boiled>>

LoopStep == KeyStep \/ ControlStep \/ SecondStep \/ Refresh

PowerStep == PowerFail \/ \E c \in Codes : \E grip \in Grips : PowerUp(c, grip)

Next == LoopStep \/ PowerStep

Spec == Init /\ [][Next]_vars

-----------------------------------------------------------------------------
(* Properties.                                                             *)

\* The element is under power only while the appliance heats or keeps warm on
\* a probe whose reading is on the scale, and never within CooldownSeconds of
\* a dry-fire or over-temperature fault or of a power-up on a hot plate.
ContactIsSafe ==
  pc = "scan" /\ pin =>
    /\ state \in {"HEAT", "WARM"}
    /\ ~BadProbe(adc) /\ ~OverScale(adc)
    /\ rest = CooldownSeconds

\* However often cold water or a fretting probe resets the slope detector, a
\* probe that stays cold under a closed contact is cut off in bounded time,
\* unless the user opens a new heating window.
DryFireIsBounded == coldSec <= GlitchTrip * (DryFireSeconds + 2)

\* No key press outlives the pass in which it was confirmed, so nothing starts
\* later that was refused now.
NoGhostPress ==
  pc \notin {"func", "onoff"} => \A k \in Keys : ~evt[k]

\* A thermal fault is left only by a press of ON/OFF (or a power failure), and
\* no reading of the probe downgrades it.
ThermalFaultSticks ==
  [][/\ state = "FAULT" /\ fault \in Thermal
     => \/ state' = "FAULT" /\ fault' = fault
        \/ pc = "onoff" \/ pc' = "down"]_vars

\* Boiling ends in keep-warm only if the probe has read boiling, on its scale,
\* since this heating began.
BoilIsReal ==
  [][state = "HEAT" /\ heatMode = 100 /\ state' = "WARM" /\ pc = "control"
     => boiled']_vars

\* A contact that was closed when a second elapsed rests its dwell time (less
\* the second already running) before it closes again.  One that closed and
\* opened between two seconds does not: the counter has not seen it.
DwellAfterLongClosure ==
  [][~pin /\ pin' /\ counted => offSec >= DwellSeconds - 1]_vars
=============================================================================
