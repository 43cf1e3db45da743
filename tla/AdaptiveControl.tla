--------------------------- MODULE AdaptiveControl ---------------------------
(***************************************************************************)
(* The adaptive controller of adaptive.cpp, with the parts of the fan and  *)
(* TDP controllers that a tick uses and the threads that meet it: a        *)
(* dispatcher that applies profiles, the power callback that sets the      *)
(* ceiling, the poller and its fan tick. tick() is called from outside, as *)
(* adaptive.cpp:262 has it.                                                *)
(*                                                                         *)
(* Of a temperature the model keeps whether it is critical or missing; the *)
(* smoothed one may lie on any side of the target at any tick, and the PID *)
(* sum is any output, so that neither is a state of its own. Fan           *)
(* percentages and watts are the code's numbers. The calls a tick makes of *)
(* the fan and TDP controllers are one step, as are those of a profile to  *)
(* the fan, so that the two do not interleave call by call.                *)
(***************************************************************************)
EXTENDS Integers

CONSTANTS
  Configs,     \* the configurations of the adaptive profiles
  Ceilings,    \* the ceilings of the power sources
  FixedWatts,  \* the limits of a fixed profile
  FanOutputs,  \* what the PID sum can come to
  MaxFaults    \* register writes that may fail

TDP_MIN == 6
TDP_MAX == 120
FAN_SATURATION_THRESHOLD == 90
FAN_LOW_THRESHOLD == 70

Preset ==
  [silent      |-> [fan_min |-> 20, fan_max |-> 40,  down |-> 2, up |-> 1],
   default     |-> [fan_min |-> 25, fan_max |-> 80,  down |-> 3, up |-> 2],
   performance |-> [fan_min |-> 30, fan_max |-> 100, down |-> 4, up |-> 3]]

Config == [tuning : DOMAIN Preset, tdp_max : Nat, fan_max : 0..100]

ASSUME ConfigAssumption == Configs \subseteq Config
\* profiles.cpp:426 and :398 accept no other watts.
ASSUME WattAssumption ==
  /\ \A c \in Configs : c.tdp_max \in TDP_MIN..TDP_MAX
  /\ Ceilings \subseteq TDP_MIN..TDP_MAX
  /\ FixedWatts \in TDP_MIN..TDP_MAX
ASSUME OutputAssumption == FanOutputs \subseteq Int
ASSUME FaultAssumption == MaxFaults \in Nat

VARIABLES
  active,      \* active_
  config,      \* config_
  ceiling,     \* power_state_ceiling_
  tdp,         \* current_tdp_
  fan,         \* current_fan_
  silence,     \* the last reading is older than SENSOR_TIMEOUT
  inside,      \* a tick has passed its test of active_
  applying,    \* what is left of the application of a fixed profile
  limit,       \* the three SMU limits
  mode,        \* mode_ of the fan controller
  curve,       \* its active curve: none, full speed, or another
  ec_mode,     \* the EC's mode register
  duty,        \* the EC's duty cycle
  held,        \* the temperatures the poller holds: none, the GPU's, or the CPU's at least
  faults,
  alarm,       \* history: an emergency was the last to set limits and curve
  jump         \* history: the limits may differ from tdp

configVars == <<active, config>>
pidVars == <<tdp, fan>>
fanVars == <<mode, curve, ec_mode, duty>>
vars == <<configVars, ceiling, pidVars, silence, inside, applying, limit, fanVars, held, faults, alarm, jump>>

Min(a, b) == IF a < b THEN a ELSE b
Max(a, b) == IF a < b THEN b ELSE a

\* Seeded bug for TypeOK: only the upper bound is applied.
Clamped_Fault(v, lo, hi) == {Min(v, hi)}

\* std::clamp is undefined when the bounds are the wrong way round: the
\* library returns one of them.
Clamped(v, lo, hi) == IF hi < lo THEN {lo, hi} ELSE {Max(lo, Min(v, hi))}

effective_tdp_max == Min(config.tdp_max, ceiling)
params == Preset[config.tuning]
FanTop == Min(params.fan_max, config.fan_max)

Speed(pct) == IF pct = 100 THEN "full" ELSE "partial"

(***************************************************************************)
(* A failing write leaves the register as it was, and no caller looks.     *)
(***************************************************************************)
Bad == {{}, {"mode"}, {"duty"}, {"smu"}}
Fails(bad) ==
  /\ bad = {} \/ faults < MaxFaults
  /\ faults' = IF bad = {} THEN faults ELSE faults + 1

set_mode(m, bad) ==
  /\ mode' = m
  /\ ec_mode' = IF "mode" \in bad THEN ec_mode ELSE IF m = "auto" THEN "auto" ELSE "manual"

write_tdp(watts, bad) ==
  /\ limit' = IF "smu" \in bad THEN limit ELSE watts
  /\ jump' = ("smu" \in bad)

(***************************************************************************)
(* Profiles and ceilings.                                                  *)
(***************************************************************************)
\* Every caller has set the ceiling of a power source first.
activate(c) ==
  /\ ceiling \in Ceilings
  /\ active' = TRUE
  /\ config' = c
  /\ tdp' = c.tdp_max
  /\ fan' = 0
  /\ jump' = TRUE
  /\ UNCHANGED <<ceiling, silence, inside, applying, limit, fanVars, held, faults, alarm>>

\* A fixed profile: limits, then the fan, then the controller is deactivated.
\* set_profile stops at limits that are refused; the others go on.
ApplyLimits ==
  /\ applying = "no"
  /\ \E bad \in {{}, {"smu"}} :
       /\ Fails(bad)
       /\ limit' = IF bad = {} THEN FixedWatts ELSE limit
       /\ applying' \in (IF bad = {} THEN {"fan"} ELSE {"fan", "no"})
  /\ jump' = TRUE
  /\ UNCHANGED <<configVars, ceiling, pidVars, silence, inside, fanVars, held, alarm>>

\* Without a curve, set_profile also forgets the one before; a curve that is
\* gone leaves the fan alone.
ApplyFan ==
  /\ applying = "fan"
  /\ applying' = "end"
  /\ \/ \E bad \in {{}, {"mode"}} :
          /\ Fails(bad)
          /\ \/ set_mode("curve", bad) /\ curve' = "partial"
             \/ set_mode("auto", bad) /\ curve' \in {curve, "none"}
     \/ UNCHANGED <<mode, ec_mode, curve, faults>>
  /\ alarm' = FALSE
  /\ UNCHANGED <<configVars, ceiling, pidVars, silence, inside, limit, duty, held, jump>>

deactivate ==
  /\ applying = "end"
  /\ applying' = "no"
  /\ active' = FALSE
  /\ UNCHANGED <<config, ceiling, pidVars, silence, inside, limit, fanVars, held, faults, alarm, jump>>

set_power_state_ceiling(c) ==
  /\ ceiling' = c
  /\ UNCHANGED <<configVars, pidVars, silence, inside, applying, limit, fanVars, held, faults, alarm, jump>>

SensorsSilent ==
  /\ silence' = TRUE
  /\ UNCHANGED <<configVars, ceiling, pidVars, inside, applying, limit, fanVars, held, faults, alarm, jump>>

(***************************************************************************)
(* tick. active_ is tested before the mutex is taken.                      *)
(***************************************************************************)
EnterTick ==
  /\ active
  /\ ~inside
  /\ inside' = TRUE
  /\ UNCHANGED <<configVars, ceiling, pidVars, silence, applying, limit, fanVars, held, faults, alarm, jump>>

InTick == inside /\ inside' = FALSE /\ UNCHANGED <<configVars, ceiling, applying, held>>

\* Seeded bug for EmergencyCools: the override sets the curve and not the mode.
EmergencyCurve_Fault(bad) ==
  /\ write_tdp(TDP_MIN, bad)
  /\ curve' = "full"
  /\ alarm' = TRUE
  /\ UNCHANGED <<mode, ec_mode, duty>>

EmergencyCurve(bad) ==
  /\ write_tdp(TDP_MIN, bad)
  /\ set_mode("curve", bad)
  /\ curve' = "full"
  /\ alarm' = TRUE
  /\ UNCHANGED duty

\* The sensors have been silent too long. current_tdp_ stays what it was.
SensorFailure ==
  /\ InTick
  /\ silence
  /\ \E bad \in Bad :
       /\ Fails(bad)
       /\ limit' = IF "smu" \in bad THEN limit ELSE TDP_MIN
       /\ jump' = TRUE
       /\ set_mode("curve", bad)
  /\ curve' = "full"
  /\ alarm' = TRUE
  /\ UNCHANGED <<pidVars, silence, duty>>

\* Seeded bug for GentleRise: the override does not record what it set.
apply_safety_override_Fault ==
  /\ InTick
  /\ silence' = FALSE
  /\ \E bad \in Bad : Fails(bad) /\ EmergencyCurve(bad)
  /\ UNCHANGED pidVars

apply_safety_override ==
  /\ InTick
  /\ silence' = FALSE
  /\ \E bad \in Bad : Fails(bad) /\ EmergencyCurve(bad)
  /\ tdp' = TDP_MIN
  /\ fan' = 100

\* The watts a tick asks for, given the fan and the side of the target that the
\* smoothed temperature is on.
NextTdp(pct, sign) ==
  LET wanted ==
        CASE pct >= FAN_SATURATION_THRESHOLD /\ sign > 0 -> Max(TDP_MIN, tdp - params.down)
          [] pct < FAN_LOW_THRESHOLD /\ sign < 0 -> Min(effective_tdp_max, tdp + params.up)
          [] OTHER -> tdp
  IN Clamped(wanted, TDP_MIN, effective_tdp_max)

\* A missing reading that is not yet a failure counts as zero degrees.
PidTick ==
  /\ InTick
  /\ silence' = FALSE
  /\ \E output \in FanOutputs : fan' \in Clamped(output, params.fan_min, FanTop)
  /\ \E sign \in {-1, 0, 1} : tdp' \in NextTdp(fan', sign)
  /\ \E bad \in Bad :
       /\ Fails(bad)
       /\ set_mode("curve", bad)
       /\ duty' = IF "duty" \in bad THEN duty ELSE Speed(fan')
       /\ write_tdp(tdp', bad)
  /\ curve' = Speed(fan')
  /\ alarm' = FALSE

\* The CPU's temperature is kept when it cannot be read again, the GPU's is not.
Readings == IF held = "cpu" THEN {"cpu"} ELSE {"none", "gpu", "cpu"}

\* FanController::tick does nothing without a temperature.
FanTick ==
  IF mode = "curve" /\ curve # "none" /\ held' # "none"
  THEN \E bad \in {{}, {"duty"}} :
         /\ Fails(bad)
         /\ duty' = IF bad = {} THEN curve ELSE duty
  ELSE UNCHANGED <<duty, faults>>

\* A turn of the poller's thread.
Poll ==
  /\ held' \in Readings
  /\ FanTick
  /\ UNCHANGED <<configVars, ceiling, pidVars, silence, inside, applying, limit, mode, curve, ec_mode, alarm, jump>>

Init ==
  /\ active = FALSE
  /\ config = [tuning |-> "default", tdp_max |-> 55, fan_max |-> 100]
  /\ ceiling = TDP_MAX
  /\ tdp = 0 /\ fan = 0
  /\ silence = FALSE /\ inside = FALSE /\ applying = "no"
  /\ limit = FixedWatts
  /\ mode = "auto" /\ curve = "none" /\ ec_mode = "auto" /\ duty = "partial"
  /\ held = "none" /\ faults = 0 /\ alarm = FALSE /\ jump = TRUE

Tick == SensorFailure \/ apply_safety_override \/ PidTick

Next ==
  \/ \E c \in Configs : activate(c)
  \/ ApplyLimits \/ ApplyFan \/ deactivate
  \/ \E c \in Ceilings : set_power_state_ceiling(c)
  \/ SensorsSilent
  \/ EnterTick \/ Tick \/ Poll

Spec == Init /\ [][Next]_vars

\* Ticks come at intervals, from outside and from the poller (adaptive.h:79,
\* metrics.cpp), and a command that has begun ends.
FairSpec ==
  Spec /\ WF_vars(EnterTick \/ Tick) /\ WF_vars(Poll) /\ WF_vars(ApplyFan \/ deactivate)

(***************************************************************************)
(* Properties.                                                             *)
(***************************************************************************)
Watts == TDP_MIN..TDP_MAX

\* Every variable holds a value of its kind (adaptive.h, fan.h).
TypeOK ==
  /\ active \in BOOLEAN /\ config \in Config /\ ceiling \in Watts
  /\ tdp \in Watts \union {0} /\ fan \in 0..100
  /\ silence \in BOOLEAN /\ inside \in BOOLEAN /\ applying \in {"no", "fan", "end"}
  /\ limit \in Watts
  /\ mode \in {"auto", "curve"} /\ curve \in {"none", "full", "partial"}
  /\ ec_mode \in {"auto", "manual"} /\ duty \in {"full", "partial"}
  /\ held \in {"none", "gpu", "cpu"} /\ faults \in 0..MaxFaults /\ alarm \in BOOLEAN /\ jump \in BOOLEAN

\* The limits rise gently: from one tick to the next by no more than the
\* preset's rate, also after a critical temperature, unless a profile was
\* applied, a write failed or the sensors did in between. The controller's
\* idea of the limits and the hardware's do not drift apart (adaptive.cpp:155, 268).
GentleRise ==
  [][inside /\ ~inside' /\ ~jump => limit' <= limit + params.up]_vars

\* Once the poller has a temperature, an emergency ends with the fan at full speed
\* and under manual control, although no emergency writes the duty cycle and every
\* failing write is ignored, unless the poller loses the temperature again, or it
\* comes back down or a profile takes over ("max fan, min TDP immediately",
\* adaptive.cpp:267; fan.cpp:57). A CPU temperature that was read once is not lost.
EmergencyCools ==
  (alarm /\ held # "none")
    ~> ((duty = "full" /\ ec_mode = "manual") \/ held = "none" \/ ~alarm \/ ~active)
=============================================================================
