------------------------- MODULE AdaptiveControlProofs -------------------------
(***************************************************************************)
(* Proofs about AdaptiveControl for any profiles, ceilings, outputs of the *)
(* PID sum and number of failed writes.                                    *)
(***************************************************************************)
EXTENDS AdaptiveControl, TLAPS

\* The inductive invariant. A clamp's bounds must be the right way round, and
\* what the controller takes for the limits is what they are, unless jump says
\* that something came between.
IInv ==
  /\ TypeOK
  /\ config.tdp_max >= TDP_MIN
  /\ ~jump => limit = tdp
-----------------------------------------------------------------------------
(* The controller's arithmetic.                                            *)

USE DEF TDP_MIN, TDP_MAX

\* std::clamp stays between its bounds.
LEMMA ClampedBounds ==
  ASSUME NEW v \in Int, NEW lo \in Int, NEW hi \in Int, lo <= hi
  PROVE  \A x \in Clamped(v, lo, hi) : x \in lo..hi /\ (v >= lo => x <= v) /\ x \in Int
BY DEF Clamped, Min, Max

\* With its bounds the wrong way round it is still one of them.
LEMMA ClampedRange ==
  ASSUME NEW v \in Int, NEW lo \in Int, NEW hi \in Int, NEW m \in Int, NEW n \in Int,
         lo \in m..n, hi \in m..n
  PROVE  \A x \in Clamped(v, lo, hi) : x \in m..n
BY DEF Clamped, Min, Max

\* The percentages and the steps of the three presets.
LEMMA PresetType ==
  \A t \in DOMAIN Preset :
    /\ Preset[t].fan_min \in 0..100 /\ Preset[t].fan_max \in 0..100
    /\ Preset[t].down \in 1..4 /\ Preset[t].up \in 1..3
BY DEF Preset

\* The parameters in force are some preset's, with the fan's within 0..100.
LEMMA ParamsType ==
  ASSUME config \in Config
  PROVE  /\ params.fan_min \in 0..100 /\ params.fan_max \in 0..100
         /\ params.down \in 1..4 /\ params.up \in 1..3
BY PresetType DEF params, Config

\* The limits a tick asks for lie in the range of the hardware, and above those
\* of the tick before by at most the preset's step.
LEMMA NextTdpBounds ==
  ASSUME config \in Config, config.tdp_max >= TDP_MIN, ceiling \in Watts, tdp \in Watts \union {0},
         NEW pct \in Int, NEW sign \in {-1, 0, 1}, NEW w \in NextTdp(pct, sign)
  PROVE  w \in Watts /\ (tdp >= TDP_MIN => w <= tdp + params.up)
<1>1. effective_tdp_max \in Watts
  BY DEF effective_tdp_max, Min, Config, Watts
<1> DEFINE wanted ==
        CASE pct >= FAN_SATURATION_THRESHOLD /\ sign > 0 -> Max(TDP_MIN, tdp - params.down)
          [] pct < FAN_LOW_THRESHOLD /\ sign < 0 -> Min(effective_tdp_max, tdp + params.up)
          [] OTHER -> tdp
<1>2. wanted \in Int /\ (tdp >= TDP_MIN => wanted <= tdp + params.up)
  BY <1>1, ParamsType DEF Max, Min, Watts, FAN_SATURATION_THRESHOLD, FAN_LOW_THRESHOLD
<1>3. w \in Clamped(wanted, TDP_MIN, effective_tdp_max)
  BY DEF NextTdp
<1> HIDE DEF wanted
<1>4. w \in TDP_MIN..effective_tdp_max /\ (wanted >= TDP_MIN => w <= wanted)
  BY <1>1, <1>2, <1>3, ClampedBounds DEF Watts
<1>5. wanted < TDP_MIN => w = TDP_MIN
  BY <1>1, <1>2, <1>3 DEF Clamped, Min, Max, Watts
<1>6. QED
  BY <1>1, <1>2, <1>4, <1>5, ParamsType DEF Watts

\* A clamp to the fan's bounds gives a percentage, whichever way round the bounds are.
LEMMA FanBounds ==
  ASSUME config \in Config, NEW v \in Int
  PROVE  \A x \in Clamped(v, params.fan_min, FanTop) : x \in 0..100
<1>1. FanTop \in 0..100
  BY ParamsType DEF FanTop, Min, Config
<1>2. params.fan_min \in 0..100
  BY ParamsType
<1>3. 0 \in Int /\ 100 \in Int /\ FanTop \in Int /\ params.fan_min \in Int
  BY <1>1, <1>2
<1> HIDE DEF FanTop
<1>4. QED
  BY <1>1, <1>2, <1>3 DEF Clamped, Min, Max
-----------------------------------------------------------------------------
(* The steps.                                                              *)

\* The invariant holds at the start.
LEMMA InitInv == Init => IInv
<1> SUFFICES ASSUME Init PROVE IInv
  OBVIOUS
<1>1. config \in Config /\ config.tdp_max >= TDP_MIN
  BY DEF Init, Config, Preset
<1>2. limit \in Watts /\ ceiling \in Watts
  BY WattAssumption DEF Init, Watts
<1>3. faults \in 0..MaxFaults
  BY FaultAssumption DEF Init
<1>4. /\ active \in BOOLEAN /\ silence \in BOOLEAN
      /\ inside \in BOOLEAN /\ alarm \in BOOLEAN /\ jump \in BOOLEAN
  BY DEF Init
<1>5. TypeOK
  BY <1>1, <1>2, <1>3, <1>4 DEF Init, TypeOK
<1>6. QED
  BY <1>1, <1>5 DEF Init, IInv

\* What the calls of a tick or of a profile do to the registers.
LEMMA CallsKeepTypes ==
  ASSUME TypeOK, NEW bad
  PROVE  /\ Fails(bad) => faults' \in 0..MaxFaults
         /\ \A m \in {"auto", "curve"} :
              set_mode(m, bad) => mode' \in {"auto", "curve"} /\ ec_mode' \in {"auto", "manual"}
         /\ \A w \in Watts :
              write_tdp(w, bad) =>
                /\ limit' \in Watts /\ jump' \in BOOLEAN
                /\ limit' \in {limit, w} /\ (~jump' => limit' = w)
<1>1. Fails(bad) => faults' \in 0..MaxFaults
  BY FaultAssumption DEF TypeOK, Fails
<1>2. \A m \in {"auto", "curve"} :
        set_mode(m, bad) => mode' \in {"auto", "curve"} /\ ec_mode' \in {"auto", "manual"}
  BY DEF TypeOK, set_mode
<1>3. \A w \in Watts : write_tdp(w, bad) => limit' \in {limit, w} /\ (~jump' => limit' = w)
  BY DEF write_tdp
<1>4. \A w \in Watts : write_tdp(w, bad) => jump' \in BOOLEAN
  BY DEF write_tdp
<1>5. QED
  BY <1>1, <1>2, <1>3, <1>4 DEF TypeOK

\* Profiles and ceilings set jump, or leave limits and controller alone.
LEMMA OthersKeepInv ==
  ASSUME IInv,
         \/ \E c \in Configs : activate(c)
         \/ ApplyLimits \/ ApplyFan \/ deactivate
         \/ \E c \in Ceilings : set_power_state_ceiling(c)
         \/ SensorsSilent \/ EnterTick \/ Poll \/ UNCHANGED vars
  PROVE  IInv'
<1> USE DEF IInv, TypeOK, configVars, pidVars, fanVars
<1>1. ASSUME NEW c \in Configs, activate(c) PROVE IInv'
  <2>1. c \in Config /\ c.tdp_max \in Watts /\ c.tdp_max >= TDP_MIN
    BY ConfigAssumption, WattAssumption DEF Watts
  <2>2. active' \in BOOLEAN /\ jump' \in BOOLEAN
    BY <1>1 DEF activate
  <2>3. /\ config' \in Config /\ config'.tdp_max >= TDP_MIN
        /\ tdp' \in Watts /\ fan' \in 0..100
    BY <1>1, <2>1 DEF activate
  <2>4. QED
    BY <1>1, <2>2, <2>3 DEF activate
<1>2. ASSUME ApplyLimits PROVE IInv'
  <2>1. PICK bad \in {{}, {"smu"}} :
          /\ Fails(bad)
          /\ limit' = IF bad = {} THEN FixedWatts ELSE limit
          /\ applying' \in (IF bad = {} THEN {"fan"} ELSE {"fan", "no"})
    BY <1>2 DEF ApplyLimits
  <2>2. faults' \in 0..MaxFaults
    BY <2>1, CallsKeepTypes
  <2>3. limit' \in Watts
    BY <2>1, WattAssumption DEF Watts
  <2>4. applying' \in {"no", "fan", "end"}
    BY <2>1
  <2>5. QED
    BY <1>2, <2>2, <2>3, <2>4 DEF ApplyLimits
<1>3. ASSUME ApplyFan PROVE IInv'
  <2>1. mode' \in {"auto", "curve"} /\ ec_mode' \in {"auto", "manual"} /\ faults' \in 0..MaxFaults
    BY <1>3, CallsKeepTypes DEF ApplyFan
  <2>2. curve' \in {"none", "full", "partial"}
    BY <1>3 DEF ApplyFan
  <2>3. QED
    BY <1>3, <2>1, <2>2 DEF ApplyFan
<1>4. ASSUME deactivate \/ SensorsSilent \/ EnterTick PROVE IInv'
  <2>1. CASE deactivate
    <3>1. active' \in BOOLEAN /\ applying' \in {"no", "fan", "end"}
      BY <2>1 DEF deactivate
    <3>2. QED
      BY <2>1, <3>1 DEF deactivate
  <2>2. CASE SensorsSilent
    BY <2>2 DEF SensorsSilent
  <2>3. CASE EnterTick
    BY <2>3 DEF EnterTick
  <2>4. QED
    BY <1>4, <2>1, <2>2, <2>3
<1>5. ASSUME NEW c \in Ceilings, set_power_state_ceiling(c) PROVE IInv'
  BY <1>5, WattAssumption DEF set_power_state_ceiling, Watts
<1>6. ASSUME Poll PROVE IInv'
  <2>1. faults' \in 0..MaxFaults
    BY <1>6, CallsKeepTypes DEF Poll, FanTick
  <2>2. duty' \in {"full", "partial"}
    BY <1>6 DEF Poll, FanTick
  <2>3. held' \in {"none", "gpu", "cpu"}
    BY <1>6 DEF Poll, Readings
  <2>4. QED
    BY <1>6, <2>1, <2>2, <2>3 DEF Poll
<1>7. ASSUME UNCHANGED vars PROVE IInv'
  BY <1>7 DEF vars
<1>8. QED
  BY <1>1, <1>2, <1>3, <1>4, <1>5, <1>6, <1>7

\* A tick keeps the invariant, and raises the limits by at most a step unless
\* they were not what the controller takes them for.
LEMMA TickStep ==
  ASSUME IInv, Tick
  PROVE  IInv' /\ (~jump => limit' <= limit + params.up)
<1> USE DEF IInv, InTick, configVars
<1>0. params.up \in 1..3 /\ limit \in Watts /\ TDP_MIN \in Watts
  BY ParamsType DEF TypeOK, Watts
<1>1. ASSUME SensorFailure PROVE IInv' /\ (~jump => limit' <= limit + params.up)
  <2>1. limit' \in {limit, TDP_MIN} /\ jump' = TRUE
    BY <1>1 DEF SensorFailure
  <2>2. TypeOK'
    BY <1>0, <1>1, <2>1, CallsKeepTypes DEF SensorFailure, TypeOK, pidVars
  <2>3. QED
    BY <1>0, <1>1, <2>1, <2>2 DEF SensorFailure, Watts
<1>2. ASSUME apply_safety_override PROVE IInv' /\ (~jump => limit' <= limit + params.up)
  <2>1. /\ limit' \in {limit, TDP_MIN} /\ limit' \in Watts
        /\ jump' \in BOOLEAN /\ (~jump' => limit' = TDP_MIN)
    BY <1>0, <1>2, CallsKeepTypes DEF apply_safety_override, EmergencyCurve
  <2>2. TypeOK'
    <3>1. /\ mode' \in {"auto", "curve"} /\ ec_mode' \in {"auto", "manual"}
          /\ faults' \in 0..MaxFaults
      BY <1>2, CallsKeepTypes DEF apply_safety_override, EmergencyCurve
    <3>2. curve' = "full" /\ alarm' = TRUE /\ duty' = duty
      BY <1>2 DEF apply_safety_override, EmergencyCurve
    <3>3. inside' \in BOOLEAN /\ silence' \in BOOLEAN
      BY <1>2 DEF apply_safety_override
    <3>4. tdp' \in Watts /\ fan' \in 0..100
      BY <1>0, <1>2 DEF apply_safety_override
    <3>5. QED
      BY <1>2, <2>1, <3>1, <3>2, <3>3, <3>4 DEF apply_safety_override, TypeOK
  <2>3. QED
    BY <1>0, <1>2, <2>1, <2>2 DEF apply_safety_override, Watts
<1>3. ASSUME PidTick PROVE IInv' /\ (~jump => limit' <= limit + params.up)
  <2>1. fan' \in 0..100
    BY <1>3, OutputAssumption, FanBounds DEF PidTick, TypeOK
  <2>2. PICK sign \in {-1, 0, 1} : tdp' \in NextTdp(fan', sign)
    BY <1>3 DEF PidTick
  <2>3. tdp' \in Watts /\ (tdp >= TDP_MIN => tdp' <= tdp + params.up)
    BY <2>1, <2>2, NextTdpBounds DEF TypeOK
  <2>4. /\ limit' \in {limit, tdp'} /\ limit' \in Watts
        /\ jump' \in BOOLEAN /\ (~jump' => limit' = tdp')
    BY <1>3, <2>3, CallsKeepTypes DEF PidTick
  <2>5. TypeOK'
    BY <1>3, <2>1, <2>3, <2>4, CallsKeepTypes DEF PidTick, TypeOK, Speed
  <2>6. ~jump => limit' <= limit + params.up
    BY <1>0, <2>3, <2>4 DEF Watts
  <2>7. QED
    BY <1>3, <2>4, <2>5, <2>6 DEF PidTick
<1>4. QED
  BY <1>1, <1>2, <1>3 DEF Tick

\* Every step keeps the invariant.
LEMMA StepInv == IInv /\ [Next]_vars => IInv'
BY OthersKeepInv, TickStep DEF Next

\* The inductive invariant of the controller: types, a profile's limit not below
\* the hardware's least, and a current_tdp_ that is what the hardware has unless
\* something came between (adaptive.cpp, tick).
THEOREM Invariance == Spec => []IInv
BY InitInv, StepInv, PTL DEF Spec

\* Every variable keeps its type: the limits stay in the hardware's range, the fan
\* in percent, whatever profiles, ceilings and outputs there are (TypeOK).
THEOREM TypeCorrect == Spec => []TypeOK
<1>1. IInv => TypeOK
  BY DEF IInv
<1>2. QED
  BY <1>1, Invariance, PTL

\* From one tick to the next the limits rise by at most the preset's step, for any
\* profiles and ceilings (GentleRise).
THEOREM LimitsRiseGently == Spec => GentleRise
<1>1. IInv /\ [Next]_vars => [inside /\ ~inside' /\ ~jump => limit' <= limit + params.up]_vars
  <2> SUFFICES ASSUME IInv, Next, inside, ~inside', ~jump
               PROVE  limit' <= limit + params.up
    OBVIOUS
  <2>1. Tick
    BY DEF Next, activate, ApplyLimits, ApplyFan, deactivate, set_power_state_ceiling, SensorsSilent,
           EnterTick, Poll
  <2>2. QED
    BY <2>1, TickStep
<1>2. QED
  BY <1>1, Invariance, PTL DEF Spec, GentleRise
=============================================================================
