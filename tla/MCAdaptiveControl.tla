-------------------------- MODULE MCAdaptiveControl --------------------------
(* The instance that TLC checks: each preset, one fan ceiling below the      *)
(* preset's minimum, and outputs on either side of every threshold. A profile*)
(* of 12 W over a ceiling of 8 W stands for larger ones.                     *)
EXTENDS AdaptiveControl

MCConfigs ==
  {[tuning |-> "silent", tdp_max |-> 9, fan_max |-> 100],
   [tuning |-> "default", tdp_max |-> 9, fan_max |-> 15],
   [tuning |-> "performance", tdp_max |-> 12, fan_max |-> 100]}
MCCeilings == {8, 55}
MCFanOutputs == {-40, 70, 90, 140}
=============================================================================
