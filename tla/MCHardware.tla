------------------------------ MODULE MCHardware ------------------------------
(* Two dispatchers, two power sources, four profiles and two curves. *)
EXTENDS Hardware, TLC

CONSTANTS battery, dc, quiet, fast, smart, loose, gentle, own

Profiles == {quiet, fast, smart, loose}
AdaptiveProfiles == {smart}
Curves == {gentle, own}
Sources == {battery, dc}

\* quiet and loose have curves, one of them the user's; fast has none.
Fans == [p \in {quiet, fast, loose} |->
           CASE p = quiet -> gentle [] p = loose -> own [] OTHER -> None]

\* A source with a fixed default, one with an adaptive one, a profile for none.
Powers == [p \in Profiles |->
             CASE p = quiet -> battery [] p = smart -> dc [] p = fast -> dc
               [] OTHER -> None]
Defaults == [s \in Sources \cup {Unknown} |->
               CASE s = battery -> quiet [] s = dc -> smart [] OTHER -> None]

Dispatchers == Permutations(Dispatcher)
=============================================================================
