---------------------------- MODULE MCHomeLayout ----------------------------
(* Two one-cell tiles and the profile list, which fills its row and may    *)
(* grow to two rows.                                                       *)
EXTENDS HomeLayout

CONSTANTS cpu, gpu, profiles

MCOrder == <<cpu, profiles, gpu>>
=============================================================================
