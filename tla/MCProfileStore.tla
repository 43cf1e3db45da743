---------------------------- MODULE MCProfileStore ----------------------------
(* Small instances of ProfileStore for TLC. *)
EXTENDS ProfileStore, TLC

CONSTANTS battery, dcIn, u1, u2, c1, caseVariant, dflt, n1

\* "Gaming" and then "gaming-2", as generate_slug counts.
MCProfileSlug == [n \in Name |-> <<u1, u2>>]
MCCurveSlug == [n \in Name |-> <<dflt, c1>>]

\* Fixed and Adaptive profiles, with and without a power source, asking for the
\* default or not; one on a builtin curve, one on a curve nobody can save.
MCOffered ==
  {[power |-> battery, isDefault |-> TRUE, curve |-> c1],
   [power |-> dcIn, isDefault |-> TRUE, curve |-> NoCurve],
   [power |-> battery, isDefault |-> FALSE, curve |-> NoCurve],
   [power |-> dcIn, isDefault |-> FALSE, curve |-> c1],
   [power |-> Unassigned, isDefault |-> TRUE, curve |-> dflt],
   [power |-> dcIn, isDefault |-> TRUE, curve |-> caseVariant]}

Threads == Permutations(Dispatcher)
=============================================================================
