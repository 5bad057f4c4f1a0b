---------------------------- MODULE MCJobLifecycle ----------------------------
(***************************************************************************)
(* Instances of JobLifecycle for TLC.                                      *)
(***************************************************************************)
EXTENDS JobLifecycle

CONSTANTS s1, s2, d1, d2, v1, v2, r1, t1, j1, j2, a, b

\* The line d1 matches v1 and misses v2; d2 misses both verdicts.
MCMisses == {<<d1, v2>>, <<d2, v1>>, <<d2, v2>>}

=============================================================================
