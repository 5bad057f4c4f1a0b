---------------------------- MODULE MCCorpusImport ----------------------------
(***************************************************************************)
(* Instances of CorpusImport for TLC.                                      *)
(***************************************************************************)
EXTENDS CorpusImport, TLC

CONSTANTS s1, s2, j1, j2, j3, r1, r2

\* One archive of a hand, and one of that hand and another.
MCDatasets == {j1 :> s1, j1 :> s1 @@ j2 :> s1}
=============================================================================
