------------------------------ MODULE MCAssess ------------------------------
(* Instances of Assess for TLC.                                            *)
EXTENDS Assess, TLC

CONSTANTS w1, w2

TwoScans == {w1, w2}

ScanSymmetry == Permutations(Scans)
=============================================================================
