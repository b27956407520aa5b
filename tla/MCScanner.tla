----------------------------- MODULE MCScanner ------------------------------
(* Instances of Scanner for TLC.  A few hosts, scans and goroutines, with  *)
(* fewer slots than goroutines so that some of them have to queue.         *)
EXTENDS Scanner, TLC

CONSTANTS n1, n2, c1, c2, w1, w2, w3

OneName == {n1}
TwoNames == {n1, n2}
One == {c1}
Other == {c2}
Both == {c1, c2}
None == {}
TwoWorkers == {w1, w2}
ThreeWorkers == {w1, w2, w3}
CreateDelete == {"create", "delete"}
CreateRename == {"create", "rename"}

WorkerSymmetry == Permutations(Workers)
=============================================================================
