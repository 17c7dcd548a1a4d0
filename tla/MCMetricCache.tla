--------------------------- MODULE MCMetricCache ---------------------------
(***************************************************************************)
(* Instances of MetricCache for TLC: one or two of the receivers and the   *)
(* monitoring thread, and two metric names.                                *)
(***************************************************************************)
EXTENDS MetricCache, TLC

CONSTANTS udp, tcp, mon, a1, a2, a3, x, y

(* two receivers that may both get either metric                            *)
BothSend == [p \in Producer |-> Name]
(* the monitoring thread has its own metric                                 *)
MonOwn == [p \in Producer |-> IF p = mon THEN {y} ELSE {x}]

(* sound where every producer may send every name                           *)
CacheSymmetry == Permutations(Addr) \cup Permutations(Name) \cup Permutations(Producer)
=============================================================================
