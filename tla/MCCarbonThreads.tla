-------------------------- MODULE MCCarbonThreads --------------------------
(***************************************************************************)
(* Instances of CarbonThreads for TLC.  The four threads of carbond are    *)
(* 1 udp receiver, 2 tcp receiver, 3 writer, 4 monitoring; main() launches *)
(* monitoring first.  The runs with two threads keep the writer and the    *)
(* monitoring thread, the one that logs early and the one launched first.  *)
(***************************************************************************)
EXTENDS CarbonThreads

Launch4 == <<4, 1, 2, 3>>
Writer4 == {3}
Fatal4  == {2, 3}

Launch2 == <<2, 1>>
Writer2 == {1}
Fatal2  == {1}

Launch3 == <<3, 1, 2>>
Writer3 == {2}
Fatal3  == {2}

(* every content of the uninitialised sigaction structures                  *)
AnySaHup == SaHupRecord
AnySaInt == SaIntRecord

(* the content the kernel headers ask for: no flag, empty mask              *)
ClearSaHup == {[maskint |-> FALSE, nodefer |-> FALSE, resethand |-> FALSE]}
ClearSaInt == {[resethand |-> FALSE]}

All  == Thread
None == {}
=============================================================================
