-------------------------- MODULE RetentionWindow --------------------------
(***************************************************************************)
(* What an archive promises a reader when points arrive in order: it holds *)
(* the latest value stored at each timestamp of the last Span seconds.     *)
(***************************************************************************)
EXTENDS Integers

CONSTANTS Span, Timestamps, Values

VARIABLES window,      \* set of <<timestamp, value>>
          clock        \* timestamp of the latest point

Init == window = {} /\ clock = 0

(* A point no older than the others is stored; the ones it replaces or      *)
(* pushes out of the retention go.                                          *)
Store(t, v) ==
  /\ clock <= t
  /\ clock' = t
  /\ window' = {p \in window : p[1] # t /\ p[1] > t - Span} \cup {<<t, v>>}

Next == \E t \in Timestamps, v \in Values : Store(t, v)

Spec == Init /\ [][Next]_<<window, clock>>
=============================================================================
