------------------------------ MODULE WriterLease ------------------------------
(***************************************************************************)
(* What a high-availability cluster promises its clients: at any time at     *)
(* most one member holds the right to accept writes.  A member gives the     *)
(* right up (it is fenced, wiped or lost) before another one is granted it.  *)
(***************************************************************************)
EXTENDS Integers

CONSTANT Members

VARIABLE holders    \* the members that may accept writes

Init == holders = {} \/ \E m \in Members : holders = {m}

Grant(m) == holders = {} /\ holders' = {m}

Revoke(m) == m \in holders /\ holders' = holders \ {m}

Next == \E m \in Members : Grant(m) \/ Revoke(m)

Spec == Init /\ [][Next]_holders
================================================================================
