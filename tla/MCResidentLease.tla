--------------------------- MODULE MCResidentLease ---------------------------
(* Instances of ResidentLease for TLC.                                     *)
EXTENDS ResidentLease, TLC

CONSTANTS i1, i2, i3

(* i3 shares the database over the network.                                *)
TwoHosts == [i \in Instances |-> IF i = i3 THEN 2 ELSE 1]
OneHost == [i \in Instances |-> 1]
=============================================================================
