--------------------------- MODULE MCResidentLife ---------------------------
(***************************************************************************)
(* Instances of ResidentLife for TLC: which events there are, what they    *)
(* ask for, and how urgent they are.                                       *)
(***************************************************************************)
EXTENDS ResidentLife, TLC

CONSTANTS e1, e2

(* First in, first out.                                                    *)
EqualPriority == [e \in Events |-> 0]

(* e2 overtakes e1.                                                        *)
UrgentSecond == [e \in Events |-> IF e = e2 THEN 1 ELSE 0]

Plain == [e \in Events |-> "none"]
Derived == [e \in Events |-> "derived"]
TextThenProbe == [e \in Events |-> IF e = e1 THEN "text" ELSE "probe"]

(* Attempt identifiers are drawn at random and only compared.              *)
AttemptSymmetry == Permutations(Attempts)
=============================================================================
