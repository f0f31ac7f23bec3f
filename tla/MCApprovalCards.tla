--------------------------- MODULE MCApprovalCards ---------------------------
(***************************************************************************)
(* Instances of ApprovalCards.                                             *)
(***************************************************************************)
EXTENDS ApprovalCards, TLC

CONSTANTS x1, x2, u1, u2, v, w

OneExecutor == {x1}
TwoExecutors == {x1, x2}
OneText == {v}
TwoTexts == {v, w}
OneUser == {u1}
TwoUsers == {u1, u2}

Ruling == {"decide", "rule", "undo"}
Undoing == {"decide", "undo", "ask", "reconsider", "rule", "edit"}

Symmetry == Permutations(TwoExecutors) \cup Permutations(TwoUsers)

ContentSymmetry == Permutations(TwoTexts)

=============================================================================
