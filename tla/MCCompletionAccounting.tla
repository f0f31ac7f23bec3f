----------------------- MODULE MCCompletionAccounting -----------------------
(* Instances of CompletionAccounting: one event whose capability may run   *)
(* again, one whose capability may not.                                    *)
EXTENDS CompletionAccounting

CONSTANTS safe, unsafe

SmallReplaySafe == {safe}
=============================================================================
