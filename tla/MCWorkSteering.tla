--------------------------- MODULE MCWorkSteering ---------------------------
(* Instances of WorkSteering.                                              *)
EXTENDS WorkSteering, TLC

CONSTANTS c1, c2

(* Both clients send messages and look at the transcript: they are         *)
(* interchangeable.                                                        *)
AllWork == [c \in Clients |-> {"start", "submit", "snapshot"}]
Interchangeable == Permutations(Clients) \cup Permutations(Events)

(* c1 sends the messages, c2 asks for progress and stops the work.         *)
OneStops ==
    [c \in Clients |-> IF c = c1 THEN {"start"} ELSE {"cancel", "progress"}]
=============================================================================
