--------------------- MODULE CompletionAccounting_proofs ---------------------
(***************************************************************************)
(* As long as no other event overtakes the one whose checkpoint is on      *)
(* file, a capability that is not replay safe runs once per event and an   *)
(* event is one task of the books, and the books tell the truth, for any   *)
(* set of events and any number of crashes, stop requests and raising      *)
(* steps; the types, with their bounds, hold whatever overtakes.           *)
(***************************************************************************)
EXTENDS CompletionAccounting, FiniteSetTheorems, TLAPS

(* Types that the argument needs.                                          *)
Typed ==
    /\ status \in [Events -> {"pending", "processing", "completed"}]
    /\ outcome \in [Events -> Verdicts \cup {"none"}]
    /\ working \in Checkpoint
    /\ attempt \in [Events -> {"none", "started", "observed", "abandoned"}]
    /\ tasks \in [Events -> Nat]
    /\ result \in {"none", "success", "failure"}
    /\ faults \in Nat
    /\ executed \in [Events -> Nat]

(* Between claim and verdict the thread works on the event of the          *)
(* checkpoint; while the capability's code runs the checkpoint holds no    *)
(* answer.                                                                 *)
Held ==
    pc \in {"loaded", "running", "answered", "account", "settle", "publish"} =>
        hand \in Events /\ working.ev = hand /\ status[hand] = "processing"

Running ==
    pc \in {"running", "answered"} =>
        /\ working.stage = "orient"
        /\ working.exec \notin {"success", "failure"}
        /\ pc = "answered" => result # "none"

(* An event that is not in the checkpoint was never begun, and a fresh     *)
(* checkpoint is one of an event whose capability was never started.       *)
Unstarted == \A e \in Events : attempt[e] = "none" => executed[e] = 0

Elsewhere ==
    \A e \in Events :
        status[e] # "completed" /\ working.ev # e =>
            attempt[e] = "none" /\ tasks[e] = 0

Oriented ==
    \A e \in Events :
        working.ev = e /\ working.stage = "orient" /\ working.exec = "none" =>
            attempt[e] = "none"

Verdictless == \A e \in Events : status[e] # "completed" => outcome[e] = "none"

Fresh == Unstarted /\ Elsewhere /\ Oriented /\ Verdictless

(* A started attempt is marked as such in the checkpoint, and no thread is *)
(* about to account or publish an answer to it, unless it was stopped.     *)
UnknownIsMarked ==
    \A e \in Events \ ReplaySafe :
        working.ev = e /\ attempt[e] = "started" /\ faults = 0 =>
            /\ working.exec = "started"
            /\ working.stage \in {"orient", "side_effect_recovery"}

UnknownWaits ==
    \A e \in Events \ ReplaySafe :
        hand = e /\ attempt[e] = "started" /\ faults = 0 =>
            /\ pc \notin {"account", "settle"}
            /\ pc = "publish" => e \in cancelReq

Unsafe == UnknownIsMarked /\ UnknownWaits /\ UnsafeRunsOnce

(* What is due to the books: a completion's own descriptor, or the answer  *)
(* that the checkpoint holds.                                              *)
Answers == {"native_capability_success", "native_capability_failure"}

DueKind == working.stage \in Completions => working.due \notin Answers

Due ==
    faults = 0 /\ pc \in {"account", "settle"} =>
        \/ /\ pc = "account" /\ kind \notin Answers
           /\ working.stage \in Completions /\ working.due = kind
        \/ /\ kind = "native_capability_success"
           /\ working.stage = "orient" /\ working.exec = "success"
        \/ /\ kind = "native_capability_failure"
           /\ working.stage = "orient" /\ working.exec = "failure"

(* A task that was counted is one that the checkpoint commits to: no other *)
(* can be counted for the event.                                           *)
Committed(e) ==
    \/ /\ working.stage \in Completions
       /\ working.due = "none" \/ <<e, working.due>> \in books
    \/ /\ working.stage = "orient" /\ working.exec = "success"
       /\ <<e, "native_capability_success">> \in books

Counted ==
    faults = 0 => \A e \in Events :
        tasks[e] > 0 =>
            /\ tasks[e] = 1
            /\ status[e] = "completed" \/ (working.ev = e /\ Committed(e))

Booked == DueKind /\ Due /\ Counted

Inv == Typed /\ Held /\ Running /\ Fresh /\ Unsafe /\ Booked

LEMMA InitInv == Init => Inv
<1> SUFFICES ASSUME Init PROVE Inv
  OBVIOUS
<1> USE DEF Init, Idle
<1>1. Typed
  BY DEF Typed, Verdicts, Checkpoint, Stages, Kinds, TaskKinds, Completions
<1>2. Held /\ Running /\ Fresh
  BY DEF Held, Running, Fresh, Unstarted, Elsewhere, Oriented, Verdictless
<1>3. Unsafe
  BY DEF Unsafe, UnknownIsMarked, UnknownWaits, UnsafeRunsOnce
<1>4. Booked
  BY DEF Booked, DueKind, Due, Counted, Completions
<1> QED BY <1>1, <1>2, <1>3, <1>4 DEF Inv

(* A checkpoint that moves on to another stage.                            *)
LEMMA AtFields ==
    ASSUME working \in Checkpoint, NEW stage \in Stages
    PROVE  /\ At(stage) \in Checkpoint
           /\ At(stage).ev = working.ev
           /\ At(stage).stage = stage
           /\ At(stage).exec = working.exec
           /\ At(stage).due = "none"
BY DEF At, Checkpoint

(* Saving a completion, with what is due to the books.                     *)
LEMMA CompleteFields ==
    ASSUME working \in Checkpoint, NEW stage \in Completions,
           NEW due \in Kinds, NEW good \in BOOLEAN,
           Complete(stage, due, good)
    PROVE  /\ working' \in Checkpoint
           /\ working'.ev = working.ev
           /\ working'.stage = stage
           /\ working'.exec = working.exec
           /\ working'.due = due
           /\ result' \in {"success", "failure"}
           /\ pc' = "account" /\ kind' = due /\ hand' = hand
           /\ UNCHANGED <<status, outcome, cancelReq, attempt, books, tasks>>
BY AtFields DEF Complete, Save, Checkpoint, Stages

-----------------------------------------------------------------------------
(* A completion goes on file when no attempt of the event is started and   *)
(* nothing was counted for it.                                             *)
LEMMA Completing ==
    ASSUME Inv, NEW e \in Events, pc = "loaded", hand = e,
           NEW stage \in Completions, NEW due \in Kinds \ Answers,
           NEW good \in BOOLEAN, Complete(stage, due, good),
           faults' \in Nat, executed' = executed,
           faults' = 0 =>
              /\ faults = 0
              /\ tasks[e] = 0
              /\ e \notin ReplaySafe => attempt[e] # "started"
    PROVE  Inv'
<1> USE DEF Inv
<1>1. /\ working' \in Checkpoint
      /\ working'.ev = working.ev
      /\ working'.stage = stage
      /\ working'.exec = working.exec
      /\ working'.due = due
      /\ result' \in {"success", "failure"}
      /\ pc' = "account" /\ kind' = due /\ hand' = hand
      /\ UNCHANGED <<status, outcome, cancelReq, attempt, books, tasks>>
  BY CompleteFields DEF Typed
<1>2. hand = e /\ working.ev = e /\ status[e] = "processing"
  BY DEF Held
<1> HIDE DEF Inv
<1>3. Typed' /\ Held' /\ Running'
  BY <1>1, <1>2 DEF Inv, Typed, Held, Running
<1>4. Fresh'
  BY <1>1, <1>2 DEF Inv, Fresh, Unstarted, Elsewhere, Oriented, Verdictless,
                    Completions
<1>5. Unsafe'
  BY <1>1, <1>2 DEF Inv, Unsafe, UnknownIsMarked, UnknownWaits, UnsafeRunsOnce
<1>6. Booked'
  <2>1. DueKind' /\ Due'
    BY <1>1, <1>2 DEF DueKind, Due
  <2>2. Counted'
    <3> SUFFICES ASSUME faults' = 0, NEW f \in Events, tasks[f] > 0
                 PROVE  tasks[f] = 1 /\ status[f] = "completed"
      BY <1>1 DEF Counted
    <3>1. f # e
      OBVIOUS
    <3> QED BY <1>2, <3>1 DEF Inv, Booked, Counted
  <2> QED BY <2>1, <2>2 DEF Booked
<1> QED BY <1>3, <1>4, <1>5, <1>6 DEF Inv

(* Orientation from memory, investigation, the terminal failure and a step *)
(* that raises all put a completion on file.                               *)
LEMMA CompletionStep ==
    ASSUME Inv, NEW e \in Events,
           Recall(e) \/ Investigate(e) \/ FailTerminally(e)
    PROVE  Inv'
<1> USE DEF Inv, Stepping, Quiet, history
<1>0. pc = "loaded" /\ hand = e /\ working.ev = e /\ faults' = faults
      /\ executed' = executed /\ faults \in Nat /\ status[e] = "processing"
  BY DEF Recall, Investigate, FailTerminally, Held, Typed
<1>1. CASE Recall(e)
  <2>1. working.stage = "orient" /\ working.exec # "success"
    BY <1>1 DEF Recall
  <2>2. ~Committed(e)
    BY <2>1 DEF Committed, Completions
  <2>3. faults = 0 => tasks[e] = 0
    BY <1>0, <2>2 DEF Booked, Counted, Typed
  <2>4. faults = 0 /\ e \notin ReplaySafe => attempt[e] # "started"
    BY <1>0, <1>1 DEF Unsafe, UnknownIsMarked, Recall
  <2>5. Complete("resident_completion", "memory_success", TRUE)
    BY <1>1 DEF Recall
  <2> HIDE DEF Inv
  <2> QED BY <1>0, <2>3, <2>4, <2>5, Completing
          DEF Completions, Kinds, TaskKinds, Answers
<1>2. CASE Investigate(e) \/ FailTerminally(e)
  <2>1. working.stage = "native_investigation"
    BY <1>2 DEF Investigate, FailTerminally
  <2>2. ~Committed(e)
    BY <2>1 DEF Committed, Completions
  <2>3. faults = 0 => tasks[e] = 0
    BY <1>0, <2>2 DEF Booked, Counted, Typed
  <2>4. faults = 0 /\ e \notin ReplaySafe => attempt[e] # "started"
    BY <1>0, <2>1 DEF Unsafe, UnknownIsMarked
  <2>5. PICK stage \in {"investigation_completion", "external_completion",
                        "terminal_failure"},
             due \in {"native_investigation_success", "external_completion",
                      "terminal_failure"},
             good \in BOOLEAN : Complete(stage, due, good)
    BY <1>2 DEF Investigate, FailTerminally
  <2> HIDE DEF Inv
  <2>6. stage \in Completions /\ due \in Kinds \ Answers
    BY DEF Completions, Kinds, TaskKinds, Answers
  <2> QED BY <1>0, <2>3, <2>4, <2>5, <2>6, Completing
<1> QED BY <1>1, <1>2

(* After a raise nothing that depends on faults = 0 is claimed any more.   *)
LEMMA RaisingStep ==
    ASSUME Inv, NEW e \in Events, StepRaises(e)
    PROVE  Inv'
<1>1. /\ hand = e /\ pc \in {"loaded", "account", "settle"}
      /\ faults' # 0 /\ faults' \in Nat /\ executed' = executed
      /\ Complete("terminal_failure", "terminal_failure", FALSE)
  <2>1. faults \in Nat
    BY DEF Inv, Typed
  <2>2. faults' \in Nat /\ faults' # 0
    <3>1. faults' = faults + 1
      BY DEF StepRaises
    <3> QED BY <2>1, <3>1
  <2>3. hand = e /\ pc \in {"loaded", "account", "settle"}
    BY DEF StepRaises
  <2>4. Complete("terminal_failure", "terminal_failure", FALSE)
    BY DEF StepRaises
  <2>5. executed' = executed
    BY DEF StepRaises, history
  <2> QED BY <2>2, <2>3, <2>4, <2>5
<1>2. working.ev = e /\ status[e] = "processing"
  BY <1>1 DEF Inv, Held
<1>3. /\ working' \in Checkpoint
      /\ working'.ev = working.ev
      /\ working'.stage = "terminal_failure"
      /\ working'.exec = working.exec
      /\ working'.due = "terminal_failure"
      /\ result' \in {"success", "failure"}
      /\ pc' = "account" /\ hand' = hand
      /\ UNCHANGED <<status, outcome, cancelReq, attempt, books, tasks>>
  BY <1>1, CompleteFields
  DEF Inv, Typed, Completions, Kinds, TaskKinds
<1>4. Typed' /\ Held' /\ Running'
  BY <1>1, <1>2, <1>3 DEF Inv, Typed, Held, Running
<1>5. Fresh'
  BY <1>1, <1>2, <1>3 DEF Inv, Fresh, Unstarted, Elsewhere, Oriented,
                          Verdictless
<1>6. Unsafe'
  BY <1>1, <1>3 DEF Inv, Unsafe, UnknownIsMarked, UnknownWaits, UnsafeRunsOnce
<1>7. Booked'
  BY <1>1, <1>3 DEF Booked, DueKind, Due, Counted, Answers
<1> QED BY <1>4, <1>5, <1>6, <1>7 DEF Inv

(* The checkpoint moves on without a completion: to investigation or to    *)
(* the wait for a decision.                                                *)
LEMMA MovingOn ==
    ASSUME Inv, NEW e \in Events, NEW exec \in {"started", working.exec},
           hand = e, pc \in {"loaded", "running", "settle"},
           pc' = "idle", faults' = faults, executed' = executed,
           result' = "none",
           working' \in Checkpoint, working'.ev = working.ev,
           working'.stage \in {"native_investigation", "side_effect_recovery"},
           working'.exec = exec,
           UNCHANGED <<status, outcome, cancelReq, attempt, books, tasks>>,
           faults = 0 =>
              /\ tasks[e] = 0
              /\ \/ working'.stage = "side_effect_recovery" /\ exec = "started"
                 \/ e \in ReplaySafe
                 \/ attempt[e] # "started"
    PROVE  Inv'
<1>1. working.ev = e /\ status[e] = "processing"
  BY DEF Inv, Held
<1>2. Typed' /\ Held' /\ Running'
  BY DEF Inv, Typed, Held, Running
<1>3. Fresh'
  BY <1>1 DEF Inv, Fresh, Unstarted, Elsewhere, Oriented, Verdictless
<1>4. Unsafe'
  BY <1>1 DEF Inv, Unsafe, UnknownIsMarked, UnknownWaits, UnsafeRunsOnce
<1>5. DueKind' /\ Due'
  BY DEF DueKind, Due, Completions
<1>6. Counted'
  <2> SUFFICES ASSUME faults = 0, NEW f \in Events, tasks[f] > 0
               PROVE  tasks[f] = 1 /\ status[f] = "completed"
    BY DEF Counted
  <2>1. f # e
    OBVIOUS
  <2> QED BY <1>1, <2>1 DEF Inv, Booked, Counted
<1> QED BY <1>2, <1>3, <1>4, <1>5, <1>6 DEF Inv, Booked

LEMMA MovingOnStep ==
    ASSUME Inv, NEW e \in Events,
           \/ NothingLocal(e) \/ RefuseReplay(e)
           \/ CapabilityRaises(e) /\ pc' = "idle"
           \/ Settle(e) /\ pc' = "idle"
    PROVE  Inv'
<1>0. working \in Checkpoint /\ {"native_investigation",
                                 "side_effect_recovery"} \subseteq Stages
  BY DEF Inv, Typed, Stages
<1>1. CASE NothingLocal(e)
  <2>1. /\ pc = "loaded" /\ hand = e /\ pc' = "idle" /\ result' = "none"
        /\ working.stage = "orient" /\ working.exec = "none"
        /\ working' = At("native_investigation")
        /\ UNCHANGED <<status, outcome, cancelReq, attempt, books, tasks,
                       faults, executed>>
    BY <1>1 DEF NothingLocal, Stepping, Save, Rest, Quiet, history
  <2>2. attempt[e] = "none"
    BY <2>1 DEF Inv, Held, Fresh, Oriented
  <2>3. ~Committed(e)
    BY <2>1 DEF Committed, Completions
  <2>4. faults = 0 => tasks[e] = 0
    BY <2>1, <2>3 DEF Inv, Booked, Counted, Typed, Held
  <2> QED BY <1>0, <2>1, <2>2, <2>4, AtFields, MovingOn
<1>2. CASE RefuseReplay(e) \/ (CapabilityRaises(e) /\ pc' = "idle")
  <2>1. /\ pc \in {"loaded", "running"} /\ hand = e /\ pc' = "idle"
        /\ result' = "none"
        /\ working.stage = "orient" /\ working.exec \notin {"success", "failure"}
        /\ working' = Recovery
        /\ UNCHANGED <<status, outcome, cancelReq, attempt, books, tasks,
                       faults, executed>>
    BY <1>2 DEF RefuseReplay, CapabilityRaises, Stepping, Save, Rest, Quiet,
                history, Inv, Running
  <2>2. /\ working' \in Checkpoint /\ working'.ev = working.ev
        /\ working'.stage = "side_effect_recovery"
        /\ working'.exec = "started"
    BY <1>0, <2>1, AtFields DEF Recovery, Checkpoint
  <2>3. ~Committed(e)
    BY <2>1 DEF Committed, Completions
  <2>4. faults = 0 => tasks[e] = 0
    BY <2>1, <2>3 DEF Inv, Booked, Counted, Typed, Held
  <2> QED BY <2>1, <2>2, <2>4, MovingOn
<1>3. CASE Settle(e) /\ pc' = "idle"
  <2>1. /\ pc = "settle" /\ hand = e /\ kind = "native_capability_failure"
        /\ result' = "none"
        /\ working' = At("native_investigation")
        /\ UNCHANGED <<status, outcome, cancelReq, attempt, books, tasks,
                       faults, executed>>
    BY <1>3 DEF Settle, Save, Goto, Rest, Quiet, history
  <2>2. faults = 0 => working.stage = "orient" /\ working.exec = "failure"
    BY <2>1 DEF Inv, Booked, Due, Answers
  <2>3. faults = 0 => ~Committed(e)
    BY <2>2 DEF Committed, Completions
  <2>4. faults = 0 => tasks[e] = 0
    BY <2>1, <2>3 DEF Inv, Booked, Counted, Typed, Held
  <2>5. faults = 0 /\ e \notin ReplaySafe => attempt[e] # "started"
    BY <2>1 DEF Inv, Unsafe, UnknownWaits
  <2>6. /\ working' \in Checkpoint /\ working'.ev = working.ev
        /\ working'.stage = "native_investigation"
        /\ working'.exec = working.exec
    BY <1>0, <2>1, AtFields
  <2> QED BY <1>3, <2>1, <2>4, <2>5, <2>6, MovingOn
<1> QED BY <1>1, <1>2, <1>3

(* The capability's code: it starts once, and its answer is recorded with  *)
(* the checkpoint that holds it.                                           *)
LEMMA CapabilityStep ==
    ASSUME Inv, NEW e \in Events,
           StartCapability(e) \/ RunAgain(e) \/ ObserveCapability(e)
    PROVE  Inv'
<1> USE DEF Stepping, Quiet, history, RunCapability, durable
<1>0. hand = e /\ pc \in {"loaded", "answered"}
  BY DEF StartCapability, RunAgain, ObserveCapability
<1>1. working.ev = e /\ status[e] = "processing" /\ working \in Checkpoint
  BY <1>0 DEF Inv, Held, Typed
<1>2. CASE StartCapability(e)
  <2>1. /\ working' = [working EXCEPT !.exec = "started"]
        /\ attempt' = [attempt EXCEPT ![e] = "started"]
        /\ executed' = [executed EXCEPT ![e] = @ + 1]
        /\ pc = "loaded" /\ pc' = "running"
        /\ working.stage = "orient" /\ working.exec = "none"
        /\ UNCHANGED <<status, outcome, cancelReq, books, tasks, hand,
                       result, kind, faults>>
    BY <1>2 DEF StartCapability
  <2>2. /\ working' \in Checkpoint /\ working'.ev = e
        /\ working'.stage = "orient" /\ working'.exec = "started"
    BY <1>1, <2>1 DEF Checkpoint
  <2>3. attempt[e] = "none" /\ executed[e] = 0 /\ outcome[e] = "none"
    BY <1>1, <2>1 DEF Inv, Fresh, Oriented, Unstarted, Verdictless
  <2>4. ~Committed(e)
    BY <2>1 DEF Committed, Completions
  <2>5. Typed' /\ Held' /\ Running'
    BY <1>0, <1>1, <2>1, <2>2 DEF Inv, Typed, Held, Running
  <2>6. Fresh'
    BY <1>0, <1>1, <2>1, <2>2
    DEF Inv, Typed, Fresh, Unstarted, Elsewhere, Oriented, Verdictless
  <2>7. UnknownIsMarked' /\ UnknownWaits'
    BY <1>0, <1>1, <2>1, <2>2 DEF Inv, Typed, Unsafe, UnknownIsMarked,
                                  UnknownWaits
  <2>8. UnsafeRunsOnce'
    BY <2>1, <2>3 DEF Inv, Typed, Unsafe, UnsafeRunsOnce
  <2>9. DueKind' /\ Due'
    BY <2>1, <2>2 DEF DueKind, Due, Completions
  <2>10. Counted'
    BY <1>1, <2>1, <2>4 DEF Inv, Booked, Counted
  <2> QED BY <2>5, <2>6, <2>7, <2>8, <2>9, <2>10 DEF Inv, Unsafe, Booked
<1>3. CASE RunAgain(e)
  <2>1. /\ executed' = [executed EXCEPT ![e] = @ + 1]
        /\ e \in ReplaySafe /\ attempt[e] = "started"
        /\ pc = "loaded" /\ pc' = "running"
        /\ working.stage = "orient" /\ working.exec \in {"none", "started"}
        /\ UNCHANGED <<working, attempt, status, outcome, cancelReq, books,
                       tasks, hand, result, kind, faults>>
    BY <1>3 DEF RunAgain
  <2>2. Typed' /\ Held' /\ Running'
    BY <1>0, <1>1, <2>1 DEF Inv, Typed, Held, Running
  <2>3. Fresh'
    BY <2>1 DEF Inv, Typed, Fresh, Unstarted, Elsewhere, Oriented, Verdictless
  <2>4. Unsafe'
    BY <2>1 DEF Inv, Typed, Unsafe, UnknownIsMarked, UnknownWaits,
                UnsafeRunsOnce
  <2>5. Booked'
    BY <2>1 DEF Inv, Booked, DueKind, Due, Counted, Committed, Completions
  <2> QED BY <2>2, <2>3, <2>4, <2>5 DEF Inv
<1>4. CASE ObserveCapability(e)
  <2>1. /\ working' = [working EXCEPT !.exec = result]
        /\ attempt' = [attempt EXCEPT ![e] = "observed"]
        /\ kind' = IF result = "success" THEN "native_capability_success"
                   ELSE "native_capability_failure"
        /\ pc = "answered" /\ pc' = "account"
        /\ UNCHANGED <<status, outcome, cancelReq, books, tasks, hand,
                       result, faults, executed>>
    BY <1>4 DEF ObserveCapability
  <2>2. /\ working.stage = "orient" /\ working.exec \notin {"success", "failure"}
        /\ result \in {"success", "failure"}
    BY <2>1 DEF Inv, Running, Typed
  <2>3. /\ working' \in Checkpoint /\ working'.ev = e
        /\ working'.stage = "orient" /\ working'.exec = result
    BY <1>1, <2>1, <2>2 DEF Checkpoint
  <2>4. ~Committed(e)
    BY <2>2 DEF Committed, Completions
  <2>5. Typed' /\ Held' /\ Running'
    BY <1>0, <1>1, <2>1, <2>3 DEF Inv, Typed, Held, Running
  <2>6. Fresh'
    BY <1>0, <1>1, <2>1, <2>2, <2>3
    DEF Inv, Typed, Fresh, Unstarted, Elsewhere, Oriented, Verdictless
  <2>7. Unsafe'
    BY <1>0, <1>1, <2>1, <2>3 DEF Inv, Typed, Unsafe, UnknownIsMarked,
                                  UnknownWaits, UnsafeRunsOnce
  <2>8. DueKind' /\ Due'
    BY <2>1, <2>2, <2>3 DEF DueKind, Due, Completions
  <2>9. Counted'
    BY <1>1, <2>1, <2>4 DEF Inv, Booked, Counted
  <2> QED BY <2>5, <2>6, <2>7, <2>8, <2>9 DEF Inv, Booked
<1> QED BY <1>2, <1>3, <1>4

-----------------------------------------------------------------------------
(* Steps of the thread that leave the checkpoint, the attempts and the     *)
(* counters alone.                                                         *)
LEMMA ThreadMoves ==
    ASSUME Inv,
           UNCHANGED <<status, outcome, cancelReq, working, attempt, books,
                       tasks, executed>>,
           faults' \in Nat, faults' = 0 => faults = 0,
           result' \in {"none", "success", "failure"},
           Held', Running', UnknownWaits', Due'
    PROVE  Inv'
<1>1. Typed'
  BY DEF Inv, Typed
<1>2. Fresh'
  BY DEF Inv, Fresh, Unstarted, Elsewhere, Oriented, Verdictless
<1>3. UnknownIsMarked' /\ UnsafeRunsOnce'
  BY DEF Inv, Unsafe, UnknownIsMarked, UnsafeRunsOnce
<1>4. DueKind' /\ Counted'
  BY DEF Inv, Booked, DueKind, Counted, Committed
<1> QED BY <1>1, <1>2, <1>3, <1>4 DEF Inv, Unsafe, Booked

(* A thread that comes to rest, or goes on to the observation, holds       *)
(* nothing that the invariant speaks of.                                   *)
LEMMA ThreadRests ==
    ASSUME Inv,
           UNCHANGED <<status, outcome, cancelReq, working, attempt, books,
                       tasks, executed>>,
           faults' \in Nat, faults' = 0 => faults = 0,
           result' \in {"none", "success", "failure"},
           pc' \in {"idle", "down", "observe", "watching", "watched"}
    PROVE  Inv'
<1>1. Held' /\ Running' /\ UnknownWaits' /\ Due'
  BY DEF Held, Running, UnknownWaits, Due
<1> QED BY <1>1, ThreadMoves

LEMMA RestingStep ==
    ASSUME Inv, NEW e \in Events,
           \/ AwaitDecision(e) \/ BeginObservation(e) \/ LifeObserves(e)
           \/ LifeFails(e) \/ FinishObservation(e) \/ Repair(e) \/ Crash
    PROVE  Inv'
<1>1. /\ UNCHANGED <<status, outcome, cancelReq, working, attempt, books,
                     tasks, executed>>
      /\ pc' \in {"idle", "down", "observe", "watching", "watched"}
  BY DEF AwaitDecision, BeginObservation, LifeObserves, LifeFails,
         FinishObservation, Repair, Crash, Mark, Goto, Rest, Quiet, durable,
         history
<1>2. result' \in {"none", "success", "failure"}
  BY DEF AwaitDecision, BeginObservation, LifeObserves, LifeFails,
         FinishObservation, Repair, Crash, Goto, Rest, Inv, Typed
<1>3. faults' = faults \/ faults' = faults + 1
  BY DEF AwaitDecision, BeginObservation, LifeObserves, LifeFails,
         FinishObservation, Repair, Crash, Quiet
<1>4. faults \in Nat
  BY DEF Inv, Typed
<1>5. faults' \in Nat /\ (faults' = 0 => faults = 0)
  BY <1>3, <1>4
<1> QED BY <1>1, <1>2, <1>5, ThreadRests

(* A stop, the return of the code, and what resumes from the checkpoint.   *)
LEMMA ThreadStep ==
    ASSUME Inv, NEW e \in Events,
           \/ StopWork(e) \/ CapabilityReturns(e) \/ ObserveRaises(e)
           \/ CapabilityRaises(e) /\ pc' = "answered"
           \/ ResumeObserved(e) \/ ResumeCompletion(e)
    PROVE  Inv'
<1>1. /\ UNCHANGED <<status, outcome, cancelReq, working, attempt, books,
                     tasks, executed, hand>>
      /\ hand = e /\ pc \in {"loaded", "running", "answered"}
      /\ pc' \in {"answered", "account", "publish"}
      /\ pc' = "answered" => pc = "running"
  BY DEF StopWork, CapabilityReturns, ObserveRaises, CapabilityRaises,
         ResumeObserved, ResumeCompletion, Stepping, Quiet, durable, history,
         Rest
<1>2. working.ev = e /\ status[e] = "processing"
  BY <1>1 DEF Inv, Held
<1>3. result' \in {"success", "failure"}
  BY DEF StopWork, CapabilityReturns, ObserveRaises, CapabilityRaises,
         ResumeObserved, ResumeCompletion, Stepping, Rest
<1>4. faults' \in Nat /\ (faults' = 0 => faults = 0 /\ ~ObserveRaises(e))
  <2>1. faults \in Nat
    BY DEF Inv, Typed
  <2>2. CASE ObserveRaises(e)
    <3>1. faults' = faults + 1
      BY <2>2 DEF ObserveRaises
    <3> QED BY <2>1, <3>1
  <2>3. CASE ~ObserveRaises(e)
    BY <2>1, <2>3 DEF StopWork, CapabilityReturns, CapabilityRaises,
                      ResumeObserved, ResumeCompletion, Quiet
  <2> QED BY <2>2, <2>3
<1>5. Held' /\ Running'
  BY <1>1, <1>2, <1>3 DEF Inv, Held, Running
<1>6. UnknownWaits'
  <2> SUFFICES ASSUME e \notin ReplaySafe, attempt[e] = "started",
                      faults = 0, ~ObserveRaises(e)
               PROVE  /\ pc' \notin {"account", "settle"}
                      /\ pc' = "publish" => e \in cancelReq
    BY <1>1, <1>4 DEF UnknownWaits
  <2>1. /\ working.exec = "started"
        /\ working.stage \in {"orient", "side_effect_recovery"}
    BY <1>2 DEF Inv, Unsafe, UnknownIsMarked
  <2> QED BY <2>1 DEF StopWork, CapabilityReturns, CapabilityRaises,
                      ResumeObserved, ResumeCompletion, Stepping, Completions,
                      Rest
<1>7. Due'
  <2> SUFFICES ASSUME pc' = "account", ~ObserveRaises(e)
               PROVE  Due'
    BY <1>1, <1>4 DEF Due
  <2>1. CASE ResumeObserved(e)
    BY <1>1, <2>1 DEF ResumeObserved, Stepping, Due, Answers
  <2>2. CASE ResumeCompletion(e)
    BY <1>1, <2>2 DEF ResumeCompletion, Due, Inv, Booked, DueKind
  <2> QED BY <2>1, <2>2 DEF StopWork, CapabilityReturns, CapabilityRaises
<1> QED BY <1>1, <1>3, <1>4, <1>5, <1>6, <1>7, ThreadMoves

-----------------------------------------------------------------------------
(* The books: a row that is new is the first task of its event.            *)
LEMMA AccountStep ==
    ASSUME Inv, NEW e \in Events, Account(e)
    PROVE  Inv'
<1>1. /\ hand = e /\ pc = "account" /\ pc' \in {"settle", "publish"}
      /\ pc' = "settle" <=> kind \in Answers
      /\ books' = books \cup {<<e, kind>>}
      /\ tasks' = IF kind \in TaskKinds /\ <<e, kind>> \notin books
                  THEN [tasks EXCEPT ![e] = @ + 1] ELSE tasks
      /\ UNCHANGED <<status, outcome, cancelReq, working, attempt, hand, kind,
                     result, faults, executed>>
  BY DEF Account, Entered, Quiet, history, Answers
<1>2. working.ev = e /\ status[e] = "processing"
  BY <1>1 DEF Inv, Held
<1>3. Typed' /\ Held' /\ Running'
  <2>1. tasks' \in [Events -> Nat]
    BY <1>1 DEF Inv, Typed
  <2> QED BY <1>1, <1>2, <2>1 DEF Inv, Typed, Held, Running
<1>4. Fresh'
  BY <1>1, <1>2
  DEF Inv, Typed, Fresh, Unstarted, Elsewhere, Oriented, Verdictless
<1>5. Unsafe'
  BY <1>1 DEF Inv, Unsafe, UnknownIsMarked, UnknownWaits, UnsafeRunsOnce
<1>6. DueKind' /\ Due'
  BY <1>1 DEF Inv, Booked, DueKind, Due, Answers
<1>7. Counted'
  <2> SUFFICES ASSUME faults = 0, NEW f \in Events, tasks'[f] > 0
               PROVE  /\ tasks'[f] = 1
                      /\ status[f] = "completed" \/ (working.ev = f /\ Committed(f)')
    BY <1>1 DEF Counted
  <2>1. CASE tasks'[f] = tasks[f]
    <3>1. Committed(f) => Committed(f)'
      BY <1>1 DEF Committed
    <3> QED BY <2>1, <3>1 DEF Inv, Booked, Counted
  <2>2. CASE tasks'[f] # tasks[f]
    <3>1. /\ f = e /\ tasks'[e] = tasks[e] + 1
          /\ kind \in TaskKinds /\ <<e, kind>> \notin books
      BY <1>1, <2>2 DEF Inv, Typed
    <3>2. \/ /\ working.stage \in Completions /\ working.due = kind
             /\ kind # "none"
          \/ /\ kind = "native_capability_success"
             /\ working.stage = "orient" /\ working.exec = "success"
      BY <1>1, <3>1 DEF Inv, Booked, Due, TaskKinds
    <3>3. ~Committed(e)
      BY <3>1, <3>2 DEF Committed, Completions
    <3>4. tasks[e] = 0
      BY <1>2, <3>3 DEF Inv, Booked, Counted, Typed
    <3>5. Committed(e)'
      BY <1>1, <3>2 DEF Committed
    <3> QED BY <1>2, <3>1, <3>4, <3>5
  <2> QED BY <2>1, <2>2
<1> QED BY <1>3, <1>4, <1>5, <1>6, <1>7 DEF Inv, Booked

(* After a success of the capability its completion goes on file, with     *)
(* nothing left that is due to the books.                                  *)
LEMMA SettleStep ==
    ASSUME Inv, NEW e \in Events, Settle(e), pc' = "publish"
    PROVE  Inv'
<1>1. /\ hand = e /\ pc = "settle"
      /\ working' = [At("resident_completion") EXCEPT !.good = TRUE]
      /\ UNCHANGED <<status, outcome, cancelReq, attempt, books, tasks, hand,
                     result, faults, executed>>
  BY DEF Settle, Save, Goto, Rest, Quiet, history
<1>2. working.ev = e /\ status[e] = "processing"
  BY <1>1 DEF Inv, Held
<1>3. /\ working' \in Checkpoint /\ working'.ev = e
      /\ working'.stage = "resident_completion" /\ working'.due = "none"
  <2>1. working \in Checkpoint /\ "resident_completion" \in Stages
    BY DEF Inv, Typed, Stages, Completions
  <2> QED BY <1>1, <1>2, <2>1, AtFields DEF Checkpoint
<1>4. Typed' /\ Held' /\ Running'
  BY <1>1, <1>2, <1>3 DEF Inv, Typed, Held, Running
<1>5. Fresh'
  BY <1>1, <1>2, <1>3
  DEF Inv, Fresh, Unstarted, Elsewhere, Oriented, Verdictless
<1>6. Unsafe'
  BY <1>1, <1>3 DEF Inv, Unsafe, UnknownIsMarked, UnknownWaits, UnsafeRunsOnce
<1>7. DueKind' /\ Due'
  BY <1>3 DEF DueKind, Due, Answers
<1>8. Counted'
  BY <1>1, <1>2, <1>3 DEF Inv, Booked, Counted, Committed, Completions
<1> QED BY <1>4, <1>5, <1>6, <1>7, <1>8 DEF Inv, Booked

(* A verdict: of the answer, or of the cancellation.                       *)
LEMMA VerdictStep ==
    ASSUME Inv, NEW e \in Events, Publish(e) \/ AbandonUncertain(e)
    PROVE  Inv'
<1>1. /\ hand = e /\ pc \in {"loaded", "publish"} /\ pc' \in {"idle", "observe"}
      /\ working' = Idle
      /\ status' = [status EXCEPT ![e] = "completed"]
      /\ result' \in {"none", result}
      /\ UNCHANGED <<books, tasks, faults, executed>>
  BY DEF Publish, AbandonUncertain, Goto, Rest, Quiet, history
<1>2. working.ev = e /\ status[e] = "processing"
  BY <1>1 DEF Inv, Held
<1>3. \E v \in Verdicts \cup {"none"} : outcome' = [outcome EXCEPT ![e] = v]
  BY DEF Publish, AbandonUncertain, Inv, Typed, Verdicts
<1>4. attempt' \in {attempt, [attempt EXCEPT ![e] = "abandoned"]}
  BY DEF Publish, AbandonUncertain
<1>5. /\ working' \in Checkpoint /\ working'.ev = NoEvent
      /\ working'.stage = "idle"
  BY <1>1 DEF Idle, Checkpoint, Stages
<1>6. Typed' /\ Held' /\ Running'
  BY <1>1, <1>3, <1>4, <1>5 DEF Inv, Typed, Held, Running
<1>7. Fresh'
  <2>1. Unstarted' /\ Oriented'
    BY <1>1, <1>4, <1>5 DEF Inv, Typed, Fresh, Unstarted, Oriented
  <2>2. Elsewhere'
    BY <1>1, <1>2, <1>4 DEF Inv, Typed, Fresh, Elsewhere
  <2>3. Verdictless'
    BY <1>1, <1>3 DEF Inv, Typed, Fresh, Verdictless
  <2> QED BY <2>1, <2>2, <2>3 DEF Fresh
<1>8. Unsafe'
  <2>1. UnknownIsMarked' /\ UnknownWaits'
    BY <1>1, <1>5, NoEventAssumption DEF UnknownIsMarked, UnknownWaits
  <2>2. UnsafeRunsOnce'
    <3> SUFFICES ASSUME NEW f \in Events \ ReplaySafe, attempt'[f] = "started",
                        faults = 0
                 PROVE  outcome'[f] \in {"none", "cancelled"}
      BY <1>1 DEF Inv, Unsafe, UnsafeRunsOnce
    <3>1. attempt[f] = "started"
      BY <1>4 DEF Inv, Typed
    <3>2. outcome[f] \in {"none", "cancelled"}
      BY <3>1 DEF Inv, Unsafe, UnsafeRunsOnce
    <3>3. CASE f # e
      BY <1>3, <3>2, <3>3 DEF Inv, Typed
    <3>4. CASE f = e
      <4>1. Publish(e) => e \in cancelReq
        BY <3>1, <3>4 DEF Publish, Inv, Unsafe, UnknownWaits
      <4> QED BY <3>4, <4>1 DEF Publish, AbandonUncertain, Inv, Typed
    <3> QED BY <3>3, <3>4
  <2> QED BY <2>1, <2>2 DEF Unsafe
<1>9. DueKind' /\ Due'
  BY <1>1, <1>5 DEF DueKind, Due, Completions
<1>10. Counted'
  <2> SUFFICES ASSUME faults = 0, NEW f \in Events, tasks[f] > 0
               PROVE  tasks[f] = 1 /\ status'[f] = "completed"
    BY <1>1 DEF Counted
  <2> QED BY <1>1, <1>2 DEF Inv, Booked, Counted, Typed
<1> QED BY <1>6, <1>7, <1>8, <1>9, <1>10 DEF Inv, Booked

-----------------------------------------------------------------------------
(* Around the step.                                                        *)
LEMMA ClaimStep ==
    ASSUME Inv, ~Overtaking, NEW e \in Events, Claim(e)
    PROVE  Inv'
<1>1. /\ pc = "idle" /\ pc' = "loaded" /\ hand' = e
      /\ status[e] # "completed"
      /\ status' = [status EXCEPT ![e] = "processing"]
      /\ working' = IF working.ev = e THEN working
                    ELSE [Idle EXCEPT !.ev = e, !.stage = "orient"]
      /\ UNCHANGED <<outcome, cancelReq, attempt, books, tasks, result,
                     faults, executed>>
  BY DEF Claim, Quiet, history
<1>2. working.ev \in {e, NoEvent}
  BY <1>1 DEF Claim, Inv, Typed
<1>3. CASE working.ev = e
  <2>1. working' = working
    BY <1>1, <1>3
  <2>2. Typed' /\ Held' /\ Running'
    BY <1>1, <1>3, <2>1 DEF Inv, Typed, Held, Running
  <2>3. Fresh'
    BY <1>1, <2>1
    DEF Inv, Typed, Fresh, Unstarted, Elsewhere, Oriented, Verdictless
  <2>4. Unsafe'
    BY <1>1, <2>1 DEF Inv, Unsafe, UnknownIsMarked, UnknownWaits,
                      UnsafeRunsOnce
  <2>5. Booked'
    BY <1>1, <2>1 DEF Inv, Typed, Booked, DueKind, Due, Counted, Committed
  <2> QED BY <2>2, <2>3, <2>4, <2>5 DEF Inv
<1>4. CASE working.ev = NoEvent
  <2>1. /\ working' \in Checkpoint /\ working'.ev = e
        /\ working'.stage = "orient" /\ working'.exec = "none"
    BY <1>1, <1>4, NoEventAssumption DEF Idle, Checkpoint, Stages
  <2>2. attempt[e] = "none" /\ tasks[e] = 0
    BY <1>1, <1>4, NoEventAssumption DEF Inv, Fresh, Elsewhere
  <2>3. Typed' /\ Held' /\ Running'
    BY <1>1, <2>1 DEF Inv, Typed, Held, Running
  <2>4. Fresh'
    BY <1>1, <1>4, <2>1, <2>2, NoEventAssumption
    DEF Inv, Typed, Fresh, Unstarted, Elsewhere, Oriented, Verdictless
  <2>5. Unsafe'
    BY <1>1, <2>1, <2>2 DEF Inv, Unsafe, UnknownIsMarked, UnknownWaits,
                            UnsafeRunsOnce
  <2>6. DueKind' /\ Due'
    BY <1>1, <2>1 DEF DueKind, Due, Completions
  <2>7. Counted'
    BY <1>1, <1>4, <2>2, NoEventAssumption DEF Inv, Typed, Booked, Counted
  <2> QED BY <2>3, <2>4, <2>5, <2>6, <2>7 DEF Inv, Booked
<1> QED BY <1>2, <1>3, <1>4

LEMMA AroundStep ==
    ASSUME Inv, Restart \/ (\E e \in Events : RequestCancel(e)) \/ UNCHANGED vars
    PROVE  Inv'
<1>1. CASE Restart
  <2>1. /\ pc = "down" /\ pc' = "idle"
        /\ \A e \in Events :
              /\ status'[e] = "completed" <=> status[e] = "completed"
              /\ status'[e] \in {"pending", "processing", "completed"}
        /\ status' \in [Events -> {"pending", "processing", "completed"}]
        /\ UNCHANGED <<outcome, cancelReq, working, attempt, books, tasks,
                       hand, result, faults, executed>>
    BY <1>1 DEF Restart, Quiet, history, Inv, Typed
  <2>2. Typed' /\ Held' /\ Running'
    BY <2>1 DEF Inv, Typed, Held, Running
  <2>3. Fresh'
    BY <2>1 DEF Inv, Fresh, Unstarted, Elsewhere, Oriented, Verdictless
  <2>4. Unsafe'
    BY <2>1 DEF Inv, Unsafe, UnknownIsMarked, UnknownWaits, UnsafeRunsOnce
  <2>5. Booked'
    BY <2>1 DEF Inv, Booked, DueKind, Due, Counted, Committed
  <2> QED BY <2>2, <2>3, <2>4, <2>5 DEF Inv
<1>2. CASE \E e \in Events : RequestCancel(e)
  <2>1. /\ \A e \in Events : e \in cancelReq => e \in cancelReq'
        /\ UNCHANGED <<status, outcome, working, attempt, books, tasks, pc,
                       hand, result, kind, faults, executed>>
    BY <1>2 DEF RequestCancel, thread, Quiet, history
  <2>2. Typed' /\ Held' /\ Running' /\ Fresh'
    BY <2>1 DEF Inv, Typed, Held, Running, Fresh, Unstarted, Elsewhere,
                Oriented, Verdictless
  <2>3. Unsafe'
    BY <2>1 DEF Inv, Unsafe, UnknownIsMarked, UnknownWaits, UnsafeRunsOnce
  <2>4. Booked'
    BY <2>1 DEF Inv, Booked, DueKind, Due, Counted, Committed
  <2> QED BY <2>2, <2>3, <2>4 DEF Inv
<1>3. CASE UNCHANGED vars
  <2>1. UNCHANGED <<status, outcome, cancelReq, working, attempt, books,
                    tasks, pc, hand, result, kind, faults, executed>>
    BY <1>3 DEF vars, durable, thread, history
  <2>2. Typed' /\ Held' /\ Running' /\ Fresh'
    BY <2>1 DEF Inv, Typed, Held, Running, Fresh, Unstarted, Elsewhere,
                Oriented, Verdictless
  <2>3. Unsafe' /\ Booked'
    BY <2>1 DEF Inv, Unsafe, UnknownIsMarked, UnknownWaits, UnsafeRunsOnce,
                Booked, DueKind, Due, Counted, Committed
  <2> QED BY <2>2, <2>3 DEF Inv
<1> QED BY <1>1, <1>2, <1>3

LEMMA InvStep == ~Overtaking /\ Inv /\ [Next]_vars => Inv'
<1> SUFFICES ASSUME ~Overtaking, Inv, [Next]_vars
             PROVE  Inv'
  OBVIOUS
<1>1. ASSUME NEW e \in Events, Orient(e)
      PROVE  Inv'
  <2>1. CASE CapabilityRaises(e)
    <3>1. pc' \in {"answered", "idle"}
      BY <2>1 DEF CapabilityRaises, Rest
    <3> QED BY <2>1, <3>1, MovingOnStep, ThreadStep
  <2> QED BY <1>1, <2>1, CompletionStep, MovingOnStep, CapabilityStep,
             RestingStep, ThreadStep DEF Orient
<1>2. ASSUME NEW e \in Events, Settle(e)
      PROVE  Inv'
  <2>1. pc' \in {"publish", "idle"}
    BY <1>2 DEF Settle, Goto, Rest
  <2> QED BY <1>2, <2>1, MovingOnStep, SettleStep
<1>3. CASE LifeStep
  BY <1>1, <1>2, <1>3, ClaimStep, VerdictStep, CompletionStep, AccountStep,
     RestingStep, ThreadStep
  DEF LifeStep
<1>4. CASE Fault
  BY <1>4, ThreadStep, RaisingStep, RestingStep DEF Fault
<1>5. CASE Crash
  <2>1. CASE Events = {}
    <3>1. /\ UNCHANGED <<status, outcome, cancelReq, working, attempt, books,
                         tasks, executed, faults>>
          /\ pc' = "down" /\ result' = "none" /\ faults \in Nat
      BY <1>5 DEF Crash, durable, history, Inv, Typed
    <3> QED BY <3>1, ThreadRests
  <2> QED BY <1>5, <2>1, RestingStep
<1> QED BY <1>3, <1>4, <1>5, AroundStep DEF Next

-----------------------------------------------------------------------------
(* Code that is not replay safe runs once per event, through any number of *)
(* crashes and stop requests, and while it is unknown what it did its      *)
(* event gets no verdict but a cancellation.                               *)
THEOREM UnsafeNeverRepeats ==
    ASSUME ~Overtaking
    PROVE  Spec => []UnsafeRunsOnce
<1>1. Inv /\ [Next]_vars => Inv'
  BY InvStep
<1>2. Inv => UnsafeRunsOnce
  BY DEF Inv, Unsafe
<1> QED BY <1>1, <1>2, InitInv, PTL DEF Spec

(* While no step has raised, an event is at most one task of the books,    *)
(* whatever died between the books, the completion and the verdict.        *)
THEOREM OneTaskPerEvent ==
    ASSUME ~Overtaking
    PROVE  Spec => []TaskCountedOnce
<1>1. Inv /\ [Next]_vars => Inv'
  BY InvStep
<1>2. Inv => TaskCountedOnce
  BY DEF Inv, Typed, Booked, Counted, TaskCountedOnce
<1> QED BY <1>1, <1>2, InitInv, PTL DEF Spec

-----------------------------------------------------------------------------
(* Truth of the books.  A completion on file agrees with what is due for   *)
(* it; a row that is due agrees with the answer; a verdict that is about   *)
(* to be published is booked, or a stop request will turn it.              *)
Successes == TaskKinds \ {"terminal_failure"}
Failures == {"terminal_failure", "external_completion"}

Agrees(answer, k) ==
    \/ answer = "success" /\ k \in Successes
    \/ answer = "failure" /\ k \in Failures

Answer == IF working.good THEN "success" ELSE "failure"

Filed ==
    working.stage \in Completions =>
        \/ /\ working.due = "none" /\ working.good
           /\ <<working.ev, "native_capability_success">> \in books
        \/ Agrees(Answer, working.due)

DueAgrees ==
    pc \in {"account", "settle"} =>
        \/ kind = "native_capability_failure"
        \/ Agrees(result, kind)

SettledIsBooked ==
    pc = "settle" => kind \in Answers /\ <<hand, kind>> \in books

PublishedIsBooked ==
    pc = "publish" =>
        \/ hand \in cancelReq
        \/ \E k \in Kinds : Agrees(result, k) /\ <<hand, k>> \in books

VerdictsAreBooked ==
    \A e \in Events :
        /\ outcome[e] = "success" => \E k \in Successes : <<e, k>> \in books
        /\ outcome[e] = "failure" => \E k \in Failures : <<e, k>> \in books

Filing == Filed /\ DueAgrees /\ SettledIsBooked /\ PublishedIsBooked
             /\ VerdictsAreBooked

LEMMA InitFiling == Init => Filing
BY DEF Init, Idle, Filing, Filed, DueAgrees, SettledIsBooked,
       PublishedIsBooked, VerdictsAreBooked, Completions

(* A completion that is saved is due to be booked as what it is.           *)
LEMMA CompletionIsDue ==
    ASSUME Inv, Filing, NEW e \in Events,
           Recall(e) \/ Investigate(e) \/ FailTerminally(e) \/ StepRaises(e)
    PROVE  Filing'
<1>1. PICK stage \in Completions, due \in Kinds, good \in BOOLEAN :
         /\ Complete(stage, due, good)
         /\ Agrees(IF good THEN "success" ELSE "failure", due)
  <2>1. /\ Completions \subseteq Stages /\ TaskKinds \subseteq Kinds
        /\ Agrees("success", "memory_success")
        /\ Agrees("success", "native_investigation_success")
        /\ Agrees("success", "external_completion")
        /\ Agrees("failure", "external_completion")
        /\ Agrees("failure", "terminal_failure")
    BY DEF Agrees, Successes, Failures, TaskKinds, Kinds, Stages
  <2>2. CASE Recall(e)
    <3>1. Complete("resident_completion", "memory_success", TRUE)
      BY <2>2 DEF Recall
    <3> QED BY <2>1, <3>1 DEF Completions, TaskKinds
  <2>3. CASE FailTerminally(e) \/ StepRaises(e)
    <3>1. Complete("terminal_failure", "terminal_failure", FALSE)
      BY <2>3 DEF FailTerminally, StepRaises
    <3> QED BY <2>1, <3>1 DEF Completions, TaskKinds
  <2>4. CASE Investigate(e)
    <3>1. CASE Complete("investigation_completion",
                        "native_investigation_success", TRUE)
      BY <2>1, <3>1 DEF Completions, TaskKinds
    <3>2. ASSUME NEW good \in BOOLEAN,
                 Complete("external_completion", "external_completion", good)
          PROVE  /\ Agrees(IF good THEN "success" ELSE "failure",
                           "external_completion")
                 /\ "external_completion" \in Completions \cap Kinds
      BY <2>1 DEF Completions, TaskKinds
    <3> QED BY <2>4, <3>1, <3>2 DEF Investigate
  <2> QED BY <2>2, <2>3, <2>4
<1>2. /\ working' = [At(stage) EXCEPT !.due = due, !.good = good]
      /\ result' = IF good THEN "success" ELSE "failure"
      /\ pc' = "account" /\ kind' = due
      /\ UNCHANGED <<outcome, books>>
  BY <1>1 DEF Complete, Save
<1>3. working'.due = due /\ working'.good = good
  BY <1>2 DEF At, Inv, Typed, Checkpoint
<1>4. Filed' /\ DueAgrees'
  BY <1>1, <1>2, <1>3 DEF Filed, DueAgrees, Answer
<1>5. SettledIsBooked' /\ PublishedIsBooked' /\ VerdictsAreBooked'
  BY <1>2 DEF Filing, SettledIsBooked, PublishedIsBooked, VerdictsAreBooked
<1> QED BY <1>4, <1>5 DEF Filing

(* An answer of a capability, now or from the checkpoint.                  *)
LEMMA AnswerIsDue ==
    ASSUME Inv, Filing, NEW e \in Events,
           ObserveCapability(e) \/ ObserveRaises(e) \/ ResumeObserved(e)
    PROVE  Filing'
<1>1. /\ pc' = "account"
      /\ UNCHANGED <<outcome, books>>
      /\ \/ kind' = "native_capability_failure"
         \/ kind' = "native_capability_success" /\ result' = "success"
  BY DEF ObserveCapability, ObserveRaises, ResumeObserved, durable
<1>2. Filed'
  <2>1. working.stage = "orient"
    BY DEF ObserveCapability, ObserveRaises, ResumeObserved, Stepping, Inv,
           Running
  <2>2. working' \in {working, [working EXCEPT !.exec = result]}
    BY DEF ObserveCapability, ObserveRaises, ResumeObserved, durable
  <2>3. working'.stage = "orient"
    BY <2>1, <2>2 DEF Inv, Typed, Checkpoint
  <2> QED BY <2>3 DEF Filed, Completions
<1>3. DueAgrees'
  BY <1>1 DEF DueAgrees, Agrees, Successes, TaskKinds
<1>4. SettledIsBooked' /\ PublishedIsBooked' /\ VerdictsAreBooked'
  BY <1>1 DEF Filing, SettledIsBooked, PublishedIsBooked, VerdictsAreBooked
<1> QED BY <1>2, <1>3, <1>4 DEF Filing

LEMMA ResumedIsDue ==
    ASSUME Inv, Filing, NEW e \in Events, ResumeCompletion(e)
    PROVE  Filing'
<1>1. /\ hand = e /\ hand' = hand /\ working.stage \in Completions
      /\ result' = IF working.good THEN "success" ELSE "failure"
      /\ kind' = working.due
      /\ pc' = IF working.due = "none" THEN "publish" ELSE "account"
      /\ UNCHANGED <<outcome, cancelReq, books, working>>
  BY DEF ResumeCompletion, durable
<1>2. working.ev = e /\ working.good \in BOOLEAN
  BY DEF ResumeCompletion, Inv, Held, Typed, Checkpoint
<1>3. Filed' /\ SettledIsBooked' /\ VerdictsAreBooked'
  BY <1>1 DEF Filing, Filed, Answer, SettledIsBooked, VerdictsAreBooked
<1>4. DueAgrees'
  BY <1>1, <1>2 DEF Filing, Filed, DueAgrees, Answer
<1>5. PublishedIsBooked'
  <2> SUFFICES ASSUME working.due = "none"
               PROVE  PublishedIsBooked'
    BY <1>1 DEF PublishedIsBooked
  <2>1. working.good /\ <<e, "native_capability_success">> \in books
    BY <1>1, <1>2 DEF Filing, Filed, Agrees, Successes, Failures, TaskKinds
  <2>2. /\ "native_capability_success" \in Kinds
        /\ Agrees("success", "native_capability_success")
    BY DEF Kinds, TaskKinds, Agrees, Successes
  <2> QED BY <1>1, <2>1, <2>2 DEF PublishedIsBooked
<1> QED BY <1>3, <1>4, <1>5 DEF Filing

(* A row that is entered is the one that was due.                          *)
LEMMA EnteredAsDue ==
    ASSUME Inv, Filing, NEW e \in Events, Account(e)
    PROVE  Filing'
<1>1. /\ hand = e /\ hand' = hand /\ pc = "account"
      /\ pc' \in {"settle", "publish"}
      /\ pc' = "settle" <=> kind \in Answers
      /\ books' = books \cup {<<e, kind>>}
      /\ UNCHANGED <<outcome, cancelReq, working, kind, result>>
  BY DEF Account, Answers
<1>2. Filed' /\ DueAgrees' /\ SettledIsBooked' /\ VerdictsAreBooked'
  BY <1>1 DEF Filing, Filed, Answer, DueAgrees, SettledIsBooked, VerdictsAreBooked
<1>3. PublishedIsBooked'
  <2> SUFFICES ASSUME pc' = "publish"
               PROVE  PublishedIsBooked'
    BY DEF PublishedIsBooked
  <2>1. Agrees(result, kind)
    BY <1>1 DEF Filing, DueAgrees, Answers
  <2>2. kind \in Kinds
    BY <2>1 DEF Agrees, Successes, Failures, Kinds, TaskKinds
  <2> QED BY <1>1, <2>1, <2>2 DEF PublishedIsBooked
<1> QED BY <1>2, <1>3 DEF Filing

LEMMA SettledAsBooked ==
    ASSUME Inv, Filing, NEW e \in Events, Settle(e)
    PROVE  Filing'
<1>1. /\ hand = e /\ pc = "settle"
      /\ UNCHANGED <<outcome, cancelReq, books>>
      /\ working.ev = e /\ working \in Checkpoint
  BY DEF Settle, Save, Inv, Held, Typed
<1>2. VerdictsAreBooked'
  BY <1>1 DEF Filing, VerdictsAreBooked
<1>3. CASE kind = "native_capability_success"
  <2>1. /\ working' = [At("resident_completion") EXCEPT !.good = TRUE]
        /\ pc' = "publish" /\ UNCHANGED <<hand, result>>
    BY <1>3 DEF Settle, Save, Goto
  <2>2. working'.ev = e /\ working'.due = "none" /\ working'.good
    BY <1>1, <2>1 DEF At, Checkpoint
  <2>3. <<e, "native_capability_success">> \in books
    BY <1>1, <1>3 DEF Filing, SettledIsBooked
  <2>4. Filed'
    BY <1>1, <2>2, <2>3 DEF Filed
  <2>5. Agrees(result, kind) /\ kind \in Kinds
    BY <1>1, <1>3 DEF Filing, DueAgrees, Kinds, TaskKinds
  <2>6. PublishedIsBooked'
    BY <1>1, <1>3, <2>1, <2>3, <2>5 DEF PublishedIsBooked
  <2> QED BY <1>2, <2>1, <2>4, <2>6 DEF Filing, DueAgrees, SettledIsBooked
<1>4. CASE kind # "native_capability_success"
  <2>1. working' = At("native_investigation") /\ pc' = "idle"
    BY <1>4 DEF Settle, Save, Rest
  <2>2. working'.stage = "native_investigation"
    BY <1>1, <2>1 DEF At, Checkpoint
  <2> QED BY <1>2, <2>1, <2>2 DEF Filing, Filed, DueAgrees, SettledIsBooked,
                                  PublishedIsBooked, Completions
<1> QED BY <1>3, <1>4

(* The verdict is the booked one, or a cancellation.                       *)
LEMMA PublishedAsBooked ==
    ASSUME Inv, Filing, NEW e \in Events, Publish(e) \/ AbandonUncertain(e)
    PROVE  Filing'
<1>1. /\ hand = e /\ pc' \in {"idle", "observe"}
      /\ working' = Idle /\ books' = books
  BY DEF Publish, AbandonUncertain, Goto, Rest
<1>2. Filed' /\ DueAgrees' /\ SettledIsBooked' /\ PublishedIsBooked'
  BY <1>1 DEF Filed, DueAgrees, SettledIsBooked, PublishedIsBooked, Idle,
              Completions
<1>3. VerdictsAreBooked'
  <2>1. CASE outcome' = [outcome EXCEPT ![e] = "cancelled"]
    BY <1>1, <2>1 DEF Filing, VerdictsAreBooked, Inv, Typed
  <2>2. CASE outcome' # [outcome EXCEPT ![e] = "cancelled"]
    <3>1. /\ pc = "publish" /\ e \notin cancelReq
          /\ outcome' = [outcome EXCEPT ![e] = result]
      BY <2>2 DEF Publish, AbandonUncertain
    <3>2. PICK k \in Kinds :
             Agrees(result, k) /\ <<e, k>> \in books
      BY <1>1, <3>1 DEF Filing, PublishedIsBooked
    <3>3. /\ result = "success" => k \in Successes
          /\ result = "failure" => k \in Failures
      BY <3>2 DEF Agrees
    <3> QED BY <1>1, <3>1, <3>2, <3>3 DEF Filing, VerdictsAreBooked, Inv, Typed
  <2> QED BY <2>1, <2>2
<1> QED BY <1>2, <1>3 DEF Filing

(* Everything else leaves the books, the verdicts and what is due alone.   *)
LEMMA FilingKept ==
    ASSUME Filing, books' = books, outcome' = outcome,
           \/ working' = working
           \/ working'.stage \notin Completions,
           \/ pc' \notin {"account", "settle", "publish"}
           \/ pc' = "publish" /\ hand' \in cancelReq'
           \/ /\ UNCHANGED <<pc, hand, result, kind>>
              /\ \A e \in Events : e \in cancelReq => e \in cancelReq'
              /\ hand \in cancelReq => hand \in cancelReq'
    PROVE  Filing'
BY DEF Filing, Filed, Answer, DueAgrees, SettledIsBooked, PublishedIsBooked,
       VerdictsAreBooked

LEMMA OtherFiling ==
    ASSUME Inv, Filing, NEW e \in Events,
           \/ Claim(e) \/ StopWork(e) \/ NothingLocal(e) \/ StartCapability(e)
           \/ RunAgain(e) \/ RefuseReplay(e) \/ AwaitDecision(e)
           \/ CapabilityReturns(e) \/ CapabilityRaises(e)
           \/ BeginObservation(e) \/ LifeObserves(e) \/ LifeFails(e)
           \/ FinishObservation(e) \/ Repair(e) \/ RequestCancel(e)
    PROVE  Filing'
<1>0. working \in Checkpoint
  BY DEF Inv, Typed
<1>1. books' = books /\ outcome' = outcome
  BY DEF Claim, StopWork, NothingLocal, StartCapability, RunAgain,
         RefuseReplay, AwaitDecision, CapabilityReturns, CapabilityRaises,
         BeginObservation, LifeObserves, LifeFails, FinishObservation, Repair,
         RequestCancel, Save, Mark, durable
<1>2. working' = working \/ working'.stage \notin Completions
  <2>1. CASE Claim(e)
    BY <2>1 DEF Claim, Idle, Completions
  <2>2. CASE NothingLocal(e) \/ RefuseReplay(e) \/ CapabilityRaises(e)
    <3>1. working' = working \/ working' = At("native_investigation")
             \/ working' = Recovery
      BY <2>2 DEF NothingLocal, RefuseReplay, CapabilityRaises, Save, durable
    <3>2. /\ At("native_investigation").stage = "native_investigation"
          /\ Recovery.stage = "side_effect_recovery"
      BY <1>0 DEF At, Recovery, Checkpoint
    <3> QED BY <3>1, <3>2 DEF Completions
  <2>3. CASE StartCapability(e)
    BY <1>0, <2>3 DEF StartCapability, Stepping, Completions, Checkpoint
  <2> QED BY <2>1, <2>2, <2>3
          DEF StopWork, RunAgain, AwaitDecision, CapabilityReturns,
              BeginObservation, LifeObserves, LifeFails, FinishObservation,
              Repair, RequestCancel, Mark, durable
<1>3. \/ pc' \notin {"account", "settle", "publish"}
      \/ pc' = "publish" /\ hand' \in cancelReq'
      \/ /\ UNCHANGED <<pc, hand, result, kind>>
         /\ cancelReq \subseteq cancelReq'
  BY DEF Claim, StopWork, NothingLocal, StartCapability, RunAgain, RunCapability,
         RefuseReplay, AwaitDecision, CapabilityReturns, CapabilityRaises,
         BeginObservation, LifeObserves, LifeFails, FinishObservation, Repair,
         RequestCancel, Rest, Goto, durable, thread
<1> QED BY <1>1, <1>2, <1>3, FilingKept

LEMMA FilingStep == Inv /\ Filing /\ [Next]_vars => Filing'
<1> SUFFICES ASSUME Inv, Filing, [Next]_vars
             PROVE  Filing'
  OBVIOUS
<1>1. CASE LifeStep
  BY <1>1, CompletionIsDue, AnswerIsDue, ResumedIsDue, EnteredAsDue,
     SettledAsBooked, PublishedAsBooked, OtherFiling
  DEF LifeStep, Orient
<1>2. CASE Fault
  BY <1>2, CompletionIsDue, AnswerIsDue, OtherFiling DEF Fault
<1>3. CASE Crash \/ Restart
  <2>1. books' = books /\ outcome' = outcome /\ working' = working
        /\ pc' \in {"down", "idle"}
    BY <1>3 DEF Crash, Restart, durable
  <2> QED BY <2>1, FilingKept
<1>4. CASE UNCHANGED vars
  BY <1>4, FilingKept DEF vars, durable, thread
<1> QED BY <1>1, <1>2, <1>3, <1>4, OtherFiling DEF Next

(* A failure that is booked against a capability is no answer of success,  *)
(* and its code does not run again.                                        *)
MayRun == working.stage = "orient" /\ working.exec # "failure"

Blame(e) ==
    /\ <<e, "native_capability_failure">> \in books =>
          /\ returned[e] # "success"
          /\ status[e] = "completed" \/ (working.ev = e /\ ~MayRun)
    /\ working.ev = e /\ working.stage = "orient" /\ working.exec = "failure" =>
          returned[e] # "success"
    /\ hand = e /\ (pc = "running" \/ (pc = "answered" /\ result = "failure")) =>
          returned[e] # "success"

Blamed ==
    /\ returned \in [Events -> {"none", "success", "failure"}]
    /\ faults = 0 => \A e \in Events : Blame(e)

LEMMA InitBlamed == Init => Blamed
BY DEF Init, Idle, Blamed, Blame

(* Steps that neither run code nor book a failure.                         *)
LEMMA BlameKept ==
    ASSUME Blamed, returned' = returned, faults' = faults,
           \A f \in Events : <<f, "native_capability_failure">> \in books' =>
                                <<f, "native_capability_failure">> \in books,
           \A f \in Events : status[f] = "completed" => status'[f] = "completed",
           \A f \in Events : working.ev = f /\ status'[f] # "completed" =>
                                working'.ev = f,
           working' = working \/ ~MayRun' \/ ~(\E f \in Events :
              working'.ev = f /\ <<f, "native_capability_failure">> \in books),
           \A f \in Events :
              working'.ev = f /\ working'.stage = "orient"
                 /\ working'.exec = "failure" => returned[f] # "success",
           pc' \notin {"running", "answered"} \/ UNCHANGED <<pc, hand, result>>
    PROVE  Blamed'
<1> SUFFICES ASSUME faults = 0, NEW f \in Events
             PROVE  Blame(f)'
  BY DEF Blamed
<1>1. Blame(f)
  BY DEF Blamed
<1> QED BY <1>1 DEF Blame, MayRun

LEMMA BlameStep ==
    ASSUME Inv, Blamed, NEW e \in Events,
           \/ Recall(e) \/ NothingLocal(e) \/ RefuseReplay(e) \/ Settle(e)
           \/ Investigate(e) \/ FailTerminally(e)
           \/ CapabilityRaises(e) /\ pc' = "idle"
    PROVE  Blamed'
<1>0. working \in Checkpoint
  BY DEF Inv, Typed
<1>1. /\ UNCHANGED <<books, status, returned, faults>>
      /\ pc' \in {"idle", "account", "publish"}
  <2>1. CASE Recall(e) \/ Investigate(e) \/ FailTerminally(e)
    <3>1. ASSUME NEW stage, NEW due, NEW good, Complete(stage, due, good), Quiet
          PROVE  /\ UNCHANGED <<books, status, returned, faults>>
                 /\ pc' = "account"
      BY <3>1 DEF Complete, Save, Quiet, history
    <3> QED BY <2>1, <3>1 DEF Recall, Investigate, FailTerminally
  <2>2. CASE NothingLocal(e) \/ RefuseReplay(e)
    BY <2>2 DEF NothingLocal, RefuseReplay, Save, Rest, Quiet, history
  <2>3. CASE Settle(e)
    BY <2>3 DEF Settle, Save, Rest, Goto, Quiet, history
  <2>4. CASE CapabilityRaises(e) /\ pc' = "idle"
    BY <2>4 DEF CapabilityRaises, Save, Rest, Quiet, history
  <2> QED BY <2>1, <2>2, <2>3, <2>4
<1>2. working'.ev = working.ev /\ working'.stage # "orient"
  <2>1. CASE Recall(e) \/ Investigate(e) \/ FailTerminally(e)
    <3>1. PICK stage \in Completions, due \in Kinds, good \in BOOLEAN :
             Complete(stage, due, good)
      BY <2>1 DEF Recall, Investigate, FailTerminally, Completions, Kinds,
                  TaskKinds
    <3> QED BY <1>0, <3>1, CompleteFields DEF Completions
  <2>2. CASE NothingLocal(e) \/ RefuseReplay(e) \/ Settle(e)
             \/ (CapabilityRaises(e) /\ pc' = "idle")
    <3>1. \/ working' = At("native_investigation")
          \/ working' = [At("resident_completion") EXCEPT !.good = TRUE]
          \/ working' = Recovery
      BY <2>2 DEF NothingLocal, RefuseReplay, Settle, CapabilityRaises, Save
    <3> QED BY <1>0, <3>1 DEF At, Recovery, Checkpoint
  <2> QED BY <2>1, <2>2
<1> QED BY <1>1, <1>2, BlameKept DEF MayRun

LEMMA BlameByCapability ==
    ASSUME Inv, Blamed, NEW e \in Events,
           \/ StartCapability(e) \/ RunAgain(e) \/ CapabilityReturns(e)
           \/ CapabilityRaises(e) /\ pc' = "answered"
           \/ ObserveCapability(e)
    PROVE  Blamed'
<1>1. /\ hand = e /\ hand' = e /\ working.ev = e /\ working \in Checkpoint
      /\ working.stage = "orient" /\ working.exec \notin {"success", "failure"}
      /\ status[e] = "processing"
      /\ returned \in [Events -> {"none", "success", "failure"}]
      /\ UNCHANGED <<books, status, faults>>
  BY DEF StartCapability, RunAgain, RunCapability, CapabilityReturns,
         CapabilityRaises, ObserveCapability, Stepping, Inv, Held, Running,
         Typed, Quiet, durable, Rest, Blamed
<1>2. faults = 0 => <<e, "native_capability_failure">> \notin books
  BY <1>1 DEF Blamed, Blame, MayRun
<1>3. /\ returned' \in [Events -> {"none", "success", "failure"}]
      /\ \A f \in Events \ {e} : returned'[f] = returned[f]
  BY <1>1 DEF StartCapability, RunAgain, RunCapability, CapabilityReturns,
              CapabilityRaises, ObserveCapability, Quiet, history
<1>4. working'.ev = e
  BY <1>1 DEF StartCapability, RunAgain, CapabilityReturns, CapabilityRaises,
              ObserveCapability, durable, Checkpoint, Rest
<1>5. ASSUME faults = 0
      PROVE  Blame(e)'
  <2>1. CASE StartCapability(e) \/ RunAgain(e)
    <3>1. returned'[e] = "none"
      BY <1>1, <2>1 DEF StartCapability, RunAgain, RunCapability
    <3> QED BY <1>1, <1>2, <1>5, <3>1 DEF Blame
  <2>2. CASE CapabilityReturns(e)
    BY <1>1, <1>2, <1>5, <2>2 DEF CapabilityReturns, Blame, durable
  <2>3. CASE CapabilityRaises(e) /\ pc' = "answered"
    <3>1. /\ pc = "running" /\ returned' = returned
          /\ working' = working \/ pc' = "idle"
      BY <2>3 DEF CapabilityRaises, Quiet, history, durable, Rest
    <3>2. pc' = "answered" /\ working' = working
      BY <2>3, <3>1
    <3>3. Blame(e)
      BY <1>5 DEF Blamed
    <3>4. returned[e] # "success"
      BY <1>1, <3>1, <3>3 DEF Blame
    <3> QED BY <1>1, <1>2, <1>5, <3>1, <3>2, <3>4 DEF Blame
  <2>4. CASE ObserveCapability(e)
    <3>1. /\ working' = [working EXCEPT !.exec = result]
          /\ pc = "answered" /\ pc' = "account" /\ returned' = returned
      BY <2>4 DEF ObserveCapability, Quiet, history
    <3>2. working'.exec = result
      BY <1>1, <3>1 DEF Checkpoint
    <3>3. result = "failure" => returned[e] # "success"
      BY <1>1, <1>5, <3>1 DEF Blamed, Blame
    <3> QED BY <1>1, <1>2, <1>5, <3>1, <3>2, <3>3 DEF Blame
  <2> QED BY <2>1, <2>2, <2>3, <2>4
<1>6. ASSUME faults = 0, NEW f \in Events \ {e}
      PROVE  Blame(f)'
  BY <1>1, <1>3, <1>4, <1>6 DEF Blamed, Blame
<1> QED BY <1>1, <1>3, <1>5, <1>6 DEF Blamed

LEMMA BlameByAccount ==
    ASSUME Inv, Blamed, NEW e \in Events, Account(e)
    PROVE  Blamed'
<1>1. /\ hand = e /\ pc = "account" /\ pc' \in {"settle", "publish"}
      /\ books' = books \cup {<<e, kind>>}
      /\ UNCHANGED <<status, working, hand, result, returned, faults>>
  BY DEF Account, Quiet, history
<1>2. working.ev = e
  BY <1>1 DEF Inv, Held
<1> SUFFICES ASSUME faults = 0, NEW f \in Events
             PROVE  Blame(f)'
  BY <1>1 DEF Blamed
<1>3. CASE f = e /\ kind = "native_capability_failure"
  <2>1. working.stage = "orient" /\ working.exec = "failure"
    BY <1>1, <1>3 DEF Inv, Booked, Due, Answers
  <2> QED BY <1>1, <1>2, <1>3, <2>1 DEF Blamed, Blame, MayRun
<1>4. CASE ~(f = e /\ kind = "native_capability_failure")
  <2>1. <<f, "native_capability_failure">> \in books' =>
           <<f, "native_capability_failure">> \in books
    BY <1>1, <1>4
  <2> QED BY <1>1, <2>1 DEF Blamed, Blame, MayRun
<1> QED BY <1>3, <1>4

LEMMA BlameByVerdict ==
    ASSUME Inv, Blamed, NEW e \in Events, Publish(e) \/ AbandonUncertain(e)
    PROVE  Blamed'
<1>1. /\ hand = e /\ pc' \in {"idle", "observe"} /\ working' = Idle
      /\ status' = [status EXCEPT ![e] = "completed"]
      /\ UNCHANGED <<books, returned, faults>>
  BY DEF Publish, AbandonUncertain, Goto, Rest, Quiet, history
<1>2. working.ev = e /\ status'[e] = "completed"
  BY <1>1 DEF Publish, AbandonUncertain, Inv, Held, Typed
<1>3. \A f \in Events : status[f] = "completed" => status'[f] = "completed"
  BY <1>1 DEF Inv, Typed
<1>4. working'.stage = "idle"
  BY <1>1 DEF Idle
<1> QED BY <1>1, <1>2, <1>3, <1>4, BlameKept DEF MayRun

LEMMA BlameByClaim ==
    ASSUME Inv, Blamed, ~Overtaking, NEW e \in Events, Claim(e)
    PROVE  Blamed'
<1>1. /\ pc' = "loaded" /\ status[e] # "completed"
      /\ status' = [status EXCEPT ![e] = "processing"]
      /\ working' = IF working.ev = e THEN working
                    ELSE [Idle EXCEPT !.ev = e, !.stage = "orient"]
      /\ UNCHANGED <<books, returned, faults>>
  BY DEF Claim, Quiet, history
<1>2. working.ev \in {e, NoEvent}
  BY <1>1 DEF Claim, Inv, Typed
<1>3. \A f \in Events : status'[f] = "completed" <=> status[f] = "completed"
  BY <1>1 DEF Inv, Typed
<1>4. CASE working.ev = e
  BY <1>1, <1>3, <1>4 DEF Blamed, Blame, MayRun
<1>5. CASE working.ev = NoEvent
  <2> SUFFICES ASSUME faults = 0, NEW f \in Events
               PROVE  Blame(f)'
    BY <1>1 DEF Blamed
  <2>1. working'.exec = "none"
    BY <1>1, <1>5, NoEventAssumption DEF Idle
  <2>2. <<f, "native_capability_failure">> \in books =>
           returned[f] # "success" /\ status[f] = "completed"
    BY <1>5, NoEventAssumption DEF Blamed, Blame
  <2> QED BY <1>1, <1>3, <2>1, <2>2 DEF Blame
<1> QED BY <1>2, <1>4, <1>5

LEMMA BlameByRest ==
    ASSUME Inv, Blamed,
           \/ \E e \in Events :
                 \/ StopWork(e) \/ AwaitDecision(e) \/ ResumeObserved(e)
                 \/ ResumeCompletion(e) \/ BeginObservation(e)
                 \/ LifeObserves(e) \/ FinishObservation(e) \/ Repair(e)
                 \/ RequestCancel(e)
           \/ Crash \/ Restart \/ UNCHANGED vars
    PROVE  Blamed'
<1>1. UNCHANGED <<books, working, returned, faults>>
  BY DEF StopWork, AwaitDecision, ResumeObserved, ResumeCompletion,
         BeginObservation, LifeObserves, FinishObservation, Repair,
         RequestCancel, Crash, Restart, Mark, Quiet, history, durable, vars
<1>2. \A f \in Events : status[f] = "completed" <=> status'[f] = "completed"
  BY DEF StopWork, AwaitDecision, ResumeObserved, ResumeCompletion,
         BeginObservation, LifeObserves, FinishObservation, Repair,
         RequestCancel, Crash, Restart, Mark, durable, vars, Inv, Typed
<1>3. pc' \notin {"running", "answered"} \/ UNCHANGED <<pc, hand, result>>
  BY DEF StopWork, AwaitDecision, ResumeObserved, ResumeCompletion,
         BeginObservation, LifeObserves, FinishObservation, Repair,
         RequestCancel, Crash, Restart, Goto, Rest, thread, vars
<1> SUFFICES ASSUME faults = 0, NEW f \in Events
             PROVE  Blame(f)'
  BY <1>1 DEF Blamed
<1> QED BY <1>1, <1>2, <1>3 DEF Blamed, Blame, MayRun

LEMMA BlameByFault ==
    ASSUME Inv, Blamed, Fault
    PROVE  Blamed'
<1>1. faults' = faults + 1 /\ returned' = returned
  BY DEF Fault, ObserveRaises, StepRaises, LifeFails, history
<1>2. faults' # 0
  BY <1>1 DEF Inv, Typed
<1> QED BY <1>1, <1>2 DEF Blamed

LEMMA BlamedStep == ~Overtaking /\ Inv /\ Blamed /\ [Next]_vars => Blamed'
<1> SUFFICES ASSUME ~Overtaking, Inv, Blamed, [Next]_vars
             PROVE  Blamed'
  OBVIOUS
<1>1. ASSUME NEW e \in Events, Orient(e)
      PROVE  Blamed'
  <2>1. CASE CapabilityRaises(e)
    <3>1. pc' \in {"answered", "idle"}
      BY <2>1 DEF CapabilityRaises, Rest
    <3> QED BY <2>1, <3>1, BlameStep, BlameByCapability
  <2> QED BY <1>1, <2>1, BlameStep, BlameByCapability, BlameByRest DEF Orient
<1>2. CASE LifeStep
  BY <1>1, <1>2, BlameByClaim, BlameByVerdict, BlameStep, BlameByAccount,
     BlameByRest
  DEF LifeStep
<1> QED BY <1>2, BlameByFault, BlameByRest DEF Next

LEMMA VerdictsOnFile ==
    ASSUME Filing, Blamed
    PROVE  VerdictIsAccounted
<1> SUFFICES ASSUME NEW e \in Events
    PROVE /\ outcome[e] = "success" =>
                \E k \in TaskKinds \ {"terminal_failure"} : <<e, k>> \in books
          /\ outcome[e] = "failure" =>
                \E k \in {"terminal_failure", "external_completion"} :
                   <<e, k>> \in books
          /\ <<e, "native_capability_failure">> \in books /\ faults = 0 =>
                returned[e] # "success"
  BY Zenon DEF VerdictIsAccounted
<1>1. /\ outcome[e] = "success" => \E k \in Successes : <<e, k>> \in books
      /\ outcome[e] = "failure" => \E k \in Failures : <<e, k>> \in books
  BY DEF Filing, VerdictsAreBooked
<1>2. faults = 0 => Blame(e)
  BY DEF Blamed
<1>3. <<e, "native_capability_failure">> \in books /\ faults = 0 =>
         returned[e] # "success"
  BY <1>2 DEF Blame
<1> QED BY <1>1, <1>3 DEF Successes, Failures

(* While the interrupted event is the next one after a restart, a verdict  *)
(* on file is in the books as what it is, and a capability that answered   *)
(* with success is not held to have failed unless a write raised.          *)
THEOREM VerdictsAreTrue ==
    ASSUME ~Overtaking
    PROVE  Spec => []VerdictIsAccounted
<1> DEFINE Truth == Inv /\ Filing /\ Blamed
<1>1. Init => Truth
  BY InitInv, InitFiling, InitBlamed
<1>2. Truth /\ [Next]_vars => Truth'
  BY InvStep, FilingStep, BlamedStep
<1>3. Truth => VerdictIsAccounted
  BY VerdictsOnFile
<1> QED BY <1>1, <1>2, <1>3, PTL DEF Spec

-----------------------------------------------------------------------------
(* The types, whatever overtakes.                                          *)

Types ==
    /\ status \in [Events -> {"pending", "processing", "completed"}]
    /\ outcome \in [Events -> Verdicts \cup {"none"}]
    /\ cancelReq \subseteq Events
    /\ working \in Checkpoint
    /\ attempt \in [Events -> {"none", "started", "observed", "abandoned"}]
    /\ books \subseteq Events \X Kinds
    /\ tasks \in [Events -> Nat]
    /\ journal \in [Events -> {"none", "pending", "running", "completed"}]
    /\ pc \in {"idle", "loaded", "running", "answered", "account",
               "settle", "publish", "observe", "watching", "watched", "down"}
    /\ hand \in Events \cup {NoEvent}
    /\ result \in {"none", "success", "failure"}
    /\ kind \in Kinds \cup {"none"}
    /\ pc = "account" => kind # "none"
    /\ todo \subseteq Events
    /\ crashes \in 0 .. MaxCrashes
    /\ faults \in 0 .. MaxFaults
    /\ executed \in [Events -> Nat]
    /\ returned \in [Events -> {"none", "success", "failure"}]
    /\ observed \subseteq Events

(* Between two deaths of the process the code of a capability runs once:   *)
(* only a death brings an event back to where its capability may run.      *)
MayRunAgain(e) ==
    /\ working.ev = e /\ working.stage = "orient"
    /\ working.exec \in {"none", "started"}
    /\ ~ (hand = e /\ pc \in {"running", "answered", "account", "settle", "publish"})

RunsPerCrash ==
    \A e \in Events :
        /\ executed[e] <= crashes + 1
        /\ status[e] = "pending" \/ pc = "down" => executed[e] <= crashes
        /\ status[e] = "processing" /\ MayRunAgain(e) => executed[e] <= crashes

(* An event is as many tasks as it has rows of finished tasks.             *)
TaskRows(e) == {k \in TaskKinds : <<e, k>> \in books}

TasksAreRows == \A e \in Events : tasks[e] = Cardinality(TaskRows(e))

Bounded == Types /\ Held /\ RunsPerCrash /\ TasksAreRows

LEMMA TaskKindsFinite == IsFiniteSet(TaskKinds)
<1>1. IsFiniteSet({}) /\ \A S, x : IsFiniteSet(S) => IsFiniteSet(S \cup {x})
  BY FS_EmptySet, FS_AddElement
<1>2. TaskKinds = ((((({} \cup {"memory_success"})
                       \cup {"native_capability_success"})
                       \cup {"native_investigation_success"})
                       \cup {"external_completion"})
                       \cup {"terminal_failure"})
  BY DEF TaskKinds
<1> QED BY <1>1, <1>2, Zenon

LEMMA TaskRowsFinite ==
    \A e \in Events : IsFiniteSet(TaskRows(e))
                      /\ Cardinality(TaskRows(e)) <= Cardinality(TaskKinds)
BY TaskKindsFinite, FS_Subset DEF TaskRows

LEMMA BoundedInit == Init => Bounded
<1> SUFFICES ASSUME Init PROVE Bounded
  OBVIOUS
<1> USE DEF Init, Idle
<1>1. Types
  BY BoundsAssumption
  DEF Types, Verdicts, Checkpoint, Stages, Kinds, TaskKinds, Completions
<1>2. Held
  BY DEF Held
<1>3. RunsPerCrash
  BY DEF RunsPerCrash
<1>4. TasksAreRows
  <2>1. \A e \in Events : TaskRows(e) = {} /\ tasks[e] = 0
    BY DEF TaskRows
  <2> QED BY <2>1, FS_EmptySet DEF TasksAreRows
<1> QED BY <1>1, <1>2, <1>3, <1>4 DEF Bounded

(* Every step keeps the types.                                             *)
LEMMA TypesOfCompletions ==
    ASSUME Types, NEW e \in Events, executed' = executed, returned' = returned,
           observed' = observed, crashes' = crashes, faults' \in 0 .. MaxFaults,
           NEW stage \in Completions, NEW due \in Kinds, NEW good \in BOOLEAN,
           Complete(stage, due, good)
    PROVE  Types'
<1>1. due # "none"
  BY DEF Kinds, TaskKinds
<1>2. journal' = journal /\ todo' = todo
  BY DEF Complete, Save
<1> QED BY <1>1, <1>2, CompleteFields DEF Types

LEMMA TypesOfOrientation ==
    ASSUME Types, NEW e \in Events, Orient(e) \/ Investigate(e) \/ FailTerminally(e)
    PROVE  Types'
<1> USE DEF Types
<1>0. working \in Checkpoint /\ At("native_investigation") \in Checkpoint
      /\ Recovery \in Checkpoint
  BY DEF At, Recovery, Checkpoint, Stages
<1>1. CASE Recall(e) \/ Investigate(e) \/ FailTerminally(e)
  <2>1. PICK stage \in Completions, due \in Kinds, good \in BOOLEAN :
             Complete(stage, due, good)
    BY <1>1 DEF Recall, Investigate, FailTerminally, Completions, Kinds, TaskKinds
  <2>2. UNCHANGED <<crashes, faults, executed, returned, observed>>
    BY <1>1 DEF Recall, Investigate, FailTerminally, Quiet, history
  <2> QED BY <2>1, <2>2, TypesOfCompletions
<1>2. CASE NothingLocal(e) \/ RefuseReplay(e) \/ AwaitDecision(e)
  <2>1. working' \in Checkpoint
        /\ UNCHANGED <<status, outcome, cancelReq, attempt, books, tasks, journal>>
    BY <1>0, <1>2 DEF NothingLocal, RefuseReplay, AwaitDecision, Save, durable
  <2> QED BY <1>2, <2>1 DEF NothingLocal, RefuseReplay, AwaitDecision, Rest, Quiet,
                            history
<1>3. CASE StartCapability(e) \/ RunAgain(e)
  <2>1. working' \in Checkpoint
        /\ attempt' \in [Events -> {"none", "started", "observed", "abandoned"}]
        /\ UNCHANGED <<status, outcome, cancelReq, books, tasks, journal>>
    BY <1>0, <1>3 DEF StartCapability, RunAgain, durable, Checkpoint
  <2>2. RunCapability(e)
    BY <1>3 DEF StartCapability, RunAgain
  <2>3. executed' \in [Events -> Nat]
    BY <2>2 DEF RunCapability
  <2> QED BY <2>1, <2>2, <2>3 DEF RunCapability
<1>4. CASE CapabilityReturns(e)
  <2>1. result' \in {"success", "failure"}
        /\ returned' \in [Events -> {"none", "success", "failure"}]
    BY <1>4 DEF CapabilityReturns
  <2> QED BY <1>4, <2>1 DEF CapabilityReturns, durable
<1>5. CASE CapabilityRaises(e)
  <2>1. CASE pc' = "answered"
    BY <1>5, <2>1 DEF CapabilityRaises, durable, Quiet, history, Rest
  <2>2. CASE pc' # "answered"
    BY <1>0, <1>5, <2>2 DEF CapabilityRaises, Save, Quiet, history, Rest
  <2> QED BY <2>1, <2>2
<1>6. CASE ObserveCapability(e)
  <2>1. working' \in Checkpoint
        /\ attempt' \in [Events -> {"none", "started", "observed", "abandoned"}]
    BY <1>0, <1>6 DEF ObserveCapability, Checkpoint
  <2>2. kind' \in Kinds /\ kind' # "none"
    BY <1>6 DEF ObserveCapability, Kinds, TaskKinds
  <2> QED BY <1>6, <2>1, <2>2 DEF ObserveCapability, Quiet, history
<1>7. CASE ResumeObserved(e)
  BY <1>7 DEF ResumeObserved, durable, Quiet, history, Kinds, TaskKinds
<1> QED BY <1>1, <1>2, <1>3, <1>4, <1>5, <1>6, <1>7 DEF Orient

LEMMA TypesOfTheRest ==
    ASSUME Types, NEW e \in Events,
           \/ Claim(e) \/ StopWork(e) \/ AbandonUncertain(e)
           \/ ResumeCompletion(e) \/ Account(e) \/ Settle(e) \/ Publish(e)
           \/ BeginObservation(e) \/ LifeObserves(e) \/ FinishObservation(e)
           \/ Repair(e) \/ RequestCancel(e)
    PROVE  Types'
<1> USE DEF Types, Quiet, history
<1>0. Idle \in Checkpoint /\ working \in Checkpoint
      /\ At("resident_completion") \in Checkpoint
      /\ At("native_investigation") \in Checkpoint
  BY DEF Idle, At, Checkpoint, Stages, Completions
<1>1. CASE Claim(e)
  <2>1. [Idle EXCEPT !.ev = e, !.stage = "orient"] \in Checkpoint
    BY DEF Idle, Checkpoint, Stages
  <2>2. working' \in Checkpoint
    BY <1>0, <1>1, <2>1 DEF Claim
  <2> QED BY <1>1, <2>2 DEF Claim
<1>2. CASE StopWork(e) \/ ResumeCompletion(e)
  <2>1. working.due \in Kinds \cup {"none"}
    BY <1>0 DEF Checkpoint
  <2> QED BY <1>2, <2>1 DEF StopWork, ResumeCompletion, durable
<1>3. CASE AbandonUncertain(e)
  BY <1>0, <1>3 DEF AbandonUncertain, Rest, Verdicts
<1>4. CASE Account(e)
  <2>1. books' \subseteq Events \X Kinds
    BY <1>4 DEF Account
  <2>2. tasks' \in [Events -> Nat]
    BY <1>4 DEF Account
  <2> QED BY <1>4, <2>1, <2>2 DEF Account
<1>5. CASE Settle(e)
  <2>1. [At("resident_completion") EXCEPT !.good = TRUE] \in Checkpoint
    BY <1>0 DEF Checkpoint
  <2>2. working' \in Checkpoint
        /\ UNCHANGED <<status, outcome, cancelReq, attempt, books, tasks, journal>>
    BY <1>0, <1>5, <2>1 DEF Settle, Save
  <2> QED BY <1>5, <2>2 DEF Settle, Goto, Rest
<1>6. CASE Publish(e)
  <2>1. outcome' \in [Events -> Verdicts \cup {"none"}]
    BY <1>6 DEF Publish, Verdicts
  <2> QED BY <1>0, <1>6, <2>1 DEF Publish, Goto, Rest
<1>7. CASE BeginObservation(e) \/ FinishObservation(e)
  BY <1>7 DEF BeginObservation, FinishObservation, Mark, Goto, Rest
<1>8. CASE LifeObserves(e) \/ Repair(e)
  BY <1>8 DEF LifeObserves, Repair, Goto, durable
<1>9. CASE RequestCancel(e)
  BY <1>9 DEF RequestCancel, thread
<1> QED BY <1>1, <1>2, <1>3, <1>4, <1>5, <1>6, <1>7, <1>8, <1>9

LEMMA TypesStep == ASSUME Types, [Next]_vars PROVE Types'
<1>1. CASE LifeStep
  BY <1>1, TypesOfOrientation, TypesOfTheRest DEF LifeStep
<1>2. CASE Fault
  <2>1. PICK e \in Events : ObserveRaises(e) \/ StepRaises(e) \/ LifeFails(e)
    BY <1>2 DEF Fault
  <2>2. faults' \in 0 .. MaxFaults
    <3>1. faults < MaxFaults /\ faults' = faults + 1
      BY <2>1 DEF ObserveRaises, StepRaises, LifeFails
    <3> QED BY <3>1, BoundsAssumption DEF Types
  <2>3. CASE ObserveRaises(e)
    BY <2>2, <2>3 DEF ObserveRaises, Types, durable, history, Kinds, TaskKinds
  <2>4. CASE StepRaises(e)
    <3>1. "terminal_failure" \in Completions /\ "terminal_failure" \in Kinds
      BY DEF Completions, Kinds, TaskKinds
    <3> QED BY <2>2, <2>4, <3>1, TypesOfCompletions DEF StepRaises, history
  <2>5. CASE LifeFails(e)
    BY <2>2, <2>5 DEF LifeFails, Mark, Rest, Types, history
  <2> QED BY <2>1, <2>3, <2>4, <2>5
<1>3. CASE Crash
  BY <1>3, BoundsAssumption DEF Crash, Types, durable, history
<1>4. CASE Restart
  BY <1>4 DEF Restart, Types, Quiet, history
<1>5. CASE UNCHANGED vars
  BY <1>5 DEF vars, Types, durable, thread, history
<1> QED BY <1>1, <1>2, <1>3, <1>4, <1>5, TypesOfTheRest DEF Next

(* The thread works on the event of the checkpoint, whatever overtakes.    *)
LEMMA HeldStep == ASSUME Types, Held, [Next]_vars PROVE Held'
<1> USE DEF Types, Held
<1>0. \A stage : At(stage).ev = working.ev /\ Recovery.ev = working.ev
  BY DEF At, Recovery, Checkpoint
<1>1. ASSUME NEW e \in Events, NEW stage, NEW due, NEW good,
             Complete(stage, due, good), pc \in {"loaded", "account", "settle"}
      PROVE  Held'
  BY <1>0, <1>1 DEF Complete, Save, At, Checkpoint
<1>2. ASSUME NEW e \in Events, Orient(e) \/ Investigate(e) \/ FailTerminally(e)
      PROVE  Held'
  <2>1. CASE Recall(e) \/ Investigate(e) \/ FailTerminally(e)
    BY <1>1, <2>1 DEF Recall, Investigate, FailTerminally, Stepping
  <2>2. CASE NothingLocal(e) \/ RefuseReplay(e) \/ AwaitDecision(e)
    BY <2>2 DEF NothingLocal, RefuseReplay, AwaitDecision, Rest
  <2>3. CASE StartCapability(e) \/ RunAgain(e)
    BY <2>3 DEF StartCapability, RunAgain, RunCapability, Stepping, Checkpoint,
       durable
  <2>4. CASE CapabilityReturns(e) \/ ResumeObserved(e)
    BY <2>4 DEF CapabilityReturns, ResumeObserved, Stepping, durable
  <2>5. CASE CapabilityRaises(e)
    BY <2>5 DEF CapabilityRaises, Rest, durable
  <2>6. CASE ObserveCapability(e)
    BY <2>6 DEF ObserveCapability, Checkpoint
  <2> QED BY <1>2, <2>1, <2>2, <2>3, <2>4, <2>5, <2>6 DEF Orient
<1>3. ASSUME NEW e \in Events, Claim(e) \/ StopWork(e) \/ AbandonUncertain(e)
                               \/ ResumeCompletion(e) \/ Account(e)
      PROVE  Held'
  <2>1. CASE Claim(e)
    <3>1. working'.ev = e
      BY <2>1 DEF Claim, Idle
    <3> QED BY <2>1, <3>1 DEF Claim
  <2>2. CASE StopWork(e) \/ ResumeCompletion(e) \/ Account(e)
    BY <2>2 DEF StopWork, ResumeCompletion, Account, durable
  <2>3. CASE AbandonUncertain(e)
    BY <2>3 DEF AbandonUncertain, Rest
  <2> QED BY <1>3, <2>1, <2>2, <2>3
<1>4. ASSUME NEW e \in Events, Settle(e) \/ Publish(e)
      PROVE  Held'
  <2>1. CASE Settle(e)
    BY <1>0, <2>1 DEF Settle, Save, Goto, Rest, At, Checkpoint
  <2>2. CASE Publish(e)
    BY <2>2 DEF Publish, Goto, Rest
  <2> QED BY <1>4, <2>1, <2>2
<1>5. ASSUME NEW e \in Events,
             \/ BeginObservation(e) \/ LifeObserves(e) \/ FinishObservation(e)
             \/ Repair(e) \/ LifeFails(e)
      PROVE  Held'
  BY <1>5 DEF BeginObservation, LifeObserves, FinishObservation, Repair,
     LifeFails, Goto, Rest
<1>6. ASSUME NEW e \in Events, ObserveRaises(e) \/ StepRaises(e) \/ RequestCancel(e)
      PROVE  Held'
  BY <1>1, <1>6 DEF ObserveRaises, StepRaises, RequestCancel, durable, thread
<1>7. CASE Crash \/ Restart \/ UNCHANGED vars
  BY <1>7 DEF Crash, Restart, vars, durable, thread
<1> QED BY <1>2, <1>3, <1>4, <1>5, <1>6, <1>7 DEF Next, LifeStep, Fault

(* Where the checkpoint goes without a completion, and after one.          *)
LEMMA SavedStages ==
    ASSUME working \in Checkpoint,
           \/ working' = At("native_investigation")
           \/ working' = [At("resident_completion") EXCEPT !.good = TRUE]
           \/ working' = Recovery
    PROVE  working'.stage # "orient"
BY DEF At, Recovery, Checkpoint

(* The code of a capability runs at most once between two deaths.          *)
LEMMA RunsStep == ASSUME Types, Held, RunsPerCrash, [Next]_vars PROVE RunsPerCrash'
<1> USE DEF Types
<1>1. ASSUME NEW e \in Events, StartCapability(e) \/ RunAgain(e)
      PROVE  RunsPerCrash'
  <2>1. /\ pc = "loaded" /\ hand = e /\ working.ev = e /\ status[e] = "processing"
        /\ working.stage = "orient" /\ working.exec \in {"none", "started"}
        /\ status' = status /\ pc' = "running" /\ hand' = e /\ crashes' = crashes
        /\ executed' = [executed EXCEPT ![e] = @ + 1] /\ working'.ev = e
    BY <1>1 DEF StartCapability, RunAgain, RunCapability, Stepping, Held, durable,
       Checkpoint
  <2>2. executed[e] <= crashes
    BY <2>1 DEF RunsPerCrash, MayRunAgain
  <2>3. ASSUME NEW f \in Events
        PROVE  /\ executed'[f] <= crashes + 1
               /\ status'[f] = "pending" \/ pc' = "down" => executed'[f] <= crashes
               /\ status'[f] = "processing" /\ MayRunAgain(f)' => executed'[f] <= crashes
    <3>1. CASE f = e
      BY <2>1, <2>2, <3>1 DEF MayRunAgain
    <3>2. CASE f # e
      <4>1. executed'[f] = executed[f] /\ ~MayRunAgain(f)'
        BY <2>1, <3>2 DEF MayRunAgain
      <4> QED BY <2>1, <4>1 DEF RunsPerCrash
    <3> QED BY <3>1, <3>2
  <2> QED BY <2>1, <2>3 DEF RunsPerCrash
<1>2. ASSUME executed' = executed, crashes' = crashes, pc' # "down" \/ pc = "down",
             \A f \in Events :
                /\ status'[f] = "pending" => status[f] = "pending"
                /\ status'[f] = "processing" /\ MayRunAgain(f)' =>
                      status[f] = "pending"
                      \/ (status[f] = "processing" /\ MayRunAgain(f))
      PROVE  RunsPerCrash'
  BY <1>2 DEF RunsPerCrash
<1>3. ASSUME NEW e \in Events, NEW stage \in Completions, NEW due, NEW good,
             Complete(stage, due, good), pc' # "down",
             executed' = executed, crashes' = crashes
      PROVE  RunsPerCrash'
  <2>1. working'.stage = stage /\ stage # "orient" /\ status' = status
    BY <1>3 DEF Complete, Save, At, Checkpoint, Completions
  <2> QED BY <1>2, <1>3, <2>1 DEF MayRunAgain
<1>4. ASSUME NEW e \in Events, Recall(e) \/ Investigate(e) \/ FailTerminally(e)
      PROVE  RunsPerCrash'
  <2>1. PICK stage \in Completions, due \in Kinds, good \in BOOLEAN :
             Complete(stage, due, good)
    BY <1>4 DEF Recall, Investigate, FailTerminally, Completions, Kinds, TaskKinds
  <2>2. executed' = executed /\ crashes' = crashes
    BY <1>4 DEF Recall, Investigate, FailTerminally, Quiet, history
  <2>3. pc' = "account"
    BY <2>1 DEF Complete
  <2> QED BY <1>3, <2>1, <2>2, <2>3
<1>5. ASSUME NEW e \in Events,
             NothingLocal(e) \/ RefuseReplay(e)
             \/ (CapabilityRaises(e) /\ pc' = "idle") \/ Settle(e)
      PROVE  RunsPerCrash'
  <2>1. executed' = executed /\ crashes' = crashes
    BY <1>5 DEF NothingLocal, RefuseReplay, CapabilityRaises, Settle, Quiet, history
  <2>2. pc' # "down"
    BY <1>5 DEF NothingLocal, RefuseReplay, Settle, Rest, Goto
  <2>3. \/ working' = At("native_investigation")
        \/ working' = [At("resident_completion") EXCEPT !.good = TRUE]
        \/ working' = Recovery
    BY <1>5 DEF NothingLocal, RefuseReplay, CapabilityRaises, Settle, Save
  <2>4. working'.stage # "orient"
    BY <2>3, SavedStages
  <2>5. status' = status
    BY <1>5 DEF NothingLocal, RefuseReplay, CapabilityRaises, Settle, Save
  <2> QED BY <1>2, <2>1, <2>2, <2>4, <2>5 DEF MayRunAgain
<1>6. ASSUME NEW e \in Events,
             \/ AwaitDecision(e) \/ CapabilityReturns(e) \/ ResumeObserved(e)
             \/ (CapabilityRaises(e) /\ pc' = "answered")
             \/ StopWork(e) \/ ResumeCompletion(e) \/ ObserveRaises(e)
             \/ RequestCancel(e)
      PROVE  RunsPerCrash'
  <2>1. /\ UNCHANGED <<working, status, executed, crashes>>
        /\ pc' # "down" \/ pc = "down"
        /\ \/ UNCHANGED <<pc, hand>>
           \/ pc' = "idle" /\ pc = "loaded"
           \/ hand' = hand /\ pc \in {"loaded", "running", "answered"}
              /\ pc' \in {"answered", "account", "publish"}
    BY <1>6 DEF AwaitDecision, CapabilityReturns, ResumeObserved, CapabilityRaises,
       StopWork, ResumeCompletion, ObserveRaises, RequestCancel, Stepping, Rest,
       Quiet, history, durable, thread
  <2>2. \A f \in Events : MayRunAgain(f)' => MayRunAgain(f)
    BY <2>1 DEF MayRunAgain
  <2> QED BY <1>2, <2>1, <2>2
<1>7. ASSUME NEW e \in Events, ObserveCapability(e)
      PROVE  RunsPerCrash'
  <2>1. hand' = e /\ working'.ev = e /\ status' = status /\ executed' = executed
        /\ crashes' = crashes /\ pc' = "account"
    BY <1>7 DEF ObserveCapability, Held, Checkpoint, Quiet, history
  <2> QED BY <1>2, <2>1 DEF MayRunAgain
<1>8. ASSUME NEW e \in Events, Claim(e)
      PROVE  RunsPerCrash'
  <2>1. /\ pc = "idle" /\ pc' = "loaded" /\ status' = [status EXCEPT ![e] = "processing"]
        /\ executed' = executed /\ crashes' = crashes
        /\ status[e] = "pending" \/ (status[e] = "processing" /\ working' = working)
        /\ working' = working \/ (working'.ev = e)
    BY <1>8 DEF Claim, Quiet, history, Idle
  <2>2. ASSUME NEW f \in Events
        PROVE  /\ status'[f] = "pending" => status[f] = "pending"
               /\ status'[f] = "processing" /\ MayRunAgain(f)' =>
                     status[f] = "pending"
                     \/ (status[f] = "processing" /\ MayRunAgain(f))
    BY <2>1 DEF MayRunAgain
  <2> QED BY <1>2, <2>1, <2>2
<1>9. ASSUME NEW e \in Events, Account(e)
      PROVE  RunsPerCrash'
  <2>1. hand' = e /\ hand = e /\ pc = "account" /\ pc' \in {"settle", "publish"}
        /\ UNCHANGED <<working, status, executed, crashes>>
    BY <1>9 DEF Account, Quiet, history
  <2> QED BY <1>2, <2>1 DEF MayRunAgain
<1>10. ASSUME NEW e \in Events, Publish(e) \/ AbandonUncertain(e)
       PROVE  RunsPerCrash'
  <2>1. working' = Idle /\ executed' = executed /\ crashes' = crashes
        /\ pc' # "down" /\ status' = [status EXCEPT ![e] = "completed"]
    BY <1>10 DEF Publish, AbandonUncertain, Rest, Goto, Quiet, history
  <2> QED BY <1>2, <2>1, NoEventAssumption DEF MayRunAgain, Idle
<1>11. ASSUME NEW e \in Events,
              \/ BeginObservation(e) \/ LifeObserves(e) \/ FinishObservation(e)
              \/ Repair(e) \/ LifeFails(e)
       PROVE  RunsPerCrash'
  <2>1. /\ pc \in {"idle", "observe", "watching", "watched"} /\ pc' # "down"
        /\ UNCHANGED <<working, status, executed, crashes>>
    BY <1>11 DEF BeginObservation, LifeObserves, FinishObservation, Repair,
       LifeFails, Mark, Goto, Rest, Quiet, history, durable
  <2> QED BY <1>2, <2>1 DEF MayRunAgain
<1>12. ASSUME NEW e \in Events, StepRaises(e)
       PROVE  RunsPerCrash'
  <2>1. executed' = executed /\ crashes' = crashes /\ pc' # "down"
        /\ Complete("terminal_failure", "terminal_failure", FALSE)
    BY <1>12 DEF StepRaises, Complete, history
  <2> QED BY <1>3, <2>1 DEF Completions
<1>13. CASE Crash
  <2>1. crashes' = crashes + 1 /\ executed' = executed /\ crashes \in Nat
    BY <1>13 DEF Crash, history
  <2> QED BY <2>1 DEF RunsPerCrash
<1>14. CASE Restart
  <2>1. crashes' = crashes /\ executed' = executed /\ pc = "down"
    BY <1>14 DEF Restart, Quiet, history
  <2>2. \A f \in Events : executed[f] <= crashes /\ executed[f] <= crashes + 1
    BY <2>1 DEF RunsPerCrash
  <2> QED BY <2>1, <2>2 DEF RunsPerCrash
<1>15. CASE UNCHANGED vars
  BY <1>2, <1>15 DEF vars, durable, thread, history, MayRunAgain
<1>16. ASSUME NEW e \in Events, CapabilityRaises(e)
       PROVE  RunsPerCrash'
  <2>1. pc' \in {"idle", "answered"}
    BY <1>16 DEF CapabilityRaises, Rest
  <2> QED BY <1>5, <1>6, <1>16, <2>1
<1> QED BY <1>1, <1>4, <1>5, <1>6, <1>7, <1>8, <1>9, <1>10, <1>11, <1>12, <1>13,
           <1>14, <1>15, <1>16 DEF Next, LifeStep, Orient, Fault

(* A task is counted exactly when its row is new.                          *)
LEMMA RowsStep == ASSUME Types, Held, TasksAreRows, [Next]_vars PROVE TasksAreRows'
<1>1. ASSUME NEW e \in Events, Account(e)
      PROVE  TasksAreRows'
  <2>1. /\ books' = books \cup {<<e, kind>>}
        /\ tasks' = IF kind \in TaskKinds /\ <<e, kind>> \notin books
                    THEN [tasks EXCEPT ![e] = @ + 1] ELSE tasks
    BY <1>1 DEF Account, Entered
  <2>2. ASSUME NEW f \in Events, f # e
        PROVE  TaskRows(f)' = TaskRows(f) /\ tasks'[f] = tasks[f]
    BY <2>1, <2>2 DEF TaskRows, Types
  <2>3. CASE kind \in TaskKinds /\ <<e, kind>> \notin books
    <3>1. TaskRows(e)' = TaskRows(e) \cup {kind} /\ kind \notin TaskRows(e)
      BY <2>1, <2>3 DEF TaskRows
    <3>2. Cardinality(TaskRows(e)') = Cardinality(TaskRows(e)) + 1
      BY <3>1, TaskRowsFinite, FS_AddElement
    <3>3. tasks'[e] = tasks[e] + 1
      BY <2>1, <2>3 DEF Types
    <3> QED BY <2>2, <3>2, <3>3 DEF TasksAreRows
  <2>4. CASE ~(kind \in TaskKinds /\ <<e, kind>> \notin books)
    <3>1. TaskRows(e)' = TaskRows(e) /\ tasks' = tasks
      BY <2>1, <2>4 DEF TaskRows
    <3> QED BY <2>2, <3>1 DEF TasksAreRows
  <2> QED BY <2>3, <2>4
<1>2. CASE UNCHANGED <<books, tasks>>
  BY <1>2 DEF TasksAreRows, TaskRows
<1>3. CASE ~ \E e \in Events : Account(e)
  <2>1. ASSUME NEW e \in Events, Orient(e)
        PROVE  UNCHANGED <<books, tasks>>
    BY <2>1 DEF Orient, Recall, NothingLocal, StartCapability, RunAgain,
       RefuseReplay, AwaitDecision, CapabilityReturns, CapabilityRaises,
       ObserveCapability, ResumeObserved, Complete, Save, durable
  <2>2. ASSUME NEW e \in Events,
               \/ Claim(e) \/ StopWork(e) \/ AbandonUncertain(e)
               \/ Investigate(e) \/ FailTerminally(e) \/ ResumeCompletion(e)
               \/ Settle(e) \/ Publish(e)
        PROVE  UNCHANGED <<books, tasks>>
    <3>1. CASE Investigate(e) \/ FailTerminally(e)
      <4>1. ASSUME NEW stage, NEW due, NEW good, Complete(stage, due, good)
            PROVE  UNCHANGED <<books, tasks>>
        BY <4>1 DEF Complete, Save
      <4> QED BY <3>1, <4>1 DEF Investigate, FailTerminally
    <3>2. CASE Settle(e)
      BY <3>2 DEF Settle, Save
    <3> QED BY <2>2, <3>1, <3>2
        DEF Claim, StopWork, AbandonUncertain, ResumeCompletion, Publish, durable
  <2>3. ASSUME NEW e \in Events,
               \/ BeginObservation(e) \/ LifeObserves(e) \/ FinishObservation(e)
               \/ Repair(e) \/ ObserveRaises(e) \/ StepRaises(e) \/ LifeFails(e)
               \/ RequestCancel(e)
        PROVE  UNCHANGED <<books, tasks>>
    BY <2>3 DEF BeginObservation, LifeObserves, FinishObservation, Repair,
       ObserveRaises, StepRaises, LifeFails, RequestCancel, Complete, Save, Mark,
       durable
  <2>4. CASE Crash \/ Restart \/ UNCHANGED vars
    BY <1>2, <2>4 DEF Crash, Restart, vars, durable
  <2> QED BY <1>2, <1>3, <2>1, <2>2, <2>3, <2>4 DEF Next, LifeStep, Fault
<1> QED BY <1>1, <1>3

LEMMA BoundedIsTyped == ASSUME Bounded PROVE TypeOK
<1>1. executed \in [Events -> 0 .. MaxCrashes + 1]
  <2>1. ASSUME NEW e \in Events
        PROVE  executed[e] \in 0 .. MaxCrashes + 1
    <3>1. executed[e] \in Nat /\ executed[e] <= crashes + 1 /\ crashes \in 0 .. MaxCrashes
      BY DEF Bounded, Types, RunsPerCrash
    <3> QED BY <3>1, BoundsAssumption
  <2> QED BY <2>1 DEF Bounded, Types
<1>2. tasks \in [Events -> 0 .. Cardinality(TaskKinds)]
  <2>1. Cardinality(TaskKinds) \in Nat
    BY TaskKindsFinite, FS_CardinalityType
  <2>2. ASSUME NEW e \in Events
        PROVE  tasks[e] \in 0 .. Cardinality(TaskKinds)
    BY <2>1, TaskRowsFinite DEF Bounded, Types, TasksAreRows
  <2> QED BY <2>2 DEF Bounded, Types
<1> QED BY <1>1, <1>2 DEF Bounded, Types, TypeOK

(* The books, the checkpoint and the thread have their types, whatever     *)
(* overtakes: a capability's code has run at most once more than the       *)
(* process has died, and an event is as many tasks as it has rows.         *)
THEOREM AccountingTypes == Spec => []TypeOK
<1>1. Bounded /\ [Next]_vars => Bounded'
  BY TypesStep, HeldStep, RunsStep, RowsStep DEF Bounded
<1> QED BY <1>1, BoundedInit, BoundedIsTyped, PTL DEF Spec
=============================================================================
