------------------------ MODULE ResidentLife_proofs ------------------------
(***************************************************************************)
(* What holds of ResidentLife for every set of events and attempts, every  *)
(* priority and contract, any number of crashes, with and without faults   *)
(* and interference.                                                       *)
(***************************************************************************)
EXTENDS ResidentLife, TLAPS

(* What makes a published verdict final: its event is out of the queue,    *)
(* out of the checkpoint and out of the life thread's hand.                *)
Final ==
    /\ \A e \in Events : outcome[e] # "none" => status[e] \in {"completed", "failed"}
    /\ working.ev \in Events => outcome[working.ev] = "none"
    /\ hand \in Events /\ pc # "clear" => outcome[hand] = "none"
    /\ pc \in {"idle", "down"} => hand = NoEvent

(* Between the write-ahead row and the checkpoint of what it came to, the  *)
(* life thread holds an attempt of the event in its hand.                  *)
Performing ==
    pc \in {"armed", "sent", "observed", "probing", "probed"} =>
        /\ hand \in Events
        /\ cur \in Attempts
        /\ ledger[cur].event = hand

-----------------------------------------------------------------------------
(* The checkpoints that steps save are checkpoints.                        *)

LEMMA IdleType == Idle \in Checkpoint
BY DEF Idle, Checkpoint, Stages, Decisions, Verdicts

LEMMA SavedTypes ==
    ASSUME working \in Checkpoint
    PROVE  /\ \A stage \in Stages : At(stage) \in Checkpoint
           /\ \A stage \in Stages, blocked \in BOOLEAN :
                 [At(stage) EXCEPT !.blocked = blocked] \in Checkpoint
           /\ \A e \in Events : FreshFor(e) \in Checkpoint
           /\ FailedMove \in Checkpoint
           /\ \A verdict \in Verdicts : Known(verdict) \in Checkpoint
           /\ \A e \in Events, a \in Attempts : RecoveryOf(e, a) \in Checkpoint
           /\ Held \in Checkpoint
           /\ \A e \in Events : TerminalFailure(e) \in Checkpoint
           /\ \A e \in Events : AfterConfirmation(e) \in Checkpoint
<1> USE DEF Checkpoint, Stages, Decisions, Verdicts
<1>1. \A stage \in Stages : At(stage) \in Checkpoint
  BY DEF At
<1>2. \A stage \in Stages, blocked \in BOOLEAN :
         [At(stage) EXCEPT !.blocked = blocked] \in Checkpoint
  BY DEF At
<1>3. \A e \in Events : FreshFor(e) \in Checkpoint
  BY DEF FreshFor, Idle
<1>4. FailedMove \in Checkpoint
  BY DEF FailedMove, At
<1>5. \A verdict \in Verdicts : Known(verdict) \in Checkpoint
  BY DEF Known, At
<1>6. ASSUME NEW e \in Events, NEW a \in Attempts
      PROVE  RecoveryOf(e, a) \in Checkpoint
  <2>1. \A d \in Decisions :
           [working EXCEPT !.stage = "side_effect_recovery",
                           !.decision = d, !.att = a] \in Checkpoint
    OBVIOUS
  <2>2. QED
    BY <2>1 DEF RecoveryOf
<1>7. Held \in Checkpoint
  BY DEF Held
<1>8. \A e \in Events : TerminalFailure(e) \in Checkpoint
  BY DEF TerminalFailure, At
<1>9. \A e \in Events : AfterConfirmation(e) \in Checkpoint
  BY <1>1, <1>5 DEF AfterConfirmation
<1>10. QED
  BY <1>1, <1>2, <1>3, <1>4, <1>5, <1>6, <1>7, <1>8, <1>9

-----------------------------------------------------------------------------
(* Every transaction of the store keeps its types.                         *)

LEMMA EventTypes ==
    ASSUME StoreTypeOK, NEW e \in Events
    PROVE  /\ EnqueueEvent(e) => StoreTypeOK'
           /\ RequestEventCancellation(e) => StoreTypeOK'
           /\ ClearCancellationRequest(e) => StoreTypeOK'
           /\ ClaimEvent(e) => StoreTypeOK'
           /\ UNCHANGED storeVars => StoreTypeOK'
<1> USE DEF StoreTypeOK, Statuses
<1>1. EnqueueEvent(e) => StoreTypeOK'
  BY DEF EnqueueEvent
<1>2. RequestEventCancellation(e) => StoreTypeOK'
  BY DEF RequestEventCancellation
<1>3. ClearCancellationRequest(e) => StoreTypeOK'
  BY DEF ClearCancellationRequest
<1>4. ClaimEvent(e) => StoreTypeOK'
  BY DEF ClaimEvent
<1>5. UNCHANGED storeVars => StoreTypeOK'
  BY DEF storeVars
<1>6. QED
  BY <1>1, <1>2, <1>3, <1>4, <1>5

LEMMA SaveType ==
    ASSUME StoreTypeOK, NEW w \in Checkpoint, SaveWorkingState(w)
    PROVE  StoreTypeOK'
BY DEF StoreTypeOK, SaveWorkingState

(* A new row, or a row with another status, is a row.                      *)
LEMMA RowTypes ==
    ASSUME NEW row \in AttemptRow
    PROVE  \A s \in OpenStatuses \cup ClosedStatuses :
              [row EXCEPT !.status = s] \in AttemptRow
BY DEF AttemptRow

LEMMA LedgerTypes ==
    ASSUME StoreTypeOK, NEW e \in Events, NEW a \in Attempts
    PROVE  /\ \A use \in Uses : StartAttempt(a, e, use) => StoreTypeOK'
           /\ ObserveStartedAttempt(a) => StoreTypeOK'
           /\ \A final \in ClosedStatuses :
                 ResolveAttempt(a, e, final) => StoreTypeOK'
<1>1. \A use \in Uses : StartAttempt(a, e, use) => StoreTypeOK'
  BY DEF StoreTypeOK, StartAttempt, AttemptRow, OpenStatuses
<1>2. \A s \in OpenStatuses \cup ClosedStatuses :
        [ledger EXCEPT ![a].status = s] \in [Attempts -> AttemptRow]
  BY RowTypes DEF StoreTypeOK
<1>3. ObserveStartedAttempt(a) => StoreTypeOK'
  BY <1>2 DEF StoreTypeOK, ObserveStartedAttempt, OpenStatuses
<1>4. \A final \in ClosedStatuses :
         ResolveAttempt(a, e, final) => StoreTypeOK'
  BY <1>2 DEF StoreTypeOK, ResolveAttempt
<1>5. QED
  BY <1>1, <1>3, <1>4

LEMMA VerdictTypes ==
    ASSUME StoreTypeOK, NEW e \in Events
    PROVE  /\ \A verdict \in Verdicts \cup {"none"} :
                 CompleteEvent(e, verdict) => StoreTypeOK'
           /\ CancelUncertainEvent(e) => StoreTypeOK'
           /\ AuthorizeUserRetry(e) => StoreTypeOK'
           /\ ConfirmUserEffect(e) => StoreTypeOK'
<1>1. ASSUME NEW verdict \in Verdicts \cup {"none"}, CompleteEvent(e, verdict)
      PROVE  StoreTypeOK'
  <2>1. PublishedVerdict(e, verdict) \in Verdicts \cup {"none"}
    BY DEF PublishedVerdict, Verdicts
  <2>2. TerminalStatus(PublishedVerdict(e, verdict)) \in Statuses
    BY DEF TerminalStatus, Statuses
  <2>3. QED
    BY <1>1, <2>1, <2>2, IdleType DEF StoreTypeOK, CompleteEvent
<1>2. ASSUME MayCancelUncertain(e)
      PROVE  \A s \in ClosedStatuses :
                [ledger EXCEPT ![working.att].status = s]
                    \in [Attempts -> AttemptRow]
  <2>1. working.att \in Attempts
    BY <1>2 DEF MayCancelUncertain, OwnsOpenAttempt, Blocking
  <2>2. QED
    BY <2>1, RowTypes DEF StoreTypeOK
<1>3. CancelUncertainEvent(e) => StoreTypeOK'
  BY <1>2, IdleType
  DEF StoreTypeOK, CancelUncertainEvent, ClosedStatuses, Verdicts, Statuses
<1>4. AuthorizeUserRetry(e) => StoreTypeOK'
  <2>1. [working EXCEPT !.stage = "native_action", !.decision = "none",
                        !.att = NoAttempt] \in Checkpoint
    BY DEF StoreTypeOK, Checkpoint, Stages, Decisions
  <2>2. QED
    BY <1>2, <2>1
    DEF StoreTypeOK, AuthorizeUserRetry, MayResolveUncertain, ClosedStatuses
<1>5. ConfirmUserEffect(e) => StoreTypeOK'
  <2>1. [working EXCEPT !.decision = "effect_happened"] \in Checkpoint
    BY DEF StoreTypeOK, Checkpoint, Decisions
  <2>2. QED
    BY <1>2, <2>1
    DEF StoreTypeOK, ConfirmUserEffect, MayResolveUncertain, ClosedStatuses
<1>6. QED
  BY <1>1, <1>3, <1>4, <1>5

-----------------------------------------------------------------------------
(* Moving the life thread keeps its types.                                 *)

LEMMA ThreadTypes ==
    ASSUME ThreadTypeOK
    PROVE  /\ \A where \in PCs : Goto(where) => ThreadTypeOK'
           /\ ToIdle => ThreadTypeOK'
           /\ \A verdict \in Verdicts \cup {"none"} :
                 Stepped(verdict) => ThreadTypeOK'
           /\ UNCHANGED threadVars => ThreadTypeOK'
<1> USE DEF ThreadTypeOK, PCs, Returns
<1>1. \A where \in PCs : Goto(where) => ThreadTypeOK'
  BY DEF Goto
<1>2. ToIdle => ThreadTypeOK'
  BY DEF ToIdle
<1>3. \A verdict \in Verdicts \cup {"none"} : Stepped(verdict) => ThreadTypeOK'
  BY DEF Stepped
<1>4. UNCHANGED threadVars => ThreadTypeOK'
  BY DEF threadVars
<1>5. QED
  BY <1>1, <1>2, <1>3, <1>4

LEMMA OutsideTypes == OutsideTypeOK /\ OutsideUnchanged => OutsideTypeOK'
BY DEF OutsideTypeOK, OutsideUnchanged, worldVars

LEMMA PulseTypes ==
    ASSUME TypeOK, NEW e \in Events, Pulse(e)
    PROVE  TypeOK'
<1> USE EventTypes, VerdictTypes, ThreadTypes, OutsideTypes DEF TypeOK
<1>1. CASE Claim(e)
  BY <1>1 DEF Claim, ThreadTypeOK, PCs
<1>2. CASE StopWork(e)
  BY <1>2 DEF StopWork, ThreadTypeOK, PCs, Verdicts, storeVars
<1>3. CASE AbandonUncertain(e)
  BY <1>3 DEF AbandonUncertain, PCs
<1>4. CASE AbandonRefused(e)
  BY <1>4 DEF AbandonRefused
<1>5. CASE ClearRequest(e)
  BY <1>5 DEF ClearRequest
<1>6. CASE LoadState(e)
  <2>1. FreshFor(e) \in Checkpoint /\ working \in Checkpoint
    BY SavedTypes DEF StoreTypeOK
  <2>2. StoreTypeOK'
    BY <1>6, <2>1, SaveType DEF LoadState
  <2>3. QED
    BY <1>6, <2>2 DEF LoadState, PCs
<1>7. CASE EndStep(e)
  BY <1>7 DEF EndStep, PCs
<1>8. CASE Finish(e)
  BY <1>8 DEF Finish, ThreadTypeOK
<1>9. CASE FinishRefused(e)
  BY <1>9 DEF FinishRefused
<1>10. CASE Confirm(e)
  <2>1. AfterConfirmation(e) \in Checkpoint
    BY SavedTypes DEF StoreTypeOK
  <2>2. StoreTypeOK'
    BY <1>10, <2>1, SaveType DEF Confirm
  <2>3. QED
    BY <1>10, <2>2 DEF Confirm
<1>11. QED
  BY <1>1, <1>2, <1>3, <1>4, <1>5, <1>6, <1>7, <1>8, <1>9, <1>10 DEF Pulse

LEMMA ThinkTypes ==
    ASSUME TypeOK, NEW e \in Events, Think(e)
    PROVE  TypeOK'
<1> USE ThreadTypes, OutsideTypes DEF TypeOK
<1>1. working \in Checkpoint
  BY DEF StoreTypeOK
<1>2. CASE Orient(e)
  <2>1. At("native_investigation") \in Checkpoint /\ Known("answer") \in Checkpoint
    BY <1>1, SavedTypes DEF Stages, Verdicts
  <2>2. StoreTypeOK'
    BY <1>2, <2>1, SaveType DEF Orient
  <2>3. QED
    BY <1>2, <2>2 DEF Orient, Verdicts
<1>3. CASE Investigate(e)
  <2>1. \A stage \in {"native_investigation", "native_deliberation"},
           stillBlocked \in {working.blocked, FALSE} :
          [At(stage) EXCEPT !.blocked = stillBlocked] \in Checkpoint
    <3>1. working.blocked \in BOOLEAN
      BY <1>1 DEF Checkpoint
    <3>2. {"native_investigation", "native_deliberation"} \subseteq Stages
      BY DEF Stages
    <3>3. QED
      BY <1>1, <3>1, <3>2, SavedTypes
  <2>2. Known("answer") \in Checkpoint
    BY <1>1, SavedTypes DEF Verdicts
  <2>3. StoreTypeOK'
    BY <1>3, <2>1, <2>2, SaveType DEF Investigate
  <2>4. QED
    BY <1>3, <2>3 DEF Investigate, Verdicts
<1>4. CASE Deliberate(e)
  <2>1. /\ At("native_action") \in Checkpoint
        /\ At("external_cognition") \in Checkpoint
        /\ TerminalFailure(e) \in Checkpoint
    BY <1>1, SavedTypes DEF Stages
  <2>2. StoreTypeOK'
    BY <1>4, <2>1, SaveType DEF Deliberate
  <2>3. QED
    BY <1>4, <2>2 DEF Deliberate, Verdicts
<1>5. CASE Consult(e)
  <2>1. \A verdict \in {"answer", "failure"} : Known(verdict) \in Checkpoint
    BY <1>1, SavedTypes DEF Verdicts
  <2>2. StoreTypeOK'
    BY <1>5, <2>1, SaveType DEF Consult
  <2>3. QED
    BY <1>5, <2>2 DEF Consult, Verdicts
<1>6. CASE ResumeCompletion(e)
  <2>1. working.done \in Verdicts \cup {"none"}
    BY <1>1 DEF Checkpoint
  <2>2. QED
    BY <1>6, <2>1, EventTypes DEF ResumeCompletion
<1>7. QED
  BY <1>2, <1>3, <1>4, <1>5, <1>6 DEF Think

LEMMA MoveTypes ==
    ASSUME TypeOK, Performing, NEW e \in Events, Move(e)
    PROVE  TypeOK'
<1> USE ThreadTypes, OutsideTypes DEF TypeOK
<1>1. working \in Checkpoint
  BY DEF StoreTypeOK
<1>2. CASE RefuseReplay(e)
  <2>1. StoreTypeOK'
    <3>1. PICK a \in Blocking(e, "move") : SaveWorkingState(RecoveryOf(e, a))
      BY <1>2 DEF RefuseReplay
    <3>2. RecoveryOf(e, a) \in Checkpoint
      BY <1>1, SavedTypes DEF Blocking
    <3>3. QED
      BY <3>1, <3>2, SaveType
  <2>2. QED
    BY <1>2, <2>1 DEF RefuseReplay
<1>3. ASSUME NEW a \in Attempts, Arm(e, a)
      PROVE  TypeOK'
  BY <1>3, LedgerTypes DEF Arm, Uses, ThreadTypeOK, PCs
<1>4. CASE Dispatch(e)
  <2>1. StoreTypeOK'
    BY <1>4, EventTypes DEF Dispatch
  <2>2. ThreadTypeOK'
    BY <1>4 DEF Dispatch, ThreadTypeOK, PCs, Returns
  <2>3. cur \in Attempts
    BY <1>4 DEF Dispatch, Performing
  <2>4. OutsideTypeOK'
    BY <1>4, <2>3 DEF Dispatch, OutsideTypeOK, TextAfterMove, Texts
  <2>5. QED
    BY <2>1, <2>2, <2>4
<1>5. CASE ObserveReturn(e)
  <2>1. cur \in Attempts
    BY <1>5 DEF ObserveReturn, Performing
  <2>2. QED
    BY <1>5, <2>1, LedgerTypes DEF ObserveReturn, PCs
<1>6. CASE LoseReturn(e)
  BY <1>6, EventTypes DEF LoseReturn, ThreadTypeOK, PCs, Returns
<1>7. CASE ProveAbsent(e)
  <2>1. StoreTypeOK'
    BY <1>7, LedgerTypes DEF ProveAbsent, Resolvable, ResolveAttempt, ClosedStatuses
  <2>2. ThreadTypeOK'
    BY <1>7 DEF ProveAbsent, ThreadTypeOK, Returns
  <2>3. QED
    BY <1>7, <2>1, <2>2 DEF ProveAbsent
<1>8. CASE CheckpointMove(e)
  <2>1. cur \in Attempts
    BY <1>8 DEF CheckpointMove, Performing
  <2>2. /\ RecoveryOf(e, cur) \in Checkpoint
        /\ At("native_verification") \in Checkpoint
        /\ Known("body") \in Checkpoint
        /\ FailedMove \in Checkpoint
    BY <1>1, <2>1, SavedTypes DEF Stages, Verdicts
  <2>3. StoreTypeOK'
    BY <1>8, <2>2, SaveType DEF CheckpointMove
  <2>4. QED
    BY <1>8, <2>3 DEF CheckpointMove, Verdicts
<1>9. QED
  BY <1>2, <1>3, <1>4, <1>5, <1>6, <1>7, <1>8 DEF Move

LEMMA VerifyTypes ==
    ASSUME TypeOK, Performing, NEW e \in Events, Verify(e)
    PROVE  TypeOK'
<1> USE ThreadTypes, OutsideTypes DEF TypeOK
<1>1. Known("body") \in Checkpoint /\ FailedMove \in Checkpoint
  BY SavedTypes DEF StoreTypeOK, Verdicts
<1>2. ASSUME NEW verified \in BOOLEAN, CheckpointVerdict(verified)
      PROVE  StoreTypeOK' /\ ThreadTypeOK'
  BY <1>1, <1>2, SaveType DEF CheckpointVerdict, Verdicts
<1>3. CASE VerifyText(e)
  BY <1>2, <1>3 DEF VerifyText
<1>4. CASE RefuseProbe(e)
  BY <1>2, <1>4 DEF RefuseProbe
<1>5. ASSUME NEW a \in Attempts, ArmProbe(e, a)
      PROVE  TypeOK'
  BY <1>5, LedgerTypes DEF ArmProbe, Uses, ThreadTypeOK, PCs
<1>6. CASE RunProbe(e)
  <2>1. cur \in Attempts
    BY <1>6 DEF RunProbe, Performing
  <2>2. ThreadTypeOK'
    BY <1>6 DEF RunProbe, ThreadTypeOK, PCs, Returns
  <2>3. QED
    BY <1>6, <2>1, <2>2, LedgerTypes DEF RunProbe
<1>7. CASE JudgeProbe(e)
  BY <1>2, <1>7 DEF JudgeProbe
<1>8. QED
  BY <1>3, <1>4, <1>5, <1>6, <1>7 DEF Verify

LEMMA RecoverTypes ==
    ASSUME TypeOK, NEW e \in Events, Recover(e)
    PROVE  TypeOK'
<1> USE ThreadTypes, OutsideTypes DEF TypeOK
<1>1. working \in Checkpoint
  BY DEF StoreTypeOK
<1>2. CASE AwaitDecision(e)
  BY <1>2, EventTypes DEF AwaitDecision
<1>3. CASE ReverifyEffect(e)
  BY <1>3, LedgerTypes
  DEF ReverifyEffect, ResolveAttempt, Resolvable, ClosedStatuses, Verdicts
<1>4. CASE ReverifyAbsence(e)
  BY <1>4, LedgerTypes
  DEF ReverifyAbsence, ResolveAttempt, Resolvable, ClosedStatuses, PCs
<1>5. CASE RetryAfterAbsence(e)
  <2>1. At("native_action") \in Checkpoint
    BY <1>1, SavedTypes DEF Stages
  <2>2. QED
    BY <1>5, <2>1, SaveType DEF RetryAfterAbsence
<1>6. CASE Hold(e)
  <2>1. Held \in Checkpoint
    BY <1>1, SavedTypes
  <2>2. QED
    BY <1>6, <2>1, SaveType DEF Hold
<1>7. CASE ResumeConfirmed(e)
  <2>1. AfterConfirmation(e) \in Checkpoint
    BY <1>1, SavedTypes
  <2>2. StoreTypeOK'
    BY <1>7, <2>1, SaveType DEF ResumeConfirmed
  <2>3. QED
    BY <1>7, <2>2 DEF ResumeConfirmed, Verdicts
<1>8. QED
  BY <1>2, <1>3, <1>4, <1>5, <1>6, <1>7 DEF Recover

LEMMA OthersTypes ==
    ASSUME TypeOK, NEW e \in Events,
           \/ Enqueue(e) \/ RequestCancel(e) \/ UserCancels(e)
           \/ UserAuthorizesRetry(e) \/ UserConfirmsEffect(e)
           \/ StepRaises(e) \/ PulseRaises(e)
           \/ (\E text \in Texts : Edit(e, text))
    PROVE  TypeOK'
<1> USE EventTypes, VerdictTypes, ThreadTypes, OutsideTypes DEF TypeOK
<1>1. CASE Enqueue(e)
  BY <1>1 DEF Enqueue
<1>2. CASE RequestCancel(e)
  BY <1>2 DEF RequestCancel
<1>3. CASE UserCancels(e)
  BY <1>3 DEF UserCancels
<1>4. CASE UserAuthorizesRetry(e)
  BY <1>4 DEF UserAuthorizesRetry
<1>5. CASE UserConfirmsEffect(e)
  BY <1>5 DEF UserConfirmsEffect, ThreadTypeOK, PCs
<1>6. CASE StepRaises(e)
  <2>1. TerminalFailure(e) \in Checkpoint
    BY SavedTypes DEF StoreTypeOK
  <2>2. StoreTypeOK'
    BY <1>6, <2>1, SaveType DEF StepRaises
  <2>3. ThreadTypeOK'
    BY <1>6 DEF StepRaises, ToIdle, ThreadTypeOK, PCs, Returns, Verdicts
  <2>4. QED
    BY <1>6, <2>2, <2>3 DEF StepRaises
<1>7. ASSUME NEW text \in Texts, Edit(e, text)
      PROVE  TypeOK'
  <2>1. OutsideTypeOK'
    BY <1>7 DEF Edit, OutsideTypeOK
  <2>2. QED
    BY <1>7, <2>1 DEF Edit
<1>8. CASE PulseRaises(e)
  BY <1>8 DEF PulseRaises
<1>9. QED
  BY <1>1, <1>2, <1>3, <1>4, <1>5, <1>6, <1>7, <1>8

LEMMA ProcessTypes ==
    ASSUME TypeOK, Crash \/ Restart \/ UNCHANGED vars
    PROVE  TypeOK'
<1> USE DEF TypeOK
<1>1. CASE Crash
  BY <1>1
  DEF Crash, StoreTypeOK, ThreadTypeOK, OutsideTypeOK, storeVars, worldVars,
      PCs, Returns
<1>2. CASE Restart
  <2>1. StoreTypeOK'
    BY <1>2 DEF Restart, RecoverInterruptedEvents, StoreTypeOK, Statuses
  <2>2. QED
    BY <1>2, <2>1, ThreadTypes, OutsideTypes DEF Restart
<1>3. CASE UNCHANGED vars
  BY <1>3
  DEF vars, storeVars, threadVars, worldVars, StoreTypeOK, ThreadTypeOK,
      OutsideTypeOK
<1>4. QED
  BY <1>1, <1>2, <1>3

LEMMA TypesStep ==
    ASSUME TypeOK, Performing, [Next]_vars
    PROVE  TypeOK'
<1>1. ASSUME NEW e \in Events,
             Pulse(e) \/ Think(e) \/ Move(e) \/ Verify(e) \/ Recover(e)
      PROVE  TypeOK'
  BY <1>1, PulseTypes, ThinkTypes, MoveTypes, VerifyTypes, RecoverTypes
<1>2. QED
  BY <1>1, OthersTypes, ProcessTypes DEF Next, LifeStep, Control, Environment

-----------------------------------------------------------------------------
(* Performing is kept.                                                     *)

LEMMA PerformingStep ==
    ASSUME TypeOK, Performing, [Next]_vars
    PROVE  Performing'
<1> USE DEF Performing
<1>1. ASSUME NEW e \in Events, Pulse(e)
      PROVE  Performing'
  BY <1>1
  DEF Pulse, Claim, StopWork, AbandonUncertain, AbandonRefused, ClearRequest,
      LoadState, EndStep, Finish, FinishRefused, Confirm, Goto, ToIdle
<1>2. ASSUME NEW e \in Events, Think(e)
      PROVE  Performing'
  BY <1>2
  DEF Think, Orient, Investigate, Deliberate, Consult, ResumeCompletion, Stepped
<1>3. ASSUME NEW e \in Events, Move(e)
      PROVE  Performing'
  <2>1. CASE RefuseReplay(e) \/ CheckpointMove(e)
    BY <2>1 DEF RefuseReplay, CheckpointMove, Stepped
  <2>2. ASSUME NEW a \in Attempts, Arm(e, a)
        PROVE  Performing'
    BY <2>2 DEF Arm, Stepping, StartAttempt, TypeOK, StoreTypeOK
  <2>3. CASE Dispatch(e) \/ LoseReturn(e)
    BY <2>3 DEF Dispatch, LoseReturn, storeVars
  <2>4. CASE ObserveReturn(e) \/ ProveAbsent(e)
    <3>1. /\ cur' = cur /\ hand' = hand
          /\ \E s \in Statuses \cup OpenStatuses \cup ClosedStatuses :
                ledger' = [ledger EXCEPT ![cur].status = s]
      BY <2>4
      DEF ObserveReturn, ProveAbsent, Goto, ObserveStartedAttempt,
          ResolveAttempt, OpenStatuses, ClosedStatuses
    <3>2. pc \in {"sent", "observed"}
      BY <2>4 DEF ObserveReturn, ProveAbsent
    <3>3. QED
      BY <3>1, <3>2 DEF TypeOK, StoreTypeOK, AttemptRow
  <2>5. QED
    BY <1>3, <2>1, <2>2, <2>3, <2>4 DEF Move
<1>4. ASSUME NEW e \in Events, Verify(e)
      PROVE  Performing'
  <2>1. CASE VerifyText(e) \/ RefuseProbe(e) \/ JudgeProbe(e)
    BY <2>1
    DEF VerifyText, RefuseProbe, JudgeProbe, CheckpointVerdict, Stepped
  <2>2. ASSUME NEW a \in Attempts, ArmProbe(e, a)
        PROVE  Performing'
    BY <2>2 DEF ArmProbe, Stepping, StartAttempt, TypeOK, StoreTypeOK
  <2>3. CASE RunProbe(e)
    BY <2>3
    DEF RunProbe, ObserveStartedAttempt, TypeOK, StoreTypeOK, AttemptRow
  <2>4. QED
    BY <1>4, <2>1, <2>2, <2>3 DEF Verify
<1>5. ASSUME NEW e \in Events, Recover(e)
      PROVE  Performing'
  BY <1>5
  DEF Recover, AwaitDecision, ReverifyEffect, ReverifyAbsence,
      RetryAfterAbsence, Hold, ResumeConfirmed, Stepped, Goto
<1>6. CASE Control
  BY <1>6
  DEF Control, Enqueue, RequestCancel, UserCancels, UserAuthorizesRetry,
      UserConfirmsEffect, EnqueueEvent, RequestEventCancellation, threadVars
<1>7. CASE Environment \/ Restart \/ UNCHANGED vars
  BY <1>7
  DEF Environment, StepRaises, PulseRaises, Edit, Crash, Restart, ToIdle, vars, storeVars,
      threadVars
<1>8. QED
  BY <1>1, <1>2, <1>3, <1>4, <1>5, <1>6, <1>7 DEF Next, LifeStep

LEMMA InitTypes == Init => TypeOK /\ Performing
BY AttemptsAssumption, EventsAssumption
DEF Init, StoreInit, TypeOK, StoreTypeOK, ThreadTypeOK, OutsideTypeOK, PCs,
    Returns, Texts, Statuses, AttemptRow, Idle, Checkpoint, Stages, Decisions,
    Uses, Performing

(* Every variable keeps its type: the tables only ever hold rows the code  *)
(* can read back, and a movement is only ever sent and settled under the   *)
(* identifier of its own write-ahead row.                                  *)
THEOREM TypeCorrect == Spec => []TypeOK
<1>1. TypeOK /\ Performing /\ [Next]_vars => (TypeOK /\ Performing)'
  BY TypesStep, PerformingStep
<1>2. QED
  BY <1>1, InitTypes, PTL DEF Spec

-----------------------------------------------------------------------------
(* A stop request on file is never overtaken by another verdict.  Only     *)
(* complete_event and cancel_uncertain_event publish, and both obey it.    *)

LEMMA PublishingHonours ==
    ASSUME TypeOK, NEW e \in Events, NEW verdict,
           CompleteEvent(e, verdict) \/ CancelUncertainEvent(e)
    PROVE  HonoursStopRequest
BY DEF CompleteEvent, CancelUncertainEvent, PublishedVerdict, TypeOK,
       StoreTypeOK, HonoursStopRequest

LEMMA OthersPublishNothing ==
    ASSUME [Next]_vars,
           ~ \E e \in Events :
                Finish(e) \/ AbandonUncertain(e) \/ UserCancels(e)
    PROVE  outcome' = outcome
<1> USE DEF SaveWorkingState, storeVars
<1>1. ASSUME NEW e \in Events, Pulse(e)
      PROVE  outcome' = outcome
  BY <1>1
  DEF Pulse, Claim, StopWork, AbandonRefused, ClearRequest, LoadState, EndStep,
      FinishRefused, Confirm, ClaimEvent, ClearCancellationRequest
<1>2. ASSUME NEW e \in Events, Think(e)
      PROVE  outcome' = outcome
  BY <1>2 DEF Think, Orient, Investigate, Deliberate, Consult, ResumeCompletion
<1>3. ASSUME NEW e \in Events, Move(e)
      PROVE  outcome' = outcome
  BY <1>3
  DEF Move, RefuseReplay, Arm, Dispatch, ObserveReturn, LoseReturn,
      ProveAbsent, CheckpointMove, StartAttempt, ObserveStartedAttempt,
      ResolveAttempt
<1>4. ASSUME NEW e \in Events, Verify(e)
      PROVE  outcome' = outcome
  BY <1>4
  DEF Verify, VerifyText, RefuseProbe, ArmProbe, RunProbe, JudgeProbe,
      CheckpointVerdict, StartAttempt, ObserveStartedAttempt
<1>5. ASSUME NEW e \in Events, Recover(e)
      PROVE  outcome' = outcome
  BY <1>5
  DEF Recover, AwaitDecision, ReverifyEffect, ReverifyAbsence,
      RetryAfterAbsence, Hold, ResumeConfirmed, ResolveAttempt
<1>6. CASE Control
  BY <1>6
  DEF Control, Enqueue, RequestCancel, UserAuthorizesRetry,
      UserConfirmsEffect, EnqueueEvent, RequestEventCancellation,
      AuthorizeUserRetry, ConfirmUserEffect
<1>7. CASE Environment \/ Restart \/ UNCHANGED vars
  BY <1>7
  DEF Environment, StepRaises, PulseRaises, Edit, Crash, Restart,
      RecoverInterruptedEvents, vars
<1>8. QED
  BY <1>1, <1>2, <1>3, <1>4, <1>5, <1>6, <1>7 DEF Next, LifeStep

(* Whoever asks for a stop before the verdict is published, and at any     *)
(* moment of the step, gets "cancelled" (complete_event).                  *)
THEOREM StopRequestObeyed == Spec => StopRequestWins
<1>1. ASSUME TypeOK, [Next]_vars
      PROVE  HonoursStopRequest
  <2>1. CASE \E e \in Events :
                Finish(e) \/ AbandonUncertain(e) \/ UserCancels(e)
    BY <1>1, <2>1, PublishingHonours DEF Finish, AbandonUncertain, UserCancels
  <2>2. CASE outcome' = outcome
    BY <2>2 DEF HonoursStopRequest
  <2>3. QED
    BY <1>1, <2>1, <2>2, OthersPublishNothing
<1>2. QED
  BY <1>1, TypeCorrect, PTL DEF Spec, StopRequestWins

-----------------------------------------------------------------------------
(* A published verdict is final.                                           *)

LEMMA SaveFinal ==
    ASSUME TypeOK, Final, NEW w, SaveWorkingState(w),
           w.ev = working.ev \/ w.ev = hand, pc # "clear",
           pc' \in {"idle", "down"} => hand' = NoEvent,
           hand' \in {hand, NoEvent}
    PROVE  Final'
BY EventsAssumption DEF SaveWorkingState, Final

LEMMA SavedEvents ==
    ASSUME TypeOK
    PROVE  /\ \A stage \in Stages : At(stage).ev = working.ev
           /\ \A e \in Events : FreshFor(e).ev = e
           /\ FailedMove.ev = working.ev
           /\ \A verdict \in Verdicts : Known(verdict).ev = working.ev
           /\ \A e \in Events, a \in Attempts : RecoveryOf(e, a).ev = working.ev
           /\ Held.ev = working.ev
           /\ \A e \in Events : TerminalFailure(e).ev = e
           /\ \A e \in Events : AfterConfirmation(e).ev = working.ev
BY DEF At, FreshFor, Idle, FailedMove, Known, RecoveryOf, Held,
       TerminalFailure, AfterConfirmation, TypeOK, StoreTypeOK, Checkpoint

LEMMA PulseFinal ==
    ASSUME TypeOK, Final, NEW e \in Events, Pulse(e)
    PROVE  Final'
<1> USE EventsAssumption
<1>1. CASE Claim(e)
  BY <1>1 DEF Claim, ClaimEvent, Final, TypeOK, StoreTypeOK
<1>2. CASE StopWork(e) \/ AbandonRefused(e) \/ EndStep(e) \/ FinishRefused(e)
  BY <1>2
  DEF StopWork, Cancelling, AbandonRefused, EndStep, FinishRefused, ToIdle,
      Goto, Final, storeVars
<1>3. CASE AbandonUncertain(e)
  BY <1>3
  DEF AbandonUncertain, CancelUncertainEvent, Goto, Idle, Final, TypeOK,
      StoreTypeOK
<1>4. CASE ClearRequest(e)
  BY <1>4 DEF ClearRequest, ClearCancellationRequest, ToIdle, Final
<1>5. CASE LoadState(e)
  <2>1. pc = "claimed" /\ hand = e
    BY <1>5 DEF LoadState
  <2>2. FreshFor(e).ev = hand
    BY <2>1, SavedEvents
  <2>3. QED
    BY <1>5, <2>1, <2>2, SaveFinal DEF LoadState, Goto
<1>6. CASE Finish(e)
  BY <1>6
  DEF Finish, CompleteEvent, MayComplete, TerminalStatus, Idle, ToIdle, Final,
      TypeOK, StoreTypeOK
<1>7. CASE Confirm(e)
  <2>1. CASE SaveWorkingState(AfterConfirmation(e))
    BY <1>7, <2>1, SavedEvents, SaveFinal DEF Confirm, ToIdle
  <2>2. CASE UNCHANGED storeVars
    BY <1>7, <2>2 DEF Confirm, ToIdle, storeVars, Final
  <2>3. QED
    BY <1>7, <2>1, <2>2 DEF Confirm
<1>8. QED
  BY <1>1, <1>2, <1>3, <1>4, <1>5, <1>6, <1>7 DEF Pulse

LEMMA ThinkFinal ==
    ASSUME TypeOK, Final, NEW e \in Events, Think(e)
    PROVE  Final'
<1>1. hand = e /\ pc = "loaded"
  BY DEF Think, Orient, Investigate, Deliberate, Consult, ResumeCompletion,
         Stepping
<1>2. hand' = hand /\ pc' = "stepped"
  BY DEF Think, Orient, Investigate, Deliberate, Consult, ResumeCompletion,
         Stepped
<1>3. \/ UNCHANGED storeVars
      \/ \E w : SaveWorkingState(w) /\ (w.ev = working.ev \/ w.ev = e)
  <2>1. \A stage \in Stages, blocked \in BOOLEAN :
          [At(stage) EXCEPT !.blocked = blocked].ev = working.ev
    BY DEF At, TypeOK, StoreTypeOK, Checkpoint
  <2>2. working.blocked \in BOOLEAN
    BY DEF TypeOK, StoreTypeOK, Checkpoint
  <2>3. CASE Orient(e) \/ Deliberate(e) \/ Consult(e)
    BY <2>3, SavedEvents DEF Orient, Deliberate, Consult, Stages, Verdicts
  <2>4. CASE Investigate(e)
    BY <2>1, <2>2, <2>4, SavedEvents DEF Investigate, Stages, Verdicts
  <2>5. QED
    BY <2>3, <2>4 DEF Think, ResumeCompletion
<1>4. QED
  BY <1>1, <1>2, <1>3, SaveFinal DEF Final, storeVars

(* A step of the event in hand that publishes nothing.                     *)
LEMMA KeepsFinal ==
    ASSUME Final, pc # "clear", UNCHANGED <<status, outcome>>,
           working'.ev \in {working.ev, hand},
           hand' \in {hand, NoEvent},
           pc' \in {"idle", "down"} => hand' = NoEvent
    PROVE  Final'
BY EventsAssumption DEF Final

LEMMA MoveFinal ==
    ASSUME TypeOK, Performing, Final, NEW e \in Events, Move(e)
    PROVE  Final'
<1>1. pc \in {"loaded", "armed", "sent", "observed"}
  BY DEF Move, RefuseReplay, Arm, Dispatch, ObserveReturn, LoseReturn,
         ProveAbsent, CheckpointMove, Stepping
<1>2. hand' = hand /\ pc' \in {"armed", "sent", "observed", "stepped"}
  BY <1>1
  DEF Move, RefuseReplay, Arm, Dispatch, ObserveReturn, LoseReturn,
      ProveAbsent, CheckpointMove, Goto, Stepped
<1>3. UNCHANGED <<status, outcome>>
  BY DEF Move, RefuseReplay, Arm, Dispatch, ObserveReturn, LoseReturn,
         ProveAbsent, CheckpointMove, SaveWorkingState, StartAttempt,
         ObserveStartedAttempt, ResolveAttempt, storeVars
<1>4. working'.ev = working.ev
  <2>1. CASE RefuseReplay(e)
    BY <2>1, SavedEvents DEF RefuseReplay, SaveWorkingState, Blocking
  <2>2. CASE CheckpointMove(e)
    <3>1. cur \in Attempts
      BY <2>2 DEF CheckpointMove, Performing
    <3>2. QED
      BY <2>2, <3>1, SavedEvents
      DEF CheckpointMove, SaveWorkingState, Stages, Verdicts
  <2>3. QED
    BY <2>1, <2>2
    DEF Move, Arm, Dispatch, ObserveReturn, LoseReturn, ProveAbsent,
        StartAttempt, ObserveStartedAttempt, ResolveAttempt, storeVars
<1>5. QED
  BY <1>1, <1>2, <1>3, <1>4, KeepsFinal

LEMMA VerifyFinal ==
    ASSUME TypeOK, Final, NEW e \in Events, Verify(e)
    PROVE  Final'
<1>1. pc \in {"loaded", "probing", "probed"}
  BY DEF Verify, VerifyText, RefuseProbe, ArmProbe, RunProbe, JudgeProbe,
         Stepping
<1>2. hand' = hand /\ pc' \in {"probing", "probed", "stepped"}
  BY DEF Verify, VerifyText, RefuseProbe, ArmProbe, RunProbe, JudgeProbe,
         CheckpointVerdict, Stepped
<1>3. UNCHANGED <<status, outcome>> /\ working'.ev = working.ev
  BY SavedEvents
  DEF Verify, VerifyText, RefuseProbe, ArmProbe, RunProbe, JudgeProbe,
      CheckpointVerdict, SaveWorkingState, StartAttempt,
      ObserveStartedAttempt, Verdicts
<1>4. QED
  BY <1>1, <1>2, <1>3, KeepsFinal

LEMMA RecoverFinal ==
    ASSUME TypeOK, Final, NEW e \in Events, Recover(e)
    PROVE  Final'
<1>1. pc \in {"loaded", "absent"}
  BY DEF Recover, AwaitDecision, ReverifyEffect, ReverifyAbsence,
         RetryAfterAbsence, Hold, ResumeConfirmed, Recovering, Stepping
<1>2. hand' = hand /\ pc' \in {"stepped", "absent"}
  BY DEF Recover, AwaitDecision, ReverifyEffect, ReverifyAbsence,
         RetryAfterAbsence, Hold, ResumeConfirmed, Stepped, Goto
<1>3. UNCHANGED <<status, outcome>> /\ working'.ev = working.ev
  BY SavedEvents
  DEF Recover, AwaitDecision, ReverifyEffect, ReverifyAbsence,
      RetryAfterAbsence, Hold, ResumeConfirmed, SaveWorkingState,
      ResolveAttempt, storeVars, Stages
<1>4. QED
  BY <1>1, <1>2, <1>3, KeepsFinal

LEMMA OthersFinal ==
    ASSUME TypeOK, Final, NEW e \in Events,
           \/ Enqueue(e) \/ RequestCancel(e) \/ UserCancels(e)
           \/ UserAuthorizesRetry(e) \/ UserConfirmsEffect(e)
           \/ StepRaises(e) \/ PulseRaises(e)
           \/ (\E text \in Texts : Edit(e, text))
    PROVE  Final'
<1> USE EventsAssumption
<1>1. CASE Enqueue(e)
  BY <1>1 DEF Enqueue, EnqueueEvent, threadVars, Final, TypeOK, StoreTypeOK
<1>2. CASE RequestCancel(e)
  BY <1>2 DEF RequestCancel, RequestEventCancellation, threadVars, Final
<1>3. CASE UserCancels(e)
  BY <1>3
  DEF UserCancels, CancelUncertainEvent, threadVars, Idle, Final, TypeOK,
      StoreTypeOK
<1>4. CASE UserAuthorizesRetry(e)
  BY <1>4
  DEF UserAuthorizesRetry, AuthorizeUserRetry, threadVars, Final, TypeOK,
      StoreTypeOK, Checkpoint
<1>5. CASE UserConfirmsEffect(e)
  BY <1>5
  DEF UserConfirmsEffect, ConfirmUserEffect, MayResolveUncertain,
      MayCancelUncertain, Final, TypeOK, StoreTypeOK, Checkpoint
<1>6. CASE StepRaises(e)
  <2>1. working'.ev \in {working.ev, hand} /\ UNCHANGED <<status, outcome>>
    BY <1>6, SavedEvents DEF StepRaises, SaveWorkingState, storeVars
  <2>2. /\ pc # "clear"
        /\ hand' \in {hand, NoEvent}
        /\ pc' \in {"idle", "down"} => hand' = NoEvent
    BY <1>6 DEF StepRaises, ToIdle
  <2>3. QED
    BY <2>1, <2>2, KeepsFinal
<1>7. CASE \E text \in Texts : Edit(e, text)
  BY <1>7 DEF Edit, storeVars, threadVars, Final
<1>8. CASE PulseRaises(e)
  BY <1>8 DEF PulseRaises, ToIdle, storeVars, Final
<1>9. QED
  BY <1>1, <1>2, <1>3, <1>4, <1>5, <1>6, <1>7, <1>8

LEMMA FinalStep ==
    ASSUME TypeOK, Performing, Final, [Next]_vars
    PROVE  Final'
<1>1. ASSUME NEW e \in Events,
             Pulse(e) \/ Think(e) \/ Move(e) \/ Verify(e) \/ Recover(e)
      PROVE  Final'
  BY <1>1, PulseFinal, ThinkFinal, MoveFinal, VerifyFinal, RecoverFinal
<1>2. CASE Crash \/ Restart
  BY <1>2, EventsAssumption
  DEF Crash, Restart, RecoverInterruptedEvents, ToIdle, Final, TypeOK,
      StoreTypeOK, storeVars
<1>3. CASE UNCHANGED vars
  BY <1>3 DEF vars, storeVars, threadVars, Final
<1>4. QED
  BY <1>1, <1>2, <1>3, OthersFinal
  DEF Next, LifeStep, Control, Environment

(* A step that only touches what belongs to e, while e has no verdict yet. *)
LEMMA TouchesOnly ==
    ASSUME NEW e \in Events, outcome[e] = "none",
           \A f \in Events \ {e} :
              status'[f] = status[f] /\ outcome'[f] = outcome[f],
           \A a \in Attempts :
              \/ ledger'[a].event = e
              \/ /\ ledger'[a] = ledger[a]
                 /\ a \in dispatched' => a \in dispatched
    PROVE  Quiet
BY DEF Quiet

(* A change of one row, of the event in hand.                              *)
LEMMA TouchesRow ==
    ASSUME TypeOK, NEW e \in Events, outcome[e] = "none",
           UNCHANGED <<status, outcome, dispatched>>,
           NEW a \in Attempts, NEW row \in AttemptRow, row.event = e,
           ledger' = [ledger EXCEPT ![a] = row]
    PROVE  Quiet
<1>1. \A b \in Attempts : ledger'[b].event = e \/ ledger'[b] = ledger[b]
  BY DEF TypeOK, StoreTypeOK
<1>2. QED
  BY <1>1, TouchesOnly

LEMMA SettlesRow ==
    ASSUME TypeOK, NEW e \in Events, outcome[e] = "none",
           \A f \in Events \ {e} :
              status'[f] = status[f] /\ outcome'[f] = outcome[f],
           UNCHANGED dispatched,
           NEW a \in Attempts, ledger[a].event = e, NEW s,
           ledger' = [ledger EXCEPT ![a].status = s]
    PROVE  Quiet
<1>1. \A b \in Attempts : ledger'[b].event = e \/ ledger'[b] = ledger[b]
  BY DEF TypeOK, StoreTypeOK, AttemptRow
<1>2. QED
  BY <1>1, TouchesOnly

LEMMA PulseQuiet ==
    ASSUME TypeOK, Final, NEW e \in Events, Pulse(e)
    PROVE  Quiet
<1> USE DEF OutsideUnchanged, worldVars
<1>1. CASE Claim(e)
  BY <1>1, TouchesOnly DEF Claim, ClaimEvent, TypeOK, StoreTypeOK
<1>2. CASE AbandonUncertain(e)
  <2>1. /\ outcome[e] = "none"
        /\ working.att \in Attempts
        /\ ledger[working.att].event = e
    BY <1>2
    DEF AbandonUncertain, CancelUncertainEvent, MayCancelUncertain,
        OwnsOpenAttempt, Blocking
  <2>2. QED
    BY <1>2, <2>1, SettlesRow
    DEF AbandonUncertain, CancelUncertainEvent, TypeOK, StoreTypeOK
<1>3. CASE Finish(e)
  <2>1. outcome[e] = "none"
    BY <1>3 DEF Finish, CompleteEvent, MayComplete
  <2>2. QED
    BY <1>3, <2>1, TouchesOnly DEF Finish, CompleteEvent, TypeOK, StoreTypeOK
<1>4. QED
  BY <1>1, <1>2, <1>3
  DEF Pulse, StopWork, AbandonRefused, ClearRequest, LoadState, EndStep,
      FinishRefused, Confirm, ClearCancellationRequest, SaveWorkingState,
      storeVars, Quiet

LEMMA MoveQuiet ==
    ASSUME TypeOK, Performing, Final, NEW e \in Events, Move(e)
    PROVE  Quiet
<1> USE DEF OutsideUnchanged, worldVars
<1>1. hand = e /\ outcome[e] = "none"
  BY DEF Final, Move, RefuseReplay, Arm, Dispatch, ObserveReturn, LoseReturn,
         ProveAbsent, CheckpointMove, Stepping
<1>2. ASSUME NEW a \in Attempts, Arm(e, a)
      PROVE  Quiet
  BY <1>1, <1>2, TouchesRow
  DEF Arm, StartAttempt, AttemptRow, Uses, OpenStatuses
<1>3. CASE Dispatch(e)
  <2>1. /\ UNCHANGED <<status, outcome, ledger>>
        /\ dispatched' = dispatched \cup {cur}
        /\ ledger[cur].event = e
    BY <1>1, <1>3 DEF Dispatch, Performing, storeVars
  <2>2. \A a \in Attempts :
           \/ ledger'[a].event = e
           \/ /\ ledger'[a] = ledger[a]
              /\ a \in dispatched' => a \in dispatched
    BY <2>1
  <2>3. \A f \in Events \ {e} :
           status'[f] = status[f] /\ outcome'[f] = outcome[f]
    BY <2>1
  <2>4. QED
    BY <1>1, <2>2, <2>3 DEF Quiet
<1>4. CASE ObserveReturn(e) \/ ProveAbsent(e)
  <2>1. cur \in Attempts /\ ledger[cur].event = e
    BY <1>1, <1>4 DEF ObserveReturn, ProveAbsent, Performing
  <2>2. /\ UNCHANGED <<status, outcome, dispatched>>
        /\ \E s : ledger' = [ledger EXCEPT ![cur].status = s]
    BY <1>4
    DEF ObserveReturn, ProveAbsent, ObserveStartedAttempt, ResolveAttempt
  <2>3. QED
    BY <1>1, <2>1, <2>2, SettlesRow
<1>5. QED
  BY <1>2, <1>3, <1>4
  DEF Move, RefuseReplay, LoseReturn, CheckpointMove, SaveWorkingState,
      storeVars, Quiet

LEMMA VerifyQuiet ==
    ASSUME TypeOK, Performing, Final, NEW e \in Events, Verify(e)
    PROVE  Quiet
<1> USE DEF OutsideUnchanged, worldVars
<1>1. hand = e /\ outcome[e] = "none"
  BY DEF Final, Verify, VerifyText, RefuseProbe, ArmProbe, RunProbe,
         JudgeProbe, Stepping
<1>2. ASSUME NEW a \in Attempts, ArmProbe(e, a)
      PROVE  Quiet
  BY <1>1, <1>2, TouchesRow
  DEF ArmProbe, StartAttempt, AttemptRow, Uses, OpenStatuses
<1>3. CASE RunProbe(e)
  <2>1. cur \in Attempts /\ ledger[cur].event = e
    BY <1>1, <1>3 DEF RunProbe, Performing
  <2>2. QED
    BY <1>1, <1>3, <2>1, SettlesRow DEF RunProbe, ObserveStartedAttempt
<1>4. QED
  BY <1>2, <1>3
  DEF Verify, VerifyText, RefuseProbe, JudgeProbe, CheckpointVerdict,
      SaveWorkingState, Quiet

LEMMA RecoverQuiet ==
    ASSUME TypeOK, Final, NEW e \in Events, Recover(e)
    PROVE  Quiet
<1> USE DEF OutsideUnchanged, worldVars
<1>1. CASE ReverifyEffect(e) \/ ReverifyAbsence(e)
  <2>1. hand = e /\ outcome[e] = "none"
    BY <1>1 DEF ReverifyEffect, ReverifyAbsence, Recovering, Stepping, Final
  <2>2. /\ working.att \in Attempts
        /\ ledger[working.att].event = e
        /\ UNCHANGED <<status, outcome, dispatched>>
        /\ \E s : ledger' = [ledger EXCEPT ![working.att].status = s]
    BY <1>1 DEF ReverifyEffect, ReverifyAbsence, ResolveAttempt, Resolvable
  <2>3. QED
    BY <2>1, <2>2, SettlesRow
<1>2. QED
  BY <1>1
  DEF Recover, AwaitDecision, RetryAfterAbsence, Hold, ResumeConfirmed,
      SaveWorkingState, storeVars, Quiet

LEMMA OthersQuiet ==
    ASSUME TypeOK, Final, NEW e \in Events,
           \/ Enqueue(e) \/ RequestCancel(e) \/ UserCancels(e)
           \/ UserAuthorizesRetry(e) \/ UserConfirmsEffect(e)
           \/ StepRaises(e) \/ PulseRaises(e)
           \/ (\E text \in Texts : Edit(e, text))
    PROVE  Quiet
<1> USE DEF OutsideUnchanged, worldVars
<1>1. CASE Enqueue(e)
  <2>1. outcome[e] = "none"
    BY <1>1 DEF Enqueue, EnqueueEvent, Final, TypeOK, StoreTypeOK
  <2>2. QED
    BY <1>1, <2>1, TouchesOnly DEF Enqueue, EnqueueEvent, TypeOK, StoreTypeOK
<1>2. CASE UserCancels(e) \/ UserAuthorizesRetry(e) \/ UserConfirmsEffect(e)
  <2>1. /\ outcome[e] = "none"
        /\ working.att \in Attempts
        /\ ledger[working.att].event = e
    BY <1>2
    DEF UserCancels, UserAuthorizesRetry, UserConfirmsEffect,
        CancelUncertainEvent, AuthorizeUserRetry, ConfirmUserEffect,
        MayResolveUncertain, MayCancelUncertain, OwnsOpenAttempt, Blocking
  <2>2. /\ \A f \in Events \ {e} :
              status'[f] = status[f] /\ outcome'[f] = outcome[f]
        /\ UNCHANGED dispatched
        /\ \E s : ledger' = [ledger EXCEPT ![working.att].status = s]
    BY <1>2
    DEF UserCancels, UserAuthorizesRetry, UserConfirmsEffect,
        CancelUncertainEvent, AuthorizeUserRetry, ConfirmUserEffect, TypeOK,
        StoreTypeOK
  <2>3. QED
    BY <2>1, <2>2, SettlesRow
<1>3. CASE \/ RequestCancel(e) \/ StepRaises(e) \/ PulseRaises(e)
           \/ \E text \in Texts : Edit(e, text)
  BY <1>3
  DEF RequestCancel, RequestEventCancellation, StepRaises, PulseRaises, Edit,
      SaveWorkingState, storeVars, Quiet
<1>4. QED
  BY <1>1, <1>2, <1>3

LEMMA QuietStep ==
    ASSUME TypeOK, Performing, Final, [Next]_vars
    PROVE  Quiet
<1>1. ASSUME NEW e \in Events, Think(e)
      PROVE  Quiet
  BY <1>1
  DEF Think, Orient, Investigate, Deliberate, Consult, ResumeCompletion,
      SaveWorkingState, OutsideUnchanged, worldVars, storeVars, Quiet
<1>2. ASSUME NEW e \in Events,
             Pulse(e) \/ Move(e) \/ Verify(e) \/ Recover(e)
      PROVE  Quiet
  BY <1>2, PulseQuiet, MoveQuiet, VerifyQuiet, RecoverQuiet
<1>3. CASE Crash \/ Restart
  BY <1>3
  DEF Crash, Restart, RecoverInterruptedEvents, OutsideUnchanged, worldVars,
      storeVars, Final, Quiet
<1>4. CASE UNCHANGED vars
  BY <1>4 DEF vars, storeVars, worldVars, Quiet
<1>5. QED
  BY <1>1, <1>2, <1>3, <1>4, OthersQuiet
  DEF Next, LifeStep, Control, Environment

(* Once a verdict is published it stays, and no attempt of its event is    *)
(* started, sent or settled any more, across any number of restarts.       *)
THEOREM OutcomeIsFinal == Spec => QuietAfterOutcome
<1> DEFINE Inv == TypeOK /\ Performing /\ Final
<1>1. Init => Inv
  BY InitTypes, EventsAssumption DEF Init, StoreInit, Idle, Final
<1>2. Inv /\ [Next]_vars => Inv'
  BY TypesStep, PerformingStep, FinalStep
<1>3. Inv /\ [Next]_vars => Quiet
  BY QuietStep
<1>4. QED
  BY <1>1, <1>2, <1>3, PTL DEF Spec, QuietAfterOutcome
=============================================================================
