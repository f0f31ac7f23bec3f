--------------------------- MODULE Evidence_proofs ---------------------------
(***************************************************************************)
(* What ledger, checkpoint and world say of one another: verdicts stand on *)
(* evidence, held work can be decided, a started movement is tracked, and  *)
(* no effect happens twice unless the user asked for it.                   *)
(***************************************************************************)
EXTENDS NoReplay_proofs

(* A user's confirmation is on file for the attempt of the checkpoint.     *)
Confirmed ==
    /\ working.att \in Attempts
    /\ ledger[working.att].event = working.ev
    /\ ledger[working.att].status = "user_confirmed_effect"

(* Where the life thread stands, whatever the order of the queue: what it  *)
(* is about to write rests on what it has read.                            *)
Bearings ==
    /\ pc \in Loaded \cup {"confirming"} => hand \in Events /\ working.ev = hand
    /\ pc \in {"armed", "sent", "observed"} =>
          working.stage = "native_action" /\ ledger[cur].use = "move"
    /\ pc \in {"armed", "sent"} => ledger[cur].status = "started"
    /\ pc = "sent" => ret # "uncertain"
    /\ pc = "observed" /\ ret = "uncertain" => ledger[cur].status = "started"
    /\ pc = "observed" /\ ret = "ok" => ledger[cur].status = "observed"
    /\ pc \in {"probing", "probed"} => working.stage = "native_verification"
    /\ pc = "absent" => working.stage = "side_effect_recovery"
    /\ pc = "confirming" => /\ working.stage = "side_effect_recovery"
                            /\ working.decision = "effect_happened"
    /\ pc = "finish" => hand \in Events
    /\ pc \notin {"stepped", "finish", "clear"} => result = "none"

(* What a recovery checkpoint says of its attempt and its event.           *)
Recorded ==
    working.stage = "side_effect_recovery" /\ working.ev \in Events =>
        /\ working.decision = "reverify_effect" =>
              Contract[working.ev] \in {"append", "derived"}
        /\ working.decision = "effect_happened" => Confirmed
        /\ working.decision # "effect_happened" =>
              \/ Contract[working.ev] \in {"append", "derived"}
              \/ OwnsOpenAttempt(working.ev)

(* The checkpoint, the ledger and the world bear out a "body" verdict.     *)
Attested(e) ==
    IF Contract[e] # "none"
    THEN world[e] = "after" \/ e \in edited
    ELSE \E a \in Attempts :
            /\ ledger[a].event = e
            /\ ledger[a].status \in {"observed", "user_confirmed_effect"}

(* A checkpoint that carries a verdict, or asks for a verification.        *)
Warranted(w) ==
    w.ev \in Events =>
        /\ w.stage = "completion" /\ w.done = "body" => Attested(w.ev)
        /\ w.stage = "terminal_failure" => w.done # "body"
        /\ w.stage = "native_verification" => Contract[w.ev] # "none"

Evidence ==
    /\ \A e \in Events : outcome[e] = "body" => Attested(e)
    /\ Warranted(working)
    /\ pc \in {"stepped", "finish"} /\ result = "body" => Attested(hand)
    /\ pc = "probed" /\ ret = "ok" => world[hand] = "after" \/ hand \in edited

(* A movement of which nothing came back yet.                              *)
Pending(a) == ledger[a].status = "started" /\ ledger[a].use = "move"

(* Its Work was stopped, or the checkpoint leads back to it.               *)
Followed(a) ==
    \/ outcome[ledger[a].event] = "cancelled"
    \/ /\ outcome[ledger[a].event] = "none"
       /\ working.ev = ledger[a].event
       /\ \/ working.stage = "native_action"
          \/ working.stage = "side_effect_recovery" /\ working.att = a

Tracked ==
    /\ \A a \in Attempts : Pending(a) => Followed(a)
    /\ pc \in {"armed", "sent", "observed"} =>
          \A a \in Attempts : Pending(a) /\ ledger[a].event = hand => a = cur
    /\ pc = "observed" /\ ret # "uncertain" => ledger[cur].status # "started"
    /\ pc \in {"stepped", "finish"} /\ result \notin {"none", "cancelled"} =>
          \A a \in Attempts : Pending(a) => ledger[a].event # hand

(* An effect that happened is never on record as absent, and is to be seen *)
(* in the world unless someone edited it away.                             *)
Visible ==
    /\ \A a \in applied :
          /\ a \in dispatched
          /\ \/ ledger[a].event \in edited
             \/ /\ ledger[a].status # "verified_absent"
                /\ world[ledger[a].event] # "before"
    /\ pc \in {"sent", "observed"} /\ ret = "absent" => cur \notin applied

-----------------------------------------------------------------------------
(* The fields of the checkpoints that steps save.                          *)
LEMMA SavedFields ==
    ASSUME TypeOK
    PROVE  /\ \A stage \in Stages :
                 At(stage).stage = stage /\ At(stage).decision = "none"
           /\ \A stage \in Stages, blocked \in BOOLEAN :
                 [At(stage) EXCEPT !.blocked = blocked].stage = stage
           /\ \A e \in Events : FreshFor(e).stage = "orient"
           /\ FailedMove.stage = "native_investigation"
           /\ \A verdict \in Verdicts :
                 /\ Known(verdict).stage = "completion"
                 /\ Known(verdict).done = verdict
           /\ \A e \in Events, a \in Attempts :
                 LET w == RecoveryOf(e, a) IN
                 /\ w.stage = "side_effect_recovery" /\ w.att = a
                 /\ w.decision = IF Contract[e] \in {"append", "derived"}
                                 THEN "reverify_effect"
                                 ELSE "user_decision_required"
           /\ /\ Held.stage = working.stage /\ Held.att = working.att
              /\ Held.decision = "user_decision_required"
           /\ \A e \in Events : /\ TerminalFailure(e).stage = "terminal_failure"
                                /\ TerminalFailure(e).done = "failure"
           /\ \A e \in Events :
                 IF Contract[e] = "none"
                 THEN /\ AfterConfirmation(e).stage = "completion"
                      /\ AfterConfirmation(e).done = "body"
                 ELSE AfterConfirmation(e).stage = "native_verification"
<1>0. working \in Checkpoint
  BY DEF TypeOK, StoreTypeOK
<1>1. /\ working \in Checkpoint
      /\ \A stage \in Stages : At(stage) \in Checkpoint
  BY <1>0, SavedTypes
<1>2. /\ \A stage \in Stages :
             At(stage).stage = stage /\ At(stage).decision = "none"
      /\ \A stage \in Stages, blocked \in BOOLEAN :
             [At(stage) EXCEPT !.blocked = blocked].stage = stage
  <2>1. ASSUME NEW stage \in Stages
        PROVE  At(stage).stage = stage /\ At(stage).decision = "none"
    BY <1>0 DEF At, Checkpoint
  <2>2. ASSUME NEW stage \in Stages, NEW blocked \in BOOLEAN
        PROVE  [At(stage) EXCEPT !.blocked = blocked].stage = stage
    BY <1>1, <2>1 DEF Checkpoint
  <2> QED BY <2>1, <2>2
<1>3. \A e \in Events : FreshFor(e).stage = "orient"
  BY DEF FreshFor, Idle
<1>4. /\ {"native_investigation", "completion", "terminal_failure",
           "native_verification"} \subseteq Stages
      /\ "body" \in Verdicts
  BY DEF Stages, Verdicts
<1>5. FailedMove.stage = "native_investigation"
  BY <1>1, <1>2, <1>4 DEF FailedMove, Checkpoint
<1>6. \A verdict \in Verdicts : /\ Known(verdict).stage = "completion"
                                /\ Known(verdict).done = verdict
  BY <1>1, <1>2, <1>4 DEF Known, Checkpoint
<1>7. \A e \in Events, a \in Attempts :
        LET w == RecoveryOf(e, a) IN
        /\ w.stage = "side_effect_recovery" /\ w.att = a
        /\ w.decision = IF Contract[e] \in {"append", "derived"}
                        THEN "reverify_effect" ELSE "user_decision_required"
  BY <1>1 DEF RecoveryOf, Checkpoint
<1>8. /\ Held.stage = working.stage /\ Held.att = working.att
      /\ Held.decision = "user_decision_required"
  BY <1>1 DEF Held, Checkpoint
<1>9. \A e \in Events : /\ TerminalFailure(e).stage = "terminal_failure"
                        /\ TerminalFailure(e).done = "failure"
  BY <1>1, <1>2, <1>4 DEF TerminalFailure, Checkpoint
<1> QED
  BY <1>2, <1>3, <1>4, <1>5, <1>6, <1>7, <1>8, <1>9 DEF AfterConfirmation
-----------------------------------------------------------------------------
(* The thread keeps its bearings.                                          *)

LEMMA SteppedBearings ==
    ASSUME Bearings, pc \in Loaded, pc' = "stepped", hand' = hand,
           working'.ev \in {working.ev, hand}
    PROVE  Bearings'
BY DEF Bearings, Loaded

LEMMA RestBearings ==
    ASSUME Bearings,
           \/ pc' = "idle" /\ result' = "none"
           \/ pc' = "down" /\ result' = "none"
           \/ pc' = "clear"
           \/ pc' = "claimed" /\ result' = "none"
           \/ pc' = "finish" /\ hand' \in Events
           \/ UNCHANGED <<pc, hand, cur, ret, result, working, ledger>>
    PROVE  Bearings'
BY DEF Bearings, Loaded

LEMMA PulseBearings ==
    ASSUME TypeOK, Bearings, NEW e \in Events, Pulse(e)
    PROVE  Bearings'
<1> USE DEF OutsideUnchanged
<1>1. CASE LoadState(e)
  <2>1. /\ pc' = "loaded" /\ hand' = e
        /\ result' = result /\ result = "none"
    BY <1>1 DEF LoadState, Goto, Bearings
  <2>2. working'.ev = e
    BY <1>1, SavedEvents DEF LoadState, SaveWorkingState
  <2> QED BY <2>1, <2>2 DEF Bearings
<1>2. CASE ~LoadState(e)
  <2>1. \/ pc' = "idle" /\ result' = "none"
        \/ pc' = "clear"
        \/ pc' = "claimed" /\ result' = "none"
        \/ pc' = "finish" /\ hand' \in Events
    BY <1>2 DEF Pulse, Claim, StopWork, AbandonUncertain, AbandonRefused,
           ClearRequest, EndStep, Finish, FinishRefused, Confirm, Goto, ToIdle,
           Cancelling, Bearings
  <2> QED BY <2>1, RestBearings
<1> QED BY <1>1, <1>2

LEMMA MoveBearings ==
    ASSUME TypeOK, Performing, Bearings, NEW e \in Events, Move(e)
    PROVE  Bearings'
<1>0. /\ hand = e /\ hand' = e /\ pc \in Loaded /\ pc' \in Loaded
      /\ working'.ev = e
  BY StepsStay DEF Bearings
<1>1. CASE RefuseReplay(e) \/ CheckpointMove(e)
  BY <1>0, <1>1, SteppedBearings
  DEF RefuseReplay, CheckpointMove, Stepped, Bearings
<1>2. ASSUME NEW a \in Attempts, Arm(e, a)
      PROVE  Bearings'
  <2>1. /\ pc' = "armed" /\ cur' = a /\ UNCHANGED <<working, ret, result>>
        /\ working.stage = "native_action" /\ pc = "loaded"
        /\ ledger' = [ledger EXCEPT ![a] =
                        [event |-> e, use |-> "move", status |-> "started"]]
    BY <1>2 DEF Arm, Stepping, StartAttempt
  <2>2. ledger'[a] = [event |-> e, use |-> "move", status |-> "started"]
    BY <2>1 DEF TypeOK, StoreTypeOK
  <2> QED BY <1>0, <2>1, <2>2 DEF Bearings
<1>3. CASE Dispatch(e)
  BY <1>0, <1>3 DEF Dispatch, storeVars, Bearings
<1>4. CASE LoseReturn(e)
  BY <1>0, <1>4 DEF LoseReturn, storeVars, Bearings
<1>5. CASE ObserveReturn(e) \/ ProveAbsent(e)
  <2>1. /\ pc \in {"sent", "observed"} /\ pc' = "observed"
        /\ UNCHANGED <<working, cur, result>>
        /\ \/ ret' = "fail" /\ \E s : ledger' = [ledger EXCEPT ![cur].status = s]
           \/ /\ pc = "sent" /\ ret' = ret
              /\ ledger' = [ledger EXCEPT ![cur].status = "observed"]
    BY <1>5
    DEF ObserveReturn, ProveAbsent, ObserveStartedAttempt, ResolveAttempt, Goto
  <2>2. cur \in Attempts
    BY <2>1 DEF Performing
  <2>3. /\ ledger'[cur].use = ledger[cur].use
        /\ ret' = "fail" \/ ledger'[cur].status = "observed"
    BY <2>1, <2>2 DEF TypeOK, StoreTypeOK, AttemptRow
  <2> QED BY <1>0, <2>1, <2>3 DEF Bearings
<1> QED BY <1>1, <1>2, <1>3, <1>4, <1>5 DEF Move

LEMMA VerifyBearings ==
    ASSUME TypeOK, Performing, Bearings, NEW e \in Events, Verify(e)
    PROVE  Bearings'
<1>0. /\ hand = e /\ hand' = e /\ pc \in Loaded /\ pc' \in Loaded
      /\ working'.ev = e
  BY StepsStay DEF Bearings
<1>1. CASE VerifyText(e) \/ RefuseProbe(e) \/ JudgeProbe(e)
  BY <1>0, <1>1, SteppedBearings
  DEF VerifyText, RefuseProbe, JudgeProbe, CheckpointVerdict, Stepped, Bearings
<1>2. CASE \E a \in Attempts : ArmProbe(e, a)
  BY <1>0, <1>2 DEF ArmProbe, Stepping, StartAttempt, Bearings
<1>3. CASE RunProbe(e)
  BY <1>0, <1>3 DEF RunProbe, ObserveStartedAttempt, Bearings
<1> QED BY <1>1, <1>2, <1>3 DEF Verify

LEMMA RecoverBearings ==
    ASSUME TypeOK, Performing, Bearings, NEW e \in Events, Recover(e)
    PROVE  Bearings'
<1>0. /\ hand = e /\ hand' = e /\ pc \in Loaded /\ pc' \in Loaded
      /\ working'.ev = e
  BY StepsStay DEF Bearings
<1>1. CASE ReverifyAbsence(e)
  BY <1>0, <1>1
  DEF ReverifyAbsence, Recovering, Stepping, ResolveAttempt, Goto, Bearings
<1>2. CASE ~ReverifyAbsence(e)
  <2>1. pc' = "stepped"
    BY <1>2 DEF Recover, AwaitDecision, ReverifyEffect, RetryAfterAbsence, Hold,
                ResumeConfirmed, Stepped
  <2> QED BY <1>0, <2>1, SteppedBearings DEF Bearings
<1> QED BY <1>1, <1>2

LEMMA OthersBearings ==
    ASSUME TypeOK, Final, Bearings, NEW e \in Events,
           \/ Enqueue(e) \/ RequestCancel(e) \/ UserCancels(e)
           \/ UserAuthorizesRetry(e) \/ UserConfirmsEffect(e)
           \/ StepRaises(e) \/ PulseRaises(e)
           \/ (\E text \in Texts : Edit(e, text))
    PROVE  Bearings'
<1>1. CASE Enqueue(e) \/ RequestCancel(e) \/ \E text \in Texts : Edit(e, text)
  BY <1>1, RestBearings
  DEF Enqueue, RequestCancel, Edit, EnqueueEvent, RequestEventCancellation,
      storeVars, threadVars, OutsideUnchanged, worldVars
<1>2. CASE UserCancels(e) \/ UserAuthorizesRetry(e)
  <2>1. pc = "idle" /\ pc' = pc /\ result' = result /\ result = "none"
    BY <1>2 DEF UserCancels, UserAuthorizesRetry, threadVars, Bearings
  <2> QED BY <2>1, RestBearings
<1>3. CASE UserConfirmsEffect(e)
  <2>1. /\ pc = "idle" /\ pc' = "confirming" /\ hand' = e /\ result' = result
        /\ working' = [working EXCEPT !.decision = "effect_happened"]
        /\ working.stage = "side_effect_recovery" /\ working.ev = e
    BY <1>3
    DEF UserConfirmsEffect, ConfirmUserEffect, MayResolveUncertain,
        MayCancelUncertain, Uncertain
  <2>2. /\ working'.ev = e /\ working'.stage = "side_effect_recovery"
        /\ working'.decision = "effect_happened"
    BY <2>1 DEF TypeOK, StoreTypeOK, Checkpoint
  <2> QED BY <2>1, <2>2 DEF Bearings
<1>4. CASE StepRaises(e) \/ PulseRaises(e)
  BY <1>4, RestBearings DEF StepRaises, PulseRaises, ToIdle
<1> QED BY <1>1, <1>2, <1>3, <1>4

LEMMA BearingsStep ==
    ASSUME TypeOK, Performing, Final, Bearings, [Next]_vars
    PROVE  Bearings'
<1>1. ASSUME NEW e \in Events, Think(e)
      PROVE  Bearings'
  <2>1. pc' = "stepped"
    BY <1>1 DEF Think, Orient, Investigate, Deliberate, Consult,
                ResumeCompletion, Stepped
  <2> QED BY <1>1, <2>1, StepsStay, SteppedBearings
<1>2. CASE Crash \/ Restart \/ UNCHANGED vars
  <2>1. \/ pc' = "idle" /\ result' = "none"
        \/ pc' = "down" /\ result' = "none"
        \/ UNCHANGED <<pc, hand, cur, ret, result, working, ledger>>
    BY <1>2 DEF Crash, Restart, ToIdle, vars, storeVars, threadVars
  <2> QED BY <2>1, RestBearings
<1> QED
  BY <1>1, <1>2, PulseBearings, MoveBearings, VerifyBearings, RecoverBearings,
     OthersBearings
  DEF Next, LifeStep, Control, Environment
-----------------------------------------------------------------------------
(* Recovery checkpoints stay true.                                         *)

LEMMA RecordedKept ==
    ASSUME Recorded,
           \/ working'.stage # "side_effect_recovery"
           \/ working'.ev \notin Events
           \/ /\ working' = working
              /\ working.att \in Attempts =>
                    ledger'[working.att] = ledger[working.att]
    PROVE  Recorded'
BY DEF Recorded, Confirmed, OwnsOpenAttempt, Blocking

(* The rest of a step only ever writes other stages.                       *)
LEMMA ThinkRecorded ==
    ASSUME TypeOK, Recorded, NEW e \in Events, Think(e)
    PROVE  Recorded'
<1>1. CASE Investigate(e)
  <2>1. working.blocked \in BOOLEAN
    BY DEF TypeOK, StoreTypeOK, Checkpoint
  <2>2. \/ \E stage \in {"native_investigation", "native_deliberation"},
              b \in BOOLEAN : working' = [At(stage) EXCEPT !.blocked = b]
        \/ working' = Known("answer")
    BY <1>1, <2>1 DEF Investigate, SaveWorkingState
  <2>3. /\ {"native_investigation", "native_deliberation"} \subseteq Stages
        /\ "answer" \in Verdicts
    BY DEF Stages, Verdicts
  <2>4. CASE working' = Known("answer")
    BY <2>3, <2>4, SavedFields, RecordedKept
  <2>5. ASSUME NEW stage \in {"native_investigation", "native_deliberation"},
               NEW b \in BOOLEAN, working' = [At(stage) EXCEPT !.blocked = b]
        PROVE  Recorded'
    <3>1. working'.stage = stage
      BY <2>3, <2>5, SavedFields
    <3> QED BY <3>1, RecordedKept
  <2> QED BY <2>2, <2>4, <2>5
<1>2. CASE ResumeCompletion(e)
  BY <1>2, RecordedKept DEF ResumeCompletion, storeVars
<1>3. CASE Orient(e) \/ Deliberate(e) \/ Consult(e)
  <2>1. working'.stage # "side_effect_recovery"
    BY <1>3, SavedFields
    DEF Orient, Deliberate, Consult, SaveWorkingState, Stages, Verdicts
  <2> QED BY <2>1, RecordedKept
<1> QED BY <1>1, <1>2, <1>3 DEF Think

LEMMA RecoveryRecorded ==
    ASSUME TypeOK, NEW e \in Events, NEW a \in Blocking(e, "move"),
           working.ev = e, working' = RecoveryOf(e, a), ledger' = ledger
    PROVE  Recorded'
<1>0. a \in Attempts /\ a \in Blocking(e, "move")'
  BY DEF Blocking
<1>1. /\ working'.ev = e /\ working'.att = a
      /\ working'.decision = IF Contract[e] \in {"append", "derived"}
                             THEN "reverify_effect" ELSE "user_decision_required"
  BY <1>0, SavedFields, SavedEvents
<1> QED BY <1>0, <1>1 DEF Recorded, OwnsOpenAttempt

LEMMA MoveRecorded ==
    ASSUME TypeOK, Performing, Bearings, Recorded, NEW e \in Events, Move(e)
    PROVE  Recorded'
<1>0. hand = e /\ working.ev = e /\ working.stage = "native_action"
  BY StepsStay DEF Move, RefuseReplay, Arm, Dispatch, ObserveReturn, LoseReturn,
                   ProveAbsent, CheckpointMove, Stepping, Bearings
<1>1. CASE RefuseReplay(e)
  BY <1>0, <1>1, RecoveryRecorded DEF RefuseReplay, SaveWorkingState
<1>2. CASE CheckpointMove(e)
  <2>1. cur \in Attempts
    BY <1>2 DEF CheckpointMove, Performing
  <2>2. CASE ret = "uncertain"
    <3>1. cur \in Blocking(e, "move")
      BY <1>0, <1>2, <2>1, <2>2
      DEF CheckpointMove, Blocking, Bearings, Performing, OpenStatuses
    <3> QED
      BY <1>0, <1>2, <2>2, <3>1, RecoveryRecorded
      DEF CheckpointMove, SaveWorkingState
  <2>3. CASE ret # "uncertain"
    <3>1. working'.stage # "side_effect_recovery"
      BY <1>2, <2>3, SavedFields
      DEF CheckpointMove, SaveWorkingState, Stages, Verdicts
    <3> QED BY <3>1, RecordedKept
  <2> QED BY <2>2, <2>3
<1>3. CASE ~RefuseReplay(e) /\ ~CheckpointMove(e)
  <2>1. working' = working
    BY <1>3 DEF Move, Arm, Dispatch, ObserveReturn, LoseReturn, ProveAbsent,
                StartAttempt, ObserveStartedAttempt, ResolveAttempt, storeVars
  <2> QED BY <1>0, <2>1, RecordedKept
<1> QED BY <1>1, <1>2, <1>3

LEMMA VerifyRecorded ==
    ASSUME TypeOK, Performing, Bearings, Recorded, NEW e \in Events, Verify(e)
    PROVE  Recorded'
<1>1. CASE VerifyText(e) \/ RefuseProbe(e) \/ JudgeProbe(e)
  <2>1. working'.stage # "side_effect_recovery"
    BY <1>1, SavedFields
    DEF VerifyText, RefuseProbe, JudgeProbe, CheckpointVerdict,
        SaveWorkingState, Verdicts
  <2> QED BY <2>1, RecordedKept
<1>2. CASE RunProbe(e) \/ \E a \in Attempts : ArmProbe(e, a)
  <2>1. working' = working /\ working.stage = "native_verification"
    BY <1>2 DEF RunProbe, ArmProbe, Stepping, StartAttempt,
                ObserveStartedAttempt, Bearings
  <2> QED BY <2>1, RecordedKept
<1> QED BY <1>1, <1>2 DEF Verify

LEMMA RecoverRecorded ==
    ASSUME TypeOK, Performing, Bearings, Recorded, NEW e \in Events, Recover(e)
    PROVE  Recorded'
<1>1. CASE AwaitDecision(e)
  BY <1>1, RecordedKept DEF AwaitDecision, storeVars
<1>2. CASE ReverifyEffect(e) \/ ReverifyAbsence(e)
  <2>1. working' = working /\ working.decision = "reverify_effect"
    BY <1>2 DEF ReverifyEffect, ReverifyAbsence, Recovering, ResolveAttempt
  <2> QED BY <2>1 DEF Recorded
<1>3. CASE RetryAfterAbsence(e) \/ ResumeConfirmed(e)
  <2>1. working'.stage # "side_effect_recovery"
    BY <1>3, SavedFields
    DEF RetryAfterAbsence, ResumeConfirmed, SaveWorkingState, Stages
  <2> QED BY <2>1, RecordedKept
<1>4. CASE Hold(e)
  <2>1. /\ working'.decision = "user_decision_required"
        /\ working'.ev = working.ev /\ working.stage = "side_effect_recovery"
        /\ working.decision = "reverify_effect"
    BY <1>4, SavedFields, SavedEvents
    DEF Hold, SaveWorkingState, Recovering, Stepping
  <2> QED BY <2>1 DEF Recorded
<1> QED BY <1>1, <1>2, <1>3, <1>4 DEF Recover

LEMMA PulseRecorded ==
    ASSUME TypeOK, Recorded, NEW e \in Events, Pulse(e)
    PROVE  Recorded'
<1> USE EventsAssumption
<1>1. CASE LoadState(e) \/ Confirm(e)
  <2>1. \/ working' = working /\ ledger' = ledger
        \/ working'.stage # "side_effect_recovery"
    BY <1>1, SavedFields DEF LoadState, Confirm, SaveWorkingState, storeVars
  <2> QED BY <2>1, RecordedKept
<1>2. CASE ~LoadState(e) /\ ~Confirm(e)
  <2>1. working' = Idle \/ (working' = working /\ ledger' = ledger)
    BY <1>2 DEF Pulse, Claim, StopWork, AbandonUncertain, AbandonRefused,
           ClearRequest, EndStep, Finish, FinishRefused, ClaimEvent,
           CancelUncertainEvent, ClearCancellationRequest, CompleteEvent,
           storeVars
  <2> QED BY <2>1, RecordedKept DEF Idle
<1> QED BY <1>1, <1>2

LEMMA OthersRecorded ==
    ASSUME TypeOK, Recorded, NEW e \in Events,
           \/ Enqueue(e) \/ RequestCancel(e) \/ UserCancels(e)
           \/ UserAuthorizesRetry(e) \/ UserConfirmsEffect(e)
           \/ StepRaises(e) \/ PulseRaises(e)
           \/ (\E text \in Texts : Edit(e, text))
    PROVE  Recorded'
<1>1. CASE UserConfirmsEffect(e)
  <2>1. /\ working.att \in Attempts /\ ledger[working.att].event = e
        /\ working.ev = e
        /\ working' = [working EXCEPT !.decision = "effect_happened"]
        /\ ledger' = [ledger EXCEPT ![working.att].status =
                                        "user_confirmed_effect"]
    BY <1>1 DEF UserConfirmsEffect, ConfirmUserEffect, MayResolveUncertain,
                MayCancelUncertain, OwnsOpenAttempt, Blocking, Uncertain
  <2>2. /\ working'.ev = e /\ working'.att = working.att
        /\ working'.decision = "effect_happened"
    BY <2>1 DEF TypeOK, StoreTypeOK, Checkpoint
  <2>3. /\ ledger'[working.att].event = e
        /\ ledger'[working.att].status = "user_confirmed_effect"
    BY <2>1 DEF TypeOK, StoreTypeOK, AttemptRow
  <2> QED BY <2>1, <2>2, <2>3 DEF Recorded, Confirmed
<1>2. CASE UserCancels(e)
  BY <1>2, RecordedKept DEF UserCancels, CancelUncertainEvent, Idle
<1>3. CASE UserAuthorizesRetry(e)
  <2>1. working'.stage = "native_action"
    BY <1>3 DEF UserAuthorizesRetry, AuthorizeUserRetry, TypeOK, StoreTypeOK,
                Checkpoint
  <2> QED BY <2>1, RecordedKept
<1>4. CASE \/ Enqueue(e) \/ RequestCancel(e) \/ StepRaises(e)
           \/ PulseRaises(e)
           \/ \E text \in Texts : Edit(e, text)
  <2>1. \/ working' = working /\ ledger' = ledger
        \/ working'.stage # "side_effect_recovery"
    BY <1>4, SavedFields
    DEF Enqueue, RequestCancel, StepRaises, PulseRaises, Edit, EnqueueEvent,
        RequestEventCancellation, SaveWorkingState, storeVars
  <2> QED BY <2>1, RecordedKept
<1> QED BY <1>1, <1>2, <1>3, <1>4

LEMMA RecordedStep ==
    ASSUME TypeOK, Performing, Bearings, Recorded, [Next]_vars
    PROVE  Recorded'
<1>1. CASE Crash \/ Restart \/ UNCHANGED vars
  BY <1>1, RecordedKept
  DEF Crash, Restart, RecoverInterruptedEvents, vars, storeVars
<1> QED
  BY <1>1, PulseRecorded, ThinkRecorded, MoveRecorded, VerifyRecorded,
     RecoverRecorded, OthersRecorded
  DEF Next, LifeStep, Control, Environment

-----------------------------------------------------------------------------
(* Verdicts stay borne out.                                                *)

(* Evidence for f outlives a step that takes none of it away.              *)
LEMMA AttestedKept ==
    ASSUME NEW f \in Events, Attested(f),
           world'[f] = world[f] \/ f \in edited', edited \subseteq edited',
           \A a \in Attempts :
              Contract[f] = "none" /\ ledger[a].event = f
              /\ ledger[a].status \in {"observed", "user_confirmed_effect"} =>
                 /\ ledger'[a].event = f
                 /\ ledger'[a].status \in {"observed", "user_confirmed_effect"}
    PROVE  Attested(f)'
BY DEF Attested

(* Only the checkpoint and the thread move.                                *)
LEMMA ThreadEvidence ==
    ASSUME TypeOK, Evidence, UNCHANGED <<outcome, ledger, world, edited>>,
           Warranted(working'),
           pc' \in {"stepped", "finish"} /\ result' = "body" =>
              hand' \in Events /\ Attested(hand'),
           pc' # "probed" \/ UNCHANGED <<pc, ret, hand>>
    PROVE  Evidence'
<1>1. \A f \in Events : Attested(f)' <=> Attested(f)
  BY DEF Attested
<1>2. (\A e \in Events : outcome[e] = "body" => Attested(e))'
  BY <1>1 DEF Evidence
<1>3. Warranted(working)'
  BY <1>1 DEF Warranted
<1>4. (pc \in {"stepped", "finish"} /\ result = "body" => Attested(hand))'
  BY DEF Attested
<1> QED BY <1>2, <1>3, <1>4 DEF Evidence

(* A change about e, at a moment when nothing is claimed for e.            *)
LEMMA WorldEvidence ==
    ASSUME TypeOK, Final, Evidence, NEW e \in Events, outcome[e] = "none",
           outcome'[e] # "body",
           \A f \in Events \ {e} : outcome'[f] = outcome[f] /\ world'[f] = world[f],
           edited' = edited,
           \A a \in Attempts : ledger[a].event \in Events \ {e} => ledger'[a] = ledger[a],
           working'.ev \in {e, NoEvent},
           working'.stage \notin {"completion", "terminal_failure", "native_verification"},
           pc' \notin {"stepped", "finish", "probed"}
    PROVE  Evidence'
<1> USE EventsAssumption
<1>1. ASSUME NEW f \in Events \ {e}, Attested(f)
      PROVE  Attested(f)'
  BY <1>1, AttestedKept
<1>2. (\A f \in Events : outcome[f] = "body" => Attested(f))'
  BY <1>1 DEF Evidence
<1>3. Warranted(working)'
  BY DEF Warranted
<1> QED BY <1>2, <1>3 DEF Evidence

(* A step that only thinks, or only moves the thread.                      *)
LEMMA ThinkEvidence ==
    ASSUME TypeOK, Final, Bearings, Evidence, NEW e \in Events, Think(e)
    PROVE  Evidence'
<1>0. /\ hand = e /\ hand' = e /\ pc' = "stepped" /\ working.ev = e
      /\ UNCHANGED <<outcome, ledger, world, edited>>
  BY DEF Think, Orient, Investigate, Deliberate, Consult, ResumeCompletion,
         Stepping, Stepped, SaveWorkingState, OutsideUnchanged, worldVars,
         storeVars, Bearings, Loaded
<1>1. CASE ResumeCompletion(e)
  <2>1. /\ working' = working /\ result' = working.done
        /\ working.stage \in {"completion", "terminal_failure"}
    BY <1>1 DEF ResumeCompletion, Stepping, Stepped, storeVars
  <2>2. Warranted(working) /\ (result' = "body" => Attested(e))
    BY <1>0, <2>1 DEF Evidence, Warranted
  <2> QED BY <1>0, <2>1, <2>2, ThreadEvidence
<1>2. CASE ~ResumeCompletion(e)
  <2>1. result' # "body"
    BY <1>2 DEF Think, Orient, Investigate, Deliberate, Consult, Stepped
  <2>2. {"native_investigation", "native_deliberation", "native_action",
         "external_cognition"} \subseteq Stages
        /\ {"answer", "failure"} \subseteq Verdicts
    BY DEF Stages, Verdicts
  <2>3. Warranted(working')
    <3>1. CASE Investigate(e)
      <4>1. working.blocked \in BOOLEAN
        BY DEF TypeOK, StoreTypeOK, Checkpoint
      <4>2. \/ \E stage \in {"native_investigation", "native_deliberation"},
                  b \in BOOLEAN : working' = [At(stage) EXCEPT !.blocked = b]
            \/ working' = Known("answer")
        BY <3>1, <4>1 DEF Investigate, SaveWorkingState
      <4>3. ASSUME NEW stage \in {"native_investigation",
                                  "native_deliberation"},
                   NEW b \in BOOLEAN,
                   working' = [At(stage) EXCEPT !.blocked = b]
            PROVE  working'.stage = stage
        BY <2>2, <4>3, SavedFields
      <4>4. \/ working'.stage \in {"native_investigation",
                                   "native_deliberation"}
            \/ working' = Known("answer")
        BY <4>2, <4>3
      <4> QED BY <2>2, <4>4, SavedFields DEF Warranted
    <3>2. CASE ~Investigate(e)
      <4>1. \/ \E stage \in {"native_investigation", "native_action",
                             "external_cognition"} : working' = At(stage)
            \/ \E verdict \in {"answer", "failure"} : working' = Known(verdict)
            \/ working' = TerminalFailure(e)
        BY <1>2, <3>2 DEF Think, Orient, Deliberate, Consult, SaveWorkingState
      <4>2. ASSUME NEW stage \in {"native_investigation", "native_action",
                                  "external_cognition"}, working' = At(stage)
            PROVE  Warranted(working')
        BY <2>2, <4>2, SavedFields DEF Warranted
      <4>3. ASSUME NEW verdict \in {"answer", "failure"},
                   working' = Known(verdict)
            PROVE  Warranted(working')
        BY <2>2, <4>3, SavedFields DEF Warranted
      <4>4. CASE working' = TerminalFailure(e)
        BY <4>4, SavedFields DEF Warranted
      <4> QED BY <4>1, <4>2, <4>3, <4>4
    <3> QED BY <3>1, <3>2
  <2> QED BY <1>0, <2>1, <2>3, ThreadEvidence
<1> QED BY <1>1, <1>2

LEMMA MoveEvidence ==
    ASSUME TypeOK, Performing, Final, Bearings, Evidence,
           NEW e \in Events, Move(e)
    PROVE  Evidence'
<1> USE DEF OutsideUnchanged, worldVars
<1>0. /\ hand = e /\ hand' = e /\ pc \in Loaded /\ working.ev = e
      /\ outcome' = outcome /\ outcome[e] = "none"
      /\ working.stage = "native_action" /\ working'.ev = e
  BY StepsStay DEF Move, RefuseReplay, Arm, Dispatch, ObserveReturn, LoseReturn,
                   ProveAbsent, CheckpointMove, Stepping, Bearings, Final, Loaded
<1>1. CASE RefuseReplay(e)
  <2>1. working'.stage = "side_effect_recovery"
    BY <1>1, SavedFields DEF RefuseReplay, SaveWorkingState, Blocking
  <2> QED
    BY <1>0, <1>1, <2>1, ThreadEvidence
    DEF RefuseReplay, SaveWorkingState, Stepped, Warranted
<1>2. CASE CheckpointMove(e)
  <2>0. /\ cur \in Attempts /\ pc' = "stepped"
        /\ UNCHANGED <<outcome, ledger, world, edited>>
    BY <1>2 DEF CheckpointMove, Performing, SaveWorkingState, Stepped
  <2>1. CASE ret = "ok" /\ Contract[e] = "none"
    <3>1. Attested(e)
      BY <1>0, <1>2, <2>0, <2>1
      DEF CheckpointMove, Attested, Bearings, Performing
    <3>2. /\ working' = Known("body") /\ "body" \in Verdicts
      BY <1>2, <2>1 DEF CheckpointMove, SaveWorkingState, Verdicts
    <3> QED BY <1>0, <2>0, <3>1, <3>2, SavedFields, ThreadEvidence DEF Warranted
  <2>2. CASE ret = "ok" /\ Contract[e] # "none"
    <3>1. /\ working' = At("native_verification") /\ result' = "none"
          /\ "native_verification" \in Stages
      BY <1>2, <2>2 DEF CheckpointMove, SaveWorkingState, Stepped, Stages
    <3> QED BY <1>0, <2>0, <2>2, <3>1, SavedFields, ThreadEvidence DEF Warranted
  <2>3. CASE ret # "ok"
    <3>1. /\ working' = RecoveryOf(e, cur) \/ working' = FailedMove
          /\ result' = "none"
      BY <1>2, <2>3 DEF CheckpointMove, SaveWorkingState, Stepped
    <3> QED BY <1>0, <2>0, <3>1, SavedFields, ThreadEvidence DEF Warranted
  <2> QED BY <2>1, <2>2, <2>3
<1>3. CASE LoseReturn(e)
  BY <1>0, <1>3, ThreadEvidence DEF LoseReturn, storeVars, Evidence
<1>4. ASSUME NEW a \in Attempts, Arm(e, a)
      PROVE  Evidence'
  <2>1. ledger[a].status = "free" /\ edited' = edited /\ world' = world
        /\ pc' = "armed" /\ working' = working
        /\ \A b \in Attempts \ {a} : ledger'[b] = ledger[b]
    BY <1>4 DEF Arm, StartAttempt, TypeOK, StoreTypeOK
  <2>2. ASSUME NEW f \in Events, Attested(f)
        PROVE  Attested(f)'
    BY <2>1, <2>2, AttestedKept
  <2>3. (\A f \in Events : outcome[f] = "body" => Attested(f))'
    BY <1>0, <2>2 DEF Evidence
  <2> QED BY <1>0, <2>1, <2>3 DEF Evidence, Warranted
<1>5. CASE Dispatch(e) \/ ObserveReturn(e) \/ ProveAbsent(e)
  <2>1. /\ pc' \in {"sent", "observed"} /\ working' = working /\ edited' = edited
        /\ cur \in Attempts /\ ledger[cur].event = e
    BY <1>0, <1>5
    DEF Dispatch, ObserveReturn, ProveAbsent, ObserveStartedAttempt,
        ResolveAttempt, storeVars, Performing, Goto
  <2>2. \A f \in Events \ {e} : world'[f] = world[f]
    BY <1>5
    DEF Dispatch, ObserveReturn, ProveAbsent, TypeOK, OutsideTypeOK
  <2>3. \A a \in Attempts \ {cur} : ledger'[a] = ledger[a]
    BY <1>5
    DEF Dispatch, ObserveReturn, ProveAbsent, ObserveStartedAttempt,
        ResolveAttempt, storeVars, TypeOK, StoreTypeOK
  <2> QED BY <1>0, <2>1, <2>2, <2>3, WorldEvidence
<1> QED BY <1>1, <1>2, <1>3, <1>4, <1>5 DEF Move

(* What a verification, passed or not, leaves behind.                      *)
LEMMA VerdictEvidence ==
    ASSUME TypeOK, Evidence, NEW e \in Events, hand = e, hand' = e,
           NEW verified \in BOOLEAN, verified => Attested(e),
           CheckpointVerdict(verified), OutsideUnchanged, working'.ev = e
    PROVE  Evidence'
<1>1. /\ UNCHANGED <<outcome, ledger, world, edited>> /\ pc' = "stepped"
      /\ \/ working' = Known("body") /\ Attested(e)
         \/ working' = FailedMove /\ result' = "none"
  BY DEF CheckpointVerdict, SaveWorkingState, Stepped, OutsideUnchanged, worldVars
<1>2. "body" \in Verdicts
  BY DEF Verdicts
<1> QED BY <1>1, <1>2, SavedFields, ThreadEvidence DEF Warranted

LEMMA VerifyEvidence ==
    ASSUME TypeOK, Performing, Final, Bearings, Evidence,
           NEW e \in Events, Verify(e)
    PROVE  Evidence'
<1>0. /\ hand = e /\ hand' = e /\ pc \in Loaded /\ working.ev = e
      /\ outcome' = outcome /\ outcome[e] = "none" /\ working'.ev = e
      /\ working.stage = "native_verification" /\ Contract[e] # "none"
  BY StepsStay
  DEF Verify, VerifyText, RefuseProbe, ArmProbe, RunProbe, JudgeProbe, Stepping,
      Bearings, Final, Loaded, Evidence, Warranted
<1>1. CASE VerifyText(e)
  <2>1. world[e] = "after" => Attested(e)
    BY <1>0 DEF Attested
  <2> QED BY <1>0, <1>1, <2>1, VerdictEvidence DEF VerifyText
<1>2. CASE RefuseProbe(e)
  BY <1>0, <1>2, VerdictEvidence DEF RefuseProbe
<1>3. CASE JudgeProbe(e)
  <2>1. ret = "ok" => Attested(e)
    BY <1>0, <1>3 DEF JudgeProbe, Evidence, Attested
  <2> QED BY <1>0, <1>3, <2>1, VerdictEvidence DEF JudgeProbe
<1>4. ASSUME RunProbe(e) \/ \E a \in Attempts : ArmProbe(e, a)
      PROVE  Evidence'
  <2>1. /\ UNCHANGED <<working, world, edited>>
        /\ pc' = "probing" \/ (pc' = "probed" /\ (ret' = "ok" => world[e] = "after"))
        /\ \E a \in Attempts :
              /\ \A b \in Attempts \ {a} : ledger'[b] = ledger[b]
              /\ ledger[a].status \in {"free", "started"}
    BY <1>4
    DEF RunProbe, ArmProbe, StartAttempt, ObserveStartedAttempt, Performing,
        TypeOK, StoreTypeOK, OutsideUnchanged, worldVars
  <2>2. ASSUME NEW f \in Events, Attested(f)
        PROVE  Attested(f)'
    BY <2>1, <2>2, AttestedKept
  <2>3. (\A f \in Events : outcome[f] = "body" => Attested(f))'
    BY <1>0, <2>2 DEF Evidence
  <2>4. Warranted(working)'
    BY <1>0, <2>1 DEF Warranted
  <2> QED BY <1>0, <2>1, <2>3, <2>4 DEF Evidence
<1> QED BY <1>1, <1>2, <1>3, <1>4 DEF Verify

(* What the user's confirmation leads to.                                  *)
LEMMA ConfirmedEvidence ==
    ASSUME TypeOK, Recorded, NEW e \in Events, working.ev = e,
           working.stage = "side_effect_recovery",
           working.decision = "effect_happened"
    PROVE  /\ Warranted(AfterConfirmation(e))
           /\ Contract[e] = "none" => Attested(e)
<1>1. Contract[e] = "none" => Attested(e)
  BY DEF Recorded, Confirmed, Attested
<1>2. AfterConfirmation(e).ev = e
  BY SavedEvents
<1> QED BY <1>1, <1>2, SavedFields DEF Warranted

LEMMA RecoverEvidence ==
    ASSUME TypeOK, Final, Bearings, Recorded, Evidence,
           NEW e \in Events, Recover(e), Performing
    PROVE  Evidence'
<1> USE DEF OutsideUnchanged, worldVars
<1>0. /\ hand = e /\ hand' = e /\ pc \in Loaded /\ working.ev = e
      /\ outcome' = outcome /\ outcome[e] = "none" /\ working'.ev = e
      /\ working.stage = "side_effect_recovery"
      /\ UNCHANGED <<world, edited>>
  BY StepsStay
  DEF Recover, AwaitDecision, ReverifyEffect, ReverifyAbsence,
      RetryAfterAbsence, Hold, ResumeConfirmed, Recovering, Stepping,
      Bearings, Final, Loaded
<1>1. CASE AwaitDecision(e)
  BY <1>0, <1>1, ThreadEvidence
  DEF AwaitDecision, storeVars, Stepped, Evidence
<1>2. CASE ReverifyEffect(e) \/ ReverifyAbsence(e)
  <2>1. /\ working' = working /\ Contract[e] # "none"
        /\ ledger[working.att].event = e
        /\ \A a \in Attempts \ {working.att} : ledger'[a] = ledger[a]
        /\ \/ pc' = "stepped" /\ world[e] = "after"
           \/ pc' = "absent"
    BY <1>0, <1>2
    DEF ReverifyEffect, ReverifyAbsence, Recovering, ResolveAttempt, Resolvable,
        Recorded, TypeOK, StoreTypeOK, Stepped, Goto
  <2>2. ASSUME NEW f \in Events, Attested(f)
        PROVE  Attested(f)'
    BY <1>0, <2>1, <2>2, AttestedKept
  <2>3. (\A f \in Events : outcome[f] = "body" => Attested(f))'
    BY <1>0, <2>2 DEF Evidence
  <2>4. pc' = "stepped" => Attested(e)'
    BY <1>0, <2>1 DEF Attested
  <2> QED BY <1>0, <2>1, <2>3, <2>4 DEF Evidence, Warranted
<1>3. CASE RetryAfterAbsence(e) \/ Hold(e)
  <2>1. working'.stage \in {"native_action", "side_effect_recovery"}
    BY <1>0, <1>3, SavedFields
    DEF RetryAfterAbsence, Hold, SaveWorkingState, Stages
  <2> QED
    BY <1>0, <1>3, <2>1, ThreadEvidence
    DEF RetryAfterAbsence, Hold, SaveWorkingState, Stepped, Warranted
<1>4. CASE ResumeConfirmed(e)
  <2>1. working.decision = "effect_happened"
    BY <1>4 DEF ResumeConfirmed, Recovering
  <2> QED
    BY <1>0, <1>4, <2>1, ConfirmedEvidence, ThreadEvidence
    DEF ResumeConfirmed, SaveWorkingState, Stepped
<1> QED BY <1>1, <1>2, <1>3, <1>4 DEF Recover

(* Work on e is abandoned with its uncertain movement.                     *)
LEMMA CancelEvidence ==
    ASSUME TypeOK, Final, Evidence, NEW e \in Events, CancelUncertainEvent(e),
           OutsideUnchanged, pc' \in {"clear", "idle"}
    PROVE  Evidence'
<1>1. /\ outcome[e] = "none" /\ working.att \in Attempts
      /\ ledger[working.att].event = e
  BY DEF CancelUncertainEvent, MayCancelUncertain, OwnsOpenAttempt, Blocking
<1>2. /\ outcome'[e] = "cancelled" /\ working' = Idle
      /\ \A f \in Events \ {e} : outcome'[f] = outcome[f]
      /\ \A a \in Attempts \ {working.att} : ledger'[a] = ledger[a]
      /\ UNCHANGED <<world, edited>>
  BY DEF CancelUncertainEvent, TypeOK, StoreTypeOK, OutsideUnchanged, worldVars
<1> QED BY <1>1, <1>2, WorldEvidence DEF Idle

LEMMA PulseEvidence ==
    ASSUME TypeOK, Final, Bearings, Recorded, Evidence,
           NEW e \in Events, Pulse(e)
    PROVE  Evidence'
<1> USE DEF OutsideUnchanged, worldVars
<1>1. CASE AbandonUncertain(e)
  BY <1>1, CancelEvidence DEF AbandonUncertain, Goto
<1>2. CASE Finish(e)
  <2>1. /\ hand = e /\ pc = "finish" /\ pc' = "idle" /\ working' = Idle
        /\ UNCHANGED <<ledger, world, edited>>
        /\ outcome' = [outcome EXCEPT ![e] = PublishedVerdict(e, result)]
    BY <1>2 DEF Finish, CompleteEvent, ToIdle
  <2>2. /\ outcome'[e] = "body" => result = "body"
        /\ \A f \in Events \ {e} : outcome'[f] = outcome[f]
    BY <2>1 DEF PublishedVerdict, TypeOK, StoreTypeOK
  <2>3. \A f \in Events : Attested(f)' <=> Attested(f)
    BY <2>1 DEF Attested
  <2>4. (\A f \in Events : outcome[f] = "body" => Attested(f))'
    BY <2>1, <2>2, <2>3 DEF Evidence
  <2> QED BY <2>1, <2>4, EventsAssumption DEF Evidence, Warranted, Idle
<1>3. CASE LoadState(e)
  <2>1. working' = working \/ working' = FreshFor(e)
    BY <1>3 DEF LoadState, SaveWorkingState
  <2>2. Warranted(working')
    BY <2>1, SavedFields DEF Warranted, Evidence
  <2>3. /\ pc' = "loaded" /\ UNCHANGED <<outcome, ledger, world, edited>>
    BY <1>3 DEF LoadState, SaveWorkingState, Goto
  <2> QED BY <2>2, <2>3, ThreadEvidence
<1>4. CASE Confirm(e)
  <2>1. /\ pc' = "idle" /\ UNCHANGED <<outcome, ledger, world, edited>>
        /\ working' \in {working, AfterConfirmation(e)}
        /\ working.ev = e /\ working.stage = "side_effect_recovery"
        /\ working.decision = "effect_happened"
    BY <1>4 DEF Confirm, SaveWorkingState, ToIdle, storeVars, Bearings
  <2>2. Warranted(working')
    BY <2>1, ConfirmedEvidence DEF Evidence
  <2> QED BY <2>1, <2>2, ThreadEvidence
<1>5. CASE \/ Claim(e) \/ StopWork(e) \/ AbandonRefused(e) \/ ClearRequest(e)
           \/ EndStep(e) \/ FinishRefused(e)
  <2>1. /\ UNCHANGED <<outcome, ledger, working, world, edited>>
        /\ pc' \in {"stepped", "finish"} /\ result' = "body" =>
              pc = "stepped" /\ result = result' /\ hand' = hand /\ hand = e
        /\ pc' # "probed"
    BY <1>5
    DEF Claim, StopWork, AbandonRefused, ClearRequest, EndStep, FinishRefused,
        ClaimEvent, ClearCancellationRequest, storeVars, ToIdle, Goto
  <2> QED BY <2>1, ThreadEvidence DEF Evidence
<1> QED BY <1>1, <1>2, <1>3, <1>4, <1>5 DEF Pulse

LEMMA OthersEvidence ==
    ASSUME TypeOK, Final, Bearings, Evidence, NEW e \in Events,
           \/ Enqueue(e) \/ RequestCancel(e) \/ UserCancels(e)
           \/ UserAuthorizesRetry(e) \/ UserConfirmsEffect(e)
           \/ StepRaises(e) \/ PulseRaises(e)
           \/ (\E text \in Texts : Edit(e, text))
    PROVE  Evidence'
<1> USE DEF OutsideUnchanged, worldVars, threadVars
<1>1. CASE UserCancels(e)
  BY <1>1, CancelEvidence DEF UserCancels
<1>2. CASE UserAuthorizesRetry(e)
  <2>1. /\ outcome[e] = "none" /\ outcome' = outcome /\ working.ev = e
        /\ working.att \in Attempts /\ ledger[working.att].event = e
        /\ pc' = "idle" /\ UNCHANGED <<world, edited>>
    BY <1>2
    DEF UserAuthorizesRetry, AuthorizeUserRetry, MayResolveUncertain,
        MayCancelUncertain, OwnsOpenAttempt, Blocking, Uncertain
  <2>2. /\ working'.ev = e /\ working'.stage = "native_action"
        /\ \A a \in Attempts \ {working.att} : ledger'[a] = ledger[a]
    BY <1>2, <2>1
    DEF UserAuthorizesRetry, AuthorizeUserRetry, TypeOK, StoreTypeOK, Checkpoint
  <2> QED BY <2>1, <2>2, WorldEvidence
<1>3. CASE UserConfirmsEffect(e)
  <2>1. /\ outcome[e] = "none" /\ outcome' = outcome /\ working.ev = e
        /\ working.att \in Attempts /\ ledger[working.att].event = e
        /\ working.stage = "side_effect_recovery"
        /\ pc' = "confirming" /\ UNCHANGED <<world, edited>>
    BY <1>3
    DEF UserConfirmsEffect, ConfirmUserEffect, MayResolveUncertain,
        MayCancelUncertain, OwnsOpenAttempt, Blocking, Uncertain
  <2>2. /\ working'.ev = e /\ working'.stage = "side_effect_recovery"
        /\ \A a \in Attempts \ {working.att} : ledger'[a] = ledger[a]
    BY <1>3, <2>1
    DEF UserConfirmsEffect, ConfirmUserEffect, TypeOK, StoreTypeOK, Checkpoint
  <2> QED BY <2>1, <2>2, WorldEvidence
<1>4. CASE Enqueue(e) \/ RequestCancel(e)
  BY <1>4, ThreadEvidence
  DEF Enqueue, RequestCancel, EnqueueEvent, RequestEventCancellation, Evidence,
      Bearings, Loaded
<1>5. CASE StepRaises(e)
  <2>1. /\ UNCHANGED <<outcome, ledger, world, edited>>
        /\ \/ pc' = "idle" /\ working' = working
           \/ working' = TerminalFailure(e) /\ result' = "failure" /\ pc' = "finish"
    BY <1>5 DEF StepRaises, SaveWorkingState, ToIdle, storeVars
  <2>2. Warranted(working')
    BY <2>1, SavedFields DEF Warranted, Evidence
  <2> QED BY <2>1, <2>2, ThreadEvidence
<1>6. ASSUME NEW text \in Texts, Edit(e, text)
      PROVE  Evidence'
  <2>1. /\ UNCHANGED <<outcome, ledger, working, pc, hand, ret, result>>
        /\ edited' = edited \cup {e}
        /\ \A f \in Events : world'[f] = world[f] \/ f \in edited'
    BY <1>6 DEF Edit, storeVars, TypeOK, OutsideTypeOK
  <2>2. ASSUME NEW f \in Events, Attested(f)
        PROVE  Attested(f)'
    BY <2>1, <2>2, AttestedKept
  <2>3. (\A f \in Events : outcome[f] = "body" => Attested(f))'
    BY <2>1, <2>2 DEF Evidence
  <2>4. Warranted(working)'
    BY <2>1, <2>2 DEF Warranted, Evidence
  <2>5. pc \in {"stepped", "finish", "probed"} => hand \in Events
    BY DEF Bearings, Loaded
  <2>6. (pc \in {"stepped", "finish"} /\ result = "body" => Attested(hand))'
    <3>1. ASSUME pc \in {"stepped", "finish"}, result = "body"
          PROVE  Attested(hand)'
      <4> DEFINE f == hand
      <4>1. f \in Events /\ Attested(f)
        BY <2>5, <3>1 DEF Evidence
      <4> QED BY <2>1, <4>1 DEF Attested
    <3> QED BY <2>1, <3>1
  <2>7. (pc = "probed" /\ ret = "ok" => world[hand] = "after" \/ hand \in edited)'
    BY <2>1, <2>5 DEF Evidence
  <2> QED BY <2>3, <2>4, <2>6, <2>7 DEF Evidence
<1>7. CASE PulseRaises(e)
  <2>1. /\ UNCHANGED <<outcome, ledger, world, edited, working>>
        /\ pc' = "idle"
    BY <1>7 DEF PulseRaises, ToIdle, storeVars
  <2> QED BY <2>1, ThreadEvidence DEF Warranted, Evidence
<1> QED BY <1>1, <1>2, <1>3, <1>4, <1>5, <1>6, <1>7

LEMMA EvidenceStep ==
    ASSUME TypeOK, Performing, Final, Bearings, Recorded, Evidence, [Next]_vars
    PROVE  Evidence'
<1>1. CASE Crash \/ Restart \/ UNCHANGED vars
  BY <1>1, ThreadEvidence
  DEF Crash, Restart, RecoverInterruptedEvents, vars, storeVars, threadVars,
      worldVars, ToIdle, OutsideUnchanged, Evidence, Bearings, Loaded
<1> QED
  BY <1>1, PulseEvidence, ThinkEvidence, MoveEvidence, VerifyEvidence,
     RecoverEvidence, OthersEvidence
  DEF Next, LifeStep, Control, Environment

Truthful == TypeOK /\ Performing /\ Final /\ Bearings /\ Recorded /\ Evidence

LEMMA InitTruthful == Init => Truthful
<1> SUFFICES ASSUME Init
             PROVE  Truthful
  OBVIOUS
<1>1. TypeOK /\ Performing
  BY InitTypes
<1>2. pc = "idle" /\ working = Idle /\ hand = NoEvent /\ result = "none"
      /\ \A e \in Events : outcome[e] = "none"
  BY DEF Init, StoreInit
<1>3. Final
  BY <1>2, EventsAssumption DEF Final, Idle
<1>4. Bearings /\ Recorded /\ Evidence
  BY <1>2, EventsAssumption
  DEF Bearings, Recorded, Evidence, Warranted, Idle, Loaded
<1> QED BY <1>1, <1>3, <1>4 DEF Truthful

LEMMA TruthfulStep == Truthful /\ [Next]_vars => Truthful'
BY TypesStep, PerformingStep, FinalStep, BearingsStep, RecordedStep, EvidenceStep
DEF Truthful

(* A "body" verdict is never published without evidence, with every queue  *)
(* order, contract, fault and interference (complete_event).               *)
THEOREM SuccessEvidenced == Spec => []SuccessIsEvidenced
<1>1. Truthful => SuccessIsEvidenced
  BY DEF Truthful, Evidence, Attested, SuccessIsEvidenced
<1> QED BY <1>1, InitTruthful, TruthfulStep, PTL DEF Spec

(* Work that waits for a decision can be decided, for every queue order,   *)
(* crash, fault and interference, when no event is an append: the          *)
(* resident re-verifies appends by itself and may settle an attempt whose  *)
(* checkpoint it then cannot clear (recovery_control.py).                  *)
THEOREM HeldIsResolvable ==
    ASSUME \A e \in Events : Contract[e] \notin {"append", "derived"}
    PROVE  Spec => []HeldWorkIsResolvable
<1>1. Truthful => HeldWorkIsResolvable
  BY DEF Truthful, Recorded, Uncertain, HeldWorkIsResolvable
<1> QED BY <1>1, InitTruthful, TruthfulStep, PTL DEF Spec

-----------------------------------------------------------------------------
(* A started movement stays in sight.                                      *)

Sighted == Inductive /\ Truthful /\ Tracked

(* No other movement of an event is open beside a pending one.             *)
LEMMA PendingAlone ==
    ASSUME Inductive, NEW a \in Attempts, NEW b \in Attempts, Pending(a),
           ledger[b].event = ledger[a].event, ledger[b].use = "move",
           ledger[b].status \in OpenStatuses
    PROVE  a = b
<1>1. ledger[a].event \in Events
  BY DEF Inductive, ReplayInv, Remembered, Pending
<1> QED
  BY <1>1 DEF Inductive, ReplayInv, Single, Forbidding, Permits, Pending,
              OpenStatuses

(* An event in hand whose checkpoint is elsewhere has nothing pending.     *)
LEMMA NonePending ==
    ASSUME Tracked, NEW e \in Events, outcome[e] = "none",
           \/ working.ev # e
           \/ working.stage \notin {"native_action", "side_effect_recovery"}
           \/ /\ working.stage = "side_effect_recovery"
              /\ working.att \in Attempts => ledger[working.att].status # "started"
    PROVE  \A a \in Attempts : Pending(a) => ledger[a].event # e
BY DEF Tracked, Followed, Pending

(* The checkpoint stands, and nothing new is pending.                      *)
LEMMA RestTracked ==
    ASSUME Tracked, working' = working, outcome' = outcome,
           \A a \in Attempts :
              Pending(a)' => Pending(a) /\ ledger'[a].event = ledger[a].event,
           \/ UNCHANGED <<pc, hand, cur, ret, result, ledger>>
           \/ pc' \notin {"armed", "sent", "observed", "stepped", "finish"}
           \/ pc' \in {"stepped", "finish"} /\ result' \in {"none", "cancelled"}
           \/ /\ pc \in {"stepped", "finish"} /\ pc' \in {"stepped", "finish"}
              /\ UNCHANGED <<hand, result>>
    PROVE  Tracked'
<1>1. (\A a \in Attempts : Pending(a) => Followed(a))'
  BY DEF Tracked, Followed
<1> QED BY <1>1 DEF Tracked, Pending

(* A new checkpoint of e, which leads back to what is pending of e.        *)
LEMMA MovedTracked ==
    ASSUME Tracked, NEW e \in Events, working.ev \in {e, NoEvent},
           outcome' = outcome,
           \A a \in Attempts :
              Pending(a)' => /\ Pending(a) /\ ledger'[a].event = ledger[a].event
                             /\ ledger[a].event \in Events
                             /\ ledger[a].event = e => Followed(a)',
           pc' \notin {"armed", "sent", "observed"},
           pc' \in {"stepped", "finish"} =>
              \/ result' \in {"none", "cancelled"}
              \/ \A a \in Attempts : Pending(a)' => ledger'[a].event # hand'
    PROVE  Tracked'
<1> USE EventsAssumption
<1>1. (\A a \in Attempts : Pending(a) => Followed(a))'
  <2>1. ASSUME NEW a \in Attempts, Pending(a)'
        PROVE  Followed(a)'
    <3>1. Pending(a) /\ ledger'[a].event = ledger[a].event /\ Followed(a)
          /\ ledger[a].event \in Events
      BY <2>1 DEF Tracked
    <3>2. CASE ledger[a].event = e
      BY <2>1, <3>2
    <3>3. CASE ledger[a].event # e
      BY <3>1, <3>3 DEF Followed
    <3> QED BY <3>2, <3>3
  <2> QED BY <2>1
<1> QED BY <1>1 DEF Tracked

(* The rows that a step leaves alone, or settles.                          *)
LEMMA SettledPending ==
    ASSUME Inductive, NEW b \in Attempts, NEW s, s # "started",
           ledger' = ledger \/ ledger' = [ledger EXCEPT ![b].status = s]
    PROVE  \A a \in Attempts :
              Pending(a)' => /\ Pending(a) /\ ledger'[a].event = ledger[a].event
                             /\ ledger[a].event \in Events
                             /\ ledger' # ledger => a # b
<1>1. \A a \in Attempts :
         Pending(a)' => Pending(a) /\ ledger'[a].event = ledger[a].event
                        /\ (ledger' # ledger => a # b)
  BY DEF Inductive, TypeOK, StoreTypeOK, AttemptRow, Pending
<1>2. \A a \in Attempts : Pending(a) => ledger[a].event \in Events
  BY DEF Inductive, ReplayInv, Remembered, Pending
<1> QED BY <1>1, <1>2

(* The event in hand has nothing pending, and a step of it saves.          *)
LEMMA SavedTracked ==
    ASSUME Inductive, Tracked, NEW e \in Events, working.ev \in {e, NoEvent},
           \A a \in Attempts : Pending(a) => ledger[a].event # e,
           UNCHANGED <<outcome, ledger>>,
           pc' \notin {"armed", "sent", "observed"},
           pc' \in {"stepped", "finish"} => hand' = e
    PROVE  Tracked'
<1>1. \A a \in Attempts : Pending(a)' => Pending(a) /\ ledger[a].event \in Events
  BY DEF Pending, Inductive, ReplayInv, Remembered
<1> QED BY <1>1, MovedTracked

(* The movement of e is uncertain: the checkpoint owns it from here on.    *)
LEMMA RecoveryTracked ==
    ASSUME Inductive, Tracked, NEW e \in Events, working.ev = e,
           NEW a \in Blocking(e, "move"), working' = RecoveryOf(e, a),
           UNCHANGED <<outcome, ledger>>, outcome[e] = "none",
           pc' = "stepped", result' = "none"
    PROVE  Tracked'
<1>1. /\ a \in Attempts /\ working'.stage = "side_effect_recovery"
      /\ working'.att = a /\ working'.ev = e
  BY SavedFields, SavedEvents DEF Blocking, Inductive
<1>2. \A b \in Attempts :
         Pending(b)' => Pending(b) /\ ledger[b].event \in Events
  BY DEF Pending, Inductive, ReplayInv, Remembered
<1>3. ASSUME NEW b \in Attempts, Pending(b), ledger[b].event = e
      PROVE  Followed(b)'
  <2>1. a = b
    BY <1>1, <1>3, PendingAlone DEF Blocking
  <2> QED BY <1>1, <1>3, <2>1 DEF Followed
<1> QED BY <1>2, <1>3, MovedTracked

LEMMA ThinkTracked ==
    ASSUME Sighted, NEW e \in Events, Think(e)
    PROVE  Tracked'
<1>1. /\ hand = e /\ hand' = e /\ pc' = "stepped" /\ working.ev = e
      /\ UNCHANGED <<outcome, ledger>> /\ outcome[e] = "none"
      /\ working.stage \notin {"native_action", "side_effect_recovery"}
  BY DEF Sighted, Think, Orient, Investigate, Deliberate, Consult,
         ResumeCompletion, Stepping, Stepped, SaveWorkingState, storeVars,
         Truthful, Bearings, Loaded, Final
<1> QED BY <1>1, NonePending, SavedTracked DEF Sighted

LEMMA ArmTracked ==
    ASSUME Sighted, NEW e \in Events, NEW a \in Attempts, Arm(e, a)
    PROVE  Tracked'
<1>1. /\ hand = e /\ hand' = e /\ pc' = "armed" /\ cur' = a
      /\ working' = working /\ outcome' = outcome /\ working.ev = e
      /\ working.stage = "native_action" /\ Blocking(e, "move") = {}
      /\ outcome[e] = "none"
      /\ ledger' = [ledger EXCEPT ![a] =
                       [event |-> e, use |-> "move", status |-> "started"]]
  BY DEF Sighted, Arm, Stepping, StartAttempt, Truthful, Bearings, Loaded, Final
<1>2. /\ ledger'[a].event = e
      /\ \A b \in Attempts \ {a} : ledger'[b] = ledger[b]
  BY <1>1 DEF Sighted, Inductive, TypeOK, StoreTypeOK
<1>3. \A b \in Attempts : Pending(b) => ledger[b].event # e
  BY <1>1 DEF Blocking, Pending, OpenStatuses
<1>4. (\A b \in Attempts : Pending(b) => Followed(b))'
  BY <1>1, <1>2, <1>3 DEF Sighted, Tracked, Followed, Pending
<1>5. \A b \in Attempts : Pending(b)' /\ ledger'[b].event = hand' => b = a
  BY <1>1, <1>2, <1>3 DEF Pending
<1> QED BY <1>1, <1>4, <1>5 DEF Tracked

LEMMA MoveTracked ==
    ASSUME Sighted, NEW e \in Events, Move(e)
    PROVE  Tracked'
<1> USE DEF Sighted
<1>0. /\ hand = e /\ hand' = e /\ working.ev = e /\ outcome' = outcome
      /\ outcome[e] = "none" /\ working.stage = "native_action"
      /\ pc \in {"loaded", "armed", "sent", "observed"}
      /\ pc # "loaded" => /\ cur \in Attempts /\ ledger[cur].event = e
                          /\ ledger[cur].use = "move"
  <2>1. /\ hand = e /\ pc \in {"loaded", "armed", "sent", "observed"}
        /\ pc = "loaded" => working.stage = "native_action"
    BY DEF Move, RefuseReplay, Arm, Dispatch, ObserveReturn, LoseReturn,
           ProveAbsent, CheckpointMove, Stepping
  <2>2. hand' = e /\ outcome' = outcome
    BY StepsStay DEF Truthful
  <2> QED
    BY <2>1, <2>2 DEF Truthful, Bearings, Loaded, Final, Inductive, Performing
<1>1. CASE RefuseReplay(e)
  BY <1>0, <1>1, RecoveryTracked DEF RefuseReplay, SaveWorkingState, Stepped
<1>2. CASE CheckpointMove(e)
  <2>1. CASE ret = "uncertain"
    <3>1. cur \in Blocking(e, "move")
      BY <1>0, <1>2, <2>1
      DEF CheckpointMove, Blocking, Truthful, Bearings, OpenStatuses
    <3> QED
      BY <1>0, <1>2, <2>1, <3>1, RecoveryTracked
      DEF CheckpointMove, SaveWorkingState, Stepped
  <2>2. CASE ret # "uncertain"
    <3>1. \A a \in Attempts : Pending(a) => ledger[a].event # e
      BY <1>0, <1>2, <2>2 DEF CheckpointMove, Tracked, Pending
    <3> QED
      BY <1>0, <1>2, <3>1, SavedTracked
      DEF CheckpointMove, SaveWorkingState, Stepped
  <2> QED BY <2>1, <2>2
<1>3. CASE Dispatch(e) \/ LoseReturn(e)
  <2>1. /\ UNCHANGED <<working, ledger, cur>> /\ pc \in {"armed", "sent"}
        /\ pc' = "sent" \/ (pc' = "observed" /\ ret' = "uncertain")
    BY <1>3 DEF Dispatch, LoseReturn, storeVars
  <2> QED BY <1>0, <2>1 DEF Tracked, Followed, Pending
<1>4. CASE ObserveReturn(e) \/ ProveAbsent(e)
  <2>1. /\ UNCHANGED <<working, cur>> /\ pc \in {"sent", "observed"}
        /\ pc' = "observed"
        /\ \E s \in {"observed", "verified_absent"} :
              ledger' = [ledger EXCEPT ![cur].status = s]
    BY <1>4 DEF ObserveReturn, ProveAbsent, ObserveStartedAttempt,
                ResolveAttempt, Goto
  <2>2. /\ ledger'[cur].status # "started"
        /\ \A a \in Attempts \ {cur} : ledger'[a] = ledger[a]
    BY <1>0, <2>1 DEF Inductive, TypeOK, StoreTypeOK, AttemptRow
  <2>3. \A a \in Attempts :
           Pending(a)' => Pending(a) /\ ledger'[a] = ledger[a] /\ a # cur
    BY <2>2 DEF Pending
  <2>4. (\A a \in Attempts : Pending(a) => Followed(a))'
    BY <1>0, <2>1, <2>3 DEF Tracked, Followed
  <2>5. \A a \in Attempts : Pending(a)' => ledger'[a].event # hand'
    BY <1>0, <2>1, <2>3 DEF Tracked
  <2> QED BY <2>1, <2>2, <2>4, <2>5 DEF Tracked
<1> QED BY <1>1, <1>2, <1>3, <1>4, ArmTracked DEF Move

LEMMA VerifyTracked ==
    ASSUME Sighted, NEW e \in Events, Verify(e)
    PROVE  Tracked'
<1> USE DEF Sighted
<1>0. /\ hand = e /\ hand' = e /\ working.ev = e /\ outcome' = outcome
      /\ outcome[e] = "none" /\ working.stage = "native_verification"
  BY DEF Verify, VerifyText, RefuseProbe, ArmProbe, RunProbe, JudgeProbe,
         CheckpointVerdict, Stepping, Stepped, StartAttempt, SaveWorkingState,
         ObserveStartedAttempt, Truthful, Bearings, Loaded, Final
<1>1. CASE VerifyText(e) \/ RefuseProbe(e) \/ JudgeProbe(e)
  BY <1>0, <1>1, NonePending, SavedTracked
  DEF VerifyText, RefuseProbe, JudgeProbe, CheckpointVerdict, Stepped,
      SaveWorkingState
<1>2. CASE RunProbe(e)
  <2>1. /\ working' = working /\ pc' = "probed" /\ cur \in Attempts
        /\ ledger' = [ledger EXCEPT ![cur].status = "observed"]
    BY <1>2 DEF RunProbe, ObserveStartedAttempt, Inductive, Performing
  <2> QED BY <1>0, <2>1, SettledPending, RestTracked
<1>3. ASSUME NEW a \in Attempts, ArmProbe(e, a)
      PROVE  Tracked'
  <2>1. /\ working' = working /\ pc' = "probing"
        /\ ledger' = [ledger EXCEPT ![a] =
                         [event |-> e, use |-> "probe", status |-> "started"]]
    BY <1>3 DEF ArmProbe, StartAttempt
  <2>2. \A b \in Attempts :
           Pending(b)' => Pending(b) /\ ledger'[b].event = ledger[b].event
    BY <2>1 DEF Pending, Inductive, TypeOK, StoreTypeOK
  <2> QED BY <1>0, <2>1, <2>2, RestTracked
<1> QED BY <1>1, <1>2, <1>3 DEF Verify

LEMMA RecoverTracked ==
    ASSUME Sighted, NEW e \in Events, Recover(e)
    PROVE  Tracked'
<1> USE DEF Sighted
<1>0. /\ hand = e /\ hand' = e /\ working.ev = e /\ outcome' = outcome
      /\ outcome[e] = "none" /\ working.stage = "side_effect_recovery"
  BY DEF Recover, AwaitDecision, ReverifyEffect, ReverifyAbsence,
         RetryAfterAbsence, Hold, ResumeConfirmed, Recovering, Stepping,
         Stepped, Goto, SaveWorkingState, ResolveAttempt, storeVars, Truthful,
         Bearings, Loaded, Final
<1>1. CASE AwaitDecision(e)
  BY <1>0, <1>1, RestTracked DEF AwaitDecision, Stepped, storeVars, Pending
<1>2. CASE ReverifyEffect(e) \/ ReverifyAbsence(e)
  <2>1. /\ working' = working /\ working.att \in Attempts
        /\ ledger[working.att].event = e
        /\ pc' \in {"stepped", "absent"}
        /\ \E s \in {"verified_effect", "verified_absent"} :
              ledger' = [ledger EXCEPT ![working.att].status = s]
    BY <1>2
    DEF ReverifyEffect, ReverifyAbsence, ResolveAttempt, Resolvable, Stepped, Goto
  <2>2. /\ ledger'[working.att].status # "started"
        /\ \A a \in Attempts \ {working.att} : ledger'[a] = ledger[a]
    BY <2>1 DEF Inductive, TypeOK, StoreTypeOK, AttemptRow
  <2>3. \A a \in Attempts :
           Pending(a)' => /\ Pending(a) /\ ledger'[a] = ledger[a]
                          /\ ledger[a].event \in Events /\ a # working.att
    BY <2>2 DEF Pending, Inductive, ReplayInv, Remembered
  <2>4. \A a \in Attempts : Pending(a)' => ledger[a].event # e
    BY <1>0, <2>3 DEF Tracked, Followed
  <2> QED BY <1>0, <2>1, <2>3, <2>4, MovedTracked
<1>3. CASE RetryAfterAbsence(e) \/ Hold(e)
  <2>1. /\ ledger' = ledger /\ pc' = "stepped" /\ result' = "none"
        /\ working' \in {At("native_action"), Held}
    BY <1>3 DEF RetryAfterAbsence, Hold, SaveWorkingState, Stepped
  <2>2. /\ working'.ev = e
        /\ \/ working'.stage = "native_action"
           \/ /\ working'.stage = "side_effect_recovery"
              /\ working'.att = working.att
    BY <1>0, <2>1, SavedFields, SavedEvents DEF Inductive, Stages
  <2>3. \A a \in Attempts :
           Pending(a)' => Pending(a) /\ ledger[a].event \in Events
    BY <2>1 DEF Pending, Inductive, ReplayInv, Remembered
  <2>4. \A a \in Attempts : Pending(a) /\ ledger[a].event = e => Followed(a)'
    BY <1>0, <2>1, <2>2 DEF Tracked, Followed
  <2> QED BY <1>0, <2>1, <2>3, <2>4, MovedTracked
<1>4. CASE ResumeConfirmed(e)
  <2>1. Confirmed
    BY <1>0, <1>4 DEF ResumeConfirmed, Recovering, Truthful, Recorded
  <2>2. \A a \in Attempts : Pending(a) => ledger[a].event # e
    BY <1>0, <2>1, NonePending DEF Confirmed
  <2> QED
    BY <1>0, <1>4, <2>2, SavedTracked
    DEF ResumeConfirmed, SaveWorkingState, Stepped
<1> QED BY <1>1, <1>2, <1>3, <1>4 DEF Recover

LEMMA CancelTracked ==
    ASSUME Sighted, NEW e \in Events, CancelUncertainEvent(e),
           pc' \in {"clear", "idle"}
    PROVE  Tracked'
<1>1. /\ working.ev = e /\ working.att \in Attempts
      /\ outcome' = [outcome EXCEPT ![e] = "cancelled"]
      /\ ledger' = [ledger EXCEPT ![working.att].status = "work_abandoned"]
  BY DEF CancelUncertainEvent, MayCancelUncertain, OwnsOpenAttempt, Blocking,
         Uncertain
<1>2. \A a \in Attempts :
         Pending(a)' => /\ Pending(a) /\ ledger'[a].event = ledger[a].event
                        /\ ledger[a].event \in Events
  BY <1>1, SettledPending DEF Sighted
<1>3. /\ outcome'[e] = "cancelled"
      /\ \A f \in Events \ {e} : outcome'[f] = outcome[f]
  BY <1>1 DEF Sighted, Inductive, TypeOK, StoreTypeOK
<1>4. (\A a \in Attempts : Pending(a) => Followed(a))'
  BY <1>1, <1>2, <1>3 DEF Sighted, Tracked, Followed
<1> QED BY <1>4 DEF Tracked

LEMMA FinishTracked ==
    ASSUME Sighted, NEW e \in Events, Finish(e)
    PROVE  Tracked'
<1>1. /\ hand = e /\ pc = "finish" /\ pc' = "idle" /\ working' = Idle
      /\ ledger' = ledger /\ working.ev \in {e, NoEvent}
      /\ outcome' = [outcome EXCEPT ![e] = PublishedVerdict(e, result)]
  BY DEF Finish, CompleteEvent, MayComplete, ToIdle
<1>2. /\ result = "cancelled" => outcome'[e] = "cancelled"
      /\ \A f \in Events \ {e} : outcome'[f] = outcome[f]
  BY <1>1 DEF PublishedVerdict, Sighted, Inductive, TypeOK, StoreTypeOK
<1>3. result # "none"
  BY <1>1 DEF Sighted, Inductive, ReplayInv, Midway
<1>4. ASSUME NEW a \in Attempts, Pending(a)'
      PROVE  Followed(a)'
  <2>1. /\ Pending(a) /\ ledger'[a] = ledger[a] /\ ledger[a].event \in Events
        /\ Followed(a)
    BY <1>1, <1>4
    DEF Pending, Sighted, Inductive, ReplayInv, Remembered, Tracked
  <2>2. CASE ledger[a].event = e
    <3>1. result = "cancelled"
      BY <1>1, <1>3, <2>1, <2>2 DEF Sighted, Tracked
    <3> QED BY <1>2, <2>1, <2>2, <3>1 DEF Followed
  <2>3. CASE ledger[a].event # e
    BY <1>1, <1>2, <2>1, <2>3, EventsAssumption DEF Followed
  <2> QED BY <2>2, <2>3
<1> QED BY <1>1, <1>4 DEF Tracked

LEMMA PulseTracked ==
    ASSUME Sighted, NEW e \in Events, Pulse(e)
    PROVE  Tracked'
<1> USE DEF Sighted
<1>1. CASE AbandonUncertain(e)
  BY <1>1, CancelTracked DEF AbandonUncertain, Goto
<1>2. CASE Finish(e)
  BY <1>2, FinishTracked
<1>3. CASE LoadState(e)
  <2>1. /\ hand = e /\ pc = "claimed" /\ pc' = "loaded"
        /\ UNCHANGED <<outcome, ledger>>
        /\ \/ working' = working
           \/ working.ev # e \/ working.stage = "idle"
    BY <1>3 DEF LoadState, SaveWorkingState, Goto
  <2>2. outcome[e] = "none" /\ working.ev \in {e, NoEvent}
    BY <2>1 DEF Truthful, Final, Inductive, ReplayInv, Active
  <2>3. CASE working' = working
    BY <2>1, <2>3, RestTracked DEF Pending
  <2>4. CASE working.ev # e \/ working.stage = "idle"
    BY <2>1, <2>2, <2>4, NonePending, SavedTracked
  <2> QED BY <2>1, <2>3, <2>4
<1>4. CASE Confirm(e)
  <2>1. /\ pc' = "idle" /\ UNCHANGED <<outcome, ledger>> /\ Confirmed
        /\ working.ev = e /\ working.stage = "side_effect_recovery"
        /\ outcome[e] = "none"
    BY <1>4
    DEF Confirm, SaveWorkingState, ToIdle, storeVars, Truthful, Bearings,
        Recorded, Final
  <2>2. \A a \in Attempts : Pending(a) => ledger[a].event # e
    BY <2>1, NonePending DEF Confirmed
  <2> QED BY <2>1, <2>2, SavedTracked
<1>5. CASE \/ Claim(e) \/ StopWork(e) \/ AbandonRefused(e) \/ ClearRequest(e)
           \/ EndStep(e) \/ FinishRefused(e)
  <2>1. /\ UNCHANGED <<outcome, ledger, working>>
        /\ \/ pc' \in {"claimed", "idle"}
           \/ pc' = "finish" /\ result' = "cancelled"
           \/ /\ pc = "stepped" /\ pc' = "finish" /\ result = result'
              /\ hand' = hand
    BY <1>5
    DEF Claim, StopWork, AbandonRefused, ClearRequest, EndStep, FinishRefused,
        ClaimEvent, ClearCancellationRequest, storeVars, ToIdle, Goto
  <2> QED BY <2>1, RestTracked DEF Pending
<1> QED BY <1>1, <1>2, <1>3, <1>4, <1>5 DEF Pulse

LEMMA OthersTracked ==
    ASSUME Sighted, ~Faults, NEW e \in Events,
           \/ Enqueue(e) \/ RequestCancel(e) \/ UserCancels(e)
           \/ UserAuthorizesRetry(e) \/ UserConfirmsEffect(e)
           \/ StepRaises(e) \/ PulseRaises(e)
           \/ (\E text \in Texts : Edit(e, text))
    PROVE  Tracked'
<1> USE DEF Sighted
<1>1. CASE UserCancels(e)
  BY <1>1, CancelTracked DEF UserCancels, threadVars, CancelUncertainEvent
<1>2. CASE UserAuthorizesRetry(e) \/ UserConfirmsEffect(e)
  <2>1. /\ outcome[e] = "none" /\ outcome' = outcome /\ working.ev = e
        /\ working.att \in Attempts /\ pc' \in {"idle", "confirming"}
        /\ working.stage = "side_effect_recovery"
        /\ \E s \in {"user_authorized_retry", "user_confirmed_effect"} :
              ledger' = [ledger EXCEPT ![working.att].status = s]
    BY <1>2
    DEF UserAuthorizesRetry, UserConfirmsEffect, AuthorizeUserRetry,
        ConfirmUserEffect, MayResolveUncertain, MayCancelUncertain,
        OwnsOpenAttempt, Blocking, Uncertain, threadVars
  <2>2. /\ ledger'[working.att].status # "started"
        /\ \A a \in Attempts \ {working.att} : ledger'[a] = ledger[a]
    BY <2>1 DEF Inductive, TypeOK, StoreTypeOK, AttemptRow
  <2>3. \A a \in Attempts :
           Pending(a)' => /\ Pending(a) /\ ledger'[a] = ledger[a]
                          /\ ledger[a].event \in Events /\ a # working.att
    BY <2>2 DEF Pending, Inductive, ReplayInv, Remembered
  <2>4. \A a \in Attempts : Pending(a)' => ledger[a].event # e
    BY <2>1, <2>3 DEF Tracked, Followed
  <2> QED BY <2>1, <2>3, <2>4, MovedTracked
<1>3. CASE Enqueue(e) \/ RequestCancel(e) \/ \E text \in Texts : Edit(e, text)
  BY <1>3, RestTracked
  DEF Enqueue, RequestCancel, Edit, EnqueueEvent, RequestEventCancellation,
      threadVars, storeVars, Pending
<1>4. CASE PulseRaises(e)
  BY <1>4, RestTracked DEF PulseRaises, ToIdle, storeVars, Pending
<1> QED BY <1>1, <1>2, <1>3, <1>4 DEF StepRaises

LEMMA TrackedStep ==
    ASSUME Sighted, ~Faults, [Next]_vars
    PROVE  Tracked'
<1>1. CASE Crash \/ Restart \/ UNCHANGED vars
  BY <1>1, RestTracked
  DEF Sighted, Crash, Restart, RecoverInterruptedEvents, vars, storeVars,
      threadVars, ToIdle, Pending
<1> QED
  BY <1>1, PulseTracked, ThinkTracked, MoveTracked, VerifyTracked,
     RecoverTracked, OthersTracked
  DEF Next, LifeStep, Control, Environment

(* A movement without a durable return is never lost from sight when       *)
(* events are served first in, first out and nothing raises: with every    *)
(* contract, any number of attempts and crashes, and interference.         *)
THEOREM StartedTracked ==
    ASSUME FirstInFirstOut, ~Faults, ~LostClaims
    PROVE  Spec => []StartedIsTracked
<1>1. Init => Sighted
  BY InitInductive, InitTruthful
  DEF Init, StoreInit, Sighted, Tracked, Pending
<1>2. Sighted /\ [Next]_vars => Sighted'
  BY InductiveStep, TruthfulStep, TrackedStep DEF Sighted
<1>3. Sighted => StartedIsTracked
  BY DEF Sighted, Tracked, Followed, Pending, StartedIsTracked
<1> QED BY <1>1, <1>2, <1>3, PTL DEF Spec

-----------------------------------------------------------------------------
(* An effect happens once.                                                 *)

(* Nothing happens to the world, and no row is found absent.               *)
LEMMA VisibleKept ==
    ASSUME Visible, UNCHANGED worldVars,
           \A a \in applied :
              /\ ledger'[a].event = ledger[a].event
              /\ ledger'[a].status = ledger[a].status
                    \/ ledger'[a].status # "verified_absent",
           pc' \in {"sent", "observed"} /\ ret' = "absent" =>
              pc \in {"sent", "observed"} /\ UNCHANGED <<cur, ret>>
    PROVE  Visible'
BY DEF Visible, worldVars

(* A row of the ledger that an effect is on record for.                    *)
LEMMA AppliedRows ==
    ASSUME Inductive, Visible, NEW a \in applied
    PROVE  /\ a \in Attempts /\ ledger[a].status # "free"
           /\ ledger[a].event \in Events
BY DEF Inductive, TypeOK, OutsideTypeOK, Visible, ReplayInv, Single, Remembered

(* One row is settled.                                                     *)
LEMMA SettledVisible ==
    ASSUME Inductive, Visible, UNCHANGED worldVars, NEW b \in Attempts, NEW s,
           ledger' = [ledger EXCEPT ![b].status = s],
           s = "verified_absent" =>
              b \notin applied \/ ledger[b].event \in edited,
           pc' \in {"sent", "observed"} /\ ret' = "absent" =>
              pc \in {"sent", "observed"} /\ UNCHANGED <<cur, ret>>
    PROVE  Visible'
<1>1. \A a \in Attempts :
         /\ ledger'[a].event = ledger[a].event
         /\ ledger'[a].status = ledger[a].status \/ (a = b /\ ledger'[a].status = s)
  BY DEF Inductive, TypeOK, StoreTypeOK, AttemptRow
<1> QED BY <1>1, AppliedRows DEF Visible, worldVars

LEMMA StartVisible ==
    ASSUME Inductive, Visible, NEW e \in Events, NEW b \in Attempts, NEW use,
           StartAttempt(b, e, use), OutsideUnchanged,
           pc' \notin {"sent", "observed"}
    PROVE  Visible'
<1>1. \A a \in Attempts : ledger[a].status # "free" => ledger'[a] = ledger[a]
  BY DEF StartAttempt, Inductive, TypeOK, StoreTypeOK
<1> QED BY <1>1, AppliedRows, VisibleKept DEF OutsideUnchanged

LEMMA DispatchVisible ==
    ASSUME Inductive, Visible, NEW e \in Events, Dispatch(e)
    PROVE  Visible'
<1>1. /\ hand = e /\ pc = "armed" /\ pc' = "sent" /\ UNCHANGED <<cur, ledger, edited>>
      /\ dispatched' = dispatched \cup {cur}
      /\ \/ applied' = applied /\ world' = world
         \/ /\ applied' = applied \cup {cur} /\ ret' # "absent"
            /\ \E text \in {"after", "other"} :
                  world' = [world EXCEPT ![e] = text]
  BY DEF Dispatch, storeVars, TextAfterMove
<1>2. /\ cur \in Attempts /\ ledger[cur].event = e
      /\ ledger[cur].status = "started" /\ cur \notin dispatched
  BY <1>1 DEF Inductive, Performing, ReplayInv, Midway
<1>3. \A f \in Events : world'[f] = world[f] \/ world'[f] \in {"after", "other"}
  BY <1>1 DEF Inductive, TypeOK, OutsideTypeOK
<1>4. CASE applied' = applied /\ world' = world
  BY <1>1, <1>2, <1>4 DEF Visible
<1>5. CASE applied' # applied \/ world' # world
  <2>1. world'[e] # "before"
    BY <1>1, <1>5 DEF Inductive, TypeOK, OutsideTypeOK
  <2>2. ASSUME NEW a \in applied'
        PROVE  /\ a \in dispatched'
               /\ \/ ledger'[a].event \in edited'
                  \/ /\ ledger'[a].status # "verified_absent"
                     /\ world'[ledger'[a].event] # "before"
    <3>1. CASE a = cur
      BY <1>1, <1>2, <2>1, <3>1
    <3>2. CASE a \in applied
      BY <1>1, <1>3, <3>2, AppliedRows DEF Visible
    <3> QED BY <1>1, <3>1, <3>2
  <2> QED BY <1>1, <1>5, <2>2 DEF Visible
<1> QED BY <1>4, <1>5

LEMMA MoveVisible ==
    ASSUME Inductive, Visible, NEW e \in Events, Move(e)
    PROVE  Visible'
<1>1. CASE RefuseReplay(e) \/ LoseReturn(e) \/ CheckpointMove(e)
  BY <1>1, VisibleKept
  DEF RefuseReplay, LoseReturn, CheckpointMove, SaveWorkingState, Stepped,
      storeVars, OutsideUnchanged
<1>2. ASSUME NEW a \in Attempts, Arm(e, a)
      PROVE  Visible'
  BY <1>2, StartVisible DEF Arm
<1>3. CASE ObserveReturn(e) \/ ProveAbsent(e)
  <2>1. /\ cur \in Attempts /\ UNCHANGED worldVars
        /\ pc \in {"sent", "observed"} /\ cur' = cur
        /\ \/ /\ ret' = ret
              /\ ledger' = [ledger EXCEPT ![cur].status = "observed"]
           \/ /\ ret = "absent" /\ ret' = "fail"
              /\ ledger' = [ledger EXCEPT ![cur].status = "verified_absent"]
    BY <1>3
    DEF ObserveReturn, ProveAbsent, ObserveStartedAttempt, ResolveAttempt, Goto,
        OutsideUnchanged, Inductive, Performing
  <2>2. ret = "absent" => cur \notin applied
    BY <2>1 DEF Visible
  <2> QED BY <2>1, <2>2, SettledVisible
<1> QED BY <1>1, <1>2, <1>3, DispatchVisible DEF Move

LEMMA VerifyVisible ==
    ASSUME Inductive, Visible, NEW e \in Events, Verify(e)
    PROVE  Visible'
<1>1. CASE VerifyText(e) \/ RefuseProbe(e) \/ JudgeProbe(e)
  BY <1>1, VisibleKept
  DEF VerifyText, RefuseProbe, JudgeProbe, CheckpointVerdict, SaveWorkingState,
      Stepped, OutsideUnchanged
<1>2. ASSUME NEW a \in Attempts, ArmProbe(e, a)
      PROVE  Visible'
  BY <1>2, StartVisible DEF ArmProbe
<1>3. CASE RunProbe(e)
  <2>1. /\ cur \in Attempts /\ UNCHANGED worldVars /\ pc' = "probed"
        /\ ledger' = [ledger EXCEPT ![cur].status = "observed"]
    BY <1>3 DEF RunProbe, ObserveStartedAttempt, OutsideUnchanged, Inductive,
                Performing
  <2> QED BY <2>1, SettledVisible
<1> QED BY <1>1, <1>2, <1>3 DEF Verify

LEMMA RecoverVisible ==
    ASSUME Inductive, Visible, NEW e \in Events, Recover(e)
    PROVE  Visible'
<1>1. CASE \/ AwaitDecision(e) \/ RetryAfterAbsence(e) \/ Hold(e)
           \/ ResumeConfirmed(e)
  BY <1>1, VisibleKept
  DEF AwaitDecision, RetryAfterAbsence, Hold, ResumeConfirmed, storeVars,
      SaveWorkingState, Stepped, OutsideUnchanged
<1>2. CASE ReverifyEffect(e)
  <2>1. /\ working.att \in Attempts /\ UNCHANGED worldVars /\ pc' = "stepped"
        /\ ledger' = [ledger EXCEPT ![working.att].status = "verified_effect"]
    BY <1>2 DEF ReverifyEffect, ResolveAttempt, Resolvable, Stepped,
                OutsideUnchanged
  <2> QED BY <2>1, SettledVisible
<1>3. CASE ReverifyAbsence(e)
  <2>1. /\ working.att \in Attempts /\ UNCHANGED worldVars /\ pc' = "absent"
        /\ ledger[working.att].event = e /\ world[e] = "before"
        /\ ledger' = [ledger EXCEPT ![working.att].status = "verified_absent"]
    BY <1>3 DEF ReverifyAbsence, ResolveAttempt, Resolvable, Goto,
                OutsideUnchanged
  <2>2. working.att \notin applied \/ e \in edited
    BY <2>1 DEF Visible
  <2> QED BY <2>1, <2>2, SettledVisible
<1> QED BY <1>1, <1>2, <1>3 DEF Recover

LEMMA PulseVisible ==
    ASSUME Inductive, Visible, NEW e \in Events, Pulse(e)
    PROVE  Visible'
<1>1. CASE AbandonUncertain(e)
  <2>1. /\ working.att \in Attempts /\ UNCHANGED worldVars /\ pc' = "clear"
        /\ ledger' = [ledger EXCEPT ![working.att].status = "work_abandoned"]
    BY <1>1
    DEF AbandonUncertain, CancelUncertainEvent, MayCancelUncertain,
        OwnsOpenAttempt, Blocking, Goto, OutsideUnchanged
  <2> QED BY <2>1, SettledVisible
<1>2. CASE ~AbandonUncertain(e)
  <2>1. /\ ledger' = ledger /\ UNCHANGED worldVars
        /\ pc' \notin {"sent", "observed"}
    BY <1>2
    DEF Pulse, Claim, StopWork, AbandonRefused, ClearRequest, LoadState, EndStep,
        Finish, FinishRefused, Confirm, ClaimEvent, ClearCancellationRequest,
        CompleteEvent, SaveWorkingState, storeVars, ToIdle, Goto,
        OutsideUnchanged
  <2> QED BY <2>1, VisibleKept
<1> QED BY <1>1, <1>2

LEMMA OthersVisible ==
    ASSUME Inductive, Visible, NEW e \in Events,
           \/ Enqueue(e) \/ RequestCancel(e) \/ UserCancels(e)
           \/ UserAuthorizesRetry(e) \/ UserConfirmsEffect(e)
           \/ StepRaises(e) \/ PulseRaises(e)
           \/ (\E text \in Texts : Edit(e, text))
    PROVE  Visible'
<1>1. CASE UserCancels(e) \/ UserAuthorizesRetry(e) \/ UserConfirmsEffect(e)
  <2>1. /\ working.att \in Attempts /\ UNCHANGED worldVars
        /\ pc' \notin {"sent", "observed"}
        /\ \E s \in {"work_abandoned", "user_authorized_retry",
                     "user_confirmed_effect"} :
              ledger' = [ledger EXCEPT ![working.att].status = s]
    BY <1>1
    DEF UserCancels, UserAuthorizesRetry, UserConfirmsEffect,
        CancelUncertainEvent, AuthorizeUserRetry, ConfirmUserEffect,
        MayResolveUncertain, MayCancelUncertain, OwnsOpenAttempt, Blocking,
        threadVars, OutsideUnchanged
  <2> QED BY <2>1, SettledVisible
<1>2. CASE \/ Enqueue(e) \/ RequestCancel(e)
           \/ StepRaises(e) \/ PulseRaises(e)
  <2>1. /\ ledger' = ledger /\ UNCHANGED worldVars
        /\ \/ pc' \notin {"sent", "observed"}
           \/ UNCHANGED <<pc, cur, ret>>
    BY <1>2
    DEF Enqueue, RequestCancel, StepRaises, PulseRaises, EnqueueEvent,
        RequestEventCancellation, SaveWorkingState, storeVars, threadVars,
        ToIdle, OutsideUnchanged
  <2> QED BY <2>1, VisibleKept
<1>3. ASSUME NEW text \in Texts, Edit(e, text)
      PROVE  Visible'
  <2>1. /\ UNCHANGED <<ledger, pc, cur, ret, dispatched, applied>>
        /\ edited' = edited \cup {e}
        /\ \A f \in Events \ {e} : world'[f] = world[f]
    BY <1>3 DEF Edit, storeVars, threadVars, Inductive, TypeOK, OutsideTypeOK
  <2> QED BY <2>1, AppliedRows DEF Visible
<1> QED BY <1>1, <1>2, <1>3

LEMMA VisibleStep ==
    ASSUME Inductive, Visible, [Next]_vars
    PROVE  Visible'
<1>1. ASSUME NEW e \in Events, Think(e)
      PROVE  Visible'
  <2>1. ledger' = ledger /\ UNCHANGED worldVars /\ pc' = "stepped"
    BY <1>1 DEF Think, Orient, Investigate, Deliberate, Consult,
                ResumeCompletion, SaveWorkingState, Stepped, storeVars,
                OutsideUnchanged
  <2> QED BY <2>1, VisibleKept
<1>2. CASE Crash \/ Restart \/ UNCHANGED vars
  BY <1>2, VisibleKept
  DEF Crash, Restart, RecoverInterruptedEvents, vars, storeVars, threadVars,
      ToIdle, OutsideUnchanged
<1> QED
  BY <1>1, <1>2, PulseVisible, MoveVisible, VerifyVisible, RecoverVisible,
     OthersVisible
  DEF Next, LifeStep, Control, Environment

(* The world changes twice for one event only if the user had it so: with  *)
(* every contract, crash, raising step and interference, for events that   *)
(* are served first in, first out, while no pulse loses its claim.         *)
THEOREM AppliedOnce ==
    ASSUME FirstInFirstOut, ~LostClaims
    PROVE  Spec => []EffectAppliedOnce
<1>1. Init => Inductive /\ Visible
  BY InitInductive DEF Init, Visible
<1>2. Inductive /\ Visible /\ [Next]_vars => (Inductive /\ Visible)'
  BY InductiveStep, VisibleStep
<1>3. Inductive /\ Visible => EffectAppliedOnce
  <2> SUFFICES ASSUME Inductive, Visible, NEW a \in applied, NEW b \in applied,
                      ledger[a].event \notin edited,
                      ledger[b].event = ledger[a].event,
                      \A c \in {a, b} :
                         ledger[c].status \notin {"user_authorized_retry",
                                                 "user_confirmed_effect"}
               PROVE  a = b
    BY DEF EffectAppliedOnce
  <2>1. /\ {a, b} \subseteq dispatched /\ {a, b} \subseteq Attempts
        /\ ~Permits(a) /\ ~Permits(b) /\ ledger[a].event \in Events
    BY AppliedRows DEF Visible, Permits
  <2> QED
    BY <2>1 DEF Inductive, ReplayInv, Single, Forbidding
<1> QED BY <1>1, <1>2, <1>3, PTL DEF Spec
=============================================================================
