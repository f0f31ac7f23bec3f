--------------------------- MODULE NoReplay_proofs ---------------------------
(***************************************************************************)
(* A guarded movement is never replayed blind, for every set of events     *)
(* that are served first in, first out: with every contract, any number    *)
(* of attempts and crashes, with and without faults and interference.      *)
(*                                                                         *)
(* Equal priorities are what the argument needs, and that no pulse is cut  *)
(* between its claim and its checkpoint by an exception (LostClaims).  The *)
(* singleton checkpoint is the only memory of a settled effect, and it is  *)
(* overwritten when another event is taken up first: a more urgent one, or *)
(* an older one that such an exception had left behind.                    *)
(***************************************************************************)
EXTENDS ResidentLife_proofs

FirstInFirstOut == \A e, f \in Events : Priority[e] = Priority[f]

(* Creation is a strict order between enqueued events.                     *)
Queue ==
    \A e, f \in Events :
        <<e, f>> \in older =>
            /\ status[e] # "none" /\ status[f] # "none"
            /\ e # f /\ <<f, e>> \notin older

Foremost(e) == \A f \in Events : Unfinished(f) => Precedes(e, f)

InHand == {"claimed", "loaded", "armed", "sent", "observed", "absent",
           "probing", "probed", "stepped", "finish"}

(* The life thread works on the event of the checkpoint.                   *)
Loaded == {"loaded", "armed", "sent", "observed", "absent", "probing",
           "probed", "stepped"}

(* The event in the checkpoint and the event in hand are one, and it is    *)
(* the foremost of the unfinished ones; no other event is being processed. *)
Active ==
    /\ working.ev \in Events => Unfinished(working.ev) /\ Foremost(working.ev)
    /\ hand \in Events /\ pc # "clear" =>
          Foremost(hand) /\ working.ev \in {hand, NoEvent}
    /\ pc \in InHand => hand \in Events /\ status[hand] = "processing"
    /\ pc \in Loaded \cup {"confirming"} => hand \in Events /\ working.ev = hand
    /\ pc # "down" =>
          \A f \in Events :
              status[f] = "processing" =>
                  f = working.ev \/ (f = hand /\ pc # "clear")

(* What checkpoint and ledger say while a step is under way.               *)
Midway ==
    /\ pc \in {"armed", "sent", "observed"} =>
          /\ working.stage = "native_action"
          /\ ledger[cur].use = "move"
          /\ ledger[cur].status # "free"
    /\ pc = "armed" => ledger[cur].status = "started" /\ cur \notin dispatched
    /\ pc \in {"probing", "probed"} => working.stage = "native_verification"
    /\ pc = "absent" =>
          /\ working.stage = "side_effect_recovery"
          /\ working.decision = "reverify_effect"
          /\ working.att \in Attempts
          /\ ledger[working.att].status = "verified_absent"
    /\ pc = "confirming" =>
          /\ working.stage = "side_effect_recovery"
          /\ working.decision = "effect_happened"
    /\ pc = "finish" => result # "none"

(* The effect of the attempt is settled: observed, or confirmed by the     *)
(* user of an event without a postcondition.                               *)
Settled(a) ==
    \/ ledger[a].status = "verified_effect"
    \/ /\ ledger[a].status = "user_confirmed_effect"
       /\ Contract[ledger[a].event] = "none"

(* The checkpoint knows it.                                                *)
Remembers(a) ==
    /\ working.ev = ledger[a].event
    /\ \/ /\ working.stage = "side_effect_recovery"
          /\ working.att = a
          /\ working.decision # "effect_happened"
          /\ ledger[a].status = "verified_effect"
       \/ /\ working.stage = "side_effect_recovery"
          /\ working.decision = "effect_happened"
          /\ ledger[a].status = "user_confirmed_effect"
       \/ /\ working.stage = "completion"
          /\ ledger[a].status = "user_confirmed_effect"

(* A settled effect is remembered by the checkpoint until the verdict is   *)
(* published.                                                              *)
Remembered ==
    \A a \in Attempts :
        LET e == ledger[a].event IN
        /\ ledger[a].status # "free" => e \in Events
        /\ ledger[a].status = "work_abandoned" => outcome[e] # "none"
        /\ Settled(a) /\ outcome[e] = "none" => Remembers(a)

(* The movements of e that forbid another one, sent or about to be sent.   *)
Forbidding(e) ==
    {a \in Attempts : /\ ledger[a].event = e
                      /\ ledger[a].use = "move"
                      /\ ledger[a].status # "free"
                      /\ ~Permits(a)}

Single ==
    /\ \A e \in Events : \A a, b \in Forbidding(e) : a = b
    /\ \A a \in dispatched :
          ledger[a].use = "move" /\ ledger[a].status # "free"

ReplayInv == Queue /\ Active /\ Midway /\ Remembered /\ Single

-----------------------------------------------------------------------------
(* One step of the event in hand.                                          *)

LEMMA StepsStay ==
    ASSUME TypeOK, Performing, NEW e \in Events,
           Think(e) \/ Move(e) \/ Verify(e) \/ Recover(e)
    PROVE  /\ hand = e /\ hand' = e
           /\ pc \in Loaded /\ pc' \in Loaded
           /\ UNCHANGED <<status, older, outcome>>
           /\ working'.ev \in {working.ev, e}
<1> USE DEF Loaded, storeVars
<1>1. CASE Think(e)
  <2>1. hand = e /\ pc = "loaded" /\ hand' = hand /\ pc' = "stepped"
    BY <1>1
    DEF Think, Orient, Investigate, Deliberate, Consult, ResumeCompletion,
        Stepping, Stepped
  <2>2. UNCHANGED <<status, older, outcome>>
    BY <1>1
    DEF Think, Orient, Investigate, Deliberate, Consult, ResumeCompletion,
        SaveWorkingState
  <2>3. \A stage \in Stages, blocked \in BOOLEAN :
          [At(stage) EXCEPT !.blocked = blocked].ev = working.ev
    BY DEF At, TypeOK, StoreTypeOK, Checkpoint
  <2>4. working.blocked \in BOOLEAN
    BY DEF TypeOK, StoreTypeOK, Checkpoint
  <2>5. working'.ev \in {working.ev, e}
    <3>1. CASE Orient(e) \/ Deliberate(e) \/ Consult(e)
      BY <3>1, SavedEvents
      DEF Orient, Deliberate, Consult, Stages, Verdicts, SaveWorkingState
    <3>2. CASE Investigate(e)
      <4>1. \E w : w.ev = working.ev /\ SaveWorkingState(w)
        BY <2>3, <2>4, <3>2, SavedEvents DEF Investigate, Stages, Verdicts
      <4>2. QED
        BY <4>1 DEF SaveWorkingState
    <3>3. QED
      BY <1>1, <3>1, <3>2 DEF Think, ResumeCompletion
  <2>6. QED
    BY <2>1, <2>2, <2>5
<1>2. CASE Move(e)
  <2>1. /\ pc \in {"loaded", "armed", "sent", "observed"}
        /\ hand = e
        /\ UNCHANGED <<status, older, outcome>>
    BY <1>2
    DEF Move, RefuseReplay, Arm, Dispatch, ObserveReturn, LoseReturn,
        ProveAbsent, CheckpointMove, Stepping, StartAttempt,
        ObserveStartedAttempt, ResolveAttempt, SaveWorkingState
  <2>2. hand' = hand /\ pc' \in {"armed", "sent", "observed", "stepped"}
    BY <1>2
    DEF Move, RefuseReplay, Arm, Dispatch, ObserveReturn, LoseReturn,
        ProveAbsent, CheckpointMove, Goto, Stepped
  <2>3. working'.ev = working.ev
    <3>1. CASE RefuseReplay(e)
      BY <3>1, SavedEvents DEF RefuseReplay, Blocking, SaveWorkingState
    <3>2. CASE CheckpointMove(e)
      <4>1. cur \in Attempts
        BY <3>2 DEF CheckpointMove, Performing
      <4>2. QED
        BY <3>2, <4>1, SavedEvents
        DEF CheckpointMove, Stages, Verdicts, SaveWorkingState
    <3>3. QED
      BY <1>2, <3>1, <3>2
      DEF Move, Arm, Dispatch, ObserveReturn, LoseReturn, ProveAbsent,
          StartAttempt, ObserveStartedAttempt, ResolveAttempt
  <2>4. QED
    BY <2>1, <2>2, <2>3
<1>3. CASE Verify(e)
  BY <1>3, SavedEvents
  DEF Verify, VerifyText, RefuseProbe, ArmProbe, RunProbe, JudgeProbe,
      CheckpointVerdict, Stepping, Stepped, StartAttempt,
      ObserveStartedAttempt, Verdicts, SaveWorkingState
<1>4. CASE Recover(e)
  BY <1>4, SavedEvents
  DEF Recover, AwaitDecision, ReverifyEffect, ReverifyAbsence,
      RetryAfterAbsence, Hold, ResumeConfirmed, Recovering, Stepping, Stepped,
      Goto, ResolveAttempt, Stages, SaveWorkingState
<1>5. QED
  BY <1>1, <1>2, <1>3, <1>4

-----------------------------------------------------------------------------
(* The queue.                                                              *)

LEMMA QueueKept ==
    ASSUME Queue, older' = older,
           \A e \in Events : status[e] # "none" => status'[e] # "none"
    PROVE  Queue'
BY DEF Queue

LEMMA QueueStep ==
    ASSUME TypeOK, Performing, Queue, [Next]_vars
    PROVE  Queue'
<1>1. ASSUME NEW e \in Events, Think(e) \/ Move(e) \/ Verify(e) \/ Recover(e)
      PROVE  Queue'
  BY <1>1, StepsStay, QueueKept
<1>2. ASSUME NEW e \in Events, Pulse(e)
      PROVE  Queue'
  <2>1. older' = older
    BY <1>2
    DEF Pulse, Claim, StopWork, AbandonUncertain, AbandonRefused,
        ClearRequest, LoadState, EndStep, Finish, FinishRefused, Confirm,
        ClaimEvent, CancelUncertainEvent, ClearCancellationRequest,
        SaveWorkingState, CompleteEvent, storeVars
  <2>2. \/ status' = status
        \/ \E s \in {"processing", "completed", "failed"} :
              status' = [status EXCEPT ![e] = s]
    BY <1>2
    DEF Pulse, Claim, StopWork, AbandonUncertain, AbandonRefused,
        ClearRequest, LoadState, EndStep, Finish, FinishRefused, Confirm,
        ClaimEvent, CancelUncertainEvent, ClearCancellationRequest,
        SaveWorkingState, CompleteEvent, TerminalStatus, storeVars
  <2>3. QED
    BY <2>1, <2>2, QueueKept DEF TypeOK, StoreTypeOK
<1>3. ASSUME NEW e \in Events, Enqueue(e)
      PROVE  Queue'
  BY <1>3 DEF Enqueue, EnqueueEvent, Queue, TypeOK, StoreTypeOK
<1>4. ASSUME NEW e \in Events,
             \/ RequestCancel(e) \/ UserCancels(e)
             \/ UserAuthorizesRetry(e) \/ UserConfirmsEffect(e)
             \/ StepRaises(e) \/ PulseRaises(e)
             \/ (\E text \in Texts : Edit(e, text))
      PROVE  Queue'
  <2>1. older' = older /\ (status' = status \/ status' = [status EXCEPT ![e] = "failed"])
    BY <1>4
    DEF RequestCancel, UserCancels, UserAuthorizesRetry, UserConfirmsEffect,
        StepRaises, PulseRaises, Edit, RequestEventCancellation,
        CancelUncertainEvent,
        AuthorizeUserRetry, ConfirmUserEffect, SaveWorkingState, storeVars
  <2>2. QED
    BY <2>1, QueueKept DEF TypeOK, StoreTypeOK
<1>5. CASE Crash \/ Restart \/ UNCHANGED vars
  BY <1>5, QueueKept
  DEF Crash, Restart, RecoverInterruptedEvents, vars, storeVars
<1>6. QED
  BY <1>1, <1>2, <1>3, <1>4, <1>5 DEF Next, LifeStep, Control, Environment

-----------------------------------------------------------------------------
(* The event in hand.                                                      *)

(* Two foremost unfinished events are one: creation is antisymmetric.      *)
LEMMA OnlyForemost ==
    ASSUME FirstInFirstOut, Queue, NEW e \in Events, NEW f \in Events,
           Unfinished(e), Unfinished(f), Foremost(e), Foremost(f)
    PROVE  e = f
<1>1. Priority[e] = Priority[f] /\ Priority[e] \in Nat
  BY PriorityAssumption DEF FirstInFirstOut
<1>2. (e = f \/ <<e, f>> \in older) /\ (f = e \/ <<f, e>> \in older)
  BY <1>1 DEF Foremost, Precedes
<1>3. QED
  BY <1>2 DEF Queue

(* Where hand holds an event, it is not finished.                          *)
LEMMA HandUnfinished ==
    ASSUME TypeOK, Final, Active, hand \in Events, pc # "clear"
    PROVE  Unfinished(hand)
<1>1. pc \in InHand \/ pc = "confirming"
  BY EventsAssumption
  DEF Final, InHand, TypeOK, ThreadTypeOK, PCs
<1>2. QED
  BY <1>1 DEF Active, Unfinished

LEMMA ForemostKept ==
    ASSUME older' = older, NEW e \in Events, Foremost(e),
           \A f \in Events : Unfinished(f)' => Unfinished(f)
    PROVE  Foremost(e)'
BY DEF Foremost, Precedes

LEMMA ActiveKept ==
    ASSUME Active, UNCHANGED <<status, older>>, hand' = hand,
           pc \in Loaded, pc' \in Loaded, working'.ev \in {working.ev, hand}
    PROVE  Active'
BY DEF Active, Loaded, InHand, Foremost, Precedes, Unfinished

LEMMA ClaimActive ==
    ASSUME FirstInFirstOut, TypeOK, Final, Queue, Active,
           NEW e \in Events, Claim(e)
    PROVE  Active'
<1>1. pc = "idle" /\ hand = NoEvent
  BY DEF Claim, Final
<1>2. \A f \in Events : status[f] = "processing" => f = working.ev
  BY <1>1, EventsAssumption DEF Active
<1>3. Unfinished(e) /\ Foremost(e)
  <2>1. CASE working.ev \in Events /\ status[working.ev] = "processing"
    BY <2>1 DEF Claim, IsNext, Active, Unfinished
  <2>2. CASE ~(working.ev \in Events /\ status[working.ev] = "processing")
    BY <1>2, <2>2 DEF Claim, IsNext, Unfinished, Foremost
  <2>3. QED
    BY <2>1, <2>2
<1>4. working.ev \in {e, NoEvent}
  BY <1>3, OnlyForemost DEF Active, TypeOK, StoreTypeOK, Checkpoint
<1>5. /\ status' = [status EXCEPT ![e] = "processing"]
      /\ older' = older /\ working' = working
      /\ pc' = "claimed" /\ hand' = e
  BY DEF Claim, ClaimEvent
<1>6. Unfinished(e)' /\ Foremost(e)'
  BY <1>3, <1>5, ForemostKept DEF Unfinished, TypeOK, StoreTypeOK
<1>7. QED
  BY <1>2, <1>4, <1>5, <1>6, EventsAssumption
  DEF Active, InHand, Loaded, TypeOK, StoreTypeOK

(* The verdict of e, which is in hand or in the checkpoint, is published.  *)
LEMMA PublishedActive ==
    ASSUME TypeOK, Active, NEW e \in Events,
           working'.ev = NoEvent,
           status'[e] # "processing",
           \A f \in Events \ {e} : status'[f] = status[f],
           \/ hand' = NoEvent /\ pc' = "idle"
           \/ hand' = hand /\ pc' = "clear",
           pc # "down",
           e = working.ev \/ (e = hand /\ working.ev \in {hand, NoEvent}),
           hand \in Events => hand = e
    PROVE  Active'
BY EventsAssumption DEF Active, InHand, Loaded, TypeOK, StoreTypeOK

(* The pulse ends without a verdict.                                       *)
LEMMA RestingActive ==
    ASSUME TypeOK, Active, UNCHANGED <<status, older, working>>,
           pc' = "idle", hand' = NoEvent, pc # "down",
           hand \in Events /\ pc # "clear" => working.ev = hand
    PROVE  Active'
BY EventsAssumption
DEF Active, InHand, Loaded, Foremost, Precedes, Unfinished

LEMMA PulseActive ==
    ASSUME FirstInFirstOut, TypeOK, Final, Queue, Active,
           NEW e \in Events, Pulse(e)
    PROVE  Active'
<1> USE DEF storeVars
<1>1. CASE Claim(e)
  BY <1>1, ClaimActive
<1>2. CASE StopWork(e)
  BY <1>2
  DEF StopWork, Cancelling, Active, InHand, Loaded, Foremost, Precedes,
      Unfinished
<1>3. CASE AbandonUncertain(e)
  <2>1. working.ev = e /\ hand = e /\ pc # "down"
    BY <1>3
    DEF AbandonUncertain, Cancelling, CancelUncertainEvent,
        MayCancelUncertain, Uncertain
  <2>2. QED
    BY <1>3, <2>1, PublishedActive
    DEF AbandonUncertain, CancelUncertainEvent, Goto, Idle, TypeOK, StoreTypeOK
<1>4. CASE AbandonRefused(e)
  BY <1>4, RestingActive DEF AbandonRefused, Cancelling, Uncertain, ToIdle
<1>5. CASE ClearRequest(e)
  BY <1>5, RestingActive DEF ClearRequest, ClearCancellationRequest, ToIdle
<1>6. CASE LoadState(e)
  <2>1. pc = "claimed" /\ hand = e /\ status[e] = "processing" /\ Foremost(e)
    BY <1>6 DEF LoadState, Active, InHand
  <2>2. /\ UNCHANGED <<status, older>>
        /\ pc' = "loaded" /\ hand' = e /\ working'.ev = e
    BY <1>6, <2>1, SavedEvents DEF LoadState, SaveWorkingState, Goto
  <2>3. Foremost(e)'
    BY <2>1, <2>2, ForemostKept DEF Unfinished
  <2>4. \A f \in Events : status[f] = "processing" => f = e
    BY <2>1, EventsAssumption DEF Active
  <2>5. QED
    BY <2>1, <2>2, <2>3, <2>4 DEF Active, InHand, Loaded, Unfinished
<1>7. CASE EndStep(e)
  <2>1. CASE ToIdle
    BY <1>7, <2>1, RestingActive DEF EndStep, ToIdle, Active, Loaded
  <2>2. CASE Goto("finish")
    BY <1>7, <2>2
    DEF EndStep, Goto, Active, InHand, Loaded, Foremost, Precedes, Unfinished
  <2>3. QED
    BY <1>7, <2>1, <2>2 DEF EndStep
<1>8. CASE Finish(e)
  <2>1. /\ pc = "finish" /\ hand = e
        /\ working.ev \in {e, NoEvent}
    BY <1>8 DEF Finish, Active
  <2>2. /\ status'[e] # "processing"
        /\ \A f \in Events \ {e} : status'[f] = status[f]
    BY <1>8
    DEF Finish, CompleteEvent, TerminalStatus, TypeOK, StoreTypeOK
  <2>3. working'.ev = NoEvent /\ hand' = NoEvent /\ pc' = "idle"
    BY <1>8 DEF Finish, CompleteEvent, ToIdle, Idle
  <2>4. QED
    BY <2>1, <2>2, <2>3, PublishedActive
<1>9. CASE FinishRefused(e)
  <2>1. pc = "finish" /\ hand = e /\ status[e] = "processing" /\ outcome[e] = "none"
    BY <1>9 DEF FinishRefused, Active, InHand, Final
  <2>2. working.ev = e
    BY <1>9, <2>1 DEF FinishRefused, MayComplete, Uncertain, Active
  <2>3. QED
    BY <1>9, <2>1, <2>2, RestingActive DEF FinishRefused, ToIdle
<1>10. CASE Confirm(e)
  <2>1. pc = "confirming" /\ hand = e /\ working.ev = e
    BY <1>10 DEF Confirm, Active
  <2>2. UNCHANGED <<status, older>> /\ working'.ev = e
    BY <1>10, <2>1, SavedEvents DEF Confirm, SaveWorkingState
  <2>3. QED
    BY <1>10, <2>1, <2>2, EventsAssumption
    DEF Confirm, ToIdle, Active, InHand, Loaded, Foremost, Precedes, Unfinished
<1>11. QED
  BY <1>1, <1>2, <1>3, <1>4, <1>5, <1>6, <1>7, <1>8, <1>9, <1>10 DEF Pulse

(* A new event comes behind everything that is there.                      *)
LEMMA EnqueueActive ==
    ASSUME FirstInFirstOut, TypeOK, Final, Active, NEW e \in Events, Enqueue(e)
    PROVE  Active'
<1>1. /\ status[e] = "none"
      /\ status' = [status EXCEPT ![e] = "pending"]
      /\ older' = older \cup ({f \in Events : status[f] # "none"} \X {e})
      /\ UNCHANGED <<working, pc, hand>>
  BY DEF Enqueue, EnqueueEvent, threadVars
<1>2. ASSUME NEW f \in Events, Unfinished(f), Foremost(f)
      PROVE  Unfinished(f)' /\ Foremost(f)'
  <2>1. f # e /\ <<f, e>> \in older'
    BY <1>1, <1>2 DEF Unfinished
  <2>2. Unfinished(f)'
    BY <1>1, <1>2, <2>1 DEF Unfinished, TypeOK, StoreTypeOK
  <2>3. ASSUME NEW g \in Events, Unfinished(g)'
        PROVE  Precedes(f, g)'
    <3>1. CASE g = e
      BY <2>1, <3>1 DEF Precedes, FirstInFirstOut
    <3>2. CASE g # e
      <4>1. Unfinished(g)
        BY <1>1, <2>3, <3>2 DEF Unfinished, TypeOK, StoreTypeOK
      <4>2. QED
        BY <1>1, <1>2, <4>1 DEF Foremost, Precedes
    <3>3. QED
      BY <3>1, <3>2
  <2>4. QED
    BY <2>2, <2>3 DEF Foremost
<1>3. hand \in Events /\ pc # "clear" => Foremost(hand)'
  BY <1>1, <1>2, HandUnfinished DEF Active, Foremost, Precedes, Unfinished
<1>4. working.ev \in Events => Unfinished(working.ev)' /\ Foremost(working.ev)'
  BY <1>1, <1>2 DEF Active, Foremost, Precedes, Unfinished
<1>5. \A f \in Events : /\ status'[f] = "processing" => status[f] = "processing"
                        /\ status[f] = "processing" => status'[f] = "processing"
  BY <1>1 DEF TypeOK, StoreTypeOK
<1>6. QED
  BY <1>1, <1>3, <1>4, <1>5 DEF Active

LEMMA OthersActive ==
    ASSUME FirstInFirstOut, ~LostClaims, TypeOK, Final, Active,
           NEW e \in Events,
           \/ Enqueue(e) \/ RequestCancel(e) \/ UserCancels(e)
           \/ UserAuthorizesRetry(e) \/ UserConfirmsEffect(e)
           \/ StepRaises(e) \/ PulseRaises(e)
           \/ (\E text \in Texts : Edit(e, text))
    PROVE  Active'
<1> USE DEF Foremost, Precedes, Unfinished
<1>1. CASE Enqueue(e)
  BY <1>1, EnqueueActive
<1>2. CASE RequestCancel(e) \/ \E text \in Texts : Edit(e, text)
  BY <1>2
  DEF RequestCancel, RequestEventCancellation, Edit, storeVars, threadVars,
      Active
<1>3. CASE UserCancels(e)
  <2>1. working.ev = e /\ pc = "idle" /\ hand = NoEvent
    BY <1>3
    DEF UserCancels, CancelUncertainEvent, MayCancelUncertain, Uncertain, Final
  <2>2. /\ status'[e] # "processing"
        /\ \A f \in Events \ {e} : status'[f] = status[f]
        /\ working'.ev = NoEvent /\ hand' = NoEvent /\ pc' = "idle"
    BY <1>3, <2>1
    DEF UserCancels, CancelUncertainEvent, threadVars, Idle, TypeOK,
        StoreTypeOK
  <2>3. QED
    BY <2>1, <2>2, PublishedActive, EventsAssumption
<1>4. CASE UserAuthorizesRetry(e)
  <2>1. UNCHANGED <<status, older, pc, hand>> /\ pc = "idle"
    BY <1>4 DEF UserAuthorizesRetry, AuthorizeUserRetry, threadVars
  <2>2. working'.ev = working.ev
    BY <1>4
    DEF UserAuthorizesRetry, AuthorizeUserRetry, TypeOK, StoreTypeOK, Checkpoint
  <2>3. QED
    BY <2>1, <2>2 DEF Active, InHand, Loaded
<1>5. CASE UserConfirmsEffect(e)
  <2>1. working.ev = e /\ pc = "idle" /\ hand = NoEvent
    BY <1>5
    DEF UserConfirmsEffect, ConfirmUserEffect, MayResolveUncertain,
        MayCancelUncertain, Uncertain, Final
  <2>2. /\ UNCHANGED <<status, older>> /\ working'.ev = e
        /\ pc' = "confirming" /\ hand' = e
    BY <1>5, <2>1
    DEF UserConfirmsEffect, ConfirmUserEffect, TypeOK, StoreTypeOK, Checkpoint
  <2>3. QED
    BY <2>1, <2>2, EventsAssumption DEF Active, InHand, Loaded
<1>6. CASE StepRaises(e)
  <2>1. pc \in Loaded /\ hand = e /\ working.ev = e /\ status[e] = "processing"
    BY <1>6 DEF StepRaises, Loaded, InHand, Active
  <2>2. UNCHANGED <<status, older>> /\ working'.ev = e
    BY <1>6, <2>1, SavedEvents DEF StepRaises, SaveWorkingState, storeVars
  <2>3. \/ pc' = "idle" /\ hand' = NoEvent
        \/ pc' = "finish" /\ hand' = e
    BY <1>6, <2>1 DEF StepRaises, ToIdle
  <2>4. QED
    BY <2>1, <2>2, <2>3, EventsAssumption DEF Active, InHand, Loaded
<1>7. CASE PulseRaises(e)
  BY <1>7, RestingActive DEF PulseRaises, ToIdle, storeVars
<1>8. QED
  BY <1>1, <1>2, <1>3, <1>4, <1>5, <1>6, <1>7

LEMMA ActiveStep ==
    ASSUME FirstInFirstOut, ~LostClaims, TypeOK, Performing, Final, Queue,
           Active, [Next]_vars
    PROVE  Active'
<1>1. ASSUME NEW e \in Events, Think(e) \/ Move(e) \/ Verify(e) \/ Recover(e)
      PROVE  Active'
  BY <1>1, StepsStay, ActiveKept
<1>2. CASE Crash
  BY <1>2, EventsAssumption
  DEF Crash, storeVars, Active, InHand, Loaded, Foremost, Precedes, Unfinished
<1>3. CASE Restart
  <2>1. /\ pc' = "idle" /\ hand' = NoEvent
        /\ UNCHANGED <<older, working>>
        /\ \A f \in Events : Unfinished(f)' = Unfinished(f)
        /\ \A f \in Events : status'[f] # "processing"
    BY <1>3
    DEF Restart, RecoverInterruptedEvents, ToIdle, Unfinished, TypeOK,
        StoreTypeOK
  <2>2. working.ev \in Events => Unfinished(working.ev)' /\ Foremost(working.ev)'
    BY <2>1 DEF Active, Foremost, Precedes
  <2>3. QED
    BY <2>1, <2>2, EventsAssumption DEF Active, InHand, Loaded
<1>4. CASE UNCHANGED vars
  BY <1>4
  DEF vars, storeVars, threadVars, Active, Foremost, Precedes, Unfinished
<1>5. QED
  BY <1>1, <1>2, <1>3, <1>4, PulseActive, OthersActive
  DEF Next, LifeStep, Control, Environment

-----------------------------------------------------------------------------
(* What a step knows while it is under way.                                *)

(* Nothing that a step under way relies on changes.                        *)
LEMMA MidwayKept ==
    ASSUME Midway, UNCHANGED <<working, pc, cur, result, ledger, dispatched>>
    PROVE  Midway'
BY DEF Midway

LEMMA PulseMidway ==
    ASSUME Midway, NEW e \in Events, Pulse(e)
    PROVE  Midway'
<1>1. /\ pc' \in {"claimed", "finish", "clear", "idle", "loaded"}
      /\ pc' = "finish" => result' # "none"
  BY DEF Pulse, Claim, StopWork, AbandonUncertain, AbandonRefused,
         ClearRequest, LoadState, EndStep, Finish, FinishRefused, Confirm,
         Goto, ToIdle
<1>2. QED
  BY <1>1 DEF Midway

LEMMA MoveMidway ==
    ASSUME TypeOK, Performing, Midway, Single, NEW e \in Events, Move(e)
    PROVE  Midway'
<1> USE DEF OutsideUnchanged, worldVars, storeVars
<1>1. CASE RefuseReplay(e) \/ CheckpointMove(e)
  BY <1>1 DEF RefuseReplay, CheckpointMove, Stepped, Midway
<1>2. ASSUME NEW a \in Attempts, Arm(e, a)
      PROVE  Midway'
  <2>1. /\ pc' = "armed" /\ cur' = a /\ working' = working
        /\ working.stage = "native_action"
        /\ ledger[a].status = "free" /\ dispatched' = dispatched
        /\ ledger' = [ledger EXCEPT ![a] =
                        [event |-> e, use |-> "move", status |-> "started"]]
    BY <1>2 DEF Arm, Stepping, StartAttempt
  <2>2. a \notin dispatched
    BY <2>1 DEF Single
  <2>3. QED
    BY <2>1, <2>2 DEF Midway, TypeOK, StoreTypeOK
<1>3. CASE Dispatch(e)
  BY <1>3 DEF Dispatch, Midway
<1>4. CASE LoseReturn(e)
  BY <1>4 DEF LoseReturn, Midway
<1>5. CASE ObserveReturn(e) \/ ProveAbsent(e)
  <2>1. /\ pc \in {"sent", "observed"}
        /\ pc' = "observed" /\ UNCHANGED <<working, cur>>
        /\ \E s \in {"observed", "verified_absent"} :
              ledger' = [ledger EXCEPT ![cur].status = s]
    BY <1>5
    DEF ObserveReturn, ProveAbsent, ObserveStartedAttempt, ResolveAttempt, Goto
  <2>2. cur \in Attempts
    BY <2>1 DEF Performing
  <2>3. /\ ledger'[cur].use = ledger[cur].use
        /\ ledger'[cur].status \in {"observed", "verified_absent"}
    BY <2>1, <2>2 DEF TypeOK, StoreTypeOK, AttemptRow
  <2>4. QED
    BY <2>1, <2>3 DEF Midway
<1>6. QED
  BY <1>1, <1>2, <1>3, <1>4, <1>5 DEF Move

LEMMA VerifyMidway ==
    ASSUME Midway, NEW e \in Events, Verify(e)
    PROVE  Midway'
BY DEF Verify, VerifyText, RefuseProbe, ArmProbe, RunProbe, JudgeProbe,
       CheckpointVerdict, Stepping, Stepped, StartAttempt,
       ObserveStartedAttempt, Midway

LEMMA RecoverMidway ==
    ASSUME TypeOK, NEW e \in Events, Recover(e)
    PROVE  Midway'
<1>1. CASE ReverifyAbsence(e)
  <2>1. /\ pc' = "absent" /\ working' = working
        /\ working.stage = "side_effect_recovery"
        /\ working.decision = "reverify_effect"
        /\ working.att \in Attempts
        /\ ledger' = [ledger EXCEPT ![working.att].status = "verified_absent"]
    BY <1>1
    DEF ReverifyAbsence, Recovering, Stepping, ResolveAttempt, Resolvable, Goto
  <2>2. ledger'[working.att].status = "verified_absent"
    BY <2>1 DEF TypeOK, StoreTypeOK, AttemptRow
  <2>3. QED
    BY <2>1, <2>2 DEF Midway
<1>2. CASE pc' = "stepped"
  BY <1>2 DEF Midway
<1>3. QED
  BY <1>1, <1>2
  DEF Recover, AwaitDecision, ReverifyEffect, RetryAfterAbsence, Hold,
      ResumeConfirmed, Stepped

LEMMA OthersMidway ==
    ASSUME TypeOK, Midway, NEW e \in Events,
           \/ Enqueue(e) \/ RequestCancel(e) \/ UserCancels(e)
           \/ UserAuthorizesRetry(e) \/ UserConfirmsEffect(e)
           \/ StepRaises(e) \/ PulseRaises(e)
           \/ (\E text \in Texts : Edit(e, text))
    PROVE  Midway'
<1>1. CASE Enqueue(e) \/ RequestCancel(e) \/ \E text \in Texts : Edit(e, text)
  BY <1>1, MidwayKept
  DEF Enqueue, RequestCancel, Edit, EnqueueEvent, RequestEventCancellation,
      storeVars, threadVars, OutsideUnchanged, worldVars
<1>2. CASE UserCancels(e) \/ UserAuthorizesRetry(e)
  BY <1>2 DEF UserCancels, UserAuthorizesRetry, threadVars, Midway
<1>3. CASE UserConfirmsEffect(e)
  <2>1. /\ pc' = "confirming"
        /\ working' = [working EXCEPT !.decision = "effect_happened"]
        /\ working.stage = "side_effect_recovery"
    BY <1>3
    DEF UserConfirmsEffect, ConfirmUserEffect, MayResolveUncertain,
        MayCancelUncertain, Uncertain
  <2>2. QED
    BY <2>1 DEF Midway, TypeOK, StoreTypeOK, Checkpoint
<1>4. CASE StepRaises(e) \/ PulseRaises(e)
  BY <1>4 DEF StepRaises, PulseRaises, ToIdle, Midway
<1>5. QED
  BY <1>1, <1>2, <1>3, <1>4

LEMMA MidwayStep ==
    ASSUME TypeOK, Performing, Midway, Single, [Next]_vars
    PROVE  Midway'
<1>1. ASSUME NEW e \in Events, Think(e)
      PROVE  Midway'
  BY <1>1
  DEF Think, Orient, Investigate, Deliberate, Consult, ResumeCompletion,
      Stepped, Midway
<1>2. CASE Crash \/ Restart
  BY <1>2 DEF Crash, Restart, ToIdle, Midway
<1>3. CASE UNCHANGED vars
  BY <1>3, MidwayKept DEF vars, storeVars, threadVars, worldVars
<1>4. QED
  BY <1>1, <1>2, <1>3, PulseMidway, MoveMidway, VerifyMidway, RecoverMidway,
     OthersMidway
  DEF Next, LifeStep, Control, Environment

-----------------------------------------------------------------------------
(* The memory of settled effects.                                          *)

(* Nothing is settled that is not published.                               *)
Forgetful ==
    \A a \in Attempts : Settled(a) => outcome[ledger[a].event] # "none"

(* Every checkpoint but a recovery or a completion has nothing to forget,  *)
(* nor has the recovery of an attempt that is not settled as an effect.    *)
LEMMA NothingToForget ==
    ASSUME Remembered
    PROVE  /\ working.stage \notin {"side_effect_recovery", "completion"}
              => Forgetful
           /\ working.ev \notin Events => Forgetful
           /\ /\ working.stage = "side_effect_recovery"
              /\ working.decision # "effect_happened"
              /\ ledger[working.att].status # "verified_effect"
              => Forgetful
BY DEF Remembered, Remembers, Settled, Forgetful

LEMMA OpenForgetful ==
    ASSUME Remembered, NEW e \in Events, Uncertain(e), OwnsOpenAttempt(e)
    PROVE  /\ Forgetful
           /\ working.att \in Attempts
           /\ ledger[working.att].event = e
           /\ ledger[working.att].status \in OpenStatuses
BY NothingToForget DEF Uncertain, OwnsOpenAttempt, Blocking, OpenStatuses

LEMMA RememberedKept ==
    ASSUME Remembered, ledger' = ledger,
           \A e \in Events : outcome[e] # "none" => outcome'[e] # "none",
           working' = working \/ Forgetful
    PROVE  Remembered'
BY DEF Remembered, Remembers, Settled, Forgetful

(* One unsettled row gets another status that settles no effect.           *)
LEMMA RememberedRow ==
    ASSUME TypeOK, Remembered, outcome' = outcome,
           NEW a \in Attempts,
           ledger[a].status \in {"started", "observed", "verified_absent"},
           NEW s \in {"observed", "verified_absent", "user_authorized_retry"},
           ledger' = [ledger EXCEPT ![a].status = s],
           working' = working \/ Forgetful
    PROVE  Remembered'
<1>1. /\ ledger'[a].status = s /\ ledger'[a].event = ledger[a].event
      /\ \A b \in Attempts \ {a} : ledger'[b] = ledger[b]
  BY DEF TypeOK, StoreTypeOK, AttemptRow
<1>2. QED
  BY <1>1 DEF Remembered, Remembers, Settled, Forgetful

LEMMA StartRemembered ==
    ASSUME TypeOK, Remembered, UNCHANGED <<outcome, working>>,
           NEW a \in Attempts, NEW e \in Events, NEW use,
           ledger' = [ledger EXCEPT ![a] =
                        [event |-> e, use |-> use, status |-> "started"]]
    PROVE  Remembered'
<1>1. /\ ledger'[a].status = "started" /\ ledger'[a].event = e
      /\ \A b \in Attempts \ {a} : ledger'[b] = ledger[b]
  BY DEF TypeOK, StoreTypeOK
<1>2. QED
  BY <1>1 DEF Remembered, Remembers, Settled

(* A verdict for the event of the checkpoint lets the checkpoint go.       *)
LEMMA PublishedRemembered ==
    ASSUME Remembered, ledger' = ledger,
           \A e \in Events : outcome[e] # "none" => outcome'[e] # "none",
           working.ev \in Events => outcome'[working.ev] # "none"
    PROVE  Remembered'
BY DEF Remembered, Remembers, Settled

LEMMA CancelRemembered ==
    ASSUME TypeOK, Remembered, NEW e \in Events, CancelUncertainEvent(e)
    PROVE  Remembered'
<1>1. /\ Forgetful
      /\ working.att \in Attempts
      /\ ledger[working.att].event = e
  BY OpenForgetful DEF CancelUncertainEvent, MayCancelUncertain
<1>2. /\ ledger'[working.att].status = "work_abandoned"
      /\ ledger'[working.att].event = e
      /\ \A a \in Attempts \ {working.att} : ledger'[a] = ledger[a]
      /\ outcome'[e] # "none"
      /\ \A f \in Events : outcome[f] # "none" => outcome'[f] # "none"
  BY <1>1 DEF CancelUncertainEvent, TypeOK, StoreTypeOK, AttemptRow
<1>3. ASSUME NEW a \in Attempts
      PROVE  /\ ledger'[a].status # "free" => ledger'[a].event \in Events
             /\ ledger'[a].status = "work_abandoned"
                => outcome'[ledger'[a].event] # "none"
             /\ Settled(a)' => outcome'[ledger'[a].event] # "none"
  <2>1. CASE a = working.att
    BY <1>2, <2>1 DEF Settled
  <2>2. CASE a # working.att
    BY <1>1, <1>2, <2>2 DEF Remembered, Settled, Forgetful
  <2>3. QED
    BY <2>1, <2>2
<1>4. QED
  BY <1>3 DEF Remembered

LEMMA PulseRemembered ==
    ASSUME TypeOK, Final, Active, Midway, Remembered,
           NEW e \in Events, Pulse(e)
    PROVE  Remembered'
<1> USE DEF storeVars
<1>1. CASE \/ Claim(e) \/ StopWork(e) \/ AbandonRefused(e) \/ ClearRequest(e)
           \/ EndStep(e) \/ FinishRefused(e)
  BY <1>1, RememberedKept
  DEF Claim, ClaimEvent, StopWork, AbandonRefused, ClearRequest,
      ClearCancellationRequest, EndStep, FinishRefused
<1>2. CASE AbandonUncertain(e)
  BY <1>2, CancelRemembered DEF AbandonUncertain
<1>3. CASE LoadState(e)
  <2>1. working.ev \in {e, NoEvent}
    BY <1>3 DEF LoadState, Active
  <2>2. CASE working.ev = e /\ working.stage # "idle"
    BY <1>3, <2>2, RememberedKept DEF LoadState, SaveWorkingState
  <2>3. CASE ~(working.ev = e /\ working.stage # "idle")
    <3>1. Forgetful
      BY <2>1, <2>3, NothingToForget, EventsAssumption
    <3>2. QED
      BY <1>3, <3>1, RememberedKept DEF LoadState, SaveWorkingState
  <2>4. QED
    BY <2>2, <2>3
<1>4. CASE Finish(e)
  <2>1. result # "none" /\ working.ev \in {e, NoEvent}
    BY <1>4 DEF Finish, Midway, Active
  <2>2. /\ outcome'[e] # "none" /\ ledger' = ledger
        /\ \A f \in Events : outcome[f] # "none" => outcome'[f] # "none"
    BY <1>4, <2>1
    DEF Finish, CompleteEvent, PublishedVerdict, TypeOK, StoreTypeOK
  <2>3. QED
    BY <2>1, <2>2, PublishedRemembered, EventsAssumption
<1>5. CASE Confirm(e)
  <2>1. /\ working.ev = e /\ working.stage = "side_effect_recovery"
        /\ working.decision = "effect_happened"
    BY <1>5 DEF Confirm, Midway, Active
  <2>2. CASE UNCHANGED storeVars
    BY <2>2, RememberedKept
  <2>3. CASE SaveWorkingState(AfterConfirmation(e))
    <3>1. ledger' = ledger /\ outcome' = outcome
      BY <2>3 DEF SaveWorkingState
    <3>2. Contract[e] = "none" =>
             working'.ev = e /\ working'.stage = "completion"
      BY <2>1, <2>3
      DEF SaveWorkingState, AfterConfirmation, Known, At, TypeOK, StoreTypeOK,
          Checkpoint
    <3>3. QED
      BY <2>1, <3>1, <3>2 DEF Remembered, Remembers, Settled
  <2>4. QED
    BY <1>5, <2>2, <2>3 DEF Confirm
<1>6. QED
  BY <1>1, <1>2, <1>3, <1>4, <1>5 DEF Pulse

(* A step that starts from an ordinary checkpoint has nothing to forget.   *)
LEMMA ThinkRemembered ==
    ASSUME Remembered, NEW e \in Events, Think(e)
    PROVE  Remembered'
<1>1. CASE ResumeCompletion(e)
  BY <1>1, RememberedKept DEF ResumeCompletion, storeVars
<1>2. CASE Orient(e) \/ Investigate(e) \/ Deliberate(e) \/ Consult(e)
  <2>1. Forgetful
    BY <1>2, NothingToForget
    DEF Orient, Investigate, Deliberate, Consult, Stepping
  <2>2. ledger' = ledger /\ outcome' = outcome
    BY <1>2
    DEF Orient, Investigate, Deliberate, Consult, SaveWorkingState
  <2>3. QED
    BY <2>1, <2>2, RememberedKept
<1>3. QED
  BY <1>1, <1>2 DEF Think

LEMMA MoveRemembered ==
    ASSUME TypeOK, Performing, Midway, Remembered, NEW e \in Events, Move(e)
    PROVE  Remembered'
<1> USE DEF storeVars
<1>1. Forgetful
  <2>1. working.stage = "native_action"
    BY DEF Move, RefuseReplay, Arm, Dispatch, ObserveReturn, LoseReturn,
           ProveAbsent, CheckpointMove, Stepping, Midway
  <2>2. QED
    BY <2>1, NothingToForget
<1>2. CASE RefuseReplay(e) \/ Dispatch(e) \/ LoseReturn(e) \/ CheckpointMove(e)
  BY <1>1, <1>2, RememberedKept
  DEF RefuseReplay, Dispatch, LoseReturn, CheckpointMove, SaveWorkingState
<1>3. ASSUME NEW a \in Attempts, Arm(e, a)
      PROVE  Remembered'
  BY <1>3, StartRemembered DEF Arm, StartAttempt
<1>4. CASE ObserveReturn(e)
  <2>1. cur \in Attempts
    BY <1>4 DEF ObserveReturn, Performing
  <2>2. QED
    BY <1>4, <2>1, RememberedRow DEF ObserveReturn, ObserveStartedAttempt
<1>5. CASE ProveAbsent(e)
  BY <1>5, RememberedRow
  DEF ProveAbsent, ResolveAttempt, Resolvable, OpenStatuses
<1>6. QED
  BY <1>2, <1>3, <1>4, <1>5 DEF Move

LEMMA VerifyRemembered ==
    ASSUME TypeOK, Performing, Midway, Remembered, NEW e \in Events, Verify(e)
    PROVE  Remembered'
<1>1. Forgetful
  <2>1. working.stage = "native_verification"
    BY DEF Verify, VerifyText, RefuseProbe, ArmProbe, RunProbe, JudgeProbe,
           Stepping, Midway
  <2>2. QED
    BY <2>1, NothingToForget
<1>2. CASE VerifyText(e) \/ RefuseProbe(e) \/ JudgeProbe(e)
  BY <1>1, <1>2, RememberedKept
  DEF VerifyText, RefuseProbe, JudgeProbe, CheckpointVerdict, SaveWorkingState
<1>3. ASSUME NEW a \in Attempts, ArmProbe(e, a)
      PROVE  Remembered'
  BY <1>3, StartRemembered DEF ArmProbe, StartAttempt
<1>4. CASE RunProbe(e)
  <2>1. cur \in Attempts
    BY <1>4 DEF RunProbe, Performing
  <2>2. QED
    BY <1>4, <2>1, RememberedRow DEF RunProbe, ObserveStartedAttempt
<1>5. QED
  BY <1>2, <1>3, <1>4 DEF Verify

LEMMA RecoverRemembered ==
    ASSUME TypeOK, Active, Midway, Remembered, NEW e \in Events, Recover(e)
    PROVE  Remembered'
<1>1. CASE AwaitDecision(e)
  BY <1>1, RememberedKept DEF AwaitDecision, storeVars
<1>2. CASE ReverifyEffect(e)
  <2>1. /\ working.stage = "side_effect_recovery"
        /\ working.decision = "reverify_effect"
        /\ working.att \in Attempts
        /\ ledger[working.att].event = e
        /\ working.ev = e
        /\ UNCHANGED <<working, outcome>>
    BY <1>2
    DEF ReverifyEffect, Recovering, Stepping, ResolveAttempt, Resolvable,
        Active, Loaded
  <2>2. /\ ledger'[working.att].status = "verified_effect"
        /\ ledger'[working.att].event = e
        /\ \A a \in Attempts \ {working.att} : ledger'[a] = ledger[a]
    BY <1>2, <2>1
    DEF ReverifyEffect, ResolveAttempt, TypeOK, StoreTypeOK, AttemptRow
  <2>3. QED
    BY <2>1, <2>2 DEF Remembered, Remembers, Settled
<1>3. CASE ReverifyAbsence(e)
  BY <1>3, RememberedRow
  DEF ReverifyAbsence, ResolveAttempt, Resolvable, OpenStatuses
<1>4. CASE RetryAfterAbsence(e)
  <2>1. Forgetful
    BY <1>4, NothingToForget DEF RetryAfterAbsence, Midway
  <2>2. QED
    BY <1>4, <2>1, RememberedKept DEF RetryAfterAbsence, SaveWorkingState
<1>5. CASE Hold(e)
  <2>1. /\ working.stage = "side_effect_recovery"
        /\ working.decision = "reverify_effect"
        /\ UNCHANGED <<ledger, outcome>>
    BY <1>5 DEF Hold, Recovering, Stepping, SaveWorkingState
  <2>2. /\ working'.ev = working.ev /\ working'.stage = working.stage
        /\ working'.att = working.att
        /\ working'.decision = "user_decision_required"
    BY <1>5
    DEF Hold, Held, SaveWorkingState, TypeOK, StoreTypeOK, Checkpoint
  <2>3. QED
    BY <2>1, <2>2 DEF Remembered, Remembers, Settled
<1>6. CASE ResumeConfirmed(e)
  <2>1. /\ working.stage = "side_effect_recovery"
        /\ working.decision = "effect_happened"
        /\ working.ev = e
        /\ UNCHANGED <<ledger, outcome>>
    BY <1>6
    DEF ResumeConfirmed, Recovering, Stepping, SaveWorkingState, Active, Loaded
  <2>2. Contract[e] = "none" =>
           working'.ev = e /\ working'.stage = "completion"
    BY <1>6, <2>1
    DEF ResumeConfirmed, SaveWorkingState, AfterConfirmation, Known, At,
        TypeOK, StoreTypeOK, Checkpoint
  <2>3. QED
    BY <2>1, <2>2 DEF Remembered, Remembers, Settled
<1>7. QED
  BY <1>1, <1>2, <1>3, <1>4, <1>5, <1>6 DEF Recover

LEMMA OthersRemembered ==
    ASSUME TypeOK, Active, Remembered, NEW e \in Events,
           \/ Enqueue(e) \/ RequestCancel(e) \/ UserCancels(e)
           \/ UserAuthorizesRetry(e) \/ UserConfirmsEffect(e)
           \/ StepRaises(e) \/ PulseRaises(e)
           \/ (\E text \in Texts : Edit(e, text))
    PROVE  Remembered'
<1>1. CASE Enqueue(e) \/ RequestCancel(e) \/ \E text \in Texts : Edit(e, text)
  BY <1>1, RememberedKept
  DEF Enqueue, RequestCancel, Edit, EnqueueEvent, RequestEventCancellation,
      storeVars
<1>2. CASE UserCancels(e)
  BY <1>2, CancelRemembered DEF UserCancels
<1>3. CASE UserAuthorizesRetry(e)
  <2>1. /\ Forgetful
        /\ working.att \in Attempts
        /\ ledger[working.att].status \in OpenStatuses
    BY <1>3, OpenForgetful
    DEF UserAuthorizesRetry, AuthorizeUserRetry, MayResolveUncertain,
        MayCancelUncertain
  <2>2. QED
    BY <1>3, <2>1, RememberedRow
    DEF UserAuthorizesRetry, AuthorizeUserRetry, OpenStatuses
<1>4. CASE UserConfirmsEffect(e)
  <2>1. /\ Forgetful
        /\ working.att \in Attempts
        /\ ledger[working.att].event = e
        /\ working.ev = e
        /\ working.stage = "side_effect_recovery"
        /\ outcome' = outcome
    BY <1>4, OpenForgetful
    DEF UserConfirmsEffect, ConfirmUserEffect, MayResolveUncertain,
        MayCancelUncertain, Uncertain
  <2>2. /\ ledger'[working.att].status = "user_confirmed_effect"
        /\ ledger'[working.att].event = e
        /\ \A a \in Attempts \ {working.att} : ledger'[a] = ledger[a]
    BY <1>4, <2>1
    DEF UserConfirmsEffect, ConfirmUserEffect, TypeOK, StoreTypeOK, AttemptRow
  <2>3. /\ working'.ev = e /\ working'.stage = "side_effect_recovery"
        /\ working'.decision = "effect_happened"
    BY <1>4, <2>1
    DEF UserConfirmsEffect, ConfirmUserEffect, TypeOK, StoreTypeOK, Checkpoint
  <2>4. QED
    BY <2>1, <2>2, <2>3 DEF Remembered, Remembers, Settled, Forgetful
<1>5. CASE StepRaises(e)
  <2>1. working.ev = e
    BY <1>5 DEF StepRaises, Active, Loaded
  <2>2. CASE PreservedOnException(e)
    BY <1>5, <2>2, RememberedKept DEF StepRaises, storeVars
  <2>3. CASE ~PreservedOnException(e)
    <3>1. Forgetful
      BY <2>1, <2>3, NothingToForget DEF PreservedOnException
    <3>2. QED
      BY <1>5, <3>1, RememberedKept DEF StepRaises, SaveWorkingState, storeVars
  <2>4. QED
    BY <2>2, <2>3
<1>6. CASE PulseRaises(e)
  BY <1>6, RememberedKept DEF PulseRaises, storeVars
<1>7. QED
  BY <1>1, <1>2, <1>3, <1>4, <1>5, <1>6

LEMMA RememberedStep ==
    ASSUME TypeOK, Performing, Final, Active, Midway, Remembered, [Next]_vars
    PROVE  Remembered'
<1>1. CASE Crash \/ Restart \/ UNCHANGED vars
  BY <1>1, RememberedKept
  DEF Crash, Restart, RecoverInterruptedEvents, vars, storeVars
<1>2. QED
  BY <1>1, PulseRemembered, ThinkRemembered, MoveRemembered, VerifyRemembered,
     RecoverRemembered, OthersRemembered
  DEF Next, LifeStep, Control, Environment

-----------------------------------------------------------------------------
(* At most one movement of an event forbids another one.                   *)

LEMMA SingleKept ==
    ASSUME Single, ledger' = ledger, dispatched' = dispatched
    PROVE  Single'
BY DEF Single, Forbidding, Permits

(* One row gets another status: a movement never begins to forbid.         *)
LEMMA SingleRow ==
    ASSUME TypeOK, Single, dispatched' = dispatched,
           NEW a \in Attempts, NEW s \in OpenStatuses \cup ClosedStatuses,
           ledger[a].status \in OpenStatuses \cup {s},
           ledger' = [ledger EXCEPT ![a].status = s]
    PROVE  Single'
<1>1. /\ ledger'[a].status = s
      /\ ledger'[a].event = ledger[a].event
      /\ ledger'[a].use = ledger[a].use
      /\ \A b \in Attempts \ {a} : ledger'[b] = ledger[b]
  BY DEF TypeOK, StoreTypeOK, AttemptRow
<1>2. \A e \in Events : Forbidding(e)' \subseteq Forbidding(e)
  <2>1. ASSUME NEW e \in Events, NEW b \in Forbidding(e)'
        PROVE  b \in Forbidding(e)
    <3>1. CASE b = a /\ ledger[a].status \in OpenStatuses
      BY <1>1, <2>1, <3>1 DEF Forbidding, Permits, OpenStatuses
    <3>2. CASE b # a \/ ledger[a].status = s
      BY <1>1, <2>1, <3>2 DEF Forbidding, Permits
    <3>3. QED
      BY <3>1, <3>2
  <2>2. QED
    BY <2>1
<1>3. s # "free"
  BY DEF OpenStatuses, ClosedStatuses
<1>4. \A b \in dispatched : b \in Attempts
  BY DEF TypeOK, OutsideTypeOK
<1>5. QED
  BY <1>1, <1>2, <1>3, <1>4 DEF Single

(* A write-ahead row, of a probe or of a movement nothing forbids.         *)
LEMMA SingleStart ==
    ASSUME TypeOK, Single, dispatched' = dispatched,
           NEW a \in Attempts, NEW e \in Events, NEW use \in Uses,
           ledger[a].status = "free",
           ledger' = [ledger EXCEPT ![a] =
                        [event |-> e, use |-> use, status |-> "started"]],
           use = "move" => Forbidding(e) = {}
    PROVE  Single'
<1>1. /\ ledger'[a] = [event |-> e, use |-> use, status |-> "started"]
      /\ \A b \in Attempts \ {a} : ledger'[b] = ledger[b]
  BY DEF TypeOK, StoreTypeOK
<1>2. \A f \in Events : Forbidding(f)' \subseteq
         IF f = e /\ use = "move" THEN {a} ELSE Forbidding(f)
  <2>1. ASSUME NEW f \in Events, NEW b \in Forbidding(f)'
        PROVE  b \in IF f = e /\ use = "move" THEN {a} ELSE Forbidding(f)
    <3>1. CASE b = a
      BY <1>1, <2>1, <3>1 DEF Forbidding
    <3>2. CASE b # a
      <4>1. b \in Forbidding(f)
        BY <1>1, <2>1, <3>2 DEF Forbidding, Permits
      <4>2. QED
        BY <4>1
    <3>3. QED
      BY <3>1, <3>2
  <2>2. QED
    BY <2>1
<1>3. \A f \in Events : \A b, c \in Forbidding(f)' : b = c
  BY <1>2 DEF Single
<1>4. \A b \in dispatched : b \in Attempts /\ b # a
  BY DEF Single, TypeOK, OutsideTypeOK
<1>5. QED
  BY <1>1, <1>3, <1>4 DEF Single

(* When the guard lets a movement start, nothing forbids it: what is       *)
(* unsettled blocks, and what is settled as an effect is remembered by a   *)
(* checkpoint that is not at native_action.                                *)
LEMMA GuardSuffices ==
    ASSUME TypeOK, Final, Remembered, NEW e \in Events,
           Stepping(e, "native_action"), Blocking(e, "move") = {}
    PROVE  Forbidding(e) = {}
<1>1. outcome[e] = "none" /\ Forgetful
  BY NothingToForget DEF Stepping, Final
<1>2. ASSUME NEW a \in Forbidding(e)
      PROVE  FALSE
  <2>1. /\ a \in Attempts /\ ledger[a].event = e
        /\ ledger[a].status # "free" /\ ~Permits(a)
        /\ ledger[a].use = "move"
    BY <1>2 DEF Forbidding
  <2>2. ledger[a].status \notin OpenStatuses
    BY <2>1 DEF Blocking
  <2>3. ~Settled(a) /\ ledger[a].status # "work_abandoned"
    BY <1>1, <2>1 DEF Forgetful, Remembered
  <2>4. ledger[a].status \in {"free"} \cup OpenStatuses \cup ClosedStatuses
    BY <2>1 DEF TypeOK, StoreTypeOK, AttemptRow
  <2>5. QED
    BY <2>1, <2>2, <2>3, <2>4 DEF ClosedStatuses, Settled, Permits
<1>3. QED
  BY <1>2

LEMMA MoveSingle ==
    ASSUME TypeOK, Performing, Final, Midway, Remembered, Single,
           NEW e \in Events, Move(e)
    PROVE  Single'
<1> USE DEF OutsideUnchanged, worldVars, storeVars
<1>1. CASE RefuseReplay(e) \/ LoseReturn(e) \/ CheckpointMove(e)
  BY <1>1, SingleKept
  DEF RefuseReplay, LoseReturn, CheckpointMove, SaveWorkingState
<1>2. ASSUME NEW a \in Attempts, Arm(e, a)
      PROVE  Single'
  BY <1>2, GuardSuffices, SingleStart DEF Arm, StartAttempt, Uses
<1>3. CASE Dispatch(e)
  <2>1. /\ ledger' = ledger /\ dispatched' = dispatched \cup {cur}
        /\ ledger[cur].use = "move" /\ ledger[cur].status # "free"
    BY <1>3 DEF Dispatch, Midway
  <2>2. QED
    BY <2>1 DEF Single, Forbidding, Permits
<1>4. CASE ObserveReturn(e)
  <2>1. cur \in Attempts
    BY <1>4 DEF ObserveReturn, Performing
  <2>2. QED
    BY <1>4, <2>1, SingleRow
    DEF ObserveReturn, ObserveStartedAttempt, OpenStatuses
<1>5. CASE ProveAbsent(e)
  BY <1>5, SingleRow DEF ProveAbsent, ResolveAttempt, Resolvable, ClosedStatuses
<1>6. QED
  BY <1>1, <1>2, <1>3, <1>4, <1>5 DEF Move

LEMMA VerifySingle ==
    ASSUME TypeOK, Performing, Single, NEW e \in Events, Verify(e)
    PROVE  Single'
<1> USE DEF OutsideUnchanged, worldVars
<1>1. CASE VerifyText(e) \/ RefuseProbe(e) \/ JudgeProbe(e)
  BY <1>1, SingleKept
  DEF VerifyText, RefuseProbe, JudgeProbe, CheckpointVerdict, SaveWorkingState
<1>2. ASSUME NEW a \in Attempts, ArmProbe(e, a)
      PROVE  Single'
  BY <1>2, SingleStart DEF ArmProbe, StartAttempt, Uses
<1>3. CASE RunProbe(e)
  <2>1. cur \in Attempts
    BY <1>3 DEF RunProbe, Performing
  <2>2. QED
    BY <1>3, <2>1, SingleRow DEF RunProbe, ObserveStartedAttempt, OpenStatuses
<1>4. QED
  BY <1>1, <1>2, <1>3 DEF Verify

LEMMA RecoverSingle ==
    ASSUME TypeOK, Single, NEW e \in Events, Recover(e)
    PROVE  Single'
<1> USE DEF OutsideUnchanged, worldVars
<1>1. CASE ReverifyEffect(e) \/ ReverifyAbsence(e)
  BY <1>1, SingleRow
  DEF ReverifyEffect, ReverifyAbsence, ResolveAttempt, Resolvable,
      ClosedStatuses
<1>2. QED
  BY <1>1, SingleKept
  DEF Recover, AwaitDecision, RetryAfterAbsence, Hold, ResumeConfirmed,
      SaveWorkingState, storeVars

LEMMA DecidedSingle ==
    ASSUME TypeOK, Single, dispatched' = dispatched, NEW e \in Events,
           CancelUncertainEvent(e) \/ AuthorizeUserRetry(e) \/ ConfirmUserEffect(e)
    PROVE  Single'
<1>1. working.att \in Attempts /\ ledger[working.att].status \in OpenStatuses
  BY DEF CancelUncertainEvent, AuthorizeUserRetry, ConfirmUserEffect,
         MayResolveUncertain, MayCancelUncertain, OwnsOpenAttempt, Blocking
<1>2. \E s \in ClosedStatuses :
         ledger' = [ledger EXCEPT ![working.att].status = s]
  BY DEF CancelUncertainEvent, AuthorizeUserRetry, ConfirmUserEffect,
         ClosedStatuses
<1>3. QED
  BY <1>1, <1>2, SingleRow

LEMMA SingleStep ==
    ASSUME TypeOK, Performing, Final, Midway, Remembered, Single, [Next]_vars
    PROVE  Single'
<1> USE DEF OutsideUnchanged, worldVars, storeVars
<1>1. ASSUME NEW e \in Events, Pulse(e)
      PROVE  Single'
  <2>1. CASE AbandonUncertain(e)
    BY <2>1, DecidedSingle DEF AbandonUncertain
  <2>2. QED
    BY <1>1, <2>1, SingleKept
    DEF Pulse, Claim, ClaimEvent, StopWork, AbandonRefused, ClearRequest,
        ClearCancellationRequest, LoadState, EndStep, Finish, CompleteEvent,
        FinishRefused, Confirm, SaveWorkingState
<1>2. ASSUME NEW e \in Events, Think(e)
      PROVE  Single'
  BY <1>2, SingleKept
  DEF Think, Orient, Investigate, Deliberate, Consult, ResumeCompletion,
      SaveWorkingState
<1>3. ASSUME NEW e \in Events,
             UserCancels(e) \/ UserAuthorizesRetry(e) \/ UserConfirmsEffect(e)
      PROVE  Single'
  BY <1>3, DecidedSingle
  DEF UserCancels, UserAuthorizesRetry, UserConfirmsEffect
<1>4. ASSUME NEW e \in Events,
             \/ Enqueue(e) \/ RequestCancel(e)
             \/ StepRaises(e) \/ PulseRaises(e)
             \/ (\E text \in Texts : Edit(e, text))
      PROVE  Single'
  BY <1>4, SingleKept
  DEF Enqueue, EnqueueEvent, RequestCancel, RequestEventCancellation,
      StepRaises, PulseRaises, SaveWorkingState, Edit, storeVars
<1>5. CASE Crash \/ Restart \/ UNCHANGED vars
  BY <1>5, SingleKept
  DEF Crash, Restart, RecoverInterruptedEvents, vars
<1>6. QED
  BY <1>1, <1>2, <1>3, <1>4, <1>5, MoveSingle, VerifySingle, RecoverSingle
  DEF Next, LifeStep, Control, Environment

-----------------------------------------------------------------------------
(* Everything that is inductive together.                                  *)

Inductive == TypeOK /\ Performing /\ Final /\ ReplayInv

LEMMA InitInductive == Init => Inductive
<1> SUFFICES ASSUME Init PROVE Inductive
  OBVIOUS
<1>1. TypeOK /\ Performing
  BY InitTypes
<1>2. Final
  BY EventsAssumption DEF Init, StoreInit, Idle, Final
<1>3. Queue /\ Midway
  BY DEF Init, StoreInit, Queue, Midway
<1>4. Active
  BY EventsAssumption DEF Init, StoreInit, Idle, Active, InHand, Loaded
<1>5. \A a \in Attempts : ledger[a].status = "free"
  BY DEF Init, StoreInit
<1>6. Remembered /\ Single
  BY <1>5 DEF Init, Remembered, Settled, Single, Forbidding
<1>7. QED
  BY <1>1, <1>2, <1>3, <1>4, <1>6 DEF Inductive, ReplayInv

LEMMA InductiveStep ==
    ASSUME FirstInFirstOut, ~LostClaims, Inductive, [Next]_vars
    PROVE  Inductive'
BY TypesStep, PerformingStep, FinalStep, QueueStep, ActiveStep, MidwayStep,
   RememberedStep, SingleStep
DEF Inductive, ReplayInv

(* A guarded movement is never sent again while what became of the last    *)
(* one is open or settled as an effect (SideEffectAwareBody.act).          *)
THEOREM NeverReplayed ==
    ASSUME FirstInFirstOut, ~LostClaims
    PROVE  Spec => []NoBlindReplay
<1>1. Inductive => NoBlindReplay
  BY DEF Inductive, ReplayInv, TypeOK, OutsideTypeOK, Single, Forbidding,
         Standing, NoBlindReplay
<1>2. QED
  BY <1>1, InitInductive, InductiveStep, PTL DEF Spec

(* An effect that was observed, or confirmed by the user of an event that  *)
(* verifies nothing, is never armed again (resolve_uncertain_event).       *)
THEOREM SettledStaysSettled ==
    ASSUME FirstInFirstOut, ~LostClaims
    PROVE  Spec => []SettledEffectNotRepeated
<1>1. Inductive => SettledEffectNotRepeated
  <2> SUFFICES ASSUME Inductive, pc = "armed",
                      NEW a \in Attempts, ledger[a].event = hand
               PROVE  ~Settled(a)
    BY DEF SettledEffectNotRepeated, Settled
  <2>1. outcome[hand] = "none" /\ working.stage = "native_action"
    BY DEF Inductive, ReplayInv, Performing, Final, Midway
  <2>2. QED
    BY <2>1, NothingToForget DEF Inductive, ReplayInv, Forgetful
<1>2. QED
  BY <1>1, InitInductive, InductiveStep, PTL DEF Spec

-----------------------------------------------------------------------------
(* The promise of GuardedEffect.                                           *)

Promised == [Effect!Next]_(Effect!vars)

LEMMA PromiseKept ==
    ASSUME UNCHANGED <<ledger, dispatched, outcome>>
    PROVE  Promised
BY DEF Promised, Effect!vars, Moved, Freed, Closed, Permits

(* A row of an event without a verdict gets another status.                *)
LEMMA RowPromise ==
    ASSUME TypeOK, UNCHANGED <<dispatched, outcome>>,
           NEW e \in Events, outcome[e] = "none",
           NEW a \in Attempts, ledger[a].event = e, NEW s,
           ledger[a].status \in OpenStatuses \cup {s},
           ledger' = [ledger EXCEPT ![a].status = s]
    PROVE  Promised
<1>1. /\ ledger'[a].status = s
      /\ ledger'[a].event = ledger[a].event
      /\ \A b \in Attempts \ {a} : ledger'[b] = ledger[b]
  BY DEF TypeOK, StoreTypeOK, AttemptRow
<1>2. dispatched \subseteq Attempts
  BY DEF TypeOK, OutsideTypeOK
<1>3. Moved' = Moved
  BY <1>1, <1>2 DEF Moved
<1>4. Closed' = Closed
  BY DEF Closed
<1>5. \A b \in dispatched \ {a} : Permits(b)' = Permits(b)
  BY <1>1, <1>2 DEF Permits
<1>6. Permits(a) => Permits(a)'
  BY <1>1 DEF Permits, OpenStatuses
<1>7. CASE a \in dispatched /\ Permits(a)' /\ ~Permits(a)
  <2>1. Freed' = Freed \cup {a}
    BY <1>5, <1>7 DEF Freed
  <2>2. e \notin Closed /\ a \in Moved[e] /\ a \notin Freed
    BY <1>7 DEF Closed, Moved, Freed
  <2>3. Effect!Permit(e, a)
    BY <1>3, <1>4, <2>1, <2>2 DEF Effect!Permit
  <2>4. QED
    BY <2>3 DEF Promised, Effect!Next
<1>8. CASE ~(a \in dispatched /\ Permits(a)' /\ ~Permits(a))
  <2>1. Freed' = Freed
    BY <1>5, <1>6, <1>8 DEF Freed
  <2>2. QED
    BY <1>3, <1>4, <2>1 DEF Promised, Effect!vars
<1>9. QED
  BY <1>7, <1>8

(* A write-ahead row is not a movement yet.                                *)
LEMMA StartPromise ==
    ASSUME TypeOK, Single, UNCHANGED <<dispatched, outcome>>,
           NEW a \in Attempts, NEW row,
           ledger[a].status = "free", ledger' = [ledger EXCEPT ![a] = row]
    PROVE  Promised
<1>1. \A b \in dispatched : ledger'[b] = ledger[b]
  BY DEF Single, TypeOK, StoreTypeOK, OutsideTypeOK
<1>2. Moved' = Moved /\ Freed' = Freed /\ Closed' = Closed
  BY <1>1 DEF Moved, Freed, Closed, Permits
<1>3. QED
  BY <1>2 DEF Promised, Effect!vars

(* What leaves the body is allowed to.                                     *)
LEMMA SendPromise ==
    ASSUME Inductive, NEW e \in Events, Dispatch(e)
    PROVE  Promised
<1>1. /\ hand = e /\ cur \in Attempts /\ ledger[cur].event = e
      /\ ledger[cur].status = "started" /\ ledger[cur].use = "move"
      /\ cur \notin dispatched
      /\ outcome[e] = "none"
  BY DEF Dispatch, Inductive, ReplayInv, Performing, Midway, Final
<1>2. /\ UNCHANGED <<ledger, outcome>>
      /\ dispatched' = dispatched \cup {cur}
  BY DEF Dispatch, storeVars
<1>3. ~Permits(cur) /\ cur \in Forbidding(e)
  BY <1>1 DEF Permits, Forbidding
<1>4. Moved[e] \subseteq Freed
  <2>1. ASSUME NEW a \in Moved[e], a \notin Freed
        PROVE  FALSE
    <3>1. a \in dispatched /\ ledger[a].event = e /\ ~Permits(a)
      BY <2>1 DEF Moved, Freed
    <3>2. a \in Forbidding(e)
      BY <3>1
      DEF Inductive, ReplayInv, Single, TypeOK, OutsideTypeOK, Forbidding
    <3>3. QED
      BY <1>1, <1>3, <3>1, <3>2 DEF Inductive, ReplayInv, Single
  <2>2. QED
    BY <2>1
<1>5. Moved' = [Moved EXCEPT ![e] = @ \cup {cur}]
  BY <1>1, <1>2 DEF Moved
<1>6. Freed' = Freed /\ Closed' = Closed
  BY <1>2, <1>3 DEF Freed, Closed, Permits
<1>7. e \notin Closed /\ \A f \in Events : cur \notin Moved[f]
  BY <1>1 DEF Closed, Moved
<1>8. Effect!Send(e, cur)
  BY <1>4, <1>5, <1>6, <1>7 DEF Effect!Send
<1>9. QED
  BY <1>1, <1>8 DEF Promised, Effect!Next

LEMMA ClosePromise ==
    ASSUME TypeOK, dispatched' = dispatched, NEW e \in Events,
           outcome[e] = "none", outcome'[e] # "none",
           \A f \in Events \ {e} : outcome'[f] = outcome[f],
           \A a \in Attempts :
              /\ ledger'[a].event = ledger[a].event
              /\ Permits(a)' = Permits(a)
    PROVE  Promised
<1>1. dispatched \subseteq Attempts
  BY DEF TypeOK, OutsideTypeOK
<1>2. Moved' = Moved /\ Freed' = Freed
  BY <1>1 DEF Moved, Freed
<1>3. Closed' = Closed \cup {e} /\ e \notin Closed
  BY DEF Closed
<1>4. Effect!Close(e)
  BY <1>2, <1>3 DEF Effect!Close
<1>5. QED
  BY <1>4 DEF Promised, Effect!Next

LEMMA CancelPromise ==
    ASSUME TypeOK, dispatched' = dispatched, NEW e \in Events,
           CancelUncertainEvent(e)
    PROVE  Promised
<1>1. /\ outcome[e] = "none"
      /\ working.att \in Attempts
      /\ ledger[working.att].status \in OpenStatuses
  BY DEF CancelUncertainEvent, MayCancelUncertain, OwnsOpenAttempt, Blocking
<1>2. /\ ledger'[working.att].status = "work_abandoned"
      /\ \A a \in Attempts : ledger'[a].event = ledger[a].event
      /\ \A a \in Attempts \ {working.att} : ledger'[a] = ledger[a]
      /\ outcome'[e] = "cancelled"
      /\ \A f \in Events \ {e} : outcome'[f] = outcome[f]
  BY <1>1 DEF CancelUncertainEvent, TypeOK, StoreTypeOK, AttemptRow
<1>3. \A a \in Attempts : Permits(a)' = Permits(a)
  BY <1>1, <1>2 DEF Permits, OpenStatuses
<1>4. QED
  BY <1>1, <1>2, <1>3, ClosePromise

LEMMA PulsePromise ==
    ASSUME Inductive, NEW e \in Events, Pulse(e)
    PROVE  Promised
<1> USE DEF OutsideUnchanged, worldVars, storeVars
<1>1. CASE AbandonUncertain(e)
  BY <1>1, CancelPromise DEF AbandonUncertain, Inductive
<1>2. CASE Finish(e)
  <2>1. /\ outcome[e] = "none" /\ outcome'[e] # "none"
        /\ \A f \in Events \ {e} : outcome'[f] = outcome[f]
        /\ UNCHANGED <<ledger, dispatched>>
    BY <1>2
    DEF Finish, CompleteEvent, MayComplete, PublishedVerdict, Inductive,
        ReplayInv, Midway, TypeOK, StoreTypeOK
  <2>2. QED
    BY <2>1, ClosePromise DEF Inductive, Permits
<1>3. QED
  BY <1>1, <1>2, PromiseKept
  DEF Pulse, Claim, ClaimEvent, StopWork, AbandonRefused, ClearRequest,
      ClearCancellationRequest, LoadState, EndStep, FinishRefused, Confirm,
      SaveWorkingState

LEMMA MovePromise ==
    ASSUME Inductive, NEW e \in Events, Move(e)
    PROVE  Promised
<1> USE DEF OutsideUnchanged, worldVars, storeVars
<1>1. hand = e /\ outcome[e] = "none"
  BY DEF Inductive, Final, Move, RefuseReplay, Arm, Dispatch, ObserveReturn,
         LoseReturn, ProveAbsent, CheckpointMove, Stepping
<1>2. ASSUME NEW a \in Attempts, Arm(e, a)
      PROVE  Promised
  BY <1>2, StartPromise DEF Arm, StartAttempt, Inductive, ReplayInv
<1>3. CASE ObserveReturn(e) \/ ProveAbsent(e)
  <2>1. /\ cur \in Attempts /\ ledger[cur].event = e
        /\ UNCHANGED <<outcome, dispatched>>
    BY <1>1, <1>3
    DEF ObserveReturn, ProveAbsent, Inductive, Performing,
        ObserveStartedAttempt, ResolveAttempt
  <2>2. \E s : /\ ledger[cur].status \in OpenStatuses \cup {s}
               /\ ledger' = [ledger EXCEPT ![cur].status = s]
    BY <1>3
    DEF ObserveReturn, ProveAbsent, ObserveStartedAttempt, ResolveAttempt,
        Resolvable, OpenStatuses
  <2>3. QED
    BY <1>1, <2>1, <2>2, RowPromise DEF Inductive
<1>4. QED
  BY <1>2, <1>3, SendPromise, PromiseKept
  DEF Move, RefuseReplay, LoseReturn, CheckpointMove, SaveWorkingState

LEMMA VerifyPromise ==
    ASSUME Inductive, NEW e \in Events, Verify(e)
    PROVE  Promised
<1> USE DEF OutsideUnchanged, worldVars, storeVars
<1>1. ASSUME NEW a \in Attempts, ArmProbe(e, a)
      PROVE  Promised
  BY <1>1, StartPromise DEF ArmProbe, StartAttempt, Inductive, ReplayInv
<1>2. CASE RunProbe(e)
  <2>1. /\ cur \in Attempts /\ ledger[cur].event = e
        /\ outcome[e] = "none"
        /\ UNCHANGED <<outcome, dispatched>>
        /\ ledger[cur].status \in OpenStatuses
        /\ ledger' = [ledger EXCEPT ![cur].status = "observed"]
    BY <1>2
    DEF RunProbe, Inductive, Performing, Final, ObserveStartedAttempt,
        OpenStatuses
  <2>2. QED
    BY <2>1, RowPromise DEF Inductive
<1>3. QED
  BY <1>1, <1>2, PromiseKept
  DEF Verify, VerifyText, RefuseProbe, JudgeProbe, CheckpointVerdict,
      SaveWorkingState

LEMMA RecoverPromise ==
    ASSUME Inductive, NEW e \in Events, Recover(e)
    PROVE  Promised
<1> USE DEF OutsideUnchanged, worldVars, storeVars
<1>1. CASE ReverifyEffect(e) \/ ReverifyAbsence(e)
  <2>1. /\ outcome[e] = "none"
        /\ working.att \in Attempts /\ ledger[working.att].event = e
        /\ UNCHANGED <<outcome, dispatched>>
        /\ \E s : /\ ledger[working.att].status \in OpenStatuses \cup {s}
                  /\ ledger' = [ledger EXCEPT ![working.att].status = s]
    BY <1>1
    DEF ReverifyEffect, ReverifyAbsence, Recovering, Stepping, Inductive,
        Final, ResolveAttempt, Resolvable
  <2>2. QED
    BY <2>1, RowPromise DEF Inductive
<1>2. QED
  BY <1>1, PromiseKept
  DEF Recover, AwaitDecision, RetryAfterAbsence, Hold, ResumeConfirmed,
      SaveWorkingState

LEMMA OthersPromise ==
    ASSUME Inductive, NEW e \in Events,
           \/ Enqueue(e) \/ RequestCancel(e) \/ UserCancels(e)
           \/ UserAuthorizesRetry(e) \/ UserConfirmsEffect(e)
           \/ StepRaises(e) \/ PulseRaises(e)
           \/ (\E text \in Texts : Edit(e, text))
    PROVE  Promised
<1> USE DEF OutsideUnchanged, worldVars, storeVars
<1>1. CASE UserCancels(e)
  BY <1>1, CancelPromise DEF UserCancels, Inductive
<1>2. CASE UserAuthorizesRetry(e) \/ UserConfirmsEffect(e)
  <2>1. /\ outcome[e] = "none"
        /\ working.att \in Attempts /\ ledger[working.att].event = e
        /\ ledger[working.att].status \in OpenStatuses
        /\ UNCHANGED <<outcome, dispatched>>
        /\ \E s : ledger' = [ledger EXCEPT ![working.att].status = s]
    BY <1>2
    DEF UserAuthorizesRetry, UserConfirmsEffect, AuthorizeUserRetry,
        ConfirmUserEffect, MayResolveUncertain, MayCancelUncertain,
        OwnsOpenAttempt, Blocking
  <2>2. QED
    BY <2>1, RowPromise DEF Inductive
<1>3. CASE \/ Enqueue(e) \/ RequestCancel(e)
           \/ StepRaises(e) \/ PulseRaises(e)
           \/ (\E text \in Texts : Edit(e, text))
  BY <1>3, PromiseKept
  DEF Enqueue, EnqueueEvent, RequestCancel, RequestEventCancellation,
      StepRaises, PulseRaises, SaveWorkingState, Edit, storeVars
<1>4. QED
  BY <1>1, <1>2, <1>3

LEMMA PromiseStep ==
    ASSUME Inductive, [Next]_vars
    PROVE  Promised
<1> USE DEF OutsideUnchanged, worldVars, storeVars
<1>1. ASSUME NEW e \in Events, Think(e)
      PROVE  Promised
  BY <1>1, PromiseKept
  DEF Think, Orient, Investigate, Deliberate, Consult, ResumeCompletion,
      SaveWorkingState
<1>2. CASE Crash \/ Restart \/ UNCHANGED vars
  BY <1>2, PromiseKept DEF Crash, Restart, RecoverInterruptedEvents, vars
<1>3. QED
  BY <1>1, <1>2, PulsePromise, MovePromise, VerifyPromise, RecoverPromise,
     OthersPromise
  DEF Next, LifeStep, Control, Environment

(* The resident keeps the promise of GuardedEffect: checkpoints, ledger    *)
(* and restarts together send a movement only when every earlier one of    *)
(* its event was given free, and never after the verdict.                  *)
THEOREM PromiseIsKept ==
    ASSUME FirstInFirstOut, ~LostClaims
    PROVE  Spec => KeepsPromise
<1>1. Init => Effect!Init
  BY DEF Init, StoreInit, Effect!Init, Moved, Freed, Closed
<1>2. Inductive /\ [Next]_vars => [Effect!Next]_(Effect!vars)
  BY PromiseStep DEF Promised
<1>3. QED
  BY <1>1, <1>2, InitInductive, InductiveStep, PTL
  DEF Spec, KeepsPromise, Effect!Spec

(* Between pulses a processing event is the event of the checkpoint, which *)
(* is what peek_next_event needs to hand it out again (claim_event).       *)
THEOREM ClaimedIsResumable ==
    ASSUME FirstInFirstOut, ~LostClaims
    PROVE  Spec => []ClaimedWorkIsResumable
<1>1. Inductive => ClaimedWorkIsResumable
  BY EventsAssumption
  DEF Inductive, ReplayInv, Active, Final, ClaimedWorkIsResumable
<1>2. QED
  BY <1>1, InitInductive, InductiveStep, PTL DEF Spec
=============================================================================
