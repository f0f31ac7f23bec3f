---------------------------- MODULE ResidentLife ----------------------------
(***************************************************************************)
(* The life of one resident: live_once forms a thought, claims an event,   *)
(* advances it by exactly one step and publishes its verdict, while other  *)
(* threads enqueue work and ask for stops, the process dies and restarts   *)
(* between any two transactions, and the outside world answers, or not.    *)
(*                                                                         *)
(* pc says where the life thread stands.  Everything but the store and     *)
(* the world is lost in a crash.  live_once holds _cycle_lock from one     *)
(* "idle" to the next, so an operation that takes that lock runs at        *)
(* "idle", and one that does not may run between any two steps.            *)
(***************************************************************************)
EXTENDS EventStore, FiniteSets

CONSTANTS
    MaxCrashes,      \* bound on the restarts of a behaviour
    Faults,          \* a step may raise (a locked database, a failed probe)
    LostClaims,      \* so may a pulse between its claim and its first step
    Interference     \* someone else edits the files an event is about

ASSUME MaxCrashesAssumption == MaxCrashes \in Nat
ASSUME FaultsAssumption == Faults \in BOOLEAN
ASSUME LostClaimsAssumption == LostClaims \in BOOLEAN
ASSUME InterferenceAssumption == Interference \in BOOLEAN

VARIABLES
    pc,          \* where the life thread stands
    hand,        \* the event it claimed
    cur,         \* the attempt it is performing
    ret,         \* what the body returned
    result,      \* the verdict a step arrived at
    crashes,     \* how often the process died
    world,       \* by event: the text its action is about
    dispatched,  \* history: attempts that reached the body
    applied,     \* history: attempts that changed the world
    edited       \* history: events whose text someone else changed

threadVars == <<pc, hand, cur, ret, result>>
worldVars == <<world, dispatched, applied, edited>>
vars == <<storeVars, threadVars, crashes, worldVars>>

PCs == {"idle", "claimed", "loaded", "armed", "sent", "observed", "absent",
        "probing", "probed", "stepped", "finish", "clear", "confirming",
        "down"}

Returns == {"none", "ok", "fail", "absent", "raised", "uncertain"}

Texts == {"before", "after", "other"}

ThreadTypeOK ==
    /\ pc \in PCs
    /\ hand \in Events \cup {NoEvent}
    /\ cur \in Attempts \cup {NoAttempt}
    /\ ret \in Returns
    /\ result \in Verdicts \cup {"none"}

OutsideTypeOK ==
    /\ crashes \in Nat
    /\ world \in [Events -> Texts]
    /\ dispatched \subseteq Attempts
    /\ applied \subseteq Attempts
    /\ edited \subseteq Events

TypeOK == StoreTypeOK /\ ThreadTypeOK /\ OutsideTypeOK

Init ==
    /\ StoreInit
    /\ pc = "idle"
    /\ hand = NoEvent
    /\ cur = NoAttempt
    /\ ret = "none"
    /\ result = "none"
    /\ crashes = 0
    /\ world = [e \in Events |-> "before"]
    /\ dispatched = {}
    /\ applied = {}
    /\ edited = {}

(***************************************************************************)
(* Moving the life thread.                                                 *)
(***************************************************************************)
Goto(where) ==
    /\ pc' = where
    /\ UNCHANGED <<hand, cur, ret, result>>

ToIdle ==
    /\ pc' = "idle"
    /\ hand' = NoEvent
    /\ cur' = NoAttempt
    /\ ret' = "none"
    /\ result' = "none"

(* A step returned: verdict is "none" when it has no result yet.           *)
Stepped(verdict) ==
    /\ pc' = "stepped"
    /\ result' = verdict
    /\ cur' = NoAttempt
    /\ ret' = "none"
    /\ UNCHANGED hand

OutsideUnchanged == UNCHANGED <<crashes, worldVars>>

(* _advance_event_step is about to run e's current stage: the stop request *)
(* was just read and was not there.                                        *)
Stepping(e, stage) ==
    /\ pc = "loaded"
    /\ hand = e
    /\ e \notin cancelReq
    /\ working.stage = stage

(***************************************************************************)
(* Checkpoints a step may save.                                            *)
(***************************************************************************)
At(stage) == [working EXCEPT !.stage = stage,
                             !.decision = "none",
                             !.att = NoAttempt]

FreshFor(e) == [Idle EXCEPT !.ev = e, !.stage = "orient"]

FailedMove == [At("native_investigation") EXCEPT !.blocked = TRUE]

Known(verdict) == [At("completion") EXCEPT !.done = verdict]

(* Mutant of RecoveryOf: the attempt id is lost on the way.                *)
RecoveryOfNothing(e, a) ==
    [working EXCEPT
        !.stage = "side_effect_recovery",
        !.decision = IF Contract[e] \in {"append", "derived"}
                     THEN "reverify_effect" ELSE "user_decision_required",
        !.att = NoAttempt]

RecoveryOf(e, a) ==
    [working EXCEPT
        !.stage = "side_effect_recovery",
        !.decision = IF Contract[e] \in {"append", "derived"}
                     THEN "reverify_effect" ELSE "user_decision_required",
        !.att = a]

Held == [working EXCEPT !.decision = "user_decision_required"]

TerminalFailure(e) ==
    [At("terminal_failure") EXCEPT !.ev = e, !.done = "failure"]

-----------------------------------------------------------------------------
(* Other threads: neither waits for _cycle_lock.                           *)

Enqueue(e) ==
    /\ pc # "down"
    /\ EnqueueEvent(e)
    /\ UNCHANGED threadVars /\ OutsideUnchanged

RequestCancel(e) ==
    /\ pc # "down"
    /\ e \notin cancelReq
    /\ RequestEventCancellation(e)
    /\ UNCHANGED threadVars /\ OutsideUnchanged

-----------------------------------------------------------------------------
(* One pulse: claim, honour a stop request, load the checkpoint.           *)

Claim(e) ==
    /\ pc = "idle"
    /\ IsNext(e)
    /\ outcome[e] = "none"
    /\ ClaimEvent(e)
    /\ pc' = "claimed" /\ hand' = e
    /\ UNCHANGED <<cur, ret, result>> /\ OutsideUnchanged

(* _requested_cancellation_result, read after the claim, before the step   *)
(* and after it.                                                           *)
Cancelling(e) ==
    /\ pc \in {"claimed", "loaded", "stepped"}
    /\ hand = e
    /\ e \in cancelReq

StopWork(e) ==
    /\ Cancelling(e)
    /\ ~Uncertain(e)
    /\ pc' = "finish" /\ result' = "cancelled"
    /\ UNCHANGED <<hand, cur, ret, storeVars>> /\ OutsideUnchanged

AbandonUncertain(e) ==
    /\ Cancelling(e)
    /\ CancelUncertainEvent(e)
    /\ Goto("clear") /\ OutsideUnchanged

(* The recovery checkpoint no longer owns an attempt that could be         *)
(* abandoned: the transaction raises and the checkpoint is preserved.      *)
AbandonRefused(e) ==
    /\ Cancelling(e)
    /\ Uncertain(e)
    /\ ~MayCancelUncertain(e)
    /\ ToIdle
    /\ UNCHANGED storeVars /\ OutsideUnchanged

ClearRequest(e) ==
    /\ pc = "clear" /\ hand = e
    /\ ClearCancellationRequest(e)
    /\ ToIdle /\ OutsideUnchanged

(* Mutant of LoadState: a recovery checkpoint counts as a finished one.    *)
LoadForgettingRecovery(e) ==
    /\ pc = "claimed" /\ hand = e
    /\ e \notin cancelReq
    /\ SaveWorkingState(
          IF /\ working.ev = e
             /\ working.stage \notin {"idle", "side_effect_recovery"}
          THEN working ELSE FreshFor(e))
    /\ Goto("loaded") /\ OutsideUnchanged

(* _state_for_event: this event's checkpoint, or a fresh one written over  *)
(* whatever the singleton row held.                                        *)
LoadState(e) ==
    /\ pc = "claimed" /\ hand = e
    /\ e \notin cancelReq
    /\ SaveWorkingState(IF working.ev = e /\ working.stage # "idle"
                        THEN working ELSE FreshFor(e))
    /\ Goto("loaded") /\ OutsideUnchanged

-----------------------------------------------------------------------------
(* Steps that only think.                                                  *)

Orient(e) ==
    /\ Stepping(e, "orient")
    /\ \/ /\ SaveWorkingState(At("native_investigation"))
          /\ Stepped("none")
       \/ /\ SaveWorkingState(Known("answer"))
          /\ Stepped("answer")
    /\ OutsideUnchanged

(* A probe may revise the evidence a recorded failure was bound to.        *)
Investigate(e) ==
    /\ Stepping(e, "native_investigation")
    /\ \/ /\ \E stage \in {"native_investigation", "native_deliberation"},
                stillBlocked \in {working.blocked, FALSE} :
                SaveWorkingState([At(stage) EXCEPT !.blocked = stillBlocked])
          /\ Stepped("none")
       \/ /\ SaveWorkingState(Known("answer"))
          /\ Stepped("answer")
    /\ OutsideUnchanged

Deliberate(e) ==
    /\ Stepping(e, "native_deliberation")
    /\ \/ /\ ~working.blocked
          /\ SaveWorkingState(At("native_action"))
          /\ Stepped("none")
       \/ /\ working.blocked
          /\ SaveWorkingState(At("external_cognition"))
          /\ Stepped("none")
       \/ /\ working.blocked
          /\ SaveWorkingState(TerminalFailure(e))
          /\ Stepped("failure")
    /\ OutsideUnchanged

Consult(e) ==
    /\ Stepping(e, "external_cognition")
    /\ \E verdict \in {"answer", "failure"} :
          /\ SaveWorkingState(Known(verdict))
          /\ Stepped(verdict)
    /\ OutsideUnchanged

ResumeCompletion(e) ==
    /\ \E stage \in {"completion", "terminal_failure"} : Stepping(e, stage)
    /\ Stepped(working.done)
    /\ UNCHANGED storeVars /\ OutsideUnchanged

-----------------------------------------------------------------------------
(* The guarded movement: SideEffectAwareBody.act.                          *)

(* A prior attempt is unsettled: refuse the replay, start recovery.        *)
RefuseReplay(e) ==
    /\ Stepping(e, "native_action")
    /\ \E a \in Blocking(e, "move") : SaveWorkingState(RecoveryOf(e, a))
    /\ Stepped("none") /\ OutsideUnchanged

(* Mutant of Arm: no look at the ledger first.                             *)
ArmBlindly(e, a) ==
    /\ Stepping(e, "native_action")
    /\ StartAttempt(a, e, "move")
    /\ pc' = "armed" /\ cur' = a
    /\ UNCHANGED <<hand, ret, result>> /\ OutsideUnchanged

Arm(e, a) ==
    /\ Stepping(e, "native_action")
    /\ Blocking(e, "move") = {}
    /\ StartAttempt(a, e, "move")
    /\ pc' = "armed" /\ cur' = a
    /\ UNCHANGED <<hand, ret, result>> /\ OutsideUnchanged

TextAfterMove(e) == IF world[e] = "before" THEN "after" ELSE "other"

(* The movement reaches the body.  It returns, raises, or proves that      *)
(* nothing was sent; only the last says anything certain about the world.  *)
Dispatch(e) ==
    /\ pc = "armed" /\ hand = e
    /\ dispatched' = dispatched \cup {cur}
    /\ \/ /\ ret' \in {"ok", "fail", "raised", "absent"}
          /\ UNCHANGED <<applied, world>>
       \/ /\ ret' \in {"ok", "fail", "raised"}
          /\ applied' = applied \cup {cur}
          /\ world' = [world EXCEPT ![e] = TextAfterMove(e)]
       \/ /\ ret' \in {"fail", "raised"}
          /\ applied' = applied \cup {cur}
          /\ world' = [world EXCEPT ![e] = "other"]
    /\ pc' = "sent"
    /\ UNCHANGED <<hand, cur, result, crashes, edited, storeVars>>

ObserveReturn(e) ==
    /\ pc = "sent" /\ hand = e
    /\ ret # "raised"
    /\ ObserveStartedAttempt(cur)
    /\ Goto("observed") /\ OutsideUnchanged

(* No durable result: dispatch raised, or its record could not be closed.  *)
LoseReturn(e) ==
    /\ pc = "sent" /\ hand = e
    /\ ret = "raised" \/ Faults
    /\ pc' = "observed" /\ ret' = "uncertain"
    /\ UNCHANGED <<hand, cur, result, storeVars>> /\ OutsideUnchanged

ProveAbsent(e) ==
    /\ pc = "observed" /\ hand = e
    /\ ret = "absent"
    /\ ResolveAttempt(cur, e, "verified_absent")
    /\ ret' = "fail"
    /\ UNCHANGED <<pc, hand, cur, result>> /\ OutsideUnchanged

(* _native_action_step saves what the return means for the event.          *)
CheckpointMove(e) ==
    /\ pc = "observed" /\ hand = e
    /\ \/ /\ ret = "uncertain"
          /\ SaveWorkingState(RecoveryOf(e, cur))
          /\ Stepped("none")
       \/ /\ ret = "ok" /\ Contract[e] # "none"
          /\ SaveWorkingState(At("native_verification"))
          /\ Stepped("none")
       \/ /\ ret = "ok" /\ Contract[e] = "none"
          /\ SaveWorkingState(Known("body"))
          /\ Stepped("body")
       \/ /\ ret = "fail"
          /\ SaveWorkingState(FailedMove)
          /\ Stepped("none")
    /\ OutsideUnchanged

-----------------------------------------------------------------------------
(* Independent verification of the postcondition.                          *)

CheckpointVerdict(verified) ==
    \/ /\ verified
       /\ SaveWorkingState(Known("body"))
       /\ Stepped("body")
    \/ /\ ~verified
       /\ SaveWorkingState(FailedMove)
       /\ Stepped("none")

(* A text postcondition is read back; an unreadable file verifies nothing. *)
VerifyText(e) ==
    /\ Stepping(e, "native_verification")
    /\ Contract[e] # "probe"
    /\ \/ CheckpointVerdict(world[e] = "after")
       \/ Faults /\ CheckpointVerdict(FALSE)
    /\ OutsideUnchanged

(* Mutant of RefuseProbe: an earlier run of the probe counts as a pass.    *)
TrustEarlierProbe(e) ==
    /\ Stepping(e, "native_verification")
    /\ Contract[e] = "probe"
    /\ Blocking(e, "probe") # {}
    /\ CheckpointVerdict(TRUE)
    /\ OutsideUnchanged

(* A postcondition command goes through the same guard as a movement.      *)
RefuseProbe(e) ==
    /\ Stepping(e, "native_verification")
    /\ Contract[e] = "probe"
    /\ Blocking(e, "probe") # {}
    /\ CheckpointVerdict(FALSE)
    /\ OutsideUnchanged

ArmProbe(e, a) ==
    /\ Stepping(e, "native_verification")
    /\ Contract[e] = "probe"
    /\ Blocking(e, "probe") = {}
    /\ StartAttempt(a, e, "probe")
    /\ pc' = "probing" /\ cur' = a
    /\ UNCHANGED <<hand, ret, result>> /\ OutsideUnchanged

RunProbe(e) ==
    /\ pc = "probing" /\ hand = e
    /\ ObserveStartedAttempt(cur)
    /\ pc' = "probed"
    /\ ret' = IF world[e] = "after" THEN "ok" ELSE "fail"
    /\ UNCHANGED <<hand, cur, result>> /\ OutsideUnchanged

JudgeProbe(e) ==
    /\ pc = "probed" /\ hand = e
    /\ CheckpointVerdict(ret = "ok")
    /\ OutsideUnchanged

-----------------------------------------------------------------------------
(* Recovery of an uncertain movement, one read-only step per pulse.        *)

Recovering(e, decision) ==
    /\ Stepping(e, "side_effect_recovery")
    /\ working.decision = decision

(* Nothing but a user decision can move it on.                             *)
AwaitDecision(e) ==
    /\ Recovering(e, "user_decision_required")
    /\ Stepped("none")
    /\ UNCHANGED storeVars /\ OutsideUnchanged

(* The exact postcondition is there: complete without a replay.  The       *)
(* checkpoint on disk stays the recovery checkpoint until complete_event.  *)
ReverifyEffect(e) ==
    /\ Recovering(e, "reverify_effect")
    /\ world[e] = "after"
    /\ ResolveAttempt(working.att, e, "verified_effect")
    /\ Stepped("body") /\ OutsideUnchanged

(* Mutant of ReverifyAbsence: any other text is taken for absence.         *)
AssumeAbsence(e) ==
    /\ Recovering(e, "reverify_effect")
    /\ world[e] # "after"
    /\ ResolveAttempt(working.att, e, "verified_absent")
    /\ Goto("absent") /\ OutsideUnchanged

(* The exact text from before the append is there.                         *)
ReverifyAbsence(e) ==
    /\ Recovering(e, "reverify_effect")
    /\ Contract[e] = "derived"
    /\ world[e] = "before"
    /\ ResolveAttempt(working.att, e, "verified_absent")
    /\ Goto("absent") /\ OutsideUnchanged

RetryAfterAbsence(e) ==
    /\ pc = "absent" /\ hand = e
    /\ SaveWorkingState(At("native_action"))
    /\ Stepped("none") /\ OutsideUnchanged

(* Mutant of Hold: fails open, back to the action.                         *)
RetryInsteadOfHold(e) ==
    /\ Recovering(e, "reverify_effect")
    /\ world[e] # "after"
    /\ SaveWorkingState(At("native_action"))
    /\ Stepped("none") /\ OutsideUnchanged

(* Unreadable, neither text, or an attempt already settled otherwise.      *)
Hold(e) ==
    /\ Recovering(e, "reverify_effect")
    /\ \/ Faults
       \/ /\ ~(/\ world[e] = "after"
             /\ Resolvable(working.att, e, "verified_effect"))
          /\ ~(/\ Contract[e] = "derived"
               /\ world[e] = "before"
               /\ Resolvable(working.att, e, "verified_absent"))
    /\ SaveWorkingState(Held)
    /\ Stepped("none") /\ OutsideUnchanged

(* _resume_user_confirmed_side_effect: verify if there is something to     *)
(* verify, complete otherwise; never move again.                           *)
AfterConfirmation(e) ==
    IF Contract[e] = "none" THEN Known("body") ELSE At("native_verification")

ResumeConfirmed(e) ==
    /\ Recovering(e, "effect_happened")
    /\ SaveWorkingState(AfterConfirmation(e))
    /\ Stepped(IF Contract[e] = "none" THEN "body" ELSE "none")
    /\ OutsideUnchanged

-----------------------------------------------------------------------------
(* The end of a pulse.                                                     *)

(* A checkpoint that carries truth survives an exception of its step.      *)
PreservedOnException(e) ==
    /\ working.ev = e
    /\ working.stage \in {"side_effect_recovery", "completion",
                          "terminal_failure"}

(* The except clause of run_once.  (A publication of its own that raises   *)
(* leaves what a raise just before it leaves.)                             *)
StepRaises(e) ==
    /\ Faults
    /\ hand = e
    /\ pc \in {"loaded", "observed", "absent", "probed", "stepped"}
    /\ \/ /\ PreservedOnException(e)
          /\ ToIdle
          /\ UNCHANGED storeVars
       \/ /\ ~PreservedOnException(e)
          /\ SaveWorkingState(TerminalFailure(e))
          /\ pc' = "finish" /\ result' = "failure"
          /\ cur' = NoAttempt /\ ret' = "none"
          /\ UNCHANGED hand
    /\ OutsideUnchanged

(* Nothing catches what is raised after the claim and before the first     *)
(* step: the pulse ends, the event stays processing, and the checkpoint    *)
(* need not be its own.  A stop request that cannot be cleared stays.      *)
PulseRaises(e) ==
    /\ hand = e
    /\ \/ LostClaims /\ pc = "claimed"
       \/ Faults /\ pc = "clear"
    /\ ToIdle
    /\ UNCHANGED storeVars /\ OutsideUnchanged

(* No stop request after the step: publish its result, or leave the event  *)
(* processing until the next pulse.                                        *)
EndStep(e) ==
    /\ pc = "stepped" /\ hand = e
    /\ e \notin cancelReq
    /\ \/ result = "none" /\ ToIdle
       \/ result # "none" /\ Goto("finish")
    /\ UNCHANGED storeVars /\ OutsideUnchanged

Finish(e) ==
    /\ pc = "finish" /\ hand = e
    /\ CompleteEvent(e, result)
    /\ ToIdle /\ OutsideUnchanged

(* complete_event raised: nothing was written, the pulse ends.             *)
FinishRefused(e) ==
    /\ pc = "finish" /\ hand = e
    /\ ~MayComplete(e, result)
    /\ ToIdle
    /\ UNCHANGED storeVars /\ OutsideUnchanged

-----------------------------------------------------------------------------
(* The user's control operations; both take _cycle_lock.                   *)

UserCancels(e) ==
    /\ pc = "idle"
    /\ CancelUncertainEvent(e)
    /\ UNCHANGED threadVars /\ OutsideUnchanged

UserAuthorizesRetry(e) ==
    /\ pc = "idle"
    /\ AuthorizeUserRetry(e)
    /\ UNCHANGED threadVars /\ OutsideUnchanged

UserConfirmsEffect(e) ==
    /\ pc = "idle"
    /\ ConfirmUserEffect(e)
    /\ pc' = "confirming" /\ hand' = e
    /\ UNCHANGED <<cur, ret, result>> /\ OutsideUnchanged

Confirm(e) ==
    /\ pc = "confirming" /\ hand = e
    /\ \/ SaveWorkingState(AfterConfirmation(e))
       \/ Faults /\ UNCHANGED storeVars
    /\ ToIdle /\ OutsideUnchanged

-----------------------------------------------------------------------------
(* The world and the process.                                              *)

Edit(e, text) ==
    /\ Interference
    /\ world[e] # text
    /\ world' = [world EXCEPT ![e] = text]
    /\ edited' = edited \cup {e}
    /\ UNCHANGED <<storeVars, threadVars, crashes, dispatched, applied>>

Crash ==
    /\ pc # "down"
    /\ crashes < MaxCrashes
    /\ crashes' = crashes + 1
    /\ pc' = "down" /\ hand' = NoEvent /\ cur' = NoAttempt
    /\ ret' = "none" /\ result' = "none"
    /\ UNCHANGED <<storeVars, worldVars>>

Restart ==
    /\ pc = "down"
    /\ RecoverInterruptedEvents
    /\ ToIdle /\ OutsideUnchanged

-----------------------------------------------------------------------------
Pulse(e) ==
    \/ Claim(e) \/ StopWork(e) \/ AbandonUncertain(e) \/ AbandonRefused(e)
    \/ ClearRequest(e) \/ LoadState(e)
    \/ EndStep(e) \/ Finish(e) \/ FinishRefused(e) \/ Confirm(e)

Think(e) ==
    \/ Orient(e) \/ Investigate(e) \/ Deliberate(e) \/ Consult(e)
    \/ ResumeCompletion(e)

Move(e) ==
    \/ RefuseReplay(e) \/ (\E a \in Attempts : Arm(e, a)) \/ Dispatch(e)
    \/ ObserveReturn(e) \/ LoseReturn(e) \/ ProveAbsent(e)
    \/ CheckpointMove(e)

Verify(e) ==
    \/ VerifyText(e) \/ RefuseProbe(e) \/ (\E a \in Attempts : ArmProbe(e, a))
    \/ RunProbe(e) \/ JudgeProbe(e)

Recover(e) ==
    \/ AwaitDecision(e) \/ ReverifyEffect(e) \/ ReverifyAbsence(e)
    \/ RetryAfterAbsence(e) \/ Hold(e) \/ ResumeConfirmed(e)

(* What the life thread does by itself.                                    *)
LifeStep ==
    \E e \in Events : Pulse(e) \/ Think(e) \/ Move(e) \/ Verify(e) \/ Recover(e)

(* What others do to it.                                                   *)
Control ==
    \E e \in Events : \/ Enqueue(e) \/ RequestCancel(e) \/ UserCancels(e)
                     \/ UserAuthorizesRetry(e) \/ UserConfirmsEffect(e)

Environment ==
    \/ \E e \in Events : \/ StepRaises(e) \/ PulseRaises(e)
                         \/ (\E text \in Texts : Edit(e, text))
    \/ Crash

Next == LifeStep \/ Control \/ Environment \/ Restart

Spec == Init /\ [][Next]_vars

(* The service restarts a dead resident, and the life loop keeps pulsing:  *)
(* an exception of live_once is swallowed and the next pulse starts.       *)
FairSpec == Spec /\ WF_vars(LifeStep) /\ WF_vars(Restart)

-----------------------------------------------------------------------------
(***************************************************************************)
(* Properties.                                                             *)
(***************************************************************************)

(* The attempt was settled in a way that lets the event move again: proved *)
(* absent, given up for repetition by the user, or confirmed by the user   *)
(* of an event whose postcondition is then verified and may contradict it. *)
Permits(a) ==
    \/ ledger[a].status \in {"verified_absent", "user_authorized_retry"}
    \/ /\ ledger[a].status = "user_confirmed_effect"
       /\ Contract[ledger[a].event] # "none"

(* Movements of e that reached the body and still forbid another one.      *)
Standing(e) ==
    {a \in dispatched : ledger[a].event = e /\ ~Permits(a)}

(* No blind replay: of two movements that one event sent to the body, one  *)
(* was settled as repeatable, whatever crashed, raised or was edited in    *)
(* between (SideEffectAwareBody.act, resolve_uncertain_event).             *)
NoBlindReplay ==
    \A e \in Events : \A a, b \in Standing(e) : a = b

(* The world is changed twice for one event only if the user authorised    *)
(* the repetition, contradicted reality, or edited the text himself: the   *)
(* machine's own "verified_absent" never covers an effect that happened.   *)
EffectAppliedOnce ==
    \A a \in applied :
        \/ ledger[a].event \in edited
        \/ ledger[a].status \in {"user_authorized_retry",
                                 "user_confirmed_effect"}
        \/ \A b \in applied :
              b = a \/ ledger[b].event # ledger[a].event
                    \/ ledger[b].status \in {"user_authorized_retry",
                                             "user_confirmed_effect"}

(* A "body" verdict stands on evidence: the text is as requested, or, for  *)
(* an event without a postcondition, some movement returned or was         *)
(* confirmed (EmbodiedResidentRuntime: a successful movement is evidence,  *)
(* not proof).                                                             *)
SuccessIsEvidenced ==
    \A e \in Events :
        outcome[e] = "body" =>
            IF Contract[e] # "none"
            THEN world[e] = "after" \/ e \in edited
            ELSE \E a \in Attempts :
                    /\ ledger[a].event = e
                    /\ ledger[a].status \in {"observed",
                                             "user_confirmed_effect"}

(* Between pulses, a processing event is the one the checkpoint is about;  *)
(* claim_event hands a processing event out again on no other condition.   *)
ClaimedWorkIsResumable ==
    \A e \in Events :
        pc = "idle" /\ status[e] = "processing" => working.ev = e

(* A movement without a durable return is never lost from sight: the       *)
(* checkpoint leads back to it, at native_action (where the guard refuses  *)
(* the replay) or as recovery of that attempt, until the Work is stopped;  *)
(* no other verdict leaves it "started" (side_effect_body.py: "Keep the    *)
(* durable attempt in ``started`` state and return uncertainty so the      *)
(* resident investigates rather than terminalizing or replaying").         *)
StartedIsTracked ==
    \A a \in Attempts :
        ledger[a].status = "started" /\ ledger[a].use = "move" =>
            \/ outcome[ledger[a].event] = "cancelled"
            \/ /\ outcome[ledger[a].event] = "none"
               /\ working.ev = ledger[a].event
               /\ \/ working.stage \in {"native_action", "terminal_failure"}
                  \/ working.stage = "side_effect_recovery" /\ working.att = a

(* Work that waits for a decision about an uncertain effect can be         *)
(* decided: its recovery checkpoint owns an attempt that cancellation and  *)
(* resolution still accept (recovery_control.py: "inspect durable progress *)
(* or cancel it explicitly").                                              *)
HeldWorkIsResolvable ==
    \A e \in Events :
        /\ pc = "idle" /\ Uncertain(e)
        /\ working.decision = "user_decision_required" \/ e \in cancelReq
        => OwnsOpenAttempt(e)

(* A movement is never about to be sent for an event whose effect is       *)
(* settled: verified by observation, or confirmed by the user of an event  *)
(* that asks for no verification (resolve_uncertain_event: "it never calls *)
(* the original mutation again").                                          *)
SettledEffectNotRepeated ==
    pc = "armed" =>
        \A a \in Attempts :
            ledger[a].event = hand =>
                /\ ledger[a].status # "verified_effect"
                /\ ledger[a].status = "user_confirmed_effect" =>
                      Contract[hand] # "none"

Quiet ==
    \A e \in Events :
        outcome[e] # "none" =>
            /\ outcome'[e] = outcome[e]
            /\ status'[e] = status[e]
            /\ \A a \in Attempts :
                  ledger'[a].event = e =>
                     /\ ledger'[a] = ledger[a]
                     /\ a \in dispatched' => a \in dispatched

(* Nothing happens any more on behalf of an event whose verdict is         *)
(* published: the verdict stands, no attempt starts, moves or is settled   *)
(* (store.py, complete_event: one terminal result; run_once returns it).   *)
QuietAfterOutcome == [][Quiet]_vars

HonoursStopRequest ==
    \A e \in Events :
        outcome[e] = "none" /\ outcome'[e] # "none" /\ e \in cancelReq =>
            outcome'[e] = "cancelled"

(* A stop request on file when a verdict is published turns it into        *)
(* "cancelled", even if it arrived after the step was done (store.py,      *)
(* complete_event reads it again in the publishing transaction).           *)
StopRequestWins == [][HonoursStopRequest]_vars

(* Work in hand that is asked to stop gets its verdict.                    *)
CancelEventuallyTerminal ==
    \A e \in Events :
        (e \in cancelReq /\ working.ev = e) ~> (outcome[e] # "none")

Moved == [e \in Events |-> {a \in dispatched : ledger[a].event = e}]

Freed == {a \in dispatched : Permits(a)}

Closed == {e \in Events : outcome[e] # "none"}

Effect == INSTANCE GuardedEffect
            WITH moved <- Moved, free <- Freed, closed <- Closed

(* The ledger, the checkpoint and the restarts together keep the promise   *)
(* of GuardedEffect (SideEffectAwareBody.act, complete_event).             *)
KeepsPromise == Effect!Spec

-----------------------------------------------------------------------------
(* Statements of the code's texts that TLC refutes.                        *)

(* Stopping Work whose movement was sent and never returned abandons the   *)
(* attempt with it (store.py: "uncertain side-effect cancellation requires *)
(* cancel_uncertain_event").                                               *)
CancelledEffectIsAbandoned ==
    \A a \in dispatched :
        outcome[ledger[a].event] = "cancelled" => ledger[a].status # "started"

(* A postcondition that waits to be verified can be observed by the next   *)
(* pulse (embodied_resident.py: "let a later resident pulse re-observe     *)
(* reality before completion").                                            *)
PostconditionIsObservable ==
    \A e \in Events :
        /\ working.ev = e /\ working.stage = "native_verification"
        /\ pc = "idle"
        => Blocking(e, "probe") = {}

=============================================================================
