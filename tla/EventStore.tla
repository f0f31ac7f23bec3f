----------------------------- MODULE EventStore -----------------------------
(***************************************************************************)
(* The durable truth of one resident: the sqlite tables of store.py        *)
(* (events, event_outcomes, event_cancellation_requests, working_state)    *)
(* and the side-effect attempt ledger of side_effect_attempts.py.          *)
(*                                                                         *)
(* Every operator below is one committed transaction, or one read.  It     *)
(* says what the tables hold afterwards; the modules that extend this one  *)
(* say who runs it and when.                                               *)
(*                                                                         *)
(* Each event stands for one piece of Work whose action is guarded (a      *)
(* command, or an append): the event carries the intent, so a signature    *)
(* is identified with its event and the use it is put to.                  *)
(***************************************************************************)
EXTENDS Naturals

CONSTANTS
    Events,      \* the events that may ever be enqueued
    Attempts,    \* the attempt identifiers that may ever be drawn
    NoEvent,     \* working_state.current_event_id is NULL
    NoAttempt,   \* the checkpoint names no attempt
    Priority,    \* events.priority, by event
    Contract     \* the postcondition the event asks for, by event

(***************************************************************************)
(* "none"    no postcondition: a successful return completes the event     *)
(* "text"    text_equals on a file a command should have produced          *)
(* "append"  an append with text_equals on the same path                   *)
(* "derived" the same, and the resident derived the expected text itself,  *)
(*           so it also knows the exact text before the append             *)
(* "probe"   a postcondition command, which is a guarded action itself     *)
(***************************************************************************)
Contracts == {"none", "text", "append", "derived", "probe"}

ASSUME EventsAssumption == NoEvent \notin Events
ASSUME AttemptsAssumption == NoAttempt \notin Attempts
ASSUME PriorityAssumption == Priority \in [Events -> Nat]
ASSUME ContractAssumption == Contract \in [Events -> Contracts]

VARIABLES
    status,      \* events.status; "none" before the event is enqueued
    older,       \* events.created_at: pairs <<e, f>>, e created before f
    outcome,     \* event_outcomes: "none" or the published verdict
    cancelReq,   \* event_cancellation_requests
    working,     \* the singleton working_state row
    ledger       \* the side_effect_attempts table

storeVars == <<status, older, outcome, cancelReq, working, ledger>>

Statuses == {"none", "pending", "processing", "completed", "failed"}

Verdicts == {"body", "answer", "failure", "cancelled"}

(***************************************************************************)
(* "completion" is any of the *_completion stages: the result is already   *)
(* known and only has to be published.                                     *)
(***************************************************************************)
Stages == {"idle", "orient", "native_investigation", "native_deliberation",
           "external_cognition", "native_action", "native_verification",
           "side_effect_recovery", "completion", "terminal_failure"}

Decisions == {"none", "reverify_effect", "user_decision_required",
              "effect_happened"}

(***************************************************************************)
(* The checkpoint.  blocked_by and replay_blocked need no field of their   *)
(* own: both are set exactly when recovery awaits a decision (Uncertain).  *)
(***************************************************************************)
Checkpoint == [ev       : Events \cup {NoEvent},
               stage    : Stages,
               decision : Decisions,
               att      : Attempts \cup {NoAttempt},
               blocked  : BOOLEAN,  \* the move failed under this evidence
               done     : Verdicts \cup {"none"}]

OpenStatuses == {"started", "observed"}

ClosedStatuses == {"verified_effect", "verified_absent",
                   "user_confirmed_effect", "user_authorized_retry",
                   "work_abandoned"}

Uses == {"move", "probe"}

AttemptRow == [event  : Events \cup {NoEvent},
               use    : Uses,
               status : {"free"} \cup OpenStatuses \cup ClosedStatuses]

Idle == [ev |-> NoEvent, stage |-> "idle", decision |-> "none",
         att |-> NoAttempt, blocked |-> FALSE, done |-> "none"]

StoreTypeOK ==
    /\ status \in [Events -> Statuses]
    /\ older \subseteq Events \X Events
    /\ outcome \in [Events -> Verdicts \cup {"none"}]
    /\ cancelReq \subseteq Events
    /\ working \in Checkpoint
    /\ ledger \in [Attempts -> AttemptRow]

StoreInit ==
    /\ status = [e \in Events |-> "none"]
    /\ older = {}
    /\ outcome = [e \in Events |-> "none"]
    /\ cancelReq = {}
    /\ working = Idle
    /\ ledger = [a \in Attempts |->
                    [event |-> NoEvent, use |-> "move", status |-> "free"]]

-----------------------------------------------------------------------------
(* Reads.                                                                  *)

Unfinished(e) == status[e] \in {"pending", "processing"}

(* Mutant of Blocking: the include_observed flag forgotten.                *)
BlockingStartedOnly(e, use) ==
    {a \in Attempts : /\ ledger[a].event = e
                      /\ ledger[a].use = use
                      /\ ledger[a].status = "started"}

(* replay_blocking_attempt: a prior attempt at the same movement whose     *)
(* effect nobody has settled.                                              *)
Blocking(e, use) ==
    {a \in Attempts : /\ ledger[a].event = e
                      /\ ledger[a].use = use
                      /\ ledger[a].status \in OpenStatuses}

(* The working row is this event's unresolved recovery checkpoint.         *)
Uncertain(e) ==
    /\ working.ev = e
    /\ working.stage = "side_effect_recovery"
    /\ working.decision # "effect_happened"

(* The recovery checkpoint still owns an attempt that can be decided.      *)
OwnsOpenAttempt(e) == working.att \in Blocking(e, "move")

(* f comes no earlier than e in ORDER BY priority DESC, created_at ASC.    *)
Precedes(e, f) ==
    \/ e = f
    \/ Priority[e] > Priority[f]
    \/ Priority[e] = Priority[f] /\ <<e, f>> \in older

(* Mutant of IsNext: the queue alone, without the active event.            *)
IsNextPending(e) ==
    /\ status[e] = "pending"
    /\ \A f \in Events : status[f] = "pending" => Precedes(e, f)

(* peek_next_event: the active event first, else the head of the queue.    *)
IsNext(e) ==
    IF working.ev \in Events /\ status[working.ev] = "processing"
    THEN e = working.ev
    ELSE /\ status[e] = "pending"
         /\ \A f \in Events : status[f] = "pending" => Precedes(e, f)

-----------------------------------------------------------------------------
(* Transactions.                                                           *)

EnqueueEvent(e) ==
    /\ status[e] = "none"
    /\ status' = [status EXCEPT ![e] = "pending"]
    /\ older' = older \cup ({f \in Events : status[f] # "none"} \X {e})
    /\ UNCHANGED <<outcome, cancelReq, working, ledger>>

RequestEventCancellation(e) ==
    /\ Unfinished(e)
    /\ cancelReq' = cancelReq \cup {e}
    /\ UNCHANGED <<status, older, outcome, working, ledger>>

ClearCancellationRequest(e) ==
    /\ cancelReq' = cancelReq \ {e}
    /\ UNCHANGED <<status, older, outcome, working, ledger>>

(* A pending event starts processing; a processing event is handed out     *)
(* again only when the checkpoint is its own, which IsNext implies.        *)
ClaimEvent(e) ==
    /\ status' = [status EXCEPT ![e] = "processing"]
    /\ UNCHANGED <<older, outcome, cancelReq, working, ledger>>

SaveWorkingState(w) ==
    /\ working' = w
    /\ UNCHANGED <<status, older, outcome, cancelReq, ledger>>

(* Mutant of TerminalStatus: a status of its own for stopped Work.         *)
TerminalStatusByVerdict(verdict) ==
    CASE verdict = "cancelled" -> "cancelled"
      [] verdict = "failure" -> "failed"
      [] OTHER -> "completed"

TerminalStatus(verdict) ==
    IF verdict \in {"body", "answer"} THEN "completed" ELSE "failed"

(* complete_event may not clear another event's checkpoint, and a pending  *)
(* stop request on an uncertain checkpoint is not its to answer.           *)
MayComplete(e, verdict) ==
    /\ status[e] = "processing"
    /\ outcome[e] = "none"
    /\ working.ev \in {e, NoEvent}
    /\ ~(e \in cancelReq /\ verdict # "cancelled" /\ Uncertain(e))

(* Mutant of PublishedVerdict: the stop request is not read again.         *)
PublishedAsGiven(e, verdict) == verdict

PublishedVerdict(e, verdict) ==
    IF e \in cancelReq THEN "cancelled" ELSE verdict

CompleteEvent(e, verdict) ==
    /\ MayComplete(e, verdict)
    /\ outcome' = [outcome EXCEPT ![e] = PublishedVerdict(e, verdict)]
    /\ status' = [status EXCEPT ![e] =
                    TerminalStatus(PublishedVerdict(e, verdict))]
    /\ cancelReq' = cancelReq \ {e}
    /\ working' = Idle
    /\ UNCHANGED <<older, ledger>>

(* Mutant of MayCancelUncertain: only work that is not being processed.    *)
MayCancelQueued(e) ==
    /\ status[e] = "pending"
    /\ outcome[e] = "none"
    /\ Uncertain(e)
    /\ OwnsOpenAttempt(e)

MayCancelUncertain(e) ==
    /\ Unfinished(e)
    /\ outcome[e] = "none"
    /\ Uncertain(e)
    /\ OwnsOpenAttempt(e)

(* The stop request row, if there is one, is left behind.                  *)
CancelUncertainEvent(e) ==
    /\ MayCancelUncertain(e)
    /\ ledger' = [ledger EXCEPT ![working.att].status = "work_abandoned"]
    /\ outcome' = [outcome EXCEPT ![e] = "cancelled"]
    /\ status' = [status EXCEPT ![e] = "failed"]
    /\ working' = Idle
    /\ UNCHANGED <<older, cancelReq>>

MayResolveUncertain(e) ==
    /\ MayCancelUncertain(e)
    /\ working.decision = "user_decision_required"

AuthorizeUserRetry(e) ==
    /\ MayResolveUncertain(e)
    /\ ledger' = [ledger EXCEPT ![working.att].status =
                                    "user_authorized_retry"]
    /\ working' = [working EXCEPT !.stage = "native_action",
                                  !.decision = "none",
                                  !.att = NoAttempt]
    /\ UNCHANGED <<status, older, outcome, cancelReq>>

ConfirmUserEffect(e) ==
    /\ MayResolveUncertain(e)
    /\ ledger' = [ledger EXCEPT ![working.att].status =
                                    "user_confirmed_effect"]
    /\ working' = [working EXCEPT !.decision = "effect_happened"]
    /\ UNCHANGED <<status, older, outcome, cancelReq>>

(* start_attempt commits the write-ahead row.                              *)
StartAttempt(a, e, use) ==
    /\ ledger[a].status = "free"
    /\ ledger' = [ledger EXCEPT ![a] =
                    [event |-> e, use |-> use, status |-> "started"]]
    /\ UNCHANGED <<status, older, outcome, cancelReq, working>>

ObserveStartedAttempt(a) ==
    /\ ledger[a].status = "started"
    /\ ledger' = [ledger EXCEPT ![a].status = "observed"]
    /\ UNCHANGED <<status, older, outcome, cancelReq, working>>

(* resolve_uncertain_attempt acknowledges the same final status again and  *)
(* refuses a conflicting one.                                              *)
Resolvable(a, e, final) ==
    /\ a \in Attempts
    /\ ledger[a].event = e
    /\ ledger[a].status \in OpenStatuses \cup {final}

ResolveAttempt(a, e, final) ==
    /\ Resolvable(a, e, final)
    /\ ledger' = [ledger EXCEPT ![a].status = final]
    /\ UNCHANGED <<status, older, outcome, cancelReq, working>>

(* Mutant of RecoverInterruptedEvents: failed work is tried again.         *)
RecoverFailedEvents ==
    /\ status' = [e \in Events |-> IF status[e] \in {"processing", "failed"}
                                   THEN "pending" ELSE status[e]]
    /\ UNCHANGED <<older, outcome, cancelReq, working, ledger>>

(* recover_interrupted_events, run by the constructor of every resident.   *)
RecoverInterruptedEvents ==
    /\ status' = [e \in Events |-> IF status[e] = "processing"
                                   THEN "pending" ELSE status[e]]
    /\ UNCHANGED <<older, outcome, cancelReq, working, ledger>>
=============================================================================
