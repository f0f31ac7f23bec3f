------------------------ MODULE CompletionAccounting ------------------------
(***************************************************************************)
(* From orientation to the books: how an event is answered from memory, by *)
(* a compiled capability, by investigation or by external cognition, how   *)
(* the answer is checkpointed, accounted, published and observed, and what *)
(* a crash between any two of these leaves behind.                         *)
(*                                                                         *)
(* capability_recovery_resident.py, capabilities.py,                       *)
(* side_effect_journal.py, resident_accounting.py,                         *)
(* completion_observation.py and their frame in resident.py.               *)
(***************************************************************************)
EXTENDS Naturals, FiniteSets

CONSTANTS
    Events,
    NoEvent,
    ReplaySafe,   \* the events whose capability is registered as replay safe
    Overtaking,   \* after a restart another event may be claimed first
    MaxCrashes,
    MaxFaults     \* how often a write or an observation may raise

ASSUME NoEventAssumption == NoEvent \notin Events
ASSUME ReplaySafeAssumption == ReplaySafe \subseteq Events
ASSUME BoundsAssumption == MaxCrashes \in Nat /\ MaxFaults \in Nat

VARIABLES
    status,     \* events.status
    outcome,    \* event_outcomes: "none" or the verdict
    cancelReq,  \* event_cancellation_requests
    working,    \* the singleton working_state row
    attempt,    \* side_effect_attempts of the event's capability, in order
    books,      \* resident_event_accounting: pairs <<event, kind>>
    tasks,      \* runtime_metrics: the finished tasks an event was counted for
    journal,    \* resident_completion_observations, stage "life"
    pc, hand, result, kind,  \* the life thread
    todo,       \* the journal rows the constructor read and still has to repair
    crashes, faults,
    executed,   \* history: how often the capability's code ran
    returned,   \* history: its last answer, when it came back
    observed    \* history: the events whose outcome Life has observed

durable == <<status, outcome, cancelReq, working, attempt, books, tasks, journal>>
thread == <<pc, hand, result, kind, todo>>
history == <<executed, returned, observed>>
vars == <<durable, thread, crashes, faults, history>>

(* The kinds of rows in the books; all but one stand for a finished task.  *)
TaskKinds == {"memory_success", "native_capability_success",
              "native_investigation_success", "external_completion",
              "terminal_failure"}
Kinds == TaskKinds \cup {"native_capability_failure"}

Completions == {"resident_completion", "investigation_completion",
                "external_completion", "terminal_failure"}

Stages == Completions \cup {"idle", "orient", "native_investigation",
                            "side_effect_recovery"}

(* exec is state.data["capability_execution"]; due is the accounting       *)
(* descriptor saved with a completion.                                     *)
Checkpoint == [ev    : Events \cup {NoEvent},
               stage : Stages,
               exec  : {"none", "started", "success", "failure"},
               good  : BOOLEAN,
               due   : Kinds \cup {"none"}]

Idle == [ev |-> NoEvent, stage |-> "idle", exec |-> "none", good |-> FALSE,
         due |-> "none"]

Verdicts == {"success", "failure", "cancelled"}

TypeOK ==
    /\ status \in [Events -> {"pending", "processing", "completed"}]
    /\ outcome \in [Events -> Verdicts \cup {"none"}]
    /\ cancelReq \subseteq Events
    /\ working \in Checkpoint
    /\ attempt \in [Events -> {"none", "started", "observed", "abandoned"}]
    /\ books \subseteq Events \X Kinds
    /\ tasks \in [Events -> 0 .. Cardinality(TaskKinds)]
    /\ journal \in [Events -> {"none", "pending", "running", "completed"}]
    /\ pc \in {"idle", "loaded", "running", "answered", "account",
               "settle", "publish", "observe", "watching", "watched", "down"}
    /\ hand \in Events \cup {NoEvent}
    /\ result \in {"none", "success", "failure"}
    /\ kind \in Kinds \cup {"none"}
    /\ todo \subseteq Events
    /\ crashes \in 0 .. MaxCrashes
    /\ faults \in 0 .. MaxFaults
    /\ executed \in [Events -> 0 .. MaxCrashes + 1]
    /\ returned \in [Events -> {"none", "success", "failure"}]
    /\ observed \subseteq Events

Init ==
    /\ status = [e \in Events |-> "pending"]
    /\ outcome = [e \in Events |-> "none"]
    /\ cancelReq = {}
    /\ working = Idle
    /\ attempt = [e \in Events |-> "none"]
    /\ books = {}
    /\ tasks = [e \in Events |-> 0]
    /\ journal = [e \in Events |-> "none"]
    /\ pc = "idle" /\ hand = NoEvent /\ result = "none" /\ kind = "none"
    /\ todo = {}
    /\ crashes = 0 /\ faults = 0
    /\ executed = [e \in Events |-> 0]
    /\ returned = [e \in Events |-> "none"]
    /\ observed = {}

(* The life thread moves to p; nothing outside the store happens.          *)
Goto(p) == pc' = p /\ UNCHANGED <<hand, result, kind, todo>>
Quiet == UNCHANGED <<crashes, faults, history>>
Rest ==
    /\ pc' = "idle" /\ hand' = NoEvent /\ result' = "none" /\ kind' = "none"
    /\ UNCHANGED todo

Save(checkpoint) ==
    /\ working' = checkpoint
    /\ UNCHANGED <<status, outcome, cancelReq, attempt, books, tasks, journal>>

At(stage) == [working EXCEPT !.stage = stage, !.due = "none"]

-----------------------------------------------------------------------------
(* Around a step.                                                          *)

RequestCancel(e) ==
    /\ status[e] # "completed" /\ e \notin cancelReq
    /\ cancelReq' = cancelReq \cup {e}
    /\ UNCHANGED <<status, outcome, working, attempt, books, tasks, journal>>
    /\ UNCHANGED thread /\ Quiet

(* claim_event, and _state_for_event: this event's checkpoint or a fresh   *)
(* one over whatever the row held.                                         *)
Claim(e) ==
    /\ pc = "idle" /\ todo = {}
    /\ status[e] # "completed"
    /\ status[e] = "processing" => working.ev = e
    /\ status[e] = "pending" =>
          /\ working.ev \in Events => status[working.ev] # "processing"
          /\ Overtaking \/ working.ev \in {e, NoEvent}
    /\ status' = [status EXCEPT ![e] = "processing"]
    /\ working' = IF working.ev = e THEN working
                  ELSE [Idle EXCEPT !.ev = e, !.stage = "orient"]
    /\ pc' = "loaded" /\ hand' = e
    /\ UNCHANGED <<outcome, cancelReq, attempt, books, tasks, journal, result, kind, todo>>
    /\ Quiet

Uncertain == working.stage = "side_effect_recovery"

StopWork(e) ==
    /\ pc = "loaded" /\ hand = e
    /\ e \in cancelReq /\ ~Uncertain
    /\ pc' = "publish" /\ result' = "failure"
    /\ UNCHANGED <<durable, hand, kind, todo>> /\ Quiet

(* cancel_uncertain_event: the attempt is abandoned and the cancelled      *)
(* verdict published in one transaction.                                   *)
AbandonUncertain(e) ==
    /\ pc = "loaded" /\ hand = e
    /\ e \in cancelReq /\ Uncertain
    /\ attempt[e] = "started"
    /\ attempt' = [attempt EXCEPT ![e] = "abandoned"]
    /\ outcome' = [outcome EXCEPT ![e] = "cancelled"]
    /\ status' = [status EXCEPT ![e] = "completed"]
    /\ cancelReq' = cancelReq \ {e}
    /\ working' = Idle
    /\ UNCHANGED <<books, tasks, journal>>
    /\ Rest /\ Quiet

Stepping(e, stage) ==
    /\ pc = "loaded" /\ hand = e
    /\ e \notin cancelReq
    /\ working.stage = stage

-----------------------------------------------------------------------------
(* Orientation.                                                            *)

(* A semantic completion is checkpointed with what is due to the books.    *)
Complete(stage, due, good) ==
    /\ Save([At(stage) EXCEPT !.due = due, !.good = good])
    /\ pc' = "account" /\ kind' = due
    /\ result' = IF good THEN "success" ELSE "failure"
    /\ UNCHANGED <<hand, todo>>

Recall(e) ==
    /\ Stepping(e, "orient")
    /\ working.exec = "none" \/ (working.exec = "started" /\ e \in ReplaySafe)
    /\ Complete("resident_completion", "memory_success", TRUE)
    /\ Quiet

NothingLocal(e) ==
    /\ Stepping(e, "orient")
    /\ working.exec = "none"
    /\ Save(At("native_investigation"))
    /\ Rest /\ Quiet

RunCapability(e) ==
    /\ pc' = "running"
    /\ executed' = [executed EXCEPT ![e] = @ + 1]
    /\ returned' = [returned EXCEPT ![e] = "none"]
    /\ UNCHANGED <<hand, result, kind, todo, crashes, faults, observed>>

(* start_with_checkpoint: row and checkpoint in one transaction, unless an *)
(* earlier attempt of this event is still started.  An attempt that was    *)
(* observed blocks nothing once its checkpoint is gone.                    *)
StartCapability(e) ==
    /\ Stepping(e, "orient")
    /\ working.exec = "none"
    /\ attempt[e] # "started"
    /\ attempt' = [attempt EXCEPT ![e] = "started"]
    /\ working' = [working EXCEPT !.exec = "started"]
    /\ UNCHANGED <<status, outcome, cancelReq, books, tasks, journal>>
    /\ RunCapability(e)

(* Mutant of RunAgain: replay safety is not asked for.                     *)
RunAnyAgain(e) ==
    /\ Stepping(e, "orient")
    /\ working.exec \in {"none", "started"}
    /\ attempt[e] = "started"
    /\ UNCHANGED durable
    /\ RunCapability(e)

(* A replay-safe capability that was interrupted runs again.               *)
RunAgain(e) ==
    /\ Stepping(e, "orient")
    /\ e \in ReplaySafe
    /\ working.exec \in {"none", "started"}
    /\ attempt[e] = "started"
    /\ UNCHANGED durable
    /\ RunCapability(e)

(* Mutant of Recovery: the checkpoint records an answer nobody gave.       *)
BadRecovery == [At("side_effect_recovery") EXCEPT !.exec = "uncertain"]

Recovery == [At("side_effect_recovery") EXCEPT !.exec = "started"]

(* A started attempt of a capability that is not replay safe is uncertain. *)
RefuseReplay(e) ==
    /\ Stepping(e, "orient")
    /\ e \notin ReplaySafe
    /\ working.exec = "started" \/ (working.exec = "none" /\ attempt[e] = "started")
    /\ Save(Recovery)
    /\ Rest /\ Quiet

(* Nobody but the user can end this wait.                                  *)
AwaitDecision(e) ==
    /\ Stepping(e, "side_effect_recovery")
    /\ UNCHANGED durable
    /\ Rest /\ Quiet

CapabilityReturns(e) ==
    /\ pc = "running" /\ hand = e
    /\ \E answer \in {"success", "failure"} :
          /\ result' = answer
          /\ returned' = [returned EXCEPT ![e] = answer]
    /\ pc' = "answered"
    /\ UNCHANGED <<durable, hand, kind, todo, crashes, faults, executed,
                   observed>>

(* It raises: failure evidence if it may be replayed, uncertain otherwise. *)
CapabilityRaises(e) ==
    /\ pc = "running" /\ hand = e
    /\ \/ /\ e \in ReplaySafe
          /\ pc' = "answered" /\ result' = "failure"
          /\ UNCHANGED <<durable, hand, kind, todo>>
       \/ /\ e \notin ReplaySafe
          /\ Save(Recovery)
          /\ Rest
    /\ Quiet

(* observe_with_checkpoint: the answer and the checkpoint that holds it.   *)
ObserveCapability(e) ==
    /\ pc = "answered" /\ hand = e
    /\ attempt' = [attempt EXCEPT ![e] = "observed"]
    /\ working' = [working EXCEPT !.exec = result]
    /\ kind' = IF result = "success" THEN "native_capability_success"
               ELSE "native_capability_failure"
    /\ pc' = "account"
    /\ UNCHANGED <<status, outcome, cancelReq, books, tasks, journal, hand, result,
                   todo>>
    /\ Quiet

(* The same transaction raises: _orient_step catches it like a failure of  *)
(* the capability.                                                         *)
ObserveRaises(e) ==
    /\ pc = "answered" /\ hand = e
    /\ faults < MaxFaults /\ faults' = faults + 1
    /\ result' = "failure" /\ kind' = "native_capability_failure"
    /\ pc' = "account"
    /\ UNCHANGED <<durable, hand, todo, crashes, history>>

(* An observed answer is resumed without running the code.                 *)
ResumeObserved(e) ==
    /\ Stepping(e, "orient")
    /\ working.exec \in {"success", "failure"}
    /\ result' = working.exec
    /\ kind' = IF working.exec = "success" THEN "native_capability_success"
               ELSE "native_capability_failure"
    /\ pc' = "account"
    /\ UNCHANGED <<durable, hand, todo>> /\ Quiet

-----------------------------------------------------------------------------
(* Investigation, cognition, failure.                                      *)

Investigate(e) ==
    /\ Stepping(e, "native_investigation")
    /\ \/ Complete("investigation_completion", "native_investigation_success",
                   TRUE)
       \/ \E good \in BOOLEAN :
             Complete("external_completion", "external_completion", good)
    /\ Quiet

FailTerminally(e) ==
    /\ Stepping(e, "native_investigation")
    /\ Complete("terminal_failure", "terminal_failure", FALSE)
    /\ Quiet

(* Mutant of ResumeCompletion: the books are taken to be written already.  *)
ResumeUnaccounted(e) ==
    /\ pc = "loaded" /\ hand = e
    /\ e \notin cancelReq
    /\ working.stage \in Completions
    /\ result' = IF working.good THEN "success" ELSE "failure"
    /\ pc' = "publish"
    /\ UNCHANGED <<durable, hand, kind, todo>> /\ Quiet

(* A completion on file is published without doing the work again.         *)
ResumeCompletion(e) ==
    /\ pc = "loaded" /\ hand = e
    /\ e \notin cancelReq
    /\ working.stage \in Completions
    /\ result' = IF working.good THEN "success" ELSE "failure"
    /\ kind' = working.due
    /\ pc' = IF working.due = "none" THEN "publish" ELSE "account"
    /\ UNCHANGED <<durable, hand, todo>> /\ Quiet

(* A step raises before any completion is on file: the event ends as a     *)
(* failure, which is a task of its own for the books.  With a completion   *)
(* or an uncertain effect on file the exception leaves all as it was.      *)
StepRaises(e) ==
    /\ hand = e
    /\ \/ pc = "loaded" /\ e \notin cancelReq
       \/ pc \in {"account", "settle"}
    /\ faults < MaxFaults /\ faults' = faults + 1
    /\ working.stage \notin Completions /\ ~Uncertain
    /\ Complete("terminal_failure", "terminal_failure", FALSE)
    /\ UNCHANGED <<crashes, history>>

-----------------------------------------------------------------------------
(* The books.                                                              *)

(* Mutant of Entered: the row's key is not consulted.                      *)
EnteredAnew(e, k) == FALSE

(* INSERT OR IGNORE hits the event/kind key.                               *)
Entered(e, k) == <<e, k>> \in books

(* Insert and update of the counters in one transaction.  A capability's   *)
(* answer is accounted before its completion is on file, all others after. *)
Account(e) ==
    /\ pc = "account" /\ hand = e
    /\ books' = books \cup {<<e, kind>>}
    /\ tasks' = IF kind \in TaskKinds /\ ~Entered(e, kind)
                THEN [tasks EXCEPT ![e] = @ + 1] ELSE tasks
    /\ pc' = IF kind \in {"native_capability_success",
                          "native_capability_failure"}
             THEN "settle" ELSE "publish"
    /\ UNCHANGED <<status, outcome, cancelReq, working, attempt, journal,
                   hand, result, kind, todo>>
    /\ Quiet

(* After a capability: the completion, or on to native investigation.      *)
Settle(e) ==
    /\ pc = "settle" /\ hand = e
    /\ \/ /\ kind = "native_capability_success"
          /\ Save([At("resident_completion") EXCEPT !.good = TRUE])
          /\ Goto("publish")
       \/ /\ kind = "native_capability_failure"
          /\ Save(At("native_investigation"))
          /\ Rest
    /\ Quiet

(* complete_event: a stop request on file turns the verdict.               *)
Publish(e) ==
    /\ pc = "publish" /\ hand = e
    /\ outcome' = [outcome EXCEPT
                      ![e] = IF e \in cancelReq THEN "cancelled" ELSE result]
    /\ status' = [status EXCEPT ![e] = "completed"]
    /\ cancelReq' = cancelReq \ {e}
    /\ working' = Idle
    /\ IF e \in cancelReq THEN Rest ELSE Goto("observe")
    /\ UNCHANGED <<attempt, books, tasks, journal>> /\ Quiet

-----------------------------------------------------------------------------
(* Life observes the outcome.                                              *)

Mark(e, state) ==
    /\ journal' = [journal EXCEPT ![e] = state]
    /\ UNCHANGED <<status, outcome, cancelReq, working, attempt, books, tasks>>

BeginObservation(e) ==
    /\ pc = "observe" /\ hand = e
    /\ Mark(e, "running")
    /\ Goto("watching") /\ Quiet

LifeObserves(e) ==
    /\ pc = "watching" /\ hand = e
    /\ observed' = observed \cup {e}
    /\ Goto("watched")
    /\ UNCHANGED <<durable, crashes, faults, executed, returned>>

(* The observation raises: it is deferred, not lost.                       *)
LifeFails(e) ==
    /\ pc = "watching" /\ hand = e
    /\ faults < MaxFaults /\ faults' = faults + 1
    /\ Mark(e, "pending")
    /\ Rest /\ UNCHANGED <<crashes, history>>

FinishObservation(e) ==
    /\ pc = "watched" /\ hand = e
    /\ Mark(e, "completed")
    /\ Rest /\ Quiet

(* repair_life at construction: each row it read, before any event.        *)
Repair(e) ==
    /\ pc = "idle" /\ e \in todo
    /\ todo' = todo \ {e}
    /\ pc' = "observe" /\ hand' = e
    /\ UNCHANGED <<durable, result, kind>> /\ Quiet

-----------------------------------------------------------------------------
Crash ==
    /\ pc # "down" /\ crashes < MaxCrashes
    /\ crashes' = crashes + 1
    /\ pc' = "down" /\ hand' = NoEvent /\ result' = "none" /\ kind' = "none"
    /\ todo' = {}
    /\ UNCHANGED <<durable, faults, history>>

(* Mutant of Restart: only the deferred observations are repaired.         *)
RestartPending ==
    /\ pc = "down"
    /\ status' = [e \in Events |-> IF status[e] = "processing" THEN "pending"
                                   ELSE status[e]]
    /\ pc' = "idle"
    /\ todo' = {e \in Events : journal[e] = "pending"}
    /\ UNCHANGED <<outcome, cancelReq, working, attempt, books, tasks, journal, hand,
                   result, kind>>
    /\ Quiet

(* recover_interrupted_events, then repair_life.                           *)
Restart ==
    /\ pc = "down"
    /\ status' = [e \in Events |-> IF status[e] = "processing" THEN "pending"
                                   ELSE status[e]]
    /\ pc' = "idle"
    /\ todo' = {e \in Events : journal[e] \in {"pending", "running"}}
    /\ UNCHANGED <<outcome, cancelReq, working, attempt, books, tasks, journal, hand,
                   result, kind>>
    /\ Quiet

Orient(e) ==
    \/ Recall(e) \/ NothingLocal(e) \/ StartCapability(e) \/ RunAgain(e)
    \/ RefuseReplay(e) \/ AwaitDecision(e) \/ CapabilityReturns(e)
    \/ CapabilityRaises(e) \/ ObserveCapability(e) \/ ResumeObserved(e)

LifeStep ==
    \E e \in Events :
        \/ Claim(e) \/ StopWork(e) \/ AbandonUncertain(e) \/ Orient(e)
        \/ Investigate(e) \/ FailTerminally(e) \/ ResumeCompletion(e)
        \/ Account(e) \/ Settle(e) \/ Publish(e)
        \/ BeginObservation(e) \/ LifeObserves(e) \/ FinishObservation(e)
        \/ Repair(e)

Fault == \E e \in Events : ObserveRaises(e) \/ StepRaises(e) \/ LifeFails(e)

Next ==
    \/ LifeStep \/ Fault \/ Crash \/ Restart
    \/ \E e \in Events : RequestCancel(e)

Spec == Init /\ [][Next]_vars

FairSpec == Spec /\ WF_vars(LifeStep) /\ WF_vars(Restart)

-----------------------------------------------------------------------------
(* "Commit self evidence once for one durable resident event fact": one    *)
(* event is at most one task in runtime_metrics, whatever crashed between  *)
(* the books and the verdict (resident_accounting.py), while no step has   *)
(* raised: after one the event fails terminally, as a second task.         *)
TaskCountedOnce ==
    faults = 0 => \A e \in Events : tasks[e] <= 1

(* The books tell the truth: a published verdict is in them when it        *)
(* appears, as a success or as a failure according to the verdict, and     *)
(* they never hold against a capability that it failed when it answered    *)
(* with success and no write raised.                                       *)
VerdictIsAccounted ==
    \A e \in Events :
        /\ outcome[e] = "success" =>
              \E k \in TaskKinds \ {"terminal_failure"} : <<e, k>> \in books
        /\ outcome[e] = "failure" =>
              \E k \in {"terminal_failure", "external_completion"} : <<e, k>> \in books
        /\ <<e, "native_capability_failure">> \in books /\ faults = 0 =>
              returned[e] # "success"

(* Code that is not replay safe runs once per event, through crashes and   *)
(* stop requests; and while it is unknown what it did, its event gets no   *)
(* verdict but a cancellation: nobody guesses success or failure, unless a *)
(* step raised (capabilities.py).                                          *)
UnsafeRunsOnce ==
    \A e \in Events \ ReplaySafe :
        /\ executed[e] <= 1
        /\ attempt[e] = "started" /\ faults = 0 =>
              outcome[e] \in {"none", "cancelled"}

(* An observation that was begun is not forgotten, whatever dies; one that *)
(* raises is deferred to the next construction.                            *)
BegunIsObserved ==
    \A e \in Events :
        (journal[e] = "running") ~> (e \in observed \/ faults > 0)

-----------------------------------------------------------------------------
(* A statement of the code's texts that TLC refutes.                       *)

(* "Apply Life observation at-least-once" (completion_observation.py): an  *)
(* outcome that is not a cancellation is observed in the end.              *)
OutcomeIsObserved ==
    \A e \in Events :
        (outcome[e] \in {"success", "failure"}) ~> (e \in observed)
=============================================================================
