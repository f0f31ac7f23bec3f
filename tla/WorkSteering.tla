---------------------------- MODULE WorkSteering ----------------------------
(***************************************************************************)
(* The durable Work of one conversation thread: how a request becomes a    *)
(* resident event with a Work run, how a message to active work steers it  *)
(* to the next plan version, how stops and results are settled into the    *)
(* transcript, and what is repaired after a crash.                         *)
(*                                                                         *)
(* work.py, recovery_bounded_work.py, steerable_work.py,                   *)
(* evidence_bound_work.py, work_control.py, work_restore_control.py and    *)
(* outcome_aware_work_control.py.  Every call runs on a connection thread  *)
(* of its own, against one database, as a script of transactions; the same *)
(* scripts serve the constructors, which run as the process Boot.          *)
(***************************************************************************)
EXTENDS Naturals, Sequences, FiniteSets

CONSTANTS
    Clients,      \* connection threads
    Boot,         \* the constructors, as a process
    NoOne,        \* no holder of the resident's cycle lock
    Events,       \* event identities
    NoEvent,
    Overlapping,  \* two clients may be creating work in the thread at once
    Role,         \* the kinds of call each connection makes
    Accepting,    \* the life thread sets acceptance criteria and verifies them
    BlockedChildren, \* an item that still runs may have a blocked child
    MaxCrashes

Procs == Clients \cup {Boot}

(* A request for work, the blocking submit of the daemon's own ledger, a   *)
(* question for progress or for a snapshot, and a stop.                    *)
CallKinds == {"start", "submit", "progress", "snapshot", "cancel"}

ASSUME BootAssumption == Boot \notin Clients /\ NoOne \notin Procs
ASSUME EventsAssumption ==
    NoEvent \notin Events /\ IsFiniteSet(Events) /\ Events # {}
ASSUME RoleAssumption == Role \in [Clients -> SUBSET CallKinds]
ASSUME BoundAssumption == MaxCrashes \in Nat

VARIABLES
    \* the store
    status,    \* events.status; "none": no row
    verdict,   \* event_outcomes
    stopReq,   \* event_cancellation_requests
    \* the ledger
    plan,      \* work_plan_state.plan_version of the thread
    ingress,   \* rows of work_ingress_checkpoints
    messages,  \* the events whose user message is in the transcript
    payload,   \* the plan version and the superseded event an event carries
    run,       \* work_runs.ledger_state
    bound,     \* work_run_plans.plan_version; 0: not bound
    item,      \* work_items.status of the event's own item
    evidence,  \* acceptance of the item: no criteria, "asked", or "given"
    reply,     \* the final answer in the transcript, by what it says
    \* the process
    up,        \* "down", "booting", "up"; "broken": a constructor raised
    lock,      \* the holder of the cycle lock
    local,     \* what each process still has to do, and its locals
    crashes

store == <<status, verdict, stopReq>>
ledger ==
    <<plan, ingress, messages, payload, run, bound, item, evidence, reply>>
vars == <<store, ledger, up, lock, local, crashes>>

Finished == {"completed", "failed"}
OpenItem == {"running", "blocked"}
Stale == {"stale", "stale_finalized"}

Verdicts == {"success", "failure", "cancelled"}
Steps == {"sweep", "route", "await", "prepare", "item", "repair", "rmessage",
          "revent", "renqueue", "rrun", "rdelete", "collect", "check", "row",
          "message", "enqueue", "run", "unrow", "bind", "bindall", "claim",
          "supersede", "judge", "reply", "save", "saveitem", "release", "look",
          "result", "stop", "ask", "wait", "steering", "adopt", "serve",
          "evidence", "project", "rewrite", "outcomes"}

TypeOK ==
    /\ status \in [Events -> {"none", "pending", "processing", "done"}]
    /\ verdict \in [Events -> Verdicts \cup {"none"}]
    /\ stopReq \subseteq Events
    /\ plan \in 1 .. Cardinality(Events)
    /\ ingress \subseteq Events
    /\ messages \subseteq Events
    /\ payload \in [Events -> [version : 0 .. Cardinality(Events),
                               prev : Events \cup {NoEvent}]]
    /\ run \in [Events -> {"none", "active", "finalized"} \cup Stale]
    /\ bound \in [Events -> 0 .. Cardinality(Events)]
    /\ item \in [Events -> {"none", "completed", "superseded"} \cup OpenItem]
    /\ evidence \in [Events -> {"none", "asked", "given"}]
    /\ reply \in [Events -> Verdicts \cup {"none", "blocked"}]
    /\ up \in {"down", "booting", "up", "broken"}
    /\ lock \in Procs \cup {NoOne}
    /\ \A p \in Procs :
        /\ local[p].todo \in Seq(Steps)
        /\ {local[p].own, local[p].old, local[p].target}
               \subseteq Events \cup {NoEvent}
        /\ local[p].how \in {"none", "fresh", "stale", "cancelled"}
        /\ local[p].base \in BOOLEAN
    /\ crashes \in 0 .. MaxCrashes

Idle == [todo |-> <<>>, own |-> NoEvent, old |-> NoEvent, target |-> NoEvent,
         how |-> "none", base |-> FALSE]

(* Until the thread exists nothing is stored.  The process is up.          *)
Init ==
    /\ status = [e \in Events |-> "none"]
    /\ verdict = [e \in Events |-> "none"]
    /\ stopReq = {}
    /\ plan = 1
    /\ ingress = {} /\ messages = {}
    /\ payload = [e \in Events |-> [version |-> 0, prev |-> NoEvent]]
    /\ run = [e \in Events |-> "none"]
    /\ bound = [e \in Events |-> 0]
    /\ item = [e \in Events |-> "none"]
    /\ evidence = [e \in Events |-> "none"]
    /\ reply = [e \in Events |-> "none"]
    /\ up = "up" /\ lock = NoOne
    /\ local = [p \in Procs |-> Idle]
    /\ crashes = 0

----------------------------------------------------------------------------
(* Scripts.                                                                *)

At(p, step) == local[p].todo # <<>> /\ Head(local[p].todo) = step

(* The rest of p's script.                                                 *)
Rest(p) == Tail(local[p].todo)

Become(p, l) == local' = [local EXCEPT ![p] = l]

Go(p, todo) == Become(p, [local[p] EXCEPT !.todo = todo])

GoAs(p, todo, how) == Become(p, [local[p] EXCEPT !.todo = todo, !.how = how])

(* What the coming steps are about.                                        *)
About(p, e, how) == [local[p] EXCEPT !.target = e, !.how = how]

GoFor(p, todo, e) == Become(p, [local[p] EXCEPT !.todo = todo, !.target = e])

(* The work the coming steps supersede.                                    *)
GoSteer(p, todo, e) == Become(p, [local[p] EXCEPT !.todo = todo, !.old = e])

Next1(p) == Go(p, Rest(p))

Frame == UNCHANGED <<up, lock, crashes>>

(* A call that raises leaves what it has committed; a constructor that     *)
(* raises takes the process down for good.                                 *)
Raise(p) ==
    /\ local' = [local EXCEPT ![p] = Idle]
    /\ lock' = IF lock = p THEN NoOne ELSE lock
    /\ up' = IF p = Boot THEN "broken" ELSE up
    /\ UNCHANGED <<store, ledger, crashes>>

RepairRow == <<"rmessage", "revent", "rrun", "rdelete">>
(* Mutant of RecoverableStart: no ingress row.                             *)
RowlessStart == <<"repair", "collect", "check", "message", "enqueue", "run",
                  "unrow">>
RecoverableStart == <<"repair", "collect", "check", "row", "message",
                      "enqueue", "run", "unrow">>

StartScript == <<"sweep", "item">> \o RecoverableStart \o <<"bind">>
SteerScript == <<"prepare", "repair", "bindall", "claim", "supersede",
                 "judge", "release">>

(* Mutant of BootScript: unfinished steering is left.                      *)
BootUnsteered == <<"repair", "bindall", "adopt", "sweep", "serve">>

BootScript == <<"repair", "bindall", "steering", "adopt", "sweep", "serve">>

Active == {e \in Events : run[e] = "active"}
Owned(p) == {e \in Events : \E q \in Procs \ {p} : local[q].own = e}
Unused(p) ==
    {e \in Events : /\ status[e] = "none" /\ run[e] = "none"
                    /\ item[e] = "none" /\ e \notin ingress \cup Owned(p)}

(* From the repair of ingress rows to the run of the new event.            *)
Starting(c) ==
    \E i \in DOMAIN local[c].todo : local[c].todo[i] \in {"run", "release"}
MayStart(c) == Overlapping \/ \A d \in Clients \ {c} : ~Starting(d)

----------------------------------------------------------------------------
(* Settling a run into the transcript.                                     *)

(* A result is stale when its run is, or when it is bound to another plan. *)
IsStale(e) == run[e] = "stale" \/ (bound[e] # 0 /\ bound[e] # plan)

(* _accepted_by_current_evidence: the evidence is of the plan in force.    *)
Accepted(e) == evidence[e] = "given" /\ payload[e].version = plan

(* _finalize_run of the evidence-bound ledger, which asks a success with   *)
(* acceptance criteria for its evidence, and of the daemon's own ledger,   *)
(* which knows neither plans nor items.                                    *)
Settlement(p) ==
    LET e == local[p].target IN
    IF local[p].base THEN <<"reply", "save">>
    ELSE IF evidence[e] # "none" /\ verdict[e] = "success"
    THEN <<"reply", "save", "saveitem", "evidence">>
    ELSE <<"reply", "save", "saveitem">>

Judge(p) ==
    LET e == local[p].target IN
    /\ At(p, "judge")
    /\ IF local[p].base \/ ~IsStale(e)
       THEN GoAs(p, Settlement(p) \o Rest(p), "fresh")
       ELSE IF run[e] = "stale_finalized" THEN Next1(p)
       ELSE GoAs(p, <<"saveitem", "save">> \o Rest(p), "stale")
    /\ Frame /\ UNCHANGED <<store, ledger>>

(* The final message; settling keeps one that is there.                    *)
Reply(p) ==
    LET e == local[p].target
        said == IF local[p].how = "cancelled" THEN "cancelled"
                ELSE IF verdict[e] = "success" THEN "success" ELSE "failure" IN
    /\ At(p, "reply")
    /\ IF run[e] = "finalized"
       THEN Go(p, Tail(Rest(p))) /\ UNCHANGED reply
       ELSE /\ reply' = IF reply[e] = "none" THEN [reply EXCEPT ![e] = said]
                                             ELSE reply
            /\ Next1(p)
    /\ Frame
    /\ UNCHANGED <<store, plan, ingress, messages, payload, run, bound, item, evidence>>

SaveFinal(p) ==
    /\ At(p, "save")
    /\ run' = [run EXCEPT ![local[p].target] =
                  IF local[p].how = "stale" THEN "stale_finalized" ELSE "finalized"]
    /\ Next1(p) /\ Frame
    /\ UNCHANGED <<store, plan, ingress, messages, payload, bound, item, evidence, reply>>

(* The item of the run; a cancelled run leaves it as it is.                *)
SaveItem(p) ==
    LET e == local[p].target IN
    /\ At(p, "saveitem")
    /\ item' = IF bound[e] = 0 THEN item
               ELSE IF local[p].how = "stale" THEN [item EXCEPT ![e] = "superseded"]
               ELSE IF item[e] = "completed" THEN item
               ELSE [item EXCEPT ![e] = IF verdict[e] = "success" THEN "completed"
                                                                  ELSE "blocked"]
    /\ Next1(p) /\ Frame
    /\ UNCHANGED <<store, plan, ingress, messages, payload, run, bound, evidence, reply>>

(* Mutant of CheckEvidence: the acceptance is not looked for.              *)
CheckNoEvidence(p) ==
    LET e == local[p].target IN
    /\ At(p, "evidence")
    /\ item' = IF item[e] = "completed" THEN [item EXCEPT ![e] = "blocked"]
                                        ELSE item
    /\ Next1(p) /\ Frame
    /\ UNCHANGED <<store, plan, ingress, messages, payload, run, bound, evidence, reply>>

(* A completed item whose criteria nobody has verified is blocked again.   *)
CheckEvidence(p) ==
    LET e == local[p].target IN
    /\ At(p, "evidence")
    /\ item' = IF item[e] = "completed" /\ ~Accepted(e)
               THEN [item EXCEPT ![e] = "blocked"] ELSE item
    /\ Next1(p) /\ Frame
    /\ UNCHANGED <<store, plan, ingress, messages, payload, run, bound, evidence, reply>>

(* reconcile_cancelled_runs, one active run after the other.               *)
Sweep(p) ==
    LET due == {e \in Active : verdict[e] = "cancelled"} IN
    /\ At(p, "sweep")
    /\ IF due = {} THEN Next1(p)
       ELSE \E e \in due :
                Become(p, [About(p, e, "cancelled") EXCEPT
                              !.todo = <<"reply", "save">> \o local[p].todo])
    /\ Frame /\ UNCHANGED <<store, ledger>>

(* _finalize_completed_runs, one run with a result after the other.        *)
Collect(p) ==
    LET kinds == IF local[p].base THEN {"active"} ELSE {"active", "stale"}
        due == {e \in Events : run[e] \in kinds /\ verdict[e] # "none"} IN
    /\ At(p, "collect")
    /\ IF due = {} THEN Next1(p)
       ELSE \E e \in due : GoFor(p, <<"judge">> \o local[p].todo, e)
    /\ Frame /\ UNCHANGED <<store, ledger>>

(* project_work_outcome: work of the plan in force has a summary when it   *)
(* is blocked or partly completed.                                         *)
Summarised(e) ==
    /\ run[e] \notin {"none"} \cup Stale
    /\ bound[e] # 0 /\ payload[e].version = plan
    /\ item[e] = "blocked" \/ (BlockedChildren /\ item[e] = "running")

(* progress of the control: the outcome is read, then the ledger is asked; *)
(* at the end the outcome of finalized work is projected.                  *)
Look(p) ==
    LET e == local[p].target IN
    /\ At(p, "look")
    /\ IF verdict[e] # "cancelled" THEN Go(p, <<"result">>)
       ELSE GoAs(p, IF run[e] = "finalized" THEN <<"project">>
                    ELSE <<"reply", "save", "project">>, "cancelled")
    /\ Frame /\ UNCHANGED <<store, ledger>>

Result(p) ==
    LET e == local[p].target IN
    /\ At(p, "result")
    /\ Go(p, IF run[e] = "finalized" THEN <<"project">>
             ELSE IF verdict[e] # "none" THEN <<"judge", "project">>
             ELSE <<>>)
    /\ Frame /\ UNCHANGED <<store, ledger>>

Project(p) ==
    /\ At(p, "project")
    /\ Go(p, IF Summarised(local[p].target) THEN <<"rewrite">> ELSE <<>>)
    /\ Frame /\ UNCHANGED <<store, ledger>>

(* Finalized work whose message is not its summary yet.                    *)
Unsaid == {e \in Events : /\ run[e] = "finalized" /\ Summarised(e)
                          /\ reply[e] \notin {"none", "blocked"}}

(* _reconcile_thread_outcomes, one finalized run after the other.          *)
Outcomes(p) ==
    /\ At(p, "outcomes")
    /\ IF Unsaid = {} THEN Next1(p)
       ELSE \E e \in Unsaid : GoFor(p, <<"rewrite">> \o local[p].todo, e)
    /\ Frame /\ UNCHANGED <<store, ledger>>

(* _reconcile_terminal_message: the summary replaces the final message.    *)
Rewrite(p) ==
    LET e == local[p].target IN
    /\ At(p, "rewrite")
    /\ reply' = IF run[e] = "finalized" /\ reply[e] # "none"
                THEN [reply EXCEPT ![e] = "blocked"] ELSE reply
    /\ Next1(p) /\ Frame
    /\ UNCHANGED <<store, plan, ingress, messages, payload, run, bound, item, evidence>>

(* cancel: the run is read, then the store is asked for the stop.          *)
Stop(p) ==
    LET e == local[p].target IN
    /\ At(p, "stop")
    /\ IF run[e] = "active" \/ verdict[e] = "cancelled"
       THEN Next1(p) /\ Frame /\ UNCHANGED <<store, ledger>>
       ELSE Raise(p)

Ask(p) ==
    LET e == local[p].target IN
    /\ At(p, "ask")
    /\ IF status[e] = "done" /\ verdict[e] # "cancelled"
       THEN Raise(p)
       ELSE /\ stopReq' = IF status[e] = "done" THEN stopReq ELSE stopReq \cup {e}
            /\ Next1(p) /\ Frame /\ UNCHANGED <<status, verdict, ledger>>

----------------------------------------------------------------------------
(* reconcile_ingress_checkpoints: one row after the other, each part only  *)
(* when it is missing.                                                     *)

Repair(p) ==
    /\ At(p, "repair")
    /\ IF ingress = {} THEN Next1(p)
       ELSE \E e \in ingress : GoFor(p, RepairRow \o local[p].todo, e)
    /\ Frame /\ UNCHANGED <<store, ledger>>

RepairMessage(p) ==
    /\ At(p, "rmessage")
    /\ messages' = messages \cup {local[p].target}
    /\ Next1(p) /\ Frame
    /\ UNCHANGED <<store, plan, ingress, payload, run, bound, item, evidence, reply>>

(* Mutant of RepairEvent: the event is enqueued whether or not it exists.  *)
RepairEventAgain(p) ==
    /\ At(p, "revent")
    /\ Go(p, <<"renqueue">> \o Rest(p))
    /\ Frame /\ UNCHANGED <<store, ledger>>

RepairEvent(p) ==
    /\ At(p, "revent")
    /\ Go(p, (IF status[local[p].target] = "none" THEN <<"renqueue">> ELSE <<>>)
                 \o Rest(p))
    /\ Frame /\ UNCHANGED <<store, ledger>>

(* enqueue_event replaces the row whatever it holds.                       *)
Enqueued(e) == [status EXCEPT ![e] = "pending"]

RepairEnqueue(p) ==
    /\ At(p, "renqueue")
    /\ status' = Enqueued(local[p].target)
    /\ Next1(p) /\ Frame /\ UNCHANGED <<verdict, stopReq, ledger>>

RepairRun(p) ==
    /\ At(p, "rrun")
    /\ run' = IF run[local[p].target] = "none"
              THEN [run EXCEPT ![local[p].target] = "active"] ELSE run
    /\ Next1(p) /\ Frame
    /\ UNCHANGED <<store, plan, ingress, messages, payload, bound, item, evidence, reply>>

RepairDelete(p) ==
    /\ At(p, "rdelete")
    /\ ingress' = ingress \ {local[p].target}
    /\ Next1(p) /\ Frame
    /\ UNCHANGED <<store, plan, messages, payload, run, bound, item, evidence, reply>>

(* reconcile_run_plan_bindings.                                            *)
BoundAll ==
    [e \in Events |->
        IF run[e] # "none" /\ bound[e] = 0 /\ item[e] # "none"
        THEN payload[e].version ELSE bound[e]]

BindAll(p) ==
    /\ At(p, "bindall")
    /\ bound' = BoundAll
    /\ Next1(p) /\ Frame
    /\ UNCHANGED <<store, plan, ingress, messages, payload, run, item, evidence, reply>>

----------------------------------------------------------------------------
(* Starting work.                                                          *)

(* A message to a thread with active work is steering.  Of several active  *)
(* runs, one whose event is processing goes first, then one pending.       *)
Attention(e) == CASE status[e] = "processing" -> 0
                  [] status[e] = "pending" -> 1
                  [] OTHER -> 2

Route(c) ==
    /\ At(c, "route")
    /\ IF Active = {} THEN MayStart(c) /\ Go(c, StartScript)
       ELSE \E e \in Active :
                /\ \A f \in Active : Attention(e) <= Attention(f)
                /\ GoSteer(c, <<"await">>, e)
    /\ Frame /\ UNCHANGED <<store, ledger>>

(* The item is saved before anything else.                                 *)
NewItem(c) ==
    /\ At(c, "item")
    /\ item' = [item EXCEPT ![local[c].own] = "running"]
    /\ payload' = [payload EXCEPT ![local[c].own].version = plan]
    /\ Next1(c) /\ Frame
    /\ UNCHANGED <<store, plan, ingress, messages, run, bound, evidence, reply>>

(* Mutant of Check: nothing is refused.                                    *)
CheckNothing(c) == At(c, "check") /\ Next1(c) /\ Frame
                   /\ UNCHANGED <<store, ledger>>

(* A second active run is refused; the unbound item is taken back.         *)
Check(c) ==
    LET e == local[c].own IN
    /\ At(c, "check")
    /\ IF Active = {}
       THEN Next1(c) /\ UNCHANGED <<item, bound, payload>>
       ELSE /\ local' = [local EXCEPT ![c] = Idle]
            /\ bound' = IF local[c].base THEN bound ELSE BoundAll
            /\ item' = [item EXCEPT ![e] = "none"]
            /\ payload' = [payload EXCEPT ![e].version = 0]
    /\ Frame
    /\ UNCHANGED <<store, plan, ingress, messages, run, evidence, reply>>

SaveRow(c) ==
    /\ At(c, "row")
    /\ ingress' = ingress \cup {local[c].own}
    /\ Next1(c) /\ Frame
    /\ UNCHANGED <<store, plan, messages, payload, run, bound, item, evidence, reply>>

AppendMessage(c) ==
    /\ At(c, "message")
    /\ messages' = messages \cup {local[c].own}
    /\ Next1(c) /\ Frame
    /\ UNCHANGED <<store, plan, ingress, payload, run, bound, item, evidence, reply>>

Enqueue(c) ==
    /\ At(c, "enqueue")
    /\ status' = Enqueued(local[c].own)
    /\ Next1(c) /\ Frame /\ UNCHANGED <<verdict, stopReq, ledger>>

(* _save_run replaces the state of an existing row.                        *)
SaveRun(c) ==
    /\ At(c, "run")
    /\ run' = [run EXCEPT ![local[c].own] = "active"]
    /\ Next1(c) /\ Frame
    /\ UNCHANGED <<store, plan, ingress, messages, payload, bound, item, evidence, reply>>

DeleteRow(c) ==
    /\ At(c, "unrow")
    /\ ingress' = ingress \ {local[c].own}
    /\ Next1(c) /\ Frame
    /\ UNCHANGED <<store, plan, messages, payload, run, bound, item, evidence, reply>>

Bind(c) ==
    /\ At(c, "bind")
    /\ bound' = [bound EXCEPT ![local[c].own] = payload[local[c].own].version]
    /\ local' = [local EXCEPT ![c] = Idle] /\ Frame
    /\ UNCHANGED <<store, plan, ingress, messages, payload, run, item, evidence, reply>>

(* submit waits for the result and settles it in the daemon's own ledger.  *)
Await(c) ==
    /\ At(c, "wait")
    /\ verdict[local[c].own] # "none"
    /\ GoFor(c, <<"judge", "collect">>, local[c].own)
    /\ Frame /\ UNCHANGED <<store, ledger>>

----------------------------------------------------------------------------
(* Steering, under the cycle lock.                                         *)

(* _assert_steerable_resident_state: no stop on file, no other event at    *)
(* the checkpoint.                                                         *)
Steerable(e) ==
    /\ e \notin stopReq
    /\ \A f \in Events \ {e} : status[f] # "processing"

(* Work that ended while the message waited is not steered: a stop wins,   *)
(* anything else gets a fresh start.                                       *)
Decide(c) ==
    LET e == local[c].old IN
    /\ At(c, "await") /\ lock = NoOne
    /\ IF verdict[e] = "cancelled" THEN Go(c, <<"sweep">>) /\ UNCHANGED lock
       ELSE IF verdict[e] # "none"
       THEN /\ MayStart(c) /\ UNCHANGED lock
            /\ Go(c, <<"collect">> \o StartScript)
       ELSE IF Steerable(e) /\ run[e] = "active"
       THEN MayStart(c) /\ Go(c, SteerScript) /\ lock' = c
       ELSE local' = [local EXCEPT ![c] = Idle] /\ UNCHANGED lock
    /\ UNCHANGED <<store, ledger, up, crashes>>

SupersededBefore(version) ==
    [e \in Events |-> IF payload[e].version < version /\ item[e] \in OpenItem
                      THEN "superseded" ELSE item[e]]

(* Mutant of NextPlan: two versions on.                                    *)
NextPlanButOne == plan + 2

NextPlan == plan + 1

(* _prepare_steering_ingress: one transaction.                             *)
Prepare(c) ==
    LET old == local[c].old
        e == local[c].own IN
    /\ At(c, "prepare")
    /\ IF run[old] # "active" THEN Raise(c)
       ELSE /\ plan' = NextPlan
            /\ run' = [run EXCEPT ![old] = "stale"]
            /\ payload' = [payload EXCEPT ![e] = [version |-> NextPlan,
                                                  prev |-> old]]
            /\ item' = [SupersededBefore(NextPlan) EXCEPT ![e] = "running"]
            /\ ingress' = ingress \cup {e}
            /\ Next1(c) /\ Frame
            /\ UNCHANGED <<store, messages, bound, evidence, reply>>

(* _supersede_resident_event: the old event is claimed and closed.         *)
Supersede(p) ==
    LET e == local[p].old IN
    /\ At(p, "claim")
    /\ IF status[e] = "pending"
       THEN status' = [status EXCEPT ![e] = "processing"] /\ Next1(p)
       ELSE UNCHANGED status /\ Next1(p)
    /\ Frame /\ UNCHANGED <<verdict, stopReq, ledger>>

(* complete_event: a stop on file turns the verdict; a second outcome is   *)
(* refused.                                                                *)
(* Mutant of Verdict: the stop on file is not read.                        *)
VerdictAnyway(e, v) == v
Verdict(e, v) == IF e \in stopReq THEN "cancelled" ELSE v

CloseOld(p) ==
    LET e == local[p].old IN
    /\ At(p, "supersede")
    /\ IF status[e] = "processing" /\ verdict[e] # "none" THEN Raise(p)
       ELSE /\ IF status[e] = "done" THEN UNCHANGED store
               ELSE /\ status' = [status EXCEPT ![e] = "done"]
                    /\ verdict' = [verdict EXCEPT ![e] = Verdict(e, "failure")]
                    /\ stopReq' = stopReq \ {e}
            /\ GoFor(p, Rest(p), e) /\ Frame /\ UNCHANGED ledger

Release(c) ==
    /\ At(c, "release")
    /\ lock' = NoOne
    /\ local' = [local EXCEPT ![c] = Idle]
    /\ UNCHANGED <<store, ledger, up, crashes>>

----------------------------------------------------------------------------
(* Constructors.                                                           *)

(* reconcile_steering_transitions, one unfinished transition after the     *)
(* other; a previous run in any other state is an error.                   *)
Unfinished ==
    {e \in Events : /\ run[e] # "none" /\ payload[e].prev # NoEvent
                    /\ run[payload[e].prev] # "stale_finalized"}

ReconcileSteering ==
    /\ At(Boot, "steering")
    /\ IF Unfinished = {}
       THEN Next1(Boot) /\ Frame /\ UNCHANGED <<store, ledger>>
       ELSE \E e \in Unfinished :
            LET old == payload[e].prev IN
            IF run[old] \notin {"active", "stale"} THEN Raise(Boot)
            ELSE /\ run' = [run EXCEPT ![old] = "stale"]
                 /\ item' = IF run[old] = "active"
                            THEN SupersededBefore(payload[e].version) ELSE item
                 /\ GoSteer(Boot, <<"claim", "supersede", "judge">> \o local[Boot].todo, old)
                 /\ Frame
                 /\ UNCHANGED <<store, plan, ingress, messages, payload, bound, evidence, reply>>

(* reconcile_missing_ingress_runs.                                         *)
Adopt ==
    /\ At(Boot, "adopt")
    /\ run' = [e \in Events |->
                  IF status[e] # "none" /\ run[e] = "none" /\ e \in messages
                  THEN "active" ELSE run[e]]
    /\ Next1(Boot) /\ Frame
    /\ UNCHANGED <<store, plan, ingress, messages, payload, bound, item, evidence, reply>>

Serve ==
    /\ At(Boot, "serve")
    /\ up' = "up" /\ local' = [local EXCEPT ![Boot] = Idle]
    /\ UNCHANGED <<store, ledger, lock, crashes>>

(* recover_interrupted_events, then the ledgers are constructed.           *)
Restart ==
    /\ up = "down"
    /\ status' = [e \in Events |-> IF status[e] = "processing" THEN "pending"
                                                              ELSE status[e]]
    /\ up' = "booting"
    /\ Go(Boot, BootScript)
    /\ UNCHANGED <<verdict, stopReq, ledger, lock, crashes>>

Crash ==
    /\ up \in {"up", "booting"} /\ crashes < MaxCrashes
    /\ crashes' = crashes + 1
    /\ up' = "down" /\ lock' = NoOne
    /\ local' = [p \in Procs |-> Idle]
    /\ UNCHANGED <<store, ledger>>

----------------------------------------------------------------------------
(* Calls, and the life thread.                                             *)

Call(c, l) ==
    /\ up = "up" /\ local[c].todo = <<>>
    /\ Become(c, l)
    /\ Frame /\ UNCHANGED <<store, ledger>>

(* A request for work, the new event e, and one about the event e.         *)
Work(todo, e) == [Idle EXCEPT !.todo = todo, !.own = e]
Query(todo, e) == [Idle EXCEPT !.todo = todo, !.target = e]

Start(c) ==
    /\ "start" \in Role[c]
    /\ \E e \in Unused(c) : Call(c, Work(<<"sweep", "route">>, e))
(* A query with nothing left to settle only reads and is left out.  The    *)
(* second pass of get_snapshot is a snapshot of its own.                   *)
Progress(c, e) ==
    /\ "progress" \in Role[c]
    /\ run[e] # "none" /\ (run[e] = "finalized" => e \in Unsaid)
    /\ Call(c, Query(<<"look">>, e))
Snapshot(c) ==
    /\ "snapshot" \in Role[c] /\ Active \cup Unsaid # {}
    /\ Call(c, [Idle EXCEPT !.todo = <<"sweep", "collect", "outcomes">>])
Cancel(c, e) ==
    /\ "cancel" \in Role[c] /\ run[e] # "none"
    /\ Call(c, Query(<<"stop", "ask", "look">>, e))
Submit(c) ==
    /\ "submit" \in Role[c] /\ MayStart(c)
    /\ \E e \in Unused(c) :
        Call(c, [Work(RecoverableStart \o <<"wait">>, e) EXCEPT !.base = TRUE])

(* A life step runs under the cycle lock; it takes the next event, or ends *)
(* the one at the checkpoint.                                              *)
Take(e) ==
    /\ up = "up" /\ lock = NoOne
    /\ status[e] = "pending"
    /\ \A f \in Events : status[f] # "processing"
    /\ status' = [status EXCEPT ![e] = "processing"]
    /\ UNCHANGED <<verdict, stopReq, ledger, up, lock, local, crashes>>

End(e) ==
    /\ up = "up" /\ lock = NoOne
    /\ status[e] = "processing" /\ verdict[e] = "none"
    /\ \E v \in {"success", "failure"} :
        verdict' = [verdict EXCEPT ![e] = Verdict(e, v)]
    /\ status' = [status EXCEPT ![e] = "done"]
    /\ stopReq' = stopReq \ {e}
    /\ UNCHANGED <<ledger, up, lock, local, crashes>>

(* A step of e's own plan while it is being worked on.                     *)
Working(e) ==
    /\ Accepting /\ up = "up" /\ lock = NoOne
    /\ status[e] = "processing" /\ verdict[e] = "none"
    /\ run[e] = "active" /\ item[e] # "none"
    /\ payload[e].version = plan /\ bound[e] = plan
    /\ UNCHANGED <<store, plan, ingress, messages, payload, run, bound, reply>>
    /\ UNCHANGED <<up, lock, local, crashes>>

(* initialize_root_acceptance, recover_steered_root_acceptance.            *)
AskEvidence(e) ==
    /\ evidence[e] = "none"
    /\ evidence' = [evidence EXCEPT ![e] = "asked"]
    /\ Working(e) /\ UNCHANGED item

(* accept_root_with_current_evidence.                                      *)
GiveEvidence(e) ==
    /\ evidence[e] = "asked"
    /\ evidence' = [evidence EXCEPT ![e] = "given"]
    /\ item' = [item EXCEPT ![e] = "completed"]
    /\ Working(e)

Step(p) ==
    \/ Judge(p) \/ Reply(p) \/ SaveFinal(p) \/ SaveItem(p) \/ CheckEvidence(p)
    \/ Sweep(p)
    \/ Repair(p) \/ RepairMessage(p) \/ RepairEvent(p) \/ RepairEnqueue(p)
    \/ RepairRun(p) \/ RepairDelete(p) \/ BindAll(p)
    \/ Supersede(p) \/ CloseOld(p)

ClientStep(c) ==
    \/ Step(c) \/ Collect(c) \/ Look(c) \/ Result(c) \/ Project(c)
    \/ Outcomes(c) \/ Rewrite(c) \/ Stop(c) \/ Ask(c)
    \/ Route(c) \/ NewItem(c) \/ Check(c) \/ SaveRow(c) \/ AppendMessage(c)
    \/ Enqueue(c) \/ SaveRun(c) \/ DeleteRow(c) \/ Bind(c) \/ Await(c)
    \/ Decide(c) \/ Prepare(c) \/ Release(c)

BootStep == Step(Boot) \/ ReconcileSteering \/ Adopt \/ Serve

Life ==
    \E e \in Events : Take(e) \/ End(e) \/ AskEvidence(e) \/ GiveEvidence(e)

Next ==
    \/ \E c \in Clients :
        \/ ClientStep(c) \/ Start(c) \/ Snapshot(c) \/ Submit(c)
        \/ \E e \in Events : Progress(c, e) \/ Cancel(c, e)
    \/ BootStep \/ Life \/ Restart \/ Crash

Spec == Init /\ [][Next]_vars

HasSteps(p) == local[p].todo # <<>>

(* A call that was made and a constructor that runs go on; the process is  *)
(* started again; the life thread keeps stepping.                          *)
FairSpec ==
    /\ Spec
    /\ \A c \in Clients : WF_vars(HasSteps(c) /\ ClientStep(c))
    /\ WF_vars(HasSteps(Boot) /\ BootStep)
    /\ WF_vars(Restart) /\ WF_vars(Life)

----------------------------------------------------------------------------
(* Properties.                                                             *)

(* Whenever the life thread may step, a superseded event is over, and the  *)
(* plan that replaced it has a run of its own, bound to it: a crash or a   *)
(* race in the middle of steering never lets the old plan run on           *)
(* (steer_active, reconcile_steering_transitions).                         *)
SteeringIsWhole ==
    up = "up" /\ lock = NoOne =>
        /\ \A e \in Events : run[e] \in Stale => status[e] = "done"
        /\ plan > 1 =>
              \E e \in Events : /\ payload[e].version = plan /\ bound[e] = plan
                                /\ payload[e].prev # NoEvent /\ run[e] # "none"

(* No queued event is without an owner: its run is there, or the ingress   *)
(* row that will make it (start, reconcile_ingress_checkpoints).           *)
EventIsOwned ==
    \A e \in Events : status[e] # "none" => e \in ingress \/ run[e] # "none"

(* An event with an outcome is not queued again (enqueue_event).           *)
DecidedStaysDone ==
    \A e \in Events : verdict[e] # "none" => status[e] = "done"

(* One conversation has one piece of active work (start).                  *)
OneActiveWork ==
    Cardinality({e \in Active : verdict[e] = "none"}) <= 1

(* The final message never says more than the outcome: a success is said   *)
(* of successes only, and one is called blocked only when criteria were    *)
(* set for it (_finalize_run, _reconcile_terminal_message).                *)
Honest(e, said) ==
    /\ said \in {"success", "cancelled"} => said = verdict[e]
    /\ said = "failure" => verdict[e] \in {"failure", "cancelled"}
    /\ said = "blocked" => \/ verdict[e] \in {"failure", "cancelled"}
                          \/ (verdict[e] = "success" /\ evidence[e] = "asked")

ReplyIsHonest == \A e \in Events : Honest(e, reply[e])

(* An accepted stop ends the event as cancelled, steered or not, unless a  *)
(* constructor raises and the process stays down                           *)
(* (request_event_cancellation, complete_event).                           *)
StopIsHonoured ==
    \A e \in Events :
        e \in stopReq ~> verdict[e] = "cancelled" \/ up = "broken"

(* A steering that has begun ends, whatever interrupts it, unless a        *)
(* constructor raises (reconcile_steering_transitions).                    *)
SteeringEnds ==
    \A e \in Events : run[e] = "stale" ~> run[e] # "stale" \/ up = "broken"

----------------------------------------------------------------------------
(* Statements of the code's texts that TLC refutes.                        *)

(* A stop that is on file first is not overridden by a correction          *)
(* (_steer_referenced_active_work).                                        *)
StopBeatsCorrection ==
    [][\A e \in Events :
        e \in stopReq /\ run[e] = "active" => run'[e] # "stale"]_vars

(* A cancelled outcome is not told as a failed result (progress of         *)
(* ResidentWorkControl).                                                   *)
CancelledIsNotFailed ==
    \A e \in Events : verdict[e] = "cancelled" => reply[e] # "failure"

(* No success without its evidence is settled as completed                 *)
(* (accept_root_with_current_evidence).                                    *)
SettledSuccessIsVerified ==
    \A e \in Events :
        /\ run[e] = "finalized" /\ verdict[e] = "success"
        /\ \A p \in Procs : local[p].target # e
        => ~(item[e] = "completed" /\ evidence[e] = "asked")

(* The constructors always finish what a crash interrupted.                *)
ConstructorsFinish == up # "broken"
=============================================================================
