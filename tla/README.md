# A verification project for the ZN resident

The repository is a personal agent ("ZN") that runs as one long-lived *resident*
process (`src/runtime/python/zn_agent/core/`).  Users and routines enqueue
*events*; the resident takes one event at a time through small, checkpointed
steps, moves the outside world through a guarded *body*, and publishes one
verdict per event.  This directory holds TLA+ modules of that core, the TLC
configurations that check them and theorems that TLAPS checks.

File names below are relative to `src/runtime/python/zn_agent/core/`.

## 1. Inventory

| component | state it keeps | operations | interacts with | what makes it correct |
|---|---|---|---|---|
| **durable event store** (`store.py`) | sqlite tables `events`, `event_outcomes`, `event_cancellation_requests`, the one-row `working_state` | enqueue, peek, claim, complete, request/clear cancellation, cancel/resolve uncertain event, recover interrupted events | everyone; one connection, one lock, each operation one transaction | one verdict per event, for ever; a stop request on file wins; a processing event is always the one in the checkpoint |
| **side-effect attempt ledger and guarded body** (`side_effect_attempts.py`, `side_effect_body.py`) | table `side_effect_attempts`: one row per attempted movement | start (write-ahead), observe, resolve, replay check | called by the resident's action and verification steps | no movement is sent while an earlier one of the same event is unsettled; a movement of unknown outcome is never forgotten |
| **resident cognition cycle** (`resident.py`, `embodied_resident.py`) | thread-local: event in hand, result of the step; durable: the checkpoint | `live_once` / `run_once`: claim, read the stop request, load checkpoint, one step, read it again, publish | store, body, other threads under `_cycle_lock` | progress by one checkpointed step; "body" verdicts rest on evidence; exceptions end in a verdict or keep the recovery checkpoint |
| **uncertain-effect recovery and user decisions** (`focused_modern_text_resident.py`, `recovery_control.py`) | the recovery part of the checkpoint, the status of one attempt | re-observe, hold, retry after proven absence, user cancel / retry / confirm | store, ledger, world | never retries an effect that happened; held work can be decided |
| **service lease and process life** (`service.py`, `daemon.py`, `resident_server.py`) | `resident_lease` row, the endpoint file, threads, browser authority | construct (and recover events), acquire, heartbeat, lose, retire, die | every process over the same database | one live resident per database, and it can be found |
| **capability execution and its journal** (`capabilities.py`, `side_effect_journal.py`, `capability_recovery_resident.py`) | rows of `side_effect_attempts` for compiled code, `capability_execution` in the checkpoint | start, run, observe with the checkpoint, resume, refuse | orientation step | code that may not be replayed runs once |
| **resident accounting and completion observation** (`resident_accounting.py`, `completion_observation.py`) | `resident_event_accounting`, `runtime_metrics`, `resident_completion_observations` | account, publish, observe, repair | every way an event ends | an event is one task; books and verdict agree; an observation that began is made |
| **Work ledger and control** (`work.py`, `recovery_bounded_work.py`, `evidence_bound_work.py`, `work_control.py`, `work_restore_control.py`, `outcome_aware_work_control.py`) | threads, messages, runs, items with their acceptance, `work_ingress_checkpoints` | start, submit, progress, snapshot, stop, collect, accept, rewrite a final message, repair | store, from connection threads; no common lock | one active work per conversation; the transcript never says more than the outcome; every event has an owner |
| **Work steering** (`steerable_work.py`) | `work_plan_state`, `work_run_plans` | steer, supersede, reconcile | Work ledger, cycle lock | one current plan; a superseded event ends; a stop is honoured |
| **channels** (`channel_runtime.py`, `channel_delivery.py`, `telegram_resident_channel.py`) | `channel_poll_checkpoints`, `channel_delivery_routes`, the adapter's offset | poll, ingest (`start_external`), save the cursor, deliver, mark | provider, Work ledger, store | no percept is confirmed before it is routed; nothing goes out that is not on record |
| **approvals** (`approval_cards.py`, `approval_review.py`, the approval stage of `action_execution.py`) | `approval_requests`, rules, the audit log, the trash | gate, spend, execute, decide, reconsider, rule, undo | executors, RPC threads, the workspace | one approval, one execution; an end is final; undo destroys nothing |
| **other movements' recovery** (`atomic_overwrite_resident.py`, `overwrite_recovery_resident.py`, `terminal_input_recovery_resident.py`) | their recovery checkpoints | re-observe, complete, hold | same frame as the core | as the core |
| **Work teams** (`team_*.py`), **will and routines** (`will.py`, `routine.py`, ...) | their own tables | task leases, scheduled enqueues | enqueue events | see the plan |
| **life, memory, learning, routing, browser, desktop, command line** | histories, heuristics, presentation | | | not protocols |

### Hard behaviours

* **Crashes.**  The process may die between any two transactions and while the
  body is moving.  What it knew is gone; the checkpoint, the ledger and the
  world may disagree.
* **Interleaving.**  `enqueue` and `request_event_cancellation` run in RPC
  threads and do not take `_cycle_lock`, so a stop request lands between any two
  steps of the life thread.  The user's cancel / retry / confirm take the lock
  and land between pulses.
* **Failing steps.**  A step may raise after its side effect; the `except`
  clause of `run_once` then decides from the checkpoint what to keep.  What
  raises before that `try` (the claim, the stop-request read, the first
  checkpoint) has no such clause: `_life_loop` swallows it, and the claimed event
  stays behind.
* **A singleton checkpoint.**  There is one `working_state` row.  Taking up
  another event overwrites it.
* **Ordering.**  `peek_next_event` prefers the event of the checkpoint, then
  priority, then age.
* **Several processes.**  A second resident over the same database runs its
  constructor, which writes, before it is refused the lease; a dead one leaves
  its lease row and endpoint file behind.
* **Scripts of transactions.**  Starting, steering, settling and ingesting Work
  are sequences of small transactions on connection threads without a common
  lock; a crash or another connection fits between any two, and constructors
  repair what is left.
* **At-least-once partners.**  A channel's provider redelivers what was not
  confirmed, and a send may have succeeded although nobody knows.
* **Users racing executors.**  Decisions, rules, expiry and executions meet on
  one approval card.

Every such hazard is listed at its line in `PROJECT.json`, with the properties
that would catch it, or the reason why none does yet.

## 2. Modules

| module | models | state |
|---|---|---|
| `EventStore` | one operator per committed transaction or read of `store.py` and `side_effect_attempts.py` | `status`, `older`, `outcome`, `cancelReq`, `working`, `ledger` |
| `ResidentLife` (extends `EventStore`) | the life thread of one resident, the users around it, crashes, the outside world | `pc`, `hand`, `cur`, `ret`, `result` (lost in a crash), `crashes`, `world`, and the history variables `dispatched`, `applied`, `edited` |
| `GuardedEffect` | the abstract promise: a movement is sent only when every earlier one of its event was given free, never twice, never after the verdict | `moved`, `free`, `closed` |
| `CompletionAccounting` | from orientation to the books: memory, a compiled capability, investigation and cognition; checkpoint, accounting, verdict, observation by Life; two events with one checkpoint | the store's rows, `attempt`, `books`, `tasks`, `journal`, the thread, and the history `executed`, `returned`, `observed` |
| `ResidentLease` | several processes over one database, from the constructor to the exit | `lease`, `age`, `endpoint`, the event rows, `phase`, `authority`, the history `orderly` |
| `WorkSteering` | the Work of one conversation: connections that start, submit, poll, stop and steer; the settling of runs and the rewriting of final messages; the constructors; the life loop | the store's rows, plan, ingress rows, runs, items, `evidence`, replies, `lock`, one script per process |
| `ChannelDelivery` | one channel's thread, its provider, its ledger, and start-up repair | cursors, routes, ingress rows, events, runs, replies, the thread |
| `ApprovalCards` | the cards of one action (overwriting one workspace file) with executors and users | requests, rules, audit, file, trash, one `local` per thread |
| `MC...` | instances of the modules for TLC | |
| `ResidentLife_proofs` | types, stop requests, final verdicts | |
| `NoReplay_proofs` | the replay guard for first-in-first-out queues | |
| `Evidence_proofs` | verdicts that rest on evidence, effects in the world, attempts in sight | |
| `ResidentLease_proofs` | types, one resident, its authority and endpoint | |
| `CompletionAccounting_proofs` | types, code that may not be replayed, one task per event, true books | |
| `WorkSteering_proofs` | types, owners, single work, replies, whole steerings | |
| `ChannelDelivery_proofs` | types, acknowledged percepts, ended events, what was sent | |
| `ApprovalCards_proofs` | approvals and their audit, undos | |

The core is composed twice: `ResidentLife` extends `EventStore` and implements
`GuardedEffect`.  The other modules take from it the operations of the store
they use (claim, complete with the stop request read again, recover at a
restart) and leave the inside of a step to it: in `WorkSteering` and
`ChannelDelivery` the life loop takes and ends events, in `ResidentLease` a step
begins and ends.

### How the model corresponds to the code

* **Events and attempts.**  An event carries its action intent, so the
  signature hash by which the guard recognises "the same movement" is identified
  with the event and its use (`move`, or `probe` for a postcondition command,
  which goes through the same `body.act`).  `Contract` says which postcondition
  the event has: none, a text, an append with a text, an append whose text the
  resident derived from a baseline it read, or a command.
* **`status` and `outcome`** are the `events` and `event_outcomes` rows.
  `older` is the `created_at` order.  `cancelReq` is the set of stop requests.
  `ledger` is `side_effect_attempts`; a row is `free` until it is drawn.
* **`working`** is the `working_state` row: event, stage, and for recovery the
  decision it waits for and the attempt it is about.  `blocked` is the
  failed-evidence record that makes deliberation refuse a movement that failed
  under the same evidence.  The `*_completion` stages are one stage,
  `completion`.
* **`pc`** names the point between two transactions at which the life thread
  stands.  `pc = "idle"` is the only place where `_cycle_lock` is free; an
  operation that takes the lock has the guard `pc = "idle"`.
* **One pulse** is `Claim`, a read of the stop request (`StopWork`,
  `AbandonUncertain`, `AbandonRefused`), `LoadState`, another read, one step
  (`Orient`, `Investigate`, `Deliberate`, `Consult`, `RefuseReplay`/`Arm`/...,
  `VerifyText`/`ArmProbe`/..., a recovery step, or `ResumeCompletion`), a third
  read, and `EndStep` or `Finish`.  A pulse that raises during a step is
  `StepRaises`; one that raises before it, or after the verdict of a stop while
  its request is cleared, is `PulseRaises`.
* **A guarded movement** is `Arm` (the write-ahead row is committed), `Dispatch`
  (the body moves, or not, and returns, raises, or proves that nothing was
  sent), `ObserveReturn` or `LoseReturn`, `ProveAbsent`, `CheckpointMove`.  A
  crash fits between any two.
* **The world** has three texts per event: the one before the movement, the one
  asked for, and any other.
* **Capabilities and books** (`CompletionAccounting`).  `Checkpoint` is the part
  of `working_state` these steps read: `exec` is `capability_execution`, `due`
  the accounting descriptor saved with a completion.  `attempt` is the row of
  the event's last capability run, `books` the event/kind keys, `tasks` the
  counter of `runtime_metrics` split by event.  One action is one transaction;
  `running` and `watching` are the points at which foreign code runs.
* **Processes** (`ResidentLease`).  An instance is one process, started once;
  time is counted in heartbeat intervals (`Tick`), `age` is the age of the lease
  row.  A constructor reads the interrupted rows (`Boot`), writes each back
  (`RecoverRow`) and only then asks for the lease, in a read and a write
  (`ReadLease`, `WriteLease`).  `orderly` is a history variable: no step, start
  or join has outlasted a heartbeat interval and no two starts overlapped.  What
  is said of the lease is said until order is lost.
* **Work** (`WorkSteering`).  One conversation thread.  A call is a script of
  transactions in `local[p].todo`; the constructors run the same scripts as the
  process `Boot`.  An event identity stands for the event, its run, its item and
  its ingress row, which share the event's id in the code.  `Take` and `End` are
  the resident.  `Role` says which calls a connection makes.  A settlement is the
  steps `reply`, `save`, `saveitem` and, for a success with acceptance criteria,
  `evidence`, each a transaction; `project` and `rewrite` (or `outcomes` for a
  snapshot) are the outcome-aware control on top of it.  `evidence` is the
  acceptance of an item: `AskEvidence` sets criteria, `GiveEvidence` is the
  verifier that meets them; both are steps of the life loop, taken when
  `Accepting`.  `reply` is a final message by what it claims; both summaries of
  work that is not complete, "blocked" and "partially completed", are `"blocked"`.
  What the settling of a run looks for among child items is one constant,
  `BlockedChildren`: whether an item that still runs may have a blocked child.
* **Channels** (`ChannelDelivery`).  One channel thread stands at `pc`; a percept
  is its update number.  `context` is what a payload built now is bound to.
  `Finish`, `Elaborate` and the desktop's poll are single steps of the
  environment, and start-up repair is one step.
* **Approvals** (`ApprovalCards`).  One action triple; a request's identity is
  the order of `created_at`.  `local` holds, per thread, what it has read and not
  read again.  `denied` in it is a history: a denial stood when the gate looked.
* **Mutants.**  Operators whose comment starts with "Mutant of" are deliberately
  wrong variants.  No specification uses them; they show that a property can
  fail.

## 3. Runs

| run | instance | shows |
|---|---|---|
| `commands` | 2 commands, one with a text and one with a command postcondition, equal priority, 2 attempts, 1 crash, fairness | the claimed event is resumable; a started movement is tracked until its verdict; held work can be decided; verdicts are evidenced and final; stops win and end their work; refinement of `GuardedEffect` (`KeepsPromise`) |
| `appends` | 1 derived append, 3 attempts, 1 crash, raising steps, pulses lost after the claim, an outside editor | no blind replay; the world is changed twice only on the user's word; a settled effect is not armed again |
| `lease` | 3 processes on 2 hosts, a timeout of 2 intervals, crashes anywhere | in order: one resident acts, it alone has browser authority, it can be found |
| `books` | 2 events, one not replay safe, 2 crashes, 1 raising write, fairness | one task per event; verdict and books agree; unsafe code runs once; an observation that began is made |
| `steered` | 2 connections that start, submit and take snapshots, 3 events, 1 crash | steering ends whole; every event is owned; what is decided stays done; one active work |
| `stopped` | 2 connections, one that sends messages and one that polls and stops, acceptance criteria, 2 events, 1 crash, fairness | an accepted stop ends its event as cancelled, also when it lands inside a steering; a steering that began ends; no final message says more than the outcome |
| `delivered` | 3 updates, one dropped by `poll`, 2 contexts, rewritten payloads, 1 crash, 1 fault | the cursor never passes an unrouted percept; nothing is sent that is not on record; ended events stay ended |
| `answered` | 2 updates, 1 context, 1 crash, 1 fault, fairness | every percept is answered |
| `approved` | 2 executors, 1 user who decides, rules and undoes, 2 requests, 1 crash | one approval, one execution; only an allowed card executes; ends are final; the audit agrees |
| `undone` | 1 executor, 1 user, two contents, an editor, 1 request and rules, 1 crash | what a step of an undo takes out of the file is in the trash |

Two runs exhibit a disagreement between the code and what it says (`PROJECT.json`,
`findings`):

| run | statement | behaviour |
|---|---|---|
| `overtaken` | `focused_modern_text_resident.py:133` a confirmed effect is never moved again | after a restart a more urgent event takes the singleton checkpoint; the confirmed event starts afresh and its settled attempt blocks nothing |
| `newcomer` | `store.py:1173` "resident runtime restarted during processing" | the constructor of a second process returns the event the live resident is processing to the queue before it is refused the lease |

### Statements that do not hold

Other statements of comments, messages and tests that TLC refutes are kept as
definitions at the end of their modules, or are properties that hold only on the
instance of their run.  The middle column tells how to reproduce the
counterexample: start from the configuration of the module's run, change these
constants, and check the definition alone.

| definition | instance | what the code does |
|---|---|---|
| `ResidentLife!CancelledEffectIsAbandoned` | 1 event, 2 attempts, contract "none", 1 crash | `store.py:741` "uncertain side-effect cancellation requires cancel_uncertain_event", but the test looks at the checkpoint, which lags behind the ledger: a crash right after the dispatch leaves it at `native_action`, and a stop request publishes "cancelled" with the attempt `started` |
| `ResidentLife!HeldWorkIsResolvable` | contract "append" | `recovery_control.py:35` held work can be cancelled: recovery verifies the append and closes the attempt, the stop request read next wants an open one and raises, in every later pulse |
| `ResidentLife!ClaimedWorkIsResumable` | `UrgentSecond`, contract "none", 1 crash | `store.py:482` a processing event remains part of the situation: after a restart a more urgent event is claimed while the checkpoint names the interrupted one; a stop read before it has a checkpoint is refused, and nobody hands the event out again |
| `ResidentLife!PostconditionIsObservable` | contract "probe", 3 attempts, no crash | `embodied_resident.py:243` a later pulse re-observes reality: the second run of a postcondition command is refused as a replay without looking |
| `ResidentLife!StartedIsTracked` | `Faults = TRUE` | `side_effect_body.py:267`: a step that raises after a lost return and before the recovery checkpoint ends the event as a failure with its attempt `started` |
| `ResidentLife!ClaimedWorkIsResumable`, `StartedIsTracked`, `NoBlindReplay`, `SettledEffectNotRepeated`, `KeepsPromise` | `LostClaims = TRUE`, 2 events of equal priority, contract "none", 2 attempts, 1 crash | `resident.py:391`: claim, stop-request read and first checkpoint stand before the `try` of the step; an event whose pulse raises there stays `processing` under another checkpoint, nobody hands it out, and after a restart it is older than, and overwrites the checkpoint of, work whose effect is settled. With contract "derived" `EffectAppliedOnce` falls too |
| `ResidentLease!OneResident`, with `orderly` taken out | as `lease` | `service.py:17` "Single-instance": two processes read the free row before either replaces it (`store.py:1535`) |
| `ResidentLease!AuthorityUnderLease`, with `orderly` taken out | as `lease` | `service.py:84`: a step longer than the timeout blocks the heartbeat of the same loop, the lease is taken, and the old holder keeps its extension open until its next heartbeat |
| `CompletionAccounting!TaskCountedOnce` | `Overtaking = TRUE`, 1 crash | `resident_accounting.py:15` "once for one durable resident event fact": the key holds the kind, and an event whose checkpoint was overtaken may end another way |
| `CompletionAccounting!UnsafeRunsOnce` | `Overtaking = TRUE`, 1 crash | `capability_recovery_resident.py:61` an observed result suffices to resume: only started attempts block, so an observed one whose checkpoint is gone does not |
| `CompletionAccounting!VerdictIsAccounted`, with `faults = 0` taken out | `MaxFaults = 1` | `side_effect_journal.py:95`: when the write that records a success raises, the success is booked as a failure of the capability |
| `CompletionAccounting!OutcomeIsObserved` | 1 crash | `completion_observation.py:29` "at-least-once": the journal row is written after the verdict is committed; a crash in between leaves no row to repair |
| `WorkSteering!CancelledIsNotFailed` | as `stopped`, also without a crash | `work_control.py:20` a restart cannot "reinterpret a durable cancelled outcome as an ordinary failed Work result": `progress` reads no outcome, a cancellation is published, and the ordinary ledger settles it as a failed result |
| `WorkSteering!SettledSuccessIsVerified` | as `stopped` | `evidence_bound_work.py:1158` "neither model prose nor one executor success bit can complete criterion-bound Root Work directly": the base settlement saves the item of a success as completed before the missing evidence blocks it, and a crash in between leaves it completed; no constructor looks again. Without a crash it holds |
| `WorkSteering!ReplyIsHonest` | as `stopped`, `BlockedChildren = TRUE` | `work_outcome_summary.py:110`: a success is settled as finalized before its item is saved as completed; a poll in between that finds a blocked child rewrites the final message to "blocked", and no later poll takes that back, since a completed projection has no summary |
| `WorkSteering!ConstructorsFinish` | as `stopped`, or as `steered` | `steerable_work.py:688`: a poll (as cancelled) or the base ledger's submit (`work_restore_control.py:74`) settles a run that was steered meanwhile; the constructor then refuses the previous run's state (744) at every start |
| `WorkSteering!StopBeatsCorrection` | as `stopped` | `work_restore_control.py:799` "a later Stop is stronger": the stop is looked for once, before the steering transaction |
| `WorkSteering!StopIsHonoured`, with `up = "broken"` taken out | as `stopped` | `steerable_work.py:744`: the constructor that raises keeps the resident down, and the stop with it |
| `WorkSteering!DecidedStaysDone`, `OneActiveWork` | as `steered`, `Overlapping = TRUE` | `recovery_bounded_work.py:125` and `:395`: lookup and enqueue, check and run are separate transactions; a start that meets a repair queues a done event again, and two starts both pass the check |
| `ChannelDelivery!ReplayIsAccepted` | 1 update, 2 contexts, 1 crash, 1 fault | `recovery_bounded_work.py:288`: the payload of a replay is built anew and compared with the durable one; when workspace, policy or device frame have changed the batch is retried for good |
| `ChannelDelivery!StartRepairs` | 1 update, `Elaborating`, 2 contexts, 1 crash, 1 fault | `recovery_bounded_work.py:125`: an ingress row that outlives the rewriting of its event's payload makes the constructor raise (209) |
| `ChannelDelivery!CancelledIsTold` | 1 update | `work_control.py:20`: the channel asks the ordinary ledger, which writes a cancelled outcome as a failure (`channel_runtime.py:371`) |
| `ApprovalCards!StickyDeny` | calls "decide", "reconsider", "rule"; 2 requests | `approval_cards.py:17`: the gate looks at the newest request only, and after a reconsideration that is a pending one, which a rule outranks |
| `ApprovalCards!NoSilentReask` | calls "decide", "ask"; 2 requests | `approval_cards.py:23`: the RPC `approval_request` (`daemon.py:743`) makes a fresh card beside the denied one |
| `ApprovalCards!DecisionIsAudited` | 1 request, 1 crash | `approval_cards.py:42`: decision and audit entry are two transactions |
| `ApprovalCards!DiffIsWhatLands` | two contents, call "decide" | `approval_cards.py:67`: a card is found again by kind, scope and target, which hold the path and not the content |
| `ApprovalCards!UndoRestores` | two contents; calls "decide", "undo", "edit" | `approval_review.py:170`: the snapshot is read when the card is made, not when the action runs |
| `ApprovalCards!UndoRunsOnce` | two users, two contents; calls "decide", "undo" | `approval_cards.py:822`: the flag is set after the write, and its result is not looked at |
| `ApprovalCards!UndoDestroysNothing` | calls of `undone` and "gap" | `approval_review.py:21`: what an editor saves between the move to the trash and the write is replaced by the snapshot |
| `ApprovalCards!UndoDestroysNothing` | as `undone`, with two users | `approval_review.py:21`: two undos of one request race; an execution that lands between the two writes is replaced by the second one |
| `ApprovalCards!ConsumedHasRun` | 1 crash | `approval_cards.py:602`: the approval is spent before the action is dispatched |
| `ApprovalCards!OnePending` | two executors, 2 requests | `tests/zn_agent/core/test_approval_cards.py:95`: the SELECT runs outside the INSERT's transaction |

### Bounds

* `MaxCrashes` and `MaxFaults` bound crashes and raising writes, polls and
  sends.  One crash between any two steps reaches every half-done script; two in
  `books`, where what one crash leaves is what the second one interrupts.
* `Attempts` bounds movements and probes of `ResidentLife` (when all are drawn,
  `Arm` is disabled and other actions go on): one movement of unknown outcome
  and one more is the possible replay, a third is for a probe or for a retry
  after an authorised retry.
* Three processes in `lease`: a holder, one that takes over and one that is
  refused, on two hosts because only a dead process of the same host is known
  dead.  `NextAge` stops counting beyond the timeout, where all ages are alike.
* Three events in `steered`: the work, its correction and a second correction or
  another start.  Two in `stopped`, the work and its correction: there the second
  connection is what matters, which stops or polls while the first one steers,
  and liveness is checked.  Plan versions are bounded by the events.
* `Role` splits the calls of `stopped`: one connection starts and steers, the
  other stops and polls.  A stop can then be put on file at every step of a
  steering, before the old event is closed and after.  In `steered` both start,
  submit and ask for snapshots, which settle what a poll would settle.
* Three updates in `delivered`, with the second one dropped, and `Limit = 1`, so
  that deliveries need several rounds.
* `MaxRequests` bounds the cards of an action: two, so that a card can be
  replaced, except in `undone`, where executions without a card of their own run
  under a rule.
* Attempt identifiers, connections, executors and contents are only compared:
  the runs `appends`, `steered`, `approved` and `undone` use that symmetry, and
  none of them checks liveness.  `stopped` uses none, since its connections differ
  and it checks liveness.  `undone` permutes the two contents and nothing
  else.
* `CHECK_DEADLOCK FALSE` stands where the system may stop: a resident with
  nothing to do rests (`commands`, `appends`, `books`, `overtaken`), all
  processes may be dead (`lease`, `newcomer`), and a constructor that raises
  stops the process (`steered`, `stopped`, `delivered`).

Five parameters choose an environment rather than a bound.  `Faults` and
`LostClaims`: reads and writes inside a step, or before it, may raise.  `commands`
has neither, because each refutes a property it checks (see the table); `appends`
has both.  `Accepting`: the life loop sets acceptance criteria and may verify
them; `stopped` has it.  `BlockedChildren = FALSE`: an item that is still running
has no blocked child.  `Overlapping = FALSE`:
one connection at a time is between the repair of the ingress rows and its new
run; two at once break what the table above says.  `Overtaking = FALSE`: after a
restart the interrupted event is the next one, which is what `peek_next_event`
does for equal priorities; a more urgent event is the other case.  `"gap"` is not
among the calls of `undone`: the editor does not save in the instant between an
undo's move to the trash and its write.

### Fairness

* `ResidentLife`, `CompletionAccounting`: weak fairness of `LifeStep` and of
  `Restart`.  `_life_loop` (`daemon.py:1516-1530`) calls `live_once` again and
  again and swallows its exceptions, so the life thread never stops while
  something can be done; an operator, or the service manager, restarts a dead
  resident.
* `WorkSteering`: weak fairness of the step of each call in progress, of the
  constructors, of the restart and of the life loop: threads are scheduled, and
  every step is one short transaction.
* `ChannelDelivery`: the same of the channel thread's rounds, of the restart and
  of the end of each event.
* Users, the editor, crashes, faults, the desktop's polls and what the provider
  receives are not fair.

## 4. Proofs

The theorems hold for every value of the constants: any sets of events,
attempts, processes, updates, executors or users, every priority and contract,
any number of crashes, and faults of every kind unless an assumption excludes
one, from the assumptions named in the modules (`EventsAssumption`, ...) and,
where said, `FirstInFirstOut`, `~LostClaims` or `~Faults`.

* `TypeCorrect`: `Spec => []TypeOK`.  `TypeOK` is not inductive: `Dispatch`,
  `ObserveReturn` and `CheckpointMove` use `cur`, which is an attempt only because
  the thread holds one between `Arm` and the checkpoint.  `Performing` says so
  and is proved with it.
* `StopRequestObeyed`: `Spec => StopRequestWins`.  Only two transactions publish.
  One reads the stop request itself, the other publishes "cancelled".
* `OutcomeIsFinal`: `Spec => QuietAfterOutcome`.  The strengthening is `Final`:
  an event with a verdict is out of the queue, out of the checkpoint and out of
  the thread's hand.
* `NeverReplayed`, `SettledStaysSettled`, `ClaimedIsResumable` and
  `PromiseIsKept` (the refinement of `GuardedEffect`: initial states map to
  initial states, every step to a step or a stutter), each
  `ASSUME FirstInFirstOut, ~LostClaims`.  None of them is inductive.  The singleton checkpoint
  is the only memory of an effect that was settled, so the argument is about who
  may overwrite it.  `ReplayInv` has five parts: `Queue` (creation is a strict
  order), `Active` (the event in hand and the event of the checkpoint are one,
  and it precedes every unfinished event, hence is the next one after a restart
  too), `Midway` (what checkpoint and ledger say at each point of a step),
  `Remembered` (an effect settled for an event without a verdict is what the
  checkpoint is about), `Single` (at most one movement of an event forbids
  another one).  `GuardSuffices` is the heart: at `native_action` with no blocking
  attempt nothing forbids a movement, because what is unsettled blocks and what
  is settled is remembered by a checkpoint with another stage.
  `FirstInFirstOut` (equal priorities) is necessary: the run `overtaken` is the
  counterexample without it.  `~LostClaims` is, too: an event whose pulse is lost
  between the claim and the first checkpoint is processing but not in hand and not
  in the checkpoint, which is what `Active` excludes; the table has the
  counterexample.  Steps that raise later (`Faults`) are covered.
* `SuccessEvidenced`, with no assumption.  `SuccessIsEvidenced` compares a
  verdict with the world and the ledger, and what is compared was seen several
  steps earlier.  `Truthful` carries it there: `Evidence` says that the verdict on
  file, the one the checkpoint holds, the one the thread has in hand and the
  probe that just succeeded are each borne out; `Bearings`, what the thread has
  read before its next write; `Recorded`, what a recovery checkpoint says of its
  attempt.
* `HeldIsResolvable`, `ASSUME` no event is an append.  It follows from `Recorded`:
  held work owns an attempt that cancellation and resolution accept.  The
  assumption is necessary: the table above has the counterexample.
* `StartedTracked`, `ASSUME FirstInFirstOut, ~Faults, ~LostClaims`, and
  `AppliedOnce`, `ASSUME FirstInFirstOut, ~LostClaims`.  Both rest on `ReplayInv`.  `Tracked` adds that the
  only pending movement of the event in hand is the one the thread holds, and
  that no verdict but a cancellation is on its way while one is pending.
  `Visible` adds that an effect that happened is never recorded as absent, and
  is in the world unless someone edited it away: so an observation that finds
  nothing has found nothing.  `~Faults` is necessary for the first one.
* `LeaseIsExclusive`, `AuthorityFollowsLease`, `HolderCanBeFound`, `LeaseTypes`
  (`ResidentLease`).  Under `orderly` the invariant is `LeaseInv`: an acting
  instance owns a lease of at most one interval and owes a heartbeat after one
  (`Owned`), one instance is starting (`OneStarts`), nobody acts when it is about
  to write the row (`NobodyActs`, from the timeout of two intervals), and a
  holder that is cleared away is dead for good (`SawDead`).  `OrderlyBefore` says
  that lost order does not come back, so the invariant may be conditioned on it.
  With it go `Authorised` (authority only while acting) and `Announced` (the
  endpoint file names whoever serves).
* `UnsafeNeverRepeats`, `OneTaskPerEvent`, `VerdictsAreTrue`
  (`CompletionAccounting`, each `ASSUME ~Overtaking`).  The memory of what was
  done is the ledger row and the checkpoint, and only the latter tells that an
  observed answer is to be resumed.  `Fresh` says that an event outside the
  checkpoint was never begun and that a fresh checkpoint is one of a capability never started; `Unsafe`,
  that a started attempt is marked in the checkpoint and no thread is about to
  account or publish an answer to it; `Booked`, that a task once counted is the
  one the checkpoint commits to (`Committed`), so that no other kind can be
  counted before the verdict.  `VerdictsAreTrue` adds `Filing` (what is due to the
  books agrees with the answer the checkpoint holds, and what is about to be
  published is booked) and `Blamed` (the code of a capability whose failure is
  booked does not run again, so its last answer stays no success).  Without the
  assumption the first two are refuted.
* `AccountingTypes` (`CompletionAccounting`, no assumption).  The counters are what
  is not obvious: the code of a capability runs again only after the death of
  the process, a step of the thread that is still to be taken included
  (`RunsPerCrash`), and a count of tasks is the number of rows (`TasksAreRows`).
* `OwnersAreKept`, `DecidedEventsStayDone`, `WorkIsSingle`, `SteeringTypes`,
  `RepliesAreHonest`, `SteeringsAreWhole` (`WorkSteering`; the first with no
  assumption, the others `ASSUME ~Overlapping`, `RepliesAreHonest` also
  `~BlockedChildren`).  A process is the sequence of the steps it still has to take, so
  every argument begins with what such a sequence can be: `ScriptInv` says which
  steps may come after which (`Ordered`), which go together (`Fitting`), and who
  has none while the system boots or is down (`Resting`).  A property of a
  process is then one of the set `T(p)` of its remaining steps, and a step either
  takes the first one off or puts a whole script in its place.  The invariants are
  built in layers.
  - `Based`: what each process is about exists as far as it has come (`Aim`), and
    each event has its run or a row (`Stored`).  It needs no order among the
    connections, since each transaction keeps it alone.
  - `Alone`: from the scheduling of an event to its run nobody else makes one
    (`OneBegins`), events that are being made are distinct and new (`OwnIsApart`,
    `Fresh`), hence an enqueue that comes late never finds an event that is done.
  - `Single`: open work is one event, and an event whose run is not there yet is
    one that the call that wrote its row, or a repair, will give a run
    (`Expected`).
  - `Versioned`: the plan is one more than the number of successors.  Hence it is
    bounded by the events, and `SteeringTypes` holds.
  - `Told`: whoever is about to settle an event does so after its verdict
    (`Resolved`), and what a final message says is `Honest`.  The message is
    rewritten long after the verdict, from what one transaction left of the item
    and another read of it, so honesty has to be carried along: an item that is
    blocked is `Blamed` (its event ended without success, or its criteria are set
    and not met, or its plan is no longer in force), and each process is `Telling`
    the truth of the event it is about: it says "cancelled" of cancelled events
    only, asks for the evidence of a success with criteria only, and rewrites only
    where "blocked" is honest.  What makes this survive other connections is
    `Sealed`: no step gives an event that is decided another verdict, another
    acceptance or another plan, and the plan never goes back.
  - `Whole`: each superseded run has a successor, and its event is over or a
    process is on its way to end it (`Ends`); the newest plan has a bound run or a
    process on its way to bind it (`Renewed`).  A constructor that is cut
    short by a crash leaves the work to the next one, and since the property
    speaks of a system that is up, the next one has finished.
* `AcknowledgedIsAlwaysRouted`, `EndedIsNeverRequeued` (`ChannelDelivery`).  The
  first from `CursorInv`: what the thread has read and passed is routed, the
  batch it is working on is not confirmed, and a poll happens with an empty
  batch.  The second from `NewIsNew`: when the thread is about to write an event,
  that event is not there.
* `ChannelTypes`, `OutboundIsAlwaysOnRecord` (`ChannelDelivery`, no assumption).
  `Delivery` says that the queues of a round hold routed updates, that the one being
  delivered is the head of its queue and has ended, and that a route comes after
  its run.  `Recorded` follows one update through its writes: the reply is
  the outcome of its event, or what the ordinary ledger tells of that outcome;
  the run is finalized after the reply; the send follows the run; and the mark
  follows the send, or an event that had nothing to say.
* `ApprovalTypes`, `OneApprovalOneRun`, `RunsWereAllowed`, `AuditIsTrue`,
  `EndsAreFinal` (`ApprovalCards`).  `ApprovalInv` is the types, `Threads` (what
  each thread relies on at its next step, since it read it before), `Apart` (no
  two threads hold one fresh identity), `Fresh`, `Counted` (a request's
  executions are bounded by its being spent) and `Audited`.  A request's status
  moves only along `Lawful`.
* `OneUsersUndoDestroysNothing`, `ASSUME "gap" \notin Calls` and one user.  Between
  the move to the trash and the write there is no file (`GapIsEmpty`): the
  modelled action replaces a file that exists, and the only user is the one who
  undoes.  Both assumptions are necessary (see the table).

Every safety invariant that a passing run checks is stated by a theorem; where a
theorem has an assumption, its run has it too, but for `appends`, which also loses
pulses after the claim: with its one event there is nothing to be overtaken by.
What is only model-checked:

* liveness under fairness (`StopIsHonoured`, `SteeringEnds` and the like), which
  is out of the prover's reach;
* the statements of the table above, which are false without the restriction of
  their run, and the two findings.

Of connections that overlap (`Overlapping` in `WorkSteering`) only `OwnersAreKept`
speaks.

## 5. Not modelled

Inside the modelled parts:

* Generic broad-goal loops and pointer, window and other movements and
  verifications: they share the frame of `ResidentLife`.  Several capabilities
  for one event, the choice among them and learning estimates.
* The legacy mode of `run_once` that drives an event to its end in one call;
  pruning of old closed attempts; a second fault while the terminal failure of a
  first one is being checkpointed.
* A read and the commit that follows it under one lock are one action (the
  replay check and the write-ahead row, a claim and its peek).
* In `WorkSteering`: child items beyond `BlockedChildren`, dependencies and worker
  runs; what acceptance criteria say and how the verifier's child item shows that
  they are met (a criterion is set or not, met or not); the texts of final
  messages and summaries, of which only the claim is kept, and the limit of 16
  finalized runs that a snapshot rewrites (`outcome_aware_work_control.py:21`);
  artifacts, restore points, the cancellation of uncertain effects, raising
  database writes.
* In `ChannelDelivery`: `stop`, media nominations, attachments, the splitting of
  messages, steering of channel work, more than one conversation.
* In `ApprovalCards`: the permission policy and edited commands, deletes and the
  restoring of trash, checkpoints, the revalidation middleware, a locked database
  anywhere but at the creation of a request (what it leaves elsewhere a crash
  leaves, too).  Other users of the gate are other triples.

Hazards that were met and are of a kind no property here is about: an event held
for a user's decision stays the active event and all others wait
(`store.py:501`); a deferred observation waits for a restart
(`completion_observation.py:47`); an item may stay `running` after a crash
between run and item (`steerable_work.py:882`); a reply that cannot be sent keeps
the channel from polling (`channel_runtime.py:396`); an expired card keeps its
triple blocked (`approval_cards.py:1113`).

Parts of the repository:

* `atomic_overwrite_resident.py`, `overwrite_recovery_resident.py`,
  `terminal_input_recovery_resident.py`: recovery protocols of their own inside
  the frame of `ResidentLife`; the movement is a replace of a whole file or input
  to a terminal.
* Work teams (`team_*.py`): task leases of workers inside one event.
* Will, routines and intentions: their effect on the core is `Enqueue`.
* Life, thought, memory, learning and skills: scores and histories without a
  protocol; the one decision that matters to the core is `peek_next_event`.
* Browser and desktop residents, model routing and providers: I/O behind the
  body's interface or behind `Consult`.
* Desktop shell and command line: presentation.

## 6. Plan

1. `OverwriteRecovery`: the atomic overwrite and terminal input, refining
   `GuardedEffect`.
2. Task leases of Work teams; due times of routines against restarts.
3. Proofs: action properties that say what no step of `WorkSteering` may do to a
   run or a reply; which of the properties of `WorkSteering` survive when
   connections overlap; `VerdictIsAccounted` with a weaker condition than that no
   write has raised.
