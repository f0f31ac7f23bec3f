---------------------------- MODULE ResidentLease ----------------------------
(***************************************************************************)
(* Several resident processes over one database: the construction of a     *)
(* runtime (which recovers interrupted events), the lease row, heartbeats, *)
(* the endpoint file, shutdown and death.  service.py, the lease           *)
(* operations of store.py, the life loop of daemon.py and serve_forever of *)
(* resident_server.py.                                                     *)
(*                                                                         *)
(* An instance is one process: it is started at most once, and a restart   *)
(* is another instance.  Time is counted in heartbeat intervals.           *)
(***************************************************************************)
EXTENDS Naturals

CONSTANTS
    Instances,    \* the processes that may ever be started
    Events,       \* the events on file
    NoOne,        \* no lease row, no endpoint file
    NoEvent,      \* no step in progress, an idle checkpoint
    Host,         \* the machine each instance runs on
    Timeout       \* lease_timeout, in heartbeat intervals

ASSUME NoOneAssumption == NoOne \notin Instances
ASSUME NoEventAssumption == NoEvent \notin Events
(* self.lease_timeout = max(self.heartbeat_interval * 2.0, ...)            *)
ASSUME TimeoutAssumption == Timeout \in Nat /\ Timeout >= 2

VARIABLES
    lease,      \* resident_lease.instance_id
    age,        \* intervals since resident_lease.heartbeat_at
    endpoint,   \* the instance named in resident-endpoint.json
    status,     \* events.status
    published,  \* the events with a row in event_outcomes
    working,    \* working_state.current_event_id
    phase,      \* where each process stands
    snapshot,   \* the processing rows recover_interrupted_events has read
    saw,        \* the dead holder acquire() has read
    due,        \* the life loop owes a heartbeat
    busy,       \* the event whose step the life thread is in
    authority,  \* the instances whose browser extension is open
    orderly     \* history: starts did not overlap, and no step, start or
                \* join outlasted a heartbeat interval

leaseVars == <<lease, age>>
eventVars == <<status, published, working>>
vars == <<lease, age, endpoint, status, published, working, phase, snapshot,
          saw, due, busy, authority, orderly>>

Starting == {"recovering", "acquiring", "clearing", "claiming"}
Acting == {"announcing", "serving", "stopping"}
Phases == {"unborn", "exiting", "gone"} \cup Starting \cup Acting

Alive(i) == phase[i] \notin {"unborn", "gone"}

TypeOK ==
    /\ lease \in Instances \cup {NoOne}
    /\ age \in 0 .. Timeout + 1
    /\ endpoint \in Instances \cup {NoOne}
    /\ status \in [Events -> {"pending", "processing", "completed"}]
    /\ published \subseteq Events
    /\ working \in Events \cup {NoEvent}
    /\ phase \in [Instances -> Phases]
    /\ snapshot \in [Instances -> SUBSET Events]
    /\ saw \in [Instances -> Instances \cup {NoOne}]
    /\ due \in [Instances -> BOOLEAN]
    /\ busy \in [Instances -> Events \cup {NoEvent}]
    /\ authority \subseteq Instances
    /\ orderly \in BOOLEAN

Init ==
    /\ lease = NoOne
    /\ age = 0
    /\ endpoint = NoOne
    /\ status = [e \in Events |-> "pending"]
    /\ published = {}
    /\ working = NoEvent
    /\ phase = [i \in Instances |-> "unborn"]
    /\ snapshot = [i \in Instances |-> {}]
    /\ saw = [i \in Instances |-> NoOne]
    /\ due = [i \in Instances |-> FALSE]
    /\ busy = [i \in Instances |-> NoEvent]
    /\ authority = {}
    /\ orderly = TRUE

GoTo(i, p) == phase' = [phase EXCEPT ![i] = p]

-----------------------------------------------------------------------------
(* Construction: recover_interrupted_events reads the processing rows in   *)
(* one transaction and writes each back in another, before any lease.      *)

Boot(i) ==
    /\ phase[i] = "unborn"
    /\ orderly' = (orderly /\ \A j \in Instances : phase[j] \notin Starting)
    /\ GoTo(i, "recovering")
    /\ snapshot' = [snapshot EXCEPT
                        ![i] = {e \in Events : status[e] = "processing"}]
    /\ UNCHANGED <<leaseVars, endpoint, eventVars, saw, due, busy, authority>>

(* Mutant of RecoverRow: a status of its own for what was interrupted.     *)
RecoverAsInterrupted(i, e) ==
    /\ phase[i] = "recovering"
    /\ e \in snapshot[i]
    /\ snapshot' = [snapshot EXCEPT ![i] = @ \ {e}]
    /\ status' = [status EXCEPT ![e] = "interrupted"]
    /\ UNCHANGED <<leaseVars, endpoint, published, working, phase, saw, due,
                   busy, authority, orderly>>

RecoverRow(i, e) ==
    /\ phase[i] = "recovering"
    /\ e \in snapshot[i]
    /\ snapshot' = [snapshot EXCEPT ![i] = @ \ {e}]
    /\ status' = [status EXCEPT ![e] = "pending"]
    /\ UNCHANGED <<leaseVars, endpoint, published, working, phase, saw, due,
                   busy, authority, orderly>>

-----------------------------------------------------------------------------
(* ResidentService.acquire.                                                *)

(* Same-host dead PID evidence.                                            *)
HolderDied(i) ==
    /\ lease \notin {NoOne, i}
    /\ Host[lease] = Host[i]
    /\ ~Alive(lease)

LookAtLease(i) ==
    /\ phase[i] = "recovering"
    /\ snapshot[i] = {}
    /\ \/ HolderDied(i) /\ GoTo(i, "clearing")
       \/ ~HolderDied(i) /\ GoTo(i, "acquiring")
    /\ saw' = [saw EXCEPT ![i] = lease]
    /\ UNCHANGED <<leaseVars, endpoint, eventVars, snapshot, due, busy,
                   authority, orderly>>

(* DELETE ... WHERE instance_id = the holder that was read.                *)
ReleaseRow(holder) ==
    /\ lease' = IF lease = holder THEN NoOne ELSE lease
    /\ UNCHANGED age

ClearDeadLease(i) ==
    /\ phase[i] = "clearing"
    /\ ReleaseRow(saw[i])
    /\ GoTo(i, "acquiring")
    /\ UNCHANGED <<endpoint, eventVars, snapshot, saw, due, busy, authority,
                   orderly>>

(* Mutant of Claimable: a lease of exactly one interval counts as stale.   *)
ClaimableEarly(i) == lease \in {NoOne, i} \/ age >= 1

(* The lease of another instance can be taken once it is stale.            *)
Claimable(i) == lease \in {NoOne, i} \/ age > Timeout

(* claim_resident_lease selects the row outside a write transaction ...    *)
ReadLease(i) ==
    /\ phase[i] = "acquiring"
    /\ Claimable(i)
    /\ GoTo(i, "claiming")
    /\ UNCHANGED <<leaseVars, endpoint, eventVars, snapshot, saw, due, busy,
                   authority, orderly>>

(* ... and replaces whatever is there by then.                             *)
WriteLease(i) ==
    /\ phase[i] = "claiming"
    /\ lease' = i /\ age' = 0
    /\ GoTo(i, "announcing")
    /\ authority' = authority \cup {i}
    /\ UNCHANGED <<endpoint, eventVars, snapshot, saw, due, busy, orderly>>

(* Mutant of RemoveOwnedEndpoint: the instance_id is not compared.         *)
RemoveEndpoint(i) == endpoint' = NoOne

RemoveOwnedEndpoint(i) ==
    endpoint' = IF endpoint = i THEN NoOne ELSE endpoint

(* ResidentAlreadyRunning: the finally clause of serve_forever still runs. *)
Refuse(i) ==
    /\ phase[i] = "acquiring"
    /\ ~Claimable(i)
    /\ RemoveOwnedEndpoint(i)
    /\ GoTo(i, "gone")
    /\ UNCHANGED <<leaseVars, eventVars, snapshot, saw, due, busy, authority,
                   orderly>>

Announce(i) ==
    /\ phase[i] = "announcing"
    /\ endpoint' = i
    /\ due' = [due EXCEPT ![i] = TRUE]
    /\ GoTo(i, "serving")
    /\ UNCHANGED <<leaseVars, eventVars, snapshot, saw, busy, authority,
                   orderly>>

-----------------------------------------------------------------------------
(* _life_loop: a heartbeat when one is due, then one step.                 *)

Heartbeat(i) ==
    /\ phase[i] = "serving" /\ due[i] /\ busy[i] = NoEvent
    /\ lease = i
    /\ age' = 0
    /\ due' = [due EXCEPT ![i] = FALSE]
    /\ UNCHANGED <<lease, endpoint, eventVars, phase, snapshot, saw, busy,
                   authority, orderly>>

(* The UPDATE hits no row: authority is dropped and the life loop fails    *)
(* closed.                                                                 *)
LoseLease(i) ==
    /\ phase[i] = "serving" /\ due[i] /\ busy[i] = NoEvent
    /\ lease # i
    /\ authority' = authority \ {i}
    /\ GoTo(i, "stopping")
    /\ UNCHANGED <<leaseVars, endpoint, eventVars, snapshot, saw, due, busy,
                   orderly>>

(* peek_next_event, then claim_event and the checkpoint.                   *)
IsNext(e) ==
    \/ status[e] = "processing" /\ working = e
    \/ /\ status[e] = "pending"
       /\ working \in Events => status[working] # "processing"

BeginStep(i, e) ==
    /\ phase[i] = "serving" /\ ~due[i] /\ busy[i] = NoEvent
    /\ IsNext(e)
    /\ status' = [status EXCEPT ![e] = "processing"]
    /\ working' = IF e \in published THEN working ELSE e
    /\ busy' = [busy EXCEPT ![i] = IF e \in published THEN NoEvent ELSE e]
    /\ UNCHANGED <<leaseVars, endpoint, published, phase, snapshot, saw, due,
                   authority, orderly>>

(* complete_event wants a processing event, no verdict on file and no      *)
(* checkpoint of another event.                                            *)
MayPublish(e) ==
    /\ status[e] = "processing"
    /\ e \notin published
    /\ working \in {e, NoEvent}

(* The step ends, with or without a verdict; a refused one raises.  An     *)
(* instance that is exiting has closed its store.                          *)
EndStep(i) ==
    /\ busy[i] # NoEvent
    /\ busy' = [busy EXCEPT ![i] = NoEvent]
    /\ \/ UNCHANGED eventVars
       \/ /\ MayPublish(busy[i])
          /\ phase[i] # "exiting"
          /\ status' = [status EXCEPT ![busy[i]] = "completed"]
          /\ published' = published \cup {busy[i]}
          /\ working' = NoEvent
    /\ UNCHANGED <<leaseVars, endpoint, phase, snapshot, saw, due, authority,
                   orderly>>

-----------------------------------------------------------------------------
(* The end of an instance.                                                 *)

Shutdown(i) ==
    /\ phase[i] = "serving"
    /\ GoTo(i, "stopping")
    /\ UNCHANGED <<leaseVars, endpoint, eventVars, snapshot, saw, due, busy,
                   authority, orderly>>

(* Mutant of Retire: the lease is left behind for the browser extension.   *)
RetireFirst(i) ==
    /\ phase[i] = "stopping"
    /\ orderly' = (orderly /\ busy[i] = NoEvent)
    /\ RemoveOwnedEndpoint(i)
    /\ ReleaseRow(i)
    /\ GoTo(i, "exiting")
    /\ UNCHANGED <<eventVars, snapshot, saw, due, busy, authority>>

(* serve_forever's finally clause; _stop_life_loop joins with a timeout.   *)
Retire(i) ==
    /\ phase[i] = "stopping"
    /\ orderly' = (orderly /\ busy[i] = NoEvent)
    /\ RemoveOwnedEndpoint(i)
    /\ authority' = authority \ {i}
    /\ ReleaseRow(i)
    /\ GoTo(i, "exiting")
    /\ UNCHANGED <<eventVars, snapshot, saw, due, busy>>

Exit(i) ==
    /\ phase[i] = "exiting"
    /\ busy' = [busy EXCEPT ![i] = NoEvent]
    /\ GoTo(i, "gone")
    /\ UNCHANGED <<leaseVars, endpoint, eventVars, snapshot, saw, due,
                   authority, orderly>>

(* Death at any point: nothing is released, the endpoint file stays.       *)
Crash(i) ==
    /\ Alive(i)
    /\ GoTo(i, "gone")
    /\ snapshot' = [snapshot EXCEPT ![i] = {}]
    /\ busy' = [busy EXCEPT ![i] = NoEvent]
    /\ authority' = authority \ {i}
    /\ UNCHANGED <<leaseVars, endpoint, eventVars, saw, due, orderly>>

(* Beyond the timeout all ages are alike.                                  *)
NextAge == IF age <= Timeout THEN age + 1 ELSE age

(* One heartbeat interval passes.                                          *)
Tick ==
    /\ orderly' = (orderly /\ \A i \in Instances :
                                  /\ phase[i] \notin Acting \ {"serving"}
                                  /\ phase[i] = "serving" => ~due[i])
    /\ age' = NextAge
    /\ due' = [i \in Instances |-> due[i] \/ phase[i] = "serving"]
    /\ UNCHANGED <<lease, endpoint, eventVars, phase, snapshot, saw, busy,
                   authority>>

Step(i) ==
    \/ Boot(i) \/ LookAtLease(i) \/ ClearDeadLease(i) \/ ReadLease(i)
    \/ WriteLease(i) \/ Refuse(i) \/ Announce(i)
    \/ Heartbeat(i) \/ LoseLease(i) \/ EndStep(i)
    \/ Shutdown(i) \/ Retire(i) \/ Exit(i) \/ Crash(i)
    \/ \E e \in Events : RecoverRow(i, e) \/ BeginStep(i, e)

Next == Tick \/ \E i \in Instances : Step(i)

Spec == Init /\ [][Next]_vars

-----------------------------------------------------------------------------
(* An instance that serves owns the lease: with prompt heartbeats and one  *)
(* start at a time there is one resident over a database (service.py:      *)
(* "Single-instance service wrapper").                                     *)
OneResident ==
    orderly => \A i \in Instances : phase[i] \in Acting => lease = i

(* "Browser-tab authority may only exist while this process owns the       *)
(* canonical Resident lease" (ResidentService.heartbeat).                  *)
AuthorityUnderLease == orderly => authority \subseteq {lease}

(* Whoever holds the lease and serves can be found through the endpoint    *)
(* file, whatever refused, stopping or dead instances did to it.           *)
HolderIsReachable ==
    orderly => \A i \in Instances :
        phase[i] = "serving" /\ lease = i => endpoint = i

(* recover_interrupted_events notes "resident runtime restarted during     *)
(* processing": the event it returns to the queue is in nobody's hands.    *)
RecoveredWasInterrupted ==
    [][\A e \in Events :
          status[e] = "processing" /\ status'[e] = "pending" /\ orderly
          => \A i \in Instances : busy[i] # e]_vars
=============================================================================
