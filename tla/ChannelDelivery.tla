-------------------------- MODULE ChannelDelivery --------------------------
(* A communication channel of the resident (channel_runtime.py,             *)
(* channel_delivery.py): one thread polls the provider, binds every percept *)
(* to durable Work (start_external, recovery_bounded_work.py), remembers    *)
(* its route, saves the provider cursor after the whole batch, and sends    *)
(* the outcomes back.                                                       *)
(*                                                                          *)
(* The updates are 1 .. LastUpdate in the provider's order, all of one      *)
(* conversation and so of one work thread.  A context is what start_external*)
(* adds to the payload of the percept: the workspace, the route policy and  *)
(* the device frame of the moment.  What the resident does with the events  *)
(* and what the desktop does with the runs are single steps of the          *)
(* environment here: ResidentLife and WorkSteering have their detail.       *)
EXTENDS Naturals, Sequences, FiniteSets

CONSTANTS
    LastUpdate,   \* the last update the provider will have
    Foreign,      \* updates poll drops: no text, or no authorised chat
    Contexts,     \* what the payload of one percept may be bound to
    NoContext,    \* no row, no event
    Elaborating,  \* does the resident rewrite the payload of an event?
    Limit,        \* routes looked at in one round (200 in the code)
    MaxCrashes,   \* bound on the deaths of the process
    MaxFaults     \* bound on raising writes, polls and sends

Updates == 1 .. LastUpdate

ASSUME UpdatesAssumption == LastUpdate \in Nat /\ Foreign \subseteq Updates
ASSUME ContextsAssumption == NoContext \notin Contexts /\ Contexts # {}
ASSUME BoundsAssumption ==
    Limit \in Nat \ {0} /\ MaxCrashes \in Nat /\ MaxFaults \in Nat

VARIABLES
    \* the provider
    arrived,   \* updates it has received
    acked,     \* updates below this one it has forgotten
    \* the channel's ledger
    saved,     \* channel_poll_checkpoints.offset
    route,     \* channel_delivery_routes.status
    order,     \* the pending routes by updated_at
    \* Work and the resident's store
    row,       \* the payload in work_ingress_checkpoints
    message,   \* percepts whose user message is in the transcript
    event,     \* events.status, and the outcome once there is one
    payload,   \* the payload of the event
    run,       \* work_runs.ledger_state
    reply,     \* the final message in the transcript
    context,   \* what a payload built now would be bound to
    \* the thread of the channel
    pc, offset, batch, left, at, built, ready, before,
    \* what happened
    sends,     \* complete publications of the outcome of an update
    crashes, faults

provider == <<arrived, acked>>
channel == <<saved, route, order>>
linkage == <<row, message, run>>
store == <<event, payload>>
thread == <<pc, offset, batch, left, at, built, ready, before>>
vars == <<provider, channel, linkage, store, reply, context, thread, sends,
          crashes, faults>>

Outcomes == {"answered", "silent", "failed", "cancelled"}
Ended(u) == event[u] \in Outcomes

(* Steps of start_external that write, and those before them.              *)
Writing == {"row", "message", "event", "run", "unrow", "remember"}
Ingesting == {"lookup", "repair", "compare", "collect"} \cup Writing
Delivering == {"reply", "settle", "send", "mark", "fail"}

TypeOK ==
    /\ arrived \in 0 .. LastUpdate
    /\ {acked, saved, offset} \subseteq 0 .. LastUpdate + 1
    /\ route \in [Updates -> {"none", "pending", "delivered"}]
    /\ order \in Seq(Updates)
    /\ row \in [Updates -> Contexts \cup {NoContext}]
    /\ message \subseteq Updates
    /\ event \in [Updates -> Outcomes \cup {"none", "pending"}]
    /\ payload \in [Updates -> Contexts \cup {NoContext}]
    /\ run \in [Updates -> {"none", "active", "finalized"}]
    /\ reply \in [Updates -> Outcomes \cup {"none"}]
    /\ context \in Contexts
    /\ pc \in Ingesting \cup Delivering
               \cup {"top", "deliver", "poll", "pick", "save", "again", "wait",
                     "down", "broken"}
    /\ batch \subseteq Updates /\ left \subseteq Updates
    /\ at \in 0 .. LastUpdate
    /\ built \in Contexts \cup {NoContext}
    /\ ready \in Seq(Updates)
    /\ before \in BOOLEAN
    /\ sends \in [Updates -> Nat]
    /\ crashes \in 0 .. MaxCrashes /\ faults \in 0 .. MaxFaults

Init ==
    /\ arrived = 0 /\ acked = 0 /\ saved = 0 /\ offset = 0
    /\ route = [u \in Updates |-> "none"] /\ order = <<>>
    /\ row = [u \in Updates |-> NoContext]
    /\ message = {}
    /\ event = [u \in Updates |-> "none"]
    /\ payload = [u \in Updates |-> NoContext]
    /\ run = [u \in Updates |-> "none"]
    /\ reply = [u \in Updates |-> "none"]
    /\ context \in Contexts
    /\ pc = "top" /\ batch = {} /\ left = {} /\ at = 0
    /\ built = NoContext /\ ready = <<>> /\ before = TRUE
    /\ sends = [u \in Updates |-> 0]
    /\ crashes = 0 /\ faults = 0

----------------------------------------------------------------------------
(* Helpers.                                                                *)

Larger(m, n) == IF m > n THEN m ELSE n

Goto(step) ==
    /\ pc' = step
    /\ UNCHANGED <<offset, batch, left, at, built, ready, before>>

(* An exception ends the round; the batch stays in memory.                 *)
Fault == faults < MaxFaults /\ faults' = faults + 1

HasRow(u) == row[u] # NoContext

(* Linkage of an identity: all there, nothing there.                       *)
Durable(u) == u \in message /\ event[u] # "none" /\ run[u] # "none"
Unknown(u) == u \notin message /\ event[u] = "none" /\ run[u] = "none"

Clashes(u) == HasRow(u) /\ event[u] # "none" /\ payload[u] # row[u]

(* Mutant of MendEvent: the event is queued whether it exists or not.      *)
MendEventAgain(u) == IF HasRow(u) THEN "pending" ELSE event[u]
MendEvent(u) == IF HasRow(u) /\ event[u] = "none" THEN "pending" ELSE event[u]

MendRun(u) == IF HasRow(u) /\ run[u] = "none" THEN "active" ELSE run[u]

(* reconcile_ingress_checkpoints for every row, when none clashes.         *)
Mend(runs) ==
    LET rows == {u \in Updates : HasRow(u)} IN
    /\ message' = message \cup rows
    /\ event' = [u \in Updates |-> MendEvent(u)]
    /\ payload' = [u \in Updates |->
                      IF u \in rows /\ event[u] = "none" THEN row[u]
                      ELSE payload[u]]
    /\ run' = runs
    /\ row' = [u \in Updates |-> NoContext]

(* How the ordinary ledger writes an outcome into the transcript: it knows *)
(* success and failure.                                                    *)
Told(outcome) == IF outcome = "cancelled" THEN "failed" ELSE outcome

FirstReply(u, text) == IF reply[u] = "none" THEN text ELSE reply[u]

----------------------------------------------------------------------------
(* The delivery round.                                                     *)

FirstOf(s, n) == SubSeq(s, 1, IF Len(s) < n THEN Len(s) ELSE n)

(* _deliver_ready: the pending routes, oldest update first.                *)
Round(first) ==
    /\ ready' = FirstOf(order, Limit)
    /\ before' = first
    /\ pc' = "deliver"
    /\ UNCHANGED <<offset, batch, left, at, built, provider, channel, linkage,
                   store, reply, context, sends, crashes, faults>>

Top == pc = "top" /\ Round(TRUE)
Again == pc = "again" /\ Round(FALSE)

(* The next route of the round; past the last one, on to the poll or to    *)
(* the batch still in memory, or around the loop.                          *)
Deliver ==
    /\ pc = "deliver"
    /\ \/ /\ ready # <<>>
          /\ at' = Head(ready)
          /\ IF Ended(Head(ready))
             THEN pc' = "reply" /\ UNCHANGED ready
             ELSE pc' = "deliver" /\ ready' = Tail(ready)
          /\ UNCHANGED left
       \/ /\ ready = <<>>
          /\ pc' = IF ~before THEN "top" ELSE IF batch = {} THEN "poll" ELSE "pick"
          /\ left' = batch
          /\ UNCHANGED <<at, ready>>
    /\ UNCHANGED <<offset, batch, built, before, provider, channel, linkage,
                   store, reply, context, sends, crashes, faults>>

(* Mutant of PutReply: the outcome goes out before it is on record.        *)
PutReplyLater ==
    /\ pc = "reply"
    /\ Goto("send")
    /\ UNCHANGED <<provider, channel, linkage, store, reply, context, sends,
                   crashes, faults>>
(* work.progress, the message: the reply is in the transcript first.       *)
PutReply ==
    /\ pc = "reply"
    /\ IF run[at] = "active"
       THEN /\ reply' = [reply EXCEPT ![at] = FirstReply(at, Told(event[at]))]
            /\ Goto("settle")
       ELSE Goto("send") /\ UNCHANGED reply
    /\ UNCHANGED <<provider, channel, linkage, store, context, sends, crashes,
                   faults>>

(* work.progress, the run.                                                 *)
Settle ==
    /\ pc = "settle"
    /\ run' = [run EXCEPT ![at] = "finalized"]
    /\ Goto("send")
    /\ UNCHANGED <<row, message, provider, channel, store, reply, context,
                   sends, crashes, faults>>

(* adapter.send; an outcome without text or media is not sent.             *)
Send ==
    /\ pc = "send"
    /\ sends' = IF event[at] = "silent" THEN sends
                ELSE [sends EXCEPT ![at] = @ + 1]
    /\ Goto("mark")
    /\ UNCHANGED <<provider, channel, linkage, store, reply, context, crashes,
                   faults>>

(* adapter.send raises, before or after a part of the message went out.    *)
SendFails ==
    /\ pc = "send"
    /\ event[at] # "silent"
    /\ Fault
    /\ Goto("fail")
    /\ UNCHANGED <<provider, channel, linkage, store, reply, context, sends,
                   crashes>>

NextRoute(step) ==
    /\ pc' = step
    /\ ready' = Tail(ready)
    /\ UNCHANGED <<offset, batch, left, at, built, before>>

(* The sequence s without its u.                                           *)
Others(s, u) ==
    IF \E i \in DOMAIN s : s[i] = u
    THEN LET i == CHOOSE i \in DOMAIN s : s[i] = u
         IN  SubSeq(s, 1, i - 1) \o SubSeq(s, i + 1, Len(s))
    ELSE s

AfterFailure == [route EXCEPT ![at] = "pending"]

AfterSend == [route EXCEPT ![at] = "delivered"]

(* mark_delivered.                                                         *)
MarkDelivered ==
    /\ pc = "mark"
    /\ route' = AfterSend
    /\ order' = Others(order, at)
    /\ NextRoute("deliver")
    /\ UNCHANGED <<provider, saved, linkage, store, reply, context, sends,
                   crashes, faults>>

(* mark_delivery_failure: the route goes to the back; the round ends.      *)
MarkFailure ==
    /\ pc = "fail"
    /\ route' = AfterFailure
    /\ order' = Append(Others(order, at), at)
    /\ Goto("wait")
    /\ UNCHANGED <<provider, saved, linkage, store, reply, context, sends,
                   crashes, faults>>

----------------------------------------------------------------------------
(* The poll and the batch.                                                 *)

Held == Larger(acked, offset) .. arrived

(* Mutant of Past: the cursor skips one update too many.                   *)
PastOneMore(last) == last + 2
Past(last) == last + 1

(* adapter.poll: the request confirms everything below the offset; what    *)
(* the provider still holds comes back, up to some update, and the offset  *)
(* moves past all of it, events or not.                                    *)
Poll ==
    /\ pc = "poll"
    /\ acked' = Larger(acked, offset)
    /\ \/ /\ Held \ {0} = {}
          /\ UNCHANGED <<offset, batch, left>>
       \/ \E last \in Held \ {0} :
            /\ offset' = Past(last)
            /\ batch' = {u \in Held \ {0} : u <= last} \ Foreign
            /\ left' = batch'
    /\ pc' = "pick"
    /\ UNCHANGED <<arrived, at, built, ready, before, channel, linkage, store,
                   reply, context, sends, crashes, faults>>

(* The request reaches the provider, and the poll raises.                  *)
PollFails ==
    /\ pc = "poll"
    /\ Fault
    /\ acked' \in {acked, Larger(acked, offset)}
    /\ Goto("wait")
    /\ UNCHANGED <<arrived, channel, linkage, store, reply, context, sends,
                   crashes>>

(* _ingest_events: the percepts of the batch in the order of the provider. *)
Pick ==
    /\ pc = "pick"
    /\ \/ /\ left = {}
          /\ pc' = "save"
          /\ UNCHANGED <<left, at>>
       \/ \E u \in left :
            /\ \A v \in left : u <= v
            /\ at' = u
            /\ left' = left \ {u}
            /\ pc' = "lookup"
    /\ UNCHANGED <<offset, batch, built, ready, before, provider, channel,
                   linkage, store, reply, context, sends, crashes, faults>>

(* route_for_source: a percept with a route is a duplicate.                *)
Lookup ==
    /\ pc = "lookup"
    /\ Goto(IF route[at] = "none" THEN "repair" ELSE "pick")
    /\ UNCHANGED <<provider, channel, linkage, store, reply, context, sends,
                   crashes, faults>>

(* start_external repairs the rows of the thread, and builds the payload.  *)
Repair ==
    /\ pc = "repair"
    /\ IF \E u \in Updates : Clashes(u)
       THEN Goto("wait") /\ UNCHANGED <<linkage, store>>
       ELSE /\ Mend([u \in Updates |-> MendRun(u)])
            /\ pc' = "compare"
            /\ built' = context
            /\ UNCHANGED <<offset, batch, left, at, ready, before>>
    /\ UNCHANGED <<provider, channel, reply, context, sends, crashes, faults>>

(* A replay must agree with what is durable; a half durable identity or    *)
(* another payload raises.                                                 *)
Compare ==
    /\ pc = "compare"
    /\ Goto(IF Unknown(at) THEN "collect"
            ELSE IF Durable(at) /\ payload[at] = built THEN "remember"
            ELSE "wait")
    /\ UNCHANGED <<provider, channel, linkage, store, reply, context, sends,
                   crashes, faults>>

(* _finalize_completed_runs of the thread, before the new message.         *)
Collect ==
    /\ pc = "collect"
    /\ LET over == {u \in Updates : run[u] = "active" /\ Ended(u)} IN
       /\ reply' = [u \in Updates |-> IF u \in over
                                      THEN FirstReply(u, Told(event[u]))
                                      ELSE reply[u]]
       /\ run' = [u \in Updates |-> IF u \in over THEN "finalized" ELSE run[u]]
    /\ Goto("row")
    /\ UNCHANGED <<row, message, provider, channel, store, context, sends,
                   crashes, faults>>

SaveRow ==
    /\ pc = "row"
    /\ row' = [row EXCEPT ![at] = built]
    /\ Goto("message")
    /\ UNCHANGED <<message, run, provider, channel, store, reply, context,
                   sends, crashes, faults>>

AppendMessage ==
    /\ pc = "message"
    /\ message' = message \cup {at}
    /\ Goto("event")
    /\ UNCHANGED <<row, run, provider, channel, store, reply, context, sends,
                   crashes, faults>>

Enqueue ==
    /\ pc = "event"
    /\ event' = [event EXCEPT ![at] = "pending"]
    /\ payload' = [payload EXCEPT ![at] = row[at]]
    /\ Goto("run")
    /\ UNCHANGED <<provider, channel, linkage, reply, context, sends, crashes,
                   faults>>

SaveRun ==
    /\ pc = "run"
    /\ run' = [run EXCEPT ![at] = "active"]
    /\ Goto("unrow")
    /\ UNCHANGED <<row, message, provider, channel, store, reply, context,
                   sends, crashes, faults>>

DeleteRow ==
    /\ pc = "unrow"
    /\ row' = [row EXCEPT ![at] = NoContext]
    /\ Goto("remember")
    /\ UNCHANGED <<message, run, provider, channel, store, reply, context,
                   sends, crashes, faults>>

(* ledger.remember.                                                        *)
Remember ==
    /\ pc = "remember"
    /\ route' = [route EXCEPT ![at] = "pending"]
    /\ order' = Append(order, at)
    /\ Goto("pick")
    /\ UNCHANGED <<provider, saved, linkage, store, reply, context, sends,
                   crashes, faults>>

(* The cursor is saved when the whole batch has routes.                    *)
SaveCheckpoint ==
    /\ pc = "save"
    /\ saved' = offset
    /\ batch' = {}
    /\ pc' = "again"
    /\ UNCHANGED <<offset, left, at, built, ready, before, route, order,
                   provider, linkage, store, reply, context, sends, crashes,
                   faults>>

(* Mutant of Kept: an exception drops the batch.                           *)
KeptNothing == {}
Kept == batch

(* A write raises; the loop goes around with the batch in memory.          *)
Raise ==
    /\ pc \in Writing \cup {"reply", "settle", "mark", "fail", "collect", "save"}
    /\ Fault
    /\ pc' = "wait"
    /\ batch' = Kept
    /\ UNCHANGED <<offset, left, at, built, ready, before, provider, channel,
                   linkage, store, reply, context, sends, crashes>>

(* The backoff is over.                                                    *)
Retry ==
    /\ pc = "wait"
    /\ Goto("top")
    /\ UNCHANGED <<provider, channel, linkage, store, reply, context, sends,
                   crashes, faults>>

----------------------------------------------------------------------------
(* Around the thread.                                                      *)

Arrive ==
    /\ arrived < LastUpdate
    /\ arrived' = arrived + 1
    /\ UNCHANGED <<acked, channel, linkage, store, reply, context, thread,
                   sends, crashes, faults>>

Up == pc \notin {"down", "broken"}

(* The resident ends a claimed event.                                      *)
Finish(u) ==
    /\ Up
    /\ event[u] = "pending"
    /\ \E outcome \in Outcomes : event' = [event EXCEPT ![u] = outcome]
    /\ UNCHANGED <<payload, provider, channel, linkage, reply, context, thread,
                   sends, crashes, faults>>

(* The resident writes what it understood into the payload of an event.    *)
Elaborate(u) ==
    /\ Up /\ Elaborating
    /\ event[u] = "pending"
    /\ \E c \in Contexts : payload' = [payload EXCEPT ![u] = c]
    /\ UNCHANGED <<event, provider, channel, linkage, reply, context, thread,
                   sends, crashes, faults>>

(* A poll of the desktop settles a run; Work control knows cancelled runs. *)
Watch(u) ==
    /\ Up
    /\ run[u] = "active" /\ Ended(u)
    /\ reply' = [reply EXCEPT ![u] = FirstReply(u, event[u])]
    /\ run' = [run EXCEPT ![u] = "finalized"]
    /\ UNCHANGED <<row, message, provider, channel, store, context, thread,
                   sends, crashes, faults>>

(* A workspace, a route policy, another window in front.                   *)
ChangeContext ==
    /\ Up
    /\ \E c \in Contexts \ {context} : context' = c
    /\ UNCHANGED <<provider, channel, linkage, store, reply, thread, sends,
                   crashes, faults>>

Crash ==
    /\ Up
    /\ crashes < MaxCrashes
    /\ crashes' = crashes + 1
    /\ pc' = "down"
    /\ batch' = {} /\ left' = {} /\ at' = 0 /\ built' = NoContext
    /\ ready' = <<>> /\ before' = TRUE /\ offset' = 0
    /\ UNCHANGED <<provider, channel, linkage, store, reply, context, sends,
                   faults>>

(* The next process: the ledgers' constructors repair the rows, Work       *)
(* control settles the cancelled runs, and the adapter gets the saved      *)
(* cursor.  A row that clashes with its event raises in the constructor.   *)
Restart ==
    /\ pc = "down"
    /\ IF \E u \in Updates : Clashes(u)
       THEN Goto("broken") /\ UNCHANGED <<linkage, store, reply>>
       ELSE /\ Mend([u \in Updates |-> IF event[u] = "cancelled"
                                        THEN "finalized" ELSE MendRun(u)])
            /\ reply' = [u \in Updates |-> IF event[u] = "cancelled"
                                          THEN FirstReply(u, "cancelled")
                                          ELSE reply[u]]
            /\ pc' = "top"
            /\ offset' = saved
            /\ UNCHANGED <<batch, left, at, built, ready, before>>
    /\ UNCHANGED <<provider, channel, context, sends, crashes, faults>>

Rounds ==
    \/ Top \/ Again \/ Deliver \/ PutReply \/ Settle \/ Send \/ MarkDelivered
    \/ MarkFailure \/ Retry
Ingest ==
    \/ Poll \/ Pick \/ Lookup \/ Repair \/ Compare \/ Collect \/ SaveRow
    \/ AppendMessage \/ Enqueue \/ SaveRun \/ DeleteRow \/ Remember
    \/ SaveCheckpoint
Faulty == SendFails \/ PollFails \/ Raise
Around ==
    \/ Arrive \/ ChangeContext \/ Crash \/ Restart
    \/ \E u \in Updates : Finish(u) \/ Elaborate(u) \/ Watch(u)

Next == Rounds \/ Ingest \/ Faulty \/ Around

Spec == Init /\ [][Next]_vars

(* The thread goes on, the process is started again, and the resident ends *)
(* what it has claimed.                                                    *)
Fairness ==
    /\ WF_vars(Rounds \/ Ingest)
    /\ WF_vars(Restart)
    /\ \A u \in Updates : WF_vars(Finish(u))

FairSpec == Spec /\ Fairness

----------------------------------------------------------------------------
(* Properties.                                                             *)

(* What the saved cursor has passed, and what the provider may forget, has *)
(* a durable route: _run_channel commits the cursor only after the whole   *)
(* batch, and keeps the batch in memory over exceptions.                   *)
AcknowledgedIsRouted ==
    \A u \in Updates \ Foreign :
        u < saved \/ u < acked => route[u] # "none"

(* What went out to the provider was in the transcript before, as the      *)
(* outcome of its event, and the run was settled; a route is delivered     *)
(* only after a complete send, unless the outcome has nothing to send      *)
(* (_deliver_ready).                                                       *)
OutboundIsOnRecord ==
    \A u \in Updates :
        /\ sends[u] > 0 => reply[u] # "none" /\ run[u] = "finalized"
        /\ reply[u] # "none" => reply[u] \in {event[u], Told(event[u])}
        /\ route[u] = "delivered" => sends[u] > 0 \/ event[u] = "silent"

(* The event of a percept that has ended is never queued again, by any     *)
(* replay or repair ("Existing resident events are never replaced or       *)
(* re-queued", event_ingress.py).                                          *)
EndedStaysEnded ==
    [][\A u \in Updates : Ended(u) => event'[u] = event[u]]_vars

(* Every percept the provider has received is answered, over crashes,      *)
(* raising writes, polls and sends.                                        *)
EveryPerceptIsAnswered ==
    \A u \in Updates \ Foreign : arrived >= u ~> route[u] = "delivered"

(* Statements of the code's texts that TLC refutes.                         *)

(* A replay of a percept is never refused: "Replaying the same percept     *)
(* after a crash repairs linkage without creating a second message, event, *)
(* memory write or model invocation" (recovery_bounded_work.py).           *)
ReplayIsAccepted == ~ (pc = "compare" /\ Durable(at) /\ payload[at] # built)

(* A row left by a crash does not stop the next start: "If the event       *)
(* already exists, reconciliation only repairs Work linkage and never      *)
(* enqueues a second event" (recovery_bounded_work.py).                    *)
StartRepairs == pc # "broken"

(* A cancelled outcome is never written as a failure ("cannot ...          *)
(* reinterpret a durable cancelled outcome as an ordinary failed Work      *)
(* result", work_control.py).                                              *)
CancelledIsTold == \A u \in Updates : event[u] = "cancelled" => reply[u] # "failed"
============================================================================
