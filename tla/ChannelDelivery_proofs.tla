----------------------- MODULE ChannelDelivery_proofs -----------------------
(* What a channel has confirmed to its provider is routed, for every number *)
(* of updates, crashes and faults.                                          *)
EXTENDS ChannelDelivery, SequenceTheorems, TLAPS

(* The cursors are numbers, and the volatile sets hold updates.            *)
CursorTypes ==
    /\ arrived \in 0 .. LastUpdate /\ acked \in Nat /\ saved \in Nat /\ offset \in Nat
    /\ DOMAIN route = Updates
    /\ batch \subseteq Updates

(* Everything the adapter has read is routed or still in the batch.        *)
ReadIsRouted ==
    \A u \in Updates \ Foreign : u < offset => route[u] # "none" \/ u \in batch

(* A new poll finds no batch.                                              *)
PolledWhenEmpty == pc = "poll" => batch = {} /\ left = {}

(* The part of the batch the thread has been through is routed.            *)
PassedIsRouted ==
    /\ pc = "pick" => left \subseteq batch /\ \A u \in batch \ left : route[u] # "none"
    /\ pc \in Ingesting =>
         /\ at \in batch /\ left \subseteq batch
         /\ \A u \in batch \ (left \cup {at}) : route[u] # "none"
    /\ pc = "save" => \A u \in batch : route[u] # "none"

(* The inductive invariant.                                                *)
CursorInv ==
    /\ CursorTypes /\ AcknowledgedIsRouted /\ ReadIsRouted /\ PolledWhenEmpty
    /\ PassedIsRouted

(* No update is below the first one.                                       *)
LEMMA FirstUpdate == \A u \in Updates : u \in Nat /\ u >= 1
BY UpdatesAssumption DEF Updates

(* Nothing is confirmed when the channel has never polled.                 *)
LEMMA CursorInit == Init => CursorInv
BY FirstUpdate, UpdatesAssumption
   DEF Init, CursorInv, CursorTypes, AcknowledgedIsRouted, ReadIsRouted,
       PolledWhenEmpty, PassedIsRouted, Ingesting, Writing

(* A step that leaves the routes, the cursors and the batch alone, and     *)
(* does not enter a place PassedIsRouted speaks of, preserves CursorInv.   *)
LEMMA CursorStutter ==
    ASSUME CursorInv, UNCHANGED <<provider, channel, offset, batch, left, at>>,
           pc' = pc \/ pc' \notin Ingesting \cup {"poll", "pick", "save"}
                    \/ (pc' \in Ingesting /\ pc \in Ingesting)
    PROVE  CursorInv'
BY DEF CursorInv, CursorTypes, AcknowledgedIsRouted, ReadIsRouted,
       PolledWhenEmpty, PassedIsRouted, provider, channel, Ingesting, Writing

(* The poll confirms what is below the offset, and with an empty batch     *)
(* that is routed; what it skips is foreign or in the new batch.           *)
LEMMA PollCursor == ASSUME CursorInv, Poll PROVE CursorInv'
<1> USE FirstUpdate DEF Poll, CursorInv, PolledWhenEmpty
<1>1. CursorTypes'
  <2>1. arrived' = arrived /\ acked' = Larger(acked, offset) /\ route' = route
        /\ saved' = saved
    BY DEF channel
  <2>2. offset' \in Nat /\ batch' \subseteq Updates
    <3>1. CASE UNCHANGED <<offset, batch, left>>
      BY <3>1 DEF CursorTypes
    <3>2. CASE \E last \in Held \ {0} :
                 /\ offset' = Past(last)
                 /\ batch' = {u \in Held \ {0} : u <= last} \ Foreign
      <4>1. PICK last \in Held \ {0} :
                 /\ offset' = Past(last)
                 /\ batch' = {u \in Held \ {0} : u <= last} \ Foreign
        BY <3>2
      <4>2. arrived \in 0 .. LastUpdate /\ LastUpdate \in Nat
            /\ Larger(acked, offset) \in Nat
        BY UpdatesAssumption DEF CursorTypes, Larger
      <4>3. Held \ {0} \subseteq Updates /\ last \in Nat
        BY <4>2 DEF Held, Updates
      <4>4. batch' \subseteq Held \ {0}
        BY <4>1, Zenon
      <4>5. offset' = last + 1
        BY <4>1 DEF Past
      <4> QED BY <4>3, <4>4, <4>5
    <3> QED BY <3>1, <3>2
  <2> QED BY <2>1, <2>2 DEF CursorTypes, Larger
<1>2. batch = {} /\ UNCHANGED route /\ UNCHANGED saved
  BY DEF channel
<1>3. acked' = Larger(acked, offset) /\ acked \in Nat /\ offset \in Nat
  BY DEF CursorTypes
<1>4. AcknowledgedIsRouted'
  BY <1>2, <1>3 DEF AcknowledgedIsRouted, ReadIsRouted, Larger
<1>5. ReadIsRouted'
  <2>1. CASE UNCHANGED <<offset, batch, left>>
    BY <2>1, <1>2 DEF ReadIsRouted
  <2>2. CASE \E last \in Held \ {0} :
               /\ offset' = Past(last)
               /\ batch' = {u \in Held \ {0} : u <= last} \ Foreign
    <3>1. PICK last \in Held \ {0} :
               /\ offset' = Past(last)
               /\ batch' = {u \in Held \ {0} : u <= last} \ Foreign
      BY <2>2
    <3>2. ASSUME NEW u \in Updates \ Foreign, u < offset'
          PROVE  route'[u] # "none" \/ u \in batch'
      <4>0. u \in Nat /\ u >= 1 /\ last \in Nat /\ last <= arrived /\ u <= last
        BY <3>1, <3>2, <1>3 DEF Past, Held, Larger, CursorTypes
      <4>1. CASE u < acked
        BY <4>1, <1>2 DEF AcknowledgedIsRouted
      <4>2. CASE u < offset
        BY <4>2, <1>2 DEF ReadIsRouted
      <4>3. CASE u >= acked /\ u >= offset
        BY <4>0, <4>3, <3>1, <1>3 DEF Held, Larger, CursorTypes
      <4> QED BY <4>0, <4>1, <4>2, <4>3, <1>3
    <3> QED BY <3>2 DEF ReadIsRouted
  <2> QED BY <2>1, <2>2
<1>6. PolledWhenEmpty' /\ PassedIsRouted'
  <2>1. pc' = "pick" /\ batch' \ left' = {}
    BY <1>2
  <2> QED BY <2>1 DEF PolledWhenEmpty, PassedIsRouted, Ingesting, Writing
<1> QED BY <1>1, <1>4, <1>5, <1>6

(* Taking the next percept of the batch, or finding none left.             *)
LEMMA PickCursor == ASSUME CursorInv, Pick PROVE CursorInv'
<1>1. pc = "pick" /\ UNCHANGED <<provider, channel, offset, batch>>
  BY DEF Pick
<1>2. CursorTypes' /\ AcknowledgedIsRouted' /\ ReadIsRouted'
  BY <1>1 DEF CursorInv, CursorTypes, AcknowledgedIsRouted, ReadIsRouted,
     provider, channel
<1>3. left \subseteq batch /\ \A u \in batch \ left : route[u] # "none"
  BY <1>1 DEF CursorInv, PassedIsRouted
<1>4. PolledWhenEmpty' /\ PassedIsRouted'
  <2>1. CASE left = {} /\ pc' = "save"
    BY <2>1, <1>1, <1>3 DEF PolledWhenEmpty, PassedIsRouted, Ingesting, Writing,
       channel
  <2>2. CASE \E u \in left : at' = u /\ left' = left \ {u} /\ pc' = "lookup"
    BY <2>2, <1>1, <1>3 DEF PolledWhenEmpty, PassedIsRouted, Ingesting, Writing,
       channel
  <2> QED BY <2>1, <2>2 DEF Pick
<1> QED BY <1>2, <1>4 DEF CursorInv

(* A duplicate is passed because it has a route.                           *)
LEMMA LookupCursor == ASSUME CursorInv, Lookup PROVE CursorInv'
BY DEF Lookup, Goto, CursorInv, CursorTypes, AcknowledgedIsRouted,
       ReadIsRouted, PolledWhenEmpty, PassedIsRouted, provider, channel,
       Ingesting, Writing

(* The route is written before the percept counts as passed.               *)
LEMMA RememberCursor == ASSUME CursorInv, Remember PROVE CursorInv'
<1> DEFINE new == [route EXCEPT ![at] = "pending"]
<1>1. route' = new /\ pc = "remember" /\ pc' = "pick"
      /\ UNCHANGED <<provider, saved, offset, batch, left, at>>
  BY DEF Remember, Goto
<1>2. at \in batch /\ left \subseteq batch /\ batch \subseteq Updates /\ DOMAIN route = Updates
      /\ \A u \in batch \ (left \cup {at}) : route[u] # "none"
  BY <1>1 DEF CursorInv, CursorTypes, PassedIsRouted, Ingesting, Writing
<1>3. DOMAIN new = Updates /\ new[at] = "pending"
      /\ \A u \in Updates : new[u] = route[u] \/ new[u] = "pending"
  BY <1>2
<1> HIDE DEF new
<1>4. CursorTypes' /\ AcknowledgedIsRouted' /\ ReadIsRouted'
  BY <1>1, <1>2, <1>3
     DEF CursorInv, CursorTypes, AcknowledgedIsRouted, ReadIsRouted, provider
<1>5. PolledWhenEmpty' /\ PassedIsRouted'
  BY <1>1, <1>2, <1>3 DEF PolledWhenEmpty, PassedIsRouted, Ingesting, Writing
<1> QED BY <1>4, <1>5 DEF CursorInv

(* The cursor is saved when every percept of the batch has its route.      *)
LEMMA SaveCursor == ASSUME CursorInv, SaveCheckpoint PROVE CursorInv'
BY DEF SaveCheckpoint, CursorInv, CursorTypes, AcknowledgedIsRouted,
       ReadIsRouted, PolledWhenEmpty, PassedIsRouted, provider, Ingesting,
       Writing

(* Delivery changes the status of a route, never back to none.             *)
LEMMA MarkCursor == ASSUME CursorInv, MarkDelivered \/ MarkFailure
                    PROVE  CursorInv'
<1>1. PICK status \in {"pending", "delivered"} :
         route' = [route EXCEPT ![at] = status]
  BY DEF MarkDelivered, MarkFailure, AfterSend, AfterFailure
<1>2. pc' \in {"deliver", "wait"}
      /\ UNCHANGED <<provider, saved, offset, batch, left, at>>
  BY DEF MarkDelivered, MarkFailure, NextRoute, Goto
<1>3. DOMAIN route = Updates
  BY DEF CursorInv, CursorTypes
<1>4. DOMAIN route' = Updates
      /\ \A u \in Updates : route'[u] = route[u] \/ route'[u] = status
  BY <1>1, <1>3
<1> QED BY <1>2, <1>4
     DEF CursorInv, CursorTypes, AcknowledgedIsRouted, ReadIsRouted,
         PolledWhenEmpty, PassedIsRouted, Ingesting, Writing, provider

(* A failed poll may have confirmed what is below the offset.              *)
LEMMA PollFailsCursor == ASSUME CursorInv, PollFails PROVE CursorInv'
<1>1. batch = {} /\ pc' = "wait" /\ acked' \in {acked, Larger(acked, offset)}
      /\ UNCHANGED <<arrived, channel, offset, batch, left, at>>
  BY DEF PollFails, Goto, CursorInv, PolledWhenEmpty
<1> QED BY <1>1
     DEF CursorInv, CursorTypes, AcknowledgedIsRouted, ReadIsRouted, Larger,
         PolledWhenEmpty, PassedIsRouted, Ingesting, Writing, channel

(* A death loses the batch and the offset; the next start reads the saved  *)
(* cursor, below which everything is routed.                               *)
LEMMA DownCursor == ASSUME CursorInv, Crash \/ Restart PROVE CursorInv'
<1> USE FirstUpdate
<1>1. CASE Crash
  BY <1>1 DEF Crash, CursorInv, CursorTypes, AcknowledgedIsRouted,
     ReadIsRouted, PolledWhenEmpty, PassedIsRouted, Ingesting, Writing,
     provider, channel
<1>2. CASE Restart
  <2>1. pc' \in {"top", "broken"} /\ UNCHANGED <<provider, channel, batch>>
        /\ offset' \in {offset, saved}
    BY <1>2 DEF Restart, Goto
  <2> QED BY <2>1 DEF CursorInv, CursorTypes, AcknowledgedIsRouted,
     ReadIsRouted, PolledWhenEmpty, PassedIsRouted, Ingesting, Writing,
     provider, channel
<1> QED BY <1>1, <1>2

(* A round begins, looks at a route, or hands the batch over.              *)
LEMMA RoundCursor ==
    ASSUME CursorInv, Top \/ Again \/ Deliver \/ PutReply \/ Settle \/ Send
                      \/ Retry \/ SendFails
    PROVE  CursorInv'
<1>1. CASE Top \/ Again
  BY <1>1, CursorStutter DEF Top, Again, Round, Ingesting, Writing
<1>2. CASE Deliver
  BY <1>2 DEF Deliver, CursorInv, CursorTypes, AcknowledgedIsRouted,
     ReadIsRouted, PolledWhenEmpty, PassedIsRouted, Ingesting, Writing,
     provider, channel
<1>3. CASE PutReply \/ Settle \/ Send \/ Retry \/ SendFails
  BY <1>3, CursorStutter
     DEF PutReply, Settle, Send, Retry, SendFails, Goto, Ingesting, Writing
<1> QED BY <1>1, <1>2, <1>3

(* start_external does not touch the routes.                               *)
LEMMA LinkCursor ==
    ASSUME CursorInv, Repair \/ Compare \/ Collect \/ SaveRow \/ AppendMessage
                      \/ Enqueue \/ SaveRun \/ DeleteRow \/ Raise
    PROVE  CursorInv'
<1>1. UNCHANGED <<provider, channel, offset, batch, left, at>>
  BY DEF Repair, Compare, Collect, SaveRow, AppendMessage, Enqueue, SaveRun,
         DeleteRow, Raise, Kept, Goto
<1>2. pc' = "wait" \/ (pc' \in Ingesting /\ pc \in Ingesting)
  BY DEF Repair, Compare, Collect, SaveRow, AppendMessage, Enqueue, SaveRun,
         DeleteRow, Raise, Goto, Ingesting, Writing
<1>3. "wait" \notin Ingesting \cup {"poll", "pick", "save"}
  BY DEF Ingesting, Writing
<1> QED BY <1>1, <1>2, <1>3, CursorStutter

(* Neither do the provider, the resident and the desktop.                  *)
LEMMA AroundCursor ==
    ASSUME CursorInv, Arrive \/ ChangeContext
                      \/ (\E u \in Updates : Finish(u) \/ Elaborate(u) \/ Watch(u))
    PROVE  CursorInv'
<1>1. CASE Arrive
  BY <1>1, UpdatesAssumption DEF Arrive, CursorInv, CursorTypes, AcknowledgedIsRouted,
     ReadIsRouted, PolledWhenEmpty, PassedIsRouted, thread, channel
<1>2. CASE ~Arrive
  <2>1. UNCHANGED <<provider, channel, thread>>
    BY <1>2 DEF ChangeContext, Finish, Elaborate, Watch
  <2> QED BY <2>1, CursorStutter DEF thread
<1> QED BY <1>1, <1>2

(* Every step preserves the invariant.                                     *)
LEMMA CursorNext == ASSUME CursorInv, [Next]_vars PROVE CursorInv'
<1>1. CASE UNCHANGED vars
  BY <1>1, CursorStutter DEF vars, thread
<1>2. CASE Rounds
  BY <1>2, RoundCursor, MarkCursor DEF Rounds
<1>3. CASE Ingest
  BY <1>3, PollCursor, PickCursor, LookupCursor, LinkCursor, RememberCursor,
     SaveCursor DEF Ingest
<1>4. CASE Faulty
  BY <1>4, RoundCursor, PollFailsCursor, LinkCursor DEF Faulty
<1>5. CASE Around
  BY <1>5, AroundCursor, DownCursor DEF Around
<1> QED BY <1>1, <1>2, <1>3, <1>4, <1>5 DEF Next

(* What the saved cursor or the provider has passed has a durable route.   *)
THEOREM AcknowledgedIsAlwaysRouted == Spec => []AcknowledgedIsRouted
<1>1. CursorInv => AcknowledgedIsRouted
  BY DEF CursorInv
<1> QED BY <1>1, CursorInit, CursorNext, PTL DEF Spec

----------------------------------------------------------------------------
(* Between the comparison and the new event there is no event.             *)
NewIsNew ==
    /\ DOMAIN event = Updates
    /\ pc \in {"collect", "row", "message", "event"} /\ at \in Updates =>
           event[at] = "none"

(* A new identity stays new until start_external queues its event.         *)
LEMMA NewIsNewNext == ASSUME NewIsNew, [Next]_vars PROVE NewIsNew'
<1> USE DEF NewIsNew
<1>1. CASE UNCHANGED vars
  BY <1>1 DEF vars, thread, store
<1>2. CASE Rounds
  BY <1>2 DEF Rounds, Top, Again, Round, Deliver, PutReply, Settle, Send,
     MarkDelivered, MarkFailure, NextRoute, Retry, Goto, store
<1>3. CASE Ingest
  BY <1>3 DEF Ingest, Poll, Pick, Lookup, Repair, Compare, Collect, SaveRow,
     AppendMessage, Enqueue, SaveRun, DeleteRow, Remember, SaveCheckpoint,
     Goto, store, Unknown, Mend
<1>4. CASE Faulty
  BY <1>4 DEF Faulty, SendFails, PollFails, Raise, Goto, Writing, store
<1>5. CASE Around
  <2>1. CASE Crash \/ Restart
    BY <2>1 DEF Crash, Restart, Goto, Mend, store
  <2>2. CASE Arrive \/ ChangeContext
    BY <2>2 DEF Arrive, ChangeContext, thread, store
  <2>3. CASE \E u \in Updates : Finish(u) \/ Elaborate(u) \/ Watch(u)
    <3>1. PICK u \in Updates : Finish(u) \/ Elaborate(u) \/ Watch(u)
      BY <2>3
    <3>2. /\ UNCHANGED <<pc, at>> /\ DOMAIN event' = DOMAIN event
          /\ at \in Updates /\ event[at] = "none" => event'[at] = "none"
      BY <3>1 DEF Finish, Elaborate, Watch, thread, store
    <3> QED BY <3>2
  <2> QED BY <1>5, <2>1, <2>2, <2>3 DEF Around
<1> QED BY <1>1, <1>2, <1>3, <1>4, <1>5 DEF Next

(* Repairs queue what has no event, and nothing else.                      *)
LEMMA MendKeepsEnded ==
    ASSUME NEW runs, Mend(runs), NEW u \in Updates, Ended(u)
    PROVE  event'[u] = event[u]
BY DEF Mend, MendEvent, Ended, Outcomes

(* No step changes the event of a percept that has ended.                  *)
LEMMA EndedStep ==
    ASSUME NewIsNew, Next, NEW u \in Updates, Ended(u)
    PROVE  event'[u] = event[u]
<1>1. CASE Rounds
  BY <1>1 DEF Rounds, Top, Again, Round, Deliver, PutReply, Settle, Send,
     MarkDelivered, MarkFailure, Retry, store
<1>2. CASE Repair \/ Restart
  BY <1>2, MendKeepsEnded DEF Repair, Restart, store
<1>3. CASE Enqueue
  BY <1>3 DEF Enqueue, NewIsNew, Ended, Outcomes
<1>4. CASE Ingest /\ ~Repair /\ ~Enqueue
  BY <1>4 DEF Ingest, Poll, Pick, Lookup, Compare, Collect, SaveRow,
     AppendMessage, SaveRun, DeleteRow, Remember, SaveCheckpoint, store
<1>5. CASE Faulty
  BY <1>5 DEF Faulty, SendFails, PollFails, Raise, store
<1>6. CASE \E v \in Updates : Finish(v) \/ Elaborate(v) \/ Watch(v)
  <2>1. PICK v \in Updates : Finish(v) \/ Elaborate(v) \/ Watch(v)
    BY <1>6
  <2>2. CASE u = v
    BY <2>1, <2>2 DEF Finish, Elaborate, Watch, Ended, Outcomes, store
  <2>3. CASE u # v
    BY <2>1, <2>3 DEF Finish, Elaborate, Watch, NewIsNew, store
  <2> QED BY <2>2, <2>3
<1>7. CASE Arrive \/ ChangeContext \/ Crash
  BY <1>7 DEF Arrive, ChangeContext, Crash, store
<1> QED BY <1>1, <1>2, <1>3, <1>4, <1>5, <1>6, <1>7 DEF Next, Ingest, Around

(* The event of a percept that has ended is never queued again.            *)
THEOREM EndedIsNeverRequeued == Spec => EndedStaysEnded
<1>1. Init => NewIsNew
  BY DEF Init, NewIsNew
<1>2. NewIsNew /\ [Next]_vars =>
        [\A u \in Updates : Ended(u) => event'[u] = event[u]]_vars
  BY EndedStep
<1> QED BY <1>1, <1>2, NewIsNewNext, PTL DEF Spec, EndedStaysEnded

----------------------------------------------------------------------------
(* Sequences of routes.                                                    *)

(* A sequence over a set is one over every larger set.                     *)
LEMMA SeqGrows ==
    ASSUME NEW S, NEW T, S \subseteq T, NEW s \in Seq(S)
    PROVE  s \in Seq(T)
<1>1. s \in [1 .. Len(s) -> S] /\ Len(s) \in Nat
  BY LenProperties
<1> QED BY <1>1

(* The first routes of a round come from the pending ones.                 *)
LEMMA FirstOfSeq ==
    ASSUME NEW S, NEW s \in Seq(S), NEW n \in Nat
    PROVE  FirstOf(s, n) \in Seq(S)
<1> DEFINE m == IF Len(s) < n THEN Len(s) ELSE n
<1>1. Len(s) \in Nat /\ m \in Int /\ \A i \in 1 .. m : s[i] \in S
  BY LenProperties, ElementOfSeq
<1> HIDE DEF m
<1>2. SubSeq(s, 1, m) \in Seq(S)
  BY <1>1, SubSeqProperties
<1> QED BY <1>2 DEF FirstOf, m

(* What is left of a sequence without one of its elements.                 *)
LEMMA OthersSeq ==
    ASSUME NEW S, NEW s \in Seq(S), NEW u
    PROVE  Others(s, u) \in Seq(S)
<1>1. CASE \E i \in DOMAIN s : s[i] = u
  <2> DEFINE i == CHOOSE i \in DOMAIN s : s[i] = u
  <2>1. i \in DOMAIN s /\ DOMAIN s = 1 .. Len(s) /\ Len(s) \in Nat
        /\ \A j \in 1 .. Len(s) : s[j] \in S
    BY <1>1, LenProperties
  <2>2. Others(s, u) = SubSeq(s, 1, i - 1) \o SubSeq(s, i + 1, Len(s))
    BY <1>1 DEF Others
  <2> HIDE DEF i
  <2>3. i - 1 \in Int /\ (\A j \in 1 .. i - 1 : s[j] \in S)
    BY <2>1
  <2>4. i + 1 \in Int /\ Len(s) \in Int /\ (\A j \in i + 1 .. Len(s) : s[j] \in S)
    BY <2>1
  <2>5. SubSeq(s, 1, i - 1) \in Seq(S)
    BY <2>3, SubSeqProperties
  <2>6. SubSeq(s, i + 1, Len(s)) \in Seq(S)
    BY <2>4, SubSeqProperties
  <2> QED BY <2>2, <2>5, <2>6, ConcatProperties
<1>2. CASE ~ \E i \in DOMAIN s : s[i] = u
  BY <1>2 DEF Others
<1> QED BY <1>1, <1>2

----------------------------------------------------------------------------
(* The types.                                                              *)

Routed == {u \in Updates : route[u] # "none"}

(* The delivery round is about the head of what it read, which has ended;  *)
(* what is routed has a run, and so has what is about to be.               *)
Delivery ==
    /\ order \in Seq(Routed) /\ ready \in Seq(Routed)
    /\ pc \in Delivering => ready # <<>> /\ at = Head(ready) /\ Ended(at)
    /\ \A u \in Routed : run[u] # "none"
    /\ pc \in {"collect", "row", "message", "event", "run"} => run[at] = "none"
    /\ pc \in {"unrow", "remember"} => run[at] # "none"

Typed == TypeOK /\ CursorInv /\ NewIsNew /\ Delivery

(* What start_external and the delivery are about is an update.            *)
LEMMA AtUpdate ==
    ASSUME Typed, pc \in Ingesting \cup Delivering
    PROVE  at \in Updates
<1>1. CASE pc \in Ingesting
  BY <1>1 DEF Typed, CursorInv, PassedIsRouted, CursorTypes
<1>2. CASE pc \in Delivering
  <2>1. Head(ready) \in Routed
    BY <1>2, HeadTailProperties DEF Typed, Delivery
  <2> QED BY <2>1, <1>2 DEF Typed, Delivery, Routed
<1> QED BY <1>1, <1>2

LEMMA TypedInit == Init => Typed
<1> SUFFICES ASSUME Init PROVE Typed
  OBVIOUS
<1>1. TypeOK
  <2>1. order \in Seq(Updates) /\ ready \in Seq(Updates)
    BY EmptySeq DEF Init
  <2>2. 0 \in 0 .. LastUpdate /\ 0 \in 0 .. LastUpdate + 1
        /\ 0 \in 0 .. MaxCrashes /\ 0 \in 0 .. MaxFaults
    BY UpdatesAssumption, BoundsAssumption
  <2> QED BY <2>1, <2>2 DEF Init, TypeOK
<1>2. NewIsNew
  BY DEF Init, NewIsNew
<1>3. Delivery
  <2>1. order \in Seq(Routed) /\ ready \in Seq(Routed)
    BY EmptySeq DEF Init
  <2> QED BY <2>1 DEF Init, Delivery, Delivering, Routed
<1> QED BY <1>1, <1>2, <1>3, CursorInit DEF Typed

LEMMA TypedRounds ==
    ASSUME Typed, Top \/ Again \/ Deliver \/ PutReply \/ Settle \/ Send \/ Retry
                  \/ SendFails
    PROVE  TypeOK'
<1> USE DEF Typed, TypeOK, Ingesting, Writing, Delivering, provider, channel,
            linkage, store
<1>1. CASE Top \/ Again
  <2>1. ready' \in Seq(Updates)
    BY <1>1, FirstOfSeq, BoundsAssumption DEF Top, Again, Round
  <2> QED BY <1>1, <2>1 DEF Top, Again, Round
<1>2. CASE Deliver
  <2>1. ready # <<>> => Head(ready) \in Updates /\ Tail(ready) \in Seq(Updates)
    BY HeadTailProperties
  <2>2. Updates \subseteq 0 .. LastUpdate
    BY UpdatesAssumption DEF Updates
  <2> QED BY <1>2, <2>1, <2>2 DEF Deliver
<1>3. CASE PutReply \/ Settle \/ Send
  <2>1. at \in Updates
    BY <1>3, AtUpdate DEF PutReply, Settle, Send
  <2>2. Told(event[at]) \in Outcomes \/ pc # "reply"
    BY <2>1 DEF Told, Outcomes, Delivery, Ended
  <2>3. CASE PutReply
    <3>1. FirstReply(at, Told(event[at])) \in Outcomes \cup {"none"}
      BY <2>1, <2>2, <2>3 DEF FirstReply, PutReply
    <3> QED BY <2>1, <2>3, <3>1 DEF PutReply, Goto
  <2>4. CASE Settle
    BY <2>1, <2>4 DEF Settle, Goto
  <2>5. CASE Send
    <3>1. sends' \in [Updates -> Nat]
      BY <2>1, <2>5 DEF Send
    <3> QED BY <2>5, <3>1 DEF Send, Goto
  <2> QED BY <1>3, <2>3, <2>4, <2>5
<1>4. CASE Retry
  BY <1>4 DEF Retry, Goto
<1>5. CASE SendFails
  BY <1>5, BoundsAssumption DEF SendFails, Goto, Fault
<1> QED BY <1>1, <1>2, <1>3, <1>4, <1>5

LEMMA TypedMarks ==
    ASSUME Typed, MarkDelivered \/ MarkFailure
    PROVE  TypeOK'
<1>1. at \in Updates
  BY AtUpdate DEF MarkDelivered, MarkFailure, Delivering
<1>2. Others(order, at) \in Seq(Updates)
      /\ Append(Others(order, at), at) \in Seq(Updates)
  BY <1>1, OthersSeq, AppendProperties DEF Typed, TypeOK
<1>3. CASE MarkDelivered
  <2>1. ready # <<>> /\ Tail(ready) \in Seq(Updates)
    BY <1>3, HeadTailProperties
       DEF Typed, TypeOK, Delivery, Delivering, MarkDelivered
  <2> QED BY <1>1, <1>2, <1>3, <2>1
     DEF MarkDelivered, NextRoute, AfterSend, Typed, TypeOK, provider, linkage, store
<1>4. CASE MarkFailure
  BY <1>1, <1>2, <1>4
     DEF MarkFailure, Goto, AfterFailure, Typed, TypeOK, provider, linkage, store
<1> QED BY <1>3, <1>4

LEMMA TypedBatch ==
    ASSUME Typed, Poll \/ PollFails \/ Pick \/ Lookup \/ Remember
                  \/ SaveCheckpoint \/ Raise
    PROVE  TypeOK'
<1> USE DEF Typed, TypeOK, Ingesting, Writing, provider, channel, linkage, store
<1>0. Updates \subseteq 0 .. LastUpdate /\ LastUpdate \in Nat
  BY UpdatesAssumption DEF Updates
<1>1. Larger(acked, offset) \in 0 .. LastUpdate + 1
  BY DEF Larger
<1>2. CASE Poll
  <2>1. offset' \in 0 .. LastUpdate + 1 /\ batch' \subseteq Updates
        /\ left' \subseteq Updates
    <3>1. Held \ {0} \subseteq Updates
      BY <1>0, <1>1 DEF Held, Updates
    <3>2. CASE UNCHANGED <<offset, batch, left>>
      BY <3>2
    <3>3. CASE \E last \in Held \ {0} :
                 /\ offset' = Past(last)
                 /\ batch' = {u \in Held \ {0} : u <= last} \ Foreign
                 /\ left' = batch'
      BY <3>1, <3>3, <1>0 DEF Past, Updates
    <3> QED BY <1>2, <3>2, <3>3 DEF Poll
  <2> QED BY <1>1, <1>2, <2>1 DEF Poll
<1>3. CASE PollFails
  BY <1>1, <1>3, BoundsAssumption DEF PollFails, Goto, Fault
<1>4. CASE Pick
  BY <1>0, <1>4 DEF Pick
<1>5. CASE Lookup
  BY <1>5 DEF Lookup, Goto
<1>6. CASE Remember
  <2>1. at \in Updates
    BY <1>6, AtUpdate DEF Remember
  <2>2. order' \in Seq(Updates)
    BY <1>6, <2>1, AppendProperties DEF Remember
  <2> QED BY <1>6, <2>1, <2>2 DEF Remember, Goto
<1>7. CASE SaveCheckpoint
  BY <1>7 DEF SaveCheckpoint
<1>8. CASE Raise
  BY <1>8, BoundsAssumption DEF Raise, Fault, Kept
<1> QED BY <1>2, <1>3, <1>4, <1>5, <1>6, <1>7, <1>8

(* The repair of the rows keeps the types of what it writes.               *)
LEMMA MendTypes ==
    ASSUME Typed, NEW runs \in [Updates -> {"none", "active", "finalized"}],
           Mend(runs)
    PROVE  /\ row' \in [Updates -> Contexts \cup {NoContext}]
           /\ message' \subseteq Updates
           /\ event' \in [Updates -> Outcomes \cup {"none", "pending"}]
           /\ payload' \in [Updates -> Contexts \cup {NoContext}]
           /\ run' \in [Updates -> {"none", "active", "finalized"}]
BY DEF Mend, MendEvent, HasRow, Typed, TypeOK

LEMMA TypedLink ==
    ASSUME Typed, Repair \/ Compare \/ Collect \/ SaveRow \/ AppendMessage
                  \/ Enqueue \/ SaveRun \/ DeleteRow
    PROVE  TypeOK'
<1> USE DEF Typed, TypeOK, Ingesting, Writing, provider, channel, linkage, store
<1>1. at \in Updates
  BY AtUpdate DEF Repair, Compare, Collect, SaveRow, AppendMessage, Enqueue,
     SaveRun, DeleteRow
<1>2. CASE Repair
  <2>1. CASE \E u \in Updates : Clashes(u)
    BY <1>2, <2>1 DEF Repair, Goto
  <2>2. CASE ~ \E u \in Updates : Clashes(u)
    <3>1. [u \in Updates |-> MendRun(u)] \in [Updates -> {"none", "active", "finalized"}]
      BY DEF MendRun
    <3>2. Mend([u \in Updates |-> MendRun(u)]) /\ pc' = "compare"
          /\ built' = context
          /\ UNCHANGED <<offset, batch, left, at, ready, before, provider,
                         channel, reply, context, sends, crashes, faults>>
      BY <1>2, <2>2 DEF Repair
    <3> QED BY <3>1, <3>2, MendTypes
  <2> QED BY <2>1, <2>2
<1>3. CASE Compare
  BY <1>3 DEF Compare, Goto
<1>4. CASE Collect
  <2>1. \A u \in Updates : Ended(u) => FirstReply(u, Told(event[u])) \in Outcomes \cup {"none"}
    BY DEF FirstReply, Told, Ended, Outcomes
  <2>2. reply' \in [Updates -> Outcomes \cup {"none"}]
    BY <1>4, <2>1 DEF Collect
  <2>3. run' \in [Updates -> {"none", "active", "finalized"}]
    BY <1>4 DEF Collect
  <2> QED BY <1>4, <2>2, <2>3 DEF Collect, Goto
<1>5. CASE SaveRow \/ AppendMessage \/ SaveRun \/ DeleteRow
  <2>1. CASE SaveRow
    BY <1>1, <2>1 DEF SaveRow, Goto
  <2>2. CASE AppendMessage
    BY <1>1, <2>2 DEF AppendMessage, Goto
  <2>3. CASE SaveRun
    BY <1>1, <2>3 DEF SaveRun, Goto
  <2>4. CASE DeleteRow
    BY <1>1, <2>4 DEF DeleteRow, Goto
  <2> QED BY <1>5, <2>1, <2>2, <2>3, <2>4
<1>6. CASE Enqueue
  BY <1>1, <1>6 DEF Enqueue, Goto
<1> QED BY <1>2, <1>3, <1>4, <1>5, <1>6

LEMMA TypedAround == ASSUME Typed, Around PROVE TypeOK'
<1> USE DEF Typed, TypeOK, Ingesting, Writing, provider, channel, linkage, store
<1>1. CASE Arrive
  BY <1>1, UpdatesAssumption DEF Arrive, thread
<1>2. CASE ChangeContext
  BY <1>2 DEF ChangeContext, thread
<1>3. CASE Crash
  BY <1>3, UpdatesAssumption, BoundsAssumption, EmptySeq DEF Crash
<1>4. CASE Restart
  <2>1. CASE \E u \in Updates : Clashes(u)
    BY <1>4, <2>1 DEF Restart, Goto
  <2>2. CASE ~ \E u \in Updates : Clashes(u)
    <3> DEFINE runs == [u \in Updates |-> IF event[u] = "cancelled"
                                          THEN "finalized" ELSE MendRun(u)]
    <3>1. runs \in [Updates -> {"none", "active", "finalized"}]
      BY DEF MendRun
    <3>2. /\ Mend(runs) /\ pc' = "top" /\ offset' = saved
          /\ reply' = [u \in Updates |-> IF event[u] = "cancelled"
                                          THEN FirstReply(u, "cancelled")
                                          ELSE reply[u]]
          /\ UNCHANGED <<batch, left, at, built, ready, before, provider,
                         channel, context, sends, crashes, faults>>
      BY <1>4, <2>2 DEF Restart
    <3>3. reply' \in [Updates -> Outcomes \cup {"none"}]
      BY <3>2 DEF FirstReply, Outcomes
    <3> HIDE DEF runs
    <3> QED BY <3>1, <3>2, <3>3, MendTypes
  <2> QED BY <2>1, <2>2
<1>5. ASSUME NEW u \in Updates, Finish(u) \/ Elaborate(u) \/ Watch(u)
      PROVE  TypeOK'
  <2>1. CASE Finish(u)
    BY <2>1 DEF Finish, thread
  <2>2. CASE Elaborate(u)
    BY <2>2 DEF Elaborate, thread
  <2>3. CASE Watch(u)
    <3>1. FirstReply(u, event[u]) \in Outcomes \cup {"none"}
      BY <2>3 DEF Watch, Ended, FirstReply
    <3> QED BY <2>3, <3>1 DEF Watch, thread
  <2> QED BY <1>5, <2>1, <2>2, <2>3
<1> QED BY <1>1, <1>2, <1>3, <1>4, <1>5 DEF Around

(* Every step keeps the types.                                             *)
LEMMA TypedStep == ASSUME Typed, [Next]_vars PROVE TypeOK'
<1>1. CASE UNCHANGED vars
  BY <1>1 DEF Typed, TypeOK, vars, provider, channel, linkage, store, thread
<1>2. CASE Next
  BY <1>2, TypedRounds, TypedMarks, TypedBatch, TypedLink, TypedAround
     DEF Next, Rounds, Ingest, Faulty
<1> QED BY <1>1, <1>2

(* No step takes a run away, or a route.                                   *)
LEMMA RunsStay ==
    ASSUME Typed, Next, NEW u \in Updates, run[u] # "none"
    PROVE  run'[u] # "none"
<1> USE DEF Typed, TypeOK
<1>1. CASE Rounds
  BY <1>1 DEF Rounds, Top, Again, Round, Deliver, PutReply, Settle, Send,
     MarkDelivered, MarkFailure, Retry, linkage
<1>2. CASE Ingest
  BY <1>2 DEF Ingest, Poll, Pick, Lookup, Repair, Compare, Collect, SaveRow,
     AppendMessage, Enqueue, SaveRun, DeleteRow, Remember, SaveCheckpoint,
     linkage, Mend, MendRun
<1>3. CASE Faulty
  BY <1>3 DEF Faulty, SendFails, PollFails, Raise, linkage
<1>4. CASE Arrive \/ ChangeContext \/ Crash \/ Restart
  BY <1>4 DEF Arrive, ChangeContext, Crash, Restart, linkage, Mend, MendRun
<1>5. ASSUME NEW v \in Updates, Finish(v) \/ Elaborate(v) \/ Watch(v)
      PROVE  run'[u] # "none"
  BY <1>5 DEF Finish, Elaborate, Watch, linkage
<1> QED BY <1>1, <1>2, <1>3, <1>4, <1>5 DEF Next, Around

(* Routes change where a percept is remembered and where it is marked.     *)
LEMMA RoutesKept ==
    ASSUME Next, ~ (Remember \/ MarkDelivered \/ MarkFailure)
    PROVE  UNCHANGED <<route, order>>
<1>1. CASE Rounds
  BY <1>1 DEF Rounds, Top, Again, Round, Deliver, PutReply, Settle, Send, Retry,
     channel
<1>2. CASE Ingest
  BY <1>2 DEF Ingest, Poll, Pick, Lookup, Repair, Compare, Collect, SaveRow,
     AppendMessage, Enqueue, SaveRun, DeleteRow, SaveCheckpoint, channel
<1>3. CASE Faulty
  BY <1>3 DEF Faulty, SendFails, PollFails, Raise, channel
<1>4. CASE Arrive \/ ChangeContext \/ Crash \/ Restart
  BY <1>4 DEF Arrive, ChangeContext, Crash, Restart, channel
<1>5. ASSUME NEW v \in Updates, Finish(v) \/ Elaborate(v) \/ Watch(v)
      PROVE  UNCHANGED <<route, order>>
  BY <1>5 DEF Finish, Elaborate, Watch, channel
<1> QED BY <1>1, <1>2, <1>3, <1>4, <1>5 DEF Next, Around

(* The routes and their order after a step, and the runs of the routed.    *)
LEMMA RoutedStep ==
    ASSUME Typed, Next
    PROVE  /\ Routed \subseteq Routed' /\ order' \in Seq(Routed')
           /\ \A u \in Routed' : run'[u] # "none"
<1>1. CASE Remember \/ MarkDelivered \/ MarkFailure
  <2>1. at \in Updates /\ run[at] # "none"
    <3>1. at \in Updates
      BY <1>1, AtUpdate DEF Remember, MarkDelivered, MarkFailure, Ingesting,
         Writing, Delivering
    <3>2. CASE Remember
      BY <3>1, <3>2 DEF Typed, Delivery, Remember
    <3>3. CASE MarkDelivered \/ MarkFailure
      <4>1. pc \in Delivering
        BY <3>3 DEF MarkDelivered, MarkFailure, Delivering
      <4>2. Head(ready) \in Routed
        BY <4>1, HeadTailProperties DEF Typed, Delivery
      <4> QED BY <3>1, <4>1, <4>2 DEF Typed, Delivery
    <3> QED BY <1>1, <3>1, <3>2, <3>3
  <2>2. PICK status \in {"pending", "delivered"} :
            route' = [route EXCEPT ![at] = status]
    BY <1>1 DEF Remember, MarkDelivered, MarkFailure, AfterSend, AfterFailure
  <2>3. Routed' = Routed \cup {at}
    BY <2>1, <2>2 DEF Routed, Typed, TypeOK
  <2>4. run' = run
    BY <1>1 DEF Remember, MarkDelivered, MarkFailure, linkage
  <2>5. order \in Seq(Routed') /\ at \in Routed'
    BY <2>3, SeqGrows DEF Typed, Delivery
  <2>6. order' \in Seq(Routed')
    <3>1. Others(order, at) \in Seq(Routed')
      BY <2>5, OthersSeq
    <3>2. Append(order, at) \in Seq(Routed')
          /\ Append(Others(order, at), at) \in Seq(Routed')
      BY <2>5, <3>1, AppendProperties
    <3> QED BY <1>1, <3>1, <3>2 DEF Remember, MarkDelivered, MarkFailure
  <2> QED BY <2>1, <2>3, <2>4, <2>6 DEF Typed, Delivery
<1>2. CASE ~ (Remember \/ MarkDelivered \/ MarkFailure)
  <2>1. Routed' = Routed /\ order' = order
    BY <1>2, RoutesKept DEF Routed
  <2> QED BY <2>1, RunsStay DEF Typed, Delivery, Routed
<1> QED BY <1>1, <1>2

(* The routes the round still has before it.                               *)
LEMMA ReadyStep == ASSUME Typed, Next PROVE ready' \in Seq(Routed')
<1>1. ready' = ready \/ ready' = <<>> \/ ready' = FirstOf(order, Limit)
      \/ (ready # <<>> /\ ready' = Tail(ready))
  <2>1. CASE Rounds
    BY <2>1 DEF Rounds, Top, Again, Round, Deliver, PutReply, Settle, Send,
       MarkDelivered, MarkFailure, NextRoute, Retry, Goto, Typed, Delivery,
       Delivering
  <2>2. CASE Ingest
    BY <2>2 DEF Ingest, Poll, Pick, Lookup, Repair, Compare, Collect, SaveRow,
       AppendMessage, Enqueue, SaveRun, DeleteRow, Remember, SaveCheckpoint, Goto
  <2>3. CASE Faulty
    BY <2>3 DEF Faulty, SendFails, PollFails, Raise, Goto
  <2>4. CASE Around
    BY <2>4 DEF Around, Arrive, ChangeContext, Crash, Restart, Finish, Elaborate,
       Watch, thread, Goto
  <2> QED BY <2>1, <2>2, <2>3, <2>4 DEF Next
<1>2. ready' \in Seq(Routed)
  <2>1. order \in Seq(Routed) /\ ready \in Seq(Routed) /\ Limit \in Nat
    BY BoundsAssumption DEF Typed, Delivery
  <2>2. FirstOf(order, Limit) \in Seq(Routed)
    BY <2>1, FirstOfSeq
  <2>3. ready # <<>> => Tail(ready) \in Seq(Routed)
    BY <2>1, HeadTailProperties
  <2> QED BY <1>1, <2>1, <2>2, <2>3, EmptySeq
<1> QED BY <1>2, RoutedStep, SeqGrows

(* The delivery stays about the head of the round, which stays ended.      *)
LEMMA HeadStep ==
    ASSUME Typed, Next, pc' \in Delivering
    PROVE  ready' # <<>> /\ at' = Head(ready') /\ Ended(at)'
<1> USE DEF Typed, Delivery
<1>1. CASE Deliver
  <2>1. ready # <<>> /\ ready' = ready /\ at' = Head(ready) /\ Ended(Head(ready))
        /\ event' = event
    BY <1>1 DEF Deliver, Delivering, store
  <2> QED BY <2>1 DEF Ended
<1>2. CASE ~Deliver
  <2>1. pc \in Delivering /\ UNCHANGED <<ready, at>>
    <3>1. CASE Rounds
      BY <1>2, <3>1 DEF Rounds, Top, Again, Round, PutReply, Settle, Send,
         MarkDelivered, MarkFailure, NextRoute, Retry, Goto, Delivering
    <3>2. CASE Ingest
      BY <3>2 DEF Ingest, Poll, Pick, Lookup, Repair, Compare, Collect, SaveRow,
         AppendMessage, Enqueue, SaveRun, DeleteRow, Remember, SaveCheckpoint,
         Goto, Delivering
    <3>3. CASE Faulty
      BY <3>3 DEF Faulty, SendFails, PollFails, Raise, Goto, Delivering
    <3>4. CASE Around
      BY <3>4 DEF Around, Arrive, ChangeContext, Crash, Restart, Finish,
         Elaborate, Watch, thread, Goto, Delivering
    <3> QED BY <3>1, <3>2, <3>3, <3>4 DEF Next
  <2>2. at \in Updates
    BY <2>1, AtUpdate
  <2>3. event'[at] = event[at]
    BY <2>1, <2>2, EndedStep
  <2> QED BY <2>1, <2>3 DEF Ended
<1> QED BY <1>1, <1>2

(* Only start_external gives a percept its run, and after the event.       *)
LEMMA RunOfAtStep ==
    ASSUME Typed, Next
    PROVE  /\ pc' \in {"collect", "row", "message", "event", "run"} => run'[at'] = "none"
           /\ pc' \in {"unrow", "remember"} => run'[at'] # "none"
<1> USE DEF Typed, TypeOK, Delivery
<1> SUFFICES ASSUME pc' \in {"collect", "row", "message", "event", "run",
                             "unrow", "remember"}
             PROVE  /\ pc' \notin {"unrow", "remember"} => run'[at'] = "none"
                    /\ pc' \in {"unrow", "remember"} => run'[at'] # "none"
  OBVIOUS
<1>1. ~Rounds /\ ~Faulty
  BY DEF Rounds, Top, Again, Round, Deliver, PutReply, Settle, Send,
     MarkDelivered, MarkFailure, NextRoute, Retry, Goto, Faulty, SendFails,
     PollFails, Raise
<1>2. CASE Ingest
  <2>1. pc \in Ingesting
    BY <1>2 DEF Ingest, Poll, Pick, Lookup, Repair, Compare, Collect, SaveRow,
       AppendMessage, Enqueue, SaveRun, DeleteRow, Remember, SaveCheckpoint,
       Goto, Ingesting, Writing
  <2>2. at \in Updates
    BY <2>1, AtUpdate
  <2> QED BY <1>2, <2>2 DEF Ingest, Poll, Pick, Lookup, Repair, Compare,
       Collect, SaveRow, AppendMessage, Enqueue, SaveRun, DeleteRow, Remember,
       SaveCheckpoint, Goto, Unknown, Durable, linkage
<1>3. CASE Around
  <2>1. ~Crash /\ ~Restart
    BY DEF Crash, Restart, Goto
  <2>2. CASE Arrive \/ ChangeContext
    BY <2>2 DEF Arrive, ChangeContext, thread, linkage
  <2>3. ASSUME NEW u \in Updates, Finish(u) \/ Elaborate(u) \/ Watch(u)
        PROVE  /\ pc' \notin {"unrow", "remember"} => run'[at'] = "none"
               /\ pc' \in {"unrow", "remember"} => run'[at'] # "none"
    <3>1. UNCHANGED <<pc, at>>
      BY <2>3 DEF Finish, Elaborate, Watch, thread
    <3>2. at \in Updates
      BY <3>1, AtUpdate DEF Ingesting, Writing
    <3>3. run'[at] = "none" <=> run[at] = "none"
      BY <2>3, <3>2 DEF Finish, Elaborate, Watch, linkage
    <3> QED BY <3>1, <3>3
  <2> QED BY <1>3, <2>1, <2>2, <2>3 DEF Around
<1> QED BY <1>1, <1>2, <1>3 DEF Next

(* Every step preserves the invariant.                                     *)
LEMMA TypedNext == ASSUME Typed, [Next]_vars PROVE Typed'
<1>1. TypeOK' /\ CursorInv' /\ NewIsNew'
  BY TypedStep, CursorNext, NewIsNewNext DEF Typed
<1>2. CASE UNCHANGED vars
  BY <1>1, <1>2 DEF Typed, Delivery, Routed, Ended, vars, channel, linkage,
     thread, store
<1>3. CASE Next
  BY <1>1, <1>3, RoutedStep, ReadyStep, HeadStep, RunOfAtStep DEF Typed, Delivery
<1> QED BY <1>2, <1>3

(* The state of the channel has its types: what a round holds are routed   *)
(* updates, and a cursor is at most one past what has arrived.             *)
THEOREM ChannelTypes == Spec => []TypeOK
<1>1. Typed => TypeOK
  BY DEF Typed
<1> QED BY <1>1, TypedInit, TypedNext, PTL DEF Spec

----------------------------------------------------------------------------
(* The record.                                                             *)

(* What is said of an update, at rest and between two writes.              *)
Recorded ==
    /\ \A u \in Updates :
         /\ sends[u] > 0 => run[u] = "finalized"
         /\ run[u] = "finalized" => reply[u] # "none"
         /\ reply[u] # "none" => reply[u] \in {event[u], Told(event[u])}
         /\ route[u] = "delivered" => sends[u] > 0 \/ event[u] = "silent"
    /\ pc \in {"send", "mark", "fail"} => run[at] = "finalized"
    /\ pc = "settle" => reply[at] # "none"
    /\ pc = "mark" => sends[at] > 0 \/ event[at] = "silent"

(* What is on record is the outcome of an event that has ended.            *)
LEMMA ToldHasEnded ==
    ASSUME Typed, Recorded, NEW u \in Updates, reply[u] # "none"
    PROVE  Ended(u)
<1>1. reply[u] \in Outcomes
  BY DEF Typed, TypeOK
<1>2. event[u] \in Outcomes \/ Told(event[u]) = event[u]
  BY DEF Told, Outcomes
<1> QED BY <1>1, <1>2 DEF Recorded, Ended

(* A final message is written once, as the outcome of an ended event.      *)
LEMMA ReplyStep ==
    ASSUME Typed, Next, NEW u \in Updates
    PROVE  \/ reply'[u] = reply[u]
           \/ /\ reply[u] = "none" /\ Ended(u)
              /\ reply'[u] \in {event[u], Told(event[u])}
<1> USE DEF Typed, TypeOK
<1>1. CASE PutReply
  <2>1. at \in Updates /\ Ended(at)
    BY <1>1, AtUpdate DEF PutReply, Delivering, Delivery
  <2> QED BY <1>1, <2>1 DEF PutReply, FirstReply
<1>2. CASE Rounds /\ ~PutReply
  BY <1>2 DEF Rounds, Top, Again, Round, Deliver, Settle, Send, MarkDelivered,
     MarkFailure, Retry
<1>3. CASE Ingest
  BY <1>3 DEF Ingest, Poll, Pick, Lookup, Repair, Compare, Collect, SaveRow,
     AppendMessage, Enqueue, SaveRun, DeleteRow, Remember, SaveCheckpoint,
     FirstReply
<1>4. CASE Faulty
  BY <1>4 DEF Faulty, SendFails, PollFails, Raise
<1>5. CASE Arrive \/ ChangeContext \/ Crash
  BY <1>5 DEF Arrive, ChangeContext, Crash
<1>6. CASE Restart
  BY <1>6 DEF Restart, FirstReply, Ended, Outcomes
<1>7. ASSUME NEW v \in Updates, Finish(v) \/ Elaborate(v) \/ Watch(v)
      PROVE  \/ reply'[u] = reply[u]
             \/ /\ reply[u] = "none" /\ Ended(u)
                /\ reply'[u] \in {event[u], Told(event[u])}
  BY <1>7 DEF Finish, Elaborate, Watch, FirstReply
<1> QED BY <1>1, <1>2, <1>3, <1>4, <1>5, <1>6, <1>7 DEF Next, Around

(* A run is settled when its message is on record, and stays settled.      *)
LEMMA SettledStep ==
    ASSUME Typed, Recorded, Next, NEW u \in Updates
    PROVE  /\ run[u] = "finalized" => run'[u] = "finalized"
           /\ run'[u] = "finalized" => run[u] = "finalized" \/ reply'[u] # "none"
<1> USE DEF Typed, TypeOK
<1>1. CASE Settle
  BY <1>1 DEF Settle, Recorded
<1>2. CASE Rounds /\ ~Settle
  BY <1>2 DEF Rounds, Top, Again, Round, Deliver, PutReply, Send, MarkDelivered,
     MarkFailure, Retry, linkage
<1>3. CASE Collect
  BY <1>3 DEF Collect, FirstReply, Told, Ended, Outcomes
<1>4. CASE SaveRun
  <2>1. at \in Updates /\ run[at] = "none"
    BY <1>4, AtUpdate DEF SaveRun, Ingesting, Writing, Delivery
  <2> QED BY <1>4, <2>1 DEF SaveRun
<1>5. CASE Ingest /\ ~Collect /\ ~SaveRun
  BY <1>5 DEF Ingest, Poll, Pick, Lookup, Repair, Compare, SaveRow,
     AppendMessage, Enqueue, DeleteRow, Remember, SaveCheckpoint, linkage, Mend,
     MendRun
<1>6. CASE Faulty
  BY <1>6 DEF Faulty, SendFails, PollFails, Raise, linkage
<1>7. CASE Arrive \/ ChangeContext \/ Crash
  BY <1>7 DEF Arrive, ChangeContext, Crash, linkage
<1>8. CASE Restart
  BY <1>8 DEF Restart, FirstReply, Mend, MendRun, linkage
<1>9. ASSUME NEW v \in Updates, Finish(v) \/ Elaborate(v) \/ Watch(v)
      PROVE  /\ run[u] = "finalized" => run'[u] = "finalized"
             /\ run'[u] = "finalized" => run[u] = "finalized" \/ reply'[u] # "none"
  BY <1>9 DEF Finish, Elaborate, Watch, FirstReply, linkage, Ended, Outcomes
<1> QED BY <1>1, <1>2, <1>3, <1>4, <1>5, <1>6, <1>7, <1>8, <1>9 DEF Next, Around

(* The outcome goes out for the route at hand, and only when it is settled.*)
LEMMA SendsStep ==
    ASSUME Typed, Next, NEW u \in Updates
    PROVE  /\ sends[u] > 0 => sends'[u] > 0
           /\ sends'[u] > 0 => sends[u] > 0 \/ (pc = "send" /\ u = at)
<1> USE DEF Typed, TypeOK
<1>1. CASE Send
  <2>1. sends[u] \in Nat /\ sends[at] \in Nat
    BY <1>1, AtUpdate DEF Send, Delivering
  <2> QED BY <1>1, <2>1 DEF Send
<1>2. CASE ~Send
  <2>1. sends' = sends
    BY <1>2 DEF Next, Rounds, Top, Again, Round, Deliver, PutReply, Settle,
       MarkDelivered, MarkFailure, Retry, Ingest, Poll, Pick, Lookup, Repair,
       Compare, Collect, SaveRow, AppendMessage, Enqueue, SaveRun, DeleteRow,
       Remember, SaveCheckpoint, Faulty, SendFails, PollFails, Raise, Around,
       Arrive, ChangeContext, Crash, Restart, Finish, Elaborate, Watch
  <2> QED BY <2>1
<1> QED BY <1>1, <1>2

(* What is marked delivered was sent, or has nothing to send.              *)
LEMMA DeliveredStep ==
    ASSUME Typed, Recorded, Next, NEW u \in Updates, route'[u] = "delivered"
    PROVE  sends'[u] > 0 \/ event'[u] = "silent"
<1>1. sends[u] > 0 \/ event[u] = "silent"
  <2>1. CASE route[u] = "delivered"
    BY <2>1 DEF Recorded
  <2>2. CASE route[u] # "delivered"
    <3>1. MarkDelivered \/ MarkFailure \/ Remember
      BY <2>2, RoutesKept
    <3>2. MarkDelivered /\ u = at
      BY <2>2, <3>1 DEF MarkDelivered, MarkFailure, Remember, AfterSend,
         AfterFailure, Typed, TypeOK
    <3> QED BY <3>2 DEF MarkDelivered, Recorded
  <2> QED BY <2>1, <2>2
<1>2. event[u] = "silent" => event'[u] = "silent"
  BY EndedStep DEF Typed, Ended, Outcomes
<1> QED BY <1>1, <1>2, SendsStep

(* Between the record and the mark the thread is about what it wrote.      *)
LEMMA MarkStep ==
    ASSUME Typed, Recorded, Next
    PROVE  /\ pc' \in {"send", "mark", "fail"} => run'[at'] = "finalized"
           /\ pc' = "settle" => reply'[at'] # "none"
           /\ pc' = "mark" => sends'[at'] > 0 \/ event'[at'] = "silent"
<1> USE DEF Typed, TypeOK
<1> SUFFICES ASSUME pc' \in {"send", "mark", "fail", "settle"}
             PROVE  /\ pc' # "settle" => run'[at'] = "finalized"
                    /\ pc' = "settle" => reply'[at'] # "none"
                    /\ pc' = "mark" => sends'[at'] > 0 \/ event'[at'] = "silent"
  OBVIOUS
<1>1. pc \in {"reply", "send", "mark", "fail", "settle"} /\ at' = at
  <2>1. CASE Rounds
    BY <2>1 DEF Rounds, Top, Again, Round, Deliver, PutReply, Settle, Send,
       MarkDelivered, MarkFailure, NextRoute, Retry, Goto
  <2>2. CASE Ingest
    BY <2>2 DEF Ingest, Poll, Pick, Lookup, Repair, Compare, Collect, SaveRow,
       AppendMessage, Enqueue, SaveRun, DeleteRow, Remember, SaveCheckpoint, Goto
  <2>3. CASE Faulty
    BY <2>3 DEF Faulty, SendFails, PollFails, Raise, Goto
  <2>4. CASE Around
    BY <2>4 DEF Around, Arrive, ChangeContext, Crash, Restart, Finish, Elaborate,
       Watch, thread, Goto
  <2> QED BY <2>1, <2>2, <2>3, <2>4 DEF Next
<1>2. at \in Updates /\ Ended(at) /\ run[at] # "none"
  <2>1. pc \in Delivering
    BY <1>1 DEF Delivering
  <2>2. Head(ready) \in Routed
    BY <2>1, HeadTailProperties DEF Delivery
  <2> QED BY <2>1, <2>2, AtUpdate DEF Delivery
<1>3. CASE PutReply
  BY <1>2, <1>3 DEF PutReply, Goto, FirstReply, Told, Ended, Outcomes, linkage
<1>4. CASE Settle
  BY <1>2, <1>4 DEF Settle, Goto
<1>5. CASE Send
  <2>1. sends[at] \in Nat
    BY <1>2
  <2>2. run'[at] = "finalized" /\ pc' = "mark" /\ event' = event
    BY <1>2, <1>5 DEF Send, Goto, Recorded, linkage, store
  <2>3. event[at] # "silent" => sends'[at] > 0
    BY <1>2, <1>5, <2>1 DEF Send
  <2> QED BY <1>1, <2>2, <2>3
<1>6. CASE SendFails
  BY <1>2, <1>6 DEF SendFails, Goto, Recorded, linkage
<1>7. CASE ~PutReply /\ ~Settle /\ ~Send /\ ~SendFails
  <2>1. pc' = pc
    <3>1. ~Rounds /\ ~Ingest
      BY <1>1, <1>7 DEF Rounds, Top, Again, Round, Deliver, MarkDelivered,
         MarkFailure, NextRoute, Retry, Goto, Ingest, Poll, Pick, Lookup,
         Repair, Compare, Collect, SaveRow, AppendMessage, Enqueue, SaveRun,
         DeleteRow, Remember, SaveCheckpoint
    <3>2. ~Faulty
      BY <1>1, <1>7 DEF Faulty, PollFails, Raise, Goto
    <3>3. CASE Around
      BY <3>3, <1>1 DEF Around, Arrive, ChangeContext, Crash, Restart, Finish,
         Elaborate, Watch, thread, Goto
    <3> QED BY <3>1, <3>2, <3>3 DEF Next
  <2>2. event'[at] = event[at]
    BY <1>2, EndedStep
  <2>3. reply[at] # "none" => reply'[at] # "none"
    BY <1>2, ReplyStep
  <2> QED BY <1>1, <1>2, <2>1, <2>2, <2>3, SettledStep, SendsStep DEF Recorded
<1> QED BY <1>3, <1>4, <1>5, <1>6, <1>7

(* Every step keeps the record.                                            *)
LEMMA RecordedNext ==
    ASSUME Typed, Recorded, [Next]_vars
    PROVE  Recorded'
<1>1. CASE UNCHANGED vars
  BY <1>1 DEF Recorded, vars, channel, linkage, thread, store, Told
<1>2. CASE Next
  <2>1. ASSUME NEW u \in Updates
        PROVE  /\ sends'[u] > 0 => run'[u] = "finalized"
               /\ run'[u] = "finalized" => reply'[u] # "none"
               /\ reply'[u] # "none" => reply'[u] \in {event'[u], Told(event'[u])}
               /\ route'[u] = "delivered" => sends'[u] > 0 \/ event'[u] = "silent"
    <3>1. sends'[u] > 0 => run'[u] = "finalized"
      BY <1>2, SendsStep, SettledStep DEF Recorded
    <3>2. run'[u] = "finalized" => reply'[u] # "none"
      BY <1>2, SettledStep, ReplyStep DEF Recorded
    <3>3. reply'[u] # "none" => reply'[u] \in {event'[u], Told(event'[u])}
      BY <1>2, ReplyStep, ToldHasEnded, EndedStep DEF Recorded, Typed
    <3> QED BY <1>2, <3>1, <3>2, <3>3, DeliveredStep
  <2> QED BY <1>2, <2>1, MarkStep DEF Recorded
<1> QED BY <1>1, <1>2

(* What went out was in the transcript before, as the outcome of its       *)
(* event, and its run was settled; what is marked delivered went out or    *)
(* had nothing to send.                                                    *)
THEOREM OutboundIsAlwaysOnRecord == Spec => []OutboundIsOnRecord
<1>1. Init => Recorded
  BY DEF Init, Recorded
<1>2. Recorded => OutboundIsOnRecord
  BY DEF Recorded, OutboundIsOnRecord
<1> QED BY <1>1, <1>2, TypedInit, TypedNext, RecordedNext, PTL DEF Spec
============================================================================
