------------------------ MODULE ApprovalCards_proofs ------------------------
(***************************************************************************)
(* For any number of executors, users, contents, requests and crashes: a   *)
(* card's end is final, one approval is behind one execution at most, only *)
(* an allowed card executes, and the audit log agrees with the cards; the  *)
(* undos of a single user destroy nothing.                                 *)
(***************************************************************************)
EXTENDS ApprovalCards, TLAPS

(* A thread that holds a fresh identity, or a spent approval.              *)
Claims == {"select", "insert", "dispatch"}

Agrees(i, what) == what \in DOMAIN Became /\ request[i].status \in Became[what]

IsDenied(i) == i \in Ids /\ request[i].status = "denied"

(* What a thread may rely on at its next step.                             *)
ThreadOK(l) ==
    /\ l \in Locals
    /\ l.at \in {"select", "insert"} =>
         l.id \in Ids /\ l.id <= clock /\ request[l.id].status = "none"
    /\ l.at = "dispatch" /\ l.id \in Ids =>
         request[l.id].status = "consumed" /\ times[l.id] = 0
    /\ l.at = "decide" => l.id \in Ids /\ l.what \in Decisions
    /\ l.at = "rule" =>
         /\ l.id \in Ids /\ request[l.id].status = "expired"
         /\ l.what = "always_allow_from_expired"
    /\ l.at = "audit" => l.id \in Ids /\ Agrees(l.id, l.what)
    /\ l.at \in {"compare", "trash", "write", "mark"} => l.id \in Ids
    /\ l.at \in {"read", "rules", "consume"} => l.origin = "gate"
    /\ l.at = "stamp" /\ l.origin = "reconsider" => IsDenied(l.id)
    /\ l.at \in {"select", "insert"} /\ l.origin = "reconsider" => IsDenied(l.from)

Threads == \A p \in Procs : ThreadOK(local[p])

(* No two threads hold one identity.                                       *)
Apart ==
    \A p, q \in Procs :
        /\ p # q
        /\ local[p].at \in Claims /\ local[q].at \in Claims
        /\ local[p].id \in Ids
        => local[p].id # local[q].id

Fresh == \A i \in Ids : i > clock => request[i].status = "none"

Counted == \A i \in Ids : times[i] = 0 \/ (times[i] = 1 /\ request[i].status = "consumed")

Audited == \A e \in audit : e[1] \in Ids /\ Agrees(e[1], e[2])

ApprovalInv == TypeOK /\ Threads /\ Apart /\ Fresh /\ Counted /\ Audited

(* How the status of an existing request may move.                         *)
Lawful(old, new) ==
    \/ new = old
    \/ old = "pending" /\ new \in {"approved_once", "approved", "denied", "expired"}
    \/ old = "approved_once" /\ new = "consumed"

LawfulStep == \A i \in Ids : Lawful(request[i].status, request'[i].status)

LEMMA InitApproval == Init => ApprovalInv
<1> SUFFICES ASSUME Init PROVE ApprovalInv
  OBVIOUS
<1>1. Absent \in Requests /\ Idle \in Locals /\ Idle.at = "idle"
  BY BoundsAssumption DEF Absent, Requests, Idle, Locals, Statuses, Text, Origins,
     Steps, Whats, Decisions
<1>2. TypeOK
  <2>1. request \in [Ids -> Requests] /\ local \in [Procs -> Locals]
    BY <1>1 DEF Init
  <2>2. auto \in BOOLEAN /\ ask \in BOOLEAN /\ file \in Text /\ trash \subseteq Contents
        /\ audit \subseteq (0 .. MaxRequests) \X Whats
        /\ ran \subseteq [grant : 0 .. MaxRequests, content : Text, denied : BOOLEAN]
    BY DEF Init, Text
  <2>3. clock \in 0 .. MaxRequests /\ crashes \in 0 .. MaxCrashes
    BY BoundsAssumption DEF Init
  <2>4. times \in [Ids -> Nat] /\ landed \in [Ids -> Text] /\ undos \in [Ids -> Nat]
    BY DEF Init, Text
  <2> QED BY <2>1, <2>2, <2>3, <2>4 DEF TypeOK
<1>3. Threads /\ Apart
  BY <1>1 DEF Init, Threads, Apart, ThreadOK, Claims
<1>4. Fresh /\ Counted /\ Audited
  <2>1. \A i \in Ids : request[i].status = "none" /\ times[i] = 0
    BY DEF Init, Absent
  <2>2. audit = {}
    BY DEF Init
  <2>3. Fresh /\ Counted
    <3>1. Fresh
      BY <2>1, Zenon DEF Fresh
    <3>2. Counted
      BY <2>1, Zenon DEF Counted
    <3> QED BY <3>1, <3>2
  <2>4. Audited
    BY <2>2, Zenon DEF Audited
  <2> QED BY <2>3, <2>4
<1> QED BY <1>2, <1>3, <1>4 DEF ApprovalInv

-----------------------------------------------------------------------------
(* A step of one thread leaves the other threads' locals alone.            *)
Alone(p) ==
    /\ local' \in [Procs -> Locals]
    /\ \A q \in Procs \ {p} : local'[q] = local[q]

LEMMA AloneIs ==
    ASSUME ApprovalInv, NEW p \in Procs, NEW l \in Locals,
           local' = [local EXCEPT ![p] = l]
    PROVE  Alone(p) /\ local'[p] = l
BY DEF ApprovalInv, TypeOK, Alone

(* Lawful moves of the requests leave a thread what it relies on.          *)
LEMMA LawfulKeepsThreads ==
    ASSUME LawfulStep, UNCHANGED times, clock \in Nat, clock' \in Nat,
           clock' >= clock,
           NEW p \in Procs, local'[p] = local[p], ThreadOK(local[p])
    PROVE  ThreadOK(local[p])'
<1> DEFINE l == local[p]
<1>1. \A i \in Ids : request[i].status \in {"none", "consumed", "expired", "denied"} =>
                       request'[i].status = request[i].status
  BY DEF LawfulStep, Lawful
<1>2. \A i \in Ids : \A what : Agrees(i, what) =>
         what \in DOMAIN Became /\ request'[i].status \in Became[what]
  BY DEF LawfulStep, Lawful, Agrees, Became
<1>3. l.at \in {"select", "insert"} =>
        l.id \in Ids /\ l.id <= clock' /\ request'[l.id].status = "none"
  BY <1>1, BoundsAssumption DEF ThreadOK, Ids
<1>4. l.at = "dispatch" /\ l.id \in Ids =>
        request'[l.id].status = "consumed" /\ times'[l.id] = 0
  BY <1>1 DEF ThreadOK
<1>5. l.at = "rule" => l.id \in Ids /\ request'[l.id].status = "expired"
  BY <1>1 DEF ThreadOK
<1>6. l.at = "audit" => /\ l.id \in Ids /\ l.what \in DOMAIN Became
                        /\ request'[l.id].status \in Became[l.what]
  BY <1>2 DEF ThreadOK
<1>7. /\ l.at = "stamp" /\ l.origin = "reconsider" =>
           l.id \in Ids /\ request'[l.id].status = "denied"
      /\ l.at \in {"select", "insert"} /\ l.origin = "reconsider" =>
           l.from \in Ids /\ request'[l.from].status = "denied"
  BY <1>1 DEF ThreadOK, IsDenied
<1> QED
  BY <1>3, <1>4, <1>5, <1>6, <1>7 DEF ThreadOK, Agrees, IsDenied

(* A step that moves the requests lawfully and changes one thread.         *)
LEMMA OneThread ==
    ASSUME ApprovalInv, TypeOK', LawfulStep, UNCHANGED <<times, audit>>,
           clock' >= clock,
           \A i \in Ids : i > clock' => request'[i].status = request[i].status,
           NEW p \in Procs, Alone(p), ThreadOK(local[p])',
           \/ local'[p].at \notin Claims
           \/ local[p].at \in Claims /\ local'[p].id = local[p].id
           \/ \A q \in Procs \ {p} :
                local[q].at \in Claims => local'[p].id # local[q].id
    PROVE  ApprovalInv'
<1>1. clock \in Nat /\ clock' \in Nat
  BY BoundsAssumption DEF ApprovalInv, TypeOK
<1>2. ASSUME NEW q \in Procs PROVE ThreadOK(local[q])'
  <2>1. CASE q = p
    BY <2>1
  <2>2. CASE q # p
    BY <1>1, <2>2, LawfulKeepsThreads DEF Alone, ApprovalInv, Threads
  <2> QED BY <2>1, <2>2
<1>3. Apart'
  BY DEF Alone, ApprovalInv, Apart
<1>4. Fresh'
  BY <1>1, BoundsAssumption DEF ApprovalInv, Fresh, Ids
<1>5. Counted'
  BY DEF ApprovalInv, Counted, LawfulStep, Lawful
<1>6. Audited'
  BY DEF ApprovalInv, Audited, LawfulStep, Lawful, Agrees, Became
<1> QED BY <1>2, <1>3, <1>4, <1>5, <1>6 DEF ApprovalInv, Threads

-----------------------------------------------------------------------------
(* Types: one thread's locals change, and perhaps the requests.            *)
LEMMA ExpiredIsLawful ==
    ASSUME TypeOK
    PROVE  /\ Expired \in [Ids -> Requests]
           /\ \A i \in Ids : Lawful(request[i].status, Expired[i].status)
           /\ \A i \in Ids : request[i].status = "none" => Expired[i].status = "none"
<1>1. ASSUME NEW i \in Ids
      PROVE  /\ Expired[i] \in Requests
             /\ Lawful(request[i].status, Expired[i].status)
             /\ request[i].status = "none" => Expired[i].status = "none"
  <2>1. request[i] \in Requests /\ Expired[i] = Overdue(request[i])
    BY DEF TypeOK, Expired
  <2> QED BY <2>1 DEF Overdue, Requests, Statuses, Lawful
<1>2. Expired = [i \in Ids |-> Expired[i]]
  BY DEF Expired
<1> QED BY <1>1, <1>2

LEMMA LocalTypes ==
    ASSUME TypeOK, NEW p \in Procs, Alone(p), request' \in [Ids -> Requests],
           auto' \in BOOLEAN, clock' \in 0 .. MaxRequests,
           UNCHANGED <<ask, audit, disk, crashes, history>>
    PROVE  TypeOK'
BY DEF TypeOK, disk, history, Alone

(* A step of the gate, of a request or of a decision that changes its      *)
(* thread, and perhaps the status of requests.                             *)
LEMMA Change ==
    ASSUME ApprovalInv, NEW p \in Procs, Alone(p), ThreadOK(local[p])',
           request' \in [Ids -> Requests], LawfulStep, auto' \in BOOLEAN,
           UNCHANGED <<ask, audit, disk, clock, crashes, history>>,
           \/ local'[p].at \notin Claims
           \/ local[p].at \in Claims /\ local'[p].id = local[p].id
    PROVE  ApprovalInv'
<1>1. TypeOK /\ clock \in 0 .. MaxRequests
  BY DEF ApprovalInv, TypeOK
<1>2. TypeOK'
  BY <1>1, LocalTypes
<1>3. \A i \in Ids : i > clock' => request'[i].status = request[i].status
  BY DEF ApprovalInv, Fresh, LawfulStep, Lawful
<1>4. clock' >= clock
  BY <1>1, BoundsAssumption
<1>5. UNCHANGED times
  BY DEF history
<1> QED BY <1>2, <1>3, <1>4, <1>5, OneThread

LEMMA IdleIsOK == ThreadOK(Idle) /\ Idle \in Locals /\ Idle.at = "idle"
BY BoundsAssumption DEF Idle, ThreadOK, Locals, Text, Statuses, Origins, Steps, Whats,
   Decisions

LEMMA Same == ASSUME ApprovalInv, UNCHANGED request
              PROVE  request' \in [Ids -> Requests] /\ LawfulStep
BY DEF ApprovalInv, TypeOK, LawfulStep, Lawful

(* A step that only moves its thread on, or ends its call.                 *)
LEMMA MoveOn ==
    ASSUME ApprovalInv, NEW p \in Procs, NEW l \in Locals, ThreadOK(l),
           local' = [local EXCEPT ![p] = l],
           UNCHANGED <<ledger, disk, clock, crashes, history>>,
           l.at \notin Claims \/ (local[p].at \in Claims /\ l.id = local[p].id)
    PROVE  ApprovalInv'
<1>1. request' \in [Ids -> Requests] /\ LawfulStep /\ auto' \in BOOLEAN
  BY Same DEF ledger, ApprovalInv, TypeOK
<1>2. Alone(p) /\ local'[p] = l
  BY AloneIs
<1>3. ThreadOK(local[p])'
  BY <1>2 DEF ThreadOK, Agrees, IsDenied, ledger, history
<1> QED BY <1>1, <1>2, <1>3, Change DEF ledger

(* A call that ends leaves nothing to rely on.                             *)
LEMMA CallEnds ==
    ASSUME ApprovalInv, NEW p \in Procs, Finish(p), LawfulStep,
           request' \in [Ids -> Requests], auto' \in BOOLEAN,
           UNCHANGED <<ask, audit, disk, clock, crashes, history>>
    PROVE  ApprovalInv'
<1>1. Alone(p) /\ local'[p] = Idle
  BY IdleIsOK, AloneIs DEF Finish, Goto
<1>2. ThreadOK(local[p])' /\ local'[p].at \notin Claims
  BY <1>1, IdleIsOK DEF ThreadOK, Claims
<1> QED BY <1>1, <1>2, Change

-----------------------------------------------------------------------------
(* One lemma for each action.                                              *)
LEMMA ProposeKeeps ==
    ASSUME ApprovalInv, NEW p \in Procs, NEW c \in Contents, Propose(p, c)
    PROVE  ApprovalInv'
<1> DEFINE l == [Idle EXCEPT !.at = "read", !.content = c, !.old = file]
<1>1. l \in Locals /\ l.at = "read" /\ l.origin = "gate"
  BY IdleIsOK DEF ApprovalInv, TypeOK, Idle, Locals, Text, Steps
<1>2. request' \in [Ids -> Requests] /\ LawfulStep
  BY ExpiredIsLawful DEF ApprovalInv, Propose, LawfulStep
<1>3. /\ local' = [local EXCEPT ![p] = l] /\ auto' \in BOOLEAN
      /\ UNCHANGED <<ask, audit, disk, clock, crashes, history>>
  BY DEF Propose, Goto, ApprovalInv, TypeOK
<1>4. Alone(p) /\ local'[p] = l
  BY <1>1, <1>3, AloneIs
<1>5. ThreadOK(local[p])' /\ local'[p].at \notin Claims
  BY <1>1, <1>4 DEF ThreadOK, Claims
<1> HIDE DEF l
<1> QED BY <1>2, <1>3, <1>4, <1>5, Change

LEMMA ReadLatestKeeps ==
    ASSUME ApprovalInv, NEW p \in Procs, ReadLatest(p) PROVE ApprovalInv'
<1>1. PICK i \in {0} \cup Ids :
         IF AfterReading(StatusOf(i)) = "idle"
         THEN Finish(p)
         ELSE Goto(p, [local[p] EXCEPT !.at = AfterReading(StatusOf(i)), !.id = i,
                                       !.seen = StatusOf(i), !.denied = DenyStands])
  BY Zenon DEF ReadLatest
<1> DEFINE m == [local[p] EXCEPT !.at = AfterReading(StatusOf(i)), !.id = i,
                                 !.seen = StatusOf(i), !.denied = DenyStands]
<1>2. UNCHANGED <<ledger, disk, clock, crashes, history>>
  BY DEF ReadLatest
<1>3. CASE AfterReading(StatusOf(i)) = "idle"
  <2>1. local' = [local EXCEPT ![p] = Idle]
    BY <1>1, <1>3 DEF Finish, Goto
  <2> QED BY <2>1, <1>2, IdleIsOK, MoveOn DEF Claims
<1>4. CASE AfterReading(StatusOf(i)) # "idle"
  <2>1. AfterReading(StatusOf(i)) = "rules"
    BY <1>4 DEF AfterReading
  <2>2. i \in 0 .. MaxRequests /\ StatusOf(i) \in Statuses /\ DenyStands \in BOOLEAN
    BY BoundsAssumption DEF StatusOf, ApprovalInv, TypeOK, Requests, Ids, Statuses,
       DenyStands
  <2>3. local[p] \in Locals /\ local[p].origin = "gate"
    BY DEF ApprovalInv, TypeOK, Threads, ThreadOK, ReadLatest
  <2>4. m \in Locals /\ m.at = "rules" /\ m.origin = "gate"
    BY <2>1, <2>2, <2>3 DEF Locals, Steps
  <2>5. ThreadOK(m)
    BY <2>4 DEF ThreadOK
  <2>6. local' = [local EXCEPT ![p] = m]
    BY <1>1, <1>4 DEF Goto
  <2> HIDE DEF m
  <2> QED BY <2>4, <2>5, <2>6, <1>2, MoveOn DEF Claims
<1> QED BY <1>3, <1>4

LEMMA EvaluateRulesKeeps ==
    ASSUME ApprovalInv, NEW p \in Procs, EvaluateRules(p) PROVE ApprovalInv'
<1> DEFINE l == local[p]
<1>1. l \in Locals /\ l.at = "rules" /\ l.origin = "gate"
  BY DEF ApprovalInv, TypeOK, Threads, ThreadOK, EvaluateRules
<1>2. /\ UNCHANGED <<ledger, disk, clock, crashes, history>>
      /\ local' = [local EXCEPT ![p] = AfterRules(l)]
  BY DEF EvaluateRules, Goto
<1>3. request' \in [Ids -> Requests] /\ LawfulStep /\ auto' \in BOOLEAN
  BY <1>2, Same DEF ledger, ApprovalInv, TypeOK
<1>4. \/ AfterRules(l) = [l EXCEPT !.at = "dispatch", !.id = 0]
      \/ AfterRules(l) = [l EXCEPT !.at = "consume"]
      \/ AfterRules(l) = [l EXCEPT !.at = "stamp"]
      \/ AfterRules(l) = Idle
  BY DEF AfterRules
<1>5. CASE AfterRules(l) = [l EXCEPT !.at = "dispatch", !.id = 0]
  <2> DEFINE m == [l EXCEPT !.at = "dispatch", !.id = 0]
  <2>1. 0 \in 0 .. MaxRequests /\ 0 \notin Ids
    BY BoundsAssumption DEF Ids
  <2>2. m \in Locals /\ m.at = "dispatch" /\ m.id = 0
    BY <1>1, <2>1 DEF Locals, Steps
  <2>3. Alone(p) /\ local'[p] = m
    BY <1>2, <1>5, <2>2, AloneIs
  <2> HIDE DEF m
  <2>4. ThreadOK(local[p])'
    BY <2>1, <2>2, <2>3 DEF ThreadOK
  <2>5. \A q \in Procs \ {p} : local[q].at \in Claims => local[q].id \in Ids \/ local[q].id = 0
    BY BoundsAssumption DEF ApprovalInv, TypeOK, Locals, Ids
  <2>6. TypeOK' /\ UNCHANGED <<times, audit, clock>> /\ clock \in Nat
    BY <1>2, <1>3, <2>3, LocalTypes, BoundsAssumption
    DEF ApprovalInv, TypeOK, history, ledger
  <2>7. ASSUME NEW q \in Procs PROVE ThreadOK(local[q])'
    <3>1. CASE q = p
      BY <3>1, <2>4
    <3>2. CASE q # p
      BY <3>2, <2>3, <2>6, <1>3, LawfulKeepsThreads DEF Alone, ApprovalInv, Threads
    <3> QED BY <3>1, <3>2
  <2>8. Apart'
    BY <2>1, <2>2, <2>3 DEF ApprovalInv, Apart, Alone
  <2>9. Fresh' /\ Counted' /\ Audited'
    BY <1>2, <2>6 DEF ApprovalInv, Fresh, Counted, Audited, Agrees, ledger
  <2> QED BY <2>6, <2>7, <2>8, <2>9 DEF ApprovalInv, Threads
<1>6. CASE \/ AfterRules(l) = [l EXCEPT !.at = "consume"]
           \/ AfterRules(l) = [l EXCEPT !.at = "stamp"]
  <2>1. /\ AfterRules(l) \in Locals /\ AfterRules(l).at \in {"consume", "stamp"}
        /\ AfterRules(l).origin = "gate"
    BY <1>1, <1>6 DEF Locals, Steps
  <2>2. ThreadOK(AfterRules(l)) /\ AfterRules(l).at \notin Claims
    BY <2>1 DEF ThreadOK, Claims
  <2> QED BY <2>1, <2>2, <1>2, MoveOn
<1>7. CASE AfterRules(l) = Idle
  BY <1>2, <1>7, IdleIsOK, MoveOn DEF Claims
<1> QED BY <1>4, <1>5, <1>6, <1>7

(* An approval that is spent is spent by one thread.                       *)
LEMMA ConsumeKeeps ==
    ASSUME ApprovalInv, NEW p \in Procs, Consume(p) PROVE ApprovalInv'
<1> DEFINE i == local[p].id
<1>1. local[p] \in Locals /\ local[p].at = "consume" /\ local[p].origin = "gate"
  BY DEF ApprovalInv, TypeOK, Threads, ThreadOK, Consume
<1>2. CASE Spendable(i)
  <2> DEFINE m == [local[p] EXCEPT !.at = "dispatch"]
  <2>1. /\ request' = [request EXCEPT ![i].status = "consumed"]
        /\ local' = [local EXCEPT ![p] = m]
        /\ UNCHANGED <<auto, ask, audit, disk, clock, crashes, history>>
    BY <1>2 DEF Consume, Step, Goto
  <2>2. m \in Locals /\ m.at = "dispatch" /\ m.id = i
    BY <1>1 DEF Locals, Steps
  <2>3. request \in [Ids -> Requests]
    BY DEF ApprovalInv, TypeOK
  <2>4. /\ request' \in [Ids -> Requests]
        /\ \A j \in Ids : request'[j].status =
                            IF j = i THEN "consumed" ELSE request[j].status
    <3>1. CASE i \in Ids
      <4>1. [request[i] EXCEPT !.status = "consumed"] \in Requests
        BY <2>3, <3>1 DEF Requests, Statuses
      <4>2. request' = [request EXCEPT ![i] = [request[i] EXCEPT !.status = "consumed"]]
        BY <2>1
      <4>3. \A j \in Ids : request'[j] = IF j = i THEN [request[i] EXCEPT !.status = "consumed"]
                                          ELSE request[j]
        BY <2>3, <4>2
      <4> QED BY <2>3, <3>1, <4>1, <4>2, <4>3 DEF Requests
    <3>2. CASE i \notin Ids
      <4>1. request' = request
        BY <2>1, <2>3, <3>2
      <4> QED BY <2>3, <3>2, <4>1
    <3> QED BY <3>1, <3>2
  <2>5. LawfulStep
    BY <2>4, <1>2 DEF LawfulStep, Lawful, Spendable
  <2>6. i \in Ids => times[i] = 0 /\ request[i].status = "approved_once"
    BY <1>2 DEF ApprovalInv, Counted, Spendable
  <2>7. UNCHANGED <<times, audit>> /\ clock' = clock /\ clock \in Nat
    BY <2>1, BoundsAssumption DEF history, ApprovalInv, TypeOK
  <2>8. Alone(p) /\ local'[p] = m
    BY <2>1, <2>2, AloneIs
  <2> HIDE DEF m
  <2>9. ThreadOK(local[p])'
    BY <2>2, <2>4, <2>6, <2>7, <2>8 DEF ThreadOK
  <2>10. TypeOK'
    BY <2>1, <2>4, <2>8, LocalTypes DEF ApprovalInv, TypeOK
  <2>11. Threads' /\ Apart'
    <3>1. ASSUME NEW q \in Procs PROVE ThreadOK(local[q])'
      <4>1. CASE q = p
        BY <4>1, <2>9
      <4>2. CASE q # p
        BY <4>2, <2>5, <2>7, <2>8, LawfulKeepsThreads DEF Alone, ApprovalInv, Threads
      <4> QED BY <4>1, <4>2
    <3>2. \A q \in Procs \ {p} :
            i \in Ids /\ local[q].at \in Claims => local[q].id # i
      BY <2>6 DEF ApprovalInv, Threads, ThreadOK, Claims
    <3>3. Apart'
      BY <2>2, <2>8, <3>2 DEF ApprovalInv, Apart, Alone
    <3> QED BY <3>1, <3>3 DEF Threads
  <2>12. Fresh' /\ Counted' /\ Audited'
    <3>1. Fresh'
      BY <2>4, <2>6, <2>7 DEF ApprovalInv, Fresh
    <3>2. Counted'
      BY <2>4, <2>7 DEF ApprovalInv, Counted
    <3>3. Audited'
      BY <2>5, <2>7 DEF ApprovalInv, Audited, LawfulStep, Lawful, Agrees, Became
    <3> QED BY <3>1, <3>2, <3>3
  <2> QED BY <2>10, <2>11, <2>12 DEF ApprovalInv
<1>3. CASE ~Spendable(i)
  <2> DEFINE m == [local[p] EXCEPT !.at = "stamp"]
  <2>1. /\ UNCHANGED <<ledger, disk, clock, crashes, history>>
        /\ local' = [local EXCEPT ![p] = m]
    BY <1>3 DEF Consume, Step, Goto, ledger
  <2>2. m \in Locals /\ m.at = "stamp" /\ m.origin = "gate"
    BY <1>1 DEF Locals, Steps
  <2>3. ThreadOK(m) /\ m.at \notin Claims
    BY <2>2 DEF ThreadOK, Claims
  <2> HIDE DEF m
  <2> QED BY <2>1, <2>2, <2>3, MoveOn
<1> QED BY <1>2, <1>3

(* A dispatch counts for the request its thread holds, and for no other.   *)
LEMMA DispatchKeeps ==
    ASSUME ApprovalInv, NEW p \in Procs, Dispatch(p) PROVE ApprovalInv'
<1> DEFINE l == local[p]
<1>1. /\ l \in Locals /\ l.at = "dispatch"
      /\ l.id \in Ids => request[l.id].status = "consumed" /\ times[l.id] = 0
  BY DEF ApprovalInv, TypeOK, Threads, ThreadOK, Dispatch
<1>2. /\ local' = [local EXCEPT ![p] = Idle]
      /\ UNCHANGED <<ledger, trash, clock, crashes>>
  BY DEF Dispatch, Finish, Goto
<1>3. \/ UNCHANGED <<file, history>>
      \/ /\ file' = l.content
         /\ ran' = ran \cup {[grant |-> l.id, content |-> l.content, denied |-> l.denied]}
         /\ times' = [i \in Ids |-> IF i = l.id THEN times[i] + 1 ELSE times[i]]
         /\ landed' = [i \in Ids |-> IF i = l.id THEN file ELSE landed[i]]
         /\ UNCHANGED undos
  BY DEF Dispatch
<1>4. TypeOK'
  <2>1. local' \in [Procs -> Locals]
    BY <1>2, IdleIsOK DEF ApprovalInv, TypeOK
  <2>2. /\ file' \in Text /\ times' \in [Ids -> Nat] /\ landed' \in [Ids -> Text]
        /\ undos' \in [Ids -> Nat]
        /\ ran' \subseteq [grant : 0 .. MaxRequests, content : Text, denied : BOOLEAN]
    BY <1>1, <1>3 DEF ApprovalInv, TypeOK, history, Locals
  <2> QED BY <2>1, <2>2, <1>2 DEF ApprovalInv, TypeOK, ledger
<1>5. \A i \in Ids : times'[i] = times[i] \/ (i = l.id /\ times'[i] = 1)
  BY <1>1, <1>3 DEF history, ApprovalInv, TypeOK
<1>6. \A q \in Procs : local'[q] = IF q = p THEN Idle ELSE local[q]
  BY <1>2 DEF ApprovalInv, TypeOK
<1>7. Threads'
  <2>1. ASSUME NEW q \in Procs PROVE ThreadOK(local[q])'
    <3>1. CASE q = p
      BY <1>6, <3>1, IdleIsOK DEF ThreadOK, Idle
    <3>2. CASE q # p
      <4>1. ThreadOK(local[q]) /\ local'[q] = local[q]
        BY <1>6, <3>2 DEF ApprovalInv, Threads
      <4>2. local[q].at = "dispatch" /\ local[q].id \in Ids => local[q].id # l.id
        BY <1>1, <3>2 DEF ApprovalInv, Apart, Claims
      <4> QED BY <4>1, <4>2, <1>2, <1>5 DEF ThreadOK, Agrees, IsDenied, ledger
    <3> QED BY <3>1, <3>2
  <2> QED BY <2>1 DEF Threads
<1>8. Apart'
  BY <1>6 DEF ApprovalInv, Apart, Idle, Claims
<1>9. Fresh' /\ Audited'
  BY <1>2 DEF ApprovalInv, Fresh, Audited, Agrees, ledger
<1>10. Counted'
  BY <1>1, <1>2, <1>5 DEF ApprovalInv, Counted, ledger
<1> QED BY <1>4, <1>7, <1>8, <1>9, <1>10 DEF ApprovalInv

(* A stamp is handed out once.                                             *)
LEMMA StampKeeps ==
    ASSUME ApprovalInv, NEW p \in Procs, Stamp(p) PROVE ApprovalInv'
<1> DEFINE m == [local[p] EXCEPT !.at = "select", !.from = local[p].id, !.id = clock + 1]
<1>1. local[p] \in Locals /\ (local[p].origin = "reconsider" => IsDenied(local[p].id))
  BY DEF ApprovalInv, TypeOK, Threads, ThreadOK, Stamp
<1>2. /\ clock \in 0 .. MaxRequests /\ clock < MaxRequests /\ clock' = clock + 1
      /\ request' = Expired /\ local' = [local EXCEPT ![p] = m]
      /\ UNCHANGED <<auto, ask, audit, disk, crashes, history>>
  BY DEF Stamp, Goto, ApprovalInv, TypeOK
<1>3. /\ m \in Locals /\ m.at = "select" /\ m.id = clock + 1 /\ m.from = local[p].id
      /\ m.origin = local[p].origin
  <2>1. clock + 1 \in 0 .. MaxRequests /\ local[p].id \in 0 .. MaxRequests
    BY <1>1, <1>2, BoundsAssumption DEF Locals
  <2> QED BY <1>1, <2>1 DEF Locals, Steps
<1>4. request' \in [Ids -> Requests] /\ LawfulStep
  BY <1>2, ExpiredIsLawful DEF ApprovalInv, LawfulStep
<1>5. clock + 1 \in Ids /\ request[clock + 1].status = "none"
  BY <1>2, BoundsAssumption DEF Ids, ApprovalInv, Fresh
<1>6. \A i \in Ids : request[i].status = "none" => request'[i].status = "none"
  BY <1>2, ExpiredIsLawful DEF ApprovalInv
<1>11. Alone(p) /\ local'[p] = m
  BY <1>2, <1>3, AloneIs
<1> HIDE DEF m
<1>7. ThreadOK(local[p])'
  <2>1. m.origin = "reconsider" => m.from \in Ids /\ request'[m.from].status = "denied"
    BY <1>1, <1>3, <1>4 DEF IsDenied, LawfulStep, Lawful
  <2>2. m.id \in Ids /\ m.id <= clock' /\ request'[m.id].status = "none"
    BY <1>2, <1>3, <1>5, <1>6, BoundsAssumption
  <2> QED BY <1>3, <1>11, <2>1, <2>2 DEF ThreadOK, IsDenied
<1>8. \A q \in Procs \ {p} : local[q].at \in Claims => m.id # local[q].id
  <2>1. ASSUME NEW q \in Procs, local[q].at \in Claims, m.id = local[q].id
        PROVE  FALSE
    <3>1. CASE local[q].at \in {"select", "insert"}
      <4>1. local[q].id \in Ids /\ local[q].id <= clock
        BY <3>1 DEF ApprovalInv, Threads, ThreadOK
      <4> QED BY <2>1, <4>1, <1>2, <1>3, BoundsAssumption DEF Ids
    <3>2. CASE local[q].at = "dispatch"
      BY <2>1, <3>2, <1>3, <1>5 DEF ApprovalInv, Threads, ThreadOK
    <3> QED BY <2>1, <3>1, <3>2 DEF Claims
  <2> QED BY <2>1
<1>9. TypeOK' /\ UNCHANGED <<times, audit>> /\ clock' >= clock
  <2>1. clock' \in 0 .. MaxRequests /\ auto' \in BOOLEAN
    BY <1>2, BoundsAssumption DEF ApprovalInv, TypeOK
  <2>2. TypeOK'
    BY <2>1, <1>2, <1>4, <1>11, LocalTypes DEF ApprovalInv
  <2> QED BY <2>2, <1>2, BoundsAssumption DEF history
<1>10. \A i \in Ids : i > clock' => request'[i].status = request[i].status
  BY <1>2, <1>6, BoundsAssumption DEF ApprovalInv, Fresh, Ids
<1> QED BY <1>2, <1>4, <1>7, <1>8, <1>9, <1>10, <1>11, OneThread

LEMMA BusyKeeps ==
    ASSUME ApprovalInv, NEW p \in Procs, Busy(p) PROVE ApprovalInv'
BY IdleIsOK, MoveOn DEF Busy, Finish, Goto, Idle, Claims

(* Once the request is made, or found, a reconsideration is still to be    *)
(* audited.                                                                *)
LEMMA RequestedIsOK ==
    ASSUME NEW l \in Locals, l.origin = "reconsider" => IsDenied(l.from)
    PROVE  /\ Requested(l) \in Locals /\ Requested(l).at \notin Claims
           /\ ThreadOK(Requested(l))
<1>1. CASE l.origin = "reconsider"
  <2> DEFINE m == [l EXCEPT !.at = "audit", !.id = l.from, !.what = "deny_overridden"]
  <2>1. m \in Locals /\ m.at = "audit" /\ m.id = l.from /\ m.what = "deny_overridden"
    BY DEF Locals, Steps, Whats
  <2>2. m.id \in Ids /\ Agrees(m.id, m.what)
    BY <1>1, <2>1 DEF IsDenied, Agrees, Became
  <2>3. ThreadOK(m)
    BY <2>1, <2>2 DEF ThreadOK
  <2> QED BY <1>1, <2>1, <2>3 DEF Requested, Claims
<1>2. CASE l.origin # "reconsider"
  BY <1>2, IdleIsOK DEF Requested, Idle, Claims
<1> QED BY <1>1, <1>2

LEMMA SelectPendingKeeps ==
    ASSUME ApprovalInv, NEW p \in Procs, SelectPending(p) PROVE ApprovalInv'
<1>1. local[p] \in Locals /\ ThreadOK(local[p]) /\ local[p].at = "select"
  BY DEF ApprovalInv, TypeOK, Threads, SelectPending
<1>2. local[p].origin = "reconsider" => IsDenied(local[p].from)
  BY <1>1 DEF ThreadOK
<1>3. CASE local' = [local EXCEPT ![p] = Requested(local[p])]
  BY <1>1, <1>2, <1>3, RequestedIsOK, MoveOn DEF SelectPending
<1>4. CASE local' = [local EXCEPT ![p] = [local[p] EXCEPT !.at = "insert"]]
  <2> DEFINE m == [local[p] EXCEPT !.at = "insert"]
  <2>1. /\ m \in Locals /\ m.at = "insert" /\ m.id = local[p].id
        /\ m.from = local[p].from /\ m.origin = local[p].origin
    BY <1>1 DEF Locals, Steps
  <2>2. ThreadOK(m)
    BY <1>1, <2>1 DEF ThreadOK
  <2>3. UNCHANGED <<ledger, disk, clock, crashes, history>>
    BY DEF SelectPending
  <2> HIDE DEF m
  <2> QED BY <1>1, <1>4, <2>1, <2>2, <2>3, MoveOn DEF Claims, m
<1> QED BY <1>3, <1>4 DEF SelectPending, Goto, Step

(* The row that is inserted is nobody else's, and was not there.           *)
LEMMA InsertKeeps ==
    ASSUME ApprovalInv, NEW p \in Procs, Insert(p)
    PROVE  ApprovalInv' /\ \A i \in Ids : request[i].status = "none"
                                        \/ request'[i] = request[i]
<1> DEFINE l == local[p]
           new == [Absent EXCEPT !.status = "pending", !.shown = l.content,
                                 !.previous = l.old, !.origin = l.origin,
                                 !.over = OverDenied]
<1>1. /\ l \in Locals /\ l.at = "insert" /\ l.id \in Ids /\ l.id <= clock
      /\ request[l.id].status = "none"
      /\ l.origin = "reconsider" => IsDenied(l.from)
  BY DEF ApprovalInv, TypeOK, Threads, ThreadOK, Insert
<1>2. /\ request' = [request EXCEPT ![l.id] = new]
      /\ local' = [local EXCEPT ![p] = Requested(l)]
      /\ UNCHANGED <<auto, ask, audit, disk, clock, crashes, history>>
  BY DEF Insert, Goto
<1>3. Requested(l) \in Locals /\ Requested(l).at \notin Claims /\ ThreadOK(Requested(l))
  BY <1>1, RequestedIsOK
<1>4. new \in Requests /\ new.status = "pending"
  BY <1>1 DEF Absent, Requests, Statuses, Locals, OverDenied, Text
<1>5. \A i \in Ids : request'[i] = IF i = l.id THEN new ELSE request[i]
  BY <1>2 DEF ApprovalInv, TypeOK
<1>6. request' \in [Ids -> Requests]
  BY <1>2, <1>4 DEF ApprovalInv, TypeOK
<1> HIDE DEF new
<1>7. TypeOK' /\ UNCHANGED <<times, audit, clock>> /\ clock \in Nat
  <2>1. auto' \in BOOLEAN /\ clock' \in 0 .. MaxRequests
    BY <1>2 DEF ApprovalInv, TypeOK
  <2>2. Alone(p)
    BY <1>2, <1>3, AloneIs
  <2> QED BY <2>1, <2>2, <1>2, <1>6, LocalTypes, BoundsAssumption
          DEF ApprovalInv, TypeOK, history
<1>8. \A i \in Ids : \A what : Agrees(i, what) =>
         what \in DOMAIN Became /\ request'[i].status \in Became[what]
  BY <1>1, <1>5 DEF Agrees, Became
<1>9. \A i : IsDenied(i) => i \in Ids /\ request'[i].status = "denied"
  BY <1>1, <1>5 DEF IsDenied
<1>11. \A q \in Procs : local'[q] = IF q = p THEN Requested(l) ELSE local[q]
  BY <1>2 DEF ApprovalInv, TypeOK
<1>10. ASSUME NEW q \in Procs, NEW m, m = local'[q], ThreadOK(m),
              m.at \in {"select", "insert"} => m.id # l.id
       PROVE  ThreadOK(local[q])'
  <2>1. m.at \in {"select", "insert"} =>
          m.id \in Ids /\ m.id <= clock' /\ request'[m.id].status = "none"
    BY <1>5, <1>7, <1>10 DEF ThreadOK
  <2>2. m.at = "dispatch" /\ m.id \in Ids =>
          request'[m.id].status = "consumed" /\ times'[m.id] = 0
    BY <1>1, <1>5, <1>7, <1>10 DEF ThreadOK
  <2>3. m.at = "rule" => m.id \in Ids /\ request'[m.id].status = "expired"
    BY <1>1, <1>5, <1>10 DEF ThreadOK
  <2>4. m.at = "audit" => /\ m.id \in Ids /\ m.what \in DOMAIN Became
                          /\ request'[m.id].status \in Became[m.what]
    BY <1>8, <1>10 DEF ThreadOK
  <2>5. /\ m.at = "stamp" /\ m.origin = "reconsider" =>
             m.id \in Ids /\ request'[m.id].status = "denied"
        /\ m.at \in {"select", "insert"} /\ m.origin = "reconsider" =>
             m.from \in Ids /\ request'[m.from].status = "denied"
    BY <1>9, <1>10 DEF ThreadOK
  <2> QED BY <2>1, <2>2, <2>3, <2>4, <2>5, <1>10 DEF ThreadOK, Agrees, IsDenied
<1>12. Threads' /\ Apart'
  <2>1. ASSUME NEW q \in Procs PROVE ThreadOK(local[q])'
    <3>1. CASE q = p
      BY <3>1, <1>3, <1>10, <1>11 DEF Claims
    <3>2. CASE q # p
      <4>1. ThreadOK(local[q]) /\ local'[q] = local[q]
        BY <1>11, <3>2 DEF ApprovalInv, Threads
      <4>2. local[q].at \in {"select", "insert"} => local[q].id # l.id
        BY <1>1, <3>2 DEF ApprovalInv, Apart, Claims
      <4> QED BY <4>1, <4>2, <1>10
    <3> QED BY <3>1, <3>2
  <2>2. Apart'
    BY <1>3, <1>11 DEF ApprovalInv, Apart
  <2> QED BY <2>1, <2>2 DEF Threads
<1>13. Fresh' /\ Counted' /\ Audited'
  <2>1. Fresh'
    BY <1>1, <1>5, <1>7, BoundsAssumption DEF ApprovalInv, Fresh, Ids
  <2>2. Counted'
    BY <1>1, <1>5, <1>7 DEF ApprovalInv, Counted
  <2>3. Audited'
    BY <1>7, <1>8 DEF ApprovalInv, Audited, Agrees
  <2> QED BY <2>1, <2>2, <2>3
<1> QED BY <1>1, <1>5, <1>7, <1>12, <1>13 DEF ApprovalInv

LEMMA AskKeeps ==
    ASSUME ApprovalInv, NEW p \in Procs, NEW c \in Contents, Ask(p, c)
    PROVE  ApprovalInv'
<1> DEFINE l == [Idle EXCEPT !.at = "stamp", !.content = c, !.origin = "user"]
<1>1. l \in Locals /\ l.at = "stamp" /\ l.origin = "user"
  BY IdleIsOK DEF Idle, Locals, Text, Steps, Origins
<1>2. ThreadOK(l) /\ l.at \notin Claims
  BY <1>1 DEF ThreadOK, Claims
<1> HIDE DEF l
<1> QED BY <1>1, <1>2, MoveOn DEF Ask, Goto, l

LEMMA ReconsiderKeeps ==
    ASSUME ApprovalInv, NEW p \in Procs, NEW i \in Ids, Reconsider(p, i)
    PROVE  ApprovalInv'
<1> DEFINE l == [Idle EXCEPT !.at = "stamp", !.id = i, !.origin = "reconsider"]
<1>1. l \in Locals /\ l.at = "stamp" /\ l.id = i
  <2>1. i \in 0 .. MaxRequests
    BY BoundsAssumption DEF Ids
  <2> QED BY <2>1, IdleIsOK DEF Locals, Steps, Origins
<1>2. IsDenied(i)
  BY DEF Reconsider, IsDenied
<1>3. ThreadOK(l) /\ l.at \notin Claims
  BY <1>1, <1>2 DEF ThreadOK, Claims
<1> HIDE DEF l
<1> QED BY <1>1, <1>3, MoveOn DEF Reconsider, Goto, l

LEMMA JudgeKeeps ==
    ASSUME ApprovalInv, NEW p \in Procs, NEW i \in Ids, NEW d \in Decisions,
           Judge(p, i, d)
    PROVE  ApprovalInv'
<1> DEFINE l == [Idle EXCEPT !.id = i, !.what = d]
           m == AfterJudging(l, request[i])
<1>1. l \in Locals /\ l.id = i /\ l.what = d
  <2>1. i \in 0 .. MaxRequests
    BY BoundsAssumption DEF Ids
  <2> QED BY <2>1, IdleIsOK DEF Locals, Whats
<1>2. request' \in [Ids -> Requests] /\ LawfulStep
  BY ExpiredIsLawful DEF ApprovalInv, Judge, LawfulStep, TypeOK, Lawful
<1>3. /\ local' = [local EXCEPT ![p] = m]
      /\ UNCHANGED <<auto, ask, audit, disk, clock, crashes, history>>
  BY DEF Judge, Goto
<1>4. \/ /\ m = [l EXCEPT !.at = "rule", !.what = "always_allow_from_expired"]
         /\ request[i].status = "expired"
      \/ m = [l EXCEPT !.at = "decide"]
      \/ m = Idle
  BY DEF AfterJudging
<1>5. /\ m \in Locals
      /\ \/ m.at = "idle"
         \/ m.at = "decide" /\ m.id = i /\ m.what = d
         \/ /\ m.at = "rule" /\ m.id = i /\ request[i].status = "expired"
            /\ m.what = "always_allow_from_expired"
  <2>1. CASE m = Idle
    BY <2>1, IdleIsOK
  <2>2. CASE m = [l EXCEPT !.at = "decide"]
    BY <2>2, <1>1 DEF Locals, Steps
  <2>3. CASE /\ m = [l EXCEPT !.at = "rule", !.what = "always_allow_from_expired"]
             /\ request[i].status = "expired"
    BY <2>3, <1>1 DEF Locals, Steps, Whats
  <2> QED BY <1>4, <2>1, <2>2, <2>3
<1> HIDE DEF m
<1>6. Alone(p) /\ local'[p] = m
  BY <1>3, <1>5, AloneIs
<1>7. request[i].status = "expired" => request'[i].status = "expired"
  BY <1>2 DEF LawfulStep, Lawful
<1>8. ThreadOK(local[p])' /\ local'[p].at \notin Claims
  BY <1>5, <1>6, <1>7 DEF ThreadOK, Claims
<1>9. auto' \in BOOLEAN
  BY <1>3 DEF ApprovalInv, TypeOK
<1> QED BY <1>2, <1>3, <1>6, <1>8, <1>9, Change

(* A decision moves a pending request, or finds it moved its way.          *)
LEMMA DecideKeeps ==
    ASSUME ApprovalInv, NEW p \in Procs, Decide(p) PROVE ApprovalInv'
<1> DEFINE i == local[p].id
           d == local[p].what
           r == Decided(request[i], d)
<1>1. local[p] \in Locals /\ i \in Ids /\ d \in Decisions
  BY DEF ApprovalInv, TypeOK, Threads, ThreadOK, Decide
<1>2. request \in [Ids -> Requests] /\ auto \in BOOLEAN
  BY DEF ApprovalInv, TypeOK
<1>3. Becomes(d) \in {"approved_once", "approved", "denied"}
  BY <1>1 DEF Becomes, Decisions
<1>4. r \in Requests /\ Lawful(request[i].status, r.status)
  BY <1>1, <1>2, <1>3 DEF Decided, Requests, Statuses, Lawful
<1>5. CASE Shows(r, d)
  <2> DEFINE m == [local[p] EXCEPT !.at = "audit"]
  <2>1. /\ request' = [request EXCEPT ![i] = r]
        /\ auto' = (auto \/ d = "always_allow")
        /\ local' = [local EXCEPT ![p] = m]
        /\ UNCHANGED <<ask, audit, disk, clock, crashes, history>>
    BY <1>5 DEF Decide, Step, Goto
  <2>2. m \in Locals /\ m.at = "audit" /\ m.id = i /\ m.what = d
    BY <1>1 DEF Locals, Steps
  <2>3. request' \in [Ids -> Requests] /\ request'[i] = r
        /\ \A j \in Ids \ {i} : request'[j] = request[j]
    BY <1>1, <1>2, <1>4, <2>1
  <2>4. LawfulStep
    BY <1>4, <2>3 DEF LawfulStep, Lawful
  <2>5. d \in DOMAIN Became /\ r.status \in Became[d]
    BY <1>1, <1>5 DEF Shows, Became, Becomes, Decisions
  <2>6. Alone(p) /\ local'[p] = m
    BY <2>1, <2>2, AloneIs
  <2> HIDE DEF m, r, d, i
  <2>7. ThreadOK(local[p])' /\ local'[p].at \notin Claims
    BY <1>1, <2>2, <2>3, <2>5, <2>6 DEF ThreadOK, Claims, Agrees
  <2>8. auto' \in BOOLEAN
    BY <1>2, <2>1
  <2> QED BY <2>1, <2>3, <2>4, <2>6, <2>7, <2>8, Change
<1>6. CASE ~Shows(r, d)
  BY <1>2, <1>6, Same, CallEnds DEF Decide
<1> QED BY <1>5, <1>6

LEMMA RuleFromExpiredKeeps ==
    ASSUME ApprovalInv, NEW p \in Procs, RuleFromExpired(p) PROVE ApprovalInv'
<1> DEFINE m == [local[p] EXCEPT !.at = "audit"]
<1>1. /\ local[p] \in Locals /\ local[p].id \in Ids
      /\ request[local[p].id].status = "expired"
      /\ local[p].what = "always_allow_from_expired"
  BY DEF ApprovalInv, TypeOK, Threads, ThreadOK, RuleFromExpired
<1>2. /\ auto' = TRUE /\ local' = [local EXCEPT ![p] = m]
      /\ UNCHANGED <<request, ask, audit, disk, clock, crashes, history>>
  BY DEF RuleFromExpired, Step, Goto
<1>3. /\ m \in Locals /\ m.at = "audit" /\ m.id = local[p].id
      /\ m.what = "always_allow_from_expired"
  BY <1>1 DEF Locals, Steps
<1>4. Alone(p) /\ local'[p] = m
  BY <1>2, <1>3, AloneIs
<1> HIDE DEF m
<1>5. ThreadOK(local[p])' /\ local'[p].at \notin Claims
  BY <1>1, <1>2, <1>3, <1>4 DEF ThreadOK, Claims, Agrees, Became
<1> QED BY <1>2, <1>4, <1>5, Same, Change

LEMMA AuditKeeps ==
    ASSUME ApprovalInv, NEW p \in Procs, Audit(p) PROVE ApprovalInv'
<1> DEFINE i == local[p].id
           what == local[p].what
<1>1. local[p] \in Locals /\ i \in Ids /\ Agrees(i, what)
  BY DEF ApprovalInv, TypeOK, Threads, ThreadOK, Audit
<1>2. /\ audit' = audit \cup {<<i, what>>} /\ local' = [local EXCEPT ![p] = Idle]
      /\ UNCHANGED <<request, auto, ask, disk, clock, crashes, history>>
  BY DEF Audit, Mark, Finish, Goto
<1>3. Alone(p) /\ local'[p] = Idle
  BY <1>2, IdleIsOK, AloneIs
<1>4. TypeOK'
  <2>1. i \in 0 .. MaxRequests /\ what \in Whats
    BY <1>1 DEF Locals
  <2>2. audit' \subseteq (0 .. MaxRequests) \X Whats
    BY <1>2, <2>1 DEF ApprovalInv, TypeOK
  <2> QED BY <1>2, <1>3, <2>2 DEF ApprovalInv, TypeOK, Alone, disk, history
<1>5. UNCHANGED times /\ LawfulStep /\ clock \in Nat
  BY <1>2, BoundsAssumption DEF history, LawfulStep, Lawful, ApprovalInv, TypeOK
<1>6. ASSUME NEW q \in Procs PROVE ThreadOK(local[q])'
  <2>1. CASE q = p
    BY <2>1, <1>3, IdleIsOK DEF ThreadOK
  <2>2. CASE q # p
    BY <2>2, <1>2, <1>3, <1>5, LawfulKeepsThreads DEF Alone, ApprovalInv, Threads
  <2> QED BY <2>1, <2>2
<1>7. Apart'
  BY <1>3, IdleIsOK DEF ApprovalInv, Apart, Alone, Claims
<1>8. Fresh' /\ Counted'
  BY <1>2, <1>5 DEF ApprovalInv, Fresh, Counted
<1>9. Audited'
  BY <1>1, <1>2 DEF ApprovalInv, Audited, Agrees
<1> QED BY <1>4, <1>6, <1>7, <1>8, <1>9 DEF ApprovalInv, Threads

(* What is left: the rules, the disk and the undo.                         *)
LEMMA Aside ==
    ASSUME ApprovalInv, TypeOK', UNCHANGED <<times, audit, clock>>, LawfulStep,
           UNCHANGED local
    PROVE  ApprovalInv'
<1>1. clock \in Nat
  BY BoundsAssumption DEF ApprovalInv, TypeOK
<1>2. ASSUME NEW q \in Procs PROVE ThreadOK(local[q])'
  BY <1>1, LawfulKeepsThreads DEF ApprovalInv, Threads
<1>3. Apart'
  BY DEF ApprovalInv, Apart
<1>4. Fresh' /\ Counted' /\ Audited'
  BY DEF ApprovalInv, Fresh, Counted, Audited, LawfulStep, Lawful, Agrees, Became
<1> QED BY <1>2, <1>3, <1>4 DEF ApprovalInv, Threads

LEMMA SetRulesKeeps ==
    ASSUME ApprovalInv, NEW p \in Procs, SetRules(p) PROVE ApprovalInv'
<1>1. TypeOK' /\ UNCHANGED <<times, audit, clock, local>> /\ LawfulStep
  BY DEF SetRules, ApprovalInv, TypeOK, disk, history, LawfulStep, Lawful
<1> QED BY <1>1, Aside

LEMMA ElapseKeeps ==
    ASSUME ApprovalInv, NEW i \in Ids, Elapse(i) PROVE ApprovalInv'
<1>1. request \in [Ids -> Requests]
  BY DEF ApprovalInv, TypeOK
<1>2. [request[i] EXCEPT !.due = TRUE] \in Requests
      /\ [request[i] EXCEPT !.due = TRUE].status = request[i].status
  BY <1>1 DEF Requests
<1>3. request' = [request EXCEPT ![i] = [request[i] EXCEPT !.due = TRUE]]
  BY DEF Elapse
<1>4. request' \in [Ids -> Requests] /\ LawfulStep
  BY <1>1, <1>2, <1>3 DEF LawfulStep, Lawful
<1>5. TypeOK' /\ UNCHANGED <<times, audit, clock, local>>
  BY <1>4 DEF Elapse, ApprovalInv, TypeOK, disk, history
<1> QED BY <1>4, <1>5, Aside

LEMMA EditKeeps ==
    ASSUME ApprovalInv, NEW c \in Contents, Edit(c) PROVE ApprovalInv'
<1>1. TypeOK' /\ UNCHANGED <<times, audit, clock, local>> /\ LawfulStep
  BY DEF Edit, ApprovalInv, TypeOK, Text, ledger, history, LawfulStep, Lawful
<1> QED BY <1>1, Aside

LEMMA BeginUndoKeeps ==
    ASSUME ApprovalInv, NEW p \in Procs, NEW i \in Ids, BeginUndo(p, i)
    PROVE  ApprovalInv'
<1> DEFINE l == [Idle EXCEPT !.at = "compare", !.id = i, !.old = request[i].previous]
<1>1. l \in Locals /\ l.at = "compare" /\ l.id = i
  <2>1. i \in 0 .. MaxRequests /\ request[i].previous \in Text
    BY BoundsAssumption DEF Ids, ApprovalInv, TypeOK, Requests
  <2> QED BY <2>1, IdleIsOK DEF Locals, Steps
<1>2. ThreadOK(l) /\ l.at \notin Claims
  BY <1>1 DEF ThreadOK, Claims
<1> HIDE DEF l
<1> QED BY <1>1, <1>2, MoveOn DEF BeginUndo, Goto, l

LEMMA CompareKeeps ==
    ASSUME ApprovalInv, NEW p \in Procs, Compare(p) PROVE ApprovalInv'
<1> DEFINE l == [local[p] EXCEPT !.at = IF file = local[p].old THEN "mark" ELSE "trash"]
<1>1. local[p] \in Locals /\ local[p].id \in Ids
  BY DEF ApprovalInv, TypeOK, Threads, ThreadOK, Compare
<1>2. l \in Locals /\ l.at \in {"mark", "trash"} /\ l.id \in Ids
  BY <1>1 DEF Locals, Steps
<1>3. ThreadOK(l) /\ l.at \notin Claims
  BY <1>2 DEF ThreadOK, Claims
<1> HIDE DEF l
<1> QED BY <1>2, <1>3, MoveOn DEF Compare, Step, Goto, l

(* A step of an undo on the disk.                                          *)
LEMMA OnDisk ==
    ASSUME ApprovalInv, NEW p \in Procs, local[p].at \in {"trash", "write"},
           NEW step \in {"write", "mark"}, Step(p, step),
           UNCHANGED <<ledger, clock, crashes, ran, times, landed>>,
           file' \in Text, trash' \subseteq Contents, undos' \in [Ids -> Nat]
    PROVE  ApprovalInv'
<1> DEFINE l == [local[p] EXCEPT !.at = step]
<1>1. local[p] \in Locals /\ local[p].id \in Ids
  BY DEF ApprovalInv, TypeOK, Threads, ThreadOK
<1>2. l \in Locals /\ l.at = step /\ l.id \in Ids
  BY <1>1 DEF Locals, Steps
<1>3. Alone(p) /\ local'[p] = l
  BY <1>2, AloneIs DEF Step, Goto
<1> HIDE DEF l
<1>4. ThreadOK(local[p])' /\ local'[p].at \notin Claims
  BY <1>2, <1>3 DEF ThreadOK, Claims
<1>5. TypeOK' /\ UNCHANGED <<times, audit>> /\ LawfulStep /\ clock' >= clock
      /\ \A i \in Ids : i > clock' => request'[i].status = request[i].status
  BY <1>3, BoundsAssumption DEF ApprovalInv, TypeOK, Alone, ledger, LawfulStep, Lawful
<1> QED BY <1>3, <1>4, <1>5, OneThread

LEMMA TrashKeeps ==
    ASSUME ApprovalInv, NEW p \in Procs, Trash(p) PROVE ApprovalInv'
<1>1. file' \in Text /\ trash' \subseteq Contents /\ undos' \in [Ids -> Nat]
  BY DEF Trash, Occupants, Text, ApprovalInv, TypeOK, history
<1> QED BY <1>1, OnDisk DEF Trash, history

LEMMA RestoreKeeps ==
    ASSUME ApprovalInv, NEW p \in Procs, Restore(p) PROVE ApprovalInv'
<1>1. local[p] \in Locals /\ local[p].id \in Ids
  BY DEF ApprovalInv, TypeOK, Threads, ThreadOK, Restore
<1>2. file' \in Text /\ trash' \subseteq Contents /\ undos' \in [Ids -> Nat]
  BY <1>1 DEF Restore, Locals, ApprovalInv, TypeOK
<1> QED BY <1>2, OnDisk DEF Restore

LEMMA MarkUndoneKeeps ==
    ASSUME ApprovalInv, NEW p \in Procs, MarkUndone(p) PROVE ApprovalInv'
<1> DEFINE i == local[p].id
<1>1. local[p] \in Locals /\ i \in Ids
  BY DEF ApprovalInv, TypeOK, Threads, ThreadOK, MarkUndone
<1>2. request \in [Ids -> Requests] /\ auto' \in BOOLEAN
  BY DEF ApprovalInv, TypeOK, MarkUndone
<1>3. CASE Markable(request[i])
  <2> DEFINE m == [local[p] EXCEPT !.at = "audit", !.what = "undone"]
             r == [request[i] EXCEPT !.undone = TRUE]
  <2>1. /\ request' = [request EXCEPT ![i] = r] /\ local' = [local EXCEPT ![p] = m]
        /\ UNCHANGED <<auto, ask, audit, disk, clock, crashes, history>>
    BY <1>3 DEF MarkUndone, Goto
  <2>2. m \in Locals /\ m.at = "audit" /\ m.id = i /\ m.what = "undone"
    BY <1>1 DEF Locals, Steps, Whats
  <2>3. r \in Requests /\ r.status = "consumed" /\ request[i].status = "consumed"
    BY <1>1, <1>2, <1>3 DEF Requests, Markable
  <2>4. Alone(p) /\ local'[p] = m
    BY <2>1, <2>2, AloneIs
  <2> HIDE DEF m, r, i
  <2>5. /\ request' \in [Ids -> Requests] /\ request'[i] = r
        /\ \A j \in Ids \ {i} : request'[j] = request[j]
    BY <1>1, <1>2, <2>1, <2>3
  <2>6. LawfulStep
    BY <2>3, <2>5 DEF LawfulStep, Lawful
  <2>7. ThreadOK(local[p])' /\ local'[p].at \notin Claims
    BY <1>1, <2>2, <2>3, <2>4, <2>5 DEF ThreadOK, Claims, Agrees, Became
  <2> QED BY <1>2, <2>1, <2>4, <2>5, <2>6, <2>7, Change
<1>4. CASE ~Markable(request[i])
  BY <1>2, <1>4, Same, CallEnds DEF MarkUndone
<1> QED BY <1>3, <1>4

LEMMA CrashKeeps == ASSUME ApprovalInv, Crash PROVE ApprovalInv'
<1>1. \A p \in Procs : local'[p] = Idle
  BY DEF Crash
<1>2. TypeOK'
  <2>1. local' \in [Procs -> Locals]
    BY IdleIsOK DEF Crash
  <2>2. crashes' \in 0 .. MaxCrashes
    BY BoundsAssumption DEF Crash, ApprovalInv, TypeOK
  <2> QED BY <2>1, <2>2 DEF Crash, ApprovalInv, TypeOK, ledger, disk, history
<1>3. Threads' /\ Apart'
  BY <1>1, IdleIsOK DEF Threads, Apart, ThreadOK, Claims
<1>4. Fresh' /\ Counted' /\ Audited'
  BY DEF Crash, ApprovalInv, Fresh, Counted, Audited, Agrees, ledger, history
<1> QED BY <1>2, <1>3, <1>4 DEF ApprovalInv

LEMMA StutterKeeps == ASSUME ApprovalInv, UNCHANGED vars PROVE ApprovalInv'
<1>1. TypeOK' /\ UNCHANGED <<times, audit, clock, local>> /\ LawfulStep
  BY DEF vars, ledger, disk, history, ApprovalInv, TypeOK, LawfulStep, Lawful
<1> QED BY <1>1, Aside

LEMMA NextKeeps == ApprovalInv /\ [Next]_vars => ApprovalInv'
<1> SUFFICES ASSUME ApprovalInv, [Next]_vars PROVE ApprovalInv'
  OBVIOUS
<1>1. CASE \E p \in Executors : Gate(p)
  <2>1. PICK p \in Procs : Gate(p)
    BY <1>1 DEF Procs
  <2> QED BY <2>1, ProposeKeeps, ReadLatestKeeps, EvaluateRulesKeeps,
         ConsumeKeeps, DispatchKeeps DEF Gate
<1>2. CASE \E p \in Procs : Requesting(p)
  BY <1>2, StampKeeps, BusyKeeps, SelectPendingKeeps, InsertKeeps DEF Requesting
<1>3. CASE \E p \in Users : Call(p) \/ Undo(p)
  <2>1. PICK p \in Procs : Call(p) \/ Undo(p)
    BY <1>3 DEF Procs
  <2>2. CASE Call(p)
    BY <2>2, AskKeeps, ReconsiderKeeps, JudgeKeeps, DecideKeeps,
       RuleFromExpiredKeeps, AuditKeeps, SetRulesKeeps DEF Call
  <2>3. CASE Undo(p)
    BY <2>3, BeginUndoKeeps, CompareKeeps, TrashKeeps, RestoreKeeps,
       MarkUndoneKeeps DEF Undo
  <2> QED BY <2>1, <2>2, <2>3
<1>4. CASE World
  BY <1>4, CrashKeeps, ElapseKeeps, EditKeeps DEF World
<1>5. CASE UNCHANGED vars
  BY <1>5, StutterKeeps
<1> QED BY <1>1, <1>2, <1>3, <1>4, <1>5 DEF Next

LEMMA ApprovalAlways == Spec => []ApprovalInv
BY InitApproval, NextKeeps, PTL DEF Spec

-----------------------------------------------------------------------------
(* No step moves the status of a card that has ended.                      *)
EndsStay == \A i \in Ids : request[i].status \in Ended =>
                             request'[i].status = request[i].status

LEMMA LawfulStays == LawfulStep => EndsStay
BY DEF LawfulStep, Lawful, EndsStay, Ended

LEMMA ExpiryStays == ASSUME ApprovalInv, request' = Expired PROVE EndsStay
<1>1. \A i \in Ids : Lawful(request[i].status, request'[i].status)
  BY ExpiredIsLawful DEF ApprovalInv
<1> QED BY <1>1 DEF Lawful, EndsStay, Ended

LEMMA GateStays ==
    ASSUME ApprovalInv, NEW p \in Procs, Gate(p) \/ Requesting(p) PROVE EndsStay
<1>1. CASE \/ \E c \in Contents : Propose(p, c)
           \/ Stamp(p)
  <2>1. request' = Expired
    <3>1. ASSUME NEW c \in Contents, Propose(p, c) PROVE request' = Expired
      BY <3>1 DEF Propose
    <3>2. Stamp(p) => request' = Expired
      BY DEF Stamp
    <3> QED BY <1>1, <3>1, <3>2
  <2> QED BY <2>1, ExpiryStays
<1>2. CASE \/ ReadLatest(p) \/ EvaluateRules(p) \/ Dispatch(p)
           \/ Busy(p) \/ SelectPending(p)
  <2>1. UNCHANGED request
    <3>1. UNCHANGED ledger => UNCHANGED request
      BY DEF ledger
    <3>2. ReadLatest(p) => UNCHANGED ledger
      BY Zenon DEF ReadLatest
    <3>3. EvaluateRules(p) => UNCHANGED ledger
      BY Zenon DEF EvaluateRules
    <3>4. Dispatch(p) \/ Busy(p) \/ SelectPending(p) => UNCHANGED request
      BY DEF Dispatch, Busy, SelectPending, ledger
    <3> QED BY <1>2, <3>1, <3>2, <3>3, <3>4
  <2> QED BY <2>1 DEF EndsStay
<1>3. CASE Consume(p)
  BY <1>3 DEF Consume, Spendable, EndsStay, Ended, ApprovalInv, TypeOK
<1>4. CASE Insert(p)
  BY <1>4, InsertKeeps DEF EndsStay, Ended
<1> QED BY <1>1, <1>2, <1>3, <1>4 DEF Gate, Requesting

LEMMA CallStays ==
    ASSUME ApprovalInv, NEW p \in Procs, Call(p) \/ Undo(p) PROVE EndsStay
<1>1. CASE \E i \in Ids, d \in Decisions : Judge(p, i, d)
  <2>1. request' = Expired \/ UNCHANGED request
    BY <1>1 DEF Judge
  <2> QED BY <2>1, ExpiryStays DEF EndsStay
<1>2. CASE Decide(p)
  BY <1>2 DEF Decide, Decided, Shows, EndsStay, Ended, ApprovalInv, TypeOK
<1>3. CASE MarkUndone(p)
  BY <1>3 DEF MarkUndone, EndsStay, ApprovalInv, TypeOK, Requests
<1>4. CASE \/ \E c \in Contents : Ask(p, c)
           \/ \E i \in Ids : Reconsider(p, i) \/ BeginUndo(p, i)
           \/ RuleFromExpired(p) \/ Audit(p) \/ SetRules(p)
           \/ Compare(p) \/ Trash(p) \/ Restore(p)
  <2>1. UNCHANGED request
    <3>1. (\E c \in Contents : Ask(p, c)) => UNCHANGED request
      BY DEF Ask, ledger
    <3>2. (\E i \in Ids : Reconsider(p, i) \/ BeginUndo(p, i)) => UNCHANGED request
      BY DEF Reconsider, BeginUndo, ledger
    <3>3. RuleFromExpired(p) \/ Audit(p) \/ SetRules(p) => UNCHANGED request
      BY DEF RuleFromExpired, Audit, SetRules
    <3>4. Compare(p) \/ Trash(p) \/ Restore(p) => UNCHANGED request
      BY DEF Compare, Trash, Restore, ledger
    <3> QED BY <1>4, <3>1, <3>2, <3>3, <3>4
  <2> QED BY <2>1 DEF EndsStay
<1> QED BY <1>1, <1>2, <1>3, <1>4 DEF Call, Undo

LEMMA NextStays == ASSUME ApprovalInv, Next PROVE EndsStay
<1>1. CASE World
  BY <1>1 DEF World, Crash, Elapse, Edit, EndsStay, ApprovalInv, TypeOK, Requests, ledger
<1>2. CASE \E p \in Procs : Gate(p) \/ Requesting(p) \/ Call(p) \/ Undo(p)
  BY <1>2, GateStays, CallStays
<1> QED BY <1>1, <1>2 DEF Next, Procs

-----------------------------------------------------------------------------
(* Every variable keeps its type.                                          *)
THEOREM ApprovalTypes == Spec => []TypeOK
<1>1. ApprovalInv => TypeOK
  BY DEF ApprovalInv
<1> QED BY <1>1, ApprovalAlways, PTL

(* One "allow once" is behind one execution at most, however the threads   *)
(* race and wherever they die.                                             *)
THEOREM OneApprovalOneRun == Spec => []OnceIsOnce
<1>1. ApprovalInv => OnceIsOnce
  BY DEF ApprovalInv, Counted, OnceIsOnce
<1> QED BY <1>1, ApprovalAlways, PTL

(* A card that was denied, expired or never decided is behind no execution.*)
THEOREM RunsWereAllowed == Spec => []OnlyAllowedRuns
<1>1. ApprovalInv => OnlyAllowedRuns
  BY DEF ApprovalInv, Counted, OnlyAllowedRuns
<1> QED BY <1>1, ApprovalAlways, PTL

(* What the audit log says of a card is what became of it.                 *)
THEOREM AuditIsTrue == Spec => []AuditAgrees
<1>1. ApprovalInv => AuditAgrees
  BY DEF ApprovalInv, Audited, AuditAgrees, Agrees
<1> QED BY <1>1, ApprovalAlways, PTL

(* A card that was decided, spent or expired never changes its status.     *)
THEOREM EndsAreFinal == Spec => EndedIsFinal
<1>1. ApprovalInv /\ [Next]_vars =>
        [\A i \in Ids : request[i].status \in Ended =>
                           request'[i].status = request[i].status]_vars
  BY NextStays DEF EndsStay
<1> QED BY <1>1, ApprovalAlways, PTL DEF Spec, EndedIsFinal

-----------------------------------------------------------------------------
(* The undo of one user.                                                   *)

(* Between the move to the trash and the write there is no file.           *)
GapIsEmpty == \A p \in Users : local[p].at = "write" => file = Missing

(* A thread's step leaves the other threads where they are.                *)
LEMMA OnlyItself ==
    ASSUME TypeOK, NEW p \in Procs, NEW q \in Procs, p # q,
           Gate(p) \/ Requesting(p) \/ Call(p) \/ Undo(p)
    PROVE  local'[q] = local[q]
<1>0. ASSUME NEW l, local' = [local EXCEPT ![p] = l] PROVE local'[q] = local[q]
  BY <1>0 DEF TypeOK
<1>1. CASE Gate(p)
  <2>1. ASSUME NEW c \in Contents, Propose(p, c) PROVE local'[q] = local[q]
    BY <1>0, <2>1 DEF Propose, Goto
  <2>2. CASE ReadLatest(p)
    BY <1>0, <2>2 DEF ReadLatest, Goto, Finish
  <2>3. CASE EvaluateRules(p)
    BY <1>0, <2>3 DEF EvaluateRules, Goto
  <2>4. CASE Consume(p)
    BY <1>0, <2>4 DEF Consume, Goto, Step
  <2>5. CASE Dispatch(p)
    <3>1. Finish(p)
      BY <2>5 DEF Dispatch
    <3> QED BY <1>0, <3>1 DEF Finish, Goto
  <2> QED BY <1>1, <2>1, <2>2, <2>3, <2>4, <2>5 DEF Gate
<1>2. CASE Requesting(p)
  BY <1>0, <1>2 DEF Requesting, Stamp, Busy, SelectPending, Insert, Goto, Step, Finish
<1>3. CASE Call(p)
  <2>1. ASSUME NEW c \in Contents, Ask(p, c) PROVE local'[q] = local[q]
    BY <1>0, <2>1 DEF Ask, Goto
  <2>2. ASSUME NEW i \in Ids, Reconsider(p, i) PROVE local'[q] = local[q]
    BY <1>0, <2>2 DEF Reconsider, Goto
  <2>3. ASSUME NEW i \in Ids, NEW d \in Decisions, Judge(p, i, d)
        PROVE  local'[q] = local[q]
    BY <1>0, <2>3 DEF Judge, Goto
  <2>4. CASE Decide(p)
    <3>1. Step(p, "audit") \/ Finish(p)
      BY <2>4 DEF Decide
    <3> QED BY <1>0, <3>1 DEF Step, Finish, Goto
  <2>5. CASE RuleFromExpired(p) \/ Audit(p)
    BY <1>0, <2>5 DEF RuleFromExpired, Audit, Goto, Step, Finish
  <2>6. CASE SetRules(p)
    BY <2>6 DEF SetRules
  <2> QED BY <1>3, <2>1, <2>2, <2>3, <2>4, <2>5, <2>6 DEF Call
<1>4. CASE Undo(p)
  <2>1. ASSUME NEW i \in Ids, BeginUndo(p, i) PROVE local'[q] = local[q]
    BY <1>0, <2>1 DEF BeginUndo, Goto
  <2>2. CASE Compare(p) \/ Trash(p) \/ Restore(p)
    <3>1. \E step : Step(p, step)
      BY <2>2 DEF Compare, Trash, Restore
    <3> QED BY <1>0, <3>1 DEF Step, Goto
  <2>3. CASE MarkUndone(p)
    BY <1>0, <2>3 DEF MarkUndone, Goto, Finish
  <2> QED BY <1>4, <2>1, <2>2, <2>3 DEF Undo
<1> QED BY <1>1, <1>2, <1>3, <1>4

(* A thread that is about to remove a file, or to write one, does that.    *)
LEMMA UndoGoesOn ==
    ASSUME NEW p \in Procs, local[p].at \in {"trash", "write"}
    PROVE  /\ ~Requesting(p) /\ ~Gate(p)
           /\ Call(p) \/ Undo(p) => Trash(p) \/ Restore(p)
<1>1. ~Requesting(p)
  BY DEF Requesting, Stamp, Busy, SelectPending, Insert
<1>2. ~Gate(p)
  <2>1. \A c \in Contents : ~Propose(p, c)
    BY DEF Propose
  <2>2. ~ReadLatest(p) /\ ~EvaluateRules(p) /\ ~Consume(p)
    <3>1. ReadLatest(p) => local[p].at = "read"
      BY Zenon DEF ReadLatest
    <3>2. EvaluateRules(p) => local[p].at = "rules"
      BY Zenon DEF EvaluateRules
    <3>3. Consume(p) => local[p].at = "consume"
      BY Zenon DEF Consume
    <3> QED BY <3>1, <3>2, <3>3
  <2>3. ~Dispatch(p)
    BY DEF Dispatch
  <2> QED BY <2>1, <2>2, <2>3 DEF Gate
<1>3. ~Call(p)
  <2>1. \A c \in Contents : ~Ask(p, c)
    BY DEF Ask
  <2>2. \A i \in Ids : ~Reconsider(p, i) /\ \A d \in Decisions : ~Judge(p, i, d)
    <3>1. \A i, d : Judge(p, i, d) => local[p].at = "idle"
      BY Zenon DEF Judge
    <3>2. \A i : Reconsider(p, i) => local[p].at = "idle"
      BY Zenon DEF Reconsider
    <3> QED BY <3>1, <3>2
  <2>3. ~Decide(p)
    BY DEF Decide
  <2>4. ~RuleFromExpired(p) /\ ~Audit(p) /\ ~SetRules(p)
    BY DEF RuleFromExpired, Audit, SetRules
  <2> QED BY <2>1, <2>2, <2>3, <2>4 DEF Call
<1>4. Undo(p) => Trash(p) \/ Restore(p)
  <2>1. \A i \in Ids : ~BeginUndo(p, i)
    BY DEF BeginUndo
  <2>2. ~Compare(p) /\ ~MarkUndone(p)
    BY DEF Compare, MarkUndone
  <2> QED BY <2>1, <2>2 DEF Undo
<1> QED BY <1>1, <1>2, <1>3, <1>4

(* Only the move to the trash leads a thread to the write.                 *)
LEMMA OnlyTrashLeadsToWrite ==
    ASSUME ApprovalInv, NEW p \in Procs, Requesting(p) \/ Call(p) \/ Undo(p),
           local'[p].at = "write"
    PROVE  Trash(p)
<1>0. /\ local \in [Procs -> Locals] /\ local[p] \in Locals
      /\ local[p].origin = "reconsider" \/ local[p].origin # "reconsider"
  BY DEF ApprovalInv, TypeOK
<1>1. ASSUME NEW l, local' = [local EXCEPT ![p] = l], l.at # "write" PROVE FALSE
  BY <1>0, <1>1
<1>2. Idle.at # "write" /\ Requested(local[p]).at # "write"
  BY <1>0 DEF Idle, Requested, Locals
<1>3. \A step : [local[p] EXCEPT !.at = step].at = step
  BY <1>0 DEF Locals
<1>4. CASE Stamp(p) \/ Busy(p) \/ SelectPending(p) \/ Insert(p)
  <2>1. CASE Stamp(p)
    <3>1. [local[p] EXCEPT !.at = "select", !.from = local[p].id, !.id = clock + 1].at
             = "select"
      BY <1>0 DEF Locals
    <3> QED BY <1>1, <2>1, <3>1 DEF Stamp, Goto
  <2>2. CASE Busy(p)
    BY <1>1, <1>2, <2>2 DEF Busy, Finish, Goto
  <2>3. CASE SelectPending(p)
    BY <1>1, <1>2, <1>3, <2>3 DEF SelectPending, Step, Goto
  <2>4. CASE Insert(p)
    BY <1>1, <1>2, <2>4 DEF Insert, Goto
  <2> QED BY <1>4, <2>1, <2>2, <2>3, <2>4
<1>5. CASE Call(p)
  <2>1. ASSUME NEW c \in Contents, Ask(p, c) PROVE FALSE
    BY <1>1, <2>1 DEF Ask, Goto, Idle
  <2>2. ASSUME NEW i \in Ids, Reconsider(p, i) PROVE FALSE
    BY <1>1, <2>2 DEF Reconsider, Goto, Idle
  <2>3. ASSUME NEW i \in Ids, NEW d \in Decisions, Judge(p, i, d) PROVE FALSE
    <3> DEFINE l == [Idle EXCEPT !.id = i, !.what = d]
    <3>1. AfterJudging(l, request[i]).at # "write"
      BY DEF AfterJudging, Idle
    <3> QED BY <1>1, <2>3, <3>1 DEF Judge, Goto
  <2>4. CASE Decide(p) \/ RuleFromExpired(p) \/ Audit(p)
    BY <1>1, <1>2, <1>3, <2>4 DEF Decide, RuleFromExpired, Audit, Finish, Step, Goto
  <2>5. CASE SetRules(p)
    BY <2>5 DEF SetRules
  <2> QED BY <1>5, <2>1, <2>2, <2>3, <2>4, <2>5 DEF Call
<1>6. CASE Undo(p) /\ ~Trash(p)
  <2>1. ASSUME NEW i \in Ids, BeginUndo(p, i) PROVE FALSE
    BY <1>1, <2>1 DEF BeginUndo, Goto, Idle
  <2>2. CASE Compare(p) \/ Restore(p)
    <3>1. Step(p, "mark") \/ Step(p, "trash")
      BY <2>2 DEF Compare, Restore
    <3>2. [local[p] EXCEPT !.at = "mark"].at = "mark"
          /\ [local[p] EXCEPT !.at = "trash"].at = "trash"
      BY <1>3
    <3> QED BY <1>1, <3>1, <3>2 DEF Step, Goto
  <2>3. CASE MarkUndone(p)
    <3>1. [local[p] EXCEPT !.at = "audit", !.what = "undone"].at = "audit"
      BY <1>0 DEF Locals
    <3> QED BY <1>1, <1>2, <2>3, <3>1 DEF MarkUndone, Finish, Goto
  <2> QED BY <1>6, <2>1, <2>2, <2>3 DEF Undo
<1> QED BY <1>4, <1>5, <1>6 DEF Requesting

(* While one user undoes, executions find no file to replace, and an       *)
(* editor that does not save in the gap leaves it as it is.                *)
LEMMA GapStaysEmpty ==
    ASSUME ApprovalInv, GapIsEmpty, [Next]_vars,
           "gap" \notin Calls, \A p, q \in Users : p = q
    PROVE  GapIsEmpty'
<1> SUFFICES ASSUME NEW p \in Users, local'[p].at = "write"
             PROVE  file' = Missing
  BY DEF GapIsEmpty
<1>0. p \in Procs /\ TypeOK
  BY DEF Procs, ApprovalInv
<1>1. CASE Trash(p)
  BY <1>1 DEF Trash
<1>2. ASSUME local'[p] = local[p], file = Missing => file' = Missing
      PROVE  file' = Missing
  BY <1>2 DEF GapIsEmpty
<1>3. ASSUME NEW x \in Executors, Gate(x) PROVE file' = Missing
  <2>1. x \in Procs /\ x # p
    BY ProcsAssumption DEF Procs
  <2>2. local'[p] = local[p]
    BY <1>0, <1>3, <2>1, OnlyItself
  <2>3. file = Missing => file' = Missing
    <3>1. \A c \in Contents : Propose(x, c) => file' = file
      BY DEF Propose, disk
    <3>2. ReadLatest(x) \/ EvaluateRules(x) \/ Consume(x) => UNCHANGED disk
      BY Zenon DEF ReadLatest, EvaluateRules, Consume
    <3>3. Dispatch(x) /\ file = Missing => file' = file
      BY DEF Dispatch
    <3> QED BY <1>3, <3>1, <3>2, <3>3 DEF Gate, disk
  <2> QED BY <1>2, <2>2, <2>3
<1>4. ASSUME NEW q \in Procs, Requesting(q) PROVE file' = Missing
  <2>1. file' = file
    BY <1>4 DEF Requesting, Stamp, Busy, SelectPending, Insert, disk
  <2>2. CASE q = p
    BY <1>0, <1>4, <2>2, OnlyTrashLeadsToWrite, <1>1
  <2>3. CASE q # p
    BY <1>0, <1>2, <1>4, <2>1, <2>3, OnlyItself
  <2> QED BY <2>2, <2>3
<1>5. ASSUME NEW q \in Users, Call(q) \/ Undo(q) PROVE file' = Missing
  BY <1>0, <1>1, <1>5, OnlyTrashLeadsToWrite
<1>6. CASE World
  <2>1. CASE Crash
    BY <1>0, <2>1 DEF Crash, Idle
  <2>2. CASE \E i \in Ids : Elapse(i)
    BY <1>2, <2>2 DEF Elapse, disk
  <2>3. CASE \E c \in Contents : Edit(c)
    BY <1>2, <2>3 DEF Edit, InGap
  <2> QED BY <1>6, <2>1, <2>2, <2>3 DEF World
<1>7. CASE UNCHANGED vars
  BY <1>2, <1>7 DEF vars, disk
<1> QED BY <1>3, <1>4, <1>5, <1>6, <1>7 DEF Next

(* What a step of an undo removes from the file is in the trash.           *)
LEMMA UndoKeeps ==
    ASSUME ApprovalInv, GapIsEmpty, [Next]_vars, \A p, q \in Users : p = q,
           NEW p \in Users, local[p].at \in {"trash", "write"},
           local'[p] # local[p]
    PROVE  file \in {Missing, file'} \cup trash'
<1>0. p \in Procs /\ TypeOK
  BY DEF Procs, ApprovalInv
<1>1. CASE Trash(p)
  BY <1>1 DEF Trash, Occupants
<1>2. CASE Restore(p)
  BY <1>2 DEF Restore, GapIsEmpty
<1>3. ASSUME NEW x \in Executors, Gate(x) PROVE FALSE
  <2>1. x \in Procs /\ x # p
    BY ProcsAssumption DEF Procs
  <2> QED BY <1>0, <1>3, <2>1, OnlyItself
<1>4. ASSUME NEW q \in Procs, Requesting(q) PROVE FALSE
  BY <1>0, <1>4, OnlyItself, UndoGoesOn
<1>5. ASSUME NEW q \in Users, Call(q) \/ Undo(q)
      PROVE  file \in {Missing, file'} \cup trash'
  BY <1>0, <1>1, <1>2, <1>5, UndoGoesOn
<1>6. CASE World
  BY <1>6 DEF World, Crash, Elapse, Edit, disk
<1>7. CASE UNCHANGED vars
  BY <1>7 DEF vars
<1> QED BY <1>3, <1>4, <1>5, <1>6, <1>7 DEF Next

(* One user's undos destroy nothing: what an execution or the editor has   *)
(* put into the file is in the trash when a step of the undo removes it,   *)
(* if the editor does not save between the move to the trash and the write.*)
THEOREM OneUsersUndoDestroysNothing ==
    ASSUME "gap" \notin Calls, \A p, q \in Users : p = q
    PROVE  Spec => UndoDestroysNothing
<1>1. Init => GapIsEmpty
  BY DEF Init, GapIsEmpty, Idle, Procs
<1>2. ApprovalInv /\ GapIsEmpty /\ [Next]_vars => GapIsEmpty'
  BY GapStaysEmpty
<1>3. ApprovalInv /\ GapIsEmpty /\ [Next]_vars =>
        [(\E p \in Users : local[p].at \in {"trash", "write"} /\ local'[p] # local[p]) =>
            file \in {Missing, file'} \cup trash']_vars
  BY UndoKeeps
<1> QED BY <1>1, <1>2, <1>3, ApprovalAlways, PTL DEF Spec, UndoDestroysNothing

=============================================================================
