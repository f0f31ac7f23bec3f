---------------------------- MODULE ApprovalCards ----------------------------
(***************************************************************************)
(* The approval cards of one sensitive action: overwriting one file of the *)
(* workspace.  Executors propose the action and pass the gate; users       *)
(* decide, reconsider, make rules and undo over RPC.  All of them work on  *)
(* one database, one transaction at a time, each on a thread of its own.   *)
(*                                                                         *)
(* approval_cards.py, approval_review.py, the approval stage of            *)
(* action_execution.py and the RPC handlers of daemon.py.  The triple      *)
(* (action kind, scope, target) is fixed; a request's identity is the      *)
(* order of its created_at, which is read before it is inserted.           *)
(***************************************************************************)
EXTENDS Naturals, FiniteSets

CONSTANTS
    Executors,    \* threads that execute actions
    Users,        \* RPC connections of the user
    Contents,     \* contents of the file
    Missing,      \* no file, or no content
    Calls,        \* what the users of this instance do
    MaxRequests,  \* bound on created_at stamps
    MaxCrashes

Procs == Executors \cup Users
Ids == 1 .. MaxRequests
AllCalls == {"decide", "reconsider", "ask", "undo", "rule", "edit", "gap"}

ASSUME ProcsAssumption == Executors \cap Users = {}
ASSUME MissingAssumption == Missing \notin Contents
ASSUME CallsAssumption == Calls \subseteq AllCalls
ASSUME BoundsAssumption == MaxRequests \in Nat /\ MaxCrashes \in Nat

VARIABLES
    request,  \* approval_requests, by identity
    auto,     \* an auto_allow rule for the kind and scope
    ask,      \* an ask_first rule for them
    audit,    \* approval_audit: an entry's request and decision
    file,     \* the content of the file
    trash,    \* the contents in the trash
    local,    \* where each thread is, and what it holds
    clock,    \* the last created_at handed out
    crashes,
    \* history
    ran,      \* the actions dispatched: under which grant, writing what
    times,    \* how many actions were dispatched under a request
    landed,   \* the content an execution under a request replaced
    undos     \* how often a request's undo wrote the file

ledger == <<request, auto, ask, audit>>
disk == <<file, trash>>
history == <<ran, times, landed, undos>>
vars == <<ledger, disk, local, clock, crashes, history>>

Text == Contents \cup {Missing}
Statuses == {"none", "pending", "approved_once", "approved", "consumed",
             "denied", "expired"}
Ended == {"approved", "consumed", "denied", "expired"}
Decisions == {"allow_once", "always_allow", "deny"}
Origins == {"gate", "user", "reconsider"}
Steps == {"idle", "read", "rules", "consume", "stamp", "select", "insert",
          "dispatch", "judge", "decide", "rule", "audit", "recheck", "compare",
          "trash", "write", "mark"}

Absent == [status |-> "none", shown |-> Missing, previous |-> Missing,
           origin |-> "gate", over |-> FALSE, due |-> FALSE, undone |-> FALSE]

Idle == [at |-> "idle", id |-> 0, seen |-> "none", content |-> Missing,
         old |-> Missing, origin |-> "gate", what |-> "none", from |-> 0, denied |-> FALSE]

Made == {i \in Ids : request[i].status # "none"}

\* latest_request_for orders by created_at; 0 stands for no request.
IsLatest(i) == IF Made = {} THEN i = 0 ELSE i \in Made /\ \A j \in Made : j <= i

StatusOf(i) == IF i = 0 THEN "none" ELSE request[i].status

\* A request of the triple was denied and none after it was allowed.
DenyStands ==
    \E i \in Ids : /\ request[i].status = "denied"
                   /\ \A j \in Ids : j > i =>
                        request[j].status \notin {"approved_once", "approved", "consumed"}

Overdue(r) == IF r.status = "pending" /\ r.due THEN [r EXCEPT !.status = "expired"] ELSE r

Expired == [i \in Ids |-> Overdue(request[i])]

\* Mutant of Becomes.
BecomesRefused(decision) == CASE decision = "allow_once" -> "approved_once"
                              [] decision = "always_allow" -> "approved"
                              [] decision = "deny" -> "refused"

Becomes(decision) == CASE decision = "allow_once" -> "approved_once"
                       [] decision = "always_allow" -> "approved"
                       [] decision = "deny" -> "denied"

Goto(p, l) == local' = [local EXCEPT ![p] = l]

Step(p, step) == Goto(p, [local[p] EXCEPT !.at = step])

Finish(p) == Goto(p, Idle)

Mark(i, what) == audit' = audit \cup {<<i, what>>}

-----------------------------------------------------------------------------
(* The gate.                                                               *)

\* The resolver reads the file for the review; then overdue cards expire.
Propose(p, c) ==
    /\ local[p].at = "idle"
    /\ request' = Expired
    /\ Goto(p, [Idle EXCEPT !.at = "read", !.content = c, !.old = file])
    /\ UNCHANGED <<auto, ask, audit, disk, clock, crashes, history>>

\* The newest request decides: a deny refuses, whatever the rules say.
AfterReading(status) == IF status = "denied" THEN "idle" ELSE "rules"

ReadLatest(p) ==
    /\ local[p].at = "read"
    /\ \E i \in {0} \cup Ids :
         /\ IsLatest(i)
         /\ IF AfterReading(StatusOf(i)) = "idle"
            THEN Finish(p)
            ELSE Goto(p, [local[p] EXCEPT !.at = AfterReading(StatusOf(i)), !.id = i,
                                          !.seen = StatusOf(i), !.denied = DenyStands])
    /\ UNCHANGED <<ledger, disk, clock, crashes, history>>

Evaluate == IF ask THEN "ask_first" ELSE IF auto THEN "auto_allow" ELSE "ask_first"

\* Mutant of AfterRules.
AfterRulesAtOnce(l) ==
    CASE Evaluate = "auto_allow" -> [l EXCEPT !.at = "dispatch", !.id = 0]
      [] Evaluate # "auto_allow" /\ l.seen = "approved_once" -> [l EXCEPT !.at = "dispatch"]
      [] Evaluate # "auto_allow" /\ l.seen \in {"pending", "expired"} -> Idle
      [] OTHER -> [l EXCEPT !.at = "stamp"]

\* Under a rule the grant is nobody's card: identity 0.
AfterRules(l) ==
    CASE Evaluate = "auto_allow" -> [l EXCEPT !.at = "dispatch", !.id = 0]
      [] Evaluate # "auto_allow" /\ l.seen = "approved_once" -> [l EXCEPT !.at = "consume"]
      [] Evaluate # "auto_allow" /\ l.seen \in {"pending", "expired"} -> Idle
      [] OTHER -> [l EXCEPT !.at = "stamp"]

EvaluateRules(p) ==
    /\ local[p].at = "rules"
    /\ Goto(p, AfterRules(local[p]))
    /\ UNCHANGED <<ledger, disk, clock, crashes, history>>

\* Mutant of Spendable.
SpendableAgain(i) == request[i].status \in {"approved_once", "consumed"}

Spendable(i) == request[i].status = "approved_once"

\* An approval somebody else has spent leaves the gate asking for a new one.
Consume(p) ==
    /\ local[p].at = "consume"
    /\ LET i == local[p].id
       IN  IF Spendable(i)
           THEN /\ request' = [request EXCEPT ![i].status = "consumed"]
                /\ Step(p, "dispatch")
           ELSE /\ Step(p, "stamp")
                /\ UNCHANGED request
    /\ UNCHANGED <<auto, ask, audit, disk, clock, crashes, history>>

\* The Body replaces the content; without a file it fails.
Dispatch(p) ==
    /\ local[p].at = "dispatch"
    /\ LET l == local[p]
       IN  IF file = Missing
           THEN UNCHANGED <<file, history>>
           ELSE /\ file' = l.content
                /\ ran' = ran \cup {[grant |-> l.id, content |-> l.content,
                                     denied |-> l.denied]}
                /\ times' = [i \in Ids |-> IF i = l.id THEN times[i] + 1 ELSE times[i]]
                /\ landed' = [i \in Ids |-> IF i = l.id THEN file ELSE landed[i]]
                /\ UNCHANGED undos
    /\ Finish(p)
    /\ UNCHANGED <<ledger, trash, clock, crashes>>

-----------------------------------------------------------------------------
(* request_approval: from the gate, from the RPC, from a reconsideration.  *)

\* created_at is read, then overdue cards expire.
Stamp(p) ==
    /\ local[p].at = "stamp"
    /\ clock < MaxRequests
    /\ clock' = clock + 1
    /\ request' = Expired
    /\ Goto(p, [local[p] EXCEPT !.at = "select", !.from = local[p].id, !.id = clock + 1])
    /\ UNCHANGED <<auto, ask, audit, disk, crashes, history>>

\* The database stays locked past its timeout: the call raises and leaves
\* nothing.  What the same failure leaves at any later step, Crash leaves too.
Busy(p) ==
    /\ local[p].at = "stamp"
    /\ Finish(p)
    /\ UNCHANGED <<ledger, disk, clock, crashes, history>>

Requested(l) ==
    IF l.origin = "reconsider"
    THEN [l EXCEPT !.at = "audit", !.id = l.from, !.what = "deny_overridden"]
    ELSE Idle

\* A pending card of the triple is returned as it is.
SelectPending(p) ==
    /\ local[p].at = "select"
    /\ IF \E i \in Ids : request[i].status = "pending"
       THEN Goto(p, Requested(local[p]))
       ELSE Step(p, "insert")
    /\ UNCHANGED <<ledger, disk, clock, crashes, history>>

OverDenied == \E i \in Ids : IsLatest(i) /\ request[i].status = "denied"

\* Only the gate's resolver captures a snapshot; "over" tells that until now
\* the newest request of the triple was a denied one.
Insert(p) ==
    /\ local[p].at = "insert"
    /\ LET l == local[p]
       IN  /\ request' = [request EXCEPT ![l.id] =
                            [Absent EXCEPT !.status = "pending", !.shown = l.content,
                                           !.previous = l.old, !.origin = l.origin,
                                           !.over = OverDenied]]
           /\ Goto(p, Requested(l))
    /\ UNCHANGED <<auto, ask, audit, disk, clock, crashes, history>>

\* RPC approval_request.
Ask(p, c) ==
    /\ "ask" \in Calls
    /\ local[p].at = "idle"
    /\ Goto(p, [Idle EXCEPT !.at = "stamp", !.content = c, !.origin = "user"])
    /\ UNCHANGED <<ledger, disk, clock, crashes, history>>

\* reconsider_denied: the fresh request carries neither diff nor snapshot.
Reconsider(p, i) ==
    /\ "reconsider" \in Calls
    /\ local[p].at = "idle"
    /\ request[i].status = "denied"
    /\ Goto(p, [Idle EXCEPT !.at = "stamp", !.id = i, !.origin = "reconsider"])
    /\ UNCHANGED <<ledger, disk, clock, crashes, history>>

-----------------------------------------------------------------------------
(* Decisions and rules.                                                    *)

\* The row is read before the transaction that changes it.
AfterJudging(l, r) ==
    CASE r.status = "expired" /\ l.what = "always_allow" ->
           [l EXCEPT !.at = "rule", !.what = "always_allow_from_expired"]
      [] r.status = "pending" /\ ~r.due -> [l EXCEPT !.at = "decide"]
      [] OTHER -> Idle

Judge(p, i, decision) ==
    /\ "decide" \in Calls
    /\ local[p].at = "idle"
    /\ request[i].status # "none"
    /\ LET l == [Idle EXCEPT !.id = i, !.what = decision]
       IN  Goto(p, AfterJudging(l, request[i]))
    /\ request' = IF request[i].due THEN Expired ELSE request
    /\ UNCHANGED <<auto, ask, audit, disk, clock, crashes, history>>

\* Mutant of Decided.
DecidedAnyway(r, decision) == [r EXCEPT !.status = Becomes(decision)]

Decided(r, decision) ==
    IF r.status = "pending" THEN [r EXCEPT !.status = Becomes(decision)] ELSE r

\* Mutant of Shows.
ShowsAnything(r, decision) == TRUE

\* The call fails unless the row now shows the status it wanted.
Shows(r, decision) == r.status = Becomes(decision)

Decide(p) ==
    /\ local[p].at = "decide"
    /\ LET i == local[p].id
           d == local[p].what
           r == Decided(request[i], d)
       IN  IF Shows(r, d)
           THEN /\ request' = [request EXCEPT ![i] = r]
                /\ auto' = (auto \/ d = "always_allow")
                /\ Step(p, "audit")
           ELSE /\ Finish(p)
                /\ UNCHANGED <<request, auto>>
    /\ UNCHANGED <<ask, audit, disk, clock, crashes, history>>

\* "Always allow" on an expired card makes the rule and nothing else.
RuleFromExpired(p) ==
    /\ local[p].at = "rule"
    /\ auto' = TRUE
    /\ Step(p, "audit")
    /\ UNCHANGED <<request, ask, audit, disk, clock, crashes, history>>

\* The audit entry has a transaction of its own.
Audit(p) ==
    /\ local[p].at = "audit"
    /\ Mark(local[p].id, local[p].what)
    /\ Finish(p)
    /\ UNCHANGED <<request, auto, ask, disk, clock, crashes, history>>

\* RPC approval_rule_create and approval_rule_delete.
SetRules(p) ==
    /\ "rule" \in Calls
    /\ local[p].at = "idle"
    /\ \/ auto' = ~auto /\ UNCHANGED ask
       \/ ask' = ~ask /\ UNCHANGED auto
    /\ UNCHANGED <<request, audit, disk, local, clock, crashes, history>>

-----------------------------------------------------------------------------
(* undo_approved_change.                                                   *)

Undoable(r) == r.status = "consumed" /\ ~r.undone /\ r.previous # Missing

BeginUndo(p, i) ==
    /\ "undo" \in Calls
    /\ local[p].at = "idle"
    /\ Undoable(request[i])
    /\ Goto(p, [Idle EXCEPT !.at = "compare", !.id = i, !.old = request[i].previous])
    /\ UNCHANGED <<ledger, disk, clock, crashes, history>>

Compare(p) ==
    /\ local[p].at = "compare"
    /\ Step(p, IF file = local[p].old THEN "mark" ELSE "trash")
    /\ UNCHANGED <<ledger, disk, clock, crashes, history>>

\* Mutant of Occupants.
OccupantsLost == {}

\* Whatever is in the way goes to the trash first.
Occupants == {file} \ {Missing}

Trash(p) ==
    /\ local[p].at = "trash"
    /\ trash' = trash \cup Occupants
    /\ file' = Missing
    /\ Step(p, "write")
    /\ UNCHANGED <<ledger, clock, crashes, history>>

Restore(p) ==
    /\ local[p].at = "write"
    /\ file' = local[p].old
    /\ undos' = [undos EXCEPT ![local[p].id] = @ + 1]
    /\ Step(p, "mark")
    /\ UNCHANGED <<ledger, trash, clock, crashes, ran, times, landed>>

Markable(r) == r.status = "consumed" /\ ~r.undone

\* The request is marked after the file is written, and audited after that.
MarkUndone(p) ==
    /\ local[p].at = "mark"
    /\ LET i == local[p].id
       IN  IF Markable(request[i])
           THEN /\ request' = [request EXCEPT ![i].undone = TRUE]
                /\ Goto(p, [local[p] EXCEPT !.at = "audit", !.what = "undone"])
           ELSE /\ Finish(p)
                /\ UNCHANGED request
    /\ UNCHANGED <<auto, ask, audit, disk, clock, crashes, history>>

-----------------------------------------------------------------------------
(* The world.                                                              *)

\* Ten minutes, or a day, have passed.
Elapse(i) ==
    /\ request[i].status = "pending"
    /\ ~request[i].due
    /\ request' = [request EXCEPT ![i].due = TRUE]
    /\ UNCHANGED <<auto, ask, audit, disk, local, clock, crashes, history>>

\* An undo has moved the file to the trash and not yet written it back.
InGap == \E p \in Users : local[p].at = "write"

\* The user's own editor saves the file, "gap": even then.
Edit(c) ==
    /\ "edit" \in Calls
    /\ InGap => "gap" \in Calls
    /\ file # c
    /\ file' = c
    /\ UNCHANGED <<ledger, trash, local, clock, crashes, history>>

Crash ==
    /\ crashes < MaxCrashes
    /\ crashes' = crashes + 1
    /\ local' = [p \in Procs |-> Idle]
    /\ UNCHANGED <<ledger, disk, clock, history>>

Init ==
    /\ request = [i \in Ids |-> Absent]
    /\ auto = FALSE
    /\ ask = FALSE
    /\ audit = {}
    /\ file \in Contents
    /\ trash = {}
    /\ local = [p \in Procs |-> Idle]
    /\ clock = 0
    /\ crashes = 0
    /\ ran = {}
    /\ times = [i \in Ids |-> 0]
    /\ landed = [i \in Ids |-> Missing]
    /\ undos = [i \in Ids |-> 0]

Gate(p) ==
    \/ \E c \in Contents : Propose(p, c)
    \/ ReadLatest(p)
    \/ EvaluateRules(p)
    \/ Consume(p)
    \/ Dispatch(p)

Requesting(p) == Stamp(p) \/ Busy(p) \/ SelectPending(p) \/ Insert(p)

Call(p) ==
    \/ \E c \in Contents : Ask(p, c)
    \/ \E i \in Ids : Reconsider(p, i)
    \/ \E i \in Ids, d \in Decisions : Judge(p, i, d)
    \/ Decide(p)
    \/ RuleFromExpired(p)
    \/ Audit(p)
    \/ SetRules(p)

Undo(p) ==
    \/ \E i \in Ids : BeginUndo(p, i)
    \/ Compare(p)
    \/ Trash(p)
    \/ Restore(p)
    \/ MarkUndone(p)

World == Crash \/ (\E i \in Ids : Elapse(i)) \/ (\E c \in Contents : Edit(c))

Next ==
    \/ \E p \in Executors : Gate(p)
    \/ \E p \in Procs : Requesting(p)
    \/ \E p \in Users : Call(p) \/ Undo(p)
    \/ World

Spec == Init /\ [][Next]_vars

-----------------------------------------------------------------------------
(* Properties.                                                             *)

Requests == [status : Statuses, shown : Text, previous : Text, origin : Origins,
             over : BOOLEAN, due : BOOLEAN, undone : BOOLEAN]

Whats == Decisions \cup {"none", "always_allow_from_expired", "deny_overridden", "undone"}

Locals == [at : Steps, id : 0 .. MaxRequests, seen : Statuses, content : Text,
           old : Text, origin : Origins, what : Whats, from : 0 .. MaxRequests,
           denied : BOOLEAN]

\* Every variable keeps its type.
TypeOK ==
    /\ request \in [Ids -> Requests]
    /\ auto \in BOOLEAN /\ ask \in BOOLEAN
    /\ audit \subseteq (0 .. MaxRequests) \X Whats
    /\ file \in Text /\ trash \subseteq Contents
    /\ local \in [Procs -> Locals]
    /\ clock \in 0 .. MaxRequests
    /\ crashes \in 0 .. MaxCrashes
    /\ ran \subseteq [grant : 0 .. MaxRequests, content : Text, denied : BOOLEAN]
    /\ times \in [Ids -> Nat] /\ landed \in [Ids -> Text] /\ undos \in [Ids -> Nat]

\* "allow_once -- approve this one request only": however many threads
\* retry the action at once and whatever dies in between, one approval is
\* behind one execution at most.
OnceIsOnce == \A i \in Ids : times[i] <= 1

\* What ran under a request had been allowed by the user and was spent: a
\* card that was denied or expired never executes, whoever raced whom.
OnlyAllowedRuns == \A i \in Ids : times[i] > 0 => request[i].status = "consumed"

\* A request's end is final: a decision taken on a stale reading never
\* overrides another user's decision, an expiry or an execution.
EndedIsFinal ==
    [][\A i \in Ids : request[i].status \in Ended =>
                        request'[i].status = request[i].status]_vars

\* What the audit log says of a request is what became of it: the loser of
\* two racing decisions leaves no entry.
Became == [deny |-> {"denied"}, always_allow |-> {"approved"},
           allow_once |-> {"approved_once", "consumed"},
           always_allow_from_expired |-> {"expired"},
           deny_overridden |-> {"denied"}, undone |-> {"consumed"}]

AuditAgrees == \A e \in audit : request[e[1]].status \in Became[e[2]]

\* Undo "never silently destroys anything": what an execution or the user's
\* editor has put into the file since the card was shown, even since the undo
\* compared it, is in the trash when a step of the undo removes it; whether
\* the snapshot is written back or the process dies before that.
UndoDestroysNothing ==
    [][(\E p \in Users : local[p].at \in {"trash", "write"} /\ local'[p] # local[p]) =>
         file \in {Missing, file'} \cup trash']_vars

-----------------------------------------------------------------------------
\* Statements of the code's texts that TLC refutes.

\* Deny is sticky: an action whose gate looked while a deny of its triple
\* stood never ran, even under a rule made afterwards.
StickyDeny == \A r \in ran : ~r.denied

\* "The only way to re-ask a denied triple is an explicit user
\* reconsideration."
NoSilentReask ==
    \A i \in Made : request[i].over => request[i].origin = "reconsider"

\* "Every decision is appended to an immutable audit log": a decided
\* request has its entry, or the call that decided it is about to write it.
DecisionIsAudited ==
    \A i \in Ids : request[i].status \in {"approved_once", "approved", "consumed", "denied"} =>
        \/ \E e \in audit : e[1] = i
        \/ \E p \in Users : local[p].at = "audit" /\ local[p].id = i

\* A duplicate pending request is reused, not duplicated.
OnePending == Cardinality({i \in Ids : request[i].status = "pending"}) <= 1

\* The card shows "exactly what would land": what runs under a request is
\* what its diff showed.
DiffIsWhatLands ==
    \A r \in ran : r.grant # 0 => r.content = request[r.grant].shown

\* Undo restores "the file to its pre-change state": what it writes is what
\* the execution replaced.
UndoRestores ==
    \A i \in Ids : undos[i] > 0 => request[i].previous = landed[i]

\* "Undo runs at most once per request."
UndoRunsOnce == \A i \in Ids : undos[i] <= 1

\* Consumed requests "have an execution behind them", or their executor is
\* on its way.
ConsumedHasRun ==
    \A i \in Ids : request[i].status = "consumed" =>
        \/ times[i] > 0
        \/ \E p \in Executors : local[p].at = "dispatch" /\ local[p].id = i

=============================================================================
