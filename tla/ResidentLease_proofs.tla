------------------------ MODULE ResidentLease_proofs ------------------------
(***************************************************************************)
(* As long as heartbeats are prompt and starts do not overlap, every       *)
(* instance that acts for the resident owns the lease, for any number of   *)
(* instances, hosts and events and any timeout of two intervals or more.   *)
(***************************************************************************)
EXTENDS ResidentLease, TLAPS

(* Types that the argument needs.                                          *)
Typed ==
    /\ lease \in Instances \cup {NoOne}
    /\ age \in Nat
    /\ phase \in [Instances -> Phases]
    /\ saw \in [Instances -> Instances \cup {NoOne}]
    /\ due \in [Instances -> BOOLEAN]

(* An acting instance owns a young lease; once an interval has passed, it  *)
(* owes a heartbeat.                                                       *)
Owned ==
    \A i \in Instances :
        phase[i] \in Acting =>
            /\ lease = i
            /\ age <= 1
            /\ age = 1 => phase[i] \in {"serving", "stopping"}
            /\ age = 1 /\ phase[i] = "serving" => due[i]

(* One instance is starting, and when it is about to write the lease row   *)
(* nobody acts.                                                            *)
OneStarts ==
    \A i, j \in Instances :
        phase[i] \in Starting /\ phase[j] \in Starting => i = j

NobodyActs ==
    \A i, j \in Instances : phase[i] = "claiming" => phase[j] \notin Acting

(* The holder that is to be cleared away is dead, and stays so.            *)
SawDead ==
    \A i \in Instances :
        phase[i] = "clearing" => saw[i] \in Instances /\ phase[saw[i]] = "gone"

(* A holder was started.                                                   *)
HolderStarted == lease \in Instances => phase[lease] # "unborn"

LeaseInv ==
    Typed /\ Owned /\ OneStarts /\ NobodyActs /\ SawDead /\ HolderStarted

LEMMA InitLease == Init => LeaseInv
<1>1. Init => Typed
  BY NoOneAssumption DEF Init, Typed, Phases
<1>2. Init => Owned /\ OneStarts /\ NobodyActs /\ SawDead /\ HolderStarted
  BY NoOneAssumption
  DEF Init, Owned, OneStarts, NobodyActs, SawDead, HolderStarted, Acting,
      Starting
<1> QED BY <1>1, <1>2 DEF LeaseInv

-----------------------------------------------------------------------------
(* Starting up: at most one instance does, and none that acts is disturbed.*)
LEMMA StartingUp ==
    ASSUME LeaseInv, orderly', NEW i \in Instances,
           \/ Boot(i) \/ LookAtLease(i) \/ ReadLease(i) \/ Refuse(i)
           \/ \E e \in Events : RecoverRow(i, e)
    PROVE  LeaseInv'
<1> USE DEF LeaseInv, GoTo, Phases
<1>1. Typed'
  BY DEF Typed, Boot, LookAtLease, ReadLease, Refuse, RecoverRow, leaseVars,
         Starting, Acting
<1>2. Owned'
  BY DEF Typed, Owned, Boot, LookAtLease, ReadLease, Refuse, RecoverRow,
         leaseVars, Starting, Acting
<1>3. OneStarts'
  BY DEF Typed, OneStarts, Boot, LookAtLease, ReadLease, Refuse, RecoverRow,
         Starting, Acting
<1>4. NobodyActs'
  <2>1. CASE ReadLease(i)
    <3>1. ASSUME NEW j \in Instances, phase[j] \in Acting
          PROVE  FALSE
      <4>1. lease = j /\ age <= 1
        BY <3>1 DEF Owned
      <4>2. j # i /\ lease # NoOne
        BY <2>1, <3>1, <4>1, NoOneAssumption DEF ReadLease, Acting
      <4> QED BY <2>1, <4>1, <4>2, TimeoutAssumption
              DEF ReadLease, Claimable, Typed
    <3> QED BY <2>1, <3>1 DEF ReadLease, NobodyActs, Typed, Acting
  <2> QED BY <2>1 DEF Typed, NobodyActs, Boot, LookAtLease, Refuse, RecoverRow,
                      Starting, Acting
<1>5. HolderStarted /\ SawDead => SawDead'
  <2>1. CASE LookAtLease(i)
    BY <2>1 DEF LookAtLease, HolderDied, Alive, Typed, SawDead, HolderStarted
  <2> QED BY <2>1 DEF Typed, SawDead, Boot, ReadLease, Refuse, RecoverRow
<1>6. HolderStarted'
  BY DEF Typed, HolderStarted, Boot, LookAtLease, ReadLease, Refuse,
         RecoverRow, leaseVars
<1> QED BY <1>1, <1>2, <1>3, <1>4, <1>5, <1>6

(* Taking the lease: it is nobody's that acts.                             *)
LEMMA TakingOver ==
    ASSUME LeaseInv, NEW i \in Instances, ClearDeadLease(i) \/ WriteLease(i)
    PROVE  LeaseInv'
<1> USE NoOneAssumption DEF LeaseInv, GoTo, Phases, Starting, Acting
<1>1. CASE ClearDeadLease(i)
  <2> USE <1>1 DEF ClearDeadLease, ReleaseRow
  <2>1. Typed' /\ OneStarts' /\ NobodyActs' /\ SawDead' /\ HolderStarted'
    BY DEF Typed, OneStarts, NobodyActs, SawDead, HolderStarted
  <2>2. Owned'
    BY DEF Typed, Owned, SawDead
  <2> QED BY <2>1, <2>2
<1>2. CASE WriteLease(i)
  <2> USE <1>2 DEF WriteLease
  <2>1. Typed' /\ OneStarts' /\ SawDead' /\ HolderStarted'
    BY DEF Typed, OneStarts, SawDead, HolderStarted
  <2>2. NobodyActs'
    BY DEF Typed, NobodyActs, OneStarts
  <2>3. Owned'
    BY DEF Typed, Owned, NobodyActs
  <2> QED BY <2>1, <2>2, <2>3
<1> QED BY <1>1, <1>2

(* Serving: a heartbeat makes the lease young, a step leaves it alone.     *)
LEMMA Serving ==
    ASSUME LeaseInv, NEW i \in Instances,
           \/ Announce(i) \/ Heartbeat(i) \/ LoseLease(i) \/ EndStep(i)
           \/ Shutdown(i) \/ \E e \in Events : BeginStep(i, e)
    PROVE  LeaseInv'
<1> USE DEF LeaseInv, GoTo, Phases, Starting, Acting, leaseVars
<1>1. Typed'
  <2>1. /\ (lease \in Instances \cup {NoOne})' /\ (age \in Nat)'
        /\ (phase \in [Instances -> Phases])'
        /\ (saw \in [Instances -> Instances \cup {NoOne}])'
    BY DEF Typed, Announce, Heartbeat, LoseLease, EndStep, Shutdown, BeginStep
  <2>2. (due \in [Instances -> BOOLEAN])'
    BY DEF Typed, Announce, Heartbeat, LoseLease, EndStep, Shutdown, BeginStep
  <2> QED BY <2>1, <2>2 DEF Typed
<1>2. Owned'
  <2> SUFFICES ASSUME NEW j \in Instances, phase'[j] \in Acting
               PROVE  /\ lease' = j
                      /\ age' <= 1
                      /\ age' = 1 => phase'[j] \in {"serving", "stopping"}
                      /\ age' = 1 /\ phase'[j] = "serving" => due'[j]
    BY DEF Owned
  <2>1. phase[j] \in Acting
    BY DEF Typed, Announce, Heartbeat, LoseLease, EndStep, Shutdown, BeginStep
  <2>2. CASE Announce(i)
    <3>1. age' = age /\ age # 1 /\ lease' = lease
      BY <2>1, <2>2 DEF Announce, Owned, Typed
    <3> QED BY <2>1, <2>2, <3>1 DEF Owned
  <2>3. CASE Heartbeat(i)
    BY <2>1, <2>3 DEF Heartbeat, Owned
  <2>4. CASE ~(Announce(i) \/ Heartbeat(i))
    <3>1. UNCHANGED <<lease, age, due>>
      BY <2>4 DEF LoseLease, EndStep, Shutdown, BeginStep
    <3>2. \/ phase'[j] = phase[j]
          \/ phase[j] = "serving" /\ phase'[j] = "stopping"
      BY <2>4 DEF Typed, LoseLease, EndStep, Shutdown, BeginStep
    <3> QED BY <2>1, <3>1, <3>2 DEF Owned
  <2> QED BY <2>2, <2>3, <2>4
<1>3. OneStarts' /\ NobodyActs' /\ SawDead' /\ HolderStarted'
  BY DEF Typed, OneStarts, NobodyActs, SawDead, HolderStarted, Announce,
         Heartbeat, LoseLease, EndStep, Shutdown, BeginStep
<1> QED BY <1>1, <1>2, <1>3

(* Going down: the row that is deleted is the instance's own.              *)
LEMMA GoingDown ==
    ASSUME LeaseInv, NEW i \in Instances, Retire(i) \/ Exit(i) \/ Crash(i)
    PROVE  LeaseInv'
<1> USE NoOneAssumption
    DEF LeaseInv, GoTo, Phases, Starting, Acting, leaseVars, ReleaseRow
<1>1. Typed'
  BY DEF Typed, Retire, Exit, Crash
<1>2. Owned'
  BY DEF Typed, Owned, Retire, Exit, Crash
<1>3. OneStarts' /\ NobodyActs'
  BY DEF Typed, OneStarts, NobodyActs, Retire, Exit, Crash
<1>4. SawDead' /\ HolderStarted'
  BY DEF Typed, SawDead, HolderStarted, Retire, Exit, Crash
<1> QED BY <1>1, <1>2, <1>3, <1>4

(* Time: a prompt holder has beaten since the last interval.               *)
LEMMA Passing ==
    ASSUME LeaseInv, orderly', Tick
    PROVE  LeaseInv'
<1> USE DEF LeaseInv, Tick, NextAge
<1>1. Typed'
  BY DEF Typed
<1>2. Owned'
  <2> SUFFICES ASSUME NEW j \in Instances, phase[j] \in Acting
               PROVE  /\ lease = j
                      /\ age' = 1
                      /\ phase[j] = "serving"
                      /\ due'[j]
    BY DEF Owned
  <2>1. phase[j] = "serving" /\ ~due[j]
    OBVIOUS
  <2>2. lease = j /\ age <= 1 /\ age # 1
    BY <2>1 DEF Owned
  <2>3. age' = 1
    BY <2>2, TimeoutAssumption DEF Typed
  <2>4. due'[j]
    BY <2>1 DEF Typed
  <2> QED BY <2>1, <2>2, <2>3, <2>4
<1>3. OneStarts' /\ NobodyActs' /\ SawDead' /\ HolderStarted'
  BY DEF OneStarts, NobodyActs, SawDead, HolderStarted
<1> QED BY <1>1, <1>2, <1>3

LEMMA LeaseStep ==
    ASSUME LeaseInv, orderly', [Next]_vars
    PROVE  LeaseInv'
<1>1. CASE Tick
  BY <1>1, Passing
<1>2. ASSUME NEW i \in Instances, Step(i)
      PROVE  LeaseInv'
  BY <1>2, StartingUp, TakingOver, Serving, GoingDown DEF Step
<1>3. CASE UNCHANGED vars
  BY <1>3 DEF vars, LeaseInv, Typed, Owned, OneStarts, NobodyActs, SawDead,
              HolderStarted
<1> QED BY <1>1, <1>2, <1>3 DEF Next

(* Authority is opened when the lease is written and closed on every way   *)
(* out.                                                                    *)
Authorised == \A i \in authority : i \in Instances /\ phase[i] \in Acting

LEMMA AuthorisedStep ==
    ASSUME LeaseInv, Authorised, [Next]_vars
    PROVE  Authorised'
<1> USE DEF LeaseInv, Typed, Authorised, GoTo, Acting
<1>1. CASE Tick
  BY <1>1 DEF Tick
<1>2. ASSUME NEW i \in Instances, Step(i)
      PROVE  Authorised'
  <2>1. CASE \/ Boot(i) \/ LookAtLease(i) \/ ClearDeadLease(i)
             \/ ReadLease(i) \/ Refuse(i) \/ Exit(i)
    BY <2>1 DEF Boot, LookAtLease, ClearDeadLease, ReadLease, Refuse, Exit
  <2>2. CASE WriteLease(i) \/ Announce(i) \/ Shutdown(i)
    BY <2>2 DEF WriteLease, Announce, Shutdown
  <2>3. CASE LoseLease(i) \/ Retire(i) \/ Crash(i)
    BY <2>3 DEF LoseLease, Retire, Crash
  <2>4. CASE \/ Heartbeat(i) \/ EndStep(i)
             \/ \E e \in Events : RecoverRow(i, e) \/ BeginStep(i, e)
    BY <2>4 DEF Heartbeat, EndStep, RecoverRow, BeginStep
  <2> QED BY <1>2, <2>1, <2>2, <2>3, <2>4 DEF Step
<1>3. CASE UNCHANGED vars
  BY <1>3 DEF vars
<1> QED BY <1>1, <1>2, <1>3 DEF Next

(* The endpoint file names the instance that serves: only its own instance *)
(* removes it, and who announces owns the lease.                           *)
Announced == \A i \in Instances : phase[i] = "serving" => endpoint = i

LEMMA AnnouncedStep ==
    ASSUME LeaseInv, Announced, [Next]_vars
    PROVE  Announced'
<1> USE DEF LeaseInv, Typed, Announced, GoTo
<1>1. CASE Tick
  BY <1>1 DEF Tick
<1>2. ASSUME NEW i \in Instances, Step(i)
      PROVE  Announced'
  <2>1. CASE \/ Boot(i) \/ LookAtLease(i) \/ ClearDeadLease(i)
             \/ ReadLease(i) \/ WriteLease(i) \/ Exit(i)
    BY <2>1 DEF Boot, LookAtLease, ClearDeadLease, ReadLease, WriteLease, Exit
  <2>2. CASE Refuse(i) \/ Retire(i)
    BY <2>2 DEF Refuse, Retire, RemoveOwnedEndpoint
  <2>3. CASE LoseLease(i) \/ Shutdown(i) \/ Crash(i)
    BY <2>3 DEF LoseLease, Shutdown, Crash
  <2>4. CASE Announce(i)
    <3> SUFFICES ASSUME NEW j \in Instances, phase'[j] = "serving"
                 PROVE  endpoint' = j
      OBVIOUS
    <3>1. j # i => phase[j] = "serving" /\ lease = j /\ lease = i
      BY <2>4 DEF Announce, Owned, Acting
    <3> QED BY <2>4, <3>1 DEF Announce
  <2>5. CASE \/ Heartbeat(i) \/ EndStep(i)
             \/ \E e \in Events : RecoverRow(i, e) \/ BeginStep(i, e)
    BY <2>5 DEF Heartbeat, EndStep, RecoverRow, BeginStep
  <2> QED BY <1>2, <2>1, <2>2, <2>3, <2>4, <2>5 DEF Step
<1>3. CASE UNCHANGED vars
  BY <1>3 DEF vars
<1> QED BY <1>1, <1>2, <1>3 DEF Next

-----------------------------------------------------------------------------
(* Order that is lost does not come back.                                  *)
LEMMA OrderlyBefore == [Next]_vars => (orderly' => orderly)
<1>1. Tick => (orderly' => orderly)
  BY DEF Tick
<1>2. ASSUME NEW i \in Instances, Step(i)
      PROVE  orderly' => orderly
  BY <1>2 DEF Step, Boot, LookAtLease, ClearDeadLease, ReadLease, WriteLease,
              Refuse, Announce, Heartbeat, LoseLease, EndStep, Shutdown, Retire,
              Exit, Crash, RecoverRow, BeginStep
<1>3. UNCHANGED vars => (orderly' => orderly)
  BY DEF vars
<1> QED BY <1>1, <1>2, <1>3 DEF Next

OrderlyInv == orderly => LeaseInv /\ Authorised /\ Announced

LEMMA InitOrderly == Init => OrderlyInv
<1>1. Init => authority = {}
  BY DEF Init
<1>2. Init => Announced
  BY DEF Init, Announced
<1> QED BY <1>1, <1>2, InitLease DEF OrderlyInv, Authorised

LEMMA OrderlyStep == OrderlyInv /\ [Next]_vars => OrderlyInv'
<1> SUFFICES ASSUME OrderlyInv, [Next]_vars, orderly'
             PROVE  LeaseInv' /\ Authorised' /\ Announced'
  BY DEF OrderlyInv
<1>1. LeaseInv /\ Authorised /\ Announced
  BY OrderlyBefore DEF OrderlyInv
<1> QED BY <1>1, LeaseStep, AuthorisedStep, AnnouncedStep

(* Until a step, a start or a join outlasts a heartbeat interval or two    *)
(* starts overlap, whoever acts for the resident owns the lease, so there  *)
(* is one resident over a database.                                        *)
THEOREM LeaseIsExclusive == Spec => []OneResident
<1>1. OrderlyInv => OneResident
  BY DEF OrderlyInv, LeaseInv, Owned, OneResident
<1> QED BY <1>1, InitOrderly, OrderlyStep, PTL DEF Spec

(* Until then the browser extension is open in no process but the one that *)
(* owns the lease.                                                         *)
THEOREM AuthorityFollowsLease == Spec => []AuthorityUnderLease
<1>1. OrderlyInv => AuthorityUnderLease
  BY DEF OrderlyInv, LeaseInv, Owned, Authorised, AuthorityUnderLease
<1> QED BY <1>1, InitOrderly, OrderlyStep, PTL DEF Spec

(* Until then the instance that serves can be found through the endpoint   *)
(* file, whatever refused, retiring or dead instances did to it.           *)
THEOREM HolderCanBeFound == Spec => []HolderIsReachable
<1>1. OrderlyInv => HolderIsReachable
  BY DEF OrderlyInv, Announced, HolderIsReachable
<1> QED BY <1>1, InitOrderly, OrderlyStep, PTL DEF Spec

-----------------------------------------------------------------------------
(* Types.                                                                  *)
LEMMA TypeInit == Init => TypeOK
BY TimeoutAssumption DEF Init, TypeOK, Phases

LEMMA TypeStep ==
    ASSUME TypeOK, NEW i \in Instances, Step(i)
    PROVE  TypeOK'
<1> USE TimeoutAssumption
    DEF TypeOK, GoTo, Phases, Starting, Acting, leaseVars, eventVars
<1>1. CASE Boot(i) \/ LookAtLease(i)
  <2>1. (phase \in [Instances -> Phases])'
    BY <1>1 DEF Boot, LookAtLease
  <2>2. /\ (snapshot \in [Instances -> SUBSET Events])'
        /\ (saw \in [Instances -> Instances \cup {NoOne}])'
    BY <1>1 DEF Boot, LookAtLease
  <2>3. (orderly \in BOOLEAN)'
    BY <1>1, Zenon DEF Boot, LookAtLease
  <2> QED BY <1>1, <2>1, <2>2, <2>3 DEF Boot, LookAtLease
<1>2. CASE ClearDeadLease(i) \/ ReadLease(i) \/ WriteLease(i)
  BY <1>2 DEF ClearDeadLease, ReleaseRow, ReadLease, WriteLease
<1>3. CASE Refuse(i) \/ Announce(i)
  BY <1>3 DEF Refuse, RemoveOwnedEndpoint, Announce
<1>4. CASE Heartbeat(i) \/ LoseLease(i) \/ Shutdown(i)
  <2>1. (due \in [Instances -> BOOLEAN])'
    BY <1>4 DEF Heartbeat, LoseLease, Shutdown
  <2>2. (phase \in [Instances -> Phases])' /\ (age \in 0 .. Timeout + 1)'
    BY <1>4 DEF Heartbeat, LoseLease, Shutdown
  <2> QED BY <1>4, <2>1, <2>2 DEF Heartbeat, LoseLease, Shutdown
<1>5. CASE Retire(i) \/ Exit(i) \/ Crash(i)
  BY <1>5 DEF Retire, RemoveOwnedEndpoint, ReleaseRow, Exit, Crash
<1>6. CASE EndStep(i)
  BY <1>6 DEF EndStep
<1>7. ASSUME NEW e \in Events, RecoverRow(i, e) \/ BeginStep(i, e)
      PROVE  TypeOK'
  BY <1>7 DEF RecoverRow, BeginStep
<1> QED BY <1>1, <1>2, <1>3, <1>4, <1>5, <1>6, <1>7 DEF Step

(* Every variable keeps its type, in order or not: the age of a lease is   *)
(* bounded by what the timeout tells apart.                                *)
THEOREM LeaseTypes == Spec => []TypeOK
<1>1. ASSUME TypeOK, Tick
      PROVE  TypeOK'
  <2> USE <1>1 DEF TypeOK, Tick
  <2>1. (age \in 0 .. Timeout + 1)'
    BY TimeoutAssumption DEF NextAge
  <2>2. (due \in [Instances -> BOOLEAN])' /\ (orderly \in BOOLEAN)'
    OBVIOUS
  <2> QED BY <2>1, <2>2 DEF eventVars
<1>2. TypeOK /\ UNCHANGED vars => TypeOK'
  BY DEF TypeOK, vars
<1>3. TypeOK /\ [Next]_vars => TypeOK'
  BY <1>1, <1>2, TypeStep DEF Next
<1> QED BY <1>3, TypeInit, PTL DEF Spec
=============================================================================
