------------------------ MODULE WorkSteering_proofs ------------------------
(* Work and its steering, for every number of connections, events and      *)
(* crashes: what is queued has an owner, what is decided stays decided,    *)
(* one piece of work is active, the answer is honest, and a steering is    *)
(* whole.                                                                  *)
EXTENDS WorkSteering, SequenceTheorems, FiniteSetTheorems, TLAPS

----------------------------------------------------------------------------
(* Scripts.  A script is a sequence of steps, each of which may only be    *)
(* followed by the steps After tells; what the arguments use of it is the  *)
(* set of the steps that are left.                                         *)

Names(s) == {s[i] : i \in DOMAIN s}
T(p) == Names(local[p].todo)

Making == {"row", "message", "enqueue", "run", "unrow", "bind", "wait"}
StartSteps == {"sweep", "item", "repair", "collect", "check"} \cup Making
SteerSteps == {"repair", "bindall", "claim", "supersede", "judge", "release"}
BootSteps == {"bindall", "steering", "adopt", "sweep", "serve"}
Resume ==
    StartSteps \cup {"route", "release", "steering", "adopt", "serve", "project",
                     "outcomes"}
Mending == {"rmessage", "revent", "renqueue", "rrun", "rdelete"}
AfterRepair ==
    {"collect", "check"} \cup Making \cup (SteerSteps \ {"repair"}) \cup BootSteps
AfterClaim == {"release", "steering", "adopt", "sweep", "serve"}

(* The steps that may be left after a step.                                *)
After(s) ==
    CASE s = "sweep" -> (StartSteps \ {"sweep"}) \cup {"route", "serve", "outcomes"}
      [] s = "prepare" -> SteerSteps
      [] s = "item" -> StartSteps \ {"sweep", "item"}
      [] s = "repair" -> AfterRepair
      [] s = "rmessage" -> {"revent", "rrun", "rdelete", "repair"} \cup AfterRepair
      [] s = "revent" -> {"rrun", "rdelete", "repair"} \cup AfterRepair
      [] s = "renqueue" -> {"rrun", "rdelete", "repair"} \cup AfterRepair
      [] s = "rrun" -> {"rdelete", "repair"} \cup AfterRepair
      [] s = "rdelete" -> {"repair"} \cup AfterRepair
      [] s = "collect" -> StartSteps \cup {"outcomes"}
      [] s = "check" -> Making
      [] s = "row" -> Making \ {"row"}
      [] s = "message" -> Making \ {"row", "message"}
      [] s = "enqueue" -> {"run", "unrow", "bind", "wait"}
      [] s = "run" -> {"unrow", "bind", "wait"}
      [] s = "unrow" -> {"bind", "wait"}
      [] s = "bindall" -> {"claim", "supersede", "judge", "release"}
                              \cup (BootSteps \ {"bindall"})
      [] s = "claim" -> {"supersede", "judge"} \cup AfterClaim
      [] s = "supersede" -> {"judge"} \cup AfterClaim
      [] s = "judge" -> Resume
      [] s = "reply" -> {"save", "saveitem", "evidence"} \cup Resume
      [] s = "save" -> {"saveitem", "evidence"} \cup Resume
      [] s = "saveitem" -> {"save", "evidence"} \cup Resume
      [] s = "evidence" -> Resume
      [] s = "rewrite" -> {"outcomes"}
      [] s = "stop" -> {"ask", "look"}
      [] s = "ask" -> {"look"}
      [] s = "steering" -> {"adopt", "sweep", "serve"}
      [] s = "adopt" -> {"sweep", "serve"}
      [] OTHER -> {}

(* The judgement comes first, or right after the closing of what is judged.*)
Ordered(s) ==
    /\ \A i, j \in DOMAIN s : i < j => s[j] \in After(s[i])
    /\ \A i \in DOMAIN s : i > 1 /\ s[i] = "judge" => s[i - 1] = "supersede"
Script(s) == s \in Seq(Steps) /\ Ordered(s)

(* A sequence is a function on its positions.                              *)
LEMMA SeqDomain == ASSUME NEW S, NEW s \in Seq(S)
                   PROVE Len(s) \in Nat /\ DOMAIN s = 1 .. Len(s)
                         /\ \A i \in 1 .. Len(s) : s[i] \in S
BY LenProperties, ElementOfSeq

(* One step is a script, and the empty script has no steps.                *)
LEMMA ShortScripts ==
    /\ Script(<<>>) /\ Names(<<>>) = {}
    /\ \A x \in Steps : Script(<<x>>) /\ Names(<<x>>) = {x}
<1>1. Script(<<>>) /\ Names(<<>>) = {}
  BY DEF Script, Ordered, Names
<1>2. ASSUME NEW x \in Steps PROVE Script(<<x>>) /\ Names(<<x>>) = {x}
  BY DEF Script, Ordered, Names
<1>3. QED BY <1>1, <1>2

(* A script without its first step.                                        *)
LEMMA TailScript ==
    ASSUME NEW s, Script(s), s # <<>>
    PROVE  /\ Script(Tail(s)) /\ Head(s) \in Steps
           /\ Names(s) = {Head(s)} \cup Names(Tail(s))
           /\ Names(Tail(s)) \subseteq After(Head(s))
           /\ Head(s) # "supersede" =>
                 /\ "judge" \in Names(Tail(s)) => "supersede" \in Names(Tail(s))
                 /\ Tail(s) # <<>> => Head(Tail(s)) # "judge"
<1>1. /\ Len(s) \in Nat /\ Len(s) >= 1 /\ DOMAIN s = 1 .. Len(s) /\ Head(s) = s[1]
      /\ \A i \in 1 .. Len(s) : s[i] \in Steps
  BY SeqDomain, LenProperties, EmptySeq, HeadTailProperties DEF Script
<1>2. /\ Tail(s) \in Seq(Steps) /\ Len(Tail(s)) = Len(s) - 1
      /\ \A i \in 1 .. Len(Tail(s)) : Tail(s)[i] = s[i + 1]
  BY HeadTailProperties DEF Script
<1>3. DOMAIN Tail(s) = 1 .. (Len(s) - 1)
  BY <1>1, <1>2, SeqDomain
<1>4. Ordered(Tail(s))
  <2>0. ASSUME NEW i \in DOMAIN Tail(s), i > 1, Tail(s)[i] = "judge"
        PROVE  Tail(s)[i - 1] = "supersede"
    <3>1. i \in 1 .. (Len(s) - 1)
      BY <1>3, <2>0
    <3>2. i + 1 \in DOMAIN s /\ i + 1 > 1 /\ i - 1 \in 1 .. (Len(s) - 1) /\ (i + 1) - 1 = i
      BY <3>1, <2>0, <1>1
    <3>3. s[i + 1] = "judge" /\ Tail(s)[i - 1] = s[(i - 1) + 1] /\ (i - 1) + 1 = i
      BY <3>1, <3>2, <2>0, <1>2
    <3>4. s[(i + 1) - 1] = "supersede"
      BY <3>2, <3>3 DEF Script, Ordered
    <3>5. QED BY <3>2, <3>3, <3>4
  <2>1. SUFFICES ASSUME NEW i \in DOMAIN Tail(s), NEW j \in DOMAIN Tail(s), i < j
                 PROVE  Tail(s)[j] \in After(Tail(s)[i])
    BY <2>0 DEF Ordered
  <2>2. i + 1 \in DOMAIN s /\ j + 1 \in DOMAIN s /\ i + 1 < j + 1
    <3>1. i \in 1 .. (Len(s) - 1) /\ j \in 1 .. (Len(s) - 1)
      BY <1>3
    <3>2. i + 1 \in 1 .. Len(s) /\ j + 1 \in 1 .. Len(s) /\ i + 1 < j + 1
      BY <3>1, <2>1, <1>1
    <3>3. QED BY <3>2, <1>1
  <2>3. Tail(s)[i] = s[i + 1] /\ Tail(s)[j] = s[j + 1]
    BY <1>1, <1>2, <1>3
  <2>4. QED BY <2>2, <2>3 DEF Script, Ordered
<1>5. Names(s) = {Head(s)} \cup Names(Tail(s))
  <2>1. ASSUME NEW i \in DOMAIN s PROVE s[i] \in {Head(s)} \cup Names(Tail(s))
    <3>1. CASE i = 1 BY <3>1, <1>1
    <3>2. CASE i # 1
      <4>1. i - 1 \in DOMAIN Tail(s) /\ Tail(s)[i - 1] = s[i]
        BY <3>2, <1>1, <1>2, <1>3
      <4>2. QED BY <4>1 DEF Names
    <3>3. QED BY <3>1, <3>2
  <2>2. ASSUME NEW i \in DOMAIN Tail(s) PROVE Tail(s)[i] \in Names(s)
    <3>1. i + 1 \in DOMAIN s /\ Tail(s)[i] = s[i + 1]
      BY <1>1, <1>2, <1>3
    <3>2. QED BY <3>1 DEF Names
  <2>3. Head(s) \in Names(s)
    BY <1>1 DEF Names
  <2>4. QED BY <2>1, <2>2, <2>3 DEF Names
<1>6. ASSUME NEW i \in DOMAIN Tail(s) PROVE Tail(s)[i] \in After(Head(s))
  <2>1. 1 \in DOMAIN s /\ i + 1 \in DOMAIN s /\ 1 < i + 1 /\ Tail(s)[i] = s[i + 1]
    BY <1>1, <1>2, <1>3
  <2>2. QED BY <2>1, <1>1 DEF Script, Ordered
<1>7. ASSUME Head(s) # "supersede", "judge" \in Names(Tail(s))
      PROVE  "supersede" \in Names(Tail(s)) /\ Head(Tail(s)) # "judge"
  <2>1. PICK i \in DOMAIN Tail(s) : Tail(s)[i] = "judge"
    BY <1>7 DEF Names
  <2>2. i \in 1 .. (Len(s) - 1)
    BY <1>3
  <2>3. i + 1 \in DOMAIN s /\ i + 1 > 1 /\ (i + 1) - 1 = i /\ s[i + 1] = "judge"
    BY <2>1, <2>2, <1>1, <1>2
  <2>4. s[i] = "supersede"
    <3>1. s[(i + 1) - 1] = "supersede"
      BY <2>3 DEF Script, Ordered
    <3>2. QED BY <3>1, <2>3
  <2>5. i # 1
    BY <2>4, <1>1, <1>7
  <2>6. i - 1 \in DOMAIN Tail(s) /\ Tail(s)[i - 1] = s[i]
    <3>1. i - 1 \in 1 .. (Len(s) - 1) /\ (i - 1) + 1 = i
      BY <2>2, <2>5, <1>1
    <3>2. QED BY <3>1, <1>2, <1>3
  <2>7. "supersede" \in Names(Tail(s))
    BY <2>4, <2>6 DEF Names
  <2>8. Head(Tail(s)) # "judge"
    <3>1. SUFFICES ASSUME Head(Tail(s)) = "judge" PROVE FALSE
      OBVIOUS
    <3>2. Tail(s) # <<>>
      BY <2>7, ShortScripts
    <3>3. 1 \in 1 .. (Len(s) - 1) /\ Head(Tail(s)) = Tail(s)[1]
      BY <2>2, <3>2, <1>1, <1>2, HeadTailProperties
    <3>4. 2 \in DOMAIN s /\ 2 > 1 /\ s[2] = "judge" /\ 2 - 1 = 1
      BY <3>1, <3>3, <1>1, <1>2
    <3>5. s[1] = "supersede"
      BY <3>4 DEF Script, Ordered
    <3>6. QED BY <3>5, <1>1, <1>7
  <2>9. QED BY <2>7, <2>8
<1>8. ASSUME Tail(s) # <<>>, Head(Tail(s)) = "judge" PROVE "judge" \in Names(Tail(s))
  <2>1. Len(Tail(s)) >= 1 /\ Head(Tail(s)) = Tail(s)[1] /\ Len(Tail(s)) \in Nat
    BY <1>1, <1>2, <1>8, LenProperties, EmptySeq, HeadTailProperties
  <2>2. 1 \in DOMAIN Tail(s)
    BY <2>1, <1>2, <1>3
  <2>3. QED BY <2>1, <2>2, <1>8 DEF Names
<1>9. QED BY <1>1, <1>2, <1>4, <1>5, <1>6, <1>7, <1>8 DEF Script, Names

(* Two scripts in a row.                                                   *)
LEMMA JoinScripts ==
    ASSUME NEW s, NEW t, Script(s), Script(t),
           \A x \in Names(s) : Names(t) \subseteq After(x),
           "judge" \notin Names(t) \/ (t # <<>> /\ Head(t) # "judge")
    PROVE  Script(s \o t) /\ Names(s \o t) = Names(s) \cup Names(t)
<1>1. /\ Len(s) \in Nat /\ DOMAIN s = 1 .. Len(s)
      /\ Len(t) \in Nat /\ DOMAIN t = 1 .. Len(t)
  BY SeqDomain DEF Script
<1>2. /\ s \o t \in Seq(Steps) /\ Len(s \o t) = Len(s) + Len(t)
      /\ \A i \in 1 .. Len(s) + Len(t) :
            (s \o t)[i] = IF i <= Len(s) THEN s[i] ELSE t[i - Len(s)]
  BY ConcatProperties DEF Script
<1>3. DOMAIN (s \o t) = 1 .. (Len(s) + Len(t))
  BY <1>1, <1>2, SeqDomain
<1>4. ASSUME NEW i \in DOMAIN (s \o t)
      PROVE  \/ i \in DOMAIN s /\ (s \o t)[i] = s[i] /\ i <= Len(s)
             \/ /\ i - Len(s) \in DOMAIN t /\ i > Len(s)
                /\ (s \o t)[i] = t[i - Len(s)]
  BY <1>1, <1>2, <1>3
<1>5. Ordered(s \o t)
  <2>0. ASSUME NEW i \in DOMAIN (s \o t), i > 1, (s \o t)[i] = "judge"
        PROVE  (s \o t)[i - 1] = "supersede"
    <3>1. i - 1 \in DOMAIN (s \o t) /\ i \in Nat
      BY <1>1, <1>3, <2>0
    <3>2. CASE i <= Len(s)
      <4>1. i \in DOMAIN s /\ i - 1 \in DOMAIN s
        BY <1>1, <1>3, <2>0, <3>2
      <4>2. (s \o t)[i] = s[i] /\ (s \o t)[i - 1] = s[i - 1]
        BY <1>1, <1>4, <2>0, <3>1, <3>2
      <4>3. QED BY <4>1, <4>2, <2>0 DEF Script, Ordered
    <3>3. CASE i > Len(s) + 1
      <4>1. /\ i - Len(s) \in DOMAIN t /\ i - Len(s) > 1
            /\ (i - 1) - Len(s) = (i - Len(s)) - 1
        BY <1>1, <1>3, <2>0, <3>1, <3>3
      <4>2. /\ (s \o t)[i] = t[i - Len(s)]
            /\ (s \o t)[i - 1] = t[(i - 1) - Len(s)]
        BY <1>1, <1>4, <2>0, <3>1, <3>3
      <4>3. QED BY <4>1, <4>2, <2>0 DEF Script, Ordered
    <3>4. CASE i = Len(s) + 1
      <4>1. 1 \in DOMAIN t /\ (s \o t)[i] = t[1]
        BY <1>1, <1>3, <1>4, <2>0, <3>4
      <4>2. t[1] \in Names(t)
        BY <4>1 DEF Names
      <4>3. t # <<>> => Head(t) = t[1]
        BY HeadTailProperties DEF Script
      <4>4. QED BY <4>1, <4>2, <4>3, <2>0
    <3>5. QED BY <3>1, <3>2, <3>3, <3>4, <1>1
  <2>1. SUFFICES ASSUME NEW i \in DOMAIN (s \o t), NEW j \in DOMAIN (s \o t), i < j
                 PROVE  (s \o t)[j] \in After((s \o t)[i])
    BY <2>0 DEF Ordered
  <2>2. CASE j <= Len(s)
    <3>1. i \in DOMAIN s /\ j \in DOMAIN s /\ (s \o t)[i] = s[i] /\ (s \o t)[j] = s[j]
      BY <1>1, <1>3, <1>4, <2>1, <2>2
    <3>2. QED BY <3>1, <2>1 DEF Script, Ordered
  <2>3. CASE j > Len(s) /\ i <= Len(s)
    <3>1. i \in DOMAIN s /\ j - Len(s) \in DOMAIN t
      BY <1>1, <1>3, <1>4, <2>1, <2>3
    <3>2. (s \o t)[i] = s[i] /\ (s \o t)[j] = t[j - Len(s)]
      BY <1>1, <1>3, <1>4, <2>1, <2>3
    <3>3. s[i] \in Names(s) /\ t[j - Len(s)] \in Names(t)
      BY <3>1 DEF Names
    <3>4. QED BY <3>2, <3>3
  <2>4. CASE i > Len(s)
    <3>1. /\ i - Len(s) \in DOMAIN t /\ j - Len(s) \in DOMAIN t
          /\ i - Len(s) < j - Len(s)
      BY <1>1, <1>3, <1>4, <2>1, <2>4
    <3>2. (s \o t)[i] = t[i - Len(s)] /\ (s \o t)[j] = t[j - Len(s)]
      BY <1>1, <1>3, <1>4, <2>1, <2>4
    <3>3. QED BY <3>1, <3>2 DEF Script, Ordered
  <2>5. QED BY <2>2, <2>3, <2>4, <1>1, <1>3
<1>6. Names(s \o t) = Names(s) \cup Names(t)
  <2>1. ASSUME NEW i \in DOMAIN s PROVE s[i] \in Names(s \o t)
    <3>1. i \in DOMAIN (s \o t) /\ (s \o t)[i] = s[i]
      BY <1>1, <1>2, <1>3
    <3>2. QED BY <3>1 DEF Names
  <2>2. ASSUME NEW i \in DOMAIN t PROVE t[i] \in Names(s \o t)
    <3>1. i + Len(s) \in DOMAIN (s \o t) /\ (s \o t)[i + Len(s)] = t[i]
      BY <1>1, <1>2, <1>3
    <3>2. QED BY <3>1 DEF Names
  <2>3. QED BY <1>4, <2>1, <2>2 DEF Names
<1>7. QED BY <1>2, <1>5, <1>6 DEF Script

(* The scripts of the model.                                               *)
LEMMA Scripts ==
    /\ Script(RepairRow) /\ Names(RepairRow) = {"rmessage", "revent", "rrun", "rdelete"}
    /\ Script(RecoverableStart)
    /\ Names(RecoverableStart) = {"repair", "collect", "check", "row", "message",
                                  "enqueue", "run", "unrow"}
    /\ Script(StartScript)
    /\ Names(StartScript) = StartSteps \ {"wait"}
    /\ Script(SteerScript)
    /\ Names(SteerScript) = {"prepare"} \cup SteerSteps
    /\ Script(BootScript)
    /\ Names(BootScript) = {"repair"} \cup BootSteps
<1> USE ShortScripts
<1>1. Script(RepairRow) /\ Names(RepairRow) = {"rmessage", "revent", "rrun", "rdelete"}
  <2>1. RepairRow \in Seq(Steps) BY DEF RepairRow, Steps
  <2>2. Ordered(RepairRow) BY DEF Ordered, RepairRow, After
  <2>3. QED BY <2>1, <2>2 DEF Script, Names, RepairRow
<1>2. /\ Script(RecoverableStart)
      /\ Names(RecoverableStart) = {"repair", "collect", "check", "row", "message",
                                    "enqueue", "run", "unrow"}
  <2>1. Script(RecoverableStart)
    <3>1. RecoverableStart \in Seq(Steps) BY DEF RecoverableStart, Steps
    <3>2. Ordered(RecoverableStart)
      BY DEF Ordered, RecoverableStart, After, StartSteps, Making, AfterRepair
    <3>3. QED BY <3>1, <3>2 DEF Script
  <2>2. QED BY <2>1 DEF Names, RecoverableStart
<1>3. /\ Script(StartScript)
      /\ Names(StartScript) = StartSteps \ {"wait"}
  <2>1. /\ Script(<<"sweep", "item">>) /\ Names(<<"sweep", "item">>) = {"sweep", "item"}
        /\ Script(<<"bind">>) /\ Names(<<"bind">>) = {"bind"}
    <3>1. <<"sweep", "item">> \in Seq(Steps) BY DEF Steps
    <3>2. Ordered(<<"sweep", "item">>) BY DEF Ordered, After, StartSteps
    <3>3. Names(<<"sweep", "item">>) = {"sweep", "item"} BY DEF Names
    <3>4. "bind" \in Steps BY DEF Steps
    <3>5. QED BY <3>1, <3>2, <3>3, <3>4, ShortScripts DEF Script
  <2>2. /\ Script(RecoverableStart \o <<"bind">>)
        /\ Names(RecoverableStart \o <<"bind">>) = Names(RecoverableStart) \cup {"bind"}
    <3>1. \A x \in Names(RecoverableStart) : Names(<<"bind">>) \subseteq After(x)
      BY <1>2, <2>1 DEF After, AfterRepair, Making, StartSteps
    <3>2. "judge" \notin Names(<<"bind">>)
      BY <2>1
    <3>3. QED BY <3>1, <3>2, <1>2, <2>1, JoinScripts
  <2>3. \A x \in Names(<<"sweep", "item">>) :
           Names(RecoverableStart \o <<"bind">>) \subseteq After(x)
    BY <2>1, <2>2, <1>2 DEF After, Making, StartSteps
  <2>4. /\ Script(<<"sweep", "item">> \o (RecoverableStart \o <<"bind">>))
        /\ Names(<<"sweep", "item">> \o (RecoverableStart \o <<"bind">>))
              = {"sweep", "item"} \cup (Names(RecoverableStart) \cup {"bind"})
    <3>1. "judge" \notin Names(RecoverableStart \o <<"bind">>)
      BY <2>2, <1>2
    <3>2. QED BY <2>1, <2>2, <2>3, <3>1, JoinScripts
  <2>5. StartScript = <<"sweep", "item">> \o (RecoverableStart \o <<"bind">>)
    BY <2>1, <1>2, ConcatAssociative DEF StartScript, Script
  <2>6. QED BY <2>4, <2>5, <1>2 DEF StartSteps, Making
<1>4. Script(SteerScript) /\ Names(SteerScript) = {"prepare"} \cup SteerSteps
  <2>1. Script(SteerScript)
    <3>1. SteerScript \in Seq(Steps) BY DEF SteerScript, Steps
    <3>2. Ordered(SteerScript)
      BY DEF Ordered, SteerScript, After, Resume, StartSteps, SteerSteps, AfterRepair, AfterClaim
    <3>3. QED BY <3>1, <3>2 DEF Script
  <2>2. QED BY <2>1 DEF Names, SteerScript, SteerSteps
<1>5. Script(BootScript) /\ Names(BootScript) = {"repair"} \cup BootSteps
  <2>1. Script(BootScript)
    <3>1. BootScript \in Seq(Steps) BY DEF BootScript, Steps
    <3>2. Ordered(BootScript)
      BY DEF Ordered, BootScript, After, BootSteps, StartSteps, AfterRepair, AfterClaim
    <3>3. QED BY <3>1, <3>2 DEF Script
  <2>2. QED BY <2>1 DEF Names, BootScript, BootSteps
<1>6. QED BY <1>1, <1>2, <1>3, <1>4, <1>5

----------------------------------------------------------------------------
(* What the processes still have to do.                                    *)

Locals == [todo : Seq(Steps),
           own : Events \cup {NoEvent}, old : Events \cup {NoEvent},
           target : Events \cup {NoEvent},
           how : {"none", "fresh", "stale", "cancelled"}, base : BOOLEAN]

(* Steps that imply later ones: a start runs to its run, a steering to the *)
(* judgement, and a row that is being mended is reconciled again.          *)
Complete(t) ==
    /\ "item" \in t => "repair" \in t /\ "run" \in t
    /\ "repair" \in t /\ "run" \in t => "check" \in t
    /\ "check" \in t => "row" \in t
    /\ "row" \in t => "enqueue" \in t
    /\ "enqueue" \in t => "run" \in t
    /\ "run" \in t => "unrow" \in t /\ "release" \notin t
    /\ t \cap Mending # {} => "repair" \in t
    /\ "prepare" \in t => "repair" \in t
    /\ "repair" \in t /\ "release" \in t => "bindall" \in t
    /\ "bindall" \in t /\ "release" \in t => "claim" \in t
    /\ "claim" \in t => "supersede" \in t
    /\ "supersede" \in t => "judge" \in t
    /\ "reply" \in t => "save" \in t

(* A connection repairs only on its way to a run, or under the cycle lock. *)
OfClient(t) ==
    /\ "repair" \in t => "run" \in t \/ "release" \in t
    /\ t \cap {"prepare", "bindall", "claim", "supersede"} # {} => "release" \in t
    /\ t \cap {"steering", "adopt", "serve"} = {}

OfBoot(t) ==
    /\ t \subseteq {"repair", "bindall", "claim", "supersede", "judge", "reply",
                    "save", "saveitem", "evidence", "steering", "adopt", "sweep",
                    "serve"} \cup Mending
    /\ "repair" \in t => "bindall" \in t
    /\ t \cap {"bindall", "claim", "supersede"} # {} => "steering" \in t
    /\ "steering" \in t => "adopt" \in t

Fitting(p, t) ==
    /\ Complete(t)
    /\ p \in Clients => OfClient(t)
    /\ p = Boot => OfBoot(t)

(* Only the constructors run while the process boots, and nothing while it *)
(* is down; the cycle lock is held by the connection that will release it. *)
Resting ==
    /\ up \in {"down", "booting", "up", "broken"}
    /\ up # "up" => \A c \in Clients : local[c].todo = <<>>
    /\ up # "booting" => local[Boot].todo = <<>>
    /\ up = "booting" => "serve" \in T(Boot)
    /\ lock \in Clients \cup {NoOne}
    /\ \A c \in Clients : "release" \in T(c) <=> lock = c

ScriptInv ==
    /\ local \in [Procs -> Locals]
    /\ \A p \in Procs : Ordered(local[p].todo) /\ Fitting(p, T(p))
    /\ Resting

(* What a step of p does to the scripts.                                   *)
Keeps(p) == \A q \in Procs \ {p} : local'[q] = local[q] /\ T(q)' = T(q)
Same(p) ==
    /\ local'[p].own = local[p].own /\ local'[p].old = local[p].old
    /\ local'[p].target = local[p].target /\ local'[p].how = local[p].how
    /\ local'[p].base = local[p].base
Pops(p, h) ==
    /\ h \in T(p) /\ T(p) \ {h} \subseteq T(p)' /\ T(p)' \subseteq T(p)
    /\ T(p)' \subseteq After(h)

(* What a script is left with is complete when the script was.             *)
LEMMA FittingPop ==
    ASSUME NEW p \in Procs, NEW t, NEW u, NEW h \in Steps, Fitting(p, t),
           h \in t, t \ {h} \subseteq u, u \subseteq t, u \subseteq After(h)
    PROVE  Fitting(p, u)
<1> USE DEF Mending
<1>1. Complete(u)
  BY DEF Fitting, Complete, After, Steps, Making, StartSteps, SteerSteps,
         BootSteps, Resume, AfterRepair, AfterClaim
<1>2. p \in Clients => OfClient(u)
  BY DEF Fitting, OfClient, After, Steps, Making, StartSteps, SteerSteps,
         BootSteps, Resume, AfterRepair, AfterClaim
<1>3. p = Boot => OfBoot(u)
  BY DEF Fitting, OfBoot, After, Steps, Making, StartSteps, SteerSteps,
         BootSteps, Resume, AfterRepair, AfterClaim
<1>4. QED BY <1>1, <1>2, <1>3 DEF Fitting

(* The processes after p has become l.                                     *)
LEMMA Becoming ==
    ASSUME ScriptInv, NEW p \in Procs, NEW l \in Locals, Ordered(l.todo),
           Fitting(p, Names(l.todo)), Become(p, l)
    PROVE  /\ local' \in [Procs -> Locals]
           /\ \A q \in Procs : (Ordered(local[q].todo) /\ Fitting(q, T(q)))'
           /\ Keeps(p) /\ local'[p] = l /\ T(p)' = Names(l.todo)
<1>1. /\ local' \in [Procs -> Locals] /\ local'[p] = l
      /\ \A q \in Procs \ {p} : local'[q] = local[q]
  BY DEF ScriptInv, Become
<1>2. T(p)' = Names(l.todo) /\ \A q \in Procs \ {p} : T(q)' = T(q)
  BY <1>1 DEF T
<1>3. Keeps(p)
  BY <1>1, <1>2 DEF Keeps
<1>4. ASSUME NEW q \in Procs PROVE (Ordered(local[q].todo) /\ Fitting(q, T(q)))'
  <2>1. CASE q = p
    BY <2>1, <1>1, <1>2
  <2>2. CASE q # p
    BY <2>2, <1>1, <1>2 DEF ScriptInv
  <2>3. QED BY <2>1, <2>2
<1>5. QED BY <1>1, <1>2, <1>3, <1>4

(* The first step of a script.                                             *)
LEMMA Heading ==
    ASSUME ScriptInv, NEW p \in Procs, NEW h, At(p, h)
    PROVE  /\ h \in Steps /\ h \in T(p) /\ Script(Rest(p))
           /\ T(p) = {h} \cup Names(Rest(p)) /\ Names(Rest(p)) \subseteq After(h)
           /\ Fitting(p, Names(Rest(p))) /\ Fitting(p, T(p))
           /\ local[p] \in Locals /\ Script(local[p].todo)
           /\ h # "supersede" =>
                 /\ "judge" \in Names(Rest(p)) => "supersede" \in Names(Rest(p))
                 /\ Rest(p) # <<>> => Head(Rest(p)) # "judge"
<1>1. local[p] \in Locals /\ Script(local[p].todo) /\ local[p].todo # <<>>
  BY DEF ScriptInv, Script, Locals, At
<1>2. /\ h \in Steps /\ h \in T(p) /\ Script(Rest(p))
      /\ T(p) = {h} \cup Names(Rest(p)) /\ Names(Rest(p)) \subseteq After(h)
      /\ h # "supersede" =>
            /\ "judge" \in Names(Rest(p)) => "supersede" \in Names(Rest(p))
            /\ Rest(p) # <<>> => Head(Rest(p)) # "judge"
  BY <1>1, TailScript DEF At, Rest, T
<1>3. Fitting(p, T(p))
  BY DEF ScriptInv
<1>4. Fitting(p, Names(Rest(p)))
  BY <1>2, <1>3, FittingPop
<1>5. QED BY <1>1, <1>2, <1>3, <1>4

(* A process has something to do only in its time.                         *)
LEMMA Awake ==
    ASSUME ScriptInv, NEW p \in Procs, local[p].todo # <<>>
    PROVE  (p \in Clients => up = "up") /\ (p = Boot => up = "booting")
BY DEF ScriptInv, Resting

(* Empty scripts have no steps left.                                       *)
LEMMA NoSteps == ASSUME ScriptInv, NEW p \in Procs
                 PROVE  local[p].todo = <<>> <=> T(p) = {}
<1>1. local[p].todo = <<>> => T(p) = {}
  BY ShortScripts DEF T
<1>2. ASSUME local[p].todo # <<>> PROVE T(p) # {}
  <2>1. Script(local[p].todo)
    BY DEF ScriptInv, Script, Locals
  <2>2. Names(local[p].todo) = {Head(local[p].todo)} \cup Names(Tail(local[p].todo))
    BY ONLY <2>1, <1>2, TailScript
  <2>3. QED BY <2>2 DEF T
<1>3. QED BY <1>1, <1>2

(* p goes on with l, which keeps what the phase of the process asks for.   *)
LEMMA Recast ==
    ASSUME ScriptInv, NEW p \in Procs, NEW l \in Locals, Script(l.todo),
           Fitting(p, Names(l.todo)), Become(p, l), up' = up, lock' = lock,
           p \in Clients => up = "up", p = Boot => up = "booting",
           "release" \in Names(l.todo) <=> "release" \in T(p),
           "serve" \in T(p) => "serve" \in Names(l.todo)
    PROVE  ScriptInv' /\ Keeps(p) /\ local'[p] = l /\ T(p)' = Names(l.todo)
<1>1. /\ local' \in [Procs -> Locals]
      /\ \A q \in Procs : (Ordered(local[q].todo) /\ Fitting(q, T(q)))'
      /\ Keeps(p) /\ local'[p] = l /\ T(p)' = Names(l.todo)
  BY Becoming DEF Script
<1>2. Resting'
  <2>1. \A c \in Clients : c \in Procs /\ c # Boot
    BY BootAssumption DEF Procs
  <2>2. p \in Clients \/ p = Boot
    BY DEF Procs
  <2>3. up # "up" => \A c \in Clients : local'[c].todo = <<>>
    BY <1>1, <2>1 DEF Keeps, ScriptInv, Resting
  <2>4. up # "booting" => local'[Boot].todo = <<>>
    BY <1>1, <2>1, <2>2 DEF Keeps, ScriptInv, Resting, Procs
  <2>5. up = "booting" => "serve" \in T(Boot)'
    BY <1>1, <2>1, <2>2 DEF Keeps, ScriptInv, Resting, Procs
  <2>6. \A c \in Clients : "release" \in T(c)' <=> lock = c
    BY <1>1, <2>1 DEF Keeps, ScriptInv, Resting
  <2>7. QED BY <2>3, <2>4, <2>5, <2>6 DEF ScriptInv, Resting
<1>3. QED BY <1>1, <1>2 DEF ScriptInv

(* A step that only strikes itself off.                                    *)
LEMMA Popping ==
    ASSUME ScriptInv, NEW p \in Procs, NEW h, h \notin {"release", "serve"},
           At(p, h), Next1(p), up' = up, lock' = lock
    PROVE  ScriptInv' /\ Keeps(p) /\ Same(p) /\ Pops(p, h)
<1>1. /\ h \in Steps /\ h \in T(p) /\ Script(Rest(p))
      /\ T(p) = {h} \cup Names(Rest(p)) /\ Names(Rest(p)) \subseteq After(h)
      /\ Fitting(p, Names(Rest(p))) /\ local[p] \in Locals
  BY Heading
<1> DEFINE l == [local[p] EXCEPT !.todo = Rest(p)]
<1>2. l \in Locals /\ l.todo = Rest(p) /\ Become(p, l)
  BY <1>1 DEF Locals, Script, Next1, Go
<1>3. local[p].todo # <<>>
  BY DEF At
<1>4. (p \in Clients => up = "up") /\ (p = Boot => up = "booting")
  BY <1>3, Awake
<1> HIDE DEF l
<1>5. ScriptInv' /\ Keeps(p) /\ local'[p] = l /\ T(p)' = Names(Rest(p))
  BY <1>1, <1>2, <1>4, Recast
<1>6. Same(p)
  BY <1>1, <1>5 DEF Same, Locals, l
<1>7. Pops(p, h)
  BY <1>1, <1>5 DEF Pops
<1>8. QED BY <1>5, <1>6, <1>7

(* A call that raises is over, and gives the cycle lock back; a            *)
(* constructor that raises ends the process.                               *)
LEMMA Raising ==
    ASSUME ScriptInv, NEW p \in Procs, local[p].todo # <<>>, Raise(p)
    PROVE  /\ ScriptInv' /\ Keeps(p) /\ local'[p] = Idle /\ T(p)' = {}
           /\ lock' = (IF lock = p THEN NoOne ELSE lock)
           /\ up' = (IF p = Boot THEN "broken" ELSE up)
           /\ UNCHANGED <<store, ledger, crashes>>
<1>1. Idle \in Locals /\ Script(Idle.todo) /\ Names(Idle.todo) = {} /\ Idle.todo = <<>>
  BY ShortScripts DEF Idle, Locals, Script
<1>2. Fitting(p, {})
  BY DEF Fitting, Complete, OfClient, OfBoot
<1>3. Become(p, Idle)
  BY DEF Raise, Become
<1>4. /\ local' \in [Procs -> Locals]
      /\ \A q \in Procs : (Ordered(local[q].todo) /\ Fitting(q, T(q)))'
      /\ Keeps(p) /\ local'[p] = Idle /\ T(p)' = {}
  BY <1>1, <1>2, <1>3, Becoming DEF Script
<1>5. /\ lock' = (IF lock = p THEN NoOne ELSE lock)
      /\ up' = (IF p = Boot THEN "broken" ELSE up)
      /\ UNCHANGED <<store, ledger, crashes>>
  BY DEF Raise
<1>6. Resting'
  <2>1. \A c \in Clients : c \in Procs /\ c # Boot /\ c # NoOne
    BY BootAssumption DEF Procs
  <2>2. (p \in Clients => up = "up") /\ (p = Boot => up = "booting")
    BY Awake
  <2>3. p \in Clients \/ p = Boot
    BY DEF Procs
  <2>4. up' # "up" => \A c \in Clients : local'[c].todo = <<>>
    BY <1>1, <1>4, <1>5, <2>1, <2>2, <2>3 DEF Keeps, ScriptInv, Resting
  <2>5. up' # "booting" => local'[Boot].todo = <<>>
    BY <1>1, <1>4, <1>5, <2>1, <2>2, <2>3 DEF Keeps, ScriptInv, Resting, Procs
  <2>6. up' = "booting" => "serve" \in T(Boot)'
    BY <1>4, <1>5, <2>1, <2>2, <2>3 DEF Keeps, ScriptInv, Resting, Procs
  <2>7. \A c \in Clients : "release" \in T(c)' <=> lock' = c
    BY <1>4, <1>5, <2>1 DEF Keeps, ScriptInv, Resting
  <2>8. lock' \in Clients \cup {NoOne} /\ up' \in {"down", "booting", "up", "broken"}
    BY <1>5 DEF ScriptInv, Resting
  <2>9. QED BY <2>4, <2>5, <2>6, <2>7, <2>8 DEF Resting
<1>7. QED BY <1>4, <1>5, <1>6 DEF ScriptInv

(* p puts the script s before r.                                           *)
LEMMA Prefixing ==
    ASSUME ScriptInv, NEW p \in Procs, NEW s, NEW r, NEW l \in Locals,
           Script(s), Script(r), \A x \in Names(s) : Names(r) \subseteq After(x),
           "judge" \notin Names(r) \/ (r # <<>> /\ Head(r) # "judge"),
           Fitting(p, Names(s) \cup Names(r)), l.todo = s \o r, Become(p, l),
           up' = up, lock' = lock, local[p].todo # <<>>,
           "release" \in Names(s) \cup Names(r) <=> "release" \in T(p),
           "serve" \in T(p) => "serve" \in Names(s) \cup Names(r)
    PROVE  /\ ScriptInv' /\ Keeps(p) /\ local'[p] = l
           /\ T(p)' = Names(s) \cup Names(r)
<1>1. Script(s \o r) /\ Names(s \o r) = Names(s) \cup Names(r)
  BY JoinScripts
<1>2. (p \in Clients => up = "up") /\ (p = Boot => up = "booting")
  BY Awake
<1>3. QED BY <1>1, <1>2, Recast

(* The steps that settle a run may stand before any script that is resumed.*)
LEMMA SettlingFits ==
    ASSUME NEW p \in Procs, NEW t, Fitting(p, t),
           NEW s \in SUBSET {"reply", "save", "saveitem", "evidence", "judge"},
           "reply" \in s => "save" \in s
    PROVE  Fitting(p, s \cup t)
BY DEF Fitting, Complete, OfClient, OfBoot, Mending

LEMMA MendingFits ==
    ASSUME NEW p \in Procs, NEW t, Fitting(p, t), "repair" \in t,
           NEW s \in SUBSET Mending
    PROVE  Fitting(p, s \cup t)
BY DEF Fitting, Complete, OfClient, OfBoot, Mending

(* The scripts that settle a run.                                          *)
LEMMA SettlingScripts ==
    /\ Script(<<"reply", "save">>) /\ Names(<<"reply", "save">>) = {"reply", "save"}
    /\ Script(<<"reply", "save", "saveitem">>)
    /\ Names(<<"reply", "save", "saveitem">>) = {"reply", "save", "saveitem"}
    /\ Script(<<"reply", "save", "saveitem", "evidence">>)
    /\ Names(<<"reply", "save", "saveitem", "evidence">>)
          = {"reply", "save", "saveitem", "evidence"}
    /\ Script(<<"reply", "save", "project">>)
    /\ Names(<<"reply", "save", "project">>) = {"reply", "save", "project"}
    /\ Script(<<"judge", "project">>)
    /\ Names(<<"judge", "project">>) = {"judge", "project"}
    /\ Script(<<"project">>) /\ Names(<<"project">>) = {"project"}
    /\ Script(<<"rewrite">>) /\ Names(<<"rewrite">>) = {"rewrite"}
    /\ Script(<<"saveitem", "save">>)
    /\ Names(<<"saveitem", "save">>) = {"saveitem", "save"}
    /\ Script(<<"judge">>) /\ Names(<<"judge">>) = {"judge"}
    /\ Script(<<"renqueue">>) /\ Names(<<"renqueue">>) = {"renqueue"}
<1>1. /\ <<"reply", "save">> \in Seq(Steps)
      /\ <<"reply", "save", "saveitem">> \in Seq(Steps)
      /\ <<"reply", "save", "saveitem", "evidence">> \in Seq(Steps)
      /\ <<"reply", "save", "project">> \in Seq(Steps)
      /\ <<"judge", "project">> \in Seq(Steps)
      /\ <<"saveitem", "save">> \in Seq(Steps)
      /\ {"judge", "renqueue", "project", "rewrite"} \subseteq Steps
  BY DEF Steps
<1>2. Ordered(<<"reply", "save">>)
  BY DEF Ordered, After
<1>3. Ordered(<<"reply", "save", "saveitem">>)
  BY DEF Ordered, After
<1>4. Ordered(<<"saveitem", "save">>)
  BY DEF Ordered, After
<1>5. /\ Names(<<"reply", "save">>) = {"reply", "save"}
      /\ Names(<<"saveitem", "save">>) = {"saveitem", "save"}
      /\ Names(<<"reply", "save", "saveitem">>) = {"reply", "save", "saveitem"}
      /\ Names(<<"reply", "save", "saveitem", "evidence">>)
            = {"reply", "save", "saveitem", "evidence"}
      /\ Names(<<"reply", "save", "project">>) = {"reply", "save", "project"}
      /\ Names(<<"judge", "project">>) = {"judge", "project"}
  BY DEF Names
<1>6. Ordered(<<"reply", "save", "saveitem", "evidence">>)
  BY DEF Ordered, After
<1>7. Ordered(<<"reply", "save", "project">>)
  BY DEF Ordered, After, Resume
<1>8. Ordered(<<"judge", "project">>)
  BY DEF Ordered, After, Resume
<1>9. QED
  BY <1>1, <1>2, <1>3, <1>4, <1>5, <1>6, <1>7, <1>8, ShortScripts DEF Script

(* Every step that settles may be followed by what judging may.            *)
LEMMA AfterSettling ==
    ASSUME NEW x \in {"reply", "save", "saveitem", "evidence", "judge"}
    PROVE  Resume \subseteq After(x)
BY DEF After

LEMMA AfterJudged ==
    ASSUME NEW h \in {"judge", "sweep", "collect"}
    PROVE  {h} \cup After(h) \subseteq Resume \cup {"judge"}
           /\ (h # "judge" => {h} \cup After(h) \subseteq Resume)
BY DEF After, Resume, StartSteps, Making

LEMMA JudgeTurn ==
    ASSUME ScriptInv, NEW p \in Procs, Judge(p)
    PROVE  /\ ScriptInv' /\ Keeps(p) /\ "judge" \in T(p)
           /\ T(p) \ {"judge"} \subseteq T(p)'
           /\ T(p)' \subseteq (T(p) \ {"judge"})
                               \cup {"reply", "save", "saveitem", "evidence"}
           /\ local'[p].own = local[p].own /\ local'[p].old = local[p].old
           /\ local'[p].target = local[p].target /\ local'[p].base = local[p].base
           /\ local'[p].how # "cancelled" \/ "reply" \notin T(p)'
           /\ "evidence" \in T(p)' => /\ verdict[local[p].target] = "success"
                                      /\ evidence[local[p].target] # "none"
           /\ "supersede" \notin T(p)
           /\ up' = up /\ lock' = lock /\ UNCHANGED <<store, ledger, crashes>>
<1> DEFINE e == local[p].target
<1> DEFINE Judged ==
             /\ ScriptInv' /\ Keeps(p) /\ T(p) \ {"judge"} \subseteq T(p)'
             /\ T(p)' \subseteq (T(p) \ {"judge"})
                               \cup {"reply", "save", "saveitem", "evidence"}
             /\ local'[p].own = local[p].own /\ local'[p].old = local[p].old
             /\ local'[p].target = local[p].target /\ local'[p].base = local[p].base
             /\ local'[p].how # "cancelled"
             /\ "evidence" \in T(p)' => verdict[e] = "success" /\ evidence[e] # "none"
<1>1. At(p, "judge") /\ local[p].todo # <<>>
  BY DEF Judge, At
<1>2. /\ "judge" \in T(p) /\ Script(Rest(p)) /\ local[p] \in Locals
      /\ T(p) = {"judge"} \cup Names(Rest(p)) /\ Names(Rest(p)) \subseteq After("judge")
      /\ Fitting(p, Names(Rest(p)))
  BY <1>1, Heading
<1>3. /\ "judge" \notin Names(Rest(p)) /\ Names(Rest(p)) \subseteq Resume
      /\ "supersede" \notin T(p) /\ T(p) \cap {"reply", "evidence"} = {}
  BY <1>2 DEF After, Resume, StartSteps, Making
<1>4. up' = up /\ lock' = lock /\ UNCHANGED <<store, ledger, crashes>>
  BY DEF Judge, Frame
<1>5. (p \in Clients => up = "up") /\ (p = Boot => up = "booting")
  BY <1>1, Awake
<1>6. ASSUME NEW s, NEW l \in Locals, Script(s), l.todo = s \o Rest(p), Become(p, l),
             Names(s) \subseteq {"reply", "save", "saveitem", "evidence"}, "save" \in Names(s),
             l.own = local[p].own, l.old = local[p].old, l.target = local[p].target,
             l.base = local[p].base, l.how # "cancelled",
             "evidence" \in Names(s) => verdict[e] = "success" /\ evidence[e] # "none"
      PROVE  Judged
  <2>1. \A x \in Names(s) : Names(Rest(p)) \subseteq After(x)
    BY <1>3, <1>6, AfterSettling
  <2>2. Fitting(p, Names(s) \cup Names(Rest(p)))
    BY <1>2, <1>6, SettlingFits
  <2>3. /\ "release" \in Names(s) \cup Names(Rest(p)) <=> "release" \in T(p)
        /\ "serve" \in T(p) => "serve" \in Names(s) \cup Names(Rest(p))
    BY <1>2, <1>6
  <2>4. ScriptInv' /\ Keeps(p) /\ local'[p] = l /\ T(p)' = Names(s) \cup Names(Rest(p))
    <3>1. /\ ScriptInv /\ p \in Procs /\ local[p].todo # <<>> /\ "judge" \notin Names(Rest(p))
          /\ up' = up /\ lock' = lock
      BY <1>1, <1>3, <1>4
    <3>2. QED BY ONLY <3>1, <1>2, <1>5, <1>6, <2>1, <2>2, <2>3, Prefixing
  <2>5. QED BY <2>4, <1>2, <1>3, <1>6
<1> HIDE DEF Judged
<1>7. CASE local[p].base \/ ~IsStale(e)
  <2> DEFINE s == Settlement(p)
             l == [local[p] EXCEPT !.todo = s \o Rest(p), !.how = "fresh"]
  <2>1. Become(p, l)
    BY <1>7 DEF Judge, GoAs
  <2>2. /\ Script(s) /\ Names(s) \subseteq {"reply", "save", "saveitem", "evidence"}
        /\ "save" \in Names(s)
        /\ "evidence" \in Names(s) => verdict[e] = "success" /\ evidence[e] # "none"
    BY SettlingScripts DEF Settlement
  <2> HIDE DEF s
  <2>3. s \o Rest(p) \in Seq(Steps)
    BY <2>2, <1>2, ConcatProperties DEF Script
  <2>4. /\ l \in Locals /\ l.todo = s \o Rest(p)
        /\ l.own = local[p].own /\ l.old = local[p].old /\ l.target = local[p].target
        /\ l.base = local[p].base /\ l.how # "cancelled"
    BY <2>3, <1>2 DEF Locals
  <2> HIDE DEF l
  <2>5. Judged
    BY <2>1, <2>2, <2>4, <1>6
  <2>6. QED BY <2>5, <1>2, <1>3, <1>4 DEF Judged
<1>8. CASE ~local[p].base /\ IsStale(e) /\ run[e] = "stale_finalized"
  <2>1. Next1(p)
    BY <1>8 DEF Judge
  <2>2. ScriptInv' /\ Keeps(p) /\ Same(p) /\ Pops(p, "judge")
    BY <2>1, <1>1, <1>4, Popping
  <2>3. "judge" \notin After("judge")
    BY DEF After, Resume, StartSteps, Making
  <2>4. QED BY <2>2, <2>3, <1>2, <1>3, <1>4 DEF Same, Pops
<1>9. CASE ~local[p].base /\ IsStale(e) /\ run[e] # "stale_finalized"
  <2> DEFINE l == [local[p] EXCEPT !.todo = <<"saveitem", "save">> \o Rest(p),
                                   !.how = "stale"]
  <2>1. Become(p, l)
    BY <1>9 DEF Judge, GoAs
  <2>2. <<"saveitem", "save">> \o Rest(p) \in Seq(Steps)
    BY <1>2, SettlingScripts, ConcatProperties DEF Script
  <2>3. /\ l \in Locals /\ l.todo = <<"saveitem", "save">> \o Rest(p)
        /\ l.own = local[p].own /\ l.old = local[p].old /\ l.target = local[p].target
        /\ l.base = local[p].base /\ l.how # "cancelled"
    BY <2>2, <1>2 DEF Locals
  <2> HIDE DEF l
  <2>4. Judged
    BY <2>1, <2>3, <1>6, SettlingScripts
  <2>5. QED BY <2>4, <1>2, <1>3, <1>4 DEF Judged
<1>10. QED BY <1>7, <1>8, <1>9

(* A step of p that only strikes itself off.                               *)
Popped(p, h) == ScriptInv' /\ Keeps(p) /\ Same(p) /\ Pops(p, h)

LEMMA PlainTurns ==
    ASSUME ScriptInv, NEW p \in Procs
    PROVE  /\ SaveFinal(p) => Popped(p, "save")
           /\ SaveItem(p) => Popped(p, "saveitem")
           /\ CheckEvidence(p) => Popped(p, "evidence")
           /\ Rewrite(p) => Popped(p, "rewrite")
           /\ RepairMessage(p) => Popped(p, "rmessage")
           /\ RepairEnqueue(p) => Popped(p, "renqueue")
           /\ RepairRun(p) => Popped(p, "rrun")
           /\ RepairDelete(p) => Popped(p, "rdelete")
           /\ BindAll(p) => Popped(p, "bindall")
           /\ Supersede(p) => Popped(p, "claim")
           /\ NewItem(p) => Popped(p, "item")
           /\ SaveRow(p) => Popped(p, "row")
           /\ AppendMessage(p) => Popped(p, "message")
           /\ Enqueue(p) => Popped(p, "enqueue")
           /\ SaveRun(p) => Popped(p, "run")
           /\ DeleteRow(p) => Popped(p, "unrow")
<1>1. ASSUME NEW h, h \notin {"release", "serve"}, At(p, h), Next1(p),
             up' = up, lock' = lock
      PROVE  Popped(p, h)
  BY <1>1, Popping DEF Popped
<1>2. SaveFinal(p) => Popped(p, "save") BY <1>1 DEF SaveFinal, Frame
<1>3. SaveItem(p) => Popped(p, "saveitem") BY <1>1 DEF SaveItem, Frame
<1>4. RepairMessage(p) => Popped(p, "rmessage") BY <1>1 DEF RepairMessage, Frame
<1>5. RepairEnqueue(p) => Popped(p, "renqueue") BY <1>1 DEF RepairEnqueue, Frame
<1>6. RepairRun(p) => Popped(p, "rrun") BY <1>1 DEF RepairRun, Frame
<1>7. RepairDelete(p) => Popped(p, "rdelete") BY <1>1 DEF RepairDelete, Frame
<1>8. BindAll(p) => Popped(p, "bindall") BY <1>1 DEF BindAll, Frame
<1>9. Supersede(p) => Popped(p, "claim") BY <1>1 DEF Supersede, Frame
<1>10. NewItem(p) => Popped(p, "item") BY <1>1 DEF NewItem, Frame
<1>11. SaveRow(p) => Popped(p, "row") BY <1>1 DEF SaveRow, Frame
<1>12. AppendMessage(p) => Popped(p, "message") BY <1>1 DEF AppendMessage, Frame
<1>13. Enqueue(p) => Popped(p, "enqueue") BY <1>1 DEF Enqueue, Frame
<1>14. SaveRun(p) => Popped(p, "run") BY <1>1 DEF SaveRun, Frame
<1>15. DeleteRow(p) => Popped(p, "unrow") BY <1>1 DEF DeleteRow, Frame
<1>16. CheckEvidence(p) => Popped(p, "evidence") BY <1>1 DEF CheckEvidence, Frame
<1>17. Rewrite(p) => Popped(p, "rewrite") BY <1>1 DEF Rewrite, Frame
<1>18. QED
  BY <1>2, <1>3, <1>4, <1>5, <1>6, <1>7, <1>8, <1>9, <1>10, <1>11, <1>12, <1>13,
     <1>14, <1>15, <1>16, <1>17

(* The reply is followed by the saving of the run, which is skipped when   *)
(* the run is settled already.                                             *)
LEMMA ReplyTurn ==
    ASSUME ScriptInv, NEW p \in Procs, Reply(p)
    PROVE  /\ ScriptInv' /\ Keeps(p) /\ Same(p) /\ "reply" \in T(p)
           /\ T(p)' \subseteq T(p) \ {"reply"}
           /\ T(p) \ {"reply", "save", "saveitem"} \subseteq T(p)'
<1>1. At(p, "reply") /\ local[p].todo # <<>> /\ up' = up /\ lock' = lock
  BY DEF Reply, At, Frame
<1>2. /\ "reply" \in T(p) /\ Script(Rest(p)) /\ local[p] \in Locals
      /\ T(p) = {"reply"} \cup Names(Rest(p)) /\ Names(Rest(p)) \subseteq After("reply")
      /\ Fitting(p, Names(Rest(p))) /\ Fitting(p, T(p))
  BY <1>1, Heading
<1>3. "reply" \notin Names(Rest(p)) /\ "save" \in Names(Rest(p))
  BY <1>2 DEF After, Resume, StartSteps, Making, Fitting, Complete
<1>4. CASE run[local[p].target] # "finalized"
  <2>1. Next1(p)
    BY <1>4 DEF Reply
  <2>2. ScriptInv' /\ Keeps(p) /\ Same(p) /\ Pops(p, "reply")
    BY <2>1, <1>1, Popping
  <2>3. QED BY <2>2, <1>2, <1>3 DEF Pops, After, Resume, StartSteps, Making
<1>5. CASE run[local[p].target] = "finalized"
  <2> DEFINE r == Rest(p)
             l == [local[p] EXCEPT !.todo = Tail(r)]
  <2>1. Become(p, l)
    BY <1>5 DEF Reply, Go
  <2>2. r # <<>>
    BY <1>3, ShortScripts
  <2>3. /\ Script(Tail(r)) /\ Head(r) \in Steps
        /\ Names(r) = {Head(r)} \cup Names(Tail(r)) /\ Names(Tail(r)) \subseteq After(Head(r))
    BY <1>2, <2>2, TailScript
  <2>4. Head(r) \in {"save", "saveitem"}
    <3>1. Head(r) = "save" \/ "save" \in After(Head(r))
      BY <1>3, <2>3
    <3>2. Head(r) \in After("reply") \ {"reply"}
      BY <1>2, <1>3, <2>3
    <3>3. Head(r) \in {"save", "saveitem", "evidence"} \cup Resume
      BY <3>2 DEF After
    <3>4. \A x \in {"evidence"} \cup Resume : "save" \notin After(x)
      BY DEF After, Resume, StartSteps, Making, SteerSteps, BootSteps, AfterRepair, AfterClaim
    <3>5. QED BY <3>1, <3>3, <3>4
  <2>5. Fitting(p, Names(Tail(r)))
    BY <1>2, <2>3, FittingPop
  <2>6. l \in Locals /\ l.todo = Tail(r)
    BY <1>2, <2>3 DEF Locals, Script
  <2>7. /\ l.own = local[p].own /\ l.old = local[p].old /\ l.target = local[p].target
        /\ l.how = local[p].how /\ l.base = local[p].base
    BY <1>2 DEF Locals
  <2>8. /\ "release" \in Names(Tail(r)) <=> "release" \in T(p)
        /\ "serve" \in T(p) => "serve" \in Names(Tail(r))
    BY <1>2, <2>3, <2>4
  <2>9. (p \in Clients => up = "up") /\ (p = Boot => up = "booting")
    BY <1>1, Awake
  <2> HIDE DEF l, r
  <2>10. ScriptInv' /\ Keeps(p) /\ local'[p] = l /\ T(p)' = Names(Tail(r))
    BY <1>1, <2>1, <2>3, <2>5, <2>6, <2>8, <2>9, Recast
  <2>11. QED BY <1>2, <1>3, <2>3, <2>4, <2>7, <2>10 DEF Same, r
<1>6. QED BY <1>4, <1>5

LEMMA SweepTurn ==
    ASSUME ScriptInv, NEW p \in Procs, Sweep(p)
    PROVE  \/ Popped(p, "sweep")
           \/ /\ ScriptInv' /\ Keeps(p) /\ "sweep" \in T(p)
              /\ T(p)' = {"reply", "save"} \cup T(p)
              /\ local'[p].own = local[p].own /\ local'[p].old = local[p].old
              /\ local'[p].base = local[p].base /\ local'[p].how = "cancelled"
              /\ local'[p].target \in Active
              /\ verdict[local'[p].target] = "cancelled"
              /\ T(p) \subseteq Resume
<1>1. At(p, "sweep") /\ local[p].todo # <<>> /\ up' = up /\ lock' = lock
  BY DEF Sweep, At, Frame
<1>2. /\ "sweep" \in T(p) /\ Script(local[p].todo) /\ local[p] \in Locals
      /\ Fitting(p, T(p)) /\ T(p) \subseteq {"sweep"} \cup After("sweep")
  BY <1>1, Heading
<1>3. T(p) \subseteq Resume
  BY <1>2, AfterJudged
<1>4. CASE {e \in Active : verdict[e] = "cancelled"} = {}
  <2>1. Next1(p)
    BY <1>4 DEF Sweep
  <2>2. QED BY <2>1, <1>1, Popping DEF Popped
<1>5. CASE {e \in Active : verdict[e] = "cancelled"} # {}
  <2>1. PICK e \in {e \in Active : verdict[e] = "cancelled"} :
            Become(p, [About(p, e, "cancelled") EXCEPT
                          !.todo = <<"reply", "save">> \o local[p].todo])
    BY <1>5 DEF Sweep
  <2> DEFINE s == <<"reply", "save">>
             r == local[p].todo
             a == About(p, e, "cancelled")
             l == [a EXCEPT !.todo = s \o r]
  <2>2. Become(p, l)
    BY <2>1
  <2>3. s \o r \in Seq(Steps) /\ e \in Events
    BY <1>2, <2>1, SettlingScripts, ConcatProperties DEF Script, Active
  <2>11. Script(s) /\ Names(s) = {"reply", "save"}
    BY SettlingScripts
  <2> HIDE DEF s
  <2>12. /\ a \in Locals /\ a.own = local[p].own /\ a.old = local[p].old
         /\ a.target = e /\ a.base = local[p].base /\ a.how = "cancelled"
    BY <1>2, <2>3 DEF About, Locals
  <2> HIDE DEF a
  <2>4. /\ l \in Locals /\ l.todo = s \o r
        /\ l.own = local[p].own /\ l.old = local[p].old /\ l.target = e
        /\ l.base = local[p].base /\ l.how = "cancelled"
    BY <2>3, <2>12 DEF Locals
  <2>13. Script(r) /\ T(p) = Names(r)
    BY <1>2 DEF T
  <2> HIDE DEF l, r
  <2>5. \A x \in Names(s) : Names(r) \subseteq After(x)
    BY <1>3, <2>11, <2>13, AfterSettling
  <2>6. /\ Fitting(p, Names(s) \cup Names(r))
        /\ "release" \in Names(s) \cup Names(r) <=> "release" \in T(p)
        /\ "serve" \in T(p) => "serve" \in Names(s) \cup Names(r)
    BY <1>2, <2>11, <2>13, SettlingFits
  <2>10. Names(s) \cup Names(r) = {"reply", "save"} \cup T(p)
    BY <2>11, <2>13
  <2>8. "judge" \notin Names(r)
    BY <1>3, <2>13 DEF Resume, StartSteps, Making
  <2>7. ScriptInv' /\ Keeps(p) /\ local'[p] = l /\ T(p)' = {"reply", "save"} \cup T(p)
    <3>1. /\ ScriptInv /\ p \in Procs /\ l \in Locals /\ Script(s) /\ Script(r)
          /\ l.todo = s \o r /\ Become(p, l) /\ up' = up /\ lock' = lock
          /\ local[p].todo # <<>>
      BY <1>1, <2>2, <2>4, <2>11, <2>13
    <3>2. ScriptInv' /\ Keeps(p) /\ local'[p] = l /\ T(p)' = Names(s) \cup Names(r)
      BY ONLY <3>1, <2>5, <2>6, <2>8, Prefixing
    <3>3. QED BY <3>2, <2>10
  <2>9. QED BY <2>1, <2>4, <2>7, <1>2, <1>3
<1>6. QED BY <1>4, <1>5

LEMMA CollectTurn ==
    ASSUME ScriptInv, NEW p \in Procs, Collect(p)
    PROVE  \/ Popped(p, "collect")
           \/ /\ ScriptInv' /\ Keeps(p) /\ "collect" \in T(p)
              /\ T(p)' = {"judge"} \cup T(p)
              /\ local'[p].own = local[p].own /\ local'[p].old = local[p].old
              /\ local'[p].base = local[p].base /\ local'[p].how = local[p].how
              /\ local'[p].target \in Events
              /\ run[local'[p].target] \in {"active", "stale"}
              /\ verdict[local'[p].target] # "none"
              /\ T(p) \subseteq Resume
<1>1. At(p, "collect") /\ local[p].todo # <<>> /\ up' = up /\ lock' = lock
  BY DEF Collect, At, Frame
<1>2. /\ "collect" \in T(p) /\ Script(local[p].todo) /\ local[p] \in Locals
      /\ Fitting(p, T(p)) /\ T(p) \subseteq {"collect"} \cup After("collect")
  BY <1>1, Heading
<1>3. T(p) \subseteq Resume
  BY <1>2, AfterJudged
<1> DEFINE kinds == IF local[p].base THEN {"active"} ELSE {"active", "stale"}
           due == {e \in Events : run[e] \in kinds /\ verdict[e] # "none"}
<1>4. CASE due = {}
  <2>1. Next1(p)
    BY <1>4 DEF Collect
  <2>2. QED BY <2>1, <1>1, Popping DEF Popped
<1>5. CASE due # {}
  <2>1. PICK e \in due : GoFor(p, <<"judge">> \o local[p].todo, e)
    BY <1>5 DEF Collect
  <2> DEFINE s == <<"judge">>
             r == local[p].todo
             l == [local[p] EXCEPT !.todo = s \o r, !.target = e]
  <2>2. Become(p, l)
    BY <2>1 DEF GoFor
  <2>3. s \o r \in Seq(Steps) /\ e \in Events
    BY <1>2, <2>1, SettlingScripts, ConcatProperties DEF Script
  <2>11. Script(s) /\ Names(s) = {"judge"}
    BY SettlingScripts
  <2> HIDE DEF s
  <2>4. /\ l \in Locals /\ l.todo = s \o r
        /\ l.own = local[p].own /\ l.old = local[p].old /\ l.target = e
        /\ l.base = local[p].base /\ l.how = local[p].how
    BY <2>3, <1>2 DEF Locals
  <2>13. Script(r) /\ T(p) = Names(r)
    BY <1>2 DEF T
  <2> HIDE DEF l, r
  <2>5. \A x \in Names(s) : Names(r) \subseteq After(x)
    BY <1>3, <2>11, <2>13, AfterSettling
  <2>6. /\ Fitting(p, Names(s) \cup Names(r))
        /\ "release" \in Names(s) \cup Names(r) <=> "release" \in T(p)
        /\ "serve" \in T(p) => "serve" \in Names(s) \cup Names(r)
    BY <1>2, <2>11, <2>13, SettlingFits
  <2>10. Names(s) \cup Names(r) = {"judge"} \cup T(p)
    BY <2>11, <2>13
  <2>8. "judge" \notin Names(r)
    BY <1>3, <2>13 DEF Resume, StartSteps, Making
  <2>7. ScriptInv' /\ Keeps(p) /\ local'[p] = l /\ T(p)' = {"judge"} \cup T(p)
    <3>1. /\ ScriptInv /\ p \in Procs /\ l \in Locals /\ Script(s) /\ Script(r)
          /\ l.todo = s \o r /\ Become(p, l) /\ up' = up /\ lock' = lock
          /\ local[p].todo # <<>>
      BY <1>1, <2>2, <2>4, <2>11, <2>13
    <3>2. ScriptInv' /\ Keeps(p) /\ local'[p] = l /\ T(p)' = Names(s) \cup Names(r)
      BY ONLY <3>1, <2>5, <2>6, <2>8, Prefixing
    <3>3. QED BY <3>2, <2>10
  <2>9. QED BY <2>1, <2>4, <2>7, <1>2, <1>3
<1>6. QED BY <1>4, <1>5

LEMMA RepairTurn ==
    ASSUME ScriptInv, ingress \subseteq Events, NEW p \in Procs, Repair(p)
    PROVE  \/ Popped(p, "repair") /\ ingress = {}
           \/ /\ ScriptInv' /\ Keeps(p) /\ "repair" \in T(p)
              /\ T(p)' = {"rmessage", "revent", "rrun", "rdelete"} \cup T(p)
              /\ local'[p].own = local[p].own /\ local'[p].old = local[p].old
              /\ local'[p].base = local[p].base /\ local'[p].how = local[p].how
              /\ local'[p].target \in ingress
              /\ T(p) \subseteq {"repair"} \cup AfterRepair
              /\ "judge" \in T(p) => "supersede" \in T(p)
<1>1. At(p, "repair") /\ local[p].todo # <<>> /\ up' = up /\ lock' = lock
  BY DEF Repair, At, Frame
<1>2. /\ "repair" \in T(p) /\ Script(local[p].todo) /\ local[p] \in Locals
      /\ Fitting(p, T(p)) /\ T(p) \subseteq {"repair"} \cup After("repair")
  BY <1>1, Heading
<1>3. /\ T(p) \subseteq {"repair"} \cup AfterRepair
      /\ "judge" \in T(p) => "supersede" \in T(p)
  <2>1. T(p) \subseteq {"repair"} \cup AfterRepair
    BY <1>2 DEF After
  <2>2. QED BY <2>1, <1>1, Heading
<1>4. CASE ingress = {}
  <2>1. Next1(p)
    BY <1>4 DEF Repair
  <2>2. QED BY <2>1, <1>1, <1>4, Popping DEF Popped
<1>5. CASE ingress # {}
  <2>1. PICK e \in ingress : GoFor(p, RepairRow \o local[p].todo, e)
    BY <1>5 DEF Repair
  <2> DEFINE r == local[p].todo
             l == [local[p] EXCEPT !.todo = RepairRow \o r, !.target = e]
  <2>2. Become(p, l)
    BY <2>1 DEF GoFor
  <2>3. Script(RepairRow) /\ Names(RepairRow) = {"rmessage", "revent", "rrun", "rdelete"}
    BY Scripts
  <2>4. RepairRow \o r \in Seq(Steps)
    BY <1>2, <2>3, ConcatProperties DEF Script
  <2>5. /\ e \in Events \cup {NoEvent} => l \in Locals
        /\ l.todo = RepairRow \o r
        /\ l.own = local[p].own /\ l.old = local[p].old /\ l.target = e
        /\ l.base = local[p].base /\ l.how = local[p].how
    BY <2>4, <1>2 DEF Locals
  <2>6. Script(r) /\ T(p) = Names(r)
    BY <1>2 DEF T
  <2> HIDE DEF l, r
  <2>7. \A x \in Names(RepairRow) : Names(r) \subseteq After(x)
    BY <1>3, <2>3, <2>6 DEF After
  <2>8. /\ Fitting(p, Names(RepairRow) \cup Names(r))
        /\ "release" \in Names(RepairRow) \cup Names(r) <=> "release" \in T(p)
        /\ "serve" \in T(p) => "serve" \in Names(RepairRow) \cup Names(r)
    <3>1. Names(RepairRow) \in SUBSET Mending
      BY <2>3 DEF Mending
    <3>2. QED BY <3>1, <1>2, <2>3, <2>6, MendingFits
  <2>9. /\ ScriptInv /\ p \in Procs /\ Script(RepairRow) /\ Script(r)
        /\ l.todo = RepairRow \o r /\ Become(p, l) /\ up' = up /\ lock' = lock
        /\ local[p].todo # <<>>
    BY <1>1, <2>2, <2>3, <2>5, <2>6
  <2>10. l \in Locals /\ r # <<>> /\ Head(r) # "judge"
    BY <1>1, <2>1, <2>5 DEF At, r
  <2>11. /\ ScriptInv' /\ Keeps(p) /\ local'[p] = l
         /\ T(p)' = Names(RepairRow) \cup Names(r)
    BY ONLY <2>7, <2>8, <2>9, <2>10, Prefixing
  <2>12. QED BY <2>11, <2>1, <2>3, <2>5, <2>6, <1>2, <1>3
<1>6. QED BY <1>4, <1>5

LEMMA RepairEventTurn ==
    ASSUME ScriptInv, NEW p \in Procs, RepairEvent(p)
    PROVE  /\ ScriptInv' /\ Keeps(p) /\ Same(p) /\ "revent" \in T(p)
           /\ T(p)' = (T(p) \ {"revent"}) \cup
                 (IF status[local[p].target] = "none" THEN {"renqueue"} ELSE {})
           /\ T(p) \cap {"rmessage", "renqueue"} = {}
<1> DEFINE missing == status[local[p].target] = "none"
<1>1. At(p, "revent") /\ local[p].todo # <<>> /\ up' = up /\ lock' = lock
  BY DEF RepairEvent, At, Frame
<1>2. /\ "revent" \in T(p) /\ Script(Rest(p)) /\ local[p] \in Locals
      /\ T(p) = {"revent"} \cup Names(Rest(p)) /\ Names(Rest(p)) \subseteq After("revent")
      /\ Fitting(p, Names(Rest(p))) /\ Fitting(p, T(p))
  BY <1>1, Heading
<1>3. Names(Rest(p)) \cap {"revent", "rmessage", "renqueue"} = {}
  BY <1>2 DEF After, AfterRepair, Making, SteerSteps, BootSteps
<1>4. "repair" \in Names(Rest(p)) /\ Rest(p) # <<>> /\ Head(Rest(p)) # "judge"
  <2>1. "repair" \in Names(Rest(p))
    BY <1>2 DEF Fitting, Complete, Mending
  <2>2. Rest(p) # <<>>
    BY <2>1, ShortScripts
  <2>3. QED BY <2>1, <2>2, <1>1, Heading
<1>5. CASE missing
  <2> DEFINE s == <<"renqueue">>
             r == Rest(p)
             l == [local[p] EXCEPT !.todo = s \o r]
  <2>1. Become(p, l)
    BY <1>5 DEF RepairEvent, Go
  <2>2. Script(s) /\ Names(s) = {"renqueue"}
    BY SettlingScripts
  <2> HIDE DEF s
  <2>3. s \o r \in Seq(Steps)
    BY <1>2, <2>2, ConcatProperties DEF Script
  <2>4. /\ l \in Locals /\ l.todo = s \o r
        /\ l.own = local[p].own /\ l.old = local[p].old /\ l.target = local[p].target
        /\ l.base = local[p].base /\ l.how = local[p].how
    BY <2>3, <1>2 DEF Locals
  <2>5. Script(r) /\ T(p) = {"revent"} \cup Names(r) /\ "revent" \notin Names(r)
    BY <1>2, <1>3
  <2>6. /\ "repair" \in Names(r) /\ Fitting(p, Names(r)) /\ Names(r) \subseteq After("revent")
        /\ r # <<>> /\ Head(r) # "judge"
    BY <1>2, <1>4
  <2> HIDE DEF l, r
  <2>7. \A x \in Names(s) : Names(r) \subseteq After(x)
    BY <2>2, <2>6 DEF After
  <2>8. /\ Fitting(p, Names(s) \cup Names(r))
        /\ "release" \in Names(s) \cup Names(r) <=> "release" \in T(p)
        /\ "serve" \in T(p) => "serve" \in Names(s) \cup Names(r)
    <3>1. Names(s) \in SUBSET Mending
      BY <2>2 DEF Mending
    <3>2. QED BY <3>1, <2>2, <2>5, <2>6, MendingFits
  <2>9. /\ ScriptInv /\ p \in Procs /\ l \in Locals /\ Script(s) /\ Script(r)
        /\ l.todo = s \o r /\ Become(p, l) /\ up' = up /\ lock' = lock
        /\ local[p].todo # <<>>
    BY <1>1, <2>1, <2>2, <2>4, <2>5
  <2>10. ScriptInv' /\ Keeps(p) /\ local'[p] = l /\ T(p)' = Names(s) \cup Names(r)
    BY ONLY <2>6, <2>7, <2>8, <2>9, Prefixing
  <2>11. Same(p)
    BY <2>4, <2>10 DEF Same
  <2>12. QED BY <2>10, <2>11, <2>2, <2>5, <1>2, <1>3, <1>5
<1>6. CASE ~missing
  <2>1. Next1(p)
    <3>1. <<>> \o Rest(p) = Rest(p)
      BY <1>2, ConcatEmptySeq DEF Script
    <3>2. Go(p, <<>> \o Rest(p))
      BY <1>6 DEF RepairEvent
    <3>3. QED BY <3>1, <3>2 DEF Next1
  <2>2. ScriptInv' /\ Keeps(p) /\ Same(p) /\ Pops(p, "revent")
    BY <2>1, <1>1, Popping
  <2>3. {"revent", "renqueue", "rmessage"} \cap After("revent") = {}
    BY DEF After, AfterRepair, Making, SteerSteps, BootSteps
  <2>4. QED BY <2>2, <2>3, <1>2, <1>3, <1>6 DEF Pops
<1>7. QED BY <1>5, <1>6

(* A superseded event that is closed is what is judged next.               *)
LEMMA CloseOldTurn ==
    ASSUME ScriptInv, NEW p \in Procs, CloseOld(p), local[p].old \in Events
    PROVE  \/ /\ ScriptInv' /\ Keeps(p) /\ Pops(p, "supersede")
              /\ local'[p].own = local[p].own /\ local'[p].old = local[p].old
              /\ local'[p].base = local[p].base /\ local'[p].how = local[p].how
              /\ local'[p].target = local[p].old
              /\ up' = up /\ lock' = lock /\ UNCHANGED ledger
           \/ /\ Raise(p) /\ local[p].todo # <<>> /\ "supersede" \in T(p)
              /\ status[local[p].old] = "processing" /\ verdict[local[p].old] # "none"
<1> DEFINE e == local[p].old
<1>1. At(p, "supersede") /\ local[p].todo # <<>>
  BY DEF CloseOld, At
<1>2. /\ "supersede" \in T(p) /\ Script(Rest(p)) /\ local[p] \in Locals
      /\ T(p) = {"supersede"} \cup Names(Rest(p)) /\ Names(Rest(p)) \subseteq After("supersede")
      /\ Fitting(p, Names(Rest(p)))
  BY <1>1, Heading
<1>3. CASE status[e] = "processing" /\ verdict[e] # "none"
  BY <1>1, <1>2, <1>3 DEF CloseOld
<1>4. CASE ~(status[e] = "processing" /\ verdict[e] # "none")
  <2>1. GoFor(p, Rest(p), e) /\ up' = up /\ lock' = lock /\ UNCHANGED ledger
    BY <1>4 DEF CloseOld, Frame
  <2> DEFINE l == [local[p] EXCEPT !.todo = Rest(p), !.target = e]
  <2>2. Become(p, l)
    BY <2>1 DEF GoFor
  <2>3. /\ l \in Locals /\ l.todo = Rest(p)
        /\ l.own = local[p].own /\ l.old = local[p].old /\ l.target = e
        /\ l.base = local[p].base /\ l.how = local[p].how
    BY <1>2 DEF Locals, Script
  <2> HIDE DEF l
  <2>4. (p \in Clients => up = "up") /\ (p = Boot => up = "booting")
    BY <1>1, Awake
  <2>5. /\ Fitting(p, Names(l.todo)) /\ Script(l.todo)
        /\ "release" \in Names(l.todo) <=> "release" \in T(p)
        /\ "serve" \in T(p) => "serve" \in Names(l.todo)
    BY <1>2, <2>3
  <2>6. ScriptInv /\ p \in Procs /\ l \in Locals /\ Become(p, l) /\ up' = up /\ lock' = lock
    BY <2>1, <2>2, <2>3
  <2>7. ScriptInv' /\ Keeps(p) /\ local'[p] = l /\ T(p)' = Names(l.todo)
    BY ONLY <2>4, <2>5, <2>6, Recast
  <2>8. Pops(p, "supersede")
    BY <1>2, <2>3, <2>7 DEF Pops
  <2>9. QED BY <2>1, <2>3, <2>7, <2>8
<1>5. QED BY <1>3, <1>4

(* A connection goes on with a script of its own, outside the cycle lock.  *)
LEMMA ClientRecast ==
    ASSUME ScriptInv, NEW c \in Clients, NEW l \in Locals, Script(l.todo),
           Complete(Names(l.todo)), OfClient(Names(l.todo)), Become(c, l),
           up' = up, lock' = lock, up = "up",
           "release" \notin Names(l.todo) \cup T(c)
    PROVE  ScriptInv' /\ Keeps(c) /\ local'[c] = l /\ T(c)' = Names(l.todo)
<1>1. c \in Procs /\ c # Boot
  BY BootAssumption DEF Procs
<1>2. "serve" \notin T(c)
  BY <1>1 DEF ScriptInv, Fitting, OfClient
<1>3. Fitting(c, Names(l.todo))
  BY <1>1 DEF Fitting
<1>4. QED BY <1>1, <1>2, <1>3, Recast

(* What a connection is about to do is done by a script of its own.        *)
LEMMA LookTurn ==
    ASSUME ScriptInv, NEW c \in Clients, Look(c)
    PROVE  /\ ScriptInv' /\ Keeps(c) /\ T(c) = {"look"}
           /\ local'[c].own = local[c].own /\ local'[c].old = local[c].old
           /\ local'[c].base = local[c].base /\ local'[c].target = local[c].target
           /\ \/ T(c)' = {"result"} /\ local'[c].how = local[c].how
              \/ T(c)' = {"project"} /\ run[local[c].target] = "finalized"
              \/ /\ T(c)' = {"reply", "save", "project"} /\ local'[c].how = "cancelled"
                 /\ verdict[local[c].target] = "cancelled"
<1> DEFINE e == local[c].target
<1>1. c \in Procs /\ At(c, "look") /\ local[c].todo # <<>> /\ up' = up /\ lock' = lock
  BY DEF Look, At, Frame, Procs
<1>2. local[c] \in Locals /\ T(c) = {"look"}
  BY <1>1, Heading DEF After
<1>3. up = "up"
  BY <1>1, Awake
<1>4. CASE verdict[e] # "cancelled"
  <2> DEFINE l == [local[c] EXCEPT !.todo = <<"result">>]
  <2>1. Become(c, l)
    BY <1>4 DEF Look, Go
  <2>2. Script(<<"result">>) /\ Names(<<"result">>) = {"result"}
    BY ShortScripts DEF Steps
  <2>3. l \in Locals /\ l.todo = <<"result">>
    BY <1>2, <2>2 DEF Locals, Script
  <2>4. /\ l.own = local[c].own /\ l.old = local[c].old /\ l.target = e
        /\ l.base = local[c].base /\ l.how = local[c].how
    BY <1>2 DEF Locals
  <2> HIDE DEF l
  <2>5. /\ Script(l.todo) /\ Complete(Names(l.todo)) /\ OfClient(Names(l.todo))
        /\ "release" \notin Names(l.todo) \cup T(c)
    BY <1>2, <2>2, <2>3 DEF Complete, OfClient, Mending
  <2>6. ScriptInv' /\ Keeps(c) /\ local'[c] = l /\ T(c)' = Names(l.todo)
    BY <1>1, <1>3, <2>1, <2>3, <2>5, ClientRecast
  <2>7. QED BY <1>2, <2>2, <2>3, <2>4, <2>6
<1>5. CASE verdict[e] = "cancelled"
  <2> DEFINE s == IF run[e] = "finalized" THEN <<"project">>
                  ELSE <<"reply", "save", "project">>
             l == [local[c] EXCEPT !.todo = s, !.how = "cancelled"]
  <2>1. Become(c, l)
    BY <1>5 DEF Look, GoAs
  <2>2. /\ Script(s)
        /\ \/ Names(s) = {"project"} /\ run[e] = "finalized"
           \/ Names(s) = {"reply", "save", "project"}
    BY SettlingScripts
  <2> HIDE DEF s
  <2>3. l \in Locals /\ l.todo = s
    BY <1>2, <2>2 DEF Locals, Script
  <2>4. /\ l.own = local[c].own /\ l.old = local[c].old /\ l.target = e
        /\ l.base = local[c].base /\ l.how = "cancelled"
    BY <1>2 DEF Locals
  <2> HIDE DEF l
  <2>5. /\ Script(l.todo) /\ Complete(Names(l.todo)) /\ OfClient(Names(l.todo))
        /\ "release" \notin Names(l.todo) \cup T(c)
    BY <1>2, <2>2, <2>3 DEF Complete, OfClient, Mending
  <2>6. ScriptInv' /\ Keeps(c) /\ local'[c] = l /\ T(c)' = Names(l.todo)
    BY <1>1, <1>3, <2>1, <2>3, <2>5, ClientRecast
  <2>7. QED BY <1>2, <1>5, <2>2, <2>3, <2>4, <2>6
<1>6. QED BY <1>4, <1>5

LEMMA ResultTurn ==
    ASSUME ScriptInv, NEW c \in Clients, Result(c)
    PROVE  /\ ScriptInv' /\ Keeps(c) /\ Same(c) /\ T(c) = {"result"}
           /\ \/ T(c)' = {"project"} /\ run[local[c].target] = "finalized"
              \/ T(c)' = {"judge", "project"} /\ verdict[local[c].target] # "none"
              \/ T(c)' = {}
<1> DEFINE s == IF run[local[c].target] = "finalized" THEN <<"project">>
                ELSE IF verdict[local[c].target] # "none" THEN <<"judge", "project">>
                ELSE <<>>
           l == [local[c] EXCEPT !.todo = s]
<1>1. c \in Procs /\ At(c, "result") /\ local[c].todo # <<>> /\ up' = up /\ lock' = lock
  BY DEF Result, At, Frame, Procs
<1>2. local[c] \in Locals /\ T(c) = {"result"}
  BY <1>1, Heading DEF After
<1>3. up = "up"
  BY <1>1, Awake
<1>4. Become(c, l)
  BY DEF Result, Go
<1>5. /\ Script(s)
      /\ \/ Names(s) = {"project"} /\ run[local[c].target] = "finalized"
         \/ Names(s) = {"judge", "project"} /\ verdict[local[c].target] # "none"
         \/ Names(s) = {}
  BY ShortScripts, SettlingScripts
<1> HIDE DEF s
<1>6. l \in Locals /\ l.todo = s
  BY <1>2, <1>5 DEF Locals, Script
<1>7. /\ l.own = local[c].own /\ l.old = local[c].old /\ l.target = local[c].target
      /\ l.how = local[c].how /\ l.base = local[c].base
  BY <1>2 DEF Locals
<1> HIDE DEF l
<1>8. /\ Script(l.todo) /\ Complete(Names(l.todo)) /\ OfClient(Names(l.todo))
      /\ "release" \notin Names(l.todo) \cup T(c)
  BY <1>2, <1>5, <1>6 DEF Complete, OfClient, Mending
<1>9. ScriptInv' /\ Keeps(c) /\ local'[c] = l /\ T(c)' = Names(l.todo)
  BY <1>1, <1>3, <1>4, <1>6, <1>8, ClientRecast
<1>10. QED BY <1>2, <1>5, <1>6, <1>7, <1>9 DEF Same

LEMMA ProjectTurn ==
    ASSUME ScriptInv, NEW c \in Clients, Project(c)
    PROVE  /\ ScriptInv' /\ Keeps(c) /\ Same(c) /\ T(c) = {"project"}
           /\ \/ T(c)' = {"rewrite"} /\ Summarised(local[c].target)
              \/ T(c)' = {}
           /\ UNCHANGED <<store, ledger, up, lock, crashes>>
<1> DEFINE s == IF Summarised(local[c].target) THEN <<"rewrite">> ELSE <<>>
           l == [local[c] EXCEPT !.todo = s]
<1>1. /\ c \in Procs /\ At(c, "project") /\ local[c].todo # <<>>
      /\ up' = up /\ lock' = lock /\ UNCHANGED <<store, ledger, up, lock, crashes>>
  BY DEF Project, At, Frame, Procs
<1>2. local[c] \in Locals /\ T(c) = {"project"}
  BY <1>1, Heading DEF After
<1>3. up = "up"
  BY <1>1, Awake
<1>4. Become(c, l)
  BY DEF Project, Go
<1>5. /\ Script(s)
      /\ \/ Names(s) = {"rewrite"} /\ Summarised(local[c].target)
         \/ Names(s) = {}
  BY ShortScripts, SettlingScripts
<1> HIDE DEF s
<1>6. l \in Locals /\ l.todo = s
  BY <1>2, <1>5 DEF Locals, Script
<1>7. /\ l.own = local[c].own /\ l.old = local[c].old /\ l.target = local[c].target
      /\ l.how = local[c].how /\ l.base = local[c].base
  BY <1>2 DEF Locals
<1> HIDE DEF l
<1>8. /\ Script(l.todo) /\ Complete(Names(l.todo)) /\ OfClient(Names(l.todo))
      /\ "release" \notin Names(l.todo) \cup T(c)
  BY <1>2, <1>5, <1>6 DEF Complete, OfClient, Mending
<1>9. ScriptInv' /\ Keeps(c) /\ local'[c] = l /\ T(c)' = Names(l.todo)
  BY <1>1, <1>3, <1>4, <1>6, <1>8, ClientRecast
<1>10. QED BY <1>1, <1>2, <1>5, <1>6, <1>7, <1>9 DEF Same

LEMMA OutcomesTurn ==
    ASSUME ScriptInv, NEW c \in Clients, Outcomes(c)
    PROVE  /\ T(c) = {"outcomes"} /\ UNCHANGED <<store, ledger, up, lock, crashes>>
           /\ \/ Popped(c, "outcomes")
              \/ /\ ScriptInv' /\ Keeps(c) /\ T(c)' = {"rewrite", "outcomes"}
                 /\ local'[c].own = local[c].own /\ local'[c].old = local[c].old
                 /\ local'[c].base = local[c].base /\ local'[c].how = local[c].how
                 /\ local'[c].target \in Unsaid
<1>1. /\ c \in Procs /\ At(c, "outcomes") /\ local[c].todo # <<>>
      /\ up' = up /\ lock' = lock /\ UNCHANGED <<store, ledger, up, lock, crashes>>
  BY DEF Outcomes, At, Frame, Procs
<1>2. /\ local[c] \in Locals /\ T(c) = {"outcomes"} /\ Script(local[c].todo)
      /\ Fitting(c, T(c))
  BY <1>1, Heading DEF After
<1>3. up = "up"
  BY <1>1, Awake
<1>4. CASE Unsaid = {}
  <2>1. Next1(c)
    BY <1>4 DEF Outcomes
  <2>2. QED BY <2>1, <1>1, <1>2, Popping DEF Popped
<1>5. CASE Unsaid # {}
  <2>1. PICK e \in Unsaid : GoFor(c, <<"rewrite">> \o local[c].todo, e)
    BY <1>5 DEF Outcomes
  <2> DEFINE s == <<"rewrite">>
             r == local[c].todo
             l == [local[c] EXCEPT !.todo = s \o r, !.target = e]
  <2>2. Become(c, l)
    BY <2>1 DEF GoFor
  <2>3. s \o r \in Seq(Steps) /\ e \in Events
    BY <1>2, <2>1, SettlingScripts, ConcatProperties DEF Script, Unsaid
  <2>4. Script(s) /\ Names(s) = {"rewrite"}
    BY SettlingScripts
  <2> HIDE DEF s
  <2>5. /\ l \in Locals /\ l.todo = s \o r
        /\ l.own = local[c].own /\ l.old = local[c].old /\ l.target = e
        /\ l.base = local[c].base /\ l.how = local[c].how
    BY <2>3, <1>2 DEF Locals
  <2>6. Script(r) /\ Names(r) = {"outcomes"}
    BY <1>2 DEF T
  <2> HIDE DEF l, r
  <2>7. \A x \in Names(s) : Names(r) \subseteq After(x)
    BY <2>4, <2>6 DEF After
  <2>8. Script(s \o r) /\ Names(s \o r) = {"rewrite", "outcomes"}
    BY <2>4, <2>6, <2>7, JoinScripts
  <2>9. /\ Script(l.todo) /\ Complete(Names(l.todo)) /\ OfClient(Names(l.todo))
        /\ "release" \notin Names(l.todo) \cup T(c)
    BY <1>2, <2>5, <2>8 DEF Complete, OfClient, Mending
  <2>10. ScriptInv' /\ Keeps(c) /\ local'[c] = l /\ T(c)' = Names(l.todo)
    BY <1>1, <1>3, <2>2, <2>5, <2>9, ClientRecast
  <2>11. QED BY <1>1, <1>2, <2>1, <2>5, <2>8, <2>10
<1>6. QED BY <1>4, <1>5

LEMMA StopTurn ==
    ASSUME ScriptInv, NEW c \in Clients, Stop(c)
    PROVE  \/ Popped(c, "stop") /\ UNCHANGED <<store, ledger, up, lock>>
           \/ Raise(c) /\ local[c].todo # <<>>
<1>1. c \in Procs /\ At(c, "stop") /\ local[c].todo # <<>>
  BY DEF Stop, At, Procs
<1>2. CASE Raise(c)
  BY <1>1, <1>2
<1>3. CASE ~Raise(c)
  <2>1. Next1(c) /\ Frame /\ UNCHANGED <<store, ledger>>
    BY <1>3 DEF Stop
  <2>2. Popped(c, "stop")
    BY <1>1, <2>1, Popping DEF Popped, Frame
  <2>3. QED BY <2>1, <2>2 DEF Frame
<1>4. QED BY <1>2, <1>3

LEMMA AskTurn ==
    ASSUME ScriptInv, NEW c \in Clients, Ask(c)
    PROVE  \/ /\ Popped(c, "ask") /\ UNCHANGED <<status, verdict, ledger, up, lock>>
              /\ stopReq' \in {stopReq, stopReq \cup {local[c].target}}
              /\ status[local[c].target] = "done" => stopReq' = stopReq
           \/ Raise(c) /\ local[c].todo # <<>>
<1> DEFINE e == local[c].target
<1>1. c \in Procs /\ At(c, "ask") /\ local[c].todo # <<>>
  BY DEF Ask, At, Procs
<1>2. CASE status[e] = "done" /\ verdict[e] # "cancelled"
  BY <1>1, <1>2 DEF Ask
<1>3. CASE ~(status[e] = "done" /\ verdict[e] # "cancelled")
  <2>1. /\ stopReq' = IF status[e] = "done" THEN stopReq ELSE stopReq \cup {e}
        /\ Next1(c) /\ Frame /\ UNCHANGED <<status, verdict, ledger>>
    BY <1>3 DEF Ask
  <2>2. Popped(c, "ask")
    BY <1>1, <2>1, Popping DEF Popped, Frame
  <2>3. QED BY <2>1, <2>2 DEF Frame
<1>4. QED BY <1>2, <1>3

(* A call of a connection that does not hold the cycle lock ends.          *)
LEMMA IdleTurn ==
    ASSUME ScriptInv, NEW c \in Clients, local' = [local EXCEPT ![c] = Idle],
           up' = up, lock' = lock, up = "up", "release" \notin T(c)
    PROVE  ScriptInv' /\ Keeps(c) /\ local'[c] = Idle /\ T(c)' = {}
<1>1. Idle \in Locals /\ Script(Idle.todo) /\ Names(Idle.todo) = {} /\ Idle.todo = <<>>
  BY ShortScripts DEF Idle, Locals, Script
<1>2. Complete(Names(Idle.todo)) /\ OfClient(Names(Idle.todo))
  BY <1>1 DEF Complete, OfClient
<1>3. Become(c, Idle)
  BY DEF Become
<1>4. "release" \notin Names(Idle.todo) \cup T(c)
  BY <1>1
<1>5. ScriptInv' /\ Keeps(c) /\ local'[c] = Idle /\ T(c)' = Names(Idle.todo)
  BY <1>1, <1>2, <1>3, <1>4, ClientRecast
<1>6. QED BY <1>1, <1>5

LEMMA RouteTurn ==
    ASSUME ScriptInv, NEW c \in Clients, Route(c)
    PROVE  /\ ScriptInv' /\ Keeps(c) /\ T(c) = {"route"}
           /\ local'[c].own = local[c].own /\ local'[c].target = local[c].target
           /\ local'[c].base = local[c].base /\ local'[c].how = local[c].how
           /\ \/ /\ T(c)' = StartSteps \ {"wait"} /\ local'[c].old = local[c].old
                 /\ MayStart(c) /\ Active = {}
              \/ T(c)' = {"await"} /\ local'[c].old \in Active
<1>1. c \in Procs /\ At(c, "route") /\ local[c].todo # <<>> /\ up' = up /\ lock' = lock
  BY DEF Route, At, Frame, Procs
<1>2. local[c] \in Locals /\ T(c) = {"route"}
  BY <1>1, Heading DEF After
<1>3. up = "up"
  BY <1>1, Awake
<1>4. CASE Active = {}
  <2>1. MayStart(c) /\ Go(c, StartScript)
    BY <1>4 DEF Route
  <2> DEFINE l == [local[c] EXCEPT !.todo = StartScript]
  <2>2. Become(c, l)
    BY <2>1 DEF Go
  <2>3. Script(StartScript) /\ Names(StartScript) = StartSteps \ {"wait"}
    BY Scripts
  <2>4. /\ l \in Locals /\ l.todo = StartScript
        /\ l.own = local[c].own /\ l.old = local[c].old /\ l.target = local[c].target
        /\ l.base = local[c].base /\ l.how = local[c].how
    BY <1>2, <2>3 DEF Locals, Script
  <2> HIDE DEF l
  <2>5. /\ Script(l.todo) /\ Complete(Names(l.todo)) /\ OfClient(Names(l.todo))
        /\ "release" \notin Names(l.todo) \cup T(c)
    BY <1>2, <2>3, <2>4 DEF Complete, OfClient, Mending, StartSteps, Making
  <2>6. ScriptInv' /\ Keeps(c) /\ local'[c] = l /\ T(c)' = Names(l.todo)
    BY <1>1, <1>3, <2>2, <2>4, <2>5, ClientRecast
  <2>7. QED BY <1>2, <1>4, <2>1, <2>3, <2>4, <2>6
<1>5. CASE Active # {}
  <2>1. PICK e \in Active : GoSteer(c, <<"await">>, e)
    BY <1>5 DEF Route
  <2> DEFINE l == [local[c] EXCEPT !.todo = <<"await">>, !.old = e]
  <2>2. Become(c, l)
    BY <2>1 DEF GoSteer
  <2>3. Script(<<"await">>) /\ Names(<<"await">>) = {"await"} /\ e \in Events
    BY <2>1, ShortScripts DEF Steps, Active
  <2>4. /\ l \in Locals /\ l.todo = <<"await">>
        /\ l.own = local[c].own /\ l.old = e /\ l.target = local[c].target
        /\ l.base = local[c].base /\ l.how = local[c].how
    BY <1>2, <2>3 DEF Locals, Script
  <2> HIDE DEF l
  <2>5. /\ Script(l.todo) /\ Complete(Names(l.todo)) /\ OfClient(Names(l.todo))
        /\ "release" \notin Names(l.todo) \cup T(c)
    BY <1>2, <2>3, <2>4 DEF Complete, OfClient, Mending
  <2>6. ScriptInv' /\ Keeps(c) /\ local'[c] = l /\ T(c)' = Names(l.todo)
    BY <1>1, <1>3, <2>2, <2>4, <2>5, ClientRecast
  <2>7. QED BY <1>2, <2>1, <2>3, <2>4, <2>6
<1>6. QED BY <1>4, <1>5

LEMMA CheckTurn ==
    ASSUME ScriptInv, NEW c \in Clients, Check(c)
    PROVE  \/ Popped(c, "check") /\ Active = {}
           \/ /\ ScriptInv' /\ Keeps(c) /\ "check" \in T(c) /\ "row" \in T(c)
              /\ local'[c] = Idle /\ T(c)' = {} /\ Active # {}
<1>1. c \in Procs /\ At(c, "check") /\ local[c].todo # <<>> /\ up' = up /\ lock' = lock
  BY DEF Check, At, Frame, Procs
<1>2. CASE Active = {}
  <2>1. Next1(c)
    BY <1>2 DEF Check
  <2>2. QED BY <1>1, <1>2, <2>1, Popping DEF Popped
<1>3. CASE Active # {}
  <2>1. local' = [local EXCEPT ![c] = Idle]
    BY <1>3 DEF Check
  <2>2. "check" \in T(c) /\ Fitting(c, T(c))
    BY <1>1, Heading
  <2>3. "release" \notin T(c) /\ "row" \in T(c)
    BY <2>2 DEF Fitting, Complete
  <2>4. up = "up"
    BY <1>1, Awake
  <2>5. QED BY <1>1, <1>3, <2>1, <2>2, <2>3, <2>4, IdleTurn
<1>4. QED BY <1>2, <1>3

LEMMA BindTurn ==
    ASSUME ScriptInv, NEW c \in Clients, Bind(c)
    PROVE  /\ ScriptInv' /\ Keeps(c) /\ T(c) = {"bind"}
           /\ local'[c] = Idle /\ T(c)' = {}
<1>1. c \in Procs /\ At(c, "bind") /\ local[c].todo # <<>> /\ up' = up /\ lock' = lock
  BY DEF Bind, At, Frame, Procs
<1>2. T(c) = {"bind"}
  BY <1>1, Heading DEF After
<1>3. up = "up" /\ local' = [local EXCEPT ![c] = Idle]
  BY <1>1, Awake DEF Bind
<1>4. QED BY <1>1, <1>2, <1>3, IdleTurn

LEMMA AwaitTurn ==
    ASSUME ScriptInv, NEW c \in Clients, Await(c)
    PROVE  /\ ScriptInv' /\ Keeps(c) /\ T(c) = {"wait"} /\ T(c)' = {"judge", "collect"}
           /\ local'[c].own = local[c].own /\ local'[c].old = local[c].old
           /\ local'[c].target = local[c].own /\ local'[c].base = local[c].base
           /\ local'[c].how = local[c].how /\ verdict[local[c].own] # "none"
<1>1. c \in Procs /\ At(c, "wait") /\ local[c].todo # <<>> /\ up' = up /\ lock' = lock
  BY DEF Await, At, Frame, Procs
<1>2. local[c] \in Locals /\ T(c) = {"wait"}
  BY <1>1, Heading DEF After
<1>3. up = "up"
  BY <1>1, Awake
<1> DEFINE l == [local[c] EXCEPT !.todo = <<"judge", "collect">>, !.target = local[c].own]
<1>4. Become(c, l) /\ verdict[local[c].own] # "none"
  BY DEF Await, GoFor
<1>5. Script(<<"judge", "collect">>) /\ Names(<<"judge", "collect">>) = {"judge", "collect"}
  <2>1. <<"judge", "collect">> \in Seq(Steps)
    BY DEF Steps
  <2>2. Ordered(<<"judge", "collect">>)
    BY DEF Ordered, After, Resume, StartSteps
  <2>3. QED BY <2>1, <2>2 DEF Script, Names
<1>6. l \in Locals /\ l.todo = <<"judge", "collect">>
  BY <1>2, <1>5 DEF Locals, Script
<1>7. /\ l.own = local[c].own /\ l.old = local[c].old /\ l.target = local[c].own
      /\ l.base = local[c].base /\ l.how = local[c].how
  BY <1>2 DEF Locals
<1> HIDE DEF l
<1>8. /\ Script(l.todo) /\ Complete(Names(l.todo)) /\ OfClient(Names(l.todo))
      /\ "release" \notin Names(l.todo) \cup T(c)
  BY <1>2, <1>5, <1>6 DEF Complete, OfClient, Mending
<1>9. ScriptInv' /\ Keeps(c) /\ local'[c] = l /\ T(c)' = Names(l.todo)
  BY <1>1, <1>3, <1>4, <1>6, <1>8, ClientRecast
<1>10. QED BY <1>2, <1>4, <1>5, <1>6, <1>7, <1>9

LEMMA PrepareTurn ==
    ASSUME ScriptInv, NEW c \in Clients, Prepare(c)
    PROVE  \/ Popped(c, "prepare") /\ run[local[c].old] = "active" /\ UNCHANGED <<up, lock>>
           \/ Raise(c) /\ local[c].todo # <<>> /\ "prepare" \in T(c)
<1>1. c \in Procs /\ At(c, "prepare") /\ local[c].todo # <<>>
  BY DEF Prepare, At, Procs
<1>2. CASE run[local[c].old] = "active"
  <2>1. Next1(c) /\ Frame
    BY <1>2 DEF Prepare
  <2>2. QED BY <1>1, <1>2, <2>1, Popping DEF Popped, Frame
<1>3. CASE run[local[c].old] # "active"
  <2>1. "prepare" \in T(c)
    BY <1>1, Heading
  <2>2. QED BY <1>1, <1>3, <2>1 DEF Prepare
<1>4. QED BY <1>2, <1>3

LEMMA ReleaseTurn ==
    ASSUME ScriptInv, NEW c \in Clients, Release(c)
    PROVE  /\ ScriptInv' /\ Keeps(c) /\ T(c) = {"release"} /\ lock = c
           /\ local'[c] = Idle /\ T(c)' = {}
<1>1. c \in Procs /\ At(c, "release") /\ local[c].todo # <<>> /\ up' = up /\ lock' = NoOne
  BY DEF Release, At, Procs
<1>2. T(c) = {"release"}
  BY <1>1, Heading DEF After
<1>3. up = "up" /\ lock = c
  BY <1>1, <1>2, Awake DEF ScriptInv, Resting
<1>4. Raise(c)
  <2>1. c # Boot
    BY BootAssumption DEF Procs
  <2>2. QED BY <1>1, <1>3, <2>1 DEF Raise, Release
<1>5. QED BY <1>1, <1>2, <1>3, <1>4, Raising

LEMMA DecideTurn ==
    ASSUME ScriptInv, NEW c \in Clients, Decide(c)
    PROVE  /\ ScriptInv' /\ Keeps(c) /\ T(c) = {"await"} /\ lock = NoOne
           /\ UNCHANGED <<store, ledger, up, crashes>>
           /\ \/ T(c)' = {"sweep"} /\ Same(c) /\ lock' = lock
              \/ /\ T(c)' = StartSteps \ {"wait"} /\ Same(c) /\ MayStart(c) /\ lock' = lock
                 /\ verdict[local[c].old] # "none"
              \/ /\ T(c)' = {"prepare"} \cup SteerSteps /\ Same(c) /\ MayStart(c)
                 /\ lock' = c /\ verdict[local[c].old] = "none"
                 /\ run[local[c].old] = "active" /\ Steerable(local[c].old)
              \/ T(c)' = {} /\ local'[c] = Idle /\ lock' = lock
<1> DEFINE e == local[c].old
<1>1. /\ c \in Procs /\ At(c, "await") /\ local[c].todo # <<>> /\ up' = up /\ lock = NoOne
      /\ UNCHANGED <<store, ledger, up, crashes>>
  BY DEF Decide, At, Procs
<1>2. local[c] \in Locals /\ T(c) = {"await"}
  BY <1>1, Heading DEF After
<1>3. up = "up"
  BY <1>1, Awake
<1>4. CASE verdict[e] = "cancelled"
  <2> DEFINE l == [local[c] EXCEPT !.todo = <<"sweep">>]
  <2>1. Become(c, l) /\ lock' = lock
    BY <1>4 DEF Decide, Go
  <2>2. Script(<<"sweep">>) /\ Names(<<"sweep">>) = {"sweep"}
    BY ShortScripts DEF Steps
  <2>3. l \in Locals /\ l.todo = <<"sweep">>
    BY <1>2, <2>2 DEF Locals, Script
  <2>4. /\ l.own = local[c].own /\ l.old = local[c].old /\ l.target = local[c].target
        /\ l.base = local[c].base /\ l.how = local[c].how
    BY <1>2 DEF Locals
  <2> HIDE DEF l
  <2>5. /\ Script(l.todo) /\ Complete(Names(l.todo)) /\ OfClient(Names(l.todo))
        /\ "release" \notin Names(l.todo) \cup T(c)
    BY <1>2, <2>2, <2>3 DEF Complete, OfClient, Mending
  <2>6. ScriptInv' /\ Keeps(c) /\ local'[c] = l /\ T(c)' = Names(l.todo)
    BY <1>1, <1>3, <2>1, <2>3, <2>5, ClientRecast
  <2>7. Same(c)
    BY <2>4, <2>6 DEF Same
  <2>8. QED BY <1>1, <1>2, <2>1, <2>2, <2>3, <2>6, <2>7
<1>5. CASE verdict[e] \notin {"none", "cancelled"}
  <2> DEFINE s == <<"collect">>
             l == [local[c] EXCEPT !.todo = s \o StartScript]
  <2>1. Become(c, l) /\ lock' = lock /\ MayStart(c)
    BY <1>5 DEF Decide, Go
  <2>2. Script(s) /\ Names(s) = {"collect"}
    BY ShortScripts DEF Steps
  <2>3. Script(StartScript) /\ Names(StartScript) = StartSteps \ {"wait"}
    BY Scripts
  <2> HIDE DEF s
  <2>4. \A x \in Names(s) : Names(StartScript) \subseteq After(x)
    BY <2>2, <2>3 DEF After
  <2>5. Script(s \o StartScript) /\ Names(s \o StartScript) = StartSteps \ {"wait"}
    <3>1. /\ Script(s \o StartScript)
          /\ Names(s \o StartScript) = Names(s) \cup Names(StartScript)
      <4>1. "judge" \notin Names(StartScript)
        BY <2>3 DEF StartSteps, Making
      <4>2. QED BY <2>2, <2>3, <2>4, <4>1, JoinScripts
    <3>2. QED BY <3>1, <2>2, <2>3 DEF StartSteps
  <2>6. l \in Locals /\ l.todo = s \o StartScript
    BY <1>2, <2>5 DEF Locals, Script
  <2>7. /\ l.own = local[c].own /\ l.old = local[c].old /\ l.target = local[c].target
        /\ l.base = local[c].base /\ l.how = local[c].how
    BY <1>2 DEF Locals
  <2> HIDE DEF l
  <2>8. /\ Script(l.todo) /\ Complete(Names(l.todo)) /\ OfClient(Names(l.todo))
        /\ "release" \notin Names(l.todo) \cup T(c)
    BY <1>2, <2>5, <2>6 DEF Complete, OfClient, Mending, StartSteps, Making
  <2>9. ScriptInv' /\ Keeps(c) /\ local'[c] = l /\ T(c)' = Names(l.todo)
    BY <1>1, <1>3, <2>1, <2>6, <2>8, ClientRecast
  <2>10. Same(c)
    BY <2>7, <2>9 DEF Same
  <2>11. QED BY <1>1, <1>2, <1>5, <2>1, <2>5, <2>6, <2>9, <2>10
<1>6. CASE verdict[e] = "none" /\ Steerable(e) /\ run[e] = "active"
  <2> DEFINE l == [local[c] EXCEPT !.todo = SteerScript]
  <2>1. Become(c, l) /\ lock' = c /\ MayStart(c)
    BY <1>6 DEF Decide, Go
  <2>2. Script(SteerScript) /\ Names(SteerScript) = {"prepare"} \cup SteerSteps
    BY Scripts
  <2>3. l \in Locals /\ l.todo = SteerScript
    BY <1>2, <2>2 DEF Locals, Script
  <2>4. /\ l.own = local[c].own /\ l.old = local[c].old /\ l.target = local[c].target
        /\ l.base = local[c].base /\ l.how = local[c].how
    BY <1>2 DEF Locals
  <2> HIDE DEF l
  <2>5. Script(l.todo) /\ Fitting(c, Names(l.todo))
    <3>1. c # Boot
      BY <1>1, BootAssumption
    <3>2. QED BY <2>2, <2>3, <3>1 DEF Fitting, Complete, OfClient, Mending, SteerSteps
  <2>6. /\ local' \in [Procs -> Locals]
        /\ \A q \in Procs : (Ordered(local[q].todo) /\ Fitting(q, T(q)))'
        /\ Keeps(c) /\ local'[c] = l /\ T(c)' = Names(l.todo)
    BY <1>1, <2>1, <2>3, <2>5, Becoming DEF Script
  <2>7. Resting'
    <3>1. \A d \in Clients : d \in Procs /\ d # Boot /\ d # NoOne
      BY BootAssumption DEF Procs
    <3>2. up' = "up" /\ lock' = c /\ "release" \in T(c)'
      BY <1>1, <1>3, <2>1, <2>2, <2>3, <2>6 DEF SteerSteps
    <3>3. \A d \in Clients : "release" \in T(d)' <=> lock' = d
      BY <1>1, <2>6, <3>1, <3>2 DEF Keeps, ScriptInv, Resting
    <3>4. local'[Boot].todo = <<>>
      BY <1>3, <2>6, <3>1 DEF Keeps, ScriptInv, Resting, Procs
    <3>5. QED BY <3>2, <3>3, <3>4 DEF Resting
  <2>8. ScriptInv'
    BY <2>6, <2>7 DEF ScriptInv
  <2>9. Same(c)
    BY <2>4, <2>6 DEF Same
  <2>10. QED BY <1>1, <1>2, <1>6, <2>1, <2>2, <2>3, <2>6, <2>8, <2>9
<1>7. CASE verdict[e] = "none" /\ ~(Steerable(e) /\ run[e] = "active")
  <2>1. local' = [local EXCEPT ![c] = Idle] /\ lock' = lock
    BY <1>7 DEF Decide
  <2>2. "release" \notin T(c)
    BY <1>2
  <2>3. ScriptInv' /\ Keeps(c) /\ local'[c] = Idle /\ T(c)' = {}
    BY <1>1, <1>3, <2>1, <2>2, IdleTurn
  <2>4. QED BY <1>1, <1>2, <2>1, <2>3
<1>8. QED BY <1>4, <1>5, <1>6, <1>7

----------------------------------------------------------------------------
(* Calls begin with a script of their own.                                 *)

LEMMA CallTurn ==
    ASSUME ScriptInv, NEW c \in Clients, NEW l \in Locals, Call(c, l), Script(l.todo),
           Complete(Names(l.todo)), OfClient(Names(l.todo)), "release" \notin Names(l.todo)
    PROVE  /\ ScriptInv' /\ Keeps(c) /\ T(c) = {} /\ up = "up"
           /\ local'[c] = l /\ T(c)' = Names(l.todo)
           /\ UNCHANGED <<store, ledger, up, lock, crashes>>
<1>1. /\ up = "up" /\ local[c].todo = <<>> /\ Become(c, l) /\ up' = up /\ lock' = lock
      /\ UNCHANGED <<store, ledger, up, lock, crashes>>
  BY DEF Call, Frame
<1>2. c \in Procs
  BY DEF Procs
<1>3. T(c) = {}
  BY <1>1, <1>2, NoSteps
<1>4. "release" \notin Names(l.todo) \cup T(c)
  BY <1>3
<1>5. ScriptInv' /\ Keeps(c) /\ local'[c] = l /\ T(c)' = Names(l.todo)
  BY <1>1, <1>4, ClientRecast
<1>6. QED BY <1>1, <1>3, <1>5

(* The locals of a call that makes an event, and of one about an event.    *)
LEMMA CallLocals ==
    ASSUME NEW s \in Seq(Steps), NEW e \in Events
    PROVE  /\ Work(s, e) \in Locals /\ Work(s, e).todo = s /\ Work(s, e).own = e
           /\ Query(s, e) \in Locals /\ Query(s, e).todo = s
           /\ Query(s, e).own = NoEvent /\ Query(s, e).target = e
<1>1. Idle \in Locals /\ Idle.own = NoEvent
  BY DEF Idle, Locals
<1>2. Work(s, e) \in Locals /\ Work(s, e).todo = s /\ Work(s, e).own = e
  BY <1>1 DEF Work, Locals
<1>3. /\ Query(s, e) \in Locals /\ Query(s, e).todo = s
      /\ Query(s, e).own = NoEvent /\ Query(s, e).target = e
  BY <1>1 DEF Query, Locals
<1>4. QED BY <1>2, <1>3

(* The scripts of the calls.                                               *)
LEMMA CallScripts ==
    /\ Script(<<"sweep", "route">>) /\ Names(<<"sweep", "route">>) = {"sweep", "route"}
    /\ Script(<<"sweep", "collect", "outcomes">>)
    /\ Names(<<"sweep", "collect", "outcomes">>) = {"sweep", "collect", "outcomes"}
    /\ Script(<<"stop", "ask", "look">>)
    /\ Names(<<"stop", "ask", "look">>) = {"stop", "ask", "look"}
    /\ Script(<<"look">>) /\ Names(<<"look">>) = {"look"}
    /\ Script(RecoverableStart \o <<"wait">>)
    /\ Names(RecoverableStart \o <<"wait">>) = Names(RecoverableStart) \cup {"wait"}
<1>1. /\ <<"sweep", "route">> \in Seq(Steps)
      /\ <<"sweep", "collect", "outcomes">> \in Seq(Steps)
      /\ <<"stop", "ask", "look">> \in Seq(Steps) /\ "look" \in Steps /\ "wait" \in Steps
  BY DEF Steps
<1>2. Ordered(<<"sweep", "route">>)
  BY DEF Ordered, After
<1>3. Ordered(<<"sweep", "collect", "outcomes">>)
  BY DEF Ordered, After, StartSteps
<1>4. Ordered(<<"stop", "ask", "look">>)
  BY DEF Ordered, After
<1>5. /\ Names(<<"sweep", "route">>) = {"sweep", "route"}
      /\ Names(<<"sweep", "collect", "outcomes">>) = {"sweep", "collect", "outcomes"}
      /\ Names(<<"stop", "ask", "look">>) = {"stop", "ask", "look"}
  BY DEF Names
<1>6. /\ Script(<<"look">>) /\ Names(<<"look">>) = {"look"}
      /\ Script(<<"wait">>) /\ Names(<<"wait">>) = {"wait"}
  BY <1>1, ShortScripts
<1>7. /\ Script(RecoverableStart \o <<"wait">>)
      /\ Names(RecoverableStart \o <<"wait">>) = Names(RecoverableStart) \cup {"wait"}
  <2>1. \A x \in Names(RecoverableStart) : Names(<<"wait">>) \subseteq After(x)
    BY <1>6, Scripts DEF After, AfterRepair, Making, StartSteps
  <2>2. "judge" \notin Names(<<"wait">>)
    BY <1>6
  <2>3. QED BY <1>6, <2>1, <2>2, Scripts, JoinScripts
<1>8. QED BY <1>1, <1>2, <1>3, <1>4, <1>5, <1>6, <1>7 DEF Script

LEMMA StartTurn ==
    ASSUME ScriptInv, NEW c \in Clients, Start(c)
    PROVE  /\ ScriptInv' /\ Keeps(c) /\ T(c) = {} /\ up = "up"
           /\ local'[c].own \in Unused(c) /\ T(c)' = {"sweep", "route"}
           /\ UNCHANGED <<store, ledger, up, lock, crashes>>
<1>1. PICK e \in Unused(c) : Call(c, Work(<<"sweep", "route">>, e))
  BY DEF Start
<1> DEFINE s == <<"sweep", "route">>
           l == Work(s, e)
<1>2. Script(s) /\ Names(s) = {"sweep", "route"} /\ e \in Events
  BY <1>1, CallScripts DEF Unused
<1>3. Call(c, l)
  BY <1>1
<1> HIDE DEF s
<1>4. l \in Locals /\ l.todo = s /\ l.own = e
  BY <1>2, CallLocals DEF Script
<1> HIDE DEF l
<1>5. /\ Script(l.todo) /\ Complete(Names(l.todo)) /\ OfClient(Names(l.todo))
      /\ "release" \notin Names(l.todo) /\ Names(l.todo) = {"sweep", "route"}
  BY <1>2, <1>4 DEF Complete, OfClient, Mending
<1>6. QED BY <1>1, <1>3, <1>4, <1>5, CallTurn

LEMMA SubmitTurn ==
    ASSUME ScriptInv, NEW c \in Clients, Submit(c)
    PROVE  /\ ScriptInv' /\ Keeps(c) /\ T(c) = {} /\ up = "up" /\ MayStart(c)
           /\ local'[c].own \in Unused(c)
           /\ T(c)' = {"repair", "collect", "check", "row", "message", "enqueue",
                       "run", "unrow", "wait"}
           /\ UNCHANGED <<store, ledger, up, lock, crashes>>
<1>1. PICK e \in Unused(c) :
          Call(c, [Work(RecoverableStart \o <<"wait">>, e) EXCEPT !.base = TRUE])
  BY DEF Submit
<1> DEFINE s == RecoverableStart \o <<"wait">>
           w == Work(s, e)
           l == [w EXCEPT !.base = TRUE]
<1>2. /\ Script(s) /\ e \in Events
      /\ Names(s) = {"repair", "collect", "check", "row", "message", "enqueue",
                     "run", "unrow", "wait"}
  BY <1>1, CallScripts, Scripts DEF Unused
<1>3. Call(c, l)
  BY <1>1
<1> HIDE DEF s
<1>4. w \in Locals /\ w.todo = s /\ w.own = e
  BY <1>2, CallLocals DEF Script
<1> HIDE DEF w
<1>8. l \in Locals /\ l.todo = s /\ l.own = e
  BY <1>4 DEF Locals
<1> HIDE DEF l
<1>5. /\ Script(l.todo) /\ Complete(Names(l.todo)) /\ OfClient(Names(l.todo))
      /\ "release" \notin Names(l.todo)
      /\ Names(l.todo) = {"repair", "collect", "check", "row", "message", "enqueue",
                          "run", "unrow", "wait"}
  BY <1>2, <1>8 DEF Complete, OfClient, Mending
<1>6. MayStart(c)
  BY DEF Submit
<1>7. QED BY <1>1, <1>3, <1>5, <1>6, <1>8, CallTurn

(* A poll, a stop and a snapshot make no event of their own.               *)
LEMMA AskingTurns ==
    ASSUME ScriptInv, NEW c \in Clients,
           \/ Snapshot(c) \/ \E e \in Events : Progress(c, e) \/ Cancel(c, e)
    PROVE  /\ ScriptInv' /\ Keeps(c) /\ T(c) = {} /\ up = "up"
           /\ local'[c].own = NoEvent
           /\ \/ T(c)' = {"sweep", "collect", "outcomes"}
              \/ /\ T(c)' \in {{"look"}, {"stop", "ask", "look"}}
                 /\ local'[c].target \in Events /\ run[local'[c].target] # "none"
           /\ UNCHANGED <<store, ledger, up, lock, crashes>>
<1>1. CASE Snapshot(c)
  <2> DEFINE s == <<"sweep", "collect", "outcomes">>
             l == [Idle EXCEPT !.todo = s]
  <2>1. Call(c, l)
    BY <1>1 DEF Snapshot
  <2>2. Script(s) /\ Names(s) = {"sweep", "collect", "outcomes"}
    BY CallScripts
  <2> HIDE DEF s
  <2>3. l \in Locals /\ l.todo = s /\ l.own = NoEvent
    <3>1. Idle \in Locals /\ Idle.own = NoEvent
      BY DEF Idle, Locals
    <3>2. QED BY <2>2, <3>1 DEF Locals, Script
  <2> HIDE DEF l
  <2>4. /\ Script(l.todo) /\ Complete(Names(l.todo)) /\ OfClient(Names(l.todo))
        /\ "release" \notin Names(l.todo) /\ Names(l.todo) = {"sweep", "collect", "outcomes"}
    BY <2>2, <2>3 DEF Complete, OfClient, Mending
  <2>5. /\ ScriptInv' /\ Keeps(c) /\ T(c) = {} /\ up = "up"
        /\ local'[c] = l /\ T(c)' = Names(l.todo)
        /\ UNCHANGED <<store, ledger, up, lock, crashes>>
    BY <2>1, <2>3, <2>4, CallTurn
  <2>6. T(c)' = {"sweep", "collect", "outcomes"}
    BY <2>4, <2>5
  <2>7. QED BY <2>3, <2>5, <2>6
<1>2. ASSUME NEW e \in Events, Progress(c, e) \/ Cancel(c, e)
      PROVE  /\ ScriptInv' /\ Keeps(c) /\ T(c) = {} /\ up = "up"
             /\ local'[c].own = NoEvent
             /\ T(c)' \in {{"look"}, {"stop", "ask", "look"}}
             /\ local'[c].target = e /\ run[e] # "none"
             /\ UNCHANGED <<store, ledger, up, lock, crashes>>
  <2>1. ASSUME NEW s \in {<<"look">>, <<"stop", "ask", "look">>},
               Call(c, Query(s, e))
        PROVE  /\ ScriptInv' /\ Keeps(c) /\ T(c) = {} /\ up = "up"
               /\ local'[c].own = NoEvent /\ T(c)' = Names(s)
               /\ local'[c].target = e
               /\ UNCHANGED <<store, ledger, up, lock, crashes>>
    <3> DEFINE l == Query(s, e)
    <3>1. Script(s) /\ Names(s) \in {{"look"}, {"stop", "ask", "look"}}
      BY <2>1, CallScripts
    <3>2. l \in Locals /\ l.todo = s /\ l.own = NoEvent /\ l.target = e
      BY <3>1, CallLocals DEF Script
    <3>3. Call(c, l)
      BY <2>1
    <3> HIDE DEF l
    <3>4. /\ Script(l.todo) /\ Complete(Names(l.todo)) /\ OfClient(Names(l.todo))
          /\ "release" \notin Names(l.todo)
      BY <3>1, <3>2 DEF Complete, OfClient, Mending
    <3>5. QED BY <3>2, <3>3, <3>4, CallTurn
  <2>2. CASE Progress(c, e)
    <3>1. Call(c, Query(<<"look">>, e)) /\ run[e] # "none"
      BY <2>2 DEF Progress
    <3>2. QED BY <2>1, <3>1, CallScripts
  <2>3. CASE Cancel(c, e)
    <3>1. /\ Call(c, Query(<<"stop", "ask", "look">>, e))
          /\ run[e] # "none"
      BY <2>3 DEF Cancel
    <3>2. QED BY <2>1, <3>1, CallScripts
  <2>4. QED BY <1>2, <2>2, <2>3
<1>3. QED BY <1>1, <1>2

----------------------------------------------------------------------------
(* The constructors, the crash and the life thread.                        *)

LEMMA ReconcileTurn ==
    ASSUME ScriptInv, ReconcileSteering,
           \A e \in Events : payload[e].prev \in Events \cup {NoEvent}
    PROVE  \/ /\ Popped(Boot, "steering") /\ Unfinished = {}
              /\ UNCHANGED <<store, ledger, up, lock>>
           \/ \E e \in Unfinished :
                 /\ run[payload[e].prev] \notin {"active", "stale"}
                 /\ Raise(Boot) /\ local[Boot].todo # <<>>
           \/ \E e \in Unfinished :
                 /\ ScriptInv' /\ Keeps(Boot) /\ "steering" \in T(Boot)
                 /\ T(Boot) \subseteq {"steering", "adopt", "sweep", "serve"}
                 /\ T(Boot)' = {"claim", "supersede", "judge"} \cup T(Boot)
                 /\ local'[Boot].own = local[Boot].own
                 /\ local'[Boot].target = local[Boot].target
                 /\ local'[Boot].base = local[Boot].base
                 /\ local'[Boot].how = local[Boot].how
                 /\ local'[Boot].old = payload[e].prev
                 /\ run[payload[e].prev] \in {"active", "stale"}
                 /\ run' = [run EXCEPT ![payload[e].prev] = "stale"]
                 /\ item' = IF run[payload[e].prev] = "active"
                            THEN SupersededBefore(payload[e].version) ELSE item
                 /\ UNCHANGED <<store, plan, ingress, messages, payload, bound, evidence, reply,
                                up, lock>>
<1>1. Boot \in Procs /\ At(Boot, "steering") /\ local[Boot].todo # <<>>
  BY DEF ReconcileSteering, At, Procs
<1>2. /\ "steering" \in T(Boot) /\ Script(local[Boot].todo) /\ local[Boot] \in Locals
      /\ Fitting(Boot, T(Boot)) /\ T(Boot) \subseteq {"steering"} \cup After("steering")
  BY <1>1, Heading
<1>3. T(Boot) \subseteq {"steering", "adopt", "sweep", "serve"}
  BY <1>2 DEF After
<1>4. CASE Unfinished = {}
  <2>1. Next1(Boot) /\ up' = up /\ lock' = lock /\ UNCHANGED <<store, ledger>>
    BY <1>4 DEF ReconcileSteering, Frame
  <2>2. ScriptInv' /\ Keeps(Boot) /\ Same(Boot) /\ Pops(Boot, "steering")
    BY <1>1, <2>1, Popping
  <2>3. Popped(Boot, "steering")
    BY <2>2 DEF Popped
  <2>4. QED BY <1>4, <2>1, <2>3
<1>5. ASSUME NEW e \in Unfinished, run[payload[e].prev] \in {"active", "stale"},
             /\ run' = [run EXCEPT ![payload[e].prev] = "stale"]
             /\ item' = IF run[payload[e].prev] = "active"
                        THEN SupersededBefore(payload[e].version) ELSE item
             /\ GoSteer(Boot, <<"claim", "supersede", "judge">> \o local[Boot].todo,
                        payload[e].prev)
             /\ Frame
             /\ UNCHANGED <<store, plan, ingress, messages, payload, bound, evidence, reply>>
      PROVE  /\ ScriptInv' /\ Keeps(Boot)
             /\ T(Boot)' = {"claim", "supersede", "judge"} \cup T(Boot)
             /\ local'[Boot].own = local[Boot].own
             /\ local'[Boot].target = local[Boot].target
             /\ local'[Boot].base = local[Boot].base
             /\ local'[Boot].how = local[Boot].how
             /\ local'[Boot].old = payload[e].prev
  <2> DEFINE s == <<"claim", "supersede", "judge">>
             r == local[Boot].todo
             f == payload[e].prev
             l == [local[Boot] EXCEPT !.todo = s \o r, !.old = f]
  <2>1. Become(Boot, l) /\ up' = up /\ lock' = lock
    BY <1>5 DEF GoSteer, Frame
  <2>2. Script(s) /\ Names(s) = {"claim", "supersede", "judge"}
    <3>1. s \in Seq(Steps)
      BY DEF Steps
    <3>2. Ordered(s)
      BY DEF Ordered, After, AfterClaim
    <3>3. QED BY <3>1, <3>2 DEF Script, Names
  <2>3. f \in Events \cup {NoEvent}
    BY DEF Unfinished
  <2> HIDE DEF s, f
  <2>4. s \o r \in Seq(Steps)
    BY <1>2, <2>2, ConcatProperties DEF Script
  <2>5. /\ l \in Locals /\ l.todo = s \o r
        /\ l.own = local[Boot].own /\ l.old = f /\ l.target = local[Boot].target
        /\ l.base = local[Boot].base /\ l.how = local[Boot].how
    BY <1>2, <2>3, <2>4 DEF Locals
  <2>6. Script(r) /\ T(Boot) = Names(r)
    BY <1>2 DEF T
  <2> HIDE DEF l, r
  <2>7. \A x \in Names(s) : Names(r) \subseteq After(x)
    BY <1>3, <2>2, <2>6 DEF After, AfterClaim, Resume, StartSteps
  <2>8. /\ Fitting(Boot, Names(s) \cup Names(r))
        /\ "release" \in Names(s) \cup Names(r) <=> "release" \in T(Boot)
        /\ "serve" \in T(Boot) => "serve" \in Names(s) \cup Names(r)
    <3>1. Boot \notin Clients
      BY BootAssumption
    <3>2. Complete(T(Boot)) /\ OfBoot(T(Boot))
      BY <1>2 DEF Fitting
    <3>3. Complete(Names(s) \cup Names(r)) /\ OfBoot(Names(s) \cup Names(r))
      BY <1>2, <1>3, <2>2, <2>6, <3>2 DEF Complete, OfBoot, Mending
    <3>4. QED BY <1>2, <2>2, <2>6, <3>1, <3>3 DEF Fitting
  <2>9. /\ ScriptInv /\ Boot \in Procs /\ l \in Locals /\ Script(s) /\ Script(r)
        /\ l.todo = s \o r /\ Become(Boot, l) /\ up' = up /\ lock' = lock
        /\ local[Boot].todo # <<>>
    BY <1>1, <2>1, <2>2, <2>5, <2>6
  <2>12. "judge" \notin Names(r)
    BY <1>3, <2>6
  <2>10. ScriptInv' /\ Keeps(Boot) /\ local'[Boot] = l /\ T(Boot)' = Names(s) \cup Names(r)
    BY ONLY <2>7, <2>8, <2>9, <2>12, Prefixing
  <2>11. QED BY <2>2, <2>5, <2>6, <2>10 DEF f
<1>6. CASE Unfinished # {}
  <2>1. PICK e \in Unfinished :
            IF run[payload[e].prev] \notin {"active", "stale"} THEN Raise(Boot)
            ELSE /\ run' = [run EXCEPT ![payload[e].prev] = "stale"]
                 /\ item' = IF run[payload[e].prev] = "active"
                            THEN SupersededBefore(payload[e].version) ELSE item
                 /\ GoSteer(Boot, <<"claim", "supersede", "judge">> \o local[Boot].todo,
                            payload[e].prev)
                 /\ Frame
                 /\ UNCHANGED <<store, plan, ingress, messages, payload, bound, evidence, reply>>
    BY <1>6 DEF ReconcileSteering
  <2>2. CASE run[payload[e].prev] \notin {"active", "stale"}
    BY <1>1, <2>1, <2>2
  <2>3. CASE run[payload[e].prev] \in {"active", "stale"}
    <3>1. /\ run' = [run EXCEPT ![payload[e].prev] = "stale"]
          /\ item' = IF run[payload[e].prev] = "active"
                     THEN SupersededBefore(payload[e].version) ELSE item
          /\ GoSteer(Boot, <<"claim", "supersede", "judge">> \o local[Boot].todo,
                     payload[e].prev)
          /\ Frame
          /\ UNCHANGED <<store, plan, ingress, messages, payload, bound, evidence, reply>>
      BY <2>1, <2>3
    <3>2. /\ ScriptInv' /\ Keeps(Boot)
          /\ T(Boot)' = {"claim", "supersede", "judge"} \cup T(Boot)
          /\ local'[Boot].own = local[Boot].own
          /\ local'[Boot].target = local[Boot].target
          /\ local'[Boot].base = local[Boot].base
          /\ local'[Boot].how = local[Boot].how
          /\ local'[Boot].old = payload[e].prev
      BY <1>5, <2>3, <3>1
    <3>3. UNCHANGED <<store, plan, ingress, messages, payload, bound, evidence, reply, up, lock>>
      BY <3>1 DEF Frame
    <3>4. QED BY <1>2, <1>3, <2>3, <3>1, <3>2, <3>3
  <2>4. QED BY <2>2, <2>3
<1>7. QED BY <1>4, <1>6

LEMMA AdoptTurn == ASSUME ScriptInv, Adopt PROVE Popped(Boot, "adopt")
<1>1. Boot \in Procs /\ At(Boot, "adopt") /\ Next1(Boot) /\ up' = up /\ lock' = lock
  BY DEF Adopt, Frame, Procs
<1>2. QED BY <1>1, Popping DEF Popped

LEMMA ServeTurn ==
    ASSUME ScriptInv, Serve
    PROVE  /\ ScriptInv' /\ Keeps(Boot) /\ T(Boot) = {"serve"} /\ up = "booting"
           /\ local'[Boot] = Idle /\ T(Boot)' = {} /\ up' = "up"
<1>1. /\ Boot \in Procs /\ At(Boot, "serve") /\ local[Boot].todo # <<>> /\ lock' = lock
      /\ up' = "up" /\ Become(Boot, Idle)
  BY DEF Serve, At, Procs, Become
<1>2. T(Boot) = {"serve"}
  BY <1>1, Heading DEF After
<1>3. up = "booting"
  BY <1>1, Awake
<1>4. Idle \in Locals /\ Script(Idle.todo) /\ Names(Idle.todo) = {} /\ Idle.todo = <<>>
  BY ShortScripts DEF Idle, Locals, Script
<1>5. Fitting(Boot, {})
  BY DEF Fitting, Complete, OfClient, OfBoot
<1>6. /\ local' \in [Procs -> Locals]
      /\ \A q \in Procs : (Ordered(local[q].todo) /\ Fitting(q, T(q)))'
      /\ Keeps(Boot) /\ local'[Boot] = Idle /\ T(Boot)' = {}
  BY <1>1, <1>4, <1>5, Becoming DEF Script
<1>7. Resting'
  <2>1. \A c \in Clients : c \in Procs /\ c # Boot
    BY BootAssumption DEF Procs
  <2>2. \A c \in Clients : "release" \in T(c)' <=> lock' = c
    BY <1>1, <1>6, <2>1 DEF Keeps, ScriptInv, Resting
  <2>3. QED BY <1>1, <1>4, <1>6, <2>2 DEF ScriptInv, Resting
<1>8. QED BY <1>1, <1>2, <1>3, <1>6, <1>7 DEF ScriptInv

LEMMA RestartTurn ==
    ASSUME ScriptInv, Restart
    PROVE  /\ ScriptInv' /\ Keeps(Boot) /\ T(Boot) = {} /\ up = "down" /\ up' = "booting"
           /\ Same(Boot) /\ T(Boot)' = {"repair"} \cup BootSteps
           /\ \A c \in Clients : T(c) = {}
<1> DEFINE l == [local[Boot] EXCEPT !.todo = BootScript]
<1>1. /\ Boot \in Procs /\ up = "down" /\ lock' = lock /\ up' = "booting"
      /\ Become(Boot, l) /\ local[Boot] \in Locals
  BY DEF Restart, Procs, Go, ScriptInv
<1>2. \A c \in Clients : c \in Procs /\ c # Boot
  BY BootAssumption DEF Procs
<1>3. \A p \in Procs : local[p].todo = <<>>
  BY <1>1 DEF ScriptInv, Resting, Procs
<1>4. \A p \in Procs : T(p) = {}
  BY <1>3, NoSteps
<1>5. Script(BootScript) /\ Names(BootScript) = {"repair"} \cup BootSteps
  BY Scripts
<1>6. /\ l \in Locals /\ l.todo = BootScript
      /\ l.own = local[Boot].own /\ l.old = local[Boot].old /\ l.target = local[Boot].target
      /\ l.base = local[Boot].base /\ l.how = local[Boot].how
  BY <1>1, <1>5 DEF Locals, Script
<1> HIDE DEF l
<1>7. Fitting(Boot, Names(l.todo))
  BY <1>2, <1>5, <1>6 DEF Fitting, Complete, OfBoot, Mending, BootSteps
<1>8. /\ local' \in [Procs -> Locals]
      /\ \A q \in Procs : (Ordered(local[q].todo) /\ Fitting(q, T(q)))'
      /\ Keeps(Boot) /\ local'[Boot] = l /\ T(Boot)' = Names(l.todo)
  BY <1>1, <1>5, <1>6, <1>7, Becoming DEF Script
<1>9. Resting'
  <2>1. \A c \in Clients : local'[c].todo = <<>>
    BY <1>2, <1>3, <1>8 DEF Keeps
  <2>2. "serve" \in T(Boot)'
    BY <1>5, <1>6, <1>8 DEF BootSteps
  <2>3. \A c \in Clients : "release" \in T(c)' <=> lock' = c
    BY <1>1, <1>2, <1>8 DEF Keeps, ScriptInv, Resting
  <2>4. QED BY <1>1, <2>1, <2>2, <2>3 DEF ScriptInv, Resting
<1>10. Same(Boot)
  BY <1>6, <1>8 DEF Same
<1>11. QED BY <1>1, <1>2, <1>4, <1>5, <1>6, <1>8, <1>9, <1>10 DEF ScriptInv

LEMMA CrashTurn ==
    ASSUME ScriptInv, Crash
    PROVE  /\ ScriptInv' /\ up' = "down" /\ lock' = NoOne
           /\ \A p \in Procs : local'[p] = Idle /\ T(p)' = {}
<1>1. /\ local' = [p \in Procs |-> Idle] /\ up' = "down" /\ lock' = NoOne
  BY DEF Crash
<1>2. Idle \in Locals /\ Script(Idle.todo) /\ Names(Idle.todo) = {} /\ Idle.todo = <<>>
  BY ShortScripts DEF Idle, Locals, Script
<1>3. \A p \in Procs : local'[p] = Idle /\ T(p)' = {}
  BY <1>1, <1>2 DEF T
<1>4. \A p \in Procs : Fitting(p, {})
  BY DEF Fitting, Complete, OfClient, OfBoot
<1>5. Resting'
  <2>1. \A c \in Clients : c \in Procs /\ c # NoOne
    BY BootAssumption DEF Procs
  <2>2. Boot \in Procs
    BY DEF Procs
  <2>3. QED BY <1>1, <1>2, <1>3, <2>1, <2>2 DEF Resting
<1>6. local' \in [Procs -> Locals]
  BY <1>1, <1>2
<1>7. \A p \in Procs : (Ordered(local[p].todo) /\ Fitting(p, T(p)))'
  BY <1>2, <1>3, <1>4 DEF Script
<1>8. QED BY <1>1, <1>3, <1>5, <1>6, <1>7 DEF ScriptInv

(* Scripts stay as they are when no process moves.                         *)
LEMMA ScriptsStay ==
    ASSUME ScriptInv, UNCHANGED <<local, up, lock>>
    PROVE  ScriptInv' /\ \A p \in Procs : local'[p] = local[p] /\ T(p)' = T(p)
<1>1. \A p \in Procs : local'[p] = local[p] /\ T(p)' = T(p)
  BY DEF T
<1>2. ScriptInv'
  BY <1>1 DEF ScriptInv, Resting, Procs
<1>3. QED BY <1>1, <1>2

LEMMA ScriptInit == Init => ScriptInv /\ \A p \in Procs : T(p) = {}
<1> SUFFICES ASSUME Init PROVE ScriptInv /\ \A p \in Procs : T(p) = {}
  OBVIOUS
<1>1. local = [p \in Procs |-> Idle] /\ up = "up" /\ lock = NoOne
  BY DEF Init
<1>2. Idle \in Locals /\ Script(Idle.todo) /\ Names(Idle.todo) = {} /\ Idle.todo = <<>>
  BY ShortScripts DEF Idle, Locals, Script
<1>3. \A p \in Procs : local[p] = Idle /\ T(p) = {}
  BY <1>1, <1>2 DEF T
<1>4. \A p \in Procs : Fitting(p, {})
  BY DEF Fitting, Complete, OfClient, OfBoot
<1>5. Resting
  <2>1. \A c \in Clients : c \in Procs /\ c # NoOne
    BY BootAssumption DEF Procs
  <2>2. Boot \in Procs
    BY DEF Procs
  <2>3. QED BY <1>1, <1>2, <1>3, <2>1, <2>2 DEF Resting
<1>6. QED BY <1>1, <1>2, <1>3, <1>4, <1>5 DEF ScriptInv, Script

----------------------------------------------------------------------------
(* What is stored, and what the processes are about.                       *)

Known(e) == run[e] # "none"

(* An owner: a run, or the ingress row that will make one.                 *)
Kept(e) == e \in ingress \/ Known(e)

Rows ==
    /\ status \in [Events -> {"none", "pending", "processing", "done"}]
    /\ verdict \in [Events -> Verdicts \cup {"none"}]
    /\ stopReq \subseteq Events
    /\ plan \in Nat
    /\ ingress \subseteq Events
    /\ messages \subseteq Events
    /\ payload \in [Events -> [version : Nat, prev : Events \cup {NoEvent}]]
    /\ run \in [Events -> {"none", "active", "finalized"} \cup Stale]
    /\ bound \in [Events -> Nat]
    /\ item \in [Events -> {"none", "completed", "superseded"} \cup OpenItem]
    /\ evidence \in [Events -> {"none", "asked", "given"}]
    /\ reply \in [Events -> Verdicts \cup {"none", "blocked"}]

(* What is bound, answered or superseded has a run.                        *)
Begun ==
    \A e \in Events :
        /\ bound[e] # 0 \/ reply[e] # "none" => Known(e)
        /\ payload[e].prev # NoEvent => Kept(e) /\ Known(payload[e].prev)

Stored == Rows /\ EventIsOwned /\ Begun

(* The steps that are about the event a call makes, and about its target.  *)
OwnSteps == {"route", "await", "prepare", "item"} \cup Making
Settling == {"reply", "save", "saveitem", "evidence"}
Settles(p) ==
    \/ T(p) \cap (Settling \cup {"look", "result", "project", "rewrite", "stop", "ask"}) # {}
    \/ "judge" \in T(p) /\ "supersede" \notin T(p)

(* The events a process is about are there, as far as it has come.         *)
Aim(p) ==
    /\ T(p) \cap OwnSteps # {} => local[p].own \in Events
    /\ T(p) \cap {"await", "prepare", "claim", "supersede"} # {} =>
          local[p].old \in Events /\ Known(local[p].old)
    /\ Settles(p) => local[p].target \in Events /\ Known(local[p].target)
    /\ T(p) \cap Mending # {} => local[p].target \in Events /\ Kept(local[p].target)
    /\ "rdelete" \in T(p) /\ "rrun" \notin T(p) => Known(local[p].target)
    /\ "run" \in T(p) /\ "row" \notin T(p) => Kept(local[p].own)
    /\ T(p) \cap {"unrow", "bind", "wait"} # {} /\ "run" \notin T(p) =>
          Known(local[p].own)

Based == ScriptInv /\ Stored /\ \A p \in Procs : Aim(p)

(* Runs are not forgotten, and neither are owners.                         *)
Grown == \A e \in Events : (Known(e) => Known(e)') /\ (Kept(e) => Kept(e)')

(* Nothing stored changes.                                                 *)
LEMMA StoreStays ==
    ASSUME Stored, UNCHANGED <<store, ledger>>
    PROVE  Stored' /\ Grown
BY DEF Stored, Rows, EventIsOwned, Begun, Grown, Known, Kept, store, ledger

(* The processes that do not move are about what they were about.          *)
LEMMA OthersAim ==
    ASSUME NEW p, Keeps(p), Grown, \A q \in Procs : Aim(q)
    PROVE  \A q \in Procs \ {p} : Aim(q)'
<1> SUFFICES ASSUME NEW q \in Procs \ {p} PROVE Aim(q)'
  OBVIOUS
<1>1. local'[q] = local[q] /\ T(q)' = T(q) /\ Aim(q)
  BY DEF Keeps
<1>2. Settles(q)' <=> Settles(q)
  BY <1>1 DEF Settles
<1>3. ASSUME NEW e \in Events PROVE (Known(e) => Known(e)') /\ (Kept(e) => Kept(e)')
  BY DEF Grown
<1>4. local[q].own \in Events =>
         /\ Known(local[q].own) => Known(local[q].own)'
         /\ Kept(local[q].own) => Kept(local[q].own)'
  BY <1>1, <1>3 DEF Known, Kept
<1>5. local[q].target \in Events =>
         /\ Known(local[q].target) => Known(local[q].target)'
         /\ Kept(local[q].target) => Kept(local[q].target)'
  BY <1>1, <1>3 DEF Known, Kept
<1>6. local[q].old \in Events => (Known(local[q].old) => Known(local[q].old)')
  BY <1>1, <1>3 DEF Known, Kept
<1>7. QED BY <1>1, <1>2, <1>4, <1>5, <1>6 DEF Aim, OwnSteps, Making, Mending

(* A process that strikes a step off is about what it was about.           *)
LEMMA PoppedAim ==
    ASSUME NEW p \in Procs, NEW h, h # "supersede", Popped(p, h), Grown, Aim(p),
           h = "rrun" => run'[local[p].target] # "none",
           h = "run" => run'[local[p].own] # "none",
           h = "row" => local[p].own \in ingress' \/ run'[local[p].own] # "none"
    PROVE  Aim(p)'
<1>1. /\ T(p)' \subseteq T(p) /\ h \in T(p) /\ T(p) \ {h} \subseteq T(p)'
      /\ T(p)' \subseteq After(h)
      /\ local'[p].own = local[p].own /\ local'[p].old = local[p].old
      /\ local'[p].target = local[p].target
  BY DEF Popped, Pops, Same
<1>2. Settles(p)' => Settles(p)
  BY <1>1 DEF Settles
<1>4. local[p].own \in Events =>
         /\ Known(local[p].own) => Known(local[p].own)'
         /\ Kept(local[p].own) => Kept(local[p].own)'
  BY <1>1 DEF Known, Kept, Grown
<1>5. local[p].target \in Events =>
         /\ Known(local[p].target) => Known(local[p].target)'
         /\ Kept(local[p].target) => Kept(local[p].target)'
  BY <1>1 DEF Known, Kept, Grown
<1>6. local[p].old \in Events => (Known(local[p].old) => Known(local[p].old)')
  BY <1>1 DEF Known, Kept, Grown
<1>7. /\ h = "rrun" => Known(local[p].target)'
      /\ h = "run" => Known(local[p].own)'
      /\ h = "row" => Kept(local[p].own)'
  BY <1>1 DEF Known, Kept
<1>8. QED BY <1>1, <1>2, <1>4, <1>5, <1>6, <1>7 DEF Aim, OwnSteps, Making, Mending

(* A process with nothing to do is about nothing.                          *)
LEMMA IdleAim == ASSUME NEW p, T(p)' = {} PROVE Aim(p)'
BY DEF Aim, Settles

(* The steps of a script that write keep what is stored in order.          *)
LEMMA PlainStores ==
    ASSUME Based, NEW p \in Procs
    PROVE  /\ SaveFinal(p) => Stored' /\ Grown
           /\ SaveItem(p) => Stored' /\ Grown
           /\ CheckEvidence(p) => Stored' /\ Grown
           /\ Rewrite(p) => Stored' /\ Grown
           /\ RepairMessage(p) => Stored' /\ Grown
           /\ RepairEnqueue(p) => Stored' /\ Grown
           /\ RepairRun(p) => Stored' /\ Grown
           /\ RepairDelete(p) => Stored' /\ Grown
           /\ BindAll(p) => Stored' /\ Grown
           /\ Supersede(p) => Stored' /\ Grown
           /\ NewItem(p) => Stored' /\ Grown
           /\ SaveRow(p) => Stored' /\ Grown
           /\ AppendMessage(p) => Stored' /\ Grown
           /\ Enqueue(p) => Stored' /\ Grown
           /\ SaveRun(p) => Stored' /\ Grown
           /\ DeleteRow(p) => Stored' /\ Grown
<1> USE DEF Stored, Rows, EventIsOwned, Begun, Grown, Known, Kept
<1>0. Stored /\ Aim(p) /\ local[p] \in Locals
  BY DEF Based, ScriptInv
<1>1. ASSUME SaveFinal(p) PROVE Stored' /\ Grown
  <2>1. Popped(p, "save") /\ "save" \in T(p) /\ T(p) \subseteq {"save"} \cup After("save")
    BY <1>1, PlainTurns DEF Based, Popped, Pops
  <2>2. local[p].target \in Events
    BY <1>0, <2>1 DEF Aim, Settles, Settling, OwnSteps, Making, Mending, After, AfterRepair, SteerSteps, BootSteps, StartSteps
  <2>3. QED BY <1>0, <2>2, <1>1 DEF SaveFinal, store, ledger, Verdicts, Stale
<1>2. ASSUME SaveItem(p) PROVE Stored' /\ Grown
  <2>1. Popped(p, "saveitem") /\ "saveitem" \in T(p) /\ T(p) \subseteq {"saveitem"} \cup After("saveitem")
    BY <1>2, PlainTurns DEF Based, Popped, Pops
  <2>2. local[p].target \in Events
    BY <1>0, <2>1 DEF Aim, Settles, Settling, OwnSteps, Making, Mending, After, AfterRepair, SteerSteps, BootSteps, StartSteps
  <2>3. QED BY <1>0, <2>2, <1>2 DEF SaveItem, store, ledger, Verdicts, OpenItem
<1>3. ASSUME RepairMessage(p) PROVE Stored' /\ Grown
  <2>1. Popped(p, "rmessage") /\ "rmessage" \in T(p) /\ T(p) \subseteq {"rmessage"} \cup After("rmessage")
    BY <1>3, PlainTurns DEF Based, Popped, Pops
  <2>2. local[p].target \in Events
    BY <1>0, <2>1 DEF Aim, Settles, Settling, OwnSteps, Making, Mending, After, AfterRepair, SteerSteps, BootSteps, StartSteps
  <2>3. QED BY <1>0, <2>2, <1>3 DEF RepairMessage, store, ledger, Verdicts
<1>4. ASSUME RepairEnqueue(p) PROVE Stored' /\ Grown
  <2>1. Popped(p, "renqueue") /\ "renqueue" \in T(p) /\ T(p) \subseteq {"renqueue"} \cup After("renqueue")
    BY <1>4, PlainTurns DEF Based, Popped, Pops
  <2>2. local[p].target \in Events /\ Kept(local[p].target)
    BY <1>0, <2>1 DEF Aim, Settles, Settling, OwnSteps, Making, Mending, After, AfterRepair, SteerSteps, BootSteps, StartSteps
  <2>3. QED BY <1>0, <2>2, <1>4 DEF RepairEnqueue, store, ledger, Verdicts, Enqueued
<1>5. ASSUME RepairRun(p) PROVE Stored' /\ Grown
  <2>1. Popped(p, "rrun") /\ "rrun" \in T(p) /\ T(p) \subseteq {"rrun"} \cup After("rrun")
    BY <1>5, PlainTurns DEF Based, Popped, Pops
  <2>2. local[p].target \in Events
    BY <1>0, <2>1 DEF Aim, Settles, Settling, OwnSteps, Making, Mending, After, AfterRepair, SteerSteps, BootSteps, StartSteps
  <2>3. QED BY <1>0, <2>2, <1>5 DEF RepairRun, store, ledger, Verdicts
<1>6. ASSUME RepairDelete(p) PROVE Stored' /\ Grown
  <2>1. Popped(p, "rdelete") /\ "rdelete" \in T(p) /\ T(p) \subseteq {"rdelete"} \cup After("rdelete")
    BY <1>6, PlainTurns DEF Based, Popped, Pops
  <2>2. local[p].target \in Events /\ Known(local[p].target)
    <3>1. "rrun" \notin T(p)
      BY <2>1 DEF After, AfterRepair, Making, SteerSteps, BootSteps
    <3>2. QED BY <1>0, <2>1, <3>1 DEF Aim, Mending
  <2>3. QED BY <1>0, <2>2, <1>6 DEF RepairDelete, store, ledger, Verdicts
<1>7. ASSUME BindAll(p) PROVE Stored' /\ Grown
  <2>1. Popped(p, "bindall") /\ "bindall" \in T(p) /\ T(p) \subseteq {"bindall"} \cup After("bindall")
    BY <1>7, PlainTurns DEF Based, Popped, Pops
  <2>3. QED BY <1>0, <1>7 DEF BindAll, store, ledger, Verdicts, BoundAll
<1>8. ASSUME Supersede(p) PROVE Stored' /\ Grown
  <2>1. Popped(p, "claim") /\ "claim" \in T(p) /\ T(p) \subseteq {"claim"} \cup After("claim")
    BY <1>8, PlainTurns DEF Based, Popped, Pops
  <2>2. local[p].old \in Events /\ Known(local[p].old)
    BY <1>0, <2>1 DEF Aim, Settles, Settling, OwnSteps, Making, Mending, After, AfterRepair, SteerSteps, BootSteps, StartSteps
  <2>3. QED BY <1>0, <2>2, <1>8 DEF Supersede, store, ledger, Verdicts
<1>9. ASSUME NewItem(p) PROVE Stored' /\ Grown
  <2>1. Popped(p, "item") /\ "item" \in T(p) /\ T(p) \subseteq {"item"} \cup After("item")
    BY <1>9, PlainTurns DEF Based, Popped, Pops
  <2>2. local[p].own \in Events
    BY <1>0, <2>1 DEF Aim, Settles, Settling, OwnSteps, Making, Mending, After, AfterRepair, SteerSteps, BootSteps, StartSteps
  <2>3. QED BY <1>0, <2>2, <1>9 DEF NewItem, store, ledger, Verdicts, OpenItem
<1>10. ASSUME SaveRow(p) PROVE Stored' /\ Grown
  <2>1. Popped(p, "row") /\ "row" \in T(p) /\ T(p) \subseteq {"row"} \cup After("row")
    BY <1>10, PlainTurns DEF Based, Popped, Pops
  <2>2. local[p].own \in Events
    BY <1>0, <2>1 DEF Aim, Settles, Settling, OwnSteps, Making, Mending, After, AfterRepair, SteerSteps, BootSteps, StartSteps
  <2>3. QED BY <1>0, <2>2, <1>10 DEF SaveRow, store, ledger, Verdicts
<1>11. ASSUME AppendMessage(p) PROVE Stored' /\ Grown
  <2>1. Popped(p, "message") /\ "message" \in T(p) /\ T(p) \subseteq {"message"} \cup After("message")
    BY <1>11, PlainTurns DEF Based, Popped, Pops
  <2>2. local[p].own \in Events
    BY <1>0, <2>1 DEF Aim, Settles, Settling, OwnSteps, Making, Mending, After, AfterRepair, SteerSteps, BootSteps, StartSteps
  <2>3. QED BY <1>0, <2>2, <1>11 DEF AppendMessage, store, ledger, Verdicts
<1>12. ASSUME Enqueue(p) PROVE Stored' /\ Grown
  <2>1. Popped(p, "enqueue") /\ "enqueue" \in T(p) /\ T(p) \subseteq {"enqueue"} \cup After("enqueue")
    BY <1>12, PlainTurns DEF Based, Popped, Pops
  <2>2. local[p].own \in Events /\ Kept(local[p].own)
    <3>1. "run" \in T(p)
      BY <2>1 DEF Based, ScriptInv, Fitting, Complete
    <3>2. QED BY <1>0, <2>1, <3>1 DEF Aim, OwnSteps, Making, After
  <2>3. QED BY <1>0, <2>2, <1>12 DEF Enqueue, store, ledger, Verdicts, Enqueued
<1>13. ASSUME SaveRun(p) PROVE Stored' /\ Grown
  <2>1. Popped(p, "run") /\ "run" \in T(p) /\ T(p) \subseteq {"run"} \cup After("run")
    BY <1>13, PlainTurns DEF Based, Popped, Pops
  <2>2. local[p].own \in Events
    BY <1>0, <2>1 DEF Aim, Settles, Settling, OwnSteps, Making, Mending, After, AfterRepair, SteerSteps, BootSteps, StartSteps
  <2>3. QED BY <1>0, <2>2, <1>13 DEF SaveRun, store, ledger, Verdicts
<1>14. ASSUME DeleteRow(p) PROVE Stored' /\ Grown
  <2>1. Popped(p, "unrow") /\ "unrow" \in T(p) /\ T(p) \subseteq {"unrow"} \cup After("unrow")
    BY <1>14, PlainTurns DEF Based, Popped, Pops
  <2>2. local[p].own \in Events /\ Known(local[p].own)
    BY <1>0, <2>1 DEF Aim, Settles, Settling, OwnSteps, Making, Mending, After, AfterRepair, SteerSteps, BootSteps, StartSteps
  <2>3. QED BY <1>0, <2>2, <1>14 DEF DeleteRow, store, ledger, Verdicts
<1>15. ASSUME CheckEvidence(p) PROVE Stored' /\ Grown
  <2>1. item' \in [Events -> {"none", "completed", "superseded"} \cup OpenItem]
    BY <1>0, <1>15 DEF CheckEvidence, OpenItem
  <2>2. QED BY <1>0, <1>15, <2>1 DEF CheckEvidence, store
<1>16. ASSUME Rewrite(p) PROVE Stored' /\ Grown
  <2>1. /\ reply' \in [Events -> Verdicts \cup {"none", "blocked"}]
        /\ \A e \in Events : reply'[e] # "none" => reply[e] # "none"
    BY <1>0, <1>16 DEF Rewrite
  <2>2. QED BY <1>0, <1>16, <2>1 DEF Rewrite, store
<1>17. QED BY <1>1, <1>2, <1>3, <1>4, <1>5, <1>6, <1>7, <1>8, <1>9, <1>10, <1>11, <1>12, <1>13, <1>14, <1>15, <1>16

(* So do the other steps of a call.                                        *)
LEMMA CallStores ==
    ASSUME Based, NEW c \in Clients
    PROVE  /\ Ask(c) => Stored' /\ Grown
           /\ Check(c) => Stored' /\ Grown
           /\ Bind(c) => Stored' /\ Grown
           /\ Prepare(c) => Stored' /\ Grown
<1> USE DEF Stored, Rows, EventIsOwned, Begun, Grown, Known, Kept
<1>0. Stored /\ c \in Procs /\ Aim(c) /\ local[c] \in Locals
  BY DEF Based, ScriptInv, Procs
<1>1. ASSUME Ask(c), ~Raise(c) PROVE Stored' /\ Grown
  <2>1. "ask" \in T(c)
    BY <1>1, AskTurn DEF Based, Popped, Pops
  <2>2. local[c].target \in Events
    BY <1>0, <2>1 DEF Aim, Settles
  <2>3. QED BY <1>0, <2>2, <1>1 DEF Ask, store, ledger, Verdicts
<1>2. ASSUME Check(c) PROVE Stored' /\ Grown
  <2>1. "check" \in T(c) /\ "row" \in T(c)
    <3>1. "check" \in T(c)
      BY <1>2, CheckTurn DEF Based, Popped, Pops
    <3>2. QED BY <3>1, <1>0 DEF Based, ScriptInv, Fitting, Complete
  <2>2. local[c].own \in Events
    BY <1>0, <2>1 DEF Aim, OwnSteps, Making
  <2>3. CASE UNCHANGED <<store, ledger>>
    BY <1>0, <2>3, StoreStays
  <2>4. CASE /\ bound' \in {bound, BoundAll}
             /\ item' = [item EXCEPT ![local[c].own] = "none"]
             /\ payload' = [payload EXCEPT ![local[c].own].version = 0]
             /\ UNCHANGED <<store, plan, ingress, messages, run, evidence, reply>>
    <3>1. bound' \in [Events -> Nat] /\ \A e \in Events : bound'[e] # 0 => Known(e)
      BY <1>0, <2>4 DEF BoundAll
    <3>2. /\ payload' \in [Events -> [version : Nat, prev : Events \cup {NoEvent}]]
          /\ \A e \in Events : payload'[e].prev = payload[e].prev
      BY <1>0, <2>2, <2>4
    <3>3. item' \in [Events -> {"none", "completed", "superseded"} \cup OpenItem]
      BY <1>0, <2>2, <2>4
    <3>4. Rows'
      BY <1>0, <2>4, <3>1, <3>2, <3>3 DEF store
    <3>5. QED BY <1>0, <2>4, <3>1, <3>2, <3>4 DEF store
  <2>5. QED BY <2>3, <2>4, <1>2 DEF Check, store, ledger
<1>3. ASSUME Bind(c) PROVE Stored' /\ Grown
  <2>1. T(c) = {"bind"}
    BY <1>3, BindTurn DEF Based
  <2>2. local[c].own \in Events /\ Known(local[c].own)
    BY <1>0, <2>1 DEF Aim, OwnSteps, Making
  <2>3. QED BY <1>0, <2>2, <1>3 DEF Bind, store, Verdicts
<1>4. ASSUME Prepare(c), ~Raise(c) PROVE Stored' /\ Grown
  <2>1. "prepare" \in T(c) /\ run[local[c].old] = "active"
    BY <1>4, PrepareTurn DEF Based, Popped, Pops
  <2>2. local[c].own \in Events /\ local[c].old \in Events
    BY <1>0, <2>1 DEF Aim, OwnSteps
  <2>3. /\ plan' = NextPlan /\ run' = [run EXCEPT ![local[c].old] = "stale"]
        /\ payload' = [payload EXCEPT ![local[c].own] =
                          [version |-> NextPlan, prev |-> local[c].old]]
        /\ item' = [SupersededBefore(NextPlan) EXCEPT ![local[c].own] = "running"]
        /\ ingress' = ingress \cup {local[c].own}
        /\ UNCHANGED <<store, messages, bound, evidence, reply>>
    BY <1>4, <2>1 DEF Prepare
  <2>4. NextPlan \in Nat
    BY <1>0 DEF NextPlan
  <2>5. payload' \in [Events -> [version : Nat, prev : Events \cup {NoEvent}]]
    BY <1>0, <2>2, <2>3, <2>4
  <2>6. item' \in [Events -> {"none", "completed", "superseded"} \cup OpenItem]
    BY <1>0, <2>2, <2>3 DEF SupersededBefore, OpenItem
  <2>7. run' \in [Events -> {"none", "active", "finalized"} \cup Stale] /\ Grown
    BY <1>0, <2>2, <2>3 DEF Stale
  <2>8. Rows'
    BY <1>0, <2>2, <2>3, <2>4, <2>5, <2>6, <2>7 DEF store
  <2>9. EventIsOwned' /\ Begun'
    BY <1>0, <2>2, <2>3, <2>7 DEF store
  <2>10. QED BY <2>7, <2>8, <2>9 DEF Stored
<1>5. Raise(c) => Stored' /\ Grown
  BY <1>0, StoreStays DEF Raise
<1>6. QED BY <1>1, <1>2, <1>3, <1>4, <1>5

LEMMA JointStores ==
    ASSUME Based, NEW p \in Procs
    PROVE  /\ Reply(p) => Stored' /\ Grown
           /\ CloseOld(p) => Stored' /\ Grown
<1> USE DEF Stored, Rows, EventIsOwned, Begun, Grown, Known, Kept
<1>0. Stored /\ Aim(p) /\ local[p] \in Locals
  BY DEF Based, ScriptInv
<1>1. ASSUME Reply(p) PROVE Stored' /\ Grown
  <2>1. "reply" \in T(p)
    BY <1>1, ReplyTurn DEF Based
  <2>2. local[p].target \in Events /\ Known(local[p].target)
    BY <1>0, <2>1 DEF Aim, Settles, Settling
  <2>3. QED BY <1>0, <2>2, <1>1 DEF Reply, store, Verdicts
<1>2. ASSUME CloseOld(p), ~Raise(p) PROVE Stored' /\ Grown
  <2>1. "supersede" \in T(p)
    BY <1>2, Heading DEF Based, CloseOld
  <2>2. local[p].old \in Events /\ Known(local[p].old)
    BY <1>0, <2>1 DEF Aim
  <2>3. QED BY <1>0, <2>2, <1>2 DEF CloseOld, store, ledger, Verdicts, Verdict
<1>3. Raise(p) => Stored' /\ Grown
  BY <1>0, StoreStays DEF Raise
<1>4. QED BY <1>1, <1>2, <1>3

(* And the constructors, the restart and the life thread.                  *)
LEMMA OwnStores ==
    ASSUME Based
    PROVE  /\ ReconcileSteering => Stored' /\ Grown
           /\ Adopt => Stored' /\ Grown
           /\ Restart => Stored' /\ Grown
           /\ Life => Stored' /\ Grown
<1> USE DEF Stored, Rows, EventIsOwned, Begun, Grown, Known, Kept
<1>0. Stored
  BY DEF Based
<1>1. ASSUME ReconcileSteering PROVE Stored' /\ Grown
  <2>1. CASE UNCHANGED <<store, ledger>>
    BY <1>0, <2>1, StoreStays
  <2>2. ASSUME NEW e \in Unfinished,
               run' = [run EXCEPT ![payload[e].prev] = "stale"],
               item' = (IF run[payload[e].prev] = "active"
                        THEN SupersededBefore(payload[e].version) ELSE item),
               UNCHANGED <<store, plan, ingress, messages, payload, bound, evidence, reply>>
        PROVE  Stored' /\ Grown
    <3>1. payload[e].prev \in Events
      BY <1>0, <2>2 DEF Unfinished
    <3>2. item' \in [Events -> {"none", "completed", "superseded"} \cup OpenItem]
      BY <1>0, <2>2 DEF SupersededBefore, OpenItem
    <3>3. run' \in [Events -> {"none", "active", "finalized"} \cup Stale] /\ Grown
      BY <1>0, <2>2, <3>1 DEF Stale
    <3>4. Rows' /\ EventIsOwned' /\ Begun'
      BY <1>0, <2>2, <3>1, <3>2, <3>3 DEF store
    <3>5. QED BY <3>3, <3>4
  <2>3. \A e \in Events : payload[e].prev \in Events \cup {NoEvent}
    BY <1>0
  <2>4. QED BY <1>1, <2>1, <2>2, <2>3, ReconcileTurn DEF Based, Raise
<1>2. ASSUME Adopt PROVE Stored' /\ Grown
  BY <1>0, <1>2 DEF Adopt, store
<1>3. ASSUME Restart PROVE Stored' /\ Grown
  BY <1>0, <1>3 DEF Restart, ledger
<1>4. ASSUME Life PROVE Stored' /\ Grown
  <2>1. PICK e \in Events : Take(e) \/ End(e) \/ AskEvidence(e) \/ GiveEvidence(e)
    BY <1>4 DEF Life
  <2>2. CASE Take(e)
    BY <1>0, <2>2 DEF Take, ledger
  <2>3. CASE End(e)
    BY <1>0, <2>3 DEF End, ledger, Verdict, Verdicts
  <2>4. CASE AskEvidence(e)
    BY <1>0, <2>4 DEF AskEvidence, Working, store
  <2>5. CASE GiveEvidence(e)
    BY <1>0, <2>5 DEF GiveEvidence, Working, store, OpenItem
  <2>6. QED BY <2>1, <2>2, <2>3, <2>4, <2>5
<1>5. QED BY <1>1, <1>2, <1>3, <1>4

(* A process that turns to another target, or goes on with what it has, is *)
(* about what is there.                                                    *)
LEMMA TurnedAim ==
    ASSUME NEW p \in Procs, Grown, Aim(p),
           T(p)' \cap (OwnSteps \cup {"await", "prepare", "claim", "supersede"}) \subseteq T(p),
           {"row", "run"} \cap T(p) \subseteq T(p)',
           local'[p].own = local[p].own, local'[p].old = local[p].old,
           Settles(p)' => local'[p].target \in Events /\ run'[local'[p].target] # "none",
           T(p)' \cap Mending # {} =>
              /\ local'[p].target \in Events
              /\ local'[p].target \in ingress' \/ run'[local'[p].target] # "none",
           "rdelete" \in T(p)' /\ "rrun" \notin T(p)' => run'[local'[p].target] # "none"
    PROVE  Aim(p)'
<1>1. local[p].own \in Events =>
         /\ Known(local[p].own) => run'[local'[p].own] # "none"
         /\ Kept(local[p].own) => local'[p].own \in ingress' \/ run'[local'[p].own] # "none"
  BY DEF Known, Kept, Grown
<1>2. local[p].old \in Events => (Known(local[p].old) => run'[local'[p].old] # "none")
  BY DEF Known, Kept, Grown
<1>3. /\ T(p)' \cap OwnSteps # {} => local'[p].own \in Events
      /\ T(p)' \cap {"await", "prepare", "claim", "supersede"} # {} =>
            local'[p].old \in Events /\ run'[local'[p].old] # "none"
  BY <1>2 DEF Aim, OwnSteps, Known
<1>4. "run" \in T(p)' /\ "row" \notin T(p)' =>
         local'[p].own \in ingress' \/ run'[local'[p].own] # "none"
  BY <1>1 DEF Aim, OwnSteps, Making
<1>5. T(p)' \cap {"unrow", "bind", "wait"} # {} /\ "run" \notin T(p)' =>
         run'[local'[p].own] # "none"
  BY <1>1 DEF Aim, OwnSteps, Making
<1>6. QED BY <1>3, <1>4, <1>5 DEF Aim, Known, Kept

LEMMA JudgeAim == ASSUME Based, Grown, NEW p \in Procs, Judge(p) PROVE Aim(p)'
<1>1. /\ Keeps(p) /\ "judge" \in T(p) /\ T(p) \ {"judge"} \subseteq T(p)'
      /\ T(p)' \subseteq (T(p) \ {"judge"}) \cup Settling
      /\ local'[p].own = local[p].own /\ local'[p].old = local[p].old
      /\ local'[p].target = local[p].target /\ "supersede" \notin T(p)
  BY JudgeTurn DEF Based, Settling
<1>2. Aim(p) /\ local[p].target \in Events /\ Known(local[p].target)
  BY <1>1 DEF Based, Aim, Settles
<1>3. run'[local[p].target] # "none"
  BY <1>2 DEF Grown, Known
<1>4. T(p) \cap Mending = {}
  BY <1>1, Heading DEF Based, Judge, After, Resume, StartSteps, Making, Mending
<1>5. QED BY <1>1, <1>2, <1>3, <1>4, TurnedAim DEF OwnSteps, Making, Mending, Settling

LEMMA ReplyAim == ASSUME Based, Grown, NEW p \in Procs, Reply(p) PROVE Aim(p)'
<1>1. /\ Same(p) /\ "reply" \in T(p) /\ T(p)' \subseteq T(p) \ {"reply"}
      /\ T(p) \ {"reply", "save", "saveitem"} \subseteq T(p)'
  BY ReplyTurn DEF Based
<1>2. Aim(p) /\ local[p].target \in Events /\ Known(local[p].target)
  BY <1>1 DEF Based, Aim, Settles, Settling
<1>3. run'[local[p].target] # "none"
  BY <1>2 DEF Grown, Known
<1>4. QED BY <1>1, <1>2, <1>3, TurnedAim DEF OwnSteps, Making, Mending, Same

LEMMA SweepAim == ASSUME Based, Grown, NEW p \in Procs, Sweep(p) PROVE Aim(p)'
<1>1. CASE Popped(p, "sweep")
  BY <1>1, PoppedAim DEF Based
<1>2. CASE /\ T(p)' = {"reply", "save"} \cup T(p)
           /\ local'[p].own = local[p].own /\ local'[p].old = local[p].old
           /\ local'[p].target \in Active /\ T(p) \subseteq Resume
  <2>1. local'[p].target \in Events /\ run'[local'[p].target] # "none"
    BY <1>2 DEF Grown, Known, Active
  <2>2. T(p)' \cap Mending = {}
    BY <1>2 DEF Resume, StartSteps, Making, Mending
  <2>3. Aim(p)
    BY DEF Based
  <2>4. QED BY <1>2, <2>1, <2>2, <2>3, TurnedAim DEF OwnSteps, Making, Mending
<1>3. QED BY <1>1, <1>2, SweepTurn DEF Based

LEMMA CollectAim == ASSUME Based, Grown, NEW p \in Procs, Collect(p) PROVE Aim(p)'
<1>1. CASE Popped(p, "collect")
  BY <1>1, PoppedAim DEF Based
<1>2. CASE /\ T(p)' = {"judge"} \cup T(p)
           /\ local'[p].own = local[p].own /\ local'[p].old = local[p].old
           /\ local'[p].target \in Events /\ run[local'[p].target] \in {"active", "stale"}
           /\ T(p) \subseteq Resume
  <2>1. local'[p].target \in Events /\ run'[local'[p].target] # "none"
    BY <1>2 DEF Grown, Known
  <2>2. T(p)' \cap Mending = {}
    BY <1>2 DEF Resume, StartSteps, Making, Mending
  <2>3. Aim(p)
    BY DEF Based
  <2>4. QED BY <1>2, <2>1, <2>2, <2>3, TurnedAim DEF OwnSteps, Making, Mending
<1>3. QED BY <1>1, <1>2, CollectTurn DEF Based

LEMMA RepairAim == ASSUME Based, Grown, NEW p \in Procs, Repair(p) PROVE Aim(p)'
<1>0. ingress \subseteq Events
  BY DEF Based, Stored, Rows
<1>1. CASE Popped(p, "repair")
  BY <1>1, PoppedAim DEF Based
<1>2. CASE /\ T(p)' = {"rmessage", "revent", "rrun", "rdelete"} \cup T(p)
           /\ local'[p].own = local[p].own /\ local'[p].old = local[p].old
           /\ local'[p].target \in ingress
           /\ T(p) \subseteq {"repair"} \cup AfterRepair
           /\ "judge" \in T(p) => "supersede" \in T(p)
  <2>1. /\ local'[p].target \in Events
        /\ local'[p].target \in ingress' \/ run'[local'[p].target] # "none"
    BY <1>0, <1>2 DEF Grown, Kept, Known
  <2>2. ~Settles(p)'
    BY <1>2 DEF Settles, Settling, AfterRepair, Making, SteerSteps, BootSteps
  <2>3. Aim(p) /\ "rrun" \in T(p)'
    BY <1>2 DEF Based
  <2>4. QED BY <1>2, <2>1, <2>2, <2>3, TurnedAim DEF OwnSteps, Making, Mending
<1>3. QED BY <1>0, <1>1, <1>2, RepairTurn DEF Based

LEMMA RepairEventAim == ASSUME Based, Grown, NEW p \in Procs, RepairEvent(p) PROVE Aim(p)'
<1>1. /\ Same(p) /\ "revent" \in T(p)
      /\ T(p) \ {"revent"} \subseteq T(p)' /\ T(p)' \subseteq (T(p) \ {"revent"}) \cup {"renqueue"}
  BY RepairEventTurn DEF Based
<1>2. /\ Aim(p) /\ local[p].target \in Events /\ Kept(local[p].target)
      /\ "rdelete" \in T(p) /\ "rrun" \notin T(p) => Known(local[p].target)
  BY <1>1 DEF Based, Aim, Mending
<1>3. /\ local[p].target \in ingress' \/ run'[local[p].target] # "none"
      /\ Known(local[p].target) => run'[local[p].target] # "none"
  BY <1>2 DEF Grown, Known, Kept
<1>4. Settles(p)' => Settles(p)
  BY <1>1 DEF Settles, Settling
<1>5. Settles(p)' => run'[local[p].target] # "none"
  BY <1>2, <1>3, <1>4 DEF Aim
<1>6. QED BY <1>1, <1>2, <1>3, <1>5, TurnedAim DEF OwnSteps, Making, Mending, Same

LEMMA CloseOldAim == ASSUME Based, Grown, NEW p \in Procs, CloseOld(p) PROVE Aim(p)'
<1>0. At(p, "supersede") /\ "supersede" \in T(p)
  BY Heading DEF Based, CloseOld
<1>1. local[p].old \in Events /\ Known(local[p].old) /\ Aim(p)
  BY <1>0 DEF Based, Aim
<1>2. CASE Raise(p) /\ local[p].todo # <<>>
  BY <1>2, Raising, IdleAim DEF Based
<1>3. CASE /\ Pops(p, "supersede") /\ local'[p].own = local[p].own
           /\ local'[p].old = local[p].old /\ local'[p].target = local[p].old
  <2>1. run'[local'[p].target] # "none" /\ local'[p].target \in Events
    BY <1>1, <1>3 DEF Grown, Known
  <2>2. T(p)' \cap Mending = {} /\ {"row", "run"} \cap T(p) \subseteq T(p)'
    BY <1>3 DEF Pops, After, AfterClaim, Mending
  <2>3. QED BY <1>1, <1>3, <2>1, <2>2, TurnedAim DEF OwnSteps, Making, Mending, Pops
<1>4. QED BY <1>1, <1>2, <1>3, CloseOldTurn DEF Based

LEMMA PlainAims ==
    ASSUME Based, Grown, NEW p \in Procs,
           \/ SaveFinal(p) \/ SaveItem(p) \/ CheckEvidence(p) \/ Rewrite(p)
           \/ RepairMessage(p) \/ RepairEnqueue(p) \/ RepairRun(p)
           \/ RepairDelete(p) \/ BindAll(p) \/ Supersede(p) \/ NewItem(p) \/ SaveRow(p)
           \/ AppendMessage(p) \/ Enqueue(p) \/ SaveRun(p) \/ DeleteRow(p)
    PROVE  Aim(p)'
<1>1. Aim(p) /\ Stored /\ ScriptInv
  BY DEF Based
<1>2. ASSUME RepairRun(p) PROVE run'[local[p].target] # "none"
  <2>1. "rrun" \in T(p)
    BY <1>2, PlainTurns DEF Based, Popped, Pops
  <2>2. local[p].target \in Events
    BY <1>1, <2>1 DEF Aim, Mending
  <2>3. QED BY <1>1, <1>2, <2>2 DEF RepairRun, Stored, Rows
<1>3. ASSUME SaveRun(p) PROVE run'[local[p].own] # "none"
  <2>1. "run" \in T(p)
    BY <1>3, PlainTurns DEF Based, Popped, Pops
  <2>2. local[p].own \in Events
    BY <1>1, <2>1 DEF Aim, OwnSteps, Making
  <2>3. QED BY <1>1, <1>3, <2>2 DEF SaveRun, Stored, Rows
<1>4. ASSUME SaveRow(p) PROVE local[p].own \in ingress'
  BY <1>4 DEF SaveRow
<1>5. SaveFinal(p) => Aim(p)'
  BY <1>1, PlainTurns, PoppedAim
<1>6. SaveItem(p) => Aim(p)'
  BY <1>1, PlainTurns, PoppedAim
<1>7. RepairMessage(p) => Aim(p)'
  BY <1>1, PlainTurns, PoppedAim
<1>8. RepairEnqueue(p) => Aim(p)'
  BY <1>1, PlainTurns, PoppedAim
<1>9. RepairRun(p) => Aim(p)'
  BY <1>1, <1>2, PlainTurns, PoppedAim
<1>10. RepairDelete(p) => Aim(p)'
  BY <1>1, PlainTurns, PoppedAim
<1>11. BindAll(p) => Aim(p)'
  BY <1>1, PlainTurns, PoppedAim
<1>12. Supersede(p) => Aim(p)'
  BY <1>1, PlainTurns, PoppedAim
<1>13. NewItem(p) => Aim(p)'
  BY <1>1, PlainTurns, PoppedAim
<1>14. SaveRow(p) => Aim(p)'
  BY <1>1, <1>4, PlainTurns, PoppedAim
<1>15. AppendMessage(p) => Aim(p)'
  BY <1>1, PlainTurns, PoppedAim
<1>16. Enqueue(p) => Aim(p)'
  BY <1>1, PlainTurns, PoppedAim
<1>17. SaveRun(p) => Aim(p)'
  BY <1>1, <1>3, PlainTurns, PoppedAim
<1>18. DeleteRow(p) => Aim(p)'
  BY <1>1, PlainTurns, PoppedAim
<1>19. CheckEvidence(p) => Aim(p)'
  BY <1>1, PlainTurns, PoppedAim
<1>20. Rewrite(p) => Aim(p)'
  BY <1>1, PlainTurns, PoppedAim
<1>21. QED BY <1>5, <1>6, <1>7, <1>8, <1>9, <1>10, <1>11, <1>12, <1>13, <1>14, <1>15, <1>16, <1>17, <1>18, <1>19, <1>20

(* The steps of a call, and its beginning.                                 *)
LEMMA CallAims ==
    ASSUME Based, Grown, NEW c \in Clients,
           \/ Look(c) \/ Result(c) \/ Project(c) \/ Outcomes(c)
           \/ Stop(c) \/ Ask(c) \/ Route(c) \/ Check(c) \/ Bind(c)
           \/ Await(c) \/ Decide(c) \/ Prepare(c) \/ Release(c)
    PROVE  Aim(c)'
<1>1. c \in Procs /\ ScriptInv /\ Aim(c) /\ Stored
  BY DEF Based, Procs
<1> USE <1>1
<1>2. ASSUME Raise(c), local[c].todo # <<>> PROVE Aim(c)'
  BY <1>2, Raising, IdleAim
<1>3. ASSUME T(c)' \subseteq {"result", "reply", "save", "judge", "project", "rewrite"},
             Settles(c),
             local'[c].target = local[c].target
      PROVE  Aim(c)'
  <2>1. local[c].target \in Events /\ run'[local[c].target] # "none"
    BY <1>3 DEF Aim, Grown, Known
  <2>2. QED BY <1>3, <2>1 DEF Aim, OwnSteps, Making, Mending, Known
<1>4. Look(c) => Aim(c)'
  BY <1>3, LookTurn DEF Settles
<1>5. Result(c) => Aim(c)'
  BY <1>3, ResultTurn DEF Settles, Same
<1>6. Stop(c) => Aim(c)'
  BY <1>2, StopTurn, PoppedAim
<1>7. Ask(c) => Aim(c)'
  BY <1>2, AskTurn, PoppedAim
<1>8. ASSUME local[c].own \in Events, local'[c].own = local[c].own,
             T(c)' = StartSteps \ {"wait"}
      PROVE  Aim(c)'
  BY <1>8 DEF Aim, Settles, Settling, StartSteps, Making, Mending
<1>9. ASSUME Route(c) PROVE Aim(c)'
  <2>1. local[c].own \in Events /\ local'[c].own = local[c].own
    BY <1>9, RouteTurn DEF Aim, OwnSteps
  <2>2. CASE T(c)' = {"await"} /\ local'[c].old \in Active
    <3>1. local'[c].old \in Events /\ run'[local'[c].old] # "none"
      BY <2>2 DEF Active, Grown, Known
    <3>2. QED BY <2>1, <2>2, <3>1 DEF Aim, Settles, Settling, Making, Mending, Known
  <2>3. QED BY <1>8, <1>9, <2>1, <2>2, RouteTurn
<1>10. Check(c) => Aim(c)'
  BY CheckTurn, PoppedAim, IdleAim
<1>11. Bind(c) => Aim(c)'
  BY BindTurn, IdleAim
<1>12. ASSUME Await(c) PROVE Aim(c)'
  <2>1. /\ T(c) = {"wait"} /\ T(c)' = {"judge", "collect"} /\ local'[c].target = local[c].own
    BY <1>12, AwaitTurn
  <2>2. local[c].own \in Events /\ run'[local[c].own] # "none"
    BY <2>1 DEF Aim, OwnSteps, Making, Grown, Known
  <2>3. QED BY <2>1, <2>2 DEF Aim, OwnSteps, Making, Mending, Known
<1>13. ASSUME Decide(c) PROVE Aim(c)'
  <2>1. T(c) = {"await"} /\ local[c].own \in Events /\ local[c].old \in Events
        /\ run'[local[c].old] # "none"
    BY <1>13, DecideTurn DEF Aim, OwnSteps, Grown, Known
  <2>2. CASE T(c)' = {"sweep"}
    BY <2>2 DEF Aim, Settles, Settling, OwnSteps, Making, Mending
  <2>3. CASE T(c)' = StartSteps \ {"wait"} /\ Same(c)
    BY <1>8, <2>1, <2>3 DEF Same
  <2>4. CASE T(c)' = {"prepare"} \cup SteerSteps /\ Same(c)
    BY <2>1, <2>4 DEF Aim, Settles, Settling, SteerSteps, Making, Mending, Same, Known
  <2>5. QED BY <1>13, <2>2, <2>3, <2>4, DecideTurn, IdleAim
<1>14. Prepare(c) => Aim(c)'
  BY <1>2, PrepareTurn, PoppedAim
<1>15. Release(c) => Aim(c)'
  BY ReleaseTurn, IdleAim
<1>16. Project(c) => Aim(c)'
  BY <1>3, ProjectTurn DEF Settles, Same
<1>17. ASSUME Outcomes(c) PROVE Aim(c)'
  <2>1. CASE T(c)' = {"rewrite", "outcomes"} /\ local'[c].target \in Unsaid
    <3>1. local'[c].target \in Events /\ run'[local'[c].target] # "none"
      BY <2>1 DEF Unsaid, Grown, Known
    <3>2. QED BY <2>1, <3>1 DEF Aim, OwnSteps, Making, Mending, Known
  <2>2. QED BY <1>17, <2>1, OutcomesTurn, PoppedAim
<1>18. QED BY <1>4, <1>5, <1>6, <1>7, <1>9, <1>10, <1>11, <1>12, <1>13, <1>14, <1>15, <1>16, <1>17

LEMMA NewCallAims ==
    ASSUME Based, NEW c \in Clients,
           \/ Start(c) \/ Submit(c)
           \/ Snapshot(c) \/ \E e \in Events : Progress(c, e) \/ Cancel(c, e)
    PROVE  Aim(c)' /\ ScriptInv' /\ Keeps(c) /\ UNCHANGED <<store, ledger, crashes>>
<1>1. ScriptInv
  BY DEF Based
<1>2. ASSUME Start(c) \/ Submit(c) PROVE Aim(c)'
  <2>1. local'[c].own \in Events
    BY <1>1, <1>2, StartTurn, SubmitTurn DEF Unused
  <2>2. \/ T(c)' = {"sweep", "route"}
        \/ T(c)' = {"repair", "collect", "check", "row", "message", "enqueue",
                    "run", "unrow", "wait"}
    BY <1>1, <1>2, StartTurn, SubmitTurn
  <2>3. QED BY <2>1, <2>2 DEF Aim, Settles, Settling, Making, Mending
<1>3. ASSUME Snapshot(c) \/ \E e \in Events : Progress(c, e) \/ Cancel(c, e)
      PROVE  Aim(c)'
  <2>1. CASE T(c)' = {"sweep", "collect", "outcomes"}
    BY <2>1 DEF Aim, Settles, Settling, OwnSteps, Making, Mending
  <2>2. CASE /\ T(c)' \in {{"look"}, {"stop", "ask", "look"}}
             /\ local'[c].target \in Events /\ run[local'[c].target] # "none"
    <3>1. UNCHANGED ledger
      BY <1>1, <1>3, AskingTurns
    <3>2. run'[local'[c].target] # "none"
      BY <2>2, <3>1 DEF ledger
    <3>3. QED BY <2>2, <3>2 DEF Aim, OwnSteps, Making, Mending, Known
  <2>3. QED BY <1>1, <1>3, <2>1, <2>2, AskingTurns
<1>4. QED BY <1>1, <1>2, <1>3, StartTurn, SubmitTurn, AskingTurns

(* One process moves, and the others stay where they are.                  *)
Moved(p) == ScriptInv' /\ Keeps(p) /\ Stored' /\ Grown /\ Aim(p)'

LEMMA MovedBased == ASSUME Based, NEW p, Moved(p) PROVE Based'
<1>1. \A q \in Procs \ {p} : Aim(q)'
  BY OthersAim DEF Based, Moved
<1>2. QED BY <1>1 DEF Based, Moved

LEMMA StepMoves == ASSUME Based, NEW p \in Procs, Step(p) PROVE Moved(p)
<1>0. ScriptInv /\ Stored /\ ingress \subseteq Events /\ Aim(p)
  BY DEF Based, Stored, Rows
<1> DEFINE Plain == \/ SaveFinal(p) \/ SaveItem(p) \/ CheckEvidence(p)
                    \/ RepairMessage(p) \/ RepairEnqueue(p) \/ RepairRun(p)
                    \/ RepairDelete(p) \/ BindAll(p) \/ Supersede(p)
<1>1. ASSUME Plain PROVE Moved(p)
  <2>1. ScriptInv' /\ Keeps(p)
    BY <1>0, <1>1, PlainTurns DEF Popped
  <2>2. Stored' /\ Grown
    BY <1>1, PlainStores
  <2>3. Aim(p)'
    BY <1>1, <2>2, PlainAims
  <2>4. QED BY <2>1, <2>2, <2>3 DEF Moved
<1>2. ASSUME Judge(p) \/ Sweep(p) \/ Repair(p) \/ RepairEvent(p) PROVE Moved(p)
  <2>1. ScriptInv' /\ Keeps(p)
    BY <1>0, <1>2, JudgeTurn, SweepTurn, RepairTurn, RepairEventTurn DEF Popped
  <2>2. UNCHANGED <<store, ledger>>
    BY <1>2 DEF Judge, Sweep, Repair, RepairEvent
  <2>3. Stored' /\ Grown
    BY <1>0, <2>2, StoreStays
  <2>4. Aim(p)'
    BY <1>2, <2>3, JudgeAim, SweepAim, RepairAim, RepairEventAim
  <2>5. QED BY <2>1, <2>3, <2>4 DEF Moved
<1>3. ASSUME Reply(p) PROVE Moved(p)
  BY <1>0, <1>3, ReplyTurn, JointStores, ReplyAim DEF Moved
<1>4. ASSUME CloseOld(p) PROVE Moved(p)
  <2>1. local[p].old \in Events
    <3>1. "supersede" \in T(p)
      BY <1>0, <1>4, Heading DEF CloseOld
    <3>2. QED BY <3>1, <1>0 DEF Aim
  <2>2. ScriptInv' /\ Keeps(p)
    BY <1>0, <1>4, <2>1, CloseOldTurn, Raising
  <2>3. QED BY <1>4, <2>2, JointStores, CloseOldAim DEF Moved
<1>5. QED BY <1>1, <1>2, <1>3, <1>4 DEF Step

LEMMA ClientMoves ==
    ASSUME Based, NEW c \in Clients, ClientStep(c) PROVE Moved(c)
<1>0. ScriptInv /\ Stored /\ c \in Procs /\ Aim(c)
  BY DEF Based, Procs
<1>1. CASE Step(c)
  BY <1>0, <1>1, StepMoves
<1>2. CASE \/ NewItem(c) \/ SaveRow(c) \/ AppendMessage(c) \/ Enqueue(c) \/ SaveRun(c)
           \/ DeleteRow(c) \/ Rewrite(c)
  <2>1. ScriptInv' /\ Keeps(c)
    BY <1>0, <1>2, PlainTurns DEF Popped
  <2>2. Stored' /\ Grown
    BY <1>0, <1>2, PlainStores
  <2>3. Aim(c)'
    BY <1>0, <1>2, <2>2, PlainAims
  <2>4. QED BY <2>1, <2>2, <2>3 DEF Moved
<1>3. CASE Collect(c)
  <2>1. ScriptInv' /\ Keeps(c)
    BY <1>0, <1>3, CollectTurn DEF Popped
  <2>2. UNCHANGED <<store, ledger>>
    BY <1>3 DEF Collect
  <2>3. Stored' /\ Grown
    BY <1>0, <2>2, StoreStays
  <2>4. QED BY <1>0, <1>3, <2>1, <2>3, CollectAim DEF Moved
<1>4. CASE \/ Look(c) \/ Result(c) \/ Project(c) \/ Outcomes(c)
           \/ Stop(c) \/ Route(c) \/ Await(c) \/ Decide(c) \/ Release(c)
  <2>1. ScriptInv' /\ Keeps(c)
    BY <1>0, <1>4, LookTurn, ResultTurn, ProjectTurn, OutcomesTurn, StopTurn, RouteTurn, AwaitTurn, DecideTurn,
       ReleaseTurn, Raising DEF Popped
  <2>2. UNCHANGED <<store, ledger>>
    BY <1>4 DEF Look, Result, Project, Outcomes, Stop, Route, Await, Decide, Release, Raise
  <2>3. Stored' /\ Grown
    BY <1>0, <2>2, StoreStays
  <2>4. Aim(c)'
    BY <1>4, <2>3, CallAims
  <2>5. QED BY <2>1, <2>3, <2>4 DEF Moved
<1>5. CASE Ask(c) \/ Check(c) \/ Bind(c) \/ Prepare(c)
  <2>1. ScriptInv' /\ Keeps(c)
    BY <1>0, <1>5, AskTurn, CheckTurn, BindTurn, PrepareTurn, Raising DEF Popped
  <2>2. Stored' /\ Grown
    BY <1>5, CallStores
  <2>3. Aim(c)'
    BY <1>5, <2>2, CallAims
  <2>4. QED BY <2>1, <2>2, <2>3 DEF Moved
<1>6. QED BY <1>1, <1>2, <1>3, <1>4, <1>5 DEF ClientStep

LEMMA BootMoves == ASSUME Based, BootStep PROVE Moved(Boot)
<1>0. ScriptInv /\ Stored /\ Boot \in Procs /\ Aim(Boot)
  BY DEF Based, Procs
<1>1. CASE Step(Boot)
  BY <1>0, <1>1, StepMoves
<1>2. ASSUME ReconcileSteering PROVE Moved(Boot)
  <2>1. \A e \in Events : payload[e].prev \in Events \cup {NoEvent}
    BY <1>0 DEF Stored, Rows
  <2>2. Stored' /\ Grown
    BY <1>2, OwnStores
  <2>3. CASE Popped(Boot, "steering")
    BY <1>0, <2>2, <2>3, PoppedAim DEF Moved, Popped
  <2>4. CASE Raise(Boot) /\ local[Boot].todo # <<>>
    BY <1>0, <2>2, <2>4, Raising, IdleAim DEF Moved
  <2>5. ASSUME NEW e \in Unfinished, ScriptInv', Keeps(Boot),
               T(Boot) \subseteq {"steering", "adopt", "sweep", "serve"},
               T(Boot)' = {"claim", "supersede", "judge"} \cup T(Boot),
               local'[Boot].old = payload[e].prev
        PROVE  Moved(Boot)
    <3>1. payload[e].prev \in Events /\ Known(payload[e].prev)
      BY <1>0, <2>1, <2>5 DEF Unfinished, Stored, Begun
    <3>2. local'[Boot].old \in Events /\ run'[local'[Boot].old] # "none"
      BY <2>2, <2>5, <3>1 DEF Grown, Known
    <3>3. Aim(Boot)'
      BY <2>5, <3>2 DEF Aim, Settles, Settling, OwnSteps, Making, Mending, Known
    <3>4. QED BY <2>2, <2>5, <3>3 DEF Moved
  <2>6. QED BY <1>0, <1>2, <2>1, <2>3, <2>4, <2>5, ReconcileTurn
<1>3. ASSUME Adopt PROVE Moved(Boot)
  BY <1>0, <1>3, AdoptTurn, OwnStores, PoppedAim DEF Moved, Popped
<1>4. ASSUME Serve PROVE Moved(Boot)
  <2>1. UNCHANGED <<store, ledger>>
    BY <1>4 DEF Serve
  <2>2. QED BY <1>0, <1>4, <2>1, ServeTurn, StoreStays, IdleAim DEF Moved
<1>5. QED BY <1>1, <1>2, <1>3, <1>4 DEF BootStep

(* A step is the move of one process, the life thread's, a restart, a      *)
(* crash or nothing.                                                       *)
Calls(c) == \/ Start(c) \/ Submit(c)
            \/ Snapshot(c) \/ \E e \in Events : Progress(c, e) \/ Cancel(c, e)

LEMMA NextCases ==
    ASSUME [Next]_vars
    PROVE  \/ \E c \in Clients : ClientStep(c) \/ Calls(c)
           \/ BootStep \/ Life \/ Restart \/ Crash \/ UNCHANGED vars
BY DEF Next, Calls

(* The life thread writes the store, or the acceptance of an item.         *)
LEMMA LifeCases ==
    ASSUME Life
    PROVE  /\ UNCHANGED <<plan, ingress, messages, payload, run, bound, reply>>
           /\ UNCHANGED <<up, lock, local, crashes>>
           /\ \/ \E e \in Events : (Take(e) \/ End(e)) /\ UNCHANGED ledger
              \/ \E e \in Events : (AskEvidence(e) \/ GiveEvidence(e)) /\ UNCHANGED store
<1>1. PICK e \in Events : Take(e) \/ End(e) \/ AskEvidence(e) \/ GiveEvidence(e)
  BY DEF Life
<1>2. CASE Take(e) \/ End(e)
  BY <1>2 DEF Take, End, ledger
<1>3. CASE AskEvidence(e) \/ GiveEvidence(e)
  BY <1>3 DEF AskEvidence, GiveEvidence, Working
<1>4. QED BY <1>1, <1>2, <1>3

LEMMA BasedStep == Based /\ [Next]_vars => Based'
<1> SUFFICES ASSUME Based, [Next]_vars PROVE Based'
  OBVIOUS
<1>0. ScriptInv /\ Stored
  BY DEF Based
<1>1. ASSUME NEW c \in Clients, ClientStep(c) PROVE Based'
  BY <1>1, ClientMoves, MovedBased
<1>2. ASSUME NEW c \in Clients, Calls(c) PROVE Based'
  <2>1. Aim(c)' /\ ScriptInv' /\ Keeps(c) /\ UNCHANGED <<store, ledger>>
    BY <1>2, NewCallAims DEF Calls
  <2>2. Stored' /\ Grown
    BY <1>0, <2>1, StoreStays
  <2>3. QED BY <2>1, <2>2, MovedBased DEF Moved
<1>3. ASSUME BootStep PROVE Based'
  BY <1>3, BootMoves, MovedBased
<1>4. ASSUME Stored', Grown, UNCHANGED <<local, up, lock>> PROVE Based'
  <2>1. ScriptInv' /\ \A p \in Procs : local'[p] = local[p] /\ T(p)' = T(p)
    BY <1>0, <1>4, ScriptsStay
  <2>2. Keeps(NoOne) /\ Procs \ {NoOne} = Procs
    BY <2>1, BootAssumption DEF Keeps
  <2>3. QED BY <1>4, <2>1, <2>2, OthersAim DEF Based
<1>5. ASSUME Life PROVE Based'
  <2>1. UNCHANGED <<local, up, lock>>
    BY <1>5 DEF Life, Take, End, AskEvidence, GiveEvidence, Working
  <2>2. QED BY <1>4, <1>5, <2>1, OwnStores
<1>6. ASSUME Restart PROVE Based'
  <2>1. ScriptInv' /\ Keeps(Boot) /\ T(Boot)' = {"repair"} \cup BootSteps
    BY <1>0, <1>6, RestartTurn
  <2>2. Aim(Boot)'
    BY <2>1 DEF Aim, Settles, Settling, OwnSteps, Making, Mending, BootSteps
  <2>3. QED BY <1>6, <2>1, <2>2, OwnStores, MovedBased DEF Moved
<1>7. ASSUME Crash PROVE Based'
  <2>1. ScriptInv' /\ \A p \in Procs : T(p)' = {}
    BY <1>0, <1>7, CrashTurn
  <2>2. Stored'
    BY <1>0, <1>7, StoreStays DEF Crash
  <2>3. QED BY <2>1, <2>2, IdleAim DEF Based
<1>8. ASSUME UNCHANGED vars PROVE Based'
  <2>1. UNCHANGED <<store, ledger>> /\ UNCHANGED <<local, up, lock>>
    BY <1>8 DEF vars
  <2>2. QED BY <1>0, <1>4, <2>1, StoreStays
<1>9. QED BY <1>1, <1>2, <1>3, <1>5, <1>6, <1>7, <1>8, NextCases

(* What is known stays known.                                              *)
LEMMA GrownStep == ASSUME Based, [Next]_vars PROVE Grown
<1>0. Stored
  BY DEF Based
<1>1. ASSUME NEW c \in Clients, ClientStep(c) PROVE Grown
  BY <1>1, ClientMoves DEF Moved
<1>2. ASSUME NEW c \in Clients, Calls(c) PROVE Grown
  BY <1>0, <1>2, NewCallAims, StoreStays DEF Calls
<1>3. ASSUME BootStep PROVE Grown
  BY <1>3, BootMoves DEF Moved
<1>4. ASSUME Crash \/ UNCHANGED vars PROVE Grown
  <2>1. UNCHANGED <<store, ledger>>
    BY <1>4 DEF Crash, vars
  <2>2. QED BY <1>0, <2>1, StoreStays
<1>5. QED BY <1>1, <1>2, <1>3, <1>4, OwnStores, NextCases

LEMMA BasedInit == Init => Based
<1> SUFFICES ASSUME Init PROVE Based
  OBVIOUS
<1>1. ScriptInv /\ \A p \in Procs : T(p) = {}
  BY ScriptInit
<1>2. Stored
  BY DEF Init, Stored, Rows, EventIsOwned, Begun, Known
<1>3. \A p \in Procs : Aim(p)
  BY <1>1 DEF Aim, Settles
<1>4. QED BY <1>1, <1>2, <1>3 DEF Based

LEMMA AlwaysBased == Spec => []Based
BY BasedInit, BasedStep, PTL DEF Spec

(* A queued event always has its run, or the ingress row that will make    *)
(* one: start and reconcile_ingress_checkpoints, whatever interleaves with *)
(* them and wherever a crash strikes.                                      *)
THEOREM OwnersAreKept == Spec => []EventIsOwned
<1>1. Based => EventIsOwned
  BY DEF Based, Stored
<1>2. QED BY <1>1, AlwaysBased, PTL

----------------------------------------------------------------------------
(* One start or steering at a time.                                        *)

(* From the scheduling of a start to its run, and the cycle lock.          *)
Begins(p) == T(p) \cap {"run", "release"} # {}

OneBegins == \A c, d \in Clients : Begins(c) /\ Begins(d) => c = d

(* No two calls make the same event.                                       *)
OwnIsApart ==
    \A p, q \in Procs : p # q /\ local[p].own = local[q].own => local[p].own = NoEvent

(* An event of which nothing is stored but its item.                       *)
Virgin(e) ==
    /\ status[e] = "none" /\ verdict[e] = "none" /\ ~Kept(e)
    /\ bound[e] = 0 /\ reply[e] = "none" /\ payload[e].prev = NoEvent

(* What a process is still to make is not there.                           *)
Waits == {"route", "await", "prepare", "row"}
Fresh(p) ==
    /\ T(p) \cap Waits # {} => Virgin(local[p].own)
    /\ "enqueue" \in T(p) => status[local[p].own] = "none"
    /\ "run" \in T(p) => ~Known(local[p].own) /\ payload[local[p].own].prev = NoEvent
    /\ "renqueue" \in T(p) => status[local[p].target] = "none"

Alone ==
    /\ Based /\ OneBegins /\ OwnIsApart /\ DecidedStaysDone
    /\ \A e \in Events : status[e] = "done" => verdict[e] # "none"
    /\ \A p \in Procs : Fresh(p)

(* While a process begins work or mends a row, no other does, and none     *)
(* changes plans.                                                          *)
Busy == Mending \cup {"repair", "prepare", "bindall", "claim", "supersede", "item",
                      "check", "row", "enqueue", "run", "release", "steering",
                      "adopt", "serve"}

LEMMA Lonely ==
    ASSUME ScriptInv, OneBegins, NEW q \in Procs, NEW p \in Procs \ {q},
           Begins(q) \/ T(q) \cap (Mending \cup {"repair"}) # {}
    PROVE  T(p) \cap Busy = {}
<1>1. /\ Fitting(p, T(p)) /\ Fitting(q, T(q)) /\ local[q].todo # <<>>
      /\ (p \in Clients \/ p = Boot) /\ (q \in Clients \/ q = Boot)
  BY NoSteps DEF ScriptInv, Procs, Begins
<1>2. CASE q = Boot
  <2>1. up = "booting" /\ p \in Clients /\ up # "up"
    BY <1>1, <1>2, Awake DEF Procs
  <2>2. local[p].todo = <<>>
    BY <2>1 DEF ScriptInv, Resting
  <2>3. QED BY <2>2, NoSteps
<1>3. CASE q \in Clients /\ p = Boot
  <2>1. up = "up" /\ up # "booting"
    BY <1>1, <1>3, Awake
  <2>2. local[p].todo = <<>>
    BY <1>3, <2>1 DEF ScriptInv, Resting
  <2>3. QED BY <2>2, NoSteps
<1>4. CASE q \in Clients /\ p \in Clients
  <2>1. Begins(q)
    BY <1>1, <1>4 DEF Fitting, Complete, OfClient, Begins
  <2>2. ~Begins(p)
    BY <1>4, <2>1 DEF OneBegins
  <2>3. QED BY <1>1, <1>4, <2>2 DEF Fitting, Complete, OfClient, Begins, Busy
<1>5. QED BY <1>1, <1>2, <1>3, <1>4 DEF Procs

(* Who may start is alone in it.                                           *)
LEMMA MayStartAlone ==
    ASSUME ~Overlapping, NEW c \in Clients, MayStart(c), NEW d \in Clients \ {c}
    PROVE  ~Begins(d)
BY DEF MayStart, Starting, Begins, T, Names

(* A process keeps its event, gives it up or makes one nobody makes; it    *)
(* begins alone, a start with its check, and a steering of what is open.   *)
Holding(p) ==
    /\ local'[p].own \in {local[p].own, NoEvent} \cup Unused(p)
    /\ p \in Clients /\ Begins(p)' => Begins(p) \/ MayStart(p)
    /\ "run" \in T(p)' => "run" \in T(p) \/ "check" \in T(p)'
    /\ "prepare" \in T(p)' => /\ local'[p].old = local[p].old
                              /\ "prepare" \in T(p) \/ verdict[local[p].old] = "none"

LEMMA HeldPop == ASSUME NEW p, NEW h, Popped(p, h) PROVE Holding(p)
BY DEF Popped, Pops, Same, Holding, Begins

LEMMA HeldIdle == ASSUME NEW p, local'[p] = Idle, T(p)' = {} PROVE Holding(p)
BY DEF Holding, Begins, Idle

LEMMA StepHolds == ASSUME Based, NEW p \in Procs, Step(p) PROVE Holding(p)
<1>0. ScriptInv /\ ingress \subseteq Events /\ Aim(p)
  BY DEF Based, Stored, Rows
<1>1. CASE \/ SaveFinal(p) \/ SaveItem(p) \/ CheckEvidence(p) \/ RepairMessage(p)
           \/ RepairEnqueue(p) \/ RepairRun(p) \/ RepairDelete(p) \/ BindAll(p) \/ Supersede(p)
  BY <1>0, <1>1, PlainTurns, HeldPop
<1>2. CASE Judge(p)
  BY <1>0, <1>2, JudgeTurn DEF Holding, Begins, StartSteps, SteerSteps, Making
<1>3. CASE Sweep(p)
  BY <1>0, <1>3, SweepTurn, HeldPop DEF Holding, Begins, StartSteps, SteerSteps, Making
<1>4. CASE Repair(p)
  BY <1>0, <1>4, RepairTurn, HeldPop DEF Holding, Begins, StartSteps, SteerSteps, Making
<1>5. CASE RepairEvent(p)
  BY <1>0, <1>5, RepairEventTurn DEF Holding, Begins, Same, StartSteps, SteerSteps, Making
<1>6. CASE Reply(p)
  BY <1>0, <1>6, ReplyTurn DEF Holding, Begins, Same, StartSteps, SteerSteps, Making
<1>7. CASE CloseOld(p)
  <2>1. "supersede" \in T(p)
    BY <1>0, <1>7, Heading DEF CloseOld
  <2>2. local[p].old \in Events
    BY <2>1, <1>0 DEF Aim
  <2>3. QED BY <1>0, <1>7, <2>2, CloseOldTurn, Raising, HeldIdle DEF Holding, Begins, Pops, StartSteps, SteerSteps, Making
<1>8. QED BY <1>1, <1>2, <1>3, <1>4, <1>5, <1>6, <1>7 DEF Step

LEMMA ClientHolds == ASSUME Based, NEW c \in Clients, ClientStep(c) \/ Calls(c) PROVE Holding(c)
<1>0. ScriptInv /\ c \in Procs
  BY DEF Based, Procs
<1>1. CASE Step(c)
  BY <1>0, <1>1, StepHolds
<1>2. CASE \/ NewItem(c) \/ SaveRow(c) \/ AppendMessage(c) \/ Enqueue(c) \/ SaveRun(c)
           \/ DeleteRow(c) \/ Rewrite(c)
  BY <1>0, <1>2, PlainTurns, HeldPop
<1>3. CASE Collect(c)
  BY <1>0, <1>3, CollectTurn, HeldPop DEF Holding, Begins, StartSteps, SteerSteps, Making
<1>4. CASE Look(c) \/ Result(c) \/ Project(c) \/ Outcomes(c)
  <2>1. CASE Look(c) \/ Result(c) \/ Project(c)
    BY <1>0, <2>1, LookTurn, ResultTurn, ProjectTurn DEF Holding, Begins, Same
  <2>2. CASE Outcomes(c)
    BY <1>0, <2>2, OutcomesTurn, HeldPop DEF Holding, Begins
  <2>3. QED BY <1>4, <2>1, <2>2
<1>5. CASE Stop(c) \/ Ask(c)
  BY <1>0, <1>5, StopTurn, AskTurn, Raising, HeldPop, HeldIdle
<1>6. CASE Route(c)
  BY <1>0, <1>6, RouteTurn DEF Holding, Begins, StartSteps, SteerSteps, Making
<1>7. CASE Check(c) \/ Bind(c) \/ Release(c)
  BY <1>0, <1>7, CheckTurn, BindTurn, ReleaseTurn, HeldPop, HeldIdle
<1>8. CASE Await(c)
  BY <1>0, <1>8, AwaitTurn DEF Holding, Begins, StartSteps, SteerSteps, Making
<1>9. CASE Decide(c)
  BY <1>0, <1>9, DecideTurn, HeldIdle DEF Holding, Begins, Same, StartSteps, SteerSteps, Making
<1>10. CASE Prepare(c)
  BY <1>0, <1>10, PrepareTurn, Raising, HeldPop, HeldIdle
<1>11. CASE Start(c)
  BY <1>0, <1>11, StartTurn DEF Holding, Begins, StartSteps, SteerSteps, Making
<1>12. CASE Submit(c)
  BY <1>0, <1>12, SubmitTurn DEF Holding, Begins, StartSteps, SteerSteps, Making
<1>13. CASE Snapshot(c) \/ \E e \in Events : Progress(c, e) \/ Cancel(c, e)
  BY <1>0, <1>13, AskingTurns DEF Holding, Begins, StartSteps, SteerSteps, Making
<1>14. QED
  BY <1>1, <1>2, <1>3, <1>4, <1>5, <1>6, <1>7, <1>8, <1>9, <1>10, <1>11, <1>12, <1>13
     DEF ClientStep, Calls

LEMMA BootHolds == ASSUME Based, BootStep PROVE Holding(Boot)
<1>0. ScriptInv /\ Boot \in Procs /\ Boot \notin Clients
  BY BootAssumption DEF Based, Procs
<1>1. CASE Step(Boot)
  BY <1>0, <1>1, StepHolds
<1>2. CASE ReconcileSteering
  <2>1. \A e \in Events : payload[e].prev \in Events \cup {NoEvent}
    BY DEF Based, Stored, Rows
  <2>2. QED BY <1>0, <1>2, <2>1, ReconcileTurn, HeldPop, Raising, HeldIdle DEF Holding
<1>3. CASE Adopt
  BY <1>0, <1>3, AdoptTurn, HeldPop
<1>4. CASE Serve
  BY <1>0, <1>4, ServeTurn, HeldIdle
<1>5. QED BY <1>1, <1>2, <1>3, <1>4 DEF BootStep

LEMMA ApartStays ==
    ASSUME ~Overlapping, NEW p \in Procs, Keeps(p), Holding(p), OneBegins, OwnIsApart
    PROVE  OneBegins' /\ OwnIsApart'
<1>1. OneBegins'
  <2> SUFFICES ASSUME NEW c \in Clients, NEW d \in Clients, Begins(c)', Begins(d)', c # d
               PROVE  FALSE
    BY DEF OneBegins
  <2>1. \A q \in Clients \ {p} : Begins(q)' <=> Begins(q)
    BY DEF Keeps, Begins, Procs
  <2>2. CASE c # p /\ d # p
    BY <2>1, <2>2 DEF OneBegins
  <2>3. ASSUME NEW q \in Clients \ {p}, Begins(q), Begins(p)', p \in Clients PROVE FALSE
    <3>1. Begins(p) \/ MayStart(p)
      BY <2>3 DEF Holding
    <3>2. QED BY <2>3, <3>1, MayStartAlone DEF OneBegins
  <2>4. QED BY <2>1, <2>2, <2>3
<1>2. OwnIsApart'
  <2>1. \A q \in Procs \ {p} : local'[q].own = local[q].own
    BY DEF Keeps
  <2>2. ASSUME NEW q \in Procs \ {p}, local'[p].own = local[q].own
        PROVE  local[q].own = NoEvent
    <3>1. CASE local'[p].own \in Unused(p)
      BY <2>2, <3>1 DEF Unused, Owned
    <3>2. QED BY <2>2, <3>1 DEF Holding, OwnIsApart
  <2>3. QED BY <2>1, <2>2 DEF OwnIsApart
<1>3. QED BY <1>1, <1>2

(* An event of which nothing is stored stays so, unless it is the event of *)
(* the process that moves, which then makes no more plans for it.          *)
Spares(p) ==
    \A e \in Events :
        Virgin(e) => Virgin(e)' \/ (e = local[p].own /\ T(p)' \cap Waits = {})

(* What is decided is done, and what is done is decided.                   *)
Decided ==
    /\ DecidedStaysDone
    /\ \A e \in Events : status[e] = "done" => verdict[e] # "none"

(* The event that p is about to enqueue, or to give a run, is left alone.  *)
Guarded(p) ==
    /\ "enqueue" \in T(p)' => status'[local[p].own] = status[local[p].own]
    /\ "run" \in T(p)' => /\ run'[local[p].own] = run[local[p].own]
                          /\ payload'[local[p].own].prev = payload[local[p].own].prev

LEMMA AloneFacts ==
    ASSUME Alone, NEW p \in Procs
    PROVE  /\ ScriptInv /\ Stored /\ Aim(p) /\ Fresh(p) /\ Decided /\ Based
           /\ local[p] \in Locals /\ Fitting(p, T(p))
BY DEF Alone, Based, ScriptInv, Decided

(* A start mends what others left before it makes its row.                 *)
LEMMA Starting1 ==
    ASSUME Alone, NEW p \in Procs, "run" \in T(p)
    PROVE  /\ T(p) \cap {"claim", "supersede", "release", "prepare", "bindall"} = {}
           /\ local[p].own \in Events
           /\ T(p) \cap (Mending \cup {"repair"}) # {} =>
                 "row" \in T(p) /\ Virgin(local[p].own)
<1>1. Aim(p) /\ Fresh(p) /\ Fitting(p, T(p))
  BY AloneFacts
<1>2. p \in Clients
  BY <1>1 DEF Fitting, OfBoot, Mending, Procs
<1>3. Complete(T(p)) /\ OfClient(T(p))
  BY <1>1, <1>2 DEF Fitting
<1>4. QED BY <1>1, <1>3 DEF Complete, OfClient, Aim, OwnSteps, Making, Fresh, Waits

LEMMA FreshPop ==
    ASSUME Alone, NEW p \in Procs, NEW h \in Steps, Popped(p, h), Spares(p), Guarded(p)
    PROVE  Fresh(p)'
<1>1. /\ T(p)' \subseteq T(p) /\ T(p)' \subseteq After(h) /\ h \in T(p)
      /\ local'[p].own = local[p].own /\ local'[p].target = local[p].target
  BY DEF Popped, Pops, Same
<1>2. "renqueue" \notin T(p)'
  BY <1>1 DEF After, Steps, StartSteps, Making, AfterRepair, SteerSteps, BootSteps, AfterClaim,
              Resume
<1>3. Fresh(p) /\ Aim(p)
  BY AloneFacts
<1>4. ASSUME T(p)' \cap Waits # {} PROVE Virgin(local[p].own)'
  <2>1. local[p].own \in Events /\ Virgin(local[p].own)
    BY <1>1, <1>3, <1>4 DEF Fresh, Aim, OwnSteps, Making, Waits
  <2>2. Virgin(local[p].own)' <=> \E e \in Events : e = local'[p].own /\ Virgin(e)'
    BY <2>1, <1>1
  <2>3. QED BY <2>1, <1>1, <1>4 DEF Spares, Virgin, Kept, Known
<1>5. /\ "enqueue" \in T(p)' => status'[local'[p].own] = "none"
      /\ "run" \in T(p)' => /\ run'[local'[p].own] = "none"
                            /\ payload'[local'[p].own].prev = NoEvent
  BY <1>1, <1>3 DEF Fresh, Guarded, Known
<1>6. QED BY <1>1, <1>2, <1>4, <1>5 DEF Fresh, Known

LEMMA PlainSpares ==
    ASSUME Alone, NEW p \in Procs,
           \/ SaveFinal(p) \/ SaveItem(p) \/ CheckEvidence(p) \/ Rewrite(p)
           \/ RepairMessage(p) \/ RepairEnqueue(p) \/ RepairRun(p)
           \/ RepairDelete(p) \/ BindAll(p) \/ Supersede(p) \/ NewItem(p) \/ SaveRow(p)
           \/ AppendMessage(p) \/ Enqueue(p) \/ SaveRun(p) \/ DeleteRow(p)
    PROVE  Fresh(p)' /\ Spares(p) /\ Decided'
<1>0. ScriptInv /\ Stored /\ Aim(p) /\ Fresh(p) /\ Decided /\ Fitting(p, T(p))
  BY AloneFacts
<1> USE DEF Stored, Rows, Virgin, Spares, Guarded, Kept, Known
<1>1. ASSUME SaveFinal(p) PROVE Fresh(p)' /\ Spares(p) /\ Decided'
  <2>1. Popped(p, "save") /\ "save" \in T(p) /\ T(p)' \subseteq T(p) /\ T(p)' \subseteq After("save")
        /\ T(p) \subseteq {"save"} \cup After("save")
    BY <1>0, <1>1, PlainTurns DEF Popped, Pops
  <2>2. local[p].target \in Events /\ Known(local[p].target)
    BY <1>0, <2>1 DEF Aim, Fresh, Settles, Settling, OwnSteps, Making, Mending
  <2>3. Spares(p)
    BY <1>0, <2>2, <2>1, <1>1 DEF SaveFinal, store, ledger, Waits, After, Making
  <2>4. Decided'
    BY <1>0, <2>2, <1>1 DEF SaveFinal, store, ledger, Decided, DecidedStaysDone
  <2>5. Guarded(p)
    <3>1. "run" \in T(p)' => /\ run'[local[p].own] = run[local[p].own]
                             /\ payload'[local[p].own].prev = payload[local[p].own].prev
      BY <1>0, <2>2, <2>1, <1>1, Starting1 DEF SaveFinal, store, ledger, After, Making, Mending, Fresh
    <3>2. "enqueue" \in T(p)' => status'[local[p].own] = status[local[p].own]
      BY <1>0, <2>2, <2>1, <1>1, Starting1 DEF SaveFinal, store, ledger, After, Making, Mending, Fitting, Complete
    <3>3. QED BY <3>1, <3>2
  <2>6. "save" \in Steps BY DEF Steps
  <2>7. Fresh(p)' BY ONLY Alone, p \in Procs, <2>1, <2>3, <2>5, <2>6, FreshPop
  <2>8. QED BY <2>3, <2>4, <2>7
<1>2. ASSUME SaveItem(p) PROVE Fresh(p)' /\ Spares(p) /\ Decided'
  <2>1. Popped(p, "saveitem") /\ "saveitem" \in T(p) /\ T(p)' \subseteq T(p) /\ T(p)' \subseteq After("saveitem")
        /\ T(p) \subseteq {"saveitem"} \cup After("saveitem")
    BY <1>0, <1>2, PlainTurns DEF Popped, Pops
  <2>3. Spares(p)
    BY <1>0, <2>1, <1>2 DEF SaveItem, store, ledger, Waits, After, Making
  <2>4. Decided'
    BY <1>0, <1>2 DEF SaveItem, store, ledger, Decided, DecidedStaysDone
  <2>5. Guarded(p)
    <3>1. "run" \in T(p)' => /\ run'[local[p].own] = run[local[p].own]
                             /\ payload'[local[p].own].prev = payload[local[p].own].prev
      BY <1>0, <2>1, <1>2, Starting1 DEF SaveItem, store, ledger, After, Making, Mending, Fresh
    <3>2. "enqueue" \in T(p)' => status'[local[p].own] = status[local[p].own]
      BY <1>0, <2>1, <1>2, Starting1 DEF SaveItem, store, ledger, After, Making, Mending, Fitting, Complete
    <3>3. QED BY <3>1, <3>2
  <2>6. "saveitem" \in Steps BY DEF Steps
  <2>7. Fresh(p)' BY ONLY Alone, p \in Procs, <2>1, <2>3, <2>5, <2>6, FreshPop
  <2>8. QED BY <2>3, <2>4, <2>7
<1>3. ASSUME RepairMessage(p) PROVE Fresh(p)' /\ Spares(p) /\ Decided'
  <2>1. Popped(p, "rmessage") /\ "rmessage" \in T(p) /\ T(p)' \subseteq T(p) /\ T(p)' \subseteq After("rmessage")
        /\ T(p) \subseteq {"rmessage"} \cup After("rmessage")
    BY <1>0, <1>3, PlainTurns DEF Popped, Pops
  <2>3. Spares(p)
    BY <1>0, <2>1, <1>3 DEF RepairMessage, store, ledger, Waits, After, Making
  <2>4. Decided'
    BY <1>0, <1>3 DEF RepairMessage, store, ledger, Decided, DecidedStaysDone
  <2>5. Guarded(p)
    <3>1. "run" \in T(p)' => /\ run'[local[p].own] = run[local[p].own]
                             /\ payload'[local[p].own].prev = payload[local[p].own].prev
      BY <1>0, <2>1, <1>3, Starting1 DEF RepairMessage, store, ledger, After, Making, Mending, Fresh
    <3>2. "enqueue" \in T(p)' => status'[local[p].own] = status[local[p].own]
      BY <1>0, <2>1, <1>3, Starting1 DEF RepairMessage, store, ledger, After, Making, Mending, Fitting, Complete
    <3>3. QED BY <3>1, <3>2
  <2>6. "rmessage" \in Steps BY DEF Steps
  <2>7. Fresh(p)' BY ONLY Alone, p \in Procs, <2>1, <2>3, <2>5, <2>6, FreshPop
  <2>8. QED BY <2>3, <2>4, <2>7
<1>4. ASSUME RepairEnqueue(p) PROVE Fresh(p)' /\ Spares(p) /\ Decided'
  <2>1. Popped(p, "renqueue") /\ "renqueue" \in T(p) /\ T(p)' \subseteq T(p) /\ T(p)' \subseteq After("renqueue")
        /\ T(p) \subseteq {"renqueue"} \cup After("renqueue")
    BY <1>0, <1>4, PlainTurns DEF Popped, Pops
  <2>2. local[p].target \in Events /\ Kept(local[p].target) /\ status[local[p].target] = "none"
    BY <1>0, <2>1 DEF Aim, Fresh, Settles, Settling, OwnSteps, Making, Mending
  <2>3. Spares(p)
    BY <1>0, <2>2, <2>1, <1>4 DEF RepairEnqueue, store, ledger, Waits, After, Making, Enqueued
  <2>4. Decided'
    BY <1>0, <2>2, <1>4 DEF RepairEnqueue, store, ledger, Decided, DecidedStaysDone, Enqueued
  <2>5. Guarded(p)
    <3>1. "run" \in T(p)' => /\ run'[local[p].own] = run[local[p].own]
                             /\ payload'[local[p].own].prev = payload[local[p].own].prev
      BY <1>0, <2>2, <2>1, <1>4, Starting1 DEF RepairEnqueue, store, ledger, After, Making, Mending, Fresh, Enqueued
    <3>2. "enqueue" \in T(p)' => status'[local[p].own] = status[local[p].own]
      BY <1>0, <2>2, <2>1, <1>4, Starting1 DEF RepairEnqueue, store, ledger, After, Making, Mending, Fitting, Complete, Enqueued
    <3>3. QED BY <3>1, <3>2
  <2>6. "renqueue" \in Steps BY DEF Steps
  <2>7. Fresh(p)' BY ONLY Alone, p \in Procs, <2>1, <2>3, <2>5, <2>6, FreshPop
  <2>8. QED BY <2>3, <2>4, <2>7
<1>5. ASSUME RepairRun(p) PROVE Fresh(p)' /\ Spares(p) /\ Decided'
  <2>1. Popped(p, "rrun") /\ "rrun" \in T(p) /\ T(p)' \subseteq T(p) /\ T(p)' \subseteq After("rrun")
        /\ T(p) \subseteq {"rrun"} \cup After("rrun")
    BY <1>0, <1>5, PlainTurns DEF Popped, Pops
  <2>2. local[p].target \in Events /\ Kept(local[p].target)
    BY <1>0, <2>1 DEF Aim, Fresh, Settles, Settling, OwnSteps, Making, Mending
  <2>3. Spares(p)
    BY <1>0, <2>2, <2>1, <1>5 DEF RepairRun, store, ledger, Waits, After, Making
  <2>4. Decided'
    BY <1>0, <2>2, <1>5 DEF RepairRun, store, ledger, Decided, DecidedStaysDone
  <2>5. Guarded(p)
    <3>1. "run" \in T(p)' => /\ run'[local[p].own] = run[local[p].own]
                             /\ payload'[local[p].own].prev = payload[local[p].own].prev
      BY <1>0, <2>2, <2>1, <1>5, Starting1 DEF RepairRun, store, ledger, After, Making, Mending, Fresh
    <3>2. "enqueue" \in T(p)' => status'[local[p].own] = status[local[p].own]
      BY <1>0, <2>2, <2>1, <1>5, Starting1 DEF RepairRun, store, ledger, After, Making, Mending, Fitting, Complete
    <3>3. QED BY <3>1, <3>2
  <2>6. "rrun" \in Steps BY DEF Steps
  <2>7. Fresh(p)' BY ONLY Alone, p \in Procs, <2>1, <2>3, <2>5, <2>6, FreshPop
  <2>8. QED BY <2>3, <2>4, <2>7
<1>6. ASSUME RepairDelete(p) PROVE Fresh(p)' /\ Spares(p) /\ Decided'
  <2>1. Popped(p, "rdelete") /\ "rdelete" \in T(p) /\ T(p)' \subseteq T(p) /\ T(p)' \subseteq After("rdelete")
        /\ T(p) \subseteq {"rdelete"} \cup After("rdelete")
    BY <1>0, <1>6, PlainTurns DEF Popped, Pops
  <2>3. Spares(p)
    BY <1>0, <2>1, <1>6 DEF RepairDelete, store, ledger, Waits, After, Making
  <2>4. Decided'
    BY <1>0, <1>6 DEF RepairDelete, store, ledger, Decided, DecidedStaysDone
  <2>5. Guarded(p)
    <3>1. "run" \in T(p)' => /\ run'[local[p].own] = run[local[p].own]
                             /\ payload'[local[p].own].prev = payload[local[p].own].prev
      BY <1>0, <2>1, <1>6, Starting1 DEF RepairDelete, store, ledger, After, Making, Mending, Fresh
    <3>2. "enqueue" \in T(p)' => status'[local[p].own] = status[local[p].own]
      BY <1>0, <2>1, <1>6, Starting1 DEF RepairDelete, store, ledger, After, Making, Mending, Fitting, Complete
    <3>3. QED BY <3>1, <3>2
  <2>6. "rdelete" \in Steps BY DEF Steps
  <2>7. Fresh(p)' BY ONLY Alone, p \in Procs, <2>1, <2>3, <2>5, <2>6, FreshPop
  <2>8. QED BY <2>3, <2>4, <2>7
<1>7. ASSUME BindAll(p) PROVE Fresh(p)' /\ Spares(p) /\ Decided'
  <2>1. Popped(p, "bindall") /\ "bindall" \in T(p) /\ T(p)' \subseteq T(p) /\ T(p)' \subseteq After("bindall")
        /\ T(p) \subseteq {"bindall"} \cup After("bindall")
    BY <1>0, <1>7, PlainTurns DEF Popped, Pops
  <2>3. Spares(p)
    BY <1>0, <2>1, <1>7 DEF BindAll, store, ledger, Waits, After, Making, BoundAll
  <2>4. Decided'
    BY <1>0, <1>7 DEF BindAll, store, ledger, Decided, DecidedStaysDone, BoundAll
  <2>5. Guarded(p)
    <3>1. "run" \in T(p)' => /\ run'[local[p].own] = run[local[p].own]
                             /\ payload'[local[p].own].prev = payload[local[p].own].prev
      BY <1>0, <2>1, <1>7, Starting1 DEF BindAll, store, ledger, After, Making, Mending, Fresh, BoundAll
    <3>2. "enqueue" \in T(p)' => status'[local[p].own] = status[local[p].own]
      BY <1>0, <2>1, <1>7, Starting1 DEF BindAll, store, ledger, After, Making, Mending, Fitting, Complete, BoundAll
    <3>3. QED BY <3>1, <3>2
  <2>6. "bindall" \in Steps BY DEF Steps
  <2>7. Fresh(p)' BY ONLY Alone, p \in Procs, <2>1, <2>3, <2>5, <2>6, FreshPop
  <2>8. QED BY <2>3, <2>4, <2>7
<1>8. ASSUME Supersede(p) PROVE Fresh(p)' /\ Spares(p) /\ Decided'
  <2>1. Popped(p, "claim") /\ "claim" \in T(p) /\ T(p)' \subseteq T(p) /\ T(p)' \subseteq After("claim")
        /\ T(p) \subseteq {"claim"} \cup After("claim")
    BY <1>0, <1>8, PlainTurns DEF Popped, Pops
  <2>2. local[p].old \in Events /\ Known(local[p].old)
    BY <1>0, <2>1 DEF Aim, Fresh, Settles, Settling, OwnSteps, Making, Mending
  <2>3. Spares(p)
    BY <1>0, <2>2, <2>1, <1>8 DEF Supersede, store, ledger, Waits, After, Making
  <2>4. Decided'
    BY <1>0, <2>2, <1>8 DEF Supersede, store, ledger, Decided, DecidedStaysDone
  <2>5. Guarded(p)
    <3>1. "run" \in T(p)' => /\ run'[local[p].own] = run[local[p].own]
                             /\ payload'[local[p].own].prev = payload[local[p].own].prev
      BY <1>0, <2>2, <2>1, <1>8, Starting1 DEF Supersede, store, ledger, After, Making, Mending, Fresh
    <3>2. "enqueue" \in T(p)' => status'[local[p].own] = status[local[p].own]
      BY <1>0, <2>2, <2>1, <1>8, Starting1 DEF Supersede, store, ledger, After, Making, Mending, Fitting, Complete
    <3>3. QED BY <3>1, <3>2
  <2>6. "claim" \in Steps BY DEF Steps
  <2>7. Fresh(p)' BY ONLY Alone, p \in Procs, <2>1, <2>3, <2>5, <2>6, FreshPop
  <2>8. QED BY <2>3, <2>4, <2>7
<1>9. ASSUME NewItem(p) PROVE Fresh(p)' /\ Spares(p) /\ Decided'
  <2>1. Popped(p, "item") /\ "item" \in T(p) /\ T(p)' \subseteq T(p) /\ T(p)' \subseteq After("item")
        /\ T(p) \subseteq {"item"} \cup After("item")
    BY <1>0, <1>9, PlainTurns DEF Popped, Pops
  <2>2. local[p].own \in Events
    BY <1>0, <2>1 DEF Aim, Fresh, Settles, Settling, OwnSteps, Making, Mending
  <2>3. Spares(p)
    BY <1>0, <2>2, <2>1, <1>9 DEF NewItem, store, ledger, Waits, After, Making
  <2>4. Decided'
    BY <1>0, <2>2, <1>9 DEF NewItem, store, ledger, Decided, DecidedStaysDone
  <2>5. Guarded(p)
    <3>1. "run" \in T(p)' => /\ run'[local[p].own] = run[local[p].own]
                             /\ payload'[local[p].own].prev = payload[local[p].own].prev
      BY <1>0, <2>2, <2>1, <1>9, Starting1 DEF NewItem, store, ledger, After, Making, Mending, Fresh
    <3>2. "enqueue" \in T(p)' => status'[local[p].own] = status[local[p].own]
      BY <1>0, <2>2, <2>1, <1>9, Starting1 DEF NewItem, store, ledger, After, Making, Mending, Fitting, Complete
    <3>3. QED BY <3>1, <3>2
  <2>6. "item" \in Steps BY DEF Steps
  <2>7. Fresh(p)' BY ONLY Alone, p \in Procs, <2>1, <2>3, <2>5, <2>6, FreshPop
  <2>8. QED BY <2>3, <2>4, <2>7
<1>10. ASSUME SaveRow(p) PROVE Fresh(p)' /\ Spares(p) /\ Decided'
  <2>1. Popped(p, "row") /\ "row" \in T(p) /\ T(p)' \subseteq T(p) /\ T(p)' \subseteq After("row")
        /\ T(p) \subseteq {"row"} \cup After("row")
    BY <1>0, <1>10, PlainTurns DEF Popped, Pops
  <2>2. local[p].own \in Events
    BY <1>0, <2>1 DEF Aim, Fresh, Settles, Settling, OwnSteps, Making, Mending
  <2>3. Spares(p)
    BY <1>0, <2>2, <2>1, <1>10 DEF SaveRow, store, ledger, Waits, After, Making
  <2>4. Decided'
    BY <1>0, <2>2, <1>10 DEF SaveRow, store, ledger, Decided, DecidedStaysDone
  <2>5. Guarded(p)
    <3>1. "run" \in T(p)' => /\ run'[local[p].own] = run[local[p].own]
                             /\ payload'[local[p].own].prev = payload[local[p].own].prev
      BY <1>0, <2>2, <2>1, <1>10, Starting1 DEF SaveRow, store, ledger, After, Making, Mending, Fresh
    <3>2. "enqueue" \in T(p)' => status'[local[p].own] = status[local[p].own]
      BY <1>0, <2>2, <2>1, <1>10, Starting1 DEF SaveRow, store, ledger, After, Making, Mending, Fitting, Complete
    <3>3. QED BY <3>1, <3>2
  <2>6. "row" \in Steps BY DEF Steps
  <2>7. Fresh(p)' BY ONLY Alone, p \in Procs, <2>1, <2>3, <2>5, <2>6, FreshPop
  <2>8. QED BY <2>3, <2>4, <2>7
<1>11. ASSUME AppendMessage(p) PROVE Fresh(p)' /\ Spares(p) /\ Decided'
  <2>1. Popped(p, "message") /\ "message" \in T(p) /\ T(p)' \subseteq T(p) /\ T(p)' \subseteq After("message")
        /\ T(p) \subseteq {"message"} \cup After("message")
    BY <1>0, <1>11, PlainTurns DEF Popped, Pops
  <2>3. Spares(p)
    BY <1>0, <2>1, <1>11 DEF AppendMessage, store, ledger, Waits, After, Making
  <2>4. Decided'
    BY <1>0, <1>11 DEF AppendMessage, store, ledger, Decided, DecidedStaysDone
  <2>5. Guarded(p)
    <3>1. "run" \in T(p)' => /\ run'[local[p].own] = run[local[p].own]
                             /\ payload'[local[p].own].prev = payload[local[p].own].prev
      BY <1>0, <2>1, <1>11, Starting1 DEF AppendMessage, store, ledger, After, Making, Mending, Fresh
    <3>2. "enqueue" \in T(p)' => status'[local[p].own] = status[local[p].own]
      BY <1>0, <2>1, <1>11, Starting1 DEF AppendMessage, store, ledger, After, Making, Mending, Fitting, Complete
    <3>3. QED BY <3>1, <3>2
  <2>6. "message" \in Steps BY DEF Steps
  <2>7. Fresh(p)' BY ONLY Alone, p \in Procs, <2>1, <2>3, <2>5, <2>6, FreshPop
  <2>8. QED BY <2>3, <2>4, <2>7
<1>12. ASSUME Enqueue(p) PROVE Fresh(p)' /\ Spares(p) /\ Decided'
  <2>1. Popped(p, "enqueue") /\ "enqueue" \in T(p) /\ T(p)' \subseteq T(p) /\ T(p)' \subseteq After("enqueue")
        /\ T(p) \subseteq {"enqueue"} \cup After("enqueue")
    BY <1>0, <1>12, PlainTurns DEF Popped, Pops
  <2>2. local[p].own \in Events /\ status[local[p].own] = "none"
    BY <1>0, <2>1 DEF Aim, Fresh, Settles, Settling, OwnSteps, Making, Mending
  <2>3. Spares(p)
    BY <1>0, <2>2, <2>1, <1>12 DEF Enqueue, store, ledger, Waits, After, Making, Enqueued
  <2>4. Decided'
    BY <1>0, <2>2, <1>12 DEF Enqueue, store, ledger, Decided, DecidedStaysDone, Enqueued
  <2>5. Guarded(p)
    <3>1. "run" \in T(p)' => /\ run'[local[p].own] = run[local[p].own]
                             /\ payload'[local[p].own].prev = payload[local[p].own].prev
      BY <1>0, <2>2, <2>1, <1>12, Starting1 DEF Enqueue, store, ledger, After, Making, Mending, Fresh, Enqueued
    <3>2. "enqueue" \in T(p)' => status'[local[p].own] = status[local[p].own]
      BY <1>0, <2>2, <2>1, <1>12, Starting1 DEF Enqueue, store, ledger, After, Making, Mending, Fitting, Complete, Enqueued
    <3>3. QED BY <3>1, <3>2
  <2>6. "enqueue" \in Steps BY DEF Steps
  <2>7. Fresh(p)' BY ONLY Alone, p \in Procs, <2>1, <2>3, <2>5, <2>6, FreshPop
  <2>8. QED BY <2>3, <2>4, <2>7
<1>13. ASSUME SaveRun(p) PROVE Fresh(p)' /\ Spares(p) /\ Decided'
  <2>1. Popped(p, "run") /\ "run" \in T(p) /\ T(p)' \subseteq T(p) /\ T(p)' \subseteq After("run")
        /\ T(p) \subseteq {"run"} \cup After("run")
    BY <1>0, <1>13, PlainTurns DEF Popped, Pops
  <2>2. local[p].own \in Events
    BY <1>0, <2>1 DEF Aim, Fresh, Settles, Settling, OwnSteps, Making, Mending
  <2>3. Spares(p)
    BY <1>0, <2>2, <2>1, <1>13 DEF SaveRun, store, ledger, Waits, After, Making
  <2>4. Decided'
    BY <1>0, <2>2, <1>13 DEF SaveRun, store, ledger, Decided, DecidedStaysDone
  <2>5. Guarded(p)
    <3>1. "run" \in T(p)' => /\ run'[local[p].own] = run[local[p].own]
                             /\ payload'[local[p].own].prev = payload[local[p].own].prev
      BY <1>0, <2>2, <2>1, <1>13, Starting1 DEF SaveRun, store, ledger, After, Making, Mending, Fresh
    <3>2. "enqueue" \in T(p)' => status'[local[p].own] = status[local[p].own]
      BY <1>0, <2>2, <2>1, <1>13, Starting1 DEF SaveRun, store, ledger, After, Making, Mending, Fitting, Complete
    <3>3. QED BY <3>1, <3>2
  <2>6. "run" \in Steps BY DEF Steps
  <2>7. Fresh(p)' BY ONLY Alone, p \in Procs, <2>1, <2>3, <2>5, <2>6, FreshPop
  <2>8. QED BY <2>3, <2>4, <2>7
<1>14. ASSUME DeleteRow(p) PROVE Fresh(p)' /\ Spares(p) /\ Decided'
  <2>1. Popped(p, "unrow") /\ "unrow" \in T(p) /\ T(p)' \subseteq T(p) /\ T(p)' \subseteq After("unrow")
        /\ T(p) \subseteq {"unrow"} \cup After("unrow")
    BY <1>0, <1>14, PlainTurns DEF Popped, Pops
  <2>3. Spares(p)
    BY <1>0, <2>1, <1>14 DEF DeleteRow, store, ledger, Waits, After, Making
  <2>4. Decided'
    BY <1>0, <1>14 DEF DeleteRow, store, ledger, Decided, DecidedStaysDone
  <2>5. Guarded(p)
    <3>1. "run" \in T(p)' => /\ run'[local[p].own] = run[local[p].own]
                             /\ payload'[local[p].own].prev = payload[local[p].own].prev
      BY <1>0, <2>1, <1>14, Starting1 DEF DeleteRow, store, ledger, After, Making, Mending, Fresh
    <3>2. "enqueue" \in T(p)' => status'[local[p].own] = status[local[p].own]
      BY <1>0, <2>1, <1>14, Starting1 DEF DeleteRow, store, ledger, After, Making, Mending, Fitting, Complete
    <3>3. QED BY <3>1, <3>2
  <2>6. "unrow" \in Steps BY DEF Steps
  <2>7. Fresh(p)' BY ONLY Alone, p \in Procs, <2>1, <2>3, <2>5, <2>6, FreshPop
  <2>8. QED BY <2>3, <2>4, <2>7
<1>15. ASSUME CheckEvidence(p) PROVE Fresh(p)' /\ Spares(p) /\ Decided'
  <2>1. Popped(p, "evidence") /\ T(p)' \subseteq T(p) /\ T(p)' \subseteq After("evidence")
    BY <1>0, <1>15, PlainTurns DEF Popped, Pops
  <2>2. UNCHANGED <<store, plan, ingress, messages, payload, run, bound>>
        /\ \A e \in Events : reply[e] = "none" => reply'[e] = "none"
    BY <1>0, <1>15 DEF CheckEvidence
  <2>3. Spares(p)
    BY <2>2 DEF store
  <2>4. Decided'
    BY <1>0, <2>2 DEF store, Decided, DecidedStaysDone
  <2>5. Guarded(p)
    BY <2>2 DEF store
  <2>6. "evidence" \in Steps BY DEF Steps
  <2>7. Fresh(p)' BY ONLY Alone, p \in Procs, <2>1, <2>3, <2>5, <2>6, FreshPop
  <2>8. QED BY <2>3, <2>4, <2>7
<1>16. ASSUME Rewrite(p) PROVE Fresh(p)' /\ Spares(p) /\ Decided'
  <2>1. Popped(p, "rewrite") /\ T(p)' \subseteq T(p) /\ T(p)' \subseteq After("rewrite")
    BY <1>0, <1>16, PlainTurns DEF Popped, Pops
  <2>2. UNCHANGED <<store, plan, ingress, messages, payload, run, bound>>
        /\ \A e \in Events : reply[e] = "none" => reply'[e] = "none"
    BY <1>0, <1>16 DEF Rewrite
  <2>3. Spares(p)
    BY <2>2 DEF store
  <2>4. Decided'
    BY <1>0, <2>2 DEF store, Decided, DecidedStaysDone
  <2>5. Guarded(p)
    BY <2>2 DEF store
  <2>6. "rewrite" \in Steps BY DEF Steps
  <2>7. Fresh(p)' BY ONLY Alone, p \in Procs, <2>1, <2>3, <2>5, <2>6, FreshPop
  <2>8. QED BY <2>3, <2>4, <2>7
<1>17. QED BY <1>1, <1>2, <1>3, <1>4, <1>5, <1>6, <1>7, <1>8, <1>9, <1>10, <1>11, <1>12, <1>13, <1>14, <1>15, <1>16

(* A turn that writes nothing an event is judged by.                       *)
LEMMA StillSpares ==
    ASSUME Alone, NEW p, UNCHANGED <<status, verdict, ledger>>
    PROVE  Spares(p) /\ Decided'
BY DEF Alone, Spares, Decided, DecidedStaysDone, Virgin, Kept, Known, ledger

LEMMA FreshTurn ==
    ASSUME Alone, NEW p \in Procs, UNCHANGED <<status, verdict, ledger>>,
           T(p)' \cap (Waits \cup {"enqueue", "run"}) \subseteq T(p),
           local'[p].own = local[p].own,
           "renqueue" \in T(p)' => status[local'[p].target] = "none"
    PROVE  Fresh(p)'
BY AloneFacts DEF Fresh, Virgin, Kept, Known, ledger

LEMMA IdleFresh == ASSUME NEW p, T(p)' = {} PROVE Fresh(p)'
BY DEF Fresh

(* Everything about one step of the process p that what is alone asks for. *)
Fine(p) == Fresh(p)' /\ Spares(p) /\ Decided'

LEMMA StepFine == ASSUME Alone, NEW p \in Procs, Step(p) PROVE Fine(p)
<1>0. /\ ScriptInv /\ Stored /\ Aim(p) /\ Fresh(p) /\ Decided /\ Based
      /\ ingress \subseteq Events
  BY AloneFacts DEF Stored, Rows
<1>1. CASE \/ SaveFinal(p) \/ SaveItem(p) \/ CheckEvidence(p) \/ RepairMessage(p)
           \/ RepairEnqueue(p) \/ RepairRun(p) \/ RepairDelete(p) \/ BindAll(p) \/ Supersede(p)
  BY <1>1, PlainSpares DEF Fine
<1>2. ASSUME Judge(p) PROVE Fine(p)
  <2>1. UNCHANGED <<status, verdict, ledger>>
    BY <1>2 DEF Judge, store
  <2>2. /\ T(p)' \subseteq T(p) \cup Settling /\ local'[p].own = local[p].own
    BY <1>0, <1>2, JudgeTurn DEF Settling
  <2>3. "renqueue" \notin T(p)
    BY <1>0, <1>2, Heading DEF Judge, After, Resume, StartSteps, Making
  <2>4. QED BY <2>1, <2>2, <2>3, StillSpares, FreshTurn DEF Fine, Settling, Waits
<1>3. ASSUME Sweep(p) PROVE Fine(p)
  <2>1. UNCHANGED <<status, verdict, ledger>>
    BY <1>3 DEF Sweep, store
  <2>2. /\ T(p)' \subseteq T(p) \cup {"reply", "save"} /\ local'[p].own = local[p].own
    BY <1>0, <1>3, SweepTurn DEF Popped, Pops, Same
  <2>3. "renqueue" \notin T(p)
    BY <1>0, <1>3, Heading DEF Sweep, After, StartSteps, Making
  <2>4. QED BY <2>1, <2>2, <2>3, StillSpares, FreshTurn DEF Fine, Waits
<1>4. ASSUME Repair(p) PROVE Fine(p)
  <2>1. UNCHANGED <<status, verdict, ledger>>
    BY <1>4 DEF Repair, store
  <2>2. /\ T(p)' \subseteq T(p) \cup {"rmessage", "revent", "rrun", "rdelete"}
        /\ local'[p].own = local[p].own
    BY <1>0, <1>4, RepairTurn DEF Popped, Pops, Same
  <2>3. "renqueue" \notin T(p)
    BY <1>0, <1>4, Heading DEF Repair, After, AfterRepair, Making, SteerSteps, BootSteps
  <2>4. QED BY <2>1, <2>2, <2>3, StillSpares, FreshTurn DEF Fine, Waits
<1>5. ASSUME RepairEvent(p) PROVE Fine(p)
  <2>1. UNCHANGED <<status, verdict, ledger>>
    BY <1>5 DEF RepairEvent, store
  <2>2. /\ T(p)' \subseteq T(p) \cup {"renqueue"}
        /\ local'[p].own = local[p].own /\ local'[p].target = local[p].target
        /\ "renqueue" \in T(p)' => status[local[p].target] = "none"
    BY <1>0, <1>5, RepairEventTurn DEF Same
  <2>4. QED BY <2>1, <2>2, StillSpares, FreshTurn DEF Fine, Waits
<1>6. ASSUME Reply(p) PROVE Fine(p)
  <2>1. /\ "reply" \in T(p) /\ T(p)' \subseteq T(p)
        /\ local'[p].own = local[p].own /\ local'[p].target = local[p].target
    BY <1>0, <1>6, ReplyTurn DEF Same
  <2>2. "renqueue" \notin T(p)
    BY <1>0, <1>6, Heading DEF Reply, After, Resume, StartSteps, Making
  <2>3. local[p].target \in Events /\ Known(local[p].target)
    BY <1>0, <2>1 DEF Aim, Settles, Settling
  <2>4. /\ UNCHANGED <<store, plan, ingress, messages, payload, run, bound, item>>
        /\ \A e \in Events : e # local[p].target => reply'[e] = reply[e]
    BY <1>0, <1>6 DEF Reply, Stored, Rows
  <2>5. Decided'
    BY <1>0, <2>4 DEF Decided, DecidedStaysDone, store
  <2>6. \A e \in Events : Virgin(e) => Virgin(e)'
    BY <2>3, <2>4 DEF Virgin, Kept, Known, store
  <2>7. T(p) \cap Waits # {} => local[p].own \in Events
    BY <1>0 DEF Aim, OwnSteps, Making, Waits
  <2>8. T(p)' \cap Waits # {} => Virgin(local[p].own)'
    <3>1. ASSUME T(p)' \cap Waits # {} PROVE Virgin(local[p].own)'
      <4>1. local[p].own \in Events /\ Virgin(local[p].own)
        BY <1>0, <2>1, <2>7, <3>1 DEF Fresh
      <4>2. QED BY <4>1, <2>1, <2>6 DEF Virgin, Kept, Known
    <3>2. QED BY <3>1
  <2>9. Fresh(p)'
    BY <1>0, <2>1, <2>2, <2>4, <2>8 DEF Fresh, Known, store
  <2>10. QED BY <2>5, <2>6, <2>9 DEF Fine, Spares
<1>7. ASSUME CloseOld(p) PROVE Fine(p)
  <2>0. "supersede" \in T(p)
    BY <1>0, <1>7, Heading DEF CloseOld
  <2>1. local[p].old \in Events /\ Known(local[p].old)
    BY <1>0, <2>0 DEF Aim
  <2>2. \A e \in Events : Virgin(e) => Virgin(e)'
    <3>1. UNCHANGED ledger
      BY <1>7 DEF CloseOld, Raise
    <3>2. \A e \in Events : e # local[p].old => status'[e] = status[e] /\ verdict'[e] = verdict[e]
      BY <1>0, <1>7, <2>1 DEF CloseOld, Raise, store, Stored, Rows
    <3>3. QED BY <2>1, <3>1, <3>2 DEF Virgin, Kept, Known, ledger
  <2>3. Decided'
    <3>1. CASE UNCHANGED store
      BY <1>0, <3>1 DEF store, Decided, DecidedStaysDone
    <3>2. CASE /\ status' = [status EXCEPT ![local[p].old] = "done"]
               /\ verdict' = [verdict EXCEPT ![local[p].old] = Verdict(local[p].old, "failure")]
      BY <1>0, <2>1, <3>2 DEF Decided, DecidedStaysDone, Verdict, Stored, Rows
    <3>3. QED BY <1>7, <3>1, <3>2 DEF CloseOld, Raise
  <2>4. Fresh(p)'
    <3>1. CASE T(p)' = {}
      BY <3>1, IdleFresh
    <3>2. CASE Pops(p, "supersede")
      BY <3>2 DEF Pops, After, AfterClaim, Fresh, Waits
    <3>3. QED BY <1>0, <1>7, <2>1, <3>1, <3>2, CloseOldTurn, Raising
  <2>5. QED BY <2>2, <2>3, <2>4 DEF Fine, Spares
<1>8. QED BY <1>1, <1>2, <1>3, <1>4, <1>5, <1>6, <1>7 DEF Step

LEMMA ClientFine == ASSUME Alone, NEW c \in Clients, ClientStep(c) PROVE Fine(c)
<1>0. /\ ScriptInv /\ Stored /\ Aim(c) /\ Fresh(c) /\ Decided /\ Based /\ c \in Procs
  BY AloneFacts DEF Procs
<1>1. CASE Step(c)
  BY <1>0, <1>1, StepFine
<1>2. CASE \/ NewItem(c) \/ SaveRow(c) \/ AppendMessage(c) \/ Enqueue(c) \/ SaveRun(c)
           \/ DeleteRow(c) \/ Rewrite(c)
  BY <1>0, <1>2, PlainSpares DEF Fine
<1>3. ASSUME Collect(c) PROVE Fine(c)
  <2>1. UNCHANGED <<status, verdict, ledger>>
    BY <1>3 DEF Collect, store
  <2>2. /\ T(c)' \subseteq T(c) \cup {"judge"} /\ local'[c].own = local[c].own
    BY <1>0, <1>3, CollectTurn DEF Popped, Pops, Same
  <2>3. "renqueue" \notin T(c)
    BY <1>0, <1>3, Heading DEF Collect, After, StartSteps, Making
  <2>4. QED BY <1>0, <2>1, <2>2, <2>3, StillSpares, FreshTurn DEF Fine, Waits
<1>4. CASE Look(c) \/ Result(c) \/ Project(c) \/ Outcomes(c) \/ Await(c)
  <2>1. UNCHANGED <<status, verdict, ledger>>
    BY <1>4 DEF Look, Result, Project, Outcomes, Await, store
  <2>2. T(c)' \subseteq {"result", "reply", "save", "judge", "collect", "project", "rewrite",
                         "outcomes"}
    BY <1>0, <1>4, LookTurn, ResultTurn, ProjectTurn, OutcomesTurn, AwaitTurn DEF Popped, Pops
  <2>3. Fresh(c)'
    BY <2>2 DEF Fresh, Waits
  <2>4. QED BY <2>1, <2>3, StillSpares DEF Fine
<1>5. CASE Stop(c) \/ Ask(c)
  <2>1. UNCHANGED <<status, verdict, ledger>>
    BY <1>5 DEF Stop, Ask, Raise, store
  <2>2. CASE T(c)' = {}
    BY <2>1, <2>2, StillSpares, IdleFresh DEF Fine
  <2>3. CASE Popped(c, "stop") \/ Popped(c, "ask")
    <3>1. T(c)' \subseteq {"ask", "look"}
      BY <2>3 DEF Popped, Pops, After
    <3>2. QED BY <2>1, <3>1, StillSpares DEF Fine, Fresh, Waits
  <2>4. QED BY <1>0, <1>5, <2>2, <2>3, StopTurn, AskTurn, Raising
<1>6. ASSUME local[c].own \in Events, Virgin(local[c].own), local'[c].own = local[c].own,
             UNCHANGED <<status, verdict, ledger>>, "renqueue" \notin T(c)'
      PROVE  Fine(c)
  BY <1>6, StillSpares DEF Fine, Fresh, Virgin, Kept, Known, ledger
<1>7. ASSUME Route(c) PROVE Fine(c)
  <2>1. UNCHANGED <<status, verdict, ledger>>
    BY <1>7 DEF Route, store
  <2>2. /\ T(c) = {"route"} /\ local'[c].own = local[c].own /\ "renqueue" \notin T(c)'
    BY <1>0, <1>7, RouteTurn DEF StartSteps, Making
  <2>3. QED BY <1>0, <1>6, <2>1, <2>2 DEF Aim, OwnSteps, Fresh, Waits
<1>8. ASSUME Decide(c) PROVE Fine(c)
  <2>1. UNCHANGED <<status, verdict, ledger>>
    BY <1>8 DEF Decide, store
  <2>2. T(c) = {"await"} /\ local[c].own \in Events /\ Virgin(local[c].own)
    BY <1>0, <1>8, DecideTurn DEF Aim, OwnSteps, Fresh, Waits
  <2>3. CASE T(c)' = {}
    BY <2>1, <2>3, StillSpares, IdleFresh DEF Fine
  <2>4. CASE Same(c) /\ "renqueue" \notin T(c)'
    BY <1>6, <2>1, <2>2, <2>4 DEF Same
  <2>5. QED BY <1>0, <1>8, <2>3, <2>4, DecideTurn DEF StartSteps, SteerSteps, Making
<1>9. ASSUME Check(c) PROVE Fine(c)
  <2>1. /\ UNCHANGED <<store, plan, ingress, messages, run, evidence, reply>>
        /\ \A e \in Events : (bound'[e] = bound[e] \/ Known(e)) /\ payload'[e].prev = payload[e].prev
    BY <1>0, <1>9 DEF Check, BoundAll, Stored, Rows, Known
  <2>2. \A e \in Events : Virgin(e) => Virgin(e)'
    BY <2>1 DEF Virgin, Kept, Known, store
  <2>3. Decided'
    BY <1>0, <2>1 DEF Decided, DecidedStaysDone, store
  <2>4. Spares(c)
    BY <2>2 DEF Spares
  <2>5. CASE Popped(c, "check")
    <3>1. "check" \in T(c) /\ T(c)' \subseteq T(c)
      BY <2>5 DEF Popped, Pops
    <3>2. local[c].own \in Events
      <4>1. "row" \in T(c)
        BY <1>0, <3>1 DEF ScriptInv, Fitting, Complete
      <4>2. QED BY <1>0, <4>1 DEF Aim, OwnSteps, Making
    <3>3. Guarded(c)
      BY <2>1, <3>2 DEF Guarded, store
    <3>4. "check" \in Steps
      BY DEF Steps
    <3>5. QED BY <1>0, <2>3, <2>4, <2>5, <3>3, <3>4, FreshPop DEF Fine
  <2>6. CASE T(c)' = {}
    BY <2>3, <2>4, <2>6, IdleFresh DEF Fine
  <2>7. QED BY <1>0, <1>9, <2>5, <2>6, CheckTurn
<1>10. ASSUME Bind(c) PROVE Fine(c)
  <2>1. T(c) = {"bind"} /\ T(c)' = {}
    BY <1>0, <1>10, BindTurn
  <2>2. local[c].own \in Events /\ Known(local[c].own)
    BY <1>0, <2>1 DEF Aim, OwnSteps, Making
  <2>3. /\ UNCHANGED <<store, plan, ingress, messages, payload, run, item, evidence, reply>>
        /\ \A e \in Events : e # local[c].own => bound'[e] = bound[e]
    BY <1>0, <1>10 DEF Bind, Stored, Rows
  <2>4. QED BY <1>0, <2>1, <2>2, <2>3, IdleFresh
            DEF Fine, Spares, Virgin, Kept, Known, Decided, DecidedStaysDone, store
<1>11. ASSUME Prepare(c) PROVE Fine(c)
  <2>1. CASE Raise(c) /\ local[c].todo # <<>>
    <3>1. UNCHANGED <<status, verdict, ledger>> /\ T(c)' = {}
      BY <1>0, <2>1, Raising DEF store
    <3>2. QED BY <3>1, StillSpares, IdleFresh DEF Fine
  <2>2. CASE Popped(c, "prepare") /\ run[local[c].old] = "active" /\ UNCHANGED <<up, lock>>
    <3>1. "prepare" \in T(c) /\ T(c)' \subseteq SteerSteps
      BY <2>2 DEF Popped, Pops, After
    <3>2. /\ local[c].own \in Events /\ local[c].old \in Events /\ Known(local[c].old)
      BY <1>0, <3>1 DEF Aim, OwnSteps
    <3>3. /\ UNCHANGED <<store, bound, evidence, reply>>
          /\ \A e \in Events : e \notin {local[c].own, local[c].old} =>
                /\ run'[e] = run[e] /\ payload'[e] = payload[e]
                /\ e \in ingress' => e \in ingress
      BY <1>0, <1>11, <2>2 DEF Prepare, Stored, Rows
    <3>4. Fresh(c)' /\ T(c)' \cap Waits = {}
      BY <3>1 DEF Fresh, SteerSteps, Waits
    <3>5. Decided'
      BY <1>0, <3>3 DEF Decided, DecidedStaysDone, store
    <3>6. Spares(c)
      BY <3>2, <3>3, <3>4 DEF Spares, Virgin, Kept, Known, store
    <3>7. QED BY <3>4, <3>5, <3>6 DEF Fine
  <2>3. QED BY <1>0, <1>11, <2>1, <2>2, PrepareTurn
<1>12. CASE Release(c)
  <2>1. UNCHANGED <<status, verdict, ledger>> /\ T(c)' = {}
    BY <1>0, <1>12, ReleaseTurn DEF Release, store
  <2>2. QED BY <2>1, StillSpares, IdleFresh DEF Fine
<1>13. QED BY <1>1, <1>2, <1>3, <1>4, <1>5, <1>7, <1>8, <1>9, <1>10, <1>11, <1>12 DEF ClientStep

(* The event a call will make is one of which nothing is stored.           *)
LEMMA UnusedIsVirgin ==
    ASSUME Alone, NEW p \in Procs, NEW e \in Unused(p) PROVE e \in Events /\ Virgin(e)
<1>1. /\ e \in Events /\ status[e] = "none" /\ run[e] = "none" /\ e \notin ingress
  BY DEF Unused
<1>2. Stored /\ Decided
  BY AloneFacts
<1>3. verdict[e] = "none"
  BY <1>1, <1>2 DEF Decided, DecidedStaysDone
<1>4. QED BY <1>1, <1>2, <1>3 DEF Virgin, Kept, Known, Stored, Begun

LEMMA CallsFine == ASSUME Alone, NEW c \in Clients, Calls(c) PROVE Fine(c)
<1>0. ScriptInv /\ Based /\ c \in Procs
  BY AloneFacts DEF Procs
<1>1. UNCHANGED <<store, ledger>>
  BY <1>0, NewCallAims DEF Calls
<1>2. Spares(c) /\ Decided'
  BY <1>1, StillSpares DEF store
<1>3. CASE Start(c) \/ Submit(c)
  <2>1. local'[c].own \in Unused(c)
    BY <1>0, <1>3, StartTurn, SubmitTurn
  <2>2. local'[c].own \in Events /\ Virgin(local'[c].own)
    BY <1>0, <2>1, UnusedIsVirgin
  <2>3. "renqueue" \notin T(c)'
    BY <1>0, <1>3, StartTurn, SubmitTurn
  <2>4. Fresh(c)'
    BY <1>1, <2>2, <2>3 DEF Fresh, Virgin, Kept, Known, store, ledger
  <2>5. QED BY <1>2, <2>4 DEF Fine
<1>4. CASE Snapshot(c) \/ \E e \in Events : Progress(c, e) \/ Cancel(c, e)
  <2>1. T(c)' \subseteq {"sweep", "collect", "outcomes", "stop", "ask", "look"}
    BY <1>0, <1>4, AskingTurns
  <2>2. QED BY <1>2, <2>1 DEF Fine, Fresh, Waits
<1>5. QED BY <1>3, <1>4 DEF Calls

LEMMA BootFine == ASSUME Alone, BootStep PROVE Fine(Boot)
<1>0. /\ ScriptInv /\ Stored /\ Decided /\ Based /\ Boot \in Procs
      /\ Fitting(Boot, T(Boot)) /\ Fresh(Boot)
  BY AloneFacts DEF Procs
<1>1. CASE Step(Boot)
  BY <1>0, <1>1, StepFine
<1>2. ASSUME ReconcileSteering PROVE Fine(Boot)
  <2>1. \A e \in Events : payload[e].prev \in Events \cup {NoEvent}
    BY <1>0 DEF Stored, Rows
  <2>2. CASE Popped(Boot, "steering") /\ UNCHANGED <<store, ledger, up, lock>>
    <3>1. UNCHANGED <<status, verdict, ledger>>
      BY <2>2 DEF store
    <3>2. T(Boot)' \subseteq {"adopt", "sweep", "serve"}
      BY <2>2 DEF Popped, Pops, After
    <3>3. QED BY <3>1, <3>2, StillSpares DEF Fine, Fresh, Waits
  <2>3. CASE Raise(Boot) /\ local[Boot].todo # <<>>
    <3>1. UNCHANGED <<status, verdict, ledger>> /\ T(Boot)' = {}
      BY <1>0, <2>3, Raising DEF store
    <3>2. QED BY <3>1, StillSpares, IdleFresh DEF Fine
  <2>4. ASSUME NEW e \in Unfinished,
               T(Boot) \subseteq {"steering", "adopt", "sweep", "serve"},
               T(Boot)' = {"claim", "supersede", "judge"} \cup T(Boot),
               run' = [run EXCEPT ![payload[e].prev] = "stale"],
               UNCHANGED <<store, plan, ingress, messages, payload, bound, evidence, reply>>
        PROVE  Fine(Boot)
    <3>1. payload[e].prev \in Events /\ Known(payload[e].prev)
      BY <1>0, <2>1, <2>4 DEF Unfinished, Stored, Begun
    <3>2. \A f \in Events : Virgin(f) => Virgin(f)'
      BY <1>0, <2>4, <3>1 DEF Virgin, Kept, Known, store, Stored, Rows
    <3>3. Decided'
      BY <1>0, <2>4 DEF Decided, DecidedStaysDone, store
    <3>4. Fresh(Boot)'
      BY <2>4 DEF Fresh, Waits
    <3>5. QED BY <3>2, <3>3, <3>4 DEF Fine, Spares
  <2>5. QED BY <1>0, <1>2, <2>1, <2>2, <2>3, <2>4, ReconcileTurn
<1>3. ASSUME Adopt PROVE Fine(Boot)
  <2>1. Popped(Boot, "adopt")
    BY <1>0, <1>3, AdoptTurn
  <2>2. T(Boot)' \subseteq {"sweep", "serve"}
    BY <2>1 DEF Popped, Pops, After
  <2>3. Fresh(Boot)'
    BY <2>2 DEF Fresh, Waits
  <2>4. Spares(Boot) /\ Decided'
    BY <1>0, <1>3 DEF Adopt, Spares, Virgin, Kept, Known, Decided, DecidedStaysDone, store,
       Stored, Rows
  <2>5. QED BY <2>3, <2>4 DEF Fine
<1>4. CASE Serve
  <2>1. UNCHANGED <<status, verdict, ledger>> /\ T(Boot)' = {}
    BY <1>0, <1>4, ServeTurn DEF Serve, store
  <2>2. QED BY <2>1, StillSpares, IdleFresh DEF Fine
<1>5. QED BY <1>1, <1>2, <1>3, <1>4 DEF BootStep

(* A process that is not busy writes nothing that others wait for.         *)
Quiet ==
    /\ UNCHANGED <<status, verdict, plan, payload>>
    /\ \A e \in Events : run'[e] # run[e] => Known(e) /\ run'[e] \in {"finalized", "stale_finalized"}

LEMMA QuietStep ==
    ASSUME Based, NEW p \in Procs, T(p) \cap Busy = {},
           \/ p \in Clients /\ (ClientStep(p) \/ Calls(p))
           \/ p = Boot /\ BootStep
    PROVE  Quiet
<1>0. ScriptInv /\ Stored /\ Aim(p)
  BY DEF Based
<1>1. ASSUME NEW h \in Busy, At(p, h) PROVE FALSE
  <2>1. h \in T(p)
    BY <1>0, <1>1, Heading
  <2>2. QED BY <2>1, <1>1
<1>2. ASSUME UNCHANGED <<store, ledger>> PROVE Quiet
  BY <1>2 DEF Quiet, store, ledger
<1>3. ASSUME Step(p) PROVE Quiet
  <2>1. CASE Judge(p) \/ Sweep(p)
    BY <1>2, <2>1 DEF Judge, Sweep
  <2>2. CASE SaveFinal(p)
    <3>1. "save" \in T(p)
      BY <1>0, <2>2, PlainTurns DEF Popped, Pops
    <3>2. local[p].target \in Events /\ Known(local[p].target)
      BY <1>0, <3>1 DEF Aim, Settles, Settling
    <3>3. QED BY <1>0, <2>2, <3>2 DEF SaveFinal, Quiet, store, Stored, Rows
  <2>3. CASE SaveItem(p) \/ CheckEvidence(p) \/ Reply(p)
    BY <2>3 DEF SaveItem, CheckEvidence, Reply, Quiet, store
  <2>4. CASE \/ Repair(p) \/ RepairMessage(p) \/ RepairEvent(p) \/ RepairEnqueue(p)
             \/ RepairRun(p) \/ RepairDelete(p) \/ BindAll(p) \/ Supersede(p) \/ CloseOld(p)
    BY <1>1, <2>4 DEF Repair, RepairMessage, RepairEvent, RepairEnqueue, RepairRun,
       RepairDelete, BindAll, Supersede, CloseOld, Busy, Mending
  <2>5. QED BY <1>3, <2>1, <2>2, <2>3, <2>4 DEF Step
<1>4. ASSUME p \in Clients, ClientStep(p) PROVE Quiet
  <2>1. CASE \/ Collect(p) \/ Look(p) \/ Result(p) \/ Project(p) \/ Outcomes(p)
             \/ Stop(p) \/ Route(p) \/ Await(p) \/ Decide(p)
    BY <1>2, <2>1 DEF Collect, Look, Result, Project, Outcomes, Stop, Route, Await, Decide, Raise
  <2>2. CASE Ask(p) \/ AppendMessage(p) \/ DeleteRow(p) \/ Bind(p) \/ Rewrite(p)
    BY <2>2 DEF Ask, Raise, AppendMessage, DeleteRow, Bind, Rewrite, Quiet, store, ledger
  <2>3. CASE \/ NewItem(p) \/ Check(p) \/ SaveRow(p) \/ Enqueue(p) \/ SaveRun(p)
             \/ Prepare(p) \/ Release(p)
    BY <1>1, <2>3 DEF NewItem, Check, SaveRow, Enqueue, SaveRun, Prepare, Release, Busy
  <2>4. QED BY <1>3, <1>4, <2>1, <2>2, <2>3 DEF ClientStep
<1>5. ASSUME p \in Clients, Calls(p) PROVE Quiet
  BY <1>2, <1>5, NewCallAims DEF Calls
<1>6. ASSUME p = Boot, BootStep PROVE Quiet
  <2>1. ~ReconcileSteering /\ ~Adopt /\ ~Serve
    BY <1>1, <1>6 DEF ReconcileSteering, Adopt, Serve, Busy
  <2>2. QED BY <1>3, <1>6, <2>1 DEF BootStep
<1>7. QED BY <1>4, <1>5, <1>6

(* The others' events stay fresh.                                          *)
LEMMA OthersFresh ==
    ASSUME Alone, NEW p \in Procs, Keeps(p), Spares(p),
           \/ p \in Clients /\ (ClientStep(p) \/ Calls(p))
           \/ p = Boot /\ BootStep
    PROVE  \A q \in Procs \ {p} : Fresh(q)'
<1> SUFFICES ASSUME NEW q \in Procs \ {p} PROVE Fresh(q)'
  OBVIOUS
<1>0. /\ ScriptInv /\ Based /\ Stored /\ Aim(q) /\ Fresh(q) /\ OneBegins /\ Fitting(q, T(q))
      /\ local'[q] = local[q] /\ T(q)' = T(q)
  BY AloneFacts DEF Alone, Keeps
<1>1. ASSUME T(q) \cap Waits # {} PROVE Virgin(local[q].own)'
  <2>1. local[q].own \in Events /\ Virgin(local[q].own)
    BY <1>0, <1>1 DEF Fresh, Aim, OwnSteps, Making, Waits
  <2>2. local[q].own # local[p].own
    BY <2>1, EventsAssumption DEF Alone, OwnIsApart
  <2>3. QED BY <1>0, <2>1, <2>2 DEF Spares, Virgin, Kept, Known
<1>2. ASSUME T(q) \cap ({"enqueue", "run", "renqueue"}) # {}
      PROVE  /\ "enqueue" \in T(q) => status'[local[q].own] = "none"
             /\ "run" \in T(q) => run'[local[q].own] = "none" /\ payload'[local[q].own].prev = NoEvent
             /\ "renqueue" \in T(q) => status'[local[q].target] = "none"
  <2>1. Begins(q) \/ T(q) \cap (Mending \cup {"repair"}) # {}
    BY <1>0, <1>2 DEF Fitting, Complete, Begins, Mending
  <2>2. T(p) \cap Busy = {}
    BY <1>0, <2>1, Lonely
  <2>3. Quiet
    BY <1>0, <2>2, QuietStep
  <2>4. "run" \in T(q) => local[q].own \in Events
    BY <1>0 DEF Aim, OwnSteps, Making
  <2>5. QED BY <1>0, <2>3, <2>4 DEF Fresh, Quiet, Known
<1>3. QED BY <1>0, <1>1, <1>2 DEF Fresh, Known

LEMMA AloneMove ==
    ASSUME ~Overlapping, Alone, NEW p \in Procs, Based', Keeps(p), Holding(p), Fine(p),
           \/ p \in Clients /\ (ClientStep(p) \/ Calls(p))
           \/ p = Boot /\ BootStep
    PROVE  Alone'
<1>1. OneBegins' /\ OwnIsApart'
  BY ApartStays DEF Alone
<1>2. \A q \in Procs : Fresh(q)'
  BY OthersFresh DEF Fine
<1>3. QED BY <1>1, <1>2 DEF Alone, Fine, Decided

LEMMA AloneStep == ASSUME ~Overlapping, Alone, [Next]_vars PROVE Alone'
<1>0. /\ ScriptInv /\ Stored /\ Based /\ Decided /\ OneBegins /\ OwnIsApart
      /\ \A p \in Procs : Fresh(p)
  BY DEF Alone, Based, Decided
<1>1. Based'
  BY <1>0, BasedStep
<1>2. ASSUME NEW c \in Clients, ClientStep(c) \/ Calls(c) PROVE Alone'
  <2>1. c \in Procs /\ Keeps(c)
    BY <1>0, <1>2, ClientMoves, NewCallAims DEF Procs, Calls, Moved
  <2>2. Holding(c) /\ Fine(c)
    BY <1>0, <1>2, ClientHolds, ClientFine, CallsFine
  <2>3. QED BY <1>1, <1>2, <2>1, <2>2, AloneMove
<1>3. ASSUME BootStep PROVE Alone'
  <2>1. Boot \in Procs /\ Keeps(Boot)
    BY <1>0, <1>3, BootMoves DEF Procs, Moved
  <2>2. Holding(Boot) /\ Fine(Boot)
    BY <1>0, <1>3, BootHolds, BootFine
  <2>3. QED BY <1>1, <1>3, <2>1, <2>2, AloneMove
<1>4. ASSUME Life \/ UNCHANGED vars PROVE Alone'
  <2>1. /\ UNCHANGED <<plan, ingress, messages, payload, run, bound, reply, local, up, lock>>
        /\ \A e \in Events : status[e] = "none" => status'[e] = "none" /\ verdict'[e] = verdict[e]
    <3>1. CASE UNCHANGED vars
      BY <3>1 DEF vars, store, ledger
    <3>2. ASSUME Life
          PROVE  \A e \in Events : status[e] = "none" =>
                    status'[e] = "none" /\ verdict'[e] = verdict[e]
      BY <1>0, <3>2, LifeCases DEF Take, End, store, Stored, Rows
    <3>3. QED BY <1>4, <3>1, <3>2, LifeCases
  <2>2. \A p \in Procs : local'[p] = local[p] /\ T(p)' = T(p)
    BY <1>0, <2>1, ScriptsStay
  <2>3. Decided'
    <3>1. CASE UNCHANGED vars
      BY <1>0, <3>1 DEF Decided, DecidedStaysDone, vars, store
    <3>2. ASSUME NEW e \in Events, Take(e) PROVE Decided'
      BY <1>0, <3>2 DEF Take, Decided, DecidedStaysDone, Stored, Rows
    <3>3. ASSUME NEW e \in Events, End(e) PROVE Decided'
      BY <1>0, <3>3 DEF End, Verdict, Decided, DecidedStaysDone, Stored, Rows
    <3>4. CASE UNCHANGED store
      BY <1>0, <3>4 DEF Decided, DecidedStaysDone, store
    <3>5. QED BY <1>4, <3>1, <3>2, <3>3, <3>4, LifeCases
  <2>4. OneBegins' /\ OwnIsApart'
    BY <1>0, <2>2 DEF OneBegins, OwnIsApart, Begins, Procs
  <2>5. ASSUME NEW p \in Procs PROVE Fresh(p)'
    <3>1. Fresh(p) /\ Aim(p) /\ local'[p] = local[p] /\ T(p)' = T(p)
      BY <1>0, <2>2 DEF Based
    <3>2. \A e \in Events : Virgin(e) => Virgin(e)'
      BY <2>1 DEF Virgin, Kept, Known
    <3>3. T(p) \cap Waits # {} => Virgin(local[p].own)'
      <4>1. ASSUME T(p) \cap Waits # {} PROVE Virgin(local[p].own)'
        <5>1. local[p].own \in Events /\ Virgin(local[p].own)
          BY <3>1, <4>1 DEF Fresh, Aim, OwnSteps, Making, Waits
        <5>2. QED BY <3>1, <3>2, <5>1 DEF Virgin, Kept, Known
      <4>2. QED BY <4>1
    <3>4. "enqueue" \in T(p) => local[p].own \in Events
      BY <3>1 DEF Aim, OwnSteps, Making
    <3>5. "renqueue" \in T(p) => local[p].target \in Events
      BY <3>1 DEF Aim, Mending
    <3>6. QED BY <2>1, <3>1, <3>3, <3>4, <3>5 DEF Fresh, Known
  <2>6. QED BY <1>1, <2>3, <2>4, <2>5 DEF Alone, Decided
<1>5. ASSUME Restart PROVE Alone'
  <2>1. /\ Keeps(Boot) /\ T(Boot)' = {"repair"} \cup BootSteps /\ Same(Boot)
        /\ \A c \in Clients : T(c) = {}
    BY <1>0, <1>5, RestartTurn
  <2>2. \A c \in Clients : T(c)' = {}
    BY <2>1, BootAssumption DEF Keeps, Procs
  <2>3. Decided'
    BY <1>0, <1>5 DEF Restart, Decided, DecidedStaysDone, Stored, Rows
  <2>4. OneBegins' /\ OwnIsApart'
    <3>1. OneBegins'
      BY <2>2 DEF OneBegins, Begins
    <3>2. \A q \in Procs : local'[q].own = local[q].own
      BY <2>1 DEF Keeps, Same
    <3>3. QED BY <1>0, <3>1, <3>2 DEF OwnIsApart
  <2>5. \A p \in Procs : Fresh(p)'
    BY <2>1, <2>2 DEF Fresh, Procs, BootSteps, Waits
  <2>6. QED BY <1>1, <2>3, <2>4, <2>5 DEF Alone, Decided
<1>6. ASSUME Crash PROVE Alone'
  <2>1. \A p \in Procs : local'[p] = Idle /\ T(p)' = {}
    BY <1>0, <1>6, CrashTurn
  <2>2. Decided'
    BY <1>0, <1>6 DEF Crash, Decided, DecidedStaysDone, store
  <2>3. OneBegins' /\ OwnIsApart'
    BY <2>1 DEF OneBegins, OwnIsApart, Begins, Procs, Idle
  <2>4. QED BY <1>1, <2>1, <2>2, <2>3, IdleFresh DEF Alone, Decided
<1>7. QED BY <1>2, <1>3, <1>4, <1>5, <1>6, NextCases

LEMMA AloneInit == Init => Alone
<1> SUFFICES ASSUME Init PROVE Alone
  OBVIOUS
<1>1. Based /\ \A p \in Procs : T(p) = {}
  BY BasedInit, ScriptInit
<1>2. \A p \in Procs : local[p].own = NoEvent
  BY DEF Init, Idle
<1>3. QED BY <1>1, <1>2 DEF Alone, OneBegins, OwnIsApart, Begins, Fresh, Procs, Init,
          DecidedStaysDone

LEMMA AlwaysAlone == ASSUME ~Overlapping PROVE Spec => []Alone
BY AloneInit, AloneStep, PTL DEF Spec

(* While one request at a time creates work, an event with an outcome is   *)
(* never queued again, not by a repair, a restart or a late enqueue_event. *)
THEOREM DecidedEventsStayDone == ASSUME ~Overlapping PROVE Spec => []DecidedStaysDone
<1>1. Alone => DecidedStaysDone
  BY DEF Alone
<1>2. QED BY <1>1, AlwaysAlone, PTL

----------------------------------------------------------------------------
(* One piece of work at a time.                                            *)

(* A row whose run is not there yet, and the work that is open with it.    *)
Unborn == {e \in ingress : ~Known(e)}
OpenWork == Unborn \cup {e \in Active : verdict[e] = "none"}

(* A step that ends a script, or begins another.                           *)
Closing == {"look", "result", "route", "bind", "wait", "await", "release", "stop",
            "ask", "prepare", "supersede", "serve", "steering", "project", "outcomes"}

(* A script goes on step by step; only its own repairs and settlements are *)
(* put before the rest.                                                    *)
GoesOn(p) ==
    /\ local'[p].own = local[p].own \/ T(p)' = {}
    /\ \E h \in Steps :
          /\ At(p, h) /\ h \in T(p) /\ T(p) \subseteq {h} \cup After(h)
          /\ \/ /\ T(p) \ ({h} \cup Settling) \subseteq T(p)'
                /\ T(p)' \subseteq T(p) \cup Settling \cup Mending \cup {"judge"}
             \/ h \in Closing
             \/ h = "check" /\ "row" \in T(p) /\ T(p)' = {}

LEMMA PoppedGoesOn ==
    ASSUME ScriptInv, NEW p \in Procs, NEW h, At(p, h), Popped(p, h) PROVE GoesOn(p)
BY Heading DEF GoesOn, Popped, Pops, Same

LEMMA ClosingGoesOn ==
    ASSUME ScriptInv, NEW p \in Procs, NEW h \in Closing, At(p, h),
           local'[p].own = local[p].own \/ T(p)' = {}
    PROVE  GoesOn(p)
BY Heading DEF GoesOn

LEMMA StepGoesOn == ASSUME Based, NEW p \in Procs, Step(p) PROVE GoesOn(p)
<1>0. ScriptInv /\ ingress \subseteq Events
  BY DEF Based, Stored, Rows
<1>1. CASE \/ SaveFinal(p) \/ SaveItem(p) \/ CheckEvidence(p) \/ RepairMessage(p)
           \/ RepairEnqueue(p) \/ RepairRun(p) \/ RepairDelete(p) \/ BindAll(p) \/ Supersede(p)
  BY <1>0, <1>1, PlainTurns, PoppedGoesOn DEF SaveFinal, SaveItem, CheckEvidence, RepairMessage,
     RepairEnqueue, RepairRun, RepairDelete, BindAll, Supersede
<1>2. CASE Judge(p)
  BY <1>0, <1>2, JudgeTurn, Heading DEF Judge, GoesOn, Settling
<1>3. CASE Sweep(p)
  BY <1>0, <1>3, SweepTurn, PoppedGoesOn, Heading DEF Sweep, GoesOn, Settling
<1>4. CASE Repair(p)
  BY <1>0, <1>4, RepairTurn, PoppedGoesOn, Heading DEF Repair, GoesOn, Mending
<1>5. CASE RepairEvent(p)
  BY <1>0, <1>5, RepairEventTurn, Heading DEF RepairEvent, GoesOn, Mending, Same
<1>6. CASE Reply(p)
  BY <1>0, <1>6, ReplyTurn, Heading DEF Reply, GoesOn, Settling, Same
<1>7. CASE CloseOld(p)
  <2>1. At(p, "supersede") /\ "supersede" \in T(p)
    BY <1>0, <1>7, Heading DEF CloseOld
  <2>2. local[p].old \in Events
    BY <2>1 DEF Based, Aim
  <2>3. local'[p].own = local[p].own \/ T(p)' = {}
    BY <1>0, <1>7, <2>2, CloseOldTurn, Raising
  <2>4. QED BY <1>0, <2>1, <2>3, ClosingGoesOn DEF Closing
<1>8. QED BY <1>1, <1>2, <1>3, <1>4, <1>5, <1>6, <1>7 DEF Step

LEMMA ClientGoesOn == ASSUME Based, NEW c \in Clients, ClientStep(c) PROVE GoesOn(c)
<1>0. ScriptInv /\ c \in Procs
  BY DEF Based, Procs
<1>1. CASE Step(c)
  BY <1>0, <1>1, StepGoesOn
<1>2. CASE \/ NewItem(c) \/ SaveRow(c) \/ AppendMessage(c) \/ Enqueue(c) \/ SaveRun(c)
           \/ DeleteRow(c) \/ Rewrite(c)
  BY <1>0, <1>2, PlainTurns, PoppedGoesOn DEF NewItem, SaveRow, AppendMessage, Enqueue,
     SaveRun, DeleteRow, Rewrite
<1>3. CASE Collect(c)
  BY <1>0, <1>3, CollectTurn, PoppedGoesOn, Heading DEF Collect, GoesOn
<1>4. CASE \/ Look(c) \/ Result(c) \/ Project(c) \/ Outcomes(c) \/ Stop(c) \/ Ask(c)
           \/ Route(c) \/ Bind(c) \/ Await(c) \/ Decide(c) \/ Prepare(c) \/ Release(c)
  <2>1. local'[c].own = local[c].own \/ T(c)' = {}
    BY <1>0, <1>4, LookTurn, ResultTurn, ProjectTurn, OutcomesTurn, StopTurn, AskTurn, RouteTurn,
       BindTurn, AwaitTurn, DecideTurn, PrepareTurn, ReleaseTurn, Raising DEF Popped, Same
  <2>2. QED BY <1>0, <1>4, <2>1, ClosingGoesOn DEF Look, Result, Project, Outcomes, Stop, Ask, Route, Bind,
     Await, Decide, Prepare, Release, Closing
<1>5. CASE Check(c)
  <2>1. At(c, "check")
    BY <1>5 DEF Check
  <2>2. CASE Popped(c, "check")
    BY <1>0, <2>1, <2>2, PoppedGoesOn
  <2>3. CASE "row" \in T(c) /\ T(c)' = {}
    BY <1>0, <2>1, <2>3, Heading DEF GoesOn
  <2>4. QED BY <1>0, <1>5, <2>2, <2>3, CheckTurn
<1>6. QED BY <1>1, <1>2, <1>3, <1>4, <1>5 DEF ClientStep

LEMMA BootGoesOn == ASSUME Based, BootStep PROVE GoesOn(Boot)
<1>0. ScriptInv /\ Boot \in Procs
  BY DEF Based, Procs
<1>1. CASE Step(Boot)
  BY <1>0, <1>1, StepGoesOn
<1>2. CASE ReconcileSteering \/ Serve
  <2>1. \A e \in Events : payload[e].prev \in Events \cup {NoEvent}
    BY DEF Based, Stored, Rows
  <2>2. local'[Boot].own = local[Boot].own \/ T(Boot)' = {}
    BY <1>0, <1>2, <2>1, ReconcileTurn, ServeTurn, Raising DEF Popped, Same
  <2>3. QED BY <1>0, <1>2, <2>2, ClosingGoesOn DEF ReconcileSteering, Serve, Closing
<1>3. CASE Adopt
  BY <1>0, <1>3, AdoptTurn, PoppedGoesOn DEF Adopt
<1>4. QED BY <1>1, <1>2, <1>3 DEF BootStep

(* What a script that goes on keeps of its repairs and starts.             *)
LEMMA Carrying ==
    ASSUME ScriptInv, NEW p \in Procs, GoesOn(p)
    PROVE  /\ "run" \in T(p) /\ "row" \notin T(p) =>
                 At(p, "run") \/ ("run" \in T(p)' /\ "row" \notin T(p)')
           /\ "release" \in T(p) /\ "repair" \in T(p) =>
                 At(p, "repair") \/ At(p, "prepare") \/ {"release", "repair"} \subseteq T(p)'
           /\ p = Boot /\ "repair" \in T(p) => At(p, "repair") \/ "repair" \in T(p)'
<1>1. PICK h \in Steps :
         /\ At(p, h) /\ h \in T(p) /\ T(p) \subseteq {h} \cup After(h)
         /\ \/ /\ T(p) \ ({h} \cup Settling) \subseteq T(p)'
               /\ T(p)' \subseteq T(p) \cup Settling \cup Mending \cup {"judge"}
            \/ h \in Closing
            \/ h = "check" /\ "row" \in T(p) /\ T(p)' = {}
  BY DEF GoesOn
<1>2. h \in Closing => "run" \notin T(p) /\ ("repair" \in T(p) => h = "prepare")
  BY <1>1 DEF Closing, After, SteerSteps, AfterClaim
<1>3. "release" \in T(p) => h # "check" /\ (h = "release" => "repair" \notin T(p))
  BY <1>1 DEF After, Making
<1>4. p = Boot => "prepare" \notin T(p) /\ "check" \notin T(p)
  BY DEF ScriptInv, Fitting, OfBoot, Mending
<1>5. QED BY <1>1, <1>2, <1>3, <1>4 DEF Settling, Mending

(* The run of a row is made by the call that wrote the row, or by the      *)
(* constructors.                                                           *)
Expected(e) ==
    \/ up = "booting" /\ "repair" \in T(Boot)
    \/ \E c \in Clients :
          /\ local[c].own = e
          /\ \/ "run" \in T(c) /\ "row" \notin T(c)
             \/ {"release", "repair"} \subseteq T(c)

Single ==
    /\ Alone
    /\ \A e, f \in OpenWork : e = f
    /\ up \in {"up", "booting"} => \A e \in Unborn : Expected(e)
    /\ \A c \in Clients : "run" \in T(c) /\ "check" \notin T(c) => Active = {}
    /\ \A c \in Clients : "prepare" \in T(c) => verdict[local[c].old] = "none"

LEMMA SingleFacts ==
    ASSUME Single, NEW p \in Procs
    PROVE  /\ Alone /\ Based /\ ScriptInv /\ Stored /\ Aim(p) /\ Fresh(p) /\ Decided
           /\ Fitting(p, T(p)) /\ OneBegins /\ OwnIsApart
BY AloneFacts DEF Single, Alone

(* No open work is added by a step that neither writes a row nor makes a   *)
(* run.                                                                    *)
Narrows == OpenWork' \subseteq OpenWork /\ Unborn' \subseteq Unborn /\ Active' \subseteq Active

LEMMA StillNarrows == ASSUME UNCHANGED <<verdict, ingress, run>> PROVE Narrows
BY DEF Narrows, OpenWork, Unborn, Active, Known

LEMMA StepNarrows ==
    ASSUME Single, NEW p \in Procs, Step(p)
    PROVE  /\ OpenWork' \subseteq OpenWork /\ Unborn' \subseteq Unborn
           /\ Active' \subseteq Active \/ RepairRun(p)
<1>0. Stored /\ Aim(p) /\ ScriptInv /\ Based
  BY SingleFacts
<1>1. CASE \/ Judge(p) \/ Reply(p) \/ SaveItem(p) \/ CheckEvidence(p) \/ Sweep(p) \/ Repair(p)
           \/ RepairMessage(p) \/ RepairEvent(p) \/ RepairEnqueue(p) \/ BindAll(p) \/ Supersede(p)
  BY <1>1, StillNarrows DEF Judge, Reply, SaveItem, CheckEvidence, Sweep, Repair, RepairMessage, RepairEvent,
     RepairEnqueue, BindAll, Supersede, store, ledger, Narrows
<1>2. CASE SaveFinal(p)
  <2>1. "save" \in T(p)
    BY <1>0, <1>2, PlainTurns DEF Popped, Pops
  <2>2. local[p].target \in Events /\ Known(local[p].target)
    BY <1>0, <2>1 DEF Aim, Settles, Settling
  <2>3. QED BY <1>0, <1>2, <2>2 DEF SaveFinal, OpenWork, Unborn, Active, Known, store, Stored,
            Rows
<1>3. CASE RepairRun(p)
  <2>1. "rrun" \in T(p)
    BY <1>0, <1>3, PlainTurns DEF Popped, Pops
  <2>2. local[p].target \in Events /\ Kept(local[p].target)
    BY <1>0, <2>1 DEF Aim, Mending
  <2>3. QED BY <1>0, <1>3, <2>2 DEF RepairRun, OpenWork, Unborn, Active, Kept, Known, store,
            Stored, Rows
<1>4. CASE RepairDelete(p)
  BY <1>0, <1>4 DEF RepairDelete, OpenWork, Unborn, Active, Known, store
<1>5. CASE CloseOld(p)
  <2>1. \A e \in Events : verdict'[e] = "none" => verdict[e] = "none"
    BY <1>0, <1>5 DEF CloseOld, Raise, store, Stored, Rows, Verdict
  <2>2. UNCHANGED ledger
    BY <1>5 DEF CloseOld, Raise
  <2>3. QED BY <2>1, <2>2 DEF OpenWork, Unborn, Active, Known, ledger
<1>6. QED BY <1>1, <1>2, <1>3, <1>4, <1>5 DEF Step

(* What a connection adds is its own event, when nothing else is open.     *)
Opens(c) ==
    \/ OpenWork' \subseteq OpenWork /\ Unborn' \subseteq Unborn
    \/ /\ OpenWork' \subseteq {local'[c].own} /\ Unborn' \subseteq {local'[c].own}
       /\ \/ "run" \in T(c)' /\ "row" \notin T(c)'
          \/ {"release", "repair"} \subseteq T(c)'

(* While a connection starts work, nobody else has a row without a run.    *)
LEMMA NoneUnborn ==
    ASSUME Single, NEW c \in Clients, Begins(c), "row" \in T(c) \/ "prepare" \in T(c)
    PROVE  Unborn = {}
<1> SUFFICES ASSUME NEW e \in Unborn PROVE FALSE
  OBVIOUS
<1>1. ScriptInv /\ c \in Procs /\ local[c].todo # <<>> /\ OneBegins /\ Fitting(c, T(c)) /\ Fresh(c)
  BY SingleFacts, NoSteps DEF Begins, Procs
<1>2. up = "up"
  BY <1>1, Awake
<1>3. PICK d \in Clients :
         /\ local[d].own = e
         /\ \/ "run" \in T(d) /\ "row" \notin T(d)
            \/ {"release", "repair"} \subseteq T(d)
  BY <1>2 DEF Single, Expected
<1>4. d = c
  BY <1>1, <1>3 DEF OneBegins, Begins
<1>5. Virgin(local[c].own)
  BY <1>1 DEF Fresh, Waits
<1>6. QED BY <1>3, <1>4, <1>5 DEF Virgin, Kept, Unborn

LEMMA ClientOpens ==
    ASSUME Single, NEW c \in Clients, ClientStep(c)
    PROVE  Opens(c) /\ (Active' \subseteq Active \/ RepairRun(c) \/ SaveRun(c))
<1>0. /\ Stored /\ Aim(c) /\ ScriptInv /\ Based /\ c \in Procs /\ Fitting(c, T(c)) /\ Fresh(c)
  BY SingleFacts DEF Procs
<1>1. CASE Step(c)
  BY <1>0, <1>1, StepNarrows DEF Opens
<1>2. CASE \/ Collect(c) \/ Look(c) \/ Result(c) \/ Project(c) \/ Outcomes(c) \/ Rewrite(c)
           \/ Stop(c) \/ Ask(c) \/ Route(c) \/ NewItem(c) \/ Check(c) \/ AppendMessage(c)
           \/ Enqueue(c) \/ Bind(c) \/ Await(c) \/ Decide(c) \/ Release(c)
  BY <1>2, StillNarrows DEF Collect, Look, Result, Project, Outcomes, Rewrite, Stop, Ask, Raise, Route, NewItem, Check,
     AppendMessage, Enqueue, Bind, Await, Decide, Release, store, ledger, Narrows, Opens
<1>3. CASE SaveRow(c)
  <2>1. "row" \in T(c) /\ Popped(c, "row") /\ "run" \in T(c) /\ "check" \notin T(c)
    <3>1. "row" \in T(c) /\ Popped(c, "row") /\ T(c) \subseteq {"row"} \cup After("row")
      BY <1>0, <1>3, PlainTurns DEF Popped, Pops
    <3>2. QED BY <1>0, <3>1 DEF Fitting, Complete, After, Making
  <2>2. Active = {} /\ Unborn = {}
    BY <2>1, NoneUnborn DEF Single, Begins
  <2>3. OpenWork' \subseteq {local[c].own} /\ Unborn' \subseteq {local[c].own} /\ Active' = {}
    BY <1>3, <2>2 DEF SaveRow, OpenWork, Unborn, Active, Known, store
  <2>4. local'[c].own = local[c].own /\ "run" \in T(c)' /\ "row" \notin T(c)'
    BY <2>1 DEF Popped, Same, Pops, After, Making
  <2>5. QED BY <2>2, <2>3, <2>4 DEF Opens
<1>4. CASE SaveRun(c)
  <2>1. "run" \in T(c) /\ "row" \notin T(c)
    <3>1. "run" \in T(c) /\ T(c) \subseteq {"run"} \cup After("run")
      BY <1>0, <1>4, PlainTurns DEF Popped, Pops
    <3>2. QED BY <3>1 DEF After
  <2>2. local[c].own \in Events /\ local[c].own \in Unborn
    BY <1>0, <2>1 DEF Aim, OwnSteps, Making, Fresh, Kept, Unborn
  <2>3. QED BY <1>0, <1>4, <2>2 DEF SaveRun, OpenWork, Unborn, Active, Known, store, Stored,
            Rows, Opens
<1>5. CASE DeleteRow(c)
  <2>1. QED BY <1>0, <1>5 DEF DeleteRow, OpenWork, Unborn, Active, Known, store, Opens
<1>6. CASE Prepare(c)
  <2>1. CASE Raise(c)
    BY <2>1, StillNarrows DEF Raise, store, ledger, Narrows, Opens
  <2>2. CASE Popped(c, "prepare") /\ run[local[c].old] = "active"
    <3>1. /\ "prepare" \in T(c) /\ "repair" \in T(c) /\ "release" \in T(c)
          /\ {"repair", "release"} \subseteq T(c)'
      <4>1. "prepare" \in T(c) /\ T(c) \ {"prepare"} \subseteq T(c)'
        BY <2>2 DEF Popped, Pops
      <4>2. QED BY <1>0, <4>1 DEF Fitting, Complete, OfClient
    <3>2. Unborn = {}
      BY <3>1, NoneUnborn DEF Begins
    <3>3. local[c].own \in Events /\ local[c].old \in Events /\ verdict[local[c].old] = "none"
      BY <1>0, <3>1 DEF Aim, OwnSteps, Single
    <3>4. OpenWork = {local[c].old}
      BY <2>2, <3>3 DEF Single, OpenWork, Active
    <3>5. /\ run' = [run EXCEPT ![local[c].old] = "stale"]
          /\ ingress' = ingress \cup {local[c].own} /\ UNCHANGED store
      BY <1>6, <2>2 DEF Prepare
    <3>6. /\ run'[local[c].old] = "stale"
          /\ \A e \in Events \ {local[c].old} : run'[e] = run[e]
      BY <1>0, <3>3, <3>5 DEF Stored, Rows
    <3>7. Active' \subseteq Active /\ local[c].old \notin Active'
      BY <3>6 DEF Active
    <3>8. Unborn' \subseteq {local[c].own}
      <4>1. ASSUME NEW e \in Unborn', e # local[c].own PROVE e \in Unborn
        BY <1>0, <3>5, <3>6, <4>1 DEF Unborn, Known, Stored, Rows
      <4>2. QED BY <3>2, <4>1
    <3>9. OpenWork' \subseteq {local[c].own}
      <4>1. \A e \in Active' : verdict'[e] = "none" => e \in OpenWork /\ e # local[c].old
        BY <3>5, <3>7 DEF OpenWork, store
      <4>2. QED BY <3>4, <3>8, <4>1 DEF OpenWork
    <3>10. local'[c].own = local[c].own
      BY <2>2 DEF Popped, Same
    <3>11. QED BY <3>1, <3>7, <3>8, <3>9, <3>10 DEF Opens
  <2>3. QED BY <1>0, <1>6, <2>1, <2>2, PrepareTurn
<1>7. QED BY <1>1, <1>2, <1>3, <1>4, <1>5, <1>6 DEF ClientStep

(* The constructors have mended every row before they adopt what is left,  *)
(* so they adopt nothing.                                                  *)
LEMMA BootMended ==
    ASSUME Single, up = "booting", "repair" \notin T(Boot) PROVE Unborn = {}
<1> SUFFICES ASSUME NEW e \in Unborn PROVE FALSE
  OBVIOUS
<1>1. ScriptInv
  BY DEF Single, Alone, Based
<1>2. \A c \in Clients : T(c) = {}
  BY <1>1, NoSteps DEF ScriptInv, Resting, Procs
<1>3. QED BY <1>2 DEF Single, Expected

LEMMA BootNarrows ==
    ASSUME Single, BootStep
    PROVE  OpenWork' \subseteq OpenWork /\ Unborn' \subseteq Unborn
<1>0. /\ Boot \in Procs /\ Stored /\ ScriptInv /\ Based
  BY SingleFacts DEF Procs
<1>1. CASE Step(Boot)
  BY <1>0, <1>1, StepNarrows
<1>2. CASE ReconcileSteering
  <2>1. \A e \in Events : payload[e].prev \in Events \cup {NoEvent}
    BY <1>0 DEF Stored, Rows
  <2>2. CASE UNCHANGED <<store, ledger>>
    BY <2>2, StillNarrows DEF store, ledger, Narrows
  <2>3. ASSUME NEW e \in Unfinished, run' = [run EXCEPT ![payload[e].prev] = "stale"],
               UNCHANGED <<store, plan, ingress, messages, payload, bound, evidence, reply>>
        PROVE  OpenWork' \subseteq OpenWork /\ Unborn' \subseteq Unborn
    <3>1. payload[e].prev \in Events
      BY <1>0, <2>1, <2>3 DEF Unfinished
    <3>2. QED BY <1>0, <2>3, <3>1 DEF OpenWork, Unborn, Active, Known, store, Stored, Rows, Begun,
              Unfinished
  <2>4. QED BY <1>0, <1>2, <2>1, <2>2, <2>3, ReconcileTurn DEF Raise
<1>3. CASE Adopt
  <2>1. At(Boot, "adopt")
    BY <1>3 DEF Adopt
  <2>2. "repair" \notin T(Boot) /\ up = "booting"
    <3>1. T(Boot) \subseteq {"adopt"} \cup After("adopt")
      BY <1>0, <2>1, Heading
    <3>2. QED BY <1>0, <2>1, <3>1, Awake DEF After, At
  <2>3. Unborn = {}
    BY <2>2, BootMended
  <2>4. run' = run
    <3>1. \A e \in Events : ~(status[e] # "none" /\ run[e] = "none")
      BY <1>0, <2>3 DEF Unborn, Stored, EventIsOwned, Known
    <3>2. run' = [e \in Events |-> run[e]]
      BY <1>3, <3>1 DEF Adopt
    <3>3. QED BY <1>0, <3>2 DEF Stored, Rows
  <2>5. UNCHANGED <<verdict, ingress>>
    BY <1>3 DEF Adopt, store
  <2>6. QED BY <2>4, <2>5, StillNarrows DEF Narrows
<1>4. CASE Serve
  BY <1>4, StillNarrows DEF Serve, store, ledger, Narrows
<1>5. QED BY <1>1, <1>2, <1>3, <1>4 DEF BootStep

(* The step a script comes to is the action of that step.                  *)
LEMMA HeadIsStep ==
    ASSUME NEW c \in Clients, ClientStep(c)
    PROVE  /\ At(c, "run") => SaveRun(c)
           /\ At(c, "repair") => Repair(c)
           /\ At(c, "prepare") => Prepare(c)
           /\ At(c, "check") => Check(c)
           /\ At(c, "supersede") => CloseOld(c)
<1>1. CASE Step(c)
  BY <1>1 DEF Step, At, Judge, Reply, SaveFinal, SaveItem, CheckEvidence, Sweep, Repair, RepairMessage,
     RepairEvent, RepairEnqueue, RepairRun, RepairDelete, BindAll, Supersede, CloseOld
<1>2. CASE \/ Collect(c) \/ Look(c) \/ Result(c) \/ Project(c) \/ Outcomes(c) \/ Rewrite(c)
           \/ Stop(c) \/ Ask(c) \/ Route(c) \/ NewItem(c) \/ Check(c) \/ SaveRow(c)
           \/ AppendMessage(c)
  BY <1>2 DEF At, Collect, Look, Result, Project, Outcomes, Rewrite, Stop, Ask, Route, NewItem, Check, SaveRow, AppendMessage
<1>3. CASE Enqueue(c) \/ SaveRun(c) \/ DeleteRow(c) \/ Bind(c) \/ Await(c) \/ Decide(c)
           \/ Prepare(c) \/ Release(c)
  BY <1>3 DEF At, Enqueue, SaveRun, DeleteRow, Bind, Await, Decide, Prepare, Release
<1>4. QED BY <1>1, <1>2, <1>3 DEF ClientStep

(* A row that is waited for is waited for after the step of a connection.  *)
LEMMA StillExpected ==
    ASSUME Single, NEW c \in Clients, ClientStep(c), NEW e \in Unborn, e \in Unborn', Expected(e),
           up = "up"
    PROVE  Expected(e)'
<1>0. /\ c \in Procs /\ ScriptInv /\ Based /\ Keeps(c) /\ GoesOn(c) /\ Fresh(c) /\ Stored /\ Aim(c)
  BY SingleFacts, ClientMoves, ClientGoesOn DEF Procs, Moved
<1>1. PICK d \in Clients :
         /\ local[d].own = e
         /\ \/ "run" \in T(d) /\ "row" \notin T(d)
            \/ {"release", "repair"} \subseteq T(d)
  BY DEF Expected
<1>2. CASE d # c
  <2>1. local'[d] = local[d] /\ T(d)' = T(d)
    BY <1>0, <1>2 DEF Keeps, Procs
  <2>2. QED BY <1>1, <2>1 DEF Expected
<1>3. CASE d = c
  <2>1. ~At(c, "run")
    <3>1. ASSUME At(c, "run") PROVE FALSE
      <4>1. SaveRun(c) /\ e \in Events
        BY <3>1, <1>0, HeadIsStep DEF Unborn, Stored, Rows
      <4>2. run'[e] = "active"
        BY <4>1, <1>0, <1>1, <1>3 DEF SaveRun, Stored, Rows
      <4>3. QED BY <4>2 DEF Unborn, Known
    <3>2. QED BY <3>1
  <2>2. ~At(c, "prepare")
    <3>1. ASSUME At(c, "prepare") PROVE FALSE
      <4>1. "prepare" \in T(c)
        BY <3>1, <1>0, Heading
      <4>2. Virgin(e)
        BY <4>1, <1>0, <1>1, <1>3 DEF Fresh, Waits
      <4>3. QED BY <4>2 DEF Virgin, Kept, Unborn
    <3>2. QED BY <3>1
  <2>3. At(c, "repair") => T(c) \subseteq T(c)'
    <3>1. ASSUME At(c, "repair") PROVE T(c) \subseteq T(c)'
      <4>1. Repair(c) /\ ingress # {} /\ ingress \subseteq Events
        BY <3>1, <1>0, HeadIsStep DEF Unborn, Stored, Rows
      <4>2. QED BY <4>1, <1>0, RepairTurn
    <3>2. QED BY <3>1
  <2>4. \/ "run" \in T(c)' /\ "row" \notin T(c)'
        \/ {"release", "repair"} \subseteq T(c)'
    BY <1>0, <1>1, <1>3, <2>1, <2>2, <2>3, Carrying
  <2>5. local'[c].own = e
    BY <1>0, <1>1, <1>3, <2>4 DEF GoesOn
  <2>6. QED BY <2>4, <2>5 DEF Expected
<1>4. QED BY <1>2, <1>3

(* Only the closing of the superseded event decides one in a connection.   *)
LEMMA ClientDecides ==
    ASSUME NEW c \in Clients, ClientStep(c)
    PROVE  up' = up /\ (verdict' = verdict \/ CloseOld(c))
<1>1. CASE Step(c)
  BY <1>1, BootAssumption DEF Step, Judge, Reply, SaveFinal, SaveItem, CheckEvidence, Sweep, Repair,
     RepairMessage, RepairEvent, RepairEnqueue, RepairRun, RepairDelete, BindAll, Supersede,
     CloseOld, Raise, Frame, store
<1>2. CASE \/ Collect(c) \/ Look(c) \/ Result(c) \/ Project(c) \/ Outcomes(c) \/ Rewrite(c)
           \/ Stop(c) \/ Ask(c) \/ Route(c)
           \/ NewItem(c) \/ Check(c) \/ SaveRow(c) \/ AppendMessage(c)
  BY <1>2, BootAssumption DEF Collect, Look, Result, Project, Outcomes, Rewrite, Stop, Ask, Route, NewItem, Check, SaveRow,
     AppendMessage, Raise, Frame, store
<1>3. CASE Enqueue(c) \/ SaveRun(c) \/ DeleteRow(c) \/ Bind(c) \/ Await(c) \/ Decide(c)
           \/ Prepare(c) \/ Release(c)
  BY <1>3, BootAssumption DEF Enqueue, SaveRun, DeleteRow, Bind, Await, Decide, Prepare,
     Release, Raise, Frame, store
<1>4. QED BY <1>1, <1>2, <1>3 DEF ClientStep

LEMMA SingleClient ==
    ASSUME ~Overlapping, Single, Alone', NEW c \in Clients, ClientStep(c) PROVE Single'
<1>0. /\ c \in Procs /\ ScriptInv /\ Based /\ Keeps(c) /\ GoesOn(c) /\ Holding(c) /\ Alone
      /\ OneBegins /\ Opens(c) /\ (Active' \subseteq Active \/ RepairRun(c) \/ SaveRun(c))
      /\ \A d \in Clients : Fitting(d, T(d)) /\ d \in Procs
  BY SingleFacts, ClientMoves, ClientGoesOn, ClientHolds, ClientOpens
     DEF Procs, Moved, ScriptInv
<1>1. up = "up" /\ up' = up
  <2>1. local[c].todo # <<>>
    BY <1>0 DEF GoesOn, At
  <2>2. QED BY <1>0, <2>1, Awake, ClientDecides
<1>2. \A e, f \in OpenWork' : e = f
  BY <1>0 DEF Opens, Single
<1>3. \A e \in Unborn' : Expected(e)'
  <2>1. CASE Unborn' \subseteq Unborn
    <3>1. ASSUME NEW e \in Unborn' PROVE Expected(e)'
      <4>1. e \in Unborn /\ Expected(e)
        BY <2>1, <1>1 DEF Single
      <4>2. QED BY <1>1, <4>1, StillExpected
    <3>2. QED BY <3>1
  <2>2. CASE /\ Unborn' \subseteq {local'[c].own}
             /\ \/ "run" \in T(c)' /\ "row" \notin T(c)'
                \/ {"release", "repair"} \subseteq T(c)'
    <3>1. ASSUME NEW e \in Unborn' PROVE Expected(e)'
      <4>1. local'[c].own = e
        BY <2>2
      <4>2. QED BY <2>2, <4>1 DEF Expected
    <3>2. QED BY <3>1
  <2>3. QED BY <1>0, <2>1, <2>2 DEF Opens
<1>4. ASSUME NEW d \in Clients, "run" \in T(d)', "check" \notin T(d)' PROVE Active' = {}
  <2>1. CASE d # c
    <3>1. "run" \in T(d) /\ "check" \notin T(d)
      BY <1>0, <1>4, <2>1 DEF Keeps
    <3>2. T(c) \cap Busy = {}
      BY <1>0, <2>1, <3>1, Lonely DEF Begins
    <3>3. ~RepairRun(c) /\ ~SaveRun(c)
      <4>1. RepairRun(c) => "rrun" \in T(c)
        BY <1>0, Heading DEF RepairRun
      <4>2. SaveRun(c) => "run" \in T(c)
        BY <1>0, Heading DEF SaveRun
      <4>3. QED BY <3>2, <4>1, <4>2 DEF Busy, Mending
    <3>4. QED BY <1>0, <3>1, <3>3 DEF Single
  <2>2. CASE d = c
    <3>1. "run" \in T(c)
      BY <1>0, <1>4, <2>2 DEF Holding
    <3>2. CASE At(c, "check")
      <4>1. Check(c)
        BY <3>2, HeadIsStep
      <4>2. Active = {} /\ UNCHANGED run
        BY <1>0, <1>4, <2>2, <4>1, CheckTurn DEF Check
      <4>3. QED BY <4>2 DEF Active
    <3>3. CASE ~At(c, "check")
      <4>1. "check" \notin T(c)
        <5>1. PICK h \in Steps :
                 /\ At(c, h) /\ h \in T(c) /\ T(c) \subseteq {h} \cup After(h)
                 /\ \/ T(c) \ ({h} \cup Settling) \subseteq T(c)'
                    \/ h \in Closing
                    \/ h = "check"
          BY <1>0 DEF GoesOn
        <5>2. h \notin Closing
          BY <3>1, <5>1 DEF Closing, After, SteerSteps, AfterClaim
        <5>3. QED BY <1>4, <2>2, <3>3, <5>1, <5>2 DEF Settling
      <4>2. Active = {}
        BY <3>1, <4>1 DEF Single
      <4>3. ~RepairRun(c)
        <5>1. RepairRun(c) => "rrun" \in T(c)
          BY <1>0, Heading DEF RepairRun
        <5>2. "rrun" \notin T(c)
          BY <1>0, <3>1, <4>1 DEF Fitting, Complete, Mending
        <5>3. QED BY <5>1, <5>2
      <4>4. ~SaveRun(c)
        <5>1. SaveRun(c) => "run" \notin T(c)'
          BY <1>0, PlainTurns DEF Popped, Pops, After
        <5>2. QED BY <5>1, <1>4, <2>2
      <4>5. QED BY <1>0, <4>2, <4>3, <4>4
    <3>4. QED BY <3>2, <3>3
  <2>3. QED BY <2>1, <2>2
<1>5. ASSUME NEW d \in Clients, "prepare" \in T(d)' PROVE verdict'[local'[d].old] = "none"
  <2>1. ASSUME CloseOld(c) PROVE "supersede" \in T(c) /\ "prepare" \notin T(c)'
    <3>1. "supersede" \in T(c)
      BY <1>0, <2>1, Heading DEF CloseOld
    <3>2. local[c].old \in Events
      BY <1>0, <3>1 DEF Based, Aim
    <3>3. QED BY <1>0, <2>1, <3>1, <3>2, CloseOldTurn, Raising DEF Pops, After, AfterClaim
  <2>2. CASE d # c
    <3>1. "prepare" \in T(d) /\ local'[d] = local[d]
      BY <1>0, <1>5, <2>2 DEF Keeps
    <3>2. T(c) \cap Busy = {}
      <4>1. Begins(d)
        BY <1>0, <3>1 DEF Fitting, OfClient, Begins
      <4>2. QED BY <1>0, <2>2, <4>1, Lonely
    <3>3. verdict' = verdict
      BY <2>1, <3>2, ClientDecides DEF Busy
    <3>4. QED BY <3>1, <3>3 DEF Single
  <2>3. CASE d = c
    <3>1. verdict' = verdict
      BY <1>5, <2>1, <2>3, ClientDecides
    <3>2. QED BY <1>0, <1>5, <2>3, <3>1 DEF Holding, Single
  <2>4. QED BY <2>2, <2>3
<1>6. QED BY <1>1, <1>2, <1>3, <1>4, <1>5 DEF Single

(* No call is on when the process boots.                                   *)
LEMMA BootAlone ==
    ASSUME ScriptInv, BootStep
    PROVE  /\ up = "booting" /\ \A c \in Clients : T(c) = {}
<1>1. local[Boot].todo # <<>>
  BY DEF BootStep, Step, At, Judge, Reply, SaveFinal, SaveItem, CheckEvidence, Sweep, Repair, RepairMessage,
     RepairEvent, RepairEnqueue, RepairRun, RepairDelete, BindAll, Supersede, CloseOld,
     ReconcileSteering, Adopt, Serve
<1>2. up = "booting"
  BY <1>1, Awake DEF Procs
<1>3. QED BY <1>2, NoSteps DEF ScriptInv, Resting, Procs

LEMMA SingleBoot == ASSUME Single, Alone', BootStep PROVE Single'
<1>0. /\ Boot \in Procs /\ Boot \notin Clients /\ ScriptInv /\ Based /\ Stored /\ Keeps(Boot)
      /\ GoesOn(Boot) /\ up = "booting" /\ \A c \in Clients : T(c) = {}
  BY SingleFacts, BootAssumption, BootMoves, BootGoesOn, BootAlone DEF Procs, Moved
<1>1. \A c \in Clients : T(c)' = {}
  BY <1>0 DEF Keeps, Procs
<1>2. OpenWork' \subseteq OpenWork /\ Unborn' \subseteq Unborn
  BY BootNarrows
<1>3. ASSUME up' \in {"up", "booting"}, NEW e \in Unborn' PROVE Expected(e)'
  <2>1. "repair" \in T(Boot)
    BY <1>0, <1>2, <1>3, BootMended
  <2>2. ~Serve
    BY <1>0, <2>1, ServeTurn
  <2>3. up' = up
    BY <1>0, <1>3, <2>2, BootAssumption DEF BootStep, Step, Judge, Reply, SaveFinal, SaveItem, CheckEvidence,
       Sweep, Repair, RepairMessage, RepairEvent, RepairEnqueue, RepairRun, RepairDelete,
       BindAll, Supersede, CloseOld, ReconcileSteering, Adopt, Raise, Frame
  <2>4. "repair" \in T(Boot)'
    <3>1. CASE ~At(Boot, "repair")
      BY <1>0, <2>1, <3>1, Carrying
    <3>2. CASE At(Boot, "repair")
      <4>1. Repair(Boot)
        BY <3>2, <2>2 DEF BootStep, Step, At, Judge, Reply, SaveFinal, SaveItem, CheckEvidence, Sweep,
           RepairMessage, RepairEvent, RepairEnqueue, RepairRun, RepairDelete, BindAll,
           Supersede, CloseOld, ReconcileSteering, Adopt
      <4>2. ingress # {} /\ ingress \subseteq Events
        BY <1>0, <1>2, <1>3 DEF Unborn, Stored, Rows
      <4>3. QED BY <1>0, <4>1, <4>2, RepairTurn
    <3>3. QED BY <3>1, <3>2
  <2>5. QED BY <1>0, <2>3, <2>4 DEF Expected
<1>4. QED BY <1>1, <1>2, <1>3 DEF Single

LEMMA SingleStep == ASSUME ~Overlapping, Single, [Next]_vars PROVE Single'
<1>0. /\ Boot \in Procs /\ ScriptInv /\ Based /\ Stored /\ Alone /\ Alone'
      /\ \A d \in Clients : Fitting(d, T(d)) /\ d \in Procs
  BY SingleFacts, AloneStep DEF Procs, ScriptInv
<1>1. ASSUME NEW c \in Clients, ClientStep(c) PROVE Single'
  BY <1>0, <1>1, SingleClient
<1>2. ASSUME NEW c \in Clients, Calls(c) PROVE Single'
  <2>1. /\ c \in Procs /\ Keeps(c) /\ Holding(c) /\ UNCHANGED <<store, ledger>>
    BY <1>0, <1>2, NewCallAims, ClientHolds DEF Calls
  <2>2. T(c) = {} /\ up' = up /\ up = "up"
    BY <1>0, <1>2, StartTurn, SubmitTurn, AskingTurns DEF Calls
  <2>3. Narrows
    BY <2>1, StillNarrows DEF store, ledger
  <2>4. \A e \in Unborn' : Expected(e)'
    <3>1. ASSUME NEW e \in Unborn' PROVE Expected(e)'
      <4>1. PICK d \in Clients :
               /\ local[d].own = e
               /\ \/ "run" \in T(d) /\ "row" \notin T(d)
                  \/ {"release", "repair"} \subseteq T(d)
        BY <2>2, <2>3, <3>1 DEF Single, Expected, Narrows
      <4>2. d # c
        BY <2>2, <4>1
      <4>3. local'[d] = local[d] /\ T(d)' = T(d)
        BY <1>0, <2>1, <4>2 DEF Keeps
      <4>4. QED BY <4>1, <4>3 DEF Expected
    <3>2. QED BY <3>1
  <2>5. ASSUME NEW d \in Clients, "run" \in T(d)', "check" \notin T(d)' PROVE Active' = {}
    BY <1>0, <2>1, <2>2, <2>3, <2>5 DEF Holding, Keeps, Single, Narrows
  <2>6. ASSUME NEW d \in Clients, "prepare" \in T(d)' PROVE verdict'[local'[d].old] = "none"
    BY <1>0, <2>1, <2>2, <2>6 DEF Holding, Keeps, Single, store
  <2>7. QED BY <1>0, <2>3, <2>4, <2>5, <2>6 DEF Single, Narrows
<1>3. ASSUME BootStep PROVE Single'
  BY <1>0, <1>3, SingleBoot
<1>4. ASSUME Life \/ UNCHANGED vars PROVE Single'
  <2>1. /\ UNCHANGED <<plan, ingress, messages, payload, run, bound, reply, local, up, lock>>
        /\ \A e \in Events : verdict'[e] = "none" => verdict[e] = "none"
    <3>1. CASE UNCHANGED vars
      BY <3>1 DEF vars, store, ledger
    <3>2. ASSUME Life PROVE \A e \in Events : verdict'[e] = "none" => verdict[e] = "none"
      BY <1>0, <3>2, LifeCases DEF Take, End, store, Stored, Rows
    <3>3. QED BY <1>4, <3>1, <3>2, LifeCases
  <2>2. \A p \in Procs : local'[p] = local[p] /\ T(p)' = T(p)
    BY <1>0, <2>1, ScriptsStay
  <2>3. Narrows
    BY <2>1 DEF Narrows, OpenWork, Unborn, Active, Known
  <2>4. \A e \in Unborn' : up' \in {"up", "booting"} => Expected(e)'
    <3>1. ASSUME NEW e \in Unborn', up' \in {"up", "booting"} PROVE Expected(e)'
      <4>1. Expected(e)
        BY <2>1, <2>3, <3>1 DEF Single, Narrows
      <4>2. QED BY <1>0, <2>1, <2>2, <4>1 DEF Expected
    <3>2. QED BY <3>1
  <2>5. ASSUME NEW d \in Clients, "run" \in T(d)', "check" \notin T(d)' PROVE Active' = {}
    BY <1>0, <2>2, <2>3, <2>5 DEF Single, Narrows
  <2>6. ASSUME NEW d \in Clients, "prepare" \in T(d)' PROVE verdict'[local'[d].old] = "none"
    <3>1. "release" \in T(d) /\ "prepare" \in T(d) /\ local'[d] = local[d]
      BY <1>0, <2>2, <2>6 DEF Fitting, OfClient
    <3>2. lock # NoOne
      BY <1>0, <3>1, BootAssumption DEF ScriptInv, Resting
    <3>3. verdict' = verdict
      BY <1>4, <3>2, LifeCases DEF Take, End, vars, store
    <3>4. QED BY <3>1, <3>3 DEF Single
  <2>7. QED BY <1>0, <2>3, <2>4, <2>5, <2>6 DEF Single, Narrows
<1>5. ASSUME Restart PROVE Single'
  <2>1. /\ Keeps(Boot) /\ T(Boot)' = {"repair"} \cup BootSteps /\ up' = "booting"
        /\ \A c \in Clients : T(c) = {}
    BY <1>0, <1>5, RestartTurn
  <2>2. \A c \in Clients : T(c)' = {}
    BY <2>1, BootAssumption DEF Keeps, Procs
  <2>3. Narrows
    BY <1>5, StillNarrows DEF Restart, ledger
  <2>4. \A e \in Unborn' : Expected(e)'
    BY <2>1 DEF Expected
  <2>5. QED BY <1>0, <2>2, <2>3, <2>4 DEF Single, Narrows
<1>6. ASSUME Crash PROVE Single'
  <2>1. up' = "down" /\ \A p \in Procs : T(p)' = {}
    BY <1>0, <1>6, CrashTurn
  <2>2. Narrows
    BY <1>6, StillNarrows DEF Crash, store, ledger
  <2>3. QED BY <1>0, <2>1, <2>2 DEF Single, Narrows
<1>7. QED BY <1>1, <1>2, <1>3, <1>4, <1>5, <1>6, NextCases

LEMMA SingleInit == Init => Single
<1> SUFFICES ASSUME Init PROVE Single
  OBVIOUS
<1>1. Alone /\ \A p \in Procs : T(p) = {}
  BY AloneInit, ScriptInit
<1>2. OpenWork = {} /\ Unborn = {}
  BY DEF Init, OpenWork, Unborn, Active
<1>3. QED BY <1>1, <1>2 DEF Single, Procs

LEMMA AlwaysSingle == ASSUME ~Overlapping PROVE Spec => []Single
BY SingleInit, SingleStep, PTL DEF Spec

(* A conversation has at most one piece of work that is active and not     *)
(* decided, through starts, steerings, stops, repairs and crashes, as long *)
(* as one request at a time creates work (start, _steer_active).           *)
THEOREM WorkIsSingle == ASSUME ~Overlapping PROVE Spec => []OneActiveWork
<1>1. ASSUME Single PROVE OneActiveWork
  <2> DEFINE W == {e \in Active : verdict[e] = "none"}
  <2>1. \A e, f \in W : e = f
    BY <1>1 DEF Single, OpenWork
  <2>2. CASE W = {}
    BY <2>2, FS_EmptySet DEF OneActiveWork
  <2>3. ASSUME NEW e \in W PROVE OneActiveWork
    <3>1. W = {e}
      BY <2>1, <2>3
    <3>2. Cardinality({e}) = 1
      BY FS_Singleton
    <3>3. QED BY <3>1, <3>2 DEF OneActiveWork
  <2>4. QED BY <2>2, <2>3
<1>2. QED BY <1>1, AlwaysSingle, PTL

----------------------------------------------------------------------------
(* The versions of the plan.  Each steering makes one, for an event of its *)
(* own, and the first event of the conversation steers nothing.            *)

Successors == {e \in Events : payload[e].prev # NoEvent}

Versioned ==
    /\ plan = 1 + Cardinality(Successors)
    /\ \A e \in Events : payload[e].version <= plan /\ bound[e] <= plan
    /\ (\E e \in Events : Known(e)) =>
          \E e \in Events : Known(e) /\ payload[e].prev = NoEvent
    /\ crashes \in 0 .. MaxCrashes

(* A step that makes no plan, and leaves decided events with theirs.       *)
Planless ==
    /\ plan' = plan
    /\ \A e \in Events :
          /\ payload'[e].prev = payload[e].prev
          /\ payload'[e].version <= plan /\ bound'[e] <= plan
          /\ verdict[e] # "none" => payload'[e].version = payload[e].version

LEMMA StillPlanless ==
    ASSUME Stored, Versioned, UNCHANGED <<plan, payload, bound>> PROVE Planless
BY DEF Planless, Versioned

LEMMA StepPlans == ASSUME Alone, Versioned, NEW p \in Procs, Step(p) PROVE Planless
<1>0. Stored
  BY AloneFacts
<1>1. CASE BindAll(p)
  BY <1>0, <1>1 DEF BindAll, BoundAll, Planless, Versioned, Stored, Rows
<1>2. CASE ~BindAll(p)
  <2>1. UNCHANGED <<plan, payload, bound>>
    BY <1>2 DEF Step, Judge, Reply, SaveFinal, SaveItem, CheckEvidence, Sweep, Repair, RepairMessage,
       RepairEvent, RepairEnqueue, RepairRun, RepairDelete, Supersede, CloseOld, Raise, ledger
  <2>2. QED BY <1>0, <2>1, StillPlanless
<1>3. QED BY <1>1, <1>2

LEMMA ClientPlans ==
    ASSUME Alone, Versioned, NEW c \in Clients, ClientStep(c)
    PROVE  \/ Planless
           \/ /\ Prepare(c) /\ "prepare" \in T(c) /\ plan' = plan + 1
              /\ payload' = [payload EXCEPT ![local[c].own] =
                                [version |-> plan + 1, prev |-> local[c].old]]
              /\ bound' = bound
<1>0. Stored /\ c \in Procs /\ Aim(c) /\ ScriptInv /\ Fitting(c, T(c)) /\ Fresh(c)
  BY AloneFacts DEF Procs
<1>1. CASE Step(c)
  BY <1>0, <1>1, StepPlans
<1>2. CASE NewItem(c)
  <2>1. local[c].own \in Events /\ verdict[local[c].own] = "none"
    <3>1. "item" \in T(c)
      BY <1>0, <1>2, Heading DEF NewItem
    <3>2. QED BY <1>0, <3>1 DEF Aim, OwnSteps, Fitting, Complete, Fresh, Waits, Virgin
  <2>2. \A e \in Events :
            /\ payload'[e].prev = payload[e].prev
            /\ payload'[e].version \in {payload[e].version, plan}
            /\ verdict[e] # "none" => payload'[e].version = payload[e].version
    BY <1>0, <1>2, <2>1 DEF NewItem, Stored, Rows
  <2>3. plan <= plan /\ plan \in Nat
    BY <1>0 DEF Stored, Rows
  <2>4. plan' = plan /\ bound' = bound
    BY <1>2 DEF NewItem
  <2>5. QED BY <2>2, <2>3, <2>4 DEF Planless, Versioned
<1>3. CASE Check(c)
  <2>1. local[c].own \in Events /\ verdict[local[c].own] = "none"
    <3>1. "check" \in T(c)
      BY <1>0, <1>3, Heading DEF Check
    <3>2. QED BY <1>0, <3>1 DEF Aim, OwnSteps, Making, Fitting, Complete, Fresh, Waits, Virgin
  <2>2. CASE UNCHANGED <<plan, payload, bound>>
    BY <1>0, <2>2, StillPlanless
  <2>3. CASE /\ bound' \in {bound, BoundAll} /\ plan' = plan
             /\ payload' = [payload EXCEPT ![local[c].own].version = 0]
    <3>1. \A e \in Events :
              /\ payload'[e].prev = payload[e].prev
              /\ payload'[e].version \in {payload[e].version, 0}
              /\ verdict[e] # "none" => payload'[e].version = payload[e].version
      BY <1>0, <2>1, <2>3 DEF Stored, Rows
    <3>2. \A e \in Events : bound'[e] \in {bound[e], payload[e].version}
      BY <1>0, <2>3 DEF BoundAll, Stored, Rows
    <3>3. 0 <= plan
      BY <1>0 DEF Stored, Rows
    <3>4. QED BY <2>3, <3>1, <3>2, <3>3 DEF Planless, Versioned
  <2>4. QED BY <1>3, <2>2, <2>3 DEF Check
<1>4. CASE Bind(c)
  <2>1. \A e \in Events : bound'[e] = bound[e] \/ (e = local[c].own /\ bound'[e] = payload[e].version)
    BY <1>0, <1>4 DEF Bind, Stored, Rows
  <2>2. UNCHANGED <<plan, payload>>
    BY <1>4 DEF Bind
  <2>3. QED BY <2>1, <2>2 DEF Planless, Versioned
<1>5. CASE Prepare(c)
  <2>1. CASE Raise(c)
    <3>1. UNCHANGED <<plan, payload, bound>>
      BY <2>1 DEF Raise, ledger
    <3>2. QED BY <1>0, <3>1, StillPlanless
  <2>2. CASE ~Raise(c)
    BY <1>0, <1>5, <2>2, Heading DEF Prepare, NextPlan
  <2>3. QED BY <2>1, <2>2
<1>6. CASE \/ Collect(c) \/ Look(c) \/ Result(c) \/ Project(c) \/ Outcomes(c) \/ Rewrite(c)
           \/ Stop(c) \/ Ask(c) \/ Route(c) \/ SaveRow(c)
           \/ AppendMessage(c) \/ Enqueue(c) \/ SaveRun(c) \/ DeleteRow(c) \/ Await(c)
           \/ Decide(c) \/ Release(c)
  <2>1. UNCHANGED <<plan, payload, bound>>
    BY <1>6 DEF Collect, Look, Result, Project, Outcomes, Rewrite, Stop, Ask, Raise, Route, SaveRow, AppendMessage, Enqueue,
       SaveRun, DeleteRow, Await, Decide, Release, ledger
  <2>2. QED BY <1>0, <2>1, StillPlanless
<1>7. QED BY <1>1, <1>2, <1>3, <1>4, <1>5, <1>6 DEF ClientStep

LEMMA NextPlans ==
    ASSUME Alone, Versioned, [Next]_vars
    PROVE  \/ Planless
           \/ \E c \in Clients :
                 /\ Prepare(c) /\ "prepare" \in T(c) /\ plan' = plan + 1
                 /\ payload' = [payload EXCEPT ![local[c].own] =
                                   [version |-> plan + 1, prev |-> local[c].old]]
                 /\ bound' = bound
<1>0. Stored /\ Based
  BY DEF Alone, Based
<1>1. ASSUME NEW c \in Clients, Calls(c) PROVE Planless
  BY <1>0, <1>1, NewCallAims, StillPlanless DEF Calls, ledger
<1>2. ASSUME BootStep PROVE Planless
  <2>1. CASE Step(Boot)
    BY <2>1, StepPlans DEF Procs
  <2>2. CASE ReconcileSteering \/ Adopt \/ Serve
    <3>1. UNCHANGED <<plan, payload, bound>>
      BY <2>2 DEF ReconcileSteering, Adopt, Serve, Raise, ledger
    <3>2. QED BY <1>0, <3>1, StillPlanless
  <2>3. QED BY <1>2, <2>1, <2>2 DEF BootStep
<1>3. ASSUME Life \/ Restart \/ Crash \/ UNCHANGED vars PROVE Planless
  <2>1. UNCHANGED <<plan, payload, bound>>
    BY <1>3, LifeCases DEF Restart, Crash, vars, ledger
  <2>2. QED BY <1>0, <2>1, StillPlanless
<1>4. QED BY <1>1, <1>2, <1>3, ClientPlans, NextCases

LEMMA NextCrashes ==
    ASSUME Based, crashes \in 0 .. MaxCrashes, [Next]_vars PROVE crashes' \in 0 .. MaxCrashes
<1>1. CASE Crash
  BY <1>1, BoundAssumption DEF Crash
<1>2. ASSUME NEW p \in Procs, Step(p) PROVE crashes' = crashes
  BY <1>2 DEF Step, Judge, Reply, SaveFinal, SaveItem, CheckEvidence, Sweep, Repair, RepairMessage,
     RepairEvent, RepairEnqueue, RepairRun, RepairDelete, BindAll, Supersede, CloseOld, Raise, Frame
<1>3. ASSUME NEW c \in Clients, ClientStep(c), ~Step(c) PROVE crashes' = crashes
  <2>1. CASE \/ Collect(c) \/ Look(c) \/ Result(c) \/ Project(c) \/ Outcomes(c) \/ Rewrite(c)
             \/ Stop(c) \/ Ask(c) \/ Route(c)
             \/ NewItem(c) \/ Check(c) \/ SaveRow(c) \/ AppendMessage(c)
    BY <2>1 DEF Collect, Look, Result, Project, Outcomes, Rewrite, Stop, Ask, Route, NewItem, Check, SaveRow,
       AppendMessage, Raise, Frame
  <2>2. CASE Enqueue(c) \/ SaveRun(c) \/ DeleteRow(c) \/ Bind(c) \/ Await(c) \/ Decide(c)
             \/ Prepare(c) \/ Release(c)
    BY <2>2 DEF Enqueue, SaveRun, DeleteRow, Bind, Await, Decide, Prepare, Release, Raise, Frame
  <2>3. QED BY <1>3, <2>1, <2>2 DEF ClientStep
<1>4. ASSUME NEW c \in Clients, Calls(c) PROVE crashes' = crashes
  BY <1>4, NewCallAims DEF Calls
<1>5. ASSUME ReconcileSteering \/ Adopt \/ Serve PROVE crashes' = crashes
  BY <1>5 DEF ReconcileSteering, Adopt, Serve, Raise, Frame
<1>6. ASSUME Life \/ Restart \/ UNCHANGED vars PROVE crashes' = crashes
  BY <1>6, LifeCases DEF Restart, vars
<1>7. Boot \in Procs /\ \A c \in Clients : c \in Procs
  BY DEF Procs
<1>8. QED BY <1>1, <1>2, <1>3, <1>4, <1>5, <1>6, <1>7, NextCases DEF BootStep

LEMMA VersionedStep ==
    ASSUME Alone, Versioned, [Next]_vars PROVE Versioned'
<1>0. /\ Stored /\ Based /\ Based' /\ Stored' /\ IsFiniteSet(Successors)
      /\ plan \in Nat /\ plan' \in Nat
  <2>1. Stored /\ Based /\ Based'
    BY BasedStep DEF Alone, Based
  <2>2. IsFiniteSet(Successors)
    BY EventsAssumption, FS_Subset DEF Successors
  <2>3. QED BY <2>1, <2>2 DEF Based, Stored, Rows
<1>1. crashes' \in 0 .. MaxCrashes
  BY <1>0, NextCrashes DEF Versioned
<1>2. CASE Planless
  <2>1. Successors' = Successors
    BY <1>2 DEF Planless, Successors
  <2>2. \A e \in Events : payload'[e].version <= plan' /\ bound'[e] <= plan'
    BY <1>2 DEF Planless
  <2>3. ASSUME NEW f \in Events, Known(f)'
        PROVE  \E e \in Events : Known(e)' /\ payload'[e].prev = NoEvent
    <3>1. CASE payload'[f].prev = NoEvent
      BY <2>3, <3>1
    <3>2. CASE payload[f].prev # NoEvent
      <4>1. payload[f].prev \in Events /\ Known(payload[f].prev)
        BY <1>0, <3>2 DEF Stored, Rows, Begun
      <4>2. PICK e \in Events : Known(e) /\ payload[e].prev = NoEvent
        BY <4>1 DEF Versioned
      <4>3. Known(e)'
        <5>1. Grown
          BY <1>0, GrownStep
        <5>2. QED BY <4>2, <5>1 DEF Grown
      <4>4. QED BY <1>2, <4>2, <4>3 DEF Planless
    <3>3. QED BY <1>2, <3>1, <3>2 DEF Planless
  <2>4. plan' = 1 + Cardinality(Successors')
    BY <1>2, <2>1 DEF Planless, Versioned
  <2>5. QED BY <1>1, <2>2, <2>3, <2>4 DEF Versioned
<1>3. ASSUME NEW c \in Clients, Prepare(c), "prepare" \in T(c), plan' = plan + 1,
             payload' = [payload EXCEPT ![local[c].own] =
                            [version |-> plan + 1, prev |-> local[c].old]],
             bound' = bound
      PROVE  Versioned'
  <2>1. /\ local[c].own \in Events /\ local[c].old \in Events /\ Known(local[c].old)
        /\ Virgin(local[c].own)
    <3>1. c \in Procs
      BY DEF Procs
    <3>2. QED BY <1>3, <3>1, AloneFacts DEF Aim, OwnSteps, Fresh, Waits
  <2>2. /\ payload'[local[c].own].prev = local[c].old
        /\ payload'[local[c].own].version = plan + 1
        /\ \A e \in Events \ {local[c].own} : payload'[e] = payload[e]
    BY <1>0, <1>3, <2>1 DEF Stored, Rows
  <2>3. Successors' = Successors \cup {local[c].own} /\ local[c].own \notin Successors
    BY <2>1, <2>2, EventsAssumption DEF Successors, Virgin
  <2>4. Cardinality(Successors') = Cardinality(Successors) + 1
    BY <1>0, <2>3, FS_AddElement
  <2>5. plan' = 1 + Cardinality(Successors')
    <3>1. Cardinality(Successors) \in Nat
      BY <1>0, FS_CardinalityType
    <3>2. QED BY <1>3, <2>4, <3>1 DEF Versioned
  <2>6. \A e \in Events : payload'[e].version <= plan' /\ bound'[e] <= plan'
    <3>1. ASSUME NEW e \in Events PROVE payload'[e].version <= plan' /\ bound'[e] <= plan'
      <4>1. /\ payload[e].version \in Nat /\ bound[e] \in Nat
            /\ payload[e].version <= plan /\ bound[e] <= plan
        BY <1>0 DEF Stored, Rows, Versioned
      <4>2. payload'[e].version \in {payload[e].version, plan + 1}
        BY <2>2
      <4>3. QED BY <1>0, <1>3, <4>1, <4>2
    <3>2. QED BY <3>1
  <2>7. \E e \in Events : Known(e)' /\ payload'[e].prev = NoEvent
    <3>1. PICK e \in Events : Known(e) /\ payload[e].prev = NoEvent
      BY <2>1 DEF Versioned
    <3>2. e # local[c].own
      BY <2>1, <3>1 DEF Virgin, Kept
    <3>3. Known(e)'
      <4>1. Grown
        BY <1>0, GrownStep
      <4>2. QED BY <3>1, <4>1 DEF Grown
    <3>4. QED BY <2>2, <3>1, <3>2, <3>3
  <2>8. QED BY <1>1, <2>5, <2>6, <2>7 DEF Versioned
<1>4. QED BY <1>2, <1>3, NextPlans

LEMMA AlwaysVersioned == ASSUME ~Overlapping PROVE Spec => [](Alone /\ Versioned)
<1>1. Init => Alone /\ Versioned
  <2> SUFFICES ASSUME Init PROVE Versioned
    BY AloneInit
  <2>1. Successors = {}
    BY DEF Init, Successors
  <2>2. QED BY <2>1, FS_EmptySet, BoundAssumption DEF Init, Versioned, Known
<1>2. Alone /\ Versioned /\ [Next]_vars => (Alone /\ Versioned)'
  BY AloneStep, VersionedStep
<1>3. QED BY <1>1, <1>2, PTL DEF Spec

(* Every store and every process holds what it is made for.  The plan has  *)
(* as many versions as events steered, one less than events at most: each  *)
(* _prepare_steering_ingress makes one, for an event that is new.          *)
THEOREM SteeringTypes == ASSUME ~Overlapping PROVE Spec => []TypeOK
<1>1. ASSUME Alone, Versioned PROVE TypeOK
  <2>1. Stored /\ ScriptInv /\ Rows
    BY <1>1 DEF Alone, Based, Stored
  <2>2. /\ IsFiniteSet(Successors) /\ Cardinality(Successors) <= Cardinality(Events)
        /\ Cardinality(Successors) = Cardinality(Events) => Successors = Events
        /\ Cardinality(Successors) \in Nat /\ Cardinality(Events) \in Nat
    BY EventsAssumption, FS_Subset, FS_CardinalityType DEF Successors
  <2>3. Successors # Events
    <3>1. ASSUME Successors = Events PROVE FALSE
      <4>1. PICK e \in Events : TRUE
        BY EventsAssumption
      <4>2. payload[e].prev \in Events /\ Known(payload[e].prev)
        BY <2>1, <3>1, <4>1 DEF Successors, Stored, Rows, Begun
      <4>3. PICK f \in Events : payload[f].prev = NoEvent
        BY <1>1, <4>2 DEF Versioned
      <4>4. QED BY <3>1, <4>3 DEF Successors
    <3>2. QED BY <3>1
  <2>4. plan \in 1 .. Cardinality(Events)
    BY <1>1, <2>2, <2>3 DEF Versioned
  <2>5. /\ payload \in [Events -> [version : 0 .. Cardinality(Events),
                                   prev : Events \cup {NoEvent}]]
        /\ bound \in [Events -> 0 .. Cardinality(Events)]
    <3>1. ASSUME NEW e \in Events
          PROVE  /\ payload[e] \in [version : 0 .. Cardinality(Events), prev : Events \cup {NoEvent}]
                 /\ bound[e] \in 0 .. Cardinality(Events)
      <4>1. /\ payload[e] \in [version : Nat, prev : Events \cup {NoEvent}] /\ bound[e] \in Nat
            /\ payload[e].version <= plan /\ bound[e] <= plan
        BY <1>1, <2>1 DEF Rows, Versioned
      <4>2. payload[e].version \in 0 .. Cardinality(Events) /\ bound[e] \in 0 .. Cardinality(Events)
        BY <2>2, <2>4, <4>1
      <4>3. QED BY <4>1, <4>2
    <3>2. QED BY <2>1, <3>1 DEF Rows
  <2>6. ASSUME NEW p \in Procs
        PROVE  /\ local[p].todo \in Seq(Steps)
               /\ {local[p].own, local[p].old, local[p].target} \subseteq Events \cup {NoEvent}
               /\ local[p].how \in {"none", "fresh", "stale", "cancelled"}
               /\ local[p].base \in BOOLEAN
    <3>1. local[p] \in Locals
      BY <2>1 DEF ScriptInv
    <3>2. QED BY <3>1 DEF Locals
  <2>7. up \in {"down", "booting", "up", "broken"} /\ lock \in Procs \cup {NoOne}
    BY <2>1 DEF ScriptInv, Resting, Procs
  <2>8. crashes \in 0 .. MaxCrashes
    BY <1>1 DEF Versioned
  <2>9. QED BY <2>1, <2>4, <2>5, <2>6, <2>7, <2>8 DEF TypeOK, Rows
<1>2. QED BY <1>1, AlwaysVersioned, PTL


----------------------------------------------------------------------------
(* What the conversation is told.  A verdict is given once.                *)

Given(e) ==
    \/ verdict'[e] = verdict[e]
    \/ /\ verdict[e] = "none"
       /\ verdict'[e] \in {Verdict(e, "success"), Verdict(e, "failure")}

LEMMA VerdictTurn ==
    ASSUME Alone, [Next]_vars
    PROVE  \A e \in Events : Given(e)
<1>0. ScriptInv /\ Based /\ Stored /\ DecidedStaysDone
  BY DEF Alone, Based
<1>2. ASSUME NEW p \in Procs, CloseOld(p) 
      PROVE  \A e \in Events : Given(e)
  <2>1. CASE UNCHANGED store
    BY <2>1 DEF store, Given
  <2>2. CASE ~UNCHANGED store
    <3>1. local[p].old \in Events
      <4>1. "supersede" \in T(p)
        BY <1>0, <1>2, Heading DEF CloseOld
      <4>2. QED BY <4>1 DEF Alone, Based, Aim
    <3>2. /\ status[local[p].old] # "done"
          /\ verdict' = [verdict EXCEPT ![local[p].old] = Verdict(local[p].old, "failure")]
      BY <1>2, <2>2 DEF CloseOld, Raise, store
    <3>3. QED BY <1>0, <3>1, <3>2 DEF Given, DecidedStaysDone, Stored, Rows
  <2>3. QED BY <2>1, <2>2
<1>3. ASSUME NEW e \in Events, End(e) 
      PROVE  \A f \in Events : Given(f)
  BY <1>0, <1>3 DEF Given, End, Stored, Rows
<1>4. ASSUME NEW p \in Procs, Step(p), ~CloseOld(p) PROVE verdict' = verdict
  BY <1>4 DEF Step, Judge, Reply, SaveFinal, SaveItem, CheckEvidence, Sweep, Repair, RepairMessage,
     RepairEvent, RepairEnqueue, RepairRun, RepairDelete, BindAll, Supersede, store
<1>5. ASSUME NEW c \in Clients, ClientStep(c), ~Step(c) PROVE verdict' = verdict
  <2>1. CASE \/ Collect(c) \/ Look(c) \/ Result(c) \/ Project(c) \/ Outcomes(c) \/ Rewrite(c)
             \/ Stop(c) \/ Ask(c) \/ Route(c)
             \/ NewItem(c) \/ Check(c) \/ SaveRow(c) \/ AppendMessage(c)
    BY <2>1 DEF Collect, Look, Result, Project, Outcomes, Rewrite, Stop, Ask, Route, NewItem,
       Check, SaveRow, AppendMessage, Raise, store
  <2>2. CASE Enqueue(c) \/ SaveRun(c) \/ DeleteRow(c) \/ Bind(c) \/ Await(c) \/ Decide(c)
             \/ Prepare(c) \/ Release(c)
    BY <2>2 DEF Enqueue, SaveRun, DeleteRow, Bind, Await, Decide, Prepare, Release, Raise, store
  <2>3. QED BY <1>5, <2>1, <2>2 DEF ClientStep
<1>6. ASSUME NEW c \in Clients, Calls(c) PROVE verdict' = verdict
  BY <1>0, <1>6, NewCallAims DEF Calls, store
<1>7. ASSUME ReconcileSteering \/ Adopt \/ Serve PROVE verdict' = verdict
  BY <1>7 DEF ReconcileSteering, Adopt, Serve, Raise, store
<1>8. ASSUME Restart \/ Crash \/ UNCHANGED vars PROVE verdict' = verdict
  BY <1>8 DEF Restart, Crash, vars, store
<1>9. ASSUME Life PROVE \A e \in Events : Given(e)
  <2>1. ASSUME NEW e \in Events, Take(e) PROVE verdict' = verdict
    BY <2>1 DEF Take
  <2>2. QED BY <1>3, <1>9, <2>1, LifeCases DEF Given, store
<1>10. Boot \in Procs /\ \A c \in Clients : c \in Procs
  BY DEF Procs
<1>11. QED BY <1>2, <1>4, <1>5, <1>6, <1>7, <1>8, <1>9, <1>10, NextCases DEF Given, BootStep

(* What p settles, or is to have judged next, is decided.                  *)
Settled(p) ==
    T(p) \cap Settling # {} \/ ("judge" \in T(p) /\ "supersede" \notin T(p)) =>
        verdict[local[p].target] # "none"

Resolved == Alone /\ \A p \in Procs : Settled(p)

(* Verdicts stay.                                                          *)
Firm == \A e \in Events : verdict[e] # "none" => verdict'[e] = verdict[e]

LEMMA Firmly == ASSUME Alone, [Next]_vars PROVE Firm
BY VerdictTurn DEF Given, Firm

LEMMA ResolvedFacts ==
    ASSUME Resolved, NEW p \in Procs
    PROVE  /\ Alone /\ Based /\ ScriptInv /\ Stored /\ Aim(p) /\ Settled(p)
           /\ DecidedStaysDone /\ Fitting(p, T(p)) /\ ingress \subseteq Events
BY AloneFacts DEF Resolved, Alone, Stored, Rows

LEMMA TurnedSettled ==
    ASSUME Resolved, Firm, NEW p \in Procs,
           T(p)' \cap (Settling \cup {"judge"}) \subseteq T(p),
           "judge" \in T(p)' /\ "supersede" \in T(p) => "supersede" \in T(p)',
           T(p)' \cap (Settling \cup {"judge"}) # {} => local'[p].target = local[p].target
    PROVE  Settled(p)'
<1>0. Settled(p) /\ Aim(p)
  BY ResolvedFacts
<1>1. T(p) \cap Settling # {} \/ ("judge" \in T(p) /\ "supersede" \notin T(p)) =>
         local[p].target \in Events
  BY <1>0 DEF Aim, Settles
<1>2. QED BY <1>0, <1>1 DEF Settled, Firm

LEMMA PoppedSettled ==
    ASSUME Resolved, Firm, NEW p \in Procs, NEW h, h # "supersede", Popped(p, h)
    PROVE  Settled(p)'
BY TurnedSettled DEF Popped, Pops, Same

LEMMA IdleSettled == ASSUME NEW p, T(p)' = {} PROVE Settled(p)'
BY DEF Settled

(* A superseded event that is closed is decided.                           *)
LEMMA OldIsClosed ==
    ASSUME Alone, NEW p \in Procs, CloseOld(p)
    PROVE  /\ local[p].old \in Events /\ verdict'[local[p].old] # "none"
           /\ ScriptInv' /\ Keeps(p) /\ Pops(p, "supersede")
           /\ local'[p].old = local[p].old /\ local'[p].target = local[p].old
           /\ up' = up /\ lock' = lock /\ UNCHANGED ledger
<1>0. ScriptInv /\ Stored /\ Aim(p) /\ Decided
  BY AloneFacts
<1>1. "supersede" \in T(p)
  BY <1>0, Heading DEF CloseOld
<1>2. local[p].old \in Events
  BY <1>0, <1>1 DEF Aim
<1>3. ~(status[local[p].old] = "processing" /\ verdict[local[p].old] # "none")
  BY <1>0, <1>2 DEF Decided, DecidedStaysDone
<1>4. verdict'[local[p].old] # "none"
  <2>1. CASE status[local[p].old] = "done" /\ UNCHANGED store
    <3>1. verdict[local[p].old] # "none"
      BY <1>0, <1>2, <2>1 DEF Decided
    <3>2. QED BY <2>1, <3>1 DEF store
  <2>2. CASE verdict' = [verdict EXCEPT ![local[p].old] = Verdict(local[p].old, "failure")]
    BY <1>0, <1>2, <2>2 DEF Verdict, Stored, Rows
  <2>3. QED BY <1>3, <2>1, <2>2 DEF CloseOld
<1>5. QED BY <1>0, <1>2, <1>3, <1>4, CloseOldTurn

LEMMA StepSettles == ASSUME Resolved, Firm, NEW p \in Procs, Step(p) PROVE Settled(p)'
<1>0. /\ Alone /\ Based /\ ScriptInv /\ Stored /\ Aim(p) /\ Settled(p)
      /\ DecidedStaysDone /\ ingress \subseteq Events
  BY ResolvedFacts
<1>1. CASE \/ SaveFinal(p) \/ SaveItem(p) \/ CheckEvidence(p) \/ RepairMessage(p)
           \/ RepairEnqueue(p) \/ RepairRun(p) \/ RepairDelete(p) \/ BindAll(p) \/ Supersede(p)
  BY <1>0, <1>1, PlainTurns, PoppedSettled
<1>2. ASSUME Judge(p) PROVE Settled(p)'
  <2>1. /\ "judge" \in T(p) /\ "supersede" \notin T(p)
        /\ T(p)' \subseteq (T(p) \ {"judge"}) \cup Settling
        /\ local'[p].target = local[p].target
        /\ UNCHANGED store
    BY <1>0, <1>2, JudgeTurn DEF Settling
  <2>2. verdict[local[p].target] # "none"
    BY <1>0, <2>1 DEF Settled
  <2>3. QED BY <2>1, <2>2 DEF Settled, store
<1>3. ASSUME Sweep(p) PROVE Settled(p)'
  <2>1. CASE Popped(p, "sweep")
    BY <2>1, PoppedSettled
  <2>2. CASE ~Popped(p, "sweep")
    <3>1. local'[p].target \in Active /\ verdict[local'[p].target] = "cancelled"
      BY <1>0, <1>3, <2>2, SweepTurn
    <3>2. QED BY <3>1 DEF Settled, Firm, Active
  <2>3. QED BY <2>1, <2>2
<1>4. ASSUME Repair(p) PROVE Settled(p)'
  <2>1. CASE Popped(p, "repair")
    BY <2>1, PoppedSettled
  <2>2. CASE ~Popped(p, "repair")
    <3>1. /\ T(p)' = {"rmessage", "revent", "rrun", "rdelete"} \cup T(p)
          /\ T(p) \subseteq {"repair"} \cup AfterRepair
          /\ "judge" \in T(p) => "supersede" \in T(p)
      BY <1>0, <1>4, <2>2, RepairTurn
    <3>2. QED BY <3>1 DEF Settled, Settling, AfterRepair, Making, SteerSteps, BootSteps
  <2>3. QED BY <2>1, <2>2
<1>5. ASSUME RepairEvent(p) PROVE Settled(p)'
  <2>1. /\ Same(p)
        /\ T(p)' \subseteq T(p) \cup {"renqueue"} /\ T(p) \ {"revent"} \subseteq T(p)'
    BY <1>0, <1>5, RepairEventTurn
  <2>2. QED BY <2>1, TurnedSettled DEF Same, Settling
<1>6. ASSUME Reply(p) PROVE Settled(p)'
  <2>1. /\ Same(p) /\ T(p)' \subseteq T(p) \ {"reply"}
        /\ T(p) \ {"reply", "save", "saveitem"} \subseteq T(p)'
    BY <1>0, <1>6, ReplyTurn
  <2>2. QED BY <2>1, TurnedSettled DEF Same, Settling
<1>7. ASSUME CloseOld(p) PROVE Settled(p)'
  <2>1. /\ Pops(p, "supersede") /\ local'[p].target = local[p].old
        /\ verdict'[local[p].old] # "none"
    BY <1>0, <1>7, OldIsClosed
  <2>2. T(p)' \cap Settling = {}
    BY <2>1 DEF Pops, After, AfterClaim, Settling
  <2>3. QED BY <2>1, <2>2 DEF Settled
<1>8. QED BY <1>1, <1>2, <1>3, <1>4, <1>5, <1>6, <1>7 DEF Step

LEMMA ClientSettles ==
    ASSUME Resolved, Firm, NEW c \in Clients, ClientStep(c) PROVE Settled(c)'
<1>0. /\ c \in Procs /\ Alone /\ Based /\ ScriptInv /\ Stored /\ Aim(c) /\ Settled(c)
  BY ResolvedFacts DEF Procs
<1>1. CASE Step(c)
  BY <1>0, <1>1, StepSettles
<1>2. CASE \/ NewItem(c) \/ SaveRow(c) \/ AppendMessage(c) \/ Enqueue(c) \/ SaveRun(c)
           \/ DeleteRow(c) \/ Rewrite(c)
  BY <1>0, <1>2, PlainTurns, PoppedSettled
<1>3. ASSUME Collect(c) PROVE Settled(c)'
  <2>1. CASE Popped(c, "collect")
    BY <1>0, <2>1, PoppedSettled
  <2>2. CASE ~Popped(c, "collect")
    <3>1. /\ T(c)' = {"judge"} \cup T(c) /\ T(c) \subseteq Resume
          /\ local'[c].target \in Events /\ verdict[local'[c].target] # "none"
      BY <1>0, <1>3, <2>2, CollectTurn
    <3>2. QED BY <3>1 DEF Settled, Settling, Firm, Resume, StartSteps, Making
  <2>3. QED BY <2>1, <2>2
<1>4. ASSUME Look(c) PROVE Settled(c)'
  <2>1. "look" \in T(c) /\ local[c].target \in Events
    <3>1. "look" \in T(c)
      BY <1>0, <1>4, LookTurn
    <3>2. QED BY <1>0, <3>1 DEF Aim, Settles
  <2>2. \/ T(c)' \in {{"result"}, {"project"}}
        \/ local'[c].target = local[c].target /\ verdict[local[c].target] = "cancelled"
    BY <1>0, <1>4, LookTurn
  <2>3. QED BY <2>1, <2>2 DEF Settled, Settling, Firm
<1>5. ASSUME Result(c) PROVE Settled(c)'
  <2>1. /\ T(c) = {"result"} /\ Same(c)
        /\ \/ T(c)' \in {{"project"}, {}}
           \/ T(c)' = {"judge", "project"} /\ verdict[local[c].target] # "none"
    BY <1>0, <1>5, ResultTurn
  <2>2. local[c].target \in Events
    BY <1>0, <2>1 DEF Aim, Settles
  <2>3. QED BY <2>1, <2>2 DEF Settled, Settling, Firm, Same
<1>14. ASSUME Project(c) \/ Outcomes(c) PROVE Settled(c)'
  <2>1. Popped(c, "outcomes") \/ T(c)' \in {{"rewrite"}, {"rewrite", "outcomes"}, {}}
    BY <1>0, <1>14, ProjectTurn, OutcomesTurn
  <2>2. QED BY <1>0, <2>1, PoppedSettled DEF Settled, Settling
<1>6. ASSUME Stop(c) \/ Ask(c) PROVE Settled(c)'
  BY <1>0, <1>6, StopTurn, AskTurn, Raising, PoppedSettled, IdleSettled
<1>7. ASSUME Route(c) PROVE Settled(c)'
  BY <1>0, <1>7, RouteTurn DEF Settled, Settling, StartSteps, Making
<1>8. ASSUME Check(c) PROVE Settled(c)'
  BY <1>0, <1>8, CheckTurn, PoppedSettled, IdleSettled
<1>9. ASSUME Bind(c) \/ Release(c) PROVE Settled(c)'
  BY <1>0, <1>9, BindTurn, ReleaseTurn, IdleSettled
<1>10. ASSUME Await(c) PROVE Settled(c)'
  <2>1. /\ T(c) = {"wait"} /\ T(c)' = {"judge", "collect"}
        /\ local'[c].target = local[c].own /\ verdict[local[c].own] # "none"
    BY <1>0, <1>10, AwaitTurn
  <2>2. local[c].own \in Events
    BY <1>0, <2>1 DEF Aim, OwnSteps, Making
  <2>3. QED BY <2>1, <2>2 DEF Settled, Settling, Firm
<1>11. ASSUME Decide(c) PROVE Settled(c)'
  BY <1>0, <1>11, DecideTurn DEF Settled, Settling, StartSteps, Making, SteerSteps
<1>12. ASSUME Prepare(c) PROVE Settled(c)'
  BY <1>0, <1>12, PrepareTurn, Raising, PoppedSettled, IdleSettled
<1>13. QED BY <1>1, <1>2, <1>3, <1>4, <1>5, <1>6, <1>7, <1>8, <1>9, <1>10, <1>11, <1>12,
          <1>14 DEF ClientStep

LEMMA BootSettles == ASSUME Resolved, Firm, BootStep PROVE Settled(Boot)'
<1>0. Boot \in Procs /\ Alone /\ Based /\ ScriptInv /\ Stored /\ Settled(Boot)
  BY ResolvedFacts DEF Procs
<1>1. CASE Step(Boot)
  BY <1>0, <1>1, StepSettles
<1>2. ASSUME ReconcileSteering PROVE Settled(Boot)'
  <2>0. \A e \in Events : payload[e].prev \in Events \cup {NoEvent}
    BY <1>0 DEF Stored, Rows
  <2>1. CASE Popped(Boot, "steering")
    BY <1>0, <2>1, PoppedSettled
  <2>2. CASE T(Boot)' = {}
    BY <2>2, IdleSettled
  <2>3. CASE /\ T(Boot) \subseteq {"steering", "adopt", "sweep", "serve"}
             /\ T(Boot)' = {"claim", "supersede", "judge"} \cup T(Boot)
    BY <2>3 DEF Settled, Settling
  <2>4. QED BY <1>0, <1>2, <2>0, <2>1, <2>2, <2>3, ReconcileTurn, Raising
<1>3. CASE Adopt
  BY <1>0, <1>3, AdoptTurn, PoppedSettled
<1>4. CASE Serve
  BY <1>0, <1>4, ServeTurn, IdleSettled
<1>5. QED BY <1>1, <1>2, <1>3, <1>4 DEF BootStep

LEMMA CallsSettle == ASSUME ScriptInv, NEW c \in Clients, Calls(c) PROVE Settled(c)'
<1>1. T(c)' \cap (Settling \cup {"judge"}) = {}
  <2>1. CASE Start(c)
    BY <2>1, StartTurn DEF Settling
  <2>2. CASE Submit(c)
    BY <2>2, SubmitTurn DEF Settling
  <2>3. CASE ~Start(c) /\ ~Submit(c)
    BY <2>3, AskingTurns DEF Calls, Settling
  <2>4. QED BY <2>1, <2>2, <2>3
<1>2. QED BY <1>1 DEF Settled

LEMMA ResolvedStep == ASSUME ~Overlapping, Resolved, [Next]_vars PROVE Resolved'
<1>0. /\ Alone /\ Based /\ ScriptInv /\ Boot \in Procs
      /\ \A c \in Clients : c \in Procs
      /\ \A p \in Procs : Settled(p) /\ Aim(p)
  BY ResolvedFacts DEF Resolved, Alone, Based, Procs
<1>1. Alone'
  BY <1>0, AloneStep
<1>2. Firm
  BY <1>0, Firmly
<1>4. ASSUME NEW p \in Procs, Keeps(p), Settled(p)' PROVE \A q \in Procs : Settled(q)'
  <2>1. ASSUME NEW q \in Procs, q # p PROVE Settled(q)'
    <3>1. local'[q] = local[q] /\ T(q)' = T(q)
      BY <1>4, <2>1 DEF Keeps
    <3>2. QED BY <1>2, <3>1, TurnedSettled
  <2>2. QED BY <1>4, <2>1
<1>5. \A p \in Procs : Settled(p)'
  <2>1. ASSUME NEW c \in Clients, ClientStep(c) PROVE \A p \in Procs : Settled(p)'
    BY <1>0, <1>2, <1>4, <2>1, ClientSettles, ClientMoves DEF Moved
  <2>2. ASSUME NEW c \in Clients, Calls(c) PROVE \A p \in Procs : Settled(p)'
    BY <1>0, <1>2, <1>4, <2>2, CallsSettle, NewCallAims DEF Calls
  <2>3. CASE BootStep
    BY <1>0, <1>2, <1>4, <2>3, BootSettles, BootMoves DEF Moved
  <2>4. CASE Life \/ UNCHANGED vars
    <3>1. UNCHANGED <<local, up, lock>>
      BY <2>4, LifeCases DEF vars
    <3>2. QED BY <1>0, <1>2, <3>1, ScriptsStay, TurnedSettled
  <2>5. CASE Restart
    <3>1. Keeps(Boot) /\ T(Boot)' = {"repair"} \cup BootSteps
      BY <1>0, <2>5, RestartTurn
    <3>2. Settled(Boot)'
      BY <3>1 DEF Settled, Settling, BootSteps
    <3>3. QED BY <1>0, <1>4, <3>1, <3>2
  <2>6. CASE Crash
    BY <1>0, <2>6, CrashTurn, IdleSettled
  <2>7. QED BY <2>1, <2>2, <2>3, <2>4, <2>5, <2>6, NextCases
<1>6. QED BY <1>1, <1>5 DEF Resolved

LEMMA ResolvedInit == Init => Resolved
<1> SUFFICES ASSUME Init PROVE Resolved
  OBVIOUS
<1>1. Alone /\ \A p \in Procs : T(p) = {}
  BY AloneInit, ScriptInit
<1>2. QED BY <1>1 DEF Resolved, Settled

(* What was there when an event was decided stays as it was.               *)
Sealed ==
    /\ plan' \in {plan, plan + 1}
    /\ \A e \in Events :
          verdict[e] # "none" => /\ verdict'[e] = verdict[e]
                                 /\ evidence'[e] = evidence[e]
                                 /\ payload'[e].version = payload[e].version

(* The steps that write the answer, the acceptance and a blocked item.     *)
Answers(p) == Reply(p) \/ (p \in Clients /\ Rewrite(p))
Blocks(p) == SaveItem(p) \/ CheckEvidence(p)

LEMMA StepWrites ==
    ASSUME Stored, NEW p \in Procs, Step(p)
    PROVE  /\ evidence' = evidence
           /\ ~Answers(p) => reply' = reply
           /\ ~Blocks(p) => item' = item
BY DEF Step, Judge, Reply, SaveFinal, SaveItem, CheckEvidence, Sweep, Repair, RepairMessage,
   RepairEvent, RepairEnqueue, RepairRun, RepairDelete, BindAll, Supersede, CloseOld, Raise,
   Answers, Blocks, ledger

LEMMA ClientWrites ==
    ASSUME Alone, NEW c \in Clients, ClientStep(c), ~Step(c)
    PROVE  /\ evidence' = evidence
           /\ ~Answers(c) => reply' = reply
           /\ \A e \in Events : item'[e] = "blocked" => item[e] = "blocked"
<1>0. Stored /\ Aim(c) /\ ScriptInv /\ Fitting(c, T(c)) /\ c \in Procs
  BY AloneFacts DEF Procs
<1>1. CASE \/ Collect(c) \/ Look(c) \/ Result(c) \/ Project(c) \/ Outcomes(c) \/ Rewrite(c)
           \/ Stop(c) \/ Ask(c) \/ Route(c) \/ SaveRow(c) \/ AppendMessage(c)
  BY <1>1 DEF Collect, Look, Result, Project, Outcomes, Rewrite, Stop, Ask, Route, SaveRow,
     AppendMessage, Raise, Answers, ledger
<1>2. CASE Enqueue(c) \/ SaveRun(c) \/ DeleteRow(c) \/ Bind(c) \/ Await(c) \/ Decide(c)
           \/ Release(c)
  BY <1>2 DEF Enqueue, SaveRun, DeleteRow, Bind, Await, Decide, Release, ledger
<1>3. CASE NewItem(c) \/ Check(c)
  <2>1. item' \in {item, [item EXCEPT ![local[c].own] = "running"],
                   [item EXCEPT ![local[c].own] = "none"]}
    BY <1>3 DEF NewItem, Check
  <2>2. UNCHANGED <<evidence, reply>>
    BY <1>3 DEF NewItem, Check
  <2>3. QED BY <1>0, <2>1, <2>2 DEF Stored, Rows
<1>4. CASE Prepare(c)
  <2>1. UNCHANGED <<evidence, reply>>
    BY <1>4 DEF Prepare, Raise, ledger
  <2>2. item' \in {item, [SupersededBefore(NextPlan) EXCEPT ![local[c].own] = "running"]}
    BY <1>4 DEF Prepare, Raise, ledger
  <2>3. \A e \in Events : SupersededBefore(NextPlan)[e] \in {item[e], "superseded"}
    BY DEF SupersededBefore
  <2>4. DOMAIN SupersededBefore(NextPlan) = Events
    BY DEF SupersededBefore
  <2>5. QED BY <1>0, <2>1, <2>2, <2>3, <2>4
<1>5. QED BY <1>1, <1>2, <1>3, <1>4 DEF ClientStep

LEMMA BootWrites ==
    ASSUME Stored, ReconcileSteering \/ Adopt \/ Serve
    PROVE  /\ evidence' = evidence /\ reply' = reply
           /\ \A e \in Events : item'[e] = "blocked" => item[e] = "blocked"
<1>1. CASE Adopt \/ Serve \/ (ReconcileSteering /\ item' = item)
  BY <1>1 DEF Adopt, Serve, ReconcileSteering, Raise, ledger
<1>2. CASE ReconcileSteering /\ item' # item
  <2>1. PICK f \in Events : item' = SupersededBefore(payload[f].version)
    BY <1>2 DEF ReconcileSteering, Raise, Unfinished, ledger
  <2>2. UNCHANGED <<evidence, reply>>
    BY <1>2 DEF ReconcileSteering, Raise, ledger
  <2>3. QED BY <2>1, <2>2 DEF SupersededBefore
<1>3. QED BY <1>1, <1>2

LEMMA LifeWrites ==
    ASSUME Stored, Life
    PROVE  /\ reply' = reply
           /\ \A e \in Events : /\ item'[e] = "blocked" => item[e] = "blocked"
                                /\ verdict[e] # "none" => evidence'[e] = evidence[e]
<1>1. CASE UNCHANGED ledger
  BY <1>1 DEF ledger
<1>2. ASSUME NEW f \in Events, AskEvidence(f) \/ GiveEvidence(f)
      PROVE  \A e \in Events : /\ item'[e] = "blocked" => item[e] = "blocked"
                               /\ verdict[e] # "none" => evidence'[e] = evidence[e]
  <2>1. /\ verdict[f] = "none"
        /\ item' \in {item, [item EXCEPT ![f] = "completed"]}
        /\ evidence' \in {[evidence EXCEPT ![f] = "asked"], [evidence EXCEPT ![f] = "given"]}
    BY <1>2 DEF AskEvidence, GiveEvidence, Working
  <2>2. QED BY <2>1 DEF Stored, Rows
<1>3. QED BY <1>1, <1>2, LifeCases

LEMMA NextWrites ==
    ASSUME Alone, [Next]_vars
    PROVE  /\ \A e \in Events : verdict[e] # "none" => evidence'[e] = evidence[e]
           /\ reply' = reply \/ \E p \in Procs : Answers(p)
           /\ \/ \A e \in Events : item'[e] = "blocked" => item[e] = "blocked"
              \/ \E p \in Procs : Blocks(p)
<1>0. Stored /\ ScriptInv /\ Based /\ Boot \in Procs /\ \A c \in Clients : c \in Procs
  BY DEF Alone, Based, Procs
<1>1. ASSUME NEW c \in Clients, Calls(c) PROVE UNCHANGED <<evidence, reply, item>>
  BY <1>0, <1>1, NewCallAims DEF Calls, ledger
<1>2. ASSUME Restart \/ Crash \/ UNCHANGED vars PROVE UNCHANGED <<evidence, reply, item>>
  BY <1>2 DEF Restart, Crash, vars, ledger
<1>3. ASSUME NEW p \in Procs, Step(p)
      PROVE  /\ evidence' = evidence
             /\ reply' = reply \/ \E q \in Procs : Answers(q)
             /\ item' = item \/ \E q \in Procs : Blocks(q)
  BY <1>0, <1>3, StepWrites
<1>4. ASSUME NEW c \in Clients, ClientStep(c), ~Step(c)
      PROVE  /\ evidence' = evidence
             /\ reply' = reply \/ \E q \in Procs : Answers(q)
             /\ \A e \in Events : item'[e] = "blocked" => item[e] = "blocked"
  BY <1>0, <1>4, ClientWrites
<1>5. CASE \E p \in Procs : Step(p)
  BY <1>3, <1>5
<1>6. CASE \E c \in Clients : ClientStep(c) /\ ~Step(c)
  BY <1>4, <1>6
<1>7. CASE \E c \in Clients : Calls(c)
  BY <1>1, <1>7
<1>8. CASE ReconcileSteering \/ Adopt \/ Serve
  BY <1>0, <1>8, BootWrites
<1>9. CASE Life
  <2>1. /\ reply' = reply
        /\ \A e \in Events : item'[e] = "blocked" => item[e] = "blocked"
        /\ \A e \in Events : verdict[e] # "none" => evidence'[e] = evidence[e]
    <3>1. Stored /\ Life
      BY <1>0, <1>9
    <3>2. QED BY ONLY <3>1, LifeWrites
  <2>2. QED BY <2>1
<1>10. CASE Restart \/ Crash \/ UNCHANGED vars
  BY <1>2, <1>10
<1>11. \/ \E p \in Procs : Step(p)
       \/ \E c \in Clients : (ClientStep(c) /\ ~Step(c)) \/ Calls(c)
       \/ ReconcileSteering \/ Adopt \/ Serve \/ Life \/ Restart \/ Crash \/ UNCHANGED vars
  BY <1>0, NextCases DEF BootStep
<1>12. QED BY <1>5, <1>6, <1>7, <1>8, <1>9, <1>10, <1>11

LEMMA SealedStep == ASSUME Alone, Versioned, [Next]_vars PROVE Sealed
<1>0. Firm /\ Stored /\ \A e \in Events : verdict[e] # "none" => evidence'[e] = evidence[e]
  BY Firmly, NextWrites DEF Alone, Based
<1>1. CASE Planless
  BY <1>0, <1>1 DEF Planless, Sealed, Firm
<1>2. ASSUME NEW c \in Clients, "prepare" \in T(c), plan' = plan + 1,
             payload' = [payload EXCEPT ![local[c].own] =
                            [version |-> plan + 1, prev |-> local[c].old]]
      PROVE  Sealed
  <2>1. verdict[local[c].own] = "none"
    BY <1>2, AloneFacts DEF Fresh, Waits, Virgin, Procs
  <2>2. QED BY <1>0, <1>2, <2>1 DEF Sealed, Firm, Stored, Rows
<1>3. QED BY <1>1, <1>2, NextPlans

(* What may be told of an event may be told of it for good.                *)
LEMMA HonestyLasts ==
    ASSUME Stored, Sealed, NEW e \in Events, NEW said, said # "none", Honest(e, said)
    PROVE  said \in Verdicts \cup {"blocked"} => Honest(e, said)'
BY DEF Honest, Sealed, Verdicts

(* The item of an event is blocked for a reason: it was no success, or its *)
(* criteria were not verified, or not for the plan in force.               *)
Blamed(e) ==
    \/ verdict[e] \in {"failure", "cancelled"}
    \/ verdict[e] = "success" /\ (evidence[e] = "asked" \/ payload[e].version # plan)

LEMMA BlameLasts ==
    ASSUME Stored, Versioned, Sealed, NEW e \in Events, Blamed(e) PROVE Blamed(e)'
<1>1. payload[e].version \in Nat /\ plan \in Nat /\ payload[e].version <= plan
  BY DEF Stored, Rows, Versioned
<1>2. QED BY <1>1 DEF Blamed, Sealed

(* What p is about to tell, or to ask for, is so.                          *)
Telling(p) ==
    LET e == local[p].target IN
    /\ "reply" \in T(p) /\ local[p].how = "cancelled" => verdict[e] = "cancelled"
    /\ "evidence" \in T(p) => verdict[e] = "success" /\ evidence[e] # "none"
    /\ "rewrite" \in T(p) => Honest(e, "blocked")

Told ==
    /\ Resolved /\ Versioned /\ ReplyIsHonest
    /\ \A e \in Events : item[e] = "blocked" => Blamed(e)
    /\ \A p \in Procs : Telling(p)

LEMMA ToldFacts ==
    ASSUME Told, NEW p \in Procs
    PROVE  /\ Resolved /\ Alone /\ Based /\ ScriptInv /\ Stored /\ Aim(p) /\ Telling(p)
           /\ Settled(p) /\ ingress \subseteq Events
BY ResolvedFacts DEF Told

Says == {"reply", "evidence", "rewrite"}

LEMMA TurnedTelling ==
    ASSUME Told, Sealed, NEW p \in Procs,
           T(p)' \cap Says \subseteq T(p),
           T(p)' \cap Says # {} => local'[p].target = local[p].target,
           "reply" \in T(p)' => local'[p].how = local[p].how
    PROVE  Telling(p)'
<1>0. Telling(p) /\ Aim(p) /\ Stored
  BY ToldFacts
<1>1. CASE T(p)' \cap Says = {}
  BY <1>1 DEF Telling, Says
<1>2. CASE T(p)' \cap Says # {}
  <2>1. local[p].target \in Events /\ local'[p].target = local[p].target
    BY <1>0, <1>2 DEF Aim, Settles, Settling, Says
  <2>2. "rewrite" \in T(p)' => Honest(local[p].target, "blocked")'
    BY <1>0, <2>1, HonestyLasts DEF Telling, Says
  <2>3. QED BY <1>0, <2>1, <2>2 DEF Telling, Says, Sealed, Honest
<1>3. QED BY <1>1, <1>2

LEMMA PoppedTelling ==
    ASSUME Told, Sealed, NEW p \in Procs, NEW h, Popped(p, h) PROVE Telling(p)'
BY TurnedTelling DEF Popped, Pops, Same

LEMMA MuteTelling == ASSUME NEW p, T(p)' \cap Says = {} PROVE Telling(p)'
BY DEF Telling, Says

LEMMA StepTells == ASSUME Told, Sealed, NEW p \in Procs, Step(p) PROVE Telling(p)'
<1>0. Alone /\ ScriptInv /\ Telling(p) /\ Aim(p) /\ Stored /\ ingress \subseteq Events
  BY ToldFacts
<1>1. CASE \/ SaveFinal(p) \/ SaveItem(p) \/ CheckEvidence(p) \/ RepairMessage(p)
           \/ RepairEnqueue(p) \/ RepairRun(p) \/ RepairDelete(p) \/ BindAll(p) \/ Supersede(p)
  BY <1>0, <1>1, PlainTurns, PoppedTelling
<1>2. ASSUME Judge(p) PROVE Telling(p)'
  <2>1. /\ "judge" \in T(p) /\ "supersede" \notin T(p)
        /\ T(p)' \subseteq (T(p) \ {"judge"}) \cup Settling
        /\ local'[p].target = local[p].target
        /\ local'[p].how # "cancelled" \/ "reply" \notin T(p)'
        /\ "evidence" \in T(p)' => /\ verdict[local[p].target] = "success"
                                   /\ evidence[local[p].target] # "none"
    BY <1>0, <1>2, JudgeTurn DEF Settling
  <2>2. "rewrite" \notin T(p)
    BY <1>0, <1>2, Heading DEF Judge, After, Resume, StartSteps, Making
  <2>3. local[p].target \in Events
    BY <1>0, <2>1 DEF Aim, Settles
  <2>4. QED BY <2>1, <2>2, <2>3 DEF Telling, Settling, Sealed
<1>3. ASSUME Sweep(p) PROVE Telling(p)'
  <2>1. CASE Popped(p, "sweep")
    BY <2>1, PoppedTelling
  <2>2. CASE ~Popped(p, "sweep")
    <3>1. /\ T(p)' = {"reply", "save"} \cup T(p) /\ T(p) \subseteq Resume
          /\ local'[p].target \in Active /\ verdict[local'[p].target] = "cancelled"
      BY <1>0, <1>3, <2>2, SweepTurn
    <3>2. T(p)' \cap {"evidence", "rewrite"} = {}
      BY <3>1 DEF Resume, StartSteps, Making
    <3>3. QED BY <3>1, <3>2 DEF Telling, Sealed, Active
  <2>3. QED BY <2>1, <2>2
<1>4. ASSUME Repair(p) PROVE Telling(p)'
  <2>1. CASE Popped(p, "repair")
    BY <2>1, PoppedTelling
  <2>2. CASE ~Popped(p, "repair")
    <3>1. /\ T(p)' = {"rmessage", "revent", "rrun", "rdelete"} \cup T(p)
          /\ T(p) \subseteq {"repair"} \cup AfterRepair
      BY <1>0, <1>4, <2>2, RepairTurn
    <3>2. QED BY <3>1, MuteTelling DEF Says, AfterRepair, Making, SteerSteps, BootSteps
  <2>3. QED BY <2>1, <2>2
<1>5. CASE RepairEvent(p)
  <2>1. Same(p) /\ T(p)' \subseteq T(p) \cup {"renqueue"}
    BY <1>0, <1>5, RepairEventTurn
  <2>2. QED BY <2>1, TurnedTelling DEF Same, Says
<1>6. CASE Reply(p)
  <2>1. Same(p) /\ T(p)' \subseteq T(p)
    BY <1>0, <1>6, ReplyTurn
  <2>2. QED BY <2>1, TurnedTelling DEF Same
<1>7. ASSUME CloseOld(p) PROVE Telling(p)'
  <2>1. Pops(p, "supersede")
    BY <1>0, <1>7, OldIsClosed
  <2>2. QED BY <2>1, MuteTelling DEF Pops, After, AfterClaim, Says
<1>8. QED BY <1>1, <1>2, <1>3, <1>4, <1>5, <1>6, <1>7 DEF Step

(* A summary is made of blocked work of the plan in force.                 *)
LEMMA SummaryIsHonest ==
    ASSUME ~BlockedChildren, Told, NEW e \in Events, Summarised(e)
    PROVE  Honest(e, "blocked")
<1>1. item[e] = "blocked" /\ payload[e].version = plan
  BY DEF Summarised
<1>2. Blamed(e)
  BY <1>1 DEF Told
<1>3. QED BY <1>1, <1>2 DEF Blamed, Honest

LEMMA ClientTells ==
    ASSUME ~BlockedChildren, Told, Sealed, NEW c \in Clients, ClientStep(c)
    PROVE  Telling(c)'
<1>0. c \in Procs /\ ScriptInv /\ Aim(c) /\ Telling(c) /\ Stored
  BY ToldFacts DEF Procs
<1>1. CASE Step(c)
  BY <1>0, <1>1, StepTells
<1>2. CASE \/ NewItem(c) \/ SaveRow(c) \/ AppendMessage(c) \/ Enqueue(c) \/ SaveRun(c)
           \/ DeleteRow(c) \/ Rewrite(c)
  BY <1>0, <1>2, PlainTurns, PoppedTelling
<1>3. ASSUME Collect(c) PROVE Telling(c)'
  <2>1. CASE Popped(c, "collect")
    BY <1>0, <2>1, PoppedTelling
  <2>2. CASE ~Popped(c, "collect")
    <3>1. T(c)' = {"judge"} \cup T(c) /\ T(c) \subseteq Resume
      BY <1>0, <1>3, <2>2, CollectTurn
    <3>2. QED BY <3>1, MuteTelling DEF Resume, StartSteps, Making, Says
  <2>3. QED BY <2>1, <2>2
<1>4. ASSUME Look(c) PROVE Telling(c)'
  <2>1. "look" \in T(c) /\ local[c].target \in Events
    <3>1. "look" \in T(c)
      BY <1>0, <1>4, LookTurn
    <3>2. QED BY <1>0, <3>1 DEF Aim, Settles
  <2>2. \/ T(c)' \in {{"result"}, {"project"}}
        \/ /\ T(c)' = {"reply", "save", "project"}
           /\ local'[c].target = local[c].target /\ verdict[local[c].target] = "cancelled"
    BY <1>0, <1>4, LookTurn
  <2>3. QED BY <2>1, <2>2 DEF Telling, Sealed
<1>5. ASSUME Result(c) PROVE Telling(c)'
  <2>1. T(c)' \in {{"project"}, {"judge", "project"}, {}}
    BY <1>0, <1>5, ResultTurn
  <2>2. QED BY <2>1, MuteTelling DEF Says
<1>6. ASSUME Project(c) PROVE Telling(c)'
  <2>1. /\ T(c) = {"project"} /\ Same(c)
        /\ \/ T(c)' = {"rewrite"} /\ Summarised(local[c].target)
           \/ T(c)' = {}
    BY <1>0, <1>6, ProjectTurn
  <2>2. local[c].target \in Events
    BY <1>0, <2>1 DEF Aim, Settles
  <2>3. CASE T(c)' = {}
    BY <2>3, MuteTelling
  <2>4. CASE T(c)' = {"rewrite"} /\ Summarised(local[c].target)
    <3>1. Honest(local[c].target, "blocked")
      BY <2>2, <2>4, SummaryIsHonest
    <3>2. Honest(local[c].target, "blocked")' /\ local'[c].target = local[c].target
      <4>1. Honest(local[c].target, "blocked") => local'[c].target = local[c].target
        BY <2>1 DEF Same
      <4>2. QED BY <1>0, <2>2, <3>1, <4>1, HonestyLasts DEF Honest, Sealed
    <3>3. QED BY <2>4, <3>2 DEF Telling, Honest
  <2>5. QED BY <2>1, <2>3, <2>4
<1>14. ASSUME Outcomes(c) PROVE Telling(c)'
  <2>1. CASE Popped(c, "outcomes")
    BY <1>0, <2>1, PoppedTelling
  <2>2. CASE ~Popped(c, "outcomes")
    <3>1. T(c)' = {"rewrite", "outcomes"} /\ local'[c].target \in Unsaid
      BY <1>0, <1>14, <2>2, OutcomesTurn
    <3>2. local'[c].target \in Events /\ Summarised(local'[c].target)
      BY <3>1 DEF Unsaid
    <3>3. Honest(local'[c].target, "blocked")
      BY <3>2, SummaryIsHonest
    <3>4. QED BY <3>1, <3>2, <3>3 DEF Telling, Honest, Sealed
  <2>3. QED BY <2>1, <2>2
<1>7. CASE Stop(c) \/ Ask(c)
  BY <1>0, <1>7, StopTurn, AskTurn, Raising, PoppedTelling, MuteTelling
<1>8. CASE Route(c)
  BY <1>0, <1>8, RouteTurn, MuteTelling DEF Says, StartSteps, Making
<1>9. CASE Check(c)
  BY <1>0, <1>9, CheckTurn, PoppedTelling, MuteTelling
<1>10. CASE Bind(c) \/ Release(c)
  BY <1>0, <1>10, BindTurn, ReleaseTurn, MuteTelling
<1>11. CASE Await(c)
  BY <1>0, <1>11, AwaitTurn, MuteTelling DEF Says
<1>12. CASE Decide(c)
  BY <1>0, <1>12, DecideTurn, MuteTelling DEF Says, StartSteps, Making, SteerSteps
<1>13. CASE Prepare(c)
  BY <1>0, <1>13, PrepareTurn, Raising, PoppedTelling, MuteTelling
<1>15. QED BY <1>1, <1>2, <1>3, <1>4, <1>5, <1>6, <1>7, <1>8, <1>9, <1>10, <1>11, <1>12,
          <1>13, <1>14 DEF ClientStep

LEMMA BootTells == ASSUME Told, Sealed, BootStep PROVE Telling(Boot)'
<1>0. Boot \in Procs /\ ScriptInv /\ Stored /\ Telling(Boot)
  BY ToldFacts DEF Procs
<1>1. CASE Step(Boot)
  BY <1>0, <1>1, StepTells
<1>2. ASSUME ReconcileSteering PROVE Telling(Boot)'
  <2>1. \A e \in Events : payload[e].prev \in Events \cup {NoEvent}
    BY <1>0 DEF Stored, Rows
  <2>2. \/ Popped(Boot, "steering") \/ T(Boot)' = {}
        \/ /\ T(Boot) \subseteq {"steering", "adopt", "sweep", "serve"}
           /\ T(Boot)' = {"claim", "supersede", "judge"} \cup T(Boot)
    BY <1>0, <1>2, <2>1, ReconcileTurn, Raising
  <2>3. QED BY <1>0, <2>2, PoppedTelling, MuteTelling DEF Says
<1>3. CASE Adopt
  BY <1>0, <1>3, AdoptTurn, PoppedTelling
<1>4. CASE Serve
  BY <1>0, <1>4, ServeTurn, MuteTelling
<1>5. QED BY <1>1, <1>2, <1>3, <1>4 DEF BootStep

LEMMA CallsTell == ASSUME ScriptInv, NEW c \in Clients, Calls(c) PROVE Telling(c)'
<1>1. T(c)' \cap Says = {}
  <2>1. CASE Start(c)
    BY <2>1, StartTurn DEF Says
  <2>2. CASE Submit(c)
    BY <2>2, SubmitTurn DEF Says
  <2>3. CASE ~Start(c) /\ ~Submit(c)
    BY <2>3, AskingTurns DEF Calls, Says
  <2>4. QED BY <2>1, <2>2, <2>3
<1>2. QED BY <1>1, MuteTelling

(* An item is blocked for what is known of its event.                      *)
LEMMA BlockedStep ==
    ASSUME Told, Sealed, [Next]_vars
    PROVE  \A e \in Events : item'[e] = "blocked" => Blamed(e)'
<1>0. Alone /\ Stored /\ Versioned /\ ScriptInv
  BY DEF Told, Resolved, Alone, Based
<1>1. \A e \in Events : item[e] = "blocked" => Blamed(e)'
  BY <1>0, BlameLasts DEF Told
<1>2. ASSUME NEW p \in Procs, Blocks(p), NEW e \in Events, item'[e] = "blocked"
      PROVE  item[e] = "blocked" \/ Blamed(e)
  <2>0. Settled(p) /\ Telling(p) /\ Aim(p)
    BY ToldFacts
  <2>1. CASE SaveItem(p)
    <3>1. "saveitem" \in T(p)
      BY <1>0, <2>1, Heading DEF SaveItem
    <3>2. local[p].target \in Events /\ verdict[local[p].target] \in Verdicts
      BY <1>0, <2>0, <3>1 DEF Settled, Settling, Aim, Settles, Stored, Rows
    <3>3. item[e] = "blocked" \/ (e = local[p].target /\ verdict[e] # "success")
      BY <1>0, <1>2, <2>1, <3>2 DEF SaveItem, Stored, Rows
    <3>4. QED BY <3>2, <3>3 DEF Blamed, Verdicts
  <2>2. CASE CheckEvidence(p)
    <3>1. "evidence" \in T(p)
      BY <1>0, <2>2, Heading DEF CheckEvidence
    <3>2. /\ local[p].target \in Events /\ verdict[local[p].target] = "success"
          /\ evidence[local[p].target] \in {"asked", "given"}
      BY <1>0, <2>0, <3>1 DEF Telling, Settling, Aim, Settles, Stored, Rows
    <3>3. item[e] = "blocked" \/ (e = local[p].target /\ ~Accepted(e))
      BY <1>0, <1>2, <2>2, <3>2 DEF CheckEvidence, Stored, Rows
    <3>4. QED BY <3>2, <3>3 DEF Blamed, Accepted
  <2>3. QED BY <1>2, <2>1, <2>2 DEF Blocks
<1>3. ASSUME NEW p \in Procs, Blocks(p), NEW e \in Events, item'[e] = "blocked"
      PROVE  Blamed(e)'
  BY <1>0, <1>1, <1>2, <1>3, BlameLasts
<1>4. QED BY <1>0, <1>1, <1>3, NextWrites

(* What is written into the transcript may be told of the event.           *)
LEMMA AnswersAreHonest ==
    ASSUME Told, NEW p \in Procs, Answers(p), NEW e \in Events
    PROVE  reply'[e] = reply[e] \/ (reply'[e] # "none" /\ Honest(e, reply'[e]))
<1>0. ScriptInv /\ Stored /\ Aim(p) /\ Telling(p) /\ Settled(p)
  BY ToldFacts
<1>1. CASE Reply(p)
  <2>1. "reply" \in T(p)
    BY <1>0, <1>1, ReplyTurn
  <2>2. local[p].target \in Events /\ verdict[local[p].target] \in Verdicts
    BY <1>0, <2>1 DEF Settled, Settling, Aim, Settles, Stored, Rows
  <2> DEFINE said == IF local[p].how = "cancelled" THEN "cancelled"
                     ELSE IF verdict[local[p].target] = "success" THEN "success"
                     ELSE "failure"
  <2>3. said # "none" /\ Honest(local[p].target, said)
    BY <1>0, <2>1, <2>2 DEF Telling, Honest, Verdicts
  <2>4. reply' \in {reply, [reply EXCEPT ![local[p].target] = said]}
    BY <1>1 DEF Reply
  <2> HIDE DEF said
  <2>5. QED BY <1>0, <2>2, <2>3, <2>4 DEF Stored, Rows
<1>2. CASE Rewrite(p)
  <2>1. "rewrite" \in T(p)
    BY <1>0, <1>2, Heading DEF Rewrite
  <2>2. local[p].target \in Events /\ Honest(local[p].target, "blocked")
    BY <1>0, <2>1 DEF Aim, Settles, Telling
  <2>3. reply' \in {reply, [reply EXCEPT ![local[p].target] = "blocked"]}
    BY <1>2 DEF Rewrite
  <2>4. QED BY <1>0, <2>2, <2>3 DEF Stored, Rows
<1>3. QED BY <1>1, <1>2 DEF Answers

LEMMA RepliesStep == ASSUME Told, Sealed, [Next]_vars PROVE ReplyIsHonest'
<1>0. Stored /\ Alone /\ Stored'
  <2>1. Based /\ Alone
    BY DEF Told, Resolved, Alone
  <2>2. QED BY <2>1, BasedStep DEF Based
<1>1. ASSUME NEW e \in Events PROVE Honest(e, reply[e])'
  <2>1. PICK said \in Verdicts \cup {"none", "blocked"} : said = reply'[e]
    BY <1>0 DEF Stored, Rows
  <2>2. Honest(e, reply[e])
    BY DEF Told, ReplyIsHonest
  <2>3. Honest(e, said)
    <3>1. reply'[e] = reply[e] \/ Honest(e, reply'[e])
      BY <1>0, AnswersAreHonest, NextWrites
    <3>2. QED BY <2>1, <2>2, <3>1
  <2>4. said # "none" => Honest(e, said)'
    BY <1>0, <2>1, <2>3, HonestyLasts
  <2>5. CASE said = "none"
    BY <2>1, <2>5 DEF Honest
  <2>6. CASE said # "none"
    BY <2>1, <2>4, <2>6 DEF Honest
  <2>7. QED BY <2>5, <2>6
<1>2. QED BY <1>1 DEF ReplyIsHonest

LEMMA ToldStep ==
    ASSUME ~Overlapping, ~BlockedChildren, Told, [Next]_vars PROVE Told'
<1>0. /\ Resolved /\ Alone /\ Based /\ ScriptInv /\ Versioned /\ Boot \in Procs
      /\ \A c \in Clients : c \in Procs
      /\ \A p \in Procs : Telling(p) /\ Aim(p)
  BY ToldFacts DEF Told, Resolved, Alone, Based, Procs
<1>1. Resolved' /\ Versioned'
  BY <1>0, ResolvedStep, VersionedStep
<1>2. Sealed
  BY <1>0, SealedStep
<1>3. ReplyIsHonest' /\ \A e \in Events : item'[e] = "blocked" => Blamed(e)'
  BY <1>2, RepliesStep, BlockedStep
<1>4. ASSUME NEW p \in Procs, Keeps(p), Telling(p)' PROVE \A q \in Procs : Telling(q)'
  <2>1. ASSUME NEW q \in Procs, q # p PROVE Telling(q)'
    <3>1. local'[q] = local[q] /\ T(q)' = T(q)
      BY <1>4, <2>1 DEF Keeps
    <3>2. QED BY <1>2, <3>1, TurnedTelling
  <2>2. QED BY <1>4, <2>1
<1>5. \A p \in Procs : Telling(p)'
  <2>1. ASSUME NEW c \in Clients, ClientStep(c) PROVE \A p \in Procs : Telling(p)'
    BY <1>0, <1>2, <1>4, <2>1, ClientTells, ClientMoves DEF Moved
  <2>2. ASSUME NEW c \in Clients, Calls(c) PROVE \A p \in Procs : Telling(p)'
    BY <1>0, <1>2, <1>4, <2>2, CallsTell, NewCallAims DEF Calls
  <2>3. CASE BootStep
    BY <1>0, <1>2, <1>4, <2>3, BootTells, BootMoves DEF Moved
  <2>4. CASE Life \/ UNCHANGED vars
    <3>1. UNCHANGED <<local, up, lock>>
      BY <2>4, LifeCases DEF vars
    <3>2. QED BY <1>0, <1>2, <3>1, ScriptsStay, TurnedTelling
  <2>5. CASE Restart
    <3>1. Keeps(Boot) /\ T(Boot)' = {"repair"} \cup BootSteps
      BY <1>0, <2>5, RestartTurn
    <3>2. Telling(Boot)'
      BY <3>1, MuteTelling DEF Says, BootSteps
    <3>3. QED BY <1>0, <1>4, <3>1, <3>2
  <2>6. CASE Crash
    BY <1>0, <2>6, CrashTurn, MuteTelling
  <2>7. QED BY <2>1, <2>2, <2>3, <2>4, <2>5, <2>6, NextCases
<1>6. QED BY <1>1, <1>3, <1>5 DEF Told

LEMMA ToldInit == Init => Told
<1> SUFFICES ASSUME Init PROVE Told
  OBVIOUS
<1>1. Resolved /\ \A p \in Procs : T(p) = {}
  BY ResolvedInit, ScriptInit
<1>2. Versioned
  <2>1. Successors = {}
    BY DEF Init, Successors
  <2>2. QED BY <2>1, FS_EmptySet, BoundAssumption DEF Init, Versioned, Known
<1>3. QED BY <1>1, <1>2 DEF Told, Init, ReplyIsHonest, Honest, Telling

(* The final message in the transcript never says more than the outcome,   *)
(* whoever settles the run, asks for a stop or rewrites the message, and   *)
(* in whatever order (_finalize_run, _reconcile_terminal_message), while   *)
(* one request at a time creates work and no running item has a blocked    *)
(* child.                                                                  *)
THEOREM RepliesAreHonest ==
    ASSUME ~Overlapping, ~BlockedChildren PROVE Spec => []ReplyIsHonest
<1>1. Spec => []Told
  BY ToldInit, ToldStep, PTL DEF Spec
<1>2. Told => ReplyIsHonest
  BY DEF Told
<1>3. QED BY <1>1, <1>2, PTL

----------------------------------------------------------------------------
(* A steering is whole: the old work ends and the new one is bound,        *)
(* whatever cuts in.                                                       *)

(* The end of a superseded event is still to come.                         *)
Pending(e) ==
    \/ up \in {"down", "broken"}
    \/ up = "booting" /\ "steering" \in T(Boot)
    \/ \E p \in Procs :
          local[p].old = e /\ "supersede" \in T(p) /\ "prepare" \notin T(p)

(* The binding of runs to plans is still to come.                          *)
Binding ==
    \/ up \in {"down", "broken"}
    \/ up = "booting" /\ "bindall" \in T(Boot)
    \/ \E c \in Clients : "bindall" \in T(c) /\ "prepare" \notin T(c)

(* The event of the current plan.                                          *)
Newest(e) ==
    /\ payload[e].version = plan /\ payload[e].prev # NoEvent
    /\ item[e] # "none" /\ bound[e] \in {0, plan}

Replaced(e) == \E s \in Events : payload[s].prev = e

Ends(e) ==
    /\ run[e] = "stale_finalized" => verdict[e] # "none"
    /\ run[e] = "stale" => Replaced(e) /\ (verdict[e] # "none" \/ Pending(e))

Renewed ==
    plan > 1 => \E e \in Events : Newest(e) /\ (Binding \/ (bound[e] = plan /\ Known(e)))

Whole == Single /\ Resolved /\ Renewed /\ \A e \in Events : Ends(e)

(* One process of the two kinds takes a step of its script.                *)
Acts(p) == (p \in Clients /\ ClientStep(p)) \/ (p = Boot /\ BootStep)

(* A script on its way to close what it superseded, or to bind, gets there.*)
LEMMA OnTheWay ==
    ASSUME Alone, NEW p \in Procs, Acts(p),
           T(p) \cap {"bindall", "supersede"} # {}, "prepare" \notin T(p)
    PROVE  /\ local'[p].old = local[p].old /\ "prepare" \notin T(p)'
           /\ "supersede" \in T(p) => CloseOld(p) \/ "supersede" \in T(p)'
           /\ "bindall" \in T(p) => BindAll(p) \/ "bindall" \in T(p)'
<1>0. ScriptInv /\ Stored /\ Aim(p) /\ ingress \subseteq Events
  BY AloneFacts DEF Stored, Rows
<1>1. PICK h \in Steps : At(p, h) /\ h \in T(p) /\ T(p) \subseteq {h} \cup After(h)
  <2>1. local[p].todo # <<>>
    BY <1>0, NoSteps
  <2>2. At(p, Head(local[p].todo))
    BY <2>1 DEF At
  <2>3. QED BY <1>0, <2>2, Heading
<1>2. h \in {"repair", "bindall", "claim", "supersede"} \cup Mending
  BY <1>1 DEF Steps, After, StartSteps, Making, SteerSteps, AfterClaim, BootSteps, Resume, Mending
<1>3. \/ Repair(p) \/ RepairMessage(p) \/ RepairEvent(p) \/ RepairEnqueue(p) \/ RepairRun(p)
      \/ RepairDelete(p) \/ BindAll(p) \/ Supersede(p) \/ CloseOld(p)
  <2>1. CASE Step(p)
    BY <1>1, <1>2, <2>1 DEF Mending, Step, At, Judge, Reply, SaveFinal, SaveItem, CheckEvidence, Sweep
  <2>2. ASSUME p \in Clients, ClientStep(p), ~Step(p) PROVE FALSE
    <3>1. h \in {"repair", "bindall", "claim", "supersede", "rmessage", "revent", "renqueue",
                 "rrun", "rdelete"}
      BY <1>2 DEF Mending
    <3>2. CASE \/ Collect(p) \/ Look(p) \/ Result(p) \/ Project(p) \/ Outcomes(p)
               \/ Rewrite(p) \/ Stop(p) \/ Ask(p) \/ Route(p)
               \/ NewItem(p) \/ Check(p) \/ SaveRow(p) \/ AppendMessage(p)
      BY <1>1, <3>1, <3>2 DEF At, Collect, Look, Result, Project, Outcomes, Rewrite, Stop, Ask, Route, NewItem, Check, SaveRow,
         AppendMessage
    <3>3. CASE \/ Enqueue(p) \/ SaveRun(p) \/ DeleteRow(p) \/ Bind(p) \/ Await(p) \/ Decide(p)
               \/ Prepare(p) \/ Release(p)
      BY <1>1, <3>1, <3>3 DEF At, Enqueue, SaveRun, DeleteRow, Bind, Await, Decide, Prepare, Release
    <3>4. QED BY <2>2, <3>2, <3>3 DEF ClientStep
  <2>4. ASSUME p = Boot, BootStep, ~Step(p) PROVE FALSE
    BY <1>1, <1>2, <2>4 DEF Mending, BootStep, At, ReconcileSteering, Adopt, Serve
  <2>5. QED BY <2>1, <2>2, <2>4 DEF Acts
<1>4. CASE Repair(p)
  BY <1>0, <1>4, RepairTurn DEF Popped, Pops, Same
<1>5. CASE RepairEvent(p)
  BY <1>0, <1>5, RepairEventTurn DEF Same
<1>6. CASE CloseOld(p)
  BY <1>6, OldIsClosed DEF Pops
<1>7. CASE RepairMessage(p) \/ RepairEnqueue(p) \/ RepairRun(p) \/ RepairDelete(p) \/ Supersede(p)
  BY <1>0, <1>7, PlainTurns DEF Popped, Pops, Same
<1>8. CASE BindAll(p)
  BY <1>0, <1>8, PlainTurns DEF Popped, Pops, Same
<1>9. QED BY <1>3, <1>4, <1>5, <1>6, <1>7, <1>8

(* While steerings are left to reconcile the constructors reconcile them,  *)
(* or have none left, or are broken.                                       *)
LEMMA StillReconciling ==
    ASSUME Alone, BootStep, "steering" \in T(Boot)
    PROVE  \/ "steering" \in T(Boot)' /\ up' = up
           \/ up' = "broken"
           \/ /\ At(Boot, "steering") /\ Unfinished = {} /\ "repair" \notin T(Boot)
              /\ UNCHANGED <<store, ledger>>
<1>0. Boot \in Procs /\ ScriptInv /\ Stored /\ Aim(Boot) /\ Based
  BY AloneFacts DEF Procs
<1>1. CASE CloseOld(Boot)
  BY <1>0, <1>1, OldIsClosed DEF Pops
<1>2. ASSUME ReconcileSteering
      PROVE  \/ "steering" \in T(Boot)' /\ up' = up
             \/ up' = "broken"
             \/ /\ At(Boot, "steering") /\ Unfinished = {} /\ "repair" \notin T(Boot)
                /\ UNCHANGED <<store, ledger>>
  <2>1. /\ At(Boot, "steering") /\ "repair" \notin T(Boot)
        /\ \A e \in Events : payload[e].prev \in Events \cup {NoEvent}
    <3>1. At(Boot, "steering")
      BY <1>2 DEF ReconcileSteering
    <3>2. T(Boot) = {"steering"} \cup Names(Rest(Boot)) /\ Names(Rest(Boot)) \subseteq After("steering")
      BY <1>0, <3>1, Heading
    <3>3. "repair" \notin T(Boot)
      BY <3>2 DEF After
    <3>4. QED BY <1>0, <3>1, <3>3 DEF Stored, Rows
  <2>2. QED BY <1>0, <1>2, <2>1, ReconcileTurn, Raising
<1>3. ASSUME ~CloseOld(Boot), ~ReconcileSteering PROVE "steering" \in T(Boot)' /\ up' = up
  <2>1. GoesOn(Boot)
    BY <1>0, BootGoesOn
  <2>2. PICK h \in Steps :
          /\ At(Boot, h) /\ h \in T(Boot) /\ T(Boot) \subseteq {h} \cup After(h)
          /\ \/ T(Boot) \ ({h} \cup Settling) \subseteq T(Boot)'
             \/ h \in Closing
             \/ h = "check"
    BY <2>1 DEF GoesOn
  <2>3. h # "steering" /\ h # "supersede"
    BY <1>3, <2>2 DEF BootStep, Step, At, Judge, Reply, SaveFinal, SaveItem, CheckEvidence, Sweep, Repair,
       RepairMessage, RepairEvent, RepairEnqueue, RepairRun, RepairDelete, BindAll,
       Supersede, Adopt, Serve
  <2>4. h \notin Closing /\ h # "check" /\ h # "serve"
    BY <2>2, <2>3 DEF Closing, After, Making, SteerSteps
  <2>5. "steering" \in T(Boot)'
    BY <2>2, <2>3, <2>4 DEF Settling
  <2>6. ~Serve
    BY <2>2, <2>4 DEF Serve, At
  <2>7. up' = up
    BY <1>3, <2>6 DEF BootStep, Step, Judge, Reply, SaveFinal, SaveItem, CheckEvidence, Sweep, Repair,
       RepairMessage, RepairEvent, RepairEnqueue, RepairRun, RepairDelete, BindAll,
       Supersede, Adopt, Frame
  <2>8. QED BY <2>5, <2>7
<1>4. QED BY <1>1, <1>2, <1>3

(* How a run becomes stale, or stale and finalized.                        *)
Turned(e) ==
    \/ run'[e] \in {run[e], "active", "finalized"}
    \/ run'[e] = "stale_finalized" /\ verdict[e] # "none"
    \/ /\ run'[e] = "stale" /\ Replaced(e)'
       /\ \E p \in Procs :
             local'[p].old = e /\ "supersede" \in T(p)' /\ "prepare" \notin T(p)'

(* What a steering that is prepared leaves.                                *)
LEMMA Prepared ==
    ASSUME Alone, NEW c \in Clients, Prepare(c), run[local[c].old] = "active"
    PROVE  /\ local[c].old \in Events /\ local[c].own \in Events /\ Virgin(local[c].own)
           /\ Keeps(c) /\ local'[c].old = local[c].old
           /\ {"supersede", "bindall"} \subseteq T(c)' /\ "prepare" \notin T(c)'
           /\ plan' = plan + 1 /\ bound' = bound /\ up' = up
           /\ run' = [run EXCEPT ![local[c].old] = "stale"]
           /\ payload' = [payload EXCEPT ![local[c].own] =
                             [version |-> plan + 1, prev |-> local[c].old]]
           /\ item' = [SupersededBefore(plan + 1) EXCEPT ![local[c].own] = "running"]
<1>0. c \in Procs /\ ScriptInv /\ Aim(c) /\ Fresh(c) /\ Fitting(c, T(c))
  BY AloneFacts DEF Procs
<1>1. "prepare" \in T(c) /\ ~Raise(c) /\ Popped(c, "prepare") /\ up' = up
  <2>1. "prepare" \in T(c)
    BY <1>0, Heading DEF Prepare
  <2>2. run' # run
    BY <1>0, <2>1 DEF Prepare, Aim, Alone, Based, Stored, Rows
  <2>3. ~Raise(c)
    BY <2>2 DEF Raise, ledger
  <2>4. QED BY <1>0, <2>1, <2>3, PrepareTurn
<1>2. local[c].old \in Events /\ local[c].own \in Events /\ Virgin(local[c].own)
  BY <1>0, <1>1 DEF Aim, OwnSteps, Fresh, Waits
<1>3. /\ Keeps(c) /\ local'[c].old = local[c].old /\ "prepare" \notin T(c)'
      /\ T(c) \ {"prepare"} \subseteq T(c)'
  BY <1>1 DEF Popped, Pops, Same, After, SteerSteps
<1>4. {"supersede", "bindall"} \subseteq T(c)
  BY <1>0, <1>1 DEF Fitting, Complete, OfClient
<1>5. QED BY <1>1, <1>2, <1>3, <1>4 DEF Prepare, NextPlan

LEMMA StepTurnsRuns ==
    ASSUME Resolved, NEW p \in Procs, Step(p) PROVE \A e \in Events : Turned(e)
<1>0. ScriptInv /\ Stored /\ Aim(p) /\ Settled(p)
  BY ResolvedFacts
<1>1. CASE SaveFinal(p)
  <2>1. "save" \in T(p)
    BY <1>0, <1>1, Heading DEF SaveFinal
  <2>2. local[p].target \in Events /\ verdict[local[p].target] # "none"
    BY <1>0, <2>1 DEF Aim, Settles, Settling, Settled
  <2>3. QED BY <1>0, <1>1, <2>2 DEF SaveFinal, Turned, Stored, Rows
<1>2. CASE RepairRun(p)
  BY <1>0, <1>2 DEF RepairRun, Turned, Stored, Rows
<1>3. CASE ~SaveFinal(p) /\ ~RepairRun(p)
  <2>1. run' = run
    BY <1>3 DEF Step, Judge, Reply, SaveItem, CheckEvidence, Sweep, Repair, RepairMessage,
       RepairEvent, RepairEnqueue, RepairDelete, BindAll, Supersede, CloseOld, Raise, ledger
  <2>2. QED BY <2>1 DEF Turned
<1>4. QED BY <1>1, <1>2, <1>3

LEMMA ClientTurnsRuns ==
    ASSUME Resolved, NEW c \in Clients, ClientStep(c) PROVE \A e \in Events : Turned(e)
<1>0. c \in Procs /\ Alone /\ Stored
  BY ResolvedFacts DEF Procs
<1>1. CASE Step(c)
  BY <1>0, <1>1, StepTurnsRuns
<1>2. CASE SaveRun(c)
  BY <1>0, <1>2 DEF SaveRun, Turned, Stored, Rows
<1>3. CASE Prepare(c) /\ run[local[c].old] = "active"
  <2>0. /\ local[c].old \in Events /\ local[c].own \in Events /\ local'[c].old = local[c].old
        /\ "supersede" \in T(c)' /\ "prepare" \notin T(c)'
        /\ run' = [run EXCEPT ![local[c].old] = "stale"]
        /\ payload' = [payload EXCEPT ![local[c].own] =
                          [version |-> plan + 1, prev |-> local[c].old]]
    BY <1>0, <1>3, Prepared
  <2>1. payload'[local[c].own].prev = local[c].old
    BY <1>0, <2>0 DEF Stored, Rows
  <2>2. ASSUME NEW e \in Events, e = local[c].old PROVE Turned(e)
    <3>1. Replaced(e)'
      BY <2>0, <2>1, <2>2 DEF Replaced
    <3>2. run'[e] = "stale"
      BY <1>0, <2>0, <2>2 DEF Stored, Rows
    <3>3. local'[c].old = e
      BY <2>0, <2>2
    <3>4. QED BY <1>0, <2>0, <3>1, <3>2, <3>3 DEF Turned
  <2>3. ASSUME NEW e \in Events, e # local[c].old PROVE Turned(e)
    BY <1>0, <2>0, <2>3 DEF Turned, Stored, Rows
  <2>4. QED BY <2>2, <2>3
<1>4. CASE ~Step(c) /\ ~SaveRun(c) /\ ~(Prepare(c) /\ run[local[c].old] = "active")
  <2>1. run' = run
    <3>1. CASE Prepare(c)
      BY <1>4, <3>1 DEF Prepare, Raise, ledger
    <3>2. CASE \/ Collect(c) \/ Look(c) \/ Result(c) \/ Project(c) \/ Outcomes(c)
               \/ Rewrite(c) \/ Stop(c) \/ Ask(c) \/ Route(c)
               \/ NewItem(c) \/ Check(c) \/ SaveRow(c) \/ AppendMessage(c)
      BY <3>2 DEF Collect, Look, Result, Project, Outcomes, Rewrite, Stop, Ask, Route, NewItem, Check, SaveRow,
         AppendMessage, Raise, ledger
    <3>3. CASE \/ Enqueue(c) \/ DeleteRow(c) \/ Bind(c) \/ Await(c) \/ Decide(c) \/ Release(c)
      BY <3>3 DEF Enqueue, DeleteRow, Bind, Await, Decide, Release, ledger
    <3>4. QED BY <1>4, <3>1, <3>2, <3>3 DEF ClientStep
  <2>2. QED BY <2>1 DEF Turned
<1>5. QED BY <1>1, <1>2, <1>3, <1>4

LEMMA BootTurnsRuns ==
    ASSUME Resolved, BootStep PROVE \A e \in Events : Turned(e)
<1>0. Boot \in Procs /\ ScriptInv /\ Stored
  BY ResolvedFacts DEF Procs
<1>1. CASE Step(Boot)
  BY <1>0, <1>1, StepTurnsRuns
<1>2. CASE Adopt
  BY <1>0, <1>2 DEF Adopt, Turned, Stored, Rows
<1>3. CASE Serve
  BY <1>3 DEF Serve, ledger, Turned
<1>4. CASE ReconcileSteering
  <2>1. CASE run' = run
    BY <2>1 DEF Turned
  <2>2. CASE run' # run
    <3>0. \A e \in Events : payload[e].prev \in Events \cup {NoEvent}
      BY <1>0 DEF Stored, Rows
    <3>1. PICK s \in Unfinished :
             /\ T(Boot) \subseteq {"steering", "adopt", "sweep", "serve"}
             /\ T(Boot)' = {"claim", "supersede", "judge"} \cup T(Boot)
             /\ local'[Boot].old = payload[s].prev
             /\ run' = [run EXCEPT ![payload[s].prev] = "stale"]
             /\ payload' = payload
      BY <1>0, <1>4, <2>2, <3>0, ReconcileTurn DEF Raise, ledger
    <3>2. s \in Events /\ payload[s].prev \in Events
      BY <3>0, <3>1 DEF Unfinished
    <3>3. Replaced(payload[s].prev)'
      BY <3>1, <3>2 DEF Replaced
    <3>4. run'[payload[s].prev] = "stale" /\ \A e \in Events : e # payload[s].prev => run'[e] = run[e]
      BY <1>0, <3>1, <3>2 DEF Stored, Rows
    <3>5. "supersede" \in T(Boot)' /\ "prepare" \notin T(Boot)'
      BY <3>1
    <3>6. QED BY <1>0, <3>1, <3>3, <3>4, <3>5 DEF Turned
  <2>3. QED BY <2>1, <2>2
<1>5. QED BY <1>1, <1>2, <1>3, <1>4 DEF BootStep

LEMMA RunsTurn ==
    ASSUME Resolved, [Next]_vars PROVE \A e \in Events : Turned(e)
<1>0. Based
  BY DEF Resolved, Alone
<1>1. ASSUME run' = run PROVE \A e \in Events : Turned(e)
  BY <1>1 DEF Turned
<1>2. ASSUME NEW c \in Clients, Calls(c) PROVE run' = run
  BY <1>0, <1>2, NewCallAims DEF Calls, ledger
<1>3. ASSUME Life \/ Restart \/ Crash \/ UNCHANGED vars PROVE run' = run
  BY <1>3, LifeCases DEF Restart, Crash, vars, ledger
<1>4. QED BY <1>1, <1>2, <1>3, ClientTurnsRuns, BootTurnsRuns, NextCases

(* What is stored of an event that steers lasts, but for its binding.      *)
Lasts(e) ==
    /\ payload'[e] = payload[e]
    /\ item[e] # "none" => item'[e] # "none"
    /\ bound'[e] \in {bound[e], payload[e].version}

Lasting == plan' = plan /\ \A e \in Successors : Lasts(e)

LEMMA StillLasting == ASSUME UNCHANGED <<plan, payload, item, bound>> PROVE Lasting
BY DEF Lasting, Lasts

LEMMA StepLasts == ASSUME Stored, NEW p \in Procs, Step(p) PROVE Lasting
<1>1. CASE BindAll(p)
  BY <1>1 DEF BindAll, BoundAll, Lasting, Lasts, Successors, Stored, Rows
<1>2. CASE SaveItem(p) \/ CheckEvidence(p)
  BY <1>2 DEF SaveItem, CheckEvidence, Lasting, Lasts, Successors, Stored, Rows
<1>3. CASE ~BindAll(p) /\ ~SaveItem(p) /\ ~CheckEvidence(p)
  <2>1. UNCHANGED <<plan, payload, item, bound>>
    BY <1>3 DEF Step, Judge, Reply, SaveFinal, Sweep, Repair, RepairMessage,
       RepairEvent, RepairEnqueue, RepairRun, RepairDelete, Supersede, CloseOld, Raise, ledger
  <2>2. QED BY <2>1, StillLasting
<1>4. QED BY <1>1, <1>2, <1>3

LEMMA ClientLasts ==
    ASSUME Alone, NEW c \in Clients, ClientStep(c)
    PROVE  Lasting \/ (Prepare(c) /\ run[local[c].old] = "active")
<1>0. c \in Procs /\ ScriptInv /\ Stored /\ Aim(c) /\ Fresh(c) /\ Fitting(c, T(c))
  BY AloneFacts DEF Procs
<1>1. CASE Step(c)
  BY <1>0, <1>1, StepLasts
<1>2. ASSUME "run" \in T(c) PROVE local[c].own \in Events \ Successors
  BY <1>0, <1>2 DEF Aim, OwnSteps, Making, Fresh, Successors
<1>3. CASE NewItem(c)
  <2>1. "run" \in T(c)
    BY <1>0, <1>3, Heading DEF NewItem, Fitting, Complete
  <2>2. \A e \in Events : e # local[c].own => payload'[e] = payload[e] /\ item'[e] = item[e]
    BY <1>0, <1>3 DEF NewItem, Stored, Rows
  <2>3. plan' = plan /\ bound' = bound
    BY <1>3 DEF NewItem
  <2>4. QED BY <1>2, <2>1, <2>2, <2>3 DEF Lasting, Lasts, Successors
<1>4. CASE Check(c)
  <2>1. "run" \in T(c)
    BY <1>0, <1>4, Heading DEF Check, Fitting, Complete
  <2>2. \A e \in Events : e # local[c].own => payload'[e] = payload[e] /\ item'[e] = item[e]
    BY <1>0, <1>4 DEF Check, Stored, Rows
  <2>3. plan' = plan /\ bound' \in {bound, BoundAll}
    BY <1>4 DEF Check
  <2>4. \A e \in Events : bound'[e] \in {bound[e], payload[e].version}
    BY <1>0, <2>3 DEF BoundAll, Stored, Rows
  <2>5. QED BY <1>2, <2>1, <2>2, <2>3, <2>4 DEF Lasting, Lasts, Successors
<1>5. CASE Bind(c)
  BY <1>0, <1>5 DEF Bind, Lasting, Lasts, Successors, Stored, Rows
<1>6. CASE Prepare(c) /\ run[local[c].old] # "active"
  <2>1. UNCHANGED <<plan, payload, item, bound>>
    BY <1>6 DEF Prepare, Raise, ledger
  <2>2. QED BY <2>1, StillLasting
<1>7. CASE \/ Collect(c) \/ Look(c) \/ Result(c) \/ Project(c) \/ Outcomes(c) \/ Rewrite(c)
           \/ Stop(c) \/ Ask(c) \/ Route(c) \/ SaveRow(c)
           \/ AppendMessage(c) \/ Enqueue(c) \/ SaveRun(c) \/ DeleteRow(c) \/ Await(c)
           \/ Decide(c) \/ Release(c)
  <2>1. UNCHANGED <<plan, payload, item, bound>>
    BY <1>7 DEF Collect, Look, Result, Project, Outcomes, Rewrite, Stop, Ask, Raise, Route, SaveRow, AppendMessage, Enqueue,
       SaveRun, DeleteRow, Await, Decide, Release, ledger
  <2>2. QED BY <2>1, StillLasting
<1>8. QED BY <1>1, <1>3, <1>4, <1>5, <1>6, <1>7 DEF ClientStep

LEMMA BootLasts == ASSUME Stored, BootStep PROVE Lasting
<1>1. CASE Step(Boot)
  BY <1>1, StepLasts DEF Procs
<1>2. CASE ReconcileSteering
  <2>1. /\ UNCHANGED <<plan, payload, bound>>
        /\ item' = item \/ \E v : item' = SupersededBefore(v)
    BY <1>2 DEF ReconcileSteering, Raise, ledger
  <2>2. \A e \in Events : item[e] # "none" => item'[e] # "none"
    BY <2>1 DEF SupersededBefore
  <2>3. QED BY <2>1, <2>2 DEF Lasting, Lasts, Successors
<1>3. CASE Adopt \/ Serve
  BY <1>3, StillLasting DEF Adopt, Serve, ledger
<1>4. QED BY <1>1, <1>2, <1>3 DEF BootStep

LEMMA NextLasts ==
    ASSUME Alone, [Next]_vars
    PROVE  \/ Lasting
           \/ \E c \in Clients : Prepare(c) /\ run[local[c].old] = "active"
<1>0. Based /\ Stored
  BY DEF Alone, Based
<1>1. ASSUME NEW c \in Clients, Calls(c) PROVE Lasting
  BY <1>0, <1>1, NewCallAims, StillLasting DEF Calls, ledger
<1>2. ASSUME Life \/ Restart \/ Crash \/ UNCHANGED vars PROVE Lasting
  <2>1. CASE UNCHANGED ledger
    BY <2>1, StillLasting DEF ledger
  <2>2. ASSUME NEW f \in Events, AskEvidence(f) \/ GiveEvidence(f) PROVE Lasting
    <3>1. /\ UNCHANGED <<plan, payload, bound>>
          /\ item' \in {item, [item EXCEPT ![f] = "completed"]}
      BY <2>2 DEF AskEvidence, GiveEvidence, Working
    <3>2. \A e \in Events : item[e] # "none" => item'[e] # "none"
      BY <1>0, <3>1 DEF Stored, Rows
    <3>3. QED BY <3>1, <3>2 DEF Lasting, Lasts, Successors
  <2>3. QED BY <1>2, <2>1, <2>2, LifeCases DEF Restart, Crash, vars
<1>3. QED BY <1>0, <1>1, <1>2, ClientLasts, BootLasts, NextCases

(* Who comes to bind has mended every row.                                 *)
LEMMA BindsMended ==
    ASSUME Single, NEW p \in Procs, BindAll(p) PROVE Unborn = {}
<1>0. ScriptInv /\ Fitting(p, T(p)) /\ OneBegins
  BY SingleFacts
<1>1. "bindall" \in T(p) /\ "repair" \notin T(p) /\ local[p].todo # <<>>
  <2>1. At(p, "bindall")
    BY DEF BindAll
  <2>2. T(p) = {"bindall"} \cup Names(Rest(p)) /\ Names(Rest(p)) \subseteq After("bindall")
    BY <1>0, <2>1, Heading
  <2>3. QED BY <2>1, <2>2 DEF At, After, BootSteps
<1>2. CASE p = Boot
  BY <1>0, <1>1, <1>2, Awake, BootMended
<1>3. CASE p \in Clients
  <2>1. up = "up" /\ "release" \in T(p) /\ "run" \notin T(p)
    BY <1>0, <1>1, <1>3, Awake DEF Fitting, Complete, OfClient
  <2>2. ASSUME NEW e \in Unborn PROVE FALSE
    <3>1. PICK d \in Clients :
             \/ "run" \in T(d) /\ "row" \notin T(d)
             \/ {"release", "repair"} \subseteq T(d)
      BY <2>1, <2>2 DEF Single, Expected
    <3>2. d = p
      BY <1>0, <1>3, <2>1, <3>1 DEF OneBegins, Begins
    <3>3. QED BY <1>1, <2>1, <3>1, <3>2
  <2>3. QED BY <2>2
<1>4. QED BY <1>2, <1>3 DEF Procs

LEMMA ActsAwake ==
    ASSUME Based, NEW p \in Procs, Acts(p)
    PROVE  (p \in Clients => up = "up") /\ (p = Boot => up = "booting")
<1>0. ScriptInv
  BY DEF Based
<1>1. local[p].todo # <<>>
  <2>1. GoesOn(p)
    BY ClientGoesOn, BootGoesOn DEF Acts
  <2>2. QED BY <2>1 DEF GoesOn, At
<1>2. QED BY <1>0, <1>1, Awake

LEMMA PendingStep ==
    ASSUME Single, Resolved, [Next]_vars, NEW e \in Events, run[e] = "stale", Replaced(e),
           Pending(e)
    PROVE  Pending(e)' \/ verdict'[e] # "none"
<1>0. /\ ScriptInv /\ Alone /\ Based /\ Stored /\ Boot \in Procs /\ Fitting(Boot, T(Boot))
      /\ \A c \in Clients : c \in Procs
  BY SingleFacts DEF Procs
<1>1. ASSUME NEW c \in Clients, ClientStep(c) PROVE Pending(e)' \/ verdict'[e] # "none"
  <2>1. up = "up" /\ Keeps(c) /\ Acts(c)
    BY <1>0, <1>1, ActsAwake, ClientMoves DEF Acts, Moved
  <2>2. PICK p \in Procs :
           local[p].old = e /\ "supersede" \in T(p) /\ "prepare" \notin T(p)
    BY <2>1 DEF Pending
  <2>3. CASE p # c
    BY <2>1, <2>2, <2>3 DEF Keeps, Pending
  <2>4. CASE p = c
    <3>1. CASE CloseOld(c)
      BY <1>0, <2>2, <2>4, <3>1, OldIsClosed
    <3>2. CASE ~CloseOld(c)
      BY <1>0, <2>1, <2>2, <2>4, <3>2, OnTheWay DEF Pending
    <3>3. QED BY <3>1, <3>2
  <2>5. QED BY <2>3, <2>4
<1>2. ASSUME NEW c \in Clients, Calls(c) PROVE Pending(e)'
  <2>1. up = "up" /\ Keeps(c) /\ T(c) = {}
    BY <1>0, <1>2, StartTurn, SubmitTurn, AskingTurns DEF Calls
  <2>2. PICK p \in Procs :
           local[p].old = e /\ "supersede" \in T(p) /\ "prepare" \notin T(p)
    BY <2>1 DEF Pending
  <2>3. p # c
    BY <2>1, <2>2
  <2>4. QED BY <2>1, <2>2, <2>3 DEF Keeps, Pending
<1>3. ASSUME BootStep PROVE Pending(e)'
  <2>1. up = "booting"
    BY <1>0, <1>3, ActsAwake DEF Acts
  <2>2. "steering" \in T(Boot)
    <3>1. \A c \in Clients : T(c) = {}
      BY <1>0, <2>1, NoSteps DEF ScriptInv, Resting
    <3>2. "supersede" \in T(Boot) => "steering" \in T(Boot)
      BY <1>0 DEF Fitting, OfBoot
    <3>3. QED BY <2>1, <3>1, <3>2 DEF Pending, Procs
  <2>3. ~(Unfinished = {} /\ "repair" \notin T(Boot))
    <3>1. SUFFICES ASSUME "repair" \notin T(Boot) PROVE Unfinished # {}
      OBVIOUS
    <3>2. PICK s \in Events : payload[s].prev = e
      BY DEF Replaced
    <3>3. Kept(s) /\ e # NoEvent
      BY <1>0, <3>2, EventsAssumption DEF Stored, Begun
    <3>4. Known(s)
      BY <2>1, <3>1, <3>3, BootMended DEF Unborn, Kept
    <3>5. s \in Unfinished
      BY <3>2, <3>3, <3>4 DEF Unfinished, Known
    <3>6. QED BY <3>5
  <2>4. QED BY <1>0, <1>3, <2>1, <2>2, <2>3, StillReconciling DEF Pending
<1>4. ASSUME Life \/ UNCHANGED vars PROVE Pending(e)'
  <2>1. UNCHANGED <<local, up, lock>>
    BY <1>4, LifeCases DEF vars
  <2>2. \A p \in Procs : local'[p] = local[p] /\ T(p)' = T(p)
    BY <1>0, <2>1, ScriptsStay
  <2>3. QED BY <1>0, <2>1, <2>2 DEF Pending
<1>5. ASSUME Restart PROVE Pending(e)'
  BY <1>0, <1>5, RestartTurn DEF Pending, BootSteps
<1>6. ASSUME Crash PROVE Pending(e)'
  BY <1>0, <1>6, CrashTurn DEF Pending
<1>7. QED BY <1>1, <1>2, <1>3, <1>4, <1>5, <1>6, NextCases

LEMMA BindingStep ==
    ASSUME Single, [Next]_vars, Binding
    PROVE  Binding' \/ \E p \in Procs : BindAll(p)
<1>0. /\ ScriptInv /\ Alone /\ Based /\ Boot \in Procs
      /\ \A c \in Clients : c \in Procs /\ Fitting(c, T(c))
  BY SingleFacts DEF Procs
<1>1. ASSUME NEW c \in Clients, ClientStep(c), ~BindAll(c) PROVE Binding'
  <2>1. up = "up" /\ Keeps(c) /\ Acts(c)
    BY <1>0, <1>1, ActsAwake, ClientMoves DEF Acts, Moved
  <2>2. PICK d \in Clients : "bindall" \in T(d) /\ "prepare" \notin T(d)
    BY <2>1 DEF Binding
  <2>3. CASE d # c
    BY <1>0, <2>1, <2>2, <2>3 DEF Keeps, Binding
  <2>4. CASE d = c
    BY <1>0, <1>1, <2>1, <2>2, <2>4, OnTheWay DEF Binding
  <2>5. QED BY <2>3, <2>4
<1>2. ASSUME NEW c \in Clients, Calls(c) PROVE Binding'
  <2>1. up = "up" /\ Keeps(c) /\ T(c) = {}
    BY <1>0, <1>2, StartTurn, SubmitTurn, AskingTurns DEF Calls
  <2>2. PICK d \in Clients : "bindall" \in T(d) /\ "prepare" \notin T(d)
    BY <2>1 DEF Binding
  <2>3. QED BY <1>0, <2>1, <2>2 DEF Keeps, Binding
<1>3. ASSUME BootStep, ~BindAll(Boot) PROVE Binding'
  <2>1. up = "booting" /\ Acts(Boot)
    BY <1>0, <1>3, ActsAwake DEF Acts
  <2>2. "bindall" \in T(Boot) /\ "prepare" \notin T(Boot) /\ "steering" \in T(Boot)
    <3>1. \A c \in Clients : T(c) = {}
      BY <1>0, <2>1, NoSteps DEF ScriptInv, Resting
    <3>2. "bindall" \in T(Boot)
      BY <2>1, <3>1 DEF Binding
    <3>3. QED BY <1>0, <3>2 DEF ScriptInv, Fitting, OfBoot, Mending
  <2>3. "bindall" \in T(Boot)'
    BY <1>0, <1>3, <2>1, <2>2, OnTheWay
  <2>4. up' \in {"booting", "broken"}
    <3>1. ~At(Boot, "steering")
      <4>1. ASSUME At(Boot, "steering") PROVE FALSE
        <5>1. T(Boot) = {"steering"} \cup Names(Rest(Boot)) /\ Names(Rest(Boot)) \subseteq After("steering")
          BY <1>0, <4>1, Heading
        <5>2. QED BY <2>2, <5>1 DEF After
      <4>2. QED BY <4>1
    <3>2. QED BY <1>0, <1>3, <2>1, <2>2, <3>1, StillReconciling
  <2>5. QED BY <2>3, <2>4 DEF Binding
<1>4. ASSUME Life \/ UNCHANGED vars PROVE Binding'
  <2>1. UNCHANGED <<local, up, lock>>
    BY <1>4, LifeCases DEF vars
  <2>2. \A p \in Procs : local'[p] = local[p] /\ T(p)' = T(p)
    BY <1>0, <2>1, ScriptsStay
  <2>3. QED BY <1>0, <2>1, <2>2 DEF Binding
<1>5. ASSUME Restart PROVE Binding'
  BY <1>0, <1>5, RestartTurn DEF Binding, BootSteps
<1>6. ASSUME Crash PROVE Binding'
  BY <1>0, <1>6, CrashTurn DEF Binding
<1>7. QED BY <1>0, <1>1, <1>2, <1>3, <1>4, <1>5, <1>6, NextCases

LEMMA EndsStep ==
    ASSUME Single, Resolved, [Next]_vars, NEW e \in Events, Ends(e) PROVE Ends(e)'
<1>0. Alone /\ Stored /\ Firm /\ Turned(e)
  BY Firmly, RunsTurn DEF Resolved, Alone, Based
<1>1. run'[e] = "stale_finalized" => verdict'[e] # "none"
  BY <1>0 DEF Turned, Ends, Firm
<1>2. ASSUME run'[e] = "stale" PROVE Replaced(e)' /\ (verdict'[e] # "none" \/ Pending(e)')
  <2>1. CASE run[e] = "stale"
    <3>1. PICK s \in Events : payload[s].prev = e
      BY <2>1 DEF Ends, Replaced
    <3>2. payload'[s].prev = e
      <4>1. s \in Successors
        BY <3>1, EventsAssumption DEF Successors
      <4>2. CASE Lasting
        BY <3>1, <4>1, <4>2 DEF Lasting, Lasts
      <4>3. ASSUME NEW c \in Clients, Prepare(c), run[local[c].old] = "active"
            PROVE  payload'[s].prev = e
        <5>1. /\ Virgin(local[c].own)
              /\ payload' = [payload EXCEPT ![local[c].own] =
                                [version |-> plan + 1, prev |-> local[c].old]]
          BY <1>0, <4>3, Prepared
        <5>2. s # local[c].own
          BY <4>1, <5>1 DEF Virgin, Successors
        <5>3. QED BY <1>0, <3>1, <5>1, <5>2 DEF Stored, Rows
      <4>4. QED BY <1>0, <4>2, <4>3, NextLasts
    <3>3. Replaced(e)'
      BY <3>2 DEF Replaced
    <3>4. CASE verdict[e] # "none"
      BY <1>0, <3>3, <3>4 DEF Firm
    <3>5. CASE verdict[e] = "none"
      <4>1. Replaced(e) /\ Pending(e)
        BY <2>1, <3>5 DEF Ends
      <4>2. QED BY <2>1, <3>3, <4>1, PendingStep
    <3>6. QED BY <3>4, <3>5
  <2>2. CASE run[e] # "stale"
    <3>1. /\ Replaced(e)'
          /\ \E p \in Procs :
                local'[p].old = e /\ "supersede" \in T(p)' /\ "prepare" \notin T(p)'
      BY <1>0, <1>2, <2>2 DEF Turned
    <3>2. Pending(e)'
      BY <3>1 DEF Pending
    <3>3. QED BY <3>1, <3>2
  <2>3. QED BY <2>1, <2>2
<1>3. QED BY <1>1, <1>2 DEF Ends

LEMMA RenewedStep == ASSUME Single, Renewed, [Next]_vars PROVE Renewed'
<1>0. Alone /\ Based /\ Stored /\ Grown
  BY GrownStep DEF Single, Alone, Based
<1>1. ASSUME NEW c \in Clients, Prepare(c), run[local[c].old] = "active" PROVE Renewed'
  <2>0. /\ local[c].old \in Events /\ local[c].own \in Events /\ Virgin(local[c].own)
        /\ {"supersede", "bindall"} \subseteq T(c)' /\ "prepare" \notin T(c)'
        /\ plan' = plan + 1 /\ bound' = bound
        /\ payload' = [payload EXCEPT ![local[c].own] =
                          [version |-> plan + 1, prev |-> local[c].old]]
        /\ item' = [SupersededBefore(plan + 1) EXCEPT ![local[c].own] = "running"]
    BY <1>0, <1>1, Prepared
  <2>1. ASSUME NEW e \in Events, e = local[c].own PROVE Newest(e)'
    <3>1. payload'[e] = [version |-> plan + 1, prev |-> local[c].old] /\ local[c].old # NoEvent
      BY <1>0, <2>0, <2>1, EventsAssumption DEF Stored, Rows
    <3>2. item'[e] = "running"
      BY <2>0, <2>1 DEF SupersededBefore
    <3>3. bound'[e] = 0
      BY <2>0, <2>1 DEF Virgin
    <3>4. QED BY <2>0, <3>1, <3>2, <3>3 DEF Newest
  <2>2. Binding'
    BY <2>0 DEF Binding
  <2>3. QED BY <2>0, <2>1, <2>2 DEF Renewed
<1>2. ASSUME Lasting, plan > 1 PROVE \E e \in Events : Newest(e)' /\ (Binding' \/ (bound'[e] = plan' /\ Known(e)'))
  <2>1. PICK e \in Events : Newest(e) /\ (Binding \/ (bound[e] = plan /\ Known(e)))
    BY <1>2 DEF Renewed
  <2>2. e \in Successors /\ Lasts(e) /\ plan' = plan
    BY <1>2, <2>1 DEF Newest, Successors, Lasting
  <2>3. Newest(e)' /\ (bound[e] = plan => bound'[e] = plan)
    BY <2>1, <2>2 DEF Newest, Lasts
  <2>4. CASE bound[e] = plan /\ Known(e)
    BY <1>0, <2>2, <2>3, <2>4 DEF Grown
  <2>5. CASE Binding'
    BY <2>3, <2>5
  <2>6. ASSUME NEW p \in Procs, BindAll(p) PROVE bound'[e] = plan' /\ Known(e)'
    <3>1. Unborn = {}
      BY <2>6, BindsMended
    <3>2. Known(e)
      <4>1. Kept(e)
        BY <1>0, <2>1 DEF Newest, Stored, Begun
      <4>2. QED BY <3>1, <4>1 DEF Unborn, Kept
    <3>3. bound'[e] = plan
      BY <2>1, <2>6, <3>2 DEF BindAll, BoundAll, Newest, Known
    <3>4. QED BY <1>0, <2>2, <3>2, <3>3 DEF Grown
  <2>7. QED BY <2>1, <2>3, <2>4, <2>5, <2>6, BindingStep
<1>3. CASE Lasting
  <2>1. plan' = plan
    BY <1>3 DEF Lasting
  <2>2. QED BY <1>2, <1>3, <2>1 DEF Renewed
<1>4. QED BY <1>0, <1>1, <1>3, NextLasts

LEMMA WholeStep == ASSUME ~Overlapping, Whole, [Next]_vars PROVE Whole'
<1>0. Single /\ Resolved /\ Renewed /\ \A e \in Events : Ends(e)
  BY DEF Whole
<1>1. Single' /\ Resolved' /\ Renewed'
  BY <1>0, SingleStep, ResolvedStep, RenewedStep
<1>2. \A e \in Events : Ends(e)'
  BY <1>0, EndsStep
<1>3. QED BY <1>1, <1>2 DEF Whole

LEMMA WholeInit == Init => Whole
<1> SUFFICES ASSUME Init PROVE Whole
  OBVIOUS
<1>1. Single /\ Resolved
  BY SingleInit, ResolvedInit
<1>2. Renewed /\ \A e \in Events : Ends(e)
  BY DEF Init, Renewed, Ends
<1>3. QED BY <1>1, <1>2 DEF Whole

(* Whenever the life thread may step, what was superseded is over and the  *)
(* plan that replaced it has a run bound to it, whatever crash, restart or *)
(* request cut into _steer_active and reconcile_steering_transitions, as   *)
(* long as one request at a time creates work.                             *)
THEOREM SteeringsAreWhole == ASSUME ~Overlapping PROVE Spec => []SteeringIsWhole
<1>1. Spec => []Whole
  BY WholeInit, WholeStep, PTL DEF Spec
<1>2. ASSUME Whole PROVE SteeringIsWhole
  <2>0. /\ Single /\ Renewed /\ ScriptInv /\ DecidedStaysDone
        /\ \A e \in Events : Ends(e)
        /\ \A c \in Clients : Fitting(c, T(c))
    BY <1>2 DEF Whole, Single, Alone, Based, ScriptInv, Procs
  <2>1. SUFFICES ASSUME up = "up", lock = NoOne PROVE
           /\ \A e \in Events : run[e] \in Stale => status[e] = "done"
           /\ plan > 1 =>
                 \E e \in Events : /\ payload[e].version = plan /\ bound[e] = plan
                                   /\ payload[e].prev # NoEvent /\ run[e] # "none"
    BY DEF SteeringIsWhole
  <2>2. /\ T(Boot) = {}
        /\ \A c \in Clients : "bindall" \notin T(c) /\ "supersede" \notin T(c)
    <3>1. T(Boot) = {}
      BY <2>0, <2>1, NoSteps DEF ScriptInv, Resting, Procs
    <3>2. \A c \in Clients : "release" \notin T(c)
      BY <2>0, <2>1, BootAssumption DEF ScriptInv, Resting, Procs
    <3>3. QED BY <2>0, <3>1, <3>2 DEF Fitting, OfClient
  <2>3. ~Binding /\ \A e \in Events : ~Pending(e)
    BY <2>1, <2>2 DEF Binding, Pending, Procs
  <2>4. \A e \in Events : run[e] \in Stale => status[e] = "done"
    BY <2>0, <2>3 DEF Ends, Stale, DecidedStaysDone
  <2>5. QED BY <2>0, <2>3, <2>4 DEF Renewed, Newest, Known
<1>3. QED BY <1>1, <1>2, PTL
=============================================================================
