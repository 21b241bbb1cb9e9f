----------------------- MODULE ServiceControllerProofs -----------------------
(***************************************************************************)
(* Proofs about ServiceController: a rollback restores the files and what   *)
(* the service manager had, wherever the operation failed.                  *)
(***************************************************************************)
EXTENDS ServiceController, Integers, TLAPS

Step == Command \cup FileStep
Steps(list) == {list[i] : i \in 1 .. Len(list)}

(* The order that a rollback needs: what is loaded is stopped and forgotten *)
(* first, then the files are restored, then they are loaded, then started.  *)
Phase(step) ==
  IF step \in {"bootout", "unregister", "stop", "disable", "stop_task"} THEN 1
  ELSE IF step \in FileStep THEN 2
  ELSE IF step \in {"bootstrap", "register", "reload", "enable"} THEN 3
  ELSE 4

Ordered(list) ==
  \A i, j \in 1 .. Len(list) : i < j => Phase(list[i]) <= Phase(list[j])

Loading == {"bootstrap", "register", "reload"}
Restoring == {"restore_metadata", "restore_service", "restore_status"}
CommandsOf(p) ==
  CASE p = "macos" -> {"bootstrap", "bootout", "kickstart"}
    [] p = "windows" -> {"register", "unregister", "start_task", "stop_task"}
    [] OTHER -> {"reload", "enable", "disable", "start", "stop"}

InstallStep == {"write_metadata", "ensure_log", "write_service", "bootstrap", "register",
                "start_task", "reload", "enable", "start"}
UninstallStep == {"bootout", "unregister", "stop", "disable", "reload", "unlink_service",
                  "unlink_metadata", "unlink_status"}
UndoInstallStep == {"bootout", "unregister", "stop", "disable", "restore_metadata",
                    "restore_service", "unlink_log", "reload", "register"}
UndoUninstallStep == Restoring \cup Loading \cup {"enable", "start"}

-----------------------------------------------------------------------------
(* What is left to do belongs to the operation, the platform and the order. *)
TodoInv ==
  /\ todo \in Seq(Step)
  /\ op = "none" => todo = <<>> /\ ~ undoing
  /\ Steps(todo) \cap Command \subseteq CommandsOf(platform)
  /\ op = "install" => Steps(todo) \subseteq IF undoing THEN UndoInstallStep ELSE InstallStep
  /\ op = "uninstall" =>
       Steps(todo) \subseteq IF undoing THEN UndoUninstallStep ELSE UninstallStep
  /\ op \in {"start", "stop", "restart"} /\ undoing => todo = <<>>
  /\ undoing \/ (op = "install" /\ platform = "linux") => Ordered(todo)

(* What was there before an operation is "old". *)
OldInv ==
  /\ op = "none" => files \in [File -> {"none", "old"}] /\ manager.loaded \in {"none", "old"}
  /\ original \in [File -> {"none", "old"}]
  /\ before.loaded \in {"none", "old"}
  /\ op # "none" => was = [enabled |-> before.enabled, running |-> before.running]
  /\ ~ undoing => ~ uncertain

(* What a rollback has still to restore is among its steps. *)
FileInv ==
  /\ op = "install" /\ original["status"] # "none" => files["status"] # "none"
  /\ op \in {"install", "uninstall"} /\ undoing /\ ~ uncertain =>
       /\ "restore_metadata" \in Steps(todo) \/ files["metadata"] = original["metadata"]
       /\ "restore_service" \in Steps(todo) \/ files["service"] = original["service"]
       /\ op = "uninstall" /\ original["status"] # "none" =>
            "restore_status" \in Steps(todo) \/ files["status"] # "none"
       /\ op = "install" /\ ~ log_existed => "unlink_log" \in Steps(todo) \/ log # "empty"

(* A first installation: what it has loaded, enabled or started it has noted *)
(* by then, and its rollback takes it back.                                 *)
FirstInstall ==
  op = "install" /\ ~ WasInstalled /\ before = NothingLoaded /\ ~ uncertain

InstallInv ==
  /\ FirstInstall /\ ~ undoing =>
       /\ platform = "macos" => "bootstrap" \in completed \/ manager = NothingLoaded
       /\ platform = "windows" => "register" \in completed \/ manager = NothingLoaded
       /\ platform = "linux" =>
            /\ manager.loaded # "none" => attempted # {}
            /\ manager.running => {"start", "enable"} \subseteq completed
            /\ "enable" \in Steps(todo) \cup completed
       /\ manager.enabled => platform = "linux" /\ "enable" \in completed
  /\ FirstInstall /\ undoing =>
       /\ manager.enabled => "disable" \in Steps(todo)
       /\ manager.running => Steps(todo) \cap {"bootout", "unregister", "stop"} # {}
       /\ manager.loaded # "none" =>
            Steps(todo) \cap {"bootout", "unregister", "reload"} # {}
       /\ Steps(todo) \cap {"bootstrap", "register"} = {}

(* A removal: the rollback loads what was loaded, and on Linux enables and   *)
(* starts what was enabled and running.                                     *)
Removal ==
  op = "uninstall" /\ WasInstalled /\ before.loaded # "none" /\ ~ uncertain

RemovalInv ==
  /\ Removal /\ ~ undoing /\ attempted = {} => manager = before
  /\ Removal /\ undoing => manager.loaded = "old" \/ Steps(todo) \cap Loading # {}
  /\ Removal /\ platform = "linux" =>
       /\ manager.enabled \/ "enable" \in Steps(todo) => before.enabled
       /\ manager.running \/ "start" \in Steps(todo) => before.running
       /\ undoing =>
            /\ before.enabled => manager.enabled \/ "enable" \in Steps(todo)
            /\ before.running => manager.running \/ "start" \in Steps(todo)

Inv == TypeOK /\ TodoInv /\ OldInv /\ FileInv /\ InstallInv /\ RemovalInv

-----------------------------------------------------------------------------
(* Lists of steps.                                                          *)

(* The steps of a concatenation are those of its parts. *)
LEMMA StepsOfConcat ==
  ASSUME NEW a \in Seq(Step), NEW b \in Seq(Step)
  PROVE  a \o b \in Seq(Step) /\ Steps(a \o b) = Steps(a) \cup Steps(b)
<1>1. a \o b \in Seq(Step) /\ Len(a \o b) = Len(a) + Len(b)
  OBVIOUS
<1>2. ASSUME NEW x \in Steps(a) PROVE x \in Steps(a \o b)
  <2>1. PICK i \in 1 .. Len(a) : x = a[i]
    BY DEF Steps
  <2>2. i \in 1 .. Len(a \o b) /\ (a \o b)[i] = x
    BY <1>1, <2>1
  <2> QED
    BY <2>2 DEF Steps
<1>3. ASSUME NEW x \in Steps(b) PROVE x \in Steps(a \o b)
  <2>1. PICK i \in 1 .. Len(b) : x = b[i]
    BY DEF Steps
  <2>2. Len(a) + i \in 1 .. Len(a \o b) /\ (a \o b)[Len(a) + i] = x
    BY <1>1, <2>1
  <2> QED
    BY <2>2 DEF Steps
<1>4. ASSUME NEW x \in Steps(a \o b) PROVE x \in Steps(a) \cup Steps(b)
  <2>1. PICK i \in 1 .. Len(a \o b) : x = (a \o b)[i]
    BY DEF Steps
  <2>2. CASE i <= Len(a)
    BY <1>1, <2>1, <2>2 DEF Steps
  <2>3. CASE i > Len(a)
    <3>1. i - Len(a) \in 1 .. Len(b) /\ x = b[i - Len(a)]
      BY <1>1, <2>1, <2>3
    <3> QED
      BY <3>1 DEF Steps
  <2> QED
    BY <2>1, <2>2, <2>3, <1>1
<1> QED
  BY <1>1, <1>2, <1>3, <1>4

(* The first step and the others are the steps of a list. *)
LEMMA StepsOfTail ==
  ASSUME NEW list \in Seq(Step), list # <<>>
  PROVE  /\ Head(list) \in Step
         /\ Tail(list) \in Seq(Step)
         /\ Steps(list) = {Head(list)} \cup Steps(Tail(list))
<1>1. /\ Len(list) \in Nat \ {0} /\ Head(list) = list[1] /\ Head(list) \in Step
      /\ Tail(list) \in Seq(Step) /\ Len(Tail(list)) = Len(list) - 1
      /\ \A i \in 1 .. Len(list) - 1 : Tail(list)[i] = list[i + 1]
  OBVIOUS
<1>2. ASSUME NEW x \in Steps(list) PROVE x \in {Head(list)} \cup Steps(Tail(list))
  <2>1. PICK i \in 1 .. Len(list) : x = list[i]
    BY DEF Steps
  <2>2. CASE i = 1
    BY <1>1, <2>1, <2>2
  <2>3. CASE i # 1
    <3>1. i - 1 \in 1 .. Len(Tail(list)) /\ x = Tail(list)[i - 1]
      BY <1>1, <2>1, <2>3
    <3> QED
      BY <3>1 DEF Steps
  <2> QED
    BY <2>2, <2>3
<1>3. ASSUME NEW x \in Steps(Tail(list)) PROVE x \in Steps(list)
  <2>1. PICK i \in 1 .. Len(Tail(list)) : x = Tail(list)[i]
    BY DEF Steps
  <2>2. i + 1 \in 1 .. Len(list) /\ x = list[i + 1]
    BY <1>1, <2>1
  <2> QED
    BY <2>2 DEF Steps
<1>4. Head(list) \in Steps(list)
  BY <1>1 DEF Steps
<1> QED
  BY <1>1, <1>2, <1>3, <1>4

(* What comes after the first step of an ordered list is not of an earlier *)
(* phase.                                                                   *)
LEMMA OrderedTail ==
  ASSUME NEW list \in Seq(Step), list # <<>>, Ordered(list)
  PROVE  /\ Ordered(Tail(list))
         /\ \A x \in Steps(Tail(list)) : Phase(Head(list)) <= Phase(x)
<1>1. /\ Len(list) \in Nat \ {0} /\ Head(list) = list[1]
      /\ Tail(list) \in Seq(Step) /\ Len(Tail(list)) = Len(list) - 1
      /\ \A i \in 1 .. Len(list) - 1 : Tail(list)[i] = list[i + 1]
  OBVIOUS
<1>2. ASSUME NEW i \in 1 .. Len(Tail(list)), NEW j \in 1 .. Len(Tail(list)), i < j
      PROVE  Phase(Tail(list)[i]) <= Phase(Tail(list)[j])
  <2>1. i + 1 \in 1 .. Len(list) /\ j + 1 \in 1 .. Len(list) /\ i + 1 < j + 1
    BY <1>1, <1>2
  <2>2. Tail(list)[i] = list[i + 1] /\ Tail(list)[j] = list[j + 1]
    BY <1>1, <1>2
  <2> QED
    BY <2>1, <2>2 DEF Ordered
<1>3. ASSUME NEW x \in Steps(Tail(list)) PROVE Phase(Head(list)) <= Phase(x)
  <2>1. PICK i \in 1 .. Len(Tail(list)) : x = Tail(list)[i]
    BY DEF Steps
  <2>2. 1 \in 1 .. Len(list) /\ i + 1 \in 1 .. Len(list) /\ 1 < i + 1 /\ x = list[i + 1]
    BY <1>1, <2>1
  <2> QED
    BY <1>1, <2>2 DEF Ordered
<1> QED
  BY <1>2, <1>3 DEF Ordered

(* Two ordered lists, one after the other. *)
LEMMA OrderedConcat ==
  ASSUME NEW a \in Seq(Step), NEW b \in Seq(Step), Ordered(a), Ordered(b),
         \A x \in Steps(a), y \in Steps(b) : Phase(x) <= Phase(y)
  PROVE  Ordered(a \o b)
<1> SUFFICES ASSUME NEW i \in 1 .. Len(a \o b), NEW j \in 1 .. Len(a \o b), i < j
             PROVE  Phase((a \o b)[i]) <= Phase((a \o b)[j])
  BY DEF Ordered
<1>1. Len(a \o b) = Len(a) + Len(b) /\ Len(a) \in Nat /\ Len(b) \in Nat
  OBVIOUS
<1>2. CASE j <= Len(a)
  <2>1. i \in 1 .. Len(a) /\ j \in 1 .. Len(a) /\ (a \o b)[i] = a[i] /\ (a \o b)[j] = a[j]
    BY <1>1, <1>2
  <2> QED
    BY <2>1 DEF Ordered
<1>3. CASE i > Len(a)
  <2>1. /\ i - Len(a) \in 1 .. Len(b) /\ j - Len(a) \in 1 .. Len(b)
        /\ i - Len(a) < j - Len(a)
        /\ (a \o b)[i] = b[i - Len(a)] /\ (a \o b)[j] = b[j - Len(a)]
    BY <1>1, <1>3
  <2> QED
    BY <2>1 DEF Ordered
<1>4. CASE i <= Len(a) /\ j > Len(a)
  <2>1. /\ i \in 1 .. Len(a) /\ j - Len(a) \in 1 .. Len(b)
        /\ (a \o b)[i] = a[i] /\ (a \o b)[j] = b[j - Len(a)]
    BY <1>1, <1>4
  <2>2. a[i] \in Steps(a) /\ b[j - Len(a)] \in Steps(b)
    BY <2>1 DEF Steps
  <2> QED
    BY <2>1, <2>2
<1> QED
  BY <1>1, <1>2, <1>3, <1>4

(* A list with these steps, ordered, of these phases. *)
Plan(list, S, first, last) ==
  /\ list \in Seq(Step) /\ Steps(list) = S /\ Ordered(list)
  /\ \A x \in S : first <= Phase(x) /\ Phase(x) <= last

LEMMA PhaseType == ASSUME NEW x PROVE Phase(x) \in 1 .. 4
BY DEF Phase

(* A list of one step, or none. *)
LEMMA OneStep ==
  ASSUME NEW x \in Step, NEW condition \in BOOLEAN
  PROVE  Plan(When(condition, <<x>>), IF condition THEN {x} ELSE {}, Phase(x), Phase(x))
<1>1. Phase(x) <= Phase(x)
  BY PhaseType
<1>2. CASE condition
  BY <1>1, <1>2 DEF When, Steps, Ordered, Plan
<1>3. CASE ~ condition
  BY <1>3 DEF When, Steps, Ordered, Plan
<1> QED
  BY <1>2, <1>3

LEMMA TwoSteps ==
  ASSUME NEW x \in Step, NEW y \in Step, Phase(x) <= Phase(y)
  PROVE  Plan(<<x, y>>, {x, y}, Phase(x), Phase(y))
<1>1. Phase(x) \in Nat /\ Phase(y) \in Nat
  BY PhaseType
<1>2. <<x, y>> \in Seq(Step) /\ Steps(<<x, y>>) = {x, y}
  BY DEF Steps
<1>3. Ordered(<<x, y>>)
  BY <1>1 DEF Ordered
<1> QED
  BY <1>1, <1>2, <1>3 DEF Plan

(* A plan and another of the phases after it. *)
LEMMA PlanConcat ==
  ASSUME NEW a, NEW A, NEW b, NEW B, NEW lo \in Nat, NEW mid \in Nat,
         NEW next \in Nat, NEW hi \in Nat,
         Plan(a, A, lo, mid), Plan(b, B, next, hi), lo <= mid, mid <= next, next <= hi
  PROVE  Plan(a \o b, A \cup B, lo, hi)
<1>1. \A x \in A, y \in B : Phase(x) <= Phase(y)
  BY PhaseType DEF Plan
<1>2. a \o b \in Seq(Step) /\ Steps(a \o b) = A \cup B
  BY StepsOfConcat DEF Plan
<1>3. Ordered(a \o b)
  BY <1>1, OrderedConcat DEF Plan
<1>4. \A x \in A \cup B : lo <= Phase(x) /\ Phase(x) <= hi
  BY PhaseType DEF Plan
<1> QED
  BY <1>2, <1>3, <1>4 DEF Plan

(* A plan and perhaps one more step. *)
LEMMA PlanWhen ==
  ASSUME NEW a, NEW A, NEW lo \in Nat, NEW mid \in Nat, Plan(a, A, lo, mid), lo <= mid,
         NEW x \in Step, mid <= Phase(x), NEW condition \in BOOLEAN
  PROVE  Plan(a \o When(condition, <<x>>), A \cup IF condition THEN {x} ELSE {},
              lo, Phase(x))
<1>1. Phase(x) \in Nat
  BY PhaseType
<1>2. Plan(When(condition, <<x>>), IF condition THEN {x} ELSE {}, Phase(x), Phase(x))
  BY OneStep
<1> QED
  BY <1>1, <1>2, PlanConcat

LEMMA Phases ==
  /\ \A x \in {"bootout", "unregister", "stop", "disable"} : x \in Step /\ Phase(x) = 1
  /\ \A x \in FileStep : x \in Step /\ Phase(x) = 2
  /\ \A x \in Loading \cup {"enable"} : x \in Step /\ Phase(x) = 3
  /\ \A x \in {"start", "start_task"} : x \in Step /\ Phase(x) = 4
BY DEF Phase, Step, Command, FileStep, Loading

(* What the rollback of an installation does. *)
UndoInstallPlan(tried, done) ==
  {x \in UndoInstallStep :
    /\ x = "bootout" => platform = "macos" /\ "bootstrap" \in done /\ ~ WasInstalled
    /\ x = "unregister" => platform = "windows" /\ "register" \in done /\ ~ WasInstalled
    /\ x = "stop" => /\ platform = "linux" /\ ~ WasInstalled
                     /\ "start" \in tried /\ "enable" \in done
    /\ x = "disable" => platform = "linux" /\ ~ WasInstalled /\ "enable" \in done
    /\ x = "unlink_log" => ~ log_existed
    /\ x = "reload" => platform = "linux" /\ tried # {}
    /\ x = "register" => platform = "windows" /\ tried # {} /\ WasInstalled}

LEMMA UndoInstallList ==
  ASSUME NEW tried, NEW done
  PROVE  /\ UndoInstall(tried, done) \in Seq(Step)
         /\ Steps(UndoInstall(tried, done)) = UndoInstallPlan(tried, done)
         /\ Ordered(UndoInstall(tried, done))
<1> DEFINE c1 == platform = "macos" /\ "bootstrap" \in done /\ ~WasInstalled
           c2 == platform = "windows" /\ "register" \in done /\ ~WasInstalled
           c3 == platform = "linux" /\ ~WasInstalled /\ "start" \in tried /\ "enable" \in done
           c4 == platform = "linux" /\ ~WasInstalled /\ "enable" \in done
           c5 == ~log_existed
           c6 == platform = "linux" /\ tried # {}
           c7 == platform = "windows" /\ tried # {} /\ WasInstalled
           S(c, x) == IF c THEN {x} ELSE {}
           w1 == When(c1, <<"bootout">>)
           w2 == w1 \o When(c2, <<"unregister">>)
           w3 == w2 \o When(c3, <<"stop">>)
           w4 == w3 \o When(c4, <<"disable">>)
           w5 == w4 \o <<"restore_metadata", "restore_service">>
           w6 == w5 \o When(c5, <<"unlink_log">>)
           w7 == w6 \o When(c6, <<"reload">>)
           w8 == w7 \o When(c7, <<"register">>)
           S1 == S(c1, "bootout")
           S2 == S1 \cup S(c2, "unregister")
           S3 == S2 \cup S(c3, "stop")
           S4 == S3 \cup S(c4, "disable")
           S5 == S4 \cup {"restore_metadata", "restore_service"}
           S6 == S5 \cup S(c5, "unlink_log")
           S7 == S6 \cup S(c6, "reload")
           S8 == S7 \cup S(c7, "register")
<1>0. /\ c1 \in BOOLEAN /\ c2 \in BOOLEAN /\ c3 \in BOOLEAN /\ c4 \in BOOLEAN
      /\ c5 \in BOOLEAN /\ c6 \in BOOLEAN /\ c7 \in BOOLEAN
  OBVIOUS
<1>8. UndoInstall(tried, done) = w8
  BY DEF UndoInstall
<1>9. S8 = UndoInstallPlan(tried, done)
  BY DEF UndoInstallPlan, UndoInstallStep
<1> HIDE DEF c1, c2, c3, c4, c5, c6, c7
<1>1. Plan(w1, S1, 1, 1)
  BY <1>0, Phases, OneStep
<1>2. Plan(w2, S2, 1, 1)
  <2> HIDE DEF w1, S1
  <2> QED BY <1>0, <1>1, Phases, PlanWhen
<1>3. Plan(w3, S3, 1, 1)
  <2> HIDE DEF w2, S2
  <2> QED BY <1>0, <1>2, Phases, PlanWhen
<1>4. Plan(w4, S4, 1, 1)
  <2> HIDE DEF w3, S3
  <2> QED BY <1>0, <1>3, Phases, PlanWhen
<1>5. Plan(w5, S5, 1, 2)
  <2> HIDE DEF w4, S4
  <2>1. /\ "restore_metadata" \in Step /\ "restore_service" \in Step
        /\ Phase("restore_metadata") = 2 /\ Phase("restore_service") = 2
    BY DEF Phase, Step, FileStep
  <2>2. Plan(<<"restore_metadata", "restore_service">>,
             {"restore_metadata", "restore_service"}, 2, 2)
    BY <2>1, TwoSteps
  <2> QED
    BY <1>4, <2>2, PlanConcat
<1>6. Plan(w6, S6, 1, 2)
  <2>1. "unlink_log" \in Step /\ Phase("unlink_log") = 2
    BY DEF Phase, Step, FileStep
  <2> HIDE DEF w5, S5
  <2> QED
    BY <1>0, <1>5, <2>1, PlanWhen
<1>7. Plan(w8, S8, 1, 3)
  <2>1. /\ "reload" \in Step /\ Phase("reload") = 3
        /\ "register" \in Step /\ Phase("register") = 3
    BY Phases DEF Loading
  <2>2. Plan(w7, S7, 1, 3)
    <3> HIDE DEF w6, S6
    <3> QED BY <1>0, <1>6, <2>1, PlanWhen
  <2> HIDE DEF w7, S7
  <2> QED
    BY <1>0, <2>1, <2>2, PlanWhen
<1> QED
  BY <1>7, <1>8, <1>9 DEF Plan

LEMMA ThreeSteps ==
  ASSUME NEW x \in Step, NEW y \in Step, NEW z \in Step,
         Phase(x) <= Phase(y), Phase(y) <= Phase(z)
  PROVE  Plan(<<x, y, z>>, {x, y, z}, Phase(x), Phase(z))
<1>1. Phase(x) \in Nat /\ Phase(y) \in Nat /\ Phase(z) \in Nat
  BY PhaseType
<1>2. <<x, y, z>> \in Seq(Step) /\ Steps(<<x, y, z>>) = {x, y, z}
  BY DEF Steps
<1>3. Ordered(<<x, y, z>>)
  BY <1>1 DEF Ordered
<1> QED
  BY <1>1, <1>2, <1>3 DEF Plan

(* What the rollback of a removal does. *)
UndoUninstallPlan(tried) ==
  {x \in UndoUninstallStep :
    /\ x \in Loading \cup {"enable", "start"} => tried # {} /\ WasInstalled
    /\ x = "bootstrap" => platform = "macos"
    /\ x = "register" => platform = "windows"
    /\ x \in {"reload", "enable", "start"} => platform = "linux"
    /\ x = "enable" => was.enabled
    /\ x = "start" => was.running}

LEMMA UndoUninstallList ==
  ASSUME NEW tried, platform \in Platform, was \in [enabled : BOOLEAN, running : BOOLEAN]
  PROVE  /\ UndoUninstall(tried) \in Seq(Step)
         /\ Steps(UndoUninstall(tried)) = UndoUninstallPlan(tried)
         /\ Ordered(UndoUninstall(tried))
<1> DEFINE files3 == <<"restore_service", "restore_metadata", "restore_status">>
<1>1. Plan(files3, Restoring, 2, 2)
  <2>1. \A x \in Restoring : x \in Step /\ Phase(x) = 2
    BY Phases DEF Restoring, FileStep
  <2>2. "restore_service" \in Restoring /\ "restore_metadata" \in Restoring
        /\ "restore_status" \in Restoring
    BY DEF Restoring
  <2>3. Plan(files3, {"restore_service", "restore_metadata", "restore_status"}, 2, 2)
    BY <2>1, <2>2, ThreeSteps
  <2> QED
    BY <2>3 DEF Restoring
<1>2. CASE ~ (tried # {} /\ WasInstalled)
  <2>1. UndoUninstall(tried) = files3 \o <<>>
    BY <1>2 DEF UndoUninstall, When, WasInstalled
  <2>3. files3 \o <<>> = files3
    BY <1>1 DEF Plan
  <2>2. UndoUninstallPlan(tried) = Restoring
    BY <1>2 DEF UndoUninstallPlan, UndoUninstallStep, Restoring, Loading, WasInstalled
  <2> QED
    BY <1>1, <2>1, <2>2, <2>3 DEF Plan
<1>3. CASE tried # {} /\ WasInstalled /\ platform # "linux"
  <2> DEFINE load == IF platform = "macos" THEN "bootstrap" ELSE "register"
  <2>1. load \in Step /\ Phase(load) = 3
    BY Phases DEF Loading
  <2>2. UndoUninstall(tried) = files3 \o <<load>>
    BY <1>3 DEF UndoUninstall, When, Platform
  <2>3. UndoUninstallPlan(tried) = Restoring \cup {load}
    BY <1>3 DEF UndoUninstallPlan, UndoUninstallStep, Restoring, Loading, Platform
  <2> HIDE DEF files3, load
  <2>4. Plan(files3 \o <<load>>, Restoring \cup {load}, 2, 3)
    <3>1. Plan(When(TRUE, <<load>>), {load}, 3, 3)
      BY <2>1, OneStep
    <3>2. Plan(<<load>>, {load}, 3, 3)
      BY <3>1 DEF When
    <3> QED
      BY <1>1, <3>2, PlanConcat
  <2> QED
    BY <2>2, <2>3, <2>4 DEF Plan
<1>4. CASE tried # {} /\ WasInstalled /\ platform = "linux"
  <2> DEFINE w1 == <<"reload">> \o When(was.enabled, <<"enable">>)
             w2 == w1 \o When(was.running, <<"start">>)
             S1 == {"reload"} \cup IF was.enabled THEN {"enable"} ELSE {}
             S2 == S1 \cup IF was.running THEN {"start"} ELSE {}
  <2>1. /\ "reload" \in Step /\ Phase("reload") = 3
        /\ "enable" \in Step /\ Phase("enable") = 3
        /\ "start" \in Step /\ Phase("start") = 4
    BY Phases DEF Loading
  <2>2. UndoUninstall(tried) = files3 \o w2
    BY <1>4 DEF UndoUninstall, When
  <2>3. UndoUninstallPlan(tried) = Restoring \cup S2
    BY <1>4 DEF UndoUninstallPlan, UndoUninstallStep, Restoring, Loading
  <2>4. was.enabled \in BOOLEAN /\ was.running \in BOOLEAN
    OBVIOUS
  <2>5. Plan(w1, S1, 3, 3)
    <3>1. Plan(When(TRUE, <<"reload">>), {"reload"}, 3, 3)
      BY <2>1, OneStep
    <3>2. Plan(<<"reload">>, {"reload"}, 3, 3)
      BY <3>1 DEF When
    <3> QED
      BY <2>1, <2>4, <3>2, PlanWhen
  <2> HIDE DEF files3, w1, S1
  <2>6. Plan(w2, S2, 3, 4)
    BY <2>1, <2>4, <2>5, PlanWhen
  <2> HIDE DEF w2, S2
  <2>7. Plan(files3 \o w2, Restoring \cup S2, 2, 4)
    BY <1>1, <2>6, PlanConcat
  <2> QED
    BY <2>2, <2>3, <2>7 DEF Plan
<1> QED
  BY <1>2, <1>3, <1>4

(* What an installation does: on Linux what a rollback stops was enabled. *)
LEMMA InstallList ==
  ASSUME platform \in Platform
  PROVE  /\ InstallSteps \in Seq(Step)
         /\ Steps(InstallSteps) \subseteq InstallStep
         /\ Steps(InstallSteps) \cap Command \subseteq CommandsOf(platform)
         /\ platform = "linux" => Ordered(InstallSteps) /\ "enable" \in Steps(InstallSteps)
<1> DEFINE first == <<"write_metadata", "ensure_log", "write_service">>
           F == {"write_metadata", "ensure_log", "write_service"}
<1>1. Plan(first, F, 2, 2)
  <2>1. \A x \in F : x \in Step /\ Phase(x) = 2
    BY Phases DEF FileStep
  <2> QED
    BY <2>1, ThreeSteps
<1>2. CASE platform = "linux"
  <2> DEFINE rest == <<"reload", "enable", "start">>
             R == {"reload", "enable", "start"}
  <2>1. /\ "reload" \in Step /\ Phase("reload") = 3
        /\ "enable" \in Step /\ Phase("enable") = 3
        /\ "start" \in Step /\ Phase("start") = 4
    BY Phases DEF Loading
  <2>2. Plan(rest, R, 3, 4)
    BY <2>1, ThreeSteps
  <2>3. InstallSteps = first \o rest
    BY <1>2 DEF InstallSteps
  <2> HIDE DEF first, rest, F, R
  <2>4. Plan(first \o rest, F \cup R, 2, 4)
    BY <1>1, <2>2, PlanConcat
  <2> QED
    BY <1>2, <2>3, <2>4 DEF Plan, F, R, InstallStep, CommandsOf, Command, FileStep
<1>3. CASE platform # "linux"
  <2> DEFINE rest == IF platform = "macos" THEN <<"bootstrap">>
                     ELSE <<"register", "ensure_log", "start_task">>
             R == IF platform = "macos" THEN {"bootstrap"}
                  ELSE {"register", "ensure_log", "start_task"}
  <2>1. rest \in Seq(Step) /\ Steps(rest) = R
    <3>1. CASE platform = "macos"
      BY <3>1 DEF Steps, Step, Command, FileStep
    <3>2. CASE platform # "macos"
      BY <3>2 DEF Steps, Step, Command, FileStep
    <3> QED
      BY <3>1, <3>2
  <2>2. InstallSteps = first \o rest
    BY <1>3 DEF InstallSteps, Platform
  <2>3. /\ R \subseteq InstallStep
        /\ R \cap Command \subseteq CommandsOf(platform)
        /\ F \subseteq InstallStep /\ F \cap Command = {}
    BY <1>3 DEF InstallStep, Command, CommandsOf, Platform
  <2> HIDE DEF first, rest, F, R
  <2>4. first \o rest \in Seq(Step) /\ Steps(first \o rest) = F \cup R
    BY <1>1, <2>1, StepsOfConcat DEF Plan
  <2> QED
    BY <1>3, <2>2, <2>3, <2>4
<1> QED
  BY <1>2, <1>3

(* What a removal does. *)
LEMMA UninstallList ==
  ASSUME platform \in Platform
  PROVE  /\ UninstallSteps \in Seq(Step)
         /\ Steps(UninstallSteps) \subseteq UninstallStep
         /\ Steps(UninstallSteps) \cap Command \subseteq CommandsOf(platform)
<1>1. CASE platform = "macos"
  BY <1>1 DEF UninstallSteps, Steps, UninstallStep, CommandsOf, Step, Command, FileStep
<1>2. CASE platform = "windows"
  BY <1>2 DEF UninstallSteps, Steps, UninstallStep, CommandsOf, Step, Command, FileStep
<1>3. CASE platform = "linux"
  BY <1>3 DEF UninstallSteps, Steps, UninstallStep, CommandsOf, Step, Command, FileStep
<1> QED
  BY <1>1, <1>2, <1>3 DEF Platform

(* What starting and stopping do. *)
LEMMA StartStopList ==
  ASSUME platform \in Platform, NEW loaded \in BOOLEAN
  PROVE  /\ StartSteps(loaded) \in Seq(Step) /\ StopSteps \in Seq(Step)
         /\ Steps(StartSteps(loaded)) \cap Command \subseteq CommandsOf(platform)
         /\ Steps(StopSteps) \cap Command \subseteq CommandsOf(platform)
<1>1. CASE platform = "macos"
  BY <1>1 DEF StartSteps, StopSteps, Steps, CommandsOf, Step, Command, FileStep
<1>2. CASE platform = "windows"
  BY <1>2 DEF StartSteps, StopSteps, Steps, CommandsOf, Step, Command, FileStep
<1>3. CASE platform = "linux"
  BY <1>3 DEF StartSteps, StopSteps, Steps, CommandsOf, Step, Command, FileStep
<1> QED
  BY <1>1, <1>2, <1>3 DEF Platform

-----------------------------------------------------------------------------
(* What one step changes.                                                   *)

LEMMA ManagerAfter ==
  ASSUME manager \in Manager, files \in [File -> Content], NEW command \in Command
  PROVE  /\ After(command) \in Manager
         /\ After(command).loaded = IF command \in Loading THEN files["service"]
                                    ELSE IF command \in {"bootout", "unregister"} THEN "none"
                                    ELSE manager.loaded
         /\ After(command).enabled = IF command \in {"enable", "disable"}
                                     THEN command = "enable" ELSE manager.enabled
         /\ After(command).running =
              IF command \in {"bootstrap", "kickstart", "start_task", "start"} THEN TRUE
              ELSE IF command \in {"bootout", "unregister", "stop", "stop_task"} THEN FALSE
              ELSE manager.running
<1>1. files["service"] \in Content /\ "none" \in Content
  BY DEF File, Content
<1>2. CASE command = "bootstrap"
  BY <1>1, <1>2 DEF After, Manager, Loading
<1>3. CASE command \in {"register", "reload"}
  BY <1>1, <1>3 DEF After, Manager, Loading
<1>4. CASE command \in {"bootout", "unregister"}
  BY <1>1, <1>4 DEF After, Manager, Loading
<1>5. CASE command \in {"enable", "disable"}
  BY <1>1, <1>5 DEF After, Manager, Loading
<1>6. CASE command \in {"kickstart", "start_task", "start"}
  BY <1>1, <1>6 DEF After, Manager, Loading
<1>7. CASE command \in {"stop", "stop_task"}
  BY <1>1, <1>7 DEF After, Manager, Loading
<1> QED
  BY <1>2, <1>3, <1>4, <1>5, <1>6, <1>7 DEF Command

LEMMA FileAfter ==
  ASSUME TypeOK, NEW step \in Step \ Command, Write(step)
  PROVE  /\ files' \in [File -> Content]
         /\ files'["metadata"] = IF step = "write_metadata" THEN "new"
                                 ELSE IF step = "unlink_metadata" THEN "none"
                                 ELSE IF step = "restore_metadata" THEN original["metadata"]
                                 ELSE files["metadata"]
         /\ files'["service"] = IF step = "write_service" THEN "new"
                                ELSE IF step = "unlink_service" THEN "none"
                                ELSE IF step = "restore_service" THEN original["service"]
                                ELSE files["service"]
         /\ files'["status"] = IF step = "unlink_status" THEN "none"
                               ELSE IF step = "restore_status" THEN original["status"]
                               ELSE files["status"]
         /\ log' \in {"none", "empty", "written"}
         /\ log' = "empty" => log = "empty" \/ step = "ensure_log"
         /\ step = "unlink_log" => log' # "empty"
         /\ manager' = manager
<1>1. /\ UnlinkStep["metadata"] = "unlink_metadata"
      /\ UnlinkStep["service"] = "unlink_service" /\ UnlinkStep["status"] = "unlink_status"
      /\ RestoreStep["metadata"] = "restore_metadata"
      /\ RestoreStep["service"] = "restore_service"
      /\ RestoreStep["status"] = "restore_status"
  BY DEF UnlinkStep, RestoreStep
<1>2. files \in [File -> Content] /\ original \in [File -> Content]
  BY DEF TypeOK
<1>3. /\ log \in {"none", "empty", "written"}
      /\ log' = CASE step = "ensure_log" /\ log = "none" -> "empty"
                  [] step = "unlink_log" /\ log = "empty" -> "none"
                  [] OTHER -> log
      /\ manager' = manager
  BY DEF TypeOK, Write
<1>4. /\ log' \in {"none", "empty", "written"}
      /\ log' = "empty" => log = "empty" \/ step = "ensure_log"
      /\ step = "unlink_log" => log' # "empty"
  BY <1>3
<1> DEFINE new(file) ==
             CASE step = "write_metadata" /\ file = "metadata" -> "new"
               [] step = "write_service" /\ file = "service" -> "new"
               [] step = UnlinkStep[file] -> "none"
               [] step = RestoreStep[file] -> original[file]
               [] OTHER -> files[file]
<1>5. files' = [file \in File |-> new(file)]
  BY DEF Write, Restored
<1>6. new("metadata") = IF step = "write_metadata" THEN "new"
                        ELSE IF step = "unlink_metadata" THEN "none"
                        ELSE IF step = "restore_metadata" THEN original["metadata"]
                        ELSE files["metadata"]
  BY <1>1
<1>7. new("service") = IF step = "write_service" THEN "new"
                       ELSE IF step = "unlink_service" THEN "none"
                       ELSE IF step = "restore_service" THEN original["service"]
                       ELSE files["service"]
  BY <1>1
<1>8. new("status") = IF step = "unlink_status" THEN "none"
                      ELSE IF step = "restore_status" THEN original["status"]
                      ELSE files["status"]
  BY <1>1
<1> HIDE DEF new
<1>9. \A file \in File : new(file) \in Content
  BY <1>2, <1>6, <1>7, <1>8 DEF File, Content
<1> QED
  BY <1>3, <1>4, <1>5, <1>6, <1>7, <1>8, <1>9 DEF File

(* One of the five operations begins. *)
LEMMA Beginning ==
  ASSUME TypeOK, Install \/ Uninstall \/ Start \/ StopService \/ Restart
  PROVE  \E operation \in Operation \ {"none"}, steps \in Seq(Step) :
           /\ Begin(operation, steps)
           /\ Steps(steps) \cap Command \subseteq CommandsOf(platform)
           /\ operation = "install" =>
                /\ Steps(steps) \subseteq InstallStep
                /\ platform = "linux" => Ordered(steps) /\ "enable" \in Steps(steps)
           /\ operation = "uninstall" => Steps(steps) \subseteq UninstallStep
<1>1. platform \in Platform
  BY DEF TypeOK
<1>2. CASE Install
  BY <1>1, <1>2, InstallList DEF Install, Operation
<1>3. CASE Uninstall
  BY <1>1, <1>3, UninstallList DEF Uninstall, Operation
<1>4. CASE Start
  <2> DEFINE loaded == manager.loaded /= "none"
  <2>1. Begin("start", StartSteps(loaded)) /\ loaded \in BOOLEAN
    BY <1>4 DEF Start
  <2> HIDE DEF loaded
  <2> QED
    BY <1>1, <2>1, StartStopList DEF Operation
<1>5. CASE StopService
  <2>1. /\ StopSteps \in Seq(Step)
        /\ Steps(StopSteps) \cap Command \subseteq CommandsOf(platform)
    BY <1>1, StartStopList
  <2> QED
    BY <1>5, <2>1 DEF StopService, Operation
<1>6. CASE Restart
  <2> DEFINE start == StartSteps(platform /= "macos" /\ manager.loaded /= "none")
  <2>1. StopSteps \in Seq(Step) /\ start \in Seq(Step)
        /\ Steps(start) \cap Command \subseteq CommandsOf(platform)
        /\ Steps(StopSteps) \cap Command \subseteq CommandsOf(platform)
    BY <1>1, StartStopList
  <2>2. Begin("restart", StopSteps \o start)
    BY <1>6 DEF Restart
  <2> HIDE DEF start
  <2>3. StopSteps \o start \in Seq(Step)
        /\ Steps(StopSteps \o start) \cap Command \subseteq CommandsOf(platform)
    BY <2>1, StepsOfConcat
  <2> DEFINE steps == StopSteps \o start
  <2>4. /\ Begin("restart", steps) /\ steps \in Seq(Step)
        /\ Steps(steps) \cap Command \subseteq CommandsOf(platform)
    BY <2>2, <2>3
  <2> HIDE DEF steps
  <2> QED
    BY <2>4 DEF Operation
<1> QED
  BY <1>2, <1>3, <1>4, <1>5, <1>6

(* One step of a list, of whatever kind, takes effect. *)
LEMMA Performing ==
  ASSUME TypeOK, NEW step \in Step, Perform(step)
  PROVE  /\ files' \in [File -> Content] /\ manager' \in Manager
         /\ log' \in {"none", "empty", "written"}
         /\ step \in Command => Accepts(step)
         /\ files'["metadata"] = IF step = "write_metadata" THEN "new"
                                 ELSE IF step = "unlink_metadata" THEN "none"
                                 ELSE IF step = "restore_metadata" THEN original["metadata"]
                                 ELSE files["metadata"]
         /\ files'["service"] = IF step = "write_service" THEN "new"
                                ELSE IF step = "unlink_service" THEN "none"
                                ELSE IF step = "restore_service" THEN original["service"]
                                ELSE files["service"]
         /\ files'["status"] = IF step = "unlink_status" THEN "none"
                               ELSE IF step = "restore_status" THEN original["status"]
                               ELSE files["status"]
         /\ log' = "empty" => log = "empty" \/ step = "ensure_log"
         /\ step = "unlink_log" => log' # "empty"
         /\ manager'.loaded = IF step \in Loading THEN files["service"]
                              ELSE IF step \in {"bootout", "unregister"} THEN "none"
                              ELSE manager.loaded
         /\ manager'.enabled = IF step \in {"enable", "disable"}
                               THEN step = "enable" ELSE manager.enabled
         /\ manager'.running =
              IF step \in {"bootstrap", "kickstart", "start_task", "start"} THEN TRUE
              ELSE IF step \in {"bootout", "unregister", "stop", "stop_task"} THEN FALSE
              ELSE manager.running
<1>1. manager \in Manager /\ files \in [File -> Content]
      /\ log \in {"none", "empty", "written"}
  BY DEF TypeOK
<1>2. CASE step \in Command
  <2>1. Accepts(step) /\ manager' = After(step) /\ files' = files /\ log' = log
    BY <1>2 DEF Perform, Execute
  <2>2. step \notin FileStep
    BY <1>2 DEF Command, FileStep
  <2> QED
    BY <1>1, <1>2, <2>1, <2>2, ManagerAfter DEF FileStep
<1>3. CASE step \notin Command
  <2>1. Write(step)
    BY <1>3 DEF Perform
  <2>2. step \notin {"bootstrap", "bootout", "kickstart", "register", "unregister",
                     "start_task", "stop_task", "reload", "enable", "disable", "start",
                     "stop"}
    BY <1>3 DEF Command
  <2> QED
    BY <1>1, <1>3, <2>1, <2>2, FileAfter DEF Loading
<1> QED
  BY <1>2, <1>3

(* The step that runs is the first of the list. *)
LEMMA RunningStep ==
  ASSUME todo \in Seq(Step), NEW step, Running(step)
  PROVE  /\ step \in Step /\ op # "none" /\ todo # <<>>
         /\ Tail(todo) \in Seq(Step)
         /\ Steps(todo) = {step} \cup Steps(Tail(todo))
         /\ Ordered(todo) => /\ Ordered(Tail(todo))
                             /\ \A x \in Steps(Tail(todo)) : Phase(step) <= Phase(x)
<1>1. op # "none" /\ todo # <<>> /\ Head(todo) = step
  BY DEF Running
<1> QED
  BY <1>1, StepsOfTail, OrderedTail

-----------------------------------------------------------------------------
(* The type invariant.                                                      *)

LEMMA TypeStep ==
  ASSUME TypeOK, [Next]_vars
  PROVE  TypeOK'
<1> USE DEF Step
<1>1. CASE Install \/ Uninstall \/ Start \/ StopService \/ Restart
  <2>1. PICK operation \in Operation \ {"none"}, steps \in Seq(Step) :
               Begin(operation, steps)
    BY <1>1, Beginning
  <2>2. manager.enabled \in BOOLEAN /\ manager.running \in BOOLEAN
    BY DEF TypeOK, Manager
  <2>3. was' \in [enabled : BOOLEAN, running : BOOLEAN]
    BY <2>1, <2>2 DEF Begin
  <2> QED
    BY <2>1, <2>3 DEF Begin, TypeOK
<1>2. ASSUME NEW step \in Step, Succeed(step)
      PROVE  TypeOK'
  <2>1. todo \in Seq(Step) /\ Running(step) /\ Perform(step)
    BY <1>2 DEF TypeOK, Succeed
  <2>2. Tail(todo) \in Seq(Step)
    BY <2>1, RunningStep
  <2>3. files' \in [File -> Content] /\ manager' \in Manager
        /\ log' \in {"none", "empty", "written"}
    BY <2>1, Performing
  <2>4. attempted' \subseteq Command /\ completed' \subseteq attempted'
    BY <1>2 DEF Succeed, Attempt, TypeOK
  <2> QED
    BY <1>2, <2>2, <2>3, <2>4 DEF Succeed, TypeOK, history
<1>3. ASSUME NEW step \in Step, FailUndo(step)
      PROVE  TypeOK'
  <2>1. todo \in Seq(Step) /\ Running(step)
    BY <1>3 DEF TypeOK, FailUndo
  <2>2. Tail(todo) \in Seq(Step)
    BY <2>1, RunningStep
  <2> QED
    BY <1>3, <2>2 DEF FailUndo, PerformNothing, TypeOK, locals
<1>4. ASSUME NEW step \in Step, NEW took_effect \in BOOLEAN, Fail(step, took_effect)
      PROVE  TypeOK'
  <2>1. /\ files' \in [File -> Content] /\ manager' \in Manager
        /\ log' \in {"none", "empty", "written"}
    <3>1. CASE took_effect
      BY <1>4, <3>1, Performing DEF Fail
    <3>2. CASE ~ took_effect
      BY <1>4, <3>2 DEF Fail, PerformNothing, TypeOK
    <3> QED
      BY <3>1, <3>2
  <2>2. attempted' \subseteq Command /\ completed' \subseteq attempted'
    BY <1>4 DEF Fail, Attempt, TypeOK
  <2>3. todo' \in Seq(Step)
    <3>1. platform \in Platform /\ was \in [enabled : BOOLEAN, running : BOOLEAN]
      BY DEF TypeOK
    <3>2. CASE op = "install"
      <4>1. todo' = UndoInstall(Attempt(step), completed)
        BY <1>4, <3>2 DEF Fail
      <4> QED
        BY <4>1, UndoInstallList
    <3>3. CASE op = "uninstall"
      <4>1. todo' = UndoUninstall(Attempt(step))
        BY <1>4, <3>3 DEF Fail
      <4> QED
        BY <3>1, <4>1, UndoUninstallList
    <3>4. CASE op \notin {"install", "uninstall"}
      BY <1>4, <3>4 DEF Fail
    <3> QED
      BY <3>2, <3>3, <3>4
  <2>4. uncertain' \in BOOLEAN
    BY <1>4 DEF Fail
  <2> QED
    BY <1>4, <2>1, <2>2, <2>3, <2>4 DEF Fail, TypeOK
<1>5. CASE InterruptUndo
  BY <1>5 DEF InterruptUndo, TypeOK, locals
<1>6. CASE EndOperation
  <2>1. \A content \in Content : Aged(content) \in Content
    BY DEF Aged, Content
  <2>2. files' \in [File -> Content]
    BY <1>6, <2>1 DEF EndOperation, TypeOK
  <2>3. manager' \in Manager
    BY <1>6, <2>1 DEF EndOperation, TypeOK, Manager
  <2>4. before' \in Manager /\ original' \in [File -> Content]
    BY <1>6 DEF EndOperation, NothingLoaded, Manager, Absent, Content
  <2> QED
    BY <1>6, <2>2, <2>3, <2>4 DEF EndOperation, TypeOK, Operation
<1>7. CASE Daemon
  BY <1>7 DEF Daemon, TypeOK, Content, locals, history
<1>8. CASE Administer
  BY <1>8 DEF Administer, TypeOK, Manager, locals, history
<1>9. CASE UNCHANGED vars
  BY <1>9 DEF vars, TypeOK, locals, history
<1> QED
  BY <1>1, <1>2, <1>3, <1>4, <1>5, <1>6, <1>7, <1>8, <1>9 DEF Next

-----------------------------------------------------------------------------
(* The other parts of the invariant.                                        *)

LEMMA InitInv == Init => Inv
<1> SUFFICES ASSUME Init PROVE Inv
  OBVIOUS
<1>1. /\ op = "none" /\ todo = <<>> /\ undoing = FALSE /\ uncertain = FALSE
      /\ platform \in Platform /\ log_existed = FALSE /\ log = "none"
      /\ attempted = {} /\ completed = {}
      /\ files = Absent /\ original = Absent
      /\ manager = NothingLoaded /\ before = NothingLoaded
      /\ was = [enabled |-> FALSE, running |-> FALSE]
  BY DEF Init
<1>2. Absent \in [File -> {"none", "old"}] /\ Absent \in [File -> Content]
  BY DEF Absent, Content
<1>3. NothingLoaded \in Manager /\ NothingLoaded.loaded = "none"
  BY DEF NothingLoaded, Manager, Content
<1>4. TypeOK
  <2>1. was \in [enabled : BOOLEAN, running : BOOLEAN] /\ todo \in Seq(Command \cup FileStep)
    BY <1>1
  <2>2. attempted \subseteq Command /\ completed \subseteq attempted
    BY <1>1
  <2>3. /\ files \in [File -> Content] /\ original \in [File -> Content]
        /\ manager \in Manager /\ before \in Manager
    BY <1>1, <1>2, <1>3
  <2> QED
    BY <1>1, <2>1, <2>2, <2>3 DEF TypeOK, Operation
<1>5. TodoInv
  BY <1>1 DEF TodoInv, Steps, Ordered
<1>6. OldInv /\ FileInv /\ InstallInv /\ RemovalInv
  BY <1>1, <1>2, <1>3
     DEF OldInv, FileInv, InstallInv, FirstInstall, RemovalInv, Removal
<1> QED
  BY <1>4, <1>5, <1>6 DEF Inv

LEMMA TodoStep ==
  ASSUME Inv, [Next]_vars
  PROVE  TodoInv'
<1> USE DEF Step
<1>0. TypeOK /\ TodoInv /\ TypeOK'
  BY TypeStep DEF Inv
<1>1. CASE Install \/ Uninstall \/ Start \/ StopService \/ Restart
  <2>1. PICK operation \in Operation \ {"none"}, steps \in Seq(Step) :
           /\ Begin(operation, steps)
           /\ Steps(steps) \cap Command \subseteq CommandsOf(platform)
           /\ operation = "install" =>
                /\ Steps(steps) \subseteq InstallStep
                /\ platform = "linux" => Ordered(steps) /\ "enable" \in Steps(steps)
           /\ operation = "uninstall" => Steps(steps) \subseteq UninstallStep
    BY <1>0, <1>1, Beginning
  <2> QED
    BY <2>1 DEF Begin, TodoInv, Steps, Ordered, CommandsOf
<1>2. ASSUME NEW step \in Step, Succeed(step) \/ FailUndo(step)
      PROVE  TodoInv'
  <2>1. todo \in Seq(Step) /\ Running(step)
    BY <1>0, <1>2 DEF TypeOK, Succeed, FailUndo
  <2>2. /\ op' = op /\ op # "none" /\ undoing' = undoing /\ platform' = platform
        /\ todo' = Tail(todo) /\ todo # <<>>
    BY <1>2, <2>1, RunningStep DEF Succeed, FailUndo
  <2>3. /\ Tail(todo) \in Seq(Step) /\ Steps(Tail(todo)) \subseteq Steps(todo)
        /\ Ordered(todo) => Ordered(Tail(todo))
    BY <2>1, RunningStep
  <2>4. Steps(todo') \subseteq Steps(todo) /\ (Ordered(todo) => Ordered(todo'))
    BY <2>2, <2>3
  <2>5. CommandsOf(platform)' = CommandsOf(platform) /\ Steps(todo)' = Steps(todo')
        /\ Ordered(todo)' = Ordered(todo')
    BY <2>2
  <2>6. todo' \in Seq(Step)
    BY <2>2, <2>3
  <2> QED
    BY <1>0, <2>2, <2>4, <2>5, <2>6 DEF TodoInv
<1>3. ASSUME NEW step \in Step, NEW took_effect \in BOOLEAN, Fail(step, took_effect)
      PROVE  TodoInv'
  <2>1. platform \in Platform /\ was \in [enabled : BOOLEAN, running : BOOLEAN]
    BY <1>0 DEF TypeOK
  <2>2. op' = op /\ op # "none" /\ undoing' = TRUE /\ platform' = platform
    BY <1>3 DEF Fail, Running
  <2>3. CASE op = "install"
    <3>1. todo' = UndoInstall(Attempt(step), completed)
      BY <1>3, <2>3 DEF Fail
    <3>2. /\ todo' \in Seq(Step) /\ Ordered(todo')
          /\ Steps(todo') = UndoInstallPlan(Attempt(step), completed)
      BY <3>1, UndoInstallList
    <3>3. /\ Steps(todo') \subseteq UndoInstallStep
          /\ Steps(todo') \cap Command \subseteq CommandsOf(platform)
      BY <2>1, <3>2 DEF UndoInstallPlan, UndoInstallStep, Command, CommandsOf, Platform
    <3> QED
      BY <2>2, <2>3, <3>2, <3>3 DEF TodoInv
  <2>4. CASE op = "uninstall"
    <3>1. todo' = UndoUninstall(Attempt(step))
      BY <1>3, <2>4 DEF Fail
    <3>2. /\ todo' \in Seq(Step) /\ Ordered(todo')
          /\ Steps(todo') = UndoUninstallPlan(Attempt(step))
      BY <2>1, <3>1, UndoUninstallList
    <3>3. /\ Steps(todo') \subseteq UndoUninstallStep
          /\ Steps(todo') \cap Command \subseteq CommandsOf(platform)
      BY <2>1, <3>2 DEF UndoUninstallPlan, UndoUninstallStep, Restoring, Loading,
                        Command, CommandsOf, Platform
    <3> QED
      BY <2>2, <2>4, <3>2, <3>3 DEF TodoInv
  <2>5. CASE op \notin {"install", "uninstall"}
    <3>1. todo' = <<>>
      BY <1>3, <2>5 DEF Fail
    <3> QED
      BY <2>2, <2>5, <3>1 DEF TodoInv, Steps, Ordered
  <2> QED
    BY <2>3, <2>4, <2>5
<1>4. CASE InterruptUndo
  <2>1. todo' = <<>> /\ op' = op /\ undoing' = undoing
    BY <1>4 DEF InterruptUndo
  <2>2. undoing /\ op # "none"
    BY <1>0, <1>4 DEF InterruptUndo, TodoInv
  <2> QED
    BY <2>1, <2>2 DEF TodoInv, Steps, Ordered
<1>5. CASE EndOperation
  BY <1>5 DEF EndOperation, TodoInv, Steps, Ordered
<1>6. CASE Daemon \/ Administer \/ UNCHANGED vars
  <2>1. todo' = todo /\ op' = op /\ undoing' = undoing /\ platform' = platform
    BY <1>6 DEF Daemon, Administer, vars
  <2>2. CommandsOf(platform)' = CommandsOf(platform) /\ Steps(todo)' = Steps(todo)
        /\ Ordered(todo)' = Ordered(todo)
    BY <2>1
  <2> QED
    BY <1>0, <2>1, <2>2 DEF TodoInv
<1> QED
  BY <1>1, <1>2, <1>3, <1>4, <1>5, <1>6 DEF Next

LEMMA OldStep ==
  ASSUME Inv, [Next]_vars
  PROVE  OldInv'
<1> USE DEF Step
<1>0. TypeOK /\ TodoInv /\ OldInv
  BY DEF Inv
<1>1. CASE Install \/ Uninstall \/ Start \/ StopService \/ Restart
  <2>1. PICK operation \in Operation \ {"none"}, steps \in Seq(Step) :
               Begin(operation, steps)
    BY <1>0, <1>1, Beginning
  <2> QED
    BY <1>0, <2>1 DEF Begin, OldInv
<1>2. ASSUME NEW step \in Step,
             \/ Succeed(step) \/ FailUndo(step)
             \/ \E took_effect \in BOOLEAN : Fail(step, took_effect)
      PROVE  OldInv'
  <2>1. /\ op' = op /\ op # "none" /\ original' = original /\ before' = before
        /\ was' = was
    BY <1>2 DEF Succeed, FailUndo, Fail, Running, history, locals
  <2>2. CASE Succeed(step)
    BY <1>0, <2>1, <2>2 DEF Succeed, OldInv, history
  <2>3. CASE FailUndo(step)
    BY <1>0, <2>1, <2>3 DEF FailUndo, OldInv
  <2>4. CASE \E took_effect \in BOOLEAN : Fail(step, took_effect)
    BY <1>0, <2>1, <2>4 DEF Fail, OldInv
  <2> QED
    BY <1>2, <2>2, <2>3, <2>4
<1>3. CASE InterruptUndo
  BY <1>0, <1>3 DEF InterruptUndo, OldInv, TodoInv, locals
<1>4. CASE EndOperation
  <2>1. \A content \in Content : Aged(content) \in {"none", "old"}
    BY DEF Aged, Content
  <2>2. files' \in [File -> {"none", "old"}]
    BY <1>0, <1>4, <2>1 DEF EndOperation, TypeOK
  <2>3. manager'.loaded \in {"none", "old"}
    BY <1>0, <1>4, <2>1 DEF EndOperation, TypeOK, Manager
  <2> QED
    BY <1>4, <2>2, <2>3 DEF EndOperation, OldInv, Absent, NothingLoaded
<1>5. CASE Daemon
  <2>1. op = "none" => files' \in [File -> {"none", "old"}]
    BY <1>0, <1>5 DEF Daemon, OldInv
  <2> QED
    BY <1>0, <1>5, <2>1 DEF Daemon, OldInv, locals, history
<1>6. CASE Administer
  <2>1. manager'.loaded = manager.loaded
    BY <1>0, <1>6 DEF Administer, TypeOK, Manager
  <2> QED
    BY <1>0, <1>6, <2>1 DEF Administer, OldInv, locals, history
<1>7. CASE UNCHANGED vars
  BY <1>0, <1>7 DEF vars, OldInv, locals, history
<1> QED
  BY <1>1, <1>2, <1>3, <1>4, <1>5, <1>6, <1>7 DEF Next

LEMMA FileInvStep ==
  ASSUME Inv, [Next]_vars
  PROVE  FileInv'
<1> USE DEF Step
<1>0. TypeOK /\ TodoInv /\ FileInv
  BY DEF Inv
<1>1. CASE Install \/ Uninstall \/ Start \/ StopService \/ Restart
  <2>1. PICK operation \in Operation \ {"none"}, steps \in Seq(Step) :
               Begin(operation, steps)
    BY <1>0, <1>1, Beginning
  <2> QED
    BY <2>1 DEF Begin, FileInv
<1>2. ASSUME NEW step \in Step, Succeed(step)
      PROVE  FileInv'
  <2>1. /\ op' = op /\ undoing' = undoing /\ uncertain' = uncertain
        /\ original' = original /\ log_existed' = log_existed
        /\ todo' = Tail(todo) /\ Running(step) /\ Perform(step)
    BY <1>2 DEF Succeed, history
  <2>2. Steps(todo) = {step} \cup Steps(todo)'
    BY <1>0, <2>1, RunningStep DEF TypeOK
  <2>3. CASE op = "install" /\ ~ undoing
    <3>1. step \in InstallStep
      BY <1>0, <2>2, <2>3 DEF TodoInv
    <3>2. files'["status"] = files["status"]
      BY <1>0, <2>1, <3>1, Performing DEF InstallStep
    <3> QED
      BY <1>0, <2>1, <2>3, <3>2 DEF FileInv
  <2>4. CASE op = "install" /\ undoing
    <3>1. step \in UndoInstallStep
      BY <1>0, <2>2, <2>4 DEF TodoInv
    <3>2. /\ files'["status"] = files["status"]
          /\ files'["metadata"] = IF step = "restore_metadata" THEN original["metadata"]
                                  ELSE files["metadata"]
          /\ files'["service"] = IF step = "restore_service" THEN original["service"]
                                 ELSE files["service"]
          /\ log' = "empty" => log = "empty"
          /\ step = "unlink_log" => log' # "empty"
      BY <1>0, <2>1, <3>1, Performing DEF UndoInstallStep
    <3> QED
      BY <1>0, <2>1, <2>2, <2>4, <3>2 DEF FileInv
  <2>5. CASE op = "uninstall" /\ undoing
    <3>1. step \in UndoUninstallStep
      BY <1>0, <2>2, <2>5 DEF TodoInv
    <3>2. /\ files'["status"] = IF step = "restore_status" THEN original["status"]
                                ELSE files["status"]
          /\ files'["metadata"] = IF step = "restore_metadata" THEN original["metadata"]
                                  ELSE files["metadata"]
          /\ files'["service"] = IF step = "restore_service" THEN original["service"]
                                 ELSE files["service"]
      BY <1>0, <2>1, <3>1, Performing DEF UndoUninstallStep, Restoring, Loading
    <3> QED
      BY <1>0, <2>1, <2>2, <2>5, <3>2 DEF FileInv
  <2>6. CASE op \notin {"install", "uninstall"} \/ (op = "uninstall" /\ ~ undoing)
    BY <2>1, <2>6 DEF FileInv
  <2> QED
    BY <1>0, <2>3, <2>4, <2>5, <2>6 DEF TypeOK
<1>3. ASSUME NEW step \in Step, FailUndo(step)
      PROVE  FileInv'
  BY <1>0, <1>3 DEF FailUndo, FileInv, PerformNothing, locals
<1>4. ASSUME NEW step \in Step, NEW took_effect \in BOOLEAN, Fail(step, took_effect)
      PROVE  FileInv'
  <2>1. /\ op' = op /\ ~ undoing /\ original' = original /\ log_existed' = log_existed
        /\ uncertain' = (uncertain \/ took_effect)
        /\ Running(step)
    BY <1>4 DEF Fail
  <2>2. op = "install" => files'["status"] = files["status"]
    <3> SUFFICES ASSUME op = "install" PROVE files'["status"] = files["status"]
      OBVIOUS
    <3>1. step \in InstallStep
      BY <1>0, <2>1, RunningStep DEF TodoInv, TypeOK
    <3>2. CASE took_effect
      BY <1>0, <1>4, <3>1, <3>2, Performing DEF Fail, InstallStep
    <3>3. CASE ~ took_effect
      BY <1>4, <3>3 DEF Fail, PerformNothing
    <3> QED
      BY <3>2, <3>3
  <2>3. op = "install" =>
          /\ {"restore_metadata", "restore_service"} \subseteq Steps(todo)'
          /\ ~ log_existed => "unlink_log" \in Steps(todo)'
    <3> SUFFICES ASSUME op = "install"
                 PROVE  /\ {"restore_metadata", "restore_service"} \subseteq Steps(todo)'
                        /\ ~ log_existed => "unlink_log" \in Steps(todo)'
      OBVIOUS
    <3>1. todo' = UndoInstall(Attempt(step), completed)
      BY <1>4 DEF Fail
    <3>2. Steps(todo)' = UndoInstallPlan(Attempt(step), completed)
      BY <3>1, UndoInstallList
    <3> QED
      BY <3>2 DEF UndoInstallPlan, UndoInstallStep
  <2>4. op = "uninstall" => Restoring \subseteq Steps(todo)'
    <3> SUFFICES ASSUME op = "uninstall" PROVE Restoring \subseteq Steps(todo)'
      OBVIOUS
    <3>1. todo' = UndoUninstall(Attempt(step))
      BY <1>4 DEF Fail
    <3>2. Steps(todo)' = UndoUninstallPlan(Attempt(step))
      BY <1>0, <3>1, UndoUninstallList DEF TypeOK
    <3> QED
      BY <3>2 DEF UndoUninstallPlan, UndoUninstallStep, Restoring, Loading
  <2> QED
    BY <1>0, <2>1, <2>2, <2>3, <2>4 DEF FileInv, Restoring
<1>5. CASE InterruptUndo
  BY <1>0, <1>5 DEF InterruptUndo, FileInv, locals
<1>6. CASE EndOperation
  BY <1>6 DEF EndOperation, FileInv
<1>7. CASE Daemon
  <2>1. /\ files'["metadata"] = files["metadata"] /\ files'["service"] = files["service"]
        /\ files'["status"] # "none"
    BY <1>0, <1>7 DEF Daemon, TypeOK, File
  <2>2. /\ log' = "written" /\ op' = op /\ undoing' = undoing /\ uncertain' = uncertain
        /\ original' = original /\ log_existed' = log_existed /\ todo' = todo
    BY <1>7 DEF Daemon, locals, history
  <2>3. Steps(todo)' = Steps(todo)
    BY <2>2
  <2> QED
    BY <1>0, <2>1, <2>2, <2>3 DEF FileInv
<1>8. CASE Administer
  BY <1>0, <1>8 DEF Administer, FileInv, locals, history
<1>9. CASE UNCHANGED vars
  <2>1. /\ files' = files /\ log' = log /\ op' = op /\ undoing' = undoing
        /\ uncertain' = uncertain
        /\ original' = original /\ log_existed' = log_existed /\ todo' = todo
    BY <1>9 DEF vars, locals, history
  <2>2. Steps(todo)' = Steps(todo)
    BY <2>1
  <2> QED
    BY <1>0, <2>1, <2>2 DEF FileInv
<1> QED
  BY <1>1, <1>2, <1>3, <1>4, <1>5, <1>6, <1>7, <1>8, <1>9 DEF Next

LEMMA InstallInvStep ==
  ASSUME Inv, [Next]_vars
  PROVE  InstallInv'
<1> USE DEF Step
<1>0. TypeOK /\ TodoInv /\ FileInv /\ InstallInv /\ platform \in Platform
  BY DEF Inv, TypeOK
<1>1. CASE Install \/ Uninstall \/ Start \/ StopService \/ Restart
  <2>1. PICK operation \in Operation \ {"none"}, steps \in Seq(Step) :
           /\ Begin(operation, steps)
           /\ operation = "install" /\ platform = "linux" =>
                Ordered(steps) /\ "enable" \in Steps(steps)
    BY <1>0, <1>1, Beginning
  <2>2. /\ op' = operation /\ todo' = steps /\ ~ undoing' /\ before' = manager
        /\ manager' = manager /\ platform' = platform
    BY <2>1 DEF Begin
  <2>3. Steps(todo)' = Steps(steps)
    BY <2>2
  <2> QED
    BY <2>1, <2>2, <2>3 DEF InstallInv, FirstInstall, NothingLoaded
<1>2. ASSUME NEW step \in Step, Succeed(step)
      PROVE  InstallInv'
  <2>1. /\ op' = op /\ undoing' = undoing /\ uncertain' = uncertain
        /\ original' = original /\ before' = before /\ platform' = platform
        /\ todo' = Tail(todo) /\ Running(step) /\ Perform(step)
        /\ attempted' = attempted \cup ({step} \cap Command)
        /\ completed' = completed \cup ({step} \cap Command)
    BY <1>2 DEF Succeed, history, Attempt
  <2>2. /\ Steps(todo) = {step} \cup Steps(todo)'
        /\ Ordered(todo) => \A x \in Steps(todo)' : Phase(step) <= Phase(x)
    BY <1>0, <2>1, RunningStep DEF TypeOK
  <2>3. FirstInstall' <=> FirstInstall
    BY <2>1 DEF FirstInstall, WasInstalled
  <2>4. /\ manager \in Manager /\ manager' \in Manager
        /\ step \in Command => Accepts(step)
        /\ manager'.loaded = IF step \in Loading THEN files["service"]
                             ELSE IF step \in {"bootout", "unregister"} THEN "none"
                             ELSE manager.loaded
        /\ manager'.enabled = IF step \in {"enable", "disable"}
                              THEN step = "enable" ELSE manager.enabled
        /\ manager'.running =
             IF step \in {"bootstrap", "kickstart", "start_task", "start"} THEN TRUE
             ELSE IF step \in {"bootout", "unregister", "stop", "stop_task"} THEN FALSE
             ELSE manager.running
    BY <1>0, <2>1, Performing DEF TypeOK
  <2>5. CASE FirstInstall /\ ~ undoing
    <3>1. step \in InstallStep /\ (step \in Command => step \in CommandsOf(platform))
      BY <1>0, <2>2, <2>5 DEF TodoInv, FirstInstall
    <3>2. step \notin Command => manager' = manager
      BY <2>1 DEF Perform, Write
    <3>3. CASE platform = "macos"
      <4>1. step \in Command => step = "bootstrap"
        BY <3>1, <3>3 DEF InstallStep, CommandsOf
      <4>2. "bootstrap" \in Command
        BY DEF Command
      <4>3. step = "bootstrap" => "bootstrap" \in completed'
        BY <2>1, <4>2
      <4>4. manager'.enabled = manager.enabled
        BY <2>4, <3>2, <4>1
      <4> QED
        BY <1>0, <2>1, <2>3, <2>5, <3>2, <3>3, <4>1, <4>3, <4>4 DEF InstallInv
    <3>4. CASE platform = "windows"
      <4>1. step \in Command => step \in {"register", "start_task"}
        BY <3>1, <3>4 DEF InstallStep, CommandsOf
      <4>2. "register" \in Command /\ "start_task" \in Command
        BY DEF Command
      <4>3. step = "register" => "register" \in completed'
        BY <2>1, <4>2
      <4>4. step = "start_task" => manager.loaded # "none"
        BY <2>4, <4>2 DEF Accepts
      <4>5. step = "start_task" => manager # NothingLoaded
        BY <4>4 DEF NothingLoaded
      <4>6. manager'.enabled = manager.enabled
        BY <2>4, <3>2, <4>1
      <4> QED
        BY <1>0, <2>1, <2>3, <2>5, <3>2, <3>4, <4>1, <4>3, <4>5, <4>6 DEF InstallInv
    <3>5. CASE platform = "linux"
      <4>1. step \in Command => step \in {"reload", "enable", "start"}
        BY <3>1, <3>5 DEF InstallStep, CommandsOf
      <4>2. "reload" \in Command /\ "enable" \in Command /\ "start" \in Command
        BY DEF Command
      <4>3. step \in Command => attempted' # {}
        BY <2>1
      <4>4. "enable" \in Steps(todo)' \cup completed'
        BY <1>0, <2>1, <2>2, <2>5, <3>5, <4>2 DEF InstallInv
      <4>5. step = "start" => "enable" \in completed
        <5>1. Ordered(todo)
          BY <1>0, <2>5, <3>5 DEF TodoInv, FirstInstall
        <5>2. Phase("start") = 4 /\ Phase("enable") = 3
          BY DEF Phase, FileStep
        <5>3. step = "start" => "enable" \notin Steps(todo)
          BY <2>2, <5>1, <5>2
        <5> QED
          BY <1>0, <2>5, <3>5, <5>3 DEF InstallInv
      <4>6. step = "start" => {"start", "enable"} \subseteq completed'
        BY <2>1, <4>2, <4>5
      <4>7. step = "enable" => "enable" \in completed'
        BY <2>1, <4>2
      <4>8. /\ manager'.loaded # "none" => manager.loaded # "none" \/ step \in Command
            /\ manager'.running => manager.running \/ step = "start"
            /\ manager'.enabled => manager.enabled \/ step = "enable"
        BY <2>4, <3>2, <4>1
      <4> QED
        BY <1>0, <2>1, <2>3, <2>5, <3>5, <4>3, <4>4, <4>6, <4>7, <4>8 DEF InstallInv
    <3> QED
      BY <1>0, <3>3, <3>4, <3>5 DEF Platform
  <2>6. CASE FirstInstall /\ undoing
    <3>1. step \in UndoInstallStep /\ Ordered(todo)
      BY <1>0, <2>2, <2>6 DEF TodoInv, FirstInstall
    <3>2. step \notin {"bootstrap", "register"}
      BY <1>0, <2>2, <2>6 DEF InstallInv
    <3>3. step = "reload" => files["service"] = "none"
      <4>1. Phase("reload") = 3 /\ Phase("restore_service") = 2
        BY DEF Phase, FileStep
      <4>2. step = "reload" => "restore_service" \notin Steps(todo)
        BY <2>2, <3>1, <4>1
      <4> QED
        BY <1>0, <2>6, <4>2 DEF FileInv, FirstInstall, WasInstalled
    <3>4. /\ manager'.enabled => manager.enabled /\ step # "disable"
          /\ manager'.running => manager.running /\ step \notin {"bootout", "unregister", "stop"}
          /\ manager'.loaded # "none" =>
               manager.loaded # "none" /\ step \notin {"bootout", "unregister", "reload"}
      BY <2>4, <3>1, <3>2, <3>3 DEF UndoInstallStep, Loading
    <3> QED
      BY <1>0, <2>1, <2>2, <2>3, <2>6, <3>4 DEF InstallInv
  <2>7. CASE ~ FirstInstall
    BY <2>3, <2>7 DEF InstallInv
  <2> QED
    BY <2>5, <2>6, <2>7
<1>3. ASSUME NEW step \in Step, FailUndo(step)
      PROVE  InstallInv'
  BY <1>3 DEF FailUndo, InstallInv, FirstInstall
<1>4. ASSUME NEW step \in Step, NEW took_effect \in BOOLEAN, Fail(step, took_effect)
      PROVE  InstallInv'
  <2> SUFFICES ASSUME FirstInstall' PROVE InstallInv'
    BY DEF InstallInv
  <2>1. /\ op' = op /\ ~ undoing /\ undoing' /\ original' = original /\ before' = before
        /\ uncertain' = (uncertain \/ took_effect) /\ platform' = platform
    BY <1>4 DEF Fail
  <2>2. FirstInstall /\ ~ took_effect /\ op = "install" /\ ~ WasInstalled
    BY <2>1 DEF FirstInstall, WasInstalled
  <2>3. manager' = manager /\ todo' = UndoInstall(Attempt(step), completed)
    BY <1>4, <2>2 DEF Fail, PerformNothing
  <2>4. Steps(todo)' = UndoInstallPlan(Attempt(step), completed)
    BY <2>3, UndoInstallList
  <2>5. completed \subseteq attempted /\ attempted \subseteq Attempt(step)
    BY <1>0 DEF TypeOK, Attempt
  <2>6. Steps(todo)' \cap {"bootstrap", "register"} = {}
    BY <2>2, <2>4 DEF UndoInstallPlan, UndoInstallStep
  <2>7. /\ manager'.enabled => "disable" \in Steps(todo)'
        /\ manager'.running => Steps(todo)' \cap {"bootout", "unregister", "stop"} # {}
        /\ manager'.loaded # "none" =>
             Steps(todo)' \cap {"bootout", "unregister", "reload"} # {}
    <3>1. manager = NothingLoaded => ~ manager.enabled /\ ~ manager.running
                                     /\ manager.loaded = "none"
      BY DEF NothingLoaded
    <3>2. CASE platform = "macos"
      BY <1>0, <2>1, <2>2, <2>3, <2>4, <3>1, <3>2
         DEF InstallInv, UndoInstallPlan, UndoInstallStep
    <3>3. CASE platform = "windows"
      BY <1>0, <2>1, <2>2, <2>3, <2>4, <3>1, <3>3
         DEF InstallInv, UndoInstallPlan, UndoInstallStep
    <3>4. CASE platform = "linux"
      <4>1. /\ manager.loaded # "none" => attempted # {}
            /\ manager.running => {"start", "enable"} \subseteq completed
            /\ manager.enabled => "enable" \in completed
        BY <1>0, <2>1, <2>2, <3>4 DEF InstallInv
      <4>2. /\ "enable" \in completed => "disable" \in Steps(todo)'
            /\ {"start", "enable"} \subseteq completed => "stop" \in Steps(todo)'
            /\ attempted # {} => "reload" \in Steps(todo)'
        BY <2>2, <2>4, <2>5, <3>4 DEF UndoInstallPlan, UndoInstallStep
      <4> QED
        BY <2>3, <4>1, <4>2
    <3> QED
      BY <1>0, <3>2, <3>3, <3>4 DEF Platform
  <2> QED
    BY <2>1, <2>6, <2>7 DEF InstallInv
<1>5. CASE InterruptUndo
  BY <1>5 DEF InterruptUndo, InstallInv, FirstInstall
<1>6. CASE EndOperation
  BY <1>6 DEF EndOperation, InstallInv, FirstInstall
<1>7. CASE Daemon \/ Administer \/ UNCHANGED vars
  <2>1. /\ platform' = platform /\ op' = op /\ todo' = todo /\ undoing' = undoing
        /\ original' = original /\ attempted' = attempted /\ completed' = completed
        /\ before' = before /\ uncertain' = uncertain
    BY <1>7 DEF Daemon, Administer, vars, locals, history
  <2>2. op # "none" => manager' = manager
    BY <1>7 DEF Daemon, Administer, vars
  <2>3. Steps(todo)' = Steps(todo)
    BY <2>1
  <2>4. FirstInstall' => FirstInstall /\ op # "none"
    BY <2>1 DEF FirstInstall, WasInstalled
  <2> QED
    BY <1>0, <2>1, <2>2, <2>3, <2>4 DEF InstallInv
<1> QED
  BY <1>1, <1>2, <1>3, <1>4, <1>5, <1>6, <1>7 DEF Next

LEMMA RemovalInvStep ==
  ASSUME Inv, [Next]_vars
  PROVE  RemovalInv'
<1> USE DEF Step
<1>0. /\ TypeOK /\ TodoInv /\ OldInv /\ FileInv /\ RemovalInv /\ platform \in Platform
      /\ before \in Manager /\ manager \in Manager
  BY DEF Inv, TypeOK
<1>1. CASE Install \/ Uninstall \/ Start \/ StopService \/ Restart
  <2>1. PICK operation \in Operation \ {"none"}, steps \in Seq(Step) :
           /\ Begin(operation, steps)
           /\ operation = "uninstall" => Steps(steps) \subseteq UninstallStep
    BY <1>0, <1>1, Beginning
  <2>2. /\ op' = operation /\ todo' = steps /\ ~ undoing' /\ before' = manager
        /\ manager' = manager
    BY <2>1 DEF Begin
  <2>3. Steps(todo)' = Steps(steps)
    BY <2>2
  <2>4. Removal' => "enable" \notin Steps(todo)' /\ "start" \notin Steps(todo)'
    BY <2>1, <2>2, <2>3 DEF Removal, UninstallStep
  <2> QED
    BY <2>2, <2>4 DEF RemovalInv
<1>2. ASSUME NEW step \in Step, Succeed(step)
      PROVE  RemovalInv'
  <2>1. /\ op' = op /\ undoing' = undoing /\ uncertain' = uncertain
        /\ original' = original /\ before' = before /\ platform' = platform
        /\ todo' = Tail(todo) /\ Running(step) /\ Perform(step)
        /\ attempted' = attempted \cup ({step} \cap Command)
    BY <1>2 DEF Succeed, history, Attempt
  <2>2. /\ Steps(todo) = {step} \cup Steps(todo)'
        /\ Ordered(todo) => \A x \in Steps(todo)' : Phase(step) <= Phase(x)
    BY <1>0, <2>1, RunningStep DEF TypeOK
  <2>3. Removal' <=> Removal
    BY <2>1 DEF Removal, WasInstalled
  <2>4. /\ manager'.loaded = IF step \in Loading THEN files["service"]
                             ELSE IF step \in {"bootout", "unregister"} THEN "none"
                             ELSE manager.loaded
        /\ manager'.enabled = IF step \in {"enable", "disable"}
                              THEN step = "enable" ELSE manager.enabled
        /\ manager'.running =
             IF step \in {"bootstrap", "kickstart", "start_task", "start"} THEN TRUE
             ELSE IF step \in {"bootout", "unregister", "stop", "stop_task"} THEN FALSE
             ELSE manager.running
    BY <1>0, <2>1, Performing
  <2>5. step \in Command => step \in CommandsOf(platform)
    BY <1>0, <2>2 DEF TodoInv
  <2>6. CASE Removal /\ ~ undoing
    <3>1. step \in UninstallStep
      BY <1>0, <2>2, <2>6 DEF TodoInv, Removal
    <3>2. attempted' = {} => manager' = manager /\ attempted = {}
      <4>1. attempted' = {} => step \notin Command /\ attempted = {}
        BY <2>1
      <4>2. step \notin Command => manager' = manager
        BY <2>1 DEF Perform, Write
      <4> QED
        BY <4>1, <4>2
    <3>3. manager'.enabled => manager.enabled
      BY <2>4, <3>1 DEF UninstallStep
    <3>4. manager'.running => manager.running
      BY <2>4, <3>1 DEF UninstallStep
    <3> QED
      BY <1>0, <2>1, <2>2, <2>3, <2>6, <3>2, <3>3, <3>4 DEF RemovalInv
  <2>7. CASE Removal /\ undoing
    <3>1. step \in UndoUninstallStep /\ Ordered(todo)
      BY <1>0, <2>2, <2>7 DEF TodoInv, Removal
    <3>2. step \in Loading => files["service"] = "old"
      <4>1. step \in Loading => Phase(step) = 3
        BY Phases
      <4>2. Phase("restore_service") = 2
        BY DEF Phase, FileStep
      <4>3. step \in Loading => "restore_service" \notin Steps(todo)
        BY <2>2, <3>1, <4>1, <4>2
      <4>4. original["service"] = "old"
        BY <1>0, <2>7 DEF OldInv, Removal, WasInstalled, File
      <4> QED
        BY <1>0, <2>7, <4>3, <4>4 DEF FileInv, Removal
    <3>3. manager'.loaded = IF step \in Loading THEN "old" ELSE manager.loaded
      BY <2>4, <3>1, <3>2 DEF UndoUninstallStep, Restoring, Loading
    <3>4. platform = "linux" =>
            /\ manager'.enabled = IF step = "enable" THEN TRUE ELSE manager.enabled
            /\ manager'.running = IF step = "start" THEN TRUE ELSE manager.running
      <4> SUFFICES ASSUME platform = "linux"
                   PROVE /\ manager'.enabled = IF step = "enable" THEN TRUE
                                               ELSE manager.enabled
                         /\ manager'.running = IF step = "start" THEN TRUE
                                               ELSE manager.running
        OBVIOUS
      <4>1. step \in Restoring \cup {"reload", "enable", "start"}
        BY <2>5, <3>1 DEF UndoUninstallStep, Loading, CommandsOf, Command, Restoring
      <4> QED
        BY <2>4, <4>1 DEF Restoring
    <3>5. manager'.loaded = "old" \/ Steps(todo)' \cap Loading # {}
      BY <1>0, <2>2, <2>7, <3>3 DEF RemovalInv
    <3> QED
      BY <1>0, <2>1, <2>2, <2>3, <2>7, <3>4, <3>5 DEF RemovalInv
  <2>8. CASE ~ Removal
    BY <2>3, <2>8 DEF RemovalInv
  <2> QED
    BY <2>6, <2>7, <2>8
<1>3. ASSUME NEW step \in Step, FailUndo(step)
      PROVE  RemovalInv'
  BY <1>3 DEF FailUndo, RemovalInv, Removal
<1>4. ASSUME NEW step \in Step, NEW took_effect \in BOOLEAN, Fail(step, took_effect)
      PROVE  RemovalInv'
  <2> SUFFICES ASSUME Removal' PROVE RemovalInv'
    BY DEF RemovalInv
  <2>1. /\ op' = op /\ ~ undoing /\ undoing' /\ original' = original /\ before' = before
        /\ uncertain' = (uncertain \/ took_effect) /\ platform' = platform
    BY <1>4 DEF Fail
  <2>2. Removal /\ ~ took_effect /\ op = "uninstall" /\ WasInstalled
    BY <2>1 DEF Removal, WasInstalled
  <2>3. manager' = manager /\ todo' = UndoUninstall(Attempt(step))
    BY <1>4, <2>2 DEF Fail, PerformNothing
  <2>4. Steps(todo)' = UndoUninstallPlan(Attempt(step))
    BY <1>0, <2>3, UndoUninstallList DEF TypeOK
  <2>5. was.enabled = before.enabled /\ was.running = before.running
    BY <1>0, <2>2 DEF OldInv
  <2>6. CASE Attempt(step) = {}
    <3>1. manager = before
      BY <1>0, <2>1, <2>2, <2>6 DEF RemovalInv, Attempt
    <3>2. before.loaded = "old"
      BY <1>0, <2>2 DEF OldInv, Removal
    <3>3. "enable" \notin Steps(todo)' /\ "start" \notin Steps(todo)'
      BY <2>4, <2>6 DEF UndoUninstallPlan
    <3> QED
      BY <2>1, <2>3, <3>1, <3>2, <3>3 DEF RemovalInv
  <2>7. CASE Attempt(step) # {}
    <3>1. Steps(todo)' \cap Loading # {}
      <4>1. PICK load \in Loading : /\ load = "bootstrap" => platform = "macos"
                                    /\ load = "register" => platform = "windows"
                                    /\ load = "reload" => platform = "linux"
        BY <1>0 DEF Loading, Platform
      <4>2. load \in UndoUninstallPlan(Attempt(step))
        BY <2>2, <2>7, <4>1 DEF UndoUninstallPlan, UndoUninstallStep, Loading
      <4> QED
        BY <2>4, <4>1, <4>2
    <3>2. platform = "linux" =>
            /\ "enable" \in Steps(todo)' <=> before.enabled
            /\ "start" \in Steps(todo)' <=> before.running
      <4>1. "enable" \in UndoUninstallStep /\ "start" \in UndoUninstallStep
            /\ "enable" \notin {"bootstrap", "register"}
            /\ "start" \notin {"bootstrap", "register"}
        BY DEF UndoUninstallStep
      <4> QED
        BY <1>0, <2>2, <2>4, <2>5, <2>7, <4>1 DEF UndoUninstallPlan, Manager
    <3>3. platform = "linux" => (manager.enabled => before.enabled)
                                /\ (manager.running => before.running)
      BY <1>0, <2>2 DEF RemovalInv
    <3> QED
      BY <2>1, <2>3, <3>1, <3>2, <3>3 DEF RemovalInv
  <2> QED
    BY <2>6, <2>7
<1>5. CASE InterruptUndo
  BY <1>5 DEF InterruptUndo, RemovalInv, Removal
<1>6. CASE EndOperation
  BY <1>6 DEF EndOperation, RemovalInv, Removal
<1>7. CASE Daemon \/ Administer \/ UNCHANGED vars
  <2>1. /\ platform' = platform /\ op' = op /\ todo' = todo /\ undoing' = undoing
        /\ original' = original /\ attempted' = attempted
        /\ before' = before /\ uncertain' = uncertain
    BY <1>7 DEF Daemon, Administer, vars, locals, history
  <2>2. op # "none" => manager' = manager
    BY <1>7 DEF Daemon, Administer, vars
  <2>3. Steps(todo)' = Steps(todo)
    BY <2>1
  <2>4. Removal' => Removal /\ op # "none"
    BY <2>1 DEF Removal, WasInstalled
  <2> QED
    BY <1>0, <2>1, <2>2, <2>3, <2>4 DEF RemovalInv
<1> QED
  BY <1>1, <1>2, <1>3, <1>4, <1>5, <1>6, <1>7 DEF Next

(* The invariant holds in every reachable state. *)
LEMMA Invariant == Spec => []Inv
<1>1. Inv /\ [Next]_vars => Inv'
  <2> SUFFICES ASSUME Inv, [Next]_vars PROVE Inv'
    OBVIOUS
  <2>1. TypeOK'
    BY TypeStep DEF Inv
  <2>2. TodoInv' /\ OldInv' /\ FileInv' /\ InstallInv' /\ RemovalInv'
    BY TodoStep, OldStep, FileInvStep, InstallInvStep, RemovalInvStep
  <2> QED
    BY <2>1, <2>2 DEF Inv
<1> QED
  BY InitInv, <1>1, PTL DEF Spec

-----------------------------------------------------------------------------
(* The theorems.                                                            *)

(* The controller's state has its types. *)
THEOREM TypeCorrect == Spec => []TypeOK
<1>1. Inv => TypeOK
  BY DEF Inv
<1> QED
  BY Invariant, <1>1, PTL

(* Wherever an installation or a removal failed, a rollback whose own steps *)
(* succeeded leaves the metadata and service files as they were read, a     *)
(* status file where there was one, and no empty log that was not there.    *)
THEOREM RollbackRestoresFiles == Spec => []FilesRestored
<1>1. Inv => FilesRestored
  <2>1. todo = <<>> => Steps(todo) = {}
    BY DEF Steps
  <2> QED
    BY <2>1 DEF Inv, FileInv, FilesRestored, RolledBack
<1> QED
  BY Invariant, <1>1, PTL

(* Such a rollback leaves the service manager with nothing of a first       *)
(* installation, and after a removal with what it had loaded and, on Linux, *)
(* enabled and running.                                                     *)
THEOREM RollbackRestoresManager == Spec => []ManagerRestored
<1>1. Inv => ManagerRestored
  <2> SUFFICES ASSUME Inv, RolledBack
               PROVE  /\ op = "install" /\ ~WasInstalled /\ before = NothingLoaded =>
                           manager = before
                      /\ op = "uninstall" /\ WasInstalled /\ before.loaded /= "none" =>
                           /\ manager.loaded = before.loaded
                           /\ platform = "linux" => manager = before
    BY DEF ManagerRestored
  <2>1. /\ TypeOK /\ OldInv /\ InstallInv /\ RemovalInv
        /\ undoing /\ todo = <<>> /\ ~ uncertain
        /\ manager \in Manager /\ before \in Manager
    BY DEF Inv, RolledBack, TypeOK
  <2>2. Steps(todo) = {}
    BY <2>1 DEF Steps
  <2>3. ASSUME op = "install", ~ WasInstalled, before = NothingLoaded
        PROVE  manager = before
    <3>1. manager.loaded = "none" /\ ~ manager.enabled /\ ~ manager.running
      BY <2>1, <2>2, <2>3 DEF InstallInv, FirstInstall
    <3>2. manager.enabled = FALSE /\ manager.running = FALSE
      BY <2>1, <3>1 DEF Manager
    <3>3. manager = NothingLoaded
      BY <2>1, <3>1, <3>2 DEF Manager, NothingLoaded
    <3> QED
      BY <2>3, <3>3
  <2>4. ASSUME op = "uninstall", WasInstalled, before.loaded # "none"
        PROVE  /\ manager.loaded = before.loaded
               /\ platform = "linux" => manager = before
    <3>1. Removal
      BY <2>1, <2>4 DEF Removal
    <3>2. manager.loaded = "old" /\ before.loaded = "old"
      BY <2>1, <2>2, <2>4, <3>1 DEF RemovalInv, OldInv
    <3>3. platform = "linux" => /\ manager.enabled <=> before.enabled
                                /\ manager.running <=> before.running
      BY <2>1, <2>2, <3>1 DEF RemovalInv
    <3>4. platform = "linux" => /\ manager.enabled = before.enabled
                                /\ manager.running = before.running
      BY <2>1, <3>3 DEF Manager
    <3> QED
      BY <2>1, <3>2, <3>4 DEF Manager
  <2> QED
    BY <2>3, <2>4
<1> QED
  BY Invariant, <1>1, PTL

=============================================================================
