---------------------- MODULE TerraformSessions_proofs ----------------------
(***************************************************************************)
(* Proofs about the commands that run Terraform, for any number of         *)
(* processes, faults and snapshots kept: types, the guard of the masters,  *)
(* the gate of the node operations, and the state file as a store that is  *)
(* backed up before an apply writes it (StateStore).                       *)
(***************************************************************************)
EXTENDS TerraformSessions, SequenceTheorems, TLAPS

-----------------------------------------------------------------------------
(* Where the steps of a command are *)

TargetedCmd == {"add", "add-resumed", "remove"}
Commanded == TargetedCmd \cup {"install", "destroy", "destroy-preview", "plan"}

StepCount(cmd) ==
    CASE cmd = "install" -> 15
      [] cmd \in TargetedCmd \cup {"destroy"} -> 8
      [] cmd = "destroy-preview" -> 4
      [] cmd = "plan" -> 3

\* The first step at which a state was copied, and the first one that reads it.
FirstSnapshot(cmd) == IF cmd \in TargetedCmd THEN 1 ELSE 2
FirstPlan(cmd) ==
    CASE cmd \in {"install", "destroy-preview"} -> 4
      [] cmd \in TargetedCmd -> 3
      [] cmd = "destroy" -> 5
      [] cmd = "plan" -> 2

LEMMA InstallProgram ==
    Program("install") =
        <<"defer-plans", "snapshot", "init", "plan", "apply", "return",
          "snapshot", "init", "apply-direct",
          "defer-plans", "snapshot", "init", "plan-bootstrap", "sentinel", "apply">>
<1> DEFINE S == {"defer-plans", "snapshot", "init", "plan", "apply", "return", "apply-direct",
                 "plan-bootstrap", "sentinel"}
           first == Provision \o StartWorkerVMs
           all == <<"defer-plans", "snapshot", "init", "plan", "apply", "return",
                    "snapshot", "init", "apply-direct",
                    "defer-plans", "snapshot", "init", "plan-bootstrap", "sentinel", "apply">>
<1>1. Program("install") = first \o CleanupBootstrap
  BY DEF Program
<1>2. /\ Provision \in Seq(S) /\ Len(Provision) = 6
      /\ StartWorkerVMs \in Seq(S) /\ Len(StartWorkerVMs) = 3
      /\ CleanupBootstrap \in Seq(S) /\ Len(CleanupBootstrap) = 6
  BY DEF Provision, StartWorkerVMs, CleanupBootstrap
<1>3. /\ first \in Seq(S) /\ Len(first) = 9
      /\ \A i \in 1..6 : first[i] = Provision[i]
      /\ \A i \in 7..9 : first[i] = StartWorkerVMs[i - 6]
  <2> HIDE DEF S
  <2>1. /\ first \in Seq(S) /\ Len(first) = Len(Provision) + Len(StartWorkerVMs)
        /\ \A i \in 1..Len(Provision) + Len(StartWorkerVMs) :
              first[i] = IF i <= Len(Provision) THEN Provision[i] ELSE StartWorkerVMs[i - Len(Provision)]
    BY <1>2, ConcatProperties, Zenon
  <2> HIDE DEF first
  <2> QED
    BY <1>2, <2>1
<1> HIDE DEF first
<1>4. /\ Program("install") \in Seq(S) /\ Len(Program("install")) = 15
      /\ \A i \in 1..9 : Program("install")[i] = first[i]
      /\ \A i \in 10..15 : Program("install")[i] = CleanupBootstrap[i - 9]
  <2> HIDE DEF S
  <2> DEFINE whole == first \o CleanupBootstrap
  <2>1. /\ whole \in Seq(S) /\ Len(whole) = Len(first) + Len(CleanupBootstrap)
        /\ \A i \in 1..Len(first) + Len(CleanupBootstrap) :
              whole[i] = IF i <= Len(first) THEN first[i] ELSE CleanupBootstrap[i - Len(first)]
    BY <1>2, <1>3, ConcatProperties, Zenon
  <2> HIDE DEF whole
  <2>2. Program("install") = whole
    BY <1>1 DEF whole
  <2> QED
    BY SMTT(30), <1>2, <1>3, <2>1, <2>2
<1>5. all \in Seq(S) /\ Len(all) = 15
  OBVIOUS
<1>6. \A i \in 1..15 : Program("install")[i] = all[i]
  BY <1>3, <1>4 DEF Provision, StartWorkerVMs, CleanupBootstrap
<1> QED
  BY <1>4, <1>5, <1>6, SeqEqual

LEMMA OtherPrograms ==
    /\ \A c \in TargetedCmd : Program(c) = TargetedApply
    /\ Program("destroy") = DestroyInfrastructure
    /\ Program("destroy-preview") = PreviewDestroy
    /\ Program("plan") = PlanPreview
BY DEF Program, TargetedCmd

LEMMA ProgramLength == \A cmd \in Commanded : Len(Program(cmd)) = StepCount(cmd)
<1>1. ASSUME NEW c \in TargetedCmd PROVE Len(Program(c)) = 8 /\ StepCount(c) = 8
  <2>1. Program(c) = TargetedApply
    BY OtherPrograms
  <2> QED
    BY <2>1 DEF TargetedCmd, TargetedApply, StepCount
<1>2. Len(Program("install")) = 15 /\ StepCount("install") = 15
  <2>1. StepCount("install") = 15
    BY DEF StepCount, TargetedCmd
  <2> QED
    BY <2>1, InstallProgram
<1>3. Len(Program("destroy")) = 8 /\ StepCount("destroy") = 8
  BY OtherPrograms DEF DestroyInfrastructure, TargetedCmd, StepCount
<1>4. Len(Program("destroy-preview")) = 4 /\ StepCount("destroy-preview") = 4
  BY OtherPrograms DEF PreviewDestroy, TargetedCmd, StepCount
<1>5. Len(Program("plan")) = 3 /\ StepCount("plan") = 3
  BY OtherPrograms DEF PlanPreview, TargetedCmd, StepCount
<1> QED
  BY <1>1, <1>2, <1>3, <1>4, <1>5 DEF Commanded

\* Where in a command a step can be.
Spot(c, i, name) ==
    /\ name = "snapshot" =>
          \/ c = "install" /\ i \in {2, 7, 11}
          \/ c \in TargetedCmd /\ i \in {1, 7}
          \/ c = "destroy" /\ i = 2
    /\ name = "defer-plans" => c = "install" /\ i \in {1, 10}
    /\ name = "return" => c = "install" /\ i = 6
    /\ name = "sentinel" => c = "install" /\ i = 14
    /\ name = "plan" => c = "install" /\ i = 4
    /\ name = "plan-bootstrap" => c = "install" /\ i = 13
    /\ name = "plan-target" => c \in TargetedCmd /\ i = 3
    /\ name = "plan-destroy" => c = "destroy" /\ i = 5
    /\ name = "plan-only" => c = "destroy-preview" /\ i = 4
    /\ name = "plan-preview" => c = "plan" /\ i = 2
    /\ name = "show" => (c \in TargetedCmd /\ i = 4) \/ (c = "plan" /\ i = 3)
    /\ name = "gate" => c \in TargetedCmd /\ i = 5
    /\ name = "inventory" => c \in TargetedCmd /\ i = 6
    /\ name = "apply" => (c = "install" /\ i \in {5, 15}) \/ (c \in TargetedCmd /\ i = 8)
    /\ name = "apply-direct" => c = "install" /\ i = 9
    /\ name = "apply-destroy" => c = "destroy" /\ i = 6
    /\ name = "state-status" => c = "destroy" /\ i = 1
    /\ name = "override" => (c = "destroy" /\ i = 4) \/ (c = "destroy-preview" /\ i = 3)
    /\ name = "refuse-override" => c = "destroy-preview" /\ i = 2
    /\ name = "cleanup-plans" => c = "destroy" /\ i = 7
    /\ name = "prune" => c = "destroy" /\ i = 8

LEMMA Spots == \A c \in Commanded : \A i \in 1..StepCount(c) : Spot(c, i, Program(c)[i])
<1>1. ASSUME NEW c \in TargetedCmd, NEW i \in 1..8 PROVE Spot(c, i, Program(c)[i])
  <2>1. /\ Program(c)[1] = "snapshot" /\ Program(c)[2] = "init"
        /\ Program(c)[3] = "plan-target" /\ Program(c)[4] = "show" /\ Program(c)[5] = "gate"
        /\ Program(c)[6] = "inventory" /\ Program(c)[7] = "snapshot"
        /\ Program(c)[8] = "apply"
    BY OtherPrograms DEF TargetedApply
  <2>2. /\ Spot(c, 1, "snapshot") /\ Spot(c, 2, "init") /\ Spot(c, 3, "plan-target")
        /\ Spot(c, 4, "show") /\ Spot(c, 5, "gate") /\ Spot(c, 6, "inventory")
        /\ Spot(c, 7, "snapshot") /\ Spot(c, 8, "apply")
    BY DEF Spot, TargetedCmd
  <2> QED
    BY <2>1, <2>2
<1>2. ASSUME NEW i \in 1..15 PROVE Spot("install", i, Program("install")[i])
  <2>1. /\ Program("install")[1] = "defer-plans" /\ Program("install")[2] = "snapshot"
        /\ Program("install")[3] = "init" /\ Program("install")[4] = "plan"
        /\ Program("install")[5] = "apply" /\ Program("install")[6] = "return"
        /\ Program("install")[7] = "snapshot" /\ Program("install")[8] = "init"
        /\ Program("install")[9] = "apply-direct" /\ Program("install")[10] = "defer-plans"
        /\ Program("install")[11] = "snapshot" /\ Program("install")[12] = "init"
        /\ Program("install")[13] = "plan-bootstrap" /\ Program("install")[14] = "sentinel"
        /\ Program("install")[15] = "apply"
    BY InstallProgram
  <2>2. /\ Spot("install", 1, "defer-plans") /\ Spot("install", 2, "snapshot")
        /\ Spot("install", 3, "init") /\ Spot("install", 4, "plan")
        /\ Spot("install", 5, "apply") /\ Spot("install", 6, "return")
        /\ Spot("install", 7, "snapshot") /\ Spot("install", 8, "init")
        /\ Spot("install", 9, "apply-direct") /\ Spot("install", 10, "defer-plans")
        /\ Spot("install", 11, "snapshot") /\ Spot("install", 12, "init")
        /\ Spot("install", 13, "plan-bootstrap") /\ Spot("install", 14, "sentinel")
        /\ Spot("install", 15, "apply")
    BY DEF Spot, TargetedCmd
  <2> QED
    BY <2>1, <2>2
<1>3. ASSUME NEW i \in 1..8 PROVE Spot("destroy", i, Program("destroy")[i])
  <2>1. /\ Program("destroy")[1] = "state-status" /\ Program("destroy")[2] = "snapshot"
        /\ Program("destroy")[3] = "init" /\ Program("destroy")[4] = "override"
        /\ Program("destroy")[5] = "plan-destroy" /\ Program("destroy")[6] = "apply-destroy"
        /\ Program("destroy")[7] = "cleanup-plans" /\ Program("destroy")[8] = "prune"
    BY OtherPrograms DEF DestroyInfrastructure
  <2>2. /\ Spot("destroy", 1, "state-status") /\ Spot("destroy", 2, "snapshot")
        /\ Spot("destroy", 3, "init") /\ Spot("destroy", 4, "override")
        /\ Spot("destroy", 5, "plan-destroy") /\ Spot("destroy", 6, "apply-destroy")
        /\ Spot("destroy", 7, "cleanup-plans") /\ Spot("destroy", 8, "prune")
    BY DEF Spot, TargetedCmd
  <2> QED
    BY <2>1, <2>2
<1>4. ASSUME NEW i \in 1..4 PROVE Spot("destroy-preview", i, Program("destroy-preview")[i])
  <2>1. /\ Program("destroy-preview")[1] = "init"
        /\ Program("destroy-preview")[2] = "refuse-override"
        /\ Program("destroy-preview")[3] = "override"
        /\ Program("destroy-preview")[4] = "plan-only"
    BY OtherPrograms DEF PreviewDestroy
  <2>2. /\ Spot("destroy-preview", 1, "init")
        /\ Spot("destroy-preview", 2, "refuse-override")
        /\ Spot("destroy-preview", 3, "override") /\ Spot("destroy-preview", 4, "plan-only")
    BY DEF Spot, TargetedCmd
  <2> QED
    BY <2>1, <2>2
<1>5. ASSUME NEW i \in 1..3 PROVE Spot("plan", i, Program("plan")[i])
  <2>1. /\ Program("plan")[1] = "init" /\ Program("plan")[2] = "plan-preview"
        /\ Program("plan")[3] = "show"
    BY OtherPrograms DEF PlanPreview
  <2>2. /\ Spot("plan", 1, "init") /\ Spot("plan", 2, "plan-preview")
        /\ Spot("plan", 3, "show")
    BY DEF Spot, TargetedCmd
  <2> QED
    BY <2>1, <2>2
<1> QED
  BY <1>1, <1>2, <1>3, <1>4, <1>5 DEF Commanded, TargetedCmd, StepCount

-----------------------------------------------------------------------------
(* The inductive invariant *)

ProcState ==
    [cmd : Commands \cup {"none"}, step : 0 .. 20, snapped : BOOLEAN,
     deferred : SUBSET (PlanFile \cup {"override"}), verdict : {"none", "already"}]
AnyPlan == [create : SUBSET VM, delete : SUBSET VM, of : Content \cup {Torn}]
AnyChild == [by : Procs \cup {"none", "orphan"}, create : SUBSET VM, delete : SUBSET VM]
AnyPipe == [by : Procs \cup {"none"}, size : Nat, written : Nat, read : Nat, listing : SUBSET VM]
Copy == (SUBSET VM) \cup {Torn}

TypedControl ==
    /\ lock \in Procs \cup {"none"} /\ proc \in [Procs -> ProcState]
    /\ plans \in [PlanFile -> AnyPlan] /\ override \in BOOLEAN

TypedData ==
    /\ tfstate \in Content \cup {Torn} /\ vms \in SUBSET VM /\ child \in AnyChild
    /\ sentinel \in BOOLEAN /\ faults \in 0 .. MaxFaults

TypedPipe == pipe \in AnyPipe /\ pipe.read <= pipe.written /\ pipe.written <= pipe.size

TypedCopies ==
    /\ snaps \in Seq(Copy) /\ Len(snaps) <= Retain
    /\ backed \in Content /\ tries \in 0 .. Retain

Typed == TypedControl /\ TypedData /\ TypedPipe /\ TypedCopies /\ overrun \in BOOLEAN

\* The process that runs holds the lock, is at a step of its command, and at one that
\* applies while it has a child.
Session ==
    /\ \A p \in Procs :
          /\ Running(p) <=> lock = p
          /\ Running(p) => proc[p].step \in 1 .. StepCount(proc[p].cmd)
    /\ child.by \in Procs => Running(child.by) /\ AtApply(child.by)

\* Past its gate a node operation has a plan of its one change on disk, and its child
\* does at most that.
Gated ==
    \A p \in Procs : proc[p].cmd \in TargetedCmd =>
        /\ proc[p].step \in {7, 8} => OnlyChange(p, plans["node-op.tfplan"])
        /\ child.by = p =>
              IF proc[p].cmd = "remove" THEN child.create = {} /\ child.delete \subseteq {"worker"}
              ELSE child.create \subseteq {"worker"} /\ child.delete = {}

\* A state that was read stays readable while its reader goes on, and while a child
\* writes it; only a process that copied a state may copy one in the same second.
Readable ==
    /\ \A p \in Procs : Running(p) =>
          /\ proc[p].step > FirstPlan(proc[p].cmd) => tfstate # Torn
          /\ proc[p].step <= FirstSnapshot(proc[p].cmd) => ~proc[p].snapped
    /\ child # NoChild => tfstate # Torn

\* The newest copies are the tries at a torn state, and before them is the content
\* backed up last.
Stored ==
    /\ \A i \in 1 .. Len(snaps) : i > Len(snaps) - tries => snaps[i] = Torn
    /\ backed # Missing /\ tries < Retain =>
          tries < Len(snaps) /\ snaps[Len(snaps) - tries] = backed
    /\ tfstate # Torn => tries < Retain

\* The steps of a command at which it has copied the state it is to write: up to its
\* apply, which writes it.
CopiedAt(cmd, i) ==
    \/ cmd = "install" /\ i \in {3, 4, 5, 8, 9, 12, 13, 14, 15}
    \/ cmd \in TargetedCmd /\ i = 8
    \/ cmd = "destroy" /\ i \in {3, 4, 5, 6}

\* The content of a readable state, unless written without a parent, is what was copied.
Matched == tfstate \in {backed, Torn} \/ overrun

Copied ==
    \A p \in Procs : Running(p) /\ child.by # p /\ CopiedAt(proc[p].cmd, proc[p].step) => Matched

Parented == child.by = "none" => child = NoChild

IInv == Typed /\ Session /\ GuardHolds /\ Gated /\ Readable /\ Stored /\ Copied /\ Parented

-----------------------------------------------------------------------------
(* How a process goes on, and how it ends *)

LEMMA Kinds ==
    /\ Torn \notin Content /\ Missing \in Content /\ Missing \notin Copy /\ Torn \in Copy
    /\ "none" \notin Procs /\ "orphan" \notin Procs /\ Commands \subseteq Commanded
    /\ "none" \notin Commanded /\ Retain \in Nat \ {0}
<1>1. "torn" \notin VM /\ "missing" \notin VM /\ "torn" # "missing"
  BY DEF VM
<1>2. Torn \notin SUBSET VM /\ Missing \notin SUBSET VM /\ Torn # Missing
  BY <1>1 DEF Torn, Missing
<1>3. /\ "none" \notin Procs /\ "orphan" \notin Procs /\ Commands \subseteq Commanded
      /\ "none" \notin Commanded /\ Retain \in Nat \ {0}
  BY DriverAssumption, CommandsAssumption DEF Commanded, TargetedCmd
<1> QED
  BY <1>2, <1>3 DEF Content, Copy

\* The others stay as they are.
Alone(p) ==
    /\ proc' \in [Procs -> ProcState] /\ plans' \in [PlanFile -> AnyPlan]
    /\ \A q \in Procs \ {p} : proc'[q] = proc[q]
    /\ override' \in BOOLEAN

Ended(p) == Alone(p) /\ ~Running(p)' /\ lock' = "none" /\ (override' => override)

WentOn(p, i) ==
    /\ Alone(p) /\ Running(p)' /\ lock' = lock
    /\ proc'[p].cmd = proc[p].cmd /\ proc'[p].step = i /\ i <= StepCount(proc[p].cmd)

Stayed == UNCHANGED <<lock, proc, plans>>

LEMMA Places ==
    ASSUME Typed, Session, NEW p \in Procs, Running(p)
    PROVE  /\ proc[p] \in ProcState /\ proc[p].cmd \in Commanded \cap Commands /\ lock = p
           /\ proc[p].step \in 1 .. StepCount(proc[p].cmd) /\ StepCount(proc[p].cmd) \in {3, 4, 8, 15}
           /\ StepCount(proc[p].cmd) = Len(Program(proc[p].cmd))
           /\ \A name : At(p, name) => Spot(proc[p].cmd, proc[p].step, name)
           /\ \A q \in Procs \ {p} : ~Running(q) /\ child.by # q
<1>1. /\ proc[p] \in ProcState /\ proc[p].cmd \in Commanded \cap Commands /\ lock = p
      /\ proc[p].step \in 1 .. StepCount(proc[p].cmd)
  BY Kinds DEF Typed, TypedControl, Session, ProcState, Running
<1>2. StepCount(proc[p].cmd) \in {3, 4, 8, 15}
  BY <1>1 DEF StepCount, Commanded
<1>3. \A name : At(p, name) => Spot(proc[p].cmd, proc[p].step, name)
  BY <1>1, Spots DEF At
<1>4. \A q \in Procs \ {p} : ~Running(q) /\ child.by # q
  BY <1>1 DEF Session
<1> QED
  BY <1>1, <1>2, <1>3, <1>4, ProgramLength

LEMMA Ends ==
    ASSUME Typed, Session, NEW p \in Procs, Running(p), NEW v \in {"none", "already"}, End(p, v)
    PROVE  Ended(p)
<1>1. lock = p
  BY DEF Session
<1>2. proc' \in [Procs -> ProcState] /\ proc'[p].cmd = "none"
  <2>1. [NotRunning EXCEPT !.verdict = v] \in ProcState /\ [NotRunning EXCEPT !.verdict = v].cmd = "none"
    <3>1. NotRunning \in ProcState
      BY DEF NotRunning, ProcState
    <3>2. \A r \in ProcState : [r EXCEPT !.verdict = v] \in ProcState /\ [r EXCEPT !.verdict = v].cmd = r.cmd
      BY DEF ProcState
    <3> QED
      BY <3>1, <3>2 DEF NotRunning
  <2> QED
    BY <2>1 DEF End, Typed, TypedControl
<1>3. plans' \in [PlanFile -> AnyPlan]
  BY DEF End, Typed, TypedControl, NoPlan, AnyPlan
<1> QED
  BY <1>1, <1>2, <1>3 DEF End, Ended, Alone, Running, Typed, TypedControl

\* A record of p with which it may go on.
Continues(p, r) == r \in ProcState /\ r.cmd = proc[p].cmd /\ r.step = proc[p].step

LEMMA Proceeds ==
    ASSUME Typed, Session, NEW p \in Procs, Running(p), NEW r, Continues(p, r), Proceed(p, r)
    PROVE  \/ Ended(p)
           \/ /\ WentOn(p, proc[p].step + 1) /\ proc'[p].snapped = r.snapped
              /\ UNCHANGED <<plans, override>>
<1>1. CASE proc[p].step < StepCount(proc[p].cmd)
  <2>1. proc' = [proc EXCEPT ![p] = [r EXCEPT !.step = proc[p].step + 1]] /\ UNCHANGED <<lock, plans, override>>
    BY <1>1, Places DEF Proceed, Continues
  <2>2. [r EXCEPT !.step = proc[p].step + 1] \in ProcState
    <3>1. r \in ProcState
      BY DEF Continues
    <3>2. proc[p].step + 1 \in 0 .. 20
      <4>1. proc[p].step \in 1 .. StepCount(proc[p].cmd) /\ StepCount(proc[p].cmd) \in {3, 4, 8, 15}
        BY Places
      <4> QED
        BY <1>1, <4>1
    <3> QED
      BY <3>1, <3>2 DEF ProcState
  <2> QED
    BY <1>1, <2>1, <2>2, Places DEF WentOn, Alone, Running, Continues, Typed, TypedControl
<1>2. CASE ~(proc[p].step < StepCount(proc[p].cmd))
  BY <1>2, Places, Ends DEF Proceed, Continues
<1> QED
  BY <1>1, <1>2

LEMMA Advances ==
    ASSUME Typed, Session, NEW p \in Procs, Running(p), NEW i \in 1 .. StepCount(proc[p].cmd),
           NEW r \in ProcState, r.cmd = proc[p].cmd, r.step = i,
           proc' = [proc EXCEPT ![p] = r], lock' = lock,
           plans' \in [PlanFile -> AnyPlan], override' \in BOOLEAN
    PROVE  WentOn(p, i) /\ proc'[p] = r
<1>1. proc \in [Procs -> ProcState]
  BY DEF Typed, TypedControl
<1>2. i <= StepCount(proc[p].cmd)
  BY Places
<1>3. proc' \in [Procs -> ProcState] /\ proc'[p] = r /\ \A q \in Procs \ {p} : proc'[q] = proc[q]
  BY <1>1
<1> QED
  BY <1>2, <1>3 DEF WentOn, Alone, Running

\* What must hold where p goes on.
Onward(p, i) ==
    /\ proc[p].cmd \in TargetedCmd /\ i \in {7, 8} => OnlyChange(p, plans["node-op.tfplan"])'
    /\ i > FirstPlan(proc[p].cmd) => tfstate' # Torn
    /\ i <= FirstSnapshot(proc[p].cmd) => ~proc'[p].snapped
    /\ CopiedAt(proc[p].cmd, i) => Matched'

\* A step that ends p, or after which it goes on with no child of its own.
Turn(p) ==
    /\ Running(p) /\ child'.by \notin Procs /\ (child' # NoChild => tfstate' # Torn)
    /\ Ended(p) \/ \E i \in 1 .. StepCount(proc[p].cmd) : WentOn(p, i) /\ Onward(p, i)

\* A step of no process, or one that starts its child.
Stay ==
    /\ UNCHANGED <<lock, proc, plans>> /\ override' \in {override, FALSE}
    /\ \A p \in Procs : child.by = p => child'.by = p
    /\ \/ UNCHANGED <<tfstate, backed, overrun>>
       \/ overrun'
       \/ \A p \in Procs : Running(p) => child'.by = p
    /\ (tfstate # Torn => tfstate' # Torn) /\ (child' # NoChild => tfstate' # Torn)
    /\ \A p \in Procs : child'.by = p =>
          \/ /\ child.by = p
             /\ child'.create \subseteq child.create /\ child'.delete \subseteq child.delete
          \/ /\ Running(p) /\ AtApply(p)
             /\ Destroying(proc[p].cmd) \/ ~override'
             /\ proc[p].cmd \in TargetedCmd =>
                   /\ proc[p].step = 8 /\ child'.create = plans["node-op.tfplan"].create
                   /\ child'.delete = plans["node-op.tfplan"].delete

LEMMA TurnKeeps ==
    ASSUME IInv, NEW p \in Procs, Turn(p)
    PROVE  Session' /\ GuardHolds' /\ Gated' /\ Readable' /\ Copied'
<1>1. /\ Typed /\ Session /\ Running(p) /\ lock = p
      /\ \A q \in Procs \ {p} : ~Running(q) /\ child.by # q
      /\ proc[p].cmd \in Commanded /\ "none" \notin Procs
  BY Places, Kinds DEF IInv, Turn
<1>2. Session' /\ GuardHolds'
  <2>1. CASE Ended(p)
    BY <1>1, <2>1 DEF Turn, Ended, Alone, Session, GuardHolds, Running
  <2>2. ASSUME NEW i \in 1 .. StepCount(proc[p].cmd), WentOn(p, i) PROVE Session' /\ GuardHolds'
    BY <1>1, <2>2 DEF Turn, WentOn, Alone, Session, GuardHolds, Running
  <2> QED
    BY <2>1, <2>2 DEF Turn
<1>3. \A q \in Procs \ {p} : proc'[q].cmd = "none"
  BY <1>1 DEF Turn, Ended, WentOn, Alone, Running
<1>4. "none" \notin TargetedCmd
  BY DEF TargetedCmd
<1>5. Gated' /\ Readable' /\ Copied'
  <2>1. CASE Ended(p)
    BY <1>3, <1>4, <2>1 DEF Turn, Ended, Gated, Readable, Copied, Running
  <2>2. ASSUME NEW i \in 1 .. StepCount(proc[p].cmd), WentOn(p, i), Onward(p, i)
        PROVE  Gated' /\ Readable' /\ Copied'
    <3>1. proc'[p].cmd = proc[p].cmd /\ proc'[p].step = i /\ child'.by # p
      BY <2>2 DEF WentOn, Turn
    <3>2. proc[p].cmd \in TargetedCmd /\ i \in {7, 8} => OnlyChange(p, plans["node-op.tfplan"])'
      BY <2>2 DEF Onward
    <3>3. Gated'
      BY <1>3, <1>4, <3>1, <3>2 DEF Gated
    <3>4. Readable'
      BY <1>3, <2>2, <3>1 DEF Readable, Onward, Running, Turn
    <3>5. Copied'
      BY <1>3, <2>2, <3>1 DEF Copied, Onward, Running
    <3> QED
      BY <3>3, <3>4, <3>5
  <2> QED
    BY <2>1, <2>2 DEF Turn
<1> QED
  BY <1>2, <1>5

LEMMA StayKeeps ==
    ASSUME IInv, Stay
    PROVE  Session' /\ GuardHolds' /\ Gated' /\ Readable' /\ Copied'
<1>1. proc' = proc /\ lock' = lock /\ plans' = plans
  BY DEF Stay
<1>2. Session'
  BY <1>1 DEF Stay, IInv, Session, Running, AtApply, At
<1>3. GuardHolds'
  BY <1>1 DEF Stay, IInv, GuardHolds
<1>4. Gated'
  <2> SUFFICES ASSUME NEW p \in Procs, proc[p].cmd \in TargetedCmd
               PROVE  /\ proc[p].step \in {7, 8} => OnlyChange(p, plans["node-op.tfplan"])'
                      /\ child'.by = p =>
                            IF proc[p].cmd = "remove"
                            THEN child'.create = {} /\ child'.delete \subseteq {"worker"}
                            ELSE child'.create \subseteq {"worker"} /\ child'.delete = {}
    BY <1>1 DEF Gated
  <2>1. proc[p].step \in {7, 8} => OnlyChange(p, plans["node-op.tfplan"])
    BY DEF IInv, Gated
  <2>2. proc[p].step \in {7, 8} => OnlyChange(p, plans["node-op.tfplan"])'
    BY <1>1, <2>1 DEF OnlyChange
  <2>3. CASE child'.by = p /\ child.by = p /\ child'.create \subseteq child.create
             /\ child'.delete \subseteq child.delete
    BY <2>2, <2>3 DEF IInv, Gated
  <2>4. CASE /\ proc[p].step = 8 /\ child'.create = plans["node-op.tfplan"].create
             /\ child'.delete = plans["node-op.tfplan"].delete
    BY <2>1, <2>2, <2>4 DEF OnlyChange
  <2> QED
    BY <2>2, <2>3, <2>4 DEF Stay
<1>5. Readable'
  BY <1>1 DEF Stay, IInv, Readable, Running
<1>6. Copied'
  BY <1>1 DEF Stay, IInv, Copied, Matched, Running
<1> QED
  BY <1>2, <1>3, <1>4, <1>5, <1>6

LEMMA Lines ==
    ASSUME IInv, NEW p \in Procs, Running(p)
    PROVE  /\ Typed /\ Session /\ proc[p] \in ProcState /\ proc[p].cmd \in Commanded
           /\ proc[p].step \in Nat /\ StepCount(proc[p].cmd) \in Nat
           /\ proc[p].step >= 1 /\ proc[p].step <= StepCount(proc[p].cmd)
           /\ FirstPlan(proc[p].cmd) \in 2 .. 5 /\ FirstSnapshot(proc[p].cmd) \in {1, 2}
           /\ proc \in [Procs -> ProcState] /\ plans \in [PlanFile -> AnyPlan]
           /\ override \in BOOLEAN /\ Continues(p, proc[p])
<1>1. /\ Typed /\ Session /\ proc[p] \in ProcState /\ proc[p].cmd \in Commanded
      /\ proc[p].step \in 1 .. StepCount(proc[p].cmd) /\ StepCount(proc[p].cmd) \in {3, 4, 8, 15}
  BY Places DEF IInv
<1>2. FirstPlan(proc[p].cmd) \in 2 .. 5 /\ FirstSnapshot(proc[p].cmd) \in {1, 2}
  <2>1. /\ FirstPlan("install") = 4 /\ FirstPlan("destroy-preview") = 4
        /\ FirstPlan("destroy") = 5 /\ FirstPlan("plan") = 2
        /\ \A c \in TargetedCmd : FirstPlan(c) = 3
    BY DEF FirstPlan, TargetedCmd
  <2> QED
    BY <1>1, <2>1 DEF Commanded, FirstSnapshot
<1> QED
  BY <1>1, <1>2 DEF Typed, TypedControl, Continues

\* What a step does to the backup, where the state file stays as it is.
Saved(p) == IF At(p, "snapshot") THEN Matched' ELSE UNCHANGED <<tfstate, backed, overrun>>

LEMMA SavedAhead ==
    ASSUME IInv, NEW p \in Procs, Running(p), Saved(p), CopiedAt(proc[p].cmd, proc[p].step + 1)
    PROVE  Matched'
<1>1. CASE At(p, "snapshot")
  BY <1>1 DEF Saved
<1>2. CASE ~At(p, "snapshot")
  <2> DEFINE c == proc[p].cmd
             i == proc[p].step
  <2>1. c \in Commanded /\ i \in 1 .. StepCount(c) /\ Spot(c, i, Program(c)[i])
    BY Places, Spots DEF IInv
  <2>2. Program(c)[i] # "snapshot"
    BY <1>2 DEF At
  <2>3. CopiedAt(c, i) /\ Program(c)[i] \notin ApplySteps
    <3>1. CASE c = "install"
      <4>1. i \in {2, 3, 4, 7, 8, 11, 12, 13, 14}
        BY <2>1, <3>1 DEF CopiedAt, TargetedCmd, StepCount
      <4>2. /\ Program("install")[2] = "snapshot" /\ Program("install")[7] = "snapshot"
            /\ Program("install")[11] = "snapshot" /\ Program("install")[3] = "init"
            /\ Program("install")[4] = "plan" /\ Program("install")[8] = "init"
            /\ Program("install")[12] = "init" /\ Program("install")[13] = "plan-bootstrap"
            /\ Program("install")[14] = "sentinel"
        BY InstallProgram
      <4> QED
        BY <2>2, <3>1, <4>1, <4>2 DEF CopiedAt, ApplySteps
    <3>2. CASE c \in TargetedCmd
      <4>1. i = 7
        BY <2>1, <3>2 DEF CopiedAt, TargetedCmd, StepCount
      <4>2. Program(c)[7] = "snapshot"
        BY <3>2, OtherPrograms DEF TargetedApply
      <4> QED
        BY <2>2, <4>1, <4>2
    <3>3. CASE c = "destroy"
      <4>1. i \in {2, 3, 4, 5}
        BY <2>1, <3>3 DEF CopiedAt, TargetedCmd, StepCount
      <4>2. /\ Program("destroy")[2] = "snapshot" /\ Program("destroy")[3] = "init"
            /\ Program("destroy")[4] = "override" /\ Program("destroy")[5] = "plan-destroy"
        BY OtherPrograms DEF DestroyInfrastructure
      <4> QED
        BY <2>2, <3>3, <4>1, <4>2 DEF CopiedAt, ApplySteps
    <3> QED
      BY <3>1, <3>2, <3>3 DEF CopiedAt
  <2>4. child.by # p
    <3>1. ~AtApply(p)
      BY <2>3 DEF AtApply, At
    <3> QED
      BY <3>1 DEF IInv, Session
  <2>5. Matched
    BY <2>3, <2>4 DEF IInv, Copied
  <2> QED
    BY <1>2, <2>5 DEF Saved, Matched
<1> QED
  BY <1>1, <1>2

LEMMA NextInLine ==
    ASSUME IInv, NEW p \in Procs, Running(p), WentOn(p, proc[p].step + 1),
           tfstate' = tfstate, proc[p].step = FirstPlan(proc[p].cmd) => tfstate # Torn,
           proc'[p].snapped = proc[p].snapped \/ proc[p].step >= FirstSnapshot(proc[p].cmd),
           proc[p].cmd \in TargetedCmd =>
               /\ proc[p].step # 6
               /\ proc[p].step = 7 => plans'["node-op.tfplan"] = plans["node-op.tfplan"],
           Saved(p)
    PROVE  Onward(p, proc[p].step + 1)
<1>1. proc[p].cmd \in TargetedCmd /\ proc[p].step + 1 \in {7, 8} => OnlyChange(p, plans["node-op.tfplan"])'
  <2> SUFFICES ASSUME proc[p].cmd \in TargetedCmd, proc[p].step = 7
               PROVE  OnlyChange(p, plans["node-op.tfplan"])'
    BY Lines
  <2>1. OnlyChange(p, plans["node-op.tfplan"])
    BY DEF IInv, Gated
  <2> QED
    BY <2>1 DEF OnlyChange, WentOn
<1>2. proc[p].step + 1 > FirstPlan(proc[p].cmd) => tfstate' # Torn
  BY Lines DEF IInv, Readable
<1>3. proc[p].step + 1 <= FirstSnapshot(proc[p].cmd) => ~proc'[p].snapped
  BY Lines DEF IInv, Readable
<1>4. CopiedAt(proc[p].cmd, proc[p].step + 1) => Matched'
  BY SavedAhead
<1> QED
  BY <1>1, <1>2, <1>3, <1>4 DEF Onward

\* What a step does to p's child, when it leaves p without one.
Childless ==
    /\ child'.by \notin Procs /\ child' \in {child, NoChild} /\ tfstate' = tfstate

LEMMA Forward ==
    ASSUME IInv, NEW p \in Procs, Running(p), Childless, NEW r, Continues(p, r), Proceed(p, r),
           proc[p].step = FirstPlan(proc[p].cmd) => tfstate # Torn,
           r.snapped = proc[p].snapped \/ proc[p].step >= FirstSnapshot(proc[p].cmd),
           proc[p].cmd \in TargetedCmd => proc[p].step # 6, Saved(p)
    PROVE  Turn(p)
<1>1. child' # NoChild => tfstate' # Torn
  BY DEF Childless, IInv, Readable
<1>2. CASE Ended(p)
  BY <1>1, <1>2 DEF Turn, Childless
<1>3. CASE /\ WentOn(p, proc[p].step + 1) /\ proc'[p].snapped = r.snapped
           /\ UNCHANGED <<plans, override>>
  <2>1. Onward(p, proc[p].step + 1)
    BY <1>3, NextInLine DEF Childless
  <2>2. proc[p].step + 1 \in 1 .. StepCount(proc[p].cmd)
    BY <1>3, Lines DEF WentOn
  <2> QED
    BY <1>1, <1>3, <2>1, <2>2 DEF Turn, Childless
<1> QED
  BY <1>2, <1>3, Proceeds, Lines

LEMMA Finish ==
    ASSUME IInv, NEW p \in Procs, Running(p), Childless, NEW v \in {"none", "already"}, End(p, v)
    PROVE  Turn(p)
<1>1. child' # NoChild => tfstate' # Torn
  BY DEF Childless, IInv, Readable
<1> QED
  BY <1>1, Ends, Lines DEF Turn, Childless

LEMMA StepsTo ==
    ASSUME IInv, NEW p \in Procs, Running(p), Childless, NEW r \in ProcState,
           r.cmd = proc[p].cmd, r.step = proc[p].step + 1, r.snapped = proc[p].snapped,
           proc' = [proc EXCEPT ![p] = r], lock' = lock,
           plans' \in [PlanFile -> AnyPlan], override' \in BOOLEAN,
           proc[p].step < StepCount(proc[p].cmd),
           proc[p].step = FirstPlan(proc[p].cmd) => tfstate # Torn,
           proc[p].cmd \in TargetedCmd => proc[p].step \notin {6, 7}, Saved(p)
    PROVE  Turn(p)
<1>1. child' # NoChild => tfstate' # Torn
  BY DEF Childless, IInv, Readable
<1>2. proc[p].step + 1 \in 1 .. StepCount(proc[p].cmd)
  BY Lines
<1>3. WentOn(p, proc[p].step + 1) /\ proc'[p] = r
  BY <1>2, Lines, Advances
<1>4. Onward(p, proc[p].step + 1)
  BY <1>3, NextInLine DEF Childless
<1> QED
  BY <1>1, <1>2, <1>3, <1>4 DEF Turn, Childless


LEMMA Unattended ==
    ASSUME IInv, NEW p \in Procs, Running(p), ~AtApply(p) \/ child.by # p
    PROVE  child.by \notin Procs
BY Places DEF IInv, Session

LEMMA Where ==
    ASSUME IInv, NEW p \in Procs, Running(p), NEW name, At(p, name)
    PROVE  /\ Spot(proc[p].cmd, proc[p].step, name)
           /\ name \notin ApplySteps => child.by \notin Procs
<1>1. Spot(proc[p].cmd, proc[p].step, name)
  BY Places DEF IInv
<1>2. name \notin ApplySteps => ~AtApply(p)
  BY DEF AtApply, At
<1> QED
  BY <1>1, <1>2, Unattended

LEMMA NoOneAttended == NoChild.by \notin Procs
BY Kinds DEF NoChild

\* Every step of a command is its turn, but one that starts a listing or an apply.
LEMMA SnapshotTurn == ASSUME IInv, NEW p \in Procs, SnapshotState(p) PROVE Turn(p)
<1> DEFINE r == [proc[p] EXCEPT !.snapped = tfstate # Missing]
<1>1. Running(p) /\ At(p, "snapshot") /\ Proceed(p, r)
  BY DEF SnapshotState, At
<1>2. proc[p] \in ProcState
  BY <1>1, Lines
<1>3. Continues(p, r)
  <2>1. r \in ProcState /\ r.cmd = proc[p].cmd /\ r.step = proc[p].step
    BY <1>2 DEF ProcState
  <2> QED
    BY <2>1 DEF Continues
<1>4. Spot(proc[p].cmd, proc[p].step, "snapshot") /\ child.by \notin Procs
  BY <1>1, Where DEF ApplySteps
<1>5. Childless
  BY <1>4 DEF SnapshotState, Childless
<1>6. /\ proc[p].step >= FirstSnapshot(proc[p].cmd) /\ proc[p].step # FirstPlan(proc[p].cmd)
      /\ proc[p].step # 6
  BY <1>4 DEF Spot, FirstSnapshot, FirstPlan, TargetedCmd
<1>7. Saved(p)
  BY <1>1 DEF SnapshotState, Saved, Matched
<1> QED
  <2> HIDE DEF r
  <2> QED
    BY <1>1, <1>3, <1>5, <1>6, <1>7, Forward

LEMMA PruneTurn == ASSUME IInv, NEW p \in Procs, PruneExceptNewest(p) PROVE Turn(p)
<1>1. Running(p) /\ At(p, "prune") /\ Proceed(p, proc[p])
  BY DEF PruneExceptNewest, At
<1>2. Spot(proc[p].cmd, proc[p].step, "prune") /\ child.by \notin Procs
  BY <1>1, Where DEF ApplySteps
<1>3. ~(proc[p].step < Len(Program(proc[p].cmd)))
  <2>1. proc[p].cmd = "destroy" /\ proc[p].step = 8 /\ Len(Program("destroy")) = 8
    BY <1>2, OtherPrograms DEF Spot, DestroyInfrastructure
  <2>2. Len(Program(proc[p].cmd)) = proc[p].step
    BY <2>1, Zenon
  <2> QED
    BY <1>1, <2>2, Lines
<1>4. End(p, "none")
  BY <1>1, <1>3 DEF Proceed
<1>5. child' # NoChild => tfstate' # Torn
  BY Kinds DEF PruneExceptNewest, IInv, Readable
<1> QED
  BY <1>1, <1>2, <1>4, <1>5, Ends, Lines DEF Turn, PruneExceptNewest

LEMMA PlainTurns ==
    ASSUME IInv, NEW p \in Procs,
           DeferPlans(p) \/ InitDriver(p) \/ Sentinel(p) \/ RefuseOverride(p)
    PROVE  Turn(p)
<1>1. /\ Running(p) /\ child' = child /\ tfstate' = tfstate
      /\ At(p, "defer-plans") \/ At(p, "init") \/ At(p, "sentinel") \/ At(p, "refuse-override")
      /\ Saved(p)
  BY DEF DeferPlans, InitDriver, Sentinel, RefuseOverride, At, Saved
<1>2. child.by \notin Procs
  BY <1>1, Where DEF ApplySteps
<1>3. Childless
  BY <1>1, <1>2 DEF Childless
<1>4. proc[p].step # FirstPlan(proc[p].cmd) /\ (proc[p].cmd \in TargetedCmd => proc[p].step # 6)
  <2>1. ASSUME NEW c \in Commanded, NEW i \in 1 .. StepCount(c),
               i = FirstPlan(c) \/ (c \in TargetedCmd /\ i = 6)
        PROVE  Program(c)[i] \notin {"defer-plans", "init", "sentinel", "refuse-override"}
    <3>1. CASE c \in TargetedCmd
      <4>1. Program(c) = TargetedApply /\ FirstPlan(c) = 3
        BY <3>1, OtherPrograms DEF FirstPlan, TargetedCmd
      <4> QED
        BY <2>1, <4>1 DEF TargetedApply
    <3>2. CASE c = "install"
      <4>1. Program(c)[4] = "plan" /\ i = 4
        BY <2>1, <3>2, InstallProgram DEF FirstPlan, TargetedCmd
      <4> QED
        BY <4>1
    <3>3. CASE c = "destroy"
      BY <2>1, <3>3, OtherPrograms DEF FirstPlan, TargetedCmd, DestroyInfrastructure
    <3>4. CASE c = "destroy-preview"
      BY <2>1, <3>4, OtherPrograms DEF FirstPlan, TargetedCmd, PreviewDestroy
    <3>5. CASE c = "plan"
      BY <2>1, <3>5, OtherPrograms DEF FirstPlan, TargetedCmd, PlanPreview
    <3> QED
      BY <3>1, <3>2, <3>3, <3>4, <3>5 DEF Commanded
  <2>2. proc[p].step \in 1 .. StepCount(proc[p].cmd)
    BY <1>1, Lines
  <2> QED
    BY <1>1, <2>1, <2>2, Lines DEF At
<1>5. ASSUME NEW d \in SUBSET (PlanFile \cup {"override"}), Proceed(p, Defers(p, d))
      PROVE  Turn(p)
  <2> DEFINE r == Defers(p, d)
  <2>1. r \in ProcState /\ r.cmd = proc[p].cmd /\ r.step = proc[p].step /\ r.snapped = proc[p].snapped
    <3>1. proc[p] \in ProcState
      BY <1>1, Lines
    <3>2. ASSUME NEW q \in ProcState
          PROVE  LET s == [q EXCEPT !.deferred = @ \cup d]
                 IN  s \in ProcState /\ s.cmd = q.cmd /\ s.step = q.step /\ s.snapped = q.snapped
      <4>1. q.deferred \cup d \in SUBSET (PlanFile \cup {"override"})
        BY DEF ProcState
      <4> QED
        BY <4>1 DEF ProcState
    <3> QED
      BY <3>1, <3>2 DEF Defers
  <2>2. Continues(p, r)
    BY <2>1 DEF Continues
  <2> HIDE DEF r
  <2> QED
    BY <1>1, <1>3, <1>4, <1>5, <2>1, <2>2, Forward DEF r
<1>6. FileOf(p) \in PlanFile
  BY DEF FileOf, PlanFile
<1>7. CASE DeferPlans(p)
  <2>1. Proceed(p, Defers(p, IF FileOf(p) = "tfplan" THEN {"tfplan", "destroy.tfplan"} ELSE {FileOf(p)}))
    BY <1>7 DEF DeferPlans
  <2>2. (IF FileOf(p) = "tfplan" THEN {"tfplan", "destroy.tfplan"} ELSE {FileOf(p)})
           \in SUBSET (PlanFile \cup {"override"})
    BY <1>6 DEF PlanFile
  <2> QED
    BY <1>3, <1>5, <2>1, <2>2
<1>8. CASE Proceed(p, proc[p])
  BY <1>1, <1>3, <1>4, <1>8, Forward, Lines
<1>9. CASE InitDriver(p)
  BY <1>5, <1>6, <1>8, <1>9 DEF InitDriver
<1>10. CASE Sentinel(p)
  BY <1>8, <1>10 DEF Sentinel
<1>11. CASE RefuseOverride(p)
  BY <1>1, <1>3, <1>8, <1>11, Finish DEF RefuseOverride
<1> QED
  BY <1>7, <1>9, <1>10, <1>11


\* What a step may make of p's record.
LEMMA Records ==
    ASSUME NEW q \in ProcState, NEW d \in SUBSET (PlanFile \cup {"override"}), NEW i \in 0 .. 20
    PROVE  /\ [q EXCEPT !.step = i] \in ProcState
           /\ [q EXCEPT !.step = i, !.deferred = {}] \in ProcState
           /\ [q EXCEPT !.deferred = @ \cup d] \in ProcState
           /\ [[q EXCEPT !.deferred = @ \cup d] EXCEPT !.step = i] \in ProcState
<1>1. q.deferred \cup d \in SUBSET (PlanFile \cup {"override"})
  BY DEF ProcState
<1>2. [q EXCEPT !.deferred = @ \cup d] \in ProcState
  BY <1>1 DEF ProcState
<1>3. \A r \in ProcState : [r EXCEPT !.step = i] \in ProcState
  BY DEF ProcState
<1>4. [q EXCEPT !.step = i, !.deferred = {}] \in ProcState
  BY DEF ProcState
<1> QED
  BY <1>2, <1>3, <1>4

LEMMA NextStep ==
    ASSUME IInv, NEW p \in Procs, Running(p), proc[p].step < StepCount(proc[p].cmd)
    PROVE  proc[p].step + 1 \in 0 .. 20
<1>1. StepCount(proc[p].cmd) \in {3, 4, 8, 15}
  BY Places DEF IInv
<1> QED
  BY <1>1, Lines

LEMMA PlannedType ==
    ASSUME IInv, NEW p \in Procs, NEW drift \in {{}, {"master"}}, AtPlan(p), CanPlan(p)
    PROVE  Planned(p, drift) \in AnyPlan /\ [NoPlan EXCEPT !.of = tfstate] \in AnyPlan
<1> DEFINE have == Managed(tfstate)
           name == Program(proc[p].cmd)[proc[p].step]
<1>1. tfstate \in Content
  BY DEF CanPlan, IInv, Typed, TypedData
<1>2. have \in SUBSET VM /\ Wanted \in SUBSET VM /\ drift \in SUBSET VM
  BY <1>1 DEF Managed, Content, Missing, Wanted, VM
<1>3. \A c \in SUBSET VM, d \in SUBSET VM : [create |-> c, delete |-> d, of |-> tfstate] \in AnyPlan
  BY <1>1 DEF AnyPlan
<1>4. name \in PlanSteps
  BY DEF AtPlan, At
<1> HIDE DEF have, name
<1>5. Planned(p, drift) =
        CASE name \in {"plan", "plan-preview"} ->
                 [create |-> Wanted \ have, delete |-> have \ Wanted, of |-> tfstate]
          [] name = "plan-bootstrap" ->
                 [create |-> {}, delete |-> have \cap {"bootstrap"}, of |-> tfstate]
          [] name = "plan-target" /\ proc[p].cmd = "remove" ->
                 [create |-> {}, delete |-> (drift \cup {"worker"}) \cap have, of |-> tfstate]
          [] name = "plan-target" ->
                 [create |-> {"worker"} \ have, delete |-> drift \cap have, of |-> tfstate]
          [] name \in {"plan-destroy", "plan-only"} ->
                 [create |-> {}, delete |-> have, of |-> tfstate]
  BY DEF Planned, have, name
<1>6. Planned(p, drift) \in AnyPlan
  <2>1. /\ Wanted \ have \in SUBSET VM /\ have \ Wanted \in SUBSET VM
        /\ have \cap {"bootstrap"} \in SUBSET VM /\ (drift \cup {"worker"}) \cap have \in SUBSET VM
        /\ {"worker"} \ have \in SUBSET VM /\ drift \cap have \in SUBSET VM /\ {} \in SUBSET VM
    BY <1>2 DEF VM
  <2>2. CASE name \in {"plan", "plan-preview"}
    BY <1>3, <1>5, <2>1, <2>2
  <2>3. CASE name = "plan-bootstrap"
    BY <1>3, <1>5, <2>1, <2>3
  <2>4. CASE name = "plan-target" /\ proc[p].cmd = "remove"
    BY <1>3, <1>5, <2>1, <2>4
  <2>5. CASE name = "plan-target" /\ proc[p].cmd # "remove"
    BY <1>3, <1>5, <2>1, <2>5
  <2>6. CASE name \in {"plan-destroy", "plan-only"}
    BY <1>2, <1>3, <1>5, <2>1, <2>6
  <2> QED
    BY <1>4, <2>2, <2>3, <2>4, <2>5, <2>6 DEF PlanSteps
<1>7. NoPlan \in AnyPlan /\ \A pl \in AnyPlan : [pl EXCEPT !.of = tfstate] \in AnyPlan
  BY <1>1 DEF NoPlan, AnyPlan
<1> QED
  BY <1>3, <1>6, <1>7

LEMMA PlanTurn == ASSUME IInv, NEW p \in Procs, PlanTerraform(p) PROVE Turn(p)
<1>1. /\ Running(p) /\ AtPlan(p) /\ CanPlan(p) /\ tfstate # Torn /\ tfstate' = tfstate /\ child' = child
      /\ Saved(p)
  BY DEF PlanTerraform, CanPlan, AtPlan, PlanSteps, At, Saved
<1>2. /\ child.by \notin Procs
      /\ proc[p].cmd \in TargetedCmd => proc[p].step = 3
      /\ ~At(p, "plan-only") => proc[p].step < StepCount(proc[p].cmd)
  <2>1. PICK name \in PlanSteps : At(p, name)
    BY <1>1 DEF AtPlan
  <2>2. Spot(proc[p].cmd, proc[p].step, name) /\ child.by \notin Procs
    BY <1>1, <2>1, Where DEF PlanSteps, ApplySteps
  <2>3. proc[p].cmd \in TargetedCmd => proc[p].step = 3
    BY <2>2 DEF PlanSteps, Spot, TargetedCmd
  <2>4. name # "plan-only" => proc[p].step < StepCount(proc[p].cmd)
    BY <2>2 DEF PlanSteps, Spot, TargetedCmd, StepCount
  <2> QED
    BY <2>1, <2>2, <2>3, <2>4
<1>3. Childless
  BY <1>1, <1>2 DEF Childless
<1>4. CASE At(p, "plan-only")
  <2>1. Proceed(p, proc[p])
    BY <1>4 DEF PlanTerraform
  <2> QED
    BY <1>1, <1>2, <1>3, <2>1, Forward, Lines
<1>5. CASE ~At(p, "plan-only")
  <2>1. PICK drift \in {{}, {"master"}}, reaches \in {TRUE} \cup {~At(p, "plan-target")},
             plan \in AnyPlan, deferred \in SUBSET (PlanFile \cup {"override"}) :
          /\ plans' = [plans EXCEPT ![FileOf(p)] = plan]
          /\ proc' = [proc EXCEPT ![p] = [Defers(p, deferred) EXCEPT !.step = @ + 1]]
          /\ UNCHANGED <<lock, override>>
    <3>1. PICK drift \in {{}, {"master"}}, reaches \in {TRUE} \cup {~At(p, "plan-target")} :
            LET plan == IF reaches THEN Planned(p, drift) ELSE [NoPlan EXCEPT !.of = tfstate]
                deferred == IF At(p, "plan-target") THEN {FileOf(p)} ELSE {} IN
            /\ plans' = [plans EXCEPT ![FileOf(p)] = plan]
            /\ proc' = [proc EXCEPT ![p] = [Defers(p, deferred) EXCEPT !.step = @ + 1]]
            /\ UNCHANGED <<lock, override>>
      BY <1>5 DEF PlanTerraform
    <3>2. (IF reaches THEN Planned(p, drift) ELSE [NoPlan EXCEPT !.of = tfstate]) \in AnyPlan
      BY <1>1, PlannedType
    <3>3. (IF At(p, "plan-target") THEN {FileOf(p)} ELSE {}) \in SUBSET (PlanFile \cup {"override"})
      BY DEF FileOf, PlanFile
    <3> QED
      BY <3>1, <3>2, <3>3
  <2> DEFINE q == Defers(p, deferred)
             r == [q EXCEPT !.step = proc[p].step + 1]
  <2>2. proc[p] \in ProcState /\ proc[p].step + 1 \in 0 .. 20
    BY <1>1, <1>2, <1>5, Lines, NextStep
  <2>3. q \in ProcState /\ r \in ProcState
    BY <2>2, Records DEF Defers
  <2>4. q.cmd = proc[p].cmd /\ q.step = proc[p].step /\ q.snapped = proc[p].snapped
    BY <2>2 DEF Defers, ProcState
  <2>5. r.cmd = proc[p].cmd /\ r.step = proc[p].step + 1 /\ r.snapped = proc[p].snapped
    <3>1. \A s \in ProcState, i \in 0 .. 20 :
            /\ [s EXCEPT !.step = i].cmd = s.cmd /\ [s EXCEPT !.step = i].step = i
            /\ [s EXCEPT !.step = i].snapped = s.snapped
      BY DEF ProcState
    <3> HIDE DEF q
    <3> QED
      BY <2>2, <2>3, <2>4, <3>1
  <2>6. proc' = [proc EXCEPT ![p] = r] /\ lock' = lock /\ override' = override
    BY <2>1, <2>4
  <2>7. plans' \in [PlanFile -> AnyPlan]
    BY <1>1, <2>1, Lines
  <2> HIDE DEF r
  <2>8. proc[p].cmd \in TargetedCmd => proc[p].step \notin {6, 7}
    BY <1>2
  <2> QED
    BY <1>1, <1>2, <1>3, <1>5, <2>3, <2>5, <2>6, <2>7, <2>8, Lines, StepsTo
<1> QED
  BY <1>4, <1>5


LEMMA SteppingTurns ==
    ASSUME IInv, NEW p \in Procs, Return(p) \/ WriteOverride(p) \/ CleanupPlans(p)
    PROVE  Turn(p)
<1>1. /\ Running(p) /\ child' = child /\ tfstate' = tfstate /\ lock' = lock
      /\ At(p, "return") \/ At(p, "override") \/ At(p, "cleanup-plans")
      /\ Saved(p)
  BY DEF Return, WriteOverride, CleanupPlans, At, Saved
<1>2. /\ child.by \notin Procs /\ proc[p].cmd \notin TargetedCmd
      /\ proc[p].step < StepCount(proc[p].cmd) /\ proc[p].step # FirstPlan(proc[p].cmd)
  <2>1. PICK name \in {"return", "override", "cleanup-plans"} : At(p, name)
    BY <1>1
  <2>2. Spot(proc[p].cmd, proc[p].step, name) /\ child.by \notin Procs
    BY <1>1, <2>1, Where DEF ApplySteps
  <2> QED
    BY <2>2 DEF Spot, TargetedCmd, StepCount, FirstPlan
<1>3. Childless
  BY <1>1, <1>2 DEF Childless
<1>4. proc[p] \in ProcState /\ proc \in [Procs -> ProcState] /\ proc[p].step + 1 \in 0 .. 20
  BY <1>1, <1>2, Lines, NextStep
<1>5. ASSUME NEW r \in ProcState, r.cmd = proc[p].cmd, r.step = proc[p].step + 1,
             r.snapped = proc[p].snapped, proc' = [proc EXCEPT ![p] = r],
             plans' \in [PlanFile -> AnyPlan], override' \in BOOLEAN
      PROVE  Turn(p)
  BY <1>1, <1>2, <1>3, <1>5, StepsTo
<1>6. plans \in [PlanFile -> AnyPlan] /\ NoPlan \in AnyPlan /\ override \in BOOLEAN
  BY <1>1, Lines DEF NoPlan, AnyPlan
<1>7. plans' \in [PlanFile -> AnyPlan] /\ override' \in BOOLEAN
  <2>1. CASE Return(p)
    BY <1>6, <2>1 DEF Return
  <2>2. CASE WriteOverride(p)
    BY <1>6, <2>2 DEF WriteOverride
  <2>3. CASE CleanupPlans(p)
    BY <1>6, <2>3 DEF CleanupPlans
  <2> QED
    BY <2>1, <2>2, <2>3
<1>8. CASE proc' = [proc EXCEPT ![p].step = @ + 1, ![p].deferred = {}]
  <2> DEFINE r == [proc[p] EXCEPT !.step = proc[p].step + 1, !.deferred = {}]
  <2>1. r \in ProcState
    BY <1>4, Records
  <2>2. r.cmd = proc[p].cmd /\ r.step = proc[p].step + 1 /\ r.snapped = proc[p].snapped
    BY <1>4 DEF ProcState
  <2>3. proc' = [proc EXCEPT ![p] = r]
    <3>1. \A s \in ProcState : [[s EXCEPT !.step = s.step + 1] EXCEPT !.deferred = {}]
                                 = [s EXCEPT !.step = s.step + 1, !.deferred = {}]
      BY DEF ProcState
    <3> QED
      BY <1>4, <1>8, <3>1
  <2> HIDE DEF r
  <2> QED
    BY <1>5, <1>7, <2>1, <2>2, <2>3
<1>9. CASE proc' = [proc EXCEPT ![p].step = @ + 1]
  <2> DEFINE r == [proc[p] EXCEPT !.step = proc[p].step + 1]
  <2>1. r \in ProcState
    BY <1>4, Records
  <2>2. r.cmd = proc[p].cmd /\ r.step = proc[p].step + 1 /\ r.snapped = proc[p].snapped
    BY <1>4 DEF ProcState
  <2>3. proc' = [proc EXCEPT ![p] = r]
    BY <1>9
  <2> HIDE DEF r
  <2> QED
    BY <1>5, <1>7, <2>1, <2>2, <2>3
<1>10. CASE proc' = [proc EXCEPT ![p] = [Defers(p, {"override"}) EXCEPT !.step = @ + 1]]
  <2> DEFINE q == Defers(p, {"override"})
             r == [q EXCEPT !.step = proc[p].step + 1]
  <2>1. q \in ProcState /\ r \in ProcState
    <3>1. {"override"} \in SUBSET (PlanFile \cup {"override"})
      OBVIOUS
    <3> QED
      BY <1>4, <3>1, Records DEF Defers
  <2>2. q.cmd = proc[p].cmd /\ q.step = proc[p].step /\ q.snapped = proc[p].snapped
    BY <1>4 DEF Defers, ProcState
  <2>3. r.cmd = proc[p].cmd /\ r.step = proc[p].step + 1 /\ r.snapped = proc[p].snapped
    <3> HIDE DEF q
    <3> QED
      BY <2>1, <2>2 DEF ProcState
  <2>4. proc' = [proc EXCEPT ![p] = r]
    BY <1>10, <2>2
  <2> HIDE DEF r
  <2> QED
    BY <1>5, <1>7, <2>1, <2>3, <2>4
<1> QED
  BY <1>8, <1>9, <1>10 DEF Return, WriteOverride, CleanupPlans

LEMMA StatusTurn == ASSUME IInv, NEW p \in Procs, StateStatus(p) PROVE Turn(p)
<1>1. Running(p) /\ At(p, "state-status") /\ child' = child /\ tfstate' = tfstate
  BY DEF StateStatus, At
<1>2. proc[p].cmd = "destroy" /\ proc[p].step = 1 /\ child.by \notin Procs
  BY <1>1, Where DEF Spot, ApplySteps
<1>3. Childless
  BY <1>1, <1>2 DEF Childless
<1>4. CASE tfstate = Torn
  BY <1>1, <1>3, <1>4, Finish DEF StateStatus
<1>5. CASE tfstate # Torn
  <2> DEFINE i == IF Managed(tfstate) = {} THEN 8 ELSE 2
             r == [proc[p] EXCEPT !.step = i]
  <2>1. proc' = [proc EXCEPT ![p] = r] /\ lock' = lock /\ plans' = plans /\ override' = override
    <3>1. Len(DestroyInfrastructure) = 8
      BY DEF DestroyInfrastructure
    <3> QED
      BY <1>2, <1>5, <3>1 DEF StateStatus
  <2>2. proc[p] \in ProcState
    BY <1>1, Lines
  <2>3. r \in ProcState /\ r.cmd = proc[p].cmd /\ r.step = i /\ r.snapped = proc[p].snapped
    BY <2>2 DEF ProcState
  <2>4. StepCount("destroy") = 8 /\ FirstPlan("destroy") = 5 /\ FirstSnapshot("destroy") = 2
        /\ "destroy" \notin TargetedCmd
    BY DEF StepCount, FirstPlan, FirstSnapshot, TargetedCmd
  <2>5. i \in 1 .. StepCount(proc[p].cmd)
    BY <1>2, <2>4
  <2> HIDE DEF r
  <2>6. WentOn(p, i) /\ proc'[p] = r
    <3> HIDE DEF i
    <3> QED
      BY <1>1, <2>1, <2>3, <2>5, Advances, Lines
  <2>7. Onward(p, i)
    <3>1. ~proc[p].snapped
      BY <1>1, <1>2, <2>4 DEF IInv, Readable
    <3>2. ~CopiedAt(proc[p].cmd, i)
      BY <1>2, <2>4 DEF CopiedAt
    <3> QED
      BY <1>1, <1>2, <1>5, <2>3, <2>4, <2>6, <3>1, <3>2 DEF Onward
  <2>8. child' # NoChild => tfstate' # Torn
    BY <1>1, <1>5
  <2> HIDE DEF i
  <2> QED
    BY <1>1, <1>3, <2>5, <2>6, <2>7, <2>8 DEF Turn, Childless
<1> QED
  BY <1>4, <1>5

LEMMA GateTurn == ASSUME IInv, NEW p \in Procs, Gate(p) PROVE Turn(p)
<1>1. Running(p) /\ At(p, "gate") /\ child' = child /\ tfstate' = tfstate /\ Saved(p)
  BY DEF Gate, At, Saved
<1>2. proc[p].cmd \in TargetedCmd /\ proc[p].step = 5 /\ child.by \notin Procs
  BY <1>1, Where DEF Spot, ApplySteps
<1>3. Childless
  BY <1>1, <1>2 DEF Childless
<1>4. FirstPlan(proc[p].cmd) = 3 /\ FirstSnapshot(proc[p].cmd) = 1 /\ StepCount(proc[p].cmd) = 8
  BY <1>2 DEF FirstPlan, FirstSnapshot, StepCount, TargetedCmd
<1>5. CASE OnlyChange(p, plans[FileOf(p)])
  <2> DEFINE r == [proc[p] EXCEPT !.step = 7]
  <2>1. proc' = [proc EXCEPT ![p] = r] /\ lock' = lock /\ plans' = plans /\ override' = override
    BY <1>2, <1>5 DEF Gate
  <2>2. proc[p] \in ProcState
    BY <1>1, Lines
  <2>3. r \in ProcState /\ r.cmd = proc[p].cmd /\ r.step = 7
    BY <2>2 DEF ProcState
  <2>4. 7 \in 1 .. StepCount(proc[p].cmd)
    BY <1>4
  <2> HIDE DEF r
  <2>5. WentOn(p, 7) /\ proc'[p] = r
    BY <1>1, <2>1, <2>3, <2>4, Advances, Lines
  <2>6. Onward(p, 7)
    <3>1. FileOf(p) = "node-op.tfplan"
      BY <1>2 DEF FileOf, TargetedCmd
    <3>2. OnlyChange(p, plans["node-op.tfplan"])'
      BY <1>5, <2>1, <2>5, <3>1 DEF OnlyChange, WentOn
    <3>3. tfstate' # Torn
      BY <1>1, <1>2, <1>4 DEF IInv, Readable
    <3>4. ~CopiedAt(proc[p].cmd, 7)
      BY <1>2 DEF CopiedAt, TargetedCmd
    <3> QED
      BY <1>4, <3>2, <3>3, <3>4 DEF Onward
  <2>7. child' # NoChild => tfstate' # Torn
    BY <1>1 DEF IInv, Readable
  <2> QED
    BY <1>1, <1>3, <2>4, <2>5, <2>6, <2>7 DEF Turn, Childless
<1>6. CASE Proceed(p, proc[p])
  BY <1>1, <1>2, <1>3, <1>4, <1>6, Forward, Lines
<1>7. CASE End(p, "none")
  BY <1>1, <1>3, <1>7, Finish
<1> QED
  BY <1>5, <1>6, <1>7 DEF Gate


LEMMA ListingTurns ==
    ASSUME IInv, NEW p \in Procs, Shown(p) \/ RefuseTruncated(p) \/ Inventory(p)
    PROVE  Turn(p)
<1>1. /\ Running(p) /\ child' = child /\ tfstate' = tfstate
      /\ At(p, "show") \/ At(p, "inventory")
      /\ Saved(p)
  BY DEF Shown, RefuseTruncated, Inventory, Listed, Listing, At, Saved
<1>2. child.by \notin Procs
  BY <1>1, Where DEF ApplySteps
<1>3. Childless
  BY <1>1, <1>2 DEF Childless
<1>4. ASSUME Shown(p) PROVE Turn(p)
  <2>1. At(p, "show") /\ Proceed(p, proc[p])
    BY <1>4 DEF Shown
  <2>2. proc[p].step # FirstPlan(proc[p].cmd) /\ (proc[p].cmd \in TargetedCmd => proc[p].step # 6)
    <3>1. Spot(proc[p].cmd, proc[p].step, "show")
      BY <1>1, <2>1, Where
    <3> QED
      BY <3>1 DEF Spot, FirstPlan, TargetedCmd
  <2> QED
    BY <1>1, <1>3, <2>1, <2>2, Forward, Lines
<1>5. CASE RefuseTruncated(p)
  BY <1>1, <1>3, <1>5, Finish DEF RefuseTruncated
<1>6. CASE Inventory(p)
  BY <1>1, <1>3, <1>6, Finish DEF Inventory
<1> QED
  BY <1>4, <1>5, <1>6

LEMMA AppliedTurn == ASSUME IInv, NEW p \in Procs, Applied(p) PROVE Turn(p)
<1>1. /\ Running(p) /\ AtApply(p) /\ Proceed(p, proc[p]) /\ child' = NoChild /\ tfstate' = tfstate
      /\ Saved(p)
  BY DEF Applied, AtApply, ApplySteps, At, Saved
<1>2. Childless
  BY <1>1, NoOneAttended DEF Childless
<1>3. proc[p].step # FirstPlan(proc[p].cmd) /\ (proc[p].cmd \in TargetedCmd => proc[p].step # 6)
  <2>1. PICK name \in ApplySteps : At(p, name)
    BY <1>1 DEF AtApply
  <2>2. Spot(proc[p].cmd, proc[p].step, name)
    BY <1>1, <2>1, Where
  <2> QED
    BY <2>2 DEF ApplySteps, Spot, FirstPlan, TargetedCmd
<1> QED
  BY <1>1, <1>2, <1>3, Forward, Lines

LEMMA BreakTurns ==
    ASSUME IInv, NEW p \in Procs,
           Refused(p) \/ ChildFails(p) \/ Fail(p) \/ KillChild(p) \/ Crash(p)
    PROVE  Turn(p)
<1>1. Running(p)
  BY DEF Refused, ChildFails, Fail, KillChild, Crash, IInv, Session, AtPlan, AtApply, Listing, At
<1>2. CASE Refused(p)
  <2>1. Childless /\ End(p, "none")
    BY <1>2, NoOneAttended DEF Refused, Childless
  <2> QED
    BY <1>1, <2>1, Finish
<1>3. CASE ChildFails(p)
  <2>1. Childless /\ End(p, "none")
    BY <1>3, NoOneAttended DEF ChildFails, Childless
  <2> QED
    BY <1>1, <2>1, Finish
<1>4. CASE Fail(p)
  <2>1. Childless /\ End(p, "none")
    BY <1>1, <1>4, Unattended DEF Fail, Childless
  <2> QED
    BY <1>1, <2>1, Finish
<1>5. CASE KillChild(p)
  <2>1. child' = NoChild /\ End(p, "none")
    BY <1>5 DEF KillChild, Killed
  <2> QED
    BY <1>1, <2>1, Ends, Lines, NoOneAttended DEF Turn
<1>6. CASE Crash(p)
  <2>1. proc' = [proc EXCEPT ![p] = NotRunning] /\ lock' = "none" /\ plans' = plans /\ override' = override
    BY <1>1, <1>6, Places DEF Crash, IInv
  <2>2. NotRunning \in ProcState /\ NotRunning.cmd = "none"
    BY DEF NotRunning, ProcState
  <2>3. Ended(p)
    BY <1>1, <2>1, <2>2, Lines DEF Ended, Alone, Running
  <2>4. child'.by \notin Procs /\ (child' # NoChild => tfstate' # Torn)
    <3>1. CASE child.by = p /\ Killed
      BY <3>1, NoOneAttended DEF Killed
    <3>2. CASE child.by = p /\ child' = [child EXCEPT !.by = "orphan"] /\ tfstate' = tfstate
      <4>1. child \in AnyChild /\ "none" \notin Procs /\ "orphan" \notin Procs
        BY Kinds DEF IInv, Typed, TypedData
      <4>2. child'.by = "orphan" /\ child # NoChild
        BY <3>2, <4>1 DEF AnyChild, NoChild
      <4> QED
        BY <3>2, <4>1, <4>2 DEF IInv, Readable
    <3>3. CASE child.by # p /\ child' = child /\ tfstate' = tfstate
      BY <1>1, <3>3, Unattended DEF IInv, Readable
    <3> QED
      BY <1>6, <3>1, <3>2, <3>3 DEF Crash
  <2> QED
    BY <1>1, <2>3, <2>4 DEF Turn
<1> QED
  BY <1>2, <1>3, <1>4, <1>5, <1>6

\* A process at work either takes its turn, or starts a listing or an apply.
LEMMA Turns ==
    ASSUME IInv, NEW p \in Procs, Works(p), ~StartListing(p), ~StartApply(p)
    PROVE  Turn(p)
BY SnapshotTurn, PruneTurn, PlainTurns, PlanTurn, SteppingTurns, StatusTurn, GateTurn,
   ListingTurns, AppliedTurn, BreakTurns DEF Works

LEMMA ApplyStays == ASSUME IInv, NEW p \in Procs, StartApply(p) PROVE Stay
<1>1. /\ Running(p) /\ AtApply(p) /\ CanApply(p) /\ child = NoChild
      /\ tfstate' = tfstate /\ UNCHANGED <<lock, proc, plans, override>>
  BY DEF StartApply, AtApply, At
<1>2. tfstate # Torn
  BY <1>1 DEF CanApply
<1>3. child'.by = p
  BY DEF StartApply
<1>4. Destroying(proc[p].cmd) \/ ~override
  <2>1. At(p, "apply-destroy") => proc[p].cmd = "destroy"
    BY <1>1, Where DEF Spot
  <2> QED
    BY <1>1, <2>1 DEF CanApply, StaleOverrideRefused, Destroying
<1>5. proc[p].cmd \in TargetedCmd =>
         /\ proc[p].step = 8 /\ child'.create = plans["node-op.tfplan"].create
         /\ child'.delete = plans["node-op.tfplan"].delete
  <2> SUFFICES ASSUME proc[p].cmd \in TargetedCmd
               PROVE  /\ proc[p].step = 8 /\ child'.create = plans["node-op.tfplan"].create
                      /\ child'.delete = plans["node-op.tfplan"].delete
    OBVIOUS
  <2>1. PICK name \in ApplySteps : At(p, name)
    BY <1>1 DEF AtApply
  <2>2. Spot(proc[p].cmd, proc[p].step, name)
    BY <1>1, <2>1, Where
  <2>3. name = "apply" /\ proc[p].step = 8
    BY <2>2 DEF ApplySteps, Spot, TargetedCmd
  <2>4. ~At(p, "apply-direct")
    BY <2>1, <2>3 DEF At
  <2>5. FileOf(p) = "node-op.tfplan"
    BY DEF FileOf, TargetedCmd
  <2> QED
    BY <2>3, <2>4, <2>5 DEF StartApply
<1>6. \A q \in Procs : child.by # q
  BY <1>1, NoOneAttended
<1>7. \A q \in Procs : Running(q) => child'.by = q
  BY <1>1, <1>3, Places DEF IInv
<1> QED
  BY <1>1, <1>2, <1>3, <1>4, <1>5, <1>6, <1>7 DEF Stay

LEMMA OthersStay ==
    ASSUME IInv,
           \/ ChildWrites \/ ParentReads \/ OrphanEnds \/ Restore \/ RemoveStaleOverride
           \/ \E p \in Procs : StartListing(p)
           \/ \E v \in VM : ChildCreates(v) \/ ChildDeletes(v)
    PROVE  Stay
<1>1. ASSUME ChildWrites \/ ParentReads \/ \E p \in Procs : StartListing(p) PROVE Stay
  BY <1>1 DEF ChildWrites, ParentReads, StartListing, Stay, IInv, Readable
<1>2. CASE OrphanEnds
  <2>1. "orphan" \notin Procs
    BY Kinds
  <2> QED
    BY <1>2, <2>1, NoOneAttended DEF OrphanEnds, Stay
<1>3. CASE Restore
  <2>1. tfstate' # Torn
    BY <1>3 DEF Restore
  <2>2. \A p \in Procs : ~Running(p)
    BY <1>3, Kinds DEF Restore, IInv, Session
  <2> QED
    BY <1>3, <2>1, <2>2 DEF Restore, Stay
<1>4. CASE RemoveStaleOverride
  BY <1>4 DEF RemoveStaleOverride, Stay, IInv, Readable
<1>5. ASSUME NEW v \in VM, ChildCreates(v) \/ ChildDeletes(v) PROVE Stay
  <2>1. child \in AnyChild /\ tfstate \in Content \cup {Torn} /\ Torn \notin Content
    BY Kinds DEF IInv, Typed, TypedData
  <2>2. child # NoChild
    BY <1>5 DEF ChildCreates, ChildDeletes, NoChild
  <2>3. tfstate # Torn
    BY <2>2 DEF IInv, Readable
  <2>4. Managed(tfstate) \in SUBSET VM
    BY <2>1, <2>3 DEF Managed, Content, Missing
  <2>5. tfstate' \in SUBSET VM
    BY <1>5, <2>4 DEF ChildCreates, ChildDeletes
  <2>6. tfstate' # Torn
    BY <2>1, <2>5 DEF Content
  <2>7. child'.by = child.by /\ child'.create \subseteq child.create /\ child'.delete \subseteq child.delete
    BY <1>5, <2>1 DEF ChildCreates, ChildDeletes, AnyChild
  <2>8. overrun' \/ \A p \in Procs : Running(p) => child'.by = p
    <3>1. CASE child.by = "orphan"
      BY <1>5, <3>1 DEF ChildCreates, ChildDeletes
    <3>2. CASE child.by \in Procs
      BY <2>7, <3>2, Places DEF IInv, Session
    <3>3. child.by # "none"
      BY <2>2 DEF IInv, Parented
    <3> QED
      BY <2>1, <3>1, <3>2, <3>3 DEF AnyChild
  <2> QED
    BY <1>5, <2>6, <2>7, <2>8 DEF ChildCreates, ChildDeletes, Stay
<1> QED
  BY <1>1, <1>2, <1>3, <1>4, <1>5

LEMMA AcquireKeeps ==
    ASSUME IInv, NEW p \in Procs, NEW cmd \in Commands, Acquire(p, cmd)
    PROVE  TypedControl' /\ Session' /\ GuardHolds' /\ Gated' /\ Readable' /\ Copied'
<1>1. /\ lock = "none" /\ lock' = p /\ "none" \notin Procs /\ child' = child /\ tfstate' = tfstate
      /\ plans' = plans /\ override' = override /\ \A q \in Procs : ~Running(q)
      /\ cmd \in Commanded /\ cmd # "none"
  BY Kinds DEF Acquire, IInv, Session
<1>2. child.by \notin Procs
  BY <1>1 DEF IInv, Session
<1> DEFINE mine == [NotRunning EXCEPT !.cmd = cmd, !.step = 1]
<1>3. mine \in ProcState /\ mine.cmd = cmd /\ mine.step = 1 /\ mine.snapped = FALSE
  <2>1. NotRunning \in ProcState /\ NotRunning.snapped = FALSE
    BY DEF NotRunning, ProcState
  <2>2. ASSUME NEW r \in ProcState
        PROVE  LET m == [r EXCEPT !.cmd = cmd, !.step = 1]
               IN  m \in ProcState /\ m.cmd = cmd /\ m.step = 1 /\ m.snapped = r.snapped
    <3>1. cmd \in Commands \cup {"none"} /\ 1 \in 0 .. 20
      OBVIOUS
    <3> DEFINE n == [r EXCEPT !.cmd = cmd]
    <3>2. n \in ProcState /\ n.cmd = cmd /\ n.snapped = r.snapped
      BY <3>1 DEF ProcState
    <3>3. [r EXCEPT !.cmd = cmd, !.step = 1] = [n EXCEPT !.step = 1]
      BY DEF ProcState
    <3> HIDE DEF n
    <3> QED
      BY <3>1, <3>2, <3>3 DEF ProcState
  <2> QED
    BY <2>1, <2>2
<1>4. ASSUME NEW q \in Procs
      PROVE  /\ [proc[q] EXCEPT !.verdict = "none"] \in ProcState
             /\ [proc[q] EXCEPT !.verdict = "none"].cmd = "none"
  <2>1. proc[q] \in ProcState /\ proc[q].cmd = "none"
    BY <1>1 DEF IInv, Typed, TypedControl, Running
  <2> QED
    BY <2>1 DEF ProcState
<1> HIDE DEF mine
<1>5. proc' = [q \in Procs |-> IF q = p THEN mine ELSE [proc[q] EXCEPT !.verdict = "none"]]
  BY DEF Acquire, mine
<1>6. /\ proc' \in [Procs -> ProcState] /\ proc'[p] = mine
      /\ \A q \in Procs \ {p} : proc'[q].cmd = "none"
  BY <1>3, <1>4, <1>5
<1>7. TypedControl'
  BY <1>1, <1>6 DEF TypedControl, IInv, Typed
<1>8. StepCount(cmd) \in {3, 4, 8, 15} /\ FirstPlan(cmd) \in 2 .. 5
  <2>1. StepCount(cmd) \in {3, 4, 8, 15}
    BY <1>1 DEF StepCount, Commanded
  <2>2. /\ FirstPlan("install") = 4 /\ FirstPlan("destroy-preview") = 4
        /\ FirstPlan("destroy") = 5 /\ FirstPlan("plan") = 2
        /\ \A c \in TargetedCmd : FirstPlan(c) = 3
    BY DEF FirstPlan, TargetedCmd
  <2> QED
    BY <1>1, <2>1, <2>2 DEF Commanded
<1>9. Session' /\ GuardHolds'
  BY <1>1, <1>2, <1>3, <1>6, <1>8 DEF Session, GuardHolds, Running
<1>10. Gated'
  BY <1>1, <1>2, <1>3, <1>6 DEF Gated, TargetedCmd
<1>11. Readable'
  BY <1>1, <1>3, <1>6, <1>8 DEF Readable, Running, IInv
<1>12. Copied'
  <2>1. ~CopiedAt(cmd, 1)
    BY DEF CopiedAt
  <2> QED
    BY <1>1, <1>3, <1>6, <2>1 DEF Copied, Running
<1> QED
  BY <1>7, <1>9, <1>10, <1>11, <1>12


-----------------------------------------------------------------------------
(* The data a step leaves *)

\* A state file is left alone, restored, or written by the child of a process that runs
\* or ran; only the two steps that keep copies touch these.
LEMMA Writes ==
    ASSUME IInv, Next, \A p \in Procs : ~SnapshotState(p) /\ ~PruneExceptNewest(p)
    PROVE  /\ UNCHANGED <<snaps, backed, tries>>
           /\ tfstate' = tfstate \/ Restore \/ (child # NoChild /\ tfstate' \in Content \cup {Torn})
<1>1. ASSUME NEW p \in Procs, Works(p)
      PROVE  UNCHANGED <<snaps, backed, tries, tfstate>>
  BY <1>1 DEF Works, DeferPlans, Return, InitDriver, PlanTerraform, Sentinel, StartListing, Shown,
     RefuseTruncated, Gate, Inventory, StartApply, Applied, StateStatus, WriteOverride,
     RefuseOverride, CleanupPlans, Refused
<1>2. ASSUME Child
      PROVE  /\ UNCHANGED <<snaps, backed, tries>>
             /\ tfstate' = tfstate \/ (child # NoChild /\ tfstate' \in Content \cup {Torn})
  <2>1. ASSUME NEW v \in VM, ChildCreates(v) \/ ChildDeletes(v)
        PROVE  child # NoChild /\ tfstate' \in Content \cup {Torn}
    <3>1. child # NoChild
      BY <2>1 DEF ChildCreates, ChildDeletes, NoChild
    <3>2. tfstate # Torn
      BY <3>1 DEF IInv, Readable
    <3>3. tfstate' \in SUBSET VM
      <4>1. tfstate \in Content
        BY <3>2 DEF IInv, Typed, TypedData
      <4>2. Managed(tfstate) \in SUBSET VM
        BY <4>1 DEF Managed, Content, Missing
      <4> QED
        BY <2>1, <4>2 DEF ChildCreates, ChildDeletes
    <3> QED
      BY <3>1, <3>3 DEF Content
  <2> QED
    BY <1>2, <2>1 DEF Child, ChildWrites, ParentReads, OrphanEnds, ChildCreates, ChildDeletes, ChildFails
<1>3. ASSUME Breaks
      PROVE  /\ UNCHANGED <<snaps, backed, tries>>
             /\ tfstate' = tfstate \/ (child # NoChild /\ tfstate' \in Content \cup {Torn})
  <2>1. Killed => tfstate' = tfstate \/ (child # NoChild /\ tfstate' \in Content \cup {Torn})
    BY DEF Killed, Idle, NoChild
  <2> QED
    BY <1>3, <2>1 DEF Breaks, Fail, KillChild, Crash
<1> QED
  BY <1>1, <1>2, <1>3 DEF Next, Acquire, Restore, RemoveStaleOverride


\* The copies a snapshot adds to, and those after it: the last of the older ones that
\* fit, and the new one.
Older(same) == IF same THEN Front(snaps) ELSE snaps

Pushed(older, new, c) ==
    /\ older \in Seq(Copy) /\ new \in Seq(Copy)
    /\ Len(new) = IF Len(older) + 1 < Retain THEN Len(older) + 1 ELSE Retain
    /\ Len(older) <= Retain
    /\ \A i \in 1 .. Len(new) :
          new[i] = IF i = Len(new) THEN c ELSE older[Len(older) + 1 - Len(new) + i]
    /\ \A i \in 1 .. Len(older) : i \in 1 .. Len(snaps) /\ older[i] = snaps[i]

LEMMA Newest ==
    ASSUME IInv, NEW c \in Copy, NEW same \in BOOLEAN, same => snaps # <<>>
    PROVE  Pushed(Older(same), Snapshotted(c, same), c)
<1> DEFINE older == Older(same)
           new == Snapshotted(c, same)
<1>1. snaps \in Seq(Copy) /\ Len(snaps) \in Nat /\ Len(snaps) <= Retain /\ Retain \in Nat /\ Retain >= 1
  BY Kinds, LenProperties DEF IInv, Typed, TypedCopies
<1>2. /\ older \in Seq(Copy) /\ Len(older) \in Nat /\ Len(older) <= Len(snaps)
      /\ \A i \in 1 .. Len(older) : older[i] = snaps[i]
  <2>1. CASE ~same
    BY <1>1, <2>1 DEF Older
  <2>2. CASE same
    <3>1. Len(snaps) >= 1
      BY <1>1, <2>2, EmptySeq
    <3>2. older = SubSeq(snaps, 1, Len(snaps) - 1)
      BY <2>2 DEF Older, Front
    <3>3. \A i \in 1 .. Len(snaps) - 1 : snaps[i] \in Copy
      BY <1>1, ElementOfSeq
    <3> DEFINE n == Len(snaps) - 1
    <3>4. n \in Int /\ 1 \in Int /\ n >= 0
      BY <1>1, <3>1
    <3>5. older = SubSeq(snaps, 1, n) /\ \A i \in 1 .. n : snaps[i] \in Copy
      BY <3>2, <3>3
    <3> HIDE DEF Copy, older, n
    <3>6. /\ SubSeq(snaps, 1, n) \in Seq(Copy)
          /\ Len(SubSeq(snaps, 1, n)) = IF 1 <= n THEN n - 1 + 1 ELSE 0
          /\ \A i \in 1 .. n - 1 + 1 : SubSeq(snaps, 1, n)[i] = snaps[1 + i - 1]
      BY <3>4, <3>5, SubSeqProperties
    <3>7. /\ older \in Seq(Copy) /\ Len(older) = n
          /\ \A i \in 1 .. n : older[i] = snaps[i]
      BY <3>4, <3>5, <3>6
    <3> QED
      BY <1>1, <3>1, <3>7 DEF n
  <2> QED
    BY <2>1, <2>2
<1> DEFINE all == Append(older, c)
           k == IF Len(all) < Retain THEN Len(all) ELSE Retain
<1>3. /\ all \in Seq(Copy) /\ Len(all) = Len(older) + 1 /\ all[Len(older) + 1] = c
      /\ \A i \in 1 .. Len(older) : all[i] = older[i]
  BY <1>2, AppendProperties
<1>4. k \in Nat /\ k >= 1 /\ k <= Len(all) /\ Len(all) \in Nat
  BY <1>1, <1>2, <1>3
<1>5. new = SubSeq(all, Len(all) - k + 1, Len(all))
  BY DEF Snapshotted, Older
<1> HIDE DEF all, k, older, new
<1> DEFINE first == Len(all) - k + 1
<1>6. first \in 1 .. Len(all) + 1 /\ first \in Int /\ Len(all) - first + 1 = k
  BY <1>4
<1>7. /\ new \in Seq(Copy) /\ Len(new) = k
      /\ \A i \in 1 .. k : new[i] = all[Len(all) - k + i]
  <2>1. \A i \in first .. Len(all) : all[i] \in Copy
    BY <1>3, <1>4, ElementOfSeq
  <2> QED
    BY <1>3, <1>4, <1>5, <1>6, <2>1, SubSeqProperties
<1>8. \A i \in 1 .. k : new[i] = IF i = k THEN c ELSE older[Len(older) + 1 - k + i]
  <2> SUFFICES ASSUME NEW i \in 1 .. k PROVE new[i] = IF i = k THEN c ELSE older[Len(older) + 1 - k + i]
    OBVIOUS
  <2>1. new[i] = all[Len(older) + 1 - k + i]
    BY <1>3, <1>7
  <2>2. CASE i = k
    <3>1. Len(older) + 1 - k + i = Len(older) + 1
      BY <1>2, <1>4, <2>2
    <3> QED
      BY <1>3, <2>1, <2>2, <3>1
  <2>3. CASE i # k
    <3>1. Len(older) + 1 - k + i \in 1 .. Len(older)
      BY <1>2, <1>3, <1>4, <2>3
    <3> QED
      BY <1>3, <2>1, <2>3, <3>1
  <2> QED
    BY <2>2, <2>3
<1>9. k = IF Len(older) + 1 < Retain THEN Len(older) + 1 ELSE Retain
  BY <1>3 DEF k
<1>10. \A i \in 1 .. Len(new) :
          new[i] = IF i = Len(new) THEN c ELSE older[Len(older) + 1 - Len(new) + i]
  BY <1>7, <1>8
<1>11. \A i \in 1 .. Len(older) : i \in 1 .. Len(snaps)
  BY <1>1, <1>2
<1>12. Len(older) <= Retain
  BY <1>1, <1>2
<1> QED
  BY <1>2, <1>7, <1>9, <1>10, <1>11, <1>12 DEF older, new, Pushed


\* A snapshot that copies a torn state replaces none of its own run.
LEMMA NoSecondTorn ==
    ASSUME IInv, NEW p \in Procs, At(p, "snapshot"), tfstate = Torn
    PROVE  ~proc[p].snapped
<1>1. Running(p)
  BY DEF At
<1>2. Spot(proc[p].cmd, proc[p].step, "snapshot")
  BY <1>1, Where
<1>3. proc[p].step <= FirstSnapshot(proc[p].cmd) \/ proc[p].step > FirstPlan(proc[p].cmd)
  BY <1>2 DEF Spot, FirstSnapshot, FirstPlan, TargetedCmd
<1> QED
  BY <1>1, <1>3 DEF IInv, Readable

\* The copies after a step that copies: what a copy of a torn state leaves, with how
\* many such copies are the newest.
LEMMA SnapshotStores ==
    ASSUME IInv, NEW p \in Procs, SnapshotState(p)
    PROVE  TypedCopies' /\ Stored'
<1>1. /\ snaps \in Seq(Copy) /\ Len(snaps) \in Nat /\ Len(snaps) <= Retain
      /\ Retain \in Nat /\ Retain >= 1 /\ backed \in Content /\ tries \in 0 .. Retain
      /\ tfstate \in Content \cup {Torn} /\ Missing \notin Copy /\ Torn \in Copy
      /\ Torn # Missing /\ Torn \notin Content /\ tfstate' = tfstate
      /\ \A i \in 1 .. Len(snaps) : i > Len(snaps) - tries => snaps[i] = Torn
      /\ backed # Missing /\ tries < Retain => tries < Len(snaps) /\ snaps[Len(snaps) - tries] = backed
  BY Kinds, LenProperties DEF IInv, Typed, TypedData, TypedCopies, Stored, SnapshotState
<1>2. CASE tfstate = Missing
  <2>1. snaps' = snaps /\ backed' = Missing /\ tries' = 0
    BY <1>1, <1>2 DEF SnapshotState
  <2> QED
    BY <1>1, <2>1 DEF TypedCopies, Stored, Content
<1>3. CASE tfstate # Missing
  <2>1. PICK same \in BOOLEAN : /\ same => proc[p].snapped /\ snaps # <<>>
                                /\ snaps' = Snapshotted(tfstate, same)
    BY <1>3 DEF SnapshotState
  <2>2. tfstate \in Copy
    BY <1>1, <1>3 DEF Content, Copy
  <2> DEFINE older == Older(same)
  <2>3. /\ older \in Seq(Copy) /\ snaps' \in Seq(Copy) /\ Len(older) \in Nat /\ Len(snaps') \in Nat
        /\ Len(snaps') = IF Len(older) + 1 < Retain THEN Len(older) + 1 ELSE Retain
        /\ Len(older) <= Retain
        /\ \A i \in 1 .. Len(snaps') :
              snaps'[i] = IF i = Len(snaps') THEN tfstate ELSE older[Len(older) + 1 - Len(snaps') + i]
    <3>1. Pushed(older, snaps', tfstate)
      BY <2>1, <2>2, Newest
    <3> HIDE DEF Copy, older
    <3>2. older \in Seq(Copy) /\ snaps' \in Seq(Copy)
      BY <3>1 DEF Pushed
    <3>3. Len(older) \in Nat /\ Len(snaps') \in Nat
      BY <3>2, LenProperties
    <3> QED
      BY <3>1, <3>3 DEF Pushed
  <2>4. Len(snaps') >= 1 /\ Len(snaps') <= Retain
    BY <1>1, <2>3
  <2> HIDE DEF older
  <2>5. CASE tfstate # Torn
    <3>1. backed' = tfstate /\ tries' = 0 /\ tfstate \in Content
      BY <1>1, <2>5 DEF SnapshotState
    <3>2. snaps'[Len(snaps')] = tfstate
      BY <2>3, <2>4
    <3> QED
      BY <1>1, <2>3, <2>4, <3>1, <3>2 DEF TypedCopies, Stored
  <2>6. CASE tfstate = Torn
    <3>1. older = snaps
      <4>1. At(p, "snapshot")
        BY DEF SnapshotState
      <4> QED
        BY <2>1, <2>6, <4>1, NoSecondTorn DEF older, Older
    <3>2. backed' = backed /\ tries' = IF tries < Retain THEN tries + 1 ELSE tries
      BY <2>6 DEF SnapshotState
    <3> DEFINE n == Len(snaps)
               m == Len(snaps')
    <3>3. m = IF n + 1 < Retain THEN n + 1 ELSE Retain
      BY <2>3, <3>1
    <3>4. \A i \in 1 .. m : snaps'[i] = IF i = m THEN Torn ELSE snaps[n + 1 - m + i]
      BY <2>3, <2>6, <3>1
    <3>5. n \in Nat /\ m \in Nat /\ m >= 1 /\ m <= Retain /\ tries' \in 0 .. Retain
          /\ tries \in Nat /\ tries <= Retain /\ tries' \in Nat
      BY <1>1, <2>3, <2>4, <3>2
    <3>6. /\ \A i \in 1 .. n : i > n - tries => snaps[i] = Torn
          /\ backed # Missing /\ tries < Retain => tries < n /\ snaps[n - tries] = backed
      BY <1>1
    <3> HIDE DEF n, m
    <3>7. \A i \in 1 .. m : i > m - tries' => snaps'[i] = Torn
      <4> SUFFICES ASSUME NEW i \in 1 .. m, i > m - tries', i # m PROVE snaps[n + 1 - m + i] = Torn
        BY <3>4
      <4>1. n + 1 - m + i \in 1 .. n
        BY <1>1, <3>3, <3>5
      <4>2. n + 1 - m + i > n - tries
        BY <1>1, <3>2, <3>3, <3>5
      <4> QED
        BY <3>6, <4>1, <4>2
    <3>8. ASSUME backed' # Missing, tries' < Retain
          PROVE  tries' < m /\ snaps'[m - tries'] = backed'
      <4>1. tries' = tries + 1 /\ tries < Retain
        BY <1>1, <3>2, <3>5, <3>8
      <4>2. tries < n /\ snaps[n - tries] = backed
        BY <3>2, <3>6, <3>8, <4>1
      <4>3. tries' < m /\ m - tries' \in 1 .. m /\ m - tries' # m
        BY <1>1, <3>3, <3>5, <3>8, <4>1, <4>2
      <4>4. n + 1 - m + (m - tries') = n - tries
        BY <3>5, <4>1
      <4>5. snaps'[m - tries'] = snaps[n + 1 - m + (m - tries')]
        BY <3>4, <4>3
      <4> QED
        BY <3>2, <4>2, <4>3, <4>4, <4>5
    <3>9. TypedCopies'
      BY <1>1, <2>3, <2>4, <3>2, <3>5 DEF TypedCopies
    <3>10. Stored'
      BY <1>1, <2>6, <3>7, <3>8 DEF Stored, m
    <3> QED
      BY <3>9, <3>10
  <2> QED
    BY <2>5, <2>6
<1> QED
  BY <1>2, <1>3


LEMMA PruneStores ==
    ASSUME IInv, NEW p \in Procs, PruneExceptNewest(p)
    PROVE  TypedCopies' /\ Stored'
<1>1. CASE UNCHANGED <<tfstate, snaps, backed, tries>>
  BY <1>1 DEF IInv, Typed, TypedCopies, Stored
<1>2. CASE /\ tfstate' = Missing /\ backed' = Missing /\ tries' = 0
           /\ snaps' = IF snaps = <<>> THEN snaps ELSE <<snaps[Len(snaps)]>>
  <2>1. snaps \in Seq(Copy) /\ Len(snaps) \in Nat /\ Len(snaps) <= Retain /\ Retain \in Nat /\ Retain >= 1
    BY Kinds, LenProperties DEF IInv, Typed, TypedCopies
  <2>2. snaps' \in Seq(Copy) /\ Len(snaps') \in Nat /\ Len(snaps') <= Retain
    <3>1. CASE snaps = <<>>
      BY <1>2, <2>1, <3>1
    <3>2. CASE snaps # <<>>
      <4>1. Len(snaps) >= 1
        BY <2>1, <3>2, EmptySeq
      <4>2. snaps[Len(snaps)] \in Copy
        BY <2>1, <4>1, ElementOfSeq
      <4> QED
        BY <1>2, <2>1, <3>2, <4>2
    <3> QED
      BY <3>1, <3>2
  <2> QED
    BY <1>2, <2>1, <2>2, Kinds DEF TypedCopies, Stored
<1> QED
  BY <1>1, <1>2 DEF PruneExceptNewest

LEMMA CopiesKept ==
    ASSUME IInv, Next
    PROVE  TypedCopies' /\ Stored'
<1>1. CASE \E p \in Procs : SnapshotState(p) \/ PruneExceptNewest(p)
  BY <1>1, SnapshotStores, PruneStores
<1>2. CASE \A p \in Procs : ~SnapshotState(p) /\ ~PruneExceptNewest(p)
  <2>1. UNCHANGED <<snaps, backed, tries>>
    BY <1>2, Writes
  <2>2. tfstate # Torn \/ tfstate' = tfstate => (tfstate' # Torn => tries < Retain)
    BY DEF IInv, Stored
  <2>3. Restore => tries < Retain
    <3> SUFFICES ASSUME Restore, ~(tries < Retain) PROVE FALSE
      OBVIOUS
    <3>1. PICK i \in DOMAIN snaps : snaps[i] # Torn
      BY DEF Restore
    <3>2. /\ snaps \in Seq(Copy) /\ Len(snaps) \in Nat /\ Len(snaps) <= Retain /\ Retain \in Nat
          /\ tries \in 0 .. Retain /\ DOMAIN snaps = 1 .. Len(snaps)
      BY Kinds, LenProperties DEF IInv, Typed, TypedCopies
    <3>3. i \in 1 .. Len(snaps) /\ i > Len(snaps) - tries
      BY <3>1, <3>2
    <3> QED
      BY <3>1, <3>3 DEF IInv, Stored
  <2>4. child # NoChild => tfstate # Torn
    BY DEF IInv, Readable
  <2>5. tfstate' # Torn => tries < Retain
    BY <1>2, <2>2, <2>3, <2>4, Writes
  <2> QED
    BY <2>1, <2>5 DEF IInv, Typed, TypedCopies, Stored
<1> QED
  BY <1>1, <1>2

LEMMA OverrunKept ==
    ASSUME IInv, Next
    PROVE  overrun' \in BOOLEAN /\ Parented'
<1>1. overrun \in BOOLEAN /\ child \in AnyChild /\ "none" \notin Procs
  BY Kinds DEF IInv, Typed, TypedData
<1>2. ASSUME NEW p \in Procs, Works(p)
      PROVE  overrun' \in {overrun, FALSE} /\ (child' \in {child, NoChild} \/ child'.by = p)
  <2>1. CASE SnapshotState(p) \/ PruneExceptNewest(p)
    BY <2>1 DEF SnapshotState, PruneExceptNewest
  <2>2. CASE StartApply(p)
    BY <2>2 DEF StartApply
  <2>3. CASE ~SnapshotState(p) /\ ~PruneExceptNewest(p) /\ ~StartApply(p)
    BY <1>2, <2>3 DEF Works, DeferPlans, Return, InitDriver, PlanTerraform, Sentinel, StartListing,
       Shown, RefuseTruncated, Gate, Inventory, Applied, StateStatus, WriteOverride,
       RefuseOverride, CleanupPlans, Refused
  <2> QED
    BY <2>1, <2>2, <2>3
<1>3. ASSUME NEW v \in VM, ChildCreates(v) \/ ChildDeletes(v)
      PROVE  overrun' \in BOOLEAN /\ child'.by # "none"
  <2>1. child # NoChild
    BY <1>3 DEF ChildCreates, ChildDeletes, NoChild
  <2>2. child.by # "none"
    BY <2>1 DEF IInv, Parented
  <2>3. child'.by = child.by
    BY <1>1, <1>3 DEF ChildCreates, ChildDeletes, AnyChild
  <2> QED
    BY <1>3, <2>2, <2>3 DEF ChildCreates, ChildDeletes
<1>4. ASSUME ChildWrites \/ ParentReads \/ OrphanEnds \/ \E p \in Procs : ChildFails(p)
      PROVE  overrun' = overrun /\ child' \in {child, NoChild}
  BY <1>4 DEF ChildWrites, ParentReads, OrphanEnds, ChildFails
<1>5. ASSUME Breaks
      PROVE  overrun' = overrun /\ (child' \in {child, NoChild} \/ child'.by = "orphan")
  <2>1. [child EXCEPT !.by = "orphan"].by = "orphan"
    BY <1>1 DEF AnyChild
  <2> QED
    BY <1>5, <2>1 DEF Breaks, Fail, KillChild, Crash, Killed
<1>6. ASSUME Restore \/ RemoveStaleOverride \/ \E p \in Procs, cmd \in Commands : Acquire(p, cmd)
      PROVE  overrun' = overrun /\ child' = child
  BY <1>6 DEF Restore, RemoveStaleOverride, Acquire
<1>7. CASE child' \in {child, NoChild} /\ overrun' \in {overrun, FALSE}
  BY <1>1, <1>7 DEF IInv, Parented
<1>8. CASE child'.by # "none" /\ overrun' \in BOOLEAN
  BY <1>8 DEF Parented
<1> QED
  BY <1>1, <1>2, <1>3, <1>4, <1>5, <1>6, <1>7, <1>8 DEF Next, Child

LEMMA PipeKept ==
    ASSUME IInv, Next
    PROVE  TypedPipe'
<1>1. NoPipe \in AnyPipe /\ NoPipe.read <= NoPipe.written /\ NoPipe.written <= NoPipe.size
  BY DEF NoPipe, AnyPipe
<1>2. CASE pipe' \in {pipe, NoPipe}
  BY <1>1, <1>2 DEF IInv, Typed, TypedPipe
<1>3. /\ pipe \in AnyPipe /\ pipe.size \in Nat /\ pipe.written \in Nat /\ pipe.read \in Nat
      /\ pipe.read <= pipe.written /\ pipe.written <= pipe.size
  BY DEF IInv, Typed, TypedPipe, AnyPipe
<1>4. CASE ChildWrites
  <2>1. pipe.written + 1 \in Nat /\ pipe.written + 1 <= pipe.size /\ pipe.read <= pipe.written + 1
    BY <1>3, <1>4 DEF ChildWrites
  <2>2. pipe' = [pipe EXCEPT !.written = pipe.written + 1]
    BY <1>4 DEF ChildWrites
  <2>3. /\ pipe' \in AnyPipe /\ pipe'.written = pipe.written + 1 /\ pipe'.read = pipe.read
        /\ pipe'.size = pipe.size
    BY <1>3, <2>1, <2>2 DEF AnyPipe
  <2> QED
    BY <2>1, <2>3 DEF TypedPipe
<1>5. CASE ParentReads
  <2>1. pipe.read + 1 \in Nat /\ pipe.read + 1 <= pipe.written
    BY <1>3, <1>5 DEF ParentReads
  <2>2. pipe' = [pipe EXCEPT !.read = pipe.read + 1]
    BY <1>5 DEF ParentReads
  <2>3. /\ pipe' \in AnyPipe /\ pipe'.written = pipe.written /\ pipe'.read = pipe.read + 1
        /\ pipe'.size = pipe.size
    BY <1>3, <2>1, <2>2 DEF AnyPipe
  <2> QED
    BY <1>3, <2>1, <2>3 DEF TypedPipe
<1>6. ASSUME NEW p \in Procs, StartListing(p) PROVE TypedPipe'
  <2>1. PICK size \in Outputs :
          pipe' = [by |-> p, size |-> size, written |-> 0, read |-> 0, listing |-> Managed(tfstate)]
    BY <1>6 DEF StartListing
  <2>2. size \in Nat
    BY DriverAssumption
  <2>3. Managed(tfstate) \in SUBSET VM
    <3>1. tfstate \in Content
      BY <1>6 DEF StartListing, IInv, Typed, TypedData
    <3> QED
      BY <3>1 DEF Managed, Content, Missing
  <2> QED
    BY <2>1, <2>2, <2>3 DEF TypedPipe, AnyPipe
<1>7. ASSUME NEW p \in Procs, Works(p), ~StartListing(p) PROVE pipe' \in {pipe, NoPipe}
  BY <1>7 DEF Works, SnapshotState, PruneExceptNewest, DeferPlans, Return, InitDriver, PlanTerraform,
     Sentinel, Shown, RefuseTruncated, Gate, Inventory, StartApply, Applied, StateStatus,
     WriteOverride, RefuseOverride, CleanupPlans, Refused
<1>8. ASSUME Breaks PROVE pipe' \in {pipe, NoPipe}
  BY <1>8 DEF Breaks, Fail, KillChild, Crash
<1>9. ASSUME Child, ~ChildWrites, ~ParentReads PROVE pipe' \in {pipe, NoPipe}
  BY <1>9 DEF Child, OrphanEnds, ChildCreates, ChildDeletes, ChildFails
<1>10. ASSUME Restore \/ RemoveStaleOverride \/ \E p \in Procs, cmd \in Commands : Acquire(p, cmd)
       PROVE  pipe' \in {pipe, NoPipe}
  BY <1>10 DEF Restore, RemoveStaleOverride, Acquire
<1> QED
  BY <1>2, <1>4, <1>5, <1>6, <1>7, <1>8, <1>9, <1>10 DEF Next


LEMMA DataKept ==
    ASSUME IInv, Next
    PROVE  TypedData'
<1>1. /\ tfstate \in Content \cup {Torn} /\ vms \in SUBSET VM /\ child \in AnyChild
      /\ sentinel \in BOOLEAN /\ faults \in 0 .. MaxFaults /\ MaxFaults \in Nat
      /\ plans \in [PlanFile -> AnyPlan] /\ Missing \in Content
  BY DriverAssumption, Kinds DEF IInv, Typed, TypedControl, TypedData
<1>2. NoChild \in AnyChild
  BY DEF NoChild, AnyChild
<1>3. Fault => faults' \in 0 .. MaxFaults
  BY <1>1 DEF Fault
<1>4. tfstate # Torn => Managed(tfstate) \in SUBSET VM
  BY <1>1 DEF Managed, Content, Missing
<1>5. ASSUME NEW p \in Procs, Works(p), ~StartApply(p)
      PROVE  /\ tfstate' \in {tfstate, Missing} /\ vms' = vms /\ child' \in {child, NoChild}
             /\ sentinel' \in BOOLEAN /\ faults' \in 0 .. MaxFaults
  <2>1. CASE WriteOverride(p)
    BY <1>1, <1>3, <2>1 DEF WriteOverride
  <2>2. CASE ~WriteOverride(p)
    BY <1>1, <1>5, <2>2 DEF Works, SnapshotState, PruneExceptNewest, DeferPlans, Return, InitDriver,
       PlanTerraform, Sentinel, StartListing, Shown, RefuseTruncated, Gate, Inventory, Applied,
       StateStatus, RefuseOverride, CleanupPlans, Refused
  <2> QED
    BY <2>1, <2>2
<1>6. ASSUME NEW p \in Procs, StartApply(p) PROVE TypedData'
  <2>1. tfstate # Torn
    BY <1>6 DEF StartApply, CanApply
  <2>2. FileOf(p) \in PlanFile
    BY DEF FileOf, PlanFile
  <2>3. plans[FileOf(p)].create \in SUBSET VM /\ plans[FileOf(p)].delete \in SUBSET VM
    BY <1>1, <2>2 DEF AnyPlan
  <2>4. {"worker"} \ Managed(tfstate) \in SUBSET VM
    BY DEF VM
  <2>5. child' \in AnyChild
    BY <1>6, <2>3, <2>4 DEF StartApply, AnyChild
  <2> QED
    BY <1>1, <1>6, <2>5 DEF StartApply, TypedData
<1>7. ASSUME NEW v \in VM, ChildCreates(v) \/ ChildDeletes(v) PROVE TypedData'
  <2>1. child # NoChild
    BY <1>7 DEF ChildCreates, ChildDeletes, NoChild
  <2>2. tfstate # Torn
    BY <2>1 DEF IInv, Readable
  <2>3. tfstate' \in SUBSET VM /\ vms' \in SUBSET VM
    BY <1>1, <1>4, <1>7, <2>2 DEF ChildCreates, ChildDeletes
  <2>4. child' \in AnyChild
    BY <1>1, <1>7 DEF ChildCreates, ChildDeletes, AnyChild
  <2> QED
    BY <1>1, <1>7, <2>3, <2>4 DEF ChildCreates, ChildDeletes, TypedData, Content
<1>8. Killed => tfstate' \in Content \cup {Torn} /\ vms' \in SUBSET VM /\ child' \in AnyChild
  <2>1. \A v \in child.create \ vms : vms \cup {v} \in SUBSET VM
    BY <1>1 DEF AnyChild
  <2> QED
    BY <1>1, <1>2, <2>1 DEF Killed
<1>9. ASSUME NEW p \in Procs, Fail(p) \/ KillChild(p) \/ Crash(p) \/ ChildFails(p) PROVE TypedData'
  <2>1. CASE Fail(p)
    BY <1>1, <1>3, <2>1 DEF Fail, TypedData
  <2>2. CASE KillChild(p)
    BY <1>1, <1>3, <1>8, <2>2 DEF KillChild, TypedData
  <2>3. CASE Crash(p)
    <3>1. [child EXCEPT !.by = "orphan"] \in AnyChild
      BY <1>1 DEF AnyChild
    <3> QED
      BY <1>1, <1>3, <1>8, <2>3, <3>1 DEF Crash, TypedData
  <2>4. CASE ChildFails(p)
    BY <1>1, <1>2, <1>3, <2>4 DEF ChildFails, TypedData
  <2> QED
    BY <1>9, <2>1, <2>2, <2>3, <2>4
<1>10. CASE Restore
  <2>1. snaps \in Seq(Copy) /\ DOMAIN snaps = 1 .. Len(snaps)
    BY LenProperties DEF IInv, Typed, TypedCopies
  <2>2. PICK i \in DOMAIN snaps : snaps[i] # Torn /\ tfstate' = snaps[i]
    BY <1>10 DEF Restore
  <2>3. snaps[i] \in Copy
    BY <2>1, ElementOfSeq
  <2>4. tfstate' \in Content
    BY <2>2, <2>3 DEF Copy, Content
  <2> QED
    BY <1>1, <1>10, <2>4 DEF Restore, TypedData
<1>11. CASE \/ ChildWrites \/ ParentReads \/ RemoveStaleOverride
            \/ \E p \in Procs, cmd \in Commands : Acquire(p, cmd)
  BY <1>1, <1>11 DEF ChildWrites, ParentReads, RemoveStaleOverride, Acquire, TypedData
<1>12. CASE OrphanEnds
  BY <1>1, <1>2, <1>12 DEF OrphanEnds, TypedData
<1>13. ASSUME NEW p \in Procs, Works(p), ~StartApply(p) PROVE TypedData'
  BY <1>1, <1>2, <1>5, <1>13 DEF TypedData
<1> QED
  BY <1>6, <1>7, <1>9, <1>10, <1>11, <1>12, <1>13 DEF Next, Child, Breaks

LEMMA ControlKept ==
    ASSUME IInv, Next
    PROVE  TypedControl' /\ Session' /\ GuardHolds' /\ Gated' /\ Readable' /\ Copied'
<1>1. TypedControl
  BY DEF IInv, Typed
<1>2. ASSUME NEW p \in Procs, Turn(p)
      PROVE  TypedControl' /\ Session' /\ GuardHolds' /\ Gated' /\ Readable' /\ Copied'
  <2>1. TypedControl'
    BY <1>1, <1>2 DEF Turn, TypedControl, Ended, WentOn, Alone
  <2> QED
    BY <1>2, <2>1, TurnKeeps
<1>3. ASSUME Stay
      PROVE  TypedControl' /\ Session' /\ GuardHolds' /\ Gated' /\ Readable' /\ Copied'
  <2>1. TypedControl'
    BY <1>1, <1>3 DEF Stay, TypedControl
  <2> QED
    BY <1>3, <2>1, StayKeeps
<1>4. ASSUME NEW p \in Procs, Works(p)
      PROVE  TypedControl' /\ Session' /\ GuardHolds' /\ Gated' /\ Readable' /\ Copied'
  <2>1. CASE StartListing(p)
    BY <1>3, <2>1, OthersStay
  <2>2. CASE StartApply(p)
    BY <1>3, <2>2, ApplyStays
  <2>3. CASE ~StartListing(p) /\ ~StartApply(p)
    BY <1>2, <1>4, <2>3, Turns
  <2> QED
    BY <2>1, <2>2, <2>3
<1>5. CASE Child
  BY <1>2, <1>3, <1>5, BreakTurns, OthersStay DEF Child
<1>6. CASE Breaks
  BY <1>2, <1>6, BreakTurns DEF Breaks
<1>7. CASE Restore \/ RemoveStaleOverride
  BY <1>3, <1>7, OthersStay
<1> QED
  BY <1>4, <1>5, <1>6, <1>7, AcquireKeeps DEF Next

LEMMA Inductive == IInv /\ [Next]_vars => IInv'
<1>1. ASSUME IInv, Next PROVE IInv'
  BY <1>1, ControlKept, DataKept, PipeKept, CopiesKept, OverrunKept DEF IInv, Typed
<1>2. ASSUME IInv, UNCHANGED vars PROVE IInv'
  <2>1. Typed'
    BY <1>2 DEF vars, IInv, Typed, TypedControl, TypedData, TypedPipe, TypedCopies
  <2>2. Session' /\ GuardHolds'
    BY <1>2 DEF vars, IInv, Session, GuardHolds, Running, AtApply, At
  <2>3. Gated' /\ Readable' /\ Stored'
    BY <1>2 DEF vars, IInv, Gated, OnlyChange, Readable, Running, Stored
  <2>4. Copied' /\ Parented'
    BY <1>2 DEF vars, IInv, Copied, Matched, Parented, Running
  <2> QED
    BY <2>1, <2>2, <2>3, <2>4 DEF IInv
<1> QED
  BY <1>1, <1>2

LEMMA Initial == Init => IInv
<1> SUFFICES ASSUME Init PROVE IInv
  OBVIOUS
<1>1. Missing \in Content /\ Torn # Missing /\ "none" \notin Procs /\ Retain \in Nat /\ Retain >= 1
      /\ MaxFaults \in Nat /\ Torn \in Copy
  BY Kinds, DriverAssumption DEF Content
<1>2. NotRunning \in ProcState /\ NotRunning.cmd = "none" /\ NotRunning.step = 0
  BY DEF NotRunning, ProcState
<1>3. NoChild \in AnyChild /\ NoChild.by = "none" /\ NoPlan \in AnyPlan
  BY DEF NoChild, AnyChild, NoPlan, AnyPlan
<1>4. NoPipe \in AnyPipe /\ NoPipe.read <= NoPipe.written /\ NoPipe.written <= NoPipe.size
  BY DEF NoPipe, AnyPipe
<1>5. snaps \in Seq(Copy) /\ Len(snaps) = 0
  BY DEF Init
<1>6. Typed
  <2>1. TypedControl
    BY <1>2, <1>3 DEF Init, TypedControl
  <2>2. TypedData
    <3>1. /\ tfstate = Missing /\ vms = {} /\ child = NoChild /\ sentinel = FALSE /\ faults = 0
      BY DEF Init
    <3>2. 0 \in 0 .. MaxFaults
      BY <1>1
    <3> QED
      BY <1>1, <1>3, <3>1, <3>2 DEF TypedData
  <2>3. TypedPipe
    BY <1>4 DEF Init, TypedPipe
  <2>4. TypedCopies
    BY <1>1, <1>5 DEF Init, TypedCopies
  <2> QED
    BY <2>1, <2>2, <2>3, <2>4 DEF Typed, Init
<1>7. \A p \in Procs : ~Running(p) /\ child.by # p /\ proc[p].cmd = "none"
  BY <1>1, <1>2, <1>3 DEF Init, Running
<1>8. Session /\ GuardHolds /\ Gated /\ Readable /\ Stored /\ Copied /\ Parented
  BY <1>1, <1>5, <1>7
     DEF Init, Session, GuardHolds, Gated, Readable, Stored, Copied, Parented, TargetedCmd
<1> QED
  BY <1>6, <1>8 DEF IInv

LEMMA Invariance == Spec => []IInv
BY Initial, Inductive, PTL DEF Spec

-----------------------------------------------------------------------------
(* What the runs check, for every instance *)

\* Every variable keeps its type: at most Retain copies are kept, each of what a state
\* can record or of a torn one, and the listing a parent reads is no longer than written.
THEOREM WellTyped == Spec => []TypeOK
<1>1. IInv => TypeOK
  <2> SUFFICES ASSUME IInv PROVE TypeOK
    OBVIOUS
  <2>1. snaps \in Seq(Content \cup {Torn})
    <3>1. Copy \subseteq Content \cup {Torn}
      BY DEF Copy, Content
    <3>2. snaps \in Seq(Copy)
      BY DEF IInv, Typed, TypedCopies
    <3> HIDE DEF Copy
    <3> QED
      BY <3>1, <3>2, SeqMonotonic
  <2> QED
    BY <2>1 DEF IInv, Typed, TypedControl, TypedData, TypedPipe, TypedCopies, ProcState, AnyPlan,
       AnyChild, TypeOK
<1> QED
  BY <1>1, Invariance, PTL

\* While a command other than a destroy applies, the override that lifts the masters'
\* prevent_destroy is not in the module, whatever a killed destroy or a preview left.
THEOREM OverrideNeverLeaks == Spec => []GuardHolds
<1>1. IInv => GuardHolds
  BY DEF IInv
<1> QED
  BY <1>1, Invariance, PTL


LEMMA VmsChange ==
    ASSUME Next
    PROVE  \/ vms' = vms
           \/ \E v \in child.create : vms' = vms \cup {v}
           \/ \E v \in child.delete : vms' = vms \ {v}
<1>1. ASSUME NEW p \in Procs, Works(p) PROVE vms' = vms
  BY <1>1 DEF Works, SnapshotState, PruneExceptNewest, DeferPlans, Return, InitDriver, PlanTerraform,
     Sentinel, StartListing, Shown, RefuseTruncated, Gate, Inventory, StartApply, Applied,
     StateStatus, WriteOverride, RefuseOverride, CleanupPlans, Refused
<1>2. Killed => vms' = vms \/ \E v \in child.create : vms' = vms \cup {v}
  BY DEF Killed
<1>3. CASE Child
  BY <1>3 DEF Child, ChildWrites, ParentReads, OrphanEnds, ChildCreates, ChildDeletes, ChildFails
<1>4. CASE Breaks
  BY <1>2, <1>4 DEF Breaks, Fail, KillChild, Crash
<1> QED
  BY <1>1, <1>3, <1>4 DEF Next, Acquire, Restore, RemoveStaleOverride

\* A node operation's apply changes no VM but its target, in the direction asked for,
\* whatever the plan file held and whoever else ran in between.
THEOREM OnlyTheGatedChange == Spec => AppliesAsGated
<1> DEFINE Asked ==
        \A p \in Procs :
            /\ child.by = p /\ proc[p].cmd \in {"add", "add-resumed", "remove"}
            => IF proc[p].cmd = "remove"
               THEN vms' \in {vms, vms \ {"worker"}} ELSE vms' \in {vms, vms \cup {"worker"}}
<1>1. ASSUME IInv, [Next]_vars PROVE [Asked]_vars
  <2> SUFFICES ASSUME Next, NEW p \in Procs, child.by = p, proc[p].cmd \in TargetedCmd
               PROVE  IF proc[p].cmd = "remove"
                      THEN vms' \in {vms, vms \ {"worker"}} ELSE vms' \in {vms, vms \cup {"worker"}}
    BY <1>1 DEF TargetedCmd
  <2>1. IF proc[p].cmd = "remove" THEN child.create = {} /\ child.delete \subseteq {"worker"}
        ELSE child.create \subseteq {"worker"} /\ child.delete = {}
    BY <1>1 DEF IInv, Gated
  <2> QED
    BY <2>1, VmsChange
<1>2. Spec => [][Asked]_vars
  <2> HIDE DEF Asked
  <2> QED
    BY <1>1, Invariance, PTL DEF Spec
<1> QED
  BY <1>2 DEF AppliesAsGated

-----------------------------------------------------------------------------
(* The state file is a store that is backed up before an apply *)

\* What is written has a copy, unless there was nothing to copy.
LEMMA CopiedBefore ==
    ASSUME IInv, tfstate # Torn
    PROVE  backed = Missing \/ backed \in ToSet(snaps)
<1>1. snaps \in Seq(Copy) /\ Len(snaps) \in Nat /\ DOMAIN snaps = 1 .. Len(snaps) /\ tries \in Nat
  BY Kinds, LenProperties DEF IInv, Typed, TypedCopies
<1>2. backed # Missing => tries < Len(snaps) /\ snaps[Len(snaps) - tries] = backed
  BY DEF IInv, Stored
<1>3. backed # Missing => Len(snaps) - tries \in DOMAIN snaps
  BY <1>1, <1>2
<1> QED
  BY <1>2, <1>3 DEF ToSet

\* The apply under way, in the terms of StateStore.
Under == CASE child.by = "none" -> "none"
           [] child.by = "orphan" -> "orphan"
           [] OTHER -> "attended"

LEMMA Unders ==
    ASSUME IInv
    PROVE  /\ Under = "none" <=> child = NoChild
           /\ Under = "orphan" <=> child.by = "orphan"
           /\ Under = "attended" <=> child.by \in Procs
           /\ Under \in {"none", "orphan", "attended"}
<1>1. child \in AnyChild /\ "none" \notin Procs /\ "orphan" \notin Procs
  BY Kinds DEF IInv, Typed, TypedData
<1>2. child.by \in Procs \cup {"none", "orphan"}
  BY <1>1 DEF AnyChild
<1>3. child.by = "none" <=> child = NoChild
  BY DEF IInv, Parented, NoChild
<1> QED
  BY <1>1, <1>2, <1>3 DEF Under

LEMMA SnapshotBacksUp ==
    ASSUME IInv, IInv', NEW p \in Procs, SnapshotState(p)
    PROVE  Store!BackUp \/ Store!BackUpTorn
<1>1. /\ snaps \in Seq(Copy) /\ DOMAIN snaps = 1 .. Len(snaps)
      /\ snaps' \in Seq(Copy) /\ DOMAIN snaps' = 1 .. Len(snaps')
      /\ Len(snaps) \in Nat /\ Len(snaps') \in Nat /\ tfstate' = tfstate
      /\ tries \in 0 .. Retain /\ Retain \in Nat /\ Missing \notin Copy /\ Torn # Missing
      /\ tfstate \in Content \cup {Torn} /\ tries' \in 0 .. Retain
  BY Kinds, LenProperties DEF IInv, Typed, TypedData, TypedCopies, SnapshotState
<1> DEFINE free == Under # "attended" /\ UNCHANGED Under
<1>4. free
  <2>1. Running(p) /\ At(p, "snapshot") /\ child' = child
    BY DEF SnapshotState, At
  <2>2. child.by \notin Procs
    BY <2>1, Where DEF ApplySteps
  <2> QED
    BY <2>1, <2>2, Unders DEF Under
<1>2. CASE tfstate = Missing
  BY <1>1, <1>2, <1>4 DEF SnapshotState, Store!BackUp, Under
<1>3. CASE tfstate # Missing
  <2>1. PICK same \in BOOLEAN : /\ same => proc[p].snapped /\ snaps # <<>>
                                /\ snaps' = Snapshotted(tfstate, same)
    BY <1>3 DEF SnapshotState
  <2>2. tfstate \in Copy
    BY <1>1, <1>3 DEF Content, Copy
  <2>3. Pushed(Older(same), snaps', tfstate)
    BY <2>1, <2>2, Newest
  <2>4. Len(Older(same)) \in Nat
    BY <2>3, LenProperties DEF Pushed
  <2>5. Len(snaps') >= 1 /\ snaps'[Len(snaps')] = tfstate
    <3>1. Retain \in Nat /\ Retain >= 1
      BY Kinds
    <3>2. /\ Len(snaps') = IF Len(Older(same)) + 1 < Retain THEN Len(Older(same)) + 1 ELSE Retain
          /\ \A i \in 1 .. Len(snaps') : i = Len(snaps') => snaps'[i] = tfstate
      BY <2>3 DEF Pushed
    <3>3. Len(snaps') >= 1
      BY <2>4, <3>1, <3>2
    <3>4. Len(snaps') \in 1 .. Len(snaps')
      BY <1>1, <3>3
    <3> QED
      BY <3>2, <3>3, <3>4
  <2>6. \A i \in DOMAIN snaps' : snaps'[i] = tfstate \/ snaps'[i] \in ToSet(snaps)
    <3> SUFFICES ASSUME NEW i \in 1 .. Len(snaps'), i # Len(snaps') PROVE snaps'[i] \in ToSet(snaps)
      BY <1>1, <2>5
    <3> DEFINE j == Len(Older(same)) + 1 - Len(snaps') + i
    <3>1. j \in 1 .. Len(Older(same))
      BY <1>1, <2>3, <2>4 DEF Pushed
    <3>2. snaps'[i] = Older(same)[j] /\ j \in DOMAIN snaps /\ Older(same)[j] = snaps[j]
      BY <1>1, <2>3, <3>1 DEF Pushed
    <3> QED
      BY <3>2 DEF ToSet
  <2>7. ToSet(snaps') \in SUBSET (ToSet(snaps) \cup {tfstate})
    BY <2>6 DEF ToSet
  <2>8. tfstate \in ToSet(snaps')
    BY <1>1, <2>5 DEF ToSet
  <2>9. CASE tfstate # Torn
    BY <1>1, <1>3, <1>4, <2>7, <2>8, <2>9 DEF SnapshotState, Store!BackUp, Under
  <2>10. CASE tfstate = Torn
    <3>1. /\ backed' = backed /\ overrun' = overrun
          /\ tries' = IF tries < Retain THEN tries + 1 ELSE Retain
      BY <1>1, <2>10 DEF SnapshotState
    <3>2. backed \in ToSet(snaps) => backed # Missing
      BY <1>1, ElementOfSeq DEF ToSet
    <3>3. tries' < Retain /\ backed # Missing => backed \in ToSet(snaps')
      <4> SUFFICES ASSUME tries' < Retain, backed # Missing PROVE backed \in ToSet(snaps')
        OBVIOUS
      <4>1. tries' < Len(snaps') /\ snaps'[Len(snaps') - tries'] = backed
        BY <3>1 DEF IInv, Stored
      <4>2. Len(snaps') - tries' \in DOMAIN snaps'
        BY <1>1, <4>1
      <4> QED
        BY <4>1, <4>2 DEF ToSet
    <3> QED
      BY <1>1, <1>4, <2>7, <2>10, <3>1, <3>2, <3>3 DEF Store!BackUpTorn, Under
  <2> QED
    BY <2>9, <2>10
<1> QED
  BY <1>2, <1>3

LEMMA PruneForgets ==
    ASSUME IInv, NEW p \in Procs, PruneExceptNewest(p)
    PROVE  Store!Forget \/ UNCHANGED Store!vars
<1>4. child' = child /\ Under # "attended" /\ UNCHANGED Under
  <2>1. Running(p) /\ At(p, "prune") /\ child' = child
    BY DEF PruneExceptNewest, At
  <2>2. child.by \notin Procs
    BY <2>1, Where DEF ApplySteps
  <2> QED
    BY <2>1, <2>2, Unders DEF Under
<1>1. CASE UNCHANGED <<tfstate, snaps, backed, tries, overrun>>
  BY <1>1, <1>4 DEF Store!vars
<1>2. CASE /\ Managed(tfstate) = {} /\ tfstate' = Missing /\ backed' = Missing /\ tries' = 0
           /\ overrun' = FALSE
           /\ snaps' = IF snaps = <<>> THEN snaps ELSE <<snaps[Len(snaps)]>>
  <2>1. tfstate # Torn
    BY <1>2 DEF Managed, Torn, Missing
  <2>2. snaps \in Seq(Copy) /\ Len(snaps) \in Nat /\ DOMAIN snaps = 1 .. Len(snaps)
    BY LenProperties DEF IInv, Typed, TypedCopies
  <2>3. CASE snaps = <<>>
    BY <1>2, <1>4, <2>1, <2>3, Kinds DEF Store!Forget, Under
  <2>4. CASE snaps # <<>>
    <3>1. Len(snaps) >= 1
      BY <2>2, <2>4, EmptySeq
    <3>2. snaps' = <<snaps[Len(snaps)]>>
      BY <1>2, <2>4
    <3>3. ToSet(snaps') = {snaps[Len(snaps)]}
      BY <3>2 DEF ToSet
    <3>4. snaps[Len(snaps)] \in ToSet(snaps)
      BY <2>2, <3>1 DEF ToSet
    <3> QED
      BY <1>2, <1>4, <2>1, <3>3, <3>4, Kinds DEF Store!Forget, Under
  <2> QED
    BY <2>3, <2>4
<1> QED
  BY <1>1, <1>2 DEF PruneExceptNewest

\* An apply starts on a content that was copied.
LEMMA ApplyBegins ==
    ASSUME IInv, IInv', NEW p \in Procs, StartApply(p)
    PROVE  Store!Begin
<1>1. /\ Running(p) /\ AtApply(p) /\ child = NoChild /\ tfstate # Torn /\ child'.by = p
      /\ UNCHANGED <<tfstate, snaps, backed, tries, overrun>>
  BY DEF StartApply, CanApply, AtApply, At
<1>2. CopiedAt(proc[p].cmd, proc[p].step)
  <2>1. PICK name \in ApplySteps : At(p, name)
    BY <1>1 DEF AtApply
  <2>2. Spot(proc[p].cmd, proc[p].step, name)
    BY <1>1, <2>1, Where
  <2> QED
    BY <2>2 DEF ApplySteps, Spot, CopiedAt
<1>3. tfstate = backed \/ overrun
  BY <1>1, <1>2, NoOneAttended DEF IInv, Copied, Matched
<1>4. Under = "none" /\ Under' = "attended"
  <2>1. Under = "none"
    BY <1>1, Unders
  <2>2. child'.by # "none" /\ child'.by # "orphan"
    BY <1>1, Kinds
  <2> QED
    BY <2>1, <2>2 DEF Under
<1> QED
  BY <1>1, <1>3, <1>4, CopiedBefore DEF Store!Begin, Store!Kept, Under

\* A child that writes, or is killed in the middle.
LEMMA ChildrenWrite ==
    ASSUME IInv, NEW v \in VM, ChildCreates(v) \/ ChildDeletes(v)
    PROVE  Store!Write
<1>1. child # NoChild /\ child \in AnyChild
  BY DEF ChildCreates, ChildDeletes, NoChild, IInv, Typed, TypedData
<1>2. tfstate # Torn /\ tfstate \in Content
  BY <1>1 DEF IInv, Readable, Typed, TypedData
<1>3. Managed(tfstate) \in SUBSET VM
  BY <1>2 DEF Managed, Content, Missing
<1>4. tfstate' \in Content
  BY <1>3 DEF ChildCreates, ChildDeletes, Content
<1>5. /\ Under # "none" /\ Under' = Under /\ overrun' = (overrun \/ Under = "orphan")
      /\ UNCHANGED <<snaps, backed, tries>>
  <2>1. child'.by = child.by
    BY <1>1 DEF ChildCreates, ChildDeletes, AnyChild
  <2>2. Under # "none" /\ (Under = "orphan" <=> child.by = "orphan")
    BY <1>1, Unders
  <2> QED
    BY <2>1, <2>2 DEF Under, ChildCreates, ChildDeletes
<1> QED
  BY <1>2, <1>4, <1>5, CopiedBefore DEF Store!Write, Store!Kept, Under

LEMMA BreaksEnd ==
    ASSUME IInv, IInv', NEW p \in Procs, Fail(p) \/ KillChild(p) \/ Crash(p) \/ ChildFails(p)
    PROVE  Store!Write \/ Store!End \/ Store!Orphan \/ UNCHANGED Store!vars
<1>1. UNCHANGED <<snaps, backed, tries, overrun>> /\ overrun \in BOOLEAN
  BY DEF Fail, KillChild, Crash, ChildFails, IInv, Typed
<1>2. CASE child' = child /\ tfstate' = tfstate
  BY <1>1, <1>2 DEF Store!vars
<1>3. CASE child.by = p /\ child' = NoChild /\ tfstate' \in {tfstate, Torn}
  <2>1. Under = "attended" /\ Under' = "none" /\ tfstate # Torn
    <3>1. child # NoChild
      BY <1>3, NoOneAttended
    <3> QED
      BY <1>3, <3>1, Unders DEF IInv, Readable, Under, NoChild
  <2>2. CASE tfstate' = tfstate
    BY <1>1, <2>1, <2>2 DEF Store!End, Under
  <2>3. CASE tfstate' = Torn
    BY <1>1, <2>1, <2>3, CopiedBefore DEF Store!Write, Store!Kept, Under
  <2> QED
    BY <1>3, <2>2, <2>3
<1>4. CASE child.by = p /\ child' = [child EXCEPT !.by = "orphan"] /\ tfstate' = tfstate
  <2>1. child \in AnyChild
    BY DEF IInv, Typed, TypedData
  <2>2. child'.by = "orphan"
    BY <1>4, <2>1 DEF AnyChild
  <2>3. Under = "attended" /\ Under' = "orphan"
    BY <1>4, <2>2, Unders DEF Under
  <2> QED
    BY <1>1, <1>4, <2>3 DEF Store!Orphan, Under
<1>5. ASSUME Killed PROVE child' = NoChild /\ tfstate' \in {tfstate, Torn}
  BY <1>5 DEF Killed
<1> QED
  BY <1>2, <1>3, <1>4, <1>5 DEF Fail, KillChild, Crash, ChildFails

LEMMA StoreSteps == IInv /\ IInv' /\ [Next]_vars => [Store!Next]_(Store!vars)
<1> SUFFICES ASSUME IInv, IInv', [Next]_vars PROVE Store!Next \/ UNCHANGED Store!vars
  OBVIOUS
<1>1. CASE UNCHANGED vars
  BY <1>1 DEF vars, Store!vars
<1>2. ASSUME UNCHANGED <<tfstate, snaps, backed, tries, child, overrun>>
      PROVE  UNCHANGED Store!vars
  BY <1>2 DEF Store!vars
<1>3. ASSUME NEW p \in Procs, Works(p) PROVE Store!Next \/ UNCHANGED Store!vars
  <2>1. CASE SnapshotState(p)
    BY <2>1, SnapshotBacksUp DEF Store!Next
  <2>2. CASE PruneExceptNewest(p)
    BY <2>2, PruneForgets DEF Store!Next
  <2>3. CASE StartApply(p)
    BY <2>3, ApplyBegins DEF Store!Next
  <2>4. CASE Applied(p)
    <3>1. UNCHANGED <<tfstate, snaps, backed, tries, overrun>> /\ child.by = p /\ child' = NoChild
      BY <2>4 DEF Applied
    <3>2. Under = "attended" /\ Under' = "none"
      BY <3>1, Unders DEF Under, NoChild
    <3> QED
      BY <3>1, <3>2 DEF Store!Next, Store!End, Under
  <2>5. ASSUME ~SnapshotState(p), ~PruneExceptNewest(p), ~StartApply(p), ~Applied(p)
        PROVE  UNCHANGED <<tfstate, snaps, backed, tries, child, overrun>>
    BY <1>3, <2>5 DEF Works, DeferPlans, Return, InitDriver, PlanTerraform, Sentinel, StartListing,
       Shown, RefuseTruncated, Gate, Inventory, StateStatus, WriteOverride, RefuseOverride,
       CleanupPlans, Refused
  <2> QED
    BY <1>2, <2>1, <2>2, <2>3, <2>4, <2>5
<1>4. CASE Child
  <2>1. CASE \E v \in VM : ChildCreates(v) \/ ChildDeletes(v)
    BY <2>1, ChildrenWrite DEF Store!Next
  <2>2. CASE \E p \in Procs : ChildFails(p)
    BY <2>2, BreaksEnd DEF Store!Next
  <2>3. CASE OrphanEnds
    <3>1. UNCHANGED <<tfstate, snaps, backed, tries, overrun>> /\ child.by = "orphan" /\ child' = NoChild
      BY <2>3 DEF OrphanEnds
    <3>2. Under = "orphan" /\ Under' = "none"
      BY <3>1, Unders DEF Under, NoChild
    <3> QED
      BY <3>1, <3>2 DEF Store!Next, Store!End, Under
  <2>4. ASSUME ChildWrites \/ ParentReads PROVE UNCHANGED Store!vars
    BY <1>2, <2>4 DEF ChildWrites, ParentReads
  <2> QED
    BY <1>4, <2>1, <2>2, <2>3, <2>4 DEF Child
<1>5. CASE Breaks
  BY <1>5, BreaksEnd DEF Breaks, Store!Next
<1>6. CASE Restore
  <2>1. PICK i \in DOMAIN snaps : snaps[i] # Torn /\ tfstate' = snaps[i]
    BY <1>6 DEF Restore
  <2>2. /\ tfstate' \in ToSet(snaps) \ {Torn} /\ tfstate = Torn /\ child = NoChild
        /\ UNCHANGED <<snaps, backed, tries, child, overrun>>
    BY <1>6, <2>1 DEF Restore, ToSet
  <2>3. Under = "none"
    BY <2>2, Unders
  <2> QED
    BY <2>2, <2>3 DEF Store!Next, Store!Restore, Under
<1>7. ASSUME RemoveStaleOverride \/ \E p \in Procs, cmd \in Commands : Acquire(p, cmd)
      PROVE  UNCHANGED Store!vars
  BY <1>2, <1>7 DEF RemoveStaleOverride, Acquire
<1> QED
  BY <1>1, <1>3, <1>4, <1>5, <1>6, <1>7 DEF Next

\* An apply starts on a terraform.tfstate whose content was copied, unless a child that
\* outlived its parent wrote behind the backup; and the content last backed up can be
\* restored while the file is unreadable, whatever commands run and die and whatever is
\* pruned.
THEOREM StateIsAStore == Spec => BacksUpFirst
<1>1. Init => Store!Init
  <2> SUFFICES ASSUME Init PROVE Store!Init
    OBVIOUS
  <2>1. ToSet(snaps) = {}
    BY DEF Init, ToSet
  <2>2. Under = "none"
    BY DEF Init, NoChild, Under
  <2> QED
    BY <2>1, <2>2, Kinds DEF Init, Store!Init, Under
<1> QED
  BY <1>1, StoreSteps, Invariance, PTL DEF Spec, BacksUpFirst, Store!Spec


=============================================================================
