--------------------------- MODULE TerraformDriver ---------------------------
(***************************************************************************)
(* The Terraform driver: its files beside the environment, the terraform   *)
(* child process, and what okdctl does around it.  One process holds the   *)
(* run lock; a child that outlives a killed parent goes on.                *)
(***************************************************************************)
EXTENDS Naturals, FiniteSets, SequencesExt

CONSTANTS Procs,      \* okdctl processes started side by side
          Retain,     \* state snapshots kept
          Limit,      \* bytes of a child's output that are captured
          Outputs,    \* how much a listing child may write
          PipeRoom,   \* bytes a pipe holds
          MaxFaults   \* failures, kills and signals

ASSUME DriverAssumption ==
    /\ Procs # {} /\ {"none", "orphan"} \cap Procs = {}
    /\ Retain \in Nat \ {0} /\ Limit \in Nat /\ Outputs \subseteq Nat
    /\ PipeRoom \in Nat \ {0} /\ MaxFaults \in Nat

VM == {"bootstrap", "master", "worker"}

\* What terraform.tfstate records; Torn is a file that does not parse.
Missing == {"missing"}
Torn == {"torn"}
Content == (SUBSET VM) \cup {Missing}

Managed(c) == IF c = Missing THEN {} ELSE c

PlanFile == {"tfplan", "destroy.tfplan", "bootstrap-destroy.tfplan", "node-op.tfplan",
             "plan-preview.tfplan"}
Plan == [create : SUBSET VM, delete : SUBSET VM, of : Content]
NoPlan == [create |-> {}, delete |-> {}, of |-> Torn]

VARIABLES
    lock,       \* holder of the run lock's flock
    proc,       \* each okdctl process
    tfstate, vms, snaps,
    plans,      \* saved plan files
    override,   \* the transient prevent_destroy override is in the module
    sentinel,   \* bootstrap-state.auto.tfvars.json
    child,      \* the terraform process that applies
    pipe,       \* a child whose output is captured
    faults,
    backed, tries,  \* history: content at the last readable backup, torn ones since
    overrun         \* history: a child without a parent has written since that backup

vars == <<lock, proc, tfstate, vms, snaps, plans, override, sentinel, child, pipe,
          faults, backed, tries, overrun>>

NoChild == [by |-> "none", create |-> {}, delete |-> {}]
NoPipe == [by |-> "none", size |-> 0, written |-> 0, read |-> 0, listing |-> {}]

Fault == faults < MaxFaults /\ faults' = faults + 1

-----------------------------------------------------------------------------
(* Sessions: each command is a list of steps.  What a command defers runs on *)
(* every way out but the death of the process.                               *)

Provision == <<"defer-plans", "snapshot", "init", "plan", "apply", "return">>
StartWorkerVMsUnrecovered == <<"init", "apply-direct">>
StartWorkerVMs == <<"snapshot", "init", "apply-direct">>
CleanupBootstrap == <<"defer-plans", "snapshot", "init", "plan-bootstrap", "sentinel", "apply">>
TargetedApply == <<"snapshot", "init", "plan-target", "show", "gate", "inventory",
                   "snapshot", "apply">>
DestroyInfrastructure == <<"state-status", "snapshot", "init", "override", "plan-destroy",
                           "apply-destroy", "cleanup-plans", "prune">>
PreviewDestroy == <<"init", "refuse-override", "override", "plan-only">>
PlanPreview == <<"init", "plan-preview", "show">>

Program(cmd) ==
    CASE cmd = "install" -> Provision \o StartWorkerVMs \o CleanupBootstrap
      [] cmd \in {"add", "add-resumed", "remove"} -> TargetedApply
      [] cmd = "destroy" -> DestroyInfrastructure
      [] cmd = "destroy-preview" -> PreviewDestroy
      [] cmd = "plan" -> PlanPreview

Destroying(cmd) == cmd \in {"destroy", "destroy-preview"}

\* The file a command saves its plan in; an install uses two, one after the other.
FileOf(p) ==
    CASE proc[p].cmd = "install" ->
             IF proc[p].step > Len(Provision) THEN "bootstrap-destroy.tfplan" ELSE "tfplan"
      [] proc[p].cmd = "destroy" -> "destroy.tfplan"
      [] proc[p].cmd = "plan" -> "plan-preview.tfplan"
      [] OTHER -> "node-op.tfplan"

NotRunning == [cmd |-> "none", step |-> 0, snapped |-> FALSE, deferred |-> {}, verdict |-> "none"]

Running(p) == proc[p].cmd # "none"
At(p, step) == Running(p) /\ Program(proc[p].cmd)[proc[p].step] = step

\* The deferred removals of files, and the release of the lock; of the verdicts only
\* "already" at its target is told apart, until the next command starts.
End(p, verdict) ==
    /\ plans' = [f \in PlanFile |-> IF f \in proc[p].deferred THEN NoPlan ELSE plans[f]]
    /\ override' = (override /\ "override" \notin proc[p].deferred)
    /\ proc' = [proc EXCEPT ![p] = [NotRunning EXCEPT !.verdict = verdict]]
    /\ lock' = IF lock = p THEN "none" ELSE lock


\* The next step of p, with what this one changed of it; past the last, p ends.
Proceed(p, changes) ==
    IF changes.step < Len(Program(changes.cmd))
    THEN /\ proc' = [proc EXCEPT ![p] = [changes EXCEPT !.step = @ + 1]]
         /\ UNCHANGED <<lock, plans, override>>
    ELSE End(p, "none")
Defers(p, what) == [proc[p] EXCEPT !.deferred = @ \cup what]

\* Acquire: a flock that is not waited for; a second process is refused.
Acquire(p, cmd) ==
    /\ ~Running(p) /\ lock = "none"
    /\ lock' = p
    /\ proc' = [q \in Procs |-> IF q = p THEN [NotRunning EXCEPT !.cmd = cmd, !.step = 1]
                                ELSE [proc[q] EXCEPT !.verdict = "none"]]
    /\ UNCHANGED <<tfstate, vms, snaps, plans, override, sentinel, child, pipe, faults,
                   backed, tries, overrun>>

-----------------------------------------------------------------------------
(* State snapshots *)

SnapshottedUnpruned(content, sameSecond) ==
    Append(IF sameSecond THEN Front(snaps) ELSE snaps, content)

\* A snapshot's name is the time in seconds, so two of one run may share it and
\* the second replaces the first; then the oldest beyond Retain are removed.
Snapshotted(content, sameSecond) ==
    LET older == IF sameSecond THEN Front(snaps) ELSE snaps
        all == Append(older, content)
    IN  SubSeq(all, Len(all) - (IF Len(all) < Retain THEN Len(all) ELSE Retain) + 1, Len(all))

\* SnapshotState copies whatever is there, readable or not.
SnapshotState(p) ==
    /\ At(p, "snapshot")
    /\ IF tfstate = Missing
       THEN snaps' = snaps
       ELSE \E sameSecond \in {FALSE} \cup {proc[p].snapped /\ snaps # <<>>} :
                snaps' = Snapshotted(tfstate, sameSecond)
    /\ IF tfstate = Torn
       THEN /\ tries' = IF tries < Retain THEN tries + 1 ELSE tries
            /\ UNCHANGED <<backed, overrun>>
       ELSE backed' = tfstate /\ tries' = 0 /\ overrun' = FALSE
    /\ Proceed(p, [proc[p] EXCEPT !.snapped = tfstate # Missing])
    /\ UNCHANGED <<tfstate, vms, sentinel, child, pipe, faults>>

\* Once a destroy left no resources, the state file goes and the newest snapshot stays.
PruneExceptNewest(p) ==
    /\ At(p, "prune")
    /\ IF Managed(tfstate) = {}
       THEN /\ tfstate' = Missing
            /\ snaps' = IF snaps = <<>> THEN snaps ELSE <<snaps[Len(snaps)]>>
            /\ backed' = Missing /\ tries' = 0 /\ overrun' = FALSE
       ELSE UNCHANGED <<tfstate, snaps, backed, tries, overrun>>
    /\ Proceed(p, proc[p])
    /\ UNCHANGED <<vms, sentinel, child, pipe, faults>>

-----------------------------------------------------------------------------
(* terraform plan *)

DeferPlans(p) ==
    /\ At(p, "defer-plans")
    /\ Proceed(p, Defers(p, IF FileOf(p) = "tfplan" THEN {"tfplan", "destroy.tfplan"} ELSE {FileOf(p)}))
    /\ UNCHANGED <<tfstate, vms, snaps, sentinel, child, pipe, faults, backed, tries, overrun>>

\* Provision returns to the install that goes on.
Return(p) ==
    /\ At(p, "return")
    /\ plans' = [f \in PlanFile |-> IF f \in proc[p].deferred THEN NoPlan ELSE plans[f]]
    /\ proc' = [proc EXCEPT ![p].step = @ + 1, ![p].deferred = {}]
    /\ UNCHANGED <<lock, tfstate, vms, snaps, override, sentinel, child, pipe, faults,
                   backed, tries, overrun>>

\* Init may rewrite the state only by migrating its schema, which is not modelled.
InitDriver(p) ==
    /\ At(p, "init")
    /\ Proceed(p, IF proc[p].cmd = "plan" THEN Defers(p, {FileOf(p)}) ELSE proc[p])
    /\ UNCHANGED <<tfstate, vms, snaps, sentinel, child, pipe, faults, backed, tries, overrun>>

NeverRefused(p) == FALSE

\* A plan or apply that does not destroy fails closed on a stale override.
StaleOverrideRefused(p) == ~Destroying(proc[p].cmd) /\ override

\* Terraform waits for its own lock, reads the state and, when it is to destroy
\* a master, needs the override that lifts prevent_destroy.
CanPlan(p) ==
    /\ ~StaleOverrideRefused(p)
    /\ tfstate # Torn
    /\ Destroying(proc[p].cmd) => override \/ "master" \notin Managed(tfstate)

Wanted == IF sentinel THEN VM \ {"bootstrap"} ELSE VM

\* What a plan finds to do.  A targeted plan may reach further than its target,
\* when what the target depends on has drifted, or find nothing, when a variable
\* does not reach the module.
Planned(p, drift) ==
    LET have == Managed(tfstate)
        step == Program(proc[p].cmd)[proc[p].step]
    IN  CASE step \in {"plan", "plan-preview"} ->
                 [create |-> Wanted \ have, delete |-> have \ Wanted, of |-> tfstate]
          [] step = "plan-bootstrap" ->
                 [create |-> {}, delete |-> have \cap {"bootstrap"}, of |-> tfstate]
          [] step = "plan-target" /\ proc[p].cmd = "remove" ->
                 [create |-> {}, delete |-> (drift \cup {"worker"}) \cap have, of |-> tfstate]
          [] step = "plan-target" ->
                 [create |-> {"worker"} \ have, delete |-> drift \cap have, of |-> tfstate]
          [] step \in {"plan-destroy", "plan-only"} ->
                 [create |-> {}, delete |-> have, of |-> tfstate]

PlanSteps == {"plan", "plan-bootstrap", "plan-target", "plan-destroy", "plan-only", "plan-preview"}
AtPlan(p) == \E step \in PlanSteps : At(p, step)

PlanTerraform(p) ==
    /\ AtPlan(p) /\ child = NoChild /\ CanPlan(p)
    /\ \E drift \in {{}, {"master"}}, reaches \in {TRUE} \cup {~At(p, "plan-target")} :
          LET plan == IF reaches THEN Planned(p, drift) ELSE [NoPlan EXCEPT !.of = tfstate]
              deferred == IF At(p, "plan-target") THEN {FileOf(p)} ELSE {} IN
          IF At(p, "plan-only")
          THEN Proceed(p, proc[p])
          ELSE /\ plans' = [plans EXCEPT ![FileOf(p)] = plan]
               /\ proc' = [proc EXCEPT ![p] = [Defers(p, deferred) EXCEPT !.step = @ + 1]]
               /\ UNCHANGED <<lock, override>>
    /\ UNCHANGED <<tfstate, vms, snaps, sentinel, child, pipe, faults, backed, tries, overrun>>

Sentinel(p) ==
    /\ At(p, "sentinel")
    /\ sentinel' = TRUE
    /\ Proceed(p, proc[p])
    /\ UNCHANGED <<tfstate, vms, snaps, child, pipe, faults, backed, tries, overrun>>

-----------------------------------------------------------------------------
(* The plan gate of the node operations, which reads listings of a child *)

Listing(p) == At(p, "show") \/ At(p, "inventory")

\* The child writes into a pipe; the parent reads up to Limit + 1 bytes of it and
\* drains the rest, so that the child is never left blocked on a full pipe.
StartListing(p) ==
    /\ Listing(p) /\ pipe = NoPipe /\ tfstate # Torn
    /\ \E size \in Outputs :
          pipe' = [by |-> p, size |-> size, written |-> 0, read |-> 0, listing |-> Managed(tfstate)]
    /\ UNCHANGED <<lock, proc, tfstate, vms, snaps, plans, override, sentinel, child, faults,
                   backed, tries, overrun>>

ChildWrites ==
    /\ pipe.written < pipe.size /\ pipe.written - pipe.read < PipeRoom
    /\ pipe' = [pipe EXCEPT !.written = @ + 1]
    /\ UNCHANGED <<lock, proc, tfstate, vms, snaps, plans, override, sentinel, child, faults,
                   backed, tries, overrun>>

ParentReads ==
    /\ pipe.read < pipe.written
    /\ pipe' = [pipe EXCEPT !.read = @ + 1]
    /\ UNCHANGED <<lock, proc, tfstate, vms, snaps, plans, override, sentinel, child, faults,
                   backed, tries, overrun>>

\* What the parent captured: all of a short listing, part of a long one.
Truncated == pipe.size > Limit
Captured == IF pipe.size > Limit THEN {} ELSE pipe.listing
Listed(p) == Listing(p) /\ pipe.by = p /\ pipe.read = pipe.size

\* The plan is shown complete, and goes to the gate or to the operator.
Shown(p) ==
    /\ Listed(p) /\ ~Truncated /\ At(p, "show")
    /\ pipe' = NoPipe
    /\ Proceed(p, proc[p])
    /\ UNCHANGED <<tfstate, vms, snaps, sentinel, child, faults, backed, tries, overrun>>

\* A truncated listing is an error: nothing is decided on part of it.
RefuseTruncated(p) ==
    /\ Listed(p) /\ Truncated
    /\ pipe' = NoPipe
    /\ End(p, "none")
    /\ UNCHANGED <<tfstate, vms, snaps, sentinel, child, faults, backed, tries, overrun>>

Changes(plan) == plan.create \cup plan.delete

TargetAmong(p, plan) ==
    "worker" \in IF proc[p].cmd = "remove" THEN plan.delete ELSE plan.create

\* AssertOnlyChange: one change, of the target, with the action that was asked for.
OnlyChange(p, plan) ==
    IF proc[p].cmd = "remove"
    THEN plan.create = {} /\ plan.delete = {"worker"}
    ELSE plan.create = {"worker"} /\ plan.delete = {}

EmptyPlan(p) == Changes(plans[FileOf(p)]) = {}

Gate(p) ==
    /\ At(p, "gate")
    /\ IF OnlyChange(p, plans[FileOf(p)])
       THEN /\ proc' = [proc EXCEPT ![p].step = @ + 2]
            /\ UNCHANGED <<lock, plans, override>>
       ELSE IF EmptyPlan(p) THEN Proceed(p, proc[p]) ELSE End(p, "none")
    /\ UNCHANGED <<tfstate, vms, snaps, sentinel, child, pipe, faults, backed, tries, overrun>>

\* EmptyPlanMeansAlreadyAtTarget: a delete that is gone from the state, or for a
\* resumed run a target that is in it; the command ends with success or an error.
AlreadyAtTarget(p, listed) ==
    IF proc[p].cmd = "remove" THEN "worker" \notin listed
    ELSE "worker" \in listed /\ proc[p].cmd = "add-resumed"

Inventory(p) ==
    /\ Listed(p) /\ ~Truncated /\ At(p, "inventory")
    /\ pipe' = NoPipe
    /\ End(p, IF AlreadyAtTarget(p, Captured) THEN "already" ELSE "none")
    /\ UNCHANGED <<tfstate, vms, snaps, sentinel, child, faults, backed, tries, overrun>>

-----------------------------------------------------------------------------
(* terraform apply *)

ApplySteps == {"apply", "apply-direct", "apply-destroy"}
AtApply(p) == \E step \in ApplySteps : At(p, step)

\* A saved plan is applied to the state it was made of, or refused.
CanApply(p) ==
    /\ At(p, "apply-destroy") \/ ~StaleOverrideRefused(p)
    /\ tfstate # Torn
    /\ At(p, "apply-direct") \/ plans[FileOf(p)].of = tfstate

StartApply(p) ==
    /\ AtApply(p) /\ child = NoChild /\ CanApply(p)
    /\ child' = IF At(p, "apply-direct")
                THEN [by |-> p, create |-> {"worker"} \ Managed(tfstate), delete |-> {}]
                ELSE [by |-> p, create |-> plans[FileOf(p)].create,
                      delete |-> plans[FileOf(p)].delete]
    /\ UNCHANGED <<lock, proc, tfstate, vms, snaps, plans, override, sentinel, pipe, faults,
                   backed, tries, overrun>>

Idle == child.create = {} /\ child.delete = {}

ChildCreates(v) ==
    /\ v \in child.create \ vms
    /\ vms' = vms \cup {v} /\ tfstate' = Managed(tfstate) \cup {v}
    /\ child' = [child EXCEPT !.create = @ \ {v}]
    /\ overrun' = (overrun \/ child.by = "orphan")
    /\ UNCHANGED <<lock, proc, snaps, plans, override, sentinel, pipe, faults, backed, tries>>

ChildDeletes(v) ==
    /\ v \in child.delete
    /\ vms' = vms \ {v} /\ tfstate' = Managed(tfstate) \ {v}
    /\ child' = [child EXCEPT !.delete = @ \ {v}]
    /\ overrun' = (overrun \/ child.by = "orphan")
    /\ UNCHANGED <<lock, proc, snaps, plans, override, sentinel, pipe, faults, backed, tries>>

Applied(p) ==
    /\ child.by = p /\ AtApply(p) /\ Idle
    /\ child' = NoChild
    /\ Proceed(p, proc[p])
    /\ UNCHANGED <<tfstate, vms, snaps, sentinel, pipe, faults, backed, tries, overrun>>

\* A VM that exists and is in no state cannot be created.
Conflict == child.create \cap vms # {}

ChildFails(p) ==
    /\ child.by = p
    /\ (Conflict /\ faults' = faults) \/ Fault
    /\ child' = NoChild
    /\ End(p, "none")
    /\ UNCHANGED <<tfstate, vms, snaps, sentinel, pipe, backed, tries, overrun>>

OrphanEnds ==
    /\ child.by = "orphan" /\ (Idle \/ Conflict)
    /\ child' = NoChild
    /\ UNCHANGED <<lock, proc, tfstate, vms, snaps, plans, override, sentinel, pipe, faults,
                   backed, tries, overrun>>

\* Killed between two writes, with a VM made and not recorded, or in the middle of
\* a write.
Killed ==
    /\ child' = NoChild
    /\ \/ UNCHANGED <<vms, tfstate>>
       \/ \E v \in child.create \ vms : vms' = vms \cup {v} /\ UNCHANGED tfstate
       \/ ~Idle /\ tfstate' = Torn /\ UNCHANGED vms

\* Cancelled and not gone after WaitDelay; the parent goes on to what it deferred.
KillChild(p) ==
    /\ child.by = p /\ Fault /\ Killed
    /\ End(p, "none")
    /\ UNCHANGED <<snaps, sentinel, pipe, backed, tries, overrun>>

-----------------------------------------------------------------------------
(* The destroy session *)

\* No resources: taken for destroyed, on to the cleanup; unreadable: refused.
StateStatus(p) ==
    /\ At(p, "state-status")
    /\ IF tfstate = Torn
       THEN End(p, "none")
       ELSE /\ proc' = [proc EXCEPT ![p].step =
                          IF Managed(tfstate) = {} THEN Len(DestroyInfrastructure) ELSE @ + 1]
            /\ UNCHANGED <<lock, plans, override>>
    /\ UNCHANGED <<tfstate, vms, snaps, sentinel, child, pipe, faults, backed, tries, overrun>>

\* Written over a stale copy too; failing to write it is only a warning.
WriteOverride(p) ==
    /\ At(p, "override")
    /\ \/ /\ proc' = [proc EXCEPT ![p] = [Defers(p, {"override"}) EXCEPT !.step = @ + 1]]
          /\ override' = TRUE /\ faults' = faults
       \/ /\ At(p, "override") /\ proc[p].cmd = "destroy" /\ Fault
          /\ proc' = [proc EXCEPT ![p].step = @ + 1]
          /\ override' = override
    /\ UNCHANGED <<lock, tfstate, vms, snaps, plans, sentinel, child, pipe, backed, tries, overrun>>

\* A preview never takes over an override that is there.
RefuseOverride(p) ==
    /\ At(p, "refuse-override")
    /\ IF override THEN End(p, "none") ELSE Proceed(p, proc[p])
    /\ UNCHANGED <<tfstate, vms, snaps, sentinel, child, pipe, faults, backed, tries, overrun>>

CleanupPlans(p) ==
    /\ At(p, "cleanup-plans")
    /\ plans' = [f \in PlanFile |-> IF f \in {"tfplan", "destroy.tfplan"} THEN NoPlan ELSE plans[f]]
    /\ override' = (override /\ "override" \notin proc[p].deferred)
    /\ proc' = [proc EXCEPT ![p].step = @ + 1, ![p].deferred = {}]
    /\ UNCHANGED <<lock, tfstate, vms, snaps, sentinel, child, pipe, faults, backed, tries, overrun>>

-----------------------------------------------------------------------------
(* Refusals, failures, signals and death *)

RetriedForever(p) ==
    /\ child = NoChild /\ AtPlan(p) /\ ~CanPlan(p)
    /\ proc' = [proc EXCEPT ![p].step = @ - 1]
    /\ UNCHANGED <<lock, tfstate, vms, snaps, plans, override, sentinel, child, pipe, faults,
                   backed, tries, overrun>>

\* What terraform or its guard refuses ends the command.
Refused(p) ==
    /\ child = NoChild
    /\ \/ AtPlan(p) /\ ~CanPlan(p)
       \/ AtApply(p) /\ ~CanApply(p)
       \/ Listing(p) /\ pipe = NoPipe /\ tfstate = Torn
    /\ End(p, "none")
    /\ UNCHANGED <<tfstate, vms, snaps, sentinel, child, pipe, faults, backed, tries, overrun>>

\* Any other step failing, or a first signal, which a step meets as a cancelled
\* context and the child as terraform's soft cancel.
Fail(p) ==
    /\ Running(p) /\ child.by # p /\ pipe.by # p /\ Fault
    /\ End(p, "none")
    /\ UNCHANGED <<tfstate, vms, snaps, sentinel, child, pipe, backed, tries, overrun>>

\* Death of the process: the kernel releases the lock, nothing deferred runs, and
\* the child dies too or goes on alone.
Crash(p) ==
    /\ Running(p) /\ Fault
    /\ proc' = [proc EXCEPT ![p] = NotRunning]
    /\ lock' = IF lock = p THEN "none" ELSE lock
    /\ pipe' = IF pipe.by = p THEN NoPipe ELSE pipe
    /\ IF child.by = p
       THEN Killed \/ (child' = [child EXCEPT !.by = "orphan"] /\ UNCHANGED <<vms, tfstate>>)
       ELSE UNCHANGED <<child, vms, tfstate>>
    /\ UNCHANGED <<snaps, plans, override, sentinel, backed, tries, overrun>>

\* Between commands the operator restores the newest snapshot that can be read,
\* and removes an override that a message named.
Restore ==
    /\ lock = "none" /\ child = NoChild /\ tfstate = Torn
    /\ \E i \in DOMAIN snaps :
          /\ snaps[i] # Torn /\ \A j \in i + 1 .. Len(snaps) : snaps[j] = Torn
          /\ tfstate' = snaps[i]
    /\ UNCHANGED <<lock, proc, vms, snaps, plans, override, sentinel, child, pipe, faults,
                   backed, tries, overrun>>

RemoveStaleOverride ==
    /\ lock = "none" /\ override
    /\ override' = FALSE
    /\ UNCHANGED <<lock, proc, tfstate, vms, snaps, plans, sentinel, child, pipe, faults,
                   backed, tries, overrun>>

-----------------------------------------------------------------------------
Init ==
    /\ lock = "none" /\ proc = [p \in Procs |-> NotRunning]
    /\ tfstate = Missing /\ vms = {} /\ snaps = <<>>
    /\ plans = [f \in PlanFile |-> NoPlan]
    /\ override = FALSE /\ sentinel = FALSE
    /\ child = NoChild /\ pipe = NoPipe /\ faults = 0
    /\ backed = Missing /\ tries = 0 /\ overrun = FALSE

=============================================================================
