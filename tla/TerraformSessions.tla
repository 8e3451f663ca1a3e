-------------------------- MODULE TerraformSessions --------------------------
(***************************************************************************)
(* The commands that run Terraform, started side by side on one workspace, *)
(* failing, cancelled or killed at any step, with a child that may outlive *)
(* its parent: install, node add and remove, destroy and its preview, plan.*)
(***************************************************************************)
EXTENDS TerraformDriver

CONSTANT Commands   \* those that are run

ASSUME CommandsAssumption ==
    Commands \subseteq {"install", "add", "add-resumed", "remove", "destroy", "destroy-preview", "plan"}

Works(p) ==
    \/ SnapshotState(p) \/ PruneExceptNewest(p)
    \/ DeferPlans(p) \/ Return(p) \/ InitDriver(p) \/ PlanTerraform(p) \/ Sentinel(p)
    \/ StartListing(p) \/ Shown(p) \/ RefuseTruncated(p) \/ Gate(p) \/ Inventory(p)
    \/ StartApply(p) \/ Applied(p)
    \/ StateStatus(p) \/ WriteOverride(p) \/ RefuseOverride(p) \/ CleanupPlans(p)
    \/ Refused(p)

Child ==
    \/ ChildWrites \/ ParentReads \/ OrphanEnds
    \/ \E v \in VM : ChildCreates(v) \/ ChildDeletes(v)
    \/ \E p \in Procs : ChildFails(p)

Breaks == \E p \in Procs : Fail(p) \/ KillChild(p) \/ Crash(p)

Next ==
    \/ \E p \in Procs, cmd \in Commands : Acquire(p, cmd)
    \/ \E p \in Procs : Works(p)
    \/ Child \/ Breaks \/ Restore \/ RemoveStaleOverride

Spec == Init /\ [][Next]_vars

\* A process is scheduled, and a terraform child gets on with its work or fails.
FairSpec == Spec /\ \A p \in Procs : WF_vars(Works(p)) /\ WF_vars(Child)

TypeOK ==
    /\ lock \in Procs \cup {"none"}
    /\ proc \in [Procs ->
          [cmd : Commands \cup {"none"}, step : 0 .. 20, snapped : BOOLEAN,
           deferred : SUBSET (PlanFile \cup {"override"}),
           verdict : {"none", "already"}]]
    /\ tfstate \in Content \cup {Torn} /\ vms \subseteq VM
    /\ snaps \in Seq(Content \cup {Torn}) /\ Len(snaps) <= Retain
    /\ \A f \in PlanFile : plans[f] \in [create : SUBSET VM, delete : SUBSET VM, of : Content \cup {Torn}]
    /\ override \in BOOLEAN /\ sentinel \in BOOLEAN /\ faults \in 0 .. MaxFaults
    /\ child \in [by : Procs \cup {"none", "orphan"}, create : SUBSET VM, delete : SUBSET VM]
    /\ pipe.read <= pipe.written /\ pipe.written <= pipe.size
    /\ backed \in Content /\ tries \in 0 .. Retain /\ overrun \in BOOLEAN

-----------------------------------------------------------------------------
(* Safety *)

\* The state file is a store whose content was copied when an apply starts on it,
\* unless a child that outlived its parent wrote behind the backup, and that can be
\* restored while it is unreadable (StateStore), whatever commands run and die and
\* whatever is pruned (WithStateRecovery ahead of each init, plan and apply;
\* pruneSnapshots).
Store == INSTANCE StateStore WITH
    Content <- Content, content <- tfstate, base <- backed, copies <- ToSet(snaps),
    open <- CASE child.by = "none" -> "none"
              [] child.by = "orphan" -> "orphan"
              [] OTHER -> "attended"
BacksUpFirst == Store!Spec

\* While a command other than a destroy applies, the override that lifts the
\* masters' guard is not in the module: neither one that an earlier destroy left,
\* nor one that a preview started meanwhile puts there.
GuardHolds ==
    \A p \in Procs : child.by = p /\ ~Destroying(proc[p].cmd) => ~override

\* A node operation's apply changes no VM but its target, in the direction asked
\* for, whatever the plan file held and whoever else ran in between.
AppliesAsGated ==
    [][\A p \in Procs :
          /\ child.by = p /\ proc[p].cmd \in {"add", "add-resumed", "remove"}
          => IF proc[p].cmd = "remove"
             THEN vms' \in {vms, vms \ {"worker"}} ELSE vms' \in {vms, vms \cup {"worker"}}]_vars

-----------------------------------------------------------------------------
(* Liveness, under FairSpec *)

\* Every command ends, however its child fails, is cut off or blocks on a full
\* pipe: nobody waits for terraform's lock or output for ever.
CommandsEnd == \A p \in Procs : Running(p) ~> ~Running(p)

=============================================================================
