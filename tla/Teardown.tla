------------------------------ MODULE Teardown ------------------------------
(***************************************************************************)
(* okdctl destroy, which goes on to its cleanup when terraform fails, and  *)
(* okdctl cleanup of the full kind.                                        *)
(***************************************************************************)
EXTENDS Cleanup

AfterTerraform == IF run.verb = "destroy-skip-cleanup" THEN "summary" ELSE "clean-creds"

DestroyBegin(verb) ==
    /\ verb \in Destroys
    /\ Begin(verb, IF verb = "destroy-skip-terraform" THEN "clean-creds" ELSE "destroy-infra")
    /\ UNCHANGED <<work, served, terraform, machines, cluster, access, faults>>

CleanupBegin ==
    /\ Begin("cleanup", "clean-creds")
    /\ UNCHANGED <<work, served, terraform, machines, cluster, access, faults>>

AlreadyDestroyed == ~Corrupt /\ vms = {}

DestroyNothing ==
    /\ At("destroy-infra") /\ AlreadyDestroyed
    /\ GoTo(AfterTerraform)
    /\ UNCHANGED <<work, served, terraform, machines, cluster, access, faults>>

\* The override lifts prevent_destroy for this destroy; a stale one is reused.
LiftPreventDestroy ==
    /\ At("destroy-infra") /\ Populated
    /\ override' = TRUE
    /\ GoTo("destroy-plan")
    /\ UNCHANGED <<work, served, tfvars, sentinel, state, machines, cluster, access, faults>>

\* terraform plan -destroy wants a value for every variable.
PlanDestroy ==
    /\ At("destroy-plan") /\ tfvars
    /\ GoTo("destroy-vms")
    /\ UNCHANGED <<work, served, terraform, machines, cluster, access, faults>>

DestroyVM(v) ==
    /\ At("destroy-vms") /\ v \in vms
    /\ vms' = vms \ {v} /\ built' = [built EXCEPT ![v] = 0]
    /\ workerOn' = (workerOn /\ v # "worker")
    /\ cluster' = IF v = "master" THEN Fresh
                  ELSE [cluster EXCEPT !.joined = @ /\ v # "worker"]
    /\ UNCHANGED <<work, served, terraform, access, run, faults>>

DestroyDone ==
    /\ At("destroy-vms") /\ vms = {}
    /\ override' = FALSE
    /\ GoTo(AfterTerraform)
    /\ UNCHANGED <<work, served, tfvars, sentinel, state, machines, cluster, access, faults>>

\* (mutant) the failure is not tracked for the summary.
TerraformFailedQuietly ==
    /\ run' = [run EXCEPT !.stage = AfterTerraform, !.tfFailed = TRUE]
    /\ override' = (override /\ At("destroy-infra"))
    /\ UNCHANGED <<work, served, tfvars, sentinel, state, machines, cluster, access>>

\* The failed step is remembered; the override goes on every exit but a kill.
TerraformFailed ==
    /\ run' = [run EXCEPT !.stage = AfterTerraform, !.failed = TRUE, !.tfFailed = TRUE]
    /\ override' = (override /\ At("destroy-infra"))
    /\ UNCHANGED <<work, served, tfvars, sentinel, state, machines, cluster, access>>

\* The state cannot be read, or the plan lacks its variables.
DestroyRefused ==
    /\ \/ At("destroy-infra") /\ Corrupt
       \/ At("destroy-plan") /\ ~tfvars
    /\ TerraformFailed
    /\ UNCHANGED faults

DestroyFails ==
    /\ run.stage \in {"destroy-infra", "destroy-plan", "destroy-vms"}
    /\ faults < MaxFaults /\ faults' = faults + 1
    /\ TerraformFailed

DestroyStep ==
    \/ DestroyNothing \/ LiftPreventDestroy \/ PlanDestroy
    \/ (\E v \in VM : DestroyVM(v)) \/ DestroyDone \/ DestroyRefused

=============================================================================
