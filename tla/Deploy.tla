------------------------------- MODULE Deploy -------------------------------
(***************************************************************************)
(* The deploy engine with the setup, install and postinstall phases it     *)
(* runs.  A phase is marked before its first step; a retry resumes at the  *)
(* marked phase and runs its steps from the top.  Steps that change none   *)
(* of the state here (packages, downloads, HAProxy, DNS, firewall, addons) *)
(* are left out; so are the ISOs, which carry no identity.                 *)
(***************************************************************************)
EXTENDS Cleanup

\* (mutants) a resumed install starts over; a resumed postinstall re-installs.
ResumeSetup(verb) == IF marker = "postinstall" THEN "mark-postinstall" ELSE "guard"
\* A marker past setup vouches for the identity in the work directory.
ResumePhase(verb) ==
    CASE verb = "fresh" -> "guard"
      [] marker = "install" /\ verb # "fresh" -> "mark-install"
      [] marker = "postinstall" /\ verb # "fresh" -> "mark-postinstall"
      [] OTHER -> "guard"

DeployBegin(verb) ==
    /\ verb \in Deploys
    /\ Begin(verb, ResumePhase(verb))
    /\ UNCHANGED <<work, served, terraform, machines, cluster, access, faults>>

-----------------------------------------------------------------------------
(* Setup: guard, wipe (module Cleanup), a new identity, tfvars *)

LiveCluster == Populated /\ run.verb # "fresh"

GuardSetup ==
    /\ At("guard") /\ ~(workDir /\ LiveCluster)
    /\ marker' = "setup" /\ workDir' = TRUE
    /\ GoTo("setup")
    /\ UNCHANGED <<creds, served, terraform, machines, cluster, access, faults>>

\* Setup guards again: by now the marker has created the directory.
SetupGuard ==
    /\ At("setup") /\ ~LiveCluster
    /\ GoTo("clean-creds")
    /\ UNCHANGED <<work, served, terraform, machines, cluster, access, faults>>

GenerateIgnition ==
    /\ At("ignition")
    /\ workDir' = TRUE /\ creds' = Unused
    /\ GoTo("serve")
    /\ UNCHANGED <<marker, served, terraform, machines, cluster, access, faults>>

IgnitionPresent == served # 0                \* (mutant)
IgnitionDeployed == served = creds           \* same content, not mere existence
DeployIgnition ==
    /\ At("serve")
    /\ served' = IF IgnitionDeployed THEN served ELSE creds
    /\ GoTo("tfvars")
    /\ UNCHANGED <<work, terraform, machines, cluster, access, faults>>

\* A stale sentinel would leave the new cluster without a bootstrap VM.
GenerateTfvars ==
    /\ At("tfvars")
    /\ sentinel' = FALSE /\ tfvars' = TRUE
    /\ GoTo("mark-install")
    /\ UNCHANGED <<work, served, override, state, machines, cluster, access, faults>>

SetupStep == GuardSetup \/ SetupGuard \/ GenerateIgnition \/ DeployIgnition \/ GenerateTfvars

-----------------------------------------------------------------------------
(* Install: the whole plan, bootstrap, workers, the cluster's own install *)

MarkInstall ==
    /\ At("mark-install")
    /\ marker' = "install" /\ workDir' = TRUE
    /\ GoTo("apply")
    /\ UNCHANGED <<creds, served, terraform, machines, cluster, access, faults>>

Desired == IF sentinel THEN VM \ {"bootstrap"} ELSE VM

\* Terraform creates VMs in any order, the workers powered off; workers that
\* are running already are powered off too, for `started' is not ignored.
Apply ==
    /\ At("apply") /\ CanApply
    /\ \/ /\ \E v \in Desired \ vms : vms' = vms \cup {v}
          /\ UNCHANGED <<workerOn, run>>
       \/ /\ workerOn /\ workerOn' = FALSE
          /\ UNCHANGED <<vms, run>>
       \/ /\ Desired \subseteq vms /\ ~workerOn
          /\ GoTo("wait-bootstrap")
          /\ UNCHANGED <<vms, workerOn>>
    /\ UNCHANGED <<work, served, terraform, built, cluster, access, faults>>

WaitBootstrap ==
    /\ At("wait-bootstrap") /\ OwnApiUp
    /\ GoTo("start-workers")
    /\ UNCHANGED <<work, served, terraform, machines, cluster, access, faults>>

\* (mutant) the right cluster is asked, registered still counts as running.
WorkersRegistered == OwnApiUp /\ cluster.joined

\* Asked with the ambient kubeconfig: setup-kubeconfig is the next step.
WorkersAlreadyRunning ==
    \/ access = Foreign
    \/ access # 0 /\ access = built["master"] /\ ApiUp /\ cluster.joined

StartWorkers ==
    /\ At("start-workers")
    /\ WorkersAlreadyRunning \/ CanApply
    /\ workerOn' = (workerOn \/ ~WorkersAlreadyRunning)
    /\ GoTo("monitor")
    /\ UNCHANGED <<work, served, terraform, vms, built, cluster, access, faults>>

\* wait-for install-complete: the operators need the workers to have joined.
MonitorInstall ==
    /\ At("monitor") /\ OwnApiUp /\ cluster.joined
    /\ GoTo("setup-access")
    /\ UNCHANGED <<work, served, terraform, machines, cluster, access, faults>>

SetupAccess ==
    /\ At("setup-access")
    /\ \E written \in AccessOutcomes : access' = IF written THEN creds ELSE access
    /\ GoTo("mark-postinstall")
    /\ UNCHANGED <<work, served, terraform, machines, cluster, faults>>

InstallStep ==
    MarkInstall \/ Apply \/ WaitBootstrap \/ StartWorkers \/ MonitorInstall \/ SetupAccess

-----------------------------------------------------------------------------
(* Postinstall: the bootstrap VM goes once the VIP answers without it *)

MarkPostInstall ==
    /\ At("mark-postinstall")
    /\ marker' = "postinstall" /\ workDir' = TRUE
    /\ GoTo("health")
    /\ UNCHANGED <<creds, served, terraform, machines, cluster, access, faults>>

VerifyHealth ==
    /\ At("health") /\ OwnApiUp
    /\ GoTo("kubevip")
    /\ UNCHANGED <<work, served, terraform, machines, cluster, access, faults>>

\* Not fatal: without the VIP the rest of postinstall runs.
VerifyKubeVIP ==
    /\ At("kubevip")
    /\ run' = [run EXCEPT !.vipVerified = cluster.vip, !.stage = "cleanup-bootstrap"]
    /\ UNCHANGED <<work, served, terraform, machines, cluster, access, faults>>

KeepNever == FALSE                           \* (mutant) cleanup is not gated
KeepBootstrap == ~run.vipVerified
SkipCleanupBootstrap ==
    /\ At("cleanup-bootstrap") /\ KeepBootstrap
    /\ GoTo("clear")
    /\ UNCHANGED <<work, served, terraform, machines, cluster, access, faults>>

\* (mutant) applied with the variable alone, no sentinel.
CleanupBootstrapByVar ==
    /\ At("cleanup-bootstrap") /\ ~KeepBootstrap /\ CanApply
    /\ vms' = vms \ {"bootstrap"} /\ built' = [built EXCEPT !["bootstrap"] = 0]
    /\ GoTo("destroy-bootstrap")
    /\ UNCHANGED <<work, served, terraform, workerOn, cluster, access, faults>>

\* The sentinel first, so a crash never leaves the bootstrap VM wanted again.
CleanupBootstrap ==
    /\ At("cleanup-bootstrap") /\ ~KeepBootstrap /\ CanApply
    /\ sentinel' = TRUE
    /\ GoTo("destroy-bootstrap")
    /\ UNCHANGED <<work, served, tfvars, override, state, machines, cluster, access, faults>>

DestroyBootstrap ==
    /\ At("destroy-bootstrap")
    /\ vms' = vms \ {"bootstrap"} /\ built' = [built EXCEPT !["bootstrap"] = 0]
    /\ GoTo("stop-ignition")
    /\ UNCHANGED <<work, served, terraform, workerOn, cluster, access, faults>>

StopIgnition ==
    /\ At("stop-ignition")
    /\ served' = 0
    /\ GoTo("clear")
    /\ UNCHANGED <<work, terraform, machines, cluster, access, faults>>

ClearMarker ==
    /\ At("clear")
    /\ marker' = "none"
    /\ run' = IdleRun
    /\ UNCHANGED <<workDir, creds, served, terraform, machines, cluster, access, faults>>

PostInstallStep ==
    \/ MarkPostInstall \/ VerifyHealth \/ VerifyKubeVIP \/ SkipCleanupBootstrap
    \/ CleanupBootstrap \/ DestroyBootstrap \/ StopIgnition \/ ClearMarker

-----------------------------------------------------------------------------
(* What goes wrong *)

\* Steps whose failure does not end the deploy, or whose body is a marker.
NonFatal == {"clean-creds", "clean-dir", "summary", "setup-access", "kubevip",
             "stop-ignition", "clear"}

\* A fatal step fails half-way or whole, and the deploy with it.
DeployFails ==
    /\ Deploying /\ run.stage \notin NonFatal
    /\ faults < MaxFaults /\ faults' = faults + 1
    /\ run' = IdleRun
    /\ UNCHANGED <<work, served, terraform, machines, cluster, access>>

\* The verification fails on an answering VIP, or httpd is not stopped.
DeployWarns ==
    /\ run.stage \in {"kubevip", "stop-ignition"}
    /\ faults < MaxFaults /\ faults' = faults + 1
    /\ GoTo(IF At("kubevip") THEN "cleanup-bootstrap" ELSE "clear")
    /\ UNCHANGED <<work, served, terraform, machines, cluster, access>>

\* (mutant) overwritten with a phase no reader knows.
ClearFailsUnknown ==
    /\ At("clear") /\ faults < MaxFaults /\ faults' = faults + 1
    /\ marker' \in {"finished", marker}
    /\ run' = IdleRun
    /\ UNCHANGED <<workDir, creds, served, terraform, machines, cluster, access>>

\* A marker that cannot be removed is overwritten, and if that fails it stays.
ClearFails ==
    /\ At("clear") /\ faults < MaxFaults /\ faults' = faults + 1
    /\ marker' \in {"completed", marker}
    /\ run' = IdleRun
    /\ UNCHANGED <<workDir, creds, served, terraform, machines, cluster, access>>

\* Refused, or waiting for what will not come.
DeployBlocked ==
    \/ At("guard") /\ workDir /\ LiveCluster
    \/ At("setup") /\ LiveCluster
    \/ At("apply") /\ ~CanApply
    \/ At("start-workers") /\ ~WorkersAlreadyRunning /\ ~CanApply
    \/ At("cleanup-bootstrap") /\ ~KeepBootstrap /\ ~CanApply
    \/ run.stage \in {"wait-bootstrap", "health"} /\ Settled /\ ~OwnApiUp
    \/ At("monitor") /\ Settled /\ ~(OwnApiUp /\ cluster.joined)

DeployGivesUp ==
    /\ DeployBlocked
    /\ run' = IdleRun
    /\ UNCHANGED <<work, served, terraform, machines, cluster, access, faults>>

=============================================================================
