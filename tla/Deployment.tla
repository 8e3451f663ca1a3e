----------------------------- MODULE Deployment -----------------------------
(***************************************************************************)
(* Deploy, destroy and cleanup together: each command meets the files, the *)
(* marker and the VMs that the ones before left, whether they completed,   *)
(* failed or were killed.                                                  *)
(***************************************************************************)
EXTENDS Deploy, Teardown

BeginCommand ==
    \/ \E verb \in Deploys : DeployBegin(verb)
    \/ \E verb \in Destroys : DestroyBegin(verb)
    \/ CleanupBegin

\* What the process does by itself until it returns.
Proceed ==
    \/ SetupStep \/ CleanupStep \/ InstallStep \/ PostInstallStep \/ DestroyStep
    \/ DeployGivesUp

Failure ==
    CleanupFails \/ DeployFails \/ DeployWarns \/ ClearFails \/ DestroyFails

Next == BeginCommand \/ Proceed \/ Failure \/ Crash \/ Environment \/ RestoreState

Spec == Init /\ [][Next]_vars

(***************************************************************************)
(* Fairness: the process is never suspended for ever, guests install and   *)
(* the cluster grows as far as it can, an operator issues commands again   *)
(* and restores a torn state file before one of its retries (strong        *)
(* fairness: between two commands).  Failures are bounded by MaxFaults.    *)
(***************************************************************************)
Fairness ==
    /\ WF_vars(Proceed)
    /\ \A v \in VM : WF_vars(Boot(v))
    /\ WF_vars(ControlPlaneUp) /\ WF_vars(VipUp) /\ WF_vars(Join)
    /\ SF_vars(RestoreState) /\ WF_vars(BeginCommand)

FairSpec == Spec /\ Fairness

-----------------------------------------------------------------------------
(* Safety, whatever commands are issued *)

\* The identity of a cluster that still has a VM is neither wiped nor replaced,
\* except by deploy --fresh (guardLiveCluster, retainClusterCredentials, and the
\* resume that routes past setup).
IdentityPreserved ==
    [][creds # 0 /\ creds' # creds => run.verb = "fresh" \/ vms = {}]_vars

\* A deploy destroys the bootstrap VM only while the VIP serves the API without
\* it (the verify-before-destroy gate of cleanup-bootstrap).
ApiFallback ==
    [][Deploying /\ "bootstrap" \in vms /\ "bootstrap" \notin vms' => cluster.vip]_vars

\* A destroy that reports success left no VM, no credentials and no marker, after
\* any number of failed or killed ones before it (the summary of phase_destroy;
\* ignition files and tfvars may stay: failing to remove those is only logged).
SuccessMeansGone ==
    run.verb = "destroy" /\ At("summary") /\ ~run.failed
        => vms = {} /\ creds = 0 /\ marker = "none"

-----------------------------------------------------------------------------
(* Safety of deploys that are retried, without --fresh *)

\* Every VM that installed itself did so from the identity the work directory
\* holds, however often setup was interrupted and generated another one
\* (deploy-ignition compares content).
IdentityAgrees ==
    creds # 0 => \A v \in VM : built[v] \in {0, creds}

\* Once the bootstrap VM is gone from a cluster that is up, no full plan wants
\* it back: a kill never leaves the tfvars ahead (CleanupBootstrap's order).
BootstrapStaysGone ==
    cluster.handover /\ "bootstrap" \notin vms /\ tfvars => sentinel

\* A deploy that completes leaves the workers joined and running, and the API
\* reachable with its own credentials.
CompletedReached == Deploying /\ At("clear") => OwnApiUp /\ cluster.joined
CompletedRuns == Deploying /\ At("clear") => OwnApiUp /\ cluster.joined /\ workerOn

-----------------------------------------------------------------------------
(* Liveness, under FairSpec *)

\* A deploy that is retried until it ends does end, and from then on the cluster
\* stays up with no marker that would resume it, whatever further deploys are
\* issued (phases.md: recovery is re-running okdctl deploy).  The marker may say
\* setup: a deploy over an unreadable state writes it before cleanup refuses.
Deployed == OwnApiUp /\ cluster.joined /\ workerOn /\ marker \notin {"install", "postinstall"}
DeployConverges == <>[]Deployed

\* Once only destroys are issued, repeating them ends with nothing left, wherever
\* the deploys and destroys before stopped; unless a command removed the variables
\* no destroy plan can be made without, of VMs that exist (cleanup,
\* destroy --skip-terraform).
OnlyDestroys == run.verb \in {"none", "destroy"}
VariablesKept == run.verb \notin {"cleanup", "destroy-skip-terraform"}
NothingLeft == vms = {} /\ creds = 0 /\ marker = "none" /\ ~tfvars
DestroyConverges == []VariablesKept /\ <>[]OnlyDestroys => <>[]NothingLeft

=============================================================================
