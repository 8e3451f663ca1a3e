---------------------------- MODULE DeployWorld ----------------------------
(***************************************************************************)
(* What a deploy, a destroy and a cleanup share: the work directory with   *)
(* the cluster's identity and the deploy marker, the terraform environment *)
(* directory, the web root the ignition files are served from, the VMs,    *)
(* and the cluster that grows on them.                                     *)
(*                                                                         *)
(* An identity stands for everything openshift-install generates at once   *)
(* and never again alike: the CA, the ignition files, the kubeconfig.  One *)
(* master and one worker stand for all of them.  One okdctl process runs   *)
(* at a time (internal/runlock).                                           *)
(***************************************************************************)
EXTENDS Integers, FiniteSets

CONSTANTS
    Verbs,           \* the commands an operator issues
    StartLive,       \* begin with a deployed cluster instead of nothing
    AmbientAccess,   \* what ~/.kube/config may reach at first
    AccessOutcomes,  \* whether setup-access manages to write ~/.kube/config
    MaxFaults        \* bound: failed steps, kills and unremovable markers

Deploys == {"deploy", "fresh"}       \* okdctl deploy, okdctl deploy --fresh
Destroys == {"destroy", "destroy-skip-terraform", "destroy-skip-cleanup"}
Foreign == -1                        \* the identity of somebody else's cluster
AnyAmbient == {0, Foreign}           \* no ~/.kube/config, or one that opens another cluster

ASSUME DeployAssumption ==
    /\ Verbs \subseteq Deploys \cup Destroys \cup {"cleanup"}
    /\ StartLive \in BOOLEAN
    /\ AmbientAccess \subseteq AnyAmbient /\ AmbientAccess # {}
    /\ AccessOutcomes \subseteq BOOLEAN /\ AccessOutcomes # {}
    /\ MaxFaults \in Nat

VARIABLES
    marker,      \* the deploy marker's phase
    workDir,     \* the work directory exists
    creds,       \* identity in cluster-config, kubeconfig included; 0: none
    served,      \* identity of the ignition files in the web root; 0: none
    tfvars,      \* terraform.tfvars exists
    sentinel,    \* bootstrap-state.auto.tfvars.json: no bootstrap VM is wanted
    override,    \* prevent_destroy_override.tf exists
    state,       \* terraform.tfstate can be read
    vms,         \* the VMs that exist, which a readable state lists
    built,       \* identity each VM installed itself from; 0: not yet
    workerOn,    \* the workers are powered on
    cluster,     \* how far the cluster got
    access,      \* identity that the ambient ~/.kube/config reaches
    run,         \* the okdctl process in flight, or IdleRun
    faults       \* failures so far, bounded by MaxFaults

work == <<marker, workDir, creds>>
terraform == <<tfvars, sentinel, override, state>>
machines == <<vms, built, workerOn>>
vars == <<work, served, terraform, machines, cluster, access, run, faults>>

VM == {"bootstrap", "master", "worker"}
Phase == {"none", "setup", "install", "postinstall", "completed"}

\* Enough for every place that can hold one, and one more.
Identity == 1 .. 7
InUse == {creds, served, access} \cup {built[v] : v \in VM}
Unused == CHOOSE i \in Identity : i \notin InUse

Fresh == [handover |-> FALSE, vip |-> FALSE, joined |-> FALSE]

Stage == {"idle", "guard", "setup", "clean-creds", "clean-dir", "clean-web",
          "clean-terraform", "summary", "ignition", "serve", "tfvars",
          "mark-install", "apply", "wait-bootstrap", "start-workers", "monitor",
          "setup-access", "mark-postinstall", "health", "kubevip", "cleanup-bootstrap",
          "destroy-bootstrap", "stop-ignition", "clear",
          "destroy-infra", "destroy-plan", "destroy-vms"}
Run == [verb : Deploys \cup Destroys \cup {"cleanup", "none"}, stage : Stage,
        vipVerified : BOOLEAN, tfFailed : BOOLEAN, failed : BOOLEAN]
IdleRun == [verb |-> "none", stage |-> "idle",
            vipVerified |-> FALSE, tfFailed |-> FALSE, failed |-> FALSE]

TypeOK ==
    /\ marker \in Phase /\ workDir \in BOOLEAN
    /\ creds \in Identity \cup {0} /\ served \in Identity \cup {0}
    /\ tfvars \in BOOLEAN /\ sentinel \in BOOLEAN /\ override \in BOOLEAN
    /\ state \in {"ok", "corrupt"}
    /\ vms \subseteq VM /\ built \in [VM -> Identity \cup {0}] /\ workerOn \in BOOLEAN
    /\ cluster \in [handover : BOOLEAN, vip : BOOLEAN, joined : BOOLEAN]
    /\ access \in Identity \cup {0, Foreign}
    /\ run \in Run /\ faults \in 0 .. MaxFaults

NothingDeployed ==
    /\ workDir = FALSE /\ creds = 0 /\ tfvars = FALSE /\ sentinel = FALSE
    /\ vms = {} /\ built = [v \in VM |-> 0] /\ workerOn = FALSE
    /\ cluster = Fresh

ClusterDeployed ==
    /\ workDir = TRUE /\ creds = 1 /\ tfvars = TRUE /\ sentinel = TRUE
    /\ vms = {"master", "worker"} /\ workerOn = TRUE
    /\ built = [v \in VM |-> IF v = "bootstrap" THEN 0 ELSE 1]
    /\ cluster = [handover |-> TRUE, vip |-> TRUE, joined |-> TRUE]

Init ==
    /\ IF StartLive THEN ClusterDeployed ELSE NothingDeployed
    /\ marker = "none" /\ served = 0 /\ override = FALSE /\ state = "ok"
    /\ access \in AmbientAccess
    /\ run = IdleRun /\ faults = 0

-----------------------------------------------------------------------------
(* What the process can observe *)

Populated == state = "ok" /\ vms # {}        \* StateStatus: has resources
Corrupt == state = "corrupt"                 \* never taken for destroyed

\* The load balancer answers from the bootstrap VM, the VIP without it.
ApiUp == cluster.handover /\ (cluster.vip \/ "bootstrap" \in vms)

\* The kubeconfig in the work directory opens this cluster's API.
OwnApiUp == creds # 0 /\ built["master"] = creds /\ ApiUp

\* Every plan and apply but a destroy's refuses a stale override.
CanApply == state = "ok" /\ tfvars /\ ~override

-----------------------------------------------------------------------------
(* The process *)

Idle == run = IdleRun
At(stage) == run.stage = stage
GoTo(stage) == run' = [run EXCEPT !.stage = stage]
Begin(verb, stage) ==
    /\ Idle /\ verb \in Verbs
    /\ run' = [IdleRun EXCEPT !.verb = verb, !.stage = stage]
Deploying == run.verb \in Deploys
TearingDown == run.verb \in Destroys \cup {"cleanup"}

\* terraform writes its state while it works; a kill there may tear the file.
InTerraform ==
    run.stage \in {"apply", "start-workers", "destroy-bootstrap", "destroy-vms"}

\* The process is killed; whatever it wrote stays, the override included.
Crash ==
    /\ ~Idle /\ faults < MaxFaults
    /\ run' = IdleRun /\ faults' = faults + 1
    /\ state' \in {state} \cup (IF InTerraform THEN {"corrupt"} ELSE {})
    /\ UNCHANGED <<work, served, tfvars, sentinel, override, machines, cluster, access>>

-----------------------------------------------------------------------------
(* The machines, the cluster, and the operator who restores a state backup *)

\* The first boot fetches ignition; a live ISO retries until it is served.
Boot(v) ==
    /\ v \in vms /\ built[v] = 0 /\ served # 0
    /\ v = "worker" => workerOn
    /\ built' = [built EXCEPT ![v] = served]
    /\ UNCHANGED <<work, served, terraform, vms, workerOn, cluster, access, run, faults>>

ControlPlaneUp ==
    /\ ~cluster.handover
    /\ {"bootstrap", "master"} \subseteq vms
    /\ built["bootstrap"] # 0 /\ built["bootstrap"] = built["master"]
    /\ cluster' = [cluster EXCEPT !.handover = TRUE]
    /\ UNCHANGED <<work, served, terraform, machines, access, run, faults>>

VipUp ==
    /\ ApiUp /\ ~cluster.vip
    /\ cluster' = [cluster EXCEPT !.vip = TRUE]
    /\ UNCHANGED <<work, served, terraform, machines, access, run, faults>>

Join ==
    /\ ApiUp /\ ~cluster.joined /\ workerOn
    /\ built["worker"] # 0 /\ built["worker"] = built["master"]
    /\ cluster' = [cluster EXCEPT !.joined = TRUE]
    /\ UNCHANGED <<work, served, terraform, machines, access, run, faults>>

RestoreState ==
    /\ Idle /\ Corrupt
    /\ state' = "ok"
    /\ UNCHANGED <<work, served, tfvars, sentinel, override, machines, cluster, access, run, faults>>

Environment == (\E v \in VM : Boot(v)) \/ ControlPlaneUp \/ VipUp \/ Join

\* Nothing more will happen by itself: a wait that is still on times out.
Settled ==
    /\ \A v \in vms : built[v] = 0 => served = 0 \/ (v = "worker" /\ ~workerOn)
    /\ ~cluster.handover =>
          ~({"bootstrap", "master"} \subseteq vms /\ built["bootstrap"] # 0
               /\ built["bootstrap"] = built["master"])
    /\ ApiUp => cluster.vip
    /\ ApiUp /\ workerOn /\ built["worker"] # 0 /\ built["worker"] = built["master"]
          => cluster.joined

=============================================================================
