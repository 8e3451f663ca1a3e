-------------------------- MODULE Deployment_proofs --------------------------
(***************************************************************************)
(* Proofs, for every set of commands and any number of failures, about     *)
(* which commands may replace an identity, when the bootstrap VM goes, and *)
(* what a successful destroy left.                                         *)
(***************************************************************************)
EXTENDS Deployment, TLAPS

-----------------------------------------------------------------------------
(* The inductive invariant *)

SetupStages == {"guard", "setup", "ignition", "serve", "tfvars"}
InstallStages == {"mark-install", "apply", "wait-bootstrap", "start-workers", "monitor",
                  "setup-access", "mark-postinstall"}
PostInstallStages == {"health", "kubevip", "cleanup-bootstrap", "destroy-bootstrap",
                      "stop-ignition", "clear"}
DestroyStages == {"destroy-infra", "destroy-plan", "destroy-vms"}

\* Which commands a stage belongs to; the wipe is shared.
Stages ==
    /\ run.stage \in SetupStages \cup InstallStages \cup PostInstallStages => Deploying
    /\ run.stage \in DestroyStages => run.verb \in Destroys
    /\ run.stage \in {"clean-web", "clean-terraform"} => TearingDown

\* Credentials and marker live in the work directory.
Housed ==
    /\ creds # 0 \/ marker # "none" => workDir
    /\ run.stage \in PostInstallStages => workDir
    /\ Deploying /\ run.stage \in {"setup", "clean-creds"} => workDir

\* A deploy that got as far as the wipe saw no live cluster; after the wipe it
\* has nothing left to resume from.
Wiped ==
    /\ Deploying /\ run.verb # "fresh" /\ At("clean-creds") => vms = {} \/ Corrupt
    /\ At("clean-dir") /\ run.verb # "fresh" => vms = {}
    /\ Deploying /\ (At("ignition") \/ (At("summary") /\ ~run.failed))
          => creds = 0 /\ marker = "none" /\ (run.verb # "fresh" => vms = {})

\* A verified VIP stays verified until the process ends.
Verified ==
    /\ run.vipVerified => cluster.vip /\ run.stage \notin DestroyStages
    /\ At("destroy-bootstrap") => run.vipVerified

\* A destroy that has not failed yet has destroyed what it is done with.
Destroyed ==
    /\ run.stage \in {"destroy-plan", "destroy-vms"} => state = "ok"
    /\ run.verb = "destroy" /\ ~run.failed =>
          /\ run.stage \in {"clean-creds", "clean-dir"} => vms = {} /\ state = "ok"
          /\ run.stage \in {"clean-web", "clean-terraform", "summary"}
                => vms = {} /\ creds = 0 /\ marker = "none"

IInv == TypeOK /\ Stages /\ Housed /\ Wiped /\ Verified /\ Destroyed

\* Without --fresh: what is served to a guest is the identity that the work
\* directory holds, from the moment a VM may be created.
Serving ==
    /\ run.verb # "fresh"
    /\ run.stage \in {"serve", "tfvars"} => vms = {} /\ marker = "none"
    /\ \A v \in VM : built[v] # 0 => v \in vms
    /\ creds # 0 /\ (\/ vms # {} \/ marker \in {"install", "postinstall"}
                     \/ run.stage \in {"tfvars"} \cup InstallStages)
          => served \in {0, creds}

AInv == IdentityAgrees /\ Serving

-----------------------------------------------------------------------------
(* Facts about the data *)

LEMMA UnusedType == ASSUME TypeOK PROVE Unused \in Identity
<1>1. \E i \in Identity : i \notin InUse
  BY DEF TypeOK, InUse, Identity, VM, Foreign
<1> QED
  BY <1>1 DEF Unused

LEMMA IdleRunType ==
    /\ IdleRun \in Run /\ IdleRun.stage = "idle" /\ IdleRun.verb = "none"
    /\ IdleRun.vipVerified = FALSE /\ IdleRun.tfFailed = FALSE /\ IdleRun.failed = FALSE
BY DEF IdleRun, Run, Stage

\* A step of the process to stage s that may record a failure.
GoesTo(s) ==
    /\ run' \in Run /\ run'.stage = s /\ run'.verb = run.verb
    /\ run'.vipVerified = run.vipVerified
    /\ run.failed => run'.failed

LEMMA GoToType ==
    ASSUME TypeOK, NEW s \in Stage, GoTo(s)
    PROVE  GoesTo(s) /\ run'.failed = run.failed
BY DEF TypeOK, GoTo, Run, GoesTo

LEMMA BeginType ==
    ASSUME NEW verb, NEW s \in Stage, Begin(verb, s), DeployAssumption
    PROVE  /\ run' \in Run /\ run'.stage = s /\ run'.verb = verb /\ verb \in Verbs
           /\ run'.vipVerified = FALSE /\ run'.failed = FALSE
BY DEF Begin, Run, IdleRun, DeployAssumption, Stage

\* Returning or dying keeps the invariant when the files keep the marker housed.
LEMMA IdleKeeps ==
    ASSUME IInv, run' = IdleRun,
           marker' \in {marker, "none"} \/ (marker' = "completed" /\ workDir),
           workDir' = workDir, creds' = creds,
           state' \in {"ok", "corrupt"}, faults' \in 0 .. MaxFaults,
           UNCHANGED <<served, tfvars, sentinel, override, machines, cluster, access>>
    PROVE  IInv'
<1>1. TypeOK'
  BY IdleRunType DEF IInv, TypeOK, machines, Phase
<1>2. Housed'
  BY IdleRunType DEF IInv, Housed, Deploying, Deploys, PostInstallStages
<1>3. Stages' /\ Wiped' /\ Verified' /\ Destroyed'
  BY IdleRunType DEF Stages, Wiped, Verified, Destroyed, At, Deploying, Deploys, SetupStages,
     InstallStages, PostInstallStages, DestroyStages
<1> QED
  BY <1>1, <1>2, <1>3 DEF IInv

-----------------------------------------------------------------------------
(* The wipe *)

LEMMA CleanupKeeps == ASSUME IInv, CleanupStep PROVE IInv'
<1> USE DEF IInv
<1>0. AfterWorkDir \in Stage /\ AfterWorkDir = IF FullCleanup THEN "clean-web" ELSE "summary"
  BY DEF AfterWorkDir, Stage
<1>1. CASE CleanCreds
  <2>1. /\ run.stage = "clean-creds"
        /\ UNCHANGED <<marker, workDir, served, tfvars, sentinel, override, state,
                       vms, built, workerOn, cluster, access, faults>>
    BY <1>1 DEF CleanCreds, At, terraform, machines
  <2>2. CASE workDir /\ RetainRefused
    <3>1. GoesTo(AfterWorkDir) /\ run'.failed /\ creds' = creds
      BY <1>1, <2>2, <1>0 DEF CleanCreds, GoesTo, GoTo, TypeOK, Run, Retain, RetainRefused,
         Populated, Corrupt
    <3>2. TypeOK'
      BY <2>1, <3>1 DEF TypeOK, GoesTo
    <3> QED
      BY <1>0, <2>1, <2>2, <3>1, <3>2 DEF FullCleanup, Corrupt, Stages, Housed, Wiped, Verified, Destroyed, GoesTo, At, Deploying, TearingDown,
       SetupStages, InstallStages, PostInstallStages, DestroyStages, Deploys, Destroys
  <2>3. CASE (~workDir \/ Retain) /\ ~(workDir /\ RetainRefused)
    <3>1. GoTo(AfterWorkDir) /\ creds' = creds
      BY <1>1, <2>3 DEF CleanCreds
    <3>2. GoesTo(AfterWorkDir) /\ run'.failed = run.failed
      BY <1>0, <3>1, GoToType
    <3>3. TypeOK'
      BY <2>1, <3>1, <3>2 DEF TypeOK, GoesTo
    <3> QED
      BY <1>0, <2>1, <2>3, <3>1, <3>2, <3>3
      DEF FullCleanup, Corrupt, Retain, RetainRefused, Populated, Stages, Housed, Wiped, Verified, Destroyed, GoesTo, At, Deploying, TearingDown,
       SetupStages, InstallStages, PostInstallStages, DestroyStages, Deploys, Destroys
  <2>4. CASE workDir /\ ~Retain /\ ~RetainRefused
    <3>1. GoTo("clean-dir") /\ creds' = 0
      BY <1>1, <2>4 DEF CleanCreds
    <3>2. GoesTo("clean-dir") /\ run'.failed = run.failed
      BY <3>1, GoToType DEF Stage
    <3>3. TypeOK'
      BY <2>1, <3>1, <3>2 DEF TypeOK, GoesTo
    <3>4. run.verb # "fresh" => vms = {} /\ state = "ok"
      BY <2>4 DEF TypeOK, Retain, RetainRefused, Populated, Corrupt
    <3> QED
      BY <2>1, <2>4, <3>1, <3>2, <3>3, <3>4 DEF Stages, Housed, Wiped, Verified, Destroyed, GoesTo, At, Deploying, TearingDown,
       SetupStages, InstallStages, PostInstallStages, DestroyStages, Deploys, Destroys
  <2> QED
    BY <1>1, <2>2, <2>3, <2>4 DEF CleanCreds
<1>2. CASE CleanDir
  <2>1. /\ run.stage = "clean-dir" /\ GoTo(AfterWorkDir)
        /\ marker' = "none" /\ workDir' = FALSE /\ creds' = 0
        /\ UNCHANGED <<served, tfvars, sentinel, override, state,
                       vms, built, workerOn, cluster, access, faults>>
    BY <1>2 DEF CleanDir, At, terraform, machines
  <2>2. GoesTo(AfterWorkDir) /\ run'.failed = run.failed
    BY <1>0, <2>1, GoToType
  <2>3. TypeOK'
    BY <2>1, <2>2 DEF TypeOK, GoesTo, Phase
  <2> QED
    BY <1>0, <2>1, <2>2, <2>3 DEF FullCleanup, Stages, Housed, Wiped, Verified, Destroyed, GoesTo, At, Deploying, TearingDown,
       SetupStages, InstallStages, PostInstallStages, DestroyStages, Deploys, Destroys
<1>3. CASE CleanWeb \/ CleanTerraform
  <2>1. /\ run.stage \in {"clean-web", "clean-terraform"}
        /\ GoTo("clean-terraform") \/ GoTo("summary")
        /\ served' \in {0, served} /\ tfvars' \in BOOLEAN /\ sentinel' \in BOOLEAN
        /\ UNCHANGED <<marker, workDir, creds, override, state,
                       vms, built, workerOn, cluster, access, faults>>
    BY <1>3 DEF CleanWeb, CleanTerraform, At, work, terraform, machines, TypeOK
  <2>2. /\ GoesTo("clean-terraform") \/ GoesTo("summary")
        /\ run'.failed = run.failed
    BY <2>1, GoToType DEF Stage
  <2>3. TypeOK'
    BY <2>1, <2>2 DEF TypeOK, GoesTo
  <2> QED
    BY <2>1, <2>2, <2>3 DEF Stages, Housed, Wiped, Verified, Destroyed, GoesTo, At, Deploying, TearingDown,
       SetupStages, InstallStages, PostInstallStages, DestroyStages, Deploys, Destroys
<1>4. CASE Summary
  <2>1. /\ run.stage = "summary"
        /\ UNCHANGED <<marker, workDir, creds, served, tfvars, sentinel, override, state,
                       vms, built, workerOn, cluster, access, faults>>
    BY <1>4 DEF Summary, At, work, terraform, machines
  <2>2. CASE Deploying /\ ~run.failed
    <3>1. GoesTo("ignition") /\ run'.failed = run.failed
      BY <1>4, <2>2, GoToType DEF Summary, GoTo, Stage
    <3>2. TypeOK'
      BY <2>1, <3>1 DEF TypeOK, GoesTo
    <3> QED
      BY <2>1, <2>2, <3>1, <3>2 DEF Stages, Housed, Wiped, Verified, Destroyed, GoesTo, At, Deploying, TearingDown,
       SetupStages, InstallStages, PostInstallStages, DestroyStages, Deploys, Destroys
  <2>3. CASE ~(Deploying /\ ~run.failed)
    <3>1. run' = IdleRun
      BY <1>4, <2>3 DEF Summary
    <3>2. state \in {"ok", "corrupt"} /\ faults \in 0 .. MaxFaults
      BY DEF TypeOK
    <3> QED
      BY <2>1, <3>1, <3>2, IdleKeeps DEF machines
  <2> QED
    BY <2>2, <2>3
<1> QED
  BY <1>1, <1>2, <1>3, <1>4 DEF CleanupStep

-----------------------------------------------------------------------------
(* The deploy engine *)

LEMMA SetupKeeps == ASSUME IInv, SetupStep PROVE IInv'
<1> USE DEF IInv
<1>1. CASE GuardSetup
  <2>1. /\ run.stage = "guard" /\ GoTo("setup")
        /\ marker' = "setup" /\ workDir' = TRUE
        /\ UNCHANGED <<creds, served, tfvars, sentinel, override, state,
                       vms, built, workerOn, cluster, access, faults>>
    BY <1>1 DEF GuardSetup, At, terraform, machines
  <2>2. GoesTo("setup") /\ run'.failed = run.failed
    BY <2>1, GoToType DEF Stage
  <2>3. TypeOK'
    BY <2>1, <2>2 DEF TypeOK, GoesTo, Phase
  <2> QED
    BY <2>1, <2>2, <2>3 DEF Stages, Housed, Wiped, Verified, Destroyed, GoesTo, At, Deploying, TearingDown,
       SetupStages, InstallStages, PostInstallStages, DestroyStages, Deploys, Destroys
<1>2. CASE SetupGuard
  <2>1. /\ run.stage = "setup" /\ GoTo("clean-creds") /\ ~LiveCluster
        /\ UNCHANGED <<marker, workDir, creds, served, tfvars, sentinel, override, state,
                       vms, built, workerOn, cluster, access, faults>>
    BY <1>2 DEF SetupGuard, At, work, terraform, machines
  <2>2. GoesTo("clean-creds") /\ run'.failed = run.failed
    BY <2>1, GoToType DEF Stage
  <2>3. TypeOK'
    BY <2>1, <2>2 DEF TypeOK, GoesTo
  <2>4. run.verb # "fresh" => vms = {} \/ state = "corrupt"
    BY <2>1 DEF LiveCluster, Populated, TypeOK
  <2> QED
    BY <2>1, <2>2, <2>3, <2>4 DEF Corrupt, Stages, Housed, Wiped, Verified, Destroyed, GoesTo, At, Deploying, TearingDown,
       SetupStages, InstallStages, PostInstallStages, DestroyStages, Deploys, Destroys
<1>3. CASE GenerateIgnition
  <2>1. /\ run.stage = "ignition" /\ GoTo("serve")
        /\ workDir' = TRUE /\ creds' = Unused
        /\ UNCHANGED <<marker, served, tfvars, sentinel, override, state,
                       vms, built, workerOn, cluster, access, faults>>
    BY <1>3 DEF GenerateIgnition, At, terraform, machines
  <2>2. GoesTo("serve") /\ run'.failed = run.failed
    BY <2>1, GoToType DEF Stage
  <2>3. TypeOK'
    BY <2>1, <2>2, UnusedType DEF TypeOK, GoesTo
  <2> QED
    BY <2>1, <2>2, <2>3 DEF Stages, Housed, Wiped, Verified, Destroyed, GoesTo, At, Deploying, TearingDown,
       SetupStages, InstallStages, PostInstallStages, DestroyStages, Deploys, Destroys
<1>4. CASE DeployIgnition \/ GenerateTfvars
  <2>1. /\ run.stage \in {"serve", "tfvars"}
        /\ GoTo("tfvars") \/ GoTo("mark-install")
        /\ served' \in {served, creds} /\ tfvars' \in BOOLEAN /\ sentinel' \in BOOLEAN
        /\ UNCHANGED <<marker, workDir, creds, override, state,
                       vms, built, workerOn, cluster, access, faults>>
    BY <1>4 DEF DeployIgnition, GenerateTfvars, At, work, terraform, machines, TypeOK
  <2>2. /\ GoesTo("tfvars") \/ GoesTo("mark-install")
        /\ run'.failed = run.failed
    BY <2>1, GoToType DEF Stage
  <2>3. TypeOK'
    BY <2>1, <2>2 DEF TypeOK, GoesTo
  <2> QED
    BY <2>1, <2>2, <2>3 DEF Stages, Housed, Wiped, Verified, Destroyed, GoesTo, At, Deploying, TearingDown,
       SetupStages, InstallStages, PostInstallStages, DestroyStages, Deploys, Destroys
<1> QED
  BY <1>1, <1>2, <1>3, <1>4 DEF SetupStep

LEMMA InstallKeeps == ASSUME IInv, InstallStep PROVE IInv'
<1> USE DEF IInv
<1>1. CASE MarkInstall
  <2>1. /\ run.stage = "mark-install" /\ GoTo("apply")
        /\ marker' = "install" /\ workDir' = TRUE
        /\ UNCHANGED <<creds, served, tfvars, sentinel, override, state,
                       vms, built, workerOn, cluster, access, faults>>
    BY <1>1 DEF MarkInstall, At, terraform, machines
  <2>2. GoesTo("apply") /\ run'.failed = run.failed
    BY <2>1, GoToType DEF Stage
  <2>3. TypeOK'
    BY <2>1, <2>2 DEF TypeOK, GoesTo, Phase
  <2> QED
    BY <2>1, <2>2, <2>3 DEF Stages, Housed, Wiped, Verified, Destroyed, GoesTo, At, Deploying, TearingDown,
       SetupStages, InstallStages, PostInstallStages, DestroyStages, Deploys, Destroys
<1>2. CASE Apply
  <2>1. /\ run.stage = "apply" /\ (run' = run \/ GoTo("wait-bootstrap"))
        /\ vms' \subseteq VM /\ workerOn' \in BOOLEAN
        /\ UNCHANGED <<marker, workDir, creds, served, tfvars, sentinel, override, state,
                       built, cluster, access, faults>>
    BY <1>2 DEF Apply, Desired, At, work, terraform, machines, TypeOK
  <2>2. /\ run' = run \/ GoesTo("wait-bootstrap")
        /\ run'.failed = run.failed
    BY <2>1, GoToType DEF Stage
  <2>3. TypeOK'
    BY <2>1, <2>2 DEF TypeOK, GoesTo
  <2>4. CASE run' = run
    BY <2>1, <2>3, <2>4 DEF Stages, Housed, Wiped, Verified, Destroyed, GoesTo, At, Deploying, TearingDown,
       SetupStages, InstallStages, PostInstallStages, DestroyStages, Deploys, Destroys
  <2>5. CASE GoesTo("wait-bootstrap")
    BY <2>1, <2>2, <2>3, <2>5 DEF Stages, Housed, Wiped, Verified, Destroyed, GoesTo, At, Deploying, TearingDown,
       SetupStages, InstallStages, PostInstallStages, DestroyStages, Deploys, Destroys
  <2> QED
    BY <2>2, <2>4, <2>5
<1>3. CASE WaitBootstrap \/ StartWorkers \/ MonitorInstall \/ SetupAccess
  <2>1. /\ run.stage \in {"wait-bootstrap", "start-workers", "monitor", "setup-access"}
        /\ \E s \in {"start-workers", "monitor", "setup-access", "mark-postinstall"} : GoTo(s)
        /\ workerOn' \in BOOLEAN /\ access' \in {access, creds}
        /\ UNCHANGED <<marker, workDir, creds, served, tfvars, sentinel, override, state,
                       vms, built, cluster, faults>>
    BY <1>3 DEF WaitBootstrap, StartWorkers, MonitorInstall, SetupAccess, At, work, terraform,
       machines, TypeOK
  <2>2. /\ \E s \in {"start-workers", "monitor", "setup-access", "mark-postinstall"} : GoesTo(s)
        /\ run'.failed = run.failed
    BY <2>1, GoToType DEF Stage
  <2>3. TypeOK'
    BY <2>1, <2>2 DEF TypeOK, GoesTo
  <2> QED
    BY <2>1, <2>2, <2>3 DEF Stages, Housed, Wiped, Verified, Destroyed, GoesTo, At, Deploying, TearingDown,
       SetupStages, InstallStages, PostInstallStages, DestroyStages, Deploys, Destroys
<1> QED
  BY <1>1, <1>2, <1>3 DEF InstallStep

LEMMA PostInstallStepKeeps == ASSUME IInv, PostInstallStep PROVE IInv'
<1> USE DEF IInv
<1>1. CASE MarkPostInstall
  <2>1. /\ run.stage = "mark-postinstall" /\ GoTo("health")
        /\ marker' = "postinstall" /\ workDir' = TRUE
        /\ UNCHANGED <<creds, served, tfvars, sentinel, override, state,
                       vms, built, workerOn, cluster, access, faults>>
    BY <1>1 DEF MarkPostInstall, At, terraform, machines
  <2>2. GoesTo("health") /\ run'.failed = run.failed
    BY <2>1, GoToType DEF Stage
  <2>3. TypeOK'
    BY <2>1, <2>2 DEF TypeOK, GoesTo, Phase
  <2> QED
    BY <2>1, <2>2, <2>3 DEF Stages, Housed, Wiped, Verified, Destroyed, GoesTo, At, Deploying, TearingDown,
       SetupStages, InstallStages, PostInstallStages, DestroyStages, Deploys, Destroys
<1>2. CASE VerifyHealth \/ SkipCleanupBootstrap \/ StopIgnition
  <2>1. /\ run.stage \in {"health", "cleanup-bootstrap", "stop-ignition"}
        /\ GoTo("kubevip") \/ GoTo("clear")
        /\ served' \in {0, served}
        /\ UNCHANGED <<marker, workDir, creds, tfvars, sentinel, override, state,
                       vms, built, workerOn, cluster, access, faults>>
    BY <1>2 DEF VerifyHealth, SkipCleanupBootstrap, StopIgnition, At, work, terraform, machines
  <2>2. /\ GoesTo("kubevip") \/ GoesTo("clear")
        /\ run'.failed = run.failed
    BY <2>1, GoToType DEF Stage
  <2>3. TypeOK'
    BY <2>1, <2>2 DEF TypeOK, GoesTo
  <2> QED
    BY <2>1, <2>2, <2>3 DEF Stages, Housed, Wiped, Verified, Destroyed, GoesTo, At, Deploying, TearingDown,
       SetupStages, InstallStages, PostInstallStages, DestroyStages, Deploys, Destroys
<1>3. CASE VerifyKubeVIP
  <2>1. /\ run.stage = "kubevip"
        /\ UNCHANGED <<marker, workDir, creds, served, tfvars, sentinel, override, state,
                       vms, built, workerOn, cluster, access, faults>>
    BY <1>3 DEF VerifyKubeVIP, At, work, terraform, machines
  <2>2. /\ run' \in Run /\ run'.stage = "cleanup-bootstrap" /\ run'.verb = run.verb
        /\ run'.vipVerified = cluster.vip /\ run'.failed = run.failed
    BY <1>3 DEF VerifyKubeVIP, TypeOK, Run, Stage
  <2>3. TypeOK'
    BY <2>1, <2>2 DEF TypeOK
  <2> QED
    BY <2>1, <2>2, <2>3 DEF Stages, Housed, Wiped, Verified, Destroyed, GoesTo, At, Deploying, TearingDown,
       SetupStages, InstallStages, PostInstallStages, DestroyStages, Deploys, Destroys
<1>4. CASE CleanupBootstrap
  <2>1. /\ run.stage = "cleanup-bootstrap" /\ GoTo("destroy-bootstrap") /\ run.vipVerified
        /\ sentinel' = TRUE
        /\ UNCHANGED <<marker, workDir, creds, served, tfvars, override, state,
                       vms, built, workerOn, cluster, access, faults>>
    BY <1>4 DEF CleanupBootstrap, KeepBootstrap, At, work, terraform, machines
  <2>2. GoesTo("destroy-bootstrap") /\ run'.failed = run.failed
    BY <2>1, GoToType DEF Stage
  <2>3. TypeOK'
    BY <2>1, <2>2 DEF TypeOK, GoesTo
  <2> QED
    BY <2>1, <2>2, <2>3 DEF Stages, Housed, Wiped, Verified, Destroyed, GoesTo, At, Deploying, TearingDown,
       SetupStages, InstallStages, PostInstallStages, DestroyStages, Deploys, Destroys
<1>5. CASE DestroyBootstrap
  <2>1. /\ run.stage = "destroy-bootstrap" /\ GoTo("stop-ignition")
        /\ vms' \subseteq vms /\ built' = [built EXCEPT !["bootstrap"] = 0]
        /\ UNCHANGED <<marker, workDir, creds, served, tfvars, sentinel, override, state,
                       workerOn, cluster, access, faults>>
    BY <1>5 DEF DestroyBootstrap, At, work, terraform, machines
  <2>2. GoesTo("stop-ignition") /\ run'.failed = run.failed
    BY <2>1, GoToType DEF Stage
  <2>3. built' \in [VM -> Identity \cup {0}]
    BY <2>1 DEF TypeOK, Identity
  <2>4. TypeOK'
    BY <2>1, <2>2, <2>3 DEF TypeOK, GoesTo
  <2> QED
    BY <2>1, <2>2, <2>4 DEF Stages, Housed, Wiped, Verified, Destroyed, GoesTo, At, Deploying, TearingDown,
       SetupStages, InstallStages, PostInstallStages, DestroyStages, Deploys, Destroys
<1>6. CASE ClearMarker
  <2>1. state \in {"ok", "corrupt"} /\ faults \in 0 .. MaxFaults
    BY DEF TypeOK
  <2> QED
    BY <1>6, <2>1, IdleKeeps DEF ClearMarker, machines, terraform
<1> QED
  BY <1>1, <1>2, <1>3, <1>4, <1>5, <1>6 DEF PostInstallStep

-----------------------------------------------------------------------------
(* Destroy *)

LEMMA AfterTerraformStage ==
    /\ AfterTerraform \in Stage
    /\ AfterTerraform = IF run.verb = "destroy-skip-cleanup" THEN "summary" ELSE "clean-creds"
BY DEF AfterTerraform, Stage

LEMMA TerraformFailedKeeps ==
    ASSUME IInv, TerraformFailed, run.stage \in DestroyStages, faults' \in 0 .. MaxFaults
    PROVE  IInv'
<1> USE DEF IInv
<1>1. /\ override' \in BOOLEAN
      /\ UNCHANGED <<marker, workDir, creds, served, tfvars, sentinel, state,
                     vms, built, workerOn, cluster, access>>
  BY DEF TerraformFailed, At, work, machines, TypeOK
<1>2. GoesTo(AfterTerraform) /\ run'.failed
  BY AfterTerraformStage DEF TerraformFailed, GoesTo, TypeOK, Run
<1>3. TypeOK'
  BY <1>1, <1>2 DEF TypeOK, GoesTo
<1> QED
  BY <1>1, <1>2, <1>3, AfterTerraformStage DEF Stages, Housed, Wiped, Verified, Destroyed, GoesTo, At, Deploying, TearingDown,
       SetupStages, InstallStages, PostInstallStages, DestroyStages, Deploys, Destroys

LEMMA DestroyKeeps == ASSUME IInv, DestroyStep PROVE IInv'
<1> USE DEF IInv
<1>1. CASE DestroyNothing
  <2>1. /\ run.stage = "destroy-infra" /\ GoTo(AfterTerraform) /\ vms = {} /\ ~Corrupt
        /\ UNCHANGED <<marker, workDir, creds, served, tfvars, sentinel, override, state,
                       vms, built, workerOn, cluster, access, faults>>
    BY <1>1 DEF DestroyNothing, AlreadyDestroyed, At, work, terraform, machines
  <2>2. GoesTo(AfterTerraform) /\ run'.failed = run.failed
    BY <2>1, GoToType, AfterTerraformStage
  <2>3. TypeOK'
    BY <2>1, <2>2 DEF TypeOK, GoesTo
  <2>4. state = "ok"
    BY <2>1 DEF Corrupt, TypeOK
  <2> QED
    BY <2>1, <2>2, <2>3, <2>4, AfterTerraformStage DEF Stages, Housed, Wiped, Verified, Destroyed, GoesTo, At, Deploying, TearingDown,
       SetupStages, InstallStages, PostInstallStages, DestroyStages, Deploys, Destroys
<1>2. CASE LiftPreventDestroy \/ PlanDestroy
  <2>1. /\ run.stage \in {"destroy-infra", "destroy-plan"}
        /\ GoTo("destroy-plan") \/ GoTo("destroy-vms")
        /\ override' \in BOOLEAN
        /\ UNCHANGED <<marker, workDir, creds, served, tfvars, sentinel, state,
                       vms, built, workerOn, cluster, access, faults>>
        /\ state = "ok"
    BY <1>2 DEF LiftPreventDestroy, PlanDestroy, Destroyed, Populated, At, work, terraform,
       machines, TypeOK
  <2>2. /\ GoesTo("destroy-plan") \/ GoesTo("destroy-vms")
        /\ run'.failed = run.failed
    BY <2>1, GoToType DEF Stage
  <2>3. TypeOK'
    BY <2>1, <2>2 DEF TypeOK, GoesTo
  <2> QED
    BY <2>1, <2>2, <2>3 DEF Stages, Housed, Wiped, Verified, Destroyed, GoesTo, At, Deploying, TearingDown,
       SetupStages, InstallStages, PostInstallStages, DestroyStages, Deploys, Destroys
<1>3. ASSUME NEW v \in VM, DestroyVM(v) PROVE IInv'
  <2>1. /\ run.stage = "destroy-vms" /\ run' = run
        /\ vms' \subseteq vms /\ built' = [built EXCEPT ![v] = 0] /\ workerOn' \in BOOLEAN
        /\ UNCHANGED <<marker, workDir, creds, served, tfvars, sentinel, override, state,
                       access, faults>>
    BY <1>3 DEF DestroyVM, At, work, terraform, TypeOK
  <2>2. cluster' \in [handover : BOOLEAN, vip : BOOLEAN, joined : BOOLEAN]
    BY <1>3 DEF DestroyVM, Fresh, TypeOK
  <2>3. TypeOK'
    BY <2>1, <2>2 DEF TypeOK
  <2> QED
    BY <2>1, <2>3 DEF Stages, Housed, Wiped, Verified, Destroyed, GoesTo, At, Deploying, TearingDown,
       SetupStages, InstallStages, PostInstallStages, DestroyStages, Deploys, Destroys
<1>4. CASE DestroyDone
  <2>1. /\ run.stage = "destroy-vms" /\ GoTo(AfterTerraform) /\ vms = {}
        /\ override' = FALSE
        /\ UNCHANGED <<marker, workDir, creds, served, tfvars, sentinel, state,
                       vms, built, workerOn, cluster, access, faults>>
    BY <1>4 DEF DestroyDone, At, work, machines
  <2>2. GoesTo(AfterTerraform) /\ run'.failed = run.failed
    BY <2>1, GoToType, AfterTerraformStage
  <2>3. TypeOK'
    BY <2>1, <2>2, ZenonT(40) DEF TypeOK, GoesTo
  <2> QED
    BY <2>1, <2>2, <2>3, AfterTerraformStage DEF Stages, Housed, Wiped, Verified, Destroyed, GoesTo, At, Deploying, TearingDown,
       SetupStages, InstallStages, PostInstallStages, DestroyStages, Deploys, Destroys
<1>5. CASE DestroyRefused
  BY <1>5, TerraformFailedKeeps DEF DestroyRefused, At, DestroyStages, TypeOK
<1> QED
  BY <1>1, <1>2, <1>3, <1>4, <1>5 DEF DestroyStep

-----------------------------------------------------------------------------
(* Commands, failures and the environment *)

LEMMA BeginKeeps == ASSUME IInv, BeginCommand, DeployAssumption PROVE IInv'
<1> USE DEF IInv
<1>1. UNCHANGED <<marker, workDir, creds, served, tfvars, sentinel, override, state,
                  vms, built, workerOn, cluster, access, faults>>
  BY DEF BeginCommand, DeployBegin, DestroyBegin, CleanupBegin, work, terraform, machines
<1>2. \/ \E verb \in Deploys, s \in {"guard", "mark-install", "mark-postinstall"} : Begin(verb, s)
      \/ \E verb \in Destroys, s \in {"clean-creds", "destroy-infra"} :
            Begin(verb, s) /\ (verb = "destroy" => s = "destroy-infra")
      \/ Begin("cleanup", "clean-creds")
  BY DEF BeginCommand, DeployBegin, ResumePhase, DestroyBegin, CleanupBegin, Destroys
<1>3. /\ run' \in Run /\ run'.vipVerified = FALSE
      /\ \/ run'.verb \in Deploys /\ run'.stage \in {"guard", "mark-install", "mark-postinstall"}
         \/ run'.verb \in Destroys \ {"destroy"} /\ run'.stage \in {"clean-creds", "destroy-infra"}
         \/ run'.verb = "destroy" /\ run'.stage = "destroy-infra"
         \/ run'.verb = "cleanup" /\ run'.stage = "clean-creds"
  BY <1>2, BeginType, ZenonT(40) DEF Stage
<1>4. TypeOK'
  BY <1>1, <1>3 DEF TypeOK
<1> QED
  BY <1>1, <1>3, <1>4 DEF Stages, Housed, Wiped, Verified, Destroyed, GoesTo, At, Deploying, TearingDown,
       SetupStages, InstallStages, PostInstallStages, DestroyStages, Deploys, Destroys

LEMMA FailureKeeps == ASSUME IInv, Failure, DeployAssumption PROVE IInv'
<1> USE DEF IInv
<1>0. faults < MaxFaults /\ faults' = faults + 1 => faults' \in 0 .. MaxFaults
  BY DEF DeployAssumption, TypeOK
<1>1. CASE CleanupFails
  <2>1. /\ run.stage \in {"clean-creds", "clean-dir", "clean-web", "clean-terraform"}
        /\ faults' \in 0 .. MaxFaults
        /\ marker' \in {marker, "none"}
        /\ UNCHANGED <<workDir, creds, served, tfvars, sentinel, override, state,
                       vms, built, workerOn, cluster, access>>
    BY <1>0, <1>1 DEF CleanupFails, At, terraform, machines
  <2>2. AfterWorkDir \in Stage /\ AfterWorkDir = IF FullCleanup THEN "clean-web" ELSE "summary"
    BY DEF AfterWorkDir, Stage
  <2>3. CASE run.stage \in {"clean-creds", "clean-dir"}
    <3>1. /\ GoesTo(AfterWorkDir) \/ (GoesTo("clean-dir") /\ run.stage = "clean-creds" /\ ~Retain /\ ~RetainRefused)
          /\ run'.failed
      BY <1>1, <2>2, <2>3, ZenonT(40) DEF CleanupFails, At, GoesTo, TypeOK, Run, Stage
    <3>2. TypeOK'
      BY <2>1, <3>1 DEF TypeOK, GoesTo, Phase
    <3>3. ~Retain /\ ~RetainRefused /\ run.verb # "fresh" => vms = {}
      BY DEF TypeOK, Retain, RetainRefused, Populated, Corrupt
    <3> QED
      BY <2>1, <2>2, <2>3, <3>1, <3>2, <3>3 DEF FullCleanup, Stages, Housed, Wiped, Verified, Destroyed, GoesTo, At, Deploying, TearingDown,
       SetupStages, InstallStages, PostInstallStages, DestroyStages, Deploys, Destroys
  <2>4. CASE run.stage \in {"clean-web", "clean-terraform"}
    <3>1. /\ GoesTo("clean-terraform") \/ GoesTo("summary")
          /\ run'.failed = run.failed /\ marker' = marker
      BY <1>1, <2>4 DEF CleanupFails, At, GoesTo, TypeOK, Run, Stage
    <3>2. TypeOK'
      BY <2>1, <3>1 DEF TypeOK, GoesTo
    <3> QED
      BY <2>1, <2>4, <3>1, <3>2 DEF Stages, Housed, Wiped, Verified, Destroyed, GoesTo, At, Deploying, TearingDown,
       SetupStages, InstallStages, PostInstallStages, DestroyStages, Deploys, Destroys
  <2> QED
    BY <2>1, <2>3, <2>4
<1>2. CASE DeployFails
  BY <1>0, <1>2, IdleKeeps DEF DeployFails, TypeOK, work, terraform
<1>3. CASE DeployWarns
  <2>1. /\ run.stage \in {"kubevip", "stop-ignition"} /\ faults' \in 0 .. MaxFaults
        /\ GoTo("cleanup-bootstrap") \/ GoTo("clear")
        /\ UNCHANGED <<marker, workDir, creds, served, tfvars, sentinel, override, state,
                       vms, built, workerOn, cluster, access>>
    BY <1>0, <1>3 DEF DeployWarns, At, work, terraform, machines
  <2>2. /\ GoesTo("cleanup-bootstrap") \/ GoesTo("clear")
        /\ run'.failed = run.failed
    BY <2>1, GoToType DEF Stage
  <2>3. TypeOK'
    BY <2>1, <2>2 DEF TypeOK, GoesTo
  <2> QED
    BY <2>1, <2>2, <2>3 DEF Stages, Housed, Wiped, Verified, Destroyed, GoesTo, At, Deploying, TearingDown,
       SetupStages, InstallStages, PostInstallStages, DestroyStages, Deploys, Destroys
<1>4. CASE ClearFails
  <2>1. workDir /\ state \in {"ok", "corrupt"}
    BY <1>4 DEF ClearFails, At, Housed, PostInstallStages, TypeOK
  <2> QED
    BY <1>0, <1>4, <2>1, IdleKeeps DEF ClearFails, terraform
<1>5. CASE DestroyFails
  BY <1>0, <1>5, TerraformFailedKeeps DEF DestroyFails, DestroyStages
<1> QED
  BY <1>1, <1>2, <1>3, <1>4, <1>5 DEF Failure

LEMMA EnvironmentKeeps == ASSUME IInv, Environment \/ RestoreState PROVE IInv'
<1> USE DEF IInv
<1>1. /\ UNCHANGED <<marker, workDir, creds, served, tfvars, sentinel, override,
                     vms, workerOn, access, run, faults>>
      /\ state' = state \/ (state' = "ok" /\ run = IdleRun)
  BY DEF Environment, Boot, ControlPlaneUp, VipUp, Join, RestoreState, Idle, work, terraform,
     machines
<1>2. built' \in [VM -> Identity \cup {0}]
  BY DEF Environment, Boot, ControlPlaneUp, VipUp, Join, RestoreState, machines, TypeOK
<1>3. /\ cluster' \in [handover : BOOLEAN, vip : BOOLEAN, joined : BOOLEAN]
      /\ cluster.vip => cluster'.vip
  BY DEF Environment, Boot, ControlPlaneUp, VipUp, Join, RestoreState, TypeOK
<1>4. TypeOK'
  BY <1>1, <1>2, <1>3 DEF TypeOK
<1>5. CASE state' = state
  BY <1>1, <1>3, <1>4, <1>5 DEF Corrupt, Stages, Housed, Wiped, Verified, Destroyed, GoesTo, At, Deploying, TearingDown,
       SetupStages, InstallStages, PostInstallStages, DestroyStages, Deploys, Destroys
<1>6. CASE run = IdleRun
  BY <1>1, <1>3, <1>4, <1>6, IdleRunType DEF Corrupt, Stages, Housed, Wiped, Verified, Destroyed, GoesTo, At, Deploying, TearingDown,
       SetupStages, InstallStages, PostInstallStages, DestroyStages, Deploys, Destroys
<1> QED
  BY <1>1, <1>5, <1>6

LEMMA Inductive == ASSUME DeployAssumption, IInv, [Next]_vars PROVE IInv'
<1>1. CASE UNCHANGED vars
  BY <1>1 DEF vars, work, terraform, machines, IInv, TypeOK, Stages, Housed, Wiped, Verified,
     Destroyed, At, Deploying, TearingDown, Corrupt
<1>2. CASE Proceed
  <2>1. CASE DeployGivesUp
    BY <2>1, IdleKeeps DEF DeployGivesUp, IInv, TypeOK, work, terraform
  <2> QED
    BY <1>2, <2>1, CleanupKeeps, SetupKeeps, InstallKeeps, PostInstallStepKeeps, DestroyKeeps
    DEF Proceed
<1>3. CASE Crash
  <2>1. faults' \in 0 .. MaxFaults /\ state' \in {"ok", "corrupt"}
    BY <1>3 DEF Crash, IInv, TypeOK, DeployAssumption
  <2> QED
    BY <1>3, <2>1, IdleKeeps DEF Crash, work
<1> QED
  BY <1>1, <1>2, <1>3, BeginKeeps, FailureKeeps, EnvironmentKeeps DEF Next

LEMMA InitIInv == ASSUME DeployAssumption, Init PROVE IInv
<1>0. NothingDeployed \/ ClusterDeployed
  BY DEF Init
<1>1. TypeOK
  <2>1. /\ marker \in Phase /\ served = 0 /\ access \in {0, Foreign}
        /\ faults \in 0 .. MaxFaults /\ run \in Run
        /\ override = FALSE /\ state = "ok"
    BY IdleRunType DEF Init, Phase, DeployAssumption, AnyAmbient
  <2>2. built \in [VM -> Identity \cup {0}] /\ creds \in Identity \cup {0}
    BY <1>0 DEF NothingDeployed, ClusterDeployed, Identity
  <2>3. cluster \in [handover : BOOLEAN, vip : BOOLEAN, joined : BOOLEAN]
    <3>1. CASE NothingDeployed
      BY <3>1 DEF NothingDeployed, Fresh
    <3>2. CASE ClusterDeployed
      BY <3>2 DEF ClusterDeployed
    <3> QED
      BY <1>0, <3>1, <3>2
  <2> QED
    BY <1>0, <2>1, <2>2, <2>3 DEF NothingDeployed, ClusterDeployed, TypeOK, VM
<1>2. Stages /\ Housed /\ Wiped /\ Verified /\ Destroyed
  BY <1>0, IdleRunType DEF Init, NothingDeployed, ClusterDeployed, Stages, Housed, Wiped, Verified, Destroyed, GoesTo, At, Deploying, TearingDown,
       SetupStages, InstallStages, PostInstallStages, DestroyStages, Deploys, Destroys
<1> QED
  BY <1>1, <1>2 DEF IInv

-----------------------------------------------------------------------------
(* The theorems for every set of commands *)

LEMMA Invariant == ASSUME DeployAssumption PROVE Spec => []IInv
<1>1. Init => IInv
  BY InitIInv
<1>2. IInv /\ [Next]_vars => IInv'
  BY Inductive
<1> QED
  BY <1>1, <1>2, PTL DEF Spec

\* Every reachable state is well typed.
THEOREM DeployTypeCorrect == Spec => []TypeOK
<1>1. IInv => TypeOK
  BY DEF IInv
<1> QED
  BY <1>1, Invariant, DeployAssumption, PTL

\* A destroy that reports success left no VM, no credentials and no marker.
THEOREM DestroyComplete == Spec => []SuccessMeansGone
<1>1. IInv => SuccessMeansGone
  BY DEF IInv, Destroyed, SuccessMeansGone, At
<1> QED
  BY <1>1, Invariant, DeployAssumption, PTL

\* Only deploy --fresh wipes or replaces the identity of a cluster that has a VM.
THEOREM KeepsIdentity == Spec => IdentityPreserved
<1>1. ASSUME IInv, [Next]_vars, creds # 0, creds' # creds
      PROVE  run.verb = "fresh" \/ vms = {}
  <2>1. CleanCreds \/ CleanDir \/ GenerateIgnition
    BY <1>1 DEF vars, work, terraform, machines, Next, BeginCommand, DeployBegin, DestroyBegin,
       CleanupBegin, Proceed, SetupStep, GuardSetup, SetupGuard, DeployIgnition, GenerateTfvars,
       CleanupStep, CleanWeb, CleanTerraform, Summary, InstallStep, MarkInstall, Apply,
       WaitBootstrap, StartWorkers, MonitorInstall, SetupAccess, PostInstallStep,
       MarkPostInstall, VerifyHealth, VerifyKubeVIP, SkipCleanupBootstrap, CleanupBootstrap,
       DestroyBootstrap, StopIgnition, ClearMarker, DestroyStep, DestroyNothing,
       LiftPreventDestroy, PlanDestroy, DestroyVM, DestroyDone, DestroyRefused,
       TerraformFailed, DeployGivesUp, Failure, CleanupFails, DeployFails, DeployWarns,
       ClearFails, DestroyFails, Crash, Environment, Boot, ControlPlaneUp, VipUp, Join,
       RestoreState
  <2>2. CASE CleanCreds
    BY <1>1, <2>2 DEF CleanCreds, Retain, RetainRefused, Populated, Corrupt, IInv, TypeOK
  <2>3. CASE CleanDir
    BY <1>1, <2>3 DEF CleanDir, IInv, Wiped, At
  <2>4. CASE GenerateIgnition
    BY <1>1, <2>4 DEF GenerateIgnition, IInv, Stages, SetupStages, Wiped, At
  <2> QED
    BY <2>1, <2>2, <2>3, <2>4
<1>2. IInv /\ [Next]_vars => [creds # 0 /\ creds' # creds => run.verb = "fresh" \/ vms = {}]_vars
  BY <1>1
<1> QED
  BY <1>2, Invariant, DeployAssumption, PTL DEF Spec, IdentityPreserved

\* A deploy destroys the bootstrap VM only while the VIP serves the API.
THEOREM KeepsFallback == Spec => ApiFallback
<1>1. ASSUME IInv, [Next]_vars, Deploying, "bootstrap" \in vms, "bootstrap" \notin vms'
      PROVE  cluster.vip
  <2>1. DestroyBootstrap \/ (\E v \in VM : DestroyVM(v)) \/ Apply
    BY <1>1 DEF vars, work, terraform, machines, Next, BeginCommand, DeployBegin, DestroyBegin,
       CleanupBegin, Proceed, SetupStep, GuardSetup, SetupGuard, GenerateIgnition,
       DeployIgnition, GenerateTfvars, CleanupStep, CleanCreds, CleanDir, CleanWeb,
       CleanTerraform, Summary, InstallStep, MarkInstall, WaitBootstrap, StartWorkers,
       MonitorInstall, SetupAccess, PostInstallStep, MarkPostInstall, VerifyHealth,
       VerifyKubeVIP, SkipCleanupBootstrap, CleanupBootstrap, StopIgnition, ClearMarker,
       DestroyStep, DestroyNothing, LiftPreventDestroy, PlanDestroy, DestroyDone,
       DestroyRefused, TerraformFailed, DeployGivesUp, Failure, CleanupFails, DeployFails,
       DeployWarns, ClearFails, DestroyFails, Crash, Environment, Boot, ControlPlaneUp, VipUp,
       Join, RestoreState
  <2>2. ~Apply
    BY <1>1 DEF Apply
  <2>3. CASE DestroyBootstrap
    BY <1>1, <2>3 DEF DestroyBootstrap, IInv, Verified, At
  <2>4. ~(\E v \in VM : DestroyVM(v))
    BY <1>1 DEF DestroyVM, At, IInv, Stages, DestroyStages, Deploying, Deploys, Destroys
  <2> QED
    BY <2>1, <2>2, <2>3, <2>4
<1>2. IInv /\ [Next]_vars
        => [Deploying /\ "bootstrap" \in vms /\ "bootstrap" \notin vms' => cluster.vip]_vars
  BY <1>1
<1> QED
  BY <1>2, Invariant, DeployAssumption, PTL DEF Spec, ApiFallback

-----------------------------------------------------------------------------
(* The identity of the guests, without deploy --fresh *)

\* A step that serves nothing new, makes no VM and moves to no stage that may.
Quiet ==
    /\ creds' = creds /\ served' \in {0, served} /\ vms' = vms /\ built' = built
    /\ \/ run' = run /\ marker' = marker
       \/ /\ run'.verb # "fresh" /\ marker' \in {marker, "none", "setup", "completed"}
          /\ run'.stage \notin {"serve", "tfvars"}
          /\ run'.stage \in InstallStages
                => run.stage \in {"tfvars"} \cup InstallStages \/ marker \in {"install", "postinstall"}

LEMMA QuietKeeps == ASSUME TypeOK, AInv, Quiet PROVE AInv'
BY DEF TypeOK, AInv, IdentityAgrees, Serving, Quiet, InstallStages

LEMMA QuietEnd ==
    ASSUME run' = IdleRun, creds' = creds, served' = served, vms' = vms, built' = built,
           marker' \in {marker, "none", "completed"}
    PROVE  Quiet
BY IdleRunType DEF Quiet, InstallStages

LEMMA SetupAgrees == ASSUME IInv, AInv, SetupStep PROVE AInv'
<1> USE DEF IInv
<1>0. run.verb # "fresh"
  BY DEF AInv, Serving
<1>1. CASE GuardSetup \/ SetupGuard
  <2>1. /\ GoTo("setup") \/ GoTo("clean-creds")
        /\ marker' \in {marker, "setup"}
        /\ UNCHANGED <<creds, served, vms, built>>
    BY <1>1 DEF GuardSetup, SetupGuard, work, machines
  <2>2. GoesTo("setup") \/ GoesTo("clean-creds")
    BY <2>1, GoToType DEF Stage
  <2> QED
    BY <1>0, <2>1, <2>2, QuietKeeps DEF Quiet, GoesTo, InstallStages
<1>2. CASE GenerateIgnition
  <2>1. /\ run.stage = "ignition" /\ GoTo("serve")
        /\ UNCHANGED <<marker, served, vms, built>>
    BY <1>2 DEF GenerateIgnition, At, machines
  <2>2. GoesTo("serve")
    BY <2>1, GoToType DEF Stage
  <2>3. vms = {} /\ marker = "none"
    BY <1>0, <2>1 DEF Stages, SetupStages, Wiped, At
  <2> QED
    BY <1>0, <2>1, <2>2, <2>3 DEF AInv, IdentityAgrees, Serving, GoesTo, InstallStages
<1>3. CASE DeployIgnition
  <2>1. /\ run.stage = "serve" /\ GoTo("tfvars") /\ served' = creds
        /\ UNCHANGED <<marker, creds, vms, built>>
    BY <1>3 DEF DeployIgnition, IgnitionDeployed, At, work, machines
  <2>2. GoesTo("tfvars")
    BY <2>1, GoToType DEF Stage
  <2> QED
    BY <1>0, <2>1, <2>2 DEF AInv, IdentityAgrees, Serving, GoesTo, InstallStages
<1>4. CASE GenerateTfvars
  <2>1. /\ run.stage = "tfvars" /\ GoTo("mark-install")
        /\ UNCHANGED <<marker, creds, served, vms, built>>
    BY <1>4 DEF GenerateTfvars, At, work, machines
  <2>2. GoesTo("mark-install")
    BY <2>1, GoToType DEF Stage
  <2> QED
    BY <1>0, <2>1, <2>2, QuietKeeps DEF Quiet, GoesTo
<1> QED
  BY <1>1, <1>2, <1>3, <1>4 DEF SetupStep

LEMMA CleanupAgrees == ASSUME IInv, AInv, CleanupStep PROVE AInv'
<1> USE DEF IInv
<1>0. /\ run.verb # "fresh"
      /\ AfterWorkDir \in {"clean-web", "summary"} /\ AfterWorkDir \in Stage
  BY DEF AInv, Serving, AfterWorkDir, Stage
<1>1. CASE CleanCreds \/ CleanDir
  <2>1. /\ creds' \in {0, creds} /\ marker' \in {marker, "none"}
        /\ UNCHANGED <<served, vms, built>>
    BY <1>1 DEF CleanCreds, CleanDir, machines
  <2>2. run'.verb = run.verb /\ run'.stage \in {"clean-dir", "clean-web", "summary"}
    BY <1>0, <1>1 DEF CleanCreds, CleanDir, GoTo, TypeOK, Run
  <2> QED
    BY <1>0, <2>1, <2>2 DEF AInv, IdentityAgrees, Serving, InstallStages
<1>2. CASE CleanWeb \/ CleanTerraform
  <2>1. /\ GoTo("clean-terraform") \/ GoTo("summary")
        /\ served' \in {0, served} /\ UNCHANGED <<marker, creds, vms, built>>
    BY <1>2 DEF CleanWeb, CleanTerraform, work, machines
  <2>2. GoesTo("clean-terraform") \/ GoesTo("summary")
    BY <2>1, GoToType DEF Stage
  <2> QED
    BY <1>0, <2>1, <2>2, QuietKeeps DEF Quiet, GoesTo, InstallStages
<1>3. CASE Summary
  <2>1. /\ run' = IdleRun \/ GoTo("ignition")
        /\ UNCHANGED <<marker, creds, served, vms, built>>
    BY <1>3 DEF Summary, GoTo, work, machines
  <2>2. run' = IdleRun \/ GoesTo("ignition")
    BY <2>1, GoToType DEF Stage
  <2> QED
    BY <1>0, <2>1, <2>2, QuietEnd, QuietKeeps DEF Quiet, GoesTo, InstallStages
<1> QED
  BY <1>1, <1>2, <1>3 DEF CleanupStep

LEMMA InstallAgrees == ASSUME IInv, AInv, InstallStep PROVE AInv'
<1> USE DEF IInv
<1>0. run.verb # "fresh"
  BY DEF AInv, Serving
<1>1. CASE MarkInstall
  <2>1. /\ run.stage = "mark-install" /\ GoTo("apply") /\ marker' = "install"
        /\ UNCHANGED <<creds, served, vms, built>>
    BY <1>1 DEF MarkInstall, At, machines
  <2>2. GoesTo("apply")
    BY <2>1, GoToType DEF Stage
  <2> QED
    BY <1>0, <2>1, <2>2 DEF AInv, IdentityAgrees, Serving, GoesTo, InstallStages
<1>2. CASE Apply
  <2>1. /\ run.stage = "apply" /\ (run' = run \/ GoTo("wait-bootstrap"))
        /\ vms \subseteq vms' /\ UNCHANGED <<marker, creds, served, built>>
    BY <1>2 DEF Apply, At, work
  <2>2. run'.verb = run.verb /\ run'.stage \in {"apply", "wait-bootstrap"}
    BY <2>1, GoToType DEF Stage, GoesTo
  <2> QED
    BY <1>0, <2>1, <2>2 DEF AInv, IdentityAgrees, Serving, InstallStages
<1>3. CASE WaitBootstrap \/ StartWorkers \/ MonitorInstall \/ SetupAccess
  <2>1. /\ run.stage \in {"wait-bootstrap", "start-workers", "monitor", "setup-access"}
        /\ \E s \in {"start-workers", "monitor", "setup-access", "mark-postinstall"} : GoTo(s)
        /\ UNCHANGED <<marker, creds, served, vms, built>>
    BY <1>3 DEF WaitBootstrap, StartWorkers, MonitorInstall, SetupAccess, At, work, machines
  <2>2. \E s \in {"start-workers", "monitor", "setup-access", "mark-postinstall"} : GoesTo(s)
    BY <2>1, GoToType DEF Stage
  <2> QED
    BY <1>0, <2>1, <2>2, QuietKeeps DEF Quiet, GoesTo, InstallStages
<1> QED
  BY <1>1, <1>2, <1>3 DEF InstallStep

LEMMA PostInstallAgrees == ASSUME IInv, AInv, PostInstallStep PROVE AInv'
<1> USE DEF IInv
<1>0. run.verb # "fresh"
  BY DEF AInv, Serving
<1>1. CASE MarkPostInstall
  <2>1. /\ run.stage = "mark-postinstall" /\ GoTo("health") /\ marker' = "postinstall"
        /\ UNCHANGED <<creds, served, vms, built>>
    BY <1>1 DEF MarkPostInstall, At, machines
  <2>2. GoesTo("health")
    BY <2>1, GoToType DEF Stage
  <2> QED
    BY <1>0, <2>1, <2>2 DEF AInv, IdentityAgrees, Serving, GoesTo, InstallStages
<1>2. CASE VerifyHealth \/ SkipCleanupBootstrap \/ CleanupBootstrap \/ StopIgnition
  <2>1. /\ \E s \in {"kubevip", "clear", "destroy-bootstrap"} : GoTo(s)
        /\ served' \in {0, served} /\ UNCHANGED <<marker, creds, vms, built>>
    BY <1>2 DEF VerifyHealth, SkipCleanupBootstrap, CleanupBootstrap, StopIgnition, work, machines
  <2>2. \E s \in {"kubevip", "clear", "destroy-bootstrap"} : GoesTo(s)
    BY <2>1, GoToType DEF Stage
  <2> QED
    BY <1>0, <2>1, <2>2, QuietKeeps DEF Quiet, GoesTo, InstallStages
<1>3. CASE VerifyKubeVIP
  <2>1. run'.verb = run.verb /\ run'.stage = "cleanup-bootstrap"
    BY <1>3 DEF VerifyKubeVIP, TypeOK, Run
  <2> QED
    BY <1>0, <1>3, <2>1, QuietKeeps DEF VerifyKubeVIP, Quiet, InstallStages, work, machines
<1>4. CASE DestroyBootstrap
  <2>1. /\ GoTo("stop-ignition")
        /\ vms' = vms \ {"bootstrap"} /\ built' = [built EXCEPT !["bootstrap"] = 0]
        /\ UNCHANGED <<marker, creds, served>>
    BY <1>4 DEF DestroyBootstrap, work
  <2>2. GoesTo("stop-ignition")
    BY <2>1, GoToType DEF Stage
  <2> QED
    BY <1>0, <2>1, <2>2 DEF AInv, IdentityAgrees, Serving, GoesTo, InstallStages, TypeOK, VM
<1>5. CASE ClearMarker
  BY <1>5, QuietEnd, QuietKeeps DEF ClearMarker, machines
<1> QED
  BY <1>1, <1>2, <1>3, <1>4, <1>5 DEF PostInstallStep

LEMMA DestroyAgrees == ASSUME IInv, AInv, DestroyStep \/ DestroyFails PROVE AInv'
<1> USE DEF IInv
<1>0. run.verb # "fresh"
  BY DEF AInv, Serving
<1>1. CASE DestroyNothing \/ LiftPreventDestroy \/ PlanDestroy \/ DestroyDone
  <2>1. /\ \E s \in {"summary", "clean-creds", "destroy-plan", "destroy-vms"} : GoTo(s)
        /\ UNCHANGED <<marker, creds, served, vms, built>>
    BY <1>1, AfterTerraformStage DEF DestroyNothing, LiftPreventDestroy, PlanDestroy,
       DestroyDone, work, machines
  <2>2. \E s \in {"summary", "clean-creds", "destroy-plan", "destroy-vms"} : GoesTo(s)
    BY <2>1, GoToType DEF Stage
  <2> QED
    BY <1>0, <2>1, <2>2, QuietKeeps DEF Quiet, GoesTo, InstallStages
<1>2. ASSUME NEW v \in VM, DestroyVM(v) PROVE AInv'
  <2>1. /\ run.stage = "destroy-vms" /\ run' = run
        /\ vms' = vms \ {v} /\ built' = [built EXCEPT ![v] = 0]
        /\ UNCHANGED <<marker, creds, served>>
    BY <1>2 DEF DestroyVM, At, work
  <2> QED
    BY <1>0, <2>1 DEF AInv, IdentityAgrees, Serving, InstallStages, TypeOK
<1>3. CASE DestroyRefused \/ DestroyFails
  <2>1. /\ UNCHANGED <<marker, creds, served, vms, built>>
        /\ run'.stage \in {"summary", "clean-creds"} /\ run'.verb = run.verb
    BY <1>3, AfterTerraformStage DEF DestroyRefused, DestroyFails, TerraformFailed, work,
       machines, TypeOK, Run
  <2> QED
    BY <1>0, <2>1, QuietKeeps DEF Quiet, InstallStages
<1> QED
  BY <1>1, <1>2, <1>3 DEF DestroyStep

LEMMA FailureAgrees == ASSUME IInv, AInv, Failure \/ Crash \/ DeployGivesUp PROVE AInv'
<1> USE DEF IInv
<1>0. run.verb # "fresh"
  BY DEF AInv, Serving
<1>1. CASE CleanupFails
  <2>1. /\ marker' \in {marker, "none"} /\ UNCHANGED <<creds, served, vms, built>>
        /\ run'.verb = run.verb
        /\ run'.stage \in {"clean-dir", "clean-web", "clean-terraform", "summary"}
    BY <1>1 DEF CleanupFails, At, AfterWorkDir, machines, TypeOK, Run
  <2> QED
    BY <1>0, <2>1, QuietKeeps DEF Quiet, InstallStages
<1>2. CASE DeployWarns
  <2>1. /\ GoTo("cleanup-bootstrap") \/ GoTo("clear")
        /\ UNCHANGED <<marker, creds, served, vms, built>>
    BY <1>2 DEF DeployWarns, work, machines
  <2>2. GoesTo("cleanup-bootstrap") \/ GoesTo("clear")
    BY <2>1, GoToType DEF Stage
  <2> QED
    BY <1>0, <2>1, <2>2, QuietKeeps DEF Quiet, GoesTo, InstallStages
<1>3. CASE DeployFails \/ ClearFails \/ Crash \/ DeployGivesUp
  BY <1>3, QuietEnd, QuietKeeps DEF DeployFails, ClearFails, Crash, DeployGivesUp, work, machines
<1> QED
  BY <1>1, <1>2, <1>3, DestroyAgrees DEF Failure

LEMMA BeginAgrees ==
    ASSUME IInv, AInv, BeginCommand, DeployAssumption, "fresh" \notin Verbs
    PROVE  AInv'
<1> USE DEF IInv
<1>1. UNCHANGED <<marker, creds, served, vms, built>>
  BY DEF BeginCommand, DeployBegin, DestroyBegin, CleanupBegin, work, machines
<1>2. \E verb \in Verbs, s \in {"guard", "mark-install", "mark-postinstall", "clean-creds",
                               "destroy-infra"} :
         /\ Begin(verb, s)
         /\ s \in {"mark-install", "mark-postinstall"} => marker \in {"install", "postinstall"}
  BY DEF BeginCommand, DeployBegin, ResumePhase, DestroyBegin, CleanupBegin, Begin
<1>3. /\ run'.verb # "fresh"
      /\ run'.stage \in {"guard", "mark-install", "mark-postinstall", "clean-creds",
                         "destroy-infra"}
      /\ run'.stage \in {"mark-install", "mark-postinstall"}
            => marker \in {"install", "postinstall"}
  BY <1>2, BeginType, ZenonT(40) DEF Stage
<1> QED
  BY <1>1, <1>3, QuietKeeps DEF Quiet, InstallStages

LEMMA EnvironmentAgrees == ASSUME IInv, AInv, Environment \/ RestoreState PROVE AInv'
<1> USE DEF IInv
<1>1. CASE ControlPlaneUp \/ VipUp \/ Join \/ RestoreState
  BY <1>1, QuietKeeps DEF ControlPlaneUp, VipUp, Join, RestoreState, Quiet, work, machines
<1>2. ASSUME NEW v \in VM, Boot(v) PROVE AInv'
  <2>1. /\ v \in vms /\ served # 0 /\ built' = [built EXCEPT ![v] = served]
        /\ UNCHANGED <<marker, creds, served, vms, run>>
    BY <1>2 DEF Boot, work
  <2> QED
    BY <2>1 DEF AInv, IdentityAgrees, Serving, TypeOK
<1> QED
  BY <1>1, <1>2 DEF Environment

LEMMA Agreement == ASSUME "fresh" \notin Verbs PROVE Spec => [](IInv /\ AInv)
<1>1. Init => IInv /\ AInv
  <2>1. ASSUME Init PROVE AInv
    BY <2>1, IdleRunType
    DEF Init, NothingDeployed, ClusterDeployed, AInv, IdentityAgrees, Serving, VM, InstallStages
  <2> QED
    BY <2>1, InitIInv, DeployAssumption
<1>2. IInv /\ AInv /\ [Next]_vars => IInv' /\ AInv'
  <2> SUFFICES ASSUME IInv, AInv, [Next]_vars PROVE AInv'
    BY Inductive, DeployAssumption
  <2>1. CASE UNCHANGED vars
    BY <2>1 DEF vars, work, terraform, machines, AInv, IdentityAgrees, Serving
  <2> QED
    BY <2>1, SetupAgrees, CleanupAgrees, InstallAgrees, PostInstallAgrees, DestroyAgrees,
       FailureAgrees, BeginAgrees, EnvironmentAgrees, DeployAssumption DEF Next, Proceed
<1> QED
  BY <1>1, <1>2, PTL DEF Spec

\* Without deploy --fresh, every guest runs the identity that the work directory
\* holds, whatever was interrupted, destroyed or cleaned up in between.
THEOREM GuestsAgree == ASSUME "fresh" \notin Verbs PROVE Spec => []IdentityAgrees
<1>1. AInv => IdentityAgrees
  BY DEF AInv
<1> QED
  BY <1>1, Agreement, PTL

-----------------------------------------------------------------------------
(* Deploys that are retried, with cleanups in between but no destroy of VMs *)

KeepsVMs == {"deploy", "cleanup", "destroy-skip-terraform"}

\* The bootstrap VM goes after the sentinel that no longer wants it, and a control
\* plane that took over keeps its master.
Handed ==
    /\ run.verb \in KeepsVMs \cup {"none"} /\ run.stage \notin DestroyStages
    /\ cluster.handover => "master" \in vms
    /\ At("destroy-bootstrap") => sentinel
    /\ BootstrapStaysGone

\* The workers were switched on by every deploy that took the ambient kubeconfig, which
\* start-workers asks, to open no cluster.
Started == access # 0 \/ workerOn
\* What a deploy has waited for when it gets to a stage, or resumes there.
Reached ==
    /\ run.stage \in {"apply", "wait-bootstrap", "start-workers", "monitor"} => marker = "install"
    /\ At("monitor") => Started
    /\ At("setup-access") => creds # 0
    /\ marker = "postinstall" \/ run.stage \in {"setup-access", "mark-postinstall"} \cup PostInstallStages
          => cluster.joined /\ Started
    /\ run.stage \in PostInstallStages \ {"health"} => OwnApiUp

\* A step that ends, or goes to another stage, and leaves VMs and variables alone.
Aside ==
    /\ UNCHANGED <<tfvars, sentinel, vms, cluster>>
    /\ run'.verb \in {run.verb, "none"}
    /\ run'.stage \notin DestroyStages \cup {"destroy-bootstrap"}

LEMMA AsideHands == ASSUME Handed, Aside PROVE Handed'
BY DEF Handed, Aside, BootstrapStaysGone, At

LEMMA SetupHands == ASSUME IInv, AInv, Handed, SetupStep PROVE Handed'
<1> USE DEF IInv
<1>1. CASE GuardSetup \/ SetupGuard \/ GenerateIgnition \/ DeployIgnition
  <2>1. /\ \E s \in {"setup", "clean-creds", "serve", "tfvars"} : GoTo(s)
        /\ UNCHANGED <<tfvars, sentinel, vms, cluster>>
    BY <1>1 DEF GuardSetup, SetupGuard, GenerateIgnition, DeployIgnition, terraform, machines
  <2>2. \E s \in {"setup", "clean-creds", "serve", "tfvars"} : GoesTo(s)
    BY <2>1, GoToType DEF Stage
  <2> QED
    BY <2>1, <2>2, AsideHands DEF Aside, GoesTo, DestroyStages
<1>2. CASE GenerateTfvars
  <2>1. run.stage = "tfvars" /\ GoTo("mark-install") /\ UNCHANGED <<vms, cluster>>
    BY <1>2 DEF GenerateTfvars, At, machines
  <2>2. GoesTo("mark-install")
    BY <2>1, GoToType DEF Stage
  <2>3. vms = {} /\ ~cluster.handover
    BY <2>1 DEF AInv, Serving, Handed
  <2> QED
    BY <2>1, <2>2, <2>3 DEF Handed, BootstrapStaysGone, GoesTo, At, DestroyStages
<1> QED
  BY <1>1, <1>2 DEF SetupStep

LEMMA CleanupHands == ASSUME IInv, Handed, CleanupStep PROVE Handed'
<1> USE DEF IInv
<1>0. AfterWorkDir \in {"clean-web", "summary"} /\ AfterWorkDir \in Stage
  BY DEF AfterWorkDir, Stage
<1>1. CASE CleanCreds \/ CleanDir \/ CleanWeb
  <2>1. UNCHANGED <<tfvars, sentinel, vms, cluster>>
    BY <1>1 DEF CleanCreds, CleanDir, CleanWeb, terraform, machines
  <2>2. run'.verb = run.verb /\ run'.stage \in {"clean-dir", "clean-web", "clean-terraform", "summary"}
    BY <1>0, <1>1 DEF CleanCreds, CleanDir, CleanWeb, GoTo, TypeOK, Run
  <2> QED
    BY <2>1, <2>2, AsideHands DEF Aside, DestroyStages
<1>2. CASE CleanTerraform
  <2>1. GoTo("summary") /\ tfvars' = FALSE /\ UNCHANGED <<vms, cluster>>
    BY <1>2 DEF CleanTerraform, machines
  <2>2. GoesTo("summary")
    BY <2>1, GoToType DEF Stage
  <2> QED
    BY <2>1, <2>2 DEF Handed, BootstrapStaysGone, GoesTo, At, DestroyStages
<1>3. CASE Summary
  <2>1. /\ run' = IdleRun \/ GoTo("ignition")
        /\ UNCHANGED <<tfvars, sentinel, vms, cluster>>
    BY <1>3 DEF Summary, GoTo, terraform, machines
  <2>2. run' = IdleRun \/ GoesTo("ignition")
    BY <2>1, GoToType DEF Stage
  <2> QED
    BY <2>1, <2>2, IdleRunType, AsideHands DEF Aside, GoesTo, DestroyStages
<1> QED
  BY <1>1, <1>2, <1>3 DEF CleanupStep

LEMMA InstallHands == ASSUME IInv, Handed, InstallStep PROVE Handed'
<1> USE DEF IInv
<1>1. CASE Apply
  <2>1. /\ run.stage = "apply" /\ (run' = run \/ GoTo("wait-bootstrap"))
        /\ vms \subseteq vms' /\ UNCHANGED <<tfvars, sentinel, cluster>>
    BY <1>1 DEF Apply, At, terraform
  <2>2. run'.verb = run.verb /\ run'.stage \in {"apply", "wait-bootstrap"}
    BY <2>1, GoToType DEF Stage, GoesTo
  <2> QED
    BY <2>1, <2>2 DEF Handed, BootstrapStaysGone, At, DestroyStages
<1>2. CASE MarkInstall \/ WaitBootstrap \/ StartWorkers \/ MonitorInstall \/ SetupAccess
  <2>1. /\ \E s \in {"apply", "start-workers", "monitor", "setup-access", "mark-postinstall"} : GoTo(s)
        /\ UNCHANGED <<tfvars, sentinel, vms, cluster>>
    BY <1>2 DEF MarkInstall, WaitBootstrap, StartWorkers, MonitorInstall, SetupAccess, terraform,
       machines
  <2>2. \E s \in {"apply", "start-workers", "monitor", "setup-access", "mark-postinstall"} : GoesTo(s)
    BY <2>1, GoToType DEF Stage
  <2> QED
    BY <2>1, <2>2, AsideHands DEF Aside, GoesTo, DestroyStages
<1> QED
  BY <1>1, <1>2 DEF InstallStep

LEMMA PostInstallHands == ASSUME IInv, Handed, PostInstallStep PROVE Handed'
<1> USE DEF IInv
<1>1. CASE MarkPostInstall \/ VerifyHealth \/ SkipCleanupBootstrap \/ StopIgnition
  <2>1. /\ \E s \in {"health", "kubevip", "clear"} : GoTo(s)
        /\ UNCHANGED <<tfvars, sentinel, vms, cluster>>
    BY <1>1 DEF MarkPostInstall, VerifyHealth, SkipCleanupBootstrap, StopIgnition, terraform, machines
  <2>2. \E s \in {"health", "kubevip", "clear"} : GoesTo(s)
    BY <2>1, GoToType DEF Stage
  <2> QED
    BY <2>1, <2>2, AsideHands DEF Aside, GoesTo, DestroyStages
<1>2. CASE VerifyKubeVIP
  <2>1. run'.verb = run.verb /\ run'.stage = "cleanup-bootstrap"
    BY <1>2 DEF VerifyKubeVIP, TypeOK, Run
  <2> QED
    BY <1>2, <2>1, AsideHands DEF VerifyKubeVIP, Aside, DestroyStages, terraform, machines
<1>3. CASE CleanupBootstrap
  <2>1. GoTo("destroy-bootstrap") /\ sentinel' = TRUE /\ UNCHANGED <<vms, cluster>>
    BY <1>3 DEF CleanupBootstrap, machines
  <2>2. GoesTo("destroy-bootstrap")
    BY <2>1, GoToType DEF Stage
  <2> QED
    BY <2>1, <2>2 DEF Handed, BootstrapStaysGone, GoesTo, At, DestroyStages
<1>4. CASE DestroyBootstrap
  <2>1. /\ run.stage = "destroy-bootstrap" /\ GoTo("stop-ignition")
        /\ vms' = vms \ {"bootstrap"} /\ UNCHANGED <<tfvars, sentinel, cluster>>
    BY <1>4 DEF DestroyBootstrap, At, terraform
  <2>2. GoesTo("stop-ignition")
    BY <2>1, GoToType DEF Stage
  <2> QED
    BY <2>1, <2>2 DEF Handed, BootstrapStaysGone, GoesTo, At, DestroyStages
<1>5. CASE ClearMarker
  BY <1>5, IdleRunType, AsideHands DEF ClearMarker, Aside, DestroyStages, terraform, machines
<1> QED
  BY <1>1, <1>2, <1>3, <1>4, <1>5 DEF PostInstallStep

LEMMA FailureHands == ASSUME IInv, Handed, Failure \/ Crash \/ DeployGivesUp PROVE Handed'
<1> USE DEF IInv
<1>1. CASE CleanupFails
  <2>1. /\ UNCHANGED <<tfvars, sentinel, vms, cluster>> /\ run'.verb = run.verb
        /\ run'.stage \in {"clean-dir", "clean-web", "clean-terraform", "summary"}
    BY <1>1 DEF CleanupFails, At, AfterWorkDir, terraform, machines, TypeOK, Run
  <2> QED
    BY <2>1, AsideHands DEF Aside, DestroyStages
<1>2. CASE DeployWarns
  <2>1. /\ GoTo("cleanup-bootstrap") \/ GoTo("clear")
        /\ UNCHANGED <<tfvars, sentinel, vms, cluster>>
    BY <1>2 DEF DeployWarns, terraform, machines
  <2>2. GoesTo("cleanup-bootstrap") \/ GoesTo("clear")
    BY <2>1, GoToType DEF Stage
  <2> QED
    BY <2>1, <2>2, AsideHands DEF Aside, GoesTo, DestroyStages
<1>3. CASE DeployFails \/ ClearFails \/ Crash \/ DeployGivesUp
  BY <1>3, IdleRunType, AsideHands
     DEF DeployFails, ClearFails, Crash, DeployGivesUp, Aside, DestroyStages, terraform, machines
<1>4. ~DestroyFails
  BY DEF DestroyFails, Handed, DestroyStages
<1> QED
  BY <1>1, <1>2, <1>3, <1>4 DEF Failure

LEMMA BeginHands ==
    ASSUME IInv, Handed, BeginCommand, DeployAssumption, Verbs \subseteq KeepsVMs
    PROVE  Handed'
<1>1. UNCHANGED <<tfvars, sentinel, vms, cluster>>
  BY DEF BeginCommand, DeployBegin, DestroyBegin, CleanupBegin, terraform, machines
<1>2. \E verb \in Verbs, s \in {"guard", "mark-install", "mark-postinstall", "clean-creds"} :
         Begin(verb, s)
  BY DEF BeginCommand, DeployBegin, ResumePhase, DestroyBegin, Destroys, CleanupBegin, Begin, KeepsVMs
<1>3. /\ run'.verb \in KeepsVMs
      /\ run'.stage \in {"guard", "mark-install", "mark-postinstall", "clean-creds"}
  BY <1>2, BeginType DEF Stage
<1> QED
  BY <1>1, <1>3 DEF Handed, BootstrapStaysGone, At, DestroyStages

LEMMA EnvironmentHands == ASSUME IInv, Handed, Environment \/ RestoreState PROVE Handed'
<1> USE DEF IInv
<1>1. CASE ControlPlaneUp
  BY <1>1 DEF ControlPlaneUp, Handed, BootstrapStaysGone, At, TypeOK, terraform, machines
<1>2. CASE VipUp \/ Join
  BY <1>2 DEF VipUp, Join, Handed, BootstrapStaysGone, At, TypeOK, terraform, machines
<1>3. CASE RestoreState \/ \E v \in VM : Boot(v)
  BY <1>3 DEF RestoreState, Boot, Handed, BootstrapStaysGone, At, terraform, machines
<1> QED
  BY <1>1, <1>2, <1>3 DEF Environment

LEMMA Handing ==
    ASSUME IInv, AInv, Handed, [Next]_vars, DeployAssumption, Verbs \subseteq KeepsVMs
    PROVE  Handed'
<1>1. CASE UNCHANGED vars
  BY <1>1 DEF vars, terraform, machines, Handed, BootstrapStaysGone, At
<1>2. ~DestroyStep
  BY DEF Handed, DestroyStages, DestroyStep, DestroyNothing, LiftPreventDestroy, PlanDestroy,
     DestroyVM, DestroyDone, DestroyRefused, At
<1> QED
  BY <1>1, <1>2, SetupHands, CleanupHands, InstallHands, PostInstallHands, FailureHands,
     BeginHands, EnvironmentHands DEF Next, Proceed

\* Whatever deploys and cleanups were interrupted, once the bootstrap VM is gone from a
\* cluster that is up no plan wants it back: the sentinel is written before it goes, and
\* the variables that would want it are only written for a cluster that has no VM.
THEOREM BootstrapNeverWantedBack ==
    ASSUME Verbs \subseteq KeepsVMs PROVE Spec => []BootstrapStaysGone
<1>1. Init => Handed
  BY IdleRunType DEF Init, NothingDeployed, ClusterDeployed, Fresh, Handed, BootstrapStaysGone, At,
     DestroyStages
<1>2. IInv /\ AInv /\ Handed /\ [Next]_vars => Handed'
  BY Handing, DeployAssumption
<1>3. Handed => BootstrapStaysGone
  BY DEF Handed
<1>4. "fresh" \notin Verbs
  BY DEF KeepsVMs
<1> QED
  BY <1>1, <1>2, <1>3, <1>4, Agreement, PTL DEF Spec

\* A step that is on no way from an install to its completion.
Rests ==
    /\ UNCHANGED <<workerOn, cluster, access>>
    /\ marker' \in {marker, "none", "setup", "completed"}
    /\ run'.stage \notin (InstallStages \ {"mark-install"}) \cup PostInstallStages

LEMMA RestsReach == ASSUME Reached, Rests PROVE Reached'
BY DEF Reached, Started, Rests, At, InstallStages, PostInstallStages

LEMMA SetupReaches == ASSUME IInv, Reached, SetupStep PROVE Reached'
<1> USE DEF IInv
<1>1. /\ \E s \in {"setup", "clean-creds", "serve", "tfvars", "mark-install"} : GoTo(s)
      /\ marker' \in {marker, "setup"} /\ UNCHANGED <<workerOn, cluster, access>>
  BY DEF SetupStep, GuardSetup, SetupGuard, GenerateIgnition, DeployIgnition, GenerateTfvars,
     machines, work
<1>2. \E s \in {"setup", "clean-creds", "serve", "tfvars", "mark-install"} : GoesTo(s)
  BY <1>1, GoToType DEF Stage
<1> QED
  BY <1>1, <1>2, RestsReach DEF Rests, GoesTo, InstallStages, PostInstallStages

LEMMA CleanupReaches == ASSUME IInv, Reached, CleanupStep \/ CleanupFails PROVE Reached'
<1> USE DEF IInv
<1>1. marker' \in {marker, "none"} /\ UNCHANGED <<workerOn, cluster, access>>
  BY DEF CleanupStep, CleanCreds, CleanDir, CleanWeb, CleanTerraform, Summary, CleanupFails,
     machines, work
<1>2. run'.stage \in {"clean-dir", "clean-web", "clean-terraform", "summary", "ignition", "idle"}
  <2>0. AfterWorkDir \in {"clean-web", "summary"}
    BY DEF AfterWorkDir
  <2>1. CASE CleanCreds \/ CleanDir \/ CleanWeb \/ CleanTerraform
    BY <2>0, <2>1 DEF CleanCreds, CleanDir, CleanWeb, CleanTerraform, GoTo, TypeOK, Run
  <2>2. CASE Summary
    BY <2>2, IdleRunType DEF Summary, TypeOK, Run
  <2>3. CASE CleanupFails
    BY <2>0, <2>3 DEF CleanupFails, At, TypeOK, Run
  <2> QED
    BY <2>1, <2>2, <2>3 DEF CleanupStep
<1> QED
  BY <1>1, <1>2, RestsReach DEF Rests, InstallStages, PostInstallStages

LEMMA InstallReaches == ASSUME IInv, Reached, InstallStep PROVE Reached'
<1> USE DEF IInv
<1>1. CASE MarkInstall
  <2>1. GoTo("apply") /\ marker' = "install" /\ access' = access
    BY <1>1 DEF MarkInstall
  <2>2. GoesTo("apply")
    BY <2>1, GoToType DEF Stage
  <2> QED
    BY <2>1, <2>2 DEF Reached, Started, GoesTo, At, PostInstallStages
<1>2. CASE Apply
  <2>1. run.stage = "apply" /\ (run' = run \/ GoTo("wait-bootstrap")) /\ UNCHANGED <<marker, access>>
    BY <1>2 DEF Apply, At, work
  <2>2. run'.stage \in {"apply", "wait-bootstrap"}
    BY <2>1, GoToType DEF Stage, GoesTo
  <2> QED
    BY <2>1, <2>2 DEF Reached, Started, At, PostInstallStages
<1>3. CASE WaitBootstrap
  <2>1. run.stage = "wait-bootstrap" /\ GoTo("start-workers") /\ UNCHANGED <<marker, access>>
    BY <1>3 DEF WaitBootstrap, At, work
  <2>2. GoesTo("start-workers")
    BY <2>1, GoToType DEF Stage
  <2> QED
    BY <2>1, <2>2 DEF Reached, Started, GoesTo, At, PostInstallStages
<1>4. CASE StartWorkers
  <2>1. access = 0 => ~WorkersAlreadyRunning
    BY DEF WorkersAlreadyRunning, Foreign
  <2>2. /\ run.stage = "start-workers" /\ GoTo("monitor") /\ UNCHANGED <<marker, access>>
        /\ access = 0 => workerOn' = TRUE
    BY <1>4, <2>1 DEF StartWorkers, At, work
  <2>3. GoesTo("monitor")
    BY <2>2, GoToType DEF Stage
  <2> QED
    BY <2>2, <2>3 DEF Reached, Started, GoesTo, At, PostInstallStages
<1>5. CASE MonitorInstall
  <2>1. /\ run.stage = "monitor" /\ GoTo("setup-access") /\ cluster.joined
        /\ creds' # 0 /\ UNCHANGED <<marker, workerOn, cluster, access>>
    BY <1>5 DEF MonitorInstall, OwnApiUp, At, work, machines
  <2>2. GoesTo("setup-access")
    BY <2>1, GoToType DEF Stage
  <2> QED
    BY <2>1, <2>2 DEF Reached, Started, GoesTo, At, PostInstallStages
<1>6. CASE SetupAccess
  <2>1. /\ run.stage = "setup-access" /\ GoTo("mark-postinstall")
        /\ UNCHANGED <<marker, workerOn, cluster>> /\ access' \in {access, creds} /\ creds # 0
    BY <1>6 DEF SetupAccess, At, work, machines, Reached
  <2>2. GoesTo("mark-postinstall")
    BY <2>1, GoToType DEF Stage
  <2> QED
    BY <2>1, <2>2 DEF Reached, Started, GoesTo, At, PostInstallStages
<1> QED
  BY <1>1, <1>2, <1>3, <1>4, <1>5, <1>6 DEF InstallStep

LEMMA PostInstallReaches == ASSUME IInv, Reached, PostInstallStep \/ DeployWarns PROVE Reached'
<1> USE DEF IInv
<1>1. CASE MarkPostInstall
  <2>1. /\ run.stage = "mark-postinstall" /\ GoTo("health")
        /\ UNCHANGED <<workerOn, cluster, access>>
    BY <1>1 DEF MarkPostInstall, At, machines
  <2>2. GoesTo("health")
    BY <2>1, GoToType DEF Stage
  <2> QED
    BY <2>1, <2>2 DEF Reached, Started, GoesTo, At, PostInstallStages
<1>2. CASE VerifyHealth \/ VerifyKubeVIP \/ SkipCleanupBootstrap \/ CleanupBootstrap \/ StopIgnition
           \/ DeployWarns
  <2>1. /\ run.stage \in PostInstallStages
        /\ UNCHANGED <<marker, creds, vms, built, workerOn, cluster, access>>
    BY <1>2 DEF VerifyHealth, VerifyKubeVIP, SkipCleanupBootstrap, CleanupBootstrap, StopIgnition,
       DeployWarns, At, PostInstallStages, work, machines
  <2>2. run.stage = "health" => OwnApiUp
    BY <1>2 DEF VerifyHealth, VerifyKubeVIP, SkipCleanupBootstrap, CleanupBootstrap, StopIgnition,
       DeployWarns, At
  <2>3. run'.stage \in {"kubevip", "cleanup-bootstrap", "destroy-bootstrap", "clear"}
    BY <1>2 DEF VerifyHealth, VerifyKubeVIP, SkipCleanupBootstrap, CleanupBootstrap, StopIgnition,
       DeployWarns, GoTo, TypeOK, Run
  <2>4. OwnApiUp /\ cluster.joined /\ Started
    BY <2>1, <2>2 DEF Reached
  <2> QED
    BY <2>1, <2>3, <2>4 DEF Reached, Started, OwnApiUp, ApiUp, At, PostInstallStages
<1>3. CASE DestroyBootstrap
  <2>1. /\ run.stage = "destroy-bootstrap" /\ GoTo("stop-ignition")
        /\ built' = [built EXCEPT !["bootstrap"] = 0]
        /\ UNCHANGED <<marker, creds, workerOn, cluster, access>>
    BY <1>3 DEF DestroyBootstrap, At, work
  <2>2. GoesTo("stop-ignition")
    BY <2>1, GoToType DEF Stage
  <2>3. OwnApiUp /\ cluster.vip /\ cluster.joined /\ Started
    BY <2>1 DEF Reached, Started, Verified, At, PostInstallStages
  <2>4. OwnApiUp'
    BY <2>1, <2>3 DEF OwnApiUp, ApiUp, TypeOK, VM
  <2> QED
    BY <2>1, <2>2, <2>3, <2>4 DEF Reached, Started, GoesTo, At
<1>4. CASE ClearMarker
  BY <1>4, IdleRunType, RestsReach DEF ClearMarker, Rests, InstallStages, PostInstallStages, machines
<1> QED
  BY <1>1, <1>2, <1>3, <1>4 DEF PostInstallStep

LEMMA FailureReaches ==
    ASSUME Reached, DeployFails \/ ClearFails \/ Crash \/ DeployGivesUp
    PROVE  Reached'
BY IdleRunType, RestsReach
   DEF DeployFails, ClearFails, Crash, DeployGivesUp, Rests, InstallStages, PostInstallStages, work,
       machines

LEMMA BeginReaches ==
    ASSUME Reached, BeginCommand, DeployAssumption, Verbs \subseteq KeepsVMs
    PROVE  Reached'
<1>1. UNCHANGED <<marker, workerOn, cluster, access>>
  BY DEF BeginCommand, DeployBegin, DestroyBegin, CleanupBegin, work, machines
<1>2. \E verb \in Verbs, s \in {"guard", "mark-install", "mark-postinstall", "clean-creds"} :
         Begin(verb, s) /\ (s = "mark-postinstall" => marker = "postinstall")
  BY DEF BeginCommand, DeployBegin, ResumePhase, DestroyBegin, Destroys, CleanupBegin, Begin, KeepsVMs
<1>3. /\ run'.stage \in {"guard", "mark-install", "mark-postinstall", "clean-creds"}
      /\ run'.stage = "mark-postinstall" => marker = "postinstall"
  BY <1>2, BeginType DEF Stage
<1> QED
  BY <1>1, <1>3 DEF Reached, Started, At, PostInstallStages

LEMMA EnvironmentReaches == ASSUME IInv, Reached, Environment \/ RestoreState PROVE Reached'
<1> USE DEF IInv
<1>1. CASE ControlPlaneUp \/ VipUp \/ Join
  <2>1. /\ UNCHANGED <<marker, creds, vms, built, workerOn, access, run>>
        /\ cluster.handover => cluster'.handover
        /\ cluster.vip => cluster'.vip
        /\ cluster.joined => cluster'.joined
    BY <1>1 DEF ControlPlaneUp, VipUp, Join, TypeOK, work, machines
  <2> QED
    BY <2>1 DEF Reached, Started, OwnApiUp, ApiUp, At
<1>2. CASE RestoreState
  BY <1>2 DEF RestoreState, Reached, Started, OwnApiUp, ApiUp, At, work, machines
<1>3. ASSUME NEW v \in VM, Boot(v) PROVE Reached'
  <2>1. /\ UNCHANGED <<marker, creds, vms, workerOn, access, run, cluster>>
        /\ built[v] = 0 /\ built' = [built EXCEPT ![v] = served]
    BY <1>3 DEF Boot, work
  <2>2. OwnApiUp => OwnApiUp'
    BY <2>1 DEF OwnApiUp, ApiUp, TypeOK, VM
  <2> QED
    BY <2>1, <2>2 DEF Reached, Started, At
<1> QED
  BY <1>1, <1>2, <1>3 DEF Environment

\* A deploy that completes leaves the API reachable with its own credentials and the
\* workers joined, however often it was interrupted and resumed; and the workers running,
\* unless the ambient kubeconfig, which start-workers asks whether it may skip, opens a
\* cluster.
THEOREM CompletionMeansUp ==
    ASSUME Verbs \subseteq KeepsVMs
    PROVE  Spec => [](CompletedReached /\ (access = 0 => CompletedRuns))
<1>1. Init => Handed /\ Reached
  BY IdleRunType DEF Init, NothingDeployed, ClusterDeployed, Fresh, Handed, BootstrapStaysGone,
     Reached, At, DestroyStages, PostInstallStages
<1>2. IInv /\ AInv /\ Handed /\ Reached /\ [Next]_vars => Handed' /\ Reached'
  <2> SUFFICES ASSUME IInv, AInv, Handed, Reached, [Next]_vars PROVE Reached'
    BY Handing, DeployAssumption
  <2>1. CASE UNCHANGED vars
    BY <2>1 DEF vars, work, machines, Reached, Started, OwnApiUp, ApiUp, At
  <2>2. ~DestroyStep /\ ~DestroyFails
    BY DEF Handed, DestroyStages, DestroyStep, DestroyNothing, LiftPreventDestroy, PlanDestroy,
       DestroyVM, DestroyDone, DestroyRefused, DestroyFails, At
  <2> QED
    BY <2>1, <2>2, SetupReaches, CleanupReaches, InstallReaches, PostInstallReaches,
       FailureReaches, BeginReaches, EnvironmentReaches, DeployAssumption DEF Next, Proceed, Failure
<1>3. Reached => CompletedReached /\ (access = 0 => CompletedRuns)
  BY DEF Reached, Started, CompletedReached, CompletedRuns, At, PostInstallStages
<1>4. "fresh" \notin Verbs
  BY DEF KeepsVMs
<1> QED
  BY <1>1, <1>2, <1>3, <1>4, Agreement, PTL DEF Spec

=============================================================================
