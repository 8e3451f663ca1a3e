------------------------------ MODULE Cleanup ------------------------------
(***************************************************************************)
(* The cleanup phase, which deploy runs as work-only before it generates a *)
(* new identity, destroy runs after terraform, and okdctl cleanup runs by  *)
(* itself.  Its steps are all non-fatal: a failed one is remembered, the   *)
(* next one runs, and the summary fails.                                   *)
(***************************************************************************)
EXTENDS DeployWorld

FullCleanupAlways == TearingDown             \* (mutant) no downgrade to work-only

\* Destroy keeps tfvars and the web root for the retry when terraform failed.
FullCleanup == TearingDown /\ ~run.tfFailed

AfterWorkDir == IF FullCleanup THEN "clean-web" ELSE "summary"

\* retainClusterCredentials, which the consent to --fresh bypasses.
Retain == Populated /\ run.verb # "fresh"
RefuseNever == FALSE                         \* (mutant) corrupt counts as empty
RetainRefused == Corrupt /\ run.verb # "fresh"

\* The credentials go first, the directory with the marker last.
CleanCreds ==
    /\ At("clean-creds")
    /\ \/ /\ workDir /\ RetainRefused
          /\ run' = [run EXCEPT !.stage = AfterWorkDir, !.failed = TRUE]
          /\ UNCHANGED creds
       \/ /\ ~workDir \/ Retain
          /\ GoTo(AfterWorkDir)
          /\ UNCHANGED creds
       \/ /\ workDir /\ ~Retain /\ ~RetainRefused
          /\ creds' = 0
          /\ GoTo("clean-dir")
    /\ UNCHANGED <<marker, workDir, served, terraform, machines, cluster, access, faults>>

CleanDir ==
    /\ At("clean-dir")
    /\ marker' = "none" /\ workDir' = FALSE /\ creds' = 0
    /\ GoTo(AfterWorkDir)
    /\ UNCHANGED <<served, terraform, machines, cluster, access, faults>>

CleanWeb ==
    /\ At("clean-web")
    /\ served' = 0
    /\ GoTo("clean-terraform")
    /\ UNCHANGED <<work, terraform, machines, cluster, access, faults>>

\* terraform.tfstate stays; an empty one is the same as none.
CleanTerraform ==
    /\ At("clean-terraform")
    /\ tfvars' = FALSE /\ sentinel' = FALSE
    /\ GoTo("summary")
    /\ UNCHANGED <<work, served, override, state, machines, cluster, access, faults>>

\* A deploy goes on to generate a new identity, a teardown is over.
Summary ==
    /\ At("summary")
    /\ run' = IF Deploying /\ ~run.failed
                 THEN [run EXCEPT !.stage = "ignition"] ELSE IdleRun
    /\ UNCHANGED <<work, served, terraform, machines, cluster, access, faults>>

CleanupStep == CleanCreds \/ CleanDir \/ CleanWeb \/ CleanTerraform \/ Summary

\* A removal fails.  Only the work directory's removals are reported; the ones
\* in the web root and the terraform directory are logged and forgotten.  What
\* else the directory holds goes all the same, the marker perhaps with it.
CleanupFails ==
    /\ \/ At("clean-creds") /\ workDir /\ ~RetainRefused
       \/ run.stage \in {"clean-dir", "clean-web", "clean-terraform"}
    /\ faults < MaxFaults
    /\ faults' = faults + 1
    /\ marker' \in {marker} \cup (IF At("clean-dir") THEN {"none"} ELSE {})
    /\ run' = [run EXCEPT
          !.stage = CASE At("clean-creds") -> IF Retain THEN AfterWorkDir ELSE "clean-dir"
                      [] At("clean-dir") -> AfterWorkDir
                      [] At("clean-web") -> "clean-terraform"
                      [] OTHER -> "summary",
          !.failed = @ \/ run.stage \in {"clean-creds", "clean-dir"}]
    /\ UNCHANGED <<workDir, creds, served, terraform, machines, cluster, access>>

=============================================================================
