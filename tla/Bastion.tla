------------------------------ MODULE Bastion ------------------------------
(***************************************************************************)
(* The bastion host: the OKD tools, the installer's directory, node ISOs   *)
(* with their fingerprints, the ignition server and its certificate.  The  *)
(* steps of setup and of the join window of node add that change them; the *)
(* services are in module BastionServices.                                 *)
(***************************************************************************)
EXTENDS Naturals, Sequences

CONSTANTS HostNodes,    \* nodes that get an ISO
          HostFaults,   \* calls that fail, and kills
          Edits         \* cleanups and changes of the configuration, each to a new value

ASSUME BastionAssumption == HostFaults \in Nat /\ Edits \in Nat

Tools == {"openshift-install", "oc"}
Ignition == {"bootstrap", "master", "worker"}

VARIABLES
    want,       \* the configuration: server address, network settings, OKD version
    tools,      \* installed binaries with their version, and the version sentinel
    dir,        \* the installer's directory: what its files were made from
    iso, fp,    \* per node: what its ISO and its fingerprint file are of
    remote,     \* per node: its ISO on the Proxmox storage
    cert,       \* the ignition certificate on disk; 0: none
    httpd,      \* the certificate the running server loaded; 0: it does not run
    web,        \* ignition files in the web root
    conf,       \* per service: configuration on disk, its backup, the running one
    resolver,   \* NetworkManager's profile and what the device uses
    step,       \* the command that runs
    troubles, edits

files == <<tools, dir, iso, fp, remote>>
server == <<cert, httpd, web>>
services == <<conf, resolver>>
bastionVars == <<want, files, server, services, step, troubles, edits>>

\* Made of no inputs at all: not there, or cut short while it was written.
None == [net |-> 0, cert |-> 0, base |-> 0]
Torn == [net |-> 99, cert |-> 99, base |-> 99]
EmptyDir == [config |-> 0, backup |-> 0, manifests |-> 0, sealed |-> FALSE,
             ignition |-> 0, signed |-> FALSE]

-----------------------------------------------------------------------------
(* The orchestrator: steps in order, a fatal failure ends the run *)

\* left: what the step still iterates over; before: troubles met by earlier runs.
NoStep == [verb |-> "none", todo |-> <<>>, left |-> {}, before |-> 0, found |-> 0,
           failed |-> FALSE, was |-> "none"]

Running == step.verb # "none"
At(id) == Running /\ Head(step.todo) = id
Trouble == troubles < HostFaults /\ troubles' = troubles + 1
Quiet == troubles' = troubles
Faulted == troubles > step.before

Subjects(id) ==
    CASE id = "install-tools" -> Tools
      [] id \in {"build-isos", "upload-isos"} -> HostNodes
      [] id = "deploy-ignition" -> Ignition
      [] id = "publish-worker" -> {"worker"}
      [] OTHER -> {}

Enter(todo) == step' = [step EXCEPT !.todo = todo, !.left = Subjects(Head(todo))]
Proceed == Enter(Tail(step.todo))
\* One after the other, in the order of a list.
Turn(s) == step.left # {} /\ s = CHOOSE t \in step.left : TRUE
Handled(s) == Turn(s) /\ step' = [step EXCEPT !.left = @ \ {s}]
Ended(ok) == step' = [NoStep EXCEPT !.failed = ~ok, !.was = step.verb]

NonFatal == {"install-apache", "upload-isos", "configure-dns"}

\* node add closes its window on every way out but a kill.
Fails ==
    CASE step.verb = "setup" /\ Head(step.todo) \in NonFatal -> Proceed
      [] step.verb = "window" -> step' = [step EXCEPT !.todo = <<"teardown">>, !.left = {}, !.failed = TRUE]
      [] OTHER -> Ended(FALSE)

-----------------------------------------------------------------------------
(* The work directory and the tools *)

\* WorkDirectory: a setup does not go on over what could not be removed.
Wipe ==
    /\ At("wipe")
    /\ \/ /\ dir' = EmptyDir /\ Proceed /\ Quiet
          /\ iso' = [n \in HostNodes |-> None] /\ fp' = iso'
       \/ /\ Trouble /\ dir' \in {dir, EmptyDir} /\ UNCHANGED <<iso, fp>>
          /\ IF step.verb = "setup" THEN Fails
             ELSE step' = [step EXCEPT !.todo = Tail(@), !.failed = TRUE]
    /\ UNCHANGED <<want, tools, remote, server, services, edits>>

ToolsReady == (\A b \in Tools : tools.bins[b] # 0) /\ tools.mark = want.version

\* DownloadOKDTools: the sentinel after the last binary.
InstallTool(b) ==
    /\ At("install-tools") /\ ~(step.left = Tools /\ ToolsReady)
    /\ Handled(b) /\ Quiet
    /\ tools' = [tools EXCEPT !.bins[b] = want.version]
    /\ UNCHANGED <<want, dir, iso, fp, remote, server, services, edits>>

ToolsInstalled ==
    /\ At("install-tools") /\ (step.left = {} \/ (step.left = Tools /\ ToolsReady))
    /\ tools' = [tools EXCEPT !.mark = want.version]
    /\ Proceed /\ Quiet
    /\ UNCHANGED <<want, dir, iso, fp, remote, server, services, edits>>

-----------------------------------------------------------------------------
(* install-config, manifests, ignition: openshift-install consumes each for the next *)

Installer == UNCHANGED <<want, tools, iso, fp, remote, server, services, edits>>

GenerateConfig ==
    /\ At("generate-config")
    /\ dir' = IF dir.backup # 0 THEN dir ELSE [dir EXCEPT !.config = want.net, !.backup = want.net]
    /\ Proceed /\ Quiet /\ Installer

ManifestsGenerated == dir.signed \/ (dir.manifests # 0 /\ dir.sealed)
\* restoreInstallConfigFromBackup
ConfigInput == IF dir.config # 0 THEN dir.config ELSE dir.backup

GenerateManifests ==
    /\ At("generate-manifests")
    /\ \/ ManifestsGenerated /\ dir' = dir /\ Proceed /\ Quiet
       \/ /\ ~ManifestsGenerated /\ Proceed /\ Quiet
          /\ dir' = [dir EXCEPT !.manifests = ConfigInput, !.config = 0, !.sealed = TRUE]
       \/ /\ ~ManifestsGenerated /\ Fails /\ Trouble
          /\ dir' = [dir EXCEPT !.manifests = 99, !.config = 0]
    /\ Installer

GenerateIgnition ==
    /\ At("generate-ignition")
    /\ \/ dir.signed /\ dir' = dir /\ Proceed /\ Quiet
       \/ /\ ~dir.signed /\ Proceed /\ Quiet
          /\ dir' = [dir EXCEPT !.ignition = dir.manifests, !.manifests = 0, !.sealed = FALSE, !.signed = TRUE]
       \/ /\ ~dir.signed /\ Fails /\ Trouble
          /\ dir' = [dir EXCEPT !.ignition = 99, !.manifests = 0, !.sealed = FALSE]
    /\ Installer

-----------------------------------------------------------------------------
(* The ignition server *)

\* EnsureIgnitionCert: kept while it covers the address and has not expired.
FreshReused == [id |-> cert.next, ip |-> want.ip, expired |-> FALSE, next |-> cert.next]
Fresh == [id |-> cert.next, ip |-> want.ip, expired |-> FALSE, next |-> cert.next + 1]
EnsureIgnitionCert == IF cert.id # 0 /\ cert.ip = want.ip /\ ~cert.expired THEN cert ELSE Fresh

\* systemctl start: nothing for a server that runs; one that does not run cannot
\* start without the certificate its virtual host names.
StartedHttpd == IF httpd # 0 THEN httpd ELSE cert.id

ConfigureApache ==
    /\ At("install-apache") \/ At("revive")
    /\ httpd' = StartedHttpd
    /\ IF StartedHttpd = 0 THEN Fails ELSE Proceed
    /\ Quiet /\ UNCHANGED <<want, files, cert, web, services, edits>>

DeployedSomething == \A f \in Ignition : web[f] # 0
IgnitionDeployAlreadyDone == \A f \in Ignition : web[f] = dir.ignition

\* deployIgnitionFiles: one file after the other, each replaced whole.
DeployFile(f) ==
    /\ At("publish-worker") \/ (At("deploy-ignition") /\ ~IgnitionDeployAlreadyDone)
    /\ Handled(f) /\ Quiet
    /\ web' = [web EXCEPT ![f] = IF dir.ignition # 0 THEN dir.ignition ELSE @]
    /\ UNCHANGED <<want, files, cert, httpd, services, edits>>

IgnitionDeployed ==
    /\ \/ At("deploy-ignition") /\ (step.left = {} \/ IgnitionDeployAlreadyDone)
       \/ At("publish-worker") /\ step.left = {}
    /\ Proceed /\ Quiet
    /\ UNCHANGED <<want, files, server, services, edits>>

\* The certificate is made here when there is none; then bootstrap.ign is fetched
\* and the server must present that very certificate.
VerifyWebServer ==
    /\ At("verify-webserver")
    /\ cert' = EnsureIgnitionCert
    /\ IF httpd = cert'.id /\ web["bootstrap"] # 0 THEN Proceed ELSE Fails
    /\ Quiet /\ UNCHANGED <<want, files, httpd, web, services, edits>>

\* TeardownIgnitionServer
Teardown ==
    /\ At("teardown")
    /\ httpd' = 0 /\ web' = [f \in Ignition |-> 0]
    /\ Ended(~step.failed) /\ Quiet
    /\ UNCHANGED <<want, files, cert, services, edits>>

-----------------------------------------------------------------------------
(* Node ISOs *)

\* What coreos-installer puts into an ISO, and what the fingerprint is taken of.
Content == [net |-> want.net, cert |-> EnsureIgnitionCert.id, base |-> tools.bins["openshift-install"]]
FingerprintUncertified == [Content EXCEPT !.cert = 0]
NodeISOFingerprint == Content
Unchanged(n) == iso[n] # None /\ fp[n] = NodeISOFingerprint

\* buildNodeISO: the fingerprint is written last, best effort.
BuildISO(n) ==
    /\ At("build-isos") /\ Handled(n)
    /\ cert' = EnsureIgnitionCert
    /\ \/ Unchanged(n) /\ Quiet /\ UNCHANGED <<iso, fp>>
       \/ /\ ~Unchanged(n) /\ iso' = [iso EXCEPT ![n] = Content]
          /\ \/ fp' = [fp EXCEPT ![n] = NodeISOFingerprint] /\ Quiet
             \/ fp' = fp /\ Trouble
    /\ UNCHANGED <<want, tools, dir, remote, httpd, web, services, edits>>

\* coreos-installer fails or is killed: the old ISO is gone and a part may be there.
BuildCutShort(n) ==
    /\ At("build-isos") /\ Turn(n) /\ ~Unchanged(n) /\ Trouble
    /\ cert' = EnsureIgnitionCert
    /\ iso' \in {[iso EXCEPT ![n] = None], [iso EXCEPT ![n] = Torn]}
    /\ Fails \/ Ended(FALSE)
    /\ UNCHANGED <<want, tools, dir, fp, remote, httpd, web, services, edits>>

\* isoUploadNeeded: any doubt about the remote copy uploads.
UploadISO(n) ==
    /\ At("upload-isos") /\ Handled(n) /\ Quiet
    /\ remote' = [remote EXCEPT ![n] = IF iso[n] = None THEN @ ELSE iso[n]]
    /\ UNCHANGED <<want, tools, dir, iso, fp, server, services, edits>>

\* scp stops half-way: what it copied before stays.
UploadCutShort(n) ==
    /\ At("upload-isos") /\ Turn(n) /\ remote[n] # iso[n] /\ Trouble
    /\ remote' = [remote EXCEPT ![n] = Torn]
    /\ Fails \/ Ended(FALSE)
    /\ UNCHANGED <<want, tools, dir, iso, fp, server, services, edits>>

Iterated ==
    /\ At("build-isos") \/ At("upload-isos")
    /\ step.left = {} /\ Proceed /\ Quiet
    /\ UNCHANGED <<want, files, server, services, edits>>

\* Steps whose only trouble is that nothing happens.
StepFails ==
    /\ step.todo # <<>> /\ Trouble
    /\ Head(step.todo) \in {"install-tools", "generate-config", "install-apache", "revive",
                            "deploy-ignition", "publish-worker", "verify-webserver"}
    /\ Fails
    /\ UNCHANGED <<want, files, server, services, edits>>

ArtifactStep ==
    \/ Wipe \/ ToolsInstalled \/ GenerateConfig \/ GenerateManifests \/ GenerateIgnition
    \/ ConfigureApache \/ IgnitionDeployed \/ VerifyWebServer \/ Teardown \/ Iterated
    \/ \E b \in Tools : InstallTool(b)
    \/ \E f \in Ignition : DeployFile(f)
    \/ \E n \in HostNodes : BuildISO(n) \/ UploadISO(n)

ArtifactTrouble == StepFails \/ \E n \in HostNodes : BuildCutShort(n) \/ UploadCutShort(n)

=============================================================================
