----------------------------- MODULE HostSetup -----------------------------
(***************************************************************************)
(* The bastion under the commands that change it: setup (a deploy), the    *)
(* join window of node add, and cleanup, one at a time, with edits of the  *)
(* configuration and an expiring certificate in between, and with failures *)
(* and kills at every step.                                                *)
(***************************************************************************)
EXTENDS BastionServices

SetupSteps == <<"wipe", "install-tools", "generate-config", "generate-manifests",
                "generate-ignition", "install-apache", "deploy-ignition", "verify-webserver",
                "build-isos", "upload-isos", "write-haproxy", "start-haproxy",
                "override-resolver", "activate-resolver", "write-dnsmasq", "start-dnsmasq", "done">>
WindowSteps == <<"revive", "publish-worker", "build-isos", "upload-isos", "teardown">>
CleanupSteps == <<"wipe", "clean-web", "clean-haproxy", "clean-apache", "clean-dnsmasq",
                  "clean-backups", "clean-certs", "done">>

Begin(verb, steps) ==
    /\ ~Running
    /\ step' = [NoStep EXCEPT !.verb = verb, !.todo = steps, !.before = troubles]
    /\ UNCHANGED <<want, files, server, services, troubles>>

Setup == Begin("setup", SetupSteps) /\ edits' = edits
\* preflightIgnitionArtifacts: worker.ign and the certificate are still there.
JoinWindow == dir.signed /\ cert.id # 0 /\ Begin("window", WindowSteps) /\ edits' = edits
FullCleanup == edits < Edits /\ Begin("cleanup", CleanupSteps) /\ edits' = edits + 1

Killed ==
    /\ Running /\ Trouble
    /\ step' = NoStep
    /\ UNCHANGED <<want, files, server, services, edits>>

\* Between two commands the operator edits the configuration, or two years pass.
Edit ==
    /\ ~Running /\ edits < Edits /\ edits' = edits + 1
    /\ \/ \E field \in {"ip", "net", "version"} : want' = [want EXCEPT ![field] = edits + 3]
          /\ cert' = cert
       \/ cert.id # 0 /\ cert' = [cert EXCEPT !.expired = TRUE] /\ want' = want
    /\ UNCHANGED <<files, httpd, web, services, step, troubles>>

BastionInit ==
    /\ want = [ip |-> 1, net |-> 1, version |-> 2]
    /\ tools \in {[bins |-> [b \in Tools |-> v], mark |-> v] : v \in {0, 1}}
    /\ dir = EmptyDir /\ iso = [n \in HostNodes |-> None] /\ fp = iso /\ remote = iso
    /\ cert \in {[id |-> i, ip |-> 1, expired |-> FALSE, next |-> 2] : i \in {0, 1}}
    /\ httpd = 0 /\ web = [f \in Ignition |-> 0]
    /\ conf \in {[s \in {"haproxy", "dnsmasq"} |->
                    IF s = "haproxy" THEN [NoConf EXCEPT !.disk = d] ELSE NoConf] : d \in {0, Own}}
    /\ resolver = [profile |-> "own", device |-> "own", found |-> "own"]
    /\ step = NoStep /\ troubles = 0 /\ edits = 0

HostStep == ArtifactStep \/ ServiceStep

Host == Setup \/ JoinWindow \/ FullCleanup \/ HostStep \/ ArtifactTrouble \/ CleanFails \/ Killed \/ Edit

BastionSpec == BastionInit /\ [][Host]_bastionVars /\ WF_bastionVars(HostStep)

-----------------------------------------------------------------------------
(* What the commands promise *)

Stamps == [net : Nat, cert : Nat, base : Nat]
BastionTypeOK ==
    /\ iso \in [HostNodes -> Stamps] /\ fp \in [HostNodes -> Stamps] /\ remote \in [HostNodes -> Stamps]
    /\ \A b \in Tools : tools.bins[b] \in Nat
    /\ httpd < cert.next /\ cert.id < cert.next
    /\ troubles \in 0..HostFaults /\ edits \in 0..Edits

Concludes(verb) == step.verb = verb /\ ~Running' /\ step'.was = verb /\ ~step'.failed

\* A setup that ends well serves, under the certificate the ISOs trust, the ignition
\* it generated, from the configuration of this run, with the tools of this version,
\* and when nothing was amiss the storage has these very ISOs: whatever earlier runs,
\* interrupted anywhere, left in the web root and on the disk.
SetupServes ==
    [][Concludes("setup") =>
          /\ dir.ignition = want.net /\ \A f \in Ignition : web[f] = dir.ignition
          /\ httpd = cert.id /\ cert.ip = want.ip
          /\ \A n \in HostNodes : iso[n] = [net |-> want.net, cert |-> httpd, base |-> want.version]
          /\ ~Faulted => remote = iso]_bastionVars

\* BuildCustomISOs skips by fingerprint: when it is through, every ISO is whole and
\* of the inputs of now, after builds cut short and fingerprints that were not written.
IsoCurrent ==
    [][At("build-isos") /\ step.todo # step'.todo /\ Running' /\ Head(step'.todo) = "upload-isos" =>
          \A n \in HostNodes :
             iso[n] = [net |-> want.net, cert |-> cert.id, base |-> tools.bins["openshift-install"]]]_bastionVars

\* cleanup says of the ignition certificate: setup regenerates the cert if missing,
\* so removal is safe between runs.  A setup that meets no trouble succeeds.
SetupRegenerates ==
    [][step.verb = "setup" /\ ~Running' /\ ~Faulted /\ troubles' = troubles => ~step'.failed]_bastionVars

=============================================================================
