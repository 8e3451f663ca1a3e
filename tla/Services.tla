------------------------------ MODULE Services ------------------------------
(***************************************************************************)
(* The bastion, its downloads, the addons, the ingress conversion, the     *)
(* install monitor, the ISOs on the Proxmox host and the configuration     *)
(* under one roof.  okdctl runs one command at a time on a project, and    *)
(* these share no state that any of them decides on, so a behaviour lets   *)
(* one of them work and leaves the others as they are.                     *)
(***************************************************************************)
EXTENDS Addons, UpdateIngress, InstallMonitor, HostSetup, Downloads, HostISOs, Configure

VARIABLE focus   \* the part that works

serviceVars == <<focus, addonVars, ingressVars, monitorVars, bastionVars, downloadVars, isoVars, configureVars>>

AddonsRest ==
    /\ AddonsInit /\ enabled = {} /\ credentialFiles = {}
    /\ \A a \in Registry : ns[a] = "absent" /\ deps[a] = {}
IngressRest ==
    /\ IngressInit /\ metallb /\ dnsmasq.api = "vip"
    /\ \A c \in Controllers : ics[c] = "lb"
BastionRest == BastionInit /\ tools.mark = 0 /\ cert.id = 0 /\ conf["haproxy"].disk = 0
DownloadsRest == DownloadInit /\ extra["yq"] = Absent
EraseRest == EraseInit /\ on = {}
ConfigureRest == ConfigureInit /\ file = <<>>

ServicesInit ==
    /\ focus \in {"addons", "ingress", "monitor", "bastion", "downloads", "isos", "configure"}
    /\ MonitorInit
    /\ IF focus = "addons" THEN AddonsInit ELSE AddonsRest
    /\ IF focus = "ingress" THEN IngressInit ELSE IngressRest
    /\ IF focus = "bastion" THEN BastionInit ELSE BastionRest
    /\ IF focus = "downloads" THEN DownloadInit ELSE DownloadsRest
    /\ IF focus = "isos" THEN EraseInit ELSE EraseRest
    /\ IF focus = "configure" THEN ConfigureInit ELSE ConfigureRest

\* One part works, the others stay as they are.
Only(part) ==
    /\ focus = part /\ UNCHANGED focus
    /\ IF part = "addons" THEN TRUE ELSE UNCHANGED addonVars
    /\ IF part = "ingress" THEN TRUE ELSE UNCHANGED ingressVars
    /\ IF part = "monitor" THEN TRUE ELSE UNCHANGED monitorVars
    /\ IF part = "bastion" THEN TRUE ELSE UNCHANGED bastionVars
    /\ IF part = "downloads" THEN TRUE ELSE UNCHANGED downloadVars
    /\ IF part = "isos" THEN TRUE ELSE UNCHANGED isoVars
    /\ IF part = "configure" THEN TRUE ELSE UNCHANGED configureVars

ServicesNext ==
    \/ Only("addons") /\ AddonsNext
    \/ Only("ingress") /\ Ingress
    \/ Only("monitor") /\ Monitor
    \/ Only("bastion") /\ Host
    \/ Only("downloads") /\ DownloadNext
    \/ Only("isos") /\ EraseNext
    \/ Only("configure") /\ ConfigureNext

\* The fairness of the part that works.
OwnSteps ==
    \/ Only("addons") /\ AddonStep
    \/ Only("ingress") /\ IngressStep
    \/ Only("monitor") /\ MonitorStep
    \/ Only("bastion") /\ HostStep
    \/ Only("downloads") /\ LoadStep
    \/ Only("isos") /\ EraseStep
    \/ Only("configure") /\ Replies

\* What goes on around the monitor, and in the cluster while the ingress moves.
Around(A) == Only("monitor") /\ A
Goes(c) == Only("ingress") /\ Terminated(c)

ServicesSpec ==
    /\ ServicesInit /\ [][ServicesNext]_serviceVars
    /\ WF_serviceVars(OwnSteps)
    /\ SF_serviceVars(Around(InstallDone))
    /\ WF_serviceVars(Around(InstallerEnds)) /\ WF_serviceVars(Around(InstallerDies))
    /\ \A n \in Expected : WF_serviceVars(Around(NodeAsks(n)))
    /\ \A c \in Controllers : WF_serviceVars(Goes(c))

-----------------------------------------------------------------------------
\* Each part stays within its types and the others do not move.
ServicesTypeOK ==
    /\ AddonsTypeOK /\ IngressTypeOK /\ MonitorTypeOK /\ BastionTypeOK /\ DownloadTypeOK
    /\ ConfigureTypeOK /\ EraseTypeOK
    /\ focus # "monitor" => MonitorInit
    /\ focus # "configure" => ConfigureRest

\* Nothing is deleted that is not the cluster's own: no namespace without okdctl's label, and
\* of the ISOs none with a name of its own or in the drive of a VM that keeps running.
ForeignKept == [][SparesForeign /\ SparesISOsInUse]_serviceVars

\* Every command that was begun ends: an install with its compensation, a conversion with its
\* rollback, a setup, a join window or a cleanup, whatever is downloaded for them, and the
\* removal of the ISOs.  A screen
\* that waits for a discovery or a catalog gets one or is left, also when it was left and
\* entered again while the first was under way.
Busy == Working \/ Updating \/ Running \/ Loading \/ Erasing \/ Waiting
ServiceCommandsEnd == Busy ~> ~Busy

\* The installer waits for the nodes, the nodes for the approver and the approver for
\* the installer's word: the loop ends, and with success when nothing failed.
MonitorConcludes == focus = "monitor" => <>MonitorSettled

=============================================================================
