-------------------------- MODULE BastionServices --------------------------
(***************************************************************************)
(* HAProxy, dnsmasq and the resolver of the bastion, as setup configures   *)
(* them with a way back, and the cleanup that removes them all.            *)
(***************************************************************************)
EXTENDS Bastion

Own == 100      \* a configuration that okdctl did not write
NoConf == [disk |-> 0, backup |-> 0, running |-> 0]

Serving(s, new) == conf' = [conf EXCEPT ![s] = new] /\ resolver' = resolver

-----------------------------------------------------------------------------
(* ConfigureHAProxy *)

\* The backup is the configuration okdctl found the first time, never a later one.
WriteHAProxy ==
    /\ At("write-haproxy") /\ Proceed /\ Quiet
    /\ LET h == conf["haproxy"] IN
       Serving("haproxy", [h EXCEPT !.disk = want.net, !.backup = IF @ = 0 THEN h.disk ELSE @])
    /\ UNCHANGED <<want, files, server, edits>>

\* Validation, enabling or the restart fails: the backup is put back and started.
RollBack(h, tripped, up) ==
    IF h.backup = 0
    THEN [h EXCEPT !.running = IF tripped THEN 0 ELSE @]
    ELSE [h EXCEPT !.disk = h.backup, !.running = IF up THEN h.backup ELSE 0]

StartHAProxy ==
    /\ At("start-haproxy")
    /\ LET h == conf["haproxy"] IN
       \/ Serving("haproxy", [h EXCEPT !.running = h.disk]) /\ Proceed /\ Quiet
       \/ /\ \E tripped, up \in BOOLEAN : Serving("haproxy", RollBack(h, tripped, up))
          /\ Fails /\ Trouble
    /\ UNCHANGED <<want, files, server, edits>>

-----------------------------------------------------------------------------
(* configureDNS: the resolver, then dnsmasq; the step is the last one and not fatal *)

GiveUpDNS == step' = [step EXCEPT !.todo = <<"done">>]

\* The profile is rewritten, then activated; when that fails it is put back.
OverrideResolver ==
    /\ At("override-resolver")
    /\ \/ resolver' = [resolver EXCEPT !.found = resolver.profile, !.profile = "local"] /\ Proceed /\ Quiet
       \/ resolver' = resolver /\ GiveUpDNS /\ Trouble
    /\ UNCHANGED <<want, files, server, conf, edits>>

ActivateResolver ==
    /\ At("activate-resolver")
    /\ \/ resolver' = [resolver EXCEPT !.device = resolver.profile] /\ Proceed /\ Quiet
       \/ resolver' = [resolver EXCEPT !.profile = resolver.found] /\ GiveUpDNS /\ Trouble
    /\ UNCHANGED <<want, files, server, conf, edits>>

\* writeDnsmasqConfig: what is there now becomes the backup.
BackedUp(d) == IF d.disk # 0 THEN d.disk ELSE d.backup
WriteDnsmasq ==
    /\ At("write-dnsmasq") /\ Quiet
    /\ LET d == conf["dnsmasq"] IN
       Serving("dnsmasq", [d EXCEPT !.disk = want.net, !.backup = BackedUp(d)])
    /\ step' = [step EXCEPT !.todo = Tail(@), !.found = conf["dnsmasq"].disk]
    /\ UNCHANGED <<want, files, server, edits>>

\* validateAndRestartDnsmasq: a rejected configuration makes way for the backup, or
\* for nothing; only a failed restart is followed by another one.
StartDnsmasq ==
    /\ At("start-dnsmasq")
    /\ LET d == conf["dnsmasq"] IN
       \/ /\ Serving("dnsmasq", [d EXCEPT !.running = d.disk, !.backup = 0])
          /\ Proceed /\ Quiet
       \/ /\ \E up \in {d.running, d.backup, 0} :
                Serving("dnsmasq", [d EXCEPT !.disk = d.backup, !.running = up])
          /\ GiveUpDNS /\ Trouble
    /\ UNCHANGED <<want, files, server, edits>>

-----------------------------------------------------------------------------
(* Cleanup: what cannot be removed is reported at the end or just logged *)

CleanHAProxy ==
    /\ At("clean-haproxy") /\ Proceed /\ Quiet
    /\ Serving("haproxy", IF conf["haproxy"].disk = 0 /\ conf["haproxy"].running = 0
                          THEN conf["haproxy"] ELSE NoConf)
    /\ UNCHANGED <<want, files, server, edits>>

\* The step is skipped when the cluster's configuration is not there, and the
\* resolver with it.
CleanDnsmasq ==
    /\ At("clean-dnsmasq") /\ Quiet
    /\ IF conf["dnsmasq"].disk = 0
       THEN step' = [step EXCEPT !.todo = SubSeq(@, 3, Len(@))] /\ UNCHANGED services
       ELSE /\ Proceed
            /\ resolver' = [resolver EXCEPT !.profile = "dhcp", !.device = "dhcp"]
            /\ conf' = [conf EXCEPT !["dnsmasq"].disk = 0, !["dnsmasq"].running = 0]
    /\ UNCHANGED <<want, files, server, edits>>

CleanBackups ==
    /\ At("clean-backups") /\ Proceed /\ Quiet
    /\ Serving("dnsmasq", [conf["dnsmasq"] EXCEPT !.backup = 0])
    /\ UNCHANGED <<want, files, server, edits>>

CleanServer ==
    /\ At("clean-web") \/ At("clean-apache") \/ At("clean-certs")
    /\ web' = IF At("clean-web") THEN [f \in Ignition |-> 0] ELSE web
    /\ httpd' = IF At("clean-apache") THEN 0 ELSE httpd
    /\ cert' = IF At("clean-certs") THEN [cert EXCEPT !.id = 0] ELSE cert
    /\ Proceed /\ Quiet
    /\ UNCHANGED <<want, files, services, edits>>

CleanFails ==
    /\ Running /\ Trouble
    /\ Head(step.todo) \in {"clean-web", "clean-haproxy", "clean-apache", "clean-dnsmasq",
                            "clean-backups", "clean-certs"}
    /\ step' = [step EXCEPT !.todo = Tail(@), !.failed = @ \/ At("clean-certs")]
    /\ UNCHANGED <<want, files, server, services, edits>>

Done ==
    /\ At("done") /\ Ended(~step.failed) /\ Quiet
    /\ UNCHANGED <<want, files, server, services, edits>>

ServiceStep ==
    \/ WriteHAProxy \/ StartHAProxy \/ OverrideResolver \/ ActivateResolver
    \/ WriteDnsmasq \/ StartDnsmasq
    \/ CleanHAProxy \/ CleanDnsmasq \/ CleanBackups \/ CleanServer \/ Done

=============================================================================
