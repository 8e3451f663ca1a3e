---------------------------- MODULE ConfigRules ----------------------------
(***************************************************************************)
(* A configuration and what okdctl requires of one.  A configuration is a  *)
(* flat record.  A text is "" (left out), "bad" (malformed), "gone" (well  *)
(* formed, but naming a file or directory that is not there) or any other  *)
(* value; an address is a positive number, 0 when left out and Malformed   *)
(* when it does not parse (InsecureHost: an http:// endpoint without the   *)
(* opt-in); a range of addresses is its first and its last.  px says that  *)
(* there is a provider.proxmox block at all, and the netmask is recorded   *)
(* as the range it was derived from; switches that nothing here looks at   *)
(* (NUMA, HA, TLS, automatic approval) are left out.  A validator is the   *)
(* set of the fields it reports.                                           *)
(***************************************************************************)
EXTENDS Integers, Sequences

Malformed == -1
InsecureHost == -2
NoRange == <<0, 0>>
BadRange == <<-1, -1>>

IsValidIP(a) == a > 0
IsValidCIDR(r) == r[1] > 0
CIDRsOverlap(r, s) == r[1] <= s[2] /\ s[1] <= r[2]
IPInCIDR(a, r) == a \in r[1]..r[2]
WellFormed(text) == text # "bad"
Given(text) == text # ""

\* The fields of the checks that fail; a check is a condition that is wrong and a field.
Failing(checks) == {k[2] : k \in {x \in checks : x[1]}}

DefaultOSDiskGB == 50
DefaultVMIDBase == 6000
defaultTerraformEnv == "production"

cpuBounds == 1..128
memoryBounds == 1024..1048576
osDiskBounds == 20..1000
dataDiskBounds == 0..5000
nodeCountBounds == 0..100
timeoutBounds == 60..86400
vmidCeiling == 999999999
vmidBounds == 100..vmidCeiling

DefaultConfig ==
    [name |-> "mycluster", domain |-> "k8s.local", dist |-> "okd", version |-> "4.22",
     provider |-> "proxmox", px |-> TRUE, host |-> 100, node |-> "pve", storage |-> "local-lvm",
     data_storage |-> "local-lvm", iso_storage |-> "local", bridge |-> "vmbr0", cpu_type |-> "host",
     fingerprint |-> "", master |-> <<>>, worker |-> <<>>, networks |-> {}, username |-> "",
     password |-> "", masters |-> 3, workers |-> 3, cp_cpu |-> 4, cp_mem |-> 12288, cp_disk |-> 50,
     w_cpu |-> 8, w_mem |-> 20480, w_disk |-> 50, boot_count |-> 1, boot_cpu |-> 4, boot_mem |-> 8192,
     boot_disk |-> 50, vmid |-> DefaultVMIDBase, machine |-> <<1, 254>>, pod |-> <<1000, 1999>>,
     service |-> <<2000, 2999>>, gateway |-> 1, dns |-> {1}, start |-> 140, netmask |-> <<1, 254>>,
     iface |-> "ens18", static_dns |-> 20, bastion |-> 20, vip |-> 0, ntp |-> "",
     flux |-> FALSE, repository |-> "", secretstore |-> FALSE, ss_provider |-> "onepassword",
     vault_server |-> "", org_id |-> "", project_id |-> "", pull |-> "", key |-> "",
     web_root |-> "/var/www/html", ignition |-> 20, env |-> defaultTerraformEnv,
     bootstrap_timeout |-> 3600, install_timeout |-> 7200, bin_dir |-> "", w_data |-> 500, cp_data |-> 0]

MinimalConfig ==
    [DefaultConfig EXCEPT !.name = "minimal", !.masters = 1, !.cp_mem = 8192, !.workers = 0,
        !.w_cpu = 0, !.w_mem = 0, !.w_disk = 0, !.boot_count = 0, !.boot_cpu = 0, !.boot_mem = 0,
        !.boot_disk = 0]

-----------------------------------------------------------------------------
(* What is filled in before a configuration is looked at, and never saved. *)

Or(v, default) == IF v = 0 THEN default ELSE v
OrText(text, default) == IF text = "" THEN default ELSE text

NormalizeTopology(c) ==
    LET disk == Or(c.cp_disk, DefaultOSDiskGB) IN
    [c EXCEPT !.cp_disk = disk, !.w_disk = Or(@, disk), !.boot_count = Or(@, 1),
        !.boot_cpu = Or(@, c.cp_cpu), !.boot_mem = Or(@, c.cp_mem), !.boot_disk = Or(@, disk)]

DeriveStaticNetmask(c) == IF IsValidCIDR(c.machine) THEN [c EXCEPT !.netmask = c.machine] ELSE c

Effective(c) == DeriveStaticNetmask(NormalizeTopology(c))

\* The credentials are not written, and what is zero is left out of the file.
Saved(c) == [c EXCEPT !.username = "", !.password = ""]

LoadFile(saved) ==
    DeriveStaticNetmask([saved EXCEPT !.vmid = Or(@, DefaultConfig.vmid),
        !.bootstrap_timeout = Or(@, DefaultConfig.bootstrap_timeout),
        !.install_timeout = Or(@, DefaultConfig.install_timeout)])

-----------------------------------------------------------------------------
(* The validators, one per function of the source. *)

validateRequired(c) ==
    {f \in {"name", "domain", "dist", "version", "provider"} : ~Given(c[f])}
    \cup {f \in {"machine", "pod", "service"} : c[f] = NoRange}
    \cup Failing({<<c.masters < 1, "masters">>, <<c.gateway = 0, "gateway">>, <<c.dns = {}, "dns">>})

validateEnums(c) ==
    {f \in {"name", "domain", "env"} : ~WellFormed(c[f])}
    \cup Failing({<<c.dist \notin {"", "okd"}, "dist">>, <<c.provider \notin {"", "proxmox"}, "provider">>})

validateTerraformEnvDir(c) == Failing({<<c.env = "gone", "env">>})

checkCIDROverlap(c, f, g) ==
    Failing({<<IsValidCIDR(c[f]) /\ IsValidCIDR(c[g]) /\ CIDRsOverlap(c[f], c[g]), f>>})

checkIPInCIDR(c, f) ==
    Failing({<<IsValidIP(c[f]) /\ IsValidCIDR(c.machine) /\ ~IPInCIDR(c[f], c.machine), f>>})

validateNetworking(c) ==
    {f \in {"machine", "pod", "service"} : c[f] # NoRange /\ ~IsValidCIDR(c[f])}
    \cup {f \in {"gateway", "bastion", "static_dns"} : c[f] # 0 /\ ~IsValidIP(c[f])}
    \cup Failing({<<\E a \in c.dns : ~IsValidIP(a), "dns">>, <<~WellFormed(c.ntp), "ntp">>})
    \cup checkCIDROverlap(c, "pod", "service") \cup checkCIDROverlap(c, "pod", "machine")
    \cup checkCIDROverlap(c, "service", "machine")

\* The netmask has to be that of the machine range, in either notation.
netmaskMatches(c) == c.netmask = c.machine

\* Nothing else is compared while the machine range is missing or malformed.
validateAdvancedNetworking(c) ==
    {f \in {"bastion", "start"} : c[f] # 0 /\ ~IsValidIP(c[f])}
    \cup IF ~IsValidCIDR(c.machine) THEN {} ELSE
         (UNION {checkIPInCIDR(c, f) : f \in {"gateway", "bastion", "start", "vip"}})
         \cup Failing({<<c.vip # 0 /\ (~IsValidIP(c.vip) \/ c.vip \in {c.gateway, c.bastion}), "vip">>,
                 <<c.start # 0 /\ ~netmaskMatches(c), "netmask">>,
                 <<c.start # 0 /\ (~Given(c.iface) \/ ~WellFormed(c.iface)), "iface">>,
                 <<c.bastion # 0 /\ c.static_dns \notin {0, c.bastion}, "static_dns">>,
                 <<c.bastion # 0 /\ c.ignition \notin {0, c.bastion}, "ignition">>,
                 <<IsValidIP(c.bastion) /\ c.bastion = c.gateway, "bastion">>})

\* The address of the Proxmox endpoint, 0 when there is none to compare with.
proxmoxHostAddr(c) == IF c.px /\ IsValidIP(c.host) THEN c.host ELSE 0

validateStaticIPCollisions(c) ==
    Failing({<<IsValidIP(c.start) /\ c.start \in {proxmoxHostAddr(c), c.ignition}, "start">>})

\* The fields of one role's size that are below a floor, or above a bound.
checkNodeResources(c, cpu, cpuMin, mem, memMin, disk, diskMin) ==
    Failing({<<c[cpu] < cpuMin, cpu>>, <<c[mem] < memMin, mem>>, <<c[disk] < diskMin, disk>>})

checkNodeResourceCaps(c, cpu, mem, disk) ==
    Failing({<<c[cpu] > 128, cpu>>, <<c[mem] > 1048576, mem>>, <<c[disk] > 1000, disk>>})

getMinMemoryForDistribution(dist) == IF dist = "okd" THEN 8192 ELSE 2048

validateBootstrap(c) ==
    Failing({<<c.boot_count \notin {0, 1}, "boot_count">>,
             <<c.boot_disk \notin {0, Or(c.cp_disk, DefaultOSDiskGB)}, "boot_disk">>})

validateResources(c) ==
    checkNodeResources(c, "cp_cpu", 1, "cp_mem", getMinMemoryForDistribution(c.dist), "cp_disk", 20)
    \cup checkNodeResourceCaps(c, "cp_cpu", "cp_mem", "cp_disk")
    \cup (IF c.workers <= 0 THEN {} ELSE
          checkNodeResources(c, "w_cpu", 1, "w_mem", 1024, "w_disk", 20)
          \cup checkNodeResourceCaps(c, "w_cpu", "w_mem", "w_disk"))
    \cup {f \in {"masters", "workers"} : c[f] \notin nodeCountBounds}
    \cup {f \in {"w_data", "cp_data"} : c[f] \notin dataDiskBounds}
    \cup validateBootstrap(c)

ValidateBinDir(dir) == WellFormed(dir)

validateDeployment(c) ==
    {f \in {"bootstrap_timeout", "install_timeout"} : c[f] # 0 /\ c[f] \notin timeoutBounds}
    \cup Failing({<<~ValidateBinDir(c.bin_dir), "bin_dir">>})

\* What is above the base is counted in nodes.
validateVMIDBase(c) ==
    Failing({<<c.vmid \notin vmidBounds \/ c.vmid > vmidCeiling - (1 + c.masters + c.workers), "vmid">>})

validatePlacementCounts(c) ==
    IF ~c.px THEN {} ELSE
    Failing({<<Len(c.master) > c.masters, "master">>, <<Len(c.worker) > c.workers, "worker">>})

validateAdditionalNetworks(networks) ==
    UNION {Failing({<<~Given(n.bridge) \/ ~WellFormed(n.bridge), "networks.bridge">>,
                    <<n.model \notin {"", "virtio", "e1000", "rtl8139", "vmxnet3"}, "networks.model">>,
                    <<n.vlan \notin 0..4094, "networks.vlan">>}) : n \in networks}

ValidateProxmoxHost(host) == IsValidIP(host)

ValidateSSHFingerprint(pin) == WellFormed(pin)

validateProxmoxConfig(c) ==
    IF ~c.px THEN {"px"} ELSE
    {f \in {"node", "storage"} : ~Given(c[f])}
    \cup {f \in {"node", "storage", "iso_storage", "data_storage", "bridge", "cpu_type"} : ~WellFormed(c[f])}
    \cup {f \in {"master", "worker"} : \E i \in DOMAIN c[f] : ~WellFormed(c[f][i])}
    \cup Failing({<<~ValidateProxmoxHost(c.host), "host">>,
                  <<~ValidateSSHFingerprint(c.fingerprint), "fingerprint">>})
    \cup validateAdditionalNetworks(c.networks)

validateProviderAlone(c) ==
    IF c.provider # "proxmox" THEN {} ELSE validateProxmoxConfig(c) \cup validateVMIDBase(c)

validateProvider(c) ==
    IF c.provider # "proxmox" THEN {}
    ELSE validateProxmoxConfig(c) \cup validatePlacementCounts(c) \cup validateVMIDBase(c)

validateHTTPServer(c) ==
    Failing({<<c.ignition # 0 /\ ~IsValidIP(c.ignition), "ignition">>, <<~WellFormed(c.web_root), "web_root">>})

validateOKDVersion(version) == Given(version) /\ WellFormed(version)

validateHAMasters(count) == ~(count > 1 /\ count % 2 = 0)

ValidateOKDConfig(c) ==
    IF c.dist # "okd" THEN {} ELSE
    checkNodeResources(c, "cp_cpu", 4, "cp_mem", 8192, "cp_disk", 50)
    \cup (IF c.workers <= 0 THEN {} ELSE checkNodeResources(c, "w_cpu", 2, "w_mem", 8192, "w_disk", 50))
    \cup Failing({<<~validateOKDVersion(c.version), "version">>, <<~validateHAMasters(c.masters), "masters">>})

validateFiles(c) == {f \in {"pull", "key"} : c[f] = "gone"}

\* The Proxmox nodes a role can land on: those assigned, and the default one.
placementCandidateNodes(c) ==
    IF ~c.px THEN {} ELSE
    ({c.node} \cup {c.master[i] : i \in 1..Len(c.master) \cap 1..c.masters}
     \cup {c.worker[i] : i \in 1..Len(c.worker) \cap 1..c.workers}) \ {""}

\* inventory: the nodes that were discovered without something the configuration names.
validatePlacementInventory(c, lacking) ==
    Failing({<<placementCandidateNodes(c) \cap lacking # {}, "inventory">>})

ValidateWithOptions(c, scopes, lacking) ==
    LET e == Effective(c)
        In(scope, errors) == IF scope \in scopes THEN errors ELSE {}
    IN  In("required", validateRequired(e))
        \cup In("enums", validateEnums(e) \cup validateTerraformEnvDir(e))
        \cup In("networking", validateNetworking(e))
        \cup In("advanced", validateAdvancedNetworking(e) \cup validateStaticIPCollisions(e))
        \cup In("resources", validateResources(e))
        \cup In("provider", validateProvider(e) \cup validatePlacementInventory(e, lacking))
        \cup In("http", validateHTTPServer(e))
        \cup In("distribution", ValidateOKDConfig(e))
        \cup In("files", validateFiles(e))
        \cup In("deployment", validateDeployment(e))

\* What a deploy asks of a configuration before it touches anything.
deployGateScope == {"required", "enums", "networking", "advanced", "provider", "http"}
Admitted(c) == ValidateWithOptions(c, deployGateScope, {}) = {}

\* The Proxmox node of VM i of a role; the bootstrap is on the default one.
ProxmoxNode(c, role, i) ==
    IF ~c.px THEN ""
    ELSE IF role # "bootstrap" /\ i <= Len(c[role]) /\ Given(c[role][i]) THEN c[role][i] ELSE c.node

\* The name server the nodes boot with.
ExtractNetworkConfig(c) == Or(c.static_dns, c.bastion)

=============================================================================
