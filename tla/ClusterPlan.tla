---------------------------- MODULE ClusterPlan ----------------------------
(***************************************************************************)
(* The machines a configuration stands for: their addresses, VM ids and    *)
(* Proxmox nodes as okdctl computes them, and the variables it renders for *)
(* the Terraform module, which computes them once more.  VMs of a role are *)
(* numbered from 1.                                                        *)
(***************************************************************************)
EXTENDS ConfigRules, FiniteSets

Roles == {"master", "worker"}
CountOf(c, role) == IF role = "master" THEN c.masters ELSE c.workers

LastAddress == 1000000   \* the last IPv4 address there is

CalculateVMIP(start, i) == IF start + i > LastAddress THEN Malformed ELSE start + i

ValidateIPRangeInCIDR(start, count, range) ==
    /\ count > 0 /\ IsValidCIDR(range) /\ IsValidIP(start)
    /\ IPInCIDR(start, range) /\ IPInCIDR(CalculateVMIP(start, count - 1), range)

MachineCount(c) == 1 + c.masters + c.workers

countInRange(n) == n \in nodeCountBounds

\* Whether the machines can be listed at all.
CanListNodes(c) ==
    /\ countInRange(c.masters) /\ countInRange(c.workers)
    /\ c.machine # NoRange => ValidateIPRangeInCIDR(c.start, MachineCount(c), c.machine)

\* The bootstrap, the masters and the workers, at addresses in a row.
ClusterNodes(c) ==
    [i \in 1..MachineCount(c) |->
        IF i = 1 THEN [role |-> "bootstrap", index |-> 1, ip |-> c.start]
        ELSE IF i - 1 <= c.masters
             THEN [role |-> "master", index |-> i - 1, ip |-> CalculateVMIP(c.start, i - 1)]
        ELSE [role |-> "worker", index |-> i - 1 - c.masters, ip |-> CalculateVMIP(c.start, i - 1)]]

VMID(c, role, i) ==
    LET base == Or(c.vmid, DefaultVMIDBase)
    IN  CASE role = "master" -> base + 9 + i
          [] role = "worker" -> base + 99 + i
          [] OTHER -> base

\* The Proxmox nodes the machines land on.
placementNodes(c) ==
    {c.node} \cup {ProxmoxNode(c, "master", i) : i \in 1..c.masters}
             \cup {ProxmoxNode(c, "worker", i) : i \in 1..c.workers}

\* Across hosts the ISO storage has to be a shared one, active on each of them.
ValidateISOPlacement(c, shared, active) ==
    c.px /\ Cardinality(placementNodes(c)) > 1 => shared /\ placementNodes(c) \subseteq active

-----------------------------------------------------------------------------
(* The Terraform variables, and the module that takes them. *)

formatAdditionalNetworks(networks) ==
    {[model |-> OrText(n.model, "virtio"), bridge |-> n.bridge, tag |-> n.vlan] : n \in networks}

ISOs(role, count) == [i \in 1..count |-> <<role, i>>]

buildTerraformVarsData(c) ==
    LET e == NormalizeTopology(c) IN
    [cluster_name |-> c.name, target_node |-> c.node, bridge |-> c.bridge, os_storage |-> c.storage,
     data_storage |-> c.data_storage, iso_storage |-> c.iso_storage, vmid_base |-> c.vmid,
     master_count |-> c.masters, worker_count |-> c.workers,
     os_disk |-> e.cp_disk, master_os_disk |-> e.cp_disk, worker_os_disk |-> e.w_disk,
     worker_data_disk |-> c.w_data, master_data_disk |-> c.cp_data,
     bootstrap_cpu |-> e.boot_cpu, bootstrap_memory |-> e.boot_mem, master_cpu |-> c.cp_cpu,
     master_memory |-> c.cp_mem, worker_cpu |-> c.w_cpu, worker_memory |-> c.w_mem,
     master_isos |-> ISOs("master", c.masters), worker_isos |-> ISOs("worker", c.workers),
     cpu_type |-> OrText(c.cpu_type, "host"), networks |-> formatAdditionalNetworks(c.networks),
     master_targets |-> c.master, worker_targets |-> c.worker]

\* What the module's variables validate; a wrong one stops terraform before it plans.
moduleVmidBounds == 100..9000
ModuleAccepts(v) ==
    /\ v.vmid_base \in moduleVmidBounds
    /\ v.master_count \in {1, 3, 5} /\ v.worker_count \in 0..20
    /\ Len(v.master_isos) >= 1 /\ Len(v.worker_isos) >= v.worker_count
    /\ {v.os_disk, v.master_os_disk, v.worker_os_disk} \subseteq osDiskBounds
    /\ \A n \in v.networks : n.tag \in 0..4094

\* The VMs of a role as the module numbers and places them.
ModuleVM(v, role, i) ==
    LET targets == IF role = "master" THEN v.master_targets ELSE v.worker_targets
    IN  CASE role = "bootstrap" -> [id |-> v.vmid_base, node |-> v.target_node]
          [] OTHER -> [id |-> v.vmid_base + i - 1 + (IF role = "master" THEN 10 ELSE 100),
                       node |-> IF i <= Len(targets) THEN targets[i] ELSE v.target_node]

\* What "okdctl node list" reads back to tell what the configuration has drifted from.
ReadTerraformVarsSizing(v) ==
    [master |-> <<v.master_cpu, v.master_memory, v.master_os_disk>>,
     worker |-> <<v.worker_cpu, v.worker_memory, v.worker_os_disk>>]

\* Sizes are compared as they are written in the configuration.
roleSizingDrift(c, role, sizing) ==
    LET want == IF role = "master" THEN <<c.cp_cpu, c.cp_mem, c.cp_disk>> ELSE <<c.w_cpu, c.w_mem, c.w_disk>>
    IN  IF want = sizing[role] THEN "none" ELSE "pending"

=============================================================================
