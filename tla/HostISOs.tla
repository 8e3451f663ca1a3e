------------------------------ MODULE HostISOs ------------------------------
(***************************************************************************)
(* What "okdctl destroy" removes from the ISO directory of the Proxmox     *)
(* host, over ssh: the CoreOS images it finds there and the images of its  *)
(* own nodes, by their names alone, for other clusters use the same names. *)
(* An ISO is its kind and its number.  Each one is checked against the     *)
(* running VMs of the node, whose list and configurations are read one by  *)
(* one while VMs are started and stopped.                                  *)
(***************************************************************************)
EXTENDS ClusterPlan, SequencesExt

CONSTANTS
    Machines,     \* the VMs of the node, each with the ISO in its drive
    ISOConfig,    \* the counts of the configuration that is destroyed
    MaxTurns      \* bound: how often a VM is started or stopped

ASSUME MachinesAssumption ==
    IsFiniteSet(DOMAIN Machines) /\ ISOConfig.masters \in Nat /\ ISOConfig.workers \in Nat /\ MaxTurns \in Nat

VARIABLES
    isos,      \* the ISOs in the directory
    on,        \* the VMs that run
    erase,     \* the step: its phase, the ISOs it still looks at, base or its own, the VMs
               \* whose configuration it still reads, and those that ran all along
    turns

isoVars == <<isos, on, erase, turns>>

CoreOSISONamePatterns == {"fedora-coreos", "scos"}
IsCoreOSISOName(iso) == iso[1] \in CoreOSISONamePatterns

customISONames(c) == <<<<"bootstrap", 1>>>> \o ISOs("master", c.masters) \o ISOs("worker", c.workers)

ReferencesBaseOnly(vm, iso) ==               \* (mutant) drives with images of nodes are passed over
    IsCoreOSISOName(iso) /\ Machines[vm] = iso
vmDevicesReferenceISO(vm, iso) == Machines[vm] = iso

NoErase == [phase |-> "idle", todo |-> <<>>, base |-> FALSE, ask |-> {}, steady |-> {}]

EraseInit ==
    /\ isos = {Machines[vm] : vm \in DOMAIN Machines} \cup ToSet(customISONames(ISOConfig))
    /\ on \in SUBSET DOMAIN Machines /\ erase = NoErase /\ turns = MaxTurns

EraseTypeOK ==
    /\ erase.phase \in {"idle", "verify", "find", "next", "list", "read", "remove"}
    /\ erase.ask \cup erase.steady \subseteq DOMAIN Machines
    /\ turns \in 0..MaxTurns

-----------------------------------------------------------------------------
Erases(p) == erase.phase = p
EraseTo(p) == erase' = [erase EXCEPT !.phase = p]
Rest(vars) == UNCHANGED <<vars, turns>>

\* After a terraform that failed the step is skipped; one that was skipped leaves it.
RemoveRemoteISO == Erases("idle") /\ EraseTo("verify") /\ Rest(<<isos, on>>)

\* The host's key has to be the pinned one.
VerifyHost == Erases("verify") /\ (EraseTo("find") \/ erase' = NoErase) /\ Rest(<<isos, on>>)

\* A listing that fails, or comes cut off, ends the step; one that finds nothing because the
\* remote find fails is as good as an empty one.
FindBaseISOs ==
    /\ Erases("find") /\ Rest(<<isos, on>>)
    /\ \/ \E found \in {{}, {iso \in isos : IsCoreOSISOName(iso)}} :
             erase' = [erase EXCEPT !.phase = "next", !.base = TRUE, !.todo = SetToSeq(found)]
       \/ erase' = NoErase

\* The ISOs of the nodes follow the base ones.
NextISO ==
    /\ Erases("next") /\ Rest(<<isos, on>>)
    /\ IF erase.todo # <<>> THEN EraseTo("list")
       ELSE IF erase.base
       THEN erase' = [erase EXCEPT !.base = FALSE, !.todo = customISONames(ISOConfig)]
       ELSE erase' = NoErase

SkipISO == erase' = [erase EXCEPT !.phase = "next", !.todo = Tail(@), !.ask = {}, !.steady = {}]

\* Only VMs that run are asked about; an answer that cannot be had or read keeps the ISO.
anyVMReferencesISO ==
    /\ Erases("list") /\ Rest(<<isos, on>>)
    /\ \/ erase' = [erase EXCEPT !.phase = IF on = {} THEN "remove" ELSE "read", !.ask = on, !.steady = on]
       \/ SkipISO

vmConfigReferencesISO(vm) ==
    /\ Erases("read") /\ vm \in erase.ask /\ Rest(<<isos, on>>)
    /\ \/ /\ ~vmDevicesReferenceISO(vm, Head(erase.todo))
          /\ erase' = [erase EXCEPT !.phase = IF erase.ask = {vm} THEN "remove" ELSE "read", !.ask = @ \ {vm}]
       \/ SkipISO

\* What rm answers is not looked at.
RemoveISO ==
    /\ Erases("remove") /\ SkipISO /\ isos' \in {isos, isos \ {Head(erase.todo)}} /\ Rest(on)

EraseKilled == ~Erases("idle") /\ erase' = NoErase /\ Rest(<<isos, on>>)

\* A VM does not start without the ISO in its drive.
StartVM(vm) ==
    /\ vm \notin on /\ Machines[vm] \in isos /\ turns > 0
    /\ on' = on \cup {vm} /\ turns' = turns - 1 /\ UNCHANGED <<isos, erase>>
StopVM(vm) ==
    /\ vm \in on /\ turns > 0
    /\ on' = on \ {vm} /\ erase' = [erase EXCEPT !.steady = @ \ {vm}]
    /\ turns' = turns - 1 /\ UNCHANGED isos

EraseStep ==
    \/ VerifyHost \/ FindBaseISOs \/ NextISO \/ anyVMReferencesISO
    \/ \E vm \in DOMAIN Machines : vmConfigReferencesISO(vm)
    \/ RemoveISO

EraseNext ==
    \/ RemoveRemoteISO \/ EraseStep \/ EraseKilled
    \/ \E vm \in DOMAIN Machines : StartVM(vm) \/ StopVM(vm)

-----------------------------------------------------------------------------
\* Only CoreOS images and the images of the cluster's own nodes are removed, and none that a
\* VM, of whatever cluster, has in its drive and ran with since before the image was looked at.
SparesISOsInUse ==
    \A iso \in isos \ isos' :
        /\ IsCoreOSISOName(iso) \/ iso \in ToSet(customISONames(ISOConfig))
        /\ \A vm \in erase.steady : Machines[vm] # iso

Erasing == ~Erases("idle")

=============================================================================
