-------------------------- MODULE Services_proofs --------------------------
(***************************************************************************)
(* Proofs about the parts of Services, for every value of their constants. *)
(***************************************************************************)
EXTENDS Services, UpdateIngress_proofs, Addons_proofs, Downloads_proofs

-----------------------------------------------------------------------------
(* A behaviour of all of them is a behaviour of each *)

LEMMA EachPart ==
    ASSUME [ServicesNext]_serviceVars
    PROVE  /\ [AddonsNext]_addonVars /\ [Ingress]_ingressVars /\ [Monitor]_monitorVars
           /\ [Host]_bastionVars /\ [DownloadNext]_downloadVars /\ [EraseNext]_isoVars
           /\ [ConfigureNext]_configureVars
<1>1. CASE UNCHANGED serviceVars
  BY <1>1 DEF serviceVars
<1>2. CASE Only("addons") /\ AddonsNext
  BY <1>2 DEF Only
<1>3. CASE Only("ingress") /\ Ingress
  BY <1>3 DEF Only
<1>4. CASE Only("monitor") /\ Monitor
  BY <1>4 DEF Only
<1>5. CASE Only("bastion") /\ Host
  BY <1>5 DEF Only
<1>6. CASE Only("downloads") /\ DownloadNext
  BY <1>6 DEF Only
<1>7. CASE Only("isos") /\ EraseNext
  BY <1>7 DEF Only
<1>8. CASE Only("configure") /\ ConfigureNext
  BY <1>8 DEF Only
<1> QED
  BY <1>1, <1>2, <1>3, <1>4, <1>5, <1>6, <1>7, <1>8 DEF ServicesNext

LEMMA PartsBegin ==
    ASSUME ServicesInit
    PROVE  /\ AddonsInit /\ IngressInit /\ MonitorInit /\ BastionInit /\ DownloadInit
           /\ EraseInit /\ ConfigureInit
BY DEF ServicesInit, AddonsRest, IngressRest, BastionRest, DownloadsRest, EraseRest, ConfigureRest

-----------------------------------------------------------------------------
(* The approver *)

\* What the policy lets through is a node's own, and stays what it was found to be
\* while the list is worked off: the approval answers the request that was looked at.
LEMMA PolicyIsStrict ==
    ASSUME NEW csr, ValidateCSR(csr, ExpectedCSRIdentities("any"))
    PROVE  /\ csr.name \in Expected /\ csr.sans \subseteq {csr.name} /\ csr.by # "other"
           /\ csr.signer = "serving" => csr.by = "self"
BY DEF ValidateCSR, ExpectedCSRIdentities, ValidateServingSANs

LEMMA GrantsExpected == ASSUME OnlyExpected, [Monitor]_monitorVars PROVE OnlyExpected'
<1>1. CASE \E p \in monitor.list : ApproveCSR(p)
  <2>1. PICK p \in monitor.list : ApproveCSR(p)
    BY <1>1
  <2>2. \A csr \in granted' \ granted : csr = p.csr /\ ValidateCSR(csr, ExpectedCSRIdentities("any"))
    BY <2>1 DEF ApproveCSR
  <2> QED
    BY <2>2, PolicyIsStrict DEF OnlyExpected
<1>2. CASE granted' = granted
  BY <1>2 DEF OnlyExpected
<1> QED
  BY <1>1, <1>2 DEF Monitor, MonitorStep, monitorVars, NodeAsks, StrangerAsks, Replaced, InstallerEnds,
     InstallerDies, PendingCSRs, Approved, InstallDone, ContextEnds, CtxDone, ReapInstall

\* Whoever files what while the list is worked off, and whatever is replaced under it:
\* no certificate is granted but to a node of the operation, in its own name and for
\* itself alone (approveFilteredCSRs, ValidateCSR).
THEOREM NobodyElseJoins == ServicesSpec => []OnlyExpected
<1>1. ServicesInit => OnlyExpected
  BY PartsBegin DEF MonitorInit, OnlyExpected
<1>2. OnlyExpected /\ [ServicesNext]_serviceVars => OnlyExpected'
  BY EachPart, GrantsExpected
<1> QED
  BY <1>1, <1>2, PTL DEF ServicesSpec

\* The conversion loses no controller but one whose deletion a later run overtook, as one
\* part of the whole.
THEOREM ServicesLoseNoController == ServicesSpec => []Recoverable
<1>1. ServicesInit => IngressInit
  BY PartsBegin
<1>2. [ServicesNext]_serviceVars => [Ingress]_ingressVars
  BY EachPart
<1> QED
  BY <1>1, <1>2, NeverLost, PTL DEF ServicesSpec

-----------------------------------------------------------------------------
(* The ISOs on the host *)

Images == {Machines[vm] : vm \in DOMAIN Machines} \cup ToSet(customISONames(ISOConfig))
Mine(image) == IsCoreOSISOName(image) \/ image \in ToSet(customISONames(ISOConfig))

\* What is still to be looked at is the cluster's own, and of the VMs that ran all along those
\* that were asked have another ISO in their drives.
EraseInv ==
    /\ isos \subseteq Images /\ on \subseteq DOMAIN Machines
    /\ erase.todo \in Seq(Images) /\ \A i \in DOMAIN erase.todo : Mine(erase.todo[i])
    /\ erase.phase \in {"list", "read", "remove"} => erase.todo # <<>>
    /\ erase.phase = "read" => \A vm \in erase.steady \ erase.ask : Machines[vm] # Head(erase.todo)
    /\ erase.phase = "remove" => \A vm \in erase.steady : Machines[vm] # Head(erase.todo)
    /\ erase.phase \in {"idle", "verify", "find", "next", "list"} => erase.steady = {}

LEMMA SetToSeqLists ==
    ASSUME NEW S, IsFiniteSet(S)
    PROVE  SetToSeq(S) \in Seq(S)
<1>1. Cardinality(S) \in Nat /\ ExistsBijection(1..Cardinality(S), S)
  BY FS_CardinalityType
<1>2. \E f \in [1..Cardinality(S) -> S] : IsInjective(f)
  BY <1>1 DEF ExistsBijection, Bijection, Injection, IsInjective
<1>3. SetToSeq(S) \in [1..Cardinality(S) -> S]
  BY <1>2 DEF SetToSeq
<1> QED
  BY <1>1, <1>3

LEMMA ImagesAreFew == IsFiniteSet(Images) /\ customISONames(ISOConfig) \in Seq(Images)
<1> DEFINE names == customISONames(ISOConfig)
           Named == {<<k, i>> : k \in {"bootstrap", "master", "worker"}, i \in Nat}
<1>1. names \in Seq(ToSet(names))
  <2>1. /\ <<<<"bootstrap", 1>>>> \in Seq(Named)
        /\ ISOs("master", ISOConfig.masters) \in Seq(Named)
        /\ ISOs("worker", ISOConfig.workers) \in Seq(Named)
    <3>1. \A i \in Nat : <<"master", i>> \in Named /\ <<"worker", i>> \in Named
      OBVIOUS
    <3>2. <<"bootstrap", 1>> \in Named
      OBVIOUS
    <3>3. /\ ISOs("master", ISOConfig.masters) \in [1..ISOConfig.masters -> Named]
          /\ ISOs("worker", ISOConfig.workers) \in [1..ISOConfig.workers -> Named]
      BY <3>1, MachinesAssumption DEF ISOs
    <3> HIDE DEF Named
    <3> QED
      BY SMTT(30), <3>2, <3>3, MachinesAssumption
  <2>2. names \in Seq(Named)
    BY <2>1 DEF customISONames
  <2> HIDE DEF names, Named
  <2>3. DOMAIN names = 1..Len(names) /\ Len(names) \in Nat
    BY <2>2
  <2> QED
    BY <2>2, <2>3 DEF ToSet
<1> HIDE DEF names
<1>2. IsFiniteSet(ToSet(names))
  <2>1. names \in Surjection(1..Len(names), ToSet(names)) /\ Len(names) \in Nat
    BY <1>1 DEF Surjection, ToSet
  <2>2. IsFiniteSet(1..Len(names))
    BY <2>1, FS_Interval
  <2> QED
    BY <2>1, <2>2, FS_Surjection
<1>3. IsFiniteSet({Machines[vm] : vm \in DOMAIN Machines})
  <2> DEFINE T == {Machines[vm] : vm \in DOMAIN Machines}
             f == [vm \in DOMAIN Machines |-> Machines[vm]]
  <2>1. f \in Surjection(DOMAIN Machines, T)
    BY DEF Surjection
  <2> HIDE DEF f, T
  <2>2. IsFiniteSet(T)
    BY <2>1, MachinesAssumption, FS_Surjection
  <2> QED
    BY <2>2 DEF T
<1>4. IsFiniteSet(Images)
  BY <1>2, <1>3, FS_Union DEF Images, names
<1>5. names \in Seq(Images)
  BY <1>1 DEF Images, names
<1> QED
  BY <1>4, <1>5 DEF names

LEMMA EraseBegins == EraseInit => EraseInv
BY DEF EraseInit, EraseInv, NoErase, Images

LEMMA EraseGoesOn == ASSUME EraseInv, [EraseNext]_isoVars PROVE EraseInv' /\ SparesISOsInUse
<1> USE DEF EraseInv, Erases, EraseTo, Rest
<1>1. erase.todo # <<>> =>
         /\ Tail(erase.todo) \in Seq(Images) /\ Mine(Head(erase.todo))
         /\ \A i \in DOMAIN Tail(erase.todo) : Mine(Tail(erase.todo)[i])
  BY WithoutHead
<1>2. isos' = isos => SparesISOsInUse
  BY DEF SparesISOsInUse
<1>3. CASE UNCHANGED isoVars
  BY <1>2, <1>3 DEF isoVars
<1>12. ASSUME erase' = NoErase, isos' = isos, on' = on PROVE EraseInv' /\ SparesISOsInUse
  <2>1. NoErase.todo \in Seq(Images) /\ DOMAIN NoErase.todo = {} /\ NoErase.phase = "idle" /\ NoErase.steady = {}
    BY EmptySeq DEF NoErase
  <2> QED
    BY <1>2, <1>12, <2>1
<1>4. CASE RemoveRemoteISO \/ VerifyHost \/ EraseKilled
  <2>1. erase' = NoErase \/ (erase' = [erase EXCEPT !.phase = "verify"] /\ erase.phase = "idle")
        \/ (erase' = [erase EXCEPT !.phase = "find"] /\ erase.phase = "verify")
    BY <1>4 DEF RemoveRemoteISO, VerifyHost, EraseKilled
  <2>2. isos' = isos /\ on' = on
    BY <1>4 DEF RemoveRemoteISO, VerifyHost, EraseKilled
  <2>3. CASE erase' = NoErase
    BY <1>12, <2>2, <2>3
  <2>4. ASSUME NEW phase \in {"verify", "find"}, erase' = [erase EXCEPT !.phase = phase],
               erase.phase \in {"idle", "verify"}
        PROVE  EraseInv' /\ SparesISOsInUse
    BY <1>2, <2>2, <2>4
  <2> QED
    BY <2>1, <2>3, <2>4
<1>5. CASE FindBaseISOs
  <2>1. isos' = isos /\ on' = on /\ erase.phase = "find"
    BY <1>5 DEF FindBaseISOs
  <2>2. CASE erase' = NoErase
    BY <1>12, <2>1, <2>2
  <2>3. ASSUME NEW found \in SUBSET {image \in isos : IsCoreOSISOName(image)},
               erase' = [erase EXCEPT !.phase = "next", !.base = TRUE, !.todo = SetToSeq(found)]
        PROVE  EraseInv' /\ SparesISOsInUse
    <3>1. IsFiniteSet(found)
      BY ImagesAreFew, FS_Subset
    <3>2. SetToSeq(found) \in Seq(found)
      BY <3>1, SetToSeqLists
    <3> DEFINE todo == SetToSeq(found)
    <3> HIDE DEF todo
    <3>3. todo \in Seq(Images) /\ \A i \in DOMAIN todo : Mine(todo[i])
      BY <3>2 DEF todo, Mine
    <3>4. erase' = [erase EXCEPT !.phase = "next", !.base = TRUE, !.todo = todo]
      BY <2>3 DEF todo
    <3> QED
      BY <1>2, <2>1, <3>3, <3>4
  <2> QED
    BY <1>5, <2>2, <2>3 DEF FindBaseISOs
<1>6. CASE NextISO
  <2>1. isos' = isos /\ on' = on /\ erase.phase = "next"
    BY <1>6 DEF NextISO
  <2>2. \A i \in DOMAIN customISONames(ISOConfig) : Mine(customISONames(ISOConfig)[i])
    BY DEF Mine, ToSet
  <2> QED
    <3>1. CASE erase' = NoErase
      BY <1>12, <2>1, <3>1
    <3>2. CASE erase' = [erase EXCEPT !.phase = "list"] /\ erase.todo # <<>>
      BY <1>2, <2>1, <3>2
    <3>3. CASE erase' = [erase EXCEPT !.base = FALSE, !.todo = customISONames(ISOConfig)]
      BY <1>2, <2>1, <2>2, <3>3, ImagesAreFew
    <3> QED
      BY <1>6, <3>1, <3>2, <3>3 DEF NextISO
<1>7. ASSUME SkipISO, erase.todo # <<>>, isos' \subseteq isos, on' = on PROVE EraseInv'
  BY <1>1, <1>7 DEF SkipISO
<1>8. CASE anyVMReferencesISO
  <2>1. isos' = isos /\ on' = on /\ erase.phase = "list"
    BY <1>8 DEF anyVMReferencesISO
  <2>2. CASE SkipISO
    BY <1>2, <1>7, <2>1, <2>2
  <2>3. CASE erase' = [erase EXCEPT !.phase = IF on = {} THEN "remove" ELSE "read", !.ask = on, !.steady = on]
    BY <1>2, <2>1, <2>3
  <2> QED
    BY <1>8, <2>2, <2>3 DEF anyVMReferencesISO
<1>9. ASSUME NEW vm \in DOMAIN Machines, vmConfigReferencesISO(vm) PROVE EraseInv' /\ SparesISOsInUse
  <2>1. isos' = isos /\ on' = on /\ erase.phase = "read" /\ vm \in erase.ask
    BY <1>9 DEF vmConfigReferencesISO
  <2>2. CASE SkipISO
    BY <1>2, <1>7, <2>1, <2>2
  <2>3. CASE /\ Machines[vm] # Head(erase.todo)
             /\ erase' = [erase EXCEPT !.phase = IF erase.ask = {vm} THEN "remove" ELSE "read", !.ask = @ \ {vm}]
    BY <1>2, <2>1, <2>3
  <2> QED
    BY <1>9, <2>2, <2>3 DEF vmConfigReferencesISO, vmDevicesReferenceISO
<1>10. CASE RemoveISO
  <2>1. /\ isos' \subseteq isos /\ isos \ isos' \subseteq {Head(erase.todo)} /\ on' = on
        /\ erase.phase = "remove" /\ SkipISO /\ erase.todo # <<>>
    BY <1>10 DEF RemoveISO
  <2>2. EraseInv'
    BY <1>7, <2>1
  <2>3. SparesISOsInUse
    BY <1>1, <2>1 DEF SparesISOsInUse, Mine
  <2> QED
    BY <2>2, <2>3
<1>11. ASSUME NEW vm \in DOMAIN Machines, StartVM(vm) \/ StopVM(vm) PROVE EraseInv' /\ SparesISOsInUse
  <2>1. CASE StartVM(vm)
    BY <1>2, <1>11, <2>1 DEF StartVM
  <2>2. CASE StopVM(vm)
    <3>1. isos' = isos /\ on' = on \ {vm} /\ erase' = [erase EXCEPT !.steady = @ \ {vm}]
      BY <2>2 DEF StopVM
    <3> QED
      BY <1>2, <3>1
  <2> QED
    BY <1>11, <2>1, <2>2
<1> QED
  BY <1>3, <1>4, <1>5, <1>6, <1>8, <1>9, <1>10, <1>11 DEF EraseNext, EraseStep

\* Nothing that is not the cluster's own is deleted: no namespace without okdctl's label, on
\* whatever path a failed installation is undone; and on the Proxmox host no ISO but CoreOS
\* images and those of the cluster's own nodes, and none that a VM ran with all along, though
\* VMs start and stop while they are asked one by one (anyVMReferencesISO, RemoveRemoteISO).
THEOREM ServicesKeepForeign == ServicesSpec => ForeignKept
<1>1. ServicesInit => AddonsInit /\ EraseInv
  BY PartsBegin, EraseBegins
<1>2. [ServicesNext]_serviceVars => [AddonsNext]_addonVars /\ [EraseNext]_isoVars
  BY EachPart
<1>3. ASSUME EraseInv, [ServicesNext]_serviceVars PROVE EraseInv' /\ SparesISOsInUse
  BY <1>2, <1>3, EraseGoesOn
<1>4. [SparesForeign]_addonVars => SparesForeign
  <2> SUFFICES ASSUME UNCHANGED addonVars PROVE SparesForeign
    OBVIOUS
  <2> QED
    BY DEF addonVars, SparesForeign
<1>5. [ServicesNext]_serviceVars /\ [SparesForeign]_addonVars /\ SparesISOsInUse => [SparesForeign /\ SparesISOsInUse]_serviceVars
  BY <1>4
<1> QED
  BY <1>1, <1>2, <1>3, <1>5, ForeignNamespacesStay, PTL DEF ServicesSpec, ForeignKept

\* An install of addons that failed and undid itself leaves nothing behind, as one part of
\* the whole.
THEOREM ServicesLeaveNoDebris == ServicesSpec => NoDebris
<1>1. ServicesInit => AddonsInit
  BY PartsBegin
<1>2. [ServicesNext]_serviceVars => [AddonsNext]_addonVars
  BY EachPart
<1> QED
  BY <1>1, <1>2, FailuresAreUndone, PTL DEF ServicesSpec

\* The conversion does what it promises, as one part of the whole.
THEOREM ServicesConvert == ServicesSpec => ImplementsConversion
<1>1. ServicesInit => IngressInit
  BY PartsBegin
<1>2. [ServicesNext]_serviceVars => [Ingress]_ingressVars
  BY EachPart
<1> QED
  BY <1>1, <1>2, ConversionImplemented, PTL DEF ServicesSpec


\* A setup goes on with the tools of its release, as one part of the whole.
THEOREM ServicesBuildFromRelease == ServicesSpec => []BuildsFromRelease
<1>1. ServicesInit => DownloadInit
  BY PartsBegin
<1>2. [ServicesNext]_serviceVars => [DownloadNext]_downloadVars
  BY EachPart
<1> QED
  BY <1>1, <1>2, OnlyTheRelease, PTL DEF ServicesSpec

-----------------------------------------------------------------------------
(* The bastion *)

Verbs == {"setup", "window", "cleanup"}
Plan(verb) == IF verb = "setup" THEN SetupSteps ELSE IF verb = "window" THEN WindowSteps ELSE CleanupSteps
From(verb, p) == [i \in 1..Len(Plan(verb)) - p + 1 |-> Plan(verb)[i + p - 1]]

StepNames == {SetupSteps[i] : i \in 1..17} \cup {WindowSteps[i] : i \in 1..5} \cup {CleanupSteps[i] : i \in 1..8}

\* A command that runs is at a place of its plan, with the rest of it to do.
Place == Len(Plan(step.verb)) - Len(step.todo) + 1
Planned == step.verb # "none" => Place \in 1..Len(Plan(step.verb)) /\ step.todo = From(step.verb, Place)

Certs == [id : Nat, ip : Nat, expired : BOOLEAN, next : Nat \ {0}]
Confs == [disk : Nat, backup : Nat, running : Nat]
BudgetTyped == edits \in 0..Edits /\ troubles \in 0..HostFaults
WantTyped ==
    /\ want \in [ip : Nat, net : Nat \ {0}, version : Nat]
    /\ want.ip <= edits + 2 /\ want.net <= edits + 2 /\ want.version <= edits + 2
ToolsTyped == tools \in [bins : [Tools -> Nat], mark : Nat]
Dirs == [config : Nat, backup : Nat, manifests : Nat, sealed : BOOLEAN, ignition : Nat, signed : BOOLEAN]
ImagesTyped == iso \in [HostNodes -> Stamps] /\ fp \in [HostNodes -> Stamps]
RemoteTyped == remote \in [HostNodes -> Stamps]
ServerTyped ==
    /\ cert \in Certs /\ cert.id < cert.next /\ cert.ip <= want.ip
    /\ httpd \in Nat /\ httpd < cert.next
WebTyped == web \in [Ignition -> Nat]
ConfTyped == conf \in [{"haproxy", "dnsmasq"} -> Confs]
HostTyped ==
    /\ BudgetTyped /\ WantTyped /\ ToolsTyped /\ dir \in Dirs /\ ImagesTyped /\ RemoteTyped
    /\ ServerTyped /\ WebTyped /\ ConfTyped

Names == Tools \cup Ignition \cup HostNodes
StepTyped ==
    step \in [verb : Verbs \cup {"none"}, todo : Seq(StepNames), left : SUBSET Names, before : 0..troubles,
              found : Nat, failed : BOOLEAN, was : Verbs \cup {"none"}]

Version(b) == tools.bins[b] = want.version
ToolsKept ==
    /\ \A b \in Tools : tools.bins[b] <= want.version
    /\ tools.mark <= want.version /\ (tools.mark = want.version => \A b \in Tools : Version(b))

CertGood == cert.id # 0 /\ cert.ip = want.ip /\ ~cert.expired

\* What a later build is made from differs for ever.
Superseded(x) == \/ x.net < want.net \/ x.cert < EnsureIgnitionCert.id \/ x.base < tools.bins["openshift-install"]
Past(x) == x.net <= want.net /\ x.cert <= EnsureIgnitionCert.id /\ x.base <= tools.bins["openshift-install"]
Honest == \A n \in HostNodes : Past(fp[n]) /\ (iso[n] = fp[n] \/ Superseded(fp[n]))

Whole(n) == iso[n] = [net |-> want.net, cert |-> cert.id, base |-> tools.bins["openshift-install"]]
\* The ISOs that this command has been through.
Built == At("build-isos") => \A n \in HostNodes \ step.left : CertGood /\ Whole(n)

Uploaded(n) == ~Faulted => remote[n] = iso[n]

\* What a setup has behind it when it is at a place of its plan.
SetupBehind(p) ==
    /\ p = 2 => \A b \in Tools \ step.left : Version(b)
    /\ p > 2 => \A b \in Tools : Version(b)
    /\ p \in {2, 3} => dir = EmptyDir
    /\ p = 4 => dir.config = want.net /\ ~dir.signed /\ dir.manifests = 0
    /\ p = 5 => dir.manifests = want.net /\ ~dir.signed
    /\ p > 5 => dir.ignition = want.net
    /\ p = 7 => \A f \in Ignition \ step.left : web[f] = want.net
    /\ p > 7 => \A f \in Ignition : web[f] = want.net
    /\ p > 8 => CertGood /\ httpd = cert.id
    /\ p > 9 => \A n \in HostNodes : Whole(n)
    /\ p = 10 => \A n \in HostNodes \ step.left : Uploaded(n)
    /\ p > 10 => \A n \in HostNodes : Uploaded(n)
SetupStands == step.verb = "setup" => SetupBehind(Place)

\* A command, or none, that is where it says, with what it has behind it.
Unoccupied == step.verb = "none" => step.todo = <<>>
CommandStands == StepTyped /\ Planned /\ Built /\ SetupStands

HostInv == HostTyped /\ StepTyped /\ Planned /\ Unoccupied /\ ToolsKept /\ Honest /\ Built /\ SetupStands

LEMMA PlanFacts ==
    /\ Len(SetupSteps) = 17 /\ Len(WindowSteps) = 5 /\ Len(CleanupSteps) = 8
    /\ SetupSteps \in Seq(StepNames) /\ WindowSteps \in Seq(StepNames) /\ CleanupSteps \in Seq(StepNames)
<1>1. Len(SetupSteps) = 17
  BY DEF SetupSteps
<1>2. Len(WindowSteps) = 5 /\ Len(CleanupSteps) = 8
  BY DEF WindowSteps, CleanupSteps
<1>3. /\ \A i \in 1..17 : SetupSteps[i] \in StepNames
      /\ \A i \in 1..5 : WindowSteps[i] \in StepNames
      /\ \A i \in 1..8 : CleanupSteps[i] \in StepNames
  BY DEF StepNames
<1>4. ASSUME NEW S, \A i \in 1..17 : SetupSteps[i] \in S PROVE SetupSteps \in Seq(S)
  BY <1>4 DEF SetupSteps
<1>5. ASSUME NEW S, \A i \in 1..5 : WindowSteps[i] \in S PROVE WindowSteps \in Seq(S)
  BY <1>5 DEF WindowSteps
<1>6. ASSUME NEW S, \A i \in 1..8 : CleanupSteps[i] \in S PROVE CleanupSteps \in Seq(S)
  BY <1>6 DEF CleanupSteps
<1> QED
  BY <1>1, <1>2, <1>3, <1>4, <1>5, <1>6

LEMMA Endings ==
    ASSUME NEW verb \in Verbs, NEW p \in 1..Len(Plan(verb))
    PROVE  /\ From(verb, p) \in Seq(StepNames) /\ From(verb, p) # <<>>
           /\ Len(From(verb, p)) = Len(Plan(verb)) - p + 1 /\ Len(Plan(verb)) \in Nat
           /\ Head(From(verb, p)) = Plan(verb)[p]
           /\ p < Len(Plan(verb)) => Tail(From(verb, p)) = From(verb, p + 1)
<1>1. Plan(verb) \in Seq(StepNames)
  BY PlanFacts DEF Plan
<1> DEFINE s == Plan(verb)
<1> HIDE DEF s
<1>2. From(verb, p) = [i \in 1..Len(s) - p + 1 |-> s[i + p - 1]]
  BY DEF From, s
<1>3. s \in Seq(StepNames) /\ Len(s) \in Nat /\ p \in 1..Len(s)
  BY <1>1 DEF s
<1>4. From(verb, p) \in Seq(StepNames) /\ Len(From(verb, p)) = Len(s) - p + 1
  BY <1>2, <1>3
<1>5. Head(From(verb, p)) = s[p]
  BY <1>2, <1>3, <1>4
<1>6. p < Len(s) => Tail(From(verb, p)) = From(verb, p + 1)
  <2> SUFFICES ASSUME p < Len(s) PROVE Tail(From(verb, p)) = From(verb, p + 1)
    OBVIOUS
  <2>1. From(verb, p + 1) = [i \in 1..Len(s) - p |-> s[i + p]]
    <3>1. From(verb, p + 1) = [i \in 1..Len(s) - (p + 1) + 1 |-> s[i + (p + 1) - 1]]
      BY DEF From, s
    <3> QED
      BY <1>3, <3>1
  <2> DEFINE t == From(verb, p)
             u == Tail(t)
  <2> HIDE DEF t
  <2>2. t \in Seq(StepNames) /\ Len(t) = Len(s) - p + 1 /\ t # <<>>
    BY <1>3, <1>4 DEF t
  <2>3. u \in Seq(StepNames) /\ Len(u) = Len(s) - p /\ \A i \in 1..Len(u) : u[i] = t[i + 1]
    BY <1>3, <2>2
  <2> HIDE DEF u
  <2>4. u = [i \in 1..Len(s) - p |-> u[i]]
    BY <1>3, <2>3
  <2>5. \A i \in 1..Len(s) - p : u[i] = s[i + p]
    BY <1>2, <1>3, <2>3 DEF t
  <2> QED
    BY <2>1, <2>4, <2>5 DEF u, t
<1> QED
  BY <1>3, <1>4, <1>5, <1>6 DEF s

\* Where a command is when it is at a step.
LEMMA Places ==
    ASSUME StepTyped, Planned, Running
    PROVE  /\ step.todo # <<>> /\ Head(step.todo) = Plan(step.verb)[Place] /\ step.verb \in Verbs
           /\ step.verb = "setup" =>
                 /\ Place \in 1..17
                 /\ Head(step.todo) = "wipe" <=> Place = 1
                 /\ Head(step.todo) = "install-tools" <=> Place = 2
                 /\ Head(step.todo) = "generate-config" <=> Place = 3
                 /\ Head(step.todo) = "generate-manifests" <=> Place = 4
                 /\ Head(step.todo) = "generate-ignition" <=> Place = 5
                 /\ Head(step.todo) = "install-apache" <=> Place = 6
                 /\ Head(step.todo) = "deploy-ignition" <=> Place = 7
                 /\ Head(step.todo) = "verify-webserver" <=> Place = 8
                 /\ Head(step.todo) = "build-isos" <=> Place = 9
                 /\ Head(step.todo) = "upload-isos" <=> Place = 10
                 /\ Head(step.todo) = "write-haproxy" <=> Place = 11
                 /\ Head(step.todo) = "start-haproxy" <=> Place = 12
                 /\ Head(step.todo) = "override-resolver" <=> Place = 13
                 /\ Head(step.todo) = "activate-resolver" <=> Place = 14
                 /\ Head(step.todo) = "write-dnsmasq" <=> Place = 15
                 /\ Head(step.todo) = "start-dnsmasq" <=> Place = 16
                 /\ Head(step.todo) = "done" <=> Place = 17
           /\ step.verb = "window" =>
                 /\ Place \in 1..5
                 /\ Head(step.todo) = "revive" <=> Place = 1
                 /\ Head(step.todo) = "publish-worker" <=> Place = 2
                 /\ Head(step.todo) = "build-isos" <=> Place = 3
                 /\ Head(step.todo) = "upload-isos" <=> Place = 4
                 /\ Head(step.todo) = "teardown" <=> Place = 5
           /\ step.verb = "cleanup" =>
                 /\ Place \in 1..8
                 /\ Head(step.todo) = "wipe" <=> Place = 1
                 /\ Head(step.todo) = "clean-web" <=> Place = 2
                 /\ Head(step.todo) = "clean-haproxy" <=> Place = 3
                 /\ Head(step.todo) = "clean-apache" <=> Place = 4
                 /\ Head(step.todo) = "clean-dnsmasq" <=> Place = 5
                 /\ Head(step.todo) = "clean-backups" <=> Place = 6
                 /\ Head(step.todo) = "clean-certs" <=> Place = 7
                 /\ Head(step.todo) = "done" <=> Place = 8
<1>1. step.verb \in Verbs
  BY DEF StepTyped, Running
<1>2. Place \in 1..Len(Plan(step.verb)) /\ step.todo = From(step.verb, Place)
  BY DEF Planned, Running
<1> DEFINE q == Place
<1> HIDE DEF q
<1>3. /\ step.todo # <<>> /\ Head(step.todo) = Plan(step.verb)[q] /\ q \in 1..Len(Plan(step.verb))
  BY <1>1, <1>2, Endings DEF q
<1>4. CASE step.verb = "setup"
  <2>1. q \in 1..17 /\ Head(step.todo) = SetupSteps[q]
    BY <1>3, <1>4, PlanFacts DEF Plan
  <2> QED
    BY SMTT(60), <1>1, <1>3, <1>4, <2>1 DEF q, SetupSteps
<1>5. CASE step.verb = "window"
  <2>1. q \in 1..5 /\ Head(step.todo) = WindowSteps[q]
    BY <1>3, <1>5, PlanFacts DEF Plan
  <2> QED
    BY <1>1, <1>3, <1>5, <2>1 DEF q, WindowSteps
<1>6. CASE step.verb = "cleanup"
  <2>1. q \in 1..8 /\ Head(step.todo) = CleanupSteps[q]
    BY <1>3, <1>6, PlanFacts DEF Plan
  <2> QED
    BY <1>1, <1>3, <1>6, <2>1 DEF q, CleanupSteps
<1> QED
  BY <1>1, <1>4, <1>5, <1>6 DEF Verbs

\* One step of a plan further, to its end, and out of it.
LEMMA Advance ==
    ASSUME StepTyped, Planned, Running, Place < Len(Plan(step.verb)),
           step'.verb = step.verb, step'.todo = Tail(step.todo)
    PROVE  /\ Planned' /\ Place' = Place + 1 /\ step'.todo \in Seq(StepNames)
           /\ Head(step'.todo) = Plan(step.verb)[Place + 1]
<1>1. step.verb \in Verbs
  BY Places
<1>2. Place \in 1..Len(Plan(step.verb)) /\ step.todo = From(step.verb, Place)
  BY DEF Planned, Running
<1> DEFINE q == Place
           v == step.verb
<1> HIDE DEF q, v
<1>3. /\ Len(Plan(v)) \in Nat /\ q + 1 \in 1..Len(Plan(v)) /\ Tail(step.todo) = From(v, q + 1)
  BY <1>1, <1>2, Endings DEF q, v
<1>4. /\ step'.todo = From(v, q + 1) /\ From(v, q + 1) \in Seq(StepNames)
      /\ Len(step'.todo) = Len(Plan(v)) - (q + 1) + 1
      /\ Head(step'.todo) = Plan(v)[q + 1]
  <2> DEFINE r == q + 1
  <2> HIDE DEF r
  <2>1. v \in Verbs /\ r \in 1..Len(Plan(v)) /\ step'.todo = From(v, r)
    BY <1>1, <1>3 DEF v, r
  <2>2. From(v, r) \in Seq(StepNames) /\ Len(From(v, r)) = Len(Plan(v)) - r + 1 /\ Head(From(v, r)) = Plan(v)[r]
    BY <2>1, Endings
  <2> QED
    BY <2>1, <2>2 DEF r
<1>5. Place' = q + 1
  <2>1. Place' = Len(Plan(v)) - Len(step'.todo) + 1
    BY DEF Place, v
  <2>2. q \in 1..Len(Plan(v))
    BY <1>2 DEF q, v
  <2> QED
    BY <1>3, <1>4, <2>1, <2>2
<1>6. Planned'
  <2>1. Place' \in 1..Len(Plan(v)) /\ step'.todo = From(v, Place')
    BY <1>3, <1>4, <1>5
  <2> QED
    BY <2>1 DEF Planned, v
<1> QED
  BY <1>4, <1>5, <1>6 DEF v, q

LEMMA Ends == ASSUME step'.verb = "none" PROVE Planned' /\ Built' /\ SetupStands'
BY DEF Planned, Built, SetupStands, At, Running

LEMMA SameTodo ==
    ASSUME Planned, step'.verb = step.verb, step'.todo = step.todo
    PROVE  Planned' /\ Place' = Place
BY DEF Planned, Place

LEMMA Lasts ==
    /\ From("setup", 17) = <<"done">> /\ From("cleanup", 8) = <<"done">> /\ From("window", 5) = <<"teardown">>
<1>1. ASSUME NEW verb \in Verbs, Len(Plan(verb)) \in Nat, Len(Plan(verb)) >= 1, 
             NEW n, n = Len(Plan(verb))
      PROVE  From(verb, n) = <<Plan(verb)[n]>>
  <2> DEFINE s == Plan(verb)
  <2> HIDE DEF s
  <2>1. From(verb, n) = [i \in 1..n - n + 1 |-> s[i + n - 1]]
    BY <1>1 DEF From, s
  <2>2. n \in Nat /\ n >= 1
    BY <1>1
  <2>3. From(verb, n) = [i \in 1..1 |-> s[n]]
    BY <2>1, <2>2
  <2> QED
    BY <2>3 DEF s
<1>2. /\ Len(Plan("setup")) = 17 /\ Len(Plan("window")) = 5 /\ Len(Plan("cleanup")) = 8
  BY PlanFacts DEF Plan
<1>3. SetupSteps[17] = "done" /\ CleanupSteps[8] = "done" /\ WindowSteps[5] = "teardown"
  BY DEF SetupSteps, CleanupSteps, WindowSteps
<1>4. Plan("setup")[17] = "done" /\ Plan("cleanup")[8] = "done" /\ Plan("window")[5] = "teardown"
  BY <1>3 DEF Plan
<1>5. From("setup", 17) = <<Plan("setup")[17]>>
  <2>1. "setup" \in Verbs
    BY DEF Verbs
  <2>2. 17 \in Nat /\ 17 >= 1
    OBVIOUS
  <2> QED
    BY Zenon, <1>1, <1>2, <2>1, <2>2
<1>6. From("cleanup", 8) = <<Plan("cleanup")[8]>>
  BY <1>1, <1>2 DEF Verbs
<1>7. From("window", 5) = <<Plan("window")[5]>>
  BY <1>1, <1>2 DEF Verbs
<1> QED
  BY <1>4, <1>5, <1>6, <1>7

LEMMA Jumps ==
    ASSUME NEW verb \in Verbs, NEW last \in 1..Len(Plan(verb)), step'.verb = verb, step'.todo = From(verb, last)
    PROVE  Planned' /\ Place' = last /\ step'.todo \in Seq(StepNames) /\ Head(step'.todo) = Plan(verb)[last]
<1>1. Len(step'.todo) = Len(Plan(verb)) - last + 1 /\ Len(Plan(verb)) \in Nat /\ Head(step'.todo) = Plan(verb)[last]
      /\ step'.todo \in Seq(StepNames)
  BY Endings
<1>2. Place' = last
  BY <1>1 DEF Place
<1> QED
  BY <1>1, <1>2 DEF Planned


-----------------------------------------------------------------------------
(* What the files hold *)

\* The certificate the server is to have: good, and none that was there before a better one.
LEMMA Ensures ==
    ASSUME HostTyped
    PROVE  /\ EnsureIgnitionCert \in Certs /\ EnsureIgnitionCert.id # 0 /\ EnsureIgnitionCert.id < EnsureIgnitionCert.next
           /\ EnsureIgnitionCert.ip = want.ip /\ ~EnsureIgnitionCert.expired
           /\ cert.next <= EnsureIgnitionCert.next
           /\ CertGood => EnsureIgnitionCert = cert
BY DEF HostTyped, WantTyped, ToolsTyped, ServerTyped, Certs, EnsureIgnitionCert, Fresh, CertGood

LEMMA CertEnsured ==
    ASSUME HostTyped, cert' = EnsureIgnitionCert, want' = want
    PROVE  /\ cert' \in Certs /\ cert'.id < cert'.next /\ cert.next <= cert'.next
           /\ cert'.ip = want.ip /\ cert'.id = EnsureIgnitionCert.id
           /\ CertGood' /\ EnsureIgnitionCert' = cert'
<1>1. /\ cert' \in Certs /\ cert'.id < cert'.next /\ cert.next <= cert'.next /\ cert'.id # 0
      /\ cert'.ip = want.ip /\ ~cert'.expired /\ cert'.id = EnsureIgnitionCert.id
  BY Ensures
<1> QED
  BY <1>1 DEF CertGood, EnsureIgnitionCert

LEMMA CertsGrow ==
    ASSUME HostTyped, HostTyped',
           \/ cert' = cert /\ want'.ip = want.ip
           \/ cert' = EnsureIgnitionCert /\ want' = want
           \/ cert' = [cert EXCEPT !.id = 0]
           \/ cert' = [cert EXCEPT !.expired = TRUE] /\ want' = want
           \/ cert' = cert /\ want'.ip > want.ip
    PROVE  EnsureIgnitionCert.id <= EnsureIgnitionCert'.id
<1>1. CASE cert' = EnsureIgnitionCert /\ want' = want
  BY <1>1, Ensures, CertEnsured DEF Certs
<1>2. CASE cert' = cert /\ want'.ip = want.ip
  BY <1>2 DEF EnsureIgnitionCert, Fresh, HostTyped, WantTyped, ServerTyped, Certs
<1>3. CASE cert' = [cert EXCEPT !.id = 0]
  BY <1>3 DEF EnsureIgnitionCert, Fresh, HostTyped, WantTyped, ServerTyped, Certs
<1>4. CASE cert' = [cert EXCEPT !.expired = TRUE] /\ want' = want
  BY <1>4 DEF EnsureIgnitionCert, Fresh, HostTyped, WantTyped, ServerTyped, Certs
<1>5. CASE cert' = cert /\ want'.ip > want.ip
  BY <1>5 DEF EnsureIgnitionCert, Fresh, HostTyped, WantTyped, ServerTyped, Certs
<1> QED
  BY <1>1, <1>2, <1>3, <1>4, <1>5


LEMMA TypesKept ==
    ASSUME HostTyped, StepTyped, [Host]_bastionVars
    PROVE  HostTyped' /\ troubles <= troubles'
<1> USE BastionAssumption DEF files, server, services, Quiet, Trouble
<1>1. /\ edits' = edits /\ (troubles' = troubles \/ (troubles < HostFaults /\ troubles' = troubles + 1)) => BudgetTyped' /\ troubles <= troubles'
      /\ want' = want /\ edits' = edits => WantTyped'
      /\ tools' = tools => ToolsTyped'
      /\ dir' = dir => dir' \in Dirs
      /\ iso' = iso /\ fp' = fp => ImagesTyped'
      /\ remote' = remote => RemoteTyped'
      /\ want' = want /\ cert' = cert /\ httpd' = httpd => ServerTyped'
      /\ web' = web => WebTyped'
      /\ conf' = conf => ConfTyped'
  BY DEF HostTyped, BudgetTyped, WantTyped, ToolsTyped, ImagesTyped, RemoteTyped, ServerTyped, WebTyped, ConfTyped
<1>2. CASE UNCHANGED bastionVars
  BY <1>1, <1>2 DEF bastionVars, HostTyped
<1>3. CASE Setup \/ JoinWindow \/ FullCleanup
  <2>1. UNCHANGED <<want, files, server, services, troubles>>
        /\ (edits' = edits \/ (edits < Edits /\ edits' = edits + 1))
    BY <1>3 DEF Setup, JoinWindow, FullCleanup, Begin
  <2>2. WantTyped' /\ BudgetTyped' /\ troubles <= troubles'
    BY <2>1 DEF HostTyped, WantTyped, BudgetTyped
  <2> QED
    BY <1>1, <2>1, <2>2 DEF HostTyped
<1>4. CASE Killed \/ CleanFails \/ StepFails \/ Done
  BY <1>1, <1>4 DEF Killed, CleanFails, StepFails, Done, HostTyped
<1>5. CASE Edit
  <2>1. /\ edits < Edits /\ edits' = edits + 1 /\ troubles' = troubles
        /\ UNCHANGED <<tools, dir, iso, fp, remote, httpd, web, conf>>
    BY <1>5 DEF Edit
  <2>2. BudgetTyped' /\ troubles <= troubles'
    BY <2>1 DEF HostTyped, BudgetTyped
  <2>3. ASSUME NEW field \in {"ip", "net", "version"}, want' = [want EXCEPT ![field] = edits + 3], cert' = cert
        PROVE  WantTyped' /\ ServerTyped'
    BY <2>1, <2>3 DEF HostTyped, BudgetTyped, WantTyped, ServerTyped, Certs
  <2>4. ASSUME cert' = [cert EXCEPT !.expired = TRUE], want' = want
        PROVE  WantTyped' /\ ServerTyped'
    <3>1. WantTyped'
      BY <2>1, <2>4 DEF HostTyped, BudgetTyped, WantTyped
    <3>2. cert \in Certs /\ cert.id < cert.next /\ cert.ip <= want.ip /\ httpd \in Nat /\ httpd < cert.next
      BY DEF HostTyped, ServerTyped
    <3>3. cert' \in Certs /\ cert'.id = cert.id /\ cert'.next = cert.next /\ cert'.ip = cert.ip
      BY <2>4, <3>2 DEF Certs
    <3> QED
      BY <2>1, <2>4, <3>1, <3>2, <3>3 DEF ServerTyped
  <2> QED
    BY <1>1, <1>5, <2>1, <2>2, <2>3, <2>4 DEF Edit, HostTyped
<1>6. CASE Wipe
  <2>1. EmptyDir \in Dirs /\ None \in Stamps
    BY DEF EmptyDir, None, Stamps, Dirs
  <2>2. dir' \in Dirs /\ ImagesTyped'
    BY <1>6, <1>1, <2>1 DEF Wipe, HostTyped, ImagesTyped
  <2>3. UNCHANGED <<want, tools, remote, server, services, edits>> /\ (Quiet \/ Trouble)
    BY <1>6 DEF Wipe
  <2> QED
    BY <1>1, <2>2, <2>3 DEF HostTyped
<1>7. CASE ToolsInstalled \/ \E b \in Tools : InstallTool(b)
  <2>1. UNCHANGED <<want, dir, iso, fp, remote, server, services, edits>> /\ Quiet
    BY <1>7 DEF ToolsInstalled, InstallTool
  <2>2. ToolsTyped'
    BY <1>7 DEF ToolsInstalled, InstallTool, HostTyped, ToolsTyped, WantTyped
  <2> QED
    BY <1>1, <2>1, <2>2 DEF HostTyped
<1>8. CASE GenerateConfig \/ GenerateManifests \/ GenerateIgnition
  <2>1. UNCHANGED <<want, tools, iso, fp, remote, server, services, edits>> /\ (Quiet \/ Trouble)
    BY <1>8 DEF GenerateConfig, GenerateManifests, GenerateIgnition, Installer
  <2>2. dir \in Dirs /\ want.net \in Nat
    BY DEF HostTyped, WantTyped
  <2>3. dir' \in Dirs
    <3>1. \A m, k \in Nat : /\ [dir EXCEPT !.config = m, !.backup = k] \in Dirs
                            /\ [dir EXCEPT !.manifests = m, !.config = 0, !.sealed = TRUE] \in Dirs
                            /\ [dir EXCEPT !.manifests = m, !.config = 0] \in Dirs
                            /\ [dir EXCEPT !.ignition = m, !.manifests = 0, !.sealed = FALSE] \in Dirs
                            /\ [dir EXCEPT !.ignition = m, !.manifests = 0, !.sealed = FALSE, !.signed = TRUE] \in Dirs
      BY <2>2 DEF Dirs
    <3>2. ConfigInput \in Nat /\ dir.manifests \in Nat /\ 99 \in Nat
      BY <2>2 DEF ConfigInput, Dirs
    <3>3. ASSUME GenerateConfig PROVE dir' \in Dirs
      <4>1. dir' = dir \/ dir' = [dir EXCEPT !.config = want.net, !.backup = want.net]
        BY <3>3 DEF GenerateConfig
      <4> QED
        BY <2>2, <3>1, <4>1
    <3>4. ASSUME GenerateManifests PROVE dir' \in Dirs
      <4>1. \/ dir' = dir \/ dir' = [dir EXCEPT !.manifests = ConfigInput, !.config = 0, !.sealed = TRUE]
            \/ dir' = [dir EXCEPT !.manifests = 99, !.config = 0]
        BY <3>4 DEF GenerateManifests
      <4> QED
        BY <2>2, <3>1, <3>2, <4>1
    <3>5. ASSUME GenerateIgnition PROVE dir' \in Dirs
      <4>1. \/ dir' = dir \/ dir' = [dir EXCEPT !.ignition = 99, !.manifests = 0, !.sealed = FALSE]
            \/ dir' = [dir EXCEPT !.ignition = dir.manifests, !.manifests = 0, !.sealed = FALSE, !.signed = TRUE]
        BY <3>5 DEF GenerateIgnition
      <4> QED
        BY <2>2, <3>1, <3>2, <4>1
    <3> QED
      BY <1>8, <3>3, <3>4, <3>5
  <2> QED
    BY <1>1, <2>1, <2>3 DEF HostTyped
<1>9. CASE ConfigureApache \/ Teardown \/ IgnitionDeployed \/ Iterated
  <2>1. UNCHANGED <<want, files, cert, services, edits>> /\ Quiet
    BY <1>9 DEF ConfigureApache, Teardown, IgnitionDeployed, Iterated
  <2>2. httpd' \in {httpd, 0, cert.id} /\ web' \in {web, [f \in Ignition |-> 0]}
    BY <1>9 DEF ConfigureApache, Teardown, IgnitionDeployed, Iterated, StartedHttpd
  <2>3. ServerTyped' /\ WebTyped'
    BY <2>1, <2>2 DEF HostTyped, ServerTyped, WebTyped, Certs
  <2> QED
    BY <1>1, <2>1, <2>3 DEF HostTyped
<1>10. CASE VerifyWebServer
  <2>1. cert' = EnsureIgnitionCert /\ UNCHANGED <<want, files, httpd, web, services, edits>> /\ Quiet
    BY <1>10 DEF VerifyWebServer
  <2>2. ServerTyped'
    BY <2>1, CertEnsured DEF HostTyped, ServerTyped, Certs, WantTyped
  <2> QED
    BY <1>1, <2>1, <2>2 DEF HostTyped
<1>11. CASE \E f \in Ignition : DeployFile(f)
  <2>1. UNCHANGED <<want, files, cert, httpd, services, edits>> /\ Quiet
    BY <1>11 DEF DeployFile
  <2>2. WebTyped'
    BY <1>11 DEF DeployFile, HostTyped, WebTyped, Dirs
  <2> QED
    BY <1>1, <2>1, <2>2 DEF HostTyped
<1>12. ASSUME NEW n \in HostNodes, BuildISO(n) \/ BuildCutShort(n) PROVE HostTyped' /\ troubles <= troubles'
  <2>1. cert' = EnsureIgnitionCert /\ UNCHANGED <<want, tools, dir, remote, httpd, web, services, edits>> /\ (Quiet \/ Trouble)
    BY <1>12 DEF BuildISO, BuildCutShort
  <2>2. ServerTyped'
    BY <2>1, CertEnsured DEF HostTyped, ServerTyped, Certs, WantTyped
  <2>3. Content \in Stamps /\ None \in Stamps /\ Torn \in Stamps
    BY Ensures DEF Content, Stamps, None, Torn, Certs, Tools, HostTyped, WantTyped, ToolsTyped
  <2>4. ImagesTyped'
    BY <1>12, <2>3 DEF BuildISO, BuildCutShort, NodeISOFingerprint, HostTyped, ImagesTyped
  <2> QED
    BY <1>1, <2>1, <2>2, <2>4 DEF HostTyped
<1>13. ASSUME NEW n \in HostNodes, UploadISO(n) \/ UploadCutShort(n) PROVE HostTyped' /\ troubles <= troubles'
  <2>1. Torn \in Stamps
    BY DEF Stamps, Torn
  <2>2. RemoteTyped'
    BY <1>13, <2>1 DEF UploadISO, UploadCutShort, HostTyped, RemoteTyped, ImagesTyped
  <2>3. UNCHANGED <<want, tools, dir, iso, fp, server, services, edits>> /\ (Quiet \/ Trouble)
    BY <1>13 DEF UploadISO, UploadCutShort
  <2> QED
    BY <1>1, <2>2, <2>3 DEF HostTyped
<1>14. CASE \/ WriteHAProxy \/ StartHAProxy \/ OverrideResolver \/ ActivateResolver \/ WriteDnsmasq \/ StartDnsmasq
            \/ CleanHAProxy \/ CleanDnsmasq \/ CleanBackups
  <2>1. UNCHANGED <<want, files, server, edits>> /\ (Quiet \/ Trouble)
    BY <1>14 DEF WriteHAProxy, StartHAProxy, OverrideResolver, ActivateResolver, WriteDnsmasq, StartDnsmasq,
       CleanHAProxy, CleanDnsmasq, CleanBackups
  <2>2. conf \in [{"haproxy", "dnsmasq"} -> Confs] /\ want.net \in Nat
    BY DEF HostTyped, ConfTyped, WantTyped
  <2>3. conf["haproxy"] \in Confs /\ conf["dnsmasq"] \in Confs
    BY <2>2
  <2>4. ASSUME NEW s \in {"haproxy", "dnsmasq"}, NEW h \in Confs, conf' = [conf EXCEPT ![s] = h] PROVE ConfTyped'
    BY <2>2, <2>4 DEF ConfTyped
  <2>5. \A d \in Confs : \A m, k \in Nat :
           /\ d.disk \in Nat /\ d.backup \in Nat /\ d.running \in Nat
           /\ [d EXCEPT !.disk = m, !.backup = k] \in Confs /\ [d EXCEPT !.running = m] \in Confs
           /\ [d EXCEPT !.disk = m, !.running = k] \in Confs /\ [d EXCEPT !.backup = m] \in Confs
           /\ [d EXCEPT !.running = m, !.backup = k] \in Confs
    BY DEF Confs
  <2> DEFINE hap == conf["haproxy"]
             dns == conf["dnsmasq"]
  <2> HIDE DEF hap, dns
  <2>6. hap \in Confs /\ dns \in Confs
    BY <2>3 DEF hap, dns
  <2>7. ASSUME WriteHAProxy PROVE ConfTyped'
    <3>1. conf' = [conf EXCEPT !["haproxy"] = [hap EXCEPT !.disk = want.net, !.backup = IF hap.backup = 0 THEN hap.disk ELSE hap.backup]]
      BY <2>7 DEF WriteHAProxy, Serving, hap
    <3> QED
      BY <2>2, <2>4, <2>5, <2>6, <3>1
  <2>8. ASSUME StartHAProxy PROVE ConfTyped'
    <3>1. \/ Serving("haproxy", [hap EXCEPT !.running = hap.disk])
          \/ \E tripped, up \in BOOLEAN : Serving("haproxy", RollBack(hap, tripped, up))
      BY <2>8 DEF StartHAProxy, hap
    <3>2. ASSUME NEW tripped \in BOOLEAN, NEW up \in BOOLEAN PROVE RollBack(hap, tripped, up) \in Confs
      BY <2>5, <2>6 DEF RollBack
    <3>3. [hap EXCEPT !.running = hap.disk] \in Confs
      BY <2>5, <2>6
    <3> QED
      BY <2>4, <3>1, <3>2, <3>3 DEF Serving
  <2>9. ASSUME OverrideResolver \/ ActivateResolver PROVE ConfTyped'
    <3>1. conf' = conf
      BY <2>9 DEF OverrideResolver, ActivateResolver
    <3> QED
      BY <3>1 DEF HostTyped, ConfTyped
  <2>10. ASSUME WriteDnsmasq PROVE ConfTyped'
    <3>1. conf' = [conf EXCEPT !["dnsmasq"] = [dns EXCEPT !.disk = want.net, !.backup = BackedUp(dns)]]
      BY <2>10 DEF WriteDnsmasq, Serving, dns
    <3>2. BackedUp(dns) \in Nat
      BY <2>5, <2>6 DEF BackedUp
    <3> QED
      BY <2>2, <2>4, <2>5, <2>6, <3>1, <3>2
  <2>11. ASSUME StartDnsmasq PROVE ConfTyped'
    <3>1. \/ conf' = [conf EXCEPT !["dnsmasq"] = [dns EXCEPT !.running = dns.disk, !.backup = 0]]
          \/ \E up \in {dns.running, dns.backup, 0} :
                conf' = [conf EXCEPT !["dnsmasq"] = [dns EXCEPT !.disk = dns.backup, !.running = up]]
      BY <2>11 DEF StartDnsmasq, Serving, dns
    <3>2. 0 \in Nat
      OBVIOUS
    <3>3. [dns EXCEPT !.running = dns.disk, !.backup = 0] \in Confs
          /\ \A up \in {dns.running, dns.backup, 0} : [dns EXCEPT !.disk = dns.backup, !.running = up] \in Confs
      BY <2>5, <2>6, <3>2
    <3> QED
      BY <2>4, <3>1, <3>3
  <2>12. ASSUME CleanHAProxy PROVE ConfTyped'
    <3>1. conf' = [conf EXCEPT !["haproxy"] = hap] \/ conf' = [conf EXCEPT !["haproxy"] = NoConf]
      BY <2>12 DEF CleanHAProxy, Serving, hap
    <3>2. NoConf \in Confs
      BY DEF NoConf, Confs
    <3> QED
      BY <2>4, <2>6, <3>1, <3>2
  <2>13. ASSUME CleanDnsmasq PROVE ConfTyped'
    <3>1. conf' = conf \/ conf' = [conf EXCEPT !["dnsmasq"].disk = 0, !["dnsmasq"].running = 0]
      BY <2>13 DEF CleanDnsmasq
    <3>2. [conf EXCEPT !["dnsmasq"].disk = 0, !["dnsmasq"].running = 0]
             = [conf EXCEPT !["dnsmasq"] = [dns EXCEPT !.disk = 0, !.running = 0]]
      BY <2>2, <2>3 DEF dns, Confs
    <3>3. [dns EXCEPT !.disk = 0, !.running = 0] \in Confs
      BY <2>5, <2>6
    <3>4. conf' = conf => ConfTyped'
      BY <2>2 DEF ConfTyped
    <3> QED
      BY <2>4, <3>1, <3>2, <3>3, <3>4
  <2>14. ASSUME CleanBackups PROVE ConfTyped'
    <3>1. conf' = [conf EXCEPT !["dnsmasq"] = [dns EXCEPT !.backup = 0]]
      BY <2>14 DEF CleanBackups, Serving, dns
    <3> QED
      BY <2>4, <2>5, <2>6, <3>1
  <2>15. ConfTyped'
    BY <1>14, <2>7, <2>8, <2>9, <2>10, <2>11, <2>12, <2>13, <2>14
  <2> QED
    BY <1>1, <2>1, <2>15 DEF HostTyped
<1>15. CASE CleanServer
  <2>1. UNCHANGED <<want, files, services, edits>> /\ Quiet
    BY <1>15 DEF CleanServer
  <2>2. cert' \in {cert, [cert EXCEPT !.id = 0]} /\ httpd' \in {httpd, 0} /\ web' \in {web, [f \in Ignition |-> 0]}
    BY <1>15 DEF CleanServer
  <2>3. ServerTyped' /\ WebTyped'
    BY <2>1, <2>2 DEF HostTyped, ServerTyped, WebTyped, Certs
  <2> QED
    BY <1>1, <2>1, <2>3 DEF HostTyped
<1> QED
  BY <1>2, <1>3, <1>4, <1>5, <1>6, <1>7, <1>8, <1>9, <1>10, <1>11, <1>12, <1>13, <1>14, <1>15
     DEF Host, HostStep, ArtifactStep, ServiceStep, ArtifactTrouble


Base == tools.bins["openshift-install"]

\* The tools are of one release when the sentinel says so.
LEMMA ToolsStayKept ==
    ASSUME HostInv, HostTyped', [Host]_bastionVars
    PROVE  ToolsKept' /\ Base <= Base'
<1>1. /\ tools \in [bins : [Tools -> Nat], mark : Nat] /\ want.version \in Nat /\ want'.version \in Nat
      /\ want'.version <= edits' + 2 /\ want.version <= edits + 2 /\ edits \in Nat
      /\ "openshift-install" \in Tools
  BY BastionAssumption DEF HostInv, HostTyped, ToolsTyped, WantTyped, BudgetTyped, Tools
<1>2. ASSUME tools' = tools, want'.version >= want.version PROVE ToolsKept' /\ Base <= Base'
  BY <1>1, <1>2 DEF HostInv, ToolsKept, Version, Base
<1>3. ASSUME NEW b \in Tools, InstallTool(b) PROVE ToolsKept' /\ Base <= Base'
  <2>1. tools' = [tools EXCEPT !.bins[b] = want.version] /\ want' = want
    BY <1>3 DEF InstallTool
  <2>2. /\ tools'.mark = tools.mark /\ tools'.bins[b] = want.version
        /\ \A c \in Tools : c # b => tools'.bins[c] = tools.bins[c]
    BY <1>1, <2>1
  <2> QED
    BY <1>1, <2>1, <2>2 DEF HostInv, ToolsKept, Version, Base
<1>4. CASE ToolsInstalled
  <2>1. At("install-tools") /\ (step.left = {} \/ tools.mark = want.version)
    BY <1>4 DEF ToolsInstalled, ToolsReady
  <2>2. step.left = {} => \A b \in Tools : Version(b)
    <3>1. step.verb = "setup" /\ Place = 2
      BY <2>1, Places DEF At, HostInv, Verbs
    <3> QED
      BY <3>1 DEF HostInv, SetupStands, SetupBehind
  <2>3. \A b \in Tools : Version(b)
    BY <2>1, <2>2 DEF HostInv, ToolsKept
  <2>4. tools' = [tools EXCEPT !.mark = want.version] /\ want' = want
    BY <1>4 DEF ToolsInstalled
  <2> QED
    BY <1>1, <2>3, <2>4 DEF ToolsKept, Version, Base
<1>5. CASE UNCHANGED bastionVars
  <2>1. tools' = tools /\ want' = want
    BY <1>5 DEF bastionVars, files
  <2> QED
    BY <1>1, <1>2, <2>1
<1>6. CASE Edit
  <2>1. tools' = tools /\ edits' = edits + 1
    BY <1>6 DEF Edit, files
  <2>2. want'.version >= want.version
    <3>1. want \in [ip : Nat, net : Nat \ {0}, version : Nat]
      BY DEF HostInv, HostTyped, WantTyped
    <3> QED
      BY <1>1, <1>6, <3>1 DEF Edit
  <2> QED
    BY <1>2, <2>1, <2>2
<1>7. CASE tools' = tools /\ want' = want
  BY <1>1, <1>2, <1>7
<1>8. ASSUME Host, ~Edit, ~ToolsInstalled, \A b \in Tools : ~InstallTool(b) PROVE tools' = tools /\ want' = want
  <2> USE DEF files
  <2>1. CASE Setup \/ JoinWindow \/ FullCleanup \/ Killed \/ CleanFails \/ StepFails \/ Done \/ Wipe
    BY <2>1 DEF Setup, JoinWindow, FullCleanup, Begin, Killed, CleanFails, StepFails, Done, Wipe
  <2>2. CASE GenerateConfig \/ GenerateManifests \/ GenerateIgnition \/ ConfigureApache \/ Teardown
             \/ IgnitionDeployed \/ Iterated \/ VerifyWebServer \/ CleanServer
    BY <2>2 DEF GenerateConfig, GenerateManifests, GenerateIgnition, Installer, ConfigureApache, Teardown,
       IgnitionDeployed, Iterated, VerifyWebServer, CleanServer
  <2>3. CASE \/ WriteHAProxy \/ StartHAProxy \/ OverrideResolver \/ ActivateResolver \/ WriteDnsmasq
             \/ StartDnsmasq \/ CleanHAProxy \/ CleanDnsmasq \/ CleanBackups
    BY <2>3 DEF WriteHAProxy, StartHAProxy, OverrideResolver, ActivateResolver, WriteDnsmasq, StartDnsmasq,
       CleanHAProxy, CleanDnsmasq, CleanBackups
  <2>4. CASE \/ \E f \in Ignition : DeployFile(f)
             \/ \E n \in HostNodes : BuildISO(n) \/ UploadISO(n) \/ BuildCutShort(n) \/ UploadCutShort(n)
    BY <2>4 DEF DeployFile, BuildISO, UploadISO, BuildCutShort, UploadCutShort
  <2> QED
    BY <1>8, <2>1, <2>2, <2>3, <2>4 DEF Host, HostStep, ArtifactStep, ServiceStep, ArtifactTrouble
<1> QED
  BY <1>3, <1>4, <1>5, <1>6, <1>7, <1>8


\* A fingerprint tells of its ISO, or of nothing that is ever asked for again.
LEMMA StaysHonest ==
    ASSUME HostInv, HostTyped', [Host]_bastionVars
    PROVE  Honest'
<1>1. /\ want.net \in Nat \ {0} /\ want'.net \in Nat \ {0} /\ Base \in Nat /\ Base' \in Nat
      /\ EnsureIgnitionCert.id \in Nat /\ EnsureIgnitionCert'.id \in Nat
      /\ \A n \in HostNodes : fp[n] \in Stamps /\ iso[n] \in Stamps
  <2>1. /\ want.net \in Nat \ {0} /\ want'.net \in Nat \ {0} /\ Base \in Nat /\ Base' \in Nat
    BY DEF HostInv, HostTyped, WantTyped, ToolsTyped, Base, Tools
  <2>2. EnsureIgnitionCert \in Certs /\ EnsureIgnitionCert' \in Certs
    BY DEF HostInv, HostTyped, WantTyped, ServerTyped, Certs, EnsureIgnitionCert, Fresh
  <2>3. \A n \in HostNodes : fp[n] \in Stamps /\ iso[n] \in Stamps
    BY DEF HostInv, HostTyped, ImagesTyped
  <2> QED
    BY <2>1, <2>2, <2>3 DEF Certs
<1>2. Base <= Base'
  BY ToolsStayKept
<1>3. ASSUME NEW n \in HostNodes
      PROVE  /\ fp[n].net \in Nat /\ fp[n].cert \in Nat /\ fp[n].base \in Nat
             /\ Past(fp[n]) /\ (iso[n] = fp[n] \/ Superseded(fp[n]))
  BY <1>1 DEF HostInv, Honest, Stamps
<1>4. ASSUME NEW x, x.net \in Nat, x.cert \in Nat, x.base \in Nat,
             want.net <= want'.net, EnsureIgnitionCert.id <= EnsureIgnitionCert'.id, Past(x)
      PROVE  /\ x.net <= want'.net /\ x.cert <= EnsureIgnitionCert'.id /\ x.base <= Base'
             /\ Superseded(x) => x.net < want'.net \/ x.cert < EnsureIgnitionCert'.id \/ x.base < Base'
  BY <1>1, <1>2, <1>4 DEF Past, Superseded, Base
<1>5. ASSUME iso' = iso, fp' = fp, want.net <= want'.net, EnsureIgnitionCert.id <= EnsureIgnitionCert'.id
      PROVE  Honest'
  BY <1>3, <1>4, <1>5 DEF Honest, Past, Superseded, Base
<1>6. ASSUME UNCHANGED <<iso, fp, want>>,
             \/ cert' = cert \/ cert' = EnsureIgnitionCert \/ cert' = [cert EXCEPT !.id = 0]
             \/ cert' = [cert EXCEPT !.expired = TRUE]
      PROVE  Honest'
  BY <1>1, <1>5, <1>6, CertsGrow DEF HostInv
<1>7. CASE UNCHANGED bastionVars
  BY <1>6, <1>7 DEF bastionVars, files, server
<1>8. CASE Edit
  <2>1. iso' = iso /\ fp' = fp
    BY <1>8 DEF Edit, files
  <2>2. CASE cert' = [cert EXCEPT !.expired = TRUE] /\ want' = want
    BY <1>6, <2>1, <2>2
  <2>3. ASSUME NEW field \in {"ip", "net", "version"}, want' = [want EXCEPT ![field] = edits + 3], cert' = cert
        PROVE  Honest'
    <3>1. /\ want \in [ip : Nat, net : Nat \ {0}, version : Nat] /\ edits \in Nat
          /\ want.ip <= edits + 2 /\ want.net <= edits + 2
      BY BastionAssumption DEF HostInv, HostTyped, WantTyped, BudgetTyped
    <3>2. want.net <= want'.net /\ (want'.ip = want.ip \/ want'.ip > want.ip)
      BY <2>3, <3>1
    <3> QED
      BY <1>5, <2>1, <2>3, <3>2, CertsGrow DEF HostInv
  <2> QED
    BY <1>8, <2>2, <2>3 DEF Edit
<1>9. CASE Wipe
  <2>1. CASE UNCHANGED <<iso, fp>>
    BY <1>6, <1>9, <2>1 DEF Wipe, server
  <2>2. CASE iso' = [n \in HostNodes |-> None] /\ fp' = iso'
    BY <1>1, <2>2 DEF Honest, Past, None, Base
  <2> QED
    BY <1>9, <2>1, <2>2 DEF Wipe
<1>10. ASSUME NEW n \in HostNodes, BuildISO(n) \/ BuildCutShort(n) PROVE Honest'
  <2>1. /\ want' = want /\ tools' = tools /\ cert' = EnsureIgnitionCert
        /\ EnsureIgnitionCert'.id = EnsureIgnitionCert.id
    BY <1>10, CertEnsured DEF BuildISO, BuildCutShort, HostInv
  <2>2. ASSUME NEW m \in HostNodes, iso'[m] = iso[m], fp'[m] = fp[m]
        PROVE  Past(fp[m])' /\ (iso'[m] = fp'[m] \/ Superseded(fp[m])')
    BY <1>3, <2>1, <2>2 DEF Past, Superseded
  <2>3. iso \in [HostNodes -> Stamps] /\ fp \in [HostNodes -> Stamps]
    BY DEF HostInv, HostTyped, ImagesTyped
  <2>4. /\ \A m \in HostNodes : m # n => iso'[m] = iso[m] /\ fp'[m] = fp[m]
        /\ \/ iso'[n] = iso[n] /\ fp'[n] = fp[n]
           \/ ~Unchanged(n) /\ iso'[n] = Content /\ fp'[n] \in {fp[n], Content}
           \/ ~Unchanged(n) /\ iso'[n] \in {None, Torn} /\ fp'[n] = fp[n]
    BY <1>10, <2>3 DEF BuildISO, BuildCutShort, NodeISOFingerprint
  <2>5. /\ Content.net = want.net /\ Content.cert = EnsureIgnitionCert.id /\ Content.base = Base
        /\ Content = [net |-> want.net, cert |-> EnsureIgnitionCert.id, base |-> Base]
    BY DEF Content, Base
  <2>6. fp[n] # Content => Superseded(fp[n])
    <3>1. fp[n] = [net |-> fp[n].net, cert |-> fp[n].cert, base |-> fp[n].base]
      BY <1>1 DEF Stamps
    <3> QED
      BY <1>1, <1>3, <2>5, <3>1 DEF Past, Superseded, Base
  <2>7. ~Unchanged(n) => fp[n] # Content \/ iso[n] = None
    BY DEF Unchanged, NodeISOFingerprint
  <2>8. iso[n] = None => Superseded(fp[n])
    BY <1>1, <1>3 DEF None, Superseded
  <2>9. CASE iso'[n] = Content /\ fp'[n] = Content
    <3>1. Past(fp[n])'
      BY <1>1, <2>1, <2>5, <2>9 DEF Past, Base
    <3> QED
      BY <2>2, <2>4, <2>9, <3>1 DEF Honest
  <2>10. CASE fp'[n] = fp[n] /\ Superseded(fp[n])
    <3>1. Past(fp[n])' /\ Superseded(fp[n])'
      BY <1>3, <2>1, <2>10 DEF Past, Superseded
    <3> QED
      BY <2>2, <2>4, <3>1 DEF Honest
  <2>11. CASE iso'[n] = iso[n] /\ fp'[n] = fp[n]
    BY <2>2, <2>4, <2>11 DEF Honest
  <2> QED
    BY <2>4, <2>6, <2>7, <2>8, <2>9, <2>10, <2>11
<1>11. CASE Setup \/ JoinWindow \/ FullCleanup \/ Killed \/ CleanFails \/ StepFails \/ Done
  BY <1>6, <1>11 DEF Setup, JoinWindow, FullCleanup, Begin, Killed, CleanFails, StepFails, Done, files, server
<1>12. CASE GenerateConfig \/ GenerateManifests \/ GenerateIgnition \/ ConfigureApache \/ Teardown
           \/ IgnitionDeployed \/ Iterated \/ VerifyWebServer \/ CleanServer
  <2>1. UNCHANGED <<iso, fp, want>> /\ cert' \in {cert, EnsureIgnitionCert, [cert EXCEPT !.id = 0]}
    BY <1>12 DEF GenerateConfig, GenerateManifests, GenerateIgnition, Installer, ConfigureApache, Teardown,
       IgnitionDeployed, Iterated, VerifyWebServer, CleanServer, files, server
  <2> QED
    BY <1>6, <2>1
<1>13. CASE \/ WriteHAProxy \/ StartHAProxy \/ OverrideResolver \/ ActivateResolver \/ WriteDnsmasq
            \/ StartDnsmasq \/ CleanHAProxy \/ CleanDnsmasq \/ CleanBackups
  <2>1. UNCHANGED <<iso, fp, want, cert>>
    BY <1>13 DEF WriteHAProxy, StartHAProxy, OverrideResolver, ActivateResolver, WriteDnsmasq, StartDnsmasq,
       CleanHAProxy, CleanDnsmasq, CleanBackups, files, server
  <2> QED
    BY <1>6, <2>1
<1>14. CASE \/ ToolsInstalled \/ \E b \in Tools : InstallTool(b)
            \/ \E f \in Ignition : DeployFile(f)
            \/ \E n \in HostNodes : UploadISO(n) \/ UploadCutShort(n)
  <2>1. UNCHANGED <<iso, fp, want, cert>>
    BY <1>14 DEF ToolsInstalled, InstallTool, DeployFile, UploadISO, UploadCutShort, files, server
  <2> QED
    BY <1>6, <2>1
<1> QED
  BY <1>7, <1>8, <1>9, <1>10, <1>11, <1>12, <1>13, <1>14 DEF Host, HostStep, ArtifactStep, ServiceStep, ArtifactTrouble


-----------------------------------------------------------------------------
(* What the commands have behind them *)

LEMMA SubjectsNamed == ASSUME NEW id PROVE Subjects(id) \subseteq Names
BY DEF Subjects, Names, Ignition

LEMMA NewStep ==
    ASSUME StepTyped, troubles \in Nat, troubles' \in Nat, troubles <= troubles',
           NEW todo \in Seq(StepNames), NEW left \in SUBSET Names, NEW found \in Nat, NEW failed \in BOOLEAN,
           step' = [step EXCEPT !.todo = todo, !.left = left, !.found = found, !.failed = failed]
    PROVE  StepTyped'
<1>1. step \in [verb : Verbs \cup {"none"}, todo : Seq(StepNames), left : SUBSET Names, before : Nat,
                found : Nat, failed : BOOLEAN, was : Verbs \cup {"none"}] /\ step.before <= troubles
  BY DEF StepTyped
<1>2. step.before \in 0..troubles'
  BY <1>1
<1> QED
  BY <1>1, <1>2 DEF StepTyped

LEMMA EnterNext ==
    ASSUME StepTyped, Planned, Running, Place < Len(Plan(step.verb)), Proceed,
           troubles \in Nat, troubles' \in Nat, troubles <= troubles'
    PROVE  /\ StepTyped' /\ Planned' /\ Built' /\ Place' = Place + 1
           /\ step'.verb = step.verb /\ step'.before = step.before
           /\ Head(step'.todo) = Plan(step.verb)[Place + 1] /\ step'.left = Subjects(Head(step'.todo))
<1>1. /\ step'.verb = step.verb /\ step'.todo = Tail(step.todo) /\ step'.left = Subjects(Head(Tail(step.todo)))
      /\ step'.before = step.before /\ step'.found = step.found /\ step'.failed = step.failed /\ step'.was = step.was
      /\ step' = [step EXCEPT !.todo = Tail(step.todo), !.left = Subjects(Head(Tail(step.todo)))]
  BY DEF Proceed, Enter, StepTyped
<1>2. /\ Planned' /\ Place' = Place + 1 /\ step'.todo \in Seq(StepNames)
      /\ Head(step'.todo) = Plan(step.verb)[Place + 1]
  BY <1>1, Advance
<1>3. step'.left \in SUBSET Names
  BY <1>1, SubjectsNamed
<1>4. StepTyped'
  <2> DEFINE todo == Tail(step.todo)
             left == Subjects(Head(todo))
  <2>1. todo \in Seq(StepNames) /\ left \in SUBSET Names /\ step.found \in Nat /\ step.failed \in BOOLEAN
    BY <1>1, <1>2, <1>3 DEF StepTyped
  <2>2. step' = [step EXCEPT !.todo = todo, !.left = left, !.found = step.found, !.failed = step.failed]
    BY <1>1 DEF StepTyped
  <2> HIDE DEF todo, left
  <2> QED
    BY <2>1, <2>2, NewStep
<1>5. Built'
  BY <1>1 DEF Built, At, Subjects
<1> QED
  BY <1>1, <1>2, <1>4, <1>5

LEMMA HandleOne ==
    ASSUME StepTyped, Planned, Running, NEW s, Handled(s), troubles \in Nat, troubles' \in Nat, troubles <= troubles'
    PROVE  /\ StepTyped' /\ Planned' /\ Place' = Place /\ Running'
           /\ step'.verb = step.verb /\ step'.before = step.before
           /\ step'.todo = step.todo /\ step'.left = step.left \ {s}
<1>1. /\ step'.verb = step.verb /\ step'.todo = step.todo /\ step'.left = step.left \ {s}
      /\ step'.before = step.before
  BY DEF Handled, StepTyped
<1>2. StepTyped'
  BY DEF Handled, StepTyped
<1>3. Planned' /\ Place' = Place
  BY <1>1, SameTodo
<1> QED
  BY <1>1, <1>2, <1>3 DEF Running

LEMMA EndIt ==
    ASSUME StepTyped, NEW ok \in BOOLEAN, Ended(ok), troubles' \in Nat
    PROVE  StepTyped' /\ step'.verb = "none" /\ step'.failed = ~ok /\ Planned' /\ Built' /\ SetupStands'
<1>1. step' = [NoStep EXCEPT !.failed = ~ok, !.was = step.verb] /\ step.verb \in Verbs \cup {"none"}
  BY DEF Ended, StepTyped
<1>2. <<>> \in Seq(StepNames) /\ 0 \in 0..troubles'
  OBVIOUS
<1>3. StepTyped' /\ step'.verb = "none" /\ step'.failed = ~ok
  BY <1>1, <1>2 DEF StepTyped, NoStep
<1> QED
  BY <1>3, Ends

LEMMA FailOut ==
    ASSUME StepTyped, Planned, Running, Fails, troubles \in Nat, troubles' \in Nat, troubles <= troubles',
           Place < Len(Plan(step.verb))
    PROVE  /\ StepTyped' /\ Planned' /\ Built'
           /\ \/ step'.verb = "none" /\ step'.failed
              \/ step.verb = "setup" /\ Place \in {6, 10} /\ Proceed
              \/ step'.verb = "window" /\ Head(step'.todo) = "teardown"
<1>1. CASE step.verb = "setup" /\ Head(step.todo) \in NonFatal
  <2>1. Proceed /\ Place \in {6, 10}
    BY <1>1, Places DEF Fails, NonFatal, Plan, SetupSteps
  <2> QED
    BY <1>1, <2>1, EnterNext
<1>2. CASE step.verb = "window"
  <2>1. step' = [step EXCEPT !.todo = <<"teardown">>, !.left = {}, !.failed = TRUE]
    BY <1>2 DEF Fails
  <2>2. /\ step'.verb = "window" /\ step'.todo = <<"teardown">> /\ step'.left = {} /\ step'.failed
        /\ step'.found = step.found
    BY <1>2, <2>1 DEF StepTyped
  <2>7. Len(Plan("window")) = 5
    BY PlanFacts DEF Plan
  <2>8. /\ step'.verb = "window" /\ step'.todo = From("window", 5) /\ 5 \in 1..Len(Plan("window"))
        /\ "window" \in Verbs
    <3>1. "window" \in Verbs
      BY DEF Verbs
    <3>2. 5 \in 1..5
      OBVIOUS
    <3>3. 5 \in 1..Len(Plan("window"))
      BY Zenon, <2>7, <3>2
    <3> QED
      BY Zenon, <2>2, <3>1, <3>3, Lasts
  <2>3. Planned' /\ step'.todo \in Seq(StepNames) /\ Head(step'.todo) = Plan("window")[5]
    BY <2>8, Jumps
  <2>4. Plan("window")[5] = "teardown"
    BY DEF Plan, WindowSteps
  <2>5. StepTyped'
    <3>1. /\ <<"teardown">> \in Seq(StepNames) /\ {} \in SUBSET Names /\ step.found \in Nat
      BY <2>2, <2>3 DEF StepTyped
    <3>2. step' = [step EXCEPT !.todo = <<"teardown">>, !.left = {}, !.found = step.found, !.failed = TRUE]
      BY <2>1 DEF StepTyped
    <3> QED
      BY <3>1, <3>2, NewStep
  <2>6. Built'
    BY <2>3, <2>4 DEF Built, At
  <2> QED
    BY <2>2, <2>3, <2>4, <2>5, <2>6
<1>3. CASE Ended(FALSE)
  BY <1>3, EndIt
<1> QED
  BY <1>1, <1>2, <1>3 DEF Fails


\* What a setup is at, by name.
LEMMA SetupPlan ==
    /\ Len(Plan("setup")) = 17 /\ Plan("setup")[2] = "install-tools" /\ Plan("setup")[7] = "deploy-ignition"
    /\ Plan("setup")[9] = "build-isos" /\ Plan("setup")[10] = "upload-isos" /\ Plan("setup")[17] = "done"
<1>1. Plan("setup") = SetupSteps
  BY DEF Plan
<1> QED
  BY <1>1, PlanFacts DEF SetupSteps

\* Past the ISOs nothing that a setup promises moves any more.
LEMMA LaterStands ==
    ASSUME SetupBehind(Place), Place \in Nat, Place' \in Nat, Place > 10, Place' > 10,
           UNCHANGED <<want, files, server>>, step'.before = step.before,
           step.before \in Nat, troubles \in Nat, troubles' \in Nat, troubles <= troubles'
    PROVE  SetupBehind(Place)'
<1>1. UNCHANGED <<want, tools, dir, iso, remote, cert, httpd, web>>
  BY DEF files, server
<1>2. Faulted => Faulted'
  BY DEF Faulted
<1> QED
  BY <1>1, <1>2 DEF SetupBehind, Version, CertGood, Whole, Uploaded


LEMMA Rests ==
    ASSUME NEW S, NEW s \in Seq(S), Len(s) >= 1
    PROVE  /\ Tail(s) \in Seq(S) /\ Len(Tail(s)) = Len(s) - 1
           /\ \A i \in 1..Len(s) - 1 : Tail(s)[i] = s[i + 1]
<1>1. Len(s) \in Nat /\ s # <<>>
  OBVIOUS
<1>2. Tail(s) \in Seq(S) /\ Len(Tail(s)) = Len(s) - 1
  BY <1>1
<1>3. \A i \in 1..Len(s) - 1 : Tail(s)[i] = s[i + 1]
  BY <1>1
<1> QED
  BY <1>2, <1>3

\* A sequence without its first two elements.
LEMMA Cut ==
    ASSUME NEW S, NEW s \in Seq(S), NEW n \in Nat, n = Len(s), n >= 2
    PROVE  /\ SubSeq(s, 3, n) \in Seq(S) /\ Len(SubSeq(s, 3, n)) = n - 2
           /\ \A i \in 1..n - 2 : SubSeq(s, 3, n)[i] = s[i + 2]
<1>1. SubSeq(s, 3, n) \in Seq(S)
  OBVIOUS
<1>2. Len(SubSeq(s, 3, n)) = n - 2
  <2>1. CASE n = 2
    BY <2>1
  <2>2. CASE n >= 3
    BY <2>2
  <2> QED
    BY <2>1, <2>2
<1>3. \A i \in 1..n - 2 : SubSeq(s, 3, n)[i] = s[i + 2]
  OBVIOUS
<1> QED
  BY <1>1, <1>2, <1>3

LEMMA SkipTwo ==
    ASSUME NEW s \in Seq(StepNames), Len(s) >= 2
    PROVE  SubSeq(s, 3, Len(s)) = Tail(Tail(s))
<1> DEFINE t == Tail(s)
           u == Tail(t)
           w == SubSeq(s, 3, Len(s))
<1>1. Len(s) \in Nat
  OBVIOUS
<1>2. t \in Seq(StepNames) /\ Len(t) = Len(s) - 1 /\ \A i \in 1..Len(s) - 1 : t[i] = s[i + 1]
  BY <1>1, Rests
<1>3. /\ w \in Seq(StepNames) /\ Len(w) = Len(s) - 2
      /\ \A i \in 1..Len(s) - 2 : w[i] = s[i + 2]
  BY <1>1, Cut
<1> HIDE DEF t, w
<1>4. u \in Seq(StepNames) /\ Len(u) = Len(t) - 1 /\ \A i \in 1..Len(t) - 1 : u[i] = t[i + 1]
  <2>1. Len(t) >= 1
    BY <1>1, <1>2
  <2> QED
    BY <1>2, <2>1, Rests
<1> HIDE DEF u
<1>5. Len(u) = Len(w) /\ \A i \in 1..Len(u) : u[i] = w[i]
  BY <1>1, <1>2, <1>3, <1>4
<1>6. u = w
  BY <1>3, <1>4, <1>5
<1> QED
  BY <1>6 DEF u, w, t

\* A cleanup goes on over what it could not remove.
LEMMA GoesOnCleaning ==
    ASSUME StepTyped, Planned, step.verb = "cleanup", Place < 8, NEW bad \in BOOLEAN,
           step' = [step EXCEPT !.todo = Tail(step.todo), !.failed = bad],
           troubles \in Nat, troubles' \in Nat, troubles <= troubles'
    PROVE  StepTyped' /\ Planned' /\ Built' /\ SetupStands' /\ Place' = Place + 1 /\ step'.verb = "cleanup"
<1>1. /\ step'.verb = "cleanup" /\ step'.todo = Tail(step.todo) /\ step.left \in SUBSET Names /\ step.found \in Nat
      /\ step' = [step EXCEPT !.todo = Tail(step.todo), !.left = step.left, !.found = step.found, !.failed = bad]
  BY DEF StepTyped
<1>2. Len(Plan("cleanup")) = 8 /\ Plan("cleanup") = CleanupSteps
  BY PlanFacts DEF Plan
<1>3. Running /\ Place \in 1..8
  BY <1>2 DEF Planned, Running
<1>4. /\ Planned' /\ Place' = Place + 1 /\ step'.todo \in Seq(StepNames)
      /\ Head(step'.todo) = CleanupSteps[Place + 1]
  <2>1. Place < Len(Plan(step.verb)) /\ step'.verb = step.verb
    BY <1>1, <1>2
  <2>2. Plan(step.verb) = CleanupSteps
    BY <1>2
  <2> QED
    BY <1>1, <1>3, <2>1, <2>2, Advance
<1>5. StepTyped'
  <2>1. step \in [verb : Verbs \cup {"none"}, todo : Seq(StepNames), left : SUBSET Names, before : Nat,
                  found : Nat, failed : BOOLEAN, was : Verbs \cup {"none"}] /\ step.before <= troubles
    BY DEF StepTyped
  <2>2. step.before \in 0..troubles'
    BY <2>1
  <2>3. Tail(step.todo) \in Seq(StepNames)
    BY <1>1, <1>4
  <2> QED
    BY <2>1, <2>2, <2>3 DEF StepTyped
<1>6. Head(step'.todo) # "build-isos"
  <2>1. \A i \in 1..8 : CleanupSteps[i] # "build-isos"
    BY DEF CleanupSteps
  <2> DEFINE q == Place
  <2>2. q + 1 \in 1..8
    BY <1>3
  <2> QED
    BY <1>4, <2>1, <2>2
<1> QED
  BY <1>1, <1>4, <1>5, <1>6 DEF Built, At, SetupStands


LEMMA Counts ==
    ASSUME HostTyped, HostTyped'
    PROVE  troubles \in Nat /\ troubles' \in Nat
BY BastionAssumption DEF HostTyped, BudgetTyped

\* Each step belongs to one place of one plan, or of two.
LEMMA Wheres ==
    ASSUME StepTyped, Planned
    PROVE  /\ At("install-tools") => step.verb = "setup" /\ Place = 2
           /\ At("generate-config") => step.verb = "setup" /\ Place = 3
           /\ At("generate-manifests") => step.verb = "setup" /\ Place = 4
           /\ At("generate-ignition") => step.verb = "setup" /\ Place = 5
           /\ At("install-apache") => step.verb = "setup" /\ Place = 6
           /\ At("deploy-ignition") => step.verb = "setup" /\ Place = 7
           /\ At("verify-webserver") => step.verb = "setup" /\ Place = 8
           /\ At("build-isos") => (step.verb = "setup" /\ Place = 9) \/ (step.verb = "window" /\ Place = 3)
           /\ At("upload-isos") => (step.verb = "setup" /\ Place = 10) \/ (step.verb = "window" /\ Place = 4)
           /\ At("write-haproxy") => step.verb = "setup" /\ Place = 11
           /\ At("start-haproxy") => step.verb = "setup" /\ Place = 12
           /\ At("override-resolver") => step.verb = "setup" /\ Place = 13
           /\ At("activate-resolver") => step.verb = "setup" /\ Place = 14
           /\ At("write-dnsmasq") => step.verb = "setup" /\ Place = 15
           /\ At("start-dnsmasq") => step.verb = "setup" /\ Place = 16
           /\ At("revive") => step.verb = "window" /\ Place = 1
           /\ At("publish-worker") => step.verb = "window" /\ Place = 2
           /\ At("wipe") => (step.verb = "setup" \/ step.verb = "cleanup") /\ Place = 1
           /\ At("clean-web") => step.verb = "cleanup" /\ Place = 2
           /\ At("clean-haproxy") => step.verb = "cleanup" /\ Place = 3
           /\ At("clean-apache") => step.verb = "cleanup" /\ Place = 4
           /\ At("clean-dnsmasq") => step.verb = "cleanup" /\ Place = 5
           /\ At("clean-backups") => step.verb = "cleanup" /\ Place = 6
           /\ At("clean-certs") => step.verb = "cleanup" /\ Place = 7
           /\ At("done") => (step.verb = "setup" /\ Place = 17) \/ (step.verb = "cleanup" /\ Place = 8)
<1>1. CASE ~Running
  BY <1>1 DEF At
<1>2. CASE step.verb = "setup"
  <2>1. Running
    BY <1>2 DEF Running
  <2> DEFINE id == Head(step.todo)
             p == Place
  <2> HIDE DEF id, p
  <2>2. /\ p \in 1..17
        /\ (id = "wipe" <=> p = 1) /\ (id = "install-tools" <=> p = 2) /\ (id = "generate-config" <=> p = 3)
        /\ (id = "generate-manifests" <=> p = 4) /\ (id = "generate-ignition" <=> p = 5)
        /\ (id = "install-apache" <=> p = 6) /\ (id = "deploy-ignition" <=> p = 7)
        /\ (id = "verify-webserver" <=> p = 8) /\ (id = "build-isos" <=> p = 9)
        /\ (id = "upload-isos" <=> p = 10) /\ (id = "write-haproxy" <=> p = 11)
        /\ (id = "start-haproxy" <=> p = 12) /\ (id = "override-resolver" <=> p = 13)
        /\ (id = "activate-resolver" <=> p = 14) /\ (id = "write-dnsmasq" <=> p = 15)
        /\ (id = "start-dnsmasq" <=> p = 16) /\ (id = "done" <=> p = 17)
    BY <1>2, <2>1, Places DEF id, p
  <2> QED
    BY <1>2, <2>2 DEF At, id, p
<1>3. CASE step.verb = "window"
  <2>1. Running
    BY <1>3 DEF Running
  <2> DEFINE id == Head(step.todo)
             p == Place
  <2> HIDE DEF id, p
  <2>2. /\ p \in 1..5
        /\ (id = "revive" <=> p = 1) /\ (id = "publish-worker" <=> p = 2) /\ (id = "build-isos" <=> p = 3)
        /\ (id = "upload-isos" <=> p = 4) /\ (id = "teardown" <=> p = 5)
    BY <1>3, <2>1, Places DEF id, p
  <2> QED
    BY <1>3, <2>2 DEF At, id, p
<1>4. CASE step.verb = "cleanup"
  <2>1. Running
    BY <1>4 DEF Running
  <2> DEFINE id == Head(step.todo)
             p == Place
  <2> HIDE DEF id, p
  <2>2. /\ p \in 1..8
        /\ (id = "wipe" <=> p = 1) /\ (id = "clean-web" <=> p = 2) /\ (id = "clean-haproxy" <=> p = 3)
        /\ (id = "clean-apache" <=> p = 4) /\ (id = "clean-dnsmasq" <=> p = 5)
        /\ (id = "clean-backups" <=> p = 6) /\ (id = "clean-certs" <=> p = 7) /\ (id = "done" <=> p = 8)
    BY <1>4, <2>1, Places DEF id, p
  <2> QED
    BY <1>4, <2>2 DEF At, id, p
<1> QED
  BY <1>1, <1>2, <1>3, <1>4, Places DEF Verbs

\* A step that fails ends the command, except in a setup that goes on without it.
LEMMA FailsStand ==
    ASSUME StepTyped, Planned, Running, Fails, troubles \in Nat, troubles' \in Nat, troubles <= troubles',
           Place < Len(Plan(step.verb)), ~(step.verb = "setup" /\ Place \in {6, 10})
    PROVE  CommandStands'
<1>1. /\ StepTyped' /\ Planned' /\ Built'
      /\ (step'.verb = "none" /\ step'.failed) \/ (step'.verb = "window" /\ Head(step'.todo) = "teardown")
  BY FailOut
<1> QED
  BY <1>1 DEF CommandStands, SetupStands

\* Every command but setup promises only the ISOs it built.
LEMMA NextStands ==
    ASSUME StepTyped, Planned, Running, Place < Len(Plan(step.verb)), Proceed,
           troubles \in Nat, troubles' \in Nat, troubles <= troubles',
           step.verb = "setup" /\ Place' = Place + 1 /\ step'.before = step.before
                /\ step'.left = Subjects(Plan(step.verb)[Place + 1]) => SetupBehind(Place)'
    PROVE  CommandStands'
<1>1. /\ StepTyped' /\ Planned' /\ Built' /\ Place' = Place + 1
      /\ step'.verb = step.verb /\ step'.before = step.before
      /\ step'.left = Subjects(Plan(step.verb)[Place + 1])
  BY EnterNext
<1> QED
  BY <1>1 DEF CommandStands, SetupStands

LEMMA EndStands ==
    ASSUME StepTyped, NEW ok \in BOOLEAN, Ended(ok), troubles' \in Nat
    PROVE  CommandStands'
BY EndIt DEF CommandStands


LEMMA Starts ==
    /\ Len(Plan("setup")) = 17 /\ Len(Plan("window")) = 5 /\ Len(Plan("cleanup")) = 8
    /\ Subjects(Plan("setup")[2]) = Tools /\ Subjects(Plan("setup")[7]) = Ignition
    /\ Subjects(Plan("setup")[9]) = HostNodes /\ Subjects(Plan("setup")[10]) = HostNodes
<1>1. Len(Plan("window")) = 5 /\ Len(Plan("cleanup")) = 8
  BY PlanFacts DEF Plan
<1> QED
  BY <1>1, SetupPlan DEF Subjects

LEMMA Lengths ==
    /\ step.verb = "setup" => Len(Plan(step.verb)) = 17
    /\ step.verb = "window" => Len(Plan(step.verb)) = 5
    /\ step.verb = "cleanup" => Len(Plan(step.verb)) = 8
<1>1. ASSUME step.verb = "setup" PROVE Len(Plan(step.verb)) = 17
  BY <1>1, Starts
<1>2. ASSUME step.verb = "window" PROVE Len(Plan(step.verb)) = 5
  BY <1>2, Starts
<1>3. ASSUME step.verb = "cleanup" PROVE Len(Plan(step.verb)) = 8
  BY <1>3, Starts
<1> QED
  BY <1>1, <1>2, <1>3

\* A step from the state that stands, with the types after it.
GoesOn == HostInv /\ HostTyped' /\ troubles <= troubles'

LEMMA GoesFacts ==
    ASSUME GoesOn
    PROVE  /\ StepTyped /\ Planned /\ Unoccupied /\ Built /\ troubles \in Nat /\ troubles' \in Nat /\ troubles <= troubles'
           /\ step.verb = "setup" => SetupBehind(Place)
           /\ want.net # 0 /\ want.net \in Nat /\ Place \in Nat
           /\ step.before \in Nat /\ step.before <= troubles
<1>1. HostTyped /\ HostTyped' /\ StepTyped /\ Planned /\ Unoccupied /\ Built /\ SetupStands /\ troubles <= troubles'
  BY DEF GoesOn, HostInv
<1>2. troubles \in Nat /\ troubles' \in Nat
  BY <1>1, Counts
<1>3. step.before \in Nat /\ step.before <= troubles
  BY <1>1, <1>2 DEF StepTyped
<1>4. want.net # 0 /\ want.net \in Nat
  BY <1>1 DEF HostTyped, WantTyped
<1>5. Place \in Nat
  <2>1. CASE step.verb = "none"
    <3>1. step.todo = <<>> /\ Plan("none") = CleanupSteps
      BY <1>1, <2>1 DEF Unoccupied, Plan
    <3>2. Len(Plan(step.verb)) = 8 /\ Len(step.todo) = 0
      BY <2>1, <3>1, PlanFacts
    <3> QED
      BY <3>2 DEF Place
  <2>2. CASE step.verb # "none"
    <3>1. step.verb \in Verbs
      BY <1>1, <2>2 DEF StepTyped
    <3>2. Len(Plan(step.verb)) \in Nat
      BY <3>1, Starts DEF Verbs
    <3> QED
      BY <1>1, <2>2, <3>2 DEF Planned
  <2> QED
    BY <2>1, <2>2
<1> QED
  BY <1>1, <1>2, <1>3, <1>4, <1>5 DEF SetupStands

LEMMA WipeStands == ASSUME GoesOn, Wipe PROVE CommandStands'
<1>1. /\ Running /\ (step.verb = "setup" \/ step.verb = "cleanup") /\ Place = 1 /\ Place < Len(Plan(step.verb))
      /\ step.verb = "cleanup" => Place < 8
  <2>1. Running /\ (step.verb = "setup" \/ step.verb = "cleanup") /\ Place = 1
    BY GoesFacts, Wheres DEF Wipe, At
  <2> QED
    BY <2>1, Lengths
<1>2. CASE dir' = EmptyDir /\ Proceed
  <2>1. ASSUME step.verb = "setup", Place' = Place + 1, step'.left = Subjects(Plan(step.verb)[Place + 1])
        PROVE  SetupBehind(Place)'
    <3>1. Place' = 2 /\ step'.left = Tools
      BY <1>1, <2>1, Starts
    <3> QED
      BY <1>2, <3>1 DEF SetupBehind
  <2> QED
    BY <1>1, <1>2, <2>1, GoesFacts, NextStands
<1>3. CASE step.verb = "setup" /\ Fails
  BY <1>1, <1>3, GoesFacts, FailsStand
<1>4. CASE step.verb = "cleanup" /\ step' = [step EXCEPT !.todo = Tail(step.todo), !.failed = TRUE]
  BY <1>1, <1>4, GoesFacts, GoesOnCleaning DEF CommandStands
<1> QED
  BY <1>1, <1>2, <1>3, <1>4 DEF Wipe

LEMMA ToolStands == ASSUME GoesOn, NEW b \in Tools, InstallTool(b) PROVE CommandStands'
<1>1. Running /\ step.verb = "setup" /\ Place = 2 /\ Handled(b)
  BY GoesFacts, Wheres DEF InstallTool, At
<1>2. /\ StepTyped' /\ Planned' /\ Place' = 2 /\ step'.left = step.left \ {b}
      /\ step'.todo = step.todo
  BY <1>1, GoesFacts, HandleOne
<1>3. /\ tools' = [tools EXCEPT !.bins[b] = want.version] /\ want' = want /\ dir' = dir
      /\ Head(step.todo) = "install-tools"
  BY DEF InstallTool, At
<1>4. tools \in [bins : [Tools -> Nat], mark : Nat]
  BY DEF GoesOn, HostInv, HostTyped, ToolsTyped
<1>5. tools'.bins[b] = want.version /\ \A c \in Tools : c # b => tools'.bins[c] = tools.bins[c]
  BY <1>3, <1>4
<1>6. (\A c \in Tools \ step.left : Version(c)) /\ dir = EmptyDir
  BY <1>1, GoesFacts DEF SetupBehind
<1>7. SetupBehind(Place)'
  BY <1>2, <1>3, <1>5, <1>6 DEF SetupBehind, Version
<1> QED
  BY <1>2, <1>3, <1>7 DEF CommandStands, SetupStands, Built, At

LEMMA ToolsAllStand == ASSUME GoesOn, ToolsInstalled PROVE CommandStands'
<1>1. Running /\ step.verb = "setup" /\ Place = 2 /\ Proceed /\ Place < Len(Plan(step.verb))
  BY GoesFacts, Wheres, Starts DEF ToolsInstalled, At
<1>2. \A b \in Tools : Version(b)
  <2>1. step.left = {} => \A b \in Tools : Version(b)
    BY <1>1, GoesFacts DEF SetupBehind
  <2> QED
    BY <2>1 DEF ToolsInstalled, ToolsReady, GoesOn, HostInv, ToolsKept
<1>3. tools'.bins = tools.bins /\ want' = want /\ dir' = dir
  BY DEF ToolsInstalled, GoesOn, HostInv, HostTyped, ToolsTyped
<1>4. dir = EmptyDir
  BY <1>1, GoesFacts DEF SetupBehind
<1>5. ASSUME Place' = Place + 1 PROVE SetupBehind(Place)'
  <2>1. Place' = 3
    BY <1>1, <1>5
  <2> QED
    BY <1>2, <1>3, <1>4, <2>1 DEF SetupBehind, Version
<1> QED
  BY <1>1, <1>5, GoesFacts, NextStands

LEMMA InstallerStands ==
    ASSUME GoesOn, GenerateConfig \/ GenerateManifests \/ GenerateIgnition PROVE CommandStands'
<1>1. want' = want /\ tools' = tools
  BY DEF GenerateConfig, GenerateManifests, GenerateIgnition, Installer
<1>2. dir \in Dirs
  BY DEF GoesOn, HostInv, HostTyped
<1>3. CASE GenerateConfig
  <2>1. Running /\ step.verb = "setup" /\ Place = 3 /\ Proceed /\ Place < Len(Plan(step.verb))
    BY <1>3, GoesFacts, Wheres, Starts DEF GenerateConfig, At
  <2>2. dir = EmptyDir /\ \A b \in Tools : Version(b)
    BY <2>1, GoesFacts DEF SetupBehind
  <2>3. dir'.config = want.net /\ ~dir'.signed /\ dir'.manifests = 0
    BY <1>3, <2>2 DEF GenerateConfig, EmptyDir
  <2>4. ASSUME Place' = Place + 1 PROVE SetupBehind(Place)'
    <3>1. Place' = 4
      BY <2>1, <2>4
    <3> QED
      BY <1>1, <2>2, <2>3, <3>1 DEF SetupBehind, Version
  <2> QED
    BY <2>1, <2>4, GoesFacts, NextStands
<1>4. CASE GenerateManifests
  <2>1. Running /\ step.verb = "setup" /\ Place = 4 /\ Place < Len(Plan(step.verb))
    BY <1>4, GoesFacts, Wheres, Starts DEF GenerateManifests, At
  <2>2. /\ dir.config = want.net /\ ~dir.signed /\ dir.manifests = 0 /\ want.net # 0
        /\ \A b \in Tools : Version(b)
    BY <2>1, GoesFacts DEF SetupBehind
  <2>3. CASE Fails
    BY <2>1, <2>3, GoesFacts, FailsStand
  <2>4. CASE Proceed /\ dir' = [dir EXCEPT !.manifests = ConfigInput, !.config = 0, !.sealed = TRUE]
    <3>1. dir'.manifests = want.net /\ ~dir'.signed
      BY <1>2, <2>2, <2>4 DEF ConfigInput, Dirs
    <3>2. ASSUME Place' = Place + 1 PROVE SetupBehind(Place)'
      <4>1. Place' = 5
        BY <2>1, <3>2
      <4> QED
        BY <1>1, <2>2, <3>1, <4>1 DEF SetupBehind, Version
    <3> QED
      BY <2>1, <2>4, <3>2, GoesFacts, NextStands
  <2> QED
    BY <1>4, <2>2, <2>3, <2>4 DEF GenerateManifests, ManifestsGenerated
<1>5. CASE GenerateIgnition
  <2>1. Running /\ step.verb = "setup" /\ Place = 5 /\ Place < Len(Plan(step.verb))
    BY <1>5, GoesFacts, Wheres, Starts DEF GenerateIgnition, At
  <2>2. dir.manifests = want.net /\ ~dir.signed /\ \A b \in Tools : Version(b)
    BY <2>1, GoesFacts DEF SetupBehind
  <2>3. CASE Fails
    BY <2>1, <2>3, GoesFacts, FailsStand
  <2>4. CASE Proceed /\ dir' = [dir EXCEPT !.ignition = dir.manifests, !.manifests = 0, !.sealed = FALSE, !.signed = TRUE]
    <3>1. dir'.ignition = want.net
      BY <1>2, <2>2, <2>4 DEF Dirs
    <3>2. ASSUME Place' = Place + 1 PROVE SetupBehind(Place)'
      <4>1. Place' = 6
        BY <2>1, <3>2
      <4> QED
        BY <1>1, <2>2, <3>1, <4>1 DEF SetupBehind, Version
    <3> QED
      BY <2>1, <2>4, <3>2, GoesFacts, NextStands
  <2> QED
    BY <1>5, <2>2, <2>3, <2>4 DEF GenerateIgnition
<1> QED
  BY <1>3, <1>4, <1>5


LEMMA ApacheStands == ASSUME GoesOn, ConfigureApache PROVE CommandStands'
<1>1. /\ Running /\ ((step.verb = "setup" /\ Place = 6) \/ (step.verb = "window" /\ Place = 1))
      /\ At("install-apache") => step.verb = "setup"
  BY GoesFacts, Wheres DEF ConfigureApache, At
<1>2. Place < Len(Plan(step.verb))
  <2>1. CASE step.verb = "setup"
    <3>1. Place = 6 /\ Len(Plan(step.verb)) = 17
      BY <1>1, <2>1, Lengths
    <3> QED
      BY <3>1
  <2>2. CASE step.verb = "window"
    BY <1>1, <2>2, Lengths
  <2> QED
    BY <1>1, <2>1, <2>2
<1>3. want' = want /\ tools' = tools /\ dir' = dir
  BY DEF ConfigureApache, files
<1>4. ASSUME step.verb = "setup", Place' = Place + 1, step'.left = Subjects(Plan(step.verb)[Place + 1])
      PROVE  SetupBehind(Place)'
  <2>1. Place' = 7 /\ step'.left = Ignition
    BY <1>1, <1>4, Starts
  <2>2. dir.ignition = want.net /\ \A b \in Tools : Version(b)
    BY <1>1, <1>4, GoesFacts DEF SetupBehind
  <2> QED
    BY <1>3, <2>1, <2>2 DEF SetupBehind, Version
<1>5. CASE Proceed
  BY <1>1, <1>2, <1>4, <1>5, GoesFacts, NextStands
<1>6. CASE Fails /\ step.verb = "setup"
  <2>1. Place = 6
    BY <1>1, <1>6
  <2>2. Head(step.todo) \in NonFatal
    BY <1>1, <1>6, <2>1, GoesFacts, Places DEF NonFatal
  <2> QED
    BY <1>5, <1>6, <2>2 DEF Fails
<1>7. CASE Fails /\ step.verb # "setup"
  BY <1>1, <1>2, <1>7, GoesFacts, FailsStand
<1> QED
  BY <1>5, <1>6, <1>7 DEF ConfigureApache

LEMMA FileStands == ASSUME GoesOn, NEW f \in Ignition, DeployFile(f) PROVE CommandStands'
<1>1. /\ Running /\ ((step.verb = "setup" /\ Place = 7) \/ (step.verb = "window" /\ Place = 2))
      /\ Handled(f) /\ Head(step.todo) # "build-isos"
  BY GoesFacts, Wheres DEF DeployFile, At
<1>2. /\ StepTyped' /\ Planned' /\ Place' = Place /\ step'.left = step.left \ {f}
      /\ step'.verb = step.verb /\ step'.todo = step.todo
  BY <1>1, GoesFacts, HandleOne
<1>3. Built'
  BY <1>1, <1>2 DEF Built, At
<1>4. ASSUME step.verb = "setup" PROVE SetupBehind(Place)'
  <2>1. Place = 7 /\ Place' = 7
    BY <1>1, <1>2, <1>4
  <2>2. /\ dir.ignition = want.net /\ want.net # 0 /\ (\A b \in Tools : Version(b))
        /\ \A g \in Ignition \ step.left : web[g] = want.net
    BY <2>1, <1>4, GoesFacts DEF SetupBehind
  <2>3. web \in [Ignition -> Nat]
    BY DEF GoesOn, HostInv, HostTyped, WebTyped
  <2>4. want' = want /\ tools' = tools /\ dir' = dir
        /\ web' = [web EXCEPT ![f] = IF dir.ignition # 0 THEN dir.ignition ELSE web[f]]
    BY DEF DeployFile, files
  <2>5. web'[f] = want.net /\ \A g \in Ignition : g # f => web'[g] = web[g]
    BY <2>2, <2>3, <2>4
  <2> QED
    BY <1>2, <2>1, <2>2, <2>4, <2>5 DEF SetupBehind, Version
<1> QED
  BY <1>2, <1>3, <1>4 DEF CommandStands, SetupStands

LEMMA FilesStand == ASSUME GoesOn, IgnitionDeployed PROVE CommandStands'
<1>1. /\ Running /\ ((step.verb = "setup" /\ Place = 7) \/ (step.verb = "window" /\ Place = 2))
      /\ Proceed
  BY GoesFacts, Wheres DEF IgnitionDeployed, At
<1>2. Place < Len(Plan(step.verb))
  <2>1. CASE step.verb = "setup"
    <3>1. Place = 7 /\ Len(Plan(step.verb)) = 17
      BY <1>1, <2>1, Lengths
    <3> QED
      BY <3>1
  <2>2. CASE step.verb = "window"
    BY <1>1, <2>2, Lengths
  <2> QED
    BY <1>1, <2>1, <2>2
<1>3. ASSUME step.verb = "setup", Place' = Place + 1 PROVE SetupBehind(Place)'
  <2>1. Place = 7 /\ Place' = 8
    BY <1>1, <1>3
  <2>2. /\ dir.ignition = want.net /\ (\A b \in Tools : Version(b))
        /\ \A g \in Ignition \ step.left : web[g] = want.net
    BY <2>1, <1>3, GoesFacts DEF SetupBehind
  <2>3. \A g \in Ignition : web[g] = want.net
    <3>1. At("deploy-ignition") => step.left = {} \/ IgnitionDeployAlreadyDone
      BY DEF IgnitionDeployed, At
    <3>2. step.left = {} \/ IgnitionDeployAlreadyDone
      BY <3>1 DEF IgnitionDeployed
    <3> QED
      BY <2>2, <3>2 DEF IgnitionDeployAlreadyDone
  <2>4. UNCHANGED <<want, tools, dir, web>>
    BY DEF IgnitionDeployed, files, server
  <2> QED
    BY <2>1, <2>2, <2>3, <2>4 DEF SetupBehind, Version
<1> QED
  BY <1>1, <1>2, <1>3, GoesFacts, NextStands

LEMMA VerifiedStands == ASSUME GoesOn, VerifyWebServer PROVE CommandStands'
<1>1. Running /\ step.verb = "setup" /\ Place = 8 /\ Place < Len(Plan(step.verb))
  BY GoesFacts, Wheres, Starts DEF VerifyWebServer, At
<1>2. CASE Fails
  BY <1>1, <1>2, GoesFacts, FailsStand
<1>3. CASE Proceed /\ httpd = cert'.id
  <2>1. ASSUME Place' = Place + 1, step'.left = Subjects(Plan(step.verb)[Place + 1]) PROVE SetupBehind(Place)'
    <3>1. Place' = 9
      BY <1>1, <2>1
    <3>2. /\ dir.ignition = want.net /\ (\A b \in Tools : Version(b))
          /\ \A g \in Ignition : web[g] = want.net
      BY <1>1, GoesFacts DEF SetupBehind
    <3>3. UNCHANGED <<want, tools, dir, web, httpd>>
      BY DEF VerifyWebServer, files
    <3>4. CertGood'
      BY <3>3, CertEnsured DEF VerifyWebServer, GoesOn, HostInv
    <3> QED
      BY <1>3, <3>1, <3>2, <3>3, <3>4 DEF SetupBehind, Version
  <2> QED
    BY <1>1, <1>3, <2>1, GoesFacts, NextStands
<1> QED
  BY <1>2, <1>3 DEF VerifyWebServer


LEMMA BuildPlaces ==
    ASSUME GoesOn, At("build-isos")
    PROVE  /\ Running /\ Place < Len(Plan(step.verb))
           /\ step.verb = "window" \/ (step.verb = "setup" /\ Place = 9)
<1>1. Running /\ ((step.verb = "setup" /\ Place = 9) \/ (step.verb = "window" /\ Place = 3))
  BY GoesFacts, Wheres DEF At
<1>2. CASE step.verb = "setup"
  <2>1. Place = 9 /\ Len(Plan(step.verb)) = 17
    BY <1>1, <1>2, Lengths
  <2>2. Place < Len(Plan(step.verb)) /\ Place < 11
    BY <2>1
  <2> QED
    BY <1>1, <1>2, <2>1, <2>2
<1>3. CASE step.verb = "window"
  <2>1. Place = 3 /\ Len(Plan(step.verb)) = 5
    BY <1>1, <1>3, Lengths
  <2>2. Place < Len(Plan(step.verb)) /\ Place < 11
    BY <2>1
  <2> QED
    BY <1>1, <1>3, <2>1, <2>2
<1> QED
  BY <1>1, <1>2, <1>3

LEMMA UploadPlaces ==
    ASSUME GoesOn, At("upload-isos")
    PROVE  /\ Running /\ Place < Len(Plan(step.verb))
           /\ step.verb = "window" \/ (step.verb = "setup" /\ Place = 10)
<1>1. Running /\ ((step.verb = "setup" /\ Place = 10) \/ (step.verb = "window" /\ Place = 4))
  BY GoesFacts, Wheres DEF At
<1>2. CASE step.verb = "setup"
  <2>1. Place = 10 /\ Len(Plan(step.verb)) = 17
    BY <1>1, <1>2, Lengths
  <2>2. Place < Len(Plan(step.verb)) /\ Place < 11
    BY <2>1
  <2> QED
    BY <1>1, <1>2, <2>1, <2>2
<1>3. CASE step.verb = "window"
  <2>1. Place = 4 /\ Len(Plan(step.verb)) = 5
    BY <1>1, <1>3, Lengths
  <2>2. Place < Len(Plan(step.verb)) /\ Place < 11
    BY <2>1
  <2> QED
    BY <1>1, <1>3, <2>1, <2>2
<1> QED
  BY <1>1, <1>2, <1>3

\* A fingerprint that matches is of an ISO that was built whole from the same inputs.
LEMMA SkippedIsWhole ==
    ASSUME HostInv, NEW n \in HostNodes, Unchanged(n)
    PROVE  iso[n] = Content
<1>1. fp[n] = Content /\ (iso[n] = fp[n] \/ Superseded(fp[n]))
  BY DEF HostInv, Honest, Unchanged, NodeISOFingerprint
<1>2. /\ Content.net = want.net /\ Content.cert = EnsureIgnitionCert.id
      /\ Content.base = tools.bins["openshift-install"]
  BY DEF Content
<1>3. want.net \in Nat /\ EnsureIgnitionCert.id \in Nat /\ tools.bins["openshift-install"] \in Nat
  BY Ensures DEF HostInv, HostTyped, WantTyped, ToolsTyped, Tools, Certs
<1>4. ~Superseded(fp[n])
  BY <1>1, <1>2, <1>3 DEF Superseded
<1> QED
  BY <1>1, <1>4

LEMMA ISOBuilt ==
    ASSUME GoesOn, NEW n \in HostNodes, BuildISO(n)
    PROVE  CommandStands'
<1>1. At("build-isos") /\ Handled(n) /\ cert' = EnsureIgnitionCert
      /\ UNCHANGED <<want, tools, dir, remote, httpd, web>> /\ HostInv /\ HostTyped
  BY DEF BuildISO, GoesOn, HostInv
<1>2. Running /\ (step.verb = "window" \/ (step.verb = "setup" /\ Place = 9))
  BY <1>1, BuildPlaces
<1>3. /\ StepTyped' /\ Planned' /\ Place' = Place /\ step'.left = step.left \ {n}
      /\ step'.verb = step.verb /\ step'.todo = step.todo
  BY <1>1, <1>2, GoesFacts, HandleOne
<1>4. iso \in [HostNodes -> Stamps]
  BY <1>1 DEF HostTyped, ImagesTyped
<1>5. iso'[n] = Content /\ \A m \in HostNodes : m # n => iso'[m] = iso[m]
  <2>1. CASE Unchanged(n) /\ iso' = iso
    BY <1>1, <2>1, SkippedIsWhole
  <2>2. CASE iso' = [iso EXCEPT ![n] = Content]
    BY <1>4, <2>2
  <2> QED
    BY <2>1, <2>2 DEF BuildISO
<1>6. CertGood' /\ cert'.id = EnsureIgnitionCert.id
  BY <1>1, CertEnsured
<1>7. Whole(n)'
  BY <1>1, <1>5, <1>6 DEF Whole, Content
<1>8. ASSUME NEW m \in HostNodes \ step.left, m # n PROVE Whole(m)'
  <2>1. CertGood /\ Whole(m)
    BY <1>1, <1>8, GoesFacts DEF Built
  <2>2. cert' = cert
    BY <1>1, <2>1, Ensures
  <2> QED
    BY <1>1, <1>5, <1>8, <2>1, <2>2 DEF Whole
<1>9. \A m \in HostNodes \ step'.left : Whole(m)'
  BY <1>3, <1>7, <1>8
<1>10. Built'
  BY <1>6, <1>9 DEF Built
<1>11. ASSUME step.verb = "setup" PROVE SetupBehind(Place)'
  <2>1. Place' = 9 /\ Place = 9
    BY <1>2, <1>3, <1>11
  <2>2. /\ dir.ignition = want.net /\ (\A b \in Tools : Version(b)) /\ CertGood /\ httpd = cert.id
        /\ \A g \in Ignition : web[g] = want.net
    BY <1>11, <2>1, GoesFacts DEF SetupBehind
  <2>3. cert' = cert
    BY <1>1, <2>2, Ensures
  <2> QED
    BY <1>1, <1>6, <2>1, <2>2, <2>3 DEF SetupBehind, Version
<1> QED
  BY <1>3, <1>10, <1>11 DEF CommandStands, SetupStands

LEMMA CutBuildStands == ASSUME GoesOn, NEW n \in HostNodes, BuildCutShort(n) PROVE CommandStands'
<1>1. Running /\ Place < Len(Plan(step.verb)) /\ (step.verb = "window" \/ (step.verb = "setup" /\ Place = 9))
  BY BuildPlaces DEF BuildCutShort
<1>2. ~(step.verb = "setup" /\ Place \in {6, 10})
  BY <1>1
<1>3. CASE Fails
  BY <1>1, <1>2, <1>3, GoesFacts, FailsStand
<1>4. CASE Ended(FALSE)
  BY <1>4, GoesFacts, EndStands
<1> QED
  BY <1>3, <1>4 DEF BuildCutShort

LEMMA ISOsBuilt == ASSUME GoesOn, Iterated, At("build-isos") PROVE CommandStands'
<1>1. Running /\ Place < Len(Plan(step.verb)) /\ (step.verb = "window" \/ (step.verb = "setup" /\ Place = 9))
  BY BuildPlaces
<1>2. Proceed /\ step.left = {} /\ UNCHANGED <<want, tools, dir, iso, cert, httpd, web>>
  BY DEF Iterated, files, server
<1>3. ASSUME step.verb = "setup", Place' = Place + 1, step'.left = Subjects(Plan(step.verb)[Place + 1])
      PROVE  SetupBehind(Place)'
  <2>1. Place = 9 /\ Place' = 10 /\ step'.left = HostNodes
    BY <1>1, <1>3, Starts
  <2>2. /\ dir.ignition = want.net /\ (\A b \in Tools : Version(b)) /\ CertGood /\ httpd = cert.id
        /\ \A g \in Ignition : web[g] = want.net
    BY <1>3, <2>1, GoesFacts DEF SetupBehind
  <2>3. \A n \in HostNodes : Whole(n)
    BY <1>2, GoesFacts DEF Built
  <2> QED
    BY <1>2, <2>1, <2>2, <2>3 DEF SetupBehind, Version, CertGood, Whole
<1> QED
  BY <1>1, <1>2, <1>3, GoesFacts, NextStands

LEMMA ISOUploaded == ASSUME GoesOn, NEW n \in HostNodes, UploadISO(n) PROVE CommandStands'
<1>1. /\ Running /\ (step.verb = "window" \/ (step.verb = "setup" /\ Place = 10))
      /\ Head(step.todo) = "upload-isos" /\ Handled(n) /\ troubles' = troubles
      /\ remote' = [remote EXCEPT ![n] = IF iso[n] = None THEN remote[n] ELSE iso[n]]
      /\ UNCHANGED <<want, tools, dir, iso, cert, httpd, web>>
  BY UploadPlaces DEF UploadISO, At, Quiet, server
<1>2. /\ StepTyped' /\ Planned' /\ Place' = Place /\ step'.left = step.left \ {n}
      /\ step'.verb = step.verb /\ step'.todo = step.todo /\ step'.before = step.before
  BY <1>1, GoesFacts, HandleOne
<1>3. Built'
  BY <1>1, <1>2 DEF Built, At
<1>4. ASSUME step.verb = "setup" PROVE SetupBehind(Place)'
  <2>1. Place = 10 /\ Place' = 10
    BY <1>1, <1>2, <1>4
  <2>2. /\ dir.ignition = want.net /\ (\A b \in Tools : Version(b)) /\ CertGood /\ httpd = cert.id
        /\ (\A g \in Ignition : web[g] = want.net) /\ (\A m \in HostNodes : Whole(m))
        /\ \A m \in HostNodes \ step.left : Uploaded(m)
    BY <1>4, <2>1, GoesFacts DEF SetupBehind
  <2>3. remote \in [HostNodes -> Stamps]
    BY DEF GoesOn, HostInv, HostTyped, RemoteTyped
  <2>4. iso[n] # None
    <3>1. iso[n].net = want.net /\ want.net # 0
      BY <2>2, GoesFacts DEF Whole
    <3> QED
      BY <3>1 DEF None
  <2>5. remote'[n] = iso[n] /\ \A m \in HostNodes : m # n => remote'[m] = remote[m]
    BY <1>1, <2>3, <2>4
  <2>6. \A m \in HostNodes \ step'.left : Uploaded(m)'
    BY <1>1, <1>2, <2>2, <2>5 DEF Uploaded, Faulted
  <2> QED
    BY <1>1, <2>1, <2>2, <2>6 DEF SetupBehind, Version, CertGood, Whole
<1> QED
  BY <1>2, <1>3, <1>4 DEF CommandStands, SetupStands

LEMMA ISOsUploaded == ASSUME GoesOn, Iterated, At("upload-isos") PROVE CommandStands'
<1>1. Running /\ Place < Len(Plan(step.verb)) /\ (step.verb = "window" \/ (step.verb = "setup" /\ Place = 10))
  BY UploadPlaces
<1>2. Proceed /\ step.left = {} /\ UNCHANGED <<want, tools, dir, iso, remote, cert, httpd, web, troubles>>
  BY DEF Iterated, files, server, Quiet
<1>3. ASSUME step.verb = "setup", Place' = Place + 1, step'.before = step.before
      PROVE  SetupBehind(Place)'
  <2>1. Place = 10 /\ Place' = 11
    BY <1>1, <1>3
  <2>2. /\ dir.ignition = want.net /\ (\A b \in Tools : Version(b)) /\ CertGood /\ httpd = cert.id
        /\ (\A g \in Ignition : web[g] = want.net) /\ (\A m \in HostNodes : Whole(m))
        /\ \A m \in HostNodes : Uploaded(m)
    BY <1>2, <1>3, <2>1, GoesFacts DEF SetupBehind
  <2> QED
    BY <1>2, <1>3, <2>1, <2>2 DEF SetupBehind, Version, CertGood, Whole, Uploaded, Faulted
<1> QED
  BY <1>1, <1>2, <1>3, GoesFacts, NextStands

LEMMA CutUploadStands == ASSUME GoesOn, NEW n \in HostNodes, UploadCutShort(n) PROVE CommandStands'
<1>1. Running /\ Place < Len(Plan(step.verb)) /\ (step.verb = "window" \/ (step.verb = "setup" /\ Place = 10))
  BY UploadPlaces DEF UploadCutShort
<1>2. /\ troubles' = troubles + 1 /\ Head(step.todo) = "upload-isos"
      /\ UNCHANGED <<want, tools, dir, iso, cert, httpd, web>>
  BY DEF UploadCutShort, Trouble, server, At
<1>3. CASE step.verb = "setup" /\ Fails
  <2>1. Proceed
    BY <1>2, <1>3 DEF Fails, NonFatal
  <2>2. ASSUME Place' = Place + 1, step'.before = step.before PROVE SetupBehind(Place)'
    <3>1. Place = 10 /\ Place' = 11
      BY <1>1, <1>3, <2>2
    <3>2. /\ dir.ignition = want.net /\ (\A b \in Tools : Version(b)) /\ CertGood /\ httpd = cert.id
          /\ (\A g \in Ignition : web[g] = want.net) /\ (\A m \in HostNodes : Whole(m))
      BY <1>3, <3>1, GoesFacts DEF SetupBehind
    <3>3. Faulted'
      BY <1>2, <2>2, GoesFacts DEF Faulted
    <3> QED
      BY <1>2, <3>1, <3>2, <3>3 DEF SetupBehind, Version, CertGood, Whole, Uploaded
  <2> QED
    BY <1>1, <2>1, <2>2, GoesFacts, NextStands
<1>4. CASE step.verb = "window" /\ Fails
  BY <1>1, <1>4, GoesFacts, FailsStand
<1>5. CASE Ended(FALSE)
  BY <1>5, GoesFacts, EndStands
<1> QED
  BY <1>1, <1>3, <1>4, <1>5 DEF UploadCutShort


LEMMA FailureStands == ASSUME GoesOn, StepFails PROVE CommandStands'
<1>1. Running /\ Fails /\ UNCHANGED <<want, tools, dir>>
  BY GoesFacts DEF StepFails, Unoccupied, Running, files
<1>2. Place < Len(Plan(step.verb)) /\ (step.verb = "setup" => Place # 10 /\ (Place = 6 => At("install-apache")))
  <2>1. /\ At("install-tools") \/ At("generate-config") \/ At("install-apache") \/ At("revive")
           \/ At("deploy-ignition") \/ At("publish-worker") \/ At("verify-webserver")
    BY <1>1 DEF StepFails, At
  <2>2. \/ step.verb = "setup" /\ Place \in {2, 3, 7, 8}
        \/ step.verb = "setup" /\ Place = 6 /\ At("install-apache")
        \/ step.verb = "window" /\ Place \in {1, 2}
    BY <2>1, GoesFacts, Wheres
  <2>3. CASE step.verb = "setup"
    <3>1. Len(Plan(step.verb)) = 17 /\ Place \in {2, 3, 6, 7, 8}
      BY <2>2, <2>3, Lengths
    <3>2. Place < Len(Plan(step.verb)) /\ Place # 10
      BY <3>1
    <3> QED
      BY <2>2, <2>3, <3>1, <3>2
  <2>4. CASE step.verb = "window"
    <3>1. Len(Plan(step.verb)) = 5 /\ Place \in {1, 2}
      BY <2>2, <2>4, Lengths
    <3>2. Place < Len(Plan(step.verb))
      BY <3>1
    <3> QED
      BY <2>4, <3>2
  <2> QED
    BY <2>2, <2>3, <2>4
<1>3. CASE step.verb = "setup" /\ Place = 6
  <2>1. Proceed
    BY <1>1, <1>2, <1>3 DEF Fails, At, NonFatal
  <2>2. ASSUME Place' = Place + 1, step'.left = Subjects(Plan(step.verb)[Place + 1]) PROVE SetupBehind(Place)'
    <3>1. Place' = 7 /\ step'.left = Ignition
      BY <1>3, <2>2, Starts
    <3>2. dir.ignition = want.net /\ \A b \in Tools : Version(b)
      BY <1>3, GoesFacts DEF SetupBehind
    <3> QED
      BY <1>1, <3>1, <3>2 DEF SetupBehind, Version
  <2> QED
    BY <1>1, <1>2, <2>1, <2>2, GoesFacts, NextStands
<1>4. CASE ~(step.verb = "setup" /\ Place = 6)
  BY <1>1, <1>2, <1>4, GoesFacts, FailsStand
<1> QED
  BY <1>3, <1>4

-----------------------------------------------------------------------------
\* Of the services setup promises nothing here: their steps keep what came before.
LEMMA ServiceProceeds ==
    ASSUME GoesOn, Running, step.verb = "setup", Place > 10, Place < 17, Proceed, UNCHANGED <<want, files, server>>
    PROVE  CommandStands'
<1>1. Place < Len(Plan(step.verb))
  BY Lengths, GoesFacts
<1>2. ASSUME Place' = Place + 1, step'.before = step.before PROVE SetupBehind(Place)'
  <2>1. Place' \in Nat /\ Place' > 10
    BY <1>2, GoesFacts
  <2> QED
    BY <1>2, <2>1, GoesFacts, LaterStands
<1> QED
  BY <1>1, <1>2, GoesFacts, NextStands

LEMMA DNSGivenUp ==
    ASSUME GoesOn, Running, step.verb = "setup", Place > 10, GiveUpDNS, UNCHANGED <<want, files, server>>
    PROVE  CommandStands'
<1>1. /\ step'.verb = step.verb /\ step'.todo = <<"done">> /\ step'.before = step.before /\ step.left \in SUBSET Names
      /\ step.found \in Nat /\ step.failed \in BOOLEAN
      /\ step' = [step EXCEPT !.todo = <<"done">>, !.left = step.left, !.found = step.found, !.failed = step.failed]
  BY GoesFacts DEF GiveUpDNS, StepTyped
<1>2. "setup" \in Verbs /\ 17 \in 1..Len(Plan("setup")) /\ step'.verb = "setup" /\ step'.todo = From("setup", 17)
  <2>1. "setup" \in Verbs
    BY DEF Verbs
  <2>2. 17 \in 1..Len(Plan("setup"))
    <3>1. Len(Plan("setup")) = 17
      BY Starts
    <3>2. 17 \in 1..17
      OBVIOUS
    <3> QED
      BY Zenon, <3>1, <3>2
  <2> QED
    BY <1>1, <2>1, <2>2, Lasts
<1>3. Planned' /\ Place' = 17 /\ step'.todo \in Seq(StepNames) /\ Head(step'.todo) = "done"
  <2>1. Planned' /\ Place' = 17 /\ step'.todo \in Seq(StepNames) /\ Head(step'.todo) = Plan("setup")[17]
    BY <1>2, Jumps
  <2> QED
    BY <2>1, SetupPlan
<1>4. StepTyped'
  <2>1. step \in [verb : Verbs \cup {"none"}, todo : Seq(StepNames), left : SUBSET Names, before : Nat,
                  found : Nat, failed : BOOLEAN, was : Verbs \cup {"none"}]
    BY GoesFacts DEF StepTyped
  <2>2. step.before \in 0..troubles'
    BY GoesFacts
  <2> QED
    BY <1>1, <1>3, <2>1, <2>2 DEF StepTyped
<1>5. SetupBehind(Place)'
  BY <1>1, <1>3, GoesFacts, LaterStands
<1> QED
  BY <1>3, <1>4, <1>5 DEF CommandStands, SetupStands, Built, At

LEMMA DnsmasqStands == ASSUME GoesOn, WriteDnsmasq PROVE CommandStands'
<1>1. Running /\ step.verb = "setup" /\ Place = 15 /\ UNCHANGED <<want, files, server>>
  BY GoesFacts, Wheres DEF WriteDnsmasq, At
<1>2. Place < Len(Plan(step.verb))
  <2>1. Place = 15 /\ Len(Plan(step.verb)) = 17
    BY <1>1, Lengths
  <2> QED
    BY <2>1
<1>3. conf["dnsmasq"].disk \in Nat
  BY DEF GoesOn, HostInv, HostTyped, ConfTyped, Confs
<1>4. step' = [step EXCEPT !.todo = Tail(step.todo), !.found = conf["dnsmasq"].disk]
  BY DEF WriteDnsmasq
<1>5. /\ step'.verb = step.verb /\ step'.todo = Tail(step.todo) /\ step'.before = step.before
      /\ step.left \in SUBSET Names /\ step.failed \in BOOLEAN
      /\ step' = [step EXCEPT !.todo = Tail(step.todo), !.left = step.left, !.found = conf["dnsmasq"].disk,
                              !.failed = step.failed]
  BY <1>4, GoesFacts DEF StepTyped
<1>6. /\ Planned' /\ Place' = 16 /\ step'.todo \in Seq(StepNames)
      /\ Head(step'.todo) = "start-dnsmasq"
  <2>1. Planned' /\ Place' = Place + 1 /\ step'.todo \in Seq(StepNames)
    BY <1>1, <1>2, <1>5, GoesFacts, Advance
  <2>2. Place' = 16 /\ step'.verb = "setup" /\ (Plan("setup")[16] = "start-dnsmasq")
    BY <1>1, <1>5, <2>1 DEF Plan, SetupSteps
  <2>3. Head(step'.todo) = Plan(step.verb)[Place + 1]
    BY <1>1, <1>2, <1>5, GoesFacts, Advance
  <2>4. Plan(step.verb)[Place + 1] = Plan("setup")[16]
    BY <1>1
  <2> QED
    BY <2>1, <2>2, <2>3, <2>4
<1>7. StepTyped'
  <2>1. step \in [verb : Verbs \cup {"none"}, todo : Seq(StepNames), left : SUBSET Names, before : Nat,
                  found : Nat, failed : BOOLEAN, was : Verbs \cup {"none"}]
    BY GoesFacts DEF StepTyped
  <2>2. step.before \in 0..troubles'
    BY GoesFacts
  <2> QED
    BY <1>3, <1>5, <1>6, <2>1, <2>2 DEF StepTyped
<1>8. SetupBehind(Place)'
  BY <1>1, <1>5, <1>6, GoesFacts, LaterStands
<1> QED
  BY <1>6, <1>7, <1>8 DEF CommandStands, SetupStands, Built, At

LEMMA ServicesStand ==
    ASSUME GoesOn, WriteHAProxy \/ StartHAProxy \/ OverrideResolver \/ ActivateResolver \/ StartDnsmasq
    PROVE  CommandStands'
<1>1. /\ Running /\ step.verb = "setup" /\ Place \in {11, 12, 13, 14, 16}
      /\ Place = 12 \/ Proceed \/ GiveUpDNS
  BY GoesFacts, Wheres
     DEF WriteHAProxy, StartHAProxy, OverrideResolver, ActivateResolver, StartDnsmasq, At
<1>2. UNCHANGED <<want, files, server>> /\ (Proceed \/ GiveUpDNS \/ Fails)
  BY DEF WriteHAProxy, StartHAProxy, OverrideResolver, ActivateResolver, StartDnsmasq
<1>3. CASE Proceed
  BY <1>1, <1>2, <1>3, ServiceProceeds
<1>4. CASE GiveUpDNS
  BY <1>1, <1>2, <1>4, DNSGivenUp
<1>5. CASE Fails /\ Place = 12
  <2>1. Place < Len(Plan(step.verb))
    <3>1. Place = 12 /\ Len(Plan(step.verb)) = 17
      BY <1>1, <1>5, Lengths
    <3> QED
      BY <3>1
  <2> QED
    BY <1>1, <1>5, <2>1, GoesFacts, FailsStand
<1> QED
  BY <1>1, <1>2, <1>3, <1>4, <1>5


-----------------------------------------------------------------------------
LEMMA CleaningStands ==
    ASSUME GoesOn, CleanHAProxy \/ CleanBackups \/ CleanServer \/ CleanFails \/ (CleanDnsmasq /\ Proceed)
    PROVE  CommandStands'
<1>1. /\ Running /\ (Proceed \/ CleanFails)
      /\ \/ At("clean-haproxy") \/ At("clean-backups") \/ At("clean-web") \/ At("clean-apache")
         \/ At("clean-certs") \/ At("clean-dnsmasq")
  BY DEF CleanHAProxy, CleanBackups, CleanServer, CleanFails, CleanDnsmasq, At
<1>2. step.verb = "cleanup" /\ Place \in 2..7
  BY <1>1, GoesFacts, Wheres
<1>3. CASE Proceed
  <2>1. Place < Len(Plan(step.verb))
    <3>1. Len(Plan(step.verb)) = 8
      BY <1>2, Lengths
    <3>2. Place < 8
      BY <1>2
    <3> QED
      BY Zenon, <3>1, <3>2
  <2> QED
    BY <1>1, <1>2, <1>3, <2>1, GoesFacts, NextStands
<1>4. CASE CleanFails
  <2>1. \E failed \in BOOLEAN : step' = [step EXCEPT !.todo = Tail(step.todo), !.failed = failed]
    <3>1. (step.failed \/ At("clean-certs")) \in BOOLEAN
      OBVIOUS
    <3> QED
      BY <1>4, <3>1 DEF CleanFails
  <2>2. PICK failed \in BOOLEAN : step' = [step EXCEPT !.todo = Tail(step.todo), !.failed = failed]
    BY <2>1
  <2>3. step.verb = "cleanup" /\ Place < 8
    BY <1>2
  <2> QED
    BY <2>2, <2>3, GoesFacts, GoesOnCleaning DEF CommandStands
<1> QED
  BY <1>1, <1>3, <1>4

LEMMA DnsmasqSkipped ==
    ASSUME GoesOn, At("clean-dnsmasq"), step' = [step EXCEPT !.todo = SubSeq(step.todo, 3, Len(step.todo))]
    PROVE  CommandStands'
<1>1. Running /\ step.verb = "cleanup" /\ Place = 5 /\ step.todo = From("cleanup", 5)
  <2>1. Running /\ step.verb = "cleanup" /\ Place = 5
    BY GoesFacts, Wheres DEF At
  <2> QED
    BY <2>1, GoesFacts DEF Planned
<1>2. Len(Plan("cleanup")) = 8 /\ "cleanup" \in Verbs /\ 8 \in Nat
  BY Starts DEF Verbs
<1>3. 5 \in 1..Len(Plan("cleanup")) /\ 6 \in 1..Len(Plan("cleanup")) /\ 7 \in 1..Len(Plan("cleanup"))
  <2>1. 5 \in 1..8 /\ 6 \in 1..8 /\ 7 \in 1..8
    OBVIOUS
  <2> QED
    BY Zenon, <1>2, <2>1
<1>4. From("cleanup", 5) \in Seq(StepNames) /\ Len(From("cleanup", 5)) = 4
      /\ Tail(Tail(From("cleanup", 5))) = From("cleanup", 7)
  <2>1. /\ From("cleanup", 5) \in Seq(StepNames) /\ Len(From("cleanup", 5)) = Len(Plan("cleanup")) - 5 + 1
        /\ 5 < Len(Plan("cleanup")) => Tail(From("cleanup", 5)) = From("cleanup", 5 + 1)
    BY <1>2, <1>3, Endings
  <2>2. 6 < Len(Plan("cleanup")) => Tail(From("cleanup", 6)) = From("cleanup", 6 + 1)
    BY <1>2, <1>3, Endings
  <2>3. 5 < 8 /\ 6 < 8 /\ 5 + 1 = 6 /\ 6 + 1 = 7 /\ 8 - 5 + 1 = 4
    OBVIOUS
  <2>4. Tail(From("cleanup", 5)) = From("cleanup", 6) /\ Tail(From("cleanup", 6)) = From("cleanup", 7)
    BY Zenon, <1>2, <2>1, <2>2, <2>3
  <2>5. Len(From("cleanup", 5)) = 4
    BY Zenon, <1>2, <2>1, <2>3
  <2> QED
    BY Zenon, <2>1, <2>4, <2>5
<1>5. SubSeq(step.todo, 3, Len(step.todo)) = From("cleanup", 7)
  <2> DEFINE s == step.todo
  <2>1. s \in Seq(StepNames) /\ Len(s) >= 2 /\ Tail(Tail(s)) = From("cleanup", 7)
    <3>1. 4 >= 2
      OBVIOUS
    <3> QED
      BY Zenon, <1>1, <1>4, <3>1
  <2> HIDE DEF s
  <2>2. SubSeq(s, 3, Len(s)) = From("cleanup", 7)
    BY <2>1, SkipTwo
  <2> QED
    BY <2>2 DEF s
<1>6. step'.verb = "cleanup" /\ step'.todo = From("cleanup", 7)
  BY <1>1, <1>5, GoesFacts DEF StepTyped
<1>7. Planned' /\ step'.todo \in Seq(StepNames) /\ Head(step'.todo) = Plan("cleanup")[7]
  BY <1>2, <1>3, <1>6, Jumps
<1>8. Plan("cleanup")[7] = "clean-certs"
  BY DEF Plan, CleanupSteps
<1>9. StepTyped'
  <2>1. step \in [verb : Verbs \cup {"none"}, todo : Seq(StepNames), left : SUBSET Names, before : Nat,
                  found : Nat, failed : BOOLEAN, was : Verbs \cup {"none"}]
    BY GoesFacts DEF StepTyped
  <2>2. step.before \in 0..troubles'
    BY GoesFacts
  <2>3. From("cleanup", 7) \in Seq(StepNames) /\ step' = [step EXCEPT !.todo = From("cleanup", 7)]
    BY <1>5, <1>6, <1>7
  <2> QED
    BY <2>1, <2>2, <2>3 DEF StepTyped
<1> QED
  BY <1>6, <1>7, <1>8, <1>9 DEF CommandStands, SetupStands, Built, At

LEMMA BeginStands ==
    ASSUME GoesOn, NEW verb \in Verbs, Begin(verb, Plan(verb))
    PROVE  CommandStands'
<1>1. /\ step'.verb = verb /\ step'.todo = Plan(verb) /\ step'.left = {} /\ step'.before = troubles
      /\ step' = [NoStep EXCEPT !.verb = verb, !.todo = Plan(verb), !.before = troubles]
      /\ troubles' = troubles
  BY DEF Begin, NoStep
<1>2. Plan(verb) \in Seq(StepNames) /\ Len(Plan(verb)) \in Nat /\ Len(Plan(verb)) >= 1 /\ 1 \in 1..Len(Plan(verb))
  <2>1. Plan(verb) \in Seq(StepNames)
    BY PlanFacts DEF Plan
  <2>2. Len(Plan(verb)) \in {5, 8, 17}
    BY Starts DEF Verbs
  <2> DEFINE n == Len(Plan(verb))
  <2> HIDE DEF n
  <2>3. n \in {5, 8, 17}
    BY <2>2 DEF n
  <2>4. n \in Nat /\ n >= 1 /\ 1 \in 1..n
    BY <2>3
  <2> QED
    BY <2>1, <2>4 DEF n
<1>3. From(verb, 1) = Plan(verb)
  <2> DEFINE s == Plan(verb)
  <2> HIDE DEF s
  <2>1. From(verb, 1) = [i \in 1..Len(s) - 1 + 1 |-> s[i + 1 - 1]]
    BY DEF From, s
  <2>2. s \in Seq(StepNames) /\ Len(s) \in Nat
    BY <1>2 DEF s
  <2>3. From(verb, 1) = [i \in 1..Len(s) |-> s[i]]
    BY <2>1, <2>2
  <2>4. s = [i \in 1..Len(s) |-> s[i]]
    BY <2>2
  <2> QED
    BY <2>3, <2>4 DEF s
<1>4. Planned' /\ Place' = 1 /\ Head(step'.todo) = Plan(verb)[1]
  BY <1>1, <1>2, <1>3, Jumps
<1>5. Plan(verb)[1] # "build-isos"
  <2>1. SetupSteps[1] # "build-isos" /\ WindowSteps[1] # "build-isos" /\ CleanupSteps[1] # "build-isos"
    BY DEF SetupSteps, WindowSteps, CleanupSteps
  <2> QED
    BY <2>1 DEF Plan
<1>6. StepTyped'
  <2> DEFINE s == Plan(verb)
  <2>1. s \in Seq(StepNames) /\ troubles \in 0..troubles' /\ step' = [NoStep EXCEPT !.verb = verb, !.todo = s, !.before = troubles]
    BY <1>1, <1>2, GoesFacts
  <2> HIDE DEF s
  <2> QED
    BY <2>1 DEF StepTyped, NoStep
<1>7. SetupBehind(Place)'
  BY <1>4 DEF SetupBehind
<1> QED
  BY <1>4, <1>5, <1>6, <1>7 DEF CommandStands, SetupStands, Built, At

LEMMA RestStands ==
    ASSUME GoesOn, step' = NoStep \/ (step' = step /\ step.verb = "none")
    PROVE  CommandStands'
<1>1. CASE step' = NoStep
  <2>1. StepTyped' /\ step'.verb = "none"
    <3>1. <<>> \in Seq(StepNames) /\ 0 \in 0..troubles'
      BY GoesFacts
    <3> QED
      BY <1>1, <3>1 DEF StepTyped, NoStep
  <2> QED
    BY <2>1, Ends DEF CommandStands
<1>2. CASE step' = step /\ step.verb = "none"
  <2>1. StepTyped'
    <3>1. step \in [verb : Verbs \cup {"none"}, todo : Seq(StepNames), left : SUBSET Names, before : Nat,
                    found : Nat, failed : BOOLEAN, was : Verbs \cup {"none"}]
      BY GoesFacts DEF StepTyped
    <3>2. step.before \in 0..troubles'
      BY GoesFacts
    <3> QED
      BY <1>2, <3>1, <3>2 DEF StepTyped
  <2> QED
    BY <1>2, <2>1, Ends DEF CommandStands
<1> QED
  BY <1>1, <1>2

LEMMA StepKept == ASSUME GoesOn, [Host]_bastionVars PROVE CommandStands'
<1>1. CASE UNCHANGED bastionVars
  <2>1. UNCHANGED <<want, tools, dir, iso, remote, cert, httpd, web, step, troubles>> /\ HostInv
    BY <1>1 DEF bastionVars, files, server, GoesOn
  <2>2. StepTyped'
    BY <2>1 DEF HostInv, StepTyped
  <2>3. Planned' /\ Place' = Place
    BY <2>1, SameTodo DEF HostInv
  <2>4. Built'
    BY <2>1 DEF HostInv, Built, At, Running, CertGood, Whole
  <2>5. step.verb = "setup" => SetupBehind(Place)'
    <3>1. ASSUME NEW p, SetupBehind(p) PROVE SetupBehind(p)'
      BY <2>1, <3>1 DEF SetupBehind, Version, CertGood, Whole, Uploaded, Faulted
    <3> QED
      BY <2>1, <2>3, <3>1, GoesFacts DEF SetupBehind, Version, CertGood, Whole, Uploaded, Faulted
  <2> QED
    BY <2>1, <2>2, <2>3, <2>4, <2>5 DEF CommandStands, SetupStands
<1>2. CASE Setup \/ JoinWindow \/ FullCleanup
  <2>1. \E verb \in Verbs : Begin(verb, Plan(verb))
    BY <1>2 DEF Setup, JoinWindow, FullCleanup, Verbs, Plan
  <2> QED
    BY <2>1, BeginStands
<1>3. CASE Killed \/ Edit
  BY <1>3, RestStands DEF Killed, Edit, Running
<1>4. CASE Done \/ Teardown
  <2>1. Ended(~step.failed) /\ (~step.failed) \in BOOLEAN
    BY <1>4 DEF Done, Teardown
  <2> QED
    BY <2>1, GoesFacts, EndStands
<1>5. CASE CleanDnsmasq
  <2>1. CASE Proceed
    BY <1>5, <2>1, CleaningStands
  <2>2. CASE step' = [step EXCEPT !.todo = SubSeq(step.todo, 3, Len(step.todo))]
    BY <1>5, <2>2, DnsmasqSkipped DEF CleanDnsmasq
  <2> QED
    BY <1>5, <2>1, <2>2 DEF CleanDnsmasq
<1>6. CASE Iterated
  BY <1>6, ISOsBuilt, ISOsUploaded DEF Iterated
<1>7. CASE ServiceStep
  BY <1>4, <1>5, <1>7, DnsmasqStands, ServicesStand, CleaningStands DEF ServiceStep
<1>8. CASE ArtifactStep
  BY <1>4, <1>6, <1>8, WipeStands, ToolsAllStand, InstallerStands, ApacheStands, FilesStand, VerifiedStands,
     ToolStands, FileStands, ISOBuilt, ISOUploaded DEF ArtifactStep
<1>9. CASE ArtifactTrouble
  BY <1>9, FailureStands, CutBuildStands, CutUploadStands DEF ArtifactTrouble
<1>10. CASE CleanFails
  BY <1>10, CleaningStands
<1> QED
  BY <1>1, <1>2, <1>3, <1>7, <1>8, <1>9, <1>10 DEF Host, HostStep


LEMMA IdleKept == ASSUME GoesOn, [Host]_bastionVars PROVE Unoccupied'
<1>1. StepTyped /\ Unoccupied
  BY GoesFacts
<1>2. ASSUME step'.verb = step.verb, Running PROVE Unoccupied'
  BY <1>2 DEF Unoccupied, Running
<1>3. ASSUME NEW ok, Ended(ok) PROVE Unoccupied'
  BY <1>3 DEF Ended, NoStep, Unoccupied
<1>4. ASSUME Proceed, Running PROVE Unoccupied'
  BY <1>1, <1>2, <1>4 DEF Proceed, Enter, StepTyped
<1>5. ASSUME Fails, Running PROVE Unoccupied'
  <2>1. step.verb = "window" /\ step' = [step EXCEPT !.todo = <<"teardown">>, !.left = {}, !.failed = TRUE] => Unoccupied'
    BY <1>1, <1>2, <1>5 DEF StepTyped
  <2> QED
    BY <1>3, <1>4, <1>5, <2>1 DEF Fails
<1>6. ASSUME NEW s, Handled(s), Running PROVE Unoccupied'
  BY <1>1, <1>2, <1>6 DEF Handled, StepTyped
<1>7. ASSUME step' = step PROVE Unoccupied'
  BY <1>1, <1>7 DEF Unoccupied
<1>8. CASE UNCHANGED bastionVars
  BY <1>7, <1>8 DEF bastionVars
<1>9. CASE Setup \/ JoinWindow \/ FullCleanup
  <2>1. step'.verb \in {"setup", "window", "cleanup"}
    BY <1>9 DEF Setup, JoinWindow, FullCleanup, Begin, NoStep
  <2> QED
    BY <2>1 DEF Unoccupied
<1>10. CASE Killed \/ Edit
  BY <1>7, <1>10 DEF Killed, Edit, NoStep, Unoccupied
<1>11. CASE Done \/ Teardown
  BY <1>3, <1>11 DEF Done, Teardown
<1>12. CASE Wipe \/ CleanDnsmasq \/ CleanFails \/ WriteDnsmasq
  <2>1. Running /\ (Proceed \/ Fails \/ step'.verb = step.verb)
    BY <1>1, <1>12 DEF Wipe, CleanDnsmasq, CleanFails, WriteDnsmasq, At, StepTyped
  <2> QED
    BY <1>2, <1>4, <1>5, <2>1
<1>13. CASE \/ ToolsInstalled \/ GenerateConfig \/ GenerateManifests \/ GenerateIgnition
            \/ ConfigureApache \/ IgnitionDeployed \/ VerifyWebServer \/ Iterated
  <2>1. Running /\ (Proceed \/ Fails)
    BY <1>13 DEF ToolsInstalled, GenerateConfig, GenerateManifests, GenerateIgnition, ConfigureApache,
       IgnitionDeployed, VerifyWebServer, Iterated, At
  <2> QED
    BY <1>4, <1>5, <2>1
<1>14. CASE \/ \E b \in Tools : InstallTool(b)
            \/ \E f \in Ignition : DeployFile(f)
            \/ \E n \in HostNodes : BuildISO(n) \/ UploadISO(n)
  <2>1. Running /\ \E s : Handled(s)
    BY <1>14 DEF InstallTool, DeployFile, BuildISO, UploadISO, At
  <2> QED
    BY <1>6, <2>1
<1>15. CASE \E n \in HostNodes : BuildCutShort(n) \/ UploadCutShort(n)
  <2>1. Running /\ (Fails \/ Ended(FALSE))
    BY <1>15 DEF BuildCutShort, UploadCutShort, At
  <2> QED
    BY <1>3, <1>5, <2>1
<1>16. CASE StepFails
  <2>1. Running /\ Fails
    BY <1>1, <1>16 DEF StepFails, Unoccupied, Running
  <2> QED
    BY <1>5, <2>1
<1>17. CASE \/ WriteHAProxy \/ StartHAProxy \/ OverrideResolver \/ ActivateResolver \/ StartDnsmasq
            \/ CleanHAProxy \/ CleanBackups \/ CleanServer
  <2>1. Running /\ (Proceed \/ Fails \/ GiveUpDNS)
    BY <1>17 DEF WriteHAProxy, StartHAProxy, OverrideResolver, ActivateResolver, StartDnsmasq, CleanHAProxy,
       CleanBackups, CleanServer, At
  <2>2. GiveUpDNS => step'.verb = step.verb
    BY <1>1 DEF GiveUpDNS, StepTyped
  <2> QED
    BY <1>2, <1>4, <1>5, <2>1, <2>2
<1> QED
  BY <1>8, <1>9, <1>10, <1>11, <1>12, <1>13, <1>14, <1>15, <1>16, <1>17
     DEF Host, HostStep, ArtifactStep, ServiceStep, ArtifactTrouble

\* The invariant of the bastion, whatever the nodes, the failures and the edits.
LEMMA HostBegins == BastionInit => HostInv
<1> SUFFICES ASSUME BastionInit PROVE HostInv
  OBVIOUS
<1>1. /\ want = [ip |-> 1, net |-> 1, version |-> 2] /\ edits = 0 /\ troubles = 0 /\ step = NoStep
      /\ dir = EmptyDir /\ iso = [n \in HostNodes |-> None] /\ fp = iso /\ remote = iso
      /\ httpd = 0 /\ web = [f \in Ignition |-> 0]
  BY DEF BastionInit
<1>2. PICK v \in {0, 1} : tools = [bins |-> [b \in Tools |-> v], mark |-> v]
  BY DEF BastionInit
<1>3. PICK i \in {0, 1} : cert = [id |-> i, ip |-> 1, expired |-> FALSE, next |-> 2]
  BY DEF BastionInit
<1>4. ConfTyped
  <2>1. PICK d \in {0, Own} : conf = [s \in {"haproxy", "dnsmasq"} |->
                                        IF s = "haproxy" THEN [NoConf EXCEPT !.disk = d] ELSE NoConf]
    BY DEF BastionInit
  <2>2. [NoConf EXCEPT !.disk = d] \in Confs /\ NoConf \in Confs
    BY DEF NoConf, Confs, Own
  <2> QED
    BY <2>1, <2>2 DEF ConfTyped
<1>5. BudgetTyped /\ WantTyped
  BY <1>1, BastionAssumption DEF BudgetTyped, WantTyped
<1>6. ToolsTyped /\ WebTyped
  BY <1>1, <1>2 DEF ToolsTyped, WebTyped
<1>7. ServerTyped
  BY <1>1, <1>3 DEF ServerTyped, Certs
<1>8. None \in Stamps /\ dir \in Dirs
  BY <1>1 DEF None, Stamps, EmptyDir, Dirs
<1>9. ImagesTyped /\ RemoteTyped
  BY <1>1, <1>8 DEF ImagesTyped, RemoteTyped
<1>10. HostTyped
  BY <1>4, <1>5, <1>6, <1>7, <1>8, <1>9 DEF HostTyped
<1>11. StepTyped /\ step.verb = "none" /\ step.todo = <<>>
  <2>1. <<>> \in Seq(StepNames) /\ 0 \in 0..troubles
    BY <1>1
  <2> QED
    BY <1>1, <2>1 DEF StepTyped, NoStep
<1>12. ToolsKept
  BY <1>1, <1>2 DEF ToolsKept, Version
<1>13. Honest
  <2>1. EnsureIgnitionCert.id \in Nat
    BY <1>10, Ensures DEF Certs
  <2>2. ASSUME NEW n \in HostNodes PROVE fp[n] = None /\ iso[n] = fp[n]
    BY <1>1
  <2>3. tools.bins["openshift-install"] \in Nat
    BY <1>2 DEF Tools
  <2>4. Past(None)
    BY <1>1, <2>1, <2>3 DEF Past, None
  <2> QED
    BY <2>2, <2>4 DEF Honest
<1> QED
  BY <1>10, <1>11, <1>12, <1>13 DEF HostInv, Planned, Unoccupied, Built, SetupStands, At, Running

LEMMA HostKept == ASSUME HostInv, [Host]_bastionVars PROVE HostInv'
<1>1. HostTyped' /\ troubles <= troubles' /\ HostInv
  BY TypesKept DEF HostInv
<1>2. GoesOn
  BY <1>1 DEF GoesOn
<1>3. CommandStands' /\ Unoccupied'
  BY <1>2, StepKept, IdleKept
<1>4. ToolsKept' /\ Honest'
  BY <1>1, ToolsStayKept, StaysHonest
<1> QED
  BY <1>1, <1>3, <1>4 DEF HostInv, CommandStands

\* Only a setup that is at its last step concludes without a failure.
LEMMA SetupEnds ==
    ASSUME HostInv, [Host]_bastionVars, step.verb = "setup", step'.verb = "none", step'.was = "setup", ~step'.failed
    PROVE  Done
<1>1. GoesOn
  BY TypesKept DEF GoesOn, HostInv
<1>2. StepTyped /\ Planned /\ Running
  BY <1>1, GoesFacts DEF Running
<1>3. ASSUME Proceed \/ GiveUpDNS \/ \E s : Handled(s) PROVE FALSE
  BY <1>2, <1>3 DEF Proceed, Enter, GiveUpDNS, Handled, StepTyped
<1>4. ASSUME Fails PROVE FALSE
  <2>1. CASE Proceed
    BY <1>3, <2>1
  <2>2. CASE Ended(FALSE)
    BY <2>2 DEF Ended, NoStep
  <2> QED
    BY <1>4, <2>1, <2>2 DEF Fails
<1>5. ASSUME NEW todo, step' = [step EXCEPT !.todo = todo] PROVE FALSE
  BY <1>2, <1>5 DEF StepTyped
<1>6. CASE Killed
  BY <1>6 DEF Killed, NoStep
<1>7. CASE Setup \/ JoinWindow \/ FullCleanup \/ Edit \/ UNCHANGED bastionVars
  BY <1>2, <1>7 DEF Setup, JoinWindow, FullCleanup, Begin, Edit, Running, bastionVars
<1>8. CASE Teardown
  BY <1>2, <1>8, <1>1, GoesFacts, Places DEF Teardown, At
<1>9. CASE CleanDnsmasq \/ CleanFails \/ WriteDnsmasq \/ Wipe
  BY <1>2, <1>3, <1>4, <1>9 DEF CleanDnsmasq, CleanFails, WriteDnsmasq, Wipe, StepTyped
<1>10. CASE \/ ToolsInstalled \/ GenerateConfig \/ GenerateManifests \/ GenerateIgnition
            \/ ConfigureApache \/ IgnitionDeployed \/ VerifyWebServer \/ Iterated
  BY <1>3, <1>4, <1>10 DEF ToolsInstalled, GenerateConfig, GenerateManifests, GenerateIgnition, ConfigureApache,
       IgnitionDeployed, VerifyWebServer, Iterated
<1>11. CASE \/ \E b \in Tools : InstallTool(b)
            \/ \E f \in Ignition : DeployFile(f)
            \/ \E n \in HostNodes : BuildISO(n) \/ UploadISO(n)
  BY <1>3, <1>11 DEF InstallTool, DeployFile, BuildISO, UploadISO
<1>12. CASE StepFails \/ \E n \in HostNodes : BuildCutShort(n) \/ UploadCutShort(n)
  <2>1. CASE Ended(FALSE)
    BY <2>1 DEF Ended, NoStep
  <2> QED
    BY <1>4, <1>12, <2>1 DEF StepFails, BuildCutShort, UploadCutShort
<1>13. CASE \/ WriteHAProxy \/ StartHAProxy \/ OverrideResolver \/ ActivateResolver \/ StartDnsmasq
            \/ CleanHAProxy \/ CleanBackups \/ CleanServer
  BY <1>3, <1>4, <1>13 DEF WriteHAProxy, StartHAProxy, OverrideResolver, ActivateResolver, StartDnsmasq, CleanHAProxy,
       CleanBackups, CleanServer
<1> QED
  BY <1>6, <1>7, <1>8, <1>9, <1>10, <1>11, <1>12, <1>13
     DEF Host, HostStep, ArtifactStep, ServiceStep, ArtifactTrouble

ServesAtEnd ==
    Concludes("setup") =>
          /\ dir.ignition = want.net /\ \A f \in Ignition : web[f] = dir.ignition
          /\ httpd = cert.id /\ cert.ip = want.ip
          /\ \A n \in HostNodes : iso[n] = [net |-> want.net, cert |-> httpd, base |-> want.version]
          /\ ~Faulted => remote = iso

LEMMA ServesWhenDone == ASSUME HostInv, [Host]_bastionVars PROVE ServesAtEnd
<1> SUFFICES ASSUME Concludes("setup")
             PROVE  /\ dir.ignition = want.net /\ \A f \in Ignition : web[f] = dir.ignition
                    /\ httpd = cert.id /\ cert.ip = want.ip
                    /\ \A n \in HostNodes : iso[n] = [net |-> want.net, cert |-> httpd, base |-> want.version]
                    /\ ~Faulted => remote = iso
  BY DEF ServesAtEnd
<1>1. step.verb = "setup" /\ step'.verb = "none" /\ step'.was = "setup" /\ ~step'.failed
  BY DEF Concludes, Running
<1>2. At("done") /\ StepTyped /\ Planned
  BY <1>1, SetupEnds DEF Done, HostInv
<1>3. Place = 17
  BY <1>1, <1>2, Wheres
<1>4. /\ \A b \in Tools : Version(b)
      /\ dir.ignition = want.net
      /\ \A f \in Ignition : web[f] = want.net
      /\ CertGood /\ httpd = cert.id
      /\ \A n \in HostNodes : Whole(n)
      /\ \A n \in HostNodes : Uploaded(n)
  BY <1>1, <1>3 DEF HostInv, SetupStands, SetupBehind
<1>5. tools.bins["openshift-install"] = want.version
  BY <1>4 DEF Version, Tools
<1>6. ~Faulted => remote = iso
  <2>1. remote \in [HostNodes -> Stamps] /\ iso \in [HostNodes -> Stamps]
    BY DEF HostInv, HostTyped, RemoteTyped, ImagesTyped
  <2> QED
    BY <1>4, <2>1 DEF Uploaded
<1> QED
  BY <1>4, <1>5, <1>6 DEF CertGood, Whole

CurrentWhenBuilt ==
    At("build-isos") /\ step.todo # step'.todo /\ Running' /\ Head(step'.todo) = "upload-isos" =>
          \A n \in HostNodes :
             iso[n] = [net |-> want.net, cert |-> cert.id, base |-> tools.bins["openshift-install"]]

LEMMA BuildsAreThrough ==
    ASSUME HostInv, [Host]_bastionVars, At("build-isos"), step.todo # step'.todo, Running', Head(step'.todo) = "upload-isos"
    PROVE  step.left = {}
<1>1. GoesOn
  BY TypesKept DEF GoesOn, HostInv
<1>2. StepTyped /\ Planned /\ Running
  BY <1>1, GoesFacts DEF At
<1>3. ASSUME NEW s, Handled(s) PROVE FALSE
  BY <1>2, <1>3 DEF Handled, StepTyped
<1>4. ASSUME NEW ok, Ended(ok) PROVE FALSE
  BY <1>4 DEF Ended, NoStep, Running
<1>5. ASSUME Fails PROVE FALSE
  <2>1. CASE step' = [step EXCEPT !.todo = <<"teardown">>, !.left = {}, !.failed = TRUE]
    BY <1>2, <2>1 DEF StepTyped
  <2>2. Head(step.todo) \notin NonFatal
    BY DEF At, NonFatal
  <2> QED
    BY <1>4, <1>5, <2>1, <2>2 DEF Fails
<1>6. CASE Iterated
  BY <1>6 DEF Iterated
<1>7. CASE \/ \E n \in HostNodes : BuildISO(n) \/ UploadISO(n) \/ BuildCutShort(n) \/ UploadCutShort(n)
  BY <1>3, <1>4, <1>5, <1>7 DEF BuildISO, UploadISO, BuildCutShort, UploadCutShort
<1>8. CASE Setup \/ JoinWindow \/ FullCleanup \/ Edit \/ Killed \/ UNCHANGED bastionVars
  BY <1>2, <1>8 DEF Setup, JoinWindow, FullCleanup, Begin, Edit, Killed, NoStep, Running, bastionVars
<1>9. CASE \/ Wipe \/ ToolsInstalled \/ GenerateConfig \/ GenerateManifests \/ GenerateIgnition \/ ConfigureApache
           \/ IgnitionDeployed \/ VerifyWebServer \/ Teardown \/ StepFails
           \/ \E b \in Tools : InstallTool(b)
           \/ \E f \in Ignition : DeployFile(f)
  BY <1>9 DEF Wipe, ToolsInstalled, GenerateConfig, GenerateManifests, GenerateIgnition, ConfigureApache,
           IgnitionDeployed, VerifyWebServer, Teardown, StepFails, InstallTool, DeployFile, At
<1>10. CASE ServiceStep \/ CleanFails
  BY <1>10 DEF ServiceStep, WriteHAProxy, StartHAProxy, OverrideResolver, ActivateResolver, WriteDnsmasq,
     StartDnsmasq, CleanHAProxy, CleanDnsmasq, CleanBackups, CleanServer, Done, CleanFails, At
<1> QED
  BY <1>6, <1>7, <1>8, <1>9, <1>10 DEF Host, HostStep, ArtifactStep, ArtifactTrouble

LEMMA CurrentWhenThrough == ASSUME HostInv, [Host]_bastionVars PROVE CurrentWhenBuilt
<1> SUFFICES ASSUME At("build-isos"), step.todo # step'.todo, Running', Head(step'.todo) = "upload-isos"
             PROVE  \A n \in HostNodes :
                       iso[n] = [net |-> want.net, cert |-> cert.id, base |-> tools.bins["openshift-install"]]
  BY DEF CurrentWhenBuilt
<1>1. step.left = {}
  BY BuildsAreThrough
<1> QED
  BY <1>1 DEF HostInv, Built, Whole


\* However often setup is run, with what failures and kills in between and whatever the
\* operator edits between two commands: a setup that ends well (orchestrator.Run over
\* WorkDirectory ... configureDNS) leaves the ignition of this configuration in the web root,
\* a server that runs under the certificate the ISOs trust, ISOs that are whole and of this
\* release, and, unless something went wrong in this run, these very ISOs on the storage.
THEOREM SetupsServe == ServicesSpec => SetupServes
<1>1. ServicesInit => HostInv
  BY PartsBegin, HostBegins
<1>2. [ServicesNext]_serviceVars => [Host]_bastionVars
  BY EachPart
<1>3. ASSUME HostInv, [Host]_bastionVars PROVE HostInv' /\ ServesAtEnd
  BY <1>3, HostKept, ServesWhenDone
<1>4. SetupServes <=> [][ServesAtEnd]_bastionVars
  BY DEF SetupServes, ServesAtEnd
<1> QED
  BY <1>1, <1>2, <1>3, <1>4, PTL DEF ServicesSpec

\* BuildCustomISOs leaves out what its fingerprint says is built already and is still right to
\* go on: when it is through, in a setup or in a join window, every ISO is whole and made of
\* the network settings, the certificate and the installer of now, whatever builds were cut
\* short before and whichever fingerprints were not written.
THEOREM ISOsAreCurrent == ServicesSpec => IsoCurrent
<1>1. ServicesInit => HostInv
  BY PartsBegin, HostBegins
<1>2. [ServicesNext]_serviceVars => [Host]_bastionVars
  BY EachPart
<1>3. ASSUME HostInv, [Host]_bastionVars PROVE HostInv' /\ CurrentWhenBuilt
  BY <1>3, HostKept, CurrentWhenThrough
<1>4. IsoCurrent <=> [][CurrentWhenBuilt]_bastionVars
  BY DEF IsoCurrent, CurrentWhenBuilt
<1> QED
  BY <1>1, <1>2, <1>3, <1>4, PTL DEF ServicesSpec

-----------------------------------------------------------------------------
(* The configuration *)

\* The fields of a configuration that the argument looks at.
KnownFields == {"px", "provider", "masters", "workers", "master", "worker", "node", "storage", "data_storage",
    "iso_storage", "bridge", "host", "vmid", "machine", "gateway", "start", "netmask", "static_dns",
    "bastion", "ignition", "username", "password", "version", "dist", "cp_disk", "w_disk", "boot_count",
    "boot_cpu", "boot_mem", "boot_disk", "cp_cpu", "cp_mem", "w_cpu", "w_mem", "bootstrap_timeout", "install_timeout"}

LEMMA FieldsKnown == KnownFields \subseteq DOMAIN DefaultConfig
BY DEF KnownFields, DefaultConfig

\* The configurations that may be on file at first, and the Proxmox nodes that are ever named.
OnFile == {p.file[1] : p \in {q \in Projects : q.file # <<>>}}
PlacedBy(c) == ToSet(c.master) \cup ToSet(c.worker) \cup ({c.node} \ {""})
ProxmoxNames ==
    {"pve"} \cup (UNION {ToSet(names) : names \in Hosts}) \cup (UNION {PlacedBy(c) : c \in OnFile})

\* A configuration as files, forms and discoveries make it.
Sound(c) ==
    /\ DOMAIN c = DOMAIN DefaultConfig
    /\ c.px \in BOOLEAN /\ c.masters \in Int /\ c.workers \in Int /\ c.node \in ProxmoxNames \cup {""}
    /\ c.machine \in Int \X Int
    /\ c.master \in Seq(ProxmoxNames) /\ c.worker \in Seq(ProxmoxNames)

\* No form has a field for the provider block or for a placement: those have screens of their own.
LEMMA FormFieldsApart == /\ FormFields \cap {"master", "worker", "px", "node"} = {}
                         /\ {"masters", "workers", "machine"} \subseteq FormFields
                         /\ \A page \in DOMAIN StepFields : \A i \in DOMAIN StepFields[page] : StepFields[page][i] \in FormFields
<1>1. \A page \in DOMAIN StepFields : \A i \in DOMAIN StepFields[page] : StepFields[page][i] \in FormFields
  BY DEF FormFields, ToSet
<1>2. FormFields = UNION {ToSet(ProxmoxFields), ToSet(BasicsFields), ToSet(NetworkingFields), ToSet(ResourcesFields),
    ToSet(AddonsFields), ToSet(FilesFields), ToSet(AdvancedFields)}
  BY DEF FormFields, StepFields
<1>3. ToSet(BasicsFields) = {"name", "domain", "masters", "workers"} /\ "machine" \in ToSet(NetworkingFields)
  BY DEF BasicsFields, NetworkingFields, ToSet
<1>4. /\ "master" \notin ToSet(ProxmoxFields) /\ "worker" \notin ToSet(ProxmoxFields) /\ "px" \notin ToSet(ProxmoxFields) /\ "node" \notin ToSet(ProxmoxFields)
  BY DEF ProxmoxFields, ToSet
<1>5. {"master", "worker", "px", "node"} \cap ToSet(NetworkingFields) = {}
  BY DEF NetworkingFields, ToSet
<1>6. {"master", "worker", "px", "node"} \cap ToSet(ResourcesFields) = {}
  BY DEF ResourcesFields, ToSet
<1>7. {"master", "worker", "px", "node"} \cap ToSet(AddonsFields) = {}
  BY DEF AddonsFields, ToSet
<1>8. {"master", "worker", "px", "node"} \cap ToSet(FilesFields) = {}
  BY DEF FilesFields, ToSet
<1>9. {"master", "worker", "px", "node"} \cap ToSet(AdvancedFields) = {}
  BY DEF AdvancedFields, ToSet
<1> QED
  BY <1>1, <1>2, <1>3, <1>4, <1>5, <1>6, <1>7, <1>8, <1>9

\* Deriving the netmask writes the netmask alone.
LEMMA Derived ==
    ASSUME NEW c, Sound(c)
    PROVE  Sound(DeriveStaticNetmask(c)) /\ \A f \in KnownFields \ {"netmask"} : DeriveStaticNetmask(c)[f] = c[f]
BY FieldsKnown DEF DeriveStaticNetmask, Sound, KnownFields

\* What a form writes keeps a configuration sound and leaves the placement as it is.
LEMMA FormsWrite ==
    ASSUME NEW c, Sound(c), NEW fm, fm.masters \in Int, fm.workers \in Int, fm.machine \in Int \X Int,
           NEW page \in DOMAIN StepFields
    PROVE  /\ Sound(FormApply(c, fm, page))
           /\ \A f \in {"master", "worker", "node"} : FormApply(c, fm, page)[f] = c[f]
           /\ c.px => FormApply(c, fm, page).px
<1> DEFINE Field(i) == StepFields[page][i]
           shown == {i \in DOMAIN StepFields[page] : IsVisible(fm, Field(i))}
           noNumbers == {i \in shown : Field(i) \in DOMAIN Bounds /\ fm[Field(i)] = NaN}
           written == {Field(i) : i \in {j \in shown : \A k \in noNumbers : j < k}}
           result == [f \in DOMAIN c |-> IF f \in written THEN fm[f] ELSE c[f]]
<1>1. written \subseteq FormFields
  BY FormFieldsApart
<1>2. FormApply(c, fm, page) \in {result, DefinitionApply(result, page)}
  BY DEF FormApply
<1> HIDE DEF written, shown, noNumbers, Field
<1>3. /\ DOMAIN result = DOMAIN c /\ result.master = c.master /\ result.worker = c.worker /\ result.px = c.px
      /\ result.node = c.node /\ result.masters \in Int /\ result.workers \in Int /\ result.machine \in Int \X Int
  BY <1>1, FormFieldsApart, FieldsKnown DEF Sound, KnownFields
<1>4. Sound(result)
  BY <1>3 DEF Sound
<1> HIDE DEF result
<1>5. CASE page = "proxmox"
  <2>1. DefinitionApply(result, page) = [result EXCEPT !.px = TRUE, !.provider = "proxmox"]
    BY <1>5 DEF DefinitionApply
  <2>2. Sound(DefinitionApply(result, page)) /\ DefinitionApply(result, page).px
        /\ \A f \in {"master", "worker", "node"} : DefinitionApply(result, page)[f] = result[f]
    BY <2>1, <1>4, FieldsKnown DEF Sound, KnownFields
  <2> QED
    BY <2>2, <1>2, <1>3, <1>4
<1>6. CASE page = "networking"
  <2> DEFINE d == [result EXCEPT !.static_dns = result.bastion]
  <2>1. Sound(d) /\ d.px = result.px /\ \A f \in {"master", "worker", "node"} : d[f] = result[f]
    BY <1>4, FieldsKnown DEF Sound, KnownFields
  <2>2. DefinitionApply(result, page) = DeriveStaticNetmask(d)
    BY <1>6 DEF DefinitionApply
  <2> HIDE DEF d
  <2>3. Sound(DefinitionApply(result, page)) /\ DefinitionApply(result, page).px = result.px
        /\ \A f \in {"master", "worker", "node"} : DefinitionApply(result, page)[f] = result[f]
    BY <2>1, <2>2, Derived DEF KnownFields
  <2> QED
    BY <2>3, <1>2, <1>3, <1>4
<1>7. CASE page = "files"
  <2>1. DefinitionApply(result, page) = [result EXCEPT !.ignition = result.bastion]
    BY <1>7 DEF DefinitionApply
  <2>2. Sound(DefinitionApply(result, page)) /\ DefinitionApply(result, page).px = result.px
        /\ \A f \in {"master", "worker", "node"} : DefinitionApply(result, page)[f] = result[f]
    BY <2>1, <1>4, FieldsKnown DEF Sound, KnownFields
  <2> QED
    BY <2>2, <1>2, <1>3, <1>4
<1>8. CASE page \notin {"proxmox", "networking", "files"}
  BY <1>8, <1>2, <1>3, <1>4 DEF DefinitionApply
<1> QED
  BY <1>5, <1>6, <1>7, <1>8

\* Saving drops the credentials alone; loading and the defaults give sound configurations.
LEMMA SavedIsSound ==
    ASSUME NEW c, Sound(c)
    PROVE  /\ Sound(Saved(c))
           /\ \A f \in DOMAIN c \ {"username", "password"} : Saved(c)[f] = c[f]
BY FieldsKnown DEF Saved, Sound, KnownFields

LEMMA LoadedIsSound ==
    ASSUME NEW c, Sound(c)
    PROVE  Sound(LoadFile(c))
<1> DEFINE d == [c EXCEPT !.vmid = Or(@, DefaultConfig.vmid),
                   !.bootstrap_timeout = Or(@, DefaultConfig.bootstrap_timeout),
                   !.install_timeout = Or(@, DefaultConfig.install_timeout)]
<1>1. Sound(d)
  BY FieldsKnown DEF Sound, KnownFields
<1> QED
  BY <1>1, Derived DEF LoadFile

LEMMA DefaultsAreSound == Sound(DefaultConfig) /\ Sound(MinimalConfig)
<1>1. Sound(DefaultConfig)
  <2>1. /\ DefaultConfig.px = TRUE /\ DefaultConfig.masters = 3 /\ DefaultConfig.workers = 3
        /\ DefaultConfig.node = "pve" /\ DefaultConfig.master = <<>> /\ DefaultConfig.worker = <<>>
        /\ DefaultConfig.machine = <<1, 254>>
    BY DEF DefaultConfig
  <2>2. <<>> \in Seq(ProxmoxNames)
    OBVIOUS
  <2>3. DefaultConfig.px \in BOOLEAN
    BY Zenon, <2>1
  <2>4. DefaultConfig.masters \in Int /\ DefaultConfig.workers \in Int
    BY <2>1
  <2>5. DefaultConfig.master \in Seq(ProxmoxNames) /\ DefaultConfig.worker \in Seq(ProxmoxNames)
    BY <2>1, <2>2
  <2>6. DefaultConfig.node \in ProxmoxNames
    BY <2>1 DEF ProxmoxNames
  <2>7. DefaultConfig.machine \in Int \X Int
    BY <2>1
  <2> QED
    BY <2>3, <2>4, <2>5, <2>6, <2>7 DEF Sound
<1>2. DOMAIN MinimalConfig = DOMAIN DefaultConfig
  <2> DEFINE c == [DefaultConfig EXCEPT !.name = "minimal", !.masters = 1, !.cp_mem = 8192,
                     !.workers = 0, !.w_cpu = 0]
  <2>1. DOMAIN c = DOMAIN DefaultConfig
    OBVIOUS
  <2>2. MinimalConfig = [c EXCEPT !.w_mem = 0, !.w_disk = 0, !.boot_count = 0, !.boot_cpu = 0,
                           !.boot_mem = 0, !.boot_disk = 0]
    BY DEF MinimalConfig
  <2> HIDE DEF c
  <2> QED
    BY <2>1, <2>2
<1>3. /\ MinimalConfig.node = DefaultConfig.node
      /\ MinimalConfig.master = DefaultConfig.master /\ MinimalConfig.worker = DefaultConfig.worker
  BY FieldsKnown DEF MinimalConfig, KnownFields
<1>5. MinimalConfig.px = DefaultConfig.px /\ MinimalConfig.machine = DefaultConfig.machine
  BY FieldsKnown DEF MinimalConfig, KnownFields
<1>6. MinimalConfig.masters = 1 /\ MinimalConfig.workers = 0
  BY FieldsKnown DEF MinimalConfig, KnownFields
<1>4. Sound(MinimalConfig)
  <2>1. 1 \in Int /\ 0 \in Int
    OBVIOUS
  <2> QED
    BY Zenon, <1>1, <1>2, <1>3, <1>5, <1>6, <2>1 DEF Sound
<1> QED
  BY <1>1, <1>4

\* The names are those of the hosts a discovery may find and of the files.
LEMMA NamesCover ==
    /\ "pve" \in ProxmoxNames /\ \A names \in Hosts : names \in Seq(ProxmoxNames) /\ names # <<>>
    /\ \A c \in OnFile : Sound(c)
<1>1. ASSUME NEW T, NEW s \in Seq(T), \A i \in DOMAIN s : s[i] \in ProxmoxNames PROVE s \in Seq(ProxmoxNames)
  BY <1>1
<1>2. ASSUME NEW names \in Hosts PROVE names \in Seq(ProxmoxNames) /\ names # <<>>
  <2>1. ToSet(names) \subseteq ProxmoxNames
    BY Zenon DEF ProxmoxNames
  <2>2. \A i \in DOMAIN names : names[i] \in ProxmoxNames
    BY Zenon, <2>1 DEF ToSet
  <2>3. names \in Seq(STRING \ {""}) /\ names # <<>>
    BY ConfigureAssumption
  <2> QED
    BY Zenon, <1>1, <2>2, <2>3
<1>3. ASSUME NEW c \in OnFile PROVE Sound(c)
  <2>1. /\ DOMAIN c = DOMAIN DefaultConfig
        /\ c.px \in BOOLEAN /\ c.masters \in Int /\ c.workers \in Int /\ c.machine \in Int \X Int
        /\ c.master \in Seq(STRING) /\ c.worker \in Seq(STRING)
    <3>1. PICK p \in Projects : p.file # <<>> /\ c = p.file[1]
      BY DEF OnFile
    <3> QED
      BY <3>1, ConfigureAssumption DEF Project
  <2>7. PlacedBy(c) \subseteq ProxmoxNames
    BY SMT DEF ProxmoxNames
  <2>2. c.node \in ProxmoxNames \cup {""}
    BY <2>7 DEF PlacedBy
  <2>6. ToSet(c.master) \subseteq ProxmoxNames /\ ToSet(c.worker) \subseteq ProxmoxNames
    BY <2>7 DEF PlacedBy
  <2>3. \A i \in DOMAIN c.master : c.master[i] \in ProxmoxNames
    BY Zenon, <2>6 DEF ToSet
  <2>4. \A i \in DOMAIN c.worker : c.worker[i] \in ProxmoxNames
    BY Zenon, <2>6 DEF ToSet
  <2>5. c.master \in Seq(ProxmoxNames) /\ c.worker \in Seq(ProxmoxNames)
    BY Zenon, <1>1, <2>1, <2>3, <2>4
  <2> QED
    BY <2>1, <2>2, <2>5 DEF Sound
<1>4. "pve" \in ProxmoxNames
  BY DEF ProxmoxNames
<1> QED
  BY <1>2, <1>3, <1>4

-----------------------------------------------------------------------------
(* The invariant of the forms, screen by screen *)

\* The placement screen: every dropdown that is shown has a choice.
Placements ==
    [phase : {"discovering", "placing"}, err : BOOLEAN, fetch : BOOLEAN, options : Seq(ProxmoxNames),
     boot : ProxmoxNames \cup {""}, master : Seq(ProxmoxNames), worker : Seq(ProxmoxNames), shown : SUBSET Roles,
     pools : BOOLEAN]
Assigned(p) == p \in Placements /\ \A r \in p.shown : p[r] # <<>>

\* The distribution screen.
ListsVersions(k) ==
    /\ DOMAIN k = {"phase", "fetch", "series", "expanded", "cursor", "selected", "current", "cached"}
    /\ k.phase \in {"loading", "select", "error"}

\* Where the operator is, and what is left of the bounds.
OnScreens ==
    /\ screen \in [at : ToSet(Steps) \cup {"shell"}, toReview : BOOLEAN, exists : BOOLEAN]
    /\ outcome \in {"none", "cancelled", "saved", "rejected", "failed", "deployed"}
    /\ budget \in [edits : 0..MaxEdits, sessions : 0..MaxSessions]

\* A fetch is under way only on the screen that waits for it.
PlacementStands ==
    /\ Assigned(place)
    /\ place.fetch => OnStep("node-placement") /\ place.phase = "discovering"

CatalogStands ==
    /\ ListsVersions(catalog)
    /\ catalog.fetch => OnStep("distribution") /\ catalog.phase = "loading"

\* What outlives a wizard.
Stored ==
    /\ file # <<>> => Sound(file[1])
    /\ DOMAIN login = {"envfile", "shell", "environ", "loaded", "used", "typed"}
    /\ DOMAIN chosen = Roles

\* Inside the wizard: nodes were asked for only with a provider block, the choice that was last
\* confirmed or loaded is still that of the configuration, nobody has been promised a login, and
\* a process that read no .env file has the variables of its shell.
UnderWay ==
    /\ Sound(cfg)
    /\ DOMAIN forms = FormFields /\ forms.masters \in Int /\ forms.workers \in Int /\ forms.machine \in Int \X Int
    /\ place.fetch \/ place.options # <<>> => cfg.px
    /\ \A r \in Roles : chosen[r] # <<>> => chosen[r] = cfg[r]
    /\ login.typed = <<>> /\ (login.loaded = "no" => login.environ = login.shell)

\* The invariant of the forms.
Configuring ==
    /\ OnScreens /\ PlacementStands /\ CatalogStands /\ Stored
    /\ ~OnStep("shell") => UnderWay

LEMMA ScreenNames ==
    /\ {"welcome", "distribution", "proxmox", "basics", "node-placement", "networking",
        "resources", "addons", "files", "advanced", "review"} = ToSet(Steps)
    /\ \A i \in DOMAIN Steps : Steps[i] \in ToSet(Steps)
    /\ DOMAIN StepFields \subseteq ToSet(Steps) /\ "shell" \notin ToSet(Steps)
<1>1. ToSet(Steps) = {"welcome", "distribution", "proxmox", "basics", "node-placement", "networking",
        "resources", "addons", "files", "advanced", "review"}
  BY DEF ToSet, Steps
<1>2. DOMAIN StepFields = {"proxmox", "basics", "networking", "resources", "addons", "files", "advanced"}
  BY DEF StepFields
<1>3. \A i \in DOMAIN Steps : Steps[i] \in ToSet(Steps)
  BY DEF ToSet
<1> QED
  BY <1>1, <1>2, <1>3

LEMMA NewPlacementAssigned == Assigned(NewPlacement) /\ ~NewPlacement.fetch /\ NewPlacement.options = <<>>
BY DEF Assigned, NewPlacement, Placements

LEMMA NewCatalogLists ==
    ASSUME NEW v, NEW known
    PROVE  ListsVersions(NewCatalog(v, known)) /\ ~NewCatalog(v, known).fetch
BY DEF ListsVersions, NewCatalog

\* Rebuilding the dropdowns gives each that is shown a choice among the names.
LEMMA Rebuilt ==
    ASSUME Sound(cfg), Assigned(place), NEW names \in Seq(ProxmoxNames), names # <<>>, NEW found \in BOOLEAN
    PROVE  Assigned(buildInnerStep(names, found))
<1> DEFINE Fields(role) == IF CountOf(cfg, role) > 0 THEN nodeSelectFields(cfg, role, names) ELSE place[role]
           p == buildInnerStep(names, found)
<1>1. names[1] \in ProxmoxNames
  OBVIOUS
<1>2. \A role \in Roles : CountOf(cfg, role) \in Int /\ cfg[role] \in Seq(ProxmoxNames) /\ place[role] \in Seq(ProxmoxNames)
  BY DEF Roles, CountOf, Sound, Assigned, Placements
<1>3. ASSUME NEW role \in Roles
      PROVE  Fields(role) \in Seq(ProxmoxNames) /\ (CountOf(cfg, role) > 0 => Fields(role) # <<>>)
  <2>1. CASE CountOf(cfg, role) > 0
    <3> DEFINE n == CountOf(cfg, role)
               l == nodeSelectFields(cfg, role, names)
    <3>1. n \in Int /\ n > 0
      BY <1>2, <2>1
    <3>2. l = [i \in 1..n |-> IF i <= Len(cfg[role]) /\ cfg[role][i] \in ToSet(names) THEN cfg[role][i] ELSE names[1]]
      BY DEF nodeSelectFields
    <3>3. ToSet(names) \subseteq ProxmoxNames
      BY DEF ToSet
    <3> HIDE DEF n, l
    <3>4. l \in [1..n -> ProxmoxNames]
      BY <1>1, <3>2, <3>3
    <3>5. l \in Seq(ProxmoxNames) /\ l # <<>>
      BY <3>1, <3>4
    <3> QED
      BY <3>5, <2>1 DEF l
  <2> QED
    BY <2>1, <1>2
<1>4. OrText(cfg.node, names[1]) \in ProxmoxNames
  BY <1>1 DEF OrText, Sound
<1>5. /\ DOMAIN p = DOMAIN place /\ p.phase = place.phase /\ p.err = place.err /\ p.fetch = place.fetch
      /\ p.options = names /\ p.boot \in ProxmoxNames /\ p.master = Fields("master") /\ p.worker = Fields("worker")
      /\ p.shown = {r \in Roles : CountOf(cfg, r) > 0} /\ p.pools \in BOOLEAN
      /\ p = [place EXCEPT !.options = names, !.boot = p.boot, !.master = p.master, !.worker = p.worker,
                 !.shown = p.shown, !.pools = p.pools]
  BY <1>4 DEF buildInnerStep, Assigned, Placements
<1> HIDE DEF Fields, p
<1>6. p.master \in Seq(ProxmoxNames) /\ p.worker \in Seq(ProxmoxNames)
  BY <1>3, <1>5 DEF Roles
<1>7. p \in Placements
  BY <1>5, <1>6 DEF Assigned, Placements
<1>8. \A r \in p.shown : p[r] # <<>>
  BY <1>3, <1>5 DEF Roles
<1> QED
  BY <1>7, <1>8 DEF Assigned, p

\* Phases, errors and fetches do not touch the dropdowns.
LEMMA StillAssigned ==
    ASSUME NEW p, Assigned(p), NEW q \in Placements, q.shown = p.shown, q.master = p.master, q.worker = p.worker
    PROVE  Assigned(q)
<1>1. \A r \in p.shown : r \in Roles /\ p[r] # <<>>
  BY DEF Assigned, Placements
<1>2. \A r \in Roles : q[r] = p[r]
  BY DEF Roles
<1> QED
  BY <1>1, <1>2 DEF Assigned

LEMMA Phased ==
    ASSUME NEW p, Assigned(p), NEW ph \in {"discovering", "placing"}, NEW e \in BOOLEAN, NEW fe \in BOOLEAN
    PROVE  /\ Assigned([p EXCEPT !.phase = ph, !.err = e, !.fetch = fe])
           /\ Assigned([p EXCEPT !.phase = ph, !.err = e])
           /\ Assigned([p EXCEPT !.phase = ph, !.fetch = fe, !.err = e])
           /\ Assigned([p EXCEPT !.fetch = fe])
<1> DEFINE q1 == [p EXCEPT !.phase = ph, !.err = e, !.fetch = fe]
           q2 == [p EXCEPT !.phase = ph, !.err = e]
           q3 == [p EXCEPT !.fetch = fe]
           q4 == [p EXCEPT !.phase = ph, !.fetch = fe, !.err = e]
<1>1. p \in Placements
  BY DEF Assigned
<1>2. q1 \in Placements /\ q1.shown = p.shown /\ q1.master = p.master /\ q1.worker = p.worker
  BY <1>1 DEF Placements
<1>3. q2 \in Placements /\ q2.shown = p.shown /\ q2.master = p.master /\ q2.worker = p.worker
  BY <1>1 DEF Placements
<1>4. q3 \in Placements /\ q3.shown = p.shown /\ q3.master = p.master /\ q3.worker = p.worker
  BY <1>1 DEF Placements
<1>5. q4 \in Placements /\ q4.shown = p.shown /\ q4.master = p.master /\ q4.worker = p.worker
  BY <1>1 DEF Placements
<1> HIDE DEF q1, q2, q3, q4
<1>6. Assigned(q1) /\ Assigned(q2) /\ Assigned(q3) /\ Assigned(q4)
  BY <1>2, <1>3, <1>4, <1>5, StillAssigned
<1> QED
  BY <1>6 DEF q1, q2, q3, q4

\* Arriving on a screen keeps both fetching screens in order.
LEMMA Arrives ==
    ASSUME Configuring, ~OnStep("shell"), NEW page \in ToSet(Steps), NEW toReview \in BOOLEAN,
           NEW k, ListsVersions(k), focusStep(page, toReview, k), cfg.px => cfg'.px
    PROVE  /\ screen' \in [at : ToSet(Steps) \cup {"shell"}, toReview : BOOLEAN, exists : BOOLEAN]
           /\ ~OnStep("shell")' /\ PlacementStands' /\ CatalogStands'
           /\ place'.fetch \/ place'.options # <<>> => cfg'.px
<1>1. /\ screen' \in [at : ToSet(Steps) \cup {"shell"}, toReview : BOOLEAN, exists : BOOLEAN]
      /\ screen'.at = page /\ page # "shell"
  BY ScreenNames DEF focusStep, Configuring, OnScreens
<1>2. /\ Assigned(place) /\ (place.fetch => place.phase = "discovering")
      /\ place.fetch \/ place.options # <<>> => cfg.px
  BY DEF Configuring, PlacementStands, UnderWay
<1>4. ASSUME page = "node-placement"
      PROVE  PlacementStands' /\ (place'.fetch \/ place'.options # <<>> => cfg'.px)
  <2>1. place' = PlacementInit /\ OnStep("node-placement")'
    BY <1>1, <1>4 DEF focusStep, OnStep
  <2>2. CASE place.phase = "placing" /\ ~place.err
    <3>1. place' = place
      BY <2>1, <2>2 DEF PlacementInit
    <3> QED
      BY <3>1, <2>2, <1>2 DEF PlacementStands, Assigned
  <2>3. CASE ~(place.phase = "placing" /\ ~place.err) /\ ~cfg'.px
    <3>1. place' = [place EXCEPT !.phase = "placing", !.err = TRUE]
      BY <2>1, <2>3 DEF PlacementInit
    <3>2. ~place.fetch /\ place.options = <<>>
      BY <1>2, <2>3
    <3>3. ~place'.fetch /\ place'.options = <<>>
      BY <3>1, <3>2, <1>2 DEF Assigned, Placements
    <3>4. Assigned(place')
      BY <3>1, <1>2, Phased
    <3> QED
      BY <3>3, <3>4, <2>1 DEF PlacementStands, Assigned
  <2>4. CASE ~(place.phase = "placing" /\ ~place.err) /\ cfg'.px
    <3>1. place' = [place EXCEPT !.phase = "discovering", !.err = FALSE, !.fetch = TRUE]
      BY <2>1, <2>4 DEF PlacementInit, startDiscovery
    <3>2. place'.phase = "discovering"
      BY <3>1, <1>2 DEF Assigned, Placements
    <3>3. Assigned(place')
      BY <3>1, <1>2, Phased
    <3> QED
      BY <3>2, <3>3, <2>1, <2>4 DEF PlacementStands, Assigned
  <2> QED
    BY <2>2, <2>3, <2>4
<1>5. ASSUME page # "node-placement"
      PROVE  PlacementStands' /\ (place'.fetch \/ place'.options # <<>> => cfg'.px)
  <2>1. place' = [place EXCEPT !.fetch = FALSE]
    BY <1>5 DEF focusStep
  <2>2. ~place'.fetch /\ place'.options = place.options
    BY <2>1, <1>2 DEF Assigned, Placements
  <2>3. Assigned(place')
    BY <2>1, <1>2, Phased
  <2> QED
    BY <2>2, <2>3, <1>2 DEF PlacementStands, Assigned
<1>6. CatalogStands'
  <2>1. CASE page = "distribution"
    <3>1. catalog' \in {catalog, [catalog EXCEPT !.phase = "loading", !.fetch = TRUE]}
          /\ (catalog' = catalog => catalog.phase = "select" \/ catalog = [catalog EXCEPT !.phase = "loading", !.fetch = TRUE])
      BY <2>1 DEF focusStep, DistributionInit, startFetch
    <3>2. OnStep("distribution")'
      BY <2>1, <1>1 DEF OnStep
    <3>3. /\ ListsVersions(catalog) /\ (catalog.fetch => catalog.phase = "loading")
      BY DEF Configuring, CatalogStands
    <3>4. ListsVersions(catalog')
      BY <3>1, <3>3 DEF ListsVersions
    <3>5. catalog'.fetch => catalog'.phase = "loading"
      BY <3>1, <3>3 DEF ListsVersions
    <3> QED
      BY <3>2, <3>4, <3>5 DEF CatalogStands
  <2>2. CASE page # "distribution"
    <3>1. catalog' = [k EXCEPT !.fetch = FALSE]
      BY <2>2 DEF focusStep
    <3>2. ListsVersions(catalog') /\ ~catalog'.fetch
      BY <3>1 DEF ListsVersions
    <3> QED
      BY <3>2 DEF CatalogStands
  <2> QED
    BY <2>1, <2>2
<1> QED
  BY <1>1, <1>4, <1>5, <1>6 DEF OnStep

\* Forward and back end on a screen.
LEMMA GoesForward ==
    ASSUME NEW k, goToNextStep(k)
    PROVE  \E page \in ToSet(Steps), toReview \in BOOLEAN : focusStep(page, toReview, k)
<1>1. CASE screen.toReview
  BY <1>1, ScreenNames DEF goToNextStep
<1>2. CASE ~screen.toReview
  BY <1>2, ScreenNames DEF goToNextStep
<1> QED
  BY <1>1, <1>2

LEMMA GoesBack ==
    ASSUME goToPreviousStep
    PROVE  \E page \in ToSet(Steps), toReview \in BOOLEAN : focusStep(page, toReview, catalog)
<1>1. CASE screen.toReview
  BY <1>1, ScreenNames DEF goToPreviousStep
<1>2. CASE ~screen.toReview
  BY <1>2, ScreenNames DEF goToPreviousStep
<1> QED
  BY <1>1, <1>2

LEMMA Advances ==
    ASSUME Configuring, ~OnStep("shell"), NEW k, ListsVersions(k), cfg.px => cfg'.px,
           \E page \in ToSet(Steps), toReview \in BOOLEAN : focusStep(page, toReview, k)
    PROVE  /\ screen' \in [at : ToSet(Steps) \cup {"shell"}, toReview : BOOLEAN, exists : BOOLEAN]
           /\ ~OnStep("shell")' /\ PlacementStands' /\ CatalogStands'
           /\ place'.fetch \/ place'.options # <<>> => cfg'.px
BY Arrives

-----------------------------------------------------------------------------
(* Each step keeps it *)

\* The fields of the login.
SignIns == {"envfile", "shell", "environ", "loaded", "used", "typed"}

LEMMA EditsBounded == MaxEdits \in Nat /\ MaxSessions \in Nat
BY Zenon, ConfigureAssumption

LEMMA ConfigureBegins == ASSUME ConfigureInit PROVE Configuring
<1>1. OnStep("shell") /\ place = NewPlacement /\ catalog = NewCatalog("", <<>>)
  BY DEF ConfigureInit, AtRest, OnStep
<1>2. OnScreens
  <2>1. screen = [at |-> "shell", toReview |-> FALSE, exists |-> FALSE] /\ outcome = "none"
        /\ budget = [edits |-> MaxEdits, sessions |-> MaxSessions]
    BY DEF ConfigureInit, AtRest
  <2>2. MaxEdits \in 0..MaxEdits /\ MaxSessions \in 0..MaxSessions
    BY EditsBounded
  <2> QED
    BY <2>1, <2>2 DEF OnScreens
<1>3. PlacementStands /\ CatalogStands
  BY <1>1, NewPlacementAssigned, NewCatalogLists DEF PlacementStands, CatalogStands
<1>4. Stored
  <2>1. file # <<>> => file[1] \in OnFile
    BY DEF ConfigureInit, OnFile
  <2>2. DOMAIN login = SignIns /\ DOMAIN chosen = Roles
    BY DEF ConfigureInit, SignIns
  <2> QED
    BY <2>1, <2>2, NamesCover DEF Stored, SignIns
<1> QED
  BY <1>1, <1>2, <1>3, <1>4 DEF Configuring

\* How a deploy may end, and what one that was let through got past.
LEMMA Deploys ==
    ASSUME NEW c, NEW p, DOMAIN p = SignIns, runFullDeployment(c, p)
    PROVE  /\ outcome' \in {"rejected", "failed", "deployed"} /\ DOMAIN login' = SignIns
           /\ outcome' = "deployed" =>
                /\ Admitted(c) /\ LoadEnvFile(p).loaded # "failed" /\ CanListNodes(c)
                /\ ModuleAccepts(buildTerraformVarsData(c))
                /\ login'.used = GetProxmoxCredentials(c, LoadEnvFile(p).environ)
                /\ login'.typed = p.typed
<1> DEFINE q == LoadEnvFile(p)
           u == [q EXCEPT !.used = GetProxmoxCredentials(c, q.environ)]
<1>1. DOMAIN q = SignIns /\ q.typed = p.typed
  BY DEF LoadEnvFile, loadEnvFileOnce, SignIns
<1>2. \/ outcome' \in {"rejected", "failed"} /\ login' = EndProcess(p)
      \/ outcome' = "deployed" /\ login' = EndProcess(u)
         /\ Admitted(c) /\ q.loaded # "failed" /\ CanListNodes(c)
         /\ ModuleAccepts(buildTerraformVarsData(c))
  BY DEF runFullDeployment
<1>3. DOMAIN EndProcess(p) = SignIns
  BY DEF EndProcess, SignIns
<1> HIDE DEF q
<1>4. DOMAIN EndProcess(u) = SignIns /\ EndProcess(u).typed = p.typed
      /\ EndProcess(u).used = GetProxmoxCredentials(c, q.environ)
  BY <1>1 DEF EndProcess, SignIns
<1> HIDE DEF u
<1> QED
  BY <1>2, <1>3, <1>4 DEF q

\* Leaving the wizard drops its screens.
LEMMA Leaves ==
    ASSUME LeaveWizard
    PROVE  OnStep("shell")' /\ PlacementStands' /\ CatalogStands'
           /\ screen' \in [at : ToSet(Steps) \cup {"shell"}, toReview : BOOLEAN, exists : BOOLEAN]
<1>1. OnStep("shell")' /\ place' = NewPlacement /\ catalog' = NewCatalog("", catalog.cached)
      /\ screen' \in [at : ToSet(Steps) \cup {"shell"}, toReview : BOOLEAN, exists : BOOLEAN]
  BY DEF LeaveWizard, OnStep
<1>2. PlacementStands'
  BY <1>1, NewPlacementAssigned DEF PlacementStands
<1>3. CatalogStands'
  BY <1>1, NewCatalogLists DEF CatalogStands
<1> QED
  BY <1>1, <1>2, <1>3

LEMMA LoadsConfig == ASSUME Stored PROVE Sound(loadDeployConfig)
BY DefaultsAreSound, LoadedIsSound DEF loadDeployConfig, Stored

LEMMA WizardRuns == ASSUME Configuring, RunWizard PROVE Configuring'
<1>1. Sound(cfg')
  BY LoadsConfig DEF RunWizard, Configuring
<1>2. /\ file' = file /\ chosen' = PlacedIn(cfg') /\ place' = NewPlacement /\ outcome' = "none"
      /\ screen'.at = "welcome"
  BY DEF RunWizard
<1>3. OnScreens'
  <2>1. screen' = [at |-> "welcome", toReview |-> FALSE, exists |-> file # <<>>]
    BY DEF RunWizard
  <2>2. screen' \in [at : ToSet(Steps) \cup {"shell"}, toReview : BOOLEAN, exists : BOOLEAN]
    BY <2>1, ScreenNames
  <2>3. budget' \in [edits : 0..MaxEdits, sessions : 0..MaxSessions]
    <3>1. /\ budget.sessions > 0 /\ budget' = [budget EXCEPT !.sessions = @ - 1]
          /\ budget \in [edits : 0..MaxEdits, sessions : 0..MaxSessions]
      BY DEF RunWizard, Configuring, OnScreens
    <3> QED
      BY <3>1, EditsBounded
  <2> QED
    BY <1>2, <2>2, <2>3 DEF OnScreens
<1>4. PlacementStands' /\ CatalogStands'
  <2>1. PlacementStands'
    BY <1>2, NewPlacementAssigned DEF PlacementStands
  <2>2. \E v, known : catalog' = NewCatalog(v, known)
    BY DEF RunWizard
  <2> QED
    BY <2>1, <2>2, NewCatalogLists DEF CatalogStands
<1>5. DOMAIN login' = SignIns /\ login'.typed = <<>> /\ login'.loaded = "no" /\ login'.environ = login'.shell
  BY DEF RunWizard, NewProcess, Configuring, Stored, SignIns
<1>6. Stored'
  BY <1>2, <1>5 DEF Stored, Configuring, PlacedIn, SignIns
<1>7. DOMAIN forms' = FormFields /\ forms'.masters \in Int /\ forms'.workers \in Int /\ forms'.machine \in Int \X Int
  <2>1. forms' = LoadFromConfig(cfg', file # <<>>)
    BY DEF RunWizard
  <2>2. DOMAIN forms' = FormFields /\ forms'.masters = cfg'.masters /\ forms'.workers = cfg'.workers /\ forms'.machine = cfg'.machine
    BY <2>1, FormFieldsApart DEF LoadFromConfig
  <2> QED
    BY <2>2, <1>1 DEF Sound
<1>8. UnderWay'
  <2>1. ~place'.fetch /\ place'.options = <<>>
    BY <1>2, NewPlacementAssigned
  <2>2. \A r \in Roles : chosen'[r] = cfg'[r]
    BY <1>2 DEF PlacedIn
  <2> QED
    BY <1>1, <1>5, <1>7, <2>1, <2>2 DEF UnderWay
<1> QED
  BY <1>3, <1>4, <1>6, <1>8 DEF Configuring

LEMMA YesDeploys == ASSUME Configuring, DeployYes PROVE Configuring'
<1>1. /\ screen' = screen /\ OnStep("shell") /\ place' = place /\ catalog' = catalog /\ file' = file
      /\ budget' = budget /\ chosen' = PlacedIn(cfg')
  BY DEF DeployYes
<1>2. DOMAIN [NewProcess(login) EXCEPT !.used = NoLogin, !.typed = <<>>] = SignIns
  BY DEF NewProcess, Configuring, Stored, SignIns
<1>3. outcome' \in {"rejected", "failed", "deployed"} /\ DOMAIN login' = SignIns
  BY <1>2, Deploys DEF DeployYes
<1>4. OnScreens' /\ Stored'
  BY <1>1, <1>3 DEF Configuring, OnScreens, Stored, PlacedIn, SignIns
<1>5. PlacementStands' /\ CatalogStands' /\ OnStep("shell")'
  BY <1>1 DEF Configuring, PlacementStands, CatalogStands, OnStep
<1> QED
  BY <1>4, <1>5 DEF Configuring

\* An edit is counted.
LEMMA Spends ==
    ASSUME OnScreens, Spend \/ budget' = budget
    PROVE  budget' \in [edits : 0..MaxEdits, sessions : 0..MaxSessions]
<1>1. budget \in [edits : 0..MaxEdits, sessions : 0..MaxSessions]
  BY DEF OnScreens
<1>2. CASE budget' = budget
  BY <1>1, <1>2
<1>3. CASE Spend
  BY <1>1, <1>3, EditsBounded DEF Spend
<1> QED
  BY <1>2, <1>3

LEMMA Cancels == ASSUME Configuring, CtrlC PROVE Configuring'
<1>1. /\ OnStep("shell")' /\ PlacementStands' /\ CatalogStands'
      /\ screen' \in [at : ToSet(Steps) \cup {"shell"}, toReview : BOOLEAN, exists : BOOLEAN]
  BY Leaves DEF CtrlC
<1>2. OnScreens'
  BY <1>1 DEF CtrlC, Configuring, OnScreens
<1>3. Stored'
  BY DEF CtrlC, Configuring, Stored, EndProcess
<1> QED
  BY <1>1, <1>2, <1>3 DEF Configuring

LEMMA HubDeploys == ASSUME Configuring, HubVerbDeploy PROVE Configuring'
<1>1. /\ OnStep("shell")' /\ PlacementStands' /\ CatalogStands'
      /\ screen' \in [at : ToSet(Steps) \cup {"shell"}, toReview : BOOLEAN, exists : BOOLEAN]
  BY Leaves DEF HubVerbDeploy
<1>2. outcome' \in {"rejected", "failed", "deployed"} /\ DOMAIN login' = SignIns
  BY Deploys DEF HubVerbDeploy, Configuring, Stored, SignIns
<1>3. file' = file /\ chosen' = chosen /\ budget' = budget
  BY DEF HubVerbDeploy
<1>4. OnScreens' /\ Stored'
  BY <1>1, <1>2, <1>3 DEF Configuring, OnScreens, Stored, SignIns
<1> QED
  BY <1>1, <1>4 DEF Configuring

LEMMA Writes ==
    ASSUME Stored, NEW p, p = login \/ \E l : p = WriteEnvFile(login, l)
    PROVE  DOMAIN p = SignIns /\ DOMAIN EndProcess(p) = SignIns
BY DEF Stored, WriteEnvFile, EndProcess, SignIns

LEMMA SavingFails == ASSUME Configuring, SaveFails PROVE Configuring'
<1>1. /\ OnStep("shell")' /\ PlacementStands' /\ CatalogStands'
      /\ screen' \in [at : ToSet(Steps) \cup {"shell"}, toReview : BOOLEAN, exists : BOOLEAN]
  BY Leaves DEF SaveFails
<1>2. outcome' = "failed" /\ file' = file /\ chosen' = chosen /\ budget' = budget
  BY DEF SaveFails
<1>3. DOMAIN login' = SignIns
  BY Writes DEF SaveFails, Configuring
<1>4. OnScreens' /\ Stored'
  BY <1>1, <1>2, <1>3 DEF Configuring, OnScreens, Stored, SignIns
<1> QED
  BY <1>1, <1>4 DEF Configuring

LEMMA Promises ==
    ASSUME NEW p, DOMAIN p = SignIns
    PROVE  DOMAIN Promise(p) = SignIns
BY DEF Promise, SignIns

LEMMA ReviewSaves == ASSUME Configuring, NEW deploy \in BOOLEAN, ReviewDone(deploy) PROVE Configuring'
<1>1. /\ OnStep("shell")' /\ PlacementStands' /\ CatalogStands'
      /\ screen' \in [at : ToSet(Steps) \cup {"shell"}, toReview : BOOLEAN, exists : BOOLEAN]
  BY Leaves DEF ReviewDone
<1>2. file' = <<Saved(cfg)>> /\ chosen' = chosen /\ budget' = budget /\ ~OnStep("shell")
  BY DEF ReviewDone, OnStep
<1>3. PICK p : /\ p = login \/ \E l : p = WriteEnvFile(login, l)
               /\ IF deploy THEN runFullDeployment(cfg', Promise(p))
                  ELSE outcome' = "saved" /\ login' = EndProcess(p)
  BY DEF ReviewDone
<1>4. DOMAIN p = SignIns /\ DOMAIN EndProcess(p) = SignIns
  BY <1>3, Writes DEF Configuring
<1>5. outcome' \in {"rejected", "failed", "deployed", "saved"} /\ DOMAIN login' = SignIns
  <2>1. CASE deploy
    BY <2>1, <1>3, <1>4, Promises, Deploys
  <2>2. CASE ~deploy
    BY <2>2, <1>3, <1>4
  <2> QED
    BY <2>1, <2>2
<1>6. Sound(file'[1])
  BY <1>2, SavedIsSound DEF Configuring, UnderWay
<1>7. OnScreens' /\ Stored'
  BY <1>1, <1>2, <1>5, <1>6 DEF Configuring, OnScreens, Stored, SignIns
<1> QED
  BY <1>1, <1>7 DEF Configuring

LEMMA HubManages == ASSUME Configuring, HubVerbManage PROVE Configuring'
<1>1. /\ UNCHANGED <<file, cfg, screen, forms, place, catalog, chosen, outcome>>
      /\ login.loaded = "no" /\ login' = LoadEnvFile(login) /\ ~OnStep("shell")
  BY DEF HubVerbManage, OnStep
<1>2. OnScreens'
  BY <1>1, Spends DEF HubVerbManage, Configuring, OnScreens
<1>3. PlacementStands' /\ CatalogStands' /\ ~OnStep("shell")'
  BY <1>1 DEF Configuring, PlacementStands, CatalogStands, OnStep
<1>4. DOMAIN login' = SignIns /\ login'.typed = login.typed /\ login'.loaded # "no"
  BY <1>1 DEF LoadEnvFile, loadEnvFileOnce, Configuring, Stored, SignIns
<1>5. Stored' /\ UnderWay'
  BY <1>1, <1>4 DEF Configuring, Stored, UnderWay, SignIns
<1> QED
  BY <1>2, <1>3, <1>5 DEF Configuring

\* A move between screens changes nothing but where the operator is.
LEMMA Moves ==
    ASSUME Configuring, ~OnStep("shell"), UNCHANGED <<file, login, cfg, forms, chosen, outcome, budget>>,
           \E page \in ToSet(Steps), toReview \in BOOLEAN : focusStep(page, toReview, catalog)
    PROVE  Configuring'
<1>1. ListsVersions(catalog) /\ (cfg.px => cfg'.px)
  BY DEF Configuring, CatalogStands
<1>2. /\ screen' \in [at : ToSet(Steps) \cup {"shell"}, toReview : BOOLEAN, exists : BOOLEAN]
      /\ ~OnStep("shell")' /\ PlacementStands' /\ CatalogStands'
      /\ place'.fetch \/ place'.options # <<>> => cfg'.px
  BY <1>1, Advances
<1>3. OnScreens' /\ Stored' /\ UnderWay'
  BY <1>2 DEF Configuring, OnScreens, Stored, UnderWay
<1> QED
  BY <1>2, <1>3 DEF Configuring

LEMMA HubEdits == ASSUME Configuring, HubVerbEdit PROVE Configuring'
BY GoesForward, Moves DEF HubVerbEdit, OnStep

LEMMA GoingBack == ASSUME Configuring, Back PROVE Configuring'
BY GoesBack, Moves DEF Back, OnStep

LEMMA JumpsTo ==
    ASSUME Configuring, NEW page \in DOMAIN StepFields \cup {"node-placement"}, jumpToStep(page)
    PROVE  Configuring'
<1>1. page \in ToSet(Steps)
  BY ScreenNames
<1>2. focusStep(page, TRUE, catalog) /\ UNCHANGED <<file, login, cfg, forms, chosen, outcome, budget>>
  BY DEF jumpToStep
<1>3. ~OnStep("shell")
  BY DEF jumpToStep, OnStep
<1> QED
  BY <1>1, <1>2, <1>3, Moves

\* A key press that is synced, or not.
LEMMA FormEdits ==
    ASSUME UnderWay, NEW fm, fm.masters \in Int, fm.workers \in Int, fm.machine \in Int \X Int, NEW page \in DOMAIN StepFields,
           cfg' \in {cfg, FormApply(cfg, fm, page)}
    PROVE  /\ Sound(cfg') /\ (cfg.px => cfg'.px)
           /\ \A r \in Roles : cfg'[r] = cfg[r]
BY FormsWrite DEF UnderWay, Roles

LEMMA Types ==
    ASSUME Configuring, NEW e \in Entries, Type(e[1], e[2])
    PROVE  Configuring'
<1>1. /\ UNCHANGED <<file, login, screen, place, catalog, chosen, outcome>>
      /\ forms' = [forms EXCEPT ![e[1]] = e[2]] /\ screen.at \in DOMAIN StepFields
      /\ cfg' \in {cfg, FormApply(cfg, forms', screen.at)}
  BY DEF Type, Synced, InForm
<1>2. ~OnStep("shell") /\ UnderWay
  BY <1>1, ScreenNames DEF OnStep, Configuring
<1>3. DOMAIN forms' = FormFields /\ forms'.masters \in Int /\ forms'.workers \in Int /\ forms'.machine \in Int \X Int
  <2>1. /\ e[1] \in {"masters", "workers"} => e[2] \in Int
        /\ e[1] = "machine" => e[2] \in Int \X Int
    BY Zenon, ConfigureAssumption
  <2>2. DOMAIN forms = FormFields /\ forms.masters \in Int /\ forms.workers \in Int /\ forms.machine \in Int \X Int
    BY <1>2 DEF UnderWay
  <2> QED
    BY <2>1, <2>2, <1>1, FormFieldsApart
<1>4. /\ Sound(cfg') /\ (cfg.px => cfg'.px)
      /\ \A r \in Roles : cfg'[r] = cfg[r]
  BY <1>1, <1>2, <1>3, FormEdits
<1>5. OnScreens'
  <2>1. budget' \in [edits : 0..MaxEdits, sessions : 0..MaxSessions]
    BY Spends DEF Type, Counted, Configuring
  <2> QED
    BY <2>1, <1>1 DEF Configuring, OnScreens
<1>6. PlacementStands' /\ CatalogStands' /\ ~OnStep("shell")' /\ Stored'
  BY <1>1, <1>2 DEF Configuring, PlacementStands, CatalogStands, OnStep, Stored
<1>7. UnderWay'
  BY <1>1, <1>2, <1>3, <1>4 DEF UnderWay
<1> QED
  BY <1>5, <1>6, <1>7 DEF Configuring

LEMMA Nudges == ASSUME Configuring, Nudge PROVE Configuring'
<1>1. /\ UNCHANGED <<file, login, screen, forms, place, catalog, chosen, outcome, budget>>
      /\ screen.at \in DOMAIN StepFields /\ cfg' \in {cfg, FormApply(cfg, forms, screen.at)}
  BY DEF Nudge, InForm
<1>2. ~OnStep("shell") /\ UnderWay
  BY <1>1, ScreenNames DEF OnStep, Configuring
<1>3. /\ Sound(cfg') /\ (cfg.px => cfg'.px)
      /\ \A r \in Roles : cfg'[r] = cfg[r]
  BY <1>1, <1>2, FormEdits DEF UnderWay
<1>4. PlacementStands' /\ CatalogStands' /\ ~OnStep("shell")' /\ Stored' /\ OnScreens'
  BY <1>1, <1>2 DEF Configuring, PlacementStands, CatalogStands, OnStep, Stored, OnScreens
<1>5. UnderWay'
  BY <1>1, <1>2, <1>3 DEF UnderWay
<1> QED
  BY <1>4, <1>5 DEF Configuring

LEMMA FormsEntered == ASSUME Configuring, EnterForm PROVE Configuring'
<1>1. /\ UNCHANGED <<file, login, forms, chosen, outcome, budget>> /\ goToNextStep(catalog)
      /\ screen.at \in DOMAIN StepFields /\ cfg' \in {cfg, FormApply(cfg, forms, screen.at)}
  BY DEF EnterForm, InForm
<1>2. ~OnStep("shell") /\ UnderWay /\ ListsVersions(catalog)
  BY <1>1, ScreenNames DEF OnStep, Configuring, CatalogStands
<1>3. /\ Sound(cfg') /\ (cfg.px => cfg'.px)
      /\ \A r \in Roles : cfg'[r] = cfg[r]
  BY <1>1, <1>2, FormEdits DEF UnderWay
<1>4. /\ screen' \in [at : ToSet(Steps) \cup {"shell"}, toReview : BOOLEAN, exists : BOOLEAN]
      /\ ~OnStep("shell")' /\ PlacementStands' /\ CatalogStands'
      /\ place'.fetch \/ place'.options # <<>> => cfg'.px
  BY <1>1, <1>2, <1>3, GoesForward, Advances
<1>5. OnScreens' /\ Stored'
  BY <1>1, <1>4 DEF Configuring, OnScreens, Stored
<1>6. UnderWay'
  BY <1>1, <1>2, <1>3, <1>4 DEF UnderWay
<1> QED
  BY <1>4, <1>5, <1>6 DEF Configuring

\* On the placement screen nothing but the dropdowns changes before it is confirmed.
LEMMA PlacementChanges ==
    ASSUME Configuring, OnStep("node-placement"), Assigned(place'), place'.options # <<>> => cfg.px,
           place'.fetch => place'.phase = "discovering" /\ cfg.px,
           UNCHANGED <<file, login, cfg, screen, forms, catalog, chosen, outcome>>,
           Spend \/ budget' = budget
    PROVE  Configuring'
<1>1. ~OnStep("shell") /\ UnderWay
  BY DEF OnStep, Configuring
<1>2. OnScreens'
  BY Spends DEF Configuring, OnScreens
<1>3. PlacementStands' /\ CatalogStands' /\ Stored' /\ ~OnStep("shell")'
  BY <1>1 DEF Configuring, PlacementStands, CatalogStands, Stored, OnStep
<1>4. UnderWay'
  BY <1>1 DEF UnderWay
<1> QED
  BY <1>2, <1>3, <1>4 DEF Configuring

LEMMA DiscoveryEnds == ASSUME Configuring, discoveryComplete PROVE Configuring'
<1>1. /\ UNCHANGED <<file, login, cfg, screen, forms, catalog, chosen, outcome, budget>>
      /\ OnStep("node-placement") /\ place.fetch /\ discoverProxmox
  BY DEF discoveryComplete
<1>2. Sound(cfg) /\ cfg.px /\ Assigned(place)
  BY <1>1 DEF Configuring, UnderWay, OnStep, PlacementStands
<1>3. \E names \in Seq(ProxmoxNames), found \in BOOLEAN, err \in BOOLEAN :
        /\ names # <<>>
        /\ place' = [buildInnerStep(names, found) EXCEPT !.phase = "placing", !.err = err, !.fetch = FALSE]
  <2>1. CASE place' = [buildInnerStep(<<OrText(cfg.node, "pve")>>, FALSE) EXCEPT
                       !.phase = "placing", !.err = TRUE, !.fetch = FALSE]
    <3>1. OrText(cfg.node, "pve") \in ProxmoxNames
      BY <1>2, NamesCover DEF OrText, Sound
    <3>2. <<OrText(cfg.node, "pve")>> \in Seq(ProxmoxNames) /\ <<OrText(cfg.node, "pve")>> # <<>>
      BY <3>1
    <3> QED
      BY <2>1, <3>2, Zenon
  <2>2. ASSUME NEW names \in Hosts, NEW lacking \in SUBSET ToSet(names),
               place' = [buildInnerStep(names, TRUE) EXCEPT !.phase = "placing", !.fetch = FALSE,
                            !.err = validatePlacementInventory(cfg, lacking) # {}]
        PROVE  \E found \in BOOLEAN, err \in BOOLEAN :
                  place' = [buildInnerStep(names, found) EXCEPT !.phase = "placing", !.err = err, !.fetch = FALSE]
    <3> DEFINE b == buildInnerStep(names, TRUE)
               err == validatePlacementInventory(cfg, lacking) # {}
    <3>1. err \in BOOLEAN
      OBVIOUS
    <3>2. place' = [b EXCEPT !.phase = "placing", !.fetch = FALSE, !.err = err]
      BY <2>2
    <3> HIDE DEF b, err
    <3>3. place' = [b EXCEPT !.phase = "placing", !.err = err, !.fetch = FALSE]
      BY <3>2
    <3>4. place' = [buildInnerStep(names, TRUE) EXCEPT !.phase = "placing", !.err = err, !.fetch = FALSE]
      BY <3>3 DEF b
    <3> QED
      BY <3>1, <3>4, Zenon
  <2> QED
    BY <1>1, <2>1, <2>2, NamesCover, Zenon DEF discoverProxmox
<1>4. PICK names \in Seq(ProxmoxNames), found \in BOOLEAN, err \in BOOLEAN :
        /\ names # <<>>
        /\ place' = [buildInnerStep(names, found) EXCEPT !.phase = "placing", !.err = err, !.fetch = FALSE]
  BY <1>3
<1> DEFINE b == buildInnerStep(names, found)
<1>5. Assigned(b)
  BY <1>2, <1>4, Rebuilt
<1>6. place' = [b EXCEPT !.phase = "placing", !.err = err, !.fetch = FALSE]
  BY <1>4
<1> HIDE DEF b
<1>7. ~place'.fetch
  BY <1>5, <1>6 DEF Assigned, Placements
<1>8. Assigned(place')
  <2> DEFINE c == [b EXCEPT !.phase = "placing", !.err = err, !.fetch = FALSE]
  <2>1. c \in Placements /\ c.shown = b.shown /\ c.master = b.master /\ c.worker = b.worker
    BY <1>5 DEF Assigned, Placements
  <2> HIDE DEF c
  <2>2. Assigned(c)
    BY <1>5, <2>1, StillAssigned
  <2> QED
    BY <1>6, <2>2 DEF c
<1> QED
  BY <1>1, <1>2, <1>7, <1>8, PlacementChanges

LEMMA Refreshes == ASSUME Configuring, Refresh PROVE Configuring'
<1>1. /\ UNCHANGED <<file, login, cfg, screen, forms, catalog, chosen, outcome, budget>>
      /\ OnStep("node-placement") /\ place.options # <<>>
      /\ place' = [place EXCEPT !.phase = "discovering", !.err = FALSE, !.fetch = TRUE]
  BY DEF Refresh, Placing, startDiscovery
<1>2. Assigned(place) /\ cfg.px
  BY <1>1 DEF Configuring, UnderWay, OnStep, PlacementStands
<1>3. Assigned(place')
  BY <1>1, <1>2, Phased
<1>4. place'.phase = "discovering"
  BY <1>1, <1>2 DEF Assigned, Placements
<1> QED
  BY <1>1, <1>2, <1>3, <1>4, PlacementChanges

LEMMA Selects == ASSUME Configuring, Select PROVE Configuring'
<1>1. /\ UNCHANGED <<file, login, cfg, screen, forms, catalog, chosen, outcome>> /\ Spend
      /\ OnStep("node-placement") /\ place.phase = "placing" /\ place.options # <<>>
  BY DEF Select, Placing
<1>2. PICK h \in ToSet(place.options) :
         \/ place' = [place EXCEPT !.boot = h]
         \/ \E r \in place.shown : \E i \in DOMAIN place[r] : place' = [place EXCEPT ![r][i] = h]
  BY DEF Select
<1>3. place \in Placements /\ Assigned(place) /\ ~place.fetch /\ cfg.px
  BY <1>1 DEF Configuring, UnderWay, OnStep, PlacementStands, Assigned
<1>4. h \in ProxmoxNames
  <2>1. place.options \in Seq(ProxmoxNames)
    BY <1>3 DEF Placements
  <2>2. \A i \in DOMAIN place.options : place.options[i] \in ProxmoxNames
    BY <2>1
  <2> QED
    BY <2>2 DEF ToSet
<1>5. CASE place' = [place EXCEPT !.boot = h]
  <2> DEFINE c == [place EXCEPT !.boot = h]
  <2>1. c \in Placements /\ c.shown = place.shown /\ c.master = place.master /\ c.worker = place.worker
        /\ ~c.fetch
    BY <1>3, <1>4 DEF Placements
  <2> HIDE DEF c
  <2>2. Assigned(c)
    BY <1>3, <2>1, StillAssigned
  <2>3. Assigned(place') /\ ~place'.fetch
    BY <1>5, <2>1, <2>2 DEF c
  <2> QED
    BY <1>1, <1>3, <2>3, PlacementChanges
<1>6. ASSUME NEW r \in place.shown, NEW i \in DOMAIN place[r], place' = [place EXCEPT ![r][i] = h]
      PROVE  Assigned(place') /\ ~place'.fetch
  <2> DEFINE l == [place[r] EXCEPT ![i] = h]
  <2>1. r \in Roles /\ place[r] \in Seq(ProxmoxNames)
    BY <1>3 DEF Placements, Roles
  <2>2. l \in Seq(ProxmoxNames) /\ l # <<>>
    BY <2>1, <1>4
  <2>3. place' = [place EXCEPT ![r] = l]
    BY <1>6
  <2> HIDE DEF l
  <2>4. place' \in Placements /\ place'.shown = place.shown /\ place'.fetch = place.fetch
        /\ \A s \in Roles : place'[s] = IF s = r THEN l ELSE place[s]
    BY <1>3, <2>1, <2>2, <2>3 DEF Placements, Roles
  <2>5. \A s \in place'.shown : place'[s] # <<>>
    BY <1>3, <2>2, <2>4 DEF Assigned, Placements
  <2> QED
    BY <1>3, <2>4, <2>5 DEF Assigned
<1> QED
  BY <1>1, <1>2, <1>3, <1>5, <1>6, PlacementChanges

\* Confirming writes what is shown, of a role that is shown no more too.
LEMMA Confirms ==
    ASSUME Sound(cfg), Assigned(place), cfg.px
    PROVE  /\ Sound(PlacementApply(cfg)) /\ PlacementApply(cfg).px
           /\ place.options # <<>> => \A r \in Roles : place[r] # <<>> => PlacementApply(cfg)[r] = place[r]
<1> DEFINE Pool(p, default) == IF place.pools /\ ~Given(p) THEN default ELSE p
           List(role) == IF place[role] # <<>> THEN place[role] ELSE cfg[role]
           c == [cfg EXCEPT !.node = place.boot, !.master = List("master"), !.worker = List("worker"),
                !.storage = Pool(@, "local-lvm"), !.data_storage = Pool(@, "local-lvm"),
                !.iso_storage = Pool(@, "local"), !.bridge = Pool(@, "vmbr0")]
<1>1. /\ PlacementApply(cfg) \in {cfg, c}
      /\ place.options # <<>> => PlacementApply(cfg) = c
  BY DEF PlacementApply
<1>2. \A r \in Roles : place[r] \in Seq(ProxmoxNames) /\ cfg[r] \in Seq(ProxmoxNames)
  BY DEF Roles, Assigned, Placements, Sound
<1>3. \A r \in Roles : List(r) \in Seq(ProxmoxNames) /\ (place[r] # <<>> => List(r) = place[r])
  BY <1>2
<1>4. place.boot \in ProxmoxNames \cup {""}
  BY DEF Assigned, Placements
<1> HIDE DEF Pool, List
<1>5. /\ DOMAIN c = DOMAIN cfg /\ c.px = cfg.px /\ c.masters = cfg.masters /\ c.workers = cfg.workers
      /\ c.machine = cfg.machine /\ c.node = place.boot /\ c.master = List("master") /\ c.worker = List("worker")
  BY FieldsKnown DEF Sound, KnownFields
<1> HIDE DEF c
<1>6. Sound(c) /\ c.px
  BY <1>3, <1>4, <1>5 DEF Sound, Roles
<1>7. \A r \in Roles : place[r] # <<>> => c[r] = place[r]
  BY <1>3, <1>5 DEF Roles
<1> QED
  BY <1>1, <1>6, <1>7

LEMMA PlacementEntered == ASSUME Configuring, EnterPlacement PROVE Configuring'
<1>1. /\ UNCHANGED <<file, login, forms, outcome, budget>> /\ goToNextStep(catalog)
      /\ OnStep("node-placement") /\ place.options # <<>> /\ cfg' = PlacementApply(cfg)
      /\ chosen' = [r \in Roles |-> IF r \in place.shown THEN place[r] ELSE <<>>]
  BY DEF EnterPlacement, Placing
<1>2. ~OnStep("shell") /\ UnderWay /\ ListsVersions(catalog) /\ Assigned(place)
  BY <1>1 DEF OnStep, Configuring, CatalogStands, PlacementStands
<1>3. Sound(cfg) /\ cfg.px
  BY <1>1, <1>2 DEF UnderWay
<1>4. /\ Sound(cfg') /\ cfg'.px
      /\ \A r \in Roles : place[r] # <<>> => cfg'[r] = place[r]
  BY <1>1, <1>2, <1>3, Confirms
<1>5. /\ screen' \in [at : ToSet(Steps) \cup {"shell"}, toReview : BOOLEAN, exists : BOOLEAN]
      /\ ~OnStep("shell")' /\ PlacementStands' /\ CatalogStands'
      /\ place'.fetch \/ place'.options # <<>> => cfg'.px
  BY <1>1, <1>2, <1>4, GoesForward, Advances
<1>6. OnScreens' /\ Stored'
  BY <1>1, <1>5 DEF Configuring, OnScreens, Stored
<1>7. \A r \in Roles : chosen'[r] # <<>> => chosen'[r] = cfg'[r]
  BY <1>1, <1>4
<1>8. UnderWay'
  BY <1>1, <1>2, <1>4, <1>5, <1>7 DEF UnderWay
<1> QED
  BY <1>5, <1>6, <1>8 DEF Configuring

\* The version list is rebuilt in place.
LEMMA SelectorKeeps ==
    ASSUME NEW k, ListsVersions(k)
    PROVE  LET u == updateVersionSelector(k)
               a == anchorConfiguredVersion(k)
           IN  /\ ListsVersions(u) /\ u.phase = k.phase /\ u.fetch = k.fetch
               /\ ListsVersions(a) /\ a.phase = k.phase /\ a.fetch = k.fetch
<1>1. ASSUME NEW j, ListsVersions(j)
      PROVE  LET u == updateVersionSelector(j)
             IN  ListsVersions(u) /\ u.phase = j.phase /\ u.fetch = j.fetch
  <2>1. \E s, n : updateVersionSelector(j) = [j EXCEPT !.selected = s, !.cursor = n]
    BY Zenon DEF updateVersionSelector
  <2> QED
    BY <1>1, <2>1 DEF ListsVersions
<1>2. CASE anchorConfiguredVersion(k) = k
  BY <1>1, <1>2
<1>3. CASE \E m : anchorConfiguredVersion(k) = updateVersionSelector([k EXCEPT !.expanded = m])
  <2>1. PICK m : anchorConfiguredVersion(k) = updateVersionSelector([k EXCEPT !.expanded = m])
    BY <1>3
  <2> DEFINE j == [k EXCEPT !.expanded = m]
  <2>2. ListsVersions(j) /\ j.phase = k.phase /\ j.fetch = k.fetch
    BY DEF ListsVersions
  <2> HIDE DEF j
  <2>3. LET u == updateVersionSelector(j)
        IN  ListsVersions(u) /\ u.phase = j.phase /\ u.fetch = j.fetch
    BY <1>1, <2>2
  <2> QED
    BY <1>1, <2>1, <2>2, <2>3 DEF j
<1> QED
  BY <1>2, <1>3, Zenon DEF anchorConfiguredVersion

\* On the distribution screen nothing but the list and the version changes.
LEMMA CatalogChanges ==
    ASSUME Configuring, OnStep("distribution"), ListsVersions(catalog'),
           catalog'.fetch => catalog'.phase = "loading",
           UNCHANGED <<file, login, screen, forms, place, chosen, outcome>>,
           Spend \/ budget' = budget, \E v : cfg' \in {cfg, DistributionApply(cfg, v)}
    PROVE  Configuring'
<1>1. ~OnStep("shell") /\ UnderWay
  BY DEF OnStep, Configuring
<1>2. Sound(cfg') /\ (cfg.px => cfg'.px) /\ \A r \in Roles : cfg'[r] = cfg[r]
  BY <1>1, FieldsKnown DEF DistributionApply, UnderWay, Sound, KnownFields, Roles
<1>3. OnScreens'
  BY Spends DEF Configuring, OnScreens
<1>4. PlacementStands' /\ CatalogStands' /\ Stored' /\ ~OnStep("shell")'
  BY <1>1 DEF Configuring, PlacementStands, CatalogStands, Stored, OnStep
<1>5. UnderWay'
  BY <1>1, <1>2 DEF UnderWay
<1> QED
  BY <1>3, <1>4, <1>5 DEF Configuring

LEMMA VersionsArrive == ASSUME Configuring, versionsLoaded PROVE Configuring'
<1>1. /\ UNCHANGED <<file, login, cfg, screen, forms, place, chosen, outcome, budget>>
      /\ OnStep("distribution") /\ ListsVersions(catalog)
  BY DEF versionsLoaded, Configuring, CatalogStands
<1>2. PICK answer :
        LET k == [catalog EXCEPT !.fetch = FALSE, !.series = answer]
        IN  catalog' = IF answer = <<>> THEN [k EXCEPT !.phase = "error"]
                       ELSE anchorConfiguredVersion(updateVersionSelector(
                               [k EXCEPT !.phase = "select", !.cached = answer]))
  BY Zenon DEF versionsLoaded
<1> DEFINE k == [catalog EXCEPT !.fetch = FALSE, !.series = answer]
           failed == [k EXCEPT !.phase = "error"]
           found == [k EXCEPT !.phase = "select", !.cached = answer]
<1>3. ListsVersions(failed) /\ ~failed.fetch /\ ListsVersions(found) /\ ~found.fetch
  BY <1>1 DEF ListsVersions
<1>4. catalog' \in {failed, anchorConfiguredVersion(updateVersionSelector(found))}
  BY <1>2
<1> HIDE DEF failed, found
<1>5. ListsVersions(updateVersionSelector(found)) /\ ~updateVersionSelector(found).fetch
  BY <1>3, SelectorKeeps
<1> DEFINE u == updateVersionSelector(found)
<1> HIDE DEF u
<1>6. ListsVersions(u) /\ ~u.fetch
  BY <1>5 DEF u
<1>7. ListsVersions(anchorConfiguredVersion(u)) /\ ~anchorConfiguredVersion(u).fetch
  BY <1>6, SelectorKeeps
<1>8. ListsVersions(catalog') /\ ~catalog'.fetch
  BY <1>3, <1>4, <1>7 DEF u
<1> QED
  BY <1>1, <1>8, CatalogChanges

LEMMA Retries == ASSUME Configuring, Retry PROVE Configuring'
<1>1. /\ UNCHANGED <<file, login, cfg, screen, forms, place, chosen, outcome, budget>>
      /\ OnStep("distribution") /\ ListsVersions(catalog)
      /\ catalog' = [catalog EXCEPT !.phase = "loading", !.fetch = TRUE]
  BY DEF Retry, startFetch, Configuring, CatalogStands
<1>2. ListsVersions(catalog') /\ catalog'.phase = "loading"
  BY <1>1 DEF ListsVersions
<1> QED
  BY <1>1, <1>2, CatalogChanges

LEMMA Choosable == ASSUME Configuring, Choosing PROVE OnStep("distribution") /\ ListsVersions(catalog) /\ ~catalog.fetch
BY DEF Choosing, Configuring, CatalogStands

LEMMA Navigates == ASSUME Configuring, handleNavigationKey PROVE Configuring'
<1>1. /\ UNCHANGED <<file, login, screen, forms, place, chosen, outcome>> /\ Spend
      /\ OnStep("distribution") /\ ListsVersions(catalog) /\ ~catalog.fetch
  BY Choosable DEF handleNavigationKey
<1>2. PICK i, v : /\ catalog' = [catalog EXCEPT !.cursor = i, !.selected = Patch(v)]
                  /\ cfg' \in {cfg, DistributionApply(cfg, v)}
  BY Zenon DEF handleNavigationKey
<1>3. ListsVersions(catalog') /\ ~catalog'.fetch
  BY <1>1, <1>2 DEF ListsVersions
<1> QED
  BY <1>1, <1>2, <1>3, CatalogChanges

LEMMA Tabs == ASSUME Configuring, handleTabKey PROVE Configuring'
<1>1. /\ UNCHANGED <<file, login, cfg, screen, forms, place, chosen, outcome>> /\ Spend
      /\ OnStep("distribution") /\ ListsVersions(catalog) /\ ~catalog.fetch
  BY Choosable DEF handleTabKey
<1>2. PICK m, n : catalog' = [updateVersionSelector([catalog EXCEPT !.expanded = m]) EXCEPT !.cursor = n]
  <2>1. \E m, n : catalog' = [updateVersionSelector([catalog EXCEPT !.expanded = m]) EXCEPT !.cursor = n]
    BY Zenon DEF handleTabKey
  <2> QED
    BY <2>1
<1> DEFINE k == [catalog EXCEPT !.expanded = m]
           u == updateVersionSelector(k)
<1>3. ListsVersions(k) /\ ~k.fetch
  BY <1>1 DEF ListsVersions
<1> HIDE DEF k
<1>4. ListsVersions(u) /\ ~u.fetch
  BY <1>3, SelectorKeeps
<1>5. catalog' = [u EXCEPT !.cursor = n]
  BY <1>2 DEF k
<1> HIDE DEF u
<1>6. ListsVersions(catalog') /\ ~catalog'.fetch
  BY <1>4, <1>5 DEF ListsVersions
<1> QED
  BY <1>1, <1>6, CatalogChanges

LEMMA VersionEntered == ASSUME Configuring, handleEnterKey PROVE Configuring'
<1>1. /\ UNCHANGED <<file, login, forms, chosen, outcome, budget>>
      /\ OnStep("distribution") /\ ListsVersions(catalog)
  BY Choosable DEF handleEnterKey
<1>2. PICK v : cfg' = DistributionApply(cfg, v) /\ goToNextStep([catalog EXCEPT !.selected = Patch(v)])
  BY Zenon DEF handleEnterKey
<1>3. ~OnStep("shell") /\ UnderWay
  BY <1>1 DEF OnStep, Configuring
<1>4. Sound(cfg') /\ (cfg.px => cfg'.px) /\ \A r \in Roles : cfg'[r] = cfg[r]
  BY <1>2, <1>3, FieldsKnown DEF DistributionApply, UnderWay, Sound, KnownFields, Roles
<1> DEFINE k == [catalog EXCEPT !.selected = Patch(v)]
<1>5. ListsVersions(k)
  BY <1>1 DEF ListsVersions
<1>6. \E page \in ToSet(Steps), toReview \in BOOLEAN : focusStep(page, toReview, k)
  BY <1>2, GoesForward
<1> HIDE DEF k
<1>7. /\ screen' \in [at : ToSet(Steps) \cup {"shell"}, toReview : BOOLEAN, exists : BOOLEAN]
      /\ ~OnStep("shell")' /\ PlacementStands' /\ CatalogStands'
      /\ place'.fetch \/ place'.options # <<>> => cfg'.px
  BY <1>3, <1>4, <1>5, <1>6, Advances
<1>8. OnScreens' /\ Stored'
  BY <1>1, <1>7 DEF Configuring, OnScreens, Stored
<1>9. UnderWay'
  BY <1>1, <1>3, <1>4, <1>7 DEF UnderWay
<1> QED
  BY <1>7, <1>8, <1>9 DEF Configuring

\* Every step keeps the invariant.
LEMMA ConfigureKept == ASSUME Configuring, [ConfigureNext]_configureVars PROVE Configuring'
<1>1. CASE UNCHANGED configureVars
  BY <1>1 DEF configureVars, Configuring, OnScreens, PlacementStands, CatalogStands, Stored, UnderWay, OnStep
<1>2. CASE \E e \in Entries : Type(e[1], e[2])
  BY <1>2, Types
<1>3. CASE \E deploy \in BOOLEAN : ReviewDone(deploy)
  BY <1>3, ReviewSaves
<1>4. CASE \E page \in DOMAIN StepFields \cup {"node-placement"} : jumpToStep(page)
  BY <1>4, JumpsTo
<1>5. CASE HubVerbDeploy \/ HubVerbManage \/ HubVerbEdit \/ CtrlC \/ Back \/ Nudge \/ EnterForm \/ SaveFails
  BY <1>5, HubDeploys, HubManages, HubEdits, Cancels, GoingBack, Nudges, FormsEntered, SavingFails
<1>6. CASE Refresh \/ Select \/ EnterPlacement \/ Retry \/ handleNavigationKey \/ handleTabKey \/ handleEnterKey
  BY <1>6, Refreshes, Selects, PlacementEntered, Retries, Navigates, Tabs, VersionEntered
<1>7. CASE Replies
  BY <1>7, DiscoveryEnds, VersionsArrive DEF Replies
<1>8. CASE RunWizard \/ DeployYes
  BY <1>8, WizardRuns, YesDeploys
<1> QED
  BY <1>1, <1>2, <1>3, <1>4, <1>5, <1>6, <1>7, <1>8 DEF ConfigureNext, Keys

LEMMA ConfigureTyped == ASSUME Configuring PROVE ConfigureTypeOK
BY EditsBounded DEF Configuring, OnScreens, PlacementStands, CatalogStands, ListsVersions, Assigned, Placements,
   ConfigureTypeOK

-----------------------------------------------------------------------------
(* What a deploy got past *)

\* What a deploy asks of the configuration: a check that reports nothing found nothing wrong.
LEMMA NothingFails ==
    ASSUME NEW checks, Failing(checks) = {}, NEW k \in checks
    PROVE  ~k[1]
<1>1. CASE k[1]
  <2>1. k \in {x \in checks : x[1]}
    BY <1>1
  <2>2. k[2] \in Failing(checks)
    BY <2>1 DEF Failing
  <2> QED
    BY <2>2
<1> QED
  BY <1>1

\* Filling in what is left out leaves what the plan rests on.
LEMMA EffectiveKeeps ==
    ASSUME NEW c, Sound(c)
    PROVE  \A f \in {"px", "provider", "masters", "workers", "master", "worker", "node", "host", "machine",
                     "start", "static_dns", "bastion", "ignition"} : Effective(c)[f] = c[f]
<1> DEFINE n == NormalizeTopology(c)
<1>1. Sound(n) /\ \A f \in {"px", "provider", "masters", "workers", "master", "worker", "node", "host", "machine",
                     "start", "static_dns", "bastion", "ignition"} : n[f] = c[f]
  <2>1. PICK a, b, d, e, f, g : n = [c EXCEPT !.cp_disk = a, !.w_disk = b, !.boot_count = d,
                                        !.boot_cpu = e, !.boot_mem = f, !.boot_disk = g]
    BY Zenon DEF NormalizeTopology
  <2> DEFINE m == [c EXCEPT !.cp_disk = a, !.w_disk = b, !.boot_count = d]
  <2>2. DOMAIN m = DOMAIN c /\ \A x \in KnownFields \ {"cp_disk", "w_disk", "boot_count"} : m[x] = c[x]
    BY FieldsKnown DEF Sound, KnownFields
  <2>3. n = [m EXCEPT !.boot_cpu = e, !.boot_mem = f, !.boot_disk = g]
    BY <2>1
  <2> HIDE DEF m, n
  <2>4. DOMAIN n = DOMAIN m /\ \A x \in KnownFields \ {"boot_cpu", "boot_mem", "boot_disk"} : n[x] = m[x]
    BY <2>2, <2>3, FieldsKnown DEF Sound, KnownFields
  <2> QED
    BY <2>2, <2>4 DEF Sound, KnownFields
<1> HIDE DEF n
<1>2. Effective(c) = DeriveStaticNetmask(n)
  BY DEF Effective, n
<1> QED
  BY <1>1, <1>2, Derived DEF KnownFields

\* The scopes of the gate, each found nothing.
LEMMA Gates ==
    ASSUME NEW c, Admitted(c)
    PROVE  LET e == Effective(c)
           IN  /\ validateRequired(e) = {} /\ validateEnums(e) = {} /\ validateNetworking(e) = {}
               /\ validateAdvancedNetworking(e) = {} /\ validateProvider(e) = {}
<1> DEFINE e == Effective(c)
           In(scope, errors) == IF scope \in deployGateScope THEN errors ELSE {}
<1>1. /\ In("required", validateRequired(e)) = {}
      /\ In("enums", validateEnums(e) \cup validateTerraformEnvDir(e)) = {}
      /\ In("networking", validateNetworking(e)) = {}
      /\ In("advanced", validateAdvancedNetworking(e) \cup validateStaticIPCollisions(e)) = {}
      /\ In("provider", validateProvider(e) \cup validatePlacementInventory(e, {})) = {}
  BY SMTT(20) DEF Admitted, ValidateWithOptions
<1>2. {"required", "enums", "networking", "advanced", "provider"} \subseteq deployGateScope
  BY DEF deployGateScope
<1> QED
  BY <1>1, <1>2

\* What a deploy that was admitted knows of its configuration.
LEMMA Admits ==
    ASSUME NEW c, Sound(c), Admitted(c)
    PROVE  /\ c.px /\ c.host > 0
           /\ Len(c.master) <= c.masters /\ Len(c.worker) <= c.workers
           /\ c.machine # NoRange
           /\ c.bastion # 0 => c.static_dns \in {0, c.bastion} /\ c.ignition \in {0, c.bastion}
<1> DEFINE e == Effective(c)
<1>1. /\ e.px = c.px /\ e.host = c.host /\ e.master = c.master /\ e.worker = c.worker
      /\ e.masters = c.masters /\ e.workers = c.workers /\ e.machine = c.machine /\ e.bastion = c.bastion
      /\ e.static_dns = c.static_dns /\ e.ignition = c.ignition /\ e.provider = c.provider
  BY EffectiveKeeps
<1>2. /\ validateRequired(e) = {} /\ validateEnums(e) = {} /\ validateNetworking(e) = {}
      /\ validateAdvancedNetworking(e) = {} /\ validateProvider(e) = {}
  BY Gates
<1> HIDE DEF e
<1>3. e.provider = "proxmox"
  <2>1. Given(e["provider"])
    BY <1>2 DEF validateRequired
  <2>2. Failing({<<e.dist \notin {"", "okd"}, "dist">>, <<e.provider \notin {"", "proxmox"}, "provider">>}) = {}
    BY <1>2 DEF validateEnums
  <2>3. ~(<<e.provider \notin {"", "proxmox"}, "provider">>[1])
    BY <2>2, NothingFails
  <2> QED
    BY <2>1, <2>3 DEF Given
<1>4. /\ validateProxmoxConfig(e) = {} /\ validatePlacementCounts(e) = {}
  BY <1>2, <1>3 DEF validateProvider
<1>5. e.px
  BY <1>4 DEF validateProxmoxConfig
<1>6. e.host > 0
  <2> DEFINE checks == {<<~ValidateProxmoxHost(e.host), "host">>,
                        <<~ValidateSSHFingerprint(e.fingerprint), "fingerprint">>}
  <2>1. Failing(checks) = {}
    BY <1>4, <1>5 DEF validateProxmoxConfig
  <2>3. <<~ValidateProxmoxHost(e.host), "host">> \in checks
    BY Zenon
  <2> HIDE DEF checks
  <2>2. ~(<<~ValidateProxmoxHost(e.host), "host">>[1])
    BY <2>1, <2>3, NothingFails
  <2> QED
    BY <2>2 DEF ValidateProxmoxHost, IsValidIP
<1>7. Len(e.master) <= e.masters /\ Len(e.worker) <= e.workers
  <2> DEFINE checks == {<<Len(e.master) > e.masters, "master">>, <<Len(e.worker) > e.workers, "worker">>}
  <2>1. Failing(checks) = {}
    BY <1>4, <1>5 DEF validatePlacementCounts
  <2>4. /\ <<Len(e.master) > e.masters, "master">> \in checks
        /\ <<Len(e.worker) > e.workers, "worker">> \in checks
    BY Zenon
  <2> HIDE DEF checks
  <2>2. ~(<<Len(e.master) > e.masters, "master">>[1]) /\ ~(<<Len(e.worker) > e.workers, "worker">>[1])
    BY <2>1, <2>4, NothingFails
  <2>5. ~(Len(e.master) > e.masters) /\ ~(Len(e.worker) > e.workers)
    BY <2>2
  <2>7. c.master \in Seq(ProxmoxNames) /\ c.worker \in Seq(ProxmoxNames) /\ c.masters \in Int /\ c.workers \in Int
    BY DEF Sound
  <2>3. Len(c.master) \in Nat /\ Len(c.worker) \in Nat /\ c.masters \in Int /\ c.workers \in Int
    BY <2>7
  <2>6. Len(c.master) <= c.masters /\ Len(c.worker) <= c.workers
    BY <1>1, <2>3, <2>5
  <2> QED
    BY <1>1, <2>6
<1>8. e.machine # NoRange
  <2>1. ~(e["machine"] = NoRange)
    BY <1>2 DEF validateRequired
  <2> QED
    BY <2>1
<1>9. IsValidCIDR(e.machine)
  <2>1. ~(e["machine"] # NoRange /\ ~IsValidCIDR(e["machine"]))
    BY <1>2 DEF validateNetworking
  <2> QED
    BY <1>8, <2>1
<1>10. e.bastion # 0 => e.static_dns \in {0, e.bastion} /\ e.ignition \in {0, e.bastion}
  <2> DEFINE checks == {<<e.vip # 0 /\ (~IsValidIP(e.vip) \/ e.vip \in {e.gateway, e.bastion}), "vip">>,
                 <<e.start # 0 /\ ~netmaskMatches(e), "netmask">>,
                 <<e.start # 0 /\ (~Given(e.iface) \/ ~WellFormed(e.iface)), "iface">>,
                 <<e.bastion # 0 /\ e.static_dns \notin {0, e.bastion}, "static_dns">>,
                 <<e.bastion # 0 /\ e.ignition \notin {0, e.bastion}, "ignition">>,
                 <<IsValidIP(e.bastion) /\ e.bastion = e.gateway, "bastion">>}
  <2>1. Failing(checks) = {}
    BY <1>2, <1>9 DEF validateAdvancedNetworking
  <2>2. /\ <<e.bastion # 0 /\ e.static_dns \notin {0, e.bastion}, "static_dns">> \in checks
        /\ <<e.bastion # 0 /\ e.ignition \notin {0, e.bastion}, "ignition">> \in checks
    BY Zenon
  <2> HIDE DEF checks
  <2>3. /\ ~(<<e.bastion # 0 /\ e.static_dns \notin {0, e.bastion}, "static_dns">>[1])
        /\ ~(<<e.bastion # 0 /\ e.ignition \notin {0, e.bastion}, "ignition">>[1])
    BY <2>1, <2>2, NothingFails
  <2> QED
    BY <2>3
<1> QED
  BY <1>1, <1>5, <1>6, <1>7, <1>8, <1>10

\* The variables of the Terraform module that the plan rests on.
LEMMA VariablesOf ==
    ASSUME NEW c
    PROVE  LET v == buildTerraformVarsData(c)
           IN  /\ v.vmid_base = c.vmid /\ v.target_node = c.node
               /\ v.master_targets = c.master /\ v.worker_targets = c.worker
               /\ v.master_count = c.masters /\ v.worker_count = c.workers
               /\ v.master_cpu = c.cp_cpu /\ v.master_memory = c.cp_mem
               /\ v.worker_cpu = c.w_cpu /\ v.worker_memory = c.w_mem
               /\ v.master_os_disk = NormalizeTopology(c).cp_disk
               /\ v.worker_os_disk = NormalizeTopology(c).w_disk
BY DEF buildTerraformVarsData

LEMMA DisksOf ==
    ASSUME NEW c, Sound(c)
    PROVE  /\ NormalizeTopology(c).cp_disk = Or(c.cp_disk, DefaultOSDiskGB)
           /\ c.w_disk # 0 => NormalizeTopology(c).w_disk = c.w_disk
<1> DEFINE disk == Or(c.cp_disk, DefaultOSDiskGB)
           m == [c EXCEPT !.cp_disk = disk, !.w_disk = Or(@, disk), !.boot_count = Or(@, 1)]
<1>1. /\ DOMAIN m = DOMAIN c /\ m.cp_disk = disk /\ (c.w_disk # 0 => m.w_disk = c.w_disk)
      /\ m.boot_cpu = c.boot_cpu /\ m.boot_mem = c.boot_mem /\ m.boot_disk = c.boot_disk
  BY FieldsKnown DEF Sound, KnownFields, Or
<1>2. NormalizeTopology(c) = [m EXCEPT !.boot_cpu = Or(@, c.cp_cpu), !.boot_mem = Or(@, c.cp_mem),
                                 !.boot_disk = Or(@, disk)]
  BY DEF NormalizeTopology
<1> HIDE DEF m, disk
<1>3. NormalizeTopology(c).cp_disk = m.cp_disk /\ NormalizeTopology(c).w_disk = m.w_disk
  BY <1>1, <1>2, FieldsKnown DEF Sound, KnownFields
<1> QED
  BY <1>1, <1>3 DEF disk

\* A size the configuration gives is read back as it was given.
LEMMA Sizings ==
    ASSUME NEW c, Sound(c), NEW r \in Roles,
           c[IF r = "master" THEN "cp_disk" ELSE "w_disk"] # 0
    PROVE  roleSizingDrift(c, r, ReadTerraformVarsSizing(buildTerraformVarsData(c))) = "none"
<1> DEFINE v == buildTerraformVarsData(c)
<1>1. /\ v.master_cpu = c.cp_cpu /\ v.master_memory = c.cp_mem
      /\ v.worker_cpu = c.w_cpu /\ v.worker_memory = c.w_mem
      /\ v.master_os_disk = NormalizeTopology(c).cp_disk
      /\ v.worker_os_disk = NormalizeTopology(c).w_disk
  BY VariablesOf
<1> HIDE DEF v
<1>2. CASE r = "master"
  <2>1. v.master_os_disk = c.cp_disk
    BY <1>1, <1>2, DisksOf DEF Or
  <2> QED
    BY <1>1, <1>2, <2>1 DEF roleSizingDrift, ReadTerraformVarsSizing, v
<1>3. CASE r = "worker"
  <2>1. v.worker_os_disk = c.w_disk
    BY <1>1, <1>3, DisksOf
  <2> QED
    BY <1>1, <1>3, <2>1 DEF roleSizingDrift, ReadTerraformVarsSizing, v
<1> QED
  BY <1>2, <1>3 DEF Roles

\* The machines have addresses in a row, all of them in the range.
LEMMA Addresses ==
    ASSUME NEW c, Sound(c), CanListNodes(c), c.machine # NoRange
    PROVE  /\ c.masters \in Nat /\ c.workers \in Nat /\ c.start \in Int
           /\ \A i \in 0..c.masters + c.workers : CalculateVMIP(c.start, i) = c.start + i
           /\ \A i \in 0..c.masters + c.workers : IPInCIDR(c.start + i, c.machine)
<1> DEFINE start == c.start masters == c.masters workers == c.workers low == c.machine[1] high == c.machine[2]
<1>1. /\ masters \in 0..100 /\ workers \in 0..100
      /\ ValidateIPRangeInCIDR(start, MachineCount(c), c.machine)
  BY DEF CanListNodes, countInRange, nodeCountBounds
<1>2. /\ low \in Int /\ high \in Int /\ low > 0 /\ start \in low..high
      /\ CalculateVMIP(start, MachineCount(c) - 1) \in low..high
  BY <1>1 DEF Sound, ValidateIPRangeInCIDR, IPInCIDR, IsValidCIDR
<1>3. MachineCount(c) - 1 = masters + workers
  <2>1. MachineCount(c) = 1 + masters + workers
    BY DEF MachineCount
  <2> HIDE DEF masters, workers
  <2> QED
    BY <1>1, <2>1
<1>4. CalculateVMIP(start, masters + workers) \in low..high
  BY <1>2, <1>3
<1>5. /\ masters \in Nat /\ workers \in Nat /\ start \in Int /\ start + (masters + workers) <= high
      /\ start + (masters + workers) <= LastAddress
  <2> HIDE DEF start, masters, workers, low, high
  <2> QED
    BY <1>1, <1>2, <1>4 DEF CalculateVMIP, Malformed, LastAddress
<1>6. ASSUME NEW i \in 0..masters + workers
      PROVE  CalculateVMIP(start, i) = start + i /\ start + i \in low..high
  <2> HIDE DEF start, masters, workers, low, high
  <2> QED
    BY <1>2, <1>5 DEF CalculateVMIP, LastAddress
<1> QED
  BY <1>5, <1>6 DEF IPInCIDR

\* Bootstrap, masters and workers, in this order.
LEMMA MachinesListed ==
    ASSUME NEW c, Sound(c), CanListNodes(c), c.machine # NoRange, NEW n \in ToSet(ClusterNodes(c))
    PROVE  \E i \in 1..MachineCount(c) :
              /\ n.ip = c.start + (i - 1)
              /\ \/ i = 1 /\ n.role = "bootstrap" /\ n.index = 1
                 \/ i > 1 /\ i - 1 <= c.masters /\ n.role = "master" /\ n.index = i - 1
                 \/ i > 1 /\ i - 1 > c.masters /\ n.role = "worker" /\ n.index = i - 1 - c.masters
<1>1. /\ c.masters \in Nat /\ c.workers \in Nat /\ c.start \in Int
      /\ \A i \in 0..c.masters + c.workers : CalculateVMIP(c.start, i) = c.start + i
  BY Addresses
<1>2. PICK i \in 1..MachineCount(c) : n = ClusterNodes(c)[i]
  BY DEF ToSet, ClusterNodes
<1>3. i \in Int /\ i - 1 \in 0..c.masters + c.workers
  BY <1>1 DEF MachineCount
<1>4. n = IF i = 1 THEN [role |-> "bootstrap", index |-> 1, ip |-> c.start]
          ELSE IF i - 1 <= c.masters
               THEN [role |-> "master", index |-> i - 1, ip |-> CalculateVMIP(c.start, i - 1)]
          ELSE [role |-> "worker", index |-> i - 1 - c.masters, ip |-> CalculateVMIP(c.start, i - 1)]
  BY <1>2 DEF ClusterNodes
<1>5. CalculateVMIP(c.start, i - 1) = c.start + (i - 1)
  BY <1>1, <1>3
<1> QED
  BY <1>1, <1>3, <1>4, <1>5

\* okdctl and the module number a machine alike, and the module places it where okdctl does or
\* names no host.
LEMMA Numbered ==
    ASSUME NEW c, Sound(c), c.px, c.vmid \in Nat \ {0}, NEW role \in {"bootstrap", "master", "worker"},
           NEW i \in Nat, role = "bootstrap" => i = 1, i >= 1
    PROVE  LET vm == ModuleVM(buildTerraformVarsData(c), role, i)
           IN  vm.id = VMID(c, role, i) /\ (Given(vm.node) => vm.node = ProxmoxNode(c, role, i))
<1> DEFINE v == buildTerraformVarsData(c)
<1>1. /\ v.vmid_base = c.vmid /\ v.target_node = c.node
      /\ v.master_targets = c.master /\ v.worker_targets = c.worker
  BY VariablesOf
<1> HIDE DEF v
<1>4. Or(c.vmid, DefaultVMIDBase) = c.vmid
  BY DEF Or
<1>5. CASE role = "bootstrap"
  <2>1. ModuleVM(v, role, i) = [id |-> c.vmid, node |-> c.node]
    BY <1>1, <1>5 DEF ModuleVM
  <2>2. ProxmoxNode(c, role, i) = c.node
    BY Zenon, <1>5 DEF ProxmoxNode
  <2>3. VMID(c, role, i) = c.vmid
    BY <1>4, <1>5 DEF VMID
  <2> QED
    BY <2>1, <2>2, <2>3 DEF v
<1>6. CASE role = "master"
  <2> DEFINE host == IF i <= Len(c.master) THEN c.master[i] ELSE c.node
  <2>1. Given(host) => host = ProxmoxNode(c, "master", i)
    BY Zenon DEF ProxmoxNode
  <2>2. VMID(c, "master", i) = c.vmid + 9 + i
    BY <1>4 DEF VMID
  <2>3. ModuleVM(v, "master", i) = [id |-> c.vmid + i - 1 + 10, node |-> host]
    BY <1>1 DEF ModuleVM
  <2>4. c.vmid + 9 + i = c.vmid + i - 1 + 10
    OBVIOUS
  <2> HIDE DEF host
  <2> QED
    BY <1>6, <2>1, <2>2, <2>3, <2>4 DEF v
<1>7. CASE role = "worker"
  <2> DEFINE host == IF i <= Len(c.worker) THEN c.worker[i] ELSE c.node
  <2>1. Given(host) => host = ProxmoxNode(c, "worker", i)
    BY Zenon DEF ProxmoxNode
  <2>2. VMID(c, "worker", i) = c.vmid + 99 + i
    BY <1>4 DEF VMID
  <2>3. ModuleVM(v, "worker", i) = [id |-> c.vmid + i - 1 + 100, node |-> host]
    BY <1>1 DEF ModuleVM
  <2>4. c.vmid + 99 + i = c.vmid + i - 1 + 100
    OBVIOUS
  <2> HIDE DEF host
  <2> QED
    BY <1>7, <2>1, <2>2, <2>3, <2>4 DEF v
<1> QED
  BY <1>5, <1>6, <1>7

\* What a deploy that is let through had to satisfy.
LetThrough(c) ==
    /\ Sound(c) /\ Admitted(c) /\ CanListNodes(c) /\ ModuleAccepts(buildTerraformVarsData(c))

\* The bounds of the module.
LEMMA Accepts ==
    ASSUME NEW v, ModuleAccepts(v)
    PROVE  v.vmid_base \in Nat \ {0} /\ v.master_count \in {1, 3, 5} /\ v.worker_count \in 0..20
<1>1. v.vmid_base \in moduleVmidBounds
  BY DEF ModuleAccepts
<1> DEFINE base == v.vmid_base
<1>2. base \in moduleVmidBounds
  BY <1>1
<1> HIDE DEF base
<1>3. base \in Nat \ {0}
  BY <1>2 DEF moduleVmidBounds
<1>4. v.master_count \in {1, 3, 5} /\ v.worker_count \in 0..20
  BY DEF ModuleAccepts
<1> QED
  BY Zenon, <1>3, <1>4 DEF base

LEMMA Bounded ==
    ASSUME NEW c, LetThrough(c)
    PROVE  c.vmid \in Nat \ {0} /\ c.masters \in {1, 3, 5} /\ c.workers \in 0..20
<1> DEFINE v == buildTerraformVarsData(c)
<1>1. v.vmid_base = c.vmid /\ v.master_count = c.masters /\ v.worker_count = c.workers
  BY VariablesOf
<1>2. ModuleAccepts(v)
  BY DEF LetThrough
<1> HIDE DEF v
<1>3. v.vmid_base \in Nat \ {0} /\ v.master_count \in {1, 3, 5} /\ v.worker_count \in 0..20
  BY <1>2, Accepts
<1> QED
  BY Zenon, <1>1, <1>3

LEMMA Shaped ==
    ASSUME NEW c, NEW n \in ToSet(ClusterNodes(c))
    PROVE  n = [role |-> n.role, index |-> n.index, ip |-> n.ip]
<1>1. PICK i \in 1..MachineCount(c) : n = ClusterNodes(c)[i]
  BY DEF ToSet, ClusterNodes
<1>2. n = IF i = 1 THEN [role |-> "bootstrap", index |-> 1, ip |-> c.start]
          ELSE IF i - 1 <= c.masters
               THEN [role |-> "master", index |-> i - 1, ip |-> CalculateVMIP(c.start, i - 1)]
          ELSE [role |-> "worker", index |-> i - 1 - c.masters, ip |-> CalculateVMIP(c.start, i - 1)]
  BY <1>1 DEF ClusterNodes
<1> QED
  BY <1>2


\* The machine at place i of the list.
MachineAt(c, x, i) ==
    /\ x.ip = c.start + (i - 1)
    /\ \/ i = 1 /\ x.role = "bootstrap" /\ x.index = 1
       \/ i > 1 /\ i - 1 <= c.masters /\ x.role = "master" /\ x.index = i - 1
       \/ i > 1 /\ i - 1 > c.masters /\ x.role = "worker" /\ x.index = i - 1 - c.masters

LEMMA Kinds ==
    ASSUME NEW c, c.masters \in Nat, c.workers \in Nat, NEW i \in 1..MachineCount(c), NEW x, MachineAt(c, x, i)
    PROVE  /\ i - 1 \in 0..c.masters + c.workers
           /\ x.role \in {"bootstrap", "master", "worker"} /\ x.index \in Nat /\ x.index >= 1
           /\ x.role = "bootstrap" => x.index = 1
<1>1. i \in Int /\ i >= 1 /\ i <= 1 + c.masters + c.workers
  BY DEF MachineCount
<1>2. CASE i = 1
  BY <1>1, <1>2 DEF MachineAt
<1>3. CASE i > 1 /\ i - 1 <= c.masters
  BY <1>1, <1>3 DEF MachineAt
<1>4. CASE i > 1 /\ i - 1 > c.masters
  BY <1>1, <1>4 DEF MachineAt
<1> QED
  BY <1>1, <1>2, <1>3, <1>4

\* The id of the machine at place i, above a base and with so many masters.
Above(base, masters, i) == base + (IF i = 1 THEN 0 ELSE IF i - 1 <= masters THEN 8 + i ELSE 98 + i - masters)

\* Masters and workers are numbered apart while there are no more than 90 masters.
LEMMA AboveApart ==
    ASSUME NEW base \in Int, NEW masters \in 0..90, NEW i \in Nat, NEW j \in Nat, i # j, i >= 1, j >= 1
    PROVE  Above(base, masters, i) # Above(base, masters, j)
BY DEF Above

LEMMA IdsOf ==
    ASSUME NEW c, NEW k
    PROVE  /\ VMID(c, "bootstrap", k) = Or(c.vmid, DefaultVMIDBase)
           /\ VMID(c, "master", k) = Or(c.vmid, DefaultVMIDBase) + 9 + k
           /\ VMID(c, "worker", k) = Or(c.vmid, DefaultVMIDBase) + 99 + k
BY DEF VMID

LEMMA BaseGiven == ASSUME NEW x \in Nat \ {0} PROVE Or(x, DefaultVMIDBase) = x
BY DEF Or

LEMMA IdAt ==
    ASSUME NEW c, NEW base \in Int, Or(c.vmid, DefaultVMIDBase) = base, NEW masters \in Int, masters = c.masters,
           NEW i \in Nat, i >= 1, NEW x, MachineAt(c, x, i)
    PROVE  VMID(c, x.role, x.index) = Above(base, masters, i)
<1>1. CASE i = 1
  <2>1. VMID(c, x.role, x.index) = base
    BY <1>1, IdsOf DEF MachineAt
  <2> QED
    BY <2>1, <1>1 DEF Above
<1>2. CASE i > 1 /\ i - 1 <= masters
  <2>1. VMID(c, x.role, x.index) = base + 9 + (i - 1)
    BY <1>2, IdsOf DEF MachineAt
  <2> QED
    BY <2>1, <1>2 DEF Above
<1>3. CASE i > 1 /\ i - 1 > masters
  <2>1. VMID(c, x.role, x.index) = base + 99 + (i - 1 - masters)
    BY <1>3, IdsOf DEF MachineAt
  <2> QED
    BY <2>1, <1>3 DEF Above
<1> QED
  BY <1>1, <1>2, <1>3

LEMMA Apart ==
    ASSUME NEW c, LetThrough(c), c.start \in Int, NEW i \in 1..MachineCount(c), NEW j \in 1..MachineCount(c),
           NEW n \in ToSet(ClusterNodes(c)), NEW m \in ToSet(ClusterNodes(c)), MachineAt(c, n, i), MachineAt(c, m, j), n # m
    PROVE  n.ip # m.ip /\ VMID(c, n.role, n.index) # VMID(c, m.role, m.index)
<1>1. /\ c.vmid \in Nat \ {0} /\ c.masters \in {1, 3, 5} /\ c.workers \in 0..20
  BY Bounded
<1>2. i \in Nat /\ i >= 1 /\ j \in Nat /\ j >= 1
  OBVIOUS
<1>3. i # j
  <2>1. ASSUME i = j PROVE n.ip = m.ip /\ n.role = m.role /\ n.index = m.index
    <3>1. n.ip = m.ip
      BY Zenon, <2>1 DEF MachineAt
    <3>2. CASE i = 1
      BY <3>1, <3>2, <2>1 DEF MachineAt
    <3>3. CASE i > 1 /\ i - 1 <= c.masters
      BY <3>1, <3>3, <2>1, <1>1, <1>2 DEF MachineAt
    <3>4. CASE i > 1 /\ i - 1 > c.masters
      BY <3>1, <3>4, <2>1, <1>1, <1>2 DEF MachineAt
    <3> QED
      BY <1>1, <1>2, <3>2, <3>3, <3>4
  <2>2. /\ n = [role |-> n.role, index |-> n.index, ip |-> n.ip]
        /\ m = [role |-> m.role, index |-> m.index, ip |-> m.ip]
    BY Zenon, Shaped
  <2> QED
    BY Zenon, <2>1, <2>2
<1>4. n.ip # m.ip
  BY <1>2, <1>3 DEF MachineAt
<1> DEFINE base == c.vmid
           masters == c.masters
<1>5. Or(c.vmid, DefaultVMIDBase) = base /\ base \in Int /\ masters \in Int
  BY <1>1, BaseGiven
<1>9. masters \in 0..90
  BY <1>1
<1> HIDE DEF base
<1>6. masters = c.masters
  OBVIOUS
<1> HIDE DEF masters
<1>7. /\ VMID(c, n.role, n.index) = Above(base, masters, i)
      /\ VMID(c, m.role, m.index) = Above(base, masters, j)
  <2>1. ASSUME NEW x, NEW k \in Nat, k >= 1, MachineAt(c, x, k) PROVE VMID(c, x.role, x.index) = Above(base, masters, k)
    BY <1>5, <1>6, <2>1, IdAt
  <2> QED
    BY Zenon, <1>2, <2>1
<1>8. Above(base, masters, i) # Above(base, masters, j)
  BY <1>2, <1>3, <1>5, <1>9, AboveApart
<1> QED
  BY Zenon, <1>4, <1>7, <1>8

\* So the plan of a deploy that is let through is that of the module.
LEMMA PlansAgree ==
    ASSUME LetThrough(cfg')
    PROVE  PlanAgrees'
<1> DEFINE c == cfg'
           vars == buildTerraformVarsData(c)
           nodes == ToSet(ClusterNodes(c))
           SameVM(n) ==
               LET vm == ModuleVM(vars, n.role, n.index)
               IN  /\ vm.id = VMID(c, n.role, n.index)
                   /\ Given(vm.node) => vm.node = ProxmoxNode(c, n.role, n.index)
<1>1. /\ c.vmid \in Nat \ {0} /\ c.masters \in Nat /\ c.workers \in Nat
      /\ Sound(c) /\ c.px /\ c.machine # NoRange /\ CanListNodes(c) /\ LetThrough(c)
  <2>1. LetThrough(c)
    OBVIOUS
  <2> HIDE DEF c
  <2>2. Sound(c) /\ Admitted(c) /\ CanListNodes(c)
    BY <2>1 DEF LetThrough
  <2>3. c.px /\ c.machine # NoRange
    BY <2>2, Admits
  <2>4. c.vmid \in Nat \ {0} /\ c.masters \in {1, 3, 5} /\ c.workers \in 0..20
    BY <2>1, Bounded
  <2> QED
    BY <2>1, <2>2, <2>3, <2>4
<1> HIDE DEF c
<1>2. /\ c.start \in Int
      /\ \A i \in 0..c.masters + c.workers : IPInCIDR(c.start + i, c.machine)
  BY <1>1, Addresses
<1>3. ASSUME NEW n \in nodes PROVE \E i \in 1..MachineCount(c) : MachineAt(c, n, i)
  BY <1>1, MachinesListed DEF MachineAt
<1>4. ASSUME NEW n \in nodes
      PROVE  /\ IPInCIDR(n.ip, c.machine)
             /\ SameVM(n)
  <2>1. PICK i \in 1..MachineCount(c) : MachineAt(c, n, i)
    BY <1>3
  <2>2. /\ i - 1 \in 0..c.masters + c.workers
        /\ n.role \in {"bootstrap", "master", "worker"} /\ n.index \in Nat /\ n.index >= 1
        /\ n.role = "bootstrap" => n.index = 1
    BY <1>1, <2>1, Kinds
  <2>3. IPInCIDR(n.ip, c.machine)
    BY <1>2, <2>1, <2>2 DEF MachineAt
  <2>4. SameVM(n)
    BY <1>1, <2>2, Numbered
  <2> QED
    BY <2>3, <2>4
<1>5. ASSUME NEW n \in nodes, NEW m \in nodes, n # m
      PROVE  n.ip # m.ip /\ VMID(c, n.role, n.index) # VMID(c, m.role, m.index)
  <2>1. PICK i \in 1..MachineCount(c) : MachineAt(c, n, i)
    BY <1>3
  <2>2. PICK j \in 1..MachineCount(c) : MachineAt(c, m, j)
    BY <1>3
  <2> QED
    BY <1>1, <1>2, <1>5, <2>1, <2>2, Apart
<1>6. ASSUME NEW r \in Roles, c[IF r = "master" THEN "cp_disk" ELSE "w_disk"] # 0
      PROVE  roleSizingDrift(c, r, ReadTerraformVarsSizing(vars)) = "none"
  BY <1>1, <1>6, Sizings
<1> HIDE DEF nodes, vars, SameVM
<1>7. PlanAgrees' <=> (
        /\ \A n \in nodes :
              /\ IPInCIDR(n.ip, c.machine)
              /\ SameVM(n)
        /\ \A n, m \in nodes :
              n # m => n.ip # m.ip /\ VMID(c, n.role, n.index) # VMID(c, m.role, m.index)
        /\ \A r \in Roles :
              CountOf(c, r) > 0 /\ c[IF r = "master" THEN "cp_disk" ELSE "w_disk"] # 0 =>
                 roleSizingDrift(c, r, ReadTerraformVarsSizing(vars)) = "none")
  BY Zenon DEF PlanAgrees, c, nodes, vars, SameVM
<1> QED
  BY Zenon, <1>4, <1>5, <1>6, <1>7

\* Sequences and bounds.
LEMMA ListsOf ==
    ASSUME NEW S, NEW s \in Seq(S)
    PROVE  Len(s) \in Nat /\ \A i \in DOMAIN s : i \in 1..Len(s) /\ s[i] \in S
OBVIOUS

LEMMA Within == ASSUME NEW l \in Nat, NEW n \in Int, l <= n, NEW i \in 1..l PROVE i <= n /\ i <= l
OBVIOUS

\* What was chosen is where the machines are placed.
LEMMA ChoicesPlaced ==
    ASSUME LetThrough(cfg'), \A r \in Roles : chosen'[r] # <<>> => chosen'[r] = cfg'[r]
    PROVE  PlacedAsChosen'
<1> DEFINE c == cfg'
<1>1. Sound(c) /\ Admitted(c)
  BY DEF LetThrough
<1>2. \A r \in Roles : chosen'[r] # <<>> => chosen'[r] = c[r]
  OBVIOUS
<1> HIDE DEF c
<1>3. c.px /\ Len(c.master) <= c.masters /\ Len(c.worker) <= c.workers
  BY <1>1, Admits
<1>4. /\ c.master \in Seq(ProxmoxNames) /\ c.worker \in Seq(ProxmoxNames)
      /\ c.masters \in Int /\ c.workers \in Int
  BY <1>1 DEF Sound
<1>7. /\ \A i \in DOMAIN c.master : i \in 1..Len(c.master)
      /\ \A i \in DOMAIN c.worker : i \in 1..Len(c.worker)
      /\ Len(c.master) \in Nat /\ Len(c.worker) \in Nat
  BY Zenon, <1>4, ListsOf
<1>5. ASSUME NEW r \in Roles, NEW i \in DOMAIN c[r]
      PROVE  i <= CountOf(c, r) /\ (Given(c[r][i]) => ProxmoxNode(c, r, i) = c[r][i])
  <2>1. CASE r = "master"
    <3>1. i \in 1..Len(c.master)
      BY <1>7, <2>1
    <3>2. i <= c.masters /\ i <= Len(c.master)
      BY Zenon, <1>3, <1>4, <1>7, <3>1, Within
    <3> QED
      BY Zenon, <1>3, <2>1, <3>1, <3>2 DEF CountOf, ProxmoxNode
  <2>2. CASE r = "worker"
    <3>1. i \in 1..Len(c.worker)
      BY <1>7, <2>2
    <3>2. i <= c.workers /\ i <= Len(c.worker)
      BY Zenon, <1>3, <1>4, <1>7, <3>1, Within
    <3> QED
      BY Zenon, <1>3, <2>2, <3>1, <3>2 DEF CountOf, ProxmoxNode
  <2> QED
    BY <2>1, <2>2 DEF Roles
<1>6. ASSUME NEW r \in Roles, NEW i \in DOMAIN chosen'[r]
      PROVE  i <= CountOf(c, r) /\ (Given(chosen'[r][i]) => ProxmoxNode(c, r, i) = chosen'[r][i])
  <2>1. chosen'[r] # <<>>
    BY <1>6
  <2>2. chosen'[r] = c[r]
    BY <1>2, <2>1
  <2> QED
    BY <1>5, <1>6, <2>2
<1> QED
  BY <1>6 DEF PlacedAsChosen, c

\* The gate lets only one bastion through.
LEMMA BastionsAgree ==
    ASSUME LetThrough(cfg')
    PROVE  OneBastion'
<1> DEFINE c == cfg'
<1>1. Sound(c) /\ Admitted(c)
  BY DEF LetThrough
<1> HIDE DEF c
<1>2. c.bastion # 0 => c.static_dns \in {0, c.bastion} /\ c.ignition \in {0, c.bastion}
  BY <1>1, Admits
<1>3. c.bastion # 0 => ExtractNetworkConfig(c) = c.bastion /\ c.ignition \in {0, c.bastion}
  BY <1>2 DEF ExtractNetworkConfig, Or
<1> QED
  BY <1>3 DEF OneBastion, c

\* A user with a password, at a host.
UserAt(host, name, secret) ==
    [NoLogin EXCEPT !.endpoint = host, !.username = name, !.password = secret]

\* Without variables the endpoint is the host of the configuration.
LEMMA Resolved ==
    ASSUME NEW c, c.px, c.host > 0
    PROVE  GetProxmoxCredentials(c, NoLogin).endpoint = c.host
<1>1. c.host # 0 /\ normalizeEndpoint(c.host)
  BY DEF normalizeEndpoint, InsecureHost
<1>2. ~UseAPIToken(NoLogin) /\ ~IsValid(NoLogin)
  BY DEF UseAPIToken, IsValid, NoLogin, Given
<1> QED
  BY <1>1, <1>2 DEF GetProxmoxCredentials, NoLogin

\* Such a login, field by field.
IsUser(u, host, name, secret) ==
    u.endpoint = host /\ u.username = name /\ u.password = secret /\ u.token = ""

LEMMA UserIs ==
    ASSUME NEW host, NEW name, NEW secret
    PROVE  IsUser(UserAt(host, name, secret), host, name, secret)
BY DEF UserAt, NoLogin, IsUser

LEMMA UserInSteps ==
    ASSUME NEW f, NEW host, NEW name, NEW secret
    PROVE  [[f EXCEPT !.username = name, !.password = secret] EXCEPT !.endpoint = host]
           = [f EXCEPT !.endpoint = host, !.username = name, !.password = secret]
OBVIOUS

LEMMA UserSignsIn ==
    ASSUME NEW u, NEW host, NEW name, NEW secret, IsUser(u, host, name, secret), Given(name), Given(secret)
    PROVE  ~UseAPIToken(u) /\ IsValid(u)
BY DEF UseAPIToken, IsValid, Given, IsUser

\* It is presented as it was written.
LEMMA Presented ==
    ASSUME NEW c, NEW host, c.px, c.host = host, host > 0, NEW name, NEW secret, Given(name), Given(secret)
    PROVE  Env(GetProxmoxCredentials(c, UserAt(host, name, secret))) = UserAt(host, name, secret)
<1> DEFINE u == UserAt(host, name, secret)
<1>1. host # 0 /\ normalizeEndpoint(host)
  BY DEF normalizeEndpoint, InsecureHost
<1>9. IsUser(u, host, name, secret)
  BY Zenon, UserIs
<1> HIDE DEF u
<1>2. u.endpoint = host /\ u.username = name /\ u.password = secret
  BY Zenon, <1>9 DEF IsUser
<1>3. ~UseAPIToken(u) /\ IsValid(u)
  BY Zenon, <1>9, UserSignsIn
<1> DEFINE partial == [NoLogin EXCEPT !.username = u.username, !.password = u.password]
<1>4. GetProxmoxCredentials(c, u) = applyEnvSource(partial, c, u)
  BY Zenon, <1>1, <1>3 DEF GetProxmoxCredentials
<1>5. Or(u.endpoint, c.host) = host
  BY Zenon, <1>2 DEF Or
<1>6. applyEnvSource(partial, c, u) = [partial EXCEPT !.endpoint = host]
  BY Zenon, <1>1, <1>5 DEF applyEnvSource
<1>7. [partial EXCEPT !.endpoint = host] = u
  <2>1. partial = [NoLogin EXCEPT !.username = name, !.password = secret]
    BY Zenon, <1>2
  <2>2. u = [NoLogin EXCEPT !.endpoint = host, !.username = name, !.password = secret]
    BY DEF u, UserAt
  <2> QED
    BY Zenon, <2>1, <2>2, UserInSteps
<1>8. Env(u) = u
  BY Zenon, <1>3 DEF Env
<1> QED
  BY Zenon, <1>4, <1>6, <1>7, <1>8 DEF u

\* What was typed is written to the .env file, read back by the deploy, which has read none
\* before, and presented to the host that was reviewed.
LEMMA TypedSignsIn ==
    ASSUME UnderWay, DOMAIN login = SignIns, cfg' = Saved(cfg), LetThrough(cfg'),
           NEW p \in {login, WriteEnvFile(login, TypedLogin(cfg, login))}, persistWizardConfig(p),
           LoadEnvFile(Promise(p)).loaded # "failed",
           login'.used = GetProxmoxCredentials(cfg', LoadEnvFile(Promise(p)).environ),
           login'.typed = Promise(p).typed
    PROVE  SignsInAsTyped'
<1> DEFINE c == cfg'
           q == Promise(p)
           u == UserAt(cfg.host, cfg.username, cfg.password)
<1>1. DOMAIN p = SignIns
  BY DEF WriteEnvFile, SignIns
<1>2. CASE q.typed = <<>>
  BY <1>2 DEF SignsInAsTyped
<1>3. ASSUME q.typed # <<>> PROVE Env(login'.used) = q.typed[1]
  <2>1. /\ ~NothingTyped(cfg) /\ Given(cfg.username) /\ p.loaded = "no" /\ p.shell = NoLogin
        /\ q = [p EXCEPT !.typed = <<u>>]
    BY <1>1, <1>3, SMTT(30) DEF Promise, SignIns, UserAt
  <2>2. /\ p = WriteEnvFile(login, TypedLogin(cfg, login)) /\ cfg.px /\ Given(cfg.password)
    BY <2>1 DEF persistWizardConfig, NothingTyped
  <2>3. /\ p.envfile = EnvFile("data", TypedLogin(cfg, login))
        /\ p.loaded = login.loaded /\ p.shell = login.shell /\ p.environ = login.environ
    BY <2>2 DEF WriteEnvFile, SignIns
  <2>4. p.environ = NoLogin
    BY <2>1, <2>3 DEF UnderWay
  <2>5. c.px /\ c.host > 0 /\ c.px = cfg.px /\ c.host = cfg.host
    <3>1. Sound(cfg) /\ Sound(c) /\ Admitted(c)
      BY DEF UnderWay, LetThrough
    <3>2. {"px", "host"} \subseteq DOMAIN cfg \ {"username", "password"}
      BY <3>1, FieldsKnown DEF Sound, KnownFields
    <3>3. c.px = cfg.px /\ c.host = cfg.host
      BY <3>1, <3>2, SavedIsSound
    <3> HIDE DEF c
    <3> QED
      BY <3>1, <3>3, Admits
  <2>6. TypedLogin(cfg, login) = u
    <3>1. GetProxmoxCredentials(cfg, login.environ).endpoint = cfg.host
      BY Zenon, <2>2, <2>3, <2>4, <2>5, Resolved
    <3> QED
      BY <3>1 DEF TypedLogin, UserAt
  <2>7. FirstOf(NoLogin, u) = u
    BY DEF FirstOf, IsSet, UserAt, NoLogin
  <2> HIDE DEF u, c
  <2>8. q.loaded = "no" /\ q.environ = NoLogin /\ q.envfile = EnvFile("data", u) /\ DOMAIN q = SignIns
        /\ q.typed = <<u>>
    BY <1>1, <2>1, <2>3, <2>4, <2>6 DEF SignIns
  <2> HIDE DEF q
  <2>9. LoadEnvFile(q).environ = u
    <3>1. q.envfile.kind = "data" /\ q.envfile.vars = u
      BY <2>8 DEF EnvFile
    <3>2. LoadEnvFile(q) = [q EXCEPT !.loaded = "ok", !.environ = FirstOf(@, u)]
      BY <2>8, <3>1 DEF LoadEnvFile, loadEnvFileOnce, rejectUnknownEnvKeys
    <3> QED
      BY <2>7, <2>8, <3>2 DEF SignIns
  <2>10. login'.used = GetProxmoxCredentials(c, u)
    BY <2>9 DEF q, c
  <2>11. Env(GetProxmoxCredentials(c, u)) = u
    BY <2>1, <2>2, <2>5, Presented DEF u
  <2> QED
    BY <2>8, <2>10, <2>11
<1>4. login'.typed = q.typed
  OBVIOUS
<1> HIDE DEF q
<1> QED
  BY <1>2, <1>3, <1>4 DEF SignsInAsTyped

\* What a deploy needs to have deployed what was reviewed, and where it leaves the operator.
Reviewed ==
    /\ Configuring
    /\ outcome = "deployed" => OnStep("shell")
    /\ DeploysAsReviewed

\* A deploy that is let through, of a configuration that holds what was chosen.
LEMMA DeployStands ==
    ASSUME Sound(cfg'), \A r \in Roles : chosen'[r] # <<>> => chosen'[r] = cfg'[r],
           NEW p, DOMAIN p = SignIns, runFullDeployment(cfg', p),
           LetThrough(cfg') /\ LoadEnvFile(p).loaded # "failed"
             /\ login'.used = GetProxmoxCredentials(cfg', LoadEnvFile(p).environ) /\ login'.typed = p.typed
             => SignsInAsTyped'
    PROVE  DeploysAsReviewed'
<1>1. CASE outcome' # "deployed"
  BY <1>1 DEF DeploysAsReviewed
<1>2. CASE outcome' = "deployed"
  <2> DEFINE c == cfg'
  <2>1. runFullDeployment(c, p)
    OBVIOUS
  <2> HIDE DEF c
  <2>2. /\ Admitted(c) /\ LoadEnvFile(p).loaded # "failed" /\ CanListNodes(c)
        /\ ModuleAccepts(buildTerraformVarsData(c))
        /\ login'.used = GetProxmoxCredentials(c, LoadEnvFile(p).environ)
        /\ login'.typed = p.typed
    BY <1>2, <2>1, Deploys
  <2>3. LetThrough(cfg')
    BY <2>2 DEF LetThrough, c
  <2>4. SignsInAsTyped'
    BY <2>2, <2>3 DEF c
  <2>5. PlacedAsChosen' /\ OneBastion' /\ PlanAgrees'
    BY <2>3, ChoicesPlaced, BastionsAgree, PlansAgree
  <2> QED
    BY <2>4, <2>5 DEF DeploysAsReviewed
<1> QED
  BY <1>1, <1>2

\* The three ways to deploy: a file, the configuration the hub loaded, the one under review.
LEMMA YesDeploysReviewed == ASSUME Configuring, DeployYes PROVE DeploysAsReviewed' /\ OnStep("shell")'
<1> DEFINE p == [NewProcess(login) EXCEPT !.used = NoLogin, !.typed = <<>>]
<1>1. Sound(cfg')
  BY LoadsConfig DEF DeployYes, Configuring
<1>2. \A r \in Roles : chosen'[r] = cfg'[r]
  BY DEF DeployYes, PlacedIn
<1>3. DOMAIN p = SignIns /\ p.typed = <<>>
  BY DEF NewProcess, Configuring, Stored, SignIns
<1>4. runFullDeployment(cfg', p)
  BY DEF DeployYes
<1> HIDE DEF p
<1>5. login'.typed = p.typed => SignsInAsTyped'
  BY <1>3 DEF SignsInAsTyped
<1>6. DeploysAsReviewed'
  BY <1>1, <1>2, <1>3, <1>4, <1>5, DeployStands
<1> QED
  BY <1>6 DEF DeployYes, OnStep

LEMMA HubDeploysReviewed ==
    ASSUME Configuring, HubVerbDeploy PROVE DeploysAsReviewed' /\ OnStep("shell")'
<1>1. ~OnStep("shell") /\ UnderWay /\ DOMAIN login = SignIns
  BY DEF HubVerbDeploy, OnStep, Configuring, Stored, SignIns
<1>2. cfg' = cfg /\ chosen' = chosen /\ runFullDeployment(cfg, login) /\ OnStep("shell")'
  BY Leaves DEF HubVerbDeploy
<1>3. Sound(cfg') /\ \A r \in Roles : chosen'[r] # <<>> => chosen'[r] = cfg'[r]
  BY <1>1, <1>2 DEF UnderWay
<1>4. runFullDeployment(cfg', login)
  BY <1>2
<1>5. login'.typed = login.typed => SignsInAsTyped'
  BY <1>1 DEF UnderWay, SignsInAsTyped
<1>6. DeploysAsReviewed'
  BY <1>1, <1>3, <1>4, <1>5, DeployStands
<1> QED
  BY <1>2, <1>6

LEMMA ReviewDeploysReviewed ==
    ASSUME Configuring, ReviewDone(TRUE) PROVE DeploysAsReviewed' /\ OnStep("shell")'
<1>1. ~OnStep("shell") /\ UnderWay /\ DOMAIN login = SignIns
  BY DEF ReviewDone, OnStep, Configuring, Stored, SignIns
<1>2. cfg' = Saved(cfg) /\ chosen' = chosen /\ OnStep("shell")'
  BY Leaves DEF ReviewDone
<1>3. PICK p \in {login, WriteEnvFile(login, TypedLogin(cfg, login))} :
         persistWizardConfig(p) /\ runFullDeployment(cfg', Promise(p))
  BY DEF ReviewDone
<1>4. Sound(cfg') /\ \A r \in Roles : chosen'[r] # <<>> => chosen'[r] = cfg'[r]
  <2>1. Sound(cfg) /\ {"master", "worker"} \subseteq DOMAIN cfg \ {"username", "password"}
    BY <1>1, FieldsKnown DEF UnderWay, Sound, KnownFields
  <2>2. Sound(Saved(cfg)) /\ \A r \in Roles : Saved(cfg)[r] = cfg[r]
    BY <2>1, SavedIsSound DEF Roles
  <2> QED
    BY <1>1, <1>2, <2>2 DEF UnderWay
<1>5. DOMAIN Promise(p) = SignIns
  BY <1>1, <1>3 DEF Promise, WriteEnvFile, SignIns
<1>6. LetThrough(cfg') /\ LoadEnvFile(Promise(p)).loaded # "failed"
        /\ login'.used = GetProxmoxCredentials(cfg', LoadEnvFile(Promise(p)).environ)
        /\ login'.typed = Promise(p).typed
        => SignsInAsTyped'
  BY <1>1, <1>2, <1>3, TypedSignsIn
<1>7. DeploysAsReviewed'
  BY <1>3, <1>4, <1>5, <1>6, DeployStands
<1> QED
  BY <1>2, <1>7

\* No other step deploys, and those within the wizard do not follow a deploy.
LEMMA StaysOut ==
    ASSUME Configuring, outcome = "deployed" => OnStep("shell"),
           \/ RunWizard \/ CtrlC \/ SaveFails \/ ReviewDone(FALSE)
           \/ ~OnStep("shell") /\ outcome' = outcome
    PROVE  outcome' # "deployed"
BY DEF RunWizard, CtrlC, SaveFails, ReviewDone

LEMMA KeysAreQuiet ==
    ASSUME \/ HubVerbManage \/ HubVerbEdit \/ Back \/ Nudge \/ EnterForm
           \/ \E e \in Entries : Type(e[1], e[2])
           \/ \E page \in DOMAIN StepFields \cup {"node-placement"} : jumpToStep(page)
           \/ Refresh \/ Select \/ EnterPlacement
           \/ Retry \/ handleNavigationKey \/ handleTabKey \/ handleEnterKey \/ Replies
    PROVE  ~OnStep("shell") /\ outcome' = outcome
<1>1. CASE HubVerbManage \/ HubVerbEdit \/ Back
  BY <1>1 DEF HubVerbManage, HubVerbEdit, Back, OnStep
<1>2. CASE Nudge \/ EnterForm \/ \E e \in Entries : Type(e[1], e[2])
  <2>1. InForm /\ outcome' = outcome
    BY <1>2 DEF Nudge, EnterForm, Type
  <2> QED
    BY <2>1, ScreenNames DEF InForm, OnStep
<1>3. CASE \E page \in DOMAIN StepFields \cup {"node-placement"} : jumpToStep(page)
  BY <1>3 DEF jumpToStep, OnStep
<1>4. CASE Refresh \/ Select \/ EnterPlacement
  BY <1>4 DEF Refresh, Select, EnterPlacement, Placing, OnStep
<1>5. CASE Retry \/ handleNavigationKey \/ handleTabKey \/ handleEnterKey
  BY <1>5 DEF Retry, handleNavigationKey, handleTabKey, handleEnterKey, Choosing, OnStep
<1>6. CASE Replies
  BY <1>6 DEF Replies, discoveryComplete, versionsLoaded, OnStep
<1> QED
  BY <1>1, <1>2, <1>3, <1>4, <1>5, <1>6

\* Every step keeps the review.
LEMMA ReviewKept == ASSUME Reviewed, [ConfigureNext]_configureVars PROVE Reviewed'
<1>1. Configuring /\ Configuring' /\ (outcome = "deployed" => OnStep("shell"))
  BY ConfigureKept DEF Reviewed
<1>2. CASE UNCHANGED configureVars
  <2>1. (outcome = "deployed" => OnStep("shell"))'
    BY <1>1, <1>2 DEF configureVars, OnStep
  <2>2. DeploysAsReviewed'
    BY Zenon, <1>2 DEF Reviewed, configureVars, DeploysAsReviewed, PlacedAsChosen, OneBastion, SignsInAsTyped, PlanAgrees
  <2> QED
    BY <1>1, <2>1, <2>2 DEF Reviewed
<1>3. CASE DeployYes \/ HubVerbDeploy \/ ReviewDone(TRUE)
  BY <1>1, <1>3, YesDeploysReviewed, HubDeploysReviewed, ReviewDeploysReviewed DEF Reviewed
<1>4. ASSUME outcome' # "deployed" PROVE Reviewed'
  BY <1>1, <1>4 DEF Reviewed, DeploysAsReviewed
<1>5. CASE RunWizard \/ CtrlC \/ SaveFails \/ ReviewDone(FALSE)
  <2>1. outcome' # "deployed"
    BY <1>1, <1>5, StaysOut
  <2> QED
    BY <1>4, <2>1
<1>6. CASE \/ HubVerbManage \/ HubVerbEdit \/ Back \/ Nudge \/ EnterForm
           \/ \E e \in Entries : Type(e[1], e[2])
           \/ \E page \in DOMAIN StepFields \cup {"node-placement"} : jumpToStep(page)
           \/ Refresh \/ Select \/ EnterPlacement
           \/ Retry \/ handleNavigationKey \/ handleTabKey \/ handleEnterKey \/ Replies
  <2>1. ~OnStep("shell") /\ outcome' = outcome
    BY <1>6, KeysAreQuiet
  <2>2. outcome' # "deployed"
    BY <1>1, <2>1
  <2> QED
    BY <1>4, <2>2
<1> QED
  BY <1>2, <1>3, <1>5, <1>6 DEF ConfigureNext, Keys

LEMMA ReviewBegins == ASSUME ConfigureInit PROVE Reviewed
<1>1. outcome = "none"
  BY DEF ConfigureInit
<1> QED
  BY <1>1, ConfigureBegins DEF Reviewed, DeploysAsReviewed

\* However often the operator goes back, jumps from the review, changes a count, a range or the
\* credentials, leaves a discovery or deploys without review: a deploy that is let through puts
\* the machines where they were placed, asks one bastion, signs in as was typed, and has the
\* addresses, ids and hosts that the Terraform module gives them (runFullDeployment,
\* collectPlacement, buildTerraformVarsData, main.tf).  Of a blank in the file's list of nodes
\* it says that the module names no host.
THEOREM DeploysWhatWasReviewed == ServicesSpec => []DeploysAsReviewed
<1>1. ServicesInit => Reviewed
  BY PartsBegin, ReviewBegins
<1>2. Reviewed /\ [ServicesNext]_serviceVars => Reviewed'
  BY EachPart, ReviewKept
<1>3. Reviewed => DeploysAsReviewed
  BY DEF Reviewed
<1> QED
  BY <1>1, <1>2, <1>3, PTL DEF ServicesSpec

-----------------------------------------------------------------------------
(* The types of all services *)

\* What the approver has listed was filed, and what was filed is a request.
Filed == [csr : Requests, version : 0..1]
Loops == [at : {"wait", "approve", "approve-last", "final", "reap", "ended"}, list : SUBSET Filed,
          outcome : {"none", "complete", "failed", "stopped", "abandoned"}]
MonitorTyped == MonitorTypeOK /\ pending \subseteq Filed /\ monitor \in Loops

LEMMA MonitorBegins == MonitorInit => MonitorTyped
BY MonitorAssumption DEF MonitorInit, MonitorTyped, MonitorTypeOK, Loops, Idle

LEMMA MonitorStaysTyped == ASSUME MonitorTyped, [Monitor]_monitorVars PROVE MonitorTyped'
<1> USE DEF MonitorTyped, MonitorTypeOK
<1>1. hiccups' \in 0..MonitorFaults
  <2>1. hiccups' = hiccups \/ Hiccup
    BY DEF Monitor, MonitorStep, monitorVars, NodeAsks, StrangerAsks, Replaced, InstallerEnds, InstallerDies,
       PendingCSRs, ApproveCSR, Approved, InstallDone, ContextEnds, CtxDone, ReapInstall
  <2> QED
    BY <2>1, MonitorAssumption DEF Hiccup
<1>2. installer' \in {"running", "done", "failed", "killed", "gone"}
  BY DEF Monitor, MonitorStep, monitorVars, NodeAsks, StrangerAsks, Replaced, InstallerEnds, InstallerDies,
     PendingCSRs, ApproveCSR, Approved, InstallDone, ContextEnds, CtxDone, ReapInstall
<1>3. /\ joined' \in [Expected -> {"waiting", "client", "serving"}] /\ granted' \subseteq Requests
  <2>1. CASE UNCHANGED <<joined, granted>>
    BY <2>1
  <2>2. ASSUME NEW p \in monitor.list, ApproveCSR(p)
        PROVE  /\ joined' \in [Expected -> {"waiting", "client", "serving"}] /\ granted' \subseteq Requests
    <3>1. p.csr \in Requests
      BY DEF Filed, Loops
    <3> QED
      BY <2>2, <3>1 DEF ApproveCSR
  <2> QED
    BY <2>1, <2>2 DEF Monitor, MonitorStep, monitorVars, NodeAsks, StrangerAsks, Replaced, InstallerEnds,
       InstallerDies, PendingCSRs, Approved, InstallDone, ContextEnds, CtxDone, ReapInstall
<1>4. pending' \subseteq Filed
  <2>1. CASE pending' \subseteq pending
    BY <2>1
  <2>2. ASSUME NEW n \in Expected, NodeAsks(n) PROVE pending' \subseteq Filed
    <3>1. PICK signer \in {"client", "serving"} :
             pending' = pending \cup {[csr |-> KubeletRequest(n, signer), version |-> 0]}
      BY <2>2 DEF NodeAsks
    <3>2. KubeletRequest(n, signer) \in Requests
      BY DEF KubeletRequest, Requests, Signers, Requesters
    <3> QED
      BY <3>1, <3>2 DEF Filed
  <2>3. ASSUME NEW csr \in Fishy, StrangerAsks(csr) \/ \E p \in monitor.list : Replaced(p, csr)
        PROVE  pending' \subseteq Filed
    <3>1. csr \in Requests
      BY MonitorAssumption
    <3> QED
      BY <2>3, <3>1 DEF StrangerAsks, Replaced, Filed
  <2> QED
    BY <2>1, <2>2, <2>3 DEF Monitor, MonitorStep, monitorVars, InstallerEnds, InstallerDies, PendingCSRs, ApproveCSR,
       Approved, InstallDone, ContextEnds, CtxDone, ReapInstall
<1>5. monitor' \in Loops
  <2>1. CASE PendingCSRs
    BY <2>1 DEF PendingCSRs, Loops
  <2>2. ASSUME NEW p \in monitor.list, ApproveCSR(p) PROVE monitor' \in Loops
    BY <2>2 DEF ApproveCSR, Loops
  <2>3. CASE Approved \/ InstallDone \/ CtxDone \/ ReapInstall
    BY <2>3 DEF Approved, InstallDone, CtxDone, ReapInstall, End, Loops
  <2>4. CASE monitor' = monitor
    BY <2>4
  <2> QED
    BY <2>1, <2>2, <2>3, <2>4 DEF Monitor, MonitorStep, monitorVars, NodeAsks, StrangerAsks, Replaced, InstallerEnds,
       InstallerDies, ContextEnds
<1>6. monitor'.list \subseteq [csr : Requests, version : 0..1]
  BY <1>5 DEF Filed, Loops
<1> QED
  BY <1>1, <1>2, <1>3, <1>4, <1>5, <1>6

EraseTyped ==
    /\ EraseTypeOK /\ on \subseteq DOMAIN Machines
    /\ DOMAIN erase = {"phase", "todo", "base", "ask", "steady"}

LEMMA EraseBeginsTyped == EraseInit => EraseTyped
BY MachinesAssumption DEF EraseInit, EraseTyped, EraseTypeOK, NoErase

LEMMA EraseStaysTyped == ASSUME EraseTyped, [EraseNext]_isoVars PROVE EraseTyped'
<1> USE DEF EraseTyped, EraseTypeOK, Erases, EraseTo, Rest
<1> DEFINE Step == /\ erase'.phase \in {"idle", "verify", "find", "next", "list", "read", "remove"}
                   /\ erase'.ask \cup erase'.steady \subseteq DOMAIN Machines
                   /\ DOMAIN erase' = {"phase", "todo", "base", "ask", "steady"}
<1>1. CASE UNCHANGED isoVars
  BY <1>1 DEF isoVars
<1>2. ASSUME NEW vm \in DOMAIN Machines, StartVM(vm) \/ StopVM(vm) PROVE EraseTyped'
  <2>1. turns' \in 0..MaxTurns
    BY <1>2, MachinesAssumption DEF StartVM, StopVM
  <2>2. on' \subseteq DOMAIN Machines
    BY <1>2 DEF StartVM, StopVM
  <2>3. erase' = erase \/ erase' = [erase EXCEPT !.steady = @ \ {vm}]
    BY <1>2 DEF StartVM, StopVM
  <2>4. Step
    BY <2>3
  <2> QED
    BY <2>1, <2>2, <2>4
<1>3. ASSUME erase' = NoErase PROVE Step
  <2>1. /\ NoErase.phase = "idle" /\ NoErase.ask = {} /\ NoErase.steady = {}
        /\ DOMAIN NoErase = {"phase", "todo", "base", "ask", "steady"}
    BY DEF NoErase
  <2> QED
    BY <1>3, <2>1
<1>4. ASSUME NEW p \in {"verify", "find", "list"}, erase' = [erase EXCEPT !.phase = p] PROVE Step
  BY <1>4
<1>5. ASSUME SkipISO PROVE Step
  <2>1. PICK todo : erase' = [erase EXCEPT !.phase = "next", !.todo = todo, !.ask = {}, !.steady = {}]
    BY <1>5 DEF SkipISO
  <2> QED
    BY <2>1
<1>6. ASSUME NEW base \in BOOLEAN, NEW todo, NEW p \in {"next", erase.phase},
             erase' = [erase EXCEPT !.phase = p, !.base = base, !.todo = todo]
      PROVE  Step
  BY <1>6
<1>7. CASE RemoveRemoteISO \/ VerifyHost \/ EraseKilled
  BY <1>3, <1>4, <1>7 DEF RemoveRemoteISO, VerifyHost, EraseKilled
<1>8. CASE FindBaseISOs
  <2>1. erase' = NoErase \/ \E todo : erase' = [erase EXCEPT !.phase = "next", !.base = TRUE, !.todo = todo]
    BY <1>8 DEF FindBaseISOs
  <2>2. Step
    BY <1>3, <1>6, <2>1
  <2> QED
    BY <1>8, <2>2 DEF FindBaseISOs
<1>9. CASE NextISO
  <2>1. \/ erase' = NoErase \/ erase' = [erase EXCEPT !.phase = "list"]
        \/ \E todo : erase' = [erase EXCEPT !.base = FALSE, !.todo = todo]
    BY <1>9 DEF NextISO
  <2>2. ASSUME NEW todo, erase' = [erase EXCEPT !.base = FALSE, !.todo = todo] PROVE Step
    BY <2>2
  <2>3. Step
    BY <1>3, <1>4, <2>1, <2>2
  <2> QED
    BY <1>9, <2>3 DEF NextISO
<1>10. CASE anyVMReferencesISO
  <2>1. SkipISO \/ erase' = [erase EXCEPT !.phase = IF on = {} THEN "remove" ELSE "read", !.ask = on, !.steady = on]
    BY <1>10 DEF anyVMReferencesISO
  <2>2. Step
    BY <1>5, <2>1
  <2> QED
    BY <1>10, <2>2 DEF anyVMReferencesISO
<1>11. ASSUME NEW vm \in DOMAIN Machines, vmConfigReferencesISO(vm) PROVE EraseTyped'
  <2>1. SkipISO \/ \E p \in {"remove", "read"} : erase' = [erase EXCEPT !.phase = p, !.ask = erase.ask \ {vm}]
    BY <1>11 DEF vmConfigReferencesISO
  <2>2. ASSUME NEW p \in {"remove", "read"}, erase' = [erase EXCEPT !.phase = p, !.ask = erase.ask \ {vm}] PROVE Step
    BY <2>2
  <2>3. Step
    BY <1>5, <2>1, <2>2
  <2> QED
    BY <1>11, <2>3 DEF vmConfigReferencesISO
<1>12. CASE RemoveISO
  BY <1>5, <1>12 DEF RemoveISO
<1> QED
  BY <1>1, <1>2, <1>7, <1>8, <1>9, <1>10, <1>11, <1>12 DEF EraseNext, EraseStep

LEMMA BastionTyped == ASSUME HostInv PROVE BastionTypeOK
BY DEF HostInv, HostTyped, BudgetTyped, ToolsTyped, ImagesTyped, RemoteTyped, ServerTyped, Certs, BastionTypeOK

\* The invariants of the parts, where types alone do not hold by induction.
AllTyped ==
    /\ Manager /\ IngressTyped /\ MonitorTyped /\ HostInv /\ DownloadInv /\ EraseTyped /\ Configuring
    /\ focus # "monitor" => MonitorInit
    /\ focus # "configure" => ConfigureRest

LEMMA RestsRemain ==
    ASSUME [ServicesNext]_serviceVars
    PROVE  /\ (focus # "monitor" => MonitorInit) => (focus # "monitor" => MonitorInit)'
           /\ (focus # "configure" => ConfigureRest) => (focus # "configure" => ConfigureRest)'
<1>1. /\ focus' = focus
      /\ focus # "monitor" => UNCHANGED monitorVars
      /\ focus # "configure" => UNCHANGED configureVars
  BY DEF ServicesNext, Only, serviceVars
<1>2. UNCHANGED monitorVars => (MonitorInit => MonitorInit')
  BY DEF monitorVars, MonitorInit
<1>3. UNCHANGED configureVars => (ConfigureRest => ConfigureRest')
  BY DEF configureVars, ConfigureRest, ConfigureInit, AtRest
<1> QED
  BY <1>1, <1>2, <1>3

\* Every reachable state of the services is well typed, for any nodes, machines, files, entries and
\* failures; the monitor and the configuration do not move unless it is they who work.
THEOREM ServicesTyped == ServicesSpec => []ServicesTypeOK
<1>1. ServicesInit => AllTyped
  <2> SUFFICES ASSUME ServicesInit PROVE AllTyped
    OBVIOUS
  <2>1. (focus # "monitor" => MonitorInit) /\ (focus # "configure" => ConfigureRest)
    BY DEF ServicesInit
  <2>2. IngressInit => IngressTyped
    BY IngressBegins DEF IngressInv
  <2> QED
    BY <2>1, <2>2, PartsBegin, ManagerBegins, MonitorBegins, HostBegins, DownloadBegins, EraseBeginsTyped,
       ConfigureBegins DEF AllTyped
<1>2. AllTyped /\ [ServicesNext]_serviceVars => AllTyped'
  <2> SUFFICES ASSUME AllTyped, [ServicesNext]_serviceVars PROVE AllTyped'
    OBVIOUS
  <2> QED
    BY EachPart, RestsRemain, ManagerGoesOn, IngressStaysTyped, MonitorStaysTyped, HostKept, DownloadGoesOn,
       EraseStaysTyped, ConfigureKept DEF AllTyped
<1>3. AllTyped => ServicesTypeOK
  <2> SUFFICES ASSUME AllTyped PROVE ServicesTypeOK
    OBVIOUS
  <2>1. AddonsTypeOK /\ IngressTypeOK /\ MonitorTypeOK /\ DownloadTypeOK /\ EraseTypeOK
    BY DEF AllTyped, Manager, Typed, IngressTyped, MonitorTyped, DownloadInv, FilesTyped, EraseTyped
  <2> QED
    BY <2>1, BastionTyped, ConfigureTyped DEF AllTyped, ServicesTypeOK
<1> QED
  BY <1>1, <1>2, <1>3, PTL DEF ServicesSpec

=============================================================================
