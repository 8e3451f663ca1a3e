---------------------------- MODULE ClusterPower ----------------------------
(***************************************************************************)
(* node.Runner.Stop and Start: power the whole cluster off and on again.   *)
(* Stop cordons every node, shuts the workers down and then the masters;   *)
(* Start powers on the masters as one batch, then the workers, waits for   *)
(* every listed node to be Ready and uncordons them.  Neither resumes: a   *)
(* recorded operation is refused, or consumed when it is acknowledged.     *)
(***************************************************************************)
EXTENDS NodeWorld

StopBegin(ack) ==
    /\ RefuseForeignMarker("stop", ack)
    /\ Started("stop", "probe", {}, NoMarker, NoIntent)
    /\ UNCHANGED <<config, tfvars, infra, kube, boot, faults>>

\* Stop takes its nodes from the API; each needs a VM that Proxmox knows.
StopReachable == ApiUp /\ \A n \in registered : InState(n)
StopListWorkers ==                           \* (mutant) masters are not cordoned
    /\ At("stop", "probe") /\ StopReachable
    /\ run' = [run EXCEPT !.stage = "cordon-all", !.todo = registered \cap Workers]
    /\ UNCHANGED <<files, infra, kube, boot, faults>>
StopList ==
    /\ At("stop", "probe") /\ StopReachable
    /\ run' = [run EXCEPT !.stage = "cordon-all", !.todo = registered]
    /\ UNCHANGED <<files, infra, kube, boot, faults>>

\* cordonAll ends before the first shutdown begins, and writes no marker.
StopCordonAll ==
    /\ At("stop", "cordon-all") /\ ApiUp /\ run.todo # {}
    /\ \E n \in run.todo :
          /\ \A m \in run.todo : Precedes(n, m, "worker")
          /\ cordoned' = cordoned \cup {n}
          /\ run' = [run EXCEPT !.todo = @ \ {n}]
    /\ UNCHANGED <<files, infra, registered, ready, drained, boot, faults>>

StopCordoned ==
    /\ At("stop", "cordon-all") /\ run.todo = {}
    /\ run' = [run EXCEPT !.stage = "next", !.todo = registered]
    /\ UNCHANGED <<files, infra, kube, boot, faults>>

\* (mutant) the masters are shut down before the workers.
StopMastersFirst == PickNext("stop", "next", "master", "shutdown", "clear")
StopNext == PickNext("stop", "next", "worker", "shutdown", "clear")
StopMark == Mark("stop", "shutdown")

StopShutdown ==
    /\ Doing("stop", "shutdown")
    /\ PowerOff(run.target)
    /\ GoTo("next")
    /\ UNCHANGED <<files, vm, registered, cordoned, drained, boot, faults>>

StopClear == ClearMarker("stop")

-----------------------------------------------------------------------------
StartBegin(ack) ==
    /\ RefuseForeignMarker("start", ack)
    /\ Started("start", "probe", {}, NoMarker, NoIntent)
    /\ UNCHANGED <<config, tfvars, infra, kube, boot, faults>>

\* Start takes its nodes from the topology: no API answers yet.
Configured == Masters \cup {n \in Workers : n[2] < config.workers}
StartReachable == \A n \in Configured : InState(n)
StartList ==
    /\ At("start", "probe") /\ StartReachable
    /\ run' = [run EXCEPT !.stage = "power-on", !.todo = Configured]
    /\ UNCHANGED <<files, infra, kube, boot, faults>>

StartMark == Mark("start", "power-on")

\* (mutant) each VM is started once the one before it is Ready.
StartOneByOne ==
    /\ Doing("start", "power-on") /\ run.todo # {}
    /\ Configured \ run.todo \subseteq ready /\ (ApiUp \/ run.todo = Configured)
    /\ \E n \in run.todo :
          /\ \A m \in run.todo : Precedes(n, m, "master")
          /\ PowerOn(n)
          /\ run' = [run EXCEPT !.todo = @ \ {n}]
    /\ UNCHANGED <<files, vm, kube, boot, faults>>

\* Every VM is started without waiting for the one before: etcd needs a
\* majority of the masters to come up together.
StartPowerOn ==
    /\ Doing("start", "power-on") /\ run.todo # {}
    /\ \E n \in run.todo :
          /\ \A m \in run.todo : Precedes(n, m, "master")
          /\ PowerOn(n)
          /\ run' = [run EXCEPT !.todo = @ \ {n}]
    /\ UNCHANGED <<files, vm, kube, boot, faults>>

StartPoweredOn ==
    /\ Doing("start", "power-on") /\ run.todo = {}
    /\ GoTo("cluster-ready")
    /\ UNCHANGED <<files, infra, kube, boot, faults>>

\* waitClusterReadyWithCSRApproval: every listed node, and at least one.
ClusterReady == ApiUp /\ registered # {} /\ registered \subseteq ready
StartWait ==
    /\ At("start", "cluster-ready") /\ ClusterReady /\ Count(registered)
    /\ run' = [run EXCEPT !.stage = "uncordon-all", !.todo = registered]
    /\ UNCHANGED <<files, infra, kube, faults>>

StartUncordonAll ==
    /\ At("start", "uncordon-all") /\ ApiUp /\ run.todo # {}
    /\ \E n \in run.todo :
          /\ cordoned' = cordoned \ {n}
          /\ drained' = drained \ {n}
          /\ run' = [run EXCEPT !.todo = @ \ {n}]
    /\ UNCHANGED <<files, infra, registered, ready, boot, faults>>

StartUncordoned ==
    /\ At("start", "uncordon-all") /\ run.todo = {}
    /\ GoTo("clear")
    /\ UNCHANGED <<files, infra, kube, boot, faults>>

StartClear == ClearMarker("start")

PowerBlocked ==
    \/ At("stop", "probe") /\ ~StopReachable
    \/ At("start", "probe") /\ ~StartReachable
    \/ At("start", "cluster-ready") /\ ~ClusterReady

PowerStep ==
    \/ StopList \/ StopCordonAll \/ StopCordoned \/ StopNext \/ StopMark
    \/ StopShutdown \/ StopClear
    \/ StartList \/ StartMark \/ StartPowerOn \/ StartPoweredOn
    \/ StartWait \/ StartUncordonAll \/ StartUncordoned \/ StartClear

=============================================================================
