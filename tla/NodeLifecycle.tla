---------------------------- MODULE NodeLifecycle ----------------------------
(***************************************************************************)
(* The node-lifecycle operations of okdctl together: whichever operation   *)
(* an operator issues next meets the marker, the topology and the cluster  *)
(* that the ones before left, whether they completed, failed or died.      *)
(***************************************************************************)
EXTENDS NodeResize, NodeAdd, NodeRemove, ClusterPower

BeginResize == \E q \in ResizeRequests, ack \in Acks : ResizeBegin(q, ack)
BeginAdd == \E count \in AddCounts, ack \in Acks : AddBegin(count, ack)
BeginRemove ==
    \E n \in Workers, skipDrain \in RemoveRequests, ack \in Acks : RemoveBegin(n, skipDrain, ack)
BeginStop == \E ack \in Acks : StopBegin(ack)
BeginStart == \E ack \in Acks : StartBegin(ack)

\* An operation that swept the residue of a completed add and then refused.
SweepResidue ==
    /\ Idle /\ Verbs # {} /\ CompletedAddResidue(marker)
    /\ marker' = NoMarker
    /\ UNCHANGED <<config, tfvars, infra, kube, boot, run, faults>>

Begin == BeginResize \/ BeginAdd \/ BeginRemove \/ BeginStop \/ BeginStart

ResizeGivesUp == GiveUp(ResizeBlocked)
AddGivesUp == GiveUp(AddBlocked)
PowerGivesUp == GiveUp(PowerBlocked)

\* What the process does by itself until it returns.
Proceed ==
    \/ ResizeStep \/ AddStep \/ RemoveStep \/ PowerStep
    \/ ResizeGivesUp \/ AddGivesUp \/ PowerGivesUp
    \/ Return

Environment == \E n \in Node : Boot(n) \/ ReportStatus(n)

Next == Begin \/ SweepResidue \/ Proceed \/ Environment \/ Fail \/ Crash

Spec == Init /\ [][Next]_vars

(***************************************************************************)
(* Fairness: the process is never suspended for ever, guests boot, their   *)
(* status is reported, and an operator does issue operations.  Failures    *)
(* are bounded by MaxFaults, so from some point on nothing goes wrong.     *)
(***************************************************************************)
Fairness ==
    /\ WF_vars(Proceed)
    /\ \A n \in Node : WF_vars(Boot(n)) /\ WF_vars(ReportStatus(n))
    /\ WF_vars(Begin)

FairSpec == Spec /\ Fairness

-----------------------------------------------------------------------------
(* Safety: what an interrupted operation leaves, and what a success means *)

\* The steps that a drained node is held through, out of service.
HeldAt(m) ==
    \/ m.op = "resize" /\ Drains(m.intent) /\ m.step \in {"tf-apply", "power-cycle", "disk-grow"}
    \/ m.op = "remove" /\ ~m.intent.skipDrain /\ m.step = "tf-apply"

\* A node whose drained operation stopped at or past its terraform apply, by
\* failure or death of the process, stays cordoned and drained for whoever
\* resumes it (markStep: the leave-cordoned guarantee).
LeftCordoned == HeldAt(marker) => marker.target \in cordoned \cap drained

\* A VM is power-cycled or destroyed only once its node is cordoned and drained,
\* on resumed runs too, unless --skip-drain asks otherwise (cordonAndDrain runs
\* ahead of every other mutating step of Resize and RemoveWorker).
DrainedBeforeDisruption ==
    [][\A n \in Node :
          /\ run.op \in {"resize", "remove"} /\ ~run.intent.skipDrain
          /\ (guest[n].power # "off" /\ guest'[n].power = "off") \/ (InState(n) /\ vm'[n] = Absent)
          => n \in cordoned \cap drained]_vars

\* A resize that saves the role's sizing, clears its marker or reports success
\* has realized it: every target runs with the memory and disk that were asked
\* for (Resize: never report success on an unrealized resize; persist only once
\* every target has verifiably landed).  That the targets are back in service is
\* part of NothingLeftBehind.
ResizeRealized ==
    run.op = "resize" /\ run.stage \in {"save", "render", "clear", "done"} =>
        \A n \in ResizeTargets(run.intent.scope) :
            /\ run.intent.askMem > 0 => guest[n].mem = run.intent.mem
            /\ run.intent.askDisk > 0 => guest[n].disk = run.intent.disk

\* A resize stops a master only while every other one is up (the etcd gates before
\* and after each), or not up yet since a gate counted a Ready that was no longer true;
\* and a stop only when every worker is off (workers, then masters).
MastersSpared ==
    [][\A m \in Masters : guest[m].power # "off" /\ guest'[m].power = "off" =>
          /\ run.op = "resize" => \A n \in Masters \ {m} : Up(n) \/ n \in misled
          /\ run.op = "stop" => \A n \in registered \cap Workers : guest[n].power = "off"]_vars

\* With no operation running or recorded, nothing is left behind: terraform's
\* workers, the API's workers and the persisted topology are the same indices,
\* tfvars is rendered, and every node is schedulable (persistTopology's order,
\* remove's absolute count, add's persist after the last join).
NothingLeftBehind ==
    Idle /\ marker = NoMarker =>
        /\ {n \in Workers : InState(n)} = Configured \ Masters
        /\ registered = Configured
        /\ tfvars = config
        /\ cordoned = {}

\* An add whose count is persisted added exactly the batch it recorded: each of
\* its workers has a VM, joined, and the count grew by the batch once, however
\* often it was interrupted (addIntentStart, addOneWorker's skip).  No VM was created
\* before its boot ISO reached the hypervisor, whatever the marker resumed from.
AddedExactly ==
    run.op = "add" /\ run.stage \in {"save", "render", "clear", "done"} =>
        /\ \A n \in Workers : InState(n) => iso[n] = "uploaded"
        /\ Batch(run.intent.start, run.intent.count) \subseteq registered
        /\ \A n \in Workers : n[2] < run.intent.start + run.intent.count <=> InState(n)
        /\ run.stage # "save" => config.workers = run.intent.start + run.intent.count

-----------------------------------------------------------------------------
(* Safety of stop and start *)

\* Once a shutdown is recorded every registered node is cordoned, and stays so if the
\* stop ends there: never a schedulable mix (cordonAll).  A start that reports success
\* leaves no node of the topology off and every registered one schedulable and up, but for
\* those not up yet whose Ready it counted was from before the stop, whatever partial stop
\* it undoes.
PowerSettled ==
    /\ marker.op = "stop" => registered \subseteq cordoned
    /\ At("start", "done") =>
          /\ \A n \in Configured : guest[n].power # "off"
          /\ \A n \in registered : (Up(n) \/ n \in misled) /\ n \notin cordoned

-----------------------------------------------------------------------------
(* Liveness, under FairSpec *)

\* Repeating the request of an interrupted resize, add or remove ends it, with
\* its marker cleared, once failures stop (operation-recovery.md: retry the same
\* request to resume).  A stop or start in between has a marker of its own.
Retried(m) == m.op \in {"resize", "add", "remove"}
RetryConverges == Retried(marker) ~> ~Retried(marker)

\* A start that meets no further failure brings the cluster up: the masters are
\* not made to wait for one another (powerOnRole).
StartCompletes ==
    At("start", "power-on") /\ faults = MaxFaults ~> At("start", "done")

=============================================================================
