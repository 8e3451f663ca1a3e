----------------------------- MODULE NodeRemove -----------------------------
(***************************************************************************)
(* node.Runner.RemoveWorker: take out the worker with the highest index:   *)
(*                                                                         *)
(*   cordon -> drain -> tf-apply (delete, then persist) -> delete-node     *)
(*                                                                         *)
(* The worker count is written as the absolute index of the removed        *)
(* worker, inside the tf-apply step.  A remove starts with the API up and  *)
(* stops no master, so nothing it waits for is out of reach: it has no     *)
(* GiveUp, only the failures of Fail.                                      *)
(***************************************************************************)
EXTENDS NodeWorld

CONSTANT RemoveRequests   \* --skip-drain values an operator gives

ASSUME RemoveAssumption == RemoveRequests \subseteq BOOLEAN

RemoveIntent(n, skipDrain) == [NoIntent EXCEPT !.scope = n, !.skipDrain = skipDrain]

\* validateWorkerRemovable: the last worker of the cluster and of the topology.
Removable(n) ==
    /\ n \in registered \cap Workers
    /\ \A m \in registered \cap Workers : m[2] =< n[2]
    /\ n[2] = config.workers - 1

RemoveBegin(n, skipDrain, ack) ==
    LET intent == RemoveIntent(n, skipDrain)
    IN  /\ \E from \in {NoMarker, marker} :
              /\ BeginOp("remove", marker.target = n, intent, ack, from)
              /\ from = NoMarker => ApiUp /\ Removable(n)
              /\ Started("remove", "next", {n}, from, intent)
        /\ UNCHANGED <<config, tfvars, infra, kube, boot, faults>>

RemoveNext == PickNext("remove", "next", "worker", "cordon", "clear")

RemoveSteps == {"cordon", "drain", "tf-apply", "delete-node"}
AfterRemoveStepNoDrain(step) ==              \* (mutant) cordoned, never drained
    CASE step \in {"cordon", "drain"} -> "tf-apply"
      [] step = "tf-apply" -> "delete-node"
      [] step = "delete-node" -> "next"
AfterRemoveStep(step) ==
    CASE step = "cordon" -> "drain"
      [] step = "drain" -> "tf-apply"
      [] step = "tf-apply" -> "delete-node"
      [] step = "delete-node" -> "next"
RemoveDueOnce(step) ==                       \* (mutant) a resume never cordons again
    /\ ShouldRunStep(step, ResumeStep)
    /\ step \in {"cordon", "drain"} => ~run.intent.skipDrain /\ ~Resuming
RemoveDue(step) ==
    /\ ShouldRunStep(step, ResumeStep)
    /\ step \in {"cordon", "drain"} => ~run.intent.skipDrain
RemoveMark == \E s \in RemoveSteps : RemoveDue(s) /\ Mark("remove", s)
RemovePass == \E s \in RemoveSteps : ~RemoveDue(s) /\ Pass("remove", s, AfterRemoveStep(s))

RemoveCordon ==
    /\ Doing("remove", "cordon") /\ ApiUp
    /\ cordoned' = cordoned \cup {run.target}
    /\ GoTo("drain")
    /\ UNCHANGED <<files, infra, registered, ready, drained, boot, faults>>

RemoveDrain ==
    /\ Doing("remove", "drain") /\ ApiUp
    /\ cordoned' = cordoned \cup {run.target}
    /\ drained' = drained \cup {run.target}
    /\ GoTo("tf-apply")
    /\ UNCHANGED <<files, infra, registered, ready, boot, faults>>

RemoveApply ==
    /\ Doing("remove", "tf-apply")
    /\ TargetedApply(run.target, "delete", Absent)
    /\ ready' = Withdrawn({run.target})
    /\ GoTo("save")
    /\ UNCHANGED <<files, registered, cordoned, drained, boot, faults>>

\* (mutant) the count is decremented, so a resumed step decrements it twice.
RemoveSaveRelative == SaveConfig("remove", [config EXCEPT !.workers = @ - 1], "render")
RemoveSave == SaveConfig("remove", [config EXCEPT !.workers = run.target[2]], "render")
RemoveRender == RenderTfvars("remove", "delete-node")

RemoveDeleteNode ==
    /\ Doing("remove", "delete-node") /\ ApiUp
    /\ registered' = registered \ {run.target}
    /\ ready' = ready \ {run.target}
    /\ cordoned' = cordoned \ {run.target}
    /\ drained' = drained \ {run.target}
    /\ GoTo("next")
    /\ UNCHANGED <<files, infra, boot, faults>>

RemoveClear == ClearMarker("remove")

RemoveStep ==
    \/ RemoveNext \/ RemoveMark \/ RemovePass \/ RemoveCordon \/ RemoveDrain
    \/ RemoveApply \/ RemoveSave \/ RemoveRender \/ RemoveDeleteNode \/ RemoveClear

=============================================================================
