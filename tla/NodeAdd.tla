------------------------------ MODULE NodeAdd ------------------------------
(***************************************************************************)
(* node.Runner.AddWorkers: widen the worker pool by a batch.  One ignition *)
(* server serves the whole batch; each worker goes through                 *)
(*                                                                         *)
(*   build-iso -> upload-iso -> tf-apply -> wait-join                      *)
(*                                                                         *)
(* and the worker count is persisted once every worker joined, so that an  *)
(* interrupted batch recomputes the same range of indices.                 *)
(***************************************************************************)
EXTENDS NodeWorld

CONSTANT AddCounts    \* values of --count an operator gives

ASSUME AddAssumption == AddCounts \subseteq Nat \ {0}

\* addIntentStart: a repeated request keeps the range of the recorded batch,
\* whether or not its count was already persisted.
Recorded(count) == /\ marker.op = "add" /\ marker.intent # NoIntent
                   /\ marker.intent.count = count
AddStartFresh(count) == config.workers       \* (mutant) the recorded range is forgotten
AddStart(count) == IF Recorded(count) THEN marker.intent.start ELSE config.workers
CountUnchanged(count) ==
    Recorded(count) => config.workers \in {marker.intent.start, marker.intent.start + count}

AddIntent(start, count) ==
    [NoIntent EXCEPT !.scope = <<"worker", -1>>, !.start = start, !.count = count,
        !.mem = config.size["worker"].mem, !.disk = config.size["worker"].disk]

Batch(start, count) == {"worker"} \X (start .. start + count - 1)

\* (mutant) the batch resumes after the node the marker names.
RemainingAfter(batch, from) ==
    IF from = NoMarker THEN batch ELSE {n \in batch : n[2] > from.target[2]}

\* A resumed batch takes up at the node the marker names: earlier ones joined.
Remaining(batch, from) ==
    IF from = NoMarker THEN batch ELSE {n \in batch : n[2] >= from.target[2]}

\* preflightAdd, run on a fresh batch only.
AddPreflight(start) == ApiUp /\ Cardinality(registered \cap Workers) = start

AddBegin(count, ack) ==
    LET start == AddStart(count)
        intent == AddIntent(start, count)
    IN  /\ CountUnchanged(count)
        /\ start + count =< MaxWorkers
        /\ \E from \in {NoMarker, marker} :
              /\ BeginOp("add", marker.target \in Batch(start, count), intent, ack, from)
              /\ from = NoMarker => AddPreflight(start)
              /\ Started("add", "ignition-up", Remaining(Batch(start, count), from),
                         from, intent)
        /\ UNCHANGED <<config, tfvars, infra, kube, boot, faults>>

-----------------------------------------------------------------------------
\* A fresh batch is recorded under its first worker before httpd is revived.
AddMarkWindow ==
    /\ At("add", "ignition-up") /\ ~run.marked /\ ~Resuming
    /\ marker' = [op |-> "add", target |-> <<"worker", run.intent.start>>,
                  step |-> "ignition-up", intent |-> run.intent]
    /\ run' = [run EXCEPT !.marked = TRUE]
    /\ UNCHANGED <<config, tfvars, infra, kube, boot, faults>>

AddRevive ==
    /\ At("add", "ignition-up") /\ (run.marked \/ Resuming)
    /\ ignition' = TRUE
    /\ GoTo("next")
    /\ UNCHANGED <<files, infra, kube, iso, misled, faults>>

AddNext == PickNext("add", "next", "worker", "build-iso", "save")

AddSteps == {"build-iso", "upload-iso", "tf-apply", "wait-join"}
AfterAddStep(step) ==
    CASE step = "build-iso" -> "upload-iso"
      [] step = "upload-iso" -> "tf-apply"
      [] step = "tf-apply" -> "wait-join"
      [] step = "wait-join" -> "next"
AddDue(step) == ShouldRunStep(step, ResumeStep)
AddMark == \E s \in AddSteps : AddDue(s) /\ Mark("add", s)
AddPass == \E s \in AddSteps : ~AddDue(s) /\ Pass("add", s, AfterAddStep(s))

\* An ISO that is built and uploaded already is skipped by both steps.
AddBuildISO ==
    /\ Doing("add", "build-iso")
    /\ iso' = [iso EXCEPT ![run.target] = IF @ = "none" THEN "built" ELSE @]
    /\ GoTo("upload-iso")
    /\ UNCHANGED <<files, infra, kube, ignition, misled, faults>>

\* Every ISO found in the build directory is uploaded, none is not an error.
AddUploadISO ==
    /\ Doing("add", "upload-iso")
    /\ iso' = [iso EXCEPT ![run.target] = IF @ = "built" THEN "uploaded" ELSE @]
    /\ GoTo("tf-apply")
    /\ UNCHANGED <<files, infra, kube, ignition, misled, faults>>

AddApply ==
    /\ Doing("add", "tf-apply")
    /\ TargetedApply(run.target, "create", tfvars.size["worker"])
    /\ GoTo("wait-join")
    /\ UNCHANGED <<files, kube, boot, faults>>

\* waitWorkerJoined approves the CSRs of the node it waits for.
AddApproveCSR ==
    /\ Doing("add", "wait-join") /\ ApiUp
    /\ Up(run.target) /\ run.target \notin registered
    /\ registered' = registered \cup {run.target}
    /\ UNCHANGED <<files, infra, ready, cordoned, drained, boot, run, faults>>

AddJoined ==
    /\ Doing("add", "wait-join") /\ ApiUp
    /\ run.target \in registered \cap ready
    /\ GoTo("next")
    /\ UNCHANGED <<files, infra, kube, boot, faults>>

AddSave == SaveConfig("add", [config EXCEPT !.workers = run.intent.start + run.intent.count],
                      "render")
AddRender == RenderTfvars("add", "clear")
AddClear == ClearMarker("add")

AddBlocked ==
    \/ Doing("add", "tf-apply") /\ ~PlanGate(run.target, "create", tfvars.size["worker"])
    \/ /\ Doing("add", "wait-join")
       /\ ~(ApiUp /\ (run.target \in ready \/ (Up(run.target) /\ run.target \notin registered)))

AddStep ==
    \/ AddMarkWindow \/ AddRevive \/ AddNext \/ AddMark \/ AddPass
    \/ AddBuildISO \/ AddUploadISO \/ AddApply \/ AddApproveCSR \/ AddJoined
    \/ AddSave \/ AddRender \/ AddClear

=============================================================================
