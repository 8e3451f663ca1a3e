------------------------- MODULE NodeLifecycle_proofs -------------------------
(***************************************************************************)
(* Theorems about the node-lifecycle operations, for any number of masters *)
(* and workers, any sizes, requests and acknowledgements, and any number   *)
(* of failures.                                                            *)
(***************************************************************************)
EXTENDS NodeLifecycle, TLAPS

ResizeStages == ResizeSteps \cup {"probe", "pre-gate", "wait-ready", "post-gate", "next",
                                  "save", "render", "clear", "done"}
AddStages == AddSteps \cup {"ignition-up", "next", "save", "render", "clear", "done"}
RemoveStages == RemoveSteps \cup {"next", "save", "render", "clear", "done"}

(***************************************************************************)
(* What each operation keeps true of its own run: it is at one of its own  *)
(* stages, at a node where the stage needs one, with a request it checked. *)
(***************************************************************************)
ResizeShape ==
    run.op = "resize" =>
        /\ run.stage \in ResizeStages
        /\ run.intent.scope[1] \in Role /\ run.intent.mem \in Memory
        /\ run.stage \notin {"next", "save", "render", "clear", "done"} => run.target \in Node
AddShape ==
    run.op = "add" =>
        /\ run.stage \in AddStages
        /\ run.intent.count > 0 /\ run.intent.start + run.intent.count =< MaxWorkers
        /\ run.todo \subseteq Workers
        /\ run.stage \in AddSteps => run.target \in Workers
RemoveShape ==
    run.op = "remove" =>
        /\ run.stage \in RemoveStages
        /\ run.todo \subseteq Workers
        /\ run.stage \notin {"next", "clear", "done"} => run.target \in Workers

TInv == TypeOK /\ ResizeShape /\ AddShape /\ RemoveShape

-----------------------------------------------------------------------------
(* Facts about the data *)

LEMMA FirstSizeType == FirstSize \in Size
<1>1. Least(Memory) \in Memory
  BY SizeAssumption DEF Least
<1>2. Least(Disk) \in Disk
  BY SizeAssumption DEF Least
<1> QED
  BY <1>1, <1>2 DEF FirstSize, Size

LEMMA NodeType ==
    /\ Masters \subseteq Node /\ Workers \subseteq Node
    /\ Masters \cap Workers = {}
    /\ NoNode \notin Node
    /\ \A n \in Node : n[1] \in Role
    /\ \A n \in Workers : n[2] \in 0 .. MaxWorkers - 1
BY DEF Masters, Workers, Node, NoNode, Role

LEMMA NoIntentType == NoIntent \in Intent
BY ClusterAssumption DEF NoIntent, Intent, Scope, NoNode

LEMMA NoMarkerType == NoMarker \in Marker
BY NoIntentType DEF NoMarker, Marker

LEMMA IdleRunType == IdleRun \in Run
BY NoIntentType, NoMarkerType DEF IdleRun, Run, Stage, Step

\* What moving to the next stage keeps of the run.
LEMMA GoToRun ==
    ASSUME run \in Run, NEW s \in Stage, GoTo(s)
    PROVE  /\ run' \in Run
           /\ run'.stage = s /\ run'.marked = FALSE
           /\ run'.op = run.op /\ run'.target = run.target /\ run'.todo = run.todo
           /\ run'.from = run.from /\ run'.intent = run.intent
BY DEF GoTo, Run

\* Recording a step keeps everything of the run but that it is recorded.
LEMMA MarkType ==
    ASSUME TypeOK, NEW op \in Op, NEW s \in Step, Mark(op, s)
    PROVE  /\ TypeOK'
           /\ marker' = [op |-> op, target |-> run.target, step |-> s, intent |-> run.intent]
           /\ run'.stage = s /\ run.stage = s /\ run.op = op
           /\ run'.op = run.op /\ run'.target = run.target /\ run'.todo = run.todo
           /\ run'.from = run.from /\ run'.intent = run.intent
<1>1. run \in Run /\ run.stage = s /\ run.op = op
  BY DEF TypeOK, Mark, At
<1>2. run' \in Run /\ run'.stage = s /\ run'.op = run.op /\ run'.target = run.target
         /\ run'.todo = run.todo /\ run'.from = run.from /\ run'.intent = run.intent
  BY <1>1 DEF Mark, Run
<1>3. marker' \in Marker
  BY <1>1 DEF Mark, Marker, Run
<1> QED
  BY <1>1, <1>2, <1>3 DEF TypeOK, Mark, infra, kube, boot

\* Leaving a stage out moves on to the next one.
LEMMA PassType ==
    ASSUME TypeOK, NEW op, NEW stage, NEW next \in Stage, Pass(op, stage, next)
    PROVE  /\ TypeOK'
           /\ run'.stage = next /\ run.stage = stage /\ run.op = op
           /\ run'.op = run.op /\ run'.target = run.target /\ run'.todo = run.todo
           /\ run'.from = run.from /\ run'.intent = run.intent
<1>1. run \in Run /\ run.stage = stage /\ run.op = op /\ GoTo(next)
  BY DEF TypeOK, Pass, At
<1> QED
  BY <1>1, GoToRun DEF TypeOK, Pass, files, infra, kube, boot

\* The loop takes a node out of what is left to do, or moves on when none is.
LEMMA PickType ==
    ASSUME TypeOK, NEW op, NEW stage, NEW lead, NEW body \in Stage, NEW after \in Stage,
           PickNext(op, stage, lead, body, after)
    PROVE  /\ TypeOK'
           /\ run.op = op /\ run.stage = stage
           /\ run'.op = run.op /\ run'.from = run.from /\ run'.intent = run.intent
           /\ \/ /\ run'.stage = after /\ run.todo = {} /\ run'.todo = {}
                 /\ run'.target = NoNode
              \/ /\ run'.stage = body /\ run'.target \in run.todo
                 /\ run'.todo = run.todo \ {run'.target}
<1>1. run \in Run /\ run.stage = stage /\ run.op = op /\ run.todo \subseteq Node
  BY DEF TypeOK, PickNext, At, Run
<1>2. CASE run.todo = {} /\ run' = [run EXCEPT !.target = NoNode, !.stage = after]
  <2>1. run' \in Run
    BY <1>1, <1>2 DEF Run
  <2> QED
    BY <1>1, <1>2, <2>1 DEF TypeOK, PickNext, files, infra, kube, boot, Run
<1>3. ASSUME NEW n \in run.todo,
             run' = [run EXCEPT !.target = n, !.todo = @ \ {n}, !.stage = body]
      PROVE  /\ TypeOK'
             /\ run'.op = run.op /\ run'.from = run.from /\ run'.intent = run.intent
             /\ run'.stage = body /\ run'.target \in run.todo
             /\ run'.todo = run.todo \ {run'.target}
  <2>1. run' \in Run
    BY <1>1, <1>3 DEF Run
  <2> QED
    BY <1>1, <1>3, <2>1 DEF TypeOK, PickNext, files, infra, kube, boot, Run
<1> QED
  BY <1>1, <1>2, <1>3 DEF PickNext

\* Completing a run: okdctl.yaml, then tfvars, then the marker.
LEMMA SaveType ==
    ASSUME TypeOK, NEW op, NEW topology \in Topology, NEW next \in Stage,
           SaveConfig(op, topology, next)
    PROVE  /\ TypeOK' /\ run.op = op /\ run.stage = "save"
           /\ run'.stage = next
           /\ run'.op = run.op /\ run'.target = run.target /\ run'.todo = run.todo
           /\ run'.from = run.from /\ run'.intent = run.intent
<1>1. run \in Run /\ run.stage = "save" /\ run.op = op /\ GoTo(next)
  BY DEF TypeOK, SaveConfig, At
<1> QED
  BY <1>1, GoToRun DEF TypeOK, SaveConfig, infra, kube, boot

LEMMA RenderType ==
    ASSUME TypeOK, NEW op, NEW next \in Stage, RenderTfvars(op, next)
    PROVE  /\ TypeOK' /\ run.op = op /\ run.stage = "render"
           /\ run'.stage = next
           /\ run'.op = run.op /\ run'.target = run.target /\ run'.todo = run.todo
           /\ run'.from = run.from /\ run'.intent = run.intent
<1>1. run \in Run /\ run.stage = "render" /\ run.op = op /\ GoTo(next)
  BY DEF TypeOK, RenderTfvars, At
<1> QED
  BY <1>1, GoToRun DEF TypeOK, RenderTfvars, infra, kube, boot

LEMMA ClearType ==
    ASSUME TypeOK, NEW op, ClearMarker(op)
    PROVE  /\ TypeOK' /\ run.op = op /\ run.stage = "clear"
           /\ run'.stage = "done"
           /\ run'.op = run.op /\ run'.target = run.target /\ run'.todo = run.todo
           /\ run'.from = run.from /\ run'.intent = run.intent
<1>1. run \in Run /\ run.stage = "clear" /\ run.op = op /\ GoTo("done")
  BY DEF TypeOK, ClearMarker, At
<1>2. "done" \in Stage
  BY DEF Stage
<1>3. marker' \in Marker /\ faults' \in Nat
  BY NoMarkerType DEF ClearMarker, TypeOK
<1> QED
  BY <1>1, <1>2, <1>3, GoToRun DEF TypeOK, ClearMarker, infra, kube, boot

\* A gated apply leaves sized VMs and typed guests.
LEMMA ApplyType ==
    ASSUME TypeOK, NEW n \in Node, NEW want, NEW w \in Size \cup {Absent},
           TargetedApply(n, want, w)
    PROVE  vm' \in [Node -> Size \cup {Absent}]
           /\ guest' \in [Node -> [power : {"off", "booting", "up"},
                                   mem : Memory \cup {0}, disk : Disk \cup {0}]]
<1>1. w.mem \in Memory \cup {0} /\ w.disk \in Disk \cup {0}
  BY DEF Size, Absent
<1>2. vm' \in [Node -> Size \cup {Absent}]
  BY DEF TypeOK, TargetedApply, Absent
<1>3. guest' \in [Node -> [power : {"off", "booting", "up"},
                           mem : Memory \cup {0}, disk : Disk \cup {0}]]
  BY <1>1 DEF TypeOK, TargetedApply
<1> QED
  BY <1>2, <1>3

LEMMA PowerOnType ==
    ASSUME TypeOK, NEW n \in Node, PowerOn(n)
    PROVE  guest' \in [Node -> [power : {"off", "booting", "up"},
                                mem : Memory \cup {0}, disk : Disk \cup {0}]]
<1> DEFINE G == [power : {"off", "booting", "up"},
                 mem : Memory \cup {0}, disk : Disk \cup {0}]
           g == [guest[n] EXCEPT
                   !.power = IF @ = "off" THEN "booting" ELSE @,
                   !.mem = IF guest[n].power = "off" THEN vm[n].mem ELSE @]
<1>1. vm[n].mem \in Memory \cup {0}
  BY DEF TypeOK, Size, Absent
<1>2. guest \in [Node -> G] /\ guest[n] \in G
  BY DEF TypeOK
<1>3. g \in G
  BY <1>1, <1>2
<1>4. guest' = [guest EXCEPT ![n] = g]
  BY <1>2 DEF PowerOn
<1> QED
  BY <1>2, <1>3, <1>4

-----------------------------------------------------------------------------
(* Resize keeps the types *)

LEMMA ResizeStepsAreSteps == ResizeSteps \subseteq Step /\ AddSteps \subseteq Step /\ RemoveSteps \subseteq Step
BY DEF ResizeSteps, AddSteps, RemoveSteps, Step

LEMMA WantedType ==
    ASSUME TInv, run.op = "resize", run.target \in Node
    PROVE  WantedHere \in Size
<1>1. run.intent \in Intent /\ run.intent.mem \in Memory
  BY DEF TInv, TypeOK, Run, ResizeShape
<1>2. run.intent.askDisk \in Disk \cup {0} /\ \A d \in Disk : d > 0
  BY <1>1, SizeAssumption DEF Intent
<1>3. tfvars.size[run.target[1]].disk \in Disk
  BY NodeType DEF TInv, TypeOK, Topology, Size
<1> QED
  BY <1>1, <1>2, <1>3 DEF WantedHere, Wanted, Size

LEMMA ResizeType == TInv /\ ResizeStep => TInv'
<1> SUFFICES ASSUME TInv, ResizeStep PROVE TInv'
  OBVIOUS
<1> USE DEF TInv
<1>0. /\ run \in Run /\ run.op = "resize"
      /\ run.stage \in ResizeStages
      /\ ResizeStages \subseteq Stage
  <2>1. run.op = "resize"
    BY DEF ResizeStep, ResizeMark, ResizePass, Mark, Pass, ResizeProbe, ResizePreGate,
           ResizeCordon, ResizeDrain, ResizeApply, ResizePowerOff, ResizePowerOn,
           ResizeWaitReady, ResizeGrowDisk, ResizePostGate, ResizeUncordon, ResizeNext,
           PickNext, ResizeSave, SaveConfig, ResizeRender, RenderTfvars, ResizeClear,
           ClearMarker, Doing, At
  <2> QED
    BY <2>1 DEF TypeOK, ResizeShape, ResizeStages, ResizeSteps, Stage, Step
\* A step that goes to stage s of resize, at the same node.
<1>a. ASSUME NEW s \in ResizeStages, GoTo(s),
             s \in {"next", "save", "render", "clear", "done"} \/ run.target \in Node
      PROVE  run' \in Run /\ ResizeShape' /\ AddShape' /\ RemoveShape'
  BY <1>0, <1>a, GoToRun DEF ResizeShape, AddShape, RemoveShape
<1>1. CASE ResizeMark
  <2>1. PICK s \in ResizeSteps : Mark("resize", s)
    BY <1>1 DEF ResizeMark
  <2> QED
    BY <2>1, <1>0, MarkType, ResizeStepsAreSteps
    DEF Op, ResizeShape, AddShape, RemoveShape
<1>2. CASE ResizePass
  <2>1. PICK s \in ResizeSteps : Pass("resize", s, AfterStep(s))
    BY <1>2 DEF ResizePass
  <2>2. AfterStep(s) \in ResizeStages
    BY DEF AfterStep, ResizeSteps, ResizeStages
  <2>3. run.target \in Node
    BY <2>1, <1>0 DEF Pass, At, ResizeSteps, ResizeShape
  <2> QED
    BY <2>1, <2>2, <2>3, <1>0, PassType DEF ResizeShape, AddShape, RemoveShape
<1>3. CASE ResizeProbe \/ ResizePreGate \/ ResizeWaitReady \/ ResizePostGate
  <2>1. /\ run.target \in Node
        /\ \E s \in {"next", "pre-gate", "cordon", "disk-grow", "uncordon"} : GoTo(s)
    BY <1>3, <1>0 DEF ResizeProbe, ResizePreGate, ResizeWaitReady, ResizePostGate, At, ResizeShape
  <2>2. UNCHANGED <<files, infra, kube, iso, ignition, faults>> /\ misled' \subseteq Node
    BY <1>0, <1>3 DEF ResizeProbe, ResizePreGate, ResizeWaitReady, ResizePostGate, Count, boot, TypeOK
  <2> QED
    BY <2>1, <2>2, <1>a DEF ResizeStages, ResizeSteps, TypeOK, files, infra, kube, boot
<1>4. CASE ResizeCordon \/ ResizeDrain \/ ResizeUncordon
  <2>1. /\ run.target \in Node
        /\ \E s \in {"next", "drain", "tf-apply"} : GoTo(s)
        /\ cordoned' \subseteq Node /\ drained' \subseteq Node
    BY <1>4, <1>0 DEF ResizeCordon, ResizeDrain, ResizeUncordon, Doing, At, ResizeShape, TypeOK
  <2>2. UNCHANGED <<files, infra, registered, ready, boot, faults>>
    BY <1>4 DEF ResizeCordon, ResizeDrain, ResizeUncordon
  <2> QED
    BY <2>1, <2>2, <1>a DEF ResizeStages, ResizeSteps, TypeOK, files, infra, boot
<1>5. CASE ResizeApply
  <2>1. run.target \in Node /\ GoTo("power-cycle")
    BY <1>5, <1>0 DEF ResizeApply, Doing, At, ResizeShape
  <2>2. TargetedApply(run.target, "update", WantedHere) /\ WantedHere \in Size
    BY <1>5, <1>0, <2>1, WantedType DEF ResizeApply
  <2> QED
    BY <1>5, <2>1, <2>2, <1>a, ApplyType
    DEF ResizeApply, ResizeStages, ResizeSteps, TypeOK, files, kube, boot
<1>6. CASE ResizePowerOff
  <2>1. run.target \in Node
    BY <1>6, <1>0 DEF ResizePowerOff, Doing, At, ResizeShape
  <2>2. ready' \subseteq Node
    BY <1>6 DEF ResizePowerOff, PowerOff, Withdrawn, TypeOK
  <2> QED
    BY <1>6, <1>0, <2>1, <2>2 DEF ResizePowerOff, PowerOff, TypeOK, files, boot,
       ResizeShape, AddShape, RemoveShape
<1>7. CASE ResizePowerOn
  <2>1. run.target \in Node /\ GoTo("wait-ready")
    BY <1>7, <1>0 DEF ResizePowerOn, Doing, At, ResizeShape
  <2>3. guest' \in [Node -> [power : {"off", "booting", "up"},
                             mem : Memory \cup {0}, disk : Disk \cup {0}]]
    BY <1>7, <2>1, PowerOnType DEF ResizePowerOn
  <2> QED
    BY <1>7, <2>1, <2>3, <1>a DEF ResizePowerOn, ResizeStages, TypeOK, files, kube, boot
<1>8. CASE ResizeGrowDisk
  <2>1. run.target \in Node /\ GoTo("post-gate")
    BY <1>8, <1>0 DEF ResizeGrowDisk, Doing, At, ResizeShape
  <2>2. vm[run.target].disk \in Disk \cup {0}
    BY <2>1 DEF TypeOK, Size, Absent
  <2> QED
    BY <1>8, <2>1, <2>2, <1>a DEF ResizeGrowDisk, ResizeStages, TypeOK, files, kube, boot
<1>9. CASE ResizeNext
  <2>1. PickNext("resize", "next", "master", "probe", "save")
    BY <1>9 DEF ResizeNext
  <2>2. "probe" \in Stage /\ "save" \in Stage /\ run.todo \subseteq Node
    BY <1>0 DEF Stage, Run
  <2>3. /\ TypeOK' /\ run'.op = "resize" /\ run'.intent = run.intent
        /\ run'.stage = "save" \/ (run'.stage = "probe" /\ run'.target \in Node)
    BY <2>1, <2>2, <1>0, PickType
  <2> QED
    BY <2>3, <1>0 DEF ResizeShape, AddShape, RemoveShape, ResizeStages
<1>10. CASE ResizeSave
  <2> DEFINE role == run.intent.scope[1]
             disk == IF run.intent.askDisk > 0 THEN run.intent.askDisk
                     ELSE config.size[role].disk
  <2>0. role \in Role /\ run.intent.mem \in Memory /\ run.intent.askDisk \in Disk \cup {0}
    BY <1>0 DEF ResizeShape, Run, Intent
  <2>a. disk \in Disk
    BY <2>0, SizeAssumption DEF TypeOK, Topology, Size
  <2>b. [mem |-> run.intent.mem, disk |-> disk] \in Size
    BY <2>0, <2>a DEF Size
  <2>1. Resized(config, run.intent) \in Topology
    BY <2>0, <2>b DEF Resized, Topology, TypeOK
  <2> QED
    BY <1>10, <1>0, <2>1, SaveType DEF ResizeSave, ResizeStages, Stage,
       ResizeShape, AddShape, RemoveShape
<1>11. CASE ResizeRender \/ ResizeClear
  BY <1>11, <1>0, RenderType, ClearType DEF ResizeRender, ResizeClear, ResizeStages, Stage,
     ResizeShape, AddShape, RemoveShape
<1> QED
  BY <1>1, <1>2, <1>3, <1>4, <1>5, <1>6, <1>7, <1>8, <1>9, <1>10, <1>11 DEF ResizeStep

-----------------------------------------------------------------------------
(* Add, remove, stop and start keep the types *)

LEMMA AddType == TInv /\ AddStep => TInv'
<1> SUFFICES ASSUME TInv, AddStep PROVE TInv'
  OBVIOUS
<1> USE DEF TInv
<1>0. /\ run \in Run /\ run.op = "add" /\ run.todo \subseteq Workers
      /\ run.stage \in AddStages
      /\ run.intent \in Intent /\ run.intent.start + run.intent.count =< MaxWorkers
      /\ AddStages \subseteq Stage
  <2>1. run.op = "add"
    BY DEF AddStep, AddMarkWindow, AddRevive, AddNext, PickNext, AddMark, AddPass, Mark, Pass,
           AddBuildISO, AddUploadISO, AddApply, AddApproveCSR, AddJoined, AddSave, SaveConfig,
           AddRender, RenderTfvars, AddClear, ClearMarker, Doing, At
  <2> QED
    BY <2>1 DEF TypeOK, AddShape, AddStages, AddSteps, Stage, Step, Run
\* A step that goes to stage s of add, at the same node.
<1>a. ASSUME NEW s \in AddStages, GoTo(s), s \notin AddSteps \/ run.target \in Workers
      PROVE  run' \in Run /\ ResizeShape' /\ AddShape' /\ RemoveShape'
  BY <1>0, <1>a, GoToRun DEF ResizeShape, AddShape, RemoveShape
<1>b. Workers \subseteq Node
  BY NodeType
<1>1. CASE AddMarkWindow
  <2>1. run.intent.start \in 0 .. MaxWorkers
    BY <1>0 DEF Intent
  <2>2. <<"worker", run.intent.start>> \in Node \cup {NoNode}
    \* A batch is not empty, so its first index is below MaxWorkers.
    <3>1. run.intent.start < MaxWorkers
      BY <1>0, <2>1, ClusterAssumption DEF AddShape, Intent
    <3> QED
      BY <3>1, <2>1, ClusterAssumption DEF Node, Workers
  <2>3. marker' \in Marker
    BY <1>1, <1>0, <2>2 DEF AddMarkWindow, Marker, Op, Step
  <2>4. run' \in Run
    BY <1>1, <1>0 DEF AddMarkWindow, Run
  <2> QED
    BY <1>1, <1>0, <2>3, <2>4 DEF AddMarkWindow, TypeOK, infra, kube, boot, Run,
       ResizeShape, AddShape, RemoveShape
<1>2. CASE AddRevive
  <2>1. GoTo("next") /\ ignition' \in BOOLEAN /\ UNCHANGED <<files, infra, kube, iso, misled, faults>>
    BY <1>2 DEF AddRevive
  <2> QED
    BY <2>1, <1>a DEF AddStages, AddSteps, TypeOK, files, infra, kube
<1>3. CASE AddNext
  <2>1. PickNext("add", "next", "worker", "build-iso", "save")
    BY <1>3 DEF AddNext
  <2>2. "build-iso" \in Stage /\ "save" \in Stage
    BY DEF Stage, Step
  <2>3. /\ TypeOK' /\ run'.op = "add" /\ run'.intent = run.intent
        /\ run'.todo \subseteq Workers
        /\ run'.stage = "save" \/ (run'.stage = "build-iso" /\ run'.target \in Workers)
    BY <2>1, <2>2, <1>0, PickType
  <2> QED
    BY <2>3, <1>0 DEF ResizeShape, AddShape, RemoveShape, AddStages, AddSteps
<1>4. CASE AddMark
  <2>1. PICK s \in AddSteps : Mark("add", s)
    BY <1>4 DEF AddMark
  <2> QED
    BY <2>1, <1>0, MarkType, ResizeStepsAreSteps
    DEF Op, ResizeShape, AddShape, RemoveShape
<1>5. CASE AddPass
  <2>1. PICK s \in AddSteps : Pass("add", s, AfterAddStep(s))
    BY <1>5 DEF AddPass
  <2>2. AfterAddStep(s) \in AddStages
    BY DEF AfterAddStep, AddSteps, AddStages
  <2>3. run.target \in Workers
    BY <2>1, <1>0 DEF Pass, At, AddShape
  <2> QED
    BY <2>1, <2>2, <2>3, <1>0, PassType DEF ResizeShape, AddShape, RemoveShape
<1>6. CASE AddBuildISO \/ AddUploadISO
  <2>1. /\ run.target \in Workers
        /\ \E s \in {"upload-iso", "tf-apply"} : GoTo(s)
        /\ iso' \in [Workers -> {"none", "built", "uploaded"}]
    BY <1>6, <1>0 DEF AddBuildISO, AddUploadISO, Doing, At, AddShape, AddSteps, TypeOK
  <2>2. UNCHANGED <<files, infra, kube, ignition, misled, faults>>
    BY <1>6 DEF AddBuildISO, AddUploadISO
  <2> QED
    BY <2>1, <2>2, <1>a DEF AddStages, AddSteps, TypeOK, files, infra, kube
<1>7. CASE AddApply
  <2>1. run.target \in Workers /\ GoTo("wait-join")
    BY <1>7, <1>0 DEF AddApply, Doing, At, AddShape, AddSteps
  <2>2. tfvars.size["worker"] \in Size
    BY DEF TypeOK, Topology, Role
  <2> QED
    BY <1>7, <2>1, <2>2, <1>a, <1>b, ApplyType
    DEF AddApply, AddStages, AddSteps, TypeOK, files, kube, boot
<1>8. CASE AddApproveCSR
  <2>1. run.target \in Node
    BY <1>8, <1>0, <1>b DEF AddApproveCSR, Doing, At, AddShape, AddSteps
  <2> QED
    BY <1>8, <2>1, <1>0 DEF AddApproveCSR, TypeOK, files, infra, boot,
       ResizeShape, AddShape, RemoveShape
<1>9. CASE AddJoined
  BY <1>9, <1>a DEF AddJoined, AddStages, AddSteps, TypeOK, files, infra, kube, boot
<1>10. CASE AddSave
  <2>1. run.intent.start + run.intent.count \in 0 .. MaxWorkers
    BY <1>0, ClusterAssumption DEF Intent
  <2>2. [config EXCEPT !.workers = run.intent.start + run.intent.count] \in Topology
    BY <2>1 DEF TypeOK, Topology
  <2> QED
    BY <1>10, <1>0, <2>2, SaveType DEF AddSave, AddStages, AddSteps, Stage,
       ResizeShape, AddShape, RemoveShape
<1>11. CASE AddRender \/ AddClear
  BY <1>11, <1>0, RenderType, ClearType DEF AddRender, AddClear, AddStages, AddSteps, Stage,
     ResizeShape, AddShape, RemoveShape
<1> QED
  BY <1>1, <1>2, <1>3, <1>4, <1>5, <1>6, <1>7, <1>8, <1>9, <1>10, <1>11 DEF AddStep

LEMMA RemoveType == TInv /\ RemoveStep => TInv'
<1> SUFFICES ASSUME TInv, RemoveStep PROVE TInv'
  OBVIOUS
<1> USE DEF TInv
<1>0. /\ run \in Run /\ run.op = "remove" /\ run.todo \subseteq Workers
      /\ run.stage \in RemoveStages
      /\ RemoveStages \subseteq Stage
  <2>1. run.op = "remove"
    BY DEF RemoveStep, RemoveNext, PickNext, RemoveMark, RemovePass, Mark, Pass, RemoveCordon,
           RemoveDrain, RemoveApply, RemoveSave, SaveConfig, RemoveRender, RenderTfvars,
           RemoveDeleteNode, RemoveClear, ClearMarker, Doing, At
  <2> QED
    BY <2>1 DEF TypeOK, RemoveShape, RemoveStages, RemoveSteps, Stage, Step
<1>a. ASSUME NEW s \in RemoveStages, GoTo(s),
             s \in {"next", "clear", "done"} \/ run.target \in Workers
      PROVE  run' \in Run /\ ResizeShape' /\ AddShape' /\ RemoveShape'
  BY <1>0, <1>a, GoToRun DEF ResizeShape, AddShape, RemoveShape
<1>b. Workers \subseteq Node
  BY NodeType
<1>1. CASE RemoveNext
  <2>1. PickNext("remove", "next", "worker", "cordon", "clear")
    BY <1>1 DEF RemoveNext
  <2>2. "cordon" \in Stage /\ "clear" \in Stage
    BY DEF Stage, Step
  <2>3. /\ TypeOK' /\ run'.op = "remove"
        /\ run'.todo \subseteq Workers
        /\ run'.stage = "clear" \/ (run'.stage = "cordon" /\ run'.target \in Workers)
    BY <2>1, <2>2, <1>0, PickType
  <2> QED
    BY <2>3 DEF ResizeShape, AddShape, RemoveShape, RemoveStages, RemoveSteps
<1>2. CASE RemoveMark
  <2>1. PICK s \in RemoveSteps : Mark("remove", s)
    BY <1>2 DEF RemoveMark
  <2> QED
    BY <2>1, <1>0, MarkType, ResizeStepsAreSteps
    DEF Op, ResizeShape, AddShape, RemoveShape
<1>3. CASE RemovePass
  <2>1. PICK s \in RemoveSteps : Pass("remove", s, AfterRemoveStep(s))
    BY <1>3 DEF RemovePass
  <2>2. AfterRemoveStep(s) \in RemoveStages
    BY DEF AfterRemoveStep, RemoveSteps, RemoveStages
  <2>3. run.target \in Workers
    BY <2>1, <1>0 DEF Pass, At, RemoveSteps, RemoveShape
  <2> QED
    BY <2>1, <2>2, <2>3, <1>0, PassType DEF ResizeShape, AddShape, RemoveShape
<1>4. CASE RemoveCordon \/ RemoveDrain \/ RemoveDeleteNode
  <2>1. /\ run.target \in Workers
        /\ \E s \in {"next", "drain", "tf-apply"} : GoTo(s)
        /\ cordoned' \subseteq Node /\ drained' \subseteq Node
        /\ registered' \subseteq Node /\ ready' \subseteq Node
    BY <1>4, <1>0, <1>b DEF RemoveCordon, RemoveDrain, RemoveDeleteNode, Doing, At,
       RemoveShape, TypeOK
  <2>2. UNCHANGED <<files, infra, boot, faults>>
    BY <1>4 DEF RemoveCordon, RemoveDrain, RemoveDeleteNode
  <2> QED
    BY <2>1, <2>2, <1>a DEF RemoveStages, RemoveSteps, TypeOK, files, infra, boot
<1>5. CASE RemoveApply
  <2>1. run.target \in Workers /\ GoTo("save") /\ ready' \subseteq Node
    BY <1>5, <1>0 DEF RemoveApply, Doing, At, RemoveShape, Withdrawn, TypeOK
  <2> QED
    BY <1>5, <2>1, <1>a, <1>b, ApplyType DEF RemoveApply, RemoveStages, TypeOK, files, boot
<1>6. CASE RemoveSave
  <2>1. run.target \in Workers
    BY <1>6, <1>0 DEF RemoveSave, SaveConfig, At, RemoveShape
  <2>2. run.target[2] \in 0 .. MaxWorkers
    BY <2>1, NodeType, ClusterAssumption
  <2>3. [config EXCEPT !.workers = run.target[2]] \in Topology
    BY <2>2 DEF TypeOK, Topology
  <2> QED
    BY <1>6, <1>0, <2>1, <2>3, SaveType DEF RemoveSave, RemoveStages, Stage,
       ResizeShape, AddShape, RemoveShape
<1>7. CASE RemoveRender
  <2>1. "delete-node" \in Stage
    BY DEF Stage, Step
  <2> QED
    BY <2>1, <1>7, <1>0, RenderType DEF RemoveRender, RemoveStages, RemoveSteps,
       ResizeShape, AddShape, RemoveShape
<1>8. CASE RemoveClear
  BY <1>8, <1>0, ClearType DEF RemoveClear, RemoveStages, RemoveSteps,
     ResizeShape, AddShape, RemoveShape
<1> QED
  BY <1>1, <1>2, <1>3, <1>4, <1>5, <1>6, <1>7, <1>8 DEF RemoveStep

LEMMA PowerType == TInv /\ PowerStep => TInv'
<1> SUFFICES ASSUME TInv, PowerStep PROVE TInv'
  OBVIOUS
<1> USE DEF TInv
<1>0. run \in Run /\ run.op \in {"stop", "start"} /\ registered \subseteq Node
  BY DEF PowerStep, StopList, StopCordonAll, StopCordoned, StopNext, PickNext, StopMark, Mark,
         StopShutdown, StopClear, StartList, StartMark, StartPowerOn, StartPoweredOn, StartWait,
         StartUncordonAll, StartUncordoned, StartClear, ClearMarker, Doing, At, TypeOK
\* A step of stop or start is of no other operation's shape.
<1>a. ASSUME run'.op = run.op PROVE ResizeShape' /\ AddShape' /\ RemoveShape'
  BY <1>0, <1>a DEF ResizeShape, AddShape, RemoveShape
<1>b. ASSUME NEW s \in Stage, GoTo(s) PROVE run' \in Run /\ run'.op = run.op
  BY <1>0, <1>b, GoToRun
<1>1. CASE StopList \/ StopCordoned \/ StartList \/ StartWait
  <2>1. Configured \subseteq Node
    BY NodeType DEF Configured
  <2>2. run' \in Run /\ run'.op = run.op
    BY <1>1, <1>0, <2>1 DEF StopList, StopCordoned, StartList, StartWait, Run, Stage, Step
  <2>3. UNCHANGED <<files, infra, kube, iso, ignition, faults>> /\ misled' \subseteq Node
    BY <1>0, <1>1 DEF StopList, StopCordoned, StartList, StartWait, Count, boot, TInv, TypeOK
  <2> QED
    BY <2>2, <2>3, <1>a DEF TypeOK, files, infra, kube, boot
<1>2. CASE StopCordonAll \/ StartUncordonAll
  <2>1. run.todo \subseteq Node
    BY <1>0 DEF Run
  <2>2. /\ run' \in Run /\ run'.op = run.op
        /\ cordoned' \subseteq Node /\ drained' \subseteq Node
    BY <1>2, <1>0, <2>1 DEF StopCordonAll, StartUncordonAll, Run, TypeOK
  <2>3. UNCHANGED <<files, infra, registered, ready, boot, faults>>
    BY <1>2 DEF StopCordonAll, StartUncordonAll
  <2> QED
    BY <2>2, <2>3, <1>a DEF TypeOK, files, infra, boot
<1>3. CASE StopNext
  <2>1. "shutdown" \in Stage /\ "clear" \in Stage
    BY DEF Stage, Step
  <2> QED
    BY <2>1, <1>3, <1>a, PickType DEF StopNext
<1>4. CASE StopMark \/ StartMark
  <2>1. /\ "shutdown" \in Step /\ "power-on" \in Step
        /\ "stop" \in Op /\ "start" \in Op
    BY DEF Step, Op
  <2> QED
    BY <2>1, <1>4, <1>a, MarkType DEF StopMark, StartMark
<1>5. CASE StopShutdown
  <2>1. GoTo("next") /\ "next" \in Stage
    BY <1>5 DEF StopShutdown, Stage
  <2>2. /\ ready' \subseteq Node
        /\ guest' \in [Node -> [power : {"off", "booting", "up"},
                                mem : Memory \cup {0}, disk : Disk \cup {0}]]
    BY <1>5 DEF StopShutdown, PowerOff, Withdrawn, TypeOK
  <2> QED
    BY <1>5, <2>1, <2>2, <1>a, <1>b DEF StopShutdown, TypeOK, files, boot
<1>6. CASE StartPowerOn
  <2>1. PICK n \in run.todo : PowerOn(n) /\ run' = [run EXCEPT !.todo = @ \ {n}]
    BY <1>6 DEF StartPowerOn
  <2>2. n \in Node /\ run' \in Run /\ run'.op = run.op
    BY <2>1, <1>0 DEF Run
  <2>4. guest' \in [Node -> [power : {"off", "booting", "up"},
                             mem : Memory \cup {0}, disk : Disk \cup {0}]]
    BY <2>1, <2>2, PowerOnType
  <2> QED
    BY <1>6, <2>2, <2>4, <1>a DEF StartPowerOn, TypeOK, files, kube, boot
<1>7. CASE StartPoweredOn \/ StartUncordoned
  <2>1. \E s \in {"cluster-ready", "clear"} : GoTo(s)
    BY <1>7 DEF StartPoweredOn, StartUncordoned
  <2>2. UNCHANGED <<files, infra, kube, boot, faults>>
    BY <1>7 DEF StartPoweredOn, StartUncordoned
  <2> QED
    BY <2>1, <2>2, <1>a, <1>b DEF Stage, TypeOK, files, infra, kube, boot
<1>8. CASE StopClear \/ StartClear
  BY <1>8, <1>a, ClearType DEF StopClear, StartClear
<1> QED
  BY <1>1, <1>2, <1>3, <1>4, <1>5, <1>6, <1>7, <1>8 DEF PowerStep

-----------------------------------------------------------------------------
(* Beginning and ending an operation keep the types *)

LEMMA StartedType ==
    ASSUME TypeOK, NEW op \in Op, NEW stage \in Stage, NEW todo \in SUBSET Node,
           NEW from \in {NoMarker, marker}, NEW intent \in Intent,
           Started(op, stage, todo, from, intent)
    PROVE  /\ run' \in Run
           /\ run'.op = op /\ run'.stage = stage /\ run'.todo = todo
           /\ run'.from = from /\ run'.intent = intent /\ run'.target = NoNode
BY NoMarkerType DEF Started, Run, TypeOK

LEMMA BeginType == TInv /\ Begin => TInv'
<1> SUFFICES ASSUME TInv, Begin PROVE TInv'
  OBVIOUS
<1> USE DEF TInv
<1>0. "next" \in Stage /\ "ignition-up" \in Stage /\ "probe" \in Stage
  BY DEF Stage, Step
<1>1. CASE BeginResize
  <2>1. PICK q \in ResizeRequests, ack \in Acks : ResizeBegin(q, ack)
    BY <1>1 DEF BeginResize
  <2> DEFINE intent == ResizeIntent(q)
             todo == ResizeTargets(q.scope)
  <2>2. /\ q.scope \in Node \cup (Role \X {-1})
        /\ q.mem \in Memory \cup {0} /\ q.disk \in Disk \cup {0}
        /\ q.skipDrain \in BOOLEAN
    BY ResizeAssumption
  <2>3. q.scope[1] \in Role /\ q.scope \in Scope
    BY <2>2, NodeType DEF Scope
  <2>4. config.size[q.scope[1]] \in Size
    BY <2>3 DEF TypeOK, Topology
  <2>5. /\ intent \in Intent /\ intent.scope = q.scope /\ intent.mem \in Memory
    <3> HIDE DEF todo
    <3>1. /\ (IF q.mem > 0 THEN q.mem ELSE config.size[q.scope[1]].mem) \in Memory
          /\ (IF q.disk > 0 THEN q.disk ELSE config.size[q.scope[1]].disk) \in Disk
      BY <2>2, <2>4, SizeAssumption DEF Size
    <3> QED
      BY <3>1, <2>2, <2>3, NoIntentType DEF ResizeIntent, Intent
  <2>6. todo \in SUBSET Node
    BY DEF ResizeTargets, TypeOK
  <2>7. PICK from \in {NoMarker, marker} :
            /\ marker' \in {NoMarker, marker}
            /\ Started("resize", "next", todo, from, intent)
    BY <2>1 DEF ResizeBegin, BeginOp
  <2>8. /\ run' \in Run /\ run'.op = "resize" /\ run'.stage = "next"
        /\ run'.intent = intent
    <3> HIDE DEF todo, intent
    <3> QED
      BY <1>0, <2>5, <2>6, <2>7, StartedType DEF Op
  <2>9. UNCHANGED <<config, tfvars, infra, kube, boot, faults>>
    BY <2>1 DEF ResizeBegin
  <2>10. TypeOK'
    BY <2>7, <2>8, <2>9, NoMarkerType DEF TypeOK, infra, kube, boot
  <2>11. ResizeShape'
    <3> HIDE DEF intent
    <3> QED
      BY <2>3, <2>5, <2>8 DEF ResizeShape, ResizeStages
  <2> QED
    BY <2>8, <2>10, <2>11 DEF AddShape, RemoveShape
<1>2. CASE BeginAdd
  <2>1. PICK count \in AddCounts, ack \in Acks : AddBegin(count, ack)
    BY <1>2 DEF BeginAdd
  <2> DEFINE start == AddStart(count)
             intent == AddIntent(start, count)
  <2>2. start \in 0 .. MaxWorkers
    BY ClusterAssumption DEF AddStart, TypeOK, Topology, Marker, Intent
  <2>3. count \in Nat \ {0} /\ start + count =< MaxWorkers /\ count \in 0 .. MaxWorkers
    <3>1. count \in Nat \ {0} /\ start + count =< MaxWorkers
      BY <2>1, AddAssumption DEF AddBegin
    <3> HIDE DEF start
    <3> QED
      BY <3>1, <2>2, ClusterAssumption
  <2>4. /\ intent \in Intent /\ intent.start = start /\ intent.count = count
    <3>1. config.size["worker"] \in Size
      BY DEF TypeOK, Topology, Role
    <3>2. <<"worker", -1>> \in Scope
      BY DEF Scope, Role
    <3> HIDE DEF start
    <3> QED
      BY <3>1, <3>2, <2>2, <2>3, NoIntentType DEF AddIntent, Intent, Size
  <2>5. PICK from \in {NoMarker, marker} :
            /\ marker' \in {NoMarker, marker}
            /\ Started("add", "ignition-up", Remaining(Batch(start, count), from), from, intent)
    BY <2>1 DEF AddBegin, BeginOp
  <2>6. Remaining(Batch(start, count), from) \subseteq Workers
    <3>1. Batch(start, count) \subseteq Workers
      BY <2>2, <2>3, ClusterAssumption DEF Batch, Workers
    <3> QED
      BY <3>1 DEF Remaining
  <2>7. /\ run' \in Run /\ run'.op = "add" /\ run'.stage = "ignition-up"
        /\ run'.intent = intent /\ run'.todo \subseteq Workers
    <3> DEFINE todo == Remaining(Batch(start, count), from)
    <3>1. todo \in SUBSET Node /\ todo \subseteq Workers
      BY <2>6, NodeType
    <3> HIDE DEF todo, intent, start
    <3>2. Started("add", "ignition-up", todo, from, intent)
      BY <2>5 DEF todo
    <3>3. from \in {NoMarker, marker} /\ "add" \in Op /\ intent \in Intent
      BY <2>4 DEF Op
    <3> QED
      BY <1>0, <3>1, <3>2, <3>3, StartedType
  <2>8. UNCHANGED <<config, tfvars, infra, kube, boot, faults>>
    BY <2>1 DEF AddBegin
  <2>9. TypeOK'
    BY <2>5, <2>7, <2>8, NoMarkerType DEF TypeOK, infra, kube, boot
  <2>10. AddShape'
    <3> HIDE DEF intent, start
    <3> QED
      BY <2>3, <2>4, <2>7 DEF AddShape, AddStages, AddSteps
  <2> QED
    BY <2>7, <2>9, <2>10 DEF ResizeShape, RemoveShape
<1>3. CASE BeginRemove
  <2>1. PICK n \in Workers, skipDrain \in RemoveRequests, ack \in Acks :
            RemoveBegin(n, skipDrain, ack)
    BY <1>3 DEF BeginRemove
  <2> DEFINE intent == RemoveIntent(n, skipDrain)
  <2>2. {n} \in SUBSET Node /\ n \in Workers /\ n \in Scope
    BY NodeType DEF Scope
  <2>3. intent \in Intent
    BY <2>2, NoIntentType, RemoveAssumption DEF RemoveIntent, Intent
  <2>4. PICK from \in {NoMarker, marker} :
            /\ marker' \in {NoMarker, marker}
            /\ Started("remove", "next", {n}, from, intent)
    BY <2>1 DEF RemoveBegin, BeginOp
  <2>5. /\ run' \in Run /\ run'.op = "remove" /\ run'.stage = "next"
        /\ run'.todo = {n}
    <3> DEFINE todo == {n}
    <3>1. todo \in SUBSET Node /\ from \in {NoMarker, marker} /\ "remove" \in Op
      BY <2>2 DEF Op
    <3> HIDE DEF todo, intent
    <3>2. Started("remove", "next", todo, from, intent)
      BY <2>4 DEF todo
    <3>3. run' \in Run /\ run'.op = "remove" /\ run'.stage = "next" /\ run'.todo = todo
      BY <1>0, <2>3, <3>1, <3>2, StartedType
    <3> QED
      BY <3>3 DEF todo
  <2>6. UNCHANGED <<config, tfvars, infra, kube, boot, faults>>
    BY <2>1 DEF RemoveBegin
  <2>7. TypeOK'
    BY <2>4, <2>5, <2>6, NoMarkerType DEF TypeOK, infra, kube, boot
  <2> QED
    BY <2>2, <2>5, <2>7 DEF ResizeShape, AddShape, RemoveShape, RemoveStages
<1>4. CASE BeginStop \/ BeginStart
  <2>1. \E op \in {"stop", "start"} :
            /\ Started(op, "probe", {}, NoMarker, NoIntent)
            /\ marker' \in {NoMarker, marker}
            /\ UNCHANGED <<config, tfvars, infra, kube, boot, faults>>
    BY <1>4 DEF BeginStop, BeginStart, StopBegin, StartBegin, RefuseForeignMarker
  <2>2. run' \in Run /\ run'.op \in {"stop", "start"}
    BY <2>1, <1>0, StartedType, NoIntentType DEF Op
  <2> QED
    BY <2>1, <2>2, NoMarkerType DEF TypeOK, infra, kube, boot,
       ResizeShape, AddShape, RemoveShape
<1> QED
  BY <1>1, <1>2, <1>3, <1>4 DEF Begin

\* However a run ends, the files, the VMs and the nodes stay as they are.
LEMMA EndType ==
    ASSUME TInv,
           Return \/ Fail \/ Crash \/ ResizeGivesUp \/ AddGivesUp \/ PowerGivesUp
    PROVE  /\ TInv'
           /\ run' = IdleRun
           /\ UNCHANGED <<files, infra, kube, iso, misled>>
<1>1. run' = IdleRun /\ UNCHANGED <<files, infra, kube, iso, misled>>
  BY DEF Return, Fail, Crash, ResizeGivesUp, AddGivesUp, PowerGivesUp, GiveUp, boot
<1>a. TearDown(0) \/ TearDown(1) \/ (UNCHANGED ignition /\ faults' = faults + 1)
  BY DEF Return, Fail, Crash, ResizeGivesUp, AddGivesUp, PowerGivesUp, GiveUp, boot
<1>2. ignition' \in BOOLEAN /\ faults' \in Nat
  <2>1. ignition \in BOOLEAN /\ faults \in Nat
    BY DEF TInv, TypeOK
  <2>2. faults' \in Nat
    BY <1>a, <2>1 DEF TearDown
  <2>3. ignition' \in BOOLEAN
    BY <1>a, <2>1 DEF TearDown
  <2> QED
    BY <2>2, <2>3
<1>3. TypeOK'
  BY <1>1, <1>2, IdleRunType DEF TInv, TypeOK, files, infra, kube
<1> QED
  BY <1>1, <1>3 DEF IdleRun, TInv, ResizeShape, AddShape, RemoveShape

LEMMA EnvironmentType == TInv /\ Environment => TInv'
<1> SUFFICES ASSUME TInv, NEW n \in Node, Boot(n) \/ ReportStatus(n) PROVE TInv'
  BY DEF Environment
<1>1. CASE Boot(n)
  BY <1>1 DEF Boot, TInv, TypeOK, ResizeShape, AddShape, RemoveShape, files, kube, boot
<1>2. CASE ReportStatus(n)
  BY <1>2 DEF ReportStatus, TInv, TypeOK, ResizeShape, AddShape, RemoveShape, files, infra, boot
<1> QED
  BY <1>1, <1>2

LEMMA InitType == Init => TInv
<1> SUFFICES ASSUME Init PROVE TInv
  OBVIOUS
<1>1. /\ config \in Topology /\ tfvars \in Topology
  BY FirstSizeType, ClusterAssumption DEF Init, Topology
<1>2. registered \subseteq Node /\ ready \subseteq Node
  BY NodeType DEF Init
<1>3. vm \in [Node -> Size \cup {Absent}]
  BY FirstSizeType DEF Init
<1>4. guest \in [Node -> [power : {"off", "booting", "up"},
                          mem : Memory \cup {0}, disk : Disk \cup {0}]]
  <2>1. \A n \in Node : vm[n].mem \in Memory \cup {0} /\ vm[n].disk \in Disk \cup {0}
    BY <1>3 DEF Size, Absent
  <2> QED
    BY <2>1 DEF Init
<1>5. marker \in Marker
  <2>1. \A n \in Workers :
            [op |-> "add", target |-> n, step |-> "wait-join", intent |-> NoIntent] \in Marker
    BY NoIntentType, NodeType DEF Marker, Op, Step
  <2> QED
    BY <2>1, NoMarkerType DEF Init
<1>6. run = IdleRun
  BY DEF Init
<1>7. iso \in [Workers -> {"none", "built", "uploaded"}] /\ ignition \in BOOLEAN
         /\ misled \subseteq Node /\ cordoned \subseteq Node /\ drained \subseteq Node /\ faults \in Nat
  BY DEF Init
<1>8. TypeOK
  BY <1>1, <1>2, <1>3, <1>4, <1>5, <1>6, <1>7, IdleRunType DEF TypeOK
<1> QED
  BY <1>6, <1>8 DEF TInv, IdleRun, ResizeShape, AddShape, RemoveShape

LEMMA TInvStep == TInv /\ [Next]_vars => TInv'
<1> SUFFICES ASSUME TInv, [Next]_vars PROVE TInv'
  OBVIOUS
<1>1. CASE Begin
  BY <1>1, BeginType
<1>2. CASE SweepResidue
  BY <1>2, NoMarkerType DEF SweepResidue, TInv, TypeOK, ResizeShape, AddShape, RemoveShape,
     infra, kube, boot
<1>3. CASE Proceed
  BY <1>3, ResizeType, AddType, RemoveType, PowerType, EndType DEF Proceed
<1>4. CASE Environment
  BY <1>4, EnvironmentType
<1>5. CASE Fail \/ Crash
  BY <1>5, EndType
<1>6. CASE UNCHANGED vars
  BY <1>6 DEF vars, files, infra, kube, boot, TInv, TypeOK, ResizeShape, AddShape, RemoveShape
<1> QED
  BY <1>1, <1>2, <1>3, <1>4, <1>5, <1>6 DEF Next

\* Every variable keeps its type through any sequence of operations, failures
\* and kills: in particular every size terraform or okdctl.yaml is given is one
\* an operator asked for, and no index leaves the range of the topology.
THEOREM TypeCorrect == Spec => []TypeOK
<1>1. Init => TInv
  BY InitType
<1>2. TInv /\ [Next]_vars => TInv'
  BY TInvStep
<1>3. TInv => TypeOK
  BY DEF TInv
<1> QED
  BY <1>1, <1>2, <1>3, PTL DEF Spec

-----------------------------------------------------------------------------
(***************************************************************************)
(* Drained before disrupted.                                               *)
(*                                                                         *)
(* LeftCordoned alone is not inductive: a run that resumes past the drain  *)
(* trusts the marker it started from, long after the file says something   *)
(* else (it rolls other nodes first).  HeldForResume and HeldNow carry the *)
(* promise from the marker to the run and back to the next marker.         *)
(***************************************************************************)
HeldStages == {"tf-apply", "power-cycle", "wait-ready", "disk-grow"}
HoldStages == HeldStages \cup {"probe", "pre-gate", "cordon", "drain"}
DrainsNow == \/ run.op = "resize" /\ Drains(run.intent)
             \/ run.op = "remove" /\ ~run.intent.skipDrain
Released == ResumeStep \in {"uncordon", "delete-node"}
Held == cordoned \cap drained

MarkerShape ==
    /\ marker.op = "resize" => marker.target \in Node /\ marker.step \in ResizeSteps
    /\ marker.op = "remove" => marker.target \in Node /\ marker.step \in RemoveSteps
FromShape ==
    /\ Resuming => run.from.op = run.op /\ run.from.intent = run.intent
    /\ run.from.op = "resize" => run.from.target \in Node /\ run.from.step \in ResizeSteps
    /\ run.from.op = "remove" => run.from.target \in Node /\ run.from.step \in RemoveSteps
TargetTaken == run.op \in {"resize", "remove"} => run.target \notin run.todo
MarkedShape ==
    run.marked /\ run.op \in {"resize", "remove"} =>
        /\ marker.op = run.op /\ marker.step = run.stage /\ marker.target = run.target
        /\ run.op = "resize" => ResizeDue(run.stage)
        /\ run.op = "remove" => RemoveDue(run.stage)
StartMarked ==
    run.op = "start" /\ (run.marked \/ run.stage \in {"cluster-ready", "uncordon-all"}) =>
        marker.op = "start"
\* The node a resume will take up past its drain is still held.
HeldForResume ==
    /\ HeldAt(run.from)
    /\ \/ run.from.target \in run.todo
       \/ run.from.target = run.target /\ run.stage \in HoldStages
    => run.from.target \in Held
\* The node being worked on past its drain is held.
HeldNow == DrainsNow /\ run.stage \in HeldStages /\ ~Released => run.target \in Held

DInv == /\ MarkerShape /\ FromShape /\ TargetTaken /\ MarkedShape /\ StartMarked
        /\ LeftCordoned /\ HeldForResume /\ HeldNow
IInv == TInv /\ DInv

LEMMA StepOrderValues ==
    /\ \A s \in Step : StepOrder[s] =
          CASE s = "ignition-up" -> -4
            [] s = "build-iso"   -> -3
            [] s = "upload-iso"  -> -2
            [] s = "cordon"      -> 0
            [] s = "drain"       -> 1
            [] s = "tf-apply"    -> 2
            [] s = "power-cycle" -> 3
            [] s \in {"disk-grow", "delete-node"} -> 4
            [] s = "uncordon"    -> 5
            [] s = "wait-join"   -> 6
            [] OTHER             -> 0
BY DEF StepOrder

\* Where a resume has passed the drain of the node it names, and where not.
LEMMA PastDrain ==
    ASSUME NEW from \in {"none"} \cup ResizeSteps \cup RemoveSteps
    PROVE  /\ ~ShouldRunStep("drain", from) =>
                  from \in {"tf-apply", "power-cycle", "disk-grow", "uncordon", "delete-node"}
           /\ ShouldRunStep("tf-apply", from) => from \notin {"uncordon", "delete-node"}
           /\ ShouldRunStep("power-cycle", from) => from \notin {"uncordon", "delete-node"}
           /\ ShouldRunStep("disk-grow", from) => from # "uncordon"
<1>1. /\ StepOrder["cordon"] = 0 /\ StepOrder["drain"] = 1 /\ StepOrder["tf-apply"] = 2
      /\ StepOrder["power-cycle"] = 3 /\ StepOrder["disk-grow"] = 4
      /\ StepOrder["delete-node"] = 4 /\ StepOrder["uncordon"] = 5
  BY StepOrderValues DEF Step
<1> QED
  BY <1>1 DEF ShouldRunStep, ResizeSteps, RemoveSteps

\* The resume point of the current node is a step of the operation, or none.
LEMMA ResumeStepType ==
    ASSUME IInv
    PROVE  /\ run.op = "resize" => ResumeStep \in {"none"} \cup ResizeSteps
           /\ run.op = "remove" => ResumeStep \in {"none"} \cup RemoveSteps
           /\ ResumeStep # "none" => run.from.target = run.target /\ ResumeStep = run.from.step
<1>1. ~Resuming => run.from.step = "none"
  BY DEF Resuming, NoMarker
<1> QED
  BY <1>1 DEF IInv, DInv, FromShape, ResumeStep

\* Passing the drain of a node that is to be drained, the node is held already
\* or the resume point has released it.
LEMMA DrainPassed ==
    ASSUME IInv, DrainsNow, run.stage = "drain", ~ShouldRunStep("drain", ResumeStep)
    PROVE  Released \/ run.target \in Held
<1>1. ResumeStep \in {"none"} \cup ResizeSteps \cup RemoveSteps
  BY ResumeStepType DEF DrainsNow
<1>2. ResumeStep \in {"tf-apply", "power-cycle", "disk-grow", "uncordon", "delete-node"}
  BY <1>1, PastDrain
<1>3. run.from.target = run.target /\ ResumeStep = run.from.step
  BY <1>2, ResumeStepType
<1>4. Resuming
  BY <1>2, <1>3 DEF Resuming, NoMarker
<1>5. CASE ~Released
  <2>1. HeldAt(run.from)
    BY <1>2, <1>3, <1>4, <1>5, ResumeStepType
    DEF IInv, DInv, FromShape, HeldAt, DrainsNow, Released, RemoveSteps
  <2> QED
    BY <2>1, <1>3 DEF IInv, DInv, HeldForResume, HoldStages
<1> QED
  BY <1>5

-----------------------------------------------------------------------------
(* The invariant is kept *)

\* A move to another stage, at the same node: what must be shown of the stage.
LEMMA MoveKeeps ==
    ASSUME IInv, NEW s \in Stage, GoTo(s), marker' \in {NoMarker, marker},
           cordoned \subseteq cordoned', drained \subseteq drained',
           run.op = "start" /\ s \in {"cluster-ready", "uncordon-all"} => marker'.op = "start",
           run.op \in {"resize", "remove"} /\ s \in HoldStages => run.stage \in HoldStages,
           DrainsNow /\ s \in HeldStages /\ ~Released =>
               run.stage \in HeldStages \/ run.target \in Held'
    PROVE  DInv'
<1>1. /\ run'.stage = s /\ run'.marked = FALSE
      /\ run'.op = run.op /\ run'.target = run.target /\ run'.todo = run.todo
      /\ run'.from = run.from /\ run'.intent = run.intent
  BY GoToRun DEF IInv, TInv, TypeOK
<1>2. Held \subseteq Held'
  BY DEF Held
<1>3. MarkerShape' /\ LeftCordoned'
  BY <1>2 DEF IInv, DInv, MarkerShape, LeftCordoned, HeldAt, NoMarker, Held
<1>4. FromShape' /\ TargetTaken' /\ MarkedShape' /\ StartMarked'
  BY <1>1 DEF IInv, DInv, FromShape, Resuming, TargetTaken, MarkedShape, StartMarked
<1>5. HeldForResume'
  <2>1. HeldAt(run.from) => run.op \in {"resize", "remove"}
    BY DEF IInv, DInv, FromShape, HeldAt, Resuming, NoMarker
  <2> QED
    BY <1>1, <1>2, <2>1 DEF IInv, DInv, HeldForResume, HeldAt
<1>6. HeldNow'
  <2>1. DrainsNow' <=> DrainsNow
    BY <1>1 DEF DrainsNow
  <2>2. Released' <=> Released
    BY <1>1 DEF Released, ResumeStep
  <2> QED
    BY <1>1, <1>2, <2>1, <2>2 DEF IInv, DInv, HeldNow, HeldStages
<1> QED
  BY <1>3, <1>4, <1>5, <1>6 DEF DInv

\* Recording a step that is due: the promise passes from the run to the marker.
LEMMA MarkKeeps ==
    ASSUME IInv, NEW op \in Op, NEW s \in Step, Mark(op, s),
           op = "resize" => s \in ResizeSteps /\ ResizeDue(s),
           op = "remove" => s \in RemoveSteps /\ RemoveDue(s)
    PROVE  DInv'
<1>1. /\ marker' = [op |-> op, target |-> run.target, step |-> s, intent |-> run.intent]
      /\ run'.stage = s /\ run.stage = s /\ run.op = op
      /\ run'.op = run.op /\ run'.target = run.target /\ run'.todo = run.todo
      /\ run'.from = run.from /\ run'.intent = run.intent
  BY MarkType DEF IInv, TInv
<1>2. cordoned' = cordoned /\ drained' = drained
  BY DEF Mark, kube
<1>3. op \in {"resize", "remove"} => run.target \in Node
  BY <1>1, NodeType DEF IInv, TInv, ResizeShape, RemoveShape, ResizeSteps, RemoveSteps
<1>4. MarkerShape' /\ FromShape' /\ TargetTaken' /\ StartMarked'
  BY <1>1, <1>3 DEF IInv, DInv, MarkerShape, FromShape, Resuming, TargetTaken, StartMarked
<1>5. MarkedShape'
  <2>1. ResumeStep' = ResumeStep
    BY <1>1 DEF ResumeStep
  <2>2. op = "resize" => ResizeDue(run.stage)'
    BY <1>1, <2>1 DEF ResizeDue, ShouldRunStep
  <2>3. op = "remove" => RemoveDue(run.stage)'
    BY <1>1, <2>1 DEF RemoveDue, ShouldRunStep
  <2> QED
    BY <1>1, <2>2, <2>3 DEF MarkedShape
<1>6. LeftCordoned'
  <2>1. SUFFICES ASSUME HeldAt(marker') PROVE run.target \in Held
    BY <1>1, <1>2 DEF LeftCordoned, HeldAt, Held
  <2>2. /\ op \in {"resize", "remove"} /\ DrainsNow /\ run.stage \in HeldStages
        /\ s \in {"tf-apply", "power-cycle"} \/ (op = "resize" /\ s = "disk-grow")
    BY <1>1, <2>1 DEF HeldAt, DrainsNow, HeldStages
  <2>3. ~Released
    <3>1. ShouldRunStep(s, ResumeStep)
      BY <2>2 DEF ResizeDue, RemoveDue
    <3>2. ResumeStep \in {"none"} \cup ResizeSteps \cup RemoveSteps
             /\ (op = "resize" => ResumeStep # "delete-node")
      BY <1>1, <2>2, ResumeStepType DEF ResizeSteps
    <3> QED
      BY <2>2, <3>1, <3>2, PastDrain DEF Released
  <2> QED
    BY <2>2, <2>3 DEF IInv, DInv, HeldNow
<1>7. HeldForResume'
  BY <1>1, <1>2 DEF IInv, DInv, HeldForResume, HeldAt, Held
<1>8. HeldNow'
  BY <1>1, <1>2 DEF IInv, DInv, HeldNow, DrainsNow, Released, ResumeStep, Held
<1> QED
  BY <1>4, <1>5, <1>6, <1>7, <1>8 DEF DInv

\* Taking up the next node.
LEMMA PickKeeps ==
    ASSUME IInv, NEW op, NEW lead, NEW body \in Stage, NEW after \in Stage,
           PickNext(op, "next", lead, body, after),
           body \notin HeldStages, after \notin HoldStages,
           after \notin {"cluster-ready", "uncordon-all"},
           body \notin {"cluster-ready", "uncordon-all"}
    PROVE  DInv'
<1>1. /\ run.op = op /\ run.stage = "next"
      /\ run'.op = run.op /\ run'.from = run.from /\ run'.intent = run.intent
      /\ \/ /\ run'.stage = after /\ run.todo = {} /\ run'.todo = {}
            /\ run'.target = NoNode
         \/ /\ run'.stage = body /\ run'.target \in run.todo
            /\ run'.todo = run.todo \ {run'.target}
  BY PickType DEF IInv, TInv
<1>2. marker' = marker /\ cordoned' = cordoned /\ drained' = drained /\ run'.marked = FALSE
  BY DEF PickNext, files, kube, IInv, TInv, TypeOK, Run
<1>3. MarkerShape' /\ FromShape' /\ TargetTaken' /\ MarkedShape' /\ StartMarked'
  BY <1>1, <1>2 DEF IInv, DInv, MarkerShape, FromShape, Resuming, TargetTaken, MarkedShape,
     StartMarked
<1>4. LeftCordoned' /\ HeldForResume'
  BY <1>1, <1>2 DEF IInv, DInv, LeftCordoned, HeldForResume, HeldAt, Held
<1>5. HeldNow'
  BY <1>1 DEF HeldNow, HeldStages, HoldStages
<1> QED
  BY <1>3, <1>4, <1>5 DEF DInv

\* Releasing the node whose recorded step is past the hold.
LEMMA ReleaseKeeps ==
    ASSUME IInv, GoTo("next"), marker' = marker,
           run.op \in {"resize", "remove"}, run.marked,
           run.stage \in {"uncordon", "delete-node"},
           cordoned' = cordoned \ {run.target}, drained' = drained \ {run.target}
    PROVE  DInv'
<1>1. /\ run'.stage = "next" /\ run'.marked = FALSE
      /\ run'.op = run.op /\ run'.target = run.target /\ run'.todo = run.todo
      /\ run'.from = run.from /\ run'.intent = run.intent
  BY GoToRun DEF IInv, TInv, TypeOK, Stage
<1>2. ~HeldAt(marker) /\ run.target \notin run.todo
  BY DEF IInv, DInv, MarkedShape, TargetTaken, HeldAt
<1>3. MarkerShape' /\ FromShape' /\ TargetTaken' /\ MarkedShape' /\ StartMarked'
  BY <1>1 DEF IInv, DInv, MarkerShape, FromShape, Resuming, TargetTaken, MarkedShape,
     StartMarked
<1>4. LeftCordoned' /\ HeldForResume' /\ HeldNow'
  BY <1>1, <1>2 DEF IInv, DInv, LeftCordoned, HeldForResume, HeldNow, HeldAt, Held,
     HoldStages, HeldStages
<1> QED
  BY <1>3, <1>4 DEF DInv

\* A step that changes neither the marker, the run, nor who is held.
LEMMA FrameKeeps ==
    ASSUME IInv, UNCHANGED <<marker, run, cordoned, drained>>
    PROVE  DInv'
BY DEF IInv, DInv, MarkerShape, FromShape, Resuming, TargetTaken, MarkedShape, StartMarked,
   LeftCordoned, HeldForResume, HeldNow, HeldAt, DrainsNow, Released, ResumeStep, Held,
   ResizeDue, RemoveDue

LEMMA ResizeKeeps == IInv /\ ResizeStep => DInv'
<1> SUFFICES ASSUME IInv, ResizeStep PROVE DInv'
  OBVIOUS
<1>0. run.op = "resize"
  BY DEF ResizeStep, ResizeMark, ResizePass, Mark, Pass, ResizeProbe, ResizePreGate,
         ResizeCordon, ResizeDrain, ResizeApply, ResizePowerOff, ResizePowerOn,
         ResizeWaitReady, ResizeGrowDisk, ResizePostGate, ResizeUncordon, ResizeNext,
         PickNext, ResizeSave, SaveConfig, ResizeRender, RenderTfvars, ResizeClear,
         ClearMarker, Doing, At
<1>1. CASE ResizeMark
  <2>1. PICK s \in ResizeSteps : ResizeDue(s) /\ Mark("resize", s)
    BY <1>1 DEF ResizeMark
  <2> QED
    BY <2>1, MarkKeeps, ResizeStepsAreSteps DEF Op
<1>2. CASE ResizePass
  <2>1. PICK s \in ResizeSteps : ~ResizeDue(s) /\ Pass("resize", s, AfterStep(s))
    BY <1>2 DEF ResizePass
  <2>2. /\ run.stage = s /\ GoTo(AfterStep(s)) /\ marker' = marker
        /\ cordoned' = cordoned /\ drained' = drained
    BY <2>1 DEF Pass, At, files, kube
  <2>3. AfterStep(s) \in Stage
    BY DEF AfterStep, ResizeSteps, Stage, Step
  <2>4. AfterStep(s) \in HoldStages => s \in HoldStages
    BY DEF AfterStep, ResizeSteps, HoldStages, HeldStages
  <2>5. AfterStep(s) \in HeldStages => s \in HeldStages \/ s = "drain"
    BY DEF AfterStep, ResizeSteps, HeldStages
  <2>6. DrainsNow /\ s = "drain" => Released \/ run.target \in Held
    <3>1. ResizeDue("drain") <=>
             ShouldRunStep("drain", ResumeStep) /\ Drains(run.intent)
      BY DEF ResizeDue
    <3> QED
      BY <1>0, <2>1, <2>2, <3>1, DrainPassed DEF DrainsNow
  <2>7. Held' = Held
    BY <2>2 DEF Held
  <2> QED
    BY <1>0, <2>2, <2>3, <2>4, <2>5, <2>6, <2>7, MoveKeeps
<1>3. CASE ResizeProbe
  <2>1. \E s \in {"pre-gate", "next"} : GoTo(s)
    BY <1>3 DEF ResizeProbe
  <2>2. UNCHANGED <<marker, cordoned, drained>> /\ run.stage = "probe"
    BY <1>3 DEF ResizeProbe, At, files, kube
  <2> QED
    BY <1>0, <2>1, <2>2, MoveKeeps DEF Stage, HoldStages, HeldStages
<1>4. CASE ResizePreGate \/ ResizeCordon
  <2>1. /\ run.stage \in HoldStages
        /\ \E s \in {"cordon", "drain"} : GoTo(s)
        /\ marker' = marker /\ cordoned \subseteq cordoned' /\ drained' = drained
    BY <1>4 DEF ResizePreGate, ResizeCordon, Doing, At, files, kube, HoldStages
  <2> QED
    BY <1>0, <2>1, MoveKeeps DEF Stage, Step, HeldStages
<1>5. CASE ResizeDrain
  <2>1. /\ run.stage \in HoldStages /\ GoTo("tf-apply") /\ "tf-apply" \in Stage
        /\ marker' = marker /\ cordoned \subseteq cordoned' /\ drained \subseteq drained'
        /\ run.target \in Held'
    BY <1>5 DEF ResizeDrain, Doing, At, files, HoldStages, Held, Stage, Step
  <2> QED
    BY <1>0, <2>1, MoveKeeps
<1>6. CASE ResizeApply \/ ResizePowerOn \/ ResizeWaitReady \/ ResizeGrowDisk
  <2>1. /\ run.stage \in HeldStages
        /\ \E s \in {"power-cycle", "wait-ready", "disk-grow", "post-gate"} : GoTo(s)
        /\ UNCHANGED <<marker, cordoned, drained>>
    BY <1>6 DEF ResizeApply, ResizePowerOn, ResizeWaitReady, ResizeGrowDisk, Doing, At,
       files, kube, HeldStages
  <2> QED
    BY <1>0, <2>1, MoveKeeps DEF Stage, Step, HoldStages, HeldStages
<1>7. CASE ResizePowerOff
  BY <1>7, FrameKeeps DEF ResizePowerOff, files
<1>8. CASE ResizePostGate \/ ResizeSave \/ ResizeRender \/ ResizeClear
  <2>1. /\ \E s \in {"uncordon", "render", "clear", "done"} : GoTo(s)
        /\ marker' \in {NoMarker, marker} /\ UNCHANGED <<cordoned, drained>>
    BY <1>8 DEF ResizePostGate, ResizeSave, SaveConfig, ResizeRender, RenderTfvars,
       ResizeClear, ClearMarker, files, kube
  <2> QED
    BY <1>0, <2>1, MoveKeeps DEF Stage, Step, HoldStages, HeldStages
<1>9. CASE ResizeUncordon
  BY <1>0, <1>9, ReleaseKeeps DEF ResizeUncordon, Doing, At, files
<1>10. CASE ResizeNext
  BY <1>10, PickKeeps DEF ResizeNext, Stage, HoldStages, HeldStages
<1> QED
  BY <1>1, <1>2, <1>3, <1>4, <1>5, <1>6, <1>7, <1>8, <1>9, <1>10 DEF ResizeStep

LEMMA AddKeeps == IInv /\ AddStep => DInv'
<1> SUFFICES ASSUME IInv, AddStep PROVE DInv'
  OBVIOUS
<1>0. run.op = "add"
  BY DEF AddStep, AddMarkWindow, AddRevive, AddNext, PickNext, AddMark, AddPass, Mark, Pass,
         AddBuildISO, AddUploadISO, AddApply, AddApproveCSR, AddJoined, AddSave, SaveConfig,
         AddRender, RenderTfvars, AddClear, ClearMarker, Doing, At
<1>a. ~DrainsNow
  BY <1>0 DEF DrainsNow
<1>1. CASE AddMarkWindow
  <2>1. run.from = NoMarker
    BY <1>1 DEF AddMarkWindow, Resuming
  <2>2. /\ marker'.op = "add" /\ UNCHANGED <<cordoned, drained>>
        /\ run' = [run EXCEPT !.marked = TRUE]
    BY <1>1 DEF AddMarkWindow, kube
  <2>3. run'.op = "add" /\ run'.from = NoMarker
    BY <1>0, <2>1, <2>2 DEF IInv, TInv, TypeOK, Run
  <2> QED
    BY <2>2, <2>3 DEF DInv, MarkerShape, FromShape, Resuming, NoMarker, TargetTaken,
       MarkedShape, StartMarked, LeftCordoned, HeldForResume, HeldNow, HeldAt, DrainsNow
<1>2. CASE AddNext
  BY <1>2, PickKeeps DEF AddNext, Stage, Step, HoldStages, HeldStages
<1>3. CASE AddMark
  <2>1. PICK s \in AddSteps : Mark("add", s)
    BY <1>3 DEF AddMark
  <2> QED
    BY <2>1, MarkKeeps, ResizeStepsAreSteps DEF Op
<1>4. CASE AddApproveCSR
  BY <1>4, FrameKeeps DEF AddApproveCSR, files
\* Every other step moves on without touching who is cordoned.
<1>5. ASSUME NEW s \in Stage, GoTo(s), marker' \in {NoMarker, marker},
             UNCHANGED <<cordoned, drained>>
      PROVE  DInv'
  BY <1>0, <1>a, <1>5, MoveKeeps
<1>6. CASE AddPass
  <2>1. PICK s \in AddSteps : Pass("add", s, AfterAddStep(s))
    BY <1>6 DEF AddPass
  <2>2. AfterAddStep(s) \in Stage
    BY DEF AfterAddStep, AddSteps, Stage, Step
  <2> QED
    BY <2>1, <2>2, <1>5 DEF Pass, files, kube
<1>7. CASE AddRevive \/ AddBuildISO \/ AddUploadISO \/ AddApply \/ AddJoined
           \/ AddSave \/ AddRender \/ AddClear
  <2>1. /\ \E s \in {"next", "upload-iso", "tf-apply", "wait-join", "render", "clear", "done"} :
              GoTo(s)
        /\ marker' \in {NoMarker, marker} /\ UNCHANGED <<cordoned, drained>>
    BY <1>7 DEF AddRevive, AddBuildISO, AddUploadISO, AddApply, AddJoined, AddSave, SaveConfig,
       AddRender, RenderTfvars, AddClear, ClearMarker, files, kube
  <2> QED
    BY <2>1, <1>5 DEF Stage, Step
<1> QED
  BY <1>1, <1>2, <1>3, <1>4, <1>6, <1>7 DEF AddStep

LEMMA RemoveKeeps == IInv /\ RemoveStep => DInv'
<1> SUFFICES ASSUME IInv, RemoveStep PROVE DInv'
  OBVIOUS
<1>0. run.op = "remove"
  BY DEF RemoveStep, RemoveNext, PickNext, RemoveMark, RemovePass, Mark, Pass, RemoveCordon,
         RemoveDrain, RemoveApply, RemoveSave, SaveConfig, RemoveRender, RenderTfvars,
         RemoveDeleteNode, RemoveClear, ClearMarker, Doing, At
<1>1. CASE RemoveNext
  BY <1>1, PickKeeps DEF RemoveNext, Stage, Step, HoldStages, HeldStages
<1>2. CASE RemoveMark
  <2>1. PICK s \in RemoveSteps : RemoveDue(s) /\ Mark("remove", s)
    BY <1>2 DEF RemoveMark
  <2> QED
    BY <2>1, MarkKeeps, ResizeStepsAreSteps DEF Op
<1>3. CASE RemovePass
  <2>1. PICK s \in RemoveSteps : ~RemoveDue(s) /\ Pass("remove", s, AfterRemoveStep(s))
    BY <1>3 DEF RemovePass
  <2>2. /\ run.stage = s /\ GoTo(AfterRemoveStep(s)) /\ marker' = marker
        /\ cordoned' = cordoned /\ drained' = drained
    BY <2>1 DEF Pass, At, files, kube
  <2>3. AfterRemoveStep(s) \in Stage
    BY DEF AfterRemoveStep, RemoveSteps, Stage, Step
  <2>4. AfterRemoveStep(s) \in HoldStages => s \in HoldStages
    BY DEF AfterRemoveStep, RemoveSteps, HoldStages, HeldStages
  <2>5. AfterRemoveStep(s) \in HeldStages => s = "drain"
    BY DEF AfterRemoveStep, RemoveSteps, HeldStages
  <2>6. DrainsNow /\ s = "drain" => Released \/ run.target \in Held
    <3>1. DrainsNow => (RemoveDue("drain") <=> ShouldRunStep("drain", ResumeStep))
      BY <1>0 DEF RemoveDue, DrainsNow
    <3> QED
      BY <2>1, <2>2, <3>1, DrainPassed
  <2>7. Held' = Held
    BY <2>2 DEF Held
  <2> QED
    BY <1>0, <2>2, <2>3, <2>4, <2>5, <2>6, <2>7, MoveKeeps
<1>4. CASE RemoveCordon
  <2>1. /\ run.stage \in HoldStages /\ GoTo("drain") /\ marker' = marker
        /\ cordoned \subseteq cordoned' /\ drained' = drained
    BY <1>4 DEF RemoveCordon, Doing, At, files, HoldStages
  <2> QED
    BY <1>0, <2>1, MoveKeeps DEF Stage, Step, HeldStages
<1>5. CASE RemoveDrain
  <2>1. /\ run.stage \in HoldStages /\ GoTo("tf-apply") /\ "tf-apply" \in Stage
        /\ marker' = marker /\ cordoned \subseteq cordoned' /\ drained \subseteq drained'
        /\ run.target \in Held'
    BY <1>5 DEF RemoveDrain, Doing, At, files, HoldStages, Held, Stage, Step
  <2> QED
    BY <1>0, <2>1, MoveKeeps
<1>6. CASE RemoveApply \/ RemoveSave \/ RemoveRender \/ RemoveClear
  <2>1. /\ \E s \in {"save", "render", "delete-node", "done"} : GoTo(s)
        /\ marker' \in {NoMarker, marker} /\ UNCHANGED <<cordoned, drained>>
    BY <1>6 DEF RemoveApply, RemoveSave, SaveConfig, RemoveRender, RenderTfvars,
       RemoveClear, ClearMarker, files, kube
  <2> QED
    BY <1>0, <2>1, MoveKeeps DEF Stage, Step, HoldStages, HeldStages
<1>7. CASE RemoveDeleteNode
  BY <1>0, <1>7, ReleaseKeeps DEF RemoveDeleteNode, Doing, At, files
<1> QED
  BY <1>1, <1>2, <1>3, <1>4, <1>5, <1>6, <1>7 DEF RemoveStep

\* Start uncordons only under its own marker; stop only cordons.
LEMMA PowerKeeps == IInv /\ PowerStep => DInv'
<1> SUFFICES ASSUME IInv, PowerStep PROVE DInv'
  OBVIOUS
<1>0. run.op \in {"stop", "start"}
  BY DEF PowerStep, StopList, StopCordonAll, StopCordoned, StopNext, PickNext, StopMark, Mark,
         StopShutdown, StopClear, StartList, StartMark, StartPowerOn, StartPoweredOn, StartWait,
         StartUncordonAll, StartUncordoned, StartClear, ClearMarker, Doing, At
<1>a. ~DrainsNow /\ ~HeldAt(run.from)
  BY <1>0 DEF DrainsNow, HeldAt, IInv, DInv, FromShape, Resuming, NoMarker
\* What a step of stop or start has to show.
<1>b. ASSUME run'.op = run.op, run'.from = run.from, run'.intent = run.intent,
             MarkerShape', LeftCordoned', StartMarked'
      PROVE  DInv'
  BY <1>0, <1>a, <1>b DEF IInv, DInv, FromShape, Resuming, TargetTaken, MarkedShape,
     HeldForResume, HeldNow, HeldAt, DrainsNow
<1>c. run \in Run
  BY DEF IInv, TInv, TypeOK
<1>1. CASE StopList \/ StopCordoned \/ StartList \/ StartWait
  <2>1. /\ run'.op = run.op /\ run'.from = run.from /\ run'.intent = run.intent
        /\ run'.marked = run.marked
        /\ run.op = "start" => run'.stage = "power-on" \/ run.stage = "cluster-ready"
        /\ UNCHANGED <<marker, cordoned, drained>>
    BY <1>1, <1>c DEF StopList, StopCordoned, StartList, StartWait, At, files, kube, Run
  <2> QED
    BY <2>1, <1>b DEF IInv, DInv, MarkerShape, LeftCordoned, StartMarked, HeldAt
<1>2. CASE StopCordonAll \/ StartUncordonAll
  <2>1. /\ run'.op = run.op /\ run'.from = run.from /\ run'.intent = run.intent
        /\ run'.marked = run.marked /\ run'.stage = run.stage /\ marker' = marker
        /\ \/ cordoned \subseteq cordoned' /\ drained' = drained
           \/ run.op = "start" /\ run.stage = "uncordon-all"
    BY <1>2, <1>c DEF StopCordonAll, StartUncordonAll, At, files, Run
  <2> QED
    BY <2>1, <1>b DEF IInv, DInv, MarkerShape, LeftCordoned, StartMarked, HeldAt
<1>3. CASE StopNext
  BY <1>3, PickKeeps DEF StopNext, Stage, Step, HoldStages, HeldStages
<1>4. CASE StopMark \/ StartMark
  BY <1>4, MarkKeeps DEF StopMark, StartMark, Op, Step
<1>5. CASE StartPowerOn
  <2>1. /\ run'.op = run.op /\ run'.from = run.from /\ run'.intent = run.intent
        /\ run'.marked = run.marked /\ run'.stage = run.stage
        /\ UNCHANGED <<marker, cordoned, drained>>
    BY <1>5, <1>c DEF StartPowerOn, files, kube, Run
  <2> QED
    BY <2>1, <1>b DEF IInv, DInv, MarkerShape, LeftCordoned, StartMarked, HeldAt
<1>6. CASE StartPoweredOn
  <2>1. run.marked /\ run.op = "start" /\ GoTo("cluster-ready") /\ "cluster-ready" \in Stage
           /\ UNCHANGED <<marker, cordoned, drained>>
    BY <1>6 DEF StartPoweredOn, Doing, At, files, kube, Stage
  <2>2. marker.op = "start"
    BY <2>1 DEF IInv, DInv, StartMarked
  <2> QED
    BY <2>1, <2>2, <1>a, MoveKeeps
<1>7. CASE StopShutdown \/ StopClear \/ StartUncordoned \/ StartClear
  <2>1. /\ \E s \in {"next", "clear", "done"} : GoTo(s)
        /\ marker' \in {NoMarker, marker} /\ UNCHANGED <<cordoned, drained>>
    BY <1>7 DEF StopShutdown, StopClear, StartUncordoned, StartClear, ClearMarker, files, kube
  <2> QED
    BY <2>1, <1>0, <1>a, MoveKeeps DEF Stage
<1> QED
  BY <1>1, <1>2, <1>3, <1>4, <1>5, <1>6, <1>7 DEF PowerStep

\* A run that starts takes over the promise of the marker it resumes.
LEMMA BeginKeeps == IInv /\ Begin => DInv'
<1> SUFFICES ASSUME IInv, Begin PROVE DInv'
  OBVIOUS
<1>1. PICK op \in Op, from \in {NoMarker, marker}, stage \in {"next", "ignition-up", "probe"} :
         \E todo, intent :
            /\ Started(op, stage, todo, from, intent)
            /\ op \in {"resize", "remove"} => stage = "next" /\ NoNode \notin todo
            /\ from # NoMarker => marker' = marker /\ marker.op = op /\ marker.intent = intent
            /\ marker' \in {NoMarker, marker} /\ UNCHANGED <<cordoned, drained>>
  <2>1. CASE BeginResize
    <3>1. PICK q \in ResizeRequests, ack \in Acks : ResizeBegin(q, ack)
      BY <2>1 DEF BeginResize
    <3>2. NoNode \notin ResizeTargets(q.scope)
      BY NodeType DEF ResizeTargets, IInv, TInv, TypeOK
    <3>3. PICK from \in {NoMarker, marker} :
            /\ Started("resize", "next", ResizeTargets(q.scope), from, ResizeIntent(q))
            /\ from # NoMarker =>
                  marker' = marker /\ marker.op = "resize" /\ marker.intent = ResizeIntent(q)
            /\ marker' \in {NoMarker, marker} /\ UNCHANGED <<cordoned, drained>>
      BY <3>1 DEF ResizeBegin, BeginOp, Resumable, kube
    <3> DEFINE todo == ResizeTargets(q.scope)
               intent == ResizeIntent(q)
    <3> HIDE DEF todo, intent
    <3>4. /\ Started("resize", "next", todo, from, intent) /\ NoNode \notin todo
          /\ from # NoMarker => marker' = marker /\ marker.op = "resize" /\ marker.intent = intent
      BY <3>2, <3>3 DEF todo, intent
    <3> QED
      BY <3>3, <3>4 DEF Op
  <2>2. CASE BeginAdd
    <3>1. PICK count \in AddCounts, ack \in Acks : AddBegin(count, ack)
      BY <2>2 DEF BeginAdd
    <3> DEFINE intent == AddIntent(AddStart(count), count)
    <3>2. PICK from \in {NoMarker, marker} :
            /\ Started("add", "ignition-up",
                       Remaining(Batch(AddStart(count), count), from), from, intent)
            /\ from # NoMarker => marker' = marker /\ marker.op = "add" /\ marker.intent = intent
            /\ marker' \in {NoMarker, marker} /\ UNCHANGED <<cordoned, drained>>
      BY <3>1 DEF AddBegin, BeginOp, Resumable, kube
    <3> DEFINE todo == Remaining(Batch(AddStart(count), count), from)
    <3> HIDE DEF todo, intent
    <3>3. Started("add", "ignition-up", todo, from, intent)
      BY <3>2 DEF todo
    <3> QED
      BY <3>2, <3>3 DEF Op
  <2>3. CASE BeginRemove
    <3>1. PICK n \in Workers, skipDrain \in RemoveRequests, ack \in Acks :
              RemoveBegin(n, skipDrain, ack)
      BY <2>3 DEF BeginRemove
    <3> DEFINE intent == RemoveIntent(n, skipDrain)
               todo == {n}
    <3>2. PICK from \in {NoMarker, marker} :
            /\ Started("remove", "next", todo, from, intent)
            /\ from # NoMarker =>
                  marker' = marker /\ marker.op = "remove" /\ marker.intent = intent
            /\ marker' \in {NoMarker, marker} /\ UNCHANGED <<cordoned, drained>>
      BY <3>1 DEF RemoveBegin, BeginOp, Resumable, kube
    <3>3. NoNode \notin todo
      BY NodeType
    <3> HIDE DEF todo, intent
    <3> QED
      BY <3>2, <3>3 DEF Op
  <2>4. CASE BeginStop \/ BeginStart
    <3>1. \E op \in {"stop", "start"} :
            /\ Started(op, "probe", {}, NoMarker, NoIntent)
            /\ marker' \in {NoMarker, marker} /\ UNCHANGED <<cordoned, drained>>
      BY <2>4 DEF BeginStop, BeginStart, StopBegin, StartBegin, RefuseForeignMarker, kube
    <3> QED
      BY <3>1 DEF Op
  <2> QED
    BY <2>1, <2>2, <2>3, <2>4 DEF Begin
<1>7. PICK todo, intent :
         /\ Started(op, stage, todo, from, intent)
         /\ op \in {"resize", "remove"} => stage = "next" /\ NoNode \notin todo
         /\ from # NoMarker => marker' = marker /\ marker.op = op /\ marker.intent = intent
         /\ marker' \in {NoMarker, marker} /\ UNCHANGED <<cordoned, drained>>
  BY <1>1
<1>2. /\ run'.op = op /\ run'.stage = stage /\ run'.marked = FALSE /\ run'.target = NoNode
      /\ run'.todo = todo /\ run'.from = from /\ run'.intent = intent
  BY <1>7 DEF Started
<1>3. MarkerShape' /\ LeftCordoned'
  BY <1>7 DEF IInv, DInv, MarkerShape, LeftCordoned, HeldAt, NoMarker
<1>4. FromShape' /\ TargetTaken' /\ MarkedShape' /\ StartMarked'
  BY <1>7, <1>2 DEF IInv, DInv, FromShape, Resuming, MarkerShape, NoMarker, TargetTaken,
     MarkedShape, StartMarked
<1>5. HeldForResume'
  BY <1>7, <1>2 DEF IInv, DInv, LeftCordoned, HeldForResume, HeldAt, NoMarker, Held
<1>6. HeldNow'
  BY <1>7, <1>2 DEF HeldNow, HeldStages, DrainsNow
<1> QED
  BY <1>3, <1>4, <1>5, <1>6 DEF DInv

\* However a run ends, what it held stays held.
LEMMA EndKeeps ==
    ASSUME IInv, run' = IdleRun, UNCHANGED <<files, infra, kube>>
    PROVE  DInv'
BY DEF IInv, DInv, MarkerShape, FromShape, Resuming, TargetTaken, MarkedShape, StartMarked,
   LeftCordoned, HeldForResume, HeldNow, HeldAt, DrainsNow, Held, IdleRun, NoMarker, files, kube

LEMMA InitKeeps == Init => DInv
BY DEF Init, IdleRun, NoMarker, DInv, MarkerShape, FromShape, Resuming, TargetTaken,
   MarkedShape, StartMarked, LeftCordoned, HeldForResume, HeldNow, HeldAt, DrainsNow

LEMMA IInvStep == IInv /\ [Next]_vars => IInv'
<1> SUFFICES ASSUME IInv, [Next]_vars PROVE IInv'
  OBVIOUS
<1>0. TInv /\ TInv'
  BY TInvStep DEF IInv
<1>1. CASE Begin
  BY <1>0, <1>1, BeginKeeps DEF IInv
<1>2. CASE SweepResidue
  <2>1. DInv'
    BY <1>2 DEF SweepResidue, IInv, DInv, MarkerShape, FromShape, Resuming, TargetTaken,
       MarkedShape, StartMarked, LeftCordoned, HeldForResume, HeldNow, HeldAt, DrainsNow,
       Held, Idle, NoMarker, kube
  <2> QED
    BY <1>0, <2>1 DEF IInv
<1>3. CASE ResizeStep \/ AddStep \/ RemoveStep \/ PowerStep
  BY <1>0, <1>3, ResizeKeeps, AddKeeps, RemoveKeeps, PowerKeeps DEF IInv
<1>4. CASE \/ Return \/ Fail \/ Crash
           \/ ResizeGivesUp \/ AddGivesUp \/ PowerGivesUp
  BY <1>0, <1>4, EndType, EndKeeps DEF IInv
<1>5. CASE Environment
  <2>1. UNCHANGED <<marker, run, cordoned, drained>>
    BY <1>5 DEF Environment, Boot, ReportStatus, files, kube
  <2> QED
    BY <1>0, <2>1, FrameKeeps DEF IInv
<1>6. CASE UNCHANGED vars
  BY <1>0, <1>6, FrameKeeps DEF IInv, vars, files, kube
<1> QED
  BY <1>1, <1>2, <1>3, <1>4, <1>5, <1>6 DEF Next, Proceed

LEMMA IInvAlways == Spec => []IInv
<1>1. Init => IInv
  BY InitType, InitKeeps DEF IInv
<1> QED
  BY <1>1, IInvStep, PTL DEF Spec

\* A drained operation that stopped at or past its terraform apply, however it
\* stopped and whatever ran since, has left its node cordoned and drained.
THEOREM LeavesCordoned == Spec => []LeftCordoned
<1>1. IInv => LeftCordoned
  BY DEF IInv, DInv
<1> QED
  BY <1>1, IInvAlways, PTL

\* A disrupted node, as DrainedBeforeDisruption reads it.
Disrupted(n) ==
    /\ run.op \in {"resize", "remove"} /\ ~run.intent.skipDrain
    /\ \/ guest[n].power # "off" /\ guest'[n].power = "off"
       \/ InState(n) /\ vm'[n] = Absent

\* The steps that leave every VM in place and every guest powered disrupt none.
LEMMA NoneDisrupted ==
    ASSUME TInv, NEW n \in Node, NEW m \in Node,
           vm' = vm \/ \E w \in Size : vm' = [vm EXCEPT ![m] = w],
           guest' = guest \/ guest' = [guest EXCEPT ![m] = guest[m]]
    PROVE  ~Disrupted(n)
<1>1. ~(InState(n) /\ vm'[n] = Absent)
  BY SizeAssumption DEF TInv, TypeOK, InState, Size, Absent
<1>2. ~(guest[n].power # "off" /\ guest'[n].power = "off")
  BY DEF TInv, TypeOK
<1> QED
  BY <1>1, <1>2 DEF Disrupted

LEMMA DisruptedIsHeld ==
    ASSUME IInv, [Next]_vars, NEW n \in Node, Disrupted(n)
    PROVE  n \in Held
<1> USE DEF Disrupted
<1>0. TInv
  BY DEF IInv
<1>1. CASE ResizeStep
  <2>0. run.op = "resize"
    BY <1>1 DEF ResizeStep, ResizeMark, ResizePass, Mark, Pass, ResizeProbe, ResizePreGate,
         ResizeCordon, ResizeDrain, ResizeApply, ResizePowerOff, ResizePowerOn,
         ResizeWaitReady, ResizeGrowDisk, ResizePostGate, ResizeUncordon, ResizeNext,
         PickNext, ResizeSave, SaveConfig, ResizeRender, RenderTfvars, ResizeClear,
         ClearMarker, Doing, At
  <2>1. CASE UNCHANGED infra
    BY <1>0, <2>1, NoneDisrupted DEF infra
  <2>2. CASE ResizeApply
    <3>1. run.target \in Node
      BY <1>0, <2>0, <2>2 DEF ResizeApply, Doing, At, TInv, ResizeShape
    <3>2. /\ WantedHere \in Size /\ vm' = [vm EXCEPT ![run.target] = WantedHere]
      BY <1>0, <2>0, <2>2, <3>1, WantedType DEF ResizeApply, TargetedApply
    <3>3. guest' = [guest EXCEPT ![run.target] = guest[run.target]]
      BY <2>2 DEF ResizeApply, TargetedApply
    <3> QED
      BY <1>0, <3>1, <3>2, <3>3, NoneDisrupted
  <2>3. CASE ResizePowerOff
    <3>1. /\ run.stage = "power-cycle" /\ run.marked
          /\ run.target \in Node /\ n = run.target
      BY <1>0, <2>0, <2>3 DEF ResizePowerOff, PowerOff, Doing, At, InState, TInv, TypeOK,
         ResizeShape
    <3>2. ResizeDue("power-cycle")
      BY <2>0, <3>1 DEF IInv, DInv, MarkedShape
    <3>3. ShouldRunStep("power-cycle", ResumeStep) /\ DrainsNow
      BY <2>0, <3>2 DEF ResizeDue, DrainsNow, Drains
    <3>4. ~Released
      BY <2>0, <3>3, ResumeStepType, PastDrain DEF Released
    <3> QED
      BY <3>1, <3>3, <3>4 DEF IInv, DInv, HeldNow, HeldStages
  <2>4. CASE ResizePowerOn
    <3>1. run.target \in Node /\ guest[run.target].power = "off" /\ vm' = vm
      BY <1>0, <2>0, <2>4 DEF ResizePowerOn, Doing, At, TInv, ResizeShape
    <3>2. guest'[n].power # "off" \/ guest[n].power = "off"
      BY <1>0, <2>4, <3>1 DEF ResizePowerOn, PowerOn, TInv, TypeOK
    <3> QED
      BY <3>1, <3>2 DEF InState
  <2>5. CASE ResizeGrowDisk
    <3>1. run.target \in Node /\ vm' = vm
      BY <1>0, <2>0, <2>5 DEF ResizeGrowDisk, Doing, At, TInv, ResizeShape
    <3>2. guest'[n].power = guest[n].power
      BY <1>0, <2>5 DEF ResizeGrowDisk, TInv, TypeOK
    <3> QED
      BY <3>1, <3>2 DEF InState
  <2> QED
    BY <1>1, <2>1, <2>2, <2>3, <2>4, <2>5 DEF ResizeStep, ResizeMark, ResizePass, Mark, Pass,
       ResizeProbe, ResizePreGate, ResizeCordon, ResizeDrain, ResizeWaitReady, ResizePostGate,
       ResizeUncordon, ResizeNext, PickNext, ResizeSave, SaveConfig, ResizeRender,
       RenderTfvars, ResizeClear, ClearMarker
<1>2. CASE RemoveStep
  <2>0. run.op = "remove"
    BY <1>2 DEF RemoveStep, RemoveNext, PickNext, RemoveMark, RemovePass, Mark, Pass,
         RemoveCordon, RemoveDrain, RemoveApply, RemoveSave, SaveConfig, RemoveRender,
         RenderTfvars, RemoveDeleteNode, RemoveClear, ClearMarker, Doing, At
  <2>1. CASE UNCHANGED infra
    BY <1>0, <2>1, NoneDisrupted DEF infra
  <2>2. CASE RemoveApply
    <3>1. /\ run.stage = "tf-apply" /\ run.marked /\ n = run.target
      BY <1>0, <2>0, <2>2 DEF RemoveApply, TargetedApply, Doing, At, TInv, TypeOK, InState
    <3>2. RemoveDue("tf-apply")
      BY <2>0, <3>1 DEF IInv, DInv, MarkedShape
    <3>3. ShouldRunStep("tf-apply", ResumeStep) /\ DrainsNow
      BY <2>0, <3>2 DEF RemoveDue, DrainsNow
    <3>4. ~Released
      BY <2>0, <3>3, ResumeStepType, PastDrain DEF Released
    <3> QED
      BY <3>1, <3>3, <3>4 DEF IInv, DInv, HeldNow, HeldStages
  <2> QED
    BY <1>2, <2>1, <2>2 DEF RemoveStep, RemoveNext, PickNext, RemoveMark, RemovePass, Mark,
       Pass, RemoveCordon, RemoveDrain, RemoveSave, SaveConfig, RemoveRender, RenderTfvars,
       RemoveDeleteNode, RemoveClear, ClearMarker
<1>3. CASE AddStep \/ PowerStep
  BY <1>3 DEF AddStep, AddMarkWindow, AddRevive, AddNext, PickNext, AddMark, AddPass, Mark,
     Pass, AddBuildISO, AddUploadISO, AddApply, AddApproveCSR, AddJoined, AddSave, SaveConfig,
     AddRender, RenderTfvars, AddClear, ClearMarker, Doing, At,
     PowerStep, StopList, StopCordonAll, StopCordoned, StopNext, StopMark, StopShutdown,
     StopClear, StartList, StartMark, StartPowerOn, StartPoweredOn, StartWait,
     StartUncordonAll, StartUncordoned, StartClear
<1>4. CASE \/ Begin \/ SweepResidue \/ Return \/ Fail \/ Crash \/ UNCHANGED vars
           \/ ResizeGivesUp \/ AddGivesUp \/ PowerGivesUp
  <2>1. UNCHANGED infra
    BY <1>4 DEF Begin, BeginResize, ResizeBegin, BeginAdd, AddBegin, BeginRemove, RemoveBegin,
       BeginStop, StopBegin, BeginStart, StartBegin, SweepResidue, Return, Fail, Crash, vars,
       ResizeGivesUp, AddGivesUp, PowerGivesUp, GiveUp
  <2> QED
    BY <1>0, <2>1, NoneDisrupted DEF infra
<1>5. CASE Environment
  <2>1. PICK m \in Node : Boot(m) \/ ReportStatus(m)
    BY <1>5 DEF Environment
  <2>2. vm' = vm /\ guest'[n].power \in {guest[n].power, "up"}
    BY <1>0, <2>1 DEF Boot, ReportStatus, infra, TInv, TypeOK
  <2> QED
    BY <2>2 DEF InState
<1> QED
  BY <1>1, <1>2, <1>3, <1>4, <1>5 DEF Next, Proceed

\* Whatever was interrupted and resumed before, a resize power-cycles and a
\* remove destroys only a VM whose node is cordoned and drained, unless the
\* operator asked to skip the drain.
THEOREM DrainsFirst == Spec => DrainedBeforeDisruption
<1>1. IInv /\ [Next]_vars =>
        [\A n \in Node :
          /\ run.op \in {"resize", "remove"} /\ ~run.intent.skipDrain
          /\ (guest[n].power # "off" /\ guest'[n].power = "off") \/ (InState(n) /\ vm'[n] = Absent)
          => n \in cordoned \cap drained]_vars
  BY DisruptedIsHeld DEF Disrupted, Held
<1> QED
  BY <1>1, IInvAlways, PTL DEF Spec, DrainedBeforeDisruption


-----------------------------------------------------------------------------
(***************************************************************************)
(* Stop and start settle.                                                  *)
(*                                                                         *)
(* What a start reads is what the API reports: a node it counted as Ready   *)
(* is up, or is misled about and has been switched on.                     *)
(***************************************************************************)
UpOrMisled(n) == Up(n) \/ n \in misled

Cordons ==
    /\ marker.op = "stop" => registered \subseteq cordoned
    /\ At("stop", "cordon-all") => registered \ run.todo \subseteq cordoned
    /\ run.op = "stop" /\ run.stage \in {"next", "shutdown", "clear", "done"} =>
          registered \subseteq cordoned
\* A worker is registered only under the marker of its own add.
AddMarked == run.op = "add" /\ run.marked => marker.op = "add"
\* Only a VM runs.
Powered == \A n \in Node : guest[n].power # "off" => InState(n)
\* What is started or restarted has a VM.
Known ==
    /\ run.op = "resize" => \A n \in run.todo \cup ({run.target} \cap Node) : InState(n)
    /\ At("start", "power-on") => \A n \in run.todo : InState(n)
\* A start has switched on the nodes it is past; past its wait it has counted every
\* node, and lifts the cordons one by one.
SwitchedOn ==
    run.op = "start" /\ run.stage \in {"power-on", "cluster-ready", "uncordon-all", "clear", "done"} =>
        \A n \in Configured :
            guest[n].power # "off" \/ (run.stage = "power-on" /\ n \in run.todo)
StartsUp ==
    run.op = "start" /\ run.stage \in {"uncordon-all", "clear", "done"} =>
        /\ \A n \in registered : UpOrMisled(n)
        /\ registered \cap cordoned \subseteq IF run.stage = "uncordon-all" THEN run.todo ELSE {}

Settles == Cordons /\ AddMarked /\ Powered /\ Known /\ SwitchedOn /\ StartsUp

\* An operation of its own kind changes neither the run's kind nor, under the marker
\* of a stop, who is registered and who is cordoned.
LEMMA ResizeFrame ==
    ASSUME IInv, ResizeStep
    PROVE  /\ run.op = "resize" /\ run'.op = "resize" /\ registered' = registered
           /\ run'.todo \subseteq run.todo /\ run'.target \in {run.target, NoNode} \cup run.todo
           /\ marker'.op = "stop" => marker.op = "stop" /\ cordoned \subseteq cordoned'
<1>0. /\ run \in Run /\ run.op = "resize" /\ run.todo \in SUBSET Node
      /\ run.marked => marker.op = "resize"
  <2>1. run.op = "resize"
    BY DEF ResizeStep, ResizeMark, ResizePass, Mark, Pass, ResizeProbe, ResizePreGate,
           ResizeCordon, ResizeDrain, ResizeApply, ResizePowerOff, ResizePowerOn,
           ResizeWaitReady, ResizeGrowDisk, ResizePostGate, ResizeUncordon, ResizeNext,
           PickNext, ResizeSave, SaveConfig, ResizeRender, RenderTfvars, ResizeClear,
           ClearMarker, Doing, At
  <2> QED
    BY <2>1 DEF IInv, TInv, TypeOK, Run, DInv, MarkedShape
<1>1. CASE ResizeMark
  <2>1. PICK s \in ResizeSteps : Mark("resize", s)
    BY <1>1 DEF ResizeMark
  <2> QED
    BY <2>1, <1>0, MarkType, ResizeStepsAreSteps DEF Op, IInv, TInv, Mark, kube
<1>2. CASE ResizeNext
  <2>1. PickNext("resize", "next", "master", "probe", "save")
    BY <1>2 DEF ResizeNext
  <2> QED
    BY <2>1, <1>0, PickType DEF IInv, TInv, Stage, PickNext, files, kube
<1>3. CASE ResizePowerOff
  BY <1>0, <1>3 DEF ResizePowerOff, files
<1>4. CASE ResizeUncordon
  <2>1. GoTo("next") /\ run.marked /\ marker' = marker /\ registered' = registered
    BY <1>4 DEF ResizeUncordon, Doing, files
  <2> QED
    BY <1>0, <2>1, GoToRun DEF Stage
<1>5. CASE ResizePass
  <2>1. PICK s \in ResizeSteps : Pass("resize", s, AfterStep(s))
    BY <1>5 DEF ResizePass
  <2>2. AfterStep(s) \in Stage
    BY DEF AfterStep, ResizeSteps, Stage, Step
  <2>3. GoTo(AfterStep(s)) /\ UNCHANGED <<marker, registered, cordoned>>
    BY <2>1 DEF Pass, files, kube
  <2> QED
    BY <1>0, <2>2, <2>3, GoToRun
<1>6. CASE \/ ResizeProbe \/ ResizePreGate \/ ResizeCordon \/ ResizeDrain \/ ResizeApply
           \/ ResizePowerOn \/ ResizeWaitReady \/ ResizeGrowDisk \/ ResizePostGate
           \/ ResizeSave \/ ResizeRender \/ ResizeClear
  <2>1. \E s \in Stage : GoTo(s)
    BY <1>6 DEF ResizeProbe, ResizePreGate, ResizeCordon, ResizeDrain, ResizeApply,
       ResizePowerOn, ResizeWaitReady, ResizeGrowDisk, ResizePostGate, ResizeSave, SaveConfig,
       ResizeRender, RenderTfvars, ResizeClear, ClearMarker, Stage, Step
  <2>2. /\ marker' \in {NoMarker, marker} /\ registered' = registered /\ cordoned \subseteq cordoned'
    BY <1>6 DEF ResizeProbe, ResizePreGate, ResizeCordon, ResizeDrain, ResizeApply,
       ResizePowerOn, ResizeWaitReady, ResizeGrowDisk, ResizePostGate, ResizeSave, SaveConfig,
       ResizeRender, RenderTfvars, ResizeClear, ClearMarker, files, kube
  <2>3. NoMarker.op = "none"
    BY DEF NoMarker
  <2>4. /\ run'.op = run.op /\ run'.target = run.target /\ run'.todo = run.todo
        /\ run'.marked = FALSE
    BY <1>0, <2>1, GoToRun
  <2> QED
    BY <1>0, <2>2, <2>3, <2>4
<1> QED
  BY <1>1, <1>2, <1>3, <1>4, <1>5, <1>6 DEF ResizeStep

LEMMA AddFrame ==
    ASSUME IInv, AddMarked, AddStep
    PROVE  /\ run.op = "add" /\ run'.op = "add" /\ AddMarked'
           /\ run'.todo \subseteq run.todo /\ run'.target \in {run.target, NoNode} \cup run.todo
           /\ registered \subseteq registered' /\ registered' \subseteq registered \cup ({run.target} \cap Node)
           /\ marker'.op = "stop" => marker.op = "stop" /\ registered' = registered
           /\ UNCHANGED <<cordoned, drained, ready>>
<1>0. /\ run \in Run /\ run.op = "add" /\ run.todo \in SUBSET Node
      /\ run.marked => marker.op = "add"
  <2>1. run.op = "add"
    BY DEF AddStep, AddMarkWindow, AddRevive, AddNext, PickNext, AddMark, AddPass, Mark, Pass,
           AddBuildISO, AddUploadISO, AddApply, AddApproveCSR, AddJoined, AddSave, SaveConfig,
           AddRender, RenderTfvars, AddClear, ClearMarker, Doing, At
  <2> QED
    BY <2>1 DEF IInv, TInv, TypeOK, Run, AddMarked
<1>1. CASE AddMark
  <2>1. PICK s \in AddSteps : Mark("add", s)
    BY <1>1 DEF AddMark
  <2> QED
    BY <2>1, <1>0, MarkType, ResizeStepsAreSteps DEF Op, IInv, TInv, Mark, kube, AddMarked
<1>2. CASE AddNext
  <2>1. PickNext("add", "next", "worker", "build-iso", "save")
    BY <1>2 DEF AddNext
  <2>2. /\ "build-iso" \in Stage /\ "save" \in Stage /\ ~run.marked /\ run'.marked = run.marked
    BY <1>0, <2>1 DEF Stage, Step, PickNext, Run
  <2> QED
    BY <2>1, <2>2, <1>0, PickType DEF IInv, TInv, PickNext, files, kube, AddMarked
<1>3. CASE AddMarkWindow
  BY <1>0, <1>3 DEF AddMarkWindow, kube, AddMarked, Run
<1>4. CASE AddApproveCSR
  <2>1. run' = run /\ run.marked /\ marker' = marker /\ run.target \in Node
    BY <1>4, NodeType DEF AddApproveCSR, Doing, At, files, IInv, TInv, AddShape, AddSteps
  <2> QED
    BY <1>0, <1>4, <2>1 DEF AddApproveCSR, AddMarked
<1>5. CASE AddPass
  <2>1. PICK s \in AddSteps : Pass("add", s, AfterAddStep(s))
    BY <1>5 DEF AddPass
  <2>2. AfterAddStep(s) \in Stage
    BY DEF AfterAddStep, AddSteps, Stage, Step
  <2>3. GoTo(AfterAddStep(s)) /\ UNCHANGED <<marker, registered, ready, cordoned, drained>>
    BY <2>1 DEF Pass, files, kube
  <2> QED
    BY <1>0, <2>2, <2>3, GoToRun DEF AddMarked
<1>6. CASE \/ AddRevive \/ AddBuildISO \/ AddUploadISO \/ AddApply \/ AddJoined
           \/ AddSave \/ AddRender \/ AddClear
  <2>1. \E s \in Stage : GoTo(s)
    BY <1>6 DEF AddRevive, AddBuildISO, AddUploadISO, AddApply, AddJoined, AddSave, SaveConfig,
       AddRender, RenderTfvars, AddClear, ClearMarker, Stage, Step
  <2>2. /\ marker' \in {NoMarker, marker}
        /\ UNCHANGED <<registered, ready, cordoned, drained>>
    BY <1>6 DEF AddRevive, AddBuildISO, AddUploadISO, AddApply, AddJoined, AddSave, SaveConfig,
       AddRender, RenderTfvars, AddClear, ClearMarker, files, kube
  <2>3. NoMarker.op = "none"
    BY DEF NoMarker
  <2>4. /\ run'.op = run.op /\ run'.target = run.target /\ run'.todo = run.todo
        /\ run'.marked = FALSE
    BY <1>0, <2>1, GoToRun
  <2> QED
    BY <1>0, <2>2, <2>3, <2>4 DEF AddMarked
<1> QED
  BY <1>1, <1>2, <1>3, <1>4, <1>5, <1>6 DEF AddStep

LEMMA RemoveFrame ==
    ASSUME IInv, RemoveStep
    PROVE  /\ run.op = "remove" /\ run'.op = "remove"
           /\ run'.todo \subseteq run.todo /\ run'.target \in {run.target, NoNode} \cup run.todo
           /\ registered' \subseteq registered
           /\ marker'.op = "stop" => marker.op = "stop" /\ registered' = registered /\ cordoned \subseteq cordoned'
<1>0. /\ run \in Run /\ run.op = "remove" /\ run.todo \in SUBSET Node
      /\ run.marked => marker.op = "remove"
  <2>1. run.op = "remove"
    BY DEF RemoveStep, RemoveNext, PickNext, RemoveMark, RemovePass, Mark, Pass, RemoveCordon,
           RemoveDrain, RemoveApply, RemoveSave, SaveConfig, RemoveRender, RenderTfvars,
           RemoveDeleteNode, RemoveClear, ClearMarker, Doing, At
  <2> QED
    BY <2>1 DEF IInv, TInv, TypeOK, Run, DInv, MarkedShape
<1>1. CASE RemoveMark
  <2>1. PICK s \in RemoveSteps : Mark("remove", s)
    BY <1>1 DEF RemoveMark
  <2> QED
    BY <2>1, <1>0, MarkType, ResizeStepsAreSteps DEF Op, IInv, TInv, Mark, kube
<1>2. CASE RemoveNext
  <2>1. PickNext("remove", "next", "worker", "cordon", "clear")
    BY <1>2 DEF RemoveNext
  <2> QED
    BY <2>1, <1>0, PickType DEF IInv, TInv, Stage, Step, PickNext, files, kube
<1>3. CASE RemoveDeleteNode
  <2>1. GoTo("next") /\ run.marked /\ marker' = marker /\ registered' \subseteq registered
    BY <1>3 DEF RemoveDeleteNode, Doing, files
  <2> QED
    BY <1>0, <2>1, GoToRun DEF Stage
<1>4. CASE RemovePass
  <2>1. PICK s \in RemoveSteps : Pass("remove", s, AfterRemoveStep(s))
    BY <1>4 DEF RemovePass
  <2>2. AfterRemoveStep(s) \in Stage
    BY DEF AfterRemoveStep, RemoveSteps, Stage, Step
  <2>3. GoTo(AfterRemoveStep(s)) /\ UNCHANGED <<marker, registered, cordoned>>
    BY <2>1 DEF Pass, files, kube
  <2> QED
    BY <1>0, <2>2, <2>3, GoToRun
<1>5. CASE RemoveCordon \/ RemoveDrain \/ RemoveApply \/ RemoveSave \/ RemoveRender \/ RemoveClear
  <2>1. \E s \in Stage : GoTo(s)
    BY <1>5 DEF RemoveCordon, RemoveDrain, RemoveApply, RemoveSave, SaveConfig, RemoveRender,
       RenderTfvars, RemoveClear, ClearMarker, Stage, Step
  <2>2. /\ marker' \in {NoMarker, marker} /\ registered' = registered /\ cordoned \subseteq cordoned'
    BY <1>5 DEF RemoveCordon, RemoveDrain, RemoveApply, RemoveSave, SaveConfig, RemoveRender,
       RenderTfvars, RemoveClear, ClearMarker, files, kube
  <2>3. NoMarker.op = "none"
    BY DEF NoMarker
  <2>4. /\ run'.op = run.op /\ run'.target = run.target /\ run'.todo = run.todo
        /\ run'.marked = FALSE
    BY <1>0, <2>1, GoToRun
  <2> QED
    BY <1>0, <2>2, <2>3, <2>4
<1> QED
  BY <1>1, <1>2, <1>3, <1>4, <1>5 DEF RemoveStep


\* What the effects on VMs and guests do to what runs.
LEMMA SizeIsThere == ASSUME NEW w \in Size PROVE w # Absent
BY SizeAssumption DEF Size, Absent

LEMMA ApplySettles ==
    ASSUME IInv, Powered, NEW n \in Node, NEW want \in {"update", "create", "delete"}, NEW w,
           IF want = "delete" THEN w = Absent ELSE w \in Size,
           TargetedApply(n, want, w)
    PROVE  /\ Powered'
           /\ want # "delete" => \A m \in Node : InState(m) => InState(m)'
<1>1. /\ vm' = [vm EXCEPT ![n] = IF want = "delete" THEN Absent ELSE w]
      /\ \A m \in Node \ {n} : guest'[m] = guest[m]
      /\ want = "update" => guest'[n] = guest[n]
      /\ want = "create" => IF InState(n) THEN guest'[n] = guest[n] ELSE guest'[n].power = "booting"
      /\ want = "delete" => guest'[n].power = "off"
  BY DEF TargetedApply, IInv, TInv, TypeOK
<1>2. want # "delete" => w # Absent
  BY SizeIsThere
<1>3. \A m \in Node : vm'[m] = IF m = n THEN (IF want = "delete" THEN Absent ELSE w) ELSE vm[m]
  BY <1>1 DEF IInv, TInv, TypeOK
<1>4. Powered'
  BY <1>1, <1>2, <1>3 DEF Powered, InState
<1>6. want # "delete" => \A m \in Node : InState(m) => InState(m)'
  BY <1>2, <1>3 DEF InState
<1> QED
  BY <1>4, <1>6

LEMMA OffSettles ==
    ASSUME IInv, Powered, NEW n \in Node, PowerOff(n), vm' = vm
    PROVE  Powered'
<1>1. \A m \in Node : guest'[m].power = IF m = n THEN "off" ELSE guest[m].power
  BY DEF PowerOff, IInv, TInv, TypeOK
<1> QED
  BY <1>1 DEF PowerOff, Withdrawn, Powered, InState, Up, IInv, TInv, TypeOK

LEMMA OnlyWakes ==
    ASSUME TInv, NEW n \in Node, PowerOn(n)
    PROVE  \A m \in Node :
             guest'[m].power = IF m = n /\ guest[m].power = "off" THEN "booting" ELSE guest[m].power
<1> DEFINE g == [guest[n] EXCEPT
                   !.power = IF @ = "off" THEN "booting" ELSE @,
                   !.mem = IF guest[n].power = "off" THEN vm[n].mem ELSE @]
<1>1. guest' = [guest EXCEPT ![n] = g]
  BY DEF PowerOn, TInv, TypeOK
<1>2. g.power = IF guest[n].power = "off" THEN "booting" ELSE guest[n].power
  BY DEF TInv, TypeOK
<1> HIDE DEF g
<1> QED
  BY <1>1, <1>2 DEF TInv, TypeOK

LEMMA OnSettles ==
    ASSUME IInv, Powered, NEW n \in Node, PowerOn(n), InState(n), vm' = vm
    PROVE  Powered'
BY OnlyWakes DEF Powered, InState, IInv

\* A step that touches neither VMs nor guests.
LEMMA StillSettles ==
    ASSUME Powered, UNCHANGED infra
    PROVE  Powered' /\ \A m \in Node : InState(m) => InState(m)'
BY DEF Powered, InState, Up, infra

LEMMA ResizeSettles == ASSUME IInv, Settles, ResizeStep PROVE Settles'
<1>0. /\ run.op = "resize" /\ run'.op = "resize" /\ registered' = registered
      /\ run'.todo \subseteq run.todo /\ run'.target \in {run.target, NoNode} \cup run.todo
      /\ marker'.op = "stop" => marker.op = "stop" /\ cordoned \subseteq cordoned'
  BY ResizeFrame
<1>1. run.stage \notin {"next", "save", "render", "clear", "done"} => run.target \in Node /\ InState(run.target)
  BY <1>0 DEF IInv, TInv, ResizeShape, Settles, Known
<1>2. Powered' /\ \A m \in Node : InState(m) => InState(m)'
  <2> USE DEF Settles
  <2>1. CASE ResizeApply
    <3>1. run.target \in Node /\ WantedHere \in Size /\ TargetedApply(run.target, "update", WantedHere)
      BY <1>0, <1>1, <2>1, WantedType DEF ResizeApply, Doing, At, IInv
    <3> QED
      BY <3>1, ApplySettles
  <2>2. CASE ResizePowerOff
    <3>1. run.target \in Node /\ PowerOff(run.target) /\ vm' = vm
      BY <1>1, <2>2 DEF ResizePowerOff, Doing, At
    <3> QED
      BY <3>1, OffSettles DEF InState
  <2>3. CASE ResizePowerOn
    <3>1. run.target \in Node /\ InState(run.target) /\ PowerOn(run.target) /\ vm' = vm
      BY <1>1, <2>3 DEF ResizePowerOn, Doing, At
    <3> QED
      BY <3>1, OnSettles DEF InState
  <2>4. CASE ResizeGrowDisk
    <3>1. /\ guest' = [guest EXCEPT ![run.target].disk = vm[run.target].disk]
          /\ vm' = vm
      BY <2>4 DEF ResizeGrowDisk
    <3>2. \A m \in Node : guest'[m].power = guest[m].power
      BY <3>1 DEF IInv, TInv, TypeOK
    <3> QED
      BY <3>1, <3>2 DEF Powered, InState, Up, IInv, TInv, TypeOK
  <2>5. CASE \/ ResizeMark \/ ResizePass \/ ResizeProbe \/ ResizePreGate \/ ResizeCordon \/ ResizeDrain
             \/ ResizeWaitReady \/ ResizePostGate \/ ResizeUncordon \/ ResizeNext
             \/ ResizeSave \/ ResizeRender \/ ResizeClear
    <3>1. UNCHANGED infra
      BY <2>5 DEF ResizeMark, Mark, ResizePass, Pass, ResizeProbe, ResizePreGate, ResizeCordon, ResizeDrain,
         ResizeWaitReady, ResizePostGate, ResizeUncordon, ResizeNext, PickNext, ResizeSave, SaveConfig,
         ResizeRender, RenderTfvars, ResizeClear, ClearMarker, infra, kube
    <3> QED
      BY <3>1, StillSettles
  <2> QED
    BY <2>1, <2>2, <2>3, <2>4, <2>5 DEF ResizeStep
<1>3. Cordons' /\ AddMarked' /\ SwitchedOn' /\ StartsUp'
  BY <1>0 DEF Settles, Cordons, AddMarked, SwitchedOn, StartsUp, At
<1>4. Known'
  <2>1. NoNode \notin Node /\ run.todo \subseteq Node
    BY NodeType DEF IInv, TInv, TypeOK, Run
  <2> QED
    BY <1>0, <1>2, <2>1 DEF Settles, Known, At
<1> QED
  BY <1>2, <1>3, <1>4 DEF Settles

LEMMA AddSettles == ASSUME IInv, Settles, AddStep PROVE Settles'
<1>0. /\ run.op = "add" /\ run'.op = "add" /\ AddMarked' /\ UNCHANGED cordoned
      /\ marker'.op = "stop" => marker.op = "stop" /\ registered' = registered
  BY AddFrame DEF Settles
<1>1. Powered'
  <2> USE DEF Settles
  <2>1. CASE AddApply
    <3>1. run.target \in Node /\ TargetedApply(run.target, "create", tfvars.size["worker"])
      BY <1>0, <2>1, NodeType DEF AddApply, Doing, At, IInv, TInv, AddShape, AddSteps
    <3>2. tfvars.size["worker"] \in Size
      BY DEF IInv, TInv, TypeOK, Topology, Role
    <3> QED
      BY <1>0, <3>1, <3>2, ApplySettles
  <2>2. CASE \/ AddMarkWindow \/ AddRevive \/ AddNext \/ AddMark \/ AddPass \/ AddBuildISO \/ AddUploadISO
             \/ AddApproveCSR \/ AddJoined \/ AddSave \/ AddRender \/ AddClear
    <3>1. UNCHANGED infra
      BY <2>2 DEF AddMarkWindow, AddRevive, AddNext, PickNext, AddMark, Mark, AddPass, Pass, AddBuildISO,
         AddUploadISO, AddApproveCSR, AddJoined, AddSave, SaveConfig, AddRender, RenderTfvars, AddClear,
         ClearMarker, infra
    <3> QED
      BY <1>0, <3>1, StillSettles
  <2> QED
    BY <2>1, <2>2 DEF AddStep
<1>2. Cordons' /\ SwitchedOn' /\ StartsUp' /\ Known'
  BY <1>0 DEF Settles, Cordons, SwitchedOn, StartsUp, Known, At
<1> QED
  BY <1>0, <1>1, <1>2 DEF Settles

LEMMA RemoveSettles == ASSUME IInv, Settles, RemoveStep PROVE Settles'
<1>0. /\ run.op = "remove" /\ run'.op = "remove"
      /\ marker'.op = "stop" => marker.op = "stop" /\ registered' = registered /\ cordoned \subseteq cordoned'
  BY RemoveFrame
<1>1. Powered'
  <2> USE DEF Settles
  <2>1. CASE RemoveApply
    <3>1. run.target \in Node /\ TargetedApply(run.target, "delete", Absent)
      BY <1>0, <2>1, NodeType DEF RemoveApply, Doing, At, IInv, TInv, RemoveShape
    <3> QED
      BY <3>1, ApplySettles
  <2>2. CASE RemoveDeleteNode
    BY <2>2 DEF RemoveDeleteNode, infra, Powered, InState, Up
  <2>3. CASE \/ RemoveNext \/ RemoveMark \/ RemovePass \/ RemoveCordon \/ RemoveDrain \/ RemoveSave
             \/ RemoveRender \/ RemoveClear
    <3>1. UNCHANGED infra
      BY <2>3 DEF RemoveNext, PickNext, RemoveMark, Mark, RemovePass, Pass, RemoveCordon, RemoveDrain,
         RemoveSave, SaveConfig, RemoveRender, RenderTfvars, RemoveClear, ClearMarker, infra, kube
    <3> QED
      BY <3>1, StillSettles
  <2> QED
    BY <2>1, <2>2, <2>3 DEF RemoveStep
<1>2. Cordons' /\ AddMarked' /\ SwitchedOn' /\ StartsUp' /\ Known'
  BY <1>0 DEF Settles, Cordons, AddMarked, SwitchedOn, StartsUp, Known, At
<1> QED
  BY <1>1, <1>2 DEF Settles

LEMMA PowerSettles == ASSUME IInv, Settles, PowerStep PROVE Settles'
<1>0. /\ run \in Run /\ run.todo \subseteq Node /\ registered \subseteq Node
      /\ Powered /\ AddMarked /\ Known /\ Cordons /\ SwitchedOn /\ StartsUp
      /\ run.op = "start" /\ run.stage \in {"cluster-ready", "uncordon-all"} => marker.op = "start"
  BY DEF IInv, TInv, TypeOK, Run, Settles, DInv, StartMarked
\* A step of stop and start that keeps its run's kind has four parts to show.
<1>a. ASSUME run'.op = run.op, run.op \in {"stop", "start"}, Powered', Cordons', SwitchedOn', StartsUp',
             At("start", "power-on")' => \A n \in run'.todo : InState(n)'
      PROVE  Settles'
  BY <1>0, <1>a DEF Settles, AddMarked, Known, At
\* What a start has switched on stays on as long as nothing switches a guest off.
<1>c. ASSUME run'.op = run.op, UNCHANGED config,
             \A n \in Configured : guest[n].power # "off" => guest'[n].power # "off",
             run.op = "start" =>
                \/ run.stage = "power-on" /\ run'.stage = run.stage
                   /\ \A n \in run.todo \ run'.todo : n \in Configured => guest'[n].power # "off"
                \/ run.stage = "power-on" /\ run.todo = {}
                \/ run.stage \in {"cluster-ready", "uncordon-all", "clear"} /\ run'.stage # "power-on"
                \/ run'.stage = "power-on" /\ run'.todo = Configured,
             run.op \in {"stop", "start"}
      PROVE  SwitchedOn'
  <2> SUFFICES ASSUME run.op = "start",
                      run'.stage \in {"power-on", "cluster-ready", "uncordon-all", "clear", "done"},
                      NEW n \in Configured
               PROVE  guest'[n].power # "off" \/ (run'.stage = "power-on" /\ n \in run'.todo)
    BY <1>c DEF SwitchedOn, Configured
  <2> QED
    BY <1>0, <1>c DEF SwitchedOn
\* A start that neither wakes nor misleads moves on with what it has counted.
<1>d. ASSUME run'.op = run.op, run.op \in {"stop", "start"}, UNCHANGED <<infra, misled, kube>>,
             run.op = "start" =>
                \/ run'.stage \in {"power-on", "cluster-ready"}
                \/ /\ run.stage \in {"uncordon-all", "clear"}
                   /\ run'.stage \in {"clear", "done"}
                   /\ run.stage = "uncordon-all" => run.todo = {}
      PROVE  StartsUp'
  BY <1>0, <1>d DEF StartsUp, UpOrMisled, Up, infra, kube
\* Most of them only move the run on.
<1>b. ASSUME run'.op = run.op, run.op \in {"stop", "start"}, UNCHANGED infra,
             Cordons', SwitchedOn', StartsUp',
             At("start", "power-on")' => \A n \in run'.todo : InState(n)
      PROVE  Settles'
  BY <1>0, <1>a, <1>b, StillSettles DEF infra, InState
<1>1. CASE StopList \/ StopCordoned
  <2>1. /\ run.op = "stop" /\ run'.op = "stop" /\ run'.todo = registered
        /\ \/ run'.stage = "cordon-all"
           \/ run'.stage = "next" /\ run.stage = "cordon-all" /\ run.todo = {}
        /\ UNCHANGED <<files, infra, kube>>
    BY <1>0, <1>1 DEF StopList, StopCordoned, At, Run
  <2> QED
    BY <2>1, <1>0, <1>b DEF Cordons, SwitchedOn, StartsUp, At, files, kube
<1>2. CASE StopCordonAll
  <2>1. PICK n \in run.todo : cordoned' = cordoned \cup {n} /\ run' = [run EXCEPT !.todo = @ \ {n}]
    BY <1>2 DEF StopCordonAll
  <2>2. /\ run.op = "stop" /\ run.stage = "cordon-all"
        /\ run'.op = run.op /\ run'.stage = run.stage /\ run'.todo = run.todo \ {n}
        /\ UNCHANGED <<files, infra, registered, ready>>
    BY <2>1, <1>0, <1>2 DEF StopCordonAll, At, Run
  <2> QED
    BY <2>1, <2>2, <1>0, <1>b DEF Cordons, SwitchedOn, StartsUp, At, files
<1>3. CASE StopNext
  <2>1. /\ PickNext("stop", "next", "worker", "shutdown", "clear")
        /\ "shutdown" \in Stage /\ "clear" \in Stage /\ TypeOK
    BY <1>3 DEF StopNext, Stage, Step, IInv, TInv
  <2>2. /\ run.op = "stop" /\ run.stage = "next" /\ run'.op = "stop"
        /\ run'.stage \in {"shutdown", "clear"}
    BY <2>1, PickType
  <2>3. UNCHANGED <<files, infra, kube>>
    BY <2>1 DEF PickNext
  <2> QED
    BY <2>2, <2>3, <1>0, <1>b DEF Cordons, SwitchedOn, StartsUp, At, files, kube
<1>4. CASE StopMark \/ StartMark
  <2>1. /\ run.op \in {"stop", "start"} /\ run'.op = run.op /\ run'.stage = run.stage /\ run'.todo = run.todo
        /\ marker'.op = run.op /\ UNCHANGED <<config, infra, misled, kube>>
        /\ run.op = "stop" => run.stage = "shutdown"
        /\ run.op = "start" => run.stage = "power-on"
    BY <1>0, <1>4 DEF StopMark, StartMark, Mark, At, Run, boot
  <2>2. SwitchedOn'
    BY <2>1, <1>c DEF infra
  <2>3. StartsUp'
    BY <2>1, <1>d
  <2> QED
    BY <2>1, <2>2, <2>3, <1>0, <1>b DEF Cordons, Known, At, kube
<1>5. CASE StopShutdown
  <2>1. /\ run.op = "stop" /\ run.stage = "shutdown" /\ GoTo("next") /\ PowerOff(run.target)
        /\ UNCHANGED <<marker, vm, registered, cordoned>>
    BY <1>5 DEF StopShutdown, Doing, At, files
  <2>2. run'.op = "stop" /\ run'.stage = "next"
    BY <2>1, <1>0, GoToRun DEF Stage
  <2>3. Powered'
    <3>1. CASE run.target \in Node
      BY <3>1, <2>1, <1>0, OffSettles
    <3>2. CASE run.target \notin Node
      <4>1. guest' = guest
        BY <3>2, <2>1 DEF PowerOff, IInv, TInv, TypeOK
      <4> QED
        BY <4>1, <2>1, <1>0 DEF Powered, InState
    <3> QED
      BY <3>1, <3>2
  <2> QED
    BY <2>1, <2>2, <2>3, <1>0, <1>a DEF Cordons, SwitchedOn, StartsUp, At
<1>6. CASE StopClear \/ StartClear
  <2>1. /\ GoTo("done") /\ run.op \in {"stop", "start"} /\ run.stage = "clear"
        /\ marker' \in {NoMarker, marker} /\ UNCHANGED <<config, infra, misled, kube>>
    BY <1>6 DEF StopClear, StartClear, ClearMarker, At, boot
  <2>2. run'.op = run.op /\ run'.stage = "done" /\ NoMarker.op = "none"
    BY <2>1, <1>0, GoToRun DEF Stage, NoMarker
  <2>3. Cordons'
    BY <2>1, <2>2, <1>0 DEF Cordons, At, kube
  <2>4. StartsUp'
    BY <2>1, <2>2, <1>d
  <2>5. SwitchedOn'
    BY <2>1, <2>2, <1>c DEF infra
  <2> QED
    BY <2>1, <2>2, <2>3, <2>4, <2>5, <1>b DEF At
<1>7. CASE StartList
  <2>1. /\ run.op = "start" /\ run'.op = "start" /\ run'.stage = "power-on" /\ run'.todo = Configured
        /\ \A n \in Configured : InState(n)
        /\ UNCHANGED <<files, infra, misled, kube>>
    BY <1>0, <1>7 DEF StartList, StartReachable, At, Run, boot
  <2>2. SwitchedOn'
    BY <2>1, <1>c DEF files, infra
  <2> QED
    BY <2>1, <2>2, <1>0, <1>b DEF Cordons, StartsUp, At, files, kube
<1>8. CASE StartPowerOn
  <2>1. PICK n \in run.todo : PowerOn(n) /\ run' = [run EXCEPT !.todo = @ \ {n}]
    BY <1>8 DEF StartPowerOn
  <2>2. /\ run.op = "start" /\ run.stage = "power-on" /\ run'.op = run.op /\ run'.stage = run.stage
        /\ run'.todo = run.todo \ {n} /\ UNCHANGED <<files, vm, kube>>
    BY <2>1, <1>0, <1>8 DEF StartPowerOn, Doing, At, Run
  <2>3. n \in Node /\ InState(n) /\ \A m \in run'.todo : InState(m)
    BY <2>1, <2>2, <1>0 DEF Known, At
  <2>4. Powered'
    BY <2>1, <2>2, <2>3, <1>0, OnSettles DEF kube
  <2>5. SwitchedOn'
    <3>1. n \in Node
      BY <2>3
    <3>2. \A m \in Node :
            guest'[m].power = IF m = n /\ guest[m].power = "off" THEN "booting" ELSE guest[m].power
      BY <2>1, <3>1, OnlyWakes DEF IInv
    <3>3. Configured \subseteq Node
      BY NodeType DEF Configured
    <3> QED
      BY <2>2, <3>1, <3>2, <3>3, <1>c DEF files
  <2> QED
    BY <2>2, <2>3, <2>4, <2>5, <1>0, <1>a DEF Cordons, StartsUp, At, InState, files, kube
<1>9. CASE StartPoweredOn \/ StartUncordoned
  <2>1. /\ run.op = "start" /\ UNCHANGED <<files, infra, misled, kube>>
        /\ \/ GoTo("cluster-ready") /\ run.stage = "power-on"
           \/ GoTo("clear") /\ run.stage = "uncordon-all" /\ run.todo = {}
        /\ run.stage = "power-on" => run.todo = {}
    BY <1>9 DEF StartPoweredOn, StartUncordoned, Doing, At, boot
  <2>2. /\ run'.op = "start"
        /\ \/ run'.stage = "cluster-ready"
           \/ run'.stage = "clear" /\ run.stage = "uncordon-all" /\ run.todo = {}
    BY <2>1, <1>0, GoToRun DEF Stage
  <2>3. Cordons'
    BY <2>1, <2>2, <1>0 DEF Cordons, At, files, kube
  <2>4. StartsUp'
    BY <2>1, <2>2, <1>d
  <2>5. SwitchedOn'
    BY <2>1, <2>2, <1>c DEF files, infra
  <2> QED
    BY <2>1, <2>2, <2>3, <2>4, <2>5, <1>b DEF At
<1>10. CASE StartWait
  <2>1. /\ run.op = "start" /\ run.stage = "cluster-ready" /\ run'.op = "start"
        /\ run'.stage = "uncordon-all" /\ run'.todo = registered
        /\ registered \subseteq ready /\ UNCHANGED <<files, infra, kube>>
        /\ misled' = misled \cup {n \in registered \cap ready : ~Up(n)}
    BY <1>0, <1>10 DEF StartWait, ClusterReady, Count, At, Run
  <2>2. StartsUp'
    BY <2>1, <1>0 DEF StartsUp, UpOrMisled, Up, infra, kube
  <2>3. SwitchedOn'
    BY <2>1, <1>c DEF files, infra
  <2> QED
    BY <2>1, <2>2, <2>3, <1>0, <1>b DEF Cordons, At, files, kube
<1>11. CASE StartUncordonAll
  <2>1. PICK n \in run.todo : cordoned' = cordoned \ {n} /\ run' = [run EXCEPT !.todo = @ \ {n}]
    BY <1>11 DEF StartUncordonAll
  <2>2. /\ run.op = "start" /\ run.stage = "uncordon-all"
        /\ run'.op = run.op /\ run'.stage = run.stage /\ run'.todo = run.todo \ {n}
        /\ UNCHANGED <<files, infra, misled, registered, ready>>
    BY <2>1, <1>0, <1>11 DEF StartUncordonAll, At, Run, boot
  <2>3. StartsUp'
    BY <2>1, <2>2, <1>0 DEF StartsUp, UpOrMisled, Up, infra
  <2>4. SwitchedOn'
    BY <2>2, <1>c DEF files, infra
  <2> QED
    BY <2>2, <2>3, <2>4, <1>0, <1>b DEF Cordons, At, files
<1> QED
  BY <1>1, <1>2, <1>3, <1>4, <1>5, <1>6, <1>7, <1>8, <1>9, <1>10, <1>11 DEF PowerStep

\* A run that starts has everything before it; a resize takes up only nodes with a VM.
LEMMA BeginSettles == ASSUME IInv, Settles, Begin PROVE Settles'
<1>1. /\ marker' \in {NoMarker, marker} /\ UNCHANGED <<config, tfvars, infra, kube>>
      /\ \/ /\ run'.op = "resize" /\ run'.stage = "next" /\ run'.target = NoNode
            /\ \A n \in run'.todo : InState(n)
         \/ run'.op = "add" /\ run'.marked = FALSE
         \/ run'.op = "remove"
         \/ run'.op \in {"stop", "start"} /\ run'.stage = "probe"
  <2>1. CASE BeginResize
    <3>1. PICK q \in ResizeRequests, ack \in Acks : ResizeBegin(q, ack)
      BY <2>1 DEF BeginResize
    <3>2. PICK from \in {NoMarker, marker} :
            /\ Started("resize", "next", ResizeTargets(q.scope), from, ResizeIntent(q))
            /\ marker' \in {NoMarker, marker}
      BY <3>1 DEF ResizeBegin, BeginOp
    <3> QED
      BY <3>1, <3>2 DEF ResizeBegin, Started
  <2>2. CASE BeginAdd
    <3>1. PICK count \in AddCounts, ack \in Acks : AddBegin(count, ack)
      BY <2>2 DEF BeginAdd
    <3> DEFINE intent == AddIntent(AddStart(count), count)
    <3>2. PICK from \in {NoMarker, marker} :
            /\ Started("add", "ignition-up",
                       Remaining(Batch(AddStart(count), count), from), from, intent)
            /\ marker' \in {NoMarker, marker}
      BY <3>1 DEF AddBegin, BeginOp
    <3>3. run'.op = "add" /\ run'.marked = FALSE
      BY <3>2 DEF Started
    <3> QED
      BY <3>1, <3>2, <3>3 DEF AddBegin
  <2>3. CASE BeginRemove
    <3>1. PICK n \in Workers, skipDrain \in RemoveRequests, ack \in Acks :
              RemoveBegin(n, skipDrain, ack)
      BY <2>3 DEF BeginRemove
    <3>2. PICK from \in {NoMarker, marker} :
            /\ Started("remove", "next", {n}, from, RemoveIntent(n, skipDrain))
            /\ marker' \in {NoMarker, marker}
      BY <3>1 DEF RemoveBegin, BeginOp
    <3> QED
      BY <3>1, <3>2 DEF RemoveBegin, Started
  <2>4. CASE BeginStop \/ BeginStart
    BY <2>4 DEF BeginStop, BeginStart, StopBegin, StartBegin, RefuseForeignMarker, Started
  <2> QED
    BY <2>1, <2>2, <2>3, <2>4 DEF Begin
<1>2. NoMarker.op = "none" /\ NoNode \notin Node
  BY NodeType DEF NoMarker
<1>3. Powered'
  BY <1>1, StillSettles DEF Settles, kube
<1>4. \A n : InState(n)' <=> InState(n)
  BY <1>1 DEF InState, infra
<1>5. Known'
  BY <1>1, <1>2, <1>4 DEF Known, At
<1>6. Cordons' /\ AddMarked' /\ SwitchedOn' /\ StartsUp'
  BY <1>1, <1>2 DEF Settles, Cordons, AddMarked, SwitchedOn, StartsUp, At, kube
<1> QED
  BY <1>3, <1>5, <1>6 DEF Settles

LEMMA EndSettles ==
    ASSUME Settles, run' \in {run, IdleRun}, marker' \in {NoMarker, marker}, UNCHANGED <<infra, kube>>,
           run' = run => run.op = "none" \/ UNCHANGED <<marker, config, misled>>
    PROVE  Settles'
<1>1. NoMarker.op = "none" /\ IdleRun.op = "none"
  BY DEF NoMarker, IdleRun
<1>2. Powered' /\ \A n : (InState(n)' <=> InState(n)) /\ (Up(n)' <=> Up(n))
  BY StillSettles DEF Settles, InState, Up, infra, kube
<1> QED
  BY <1>1, <1>2 DEF Settles, Cordons, AddMarked, Known, SwitchedOn, Configured, StartsUp, UpOrMisled, At, infra, kube

\* A guest that boots is up at last; a report says what is.
LEMMA EnvironmentSettles == ASSUME IInv, Settles, Environment PROVE Settles'
<1>1. PICK n \in Node : Boot(n) \/ ReportStatus(n)
  BY DEF Environment
<1>2. \A m \in Node : \/ guest'[m].power = guest[m].power
                      \/ guest[m].power = "booting" /\ guest'[m].power = "up"
  <2>1. guest \in [Node -> [power : {"off", "booting", "up"}, mem : Memory \cup {0}, disk : Disk \cup {0}]]
    BY DEF IInv, TInv, TypeOK
  <2>2. CASE Boot(n)
    <3>1. guest[n].power = "booting" /\ guest' = [guest EXCEPT ![n].power = "up"]
      BY <2>2 DEF Boot
    <3> QED
      BY <2>1, <3>1
  <2>3. CASE ReportStatus(n)
    BY <2>3 DEF ReportStatus, infra
  <2> QED
    BY <1>1, <2>2, <2>3
<1>3. UNCHANGED <<marker, config, vm, registered, cordoned, run>> /\ registered \subseteq Node /\ ready \subseteq Node
  BY <1>1 DEF Boot, ReportStatus, files, infra, kube, IInv, TInv, TypeOK
<1>4. \A m \in misled : m \in misled' \/ (m = n /\ guest'[n].power = "up")
  <2>1. CASE Boot(n)
    <3>1. guest[n].power = "booting" /\ guest' = [guest EXCEPT ![n].power = "up"] /\ misled' = misled \ {n}
      BY <2>1 DEF Boot
    <3>2. guest'[n].power = "up"
      BY <3>1 DEF IInv, TInv, TypeOK
    <3> QED
      BY <3>1, <3>2
  <2>2. CASE ReportStatus(n)
    BY <2>2 DEF ReportStatus, boot
  <2> QED
    BY <1>1, <2>1, <2>2
<1>5. Configured' = Configured /\ Configured \subseteq Node
  BY <1>3, NodeType DEF Configured
<1>6. Powered'
  BY <1>2, <1>3 DEF Settles, Powered, InState
<1>7. StartsUp'
  <2>1. \A m \in Node : UpOrMisled(m) => UpOrMisled(m)'
    BY <1>2, <1>4 DEF UpOrMisled, Up
  <2> QED
    BY <1>3, <2>1 DEF Settles, StartsUp
<1>8. SwitchedOn'
  BY <1>2, <1>3, <1>5 DEF Settles, SwitchedOn
<1>9. Cordons' /\ AddMarked' /\ Known'
  BY <1>3 DEF Settles, Cordons, AddMarked, Known, At, InState
<1> QED
  BY <1>6, <1>7, <1>8, <1>9 DEF Settles

LEMMA InitSettles == Init => Settles
<1> SUFFICES ASSUME Init PROVE Settles
  OBVIOUS
<1>1. /\ run = IdleRun /\ IdleRun.op = "none" /\ IdleRun.stage = "idle"
      /\ marker.op \in {"none", "add"} /\ ready = registered /\ registered \subseteq Node
  BY InitType DEF Init, IdleRun, NoMarker, TInv, TypeOK
<1>2. \A n \in Node : (n \in registered => vm[n] = FirstSize /\ guest[n].power = "up")
                      /\ (n \notin registered => guest[n].power = "off")
  BY DEF Init
<1>3. FirstSize # Absent
  BY FirstSizeType, SizeIsThere
<1> QED
  BY <1>1, <1>2, <1>3 DEF Settles, Cordons, AddMarked, Powered, Known, SwitchedOn, StartsUp, At, InState, Up

LEMMA SettlesStep == ASSUME IInv, Settles, [Next]_vars PROVE Settles'
<1>1. CASE Begin
  BY <1>1, BeginSettles
<1>2. CASE SweepResidue
  BY <1>2, EndSettles DEF SweepResidue, Idle
<1>3. CASE ResizeStep \/ AddStep \/ RemoveStep \/ PowerStep
  BY <1>3, ResizeSettles, AddSettles, RemoveSettles, PowerSettles
<1>4. CASE Return \/ Fail \/ Crash \/ ResizeGivesUp \/ AddGivesUp \/ PowerGivesUp
  <2>1. TInv
    BY DEF IInv
  <2>2. run' = IdleRun /\ UNCHANGED <<files, infra, kube, misled>>
    BY <1>4, <2>1, EndType
  <2>3. IdleRun.op = "none"
    BY DEF IdleRun
  <2> QED
    BY <2>2, <2>3, EndSettles DEF files
<1>5. CASE Environment
  BY <1>5, EnvironmentSettles
<1>6. CASE UNCHANGED vars
  BY <1>6, EndSettles DEF vars, files, boot
<1> QED
  BY <1>1, <1>2, <1>3, <1>4, <1>5, <1>6 DEF Next, Proceed

LEMMA SettlesAlways == Spec => [](IInv /\ Settles)
<1>1. Init => IInv /\ Settles
  BY InitType, InitKeeps, InitSettles DEF IInv
<1>2. IInv /\ Settles /\ [Next]_vars => (IInv /\ Settles)'
  BY IInvStep, SettlesStep
<1> QED
  BY <1>1, <1>2, PTL DEF Spec

\* Once a shutdown is recorded every registered node is cordoned and stays so, and a start
\* that reports success leaves no node of the topology off and every registered one
\* schedulable and up, but for those not up yet whose Ready it counted was stale, whichever
\* partial operations ran before.
THEOREM StopAndStartSettle == Spec => []PowerSettled
<1>1. IInv /\ Settles => PowerSettled
  BY DEF Settles, Cordons, SwitchedOn, StartsUp, UpOrMisled, PowerSettled, At
<1> QED
  BY <1>1, SettlesAlways, PTL

-----------------------------------------------------------------------------
(***************************************************************************)
(* Masters are spared.                                                     *)
(*                                                                         *)
(* The gate before a power-cycle is skipped by a run that resumes at it,   *)
(* so the marker has to carry what the gate found: while a power-cycle of  *)
(* a master is recorded, every other master is up, or not up yet since the     *)
(* gate counted its stale Ready.  The run that resumes                        *)
(* takes the promise over; the masters it rolls before that one break it   *)
(* and restore it at the gate after each.                                  *)
(***************************************************************************)
OthersUp(n) == \A m \in Masters \ {n} : UpOrMisled(m)
\* The stages at which the master being rolled may itself be down.
DownStages == {"power-cycle", "wait-ready", "disk-grow", "post-gate"}
GatedStages == {"cordon", "drain", "tf-apply", "power-cycle"}

CycleRecorded ==
    marker.op = "resize" /\ marker.step = "power-cycle" /\ marker.target \in Masters =>
        OthersUp(marker.target)
CycleAhead ==
    /\ run.from.op = "resize" /\ run.from.step = "power-cycle" /\ run.from.target \in Masters
    /\ \/ /\ run.from.target \in run.todo
          /\ ~(run.target \in Masters /\ run.stage \in DownStages)
       \/ run.from.target = run.target /\ run.stage \in GatedStages \cup {"probe", "pre-gate"}
    => OthersUp(run.from.target)
CycleNow ==
    run.op = "resize" /\ run.target \in Masters /\ run.stage \in GatedStages => OthersUp(run.target)
\* A stop has switched off every worker it is past, and takes the masters last.
StopMarked == run.op = "stop" /\ run.marked => marker.op = "stop"
WorkersOff ==
    run.op = "stop" /\ run.stage \in {"next", "shutdown"} =>
        \A n \in (registered \cap Workers) \ run.todo :
            \/ guest[n].power = "off"
            \/ n = run.target /\ run.stage = "shutdown"
MastersLast == At("stop", "shutdown") /\ run.target \in Masters => run.todo \subseteq Masters

Spares == /\ CycleRecorded /\ CycleAhead /\ CycleNow
          /\ StopMarked /\ WorkersOff /\ MastersLast

\* A gate's miscount lasts until the node is up.
Misleads == \A m \in misled : m \in misled' \/ Up(m)'
StaysUp == \A m \in Masters : UpOrMisled(m) => UpOrMisled(m)'

LEMMA OthersStayUp == ASSUME StaysUp, NEW n, OthersUp(n) PROVE OthersUp(n)'
BY DEF StaysUp, OthersUp

LEMMA MisleadsStep == ASSUME TInv, [Next]_vars PROVE Misleads
<1>1. CASE ResizePreGate \/ ResizePostGate \/ StartWait
  BY <1>1 DEF ResizePreGate, ResizePostGate, StartWait, Count, Misleads
<1>2. CASE Environment
  <2>1. PICK n \in Node : Boot(n) \/ ReportStatus(n)
    BY <1>2 DEF Environment
  <2>2. CASE Boot(n)
    <3>1. guest' = [guest EXCEPT ![n].power = "up"] /\ misled' = misled \ {n}
      BY <2>2 DEF Boot
    <3>2. guest'[n].power = "up"
      BY <3>1 DEF TInv, TypeOK
    <3> QED
      BY <3>1, <3>2 DEF Misleads, Up
  <2>3. CASE ReportStatus(n)
    BY <2>3 DEF ReportStatus, boot, Misleads
  <2> QED
    BY <2>1, <2>2, <2>3
<1>3. CASE ResizeStep /\ ~ResizePreGate /\ ~ResizePostGate
  BY <1>3 DEF ResizeStep, ResizeMark, Mark, ResizePass, Pass, ResizeProbe, ResizeCordon, ResizeDrain,
     ResizeApply, ResizePowerOff, ResizePowerOn, ResizeWaitReady, ResizeGrowDisk, ResizeUncordon,
     ResizeNext, PickNext, ResizeSave, SaveConfig, ResizeRender, RenderTfvars, ResizeClear, ClearMarker,
     boot, Misleads
<1>4. CASE AddStep
  BY <1>4 DEF AddStep, AddMarkWindow, AddRevive, AddNext, PickNext, AddMark, AddPass, Mark, Pass,
     AddBuildISO, AddUploadISO, AddApply, AddApproveCSR, AddJoined, AddSave, SaveConfig,
     AddRender, RenderTfvars, AddClear, ClearMarker, boot, Misleads
<1>5. CASE RemoveStep
  BY <1>5 DEF RemoveStep, RemoveNext, PickNext, RemoveMark, RemovePass, Mark, Pass, RemoveCordon,
     RemoveDrain, RemoveApply, RemoveSave, SaveConfig, RemoveRender, RenderTfvars, RemoveDeleteNode,
     RemoveClear, ClearMarker, boot, Misleads
<1>6. CASE PowerStep /\ ~StartWait
  BY <1>6 DEF PowerStep, StopList, StopCordonAll, StopCordoned, StopNext, PickNext, StopMark, Mark,
     StopShutdown, StopClear, StartList, StartMark, StartPowerOn, StartPoweredOn, StartUncordonAll,
     StartUncordoned, StartClear, ClearMarker, boot, Misleads
<1>7. CASE Begin \/ SweepResidue
  BY <1>7 DEF Begin, BeginResize, ResizeBegin, BeginAdd, AddBegin, BeginRemove, RemoveBegin, BeginStop,
     StopBegin, BeginStart, StartBegin, SweepResidue, boot, Misleads
<1>8. CASE Return \/ Fail \/ Crash \/ ResizeGivesUp \/ AddGivesUp \/ PowerGivesUp
  BY <1>8 DEF Return, Fail, Crash, ResizeGivesUp, AddGivesUp, PowerGivesUp, GiveUp, boot, Misleads
<1>9. CASE UNCHANGED vars
  BY <1>9 DEF vars, boot, Misleads
<1> QED
  BY <1>1, <1>2, <1>3, <1>4, <1>5, <1>6, <1>7, <1>8, <1>9 DEF Next, Proceed

\* A step that moves a resize on, with every master left up.
LEMMA MoveSpares ==
    ASSUME IInv, Spares, NEW s \in Stage, GoTo(s), marker' \in {NoMarker, marker}, StaysUp,
           run.op = "resize",
           s \in GatedStages =>
               \/ run.stage \in GatedStages
               \/ run.stage = "pre-gate"
                  /\ (IsMaster => \A m \in Masters \ {run.target} : UpOrMisled(m)'),
           s \in {"probe", "pre-gate"} => run.stage = "probe",
           IsMaster /\ run.stage \in DownStages /\ s \notin DownStages =>
               \A m \in Masters : UpOrMisled(m)'
    PROVE  Spares'
<1>1. /\ run'.stage = s /\ run'.marked = FALSE
      /\ run'.op = run.op /\ run'.target = run.target /\ run'.todo = run.todo
      /\ run'.from = run.from /\ run'.intent = run.intent
  BY GoToRun DEF IInv, TInv, TypeOK
<1>2. CycleRecorded'
  BY OthersStayUp DEF Spares, CycleRecorded, NoMarker
<1>3. CycleAhead'
  <2>1. SUFFICES ASSUME run.from.op = "resize", run.from.step = "power-cycle", run.from.target \in Masters,
                        \/ /\ run.from.target \in run.todo
                           /\ ~(run.target \in Masters /\ s \in DownStages)
                        \/ run.from.target = run.target /\ s \in GatedStages \cup {"probe", "pre-gate"}
                 PROVE  \A m \in Masters \ {run.from.target} : UpOrMisled(m)'
    BY <1>1 DEF CycleAhead, OthersUp
  <2>2. CASE /\ run.from.target \in run.todo
             /\ ~(run.target \in Masters /\ s \in DownStages)
    BY <2>1, <2>2 DEF Spares, CycleAhead, OthersUp, IsMaster, StaysUp
  <2>3. CASE run.from.target = run.target /\ s \in GatedStages \cup {"probe", "pre-gate"}
    BY <2>1, <2>3 DEF Spares, CycleAhead, OthersUp, StaysUp, GatedStages
  <2> QED
    BY <2>1, <2>2, <2>3
<1>4. CycleNow'
  BY <1>1 DEF Spares, CycleNow, IsMaster, OthersUp, StaysUp, GatedStages
<1>5. StopMarked' /\ WorkersOff' /\ MastersLast'
  BY <1>1 DEF StopMarked, WorkersOff, MastersLast, At
<1> QED
  BY <1>2, <1>3, <1>4, <1>5 DEF Spares

\* The effects of a resize leave every master up but the one it power-cycles.
LEMMA ResizeStaysUp ==
    ASSUME TInv, Misleads, ResizeStep, ~ResizePowerOff
    PROVE  StaysUp
<1>1. CASE ResizeApply
  <2>1. guest' = [guest EXCEPT ![run.target] = @]
    BY <1>1 DEF ResizeApply, TargetedApply
  <2> QED
    BY <2>1, NodeType DEF StaysUp, UpOrMisled, Misleads, Up, TInv, TypeOK
<1>2. CASE ResizePowerOn
  <2>1. guest[run.target].power = "off" /\ PowerOn(run.target)
    BY <1>2 DEF ResizePowerOn
  <2>2. \A m \in Masters : m # run.target => guest'[m] = guest[m]
    BY <2>1, NodeType DEF PowerOn, TInv, TypeOK
  <2> QED
    BY <2>1, <2>2 DEF StaysUp, UpOrMisled, Misleads, Up
<1>3. CASE ResizeGrowDisk
  <2>1. guest' = [guest EXCEPT ![run.target].disk = vm[run.target].disk]
    BY <1>3 DEF ResizeGrowDisk
  <2> QED
    BY <2>1, NodeType DEF StaysUp, UpOrMisled, Misleads, Up, TInv, TypeOK
<1>4. CASE \/ ResizeMark \/ ResizePass \/ ResizeProbe \/ ResizePreGate \/ ResizeCordon \/ ResizeDrain
           \/ ResizeWaitReady \/ ResizePostGate \/ ResizeUncordon \/ ResizeNext
           \/ ResizeSave \/ ResizeRender \/ ResizeClear
  <2>1. guest' = guest
    BY <1>4 DEF ResizeMark, Mark, ResizePass, Pass, ResizeProbe, ResizePreGate, ResizeCordon, ResizeDrain,
       ResizeWaitReady, ResizePostGate, ResizeUncordon, ResizeNext, PickNext, ResizeSave, SaveConfig,
       ResizeRender, RenderTfvars, ResizeClear, ClearMarker, infra
  <2> QED
    BY <2>1 DEF StaysUp, UpOrMisled, Misleads, Up
<1> QED
  BY <1>1, <1>2, <1>3, <1>4 DEF ResizeStep

\* What a gate counts as Ready is up, or misled about from now on.
LEMMA AllReadyAllUp ==
    ASSUME EtcdHealthy, Count(Masters), guest' = guest
    PROVE  \A m \in Masters : UpOrMisled(m)'
BY DEF EtcdHealthy, Count, UpOrMisled, Up

LEMMA ResizeSpares == ASSUME IInv, Misleads, Spares, ResizeStep PROVE Spares'
<1>0. run.op = "resize" /\ run \in Run
  BY ResizeFrame DEF IInv, TInv, TypeOK
<1>a. ~ResizePowerOff => StaysUp
  BY ResizeStaysUp DEF IInv
<1>1. CASE ResizeMark
  <2>1. PICK s \in ResizeSteps : Mark("resize", s)
    BY <1>1 DEF ResizeMark
  <2>2. /\ marker' = [op |-> "resize", target |-> run.target, step |-> s, intent |-> run.intent]
        /\ run'.stage = s /\ run.stage = s
        /\ run'.op = run.op /\ run'.target = run.target /\ run'.todo = run.todo
        /\ run'.from = run.from
    BY <2>1, MarkType, ResizeStepsAreSteps DEF Op, IInv, TInv
  <2>3. \A n : OthersUp(n) => OthersUp(n)'
    BY <2>1 DEF Mark, OthersUp, UpOrMisled, Misleads, Up, infra
  <2>4. CycleRecorded'
    BY <1>0, <2>2, <2>3 DEF Spares, CycleRecorded, CycleNow, GatedStages
  <2>5. CycleAhead' /\ CycleNow'
    BY <2>2, <2>3 DEF Spares, CycleAhead, CycleNow
  <2> QED
    BY <1>0, <2>2, <2>4, <2>5 DEF Spares, StopMarked, WorkersOff, MastersLast, At
<1>2. CASE ResizeNext
  <2>1. PickNext("resize", "next", "master", "probe", "save")
        /\ "probe" \in Stage /\ "save" \in Stage /\ TypeOK
    BY <1>2 DEF ResizeNext, Stage, IInv, TInv
  <2>2. /\ run.op = "resize" /\ run.stage = "next" /\ run'.op = run.op /\ run'.from = run.from
        /\ \/ run'.stage = "save" /\ run.todo = {} /\ run'.todo = {} /\ run'.target = NoNode
           \/ run'.stage = "probe" /\ run'.target \in run.todo /\ run'.todo = run.todo \ {run'.target}
    BY <2>1, PickType
  <2>3. UNCHANGED <<marker, infra>>
    BY <2>1 DEF PickNext, files
  <2>4. \A n : OthersUp(n) => OthersUp(n)'
    BY <2>3 DEF OthersUp, UpOrMisled, Misleads, Up, infra
  <2>5. CycleAhead'
    BY <2>2, <2>4 DEF Spares, CycleAhead, DownStages, GatedStages
  <2>6. CycleRecorded' /\ CycleNow'
    BY <2>2, <2>3, <2>4 DEF Spares, CycleRecorded, CycleNow, GatedStages
  <2> QED
    BY <2>2, <2>5, <2>6 DEF Spares, StopMarked, WorkersOff, MastersLast, At
<1>3. CASE ResizePowerOff
  <2>1. /\ run.marked /\ run.stage = "power-cycle" /\ run' = run /\ marker' = marker
        /\ PowerOff(run.target)
    BY <1>3 DEF ResizePowerOff, Doing, At, files
  <2>2. marker.op = "resize" /\ marker.step = "power-cycle" /\ marker.target = run.target
    BY <1>0, <2>1 DEF IInv, DInv, MarkedShape
  <2>3. \A m \in Node : m # run.target => guest'[m] = guest[m]
    BY <2>1 DEF PowerOff, IInv, TInv, TypeOK
  <2>4. \A n : OthersUp(n) /\ (n = run.target \/ run.target \notin Masters) => OthersUp(n)'
    BY <2>3, NodeType DEF OthersUp, UpOrMisled, Misleads, Up
  <2>5. CycleRecorded' /\ CycleNow'
    BY <2>1, <2>2, <2>4 DEF Spares, CycleRecorded, CycleNow
  <2>6. CycleAhead'
    BY <2>1, <2>4 DEF Spares, CycleAhead, DownStages
  <2> QED
    BY <1>0, <2>1, <2>5, <2>6 DEF Spares, StopMarked, WorkersOff, MastersLast, At
<1>4. CASE ResizePass
  <2>1. PICK s \in ResizeSteps : Pass("resize", s, AfterStep(s))
    BY <1>4 DEF ResizePass
  <2>2. /\ GoTo(AfterStep(s)) /\ run.stage = s /\ marker' = marker /\ guest' = guest
    BY <2>1 DEF Pass, At, files, infra
  <2>3. /\ AfterStep(s) \in Stage
        /\ AfterStep(s) \in GatedStages => s \in GatedStages
        /\ AfterStep(s) \notin {"probe", "pre-gate"}
        /\ s \in DownStages => AfterStep(s) \in DownStages
    BY DEF AfterStep, ResizeSteps, Stage, Step, GatedStages, DownStages
  <2>4. StaysUp
    BY <2>2 DEF StaysUp, UpOrMisled, Misleads, Up
  <2>5. run.stage \in DownStages => AfterStep(s) \in DownStages
    BY <2>2, <2>3
  <2>6. AfterStep(s) \in GatedStages => run.stage \in GatedStages
    BY <2>2, <2>3
  <2> DEFINE next == AfterStep(s)
  <2> HIDE DEF next
  <2>7. /\ next \in Stage /\ GoTo(next) /\ next \notin {"probe", "pre-gate"}
        /\ run.stage \in DownStages => next \in DownStages
        /\ next \in GatedStages => run.stage \in GatedStages
    BY <2>2, <2>3, <2>5, <2>6 DEF next
  <2> QED
    BY <1>0, <2>2, <2>4, <2>7, MoveSpares
<1>5. CASE ResizePreGate
  <2>1. GoTo("cordon") /\ run.stage = "pre-gate" /\ marker' = marker /\ guest' = guest
        /\ (IsMaster /\ ~SkipPreGate => EtcdHealthy /\ Count(Masters))
    BY <1>5 DEF ResizePreGate, At, files, infra
  <2>3. StaysUp /\ "cordon" \in Stage
    BY <2>1 DEF StaysUp, UpOrMisled, Misleads, Up, Stage, Step
  <2>2. IsMaster => \A m \in Masters \ {run.target} : UpOrMisled(m)'
    <3>1. CASE IsMaster /\ SkipPreGate
      <4>1. run.from.target = run.target /\ run.from.step = "power-cycle"
        BY <3>1, ResumeStepType DEF SkipPreGate
      <4>2. run.from.op = "resize"
        BY <1>0, <4>1 DEF IInv, DInv, FromShape, Resuming, NoMarker
      <4> QED
        BY <2>1, <2>3, <3>1, <4>1, <4>2 DEF Spares, CycleAhead, IsMaster, OthersUp, StaysUp
    <3>2. CASE IsMaster /\ ~SkipPreGate
      BY <2>1, <3>2, AllReadyAllUp
    <3> QED
      BY <3>1, <3>2
  <2> QED
    BY <1>0, <2>1, <2>2, <2>3, MoveSpares DEF DownStages
<1>6. CASE ResizePostGate
  <2>1. GoTo("uncordon") /\ run.stage = "post-gate" /\ marker' = marker /\ guest' = guest
        /\ (IsMaster => EtcdHealthy /\ Count(Masters))
    BY <1>6 DEF ResizePostGate, At, files, infra
  <2>2. StaysUp /\ "uncordon" \in Stage /\ (IsMaster => \A m \in Masters : UpOrMisled(m)')
    BY <2>1, AllReadyAllUp DEF StaysUp, UpOrMisled, Misleads, Up, Stage, Step
  <2> QED
    BY <1>0, <2>1, <2>2, MoveSpares DEF GatedStages
<1>7. CASE \/ ResizeProbe \/ ResizeCordon \/ ResizeDrain \/ ResizeApply \/ ResizePowerOn
           \/ ResizeWaitReady \/ ResizeGrowDisk \/ ResizeUncordon
           \/ ResizeSave \/ ResizeRender \/ ResizeClear
  <2>1. \E s \in Stage :
          /\ GoTo(s)
          /\ s \in GatedStages => run.stage \in GatedStages
          /\ s \in {"probe", "pre-gate"} => run.stage = "probe"
          /\ run.stage \in DownStages => s \in DownStages
          /\ s # run.stage
    <3>1. \E s \in Stage : GoTo(s) /\ <<run.stage, s>> \in
             {<<"probe", "pre-gate">>, <<"probe", "next">>, <<"cordon", "drain">>, <<"drain", "tf-apply">>,
              <<"tf-apply", "power-cycle">>, <<"power-cycle", "wait-ready">>, <<"wait-ready", "disk-grow">>,
              <<"disk-grow", "post-gate">>, <<"uncordon", "next">>, <<"save", "render">>,
              <<"render", "clear">>, <<"clear", "done">>}
      BY <1>7 DEF ResizeProbe, ResizeCordon, ResizeDrain, ResizeApply, ResizePowerOn, ResizeWaitReady,
         ResizeGrowDisk, ResizeUncordon, ResizeSave, SaveConfig, ResizeRender, RenderTfvars, ResizeClear,
         ClearMarker, Doing, At, Stage, Step
    <3> QED
      BY <3>1 DEF GatedStages, DownStages
  <2>2. marker' \in {NoMarker, marker}
    BY <1>7 DEF ResizeProbe, ResizeCordon, ResizeDrain, ResizeApply, ResizePowerOn, ResizeWaitReady,
         ResizeGrowDisk, ResizeUncordon, ResizeSave, SaveConfig, ResizeRender, RenderTfvars, ResizeClear,
         ClearMarker, files
  <2>3. StaysUp
    <3>1. run' # run
      BY <1>0, <2>1, GoToRun
    <3> QED
      BY <3>1, <1>a DEF ResizePowerOff
  <2> QED
    BY <1>0, <2>1, <2>2, <2>3, MoveSpares
<1> QED
  BY <1>1, <1>2, <1>3, <1>4, <1>5, <1>6, <1>7 DEF ResizeStep

\* Whatever is not a resize leaves the promise alone, as long as masters stay up.
LEMMA OthersSpare ==
    ASSUME IInv, Spares, StaysUp, run'.op = run.op, run'.from = run.from, run.op \notin {"resize", "stop"},
           marker'.op = "resize" => marker' = marker
    PROVE  Spares'
<1>1. run.from.op # "resize"
  BY DEF IInv, DInv, FromShape, Resuming, NoMarker
<1>2. CycleRecorded'
  BY OthersStayUp DEF Spares, CycleRecorded
<1> QED
  BY <1>1, <1>2 DEF Spares, CycleAhead, CycleNow, StopMarked, WorkersOff, MastersLast, At

LEMMA WorkerApplyStaysUp ==
    ASSUME TInv, Misleads, NEW n \in Workers, NEW want, NEW w, TargetedApply(n, want, w)
    PROVE  StaysUp
<1>1. \A m \in Masters : guest'[m] = guest[m]
  BY NodeType DEF TargetedApply, TInv, TypeOK
<1> QED
  BY <1>1 DEF StaysUp, UpOrMisled, Misleads, Up

LEMMA AddSpares == ASSUME IInv, Misleads, Spares, AddMarked, AddStep PROVE Spares'
<1>1. run.op = "add" /\ run'.op = "add" /\ run \in Run
  BY AddFrame DEF IInv, TInv, TypeOK
<1>2. run'.from = run.from
  <2>1. CASE AddMark \/ AddMarkWindow \/ AddNext \/ AddApproveCSR
    BY <1>1, <2>1 DEF AddMark, Mark, AddMarkWindow, AddNext, PickNext, AddApproveCSR, Run
  <2>2. CASE AddPass
    <3>1. PICK s \in AddSteps : GoTo(AfterAddStep(s))
      BY <2>2 DEF AddPass, Pass
    <3> QED
      BY <1>1, <3>1 DEF GoTo, Run
  <2>3. CASE \/ AddRevive \/ AddBuildISO \/ AddUploadISO \/ AddApply \/ AddJoined
             \/ AddSave \/ AddRender \/ AddClear
    <3>1. \E s \in Stage : GoTo(s)
      BY <2>3 DEF AddRevive, AddBuildISO, AddUploadISO, AddApply, AddJoined, AddSave, SaveConfig,
         AddRender, RenderTfvars, AddClear, ClearMarker, Stage, Step
    <3> QED
      BY <1>1, <3>1, GoToRun
  <2> QED
    BY <2>1, <2>2, <2>3 DEF AddStep
<1>3. marker'.op = "resize" => marker' = marker
  <2>1. CASE AddMark \/ AddMarkWindow
    BY <2>1 DEF AddMark, Mark, AddMarkWindow
  <2>2. CASE \/ AddNext \/ AddPass \/ AddRevive \/ AddBuildISO \/ AddUploadISO \/ AddApply \/ AddApproveCSR
             \/ AddJoined \/ AddSave \/ AddRender \/ AddClear
    <3>1. marker' \in {NoMarker, marker}
      BY <2>2 DEF AddRevive, AddNext, PickNext, AddPass, Pass, AddBuildISO, AddUploadISO, AddApply,
         AddApproveCSR, AddJoined, AddSave, SaveConfig, AddRender, RenderTfvars, AddClear, ClearMarker, files
    <3> QED
      BY <3>1 DEF NoMarker
  <2> QED
    BY <2>1, <2>2 DEF AddStep
<1>4. StaysUp
  <2>1. CASE AddApply
    <3>1. run.target \in Workers
      BY <1>1, <2>1 DEF AddApply, Doing, At, IInv, TInv, AddShape, AddSteps
    <3> QED
      BY <2>1, <3>1, WorkerApplyStaysUp DEF AddApply, IInv
  <2>2. CASE ~AddApply
    BY <2>2 DEF AddStep, AddMarkWindow, AddRevive, AddNext, PickNext, AddMark, AddPass, Mark, Pass, AddBuildISO,
       AddUploadISO, AddApproveCSR, AddJoined, AddSave, SaveConfig, AddRender, RenderTfvars, AddClear,
       ClearMarker, infra, StaysUp, UpOrMisled, Misleads, Up
  <2> QED
    BY <2>1, <2>2
<1> QED
  BY <1>1, <1>2, <1>3, <1>4, OthersSpare

LEMMA RemoveSpares == ASSUME IInv, Misleads, Spares, RemoveStep PROVE Spares'
<1>1. run.op = "remove" /\ run'.op = "remove" /\ run \in Run
  BY RemoveFrame DEF IInv, TInv, TypeOK
<1>2. run'.from = run.from
  <2>1. CASE RemoveMark \/ RemoveNext
    BY <1>1, <2>1 DEF RemoveMark, Mark, RemoveNext, PickNext, Run
  <2>2. CASE RemovePass
    <3>1. PICK s \in RemoveSteps : GoTo(AfterRemoveStep(s))
      BY <2>2 DEF RemovePass, Pass
    <3> QED
      BY <1>1, <3>1 DEF GoTo, Run
  <2>3. CASE \/ RemoveCordon \/ RemoveDrain \/ RemoveApply \/ RemoveSave \/ RemoveRender
             \/ RemoveDeleteNode \/ RemoveClear
    <3>1. \E s \in Stage : GoTo(s)
      BY <2>3 DEF RemoveCordon, RemoveDrain, RemoveApply, RemoveSave, SaveConfig, RemoveRender,
         RenderTfvars, RemoveDeleteNode, RemoveClear, ClearMarker, Stage, Step
    <3> QED
      BY <1>1, <3>1, GoToRun
  <2> QED
    BY <2>1, <2>2, <2>3 DEF RemoveStep
<1>3. marker'.op = "resize" => marker' = marker
  <2>1. CASE RemoveMark
    BY <2>1 DEF RemoveMark, Mark
  <2>2. CASE \/ RemoveNext \/ RemovePass \/ RemoveCordon \/ RemoveDrain \/ RemoveApply \/ RemoveSave
             \/ RemoveRender \/ RemoveDeleteNode \/ RemoveClear
    <3>1. marker' \in {NoMarker, marker}
      BY <2>2 DEF RemoveNext, PickNext, RemovePass, Pass, RemoveCordon, RemoveDrain, RemoveApply, RemoveSave,
         SaveConfig, RemoveRender, RenderTfvars, RemoveDeleteNode, RemoveClear, ClearMarker, files
    <3> QED
      BY <3>1 DEF NoMarker
  <2> QED
    BY <2>1, <2>2 DEF RemoveStep
<1>4. StaysUp
  <2>1. CASE RemoveApply
    <3>1. run.target \in Workers
      BY <1>1, <2>1 DEF RemoveApply, Doing, At, IInv, TInv, RemoveShape
    <3> QED
      BY <2>1, <3>1, WorkerApplyStaysUp DEF RemoveApply, IInv
  <2>2. CASE ~RemoveApply
    BY <2>2 DEF RemoveStep, RemoveNext, PickNext, RemoveMark, RemovePass, Mark, Pass, RemoveCordon,
       RemoveDrain, RemoveSave, SaveConfig, RemoveRender, RenderTfvars, RemoveDeleteNode, RemoveClear,
       ClearMarker, infra, StaysUp, UpOrMisled, Misleads, Up
  <2> QED
    BY <2>1, <2>2
<1> QED
  BY <1>1, <1>2, <1>3, <1>4, OthersSpare

\* What a stop has to show of its own part.
LEMMA StopSpares ==
    ASSUME IInv, Spares, run.op = "stop", run'.op = "stop", run'.from = run.from,
           marker'.op = "resize" => marker' = marker /\ StaysUp,
           StopMarked', WorkersOff', MastersLast'
    PROVE  Spares'
<1>1. run.from.op # "resize"
  BY DEF IInv, DInv, FromShape, Resuming, NoMarker
<1>2. CycleRecorded'
  BY OthersStayUp DEF Spares, CycleRecorded
<1> QED
  BY <1>1, <1>2 DEF Spares, CycleAhead, CycleNow

LEMMA PowerSpares == ASSUME IInv, Misleads, Spares, PowerStep PROVE Spares'
<1>0. run \in Run /\ (run.marked \in BOOLEAN)
  BY DEF IInv, TInv, TypeOK, Run
<1>1. CASE StopList \/ StopCordonAll
  <2>1. /\ run.op = "stop" /\ run'.op = "stop" /\ run'.from = run.from /\ run'.stage = "cordon-all"
        /\ run'.marked = run.marked /\ UNCHANGED <<files, infra>>
    BY <1>0, <1>1 DEF StopList, StopCordonAll, At, Run
  <2> QED
    BY <2>1, StopSpares DEF Spares, StopMarked, WorkersOff, MastersLast, At, files, infra, StaysUp, UpOrMisled, Misleads, Up
<1>2. CASE StopCordoned
  <2>1. /\ run.op = "stop" /\ run'.op = "stop" /\ run'.from = run.from /\ run'.stage = "next"
        /\ run'.todo = registered /\ run'.marked = run.marked /\ UNCHANGED <<files, infra, kube>>
    BY <1>0, <1>2 DEF StopCordoned, At, Run
  <2> QED
    BY <2>1, StopSpares DEF Spares, StopMarked, WorkersOff, MastersLast, At, files, infra, kube, StaysUp, UpOrMisled, Misleads, Up
<1>3. CASE StopNext
  <2>1. /\ PickNext("stop", "next", "worker", "shutdown", "clear")
        /\ "shutdown" \in Stage /\ "clear" \in Stage /\ TypeOK
    BY <1>3 DEF StopNext, Stage, Step, IInv, TInv
  <2>2. /\ run.op = "stop" /\ run.stage = "next" /\ run'.op = run.op /\ run'.from = run.from
        /\ \/ run'.stage = "clear" /\ run.todo = {} /\ run'.todo = {} /\ run'.target = NoNode
           \/ run'.stage = "shutdown" /\ run'.target \in run.todo /\ run'.todo = run.todo \ {run'.target}
    BY <2>1, PickType
  <2>3. UNCHANGED <<files, infra, kube>> /\ run'.marked = run.marked
    BY <2>1, <1>0 DEF PickNext, Run
  <2>4. run'.stage = "shutdown" /\ run'.target \in Masters => run'.todo \subseteq Masters
    <3>1. run'.stage = "shutdown" => \A m \in run.todo : Precedes(run'.target, m, "worker")
      BY <2>1, <1>0, ZenonT(40) DEF PickNext, Run
    <3>2. run.todo \subseteq Node
      BY <1>0 DEF Run
    <3> QED
      BY <2>2, <3>1, <3>2 DEF Precedes, Masters, Workers, Node
  <2>5. WorkersOff'
    BY <2>2, <2>3 DEF Spares, WorkersOff, infra, kube
  <2>6. StopMarked' /\ MastersLast'
    BY <2>2, <2>3, <2>4 DEF Spares, StopMarked, MastersLast, At, files
  <2> QED
    BY <2>2, <2>3, <2>5, <2>6, StopSpares DEF files, infra, StaysUp, UpOrMisled, Misleads, Up
<1>4. CASE StopMark
  <2>1. /\ run.op = "stop" /\ run'.op = run.op /\ run'.from = run.from /\ run'.stage = run.stage
        /\ run'.todo = run.todo /\ run'.target = run.target /\ marker'.op = "stop" /\ UNCHANGED <<infra, kube>>
    BY <1>0, <1>4 DEF StopMark, Mark, At, Run
  <2> QED
    BY <2>1, StopSpares DEF Spares, StopMarked, WorkersOff, MastersLast, At, infra, kube
<1>5. CASE StopShutdown
  <2>1. /\ run.op = "stop" /\ run.stage = "shutdown" /\ run.marked /\ GoTo("next") /\ PowerOff(run.target)
        /\ marker' = marker /\ registered' = registered
    BY <1>5 DEF StopShutdown, Doing, At, files
  <2>2. /\ run'.op = run.op /\ run'.from = run.from /\ run'.stage = "next" /\ run'.todo = run.todo
        /\ run'.marked = FALSE
    BY <2>1, <1>0, GoToRun DEF Stage
  <2>3. marker.op = "stop"
    BY <2>1 DEF Spares, StopMarked
  <2>4. \A n \in Node : guest'[n].power = IF n = run.target THEN "off" ELSE guest[n].power
    BY <2>1 DEF PowerOff, IInv, TInv, TypeOK
  <2>5. WorkersOff'
    BY <2>1, <2>2, <2>4, NodeType DEF Spares, WorkersOff
  <2> QED
    BY <2>1, <2>2, <2>3, <2>5, StopSpares DEF StopMarked, MastersLast, At
<1>6. CASE StopClear
  <2>1. /\ run.op = "stop" /\ GoTo("done") /\ marker' \in {NoMarker, marker} /\ guest' = guest
    BY <1>6 DEF StopClear, ClearMarker, At, infra
  <2>2. run'.op = run.op /\ run'.from = run.from /\ run'.stage = "done" /\ run'.marked = FALSE
    BY <2>1, <1>0, GoToRun DEF Stage
  <2> QED
    BY <2>1, <2>2, StopSpares DEF StopMarked, WorkersOff, MastersLast, At, StaysUp, UpOrMisled, Misleads, Up, NoMarker
<1>7. CASE StartList \/ StartMark \/ StartWait \/ StartUncordonAll \/ StartPowerOn
  <2>1. /\ run.op = "start" /\ run'.op = run.op /\ run'.from = run.from
        /\ marker'.op = "resize" => marker' = marker
    <3>1. CASE StartMark
      BY <1>0, <3>1 DEF StartMark, Mark, At, Run
    <3>2. CASE StartList \/ StartWait \/ StartUncordonAll \/ StartPowerOn
      <4>1. run.op = "start" /\ marker' = marker
        BY <3>2 DEF StartList, StartWait, StartUncordonAll, StartPowerOn, Doing, At, files
      <4>2. run'.op = run.op /\ run'.from = run.from
        BY <1>0, <3>2 DEF StartList, StartWait, StartUncordonAll, StartPowerOn, Run
      <4> QED
        BY <4>1, <4>2
    <3> QED
      BY <1>7, <3>1, <3>2
  <2>2. StaysUp
    <3>1. CASE StartPowerOn
      <4>1. PICK n \in run.todo : PowerOn(n)
        BY <3>1 DEF StartPowerOn
      <4> DEFINE g == [guest[n] EXCEPT
                         !.power = IF @ = "off" THEN "booting" ELSE @,
                         !.mem = IF guest[n].power = "off" THEN vm[n].mem ELSE @]
      <4>2. n \in Node /\ guest' = [guest EXCEPT ![n] = g]
        BY <4>1, <1>0 DEF PowerOn, IInv, TInv, TypeOK, Run
      <4>3. guest[n].power = "up" => g.power = "up"
        BY <4>2 DEF IInv, TInv, TypeOK
      <4> HIDE DEF g
      <4> QED
        BY <4>2, <4>3, NodeType DEF StaysUp, UpOrMisled, Misleads, Up, IInv, TInv, TypeOK
    <3>2. CASE StartList \/ StartMark \/ StartWait \/ StartUncordonAll
      BY <3>2 DEF StartList, StartMark, Mark, StartWait, StartUncordonAll, infra, StaysUp, UpOrMisled, Misleads, Up
    <3> QED
      BY <1>7, <3>1, <3>2
  <2> QED
    BY <2>1, <2>2, OthersSpare
<1>8. CASE StartPoweredOn \/ StartUncordoned \/ StartClear
  <2>1. /\ run.op = "start" /\ \E s \in Stage : GoTo(s)
        /\ marker' \in {NoMarker, marker} /\ guest' = guest
    BY <1>8 DEF StartPoweredOn, StartUncordoned, StartClear, ClearMarker, Doing, At, Stage, files, infra
  <2>2. run'.op = run.op /\ run'.from = run.from
    BY <2>1, <1>0, GoToRun
  <2> QED
    BY <2>1, <2>2, OthersSpare DEF StaysUp, UpOrMisled, Misleads, Up, NoMarker
<1> QED
  BY <1>1, <1>2, <1>3, <1>4, <1>5, <1>6, <1>7, <1>8 DEF PowerStep

\* A run that starts takes over what its marker recorded.
LEMMA BeginSpares == ASSUME IInv, Misleads, Spares, Begin PROVE Spares'
<1>1. /\ run'.from \in {NoMarker, marker} /\ run'.marked = FALSE
      /\ run'.stage \in {"next", "ignition-up", "probe"}
      /\ run'.op = "stop" => run'.stage = "probe"
      /\ marker' \in {NoMarker, marker} /\ guest' = guest
  <2>1. CASE BeginResize
    BY <2>1 DEF BeginResize, ResizeBegin, BeginOp, Started, infra
  <2>2. CASE BeginAdd
    <3>1. PICK count \in AddCounts, ack \in Acks : AddBegin(count, ack)
      BY <2>2 DEF BeginAdd
    <3> DEFINE start == AddStart(count)
               intent == AddIntent(start, count)
    <3>2. PICK from \in {NoMarker, marker} :
             /\ Started("add", "ignition-up", Remaining(Batch(start, count), from), from, intent)
             /\ marker' \in {NoMarker, marker}
      BY <3>1 DEF AddBegin, BeginOp
    <3>3. guest' = guest
      BY <3>1 DEF AddBegin, infra
    <3>4. run'.op = "add" /\ run'.from = from /\ run'.marked = FALSE /\ run'.stage = "ignition-up"
      BY <3>2 DEF Started
    <3> QED
      BY <3>2, <3>3, <3>4
  <2>3. CASE BeginRemove
    BY <2>3 DEF BeginRemove, RemoveBegin, BeginOp, Started, infra
  <2>4. CASE BeginStop \/ BeginStart
    BY <2>4 DEF BeginStop, BeginStart, StopBegin, StartBegin, RefuseForeignMarker, Started, infra
  <2> QED
    BY <2>1, <2>2, <2>3, <2>4 DEF Begin
<1>2. NoMarker.op = "none" /\ \A n : OthersUp(n) => OthersUp(n)'
  BY <1>1 DEF NoMarker, OthersUp, UpOrMisled, Misleads, Up
<1>3. CycleRecorded'
  BY <1>1, <1>2 DEF Spares, CycleRecorded
<1>4. CycleAhead'
  BY <1>1, <1>2 DEF Spares, CycleRecorded, CycleAhead
<1>5. CycleNow'
  BY <1>1 DEF CycleNow, GatedStages
<1> QED
  BY <1>1, <1>3, <1>4, <1>5 DEF Spares, StopMarked, WorkersOff, MastersLast, At

\* Where nothing is switched off and no run goes on: guests boot, reports come in.
LEMMA RestSpares ==
    ASSUME Spares, run' \in {run, IdleRun}, marker' \in {NoMarker, marker}, StaysUp,
           run' = run => run.op = "none" \/ marker' = marker, registered' = registered,
           \A n \in Workers : guest[n].power = "off" => guest'[n].power = "off"
    PROVE  Spares'
<1>1. NoMarker.op = "none" /\ IdleRun.op = "none" /\ IdleRun.from.op = "none"
  BY DEF NoMarker, IdleRun
<1>2. CycleRecorded' /\ CycleAhead' /\ CycleNow'
  BY <1>1, OthersStayUp DEF Spares, CycleRecorded, CycleAhead, CycleNow
<1>3. StopMarked' /\ WorkersOff' /\ MastersLast'
  BY <1>1 DEF Spares, StopMarked, WorkersOff, MastersLast, At
<1> QED
  BY <1>2, <1>3 DEF Spares

LEMMA EnvironmentSpares == ASSUME IInv, Misleads, Spares, Environment PROVE Spares'
<1>1. PICK n \in Node : Boot(n) \/ ReportStatus(n)
  BY DEF Environment
<1>2. UNCHANGED <<marker, registered, run>>
  BY <1>1 DEF Boot, ReportStatus, files, kube
<1>3. \A m \in Node : guest'[m].power = guest[m].power \/ guest[m].power = "booting"
  <2>1. CASE Boot(n)
    <3>1. guest[n].power = "booting" /\ guest' = [guest EXCEPT ![n].power = "up"]
      BY <2>1 DEF Boot
    <3> QED
      BY <3>1 DEF IInv, TInv, TypeOK
  <2>2. CASE ReportStatus(n)
    BY <2>2 DEF ReportStatus, infra
  <2> QED
    BY <1>1, <2>1, <2>2
<1>4. StaysUp /\ \A m \in Workers : guest[m].power = "off" => guest'[m].power = "off"
  BY <1>3, NodeType DEF StaysUp, UpOrMisled, Misleads, Up
<1> QED
  BY <1>2, <1>4, RestSpares

LEMMA SparesStep ==
    ASSUME IInv, Settles, Spares, [Next]_vars
    PROVE  Spares'
<1>0. AddMarked /\ Misleads
  BY MisleadsStep DEF Settles, IInv
<1>1. CASE Begin
  BY <1>0, <1>1, BeginSpares
<1>2. CASE SweepResidue
  BY <1>0, <1>2, RestSpares DEF SweepResidue, Idle, infra, kube, StaysUp, UpOrMisled, Misleads, Up
<1>3. CASE ResizeStep \/ AddStep \/ RemoveStep \/ PowerStep
  BY <1>0, <1>3, ResizeSpares, AddSpares, RemoveSpares, PowerSpares
<1>4. CASE Return \/ Fail \/ Crash \/ ResizeGivesUp \/ AddGivesUp \/ PowerGivesUp
  <2>1. TInv
    BY DEF IInv
  <2>2. run' = IdleRun /\ UNCHANGED <<files, infra, kube>>
    BY <1>4, <2>1, EndType
  <2>3. run' = run => run.op = "none"
    BY <2>2 DEF IdleRun
  <2> QED
    BY <1>0, <2>2, <2>3, RestSpares DEF files, infra, kube, StaysUp, UpOrMisled, Misleads, Up
<1>5. CASE Environment
  BY <1>0, <1>5, EnvironmentSpares
<1>6. CASE UNCHANGED vars
  BY <1>0, <1>6, RestSpares DEF vars, files, infra, kube, StaysUp, UpOrMisled, Misleads, Up
<1> QED
  BY <1>1, <1>2, <1>3, <1>4, <1>5, <1>6 DEF Next, Proceed

LEMMA InitSpares == Init => Spares
BY DEF Init, IdleRun, NoMarker, Spares, CycleRecorded, CycleAhead, CycleNow, StopMarked, WorkersOff,
   MastersLast, At

LEMMA SparesAlways == Spec => [](IInv /\ Spares)
<1>1. Init => Spares
  BY InitSpares
<1>2. IInv /\ Settles /\ Spares /\ [Next]_vars => Spares'
  BY SparesStep
<1> QED
  BY <1>1, <1>2, SettlesAlways, PTL DEF Spec

\* Who switches a master off: a resize at its recorded power-cycle, or a stop.
LEMMA WhoStopsAMaster ==
    ASSUME IInv, [Next]_vars, NEW m \in Masters, guest[m].power # "off", guest'[m].power = "off"
    PROVE  /\ run.op = "resize" => run.stage = "power-cycle" /\ run.target = m
           /\ run.op = "stop" => run.stage = "shutdown" /\ run.target = m
<1>1. CASE ResizeStep
  <2>1. CASE ResizePowerOff
    BY <2>1, NodeType DEF ResizePowerOff, PowerOff, Doing, At, IInv, TInv, TypeOK
  <2>2. CASE ~ResizePowerOff
    <3>1. CASE ResizeApply
      <4>1. guest' = [guest EXCEPT ![run.target] = @]
        BY <3>1 DEF ResizeApply, TargetedApply
      <4> QED
        BY <4>1, NodeType DEF IInv, TInv, TypeOK
    <3>2. CASE ResizePowerOn
      <4>1. guest[run.target].power = "off" /\ PowerOn(run.target)
        BY <3>2 DEF ResizePowerOn
      <4>2. m # run.target => guest'[m] = guest[m]
        BY <4>1, NodeType DEF PowerOn, IInv, TInv, TypeOK
      <4> QED
        BY <4>1, <4>2
    <3>3. CASE ResizeGrowDisk
      <4>1. guest' = [guest EXCEPT ![run.target].disk = vm[run.target].disk]
        BY <3>3 DEF ResizeGrowDisk
      <4> QED
        BY <4>1, NodeType DEF IInv, TInv, TypeOK
    <3>4. CASE ~(ResizeApply \/ ResizePowerOn \/ ResizeGrowDisk)
      BY <1>1, <2>2, <3>4 DEF ResizeStep, ResizeMark, Mark, ResizePass, Pass, ResizeProbe, ResizePreGate,
         ResizeCordon, ResizeDrain, ResizeWaitReady, ResizePostGate, ResizeUncordon, ResizeNext, PickNext,
         ResizeSave, SaveConfig, ResizeRender, RenderTfvars, ResizeClear, ClearMarker, infra
    <3> QED
      BY <3>1, <3>2, <3>3, <3>4
  <2> QED
    BY <2>1, <2>2
<1>2. CASE AddStep \/ RemoveStep
  <2>1. run.op \in {"add", "remove"}
    BY <1>2 DEF AddStep, AddMarkWindow, AddRevive, AddNext, PickNext, AddMark, AddPass, Mark, Pass,
           AddBuildISO, AddUploadISO, AddApply, AddApproveCSR, AddJoined, AddSave, SaveConfig,
           AddRender, RenderTfvars, AddClear, ClearMarker, RemoveStep, RemoveNext, RemoveMark, RemovePass,
           RemoveCordon, RemoveDrain, RemoveApply, RemoveSave, RemoveRender, RemoveDeleteNode,
           RemoveClear, Doing, At
  <2> QED
    BY <2>1
<1>3. CASE PowerStep
  <2>1. CASE StopShutdown
    BY <2>1, NodeType DEF StopShutdown, PowerOff, Doing, At, IInv, TInv, TypeOK
  <2>2. CASE StartList \/ StartMark \/ StartPowerOn \/ StartPoweredOn
             \/ StartWait \/ StartUncordonAll \/ StartUncordoned \/ StartClear
    <3>1. run.op = "start"
      BY <2>2 DEF StartList, StartMark, Mark, StartPowerOn, StartPoweredOn, StartWait, StartUncordonAll,
         StartUncordoned, StartClear, ClearMarker, Doing, At
    <3> QED
      BY <3>1
  <2>3. CASE StopList \/ StopCordonAll \/ StopCordoned \/ StopNext \/ StopMark \/ StopClear
    BY <2>3 DEF StopList, StopCordonAll, StopCordoned, StopNext, PickNext, StopMark, Mark, StopClear,
       ClearMarker, infra
  <2> QED
    BY <1>3, <2>1, <2>2, <2>3 DEF PowerStep
<1>4. CASE Begin
  BY <1>4 DEF Begin, BeginResize, ResizeBegin, BeginAdd, AddBegin, BeginRemove, RemoveBegin, BeginStop,
     StopBegin, BeginStart, StartBegin, infra
<1>5. CASE SweepResidue \/ UNCHANGED vars
  BY <1>5 DEF SweepResidue, vars, infra
<1>6. CASE Return \/ Fail \/ Crash \/ ResizeGivesUp \/ AddGivesUp \/ PowerGivesUp
  <2>1. TInv
    BY DEF IInv
  <2> QED
    BY <1>6, <2>1, EndType DEF infra
<1>7. CASE Environment
  <2>1. PICK n \in Node : Boot(n) \/ ReportStatus(n)
    BY <1>7 DEF Environment
  <2> QED
    BY <2>1, NodeType DEF Boot, ReportStatus, infra, IInv, TInv, TypeOK
<1> QED
  BY <1>1, <1>2, <1>3, <1>4, <1>5, <1>6, <1>7 DEF Next, Proceed

\* Whatever was interrupted, resumed past its gate or overridden before, a resize stops
\* a master only while every other one is up, or not up yet since a gate counted a Ready
\* that was no longer true, and a stop switches masters off only after every worker.
THEOREM SparesMasters == Spec => MastersSpared
<1>1. IInv /\ Spares /\ [Next]_vars =>
        [\A m \in Masters : guest[m].power # "off" /\ guest'[m].power = "off" =>
          /\ run.op = "resize" => \A n \in Masters \ {m} : Up(n) \/ n \in misled
          /\ run.op = "stop" => \A n \in registered \cap Workers : guest[n].power = "off"]_vars
  <2> SUFFICES ASSUME IInv, Spares, [Next]_vars, NEW m \in Masters,
                      guest[m].power # "off", guest'[m].power = "off"
               PROVE  /\ run.op = "resize" => \A n \in Masters \ {m} : Up(n) \/ n \in misled
                      /\ run.op = "stop" => \A n \in registered \cap Workers : guest[n].power = "off"
    OBVIOUS
  <2>1. run.op = "resize" => \A n \in Masters \ {m} : Up(n) \/ n \in misled
    BY WhoStopsAMaster DEF Spares, CycleNow, GatedStages, OthersUp, UpOrMisled
  <2>2. run.op = "stop" => \A n \in registered \cap Workers : guest[n].power = "off"
    BY WhoStopsAMaster, NodeType DEF Spares, WorkersOff, MastersLast, At
  <2> QED
    BY <2>1, <2>2
<1> QED
  BY <1>1, SparesAlways, PTL DEF Spec, MastersSpared

-----------------------------------------------------------------------------
(***************************************************************************)
(* Nothing is left behind.                                                 *)
(*                                                                         *)
(* Where the operator resizes, adds and removes, and never overrides what  *)
(* is recorded, the marker names all that may be unfinished.  What each    *)
(* recorded operation may have left is stated of the marker (AddOpen,      *)
(* RemoveOpen, ResizeOpen) and what a run has done so far of the run; a    *)
(* marker is cleared only where both together say that nothing is left.    *)
(***************************************************************************)
Unforced == Acks \subseteq {FALSE} /\ Verbs \subseteq {"resize", "add", "remove"}

Below(k) == {n \in Workers : n[2] < k}
Placed == {n \in Workers : InState(n)}
Joined == registered \cap Workers
Total(i) == i.start + i.count
OfBatch(i) == Batch(i.start, i.count)
Working == ResizeSteps \cup {"probe", "pre-gate", "wait-ready", "post-gate"}

\* A marker that something may be unfinished under: not the residue of an old add.
Recording == \/ marker.op \in {"resize", "remove"}
             \/ marker.op = "add" /\ marker.intent # NoIntent

\* Only the recorded operation runs, and it takes up what was recorded.
Sole ==
    /\ run.op \notin {"stop", "start"} /\ marker.op \notin {"stop", "start"}
    /\ marker.op = "none" => marker = NoMarker
    /\ marker.op = "add" /\ marker.intent = NoIntent =>
          marker.target \in Workers /\ marker.target[2] < config.workers
    /\ Recording /\ ~Idle => marker.op = run.op /\ marker.intent = run.intent
    /\ Resuming /\ run.stage # "done" => Recording
    /\ run.from.op \in {"none", run.op}

\* With nothing recorded, the VMs, the nodes, okdctl.yaml and tfvars agree.
Quiet ==
    /\ Masters \subseteq registered
    /\ ~Recording => tfvars = config /\ cordoned = {}
    /\ ~Recording \/ marker.op = "resize" =>
          Placed = Below(config.workers) /\ Joined = Below(config.workers)

\* Under a recorded batch: the workers before it, and some of its own.
AddOpen ==
    marker.op = "add" /\ marker.intent # NoIntent =>
        /\ marker.intent.count > 0 /\ Total(marker.intent) =< MaxWorkers
        /\ marker.target \in OfBatch(marker.intent)
        /\ config.workers \in {marker.intent.start, Total(marker.intent)}
        /\ Below(marker.intent.start) \subseteq Joined
        /\ Joined \subseteq Placed /\ Placed \subseteq Below(Total(marker.intent))
        /\ Below(marker.target[2]) \subseteq Joined
        /\ config.workers = Total(marker.intent) => Joined = Below(Total(marker.intent))
        /\ cordoned = {}
AddRun ==
    run.op = "add" =>
        /\ run.marked \/ run.stage \notin {"ignition-up", "done"} => Recording
        /\ ~Recording /\ run.stage # "done" => run.intent.start = config.workers
        /\ run.todo \subseteq OfBatch(run.intent)
        /\ \A n \in OfBatch(run.intent) :
              n \in run.todo \/ n \in Joined \/ (run.stage \in AddSteps /\ n = run.target)
        /\ run.stage \in AddSteps =>
              run.target \in OfBatch(run.intent) /\ \A m \in run.todo : run.target[2] < m[2]
        /\ run.stage \in {"save", "render", "clear", "done"} => run.todo = {}
        /\ run.stage \in {"render", "clear", "done"} => config.workers = Total(run.intent)
        /\ run.stage \in {"clear", "done"} => tfvars = config
\* No VM before its boot ISO reached the hypervisor.
Boots(m) ==
    m.op = "add" =>
        /\ m.target \in Workers /\ m.step \in AddSteps \cup {"ignition-up"}
        /\ m.step = "upload-iso" => iso[m.target] # "none"
        /\ m.step \in {"tf-apply", "wait-join"} => iso[m.target] = "uploaded"
IsoFirst ==
    /\ Boots(marker) /\ Boots(run.from)
    /\ \A n \in Placed : iso[n] = "uploaded"
    /\ At("add", "upload-iso") => iso[run.target] # "none"
    /\ run.op = "add" /\ run.stage \in {"tf-apply", "wait-join"} => iso[run.target] = "uploaded"

\* Under a recorded removal: the worker may still have its VM, its node and its count.
RemoveOpen ==
    marker.op = "remove" =>
        /\ marker.target \in Workers /\ marker.intent.scope = marker.target
        /\ Below(marker.target[2]) \subseteq Placed \cap Joined
        /\ Placed \cup Joined \subseteq Below(marker.target[2] + 1)
        /\ config.workers \in {marker.target[2], marker.target[2] + 1}
        /\ config.workers = marker.target[2] => marker.target \notin Placed
        /\ marker.step = "delete-node" => config.workers = marker.target[2] /\ tfvars = config
        /\ cordoned \subseteq {marker.target}
RemoveRun ==
    run.op = "remove" =>
        /\ run.intent.scope \in Workers /\ run.todo \subseteq {run.intent.scope}
        /\ run.stage \in RemoveSteps \cup {"save", "render"} => run.target = run.intent.scope
        /\ ~Recording /\ run.stage # "done" =>
              /\ config.workers = run.intent.scope[2] + 1
              /\ run.stage \in {"next", "cordon", "drain", "tf-apply"}
              /\ run.stage = "next" => run.todo # {}
        /\ run.from.step = "delete-node" /\ run.stage \in {"next", "cordon", "drain", "tf-apply"} =>
              config.workers = run.intent.scope[2] /\ tfvars = config
        /\ run.stage \in {"save", "render", "delete-node"} => run.intent.scope \notin Placed
        /\ run.stage \in {"render", "delete-node"} => config.workers = run.intent.scope[2]
        /\ run.stage = "delete-node" => tfvars = config
        /\ run.stage \in {"clear", "done"} \/ (run.stage = "next" /\ run.todo = {}) =>
              /\ config.workers = run.intent.scope[2] /\ tfvars = config /\ cordoned = {}
              /\ Placed = Below(config.workers) /\ Joined = Below(config.workers)

\* Under a recorded resize: its node may be cordoned, and the ones before it have landed.
Landed(i, n) == vm[n] = Wanted(i, n[1])
Past(m) ==
    m.op = "resize" =>
        /\ m.target \in ResizeTargets(m.intent.scope)
        /\ \A n \in ResizeTargets(m.intent.scope) : n[2] < m.target[2] => Landed(m.intent, n)
        /\ m.step \in {"power-cycle", "disk-grow", "uncordon"} => Landed(m.intent, m.target)
ResizeOpen ==
    /\ Past(marker)
    /\ marker.op = "resize" =>
          /\ cordoned \subseteq IF Drains(marker.intent) THEN {marker.target} ELSE {}
          /\ marker.intent.askDisk = 0 => \A r \in Role : tfvars.size[r].disk = config.size[r].disk
\* The node that a resume takes up is still ahead.
Ahead ==
    /\ Resuming
    /\ \/ run.from.target \in run.todo
       \/ run.stage \in Working /\ run.from.target = run.target
ResizeRun ==
    run.op = "resize" =>
        /\ Past(run.from)
        /\ run.todo \subseteq ResizeTargets(run.intent.scope)
        /\ run.stage \in Working =>
              /\ run.target \in ResizeTargets(run.intent.scope)
              /\ \A m \in run.todo : run.target[2] < m[2]
        /\ \A n \in ResizeTargets(run.intent.scope) :
              n \in run.todo \/ Landed(run.intent, n) \/ (run.stage \in Working /\ n = run.target)
        /\ run.stage \in {"power-cycle", "wait-ready", "disk-grow", "post-gate", "uncordon"} =>
              Landed(run.intent, run.target)
        /\ Resuming /\ run.from.target \in run.todo =>
              run.stage \in {"next", "probe"} /\ marker = run.from
        /\ Resuming /\ run.stage \in Working /\ run.from.target = run.target =>
              marker.target = run.target
        /\ IF run.stage \in Working \ {"probe", "pre-gate"}
           THEN cordoned # {} => cordoned = {run.target} /\ marker.target = run.target
           ELSE ~Ahead => cordoned = {}
        /\ ~Recording => /\ run.stage \in {"next", "probe", "pre-gate", "cordon", "drain", "tf-apply", "done"}
                         /\ run.stage = "next" => run.todo # {}
        /\ run.stage \in {"save", "render", "clear", "done"} => run.todo = {}
        /\ run.stage \in {"clear", "done"} => tfvars = config

AllTold == /\ Sole /\ Quiet /\ AddOpen /\ AddRun /\ IsoFirst
           /\ RemoveOpen /\ RemoveRun /\ ResizeOpen /\ ResizeRun

\* Indices tell the nodes of one role apart.
LEMMA Indices ==
    /\ \A n \in Workers : n[1] = "worker" /\ n[2] \in Nat /\ n[2] < MaxWorkers
    /\ \A n, m \in Workers : n[2] = m[2] => n = m
    /\ \A n \in Masters : n[1] = "master" /\ n[2] \in Nat
    /\ \A n, m \in Masters : n[2] = m[2] => n = m
<1>1. \A n \in Workers : n = <<"worker", n[2]>> /\ n[1] = "worker" /\ n[2] \in Nat /\ n[2] < MaxWorkers
  BY ClusterAssumption DEF Workers
<1>2. \A n \in Masters : n = <<"master", n[2]>> /\ n[1] = "master" /\ n[2] \in Nat
  BY ClusterAssumption DEF Masters
<1>3. \A n, m \in Workers : n[2] = m[2] => n = m
  <2> SUFFICES ASSUME NEW n \in Workers, NEW m \in Workers, n[2] = m[2] PROVE n = m
    OBVIOUS
  <2>1. n = <<"worker", n[2]>> /\ m = <<"worker", m[2]>>
    BY <1>1
  <2> QED
    BY <2>1
<1>4. \A n, m \in Masters : n[2] = m[2] => n = m
  <2> SUFFICES ASSUME NEW n \in Masters, NEW m \in Masters, n[2] = m[2] PROVE n = m
    OBVIOUS
  <2>1. n = <<"master", n[2]>> /\ m = <<"master", m[2]>>
    BY <1>2
  <2> QED
    BY <2>1
<1> QED
  BY <1>1, <1>2, <1>3, <1>4

LEMMA BatchIs ==
    ASSUME NEW s \in Nat, NEW c \in Nat, s + c =< MaxWorkers
    PROVE  \A n : n \in Batch(s, c) <=> n \in Workers /\ s =< n[2] /\ n[2] < s + c
<1>1. \A n : n \in Batch(s, c) => n \in Workers /\ s =< n[2] /\ n[2] < s + c
  BY ClusterAssumption DEF Batch, Workers
<1>2. \A n \in Workers : s =< n[2] /\ n[2] < s + c => n \in Batch(s, c)
  BY ClusterAssumption DEF Batch, Workers
<1> QED
  BY <1>1, <1>2

\* The targets of a resize are of one role, and their indices tell them apart.
LEMMA TargetsOfOneRole ==
    ASSUME TInv, NEW scope \in Scope, scope[1] \in Role
    PROVE  /\ ResizeTargets(scope) \subseteq Node
           /\ \A n \in ResizeTargets(scope) : n[1] \in Role /\ n[2] \in Nat
           /\ \A n, m \in ResizeTargets(scope) : n[1] = m[1] /\ (n[2] = m[2] => n = m)
<1>1. ResizeTargets(scope) \subseteq registered /\ registered \subseteq Node
  BY DEF ResizeTargets, TInv, TypeOK
<1>2. CASE scope[2] = -1
  <2>1. ResizeTargets(scope) \subseteq Masters \/ ResizeTargets(scope) \subseteq Workers
    BY <1>2 DEF ResizeTargets, OfRole, Role
  <2> QED
    BY <1>1, <2>1, Indices, NodeType DEF Role
<1>3. CASE scope[2] # -1
  <2>1. \A n \in ResizeTargets(scope) : n = scope
    BY <1>3 DEF ResizeTargets
  <2> QED
    BY <1>1, <2>1, Indices, NodeType DEF Node
<1> QED
  BY <1>2, <1>3

\* What AllTold speaks of.
told == <<marker, config, tfvars, vm, registered, cordoned, iso, run>>
LEMMA NothingTold == ASSUME AllTold, UNCHANGED told PROVE AllTold'
<1> USE DEF told
<1>1. Sole' /\ Quiet'
  BY DEF AllTold, Sole, Quiet, Recording, Idle, Resuming, Placed, Joined, Below, InState
<1>2. AddOpen' /\ AddRun' /\ IsoFirst'
  BY DEF AllTold, AddOpen, AddRun, IsoFirst, Boots, Recording, Placed, Joined, Below, InState, At
<1>3. RemoveOpen' /\ RemoveRun'
  BY DEF AllTold, RemoveOpen, RemoveRun, Recording, Placed, Joined, Below, InState
<1>4. ResizeOpen'
  BY DEF AllTold, ResizeOpen, Past, Landed, Wanted, ResizeTargets
<1>5. ResizeRun'
  BY DEF AllTold, ResizeRun, Past, Landed, Wanted, ResizeTargets, Ahead, Resuming, Recording
<1> QED
  BY <1>1, <1>2, <1>3, <1>4, <1>5 DEF AllTold


-----------------------------------------------------------------------------
(* An add under its record *)

\* A step that leaves the record, the topology and the cluster as they are.
LEMMA SameTold ==
    ASSUME AllTold, run.stage # "done",
           UNCHANGED <<marker, config, tfvars, vm, registered, cordoned>>,
           run'.op = run.op, run'.intent = run.intent, run'.from = run.from
    PROVE  Sole' /\ Quiet' /\ AddOpen' /\ RemoveOpen' /\ ResizeOpen'
<1>1. /\ Recording' <=> Recording
      /\ Placed' = Placed /\ Joined' = Joined /\ \A k : Below(k)' = Below(k)
  BY DEF Recording, Placed, Joined, Below, InState
<1>2. Sole'
  BY <1>1 DEF AllTold, Sole, Idle, Resuming
<1>3. Quiet' /\ AddOpen' /\ RemoveOpen'
  BY <1>1 DEF AllTold, Quiet, AddOpen, RemoveOpen
<1>4. ResizeOpen'
  BY DEF AllTold, ResizeOpen, Past, Landed, Wanted, ResizeTargets
<1> QED
  BY <1>2, <1>3, <1>4

\* What a run of add knows of its batch and of the marker it works under.
LEMMA AddFacts ==
    ASSUME IInv, AllTold, run.op = "add"
    PROVE  /\ run \in Run /\ run.intent.start \in Nat /\ run.intent.count \in Nat
           /\ run.intent.count > 0 /\ Total(run.intent) =< MaxWorkers
           /\ run.intent # NoIntent
           /\ \A n : n \in OfBatch(run.intent) <=>
                 n \in Workers /\ run.intent.start =< n[2] /\ n[2] < Total(run.intent)
           /\ marker.op \in {"none", "add"}
           /\ Recording => marker.op = "add" /\ marker.intent = run.intent
           /\ run.todo \subseteq Workers
           /\ run.stage \in AddSteps => run.target \in Workers
<1>1. /\ run \in Run /\ run.intent \in Intent /\ marker \in Marker
      /\ run.intent.count > 0 /\ run.intent.start + run.intent.count =< MaxWorkers
      /\ run.todo \subseteq Workers
      /\ run.stage \in AddSteps => run.target \in Workers
  BY DEF IInv, TInv, TypeOK, AddShape, Run
<1>2. run.intent.start \in Nat /\ run.intent.count \in Nat
  BY <1>1, ClusterAssumption DEF Intent
<1>3. run.intent # NoIntent
  BY <1>1 DEF NoIntent
<1>4. Recording => marker.op = "add" /\ marker.intent = run.intent
  BY DEF AllTold, Sole, Idle
<1>5. marker.op \in {"none", "add"}
  BY <1>1, <1>4 DEF AllTold, Sole, Recording, Marker, Op
<1>6. /\ run.intent.start + run.intent.count =< MaxWorkers
      /\ \A n : n \in Batch(run.intent.start, run.intent.count) <=>
            n \in Workers /\ run.intent.start =< n[2] /\ n[2] < run.intent.start + run.intent.count
  BY <1>1, <1>2, BatchIs
<1> QED
  BY <1>1, <1>2, <1>3, <1>4, <1>5, <1>6 DEF OfBatch, Total


LEMMA AddTells == ASSUME IInv, Settles, AllTold, AddStep PROVE AllTold'
<1> DEFINE S == run.intent.start
           T == Total(run.intent)
           B == OfBatch(run.intent)
<1>0. /\ run.op = "add" /\ run.stage # "done"
      /\ run \in Run /\ S \in Nat /\ run.intent.count \in Nat
      /\ run.intent.count > 0 /\ T =< MaxWorkers /\ T = S + run.intent.count
      /\ run.intent # NoIntent
      /\ \A n : n \in B <=> n \in Workers /\ S =< n[2] /\ n[2] < T
      /\ marker.op \in {"none", "add"}
      /\ Recording => marker.op = "add" /\ marker.intent = run.intent
      /\ run.todo \subseteq Workers
      /\ run.stage \in AddSteps => run.target \in Workers
      /\ MaxWorkers \in Nat /\ config.workers \in 0 .. MaxWorkers
      /\ iso \in [Workers -> {"none", "built", "uploaded"}]
  <2>1. run.op = "add" /\ run.stage # "done"
    BY DEF AddStep, AddMarkWindow, AddRevive, AddNext, PickNext, AddMark, AddPass, Mark, Pass,
           AddBuildISO, AddUploadISO, AddApply, AddApproveCSR, AddJoined, AddSave, SaveConfig,
           AddRender, RenderTfvars, AddClear, ClearMarker, Doing, At, AddSteps
  <2>2. MaxWorkers \in Nat /\ config.workers \in 0 .. MaxWorkers
        /\ iso \in [Workers -> {"none", "built", "uploaded"}]
    BY ClusterAssumption DEF IInv, TInv, TypeOK, Topology
  <2> QED
    BY <2>1, <2>2, AddFacts DEF Total
\* What an open batch says, of the batch of this run.
<1>O. Recording =>
        /\ marker.target \in B
        /\ config.workers \in {S, T}
        /\ Below(S) \subseteq Joined /\ Joined \subseteq Placed /\ Placed \subseteq Below(T)
        /\ Below(marker.target[2]) \subseteq Joined
        /\ config.workers = T => Joined = Below(T)
        /\ cordoned = {}
  BY <1>0 DEF AllTold, AddOpen
<1>R. /\ run.marked \/ run.stage # "ignition-up" => Recording
      /\ run.todo \subseteq B
      /\ \A n \in B : n \in run.todo \/ n \in Joined \/ (run.stage \in AddSteps /\ n = run.target)
      /\ run.stage \in AddSteps => run.target \in B /\ \A m \in run.todo : run.target[2] < m[2]
      /\ run.stage \in {"save", "render", "clear"} => run.todo = {}
      /\ run.stage \in {"render", "clear"} => config.workers = T
      /\ run.stage = "clear" => tfvars = config
  BY <1>0 DEF AllTold, AddRun
<1> HIDE DEF S, T, B
\* Nothing is said of a removal or of a resize.
<1>V. ASSUME run'.op = "add", marker'.op \in {"none", "add"}
      PROVE  RemoveOpen' /\ RemoveRun' /\ ResizeOpen' /\ ResizeRun'
  BY <1>V DEF RemoveOpen, RemoveRun, ResizeOpen, Past, ResizeRun
<1>1. CASE AddMarkWindow
  <2>1. /\ run.stage = "ignition-up" /\ run.marked = FALSE
        /\ marker' = [op |-> "add", target |-> <<"worker", S>>,
                      step |-> "ignition-up", intent |-> run.intent]
        /\ run' = [run EXCEPT !.marked = TRUE]
        /\ UNCHANGED <<config, tfvars, vm, registered, cordoned, iso>>
    BY <1>0, <1>1 DEF AddMarkWindow, At, infra, kube, boot, Run, S
  <2>2. /\ run'.op = "add" /\ run'.stage = run.stage /\ run'.target = run.target
        /\ run'.todo = run.todo /\ run'.from = run.from /\ run'.intent = run.intent
        /\ marker'.op = "add" /\ marker'.target = <<"worker", S>> /\ marker'.step = "ignition-up"
        /\ marker'.intent = run.intent
    BY <1>0, <2>1 DEF Run
  <2>3. <<"worker", S>> \in B /\ <<"worker", S>>[2] = S /\ <<"worker", S>> \in Workers
    BY <1>0, ClusterAssumption DEF Workers
  <2>4. /\ config.workers \in {S, T} /\ Below(S) \subseteq Joined
        /\ Joined \subseteq Placed /\ Placed \subseteq Below(T)
        /\ config.workers = T => Joined = Below(T)
        /\ cordoned = {}
    <3>1. CASE Recording
      BY <1>O, <3>1
    <3>2. CASE ~Recording
      <4>1. config.workers = S
        BY <1>0, <3>2 DEF AllTold, AddRun, S
      <4>2. Placed = Below(S) /\ Joined = Below(S) /\ cordoned = {}
        BY <4>1, <3>2 DEF AllTold, Quiet
      <4>3. Below(S) \subseteq Below(T) /\ T # S
        BY <1>0, Indices DEF Below
      <4> QED
        BY <4>1, <4>2, <4>3
    <3> QED
      BY <3>1, <3>2
  <2>5. /\ Recording' /\ Placed' = Placed /\ Joined' = Joined /\ \A k : Below(k)' = Below(k)
    BY <2>1, <2>2, <1>0 DEF Recording, Placed, Joined, Below, InState
  <2>6. Sole'
    BY <2>2, <2>5, <1>0 DEF AllTold, Sole, Idle, Resuming
  <2>7. Quiet'
    BY <2>1, <2>2, <2>5 DEF AllTold, Quiet
  <2>8. AddOpen'
    BY <2>1, <2>2, <2>3, <2>4, <2>5, <1>0 DEF AddOpen, S, T, B
  <2>9. AddRun'
    BY <2>1, <2>2, <2>5, <1>0 DEF AllTold, AddRun
  <2>10. IsoFirst'
    BY <2>1, <2>2, <2>3, <2>5 DEF AllTold, IsoFirst, Boots, At
  <2> QED
    BY <1>V, <2>2, <2>6, <2>7, <2>8, <2>9, <2>10 DEF AllTold
\* The other steps are taken under the record, which all but the last keep or renew.
<1>K. ASSUME UNCHANGED <<marker, config, tfvars, vm, registered, cordoned>>,
             run'.op = "add", run'.intent = run.intent, run'.from = run.from, AddRun', IsoFirst'
      PROVE  AllTold'
  BY <1>0, <1>V, <1>K, SameTold DEF AllTold
<1>2. CASE AddRevive
  <2>1. /\ GoTo("next") /\ run.stage = "ignition-up" /\ Recording
        /\ UNCHANGED <<marker, config, tfvars, vm, registered, cordoned, iso>>
    BY <1>0, <1>2, <1>R DEF AddRevive, At, files, infra, kube, AllTold, Sole
  <2>2. /\ run'.op = "add" /\ run'.stage = "next" /\ run'.todo = run.todo
        /\ run'.from = run.from /\ run'.intent = run.intent
    BY <1>0, <2>1, GoToRun DEF Stage
  <2>3. Recording' /\ Joined' = Joined /\ Placed' = Placed
    BY <2>1 DEF Recording, Joined, Placed, InState
  <2>4. AddRun'
    BY <1>0, <1>R, <2>1, <2>2, <2>3 DEF AddRun, AddSteps, B
  <2>5. IsoFirst'
    BY <2>1, <2>2, <2>3 DEF AllTold, IsoFirst, Boots, At
  <2> QED
    BY <1>K, <2>1, <2>2, <2>4, <2>5
<1>3. CASE AddNext
  <2>1. PickNext("add", "next", "worker", "build-iso", "save")
    BY <1>3 DEF AddNext
  <2>2. /\ run.stage = "next" /\ run'.op = "add"
        /\ run'.from = run.from /\ run'.intent = run.intent
        /\ \/ run'.stage = "save" /\ run.todo = {} /\ run'.todo = {}
           \/ /\ run'.stage = "build-iso" /\ run'.target \in run.todo
              /\ run'.todo = run.todo \ {run'.target}
    BY <1>0, <2>1, PickType DEF Stage, Step, IInv, TInv
  <2>3. UNCHANGED <<marker, config, tfvars, vm, registered, cordoned, iso>>
    BY <2>1 DEF PickNext, files, infra, kube, boot
  <2>4. Recording /\ Recording' /\ Joined' = Joined /\ Placed' = Placed
    BY <1>R, <2>2, <2>3 DEF Recording, Joined, Placed, InState
  <2>5. run'.stage = "build-iso" => \A m \in run'.todo : run'.target[2] < m[2]
    <3> SUFFICES ASSUME run'.stage = "build-iso", NEW m \in run'.todo PROVE run'.target[2] < m[2]
      OBVIOUS
    <3>1. run'.target \in run.todo /\ m \in run.todo /\ m # run'.target
      BY <2>2
    <3>2. PICK n \in run.todo : /\ \A x \in run.todo : Precedes(n, x, "worker")
                                /\ run' = [run EXCEPT !.target = n, !.todo = @ \ {n},
                                                      !.stage = "build-iso"]
      BY <2>1, <3>1 DEF PickNext
    <3>3. run'.target = n
      BY <1>0, <3>2 DEF Run
    <3>4. Precedes(n, m, "worker") /\ n \in Workers /\ m \in Workers
      BY <1>0, <3>1, <3>2
    <3> QED
      BY <3>1, <3>3, <3>4, Indices DEF Precedes
  <2>6. AddRun'
    BY <1>0, <1>R, <2>2, <2>3, <2>4, <2>5 DEF AddRun, AddSteps, B
  <2>7. IsoFirst'
    BY <2>2, <2>3, <2>4 DEF AllTold, IsoFirst, Boots, At
  <2> QED
    BY <1>K, <2>2, <2>3, <2>6, <2>7
<1>4. CASE AddMark
  <2>1. PICK s \in AddSteps : Mark("add", s)
    BY <1>4 DEF AddMark
  <2>2. /\ marker' = [op |-> "add", target |-> run.target, step |-> s, intent |-> run.intent]
        /\ run'.stage = s /\ run.stage = s /\ run'.op = "add" /\ run'.target = run.target
        /\ run'.todo = run.todo /\ run'.from = run.from /\ run'.intent = run.intent
    BY <2>1, <1>0, MarkType, ResizeStepsAreSteps DEF Op, IInv, TInv
  <2>3. UNCHANGED <<config, tfvars, vm, registered, cordoned, iso>>
    BY <2>1 DEF Mark, infra, kube, boot
  <2>4. /\ marker'.op = "add" /\ marker'.target = run.target /\ marker'.step = s
        /\ marker'.intent = run.intent
    BY <2>2
  <2>5. /\ Recording /\ Recording' /\ Joined' = Joined /\ Placed' = Placed
        /\ \A k : Below(k)' = Below(k)
    BY <1>0, <1>R, <2>2, <2>3, <2>4 DEF Recording, Joined, Placed, InState, Below, AddSteps
  <2>6. Below(run.target[2]) \subseteq Joined
    <3> SUFFICES ASSUME NEW n \in Workers, n[2] < run.target[2] PROVE n \in Joined
      BY DEF Below
    <3>1. run.target \in B /\ \A m \in run.todo : run.target[2] < m[2]
      BY <1>R, <2>2
    <3>2. CASE n[2] < S
      BY <1>O, <2>5, <3>2 DEF Below
    <3>3. CASE ~(n[2] < S)
      <4>1. n \in B
        BY <1>0, <3>1, <3>3, Indices
      <4>2. n \notin run.todo /\ n # run.target
        BY <1>0, <3>1, Indices
      <4> QED
        BY <1>R, <4>1, <4>2
    <3> QED
      BY <3>2, <3>3
  <2>7. Sole'
    BY <2>2, <2>4, <2>5, <1>0 DEF AllTold, Sole, Idle, Resuming
  <2>8. Quiet'
    BY <2>3, <2>4, <2>5 DEF AllTold, Quiet
  <2>9. AddOpen'
    BY <1>0, <1>O, <1>R, <2>2, <2>3, <2>4, <2>5, <2>6 DEF AddOpen, S, T, B
  <2>10. AddRun'
    BY <2>2, <2>3, <2>5, <1>0 DEF AllTold, AddRun
  <2>11. IsoFirst'
    BY <1>0, <2>2, <2>3, <2>4, <2>5 DEF AllTold, IsoFirst, Boots, At
  <2> QED
    BY <1>V, <2>2, <2>4, <2>7, <2>8, <2>9, <2>10, <2>11 DEF AllTold
<1>5. CASE AddPass
  <2>1. PICK s \in AddSteps : ~AddDue(s) /\ Pass("add", s, AfterAddStep(s))
    BY <1>5 DEF AddPass
  <2>2. AfterAddStep(s) \in Stage
    BY DEF AfterAddStep, AddSteps, Stage, Step
  <2>3. /\ run'.stage = AfterAddStep(s) /\ run.stage = s /\ run'.op = "add"
        /\ run'.target = run.target /\ run'.todo = run.todo
        /\ run'.from = run.from /\ run'.intent = run.intent
    BY <2>1, <2>2, <1>0, PassType DEF IInv, TInv
  <2>4. UNCHANGED <<marker, config, tfvars, vm, registered, cordoned, iso>>
    BY <2>1 DEF Pass, files, infra, kube, boot
  <2>5. Recording /\ Recording' /\ Joined' = Joined /\ Placed' = Placed
    BY <1>R, <2>3, <2>4 DEF Recording, Joined, Placed, InState, AddSteps
  <2>6. /\ ResumeStep # "none" /\ StepOrder[s] < StepOrder[ResumeStep]
        /\ run.from.op = "add" /\ run.from.target = run.target /\ ResumeStep = run.from.step
        /\ ResumeStep \in AddSteps
    <3>1. ~ShouldRunStep(s, ResumeStep)
      BY <2>1 DEF AddDue
    <3>2. CASE ResumeStep = "none"
      BY <3>1, <3>2 DEF ShouldRunStep
    <3>3. CASE ResumeStep # "none"
      <4>1. ResumeStep = run.from.step /\ run.from.target = run.target /\ Resuming
        BY <3>3 DEF ResumeStep, Resuming, NoMarker
      <4>2. run.from.op = "add"
        BY <1>0, <4>1 DEF IInv, DInv, FromShape
      <4>3. ResumeStep \in AddSteps \cup {"ignition-up"}
        BY <4>1, <4>2 DEF AllTold, IsoFirst, Boots
      <4>4. /\ StepOrder["ignition-up"] = -4 /\ StepOrder["build-iso"] = -3
            /\ StepOrder["upload-iso"] = -2 /\ StepOrder["tf-apply"] = 2 /\ StepOrder["wait-join"] = 6
        BY StepOrderValues DEF Step
      <4> QED
        BY <3>1, <3>3, <4>1, <4>2, <4>3, <4>4 DEF ShouldRunStep, AddSteps
    <3> QED
      BY <3>2, <3>3
  <2>7. /\ s = "build-iso" => iso[run.target] # "none"
        /\ s \in {"upload-iso", "tf-apply"} => iso[run.target] = "uploaded"
        /\ s # "wait-join"
    <3>1. /\ StepOrder["build-iso"] = -3
          /\ StepOrder["upload-iso"] = -2 /\ StepOrder["tf-apply"] = 2 /\ StepOrder["wait-join"] = 6
      BY StepOrderValues DEF Step
    <3>2. /\ s = "build-iso" => ResumeStep \in {"upload-iso", "tf-apply", "wait-join"}
          /\ s \in {"upload-iso", "tf-apply"} => ResumeStep \in {"tf-apply", "wait-join"}
          /\ s # "wait-join"
      BY <2>6, <3>1 DEF AddSteps
    <3> QED
      BY <2>6, <3>2 DEF AllTold, IsoFirst, Boots
  <2>8. AddRun'
    <3>1. run'.stage \in AddSteps /\ run.stage \in AddSteps
      BY <2>3, <2>7 DEF AfterAddStep, AddSteps
    <3> QED
      BY <1>0, <1>R, <2>3, <2>4, <2>5, <3>1 DEF AddRun, AddSteps, B
  <2>9. IsoFirst'
    BY <2>3, <2>4, <2>5, <2>7 DEF AllTold, IsoFirst, Boots, At, AfterAddStep, AddSteps
  <2> QED
    BY <1>K, <2>3, <2>4, <2>8, <2>9
<1>6. CASE AddBuildISO \/ AddUploadISO
  <2>1. PICK s \in {"upload-iso", "tf-apply"} :
          /\ GoTo(s) /\ run.stage \in {"build-iso", "upload-iso"}
          /\ s = "upload-iso" => iso' = [iso EXCEPT ![run.target] = IF @ = "none" THEN "built" ELSE @]
          /\ s = "tf-apply" => /\ run.stage = "upload-iso"
                               /\ iso' = [iso EXCEPT ![run.target] = IF @ = "built" THEN "uploaded" ELSE @]
    BY <1>6 DEF AddBuildISO, AddUploadISO, Doing, At
  <2>2. UNCHANGED <<marker, config, tfvars, vm, registered, cordoned>>
    BY <1>6 DEF AddBuildISO, AddUploadISO, files, infra, kube
  <2>3. /\ run'.op = "add" /\ run'.stage = s /\ run'.target = run.target /\ run'.todo = run.todo
        /\ run'.from = run.from /\ run'.intent = run.intent
    BY <1>0, <2>1, GoToRun DEF Stage, Step
  <2>4. /\ Recording /\ Recording' /\ Joined' = Joined /\ Placed' = Placed
        /\ run.stage \in AddSteps /\ run'.stage \in AddSteps /\ run.target \in Workers
    BY <1>0, <1>R, <2>1, <2>2, <2>3 DEF Recording, Joined, Placed, InState, AddSteps
  <2>5. AddRun'
    BY <1>0, <1>R, <2>2, <2>3, <2>4 DEF AddRun, B
  <2>6. /\ \A n \in Workers : /\ iso[n] # "none" => iso'[n] # "none"
                              /\ iso[n] = "uploaded" => iso'[n] = "uploaded"
        /\ s = "upload-iso" => iso'[run.target] # "none"
    BY <1>0, <2>1, <2>4
  <2>7. s = "tf-apply" => iso'[run.target] = "uploaded"
    <3>1. s = "tf-apply" => iso[run.target] \in {"built", "uploaded"}
      BY <1>0, <2>1, <2>4 DEF AllTold, IsoFirst, At
    <3> QED
      BY <1>0, <2>1, <2>4, <3>1
  <2>8. IsoFirst'
    BY <2>2, <2>3, <2>4, <2>6, <2>7 DEF AllTold, IsoFirst, Boots, At, Placed
  <2> QED
    BY <1>K, <2>2, <2>3, <2>5, <2>8
<1>7. CASE AddApply
  <2>1. /\ GoTo("wait-join") /\ run.stage = "tf-apply" /\ run.target \in Workers
        /\ TargetedApply(run.target, "create", tfvars.size["worker"])
        /\ UNCHANGED <<marker, config, tfvars, registered, cordoned, iso>>
    BY <1>0, <1>7 DEF AddApply, Doing, At, AddSteps, files, kube, boot
  <2>2. /\ run'.op = "add" /\ run'.stage = "wait-join" /\ run'.target = run.target
        /\ run'.todo = run.todo /\ run'.from = run.from /\ run'.intent = run.intent
    BY <1>0, <2>1, GoToRun DEF Stage, Step
  <2>3. Placed' = Placed \cup {run.target}
    <3>1. /\ vm \in [Node -> Size \cup {Absent}] /\ run.target \in Node /\ Workers \subseteq Node
          /\ tfvars.size["worker"] # Absent
      BY <2>1, NodeType, SizeIsThere DEF IInv, TInv, TypeOK, Topology, Role
    <3>2. vm' = [vm EXCEPT ![run.target] = tfvars.size["worker"]]
      BY <2>1 DEF TargetedApply
    <3>3. \A n \in Workers : vm'[n] # Absent <=> (vm[n] # Absent \/ n = run.target)
      BY <3>1, <3>2
    <3> QED
      BY <2>1, <3>3 DEF Placed, InState
  <2>4. /\ Recording /\ Recording' /\ Joined' = Joined /\ \A k : Below(k)' = Below(k)
    BY <1>R, <2>1 DEF Recording, Joined, Below, AddSteps
  <2>5. run.target \in B /\ run.target \in Below(T) /\ iso[run.target] = "uploaded"
    BY <1>0, <1>R, <2>1 DEF AddSteps, Below, AllTold, IsoFirst
  <2>6. Sole' /\ Quiet'
    BY <1>0, <2>1, <2>2, <2>4 DEF AllTold, Sole, Quiet, Idle, Resuming
  <2>7. AddOpen'
    BY <1>0, <1>O, <2>1, <2>3, <2>4, <2>5 DEF AddOpen, S, T, B
  <2>8. AddRun'
    BY <1>0, <1>R, <2>1, <2>2, <2>4 DEF AddRun, AddSteps, B
  <2>9. IsoFirst'
    BY <2>1, <2>2, <2>3, <2>5 DEF AllTold, IsoFirst, Boots, At
  <2> QED
    BY <1>0, <1>V, <2>1, <2>2, <2>6, <2>7, <2>8, <2>9 DEF AllTold
<1>8. CASE AddApproveCSR
  <2>1. /\ run' = run /\ run.stage = "wait-join" /\ run.target \in Workers /\ Up(run.target)
        /\ registered' = registered \cup {run.target}
        /\ UNCHANGED <<marker, config, tfvars, vm, cordoned, iso>>
    BY <1>0, <1>8 DEF AddApproveCSR, Doing, At, AddSteps, files, infra, boot
  <2>2. /\ Recording /\ Recording' /\ Placed' = Placed /\ \A k : Below(k)' = Below(k)
        /\ Joined' = Joined \cup {run.target}
    BY <1>R, <2>1 DEF Recording, Joined, Placed, InState, Below, AddSteps
  <2>3. run.target \in Placed
    BY <2>1, NodeType DEF Settles, Powered, Up, Placed
  <2>4. run.target \in B /\ run.target \in Below(T)
    BY <1>0, <1>R, <2>1 DEF AddSteps, Below
  <2>5. Sole' /\ Quiet'
    BY <1>0, <2>1, <2>2 DEF AllTold, Sole, Quiet, Idle, Resuming
  <2>6. AddOpen'
    BY <1>0, <1>O, <2>1, <2>2, <2>3, <2>4 DEF AddOpen, S, T, B
  <2>7. AddRun'
    BY <1>0, <1>R, <2>1, <2>2 DEF AddRun, AddSteps, B
  <2>8. IsoFirst'
    BY <2>1, <2>2 DEF AllTold, IsoFirst, Boots, At
  <2> QED
    BY <1>0, <1>V, <2>1, <2>5, <2>6, <2>7, <2>8 DEF AllTold
<1>9. CASE AddJoined
  <2>1. /\ GoTo("next") /\ run.stage = "wait-join" /\ run.target \in registered \cap Workers
        /\ UNCHANGED <<marker, config, tfvars, vm, registered, cordoned, iso>>
    BY <1>0, <1>9 DEF AddJoined, Doing, At, AddSteps, files, infra, kube, boot
  <2>2. /\ run'.op = "add" /\ run'.stage = "next" /\ run'.todo = run.todo
        /\ run'.from = run.from /\ run'.intent = run.intent
    BY <1>0, <2>1, GoToRun DEF Stage
  <2>3. Recording /\ Recording' /\ Joined' = Joined /\ Placed' = Placed /\ run.target \in Joined
    BY <1>R, <2>1 DEF Recording, Joined, Placed, InState
  <2>4. AddRun'
    BY <1>0, <1>R, <2>1, <2>2, <2>3 DEF AddRun, AddSteps, B
  <2>5. IsoFirst'
    BY <2>1, <2>2, <2>3 DEF AllTold, IsoFirst, Boots, At
  <2> QED
    BY <1>K, <2>1, <2>2, <2>4, <2>5
\* The whole batch joined: its count is persisted, rendered, and the record cleared.
<1>W. ASSUME run.stage \in {"save", "render", "clear"}
      PROVE  Recording /\ Joined = Below(T) /\ Placed = Below(T)
  <2>1. Recording /\ B \subseteq Joined
    BY <1>0, <1>R, <1>W DEF AddSteps
  <2>2. Below(T) \subseteq Below(S) \cup B
    BY <1>0, Indices DEF Below
  <2> QED
    BY <1>O, <2>1, <2>2
<1>10. CASE AddSave
  <2>1. /\ GoTo("render") /\ run.stage = "save"
        /\ config' = [config EXCEPT !.workers = run.intent.start + run.intent.count]
        /\ UNCHANGED <<marker, tfvars, vm, registered, cordoned, iso>>
    BY <1>10 DEF AddSave, SaveConfig, At, infra, kube, boot
  <2>2. /\ run'.op = "add" /\ run'.stage = "render" /\ run'.todo = run.todo
        /\ run'.target = run.target /\ run'.from = run.from /\ run'.intent = run.intent
    BY <1>0, <2>1, GoToRun DEF Stage
  <2>3. config'.workers = T
    BY <1>0, <2>1 DEF S, IInv, TInv, TypeOK, Topology
  <2>4. Recording /\ Recording' /\ Joined' = Joined /\ Placed' = Placed /\ \A k : Below(k)' = Below(k)
    BY <1>W, <2>1 DEF Recording, Joined, Placed, InState, Below
  <2>5. Sole' /\ Quiet'
    BY <1>0, <2>1, <2>2, <2>4 DEF AllTold, Sole, Quiet, Idle, Resuming, Recording
  <2>6. AddOpen'
    BY <1>0, <1>O, <1>W, <2>1, <2>3, <2>4 DEF AddOpen, S, T, B
  <2>7. AddRun'
    BY <1>0, <1>R, <2>1, <2>2, <2>3, <2>4 DEF AddRun, AddSteps, B, T
  <2>8. IsoFirst'
    BY <2>1, <2>2, <2>4 DEF AllTold, IsoFirst, Boots, At
  <2> QED
    BY <1>0, <1>V, <2>1, <2>2, <2>5, <2>6, <2>7, <2>8 DEF AllTold
<1>11. CASE AddRender
  <2>1. /\ GoTo("clear") /\ run.stage = "render" /\ tfvars' = config
        /\ UNCHANGED <<marker, config, vm, registered, cordoned, iso>>
    BY <1>11 DEF AddRender, RenderTfvars, At, infra, kube, boot
  <2>2. /\ run'.op = "add" /\ run'.stage = "clear" /\ run'.todo = run.todo
        /\ run'.target = run.target /\ run'.from = run.from /\ run'.intent = run.intent
    BY <1>0, <2>1, GoToRun DEF Stage
  <2>3. Recording /\ Recording' /\ Joined' = Joined /\ Placed' = Placed /\ \A k : Below(k)' = Below(k)
    BY <1>W, <2>1 DEF Recording, Joined, Placed, InState, Below
  <2>4. Sole' /\ Quiet'
    BY <1>0, <2>1, <2>2, <2>3 DEF AllTold, Sole, Quiet, Idle, Resuming, Recording
  <2>5. AddOpen'
    BY <1>0, <2>1, <2>3 DEF AllTold, AddOpen
  <2>6. AddRun'
    BY <1>0, <1>R, <2>1, <2>2, <2>3 DEF AddRun, AddSteps, B, T
  <2>7. IsoFirst'
    BY <2>1, <2>2, <2>3 DEF AllTold, IsoFirst, Boots, At
  <2> QED
    BY <1>0, <1>V, <2>1, <2>2, <2>4, <2>5, <2>6, <2>7 DEF AllTold
<1>12. CASE AddClear
  <2>1. /\ GoTo("done") /\ run.stage = "clear" /\ marker' \in {NoMarker, marker}
        /\ UNCHANGED <<config, tfvars, vm, registered, cordoned, iso>>
    BY <1>12 DEF AddClear, ClearMarker, At, infra, kube, boot
  <2>2. /\ run'.op = "add" /\ run'.stage = "done" /\ run'.todo = run.todo /\ run'.marked = FALSE
        /\ run'.target = run.target /\ run'.from = run.from /\ run'.intent = run.intent
    BY <1>0, <2>1, GoToRun DEF Stage
  <2>3. NoMarker.op = "none"
    BY DEF NoMarker
  <2>4. Joined' = Joined /\ Placed' = Placed /\ \A k : Below(k)' = Below(k)
    BY <2>1 DEF Joined, Placed, InState, Below
  <2>5. /\ Recording /\ Joined = Below(config.workers) /\ Placed = Below(config.workers)
        /\ cordoned = {} /\ tfvars = config /\ config.workers = T
    BY <1>R, <1>O, <1>W, <2>1
  <2>6. Sole'
    BY <1>0, <2>1, <2>2, <2>3 DEF AllTold, Sole, Idle, Resuming, Recording
  <2>7. Quiet'
    BY <2>1, <2>4, <2>5 DEF AllTold, Quiet
  <2>8. AddOpen'
    BY <1>0, <2>1, <2>3, <2>4 DEF AllTold, AddOpen
  <2>9. AddRun'
    BY <1>0, <1>R, <2>1, <2>2, <2>4, <2>5 DEF AddRun, AddSteps, B, T
  <2>10. IsoFirst'
    BY <2>1, <2>2, <2>3, <2>4 DEF AllTold, IsoFirst, Boots, At
  <2> QED
    BY <1>0, <1>V, <2>1, <2>2, <2>3, <2>6, <2>7, <2>8, <2>9, <2>10 DEF AllTold
<1> QED
  BY <1>1, <1>2, <1>3, <1>4, <1>5, <1>6, <1>7, <1>8, <1>9, <1>10, <1>11, <1>12 DEF AddStep


-----------------------------------------------------------------------------
(* A removal under its record *)

\* What a run of remove knows of its worker, whether or not it is recorded yet.
LEMMA RemoveFacts ==
    ASSUME IInv, AllTold, run.op = "remove", run.stage # "done"
    PROVE  /\ run \in Run /\ run.intent.scope \in Workers /\ run.intent.scope[2] \in Nat
           /\ Recording => /\ marker.op = "remove" /\ marker.intent = run.intent
                           /\ marker.target = run.intent.scope
           /\ marker.op # "resize" /\ (marker.op = "add" => marker.intent = NoIntent)
           /\ run.marked => Recording
           /\ Below(run.intent.scope[2]) \subseteq Placed /\ Placed \subseteq Below(run.intent.scope[2] + 1)
           /\ Below(run.intent.scope[2]) \subseteq Joined /\ Joined \subseteq Below(run.intent.scope[2] + 1)
           /\ config.workers \in {run.intent.scope[2], run.intent.scope[2] + 1}
           /\ config.workers = run.intent.scope[2] => run.intent.scope \notin Placed
           /\ cordoned \subseteq {run.intent.scope}
<1>1. run \in Run /\ run.intent.scope \in Workers /\ run.intent.scope[2] \in Nat
  BY Indices DEF IInv, TInv, TypeOK, AllTold, RemoveRun
<1>2. Recording => /\ marker.op = "remove" /\ marker.intent = run.intent
                   /\ marker.target = run.intent.scope
  BY DEF AllTold, Sole, Idle, RemoveOpen
<1>3. marker.op # "resize" /\ (marker.op = "add" => marker.intent = NoIntent)
  BY <1>2 DEF Recording
<1>4. run.marked => Recording
  BY DEF IInv, DInv, MarkedShape, Recording
<1>5. CASE Recording
  BY <1>1, <1>2, <1>3, <1>4, <1>5 DEF AllTold, RemoveOpen
<1>6. CASE ~Recording
  <2>1. config.workers = run.intent.scope[2] + 1
    BY <1>6 DEF AllTold, RemoveRun
  <2>2. Placed = Below(config.workers) /\ Joined = Below(config.workers) /\ cordoned = {}
    BY <1>6 DEF AllTold, Quiet
  <2>3. Below(run.intent.scope[2]) \subseteq Below(run.intent.scope[2] + 1)
    BY <1>1, Indices DEF Below
  <2> QED
    BY <1>1, <1>2, <1>3, <1>4, <2>1, <2>2, <2>3
<1> QED
  BY <1>5, <1>6

LEMMA RemoveTells == ASSUME IInv, AllTold, RemoveStep PROVE AllTold'
<1> DEFINE W == run.intent.scope
           k == run.intent.scope[2]
<1>0. run.op = "remove" /\ run.stage # "done"
  BY DEF RemoveStep, RemoveNext, PickNext, RemoveMark, RemovePass, Mark, Pass, RemoveCordon,
         RemoveDrain, RemoveApply, RemoveSave, SaveConfig, RemoveRender, RenderTfvars,
         RemoveDeleteNode, RemoveClear, ClearMarker, Doing, At, RemoveSteps
<1>F. /\ run \in Run /\ W \in Workers /\ k \in Nat /\ W[2] = k
      /\ Recording => marker.op = "remove" /\ marker.intent = run.intent /\ marker.target = W
      /\ marker.op # "resize"
      /\ marker.op = "add" => marker.intent = NoIntent
      /\ run.marked => Recording
      /\ Below(k) \subseteq Placed /\ Placed \subseteq Below(k + 1)
      /\ Below(k) \subseteq Joined /\ Joined \subseteq Below(k + 1)
      /\ config.workers \in {k, k + 1}
      /\ config.workers = k => W \notin Placed
      /\ cordoned \subseteq {W}
  BY <1>0, RemoveFacts
<1>R. /\ run.todo \subseteq {W}
      /\ run.stage \in RemoveSteps \cup {"save", "render"} => run.target = W
      /\ ~Recording => run.stage \in {"next", "cordon", "drain", "tf-apply"}
      /\ ~Recording /\ run.stage = "next" => run.todo # {}
      /\ run.from.step = "delete-node" /\ run.stage \in {"next", "cordon", "drain", "tf-apply"} =>
            config.workers = k /\ tfvars = config
      /\ run.stage \in {"save", "render", "delete-node"} => W \notin Placed
      /\ run.stage \in {"render", "delete-node"} => config.workers = k
      /\ run.stage = "delete-node" => tfvars = config
      /\ run.stage = "clear" \/ (run.stage = "next" /\ run.todo = {}) =>
            /\ config.workers = k /\ tfvars = config /\ cordoned = {}
            /\ Placed = Below(k) /\ Joined = Below(k)
  BY <1>0 DEF AllTold, RemoveRun
\* The worker is the only one at its index.
<1>B. Below(k + 1) = Below(k) \cup {W} /\ W \notin Below(k)
  <2>1. \A n \in Workers : n[2] \in Nat /\ (n[2] = k => n = W)
    BY <1>F, Indices
  <2> QED
    BY <1>F, <2>1 DEF Below
<1> HIDE DEF W, k
\* Nothing is said of an add or of a resize.
<1>V. ASSUME run'.op = "remove", marker'.op # "resize", marker'.op = "add" => marker'.intent = NoIntent
      PROVE  AddOpen' /\ AddRun' /\ ResizeOpen' /\ ResizeRun'
  BY <1>V DEF AddOpen, AddRun, ResizeOpen, Past, ResizeRun
<1>K. ASSUME UNCHANGED <<marker, config, tfvars, vm, registered, cordoned, iso>>,
             run'.op = "remove", run'.intent = run.intent, run'.from = run.from, RemoveRun'
      PROVE  AllTold'
  <2>1. Sole' /\ Quiet' /\ RemoveOpen'
    BY <1>0, <1>K, SameTold
  <2>2. IsoFirst'
    BY <1>K DEF AllTold, IsoFirst, Boots, At, Placed, InState
  <2> QED
    BY <1>F, <1>K, <1>V, <2>1, <2>2 DEF AllTold
<1>1. CASE RemoveNext
  <2>1. PickNext("remove", "next", "worker", "cordon", "clear")
    BY <1>1 DEF RemoveNext
  <2>2. /\ run.stage = "next" /\ run'.op = "remove"
        /\ run'.from = run.from /\ run'.intent = run.intent
        /\ \/ run'.stage = "clear" /\ run.todo = {} /\ run'.todo = {}
           \/ /\ run'.stage = "cordon" /\ run'.target \in run.todo
              /\ run'.todo = run.todo \ {run'.target}
    BY <1>0, <2>1, PickType DEF Stage, Step, IInv, TInv
  <2>3. UNCHANGED <<marker, config, tfvars, vm, registered, cordoned, iso>>
    BY <2>1 DEF PickNext, files, infra, kube, boot
  <2>4. (Recording' <=> Recording) /\ Joined' = Joined /\ Placed' = Placed /\ \A x : Below(x)' = Below(x)
    BY <2>3 DEF Recording, Joined, Placed, InState, Below
  <2>5. RemoveRun'
    BY <1>0, <1>F, <1>R, <2>2, <2>3, <2>4 DEF AllTold, RemoveRun, RemoveSteps, W, k
  <2> QED
    BY <1>K, <2>2, <2>3, <2>5
<1>2. CASE RemoveMark
  <2>1. PICK s \in RemoveSteps : Mark("remove", s)
    BY <1>2 DEF RemoveMark
  <2>2. /\ marker' = [op |-> "remove", target |-> run.target, step |-> s, intent |-> run.intent]
        /\ run'.stage = s /\ run.stage = s /\ run'.op = "remove" /\ run'.target = run.target
        /\ run'.todo = run.todo /\ run'.from = run.from /\ run'.intent = run.intent
    BY <2>1, <1>0, MarkType, ResizeStepsAreSteps DEF Op, IInv, TInv
  <2>3. UNCHANGED <<config, tfvars, vm, registered, cordoned, iso>>
    BY <2>1 DEF Mark, infra, kube, boot
  <2>4. /\ marker'.op = "remove" /\ marker'.target = W /\ marker'.step = s
        /\ marker'.intent = run.intent
    BY <1>R, <2>2
  <2>5. /\ Recording' /\ Joined' = Joined /\ Placed' = Placed /\ \A x : Below(x)' = Below(x)
    BY <2>3, <2>4 DEF Recording, Joined, Placed, InState, Below
  <2>6. Sole' /\ Quiet'
    BY <1>0, <2>2, <2>3, <2>4, <2>5 DEF AllTold, Sole, Quiet, Idle, Resuming
  <2>7. RemoveOpen'
    BY <1>F, <1>R, <2>2, <2>3, <2>4, <2>5 DEF RemoveOpen, W, k
  <2>8. RemoveRun'
    BY <1>0, <2>2, <2>3, <2>5 DEF AllTold, RemoveRun
  <2>9. IsoFirst'
    BY <2>2, <2>3, <2>4, <2>5 DEF AllTold, IsoFirst, Boots, At
  <2> QED
    BY <1>V, <2>2, <2>4, <2>6, <2>7, <2>8, <2>9 DEF AllTold
<1>3. CASE RemovePass
  <2>1. PICK s \in RemoveSteps : ~RemoveDue(s) /\ Pass("remove", s, AfterRemoveStep(s))
    BY <1>3 DEF RemovePass
  <2>2. AfterRemoveStep(s) \in Stage
    BY DEF AfterRemoveStep, RemoveSteps, Stage, Step
  <2>3. /\ run'.stage = AfterRemoveStep(s) /\ run.stage = s /\ run'.op = "remove"
        /\ run'.target = run.target /\ run'.todo = run.todo
        /\ run'.from = run.from /\ run'.intent = run.intent
    BY <2>1, <2>2, <1>0, PassType DEF IInv, TInv
  <2>4. UNCHANGED <<marker, config, tfvars, vm, registered, cordoned, iso>>
    BY <2>1 DEF Pass, files, infra, kube, boot
  <2>5. (Recording' <=> Recording) /\ Joined' = Joined /\ Placed' = Placed /\ \A x : Below(x)' = Below(x)
    BY <2>4 DEF Recording, Joined, Placed, InState, Below
  <2>6. /\ s # "delete-node"
        /\ s = "tf-apply" => Recording /\ run.from.step = "delete-node"
    <3>1. ResumeStep \in {"none"} \cup RemoveSteps
      BY <1>0, ResumeStepType
    <3>2. StepOrder["cordon"] = 0 /\ StepOrder["drain"] = 1 /\ StepOrder["tf-apply"] = 2
             /\ StepOrder["delete-node"] = 4
      BY StepOrderValues DEF Step
    <3>3. s \in {"tf-apply", "delete-node"} => ~ShouldRunStep(s, ResumeStep)
      BY <2>1 DEF RemoveDue
    <3>4. s \in {"tf-apply", "delete-node"} => s = "tf-apply" /\ ResumeStep = "delete-node"
      BY <3>1, <3>2, <3>3 DEF ShouldRunStep, RemoveSteps
    <3>5. ResumeStep = "delete-node" => run.from.step = "delete-node" /\ Resuming
      BY ResumeStepType DEF Resuming, NoMarker
    <3> QED
      BY <1>0, <3>4, <3>5 DEF AllTold, Sole
  <2>7. RemoveRun'
    BY <1>0, <1>F, <1>R, <2>3, <2>4, <2>5, <2>6
    DEF AllTold, RemoveRun, RemoveSteps, AfterRemoveStep, W, k
  <2> QED
    BY <1>K, <2>3, <2>4, <2>7
<1>4. CASE RemoveCordon \/ RemoveDrain
  <2>1. PICK s \in {"drain", "tf-apply"} :
          GoTo(s) /\ run.stage \in {"cordon", "drain"} /\ run.marked
    BY <1>4 DEF RemoveCordon, RemoveDrain, Doing, At
  <2>2. /\ UNCHANGED <<marker, config, tfvars, vm, registered, iso>>
        /\ cordoned' = cordoned \cup {run.target}
    BY <1>4 DEF RemoveCordon, RemoveDrain, files, infra, boot
  <2>3. /\ run'.op = "remove" /\ run'.stage = s /\ run'.target = run.target /\ run'.todo = run.todo
        /\ run'.from = run.from /\ run'.intent = run.intent
    BY <1>0, <1>F, <2>1, GoToRun DEF Stage, Step
  <2>4. /\ Recording /\ Recording' /\ Joined' = Joined /\ Placed' = Placed
        /\ \A x : Below(x)' = Below(x)
    BY <1>F, <2>1, <2>2 DEF Recording, Joined, Placed, InState, Below
  <2>5. cordoned' \subseteq {W} /\ marker.target = W
    BY <1>F, <1>R, <2>1, <2>2, <2>4 DEF RemoveSteps
  <2>6. Sole' /\ Quiet'
    BY <1>0, <1>F, <2>2, <2>3, <2>4 DEF AllTold, Sole, Quiet, Idle, Resuming
  <2>7. RemoveOpen'
    BY <2>2, <2>4, <2>5 DEF AllTold, RemoveOpen
  <2>8. RemoveRun'
    BY <1>0, <2>1, <2>2, <2>3, <2>4 DEF AllTold, RemoveRun, RemoveSteps
  <2>9. IsoFirst'
    BY <2>2, <2>3, <2>4 DEF AllTold, IsoFirst, Boots, At
  <2> QED
    BY <1>F, <1>V, <2>2, <2>3, <2>6, <2>7, <2>8, <2>9 DEF AllTold
<1>5. CASE RemoveApply
  <2>1. /\ GoTo("save") /\ run.stage = "tf-apply" /\ run.marked /\ run.target = W
        /\ TargetedApply(run.target, "delete", Absent)
        /\ UNCHANGED <<marker, config, tfvars, registered, cordoned, iso>>
    BY <1>5, <1>R DEF RemoveApply, Doing, At, RemoveSteps, files, boot
  <2>2. /\ run'.op = "remove" /\ run'.stage = "save" /\ run'.target = run.target
        /\ run'.todo = run.todo /\ run'.from = run.from /\ run'.intent = run.intent
    BY <1>0, <1>F, <2>1, GoToRun DEF Stage
  <2>3. Placed' = Placed \ {W}
    <3>1. vm \in [Node -> Size \cup {Absent}] /\ W \in Node /\ Workers \subseteq Node
      BY <1>F, NodeType DEF IInv, TInv, TypeOK
    <3>2. vm' = [vm EXCEPT ![W] = Absent]
      BY <2>1 DEF TargetedApply
    <3>3. \A n \in Workers : vm'[n] # Absent <=> (vm[n] # Absent /\ n # W)
      BY <3>1, <3>2
    <3> QED
      BY <3>3 DEF Placed, InState
  <2>4. Recording /\ Recording' /\ Joined' = Joined /\ \A x : Below(x)' = Below(x)
    BY <1>F, <2>1 DEF Recording, Joined, Below
  <2>5. Sole' /\ Quiet'
    BY <1>0, <1>F, <2>1, <2>2, <2>4 DEF AllTold, Sole, Quiet, Idle, Resuming
  <2>6. RemoveOpen'
    <3>1. W \notin Below(marker.target[2]) /\ marker.target = W
      BY <1>F, <1>B, <2>4
    <3> QED
      BY <2>1, <2>3, <2>4, <3>1 DEF AllTold, RemoveOpen
  <2>7. RemoveRun'
    BY <1>0, <1>F, <1>R, <2>1, <2>2, <2>3, <2>4 DEF RemoveRun, RemoveSteps, W, k
  <2>8. IsoFirst'
    BY <2>1, <2>2, <2>3 DEF AllTold, IsoFirst, Boots, At
  <2> QED
    BY <1>F, <1>V, <2>1, <2>2, <2>5, <2>6, <2>7, <2>8 DEF AllTold
<1>6. CASE RemoveSave
  <2>1. /\ GoTo("render") /\ run.stage = "save" /\ run.target = W
        /\ config' = [config EXCEPT !.workers = run.target[2]]
        /\ UNCHANGED <<marker, tfvars, vm, registered, cordoned, iso>>
    BY <1>6, <1>R DEF RemoveSave, SaveConfig, At, infra, kube, boot
  <2>2. /\ run'.op = "remove" /\ run'.stage = "render" /\ run'.todo = run.todo
        /\ run'.target = run.target /\ run'.from = run.from /\ run'.intent = run.intent
    BY <1>0, <1>F, <2>1, GoToRun DEF Stage
  <2>3. config'.workers = k /\ (config.workers = k => config' = config)
    BY <1>F, <2>1 DEF IInv, TInv, TypeOK, Topology
  <2>4. Recording /\ Recording' /\ Joined' = Joined /\ Placed' = Placed /\ \A x : Below(x)' = Below(x)
    BY <1>R, <2>1 DEF Recording, Joined, Placed, InState, Below
  <2>5. Sole' /\ Quiet'
    BY <1>0, <1>F, <2>1, <2>2, <2>4 DEF AllTold, Sole, Quiet, Idle, Resuming
  <2>6. RemoveOpen'
    BY <1>F, <1>R, <2>1, <2>3, <2>4 DEF AllTold, RemoveOpen
  <2>7. RemoveRun'
    BY <1>0, <1>F, <1>R, <2>1, <2>2, <2>3, <2>4 DEF RemoveRun, RemoveSteps, W, k
  <2>8. IsoFirst'
    BY <2>1, <2>2, <2>4 DEF AllTold, IsoFirst, Boots, At
  <2> QED
    BY <1>F, <1>V, <2>1, <2>2, <2>5, <2>6, <2>7, <2>8 DEF AllTold
<1>7. CASE RemoveRender
  <2>1. /\ GoTo("delete-node") /\ run.stage = "render" /\ tfvars' = config
        /\ UNCHANGED <<marker, config, vm, registered, cordoned, iso>>
    BY <1>7 DEF RemoveRender, RenderTfvars, At, infra, kube, boot
  <2>2. /\ run'.op = "remove" /\ run'.stage = "delete-node" /\ run'.todo = run.todo
        /\ run'.target = run.target /\ run'.from = run.from /\ run'.intent = run.intent
    BY <1>0, <1>F, <2>1, GoToRun DEF Stage, Step
  <2>3. Recording /\ Recording' /\ Joined' = Joined /\ Placed' = Placed /\ \A x : Below(x)' = Below(x)
    BY <1>R, <2>1 DEF Recording, Joined, Placed, InState, Below
  <2>4. Sole' /\ Quiet'
    BY <1>0, <1>F, <2>1, <2>2, <2>3 DEF AllTold, Sole, Quiet, Idle, Resuming
  <2>5. RemoveOpen'
    BY <1>F, <1>R, <2>1, <2>3 DEF AllTold, RemoveOpen
  <2>6. RemoveRun'
    BY <1>0, <1>F, <1>R, <2>1, <2>2, <2>3 DEF RemoveRun, RemoveSteps, W, k
  <2>7. IsoFirst'
    BY <2>1, <2>2, <2>3 DEF AllTold, IsoFirst, Boots, At
  <2> QED
    BY <1>F, <1>V, <2>1, <2>2, <2>4, <2>5, <2>6, <2>7 DEF AllTold
<1>8. CASE RemoveDeleteNode
  <2>1. /\ GoTo("next") /\ run.stage = "delete-node" /\ run.target = W
        /\ registered' = registered \ {run.target} /\ cordoned' = cordoned \ {run.target}
        /\ UNCHANGED <<marker, config, tfvars, vm, iso>>
    BY <1>8, <1>R DEF RemoveDeleteNode, Doing, At, RemoveSteps, files, infra, boot
  <2>2. /\ run'.op = "remove" /\ run'.stage = "next" /\ run'.todo = run.todo
        /\ run'.target = run.target /\ run'.from = run.from /\ run'.intent = run.intent
    BY <1>0, <1>F, <2>1, GoToRun DEF Stage
  <2>3. /\ Recording /\ Recording' /\ Joined' = Joined \ {W} /\ Placed' = Placed
        /\ \A x : Below(x)' = Below(x)
    BY <1>R, <2>1 DEF Recording, Joined, Placed, InState, Below
  <2>4. Joined' = Below(k) /\ Placed' = Below(k) /\ cordoned' = {}
    BY <1>B, <1>F, <1>R, <2>1, <2>3
  <2>5. Masters \subseteq registered'
    BY <1>F, <2>1, NodeType DEF AllTold, Quiet
  <2>6. Sole' /\ Quiet'
    BY <1>0, <1>F, <2>1, <2>2, <2>3, <2>5 DEF AllTold, Sole, Quiet, Idle, Resuming
  <2>7. RemoveOpen'
    BY <1>B, <1>F, <1>R, <2>1, <2>3, <2>4 DEF AllTold, RemoveOpen
  <2>8. RemoveRun'
    BY <1>0, <1>F, <1>R, <2>1, <2>2, <2>3, <2>4 DEF RemoveRun, RemoveSteps, W, k
  <2>9. IsoFirst'
    BY <2>1, <2>2, <2>3 DEF AllTold, IsoFirst, Boots, At
  <2> QED
    BY <1>F, <1>V, <2>1, <2>2, <2>6, <2>7, <2>8, <2>9 DEF AllTold
<1>9. CASE RemoveClear
  <2>1. /\ GoTo("done") /\ run.stage = "clear" /\ marker' \in {NoMarker, marker}
        /\ UNCHANGED <<config, tfvars, vm, registered, cordoned, iso>>
    BY <1>9 DEF RemoveClear, ClearMarker, At, infra, kube, boot
  <2>2. /\ run'.op = "remove" /\ run'.stage = "done" /\ run'.todo = run.todo
        /\ run'.target = run.target /\ run'.from = run.from /\ run'.intent = run.intent
    BY <1>0, <1>F, <2>1, GoToRun DEF Stage
  <2>3. NoMarker.op = "none"
    BY DEF NoMarker
  <2>4. Recording /\ Joined' = Joined /\ Placed' = Placed /\ \A x : Below(x)' = Below(x)
    BY <1>R, <2>1 DEF Joined, Placed, InState, Below
  <2>5. /\ config.workers = k /\ tfvars = config /\ cordoned = {}
        /\ Placed = Below(config.workers) /\ Joined = Below(config.workers)
    BY <1>R, <2>1
  <2>6. Sole'
    BY <1>0, <1>F, <2>1, <2>2, <2>3, <2>4 DEF AllTold, Sole, Idle, Resuming, Recording
  <2>7. Quiet'
    BY <2>1, <2>4, <2>5 DEF AllTold, Quiet
  <2>8. RemoveOpen'
    BY <1>0, <2>1, <2>3, <2>4 DEF AllTold, RemoveOpen
  <2>9. RemoveRun'
    BY <1>0, <1>F, <1>R, <2>1, <2>2, <2>4, <2>5 DEF AllTold, RemoveRun, RemoveSteps, W, k
  <2>10. IsoFirst'
    BY <2>1, <2>2, <2>3, <2>4 DEF AllTold, IsoFirst, Boots, At
  <2> QED
    BY <1>F, <1>V, <2>1, <2>2, <2>3, <2>6, <2>7, <2>8, <2>9, <2>10 DEF AllTold
<1> QED
  BY <1>1, <1>2, <1>3, <1>4, <1>5, <1>6, <1>7, <1>8, <1>9 DEF RemoveStep


-----------------------------------------------------------------------------
(* A resize under its record *)

\* What a run of resize knows of its targets, and of the marker it works under.
LEMMA ResizeFacts ==
    ASSUME IInv, AllTold, run.op = "resize", run.stage # "done"
    PROVE  /\ run \in Run /\ ResizeTargets(run.intent.scope) \subseteq Node
           /\ \A n \in ResizeTargets(run.intent.scope) : n[1] \in Role /\ n[2] \in Nat
           /\ \A n, m \in ResizeTargets(run.intent.scope) : n[1] = m[1] /\ (n[2] = m[2] => n = m)
           /\ Recording => marker.op = "resize" /\ marker.intent = run.intent
           /\ marker.op = "resize" => Recording
           /\ marker.op # "remove" /\ (marker.op = "add" => marker.intent = NoIntent)
           /\ run.marked => Recording /\ marker.target = run.target
           /\ Resuming => Recording /\ run.from.op = "resize" /\ run.from.intent = run.intent
           /\ ~Recording => cordoned = {} /\ tfvars = config
           /\ Placed = Below(config.workers) /\ Joined = Below(config.workers)
           /\ run.target \notin run.todo
           /\ cordoned \subseteq IF Drains(run.intent) THEN {marker.target} ELSE {}
           /\ run.intent.askDisk = 0 => \A r \in Role : tfvars.size[r].disk = config.size[r].disk
<1>1. run \in Run /\ run.intent.scope \in Scope /\ run.intent.scope[1] \in Role
  BY DEF IInv, TInv, TypeOK, ResizeShape, Run, Intent
<1>2. TInv
  BY DEF IInv
<1>3. Recording => marker.op = "resize" /\ marker.intent = run.intent
  BY DEF AllTold, Sole, Idle
<1>4. /\ marker.op = "resize" => Recording
      /\ marker.op # "remove" /\ (marker.op = "add" => marker.intent = NoIntent)
  BY <1>3 DEF Recording
<1>5. /\ run.marked => Recording /\ marker.target = run.target
      /\ Resuming => Recording /\ run.from.op = "resize" /\ run.from.intent = run.intent
      /\ run.target \notin run.todo
  BY DEF IInv, DInv, MarkedShape, Recording, FromShape, TargetTaken, AllTold, Sole
<1>6. /\ ~Recording => cordoned = {} /\ tfvars = config
      /\ Placed = Below(config.workers) /\ Joined = Below(config.workers)
  BY <1>3 DEF AllTold, Quiet
<1>7. /\ cordoned \subseteq IF Drains(run.intent) THEN {marker.target} ELSE {}
      /\ run.intent.askDisk = 0 => \A r \in Role : tfvars.size[r].disk = config.size[r].disk
  BY <1>3, <1>6 DEF AllTold, ResizeOpen
<1> QED
  BY <1>1, <1>2, <1>3, <1>4, <1>5, <1>6, <1>7, TargetsOfOneRole

LEMMA ResizeTells == ASSUME IInv, Settles, AllTold, ResizeStep PROVE AllTold'
<1> DEFINE R == ResizeTargets(run.intent.scope)
           L(n) == Landed(run.intent, n)
           Held1 == Working \ {"probe", "pre-gate"}
           Realized == {"power-cycle", "wait-ready", "disk-grow", "post-gate", "uncordon"}
           Early == {"next", "probe", "pre-gate", "cordon", "drain", "tf-apply", "done"}
<1>0. run.op = "resize" /\ run.stage # "done"
  BY DEF ResizeStep, ResizeMark, ResizePass, Mark, Pass, ResizeProbe, ResizePreGate,
         ResizeCordon, ResizeDrain, ResizeApply, ResizePowerOff, ResizePowerOn,
         ResizeWaitReady, ResizeGrowDisk, ResizePostGate, ResizeUncordon, ResizeNext,
         PickNext, ResizeSave, SaveConfig, ResizeRender, RenderTfvars, ResizeClear,
         ClearMarker, Doing, At, ResizeSteps
<1>F. /\ run \in Run /\ R \subseteq Node
      /\ \A n \in R : n[1] \in Role /\ n[2] \in Nat
      /\ \A n, m \in R : n[1] = m[1] /\ (n[2] = m[2] => n = m)
      /\ Recording => marker.op = "resize" /\ marker.intent = run.intent
      /\ marker.op = "resize" => Recording
      /\ marker.op # "remove" /\ (marker.op = "add" => marker.intent = NoIntent)
      /\ run.marked => Recording /\ marker.target = run.target
      /\ Resuming => Recording /\ run.from.op = "resize" /\ run.from.intent = run.intent
      /\ ~Recording => cordoned = {} /\ tfvars = config
      /\ Placed = Below(config.workers) /\ Joined = Below(config.workers)
      /\ run.target \notin run.todo
      /\ cordoned \subseteq IF Drains(run.intent) THEN {marker.target} ELSE {}
      /\ run.intent.askDisk = 0 => \A r \in Role : tfvars.size[r].disk = config.size[r].disk
  BY <1>0, ResizeFacts
<1>R. /\ run.todo \subseteq R
      /\ run.stage \in Working => run.target \in R /\ \A m \in run.todo : run.target[2] < m[2]
      /\ \A n \in R : n \in run.todo \/ L(n) \/ (run.stage \in Working /\ n = run.target)
      /\ run.stage \in Realized => L(run.target)
      /\ Resuming /\ run.from.target \in run.todo => run.stage \in {"next", "probe"} /\ marker = run.from
      /\ Resuming /\ run.stage \in Working /\ run.from.target = run.target => marker.target = run.target
      /\ IF run.stage \in Held1 THEN cordoned # {} => cordoned = {run.target} /\ marker.target = run.target
                                ELSE ~Ahead => cordoned = {}
      /\ ~Recording => run.stage \in Early
      /\ ~Recording /\ run.stage = "next" => run.todo # {}
      /\ run.stage \in {"save", "render", "clear"} => run.todo = {}
      /\ run.stage = "clear" => tfvars = config
  BY <1>0 DEF AllTold, ResizeRun
<1>P. /\ \A n \in R : Resuming /\ n[2] < run.from.target[2] => L(n)
      /\ Resuming /\ run.from.step \in {"power-cycle", "disk-grow", "uncordon"} => L(run.from.target)
  BY <1>0, <1>F DEF AllTold, ResizeRun, Past
\* Nothing is said of an add or of a removal, and no worker gains a VM.
<1>V. ASSUME run'.op = "resize", run'.from = run.from, iso' = iso, Placed' = Placed,
             marker'.op = "resize" \/ marker' \in {NoMarker, marker}
      PROVE  AddOpen' /\ AddRun' /\ RemoveOpen' /\ RemoveRun' /\ IsoFirst'
  <2>1. NoMarker.op = "none"
    BY DEF NoMarker
  <2>2. AddOpen' /\ AddRun' /\ RemoveOpen' /\ RemoveRun'
    BY <1>F, <1>V, <2>1 DEF AddOpen, AddRun, RemoveOpen, RemoveRun
  <2>3. IsoFirst'
    BY <1>V, <2>1 DEF AllTold, IsoFirst, Boots, At
  <2> QED
    BY <2>2, <2>3
\* What is left to show where VMs, tfvars and nodes are the same.
<1>G. ASSUME run'.op = "resize", run'.intent = run.intent, run'.from = run.from,
             UNCHANGED <<tfvars, vm, registered>>,
             run'.todo \subseteq R,
             run'.stage \in Working => run'.target \in R /\ \A m \in run'.todo : run'.target[2] < m[2],
             \A n \in R : n \in run'.todo \/ L(n) \/ (run'.stage \in Working /\ n = run'.target),
             run'.stage \in Realized => L(run'.target),
             Resuming /\ run.from.target \in run'.todo =>
                run'.stage \in {"next", "probe"} /\ marker' = run.from,
             Resuming /\ run'.stage \in Working /\ run.from.target = run'.target =>
                marker'.target = run'.target,
             IF run'.stage \in Held1
             THEN cordoned' # {} => cordoned' = {run'.target} /\ marker'.target = run'.target
             ELSE ~Ahead' => cordoned' = {},
             ~Recording' => run'.stage \in Early,
             ~Recording' /\ run'.stage = "next" => run'.todo # {},
             run'.stage \in {"save", "render", "clear", "done"} => run'.todo = {},
             run'.stage \in {"clear", "done"} => tfvars' = config'
      PROVE  ResizeRun'
  <2>1. \A n : (vm[n] = Wanted(run.intent, n[1]))' <=> L(n)
    BY <1>G DEF Landed, Wanted
  <2>2. R' = R
    BY <1>G DEF ResizeTargets
  <2>3. Past(run.from)'
    BY <1>0, <1>G DEF AllTold, ResizeRun, Past, Landed, Wanted, ResizeTargets
  <2> QED
    BY <1>G, <2>1, <2>2, <2>3 DEF ResizeRun, Landed, Resuming
<1>K. ASSUME UNCHANGED <<marker, config, tfvars, vm, registered, cordoned, iso>>,
             run'.op = "resize", run'.intent = run.intent, run'.from = run.from, ResizeRun'
      PROVE  AllTold'
  <2>1. Sole' /\ Quiet' /\ ResizeOpen'
    BY <1>0, <1>K, SameTold
  <2>2. Placed' = Placed
    BY <1>K DEF Placed, InState
  <2> QED
    BY <1>K, <1>V, <2>1, <2>2 DEF AllTold
<1> HIDE DEF R, L
<1>1. CASE ResizeNext
  <2>1. PickNext("resize", "next", "master", "probe", "save")
    BY <1>1 DEF ResizeNext
  <2>2. /\ run.stage = "next" /\ run'.op = "resize"
        /\ run'.from = run.from /\ run'.intent = run.intent
        /\ \/ run'.stage = "save" /\ run.todo = {} /\ run'.todo = {}
           \/ /\ run'.stage = "probe" /\ run'.target \in run.todo
              /\ run'.todo = run.todo \ {run'.target}
    BY <1>0, <2>1, PickType DEF Stage, Step, IInv, TInv
  <2>3. UNCHANGED <<marker, config, tfvars, vm, registered, cordoned, iso>>
    BY <2>1 DEF PickNext, files, infra, kube, boot
  <2>4. Recording' <=> Recording
    BY <2>3 DEF Recording
  <2>5. run'.stage = "probe" => \A m \in run'.todo : run'.target[2] < m[2]
    <3> SUFFICES ASSUME run'.stage = "probe", NEW m \in run'.todo PROVE run'.target[2] < m[2]
      OBVIOUS
    <3>1. run'.target \in run.todo /\ m \in run.todo /\ m # run'.target
      BY <2>2
    <3>2. PICK n \in run.todo : /\ \A x \in run.todo : Precedes(n, x, "master")
                                /\ run' = [run EXCEPT !.target = n, !.todo = @ \ {n},
                                                      !.stage = "probe"]
      BY <2>1, <3>1 DEF PickNext
    <3>3. run'.target = n
      BY <1>F, <3>2 DEF Run
    <3>4. /\ Precedes(n, m, "master") /\ n \in R /\ m \in R /\ n # m
          /\ n[1] = m[1] /\ n[2] # m[2] /\ n[2] \in Nat /\ m[2] \in Nat
      BY <1>F, <1>R, <3>1, <3>2, <3>3
    <3> QED
      BY <3>3, <3>4 DEF Precedes
  <2>6. Ahead' <=> Ahead
    BY <2>2 DEF Ahead, Resuming, Working, ResizeSteps
  <2>7. ResizeRun'
    <3>1. /\ run'.stage \notin Held1 /\ run.stage \notin Held1 /\ run.stage \notin Working
          /\ run'.stage \notin Realized /\ "save" \notin Working /\ "probe" \in Working
          /\ "save" \notin Early /\ "probe" \in Early
      BY <2>2 DEF Working, ResizeSteps
    <3>2. /\ run'.todo \subseteq R
          /\ run'.stage \in Working => run'.target \in R /\ \A m \in run'.todo : run'.target[2] < m[2]
          /\ \A n \in R : n \in run'.todo \/ L(n) \/ (run'.stage \in Working /\ n = run'.target)
          /\ Resuming /\ run.from.target \in run'.todo =>
                run'.stage \in {"next", "probe"} /\ marker' = run.from
      BY <1>R, <2>2, <2>3, <2>5, <3>1
    <3>3. Resuming /\ run'.stage \in Working /\ run.from.target = run'.target =>
             marker'.target = run'.target
      BY <1>R, <2>2, <2>3, <3>1
    <3>4. ~Ahead' => cordoned' = {}
      BY <1>R, <2>3, <2>6, <3>1
    <3>5. ~Recording' => run'.stage \in Early
      BY <1>R, <2>2, <2>4, <3>1
    <3> QED
      BY <1>G, <2>2, <2>3, <3>1, <3>2, <3>3, <3>4, <3>5
  <2> QED
    BY <1>K, <2>2, <2>3, <2>7
\* A node that the probe finds landed is done; the one a resume names is never probed.
<1>2. CASE ResizeProbe
  <2>1. /\ run.stage = "probe"
        /\ UNCHANGED <<marker, config, tfvars, vm, registered, cordoned, iso>>
        /\ \/ (Resuming => run.from.target = run.target) /\ GoTo("pre-gate")
           \/ /\ Resuming /\ run.from.target # run.target
              /\ GoTo(IF vm[run.target] = WantedHere THEN "next" ELSE "pre-gate")
    BY <1>2 DEF ResizeProbe, At, files, infra, kube, boot
  <2>2. PICK s \in {"next", "pre-gate"} :
          /\ GoTo(s)
          /\ s = "next" => Resuming /\ run.from.target # run.target /\ L(run.target)
          /\ s = "pre-gate" /\ Resuming => run.from.target = run.target \/ ~L(run.target)
    BY <2>1 DEF L, Landed, WantedHere
  <2>3. /\ run'.op = "resize" /\ run'.stage = s /\ run'.target = run.target /\ run'.todo = run.todo
        /\ run'.from = run.from /\ run'.intent = run.intent
    BY <1>0, <1>F, <2>2, GoToRun DEF Stage
  <2>4. /\ Recording' <=> Recording
        /\ {"probe", "pre-gate"} \subseteq Working \ Held1 /\ "next" \notin Working
        /\ {"probe", "pre-gate", "next"} \subseteq Early \ Realized
    BY <2>1 DEF Recording, Working, ResizeSteps
  <2>5. s = "pre-gate" /\ Resuming => run.from.target \notin run.todo
    <3> SUFFICES ASSUME s = "pre-gate", Resuming, run.from.target \in run.todo PROVE FALSE
      OBVIOUS
    <3>1. ~L(run.target)
      BY <1>F, <2>2
    <3>2. run.target \in R /\ run.target[2] < run.from.target[2]
      BY <1>R, <2>1, <2>4
    <3> QED
      BY <1>P, <3>1, <3>2
  <2>6. Ahead' <=> Ahead
    BY <2>1, <2>2, <2>3, <2>4 DEF Ahead, Resuming
  <2>7. ~Ahead' => cordoned' = {}
    BY <1>R, <2>1, <2>4, <2>6
  <2>8. ResizeRun'
    BY <1>F, <1>G, <1>R, <2>1, <2>2, <2>3, <2>4, <2>5, <2>7
  <2> QED
    BY <1>K, <2>1, <2>3, <2>8
<1>3. CASE ResizePreGate
  <2>1. /\ run.stage = "pre-gate" /\ GoTo("cordon")
        /\ UNCHANGED <<marker, config, tfvars, vm, registered, cordoned, iso>>
    BY <1>3 DEF ResizePreGate, Count, At, files, infra, kube
  <2>2. /\ run'.op = "resize" /\ run'.stage = "cordon" /\ run'.target = run.target
        /\ run'.todo = run.todo /\ run'.from = run.from /\ run'.intent = run.intent
    BY <1>0, <1>F, <2>1, GoToRun DEF Stage, Step
  <2>3. /\ Recording' <=> Recording
        /\ "pre-gate" \in Working \ Held1 /\ "cordon" \in Held1 \ Realized /\ Held1 \subseteq Working
        /\ "cordon" \in Early
    BY <2>1 DEF Recording, Working, ResizeSteps
  <2>4. cordoned # {} => cordoned = {run.target} /\ marker.target = run.target
    <3>1. CASE Ahead
      <4>1. Resuming /\ run.from.target = run.target
        BY <1>R, <2>1, <3>1 DEF Ahead
      <4>2. marker.target = run.target
        BY <1>R, <2>1, <2>3, <4>1
      <4> QED
        BY <1>F, <4>2
    <3>2. CASE ~Ahead
      BY <1>R, <2>1, <2>3, <3>2
    <3> QED
      BY <3>1, <3>2
  <2>5. ResizeRun'
    BY <1>G, <1>R, <2>1, <2>2, <2>3, <2>4
  <2> QED
    BY <1>K, <2>1, <2>2, <2>5
<1>4. CASE ResizeMark
  <2>1. PICK s \in ResizeSteps : Mark("resize", s)
    BY <1>4 DEF ResizeMark
  <2>2. /\ marker' = [op |-> "resize", target |-> run.target, step |-> s, intent |-> run.intent]
        /\ run'.stage = s /\ run.stage = s /\ run'.op = "resize" /\ run'.target = run.target
        /\ run'.todo = run.todo /\ run'.from = run.from /\ run'.intent = run.intent
    BY <2>1, <1>0, MarkType, ResizeStepsAreSteps DEF Op, IInv, TInv
  <2>3. UNCHANGED <<config, tfvars, vm, registered, cordoned, iso>>
    BY <2>1 DEF Mark, infra, kube, boot
  <2>4. /\ marker'.op = "resize" /\ marker'.target = run.target /\ marker'.step = s
        /\ marker'.intent = run.intent
    BY <2>2
  <2>5. /\ Recording' /\ Joined' = Joined /\ Placed' = Placed /\ \A x : Below(x)' = Below(x)
        /\ s \in Held1 /\ s \in Working /\ s \notin {"next", "probe", "save", "render", "clear", "done"}
    BY <2>3, <2>4 DEF Recording, Joined, Placed, InState, Below, Working, ResizeSteps
  <2>6. Sole' /\ Quiet'
    BY <1>0, <1>F, <2>2, <2>3, <2>4, <2>5 DEF AllTold, Sole, Quiet, Idle, Resuming
  <2>7. ResizeOpen'
    <3>1. /\ run.target \in R
          /\ s \in {"power-cycle", "disk-grow", "uncordon"} => L(run.target)
      BY <1>R, <2>2, <2>5
    <3>2. \A n \in R : n[2] < run.target[2] => L(n)
      BY <1>F, <1>R, <2>2, <2>5
    <3>3. Past(marker)'
      BY <2>2, <2>3, <2>4, <3>1, <3>2 DEF Past, R, L, Landed, Wanted, ResizeTargets
    <3>4. cordoned \subseteq IF Drains(run.intent) THEN {run.target} ELSE {}
      BY <1>F, <1>R, <2>2, <2>5
    <3> QED
      BY <1>F, <2>3, <2>4, <3>3, <3>4 DEF ResizeOpen
  <2>8. ResizeRun'
    BY <1>G, <1>R, <2>2, <2>3, <2>4, <2>5
  <2> QED
    BY <1>V, <2>2, <2>3, <2>4, <2>5, <2>6, <2>7, <2>8 DEF AllTold
<1>5. CASE ResizePass
  <2>1. PICK s \in ResizeSteps : ~ResizeDue(s) /\ Pass("resize", s, AfterStep(s))
    BY <1>5 DEF ResizePass
  <2>2. AfterStep(s) \in Stage
    BY DEF AfterStep, ResizeSteps, Stage, Step
  <2>3. /\ run'.stage = AfterStep(s) /\ run.stage = s /\ run'.op = "resize"
        /\ run'.target = run.target /\ run'.todo = run.todo
        /\ run'.from = run.from /\ run'.intent = run.intent
    BY <2>1, <2>2, <1>0, PassType DEF IInv, TInv
  <2>4. UNCHANGED <<marker, config, tfvars, vm, registered, cordoned, iso>>
    BY <2>1 DEF Pass, files, infra, kube, boot
  <2>5. /\ Recording' <=> Recording
        /\ s \in Held1 /\ s \in Working /\ s \notin {"next", "probe"}
    BY <2>4 DEF Recording, Working, ResizeSteps
  <2>6. /\ s = "tf-apply" => Resuming /\ L(run.target)
        /\ s = "uncordon" => DiskOnly(run.intent)
    <3>1. ResumeStep \in {"none"} \cup ResizeSteps
      BY <1>0, ResumeStepType
    <3>2. /\ StepOrder["cordon"] = 0 /\ StepOrder["drain"] = 1 /\ StepOrder["tf-apply"] = 2
          /\ StepOrder["power-cycle"] = 3 /\ StepOrder["disk-grow"] = 4 /\ StepOrder["uncordon"] = 5
      BY StepOrderValues DEF Step
    <3>3. /\ s = "tf-apply" => ~ShouldRunStep(s, ResumeStep)
          /\ s = "uncordon" => DiskOnly(run.intent) \/ ~ShouldRunStep(s, ResumeStep)
      BY <2>1 DEF ResizeDue
    <3>4. /\ s = "tf-apply" => ResumeStep \in {"power-cycle", "disk-grow", "uncordon"}
          /\ s = "uncordon" => DiskOnly(run.intent)
      BY <3>1, <3>2, <3>3 DEF ShouldRunStep, ResizeSteps
    <3>5. ResumeStep # "none" => run.from.target = run.target /\ run.from.step = ResumeStep /\ Resuming
      BY ResumeStepType DEF Resuming, NoMarker
    <3> QED
      BY <1>P, <3>4, <3>5
  <2>7. ResizeRun'
    <3>1. CASE s = "uncordon"
      <4>1. /\ run'.stage = "next" /\ "next" \notin Working /\ "next" \notin Realized
            /\ "next" \in Early /\ s \notin Early /\ s \in Realized
        BY <2>3, <3>1 DEF AfterStep, Working, ResizeSteps
      <4>2. cordoned = {}
        BY <1>F, <2>6, <3>1 DEF Drains
      <4> QED
        BY <1>G, <1>R, <2>3, <2>4, <2>5, <4>1, <4>2
    <3>2. CASE s # "uncordon"
      <4>1. run'.stage \in Held1 /\ run'.stage \in Working
        BY <2>3, <3>2 DEF AfterStep, Working, ResizeSteps
      <4>2. run'.stage \in Realized => L(run.target)
        BY <1>R, <2>3, <2>6, <3>2 DEF AfterStep, ResizeSteps
      <4>3. ~Recording' => run'.stage \in Early
        <5>1. ~Recording => s \in {"cordon", "drain"}
          <6>1. s = "tf-apply" => Recording
            BY <1>F, <2>6
          <6>2. ~Recording => s \in Early
            BY <1>R, <2>3
          <6> QED
            BY <6>1, <6>2 DEF ResizeSteps
        <5>2. s \in {"cordon", "drain"} => run'.stage \in {"drain", "tf-apply"}
          BY <2>3 DEF AfterStep
        <5> QED
          BY <2>5, <5>1, <5>2
      <4>4. run'.stage \notin {"next", "probe", "save", "render", "clear", "done"}
        BY <4>1 DEF Working, ResizeSteps
      <4> QED
        BY <1>G, <1>R, <2>3, <2>4, <2>5, <4>1, <4>2, <4>3, <4>4
    <3> QED
      BY <3>1, <3>2
  <2> QED
    BY <1>K, <2>3, <2>4, <2>7
<1>6. CASE ResizeCordon \/ ResizeDrain
  <2>1. PICK s \in {"drain", "tf-apply"} :
          GoTo(s) /\ run.stage \in {"cordon", "drain"} /\ run.marked
    BY <1>6 DEF ResizeCordon, ResizeDrain, Doing, At
  <2>2. /\ UNCHANGED <<marker, config, tfvars, vm, registered, iso>>
        /\ cordoned' = cordoned \cup {run.target}
    BY <1>6 DEF ResizeCordon, ResizeDrain, files, infra, boot
  <2>3. /\ run'.op = "resize" /\ run'.stage = s /\ run'.target = run.target /\ run'.todo = run.todo
        /\ run'.from = run.from /\ run'.intent = run.intent
    BY <1>0, <1>F, <2>1, GoToRun DEF Stage, Step
  <2>4. /\ Recording /\ Recording' /\ Joined' = Joined /\ Placed' = Placed
        /\ \A x : Below(x)' = Below(x)
        /\ run.stage \in Held1 /\ run.stage \in Working /\ s \in Held1 /\ s \in Working
        /\ s \notin Realized
    BY <1>F, <2>1, <2>2 DEF Recording, Joined, Placed, InState, Below, Working, ResizeSteps
  <2>5. Drains(run.intent)
    <3>1. ResizeDue(run.stage)
      BY <1>0, <2>1 DEF IInv, DInv, MarkedShape
    <3> QED
      BY <2>1, <3>1 DEF ResizeDue
  <2>6. cordoned' = {run.target} /\ marker.target = run.target
    BY <1>F, <1>R, <2>1, <2>2, <2>4
  <2>7. Sole' /\ Quiet'
    BY <1>0, <1>F, <2>2, <2>3, <2>4 DEF AllTold, Sole, Quiet, Idle, Resuming
  <2>8. ResizeOpen'
    <3>1. Past(marker)'
      BY <2>2 DEF AllTold, ResizeOpen, Past, Landed, Wanted, ResizeTargets
    <3> QED
      BY <1>F, <2>2, <2>4, <2>5, <2>6, <3>1 DEF ResizeOpen
  <2>9. ResizeRun'
    BY <1>G, <1>R, <2>1, <2>2, <2>3, <2>4, <2>6
  <2> QED
    BY <1>V, <2>2, <2>3, <2>4, <2>7, <2>8, <2>9 DEF AllTold
<1>7. CASE ResizeApply
  <2>1. /\ GoTo("power-cycle") /\ run.stage = "tf-apply" /\ run.marked
        /\ TargetedApply(run.target, "update", WantedHere)
        /\ UNCHANGED <<marker, config, tfvars, registered, cordoned, iso>>
    BY <1>7 DEF ResizeApply, Doing, At, files, kube, boot
  <2>2. /\ run'.op = "resize" /\ run'.stage = "power-cycle" /\ run'.target = run.target
        /\ run'.todo = run.todo /\ run'.from = run.from /\ run'.intent = run.intent
    BY <1>0, <1>F, <2>1, GoToRun DEF Stage, Step
  <2>3. /\ {"tf-apply", "power-cycle"} \subseteq Held1 /\ {"tf-apply", "power-cycle"} \subseteq Working
        /\ "tf-apply" \notin {"next", "probe"}
    BY DEF Working, ResizeSteps
  <2>4. /\ vm' = [vm EXCEPT ![run.target] = WantedHere] /\ vm \in [Node -> Size \cup {Absent}]
        /\ run.target \in Node /\ InState(run.target) /\ WantedHere # Absent
    <3>1. run.target \in Node
      BY <1>F, <1>R, <2>1, <2>3
    <3>2. WantedHere # Absent
      BY <1>0, <3>1, WantedType, SizeIsThere DEF IInv
    <3> QED
      BY <2>1, <3>1, <3>2 DEF TargetedApply, PlanGate, IInv, TInv, TypeOK
  <2>5. Placed' = Placed
    <3>1. \A n \in Workers : vm'[n] # Absent <=> vm[n] # Absent
      BY <2>4, NodeType DEF InState
    <3> QED
      BY <3>1 DEF Placed, InState
  <2>6. \A n \in R : n = run.target \/ L(n) => (vm[n] = Wanted(run.intent, n[1]))'
    <3>1. \A n \in R : vm'[n] = IF n = run.target THEN Wanted(run.intent, n[1]) ELSE vm[n]
      BY <1>F, <2>4 DEF WantedHere
    <3> QED
      BY <2>1, <2>2, <3>1 DEF L, Landed, Wanted
  <2>7. Recording /\ Recording' /\ Joined' = Joined /\ \A x : Below(x)' = Below(x) /\ R' = R
    BY <1>F, <2>1, <2>2 DEF Recording, Joined, Below, R, ResizeTargets
  <2>8. Sole' /\ Quiet'
    BY <1>0, <1>F, <2>1, <2>2, <2>5, <2>7 DEF AllTold, Sole, Quiet, Idle, Resuming
  <2>9. Past(marker)' /\ Past(run.from)'
    <3>1. marker.target \in R /\ \A n \in R : n[2] < marker.target[2] => L(n)
      BY <1>F, <2>7 DEF AllTold, ResizeOpen, Past, R, L
    <3>2. marker.step \in {"power-cycle", "disk-grow", "uncordon"} => L(marker.target)
      BY <1>F, <2>7 DEF AllTold, ResizeOpen, Past, L
    <3>3. Past(marker)'
      BY <1>F, <2>1, <2>2, <2>6, <2>7, <3>1, <3>2 DEF Past, R, Landed, Wanted, ResizeTargets
    <3>4. run.from.op = "resize" => run.from.target \in R /\ Resuming
      BY <1>0, <1>F DEF AllTold, ResizeRun, Past, R, Resuming, NoMarker
    <3>5. Past(run.from)'
      BY <1>F, <1>P, <2>1, <2>2, <2>6, <2>7, <3>4 DEF Past, R, Landed, Wanted, ResizeTargets
    <3> QED
      BY <3>3, <3>5
  <2>10. ResizeOpen'
    BY <2>1, <2>9 DEF AllTold, ResizeOpen
  <2>11. ResizeRun'
    <3>1. \A n \in R : n \in run.todo \/ (vm[n] = Wanted(run.intent, n[1]))'
      BY <1>R, <2>6
    <3>2. run.target \in R /\ (vm[run.target] = Wanted(run.intent, run.target[1]))'
      BY <1>R, <2>1, <2>2, <2>3, <2>6
    <3> QED
      BY <1>R, <2>1, <2>2, <2>3, <2>7, <2>9, <3>1, <3>2 DEF ResizeRun, Landed, Resuming, R
  <2> QED
    BY <1>F, <1>V, <2>1, <2>2, <2>5, <2>7, <2>8, <2>10, <2>11 DEF AllTold
<1>8. CASE ResizePowerOff
  BY <1>8, NothingTold DEF ResizePowerOff, files, boot, told
\* Stages that leave the record, the VMs and the cordons alone.
<1>9. CASE ResizePowerOn \/ ResizeWaitReady \/ ResizeGrowDisk \/ ResizePostGate
  <2>1. PICK s \in {"wait-ready", "disk-grow", "post-gate", "uncordon"} :
          /\ GoTo(s) /\ run.stage \in {"power-cycle", "wait-ready", "disk-grow", "post-gate"}
          /\ UNCHANGED <<marker, config, tfvars, vm, registered, cordoned, iso>>
    BY <1>9 DEF ResizePowerOn, ResizeWaitReady, ResizeGrowDisk, ResizePostGate, Count, Doing, At,
       files, infra, kube, boot
  <2>2. /\ run'.op = "resize" /\ run'.stage = s /\ run'.target = run.target /\ run'.todo = run.todo
        /\ run'.from = run.from /\ run'.intent = run.intent
    BY <1>0, <1>F, <2>1, GoToRun DEF Stage, Step
  <2>3. /\ Recording' <=> Recording
        /\ run.stage \in Held1 /\ run.stage \in Working /\ s \in Held1 /\ s \in Working
        /\ run.stage \in Realized /\ run.stage \notin Early
        /\ s \notin {"next", "probe", "save", "render", "clear", "done"}
    BY <2>1 DEF Recording, Working, ResizeSteps
  <2>4. ResizeRun'
    BY <1>G, <1>R, <2>1, <2>2, <2>3
  <2> QED
    BY <1>K, <2>1, <2>2, <2>4
<1>10. CASE ResizeUncordon
  <2>1. /\ GoTo("next") /\ run.stage = "uncordon" /\ run.marked
        /\ cordoned' = cordoned \ {run.target}
        /\ UNCHANGED <<marker, config, tfvars, vm, registered, iso>>
    BY <1>10 DEF ResizeUncordon, Doing, At, files, infra, boot
  <2>2. /\ run'.op = "resize" /\ run'.stage = "next" /\ run'.target = run.target
        /\ run'.todo = run.todo /\ run'.from = run.from /\ run'.intent = run.intent
    BY <1>0, <1>F, <2>1, GoToRun DEF Stage
  <2>3. /\ Recording /\ Recording' /\ Joined' = Joined /\ Placed' = Placed
        /\ \A x : Below(x)' = Below(x)
        /\ "uncordon" \in Held1 /\ "uncordon" \in Working /\ "next" \notin Working
        /\ "uncordon" \notin {"next", "probe"}
    BY <1>F, <2>1 DEF Recording, Joined, Placed, InState, Below, Working, ResizeSteps
  <2>4. cordoned' = {} /\ L(run.target)
    BY <1>R, <2>1, <2>3
  <2>5. Sole' /\ Quiet'
    BY <1>0, <1>F, <2>1, <2>2, <2>3 DEF AllTold, Sole, Quiet, Idle, Resuming
  <2>6. ResizeOpen'
    <3>1. Past(marker)'
      BY <2>1 DEF AllTold, ResizeOpen, Past, Landed, Wanted, ResizeTargets
    <3> QED
      BY <1>F, <2>1, <2>3, <2>4, <3>1 DEF ResizeOpen
  <2>7. ResizeRun'
    BY <1>G, <1>R, <2>1, <2>2, <2>3, <2>4
  <2> QED
    BY <1>V, <2>1, <2>2, <2>3, <2>5, <2>6, <2>7 DEF AllTold
<1>11. CASE ResizeSave
  <2>1. /\ GoTo("render") /\ run.stage = "save"
        /\ config' = Resized(config, run.intent)
        /\ UNCHANGED <<marker, tfvars, vm, registered, cordoned, iso>>
    BY <1>11 DEF ResizeSave, SaveConfig, At, infra, kube, boot
  <2>2. /\ run'.op = "resize" /\ run'.stage = "render" /\ run'.todo = run.todo
        /\ run'.target = run.target /\ run'.from = run.from /\ run'.intent = run.intent
    BY <1>0, <1>F, <2>1, GoToRun DEF Stage
  <2>3. /\ config'.workers = config.workers
        /\ run.intent.askDisk = 0 => \A r \in Role : config'.size[r].disk = config.size[r].disk
    <3>1. config \in Topology
      BY DEF IInv, TInv, TypeOK
    <3>2. config.size \in [Role -> Size]
      BY <3>1 DEF Topology
    <3> DEFINE g == [config.size EXCEPT ![run.intent.scope[1]] =
                       [mem |-> run.intent.mem,
                        disk |-> IF run.intent.askDisk > 0 THEN run.intent.askDisk ELSE @.disk]]
    <3>3. config' = [config EXCEPT !.size = g]
      BY <2>1, <3>1 DEF Resized, Topology
    <3>4. run.intent.askDisk = 0 => \A r \in Role : g[r].disk = config.size[r].disk
      BY <3>2
    <3> QED
      BY <3>1, <3>3, <3>4 DEF Topology
  <2>4. /\ Recording /\ Recording' /\ Joined' = Joined /\ Placed' = Placed
        /\ \A x : Below(x)' = Below(x)
        /\ {"save", "render"} \cap (Working \cup Realized) = {} /\ "save" \notin Early
    BY <1>R, <2>1 DEF Recording, Joined, Placed, InState, Below, Working, ResizeSteps
  <2>5. Sole' /\ Quiet'
    BY <1>0, <1>F, <2>1, <2>2, <2>3, <2>4 DEF AllTold, Sole, Quiet, Idle, Resuming
  <2>6. ResizeOpen'
    <3>1. Past(marker)'
      BY <2>1 DEF AllTold, ResizeOpen, Past, Landed, Wanted, ResizeTargets
    <3> QED
      BY <1>F, <2>1, <2>3, <2>4, <3>1 DEF AllTold, ResizeOpen
  <2>7. ~Ahead' => cordoned' = {}
    BY <1>R, <2>1, <2>2, <2>4 DEF Ahead, Resuming
  <2>8. ResizeRun'
    BY <1>G, <1>R, <2>1, <2>2, <2>4, <2>7
  <2> QED
    BY <1>V, <2>1, <2>2, <2>4, <2>5, <2>6, <2>8 DEF AllTold
\* What a disk that was not asked for is rendered as is what it was.
<1>12. CASE ResizeRender
  <2>1. /\ GoTo("clear") /\ run.stage = "render" /\ tfvars' = config
        /\ UNCHANGED <<marker, config, vm, registered, cordoned, iso>>
    BY <1>12 DEF ResizeRender, RenderTfvars, At, infra, kube, boot
  <2>2. /\ run'.op = "resize" /\ run'.stage = "clear" /\ run'.todo = run.todo
        /\ run'.target = run.target /\ run'.from = run.from /\ run'.intent = run.intent
    BY <1>0, <1>F, <2>1, GoToRun DEF Stage
  <2>3. /\ Recording /\ Recording' /\ Joined' = Joined /\ Placed' = Placed
        /\ \A x : Below(x)' = Below(x) /\ R' = R
        /\ {"clear", "render"} \cap (Working \cup Realized) = {} /\ "render" \notin Early
    BY <1>R, <2>1, <2>2 DEF Recording, Joined, Placed, InState, Below, Working, ResizeSteps,
       R, ResizeTargets
  <2>4. \A n \in R : L(n) => (vm[n] = Wanted(run.intent, n[1]))'
    <3>1. run.intent.askDisk \in Nat
      <4>1. run.intent \in Intent
        BY <1>F DEF Run
      <4>2. run.intent.askDisk \in Disk \cup {0}
        BY <4>1 DEF Intent
      <4>3. \A d \in Disk : d \in Nat
        BY SizeAssumption
      <4> QED
        BY <4>2, <4>3
    <3>2. \A r \in Role : run.intent.askDisk > 0 \/ tfvars'.size[r].disk = tfvars.size[r].disk
      BY <1>F, <2>1, <3>1
    <3> QED
      BY <1>F, <2>1, <2>2, <3>2 DEF L, Landed, Wanted
  <2>5. Sole' /\ Quiet'
    BY <1>0, <1>F, <2>1, <2>2, <2>3 DEF AllTold, Sole, Quiet, Idle, Resuming
  <2>6. Past(marker)' /\ Past(run.from)'
    <3>1. marker.target \in R /\ \A n \in R : n[2] < marker.target[2] => L(n)
      BY <1>F, <2>3 DEF AllTold, ResizeOpen, Past, R, L
    <3>2. marker.step \in {"power-cycle", "disk-grow", "uncordon"} => L(marker.target)
      BY <1>F, <2>3 DEF AllTold, ResizeOpen, Past, L
    <3>3. Past(marker)'
      BY <1>F, <2>1, <2>2, <2>3, <2>4, <3>1, <3>2 DEF Past, R, Landed, Wanted, ResizeTargets
    <3>4. run.from.op = "resize" => run.from.target \in R /\ Resuming
      BY <1>0, <1>F DEF AllTold, ResizeRun, Past, R, Resuming, NoMarker
    <3>5. Past(run.from)'
      BY <1>F, <1>P, <2>1, <2>2, <2>3, <2>4, <3>4 DEF Past, R, Landed, Wanted, ResizeTargets
    <3> QED
      BY <3>3, <3>5
  <2>7. ResizeOpen'
    BY <1>F, <2>1, <2>6 DEF AllTold, ResizeOpen
  <2>8. ResizeRun'
    <3>1. \A n \in R : (vm[n] = Wanted(run.intent, n[1]))'
      BY <1>R, <2>1, <2>3, <2>4
    <3>2. run.todo = {} /\ ~Ahead /\ ~Ahead' /\ cordoned' = {}
      BY <1>R, <2>1, <2>2, <2>3 DEF Ahead, Resuming
    <3> QED
      BY <2>1, <2>2, <2>3, <2>6, <3>1, <3>2 DEF ResizeRun, Landed, R
  <2> QED
    BY <1>V, <2>1, <2>2, <2>3, <2>5, <2>7, <2>8 DEF AllTold
<1>13. CASE ResizeClear
  <2>1. /\ GoTo("done") /\ run.stage = "clear" /\ marker' \in {NoMarker, marker}
        /\ UNCHANGED <<config, tfvars, vm, registered, cordoned, iso>>
    BY <1>13 DEF ResizeClear, ClearMarker, At, infra, kube, boot
  <2>2. /\ run'.op = "resize" /\ run'.stage = "done" /\ run'.todo = run.todo
        /\ run'.target = run.target /\ run'.from = run.from /\ run'.intent = run.intent
    BY <1>0, <1>F, <2>1, GoToRun DEF Stage
  <2>3. NoMarker.op = "none"
    BY DEF NoMarker
  <2>4. /\ Recording /\ Joined' = Joined /\ Placed' = Placed /\ \A x : Below(x)' = Below(x)
        /\ {"clear", "done"} \cap (Working \cup Realized) = {} /\ "done" \in Early
    BY <1>R, <2>1 DEF Joined, Placed, InState, Below, Working, ResizeSteps
  <2>5. run.todo = {} /\ tfvars = config /\ ~Ahead /\ ~Ahead' /\ cordoned = {}
    BY <1>R, <2>1, <2>2, <2>4 DEF Ahead, Resuming
  <2>6. Sole'
    BY <1>0, <1>F, <2>1, <2>2, <2>3, <2>4 DEF AllTold, Sole, Idle, Resuming, Recording
  <2>7. Quiet'
    BY <1>F, <2>1, <2>4, <2>5 DEF AllTold, Quiet
  <2>8. ResizeOpen'
    <3>1. CASE marker' = NoMarker
      BY <2>3, <3>1 DEF ResizeOpen, Past
    <3>2. CASE marker' = marker
      BY <2>1, <3>2 DEF AllTold, ResizeOpen, Past, Landed, Wanted, ResizeTargets
    <3> QED
      BY <2>1, <3>1, <3>2
  <2>9. ResizeRun'
    BY <1>G, <1>R, <2>1, <2>2, <2>4, <2>5
  <2> QED
    BY <1>V, <2>1, <2>2, <2>4, <2>6, <2>7, <2>8, <2>9 DEF AllTold
<1> QED
  BY <1>1, <1>2, <1>3, <1>4, <1>5, <1>6, <1>7, <1>8, <1>9, <1>10, <1>11, <1>12, <1>13 DEF ResizeStep


-----------------------------------------------------------------------------
(* Where operations start and end *)

\* What an operation starts from: nothing that is recorded, or the record it repeats.
LEMMA BeginOpTold ==
    ASSUME IInv, Unforced, AllTold, NEW op, NEW matches, NEW intent, NEW ack \in Acks, NEW from,
           BeginOp(op, matches, intent, ack, from)
    PROVE  /\ run.op = "none" /\ op \in {"resize", "add", "remove"}
           /\ \/ ~Recording /\ from = NoMarker /\ marker' \in {NoMarker, marker}
              \/ /\ Recording /\ from = marker /\ marker' = marker
                 /\ marker.op = op /\ matches /\ marker.intent = intent
<1>1. run.op = "none" /\ op \in {"resize", "add", "remove"} /\ ack = FALSE
  BY DEF BeginOp, Unforced, Idle
<1>2. Stranded => Recording
  <2>1. marker.op \in Op \cup {"none"}
    BY DEF IInv, TInv, TypeOK, Marker
  <2> QED
    BY <2>1 DEF AllTold, Sole, Stranded, Recording, CompletedAddResidue, Op
<1>3. Recording => Stranded
  BY DEF Recording, Stranded, CompletedAddResidue, NoMarker
<1> QED
  BY <1>1, <1>2, <1>3 DEF BeginOp, Resumable

\* With nothing else running, the conjuncts about the record pass to the new run.
LEMMA BeginKeepsTold ==
    ASSUME AllTold, run.op = "none", marker' \in {NoMarker, marker},
           marker' = marker \/ ~Recording,
           UNCHANGED <<config, tfvars, vm, registered, cordoned, iso>>,
           run'.op \in {"none", "resize", "add", "remove"},
           run'.from.op \in {"none", run'.op}, run'.from \in {NoMarker, marker},
           run'.stage \notin {"upload-iso", "tf-apply", "wait-join"},
           run'.from = NoMarker \/ Recording,
           Recording /\ run'.op # "none" => marker.op = run'.op /\ marker.intent = run'.intent
    PROVE  /\ Sole' /\ Quiet' /\ AddOpen' /\ RemoveOpen' /\ ResizeOpen' /\ IsoFirst'
           /\ Recording' <=> Recording
           /\ Placed' = Placed /\ Joined' = Joined /\ \A k : Below(k)' = Below(k)
<1>0. NoMarker.op = "none"
  BY DEF NoMarker
<1>1. /\ Recording' <=> Recording
      /\ Placed' = Placed /\ Joined' = Joined /\ \A k : Below(k)' = Below(k)
  <2>1. Recording' <=> Recording
    BY <1>0 DEF Recording
  <2> QED
    BY <2>1 DEF Placed, Joined, Below, InState
<1>2. Sole'
  BY <1>0, <1>1 DEF AllTold, Sole, Idle, Resuming
<1>3. Quiet' /\ AddOpen' /\ RemoveOpen'
  <2>1. marker'.op = "resize" => marker.op = "resize"
    BY <1>0
  <2>2. Quiet'
    BY <1>1, <2>1 DEF AllTold, Quiet
  <2>3. AddOpen' /\ RemoveOpen'
    BY <1>0, <1>1 DEF AllTold, AddOpen, RemoveOpen
  <2> QED
    BY <2>2, <2>3
<1>4. ResizeOpen'
  <2>1. CASE marker' = NoMarker
    BY <1>0, <2>1 DEF ResizeOpen, Past
  <2>2. CASE marker' = marker
    BY <2>2 DEF AllTold, ResizeOpen, Past, Landed, Wanted, ResizeTargets
  <2> QED
    BY <2>1, <2>2
<1>5. IsoFirst'
  BY <1>0, <1>1 DEF AllTold, IsoFirst, Boots, At
<1> QED
  BY <1>1, <1>2, <1>3, <1>4, <1>5

LEMMA BeginTells == ASSUME IInv, Unforced, AllTold, Begin PROVE AllTold'
<1>N. NoMarker.op = "none" /\ NoMarker.step = "none"
  BY DEF NoMarker
<1>1. CASE BeginResize
  <2>1. PICK q \in ResizeRequests, ack \in Acks : ResizeBegin(q, ack)
    BY <1>1 DEF BeginResize
  <2> DEFINE intent == ResizeIntent(q)
  <2>2. PICK from \in {NoMarker, marker} :
          /\ BeginOp("resize", ResizeMatch(q.scope, marker.target), intent, ack, from)
          /\ Started("resize", "next", ResizeTargets(q.scope), from, intent)
    BY <2>1 DEF ResizeBegin
  <2>3. intent.scope = q.scope
    BY DEF ResizeIntent, NoIntent
  <2> HIDE DEF intent
  <2>4. /\ run.op = "none"
        /\ \/ ~Recording /\ from = NoMarker /\ marker' \in {NoMarker, marker}
           \/ /\ Recording /\ from = marker /\ marker' = marker
              /\ marker.op = "resize" /\ marker.intent = intent
    BY <2>2, BeginOpTold
  <2>5. /\ run'.op = "resize" /\ run'.stage = "next" /\ run'.todo = ResizeTargets(intent.scope)
        /\ run'.from = from /\ run'.intent = intent /\ run'.marked = FALSE
    BY <2>2, <2>3 DEF Started
  <2>6. /\ UNCHANGED <<config, tfvars, vm, registered, cordoned, iso>>
        /\ ResizeTargets(intent.scope) # {}
    BY <2>1, <2>3 DEF ResizeBegin, infra, kube, boot
  <2>7. /\ Sole' /\ Quiet' /\ AddOpen' /\ RemoveOpen' /\ ResizeOpen' /\ IsoFirst'
        /\ Recording' <=> Recording
    BY <1>N, <2>2, <2>4, <2>5, <2>6, BeginKeepsTold
  <2>8. AddRun' /\ RemoveRun'
    BY <2>5 DEF AddRun, RemoveRun
  <2>9. ResizeRun'
    <3>1. /\ run'.stage \notin Working /\ "next" \notin {"probe", "save", "render", "clear", "done"}
      BY <2>5 DEF Working, ResizeSteps
    <3>2. ResizeTargets(run.intent.scope)' = ResizeTargets(intent.scope)
      BY <2>5, <2>6 DEF ResizeTargets
    <3>3. CASE ~Recording
      <4>1. from = NoMarker /\ cordoned' = {}
        BY <2>4, <2>6, <3>3 DEF AllTold, Quiet
      <4>2. Past(run.from)'
        BY <1>N, <2>5, <4>1 DEF Past
      <4> QED
        BY <2>5, <2>6, <2>7, <3>1, <3>2, <4>1, <4>2 DEF ResizeRun, Resuming
    <3>4. CASE Recording
      <4>1. from = marker /\ marker' = marker /\ marker.op = "resize" /\ marker.intent = intent
        BY <2>4, <3>4
      <4>2. marker.target \in ResizeTargets(intent.scope)
        BY <4>1 DEF AllTold, ResizeOpen, Past
      <4>3. Past(run.from)'
        BY <2>5, <2>6, <4>1 DEF AllTold, ResizeOpen, Past, Landed, Wanted, ResizeTargets
      <4>4. Ahead'
        BY <1>N, <2>5, <4>1, <4>2 DEF Ahead, Resuming
      <4> QED
        BY <2>5, <2>6, <2>7, <3>1, <3>2, <3>4, <4>1, <4>3, <4>4 DEF ResizeRun, Resuming
    <3> QED
      BY <3>3, <3>4
  <2> QED
    BY <2>7, <2>8, <2>9 DEF AllTold
<1>2. CASE BeginAdd
  <2>1. PICK count \in AddCounts, ack \in Acks : AddBegin(count, ack)
    BY <1>2 DEF BeginAdd
  <2> DEFINE start == AddStart(count)
             intent == AddIntent(start, count)
             batch == Batch(start, count)
  <2>2. PICK from \in {NoMarker, marker} :
          /\ BeginOp("add", marker.target \in batch, intent, ack, from)
          /\ Started("add", "ignition-up", Remaining(batch, from), from, intent)
    BY <2>1 DEF AddBegin
  <2>3. intent.start = start /\ intent.count = count /\ count > 0 /\ NoIntent.count = 0
    BY AddAssumption DEF AddIntent, NoIntent
  <2>a. batch = Batch(start, count) /\ start + count =< MaxWorkers
    BY <2>1 DEF AddBegin
  <2>b. ~Recording => start = config.workers
    BY DEF AddStart, Recorded, Recording
  <2>c. count \in Nat /\ start \in Nat
    <3>1. marker.intent.start \in Nat /\ config.workers \in Nat
      <4>1. marker.intent \in Intent /\ config \in Topology
        BY DEF IInv, TInv, TypeOK, Marker
      <4> QED
        BY <4>1, ClusterAssumption DEF Intent, Topology
    <3> QED
      BY <3>1, AddAssumption DEF AddStart
  <2> HIDE DEF intent, start, batch
  <2>4. /\ run.op = "none"
        /\ \/ ~Recording /\ from = NoMarker /\ marker' \in {NoMarker, marker}
           \/ /\ Recording /\ from = marker /\ marker' = marker
              /\ marker.op = "add" /\ marker.intent = intent
    BY <2>2, BeginOpTold
  <2>5. /\ run'.op = "add" /\ run'.stage = "ignition-up" /\ run'.todo = Remaining(batch, from)
        /\ run'.from = from /\ run'.intent = intent /\ run'.marked = FALSE
    BY <2>2 DEF Started
  <2>6. UNCHANGED <<config, tfvars, vm, registered, cordoned, iso>>
    BY <2>1 DEF AddBegin, infra, kube, boot
  <2>7. /\ Sole' /\ Quiet' /\ AddOpen' /\ RemoveOpen' /\ ResizeOpen' /\ IsoFirst'
        /\ Recording' <=> Recording
        /\ Joined' = Joined
    BY <1>N, <2>2, <2>4, <2>5, <2>6, BeginKeepsTold
  <2>8. RemoveRun' /\ ResizeRun'
    BY <2>5 DEF RemoveRun, ResizeRun
  <2>9. AddRun'
    <3>1. OfBatch(run.intent)' = batch /\ \A n \in batch : n \in Workers /\ n[2] \in Nat
      BY <2>3, <2>5, <2>a, <2>c, BatchIs, Indices DEF OfBatch
    <3>2. "ignition-up" \notin AddSteps \cup {"save", "render", "clear", "done"}
      BY DEF AddSteps
    <3>3. CASE ~Recording
      <4>1. run'.todo = batch
        BY <2>4, <2>5, <3>3 DEF Remaining
      <4> QED
        BY <2>3, <2>5, <2>6, <2>7, <2>b, <3>1, <3>2, <3>3, <4>1 DEF AddRun
    <3>4. CASE Recording
      <4>1. /\ run'.todo = {n \in batch : n[2] >= marker.target[2]}
            /\ marker.op = "add" /\ marker.intent = intent /\ intent # NoIntent
        BY <1>N, <2>3, <2>4, <2>5, <3>4 DEF Remaining
      <4>2. Below(marker.target[2]) \subseteq Joined /\ marker.target[2] \in Nat
        <5>1. marker.target \in OfBatch(marker.intent) /\ Below(marker.target[2]) \subseteq Joined
          BY <4>1 DEF AllTold, AddOpen
        <5>2. marker.target \in batch
          BY <2>3, <2>a, <4>1, <5>1 DEF OfBatch
        <5> QED
          BY <3>1, <5>1, <5>2
      <4>3. \A n \in batch : n \in run'.todo \/ n \in Joined
        BY <3>1, <4>1, <4>2 DEF Below
      <4> QED
        BY <2>3, <2>5, <2>7, <3>1, <3>2, <3>4, <4>1, <4>3 DEF AddRun
    <3> QED
      BY <3>3, <3>4
  <2> QED
    BY <2>7, <2>8, <2>9 DEF AllTold
<1>3. CASE BeginRemove
  <2>1. PICK n \in Workers, skipDrain \in RemoveRequests, ack \in Acks :
            RemoveBegin(n, skipDrain, ack)
    BY <1>3 DEF BeginRemove
  <2> DEFINE intent == RemoveIntent(n, skipDrain)
  <2>2. PICK from \in {NoMarker, marker} :
          /\ BeginOp("remove", marker.target = n, intent, ack, from)
          /\ from = NoMarker => Removable(n)
          /\ Started("remove", "next", {n}, from, intent)
    BY <2>1 DEF RemoveBegin
  <2>3. intent.scope = n
    BY DEF RemoveIntent, NoIntent
  <2> HIDE DEF intent
  <2>4. /\ run.op = "none"
        /\ \/ ~Recording /\ from = NoMarker /\ marker' \in {NoMarker, marker}
           \/ /\ Recording /\ from = marker /\ marker' = marker
              /\ marker.op = "remove" /\ marker.target = n /\ marker.intent = intent
    BY <2>2, BeginOpTold
  <2>5. /\ run'.op = "remove" /\ run'.stage = "next" /\ run'.todo = {n}
        /\ run'.from = from /\ run'.intent = intent /\ run'.marked = FALSE
    BY <2>2 DEF Started
  <2>6. UNCHANGED <<config, tfvars, vm, registered, cordoned, iso>>
    BY <2>1 DEF RemoveBegin, infra, kube, boot
  <2>7. /\ Sole' /\ Quiet' /\ AddOpen' /\ RemoveOpen' /\ ResizeOpen' /\ IsoFirst'
        /\ Recording' <=> Recording
    BY <1>N, <2>2, <2>4, <2>5, <2>6, BeginKeepsTold
  <2>8. AddRun' /\ ResizeRun'
    BY <2>5 DEF AddRun, ResizeRun
  <2>9. RemoveRun'
    <3>1. ~Recording => config.workers = n[2] + 1
      <4>1. config.workers \in Nat /\ n[2] \in Nat
        BY ClusterAssumption, Indices DEF IInv, TInv, TypeOK, Topology
      <4> QED
        BY <2>2, <2>4, <4>1 DEF Removable
    <3>2. from.step = "delete-node" => config.workers = n[2] /\ tfvars = config
      BY <1>N, <2>4 DEF AllTold, RemoveOpen
    <3> QED
      BY <2>3, <2>5, <2>6, <2>7, <3>1, <3>2 DEF RemoveRun, RemoveSteps
  <2> QED
    BY <2>7, <2>8, <2>9 DEF AllTold
<1>4. CASE BeginStop \/ BeginStart
  BY <1>4 DEF BeginStop, BeginStart, StopBegin, StartBegin, RefuseForeignMarker, Unforced
<1> QED
  BY <1>1, <1>2, <1>3, <1>4 DEF Begin

\* A swept residue, and a run that ends however it ends, leave the record as it was.
LEMMA SweepTells == ASSUME AllTold, SweepResidue PROVE AllTold'
<1>1. /\ run.op = "none" /\ run' = run /\ marker' = NoMarker /\ ~Recording
      /\ UNCHANGED <<config, tfvars, vm, registered, cordoned, iso>>
  BY DEF SweepResidue, Idle, CompletedAddResidue, Recording, infra, kube, boot
<1>2. run.stage \in {"done"} \/ ~Resuming
  BY <1>1 DEF AllTold, Sole
<1>3. NoMarker.op = "none" /\ NoMarker.intent = NoIntent
  BY DEF NoMarker
<1>4. /\ Recording' <=> Recording
      /\ Placed' = Placed /\ Joined' = Joined /\ \A k : Below(k)' = Below(k)
  BY <1>1, <1>3 DEF Recording, Placed, Joined, InState, Below
<1>5. Sole' /\ Quiet'
  BY <1>1, <1>2, <1>3, <1>4 DEF AllTold, Sole, Quiet, Idle, Resuming, Recording
<1>6. AddOpen' /\ AddRun' /\ RemoveOpen' /\ RemoveRun' /\ ResizeOpen' /\ ResizeRun'
  BY <1>1, <1>3 DEF AddOpen, AddRun, RemoveOpen, RemoveRun, ResizeOpen, Past, ResizeRun
<1>7. IsoFirst'
  BY <1>1, <1>3, <1>4 DEF AllTold, IsoFirst, Boots, At
<1> QED
  BY <1>5, <1>6, <1>7 DEF AllTold

LEMMA EndTells ==
    ASSUME AllTold, run' = IdleRun, UNCHANGED <<files, infra, kube, iso>>
    PROVE  AllTold'
<1>1. /\ run'.op = "none" /\ run'.stage = "idle" /\ run'.from = NoMarker
      /\ UNCHANGED <<marker, config, tfvars, vm, registered, cordoned, iso>>
  BY DEF IdleRun, files, infra, kube
<1>2. NoMarker.op = "none"
  BY DEF NoMarker
<1>3. /\ Recording' <=> Recording
      /\ Placed' = Placed /\ Joined' = Joined /\ \A k : Below(k)' = Below(k)
  BY <1>1 DEF Recording, Placed, Joined, InState, Below
<1>4. Sole' /\ Quiet' /\ AddOpen' /\ RemoveOpen'
  BY <1>1, <1>2, <1>3 DEF AllTold, Sole, Quiet, AddOpen, RemoveOpen, Idle, Resuming
<1>5. ResizeOpen'
  BY <1>1 DEF AllTold, ResizeOpen, Past, Landed, Wanted, ResizeTargets
<1>6. AddRun' /\ RemoveRun' /\ ResizeRun'
  BY <1>1 DEF AddRun, RemoveRun, ResizeRun
<1>7. IsoFirst'
  BY <1>1, <1>2, <1>3 DEF AllTold, IsoFirst, Boots, At
<1> QED
  BY <1>4, <1>5, <1>6, <1>7 DEF AllTold


LEMMA InitTells == Init => AllTold
<1> SUFFICES ASSUME Init PROVE AllTold
  OBVIOUS
<1>1. /\ run.op = "none" /\ run.stage = "idle" /\ run.from = NoMarker
      /\ NoMarker.op = "none" /\ NoMarker.step = "none"
  BY DEF Init, IdleRun, NoMarker
<1>2. /\ marker = NoMarker \/ /\ marker.op = "add" /\ marker.intent = NoIntent
                              /\ marker.target \in Workers /\ marker.target[2] = WorkerCount - 1
                              /\ marker.step = "wait-join"
      /\ ~Recording
  BY <1>1 DEF Init, Recording
<1>3. config.workers = WorkerCount /\ tfvars = config /\ cordoned = {} /\ WorkerCount \in Nat
  BY ClusterAssumption DEF Init
<1>4. /\ registered = Masters \cup {n \in Workers : n[2] < WorkerCount}
      /\ \A n \in Workers : n \in registered <=> n[2] < WorkerCount
  BY NodeType DEF Init
<1>5. /\ \A n \in Workers : vm[n] = IF n \in registered THEN FirstSize ELSE Absent
      /\ \A n \in Workers : n \in registered => iso[n] = "uploaded"
      /\ FirstSize # Absent
  BY NodeType, FirstSizeType, SizeIsThere DEF Init
<1>6. Placed = Below(config.workers) /\ Joined = Below(config.workers)
  BY <1>3, <1>4, <1>5 DEF Placed, Joined, Below, InState
<1>7. Sole
  <2>1. marker # NoMarker => marker.target[2] < config.workers
    BY <1>2, <1>3
  <2> QED
    BY <1>1, <1>2, <2>1 DEF Sole, Idle, Resuming
<1>8. Quiet
  BY <1>3, <1>4, <1>6 DEF Quiet
<1>9. AddOpen /\ AddRun /\ RemoveOpen /\ RemoveRun /\ ResizeOpen /\ ResizeRun
  BY <1>1, <1>2 DEF AddOpen, AddRun, RemoveOpen, RemoveRun, ResizeOpen, Past, ResizeRun
<1>10. IsoFirst
  <2>1. marker.op = "add" => marker.target \in registered
    BY <1>1, <1>2, <1>3, <1>4
  <2>2. Boots(marker) /\ Boots(run.from)
    BY <1>1, <1>2, <1>5, <2>1 DEF Boots, AddSteps
  <2> QED
    BY <1>1, <1>5, <2>2 DEF IsoFirst, At, Placed, InState
<1> QED
  BY <1>7, <1>8, <1>9, <1>10 DEF AllTold

LEMMA AllToldStep == ASSUME Unforced, IInv, Settles, AllTold, [Next]_vars PROVE AllTold'
<1>1. CASE Begin
  BY <1>1, BeginTells
<1>2. CASE SweepResidue
  BY <1>2, SweepTells
<1>3. CASE ResizeStep \/ AddStep \/ RemoveStep
  BY <1>3, ResizeTells, AddTells, RemoveTells
<1>4. CASE PowerStep
  <2>1. run.op \in {"stop", "start"}
    BY <1>4 DEF PowerStep, StopList, StopCordonAll, StopCordoned, StopNext, PickNext, StopMark, Mark,
       StopShutdown, StopClear, ClearMarker, StartList, StartMark, StartPowerOn, StartPoweredOn, StartWait,
       StartUncordonAll, StartUncordoned, StartClear, Doing, At
  <2> QED
    BY <2>1 DEF AllTold, Sole
<1>5. CASE Return \/ Fail \/ Crash \/ ResizeGivesUp \/ AddGivesUp \/ PowerGivesUp
  <2>1. run' = IdleRun /\ UNCHANGED <<files, infra, kube, iso>>
    BY <1>5 DEF Return, Fail, Crash, ResizeGivesUp, AddGivesUp, PowerGivesUp, GiveUp, boot
  <2> QED
    BY <2>1, EndTells
<1>6. CASE Environment
  <2>1. UNCHANGED told
    BY <1>6 DEF Environment, Boot, ReportStatus, told, files, infra, kube, boot
  <2> QED
    BY <2>1, NothingTold
<1>7. CASE UNCHANGED vars
  BY <1>7, NothingTold DEF vars, files, infra, kube, boot, told
<1> QED
  BY <1>1, <1>2, <1>3, <1>4, <1>5, <1>6, <1>7 DEF Next, Proceed

LEMMA AllToldAlways == ASSUME Unforced PROVE Spec => [](IInv /\ Settles /\ AllTold)
<1>1. Init => IInv /\ Settles /\ AllTold
  BY InitType, InitKeeps, InitSettles, InitTells DEF IInv
<1>2. IInv /\ Settles /\ AllTold /\ [Next]_vars => (IInv /\ Settles /\ AllTold)'
  BY IInvStep, SettlesStep, AllToldStep
<1> QED
  BY <1>1, <1>2, PTL DEF Spec

\* Where no recorded operation is overridden and the cluster is not powered off as a
\* whole: with no operation running or recorded, terraform's workers, the API's workers
\* and the persisted topology are the same, tfvars is rendered, and every node is
\* schedulable, whichever resizes, adds and removals were interrupted, failed or repeated.
THEOREM NothingIsLeft == ASSUME Unforced PROVE Spec => []NothingLeftBehind
<1>1. IInv /\ Settles /\ AllTold => NothingLeftBehind
  <2> SUFFICES ASSUME IInv, AllTold, Idle, marker = NoMarker
               PROVE  /\ {n \in Workers : InState(n)} = Configured \ Masters
                      /\ registered = Configured
                      /\ tfvars = config
                      /\ cordoned = {}
    BY DEF NothingLeftBehind
  <2>1. ~Recording
    BY DEF Recording, NoMarker
  <2>2. /\ Masters \subseteq registered /\ tfvars = config /\ cordoned = {}
        /\ Placed = Below(config.workers) /\ Joined = Below(config.workers)
    BY <2>1 DEF AllTold, Quiet
  <2>3. registered \subseteq Masters \cup Workers
    BY DEF IInv, TInv, TypeOK, Node
  <2> QED
    BY <2>2, <2>3, NodeType DEF Configured, Placed, Joined, Below
<1> QED
  BY <1>1, AllToldAlways, PTL

\* On the same terms: an add whose count is persisted, or that reports success, added
\* exactly the batch it recorded, however often it was interrupted, and no VM was
\* created before its boot ISO reached the hypervisor.
THEOREM AddsExactly == ASSUME Unforced PROVE Spec => []AddedExactly
<1>1. IInv /\ Settles /\ AllTold => AddedExactly
  <2> SUFFICES ASSUME IInv, AllTold, run.op = "add", run.stage \in {"save", "render", "clear", "done"}
               PROVE  /\ \A n \in Workers : InState(n) => iso[n] = "uploaded"
                      /\ Batch(run.intent.start, run.intent.count) \subseteq registered
                      /\ \A n \in Workers : n[2] < run.intent.start + run.intent.count <=> InState(n)
                      /\ run.stage # "save" => config.workers = run.intent.start + run.intent.count
    BY DEF AddedExactly
  <2> DEFINE T == Total(run.intent)
             B == OfBatch(run.intent)
  <2>1. /\ run.intent.start \in Nat /\ T = run.intent.start + run.intent.count /\ T \in Nat
        /\ run.intent # NoIntent
        /\ \A n : n \in B <=> n \in Workers /\ run.intent.start =< n[2] /\ n[2] < T
        /\ Recording => marker.op = "add" /\ marker.intent = run.intent
    BY AddFacts DEF Total
  <2>2. /\ run.stage # "done" => Recording
        /\ \A n \in B : n \in Joined
        /\ run.stage # "save" => config.workers = T
    BY DEF AllTold, AddRun, AddSteps
  <2> HIDE DEF T, B
  <2>3. Placed = Below(T) /\ Joined = Below(T)
    <3>1. CASE Recording
      <4>1. /\ Below(run.intent.start) \subseteq Joined /\ Joined \subseteq Placed /\ Placed \subseteq Below(T)
        BY <2>1, <3>1 DEF AllTold, AddOpen, T
      <4>2. Below(T) \subseteq Below(run.intent.start) \cup B
        BY <2>1, Indices DEF Below
      <4> QED
        BY <2>2, <4>1, <4>2
    <3>2. CASE ~Recording
      BY <2>2, <3>2 DEF AllTold, Quiet
    <3> QED
      BY <3>1, <3>2
  <2>4. \A n \in Placed : iso[n] = "uploaded"
    BY DEF AllTold, IsoFirst
  <2>5. B \subseteq registered
    BY <2>2 DEF Joined
  <2> QED
    BY <2>1, <2>2, <2>3, <2>4, <2>5 DEF Placed, Below, B, OfBatch
<1> QED
  BY <1>1, AllToldAlways, PTL

-----------------------------------------------------------------------------
(***************************************************************************)
(* A resize is realized.                                                   *)
(*                                                                         *)
(* The apply changes what a VM is configured with, and the guest follows   *)
(* at the power-cycle and at the growing of its disk.  Where nothing is    *)
(* overridden, a guest that lags behind is the marker's target at a step   *)
(* that makes it follow (StaleOpen), and a run that takes the marker up    *)
(* gets there before it finishes (StaleRun).  A role that is ever grown by *)
(* its disk alone must not be resized node by node as well: a disk-only    *)
(* request applies the role's memory too, and power-cycles nobody.         *)
(***************************************************************************)
Whole(r) == \A q \in ResizeRequests : q.scope[1] = r => q.scope[2] = -1
RoleWise == \A q \in ResizeRequests : q.mem = 0 => Whole(q.scope[1])

\* A guest that does not have its VM's memory, or its disk.
StaleMemory(n) == InState(n) /\ guest[n].mem # vm[n].mem
StaleDisk(n) == InState(n) /\ guest[n].disk # vm[n].disk
Stale(n) == StaleMemory(n) \/ StaleDisk(n)

\* What an intent resolves the request to; without --memory-mb the role's memory.
Resolved(i) ==
    /\ i.askMem > 0 \/ i.askDisk > 0
    /\ i.askMem > 0 => i.mem = i.askMem
    /\ i.askDisk > 0 => i.scope[2] = -1 /\ i.disk = i.askDisk
    /\ Whole(i.scope[1]) => i.scope[2] = -1
    /\ DiskOnly(i) => Whole(i.scope[1]) /\ i.mem = config.size[i.scope[1]].mem
SizesResolved ==
    /\ marker.op = "resize" => Resolved(marker.intent)
    /\ run.op = "resize" => Resolved(run.intent)

\* The role whose disks, or whose memory, are being changed.
Grows(r) == marker.op = "resize" /\ marker.intent.askDisk > 0 /\ marker.intent.scope[1] = r
Restarts(r) == marker.op = "resize" /\ marker.intent.askMem > 0 /\ marker.intent.scope[1] = r

\* Of any other role okdctl.yaml, tfvars and the VMs say the same.
SizesKept ==
    \A r \in Role :
       /\ ~Grows(r) =>
             /\ tfvars.size[r].disk = config.size[r].disk
             /\ \A n \in OfRole(r) : InState(n) => vm[n].disk = config.size[r].disk
       /\ Whole(r) /\ ~Restarts(r) =>
             /\ tfvars.size[r].mem = config.size[r].mem
             /\ \A n \in OfRole(r) : InState(n) => vm[n].mem = config.size[r].mem
SizesSaved ==
    run.op = "resize" /\ run.stage \in {"render", "clear"} =>
        LET saved == config.size[run.intent.scope[1]] IN
        saved.mem = run.intent.mem /\ (run.intent.askDisk > 0 => saved.disk = run.intent.askDisk)

\* A guest that lags behind is the target of a marker whose resume makes it follow.
Follows == {"tf-apply", "power-cycle", "disk-grow"}
LeftBy(m, n) ==
    /\ m.op = "resize" /\ m.target = n /\ m.step \in Follows
    /\ StaleMemory(n) => m.step # "disk-grow" /\ m.intent.askMem > 0
    /\ StaleDisk(n) => m.intent.askDisk > 0
StaleOpen == \A n \in Node : Stale(n) => LeftBy(marker, n)
Applied == {"power-cycle", "wait-ready", "disk-grow", "post-gate", "uncordon"}
StaleRun ==
    run.op = "resize" => \A n \in Node : Stale(n) =>
        IF run.stage \in Applied
        THEN /\ n = run.target /\ run.stage \in {"power-cycle", "wait-ready", "disk-grow"}
             /\ StaleMemory(n) => /\ run.stage = "power-cycle" /\ run.intent.askMem > 0
                                  /\ ResumeStep \notin {"disk-grow", "uncordon"}
             /\ StaleDisk(n) => run.intent.askDisk > 0 /\ ResumeStep # "uncordon"
        ELSE /\ LeftBy(run.from, n)
             /\ n \in run.todo \/ (run.stage \in Working /\ n = run.target)

AllSized == SizesResolved /\ SizesKept /\ SizesSaved /\ StaleOpen /\ StaleRun

\* What AllSized speaks of, and guests whose sizes stay.
sized == <<marker, config, tfvars, vm, run>>
SameGuests == \A n \in Node : guest'[n].mem = guest[n].mem /\ guest'[n].disk = guest[n].disk

LEMMA NothingSized == ASSUME AllSized, UNCHANGED sized, SameGuests PROVE AllSized'
<1> USE DEF sized
<1>1. SizesResolved'
  BY DEF AllSized, SizesResolved, Resolved, Whole
<1>2. SizesKept' /\ SizesSaved'
  BY DEF AllSized, SizesKept, SizesSaved, Grows, Restarts, InState
<1>3. \A n \in Node : (StaleMemory(n)' <=> StaleMemory(n)) /\ (StaleDisk(n)' <=> StaleDisk(n))
  BY DEF SameGuests, StaleMemory, StaleDisk, InState
<1>4. StaleOpen'
  BY <1>3 DEF AllSized, StaleOpen, Stale, LeftBy
<1>5. StaleRun'
  BY <1>3 DEF AllSized, StaleRun, Stale, LeftBy, ResumeStep
<1> QED
  BY <1>1, <1>2, <1>4, <1>5 DEF AllSized

\* A step of anything but a resize, that changes nobody's size: VMs may go, and come where
\* no resize is recorded, in the size tfvars gives.
LEMMA SizedAside ==
    ASSUME TInv, AllSized, run'.op # "resize",
           marker' = marker \/ (marker.op # "resize" /\ marker'.op # "resize"),
           config'.size = config.size, tfvars'.size \in {tfvars.size, config.size},
           \A n \in Node :
              \/ /\ vm'[n] \in {vm[n], Absent}
                 /\ guest'[n].mem = guest[n].mem /\ guest'[n].disk = guest[n].disk
              \/ vm'[n] = Absent
              \/ /\ marker.op # "resize" /\ n \in Workers /\ vm'[n] = tfvars.size["worker"]
                 /\ guest'[n].mem = vm'[n].mem /\ guest'[n].disk = vm'[n].disk
    PROVE  AllSized'
<1>1. SizesResolved'
  BY DEF AllSized, SizesResolved, Resolved
<1>2. \A r \in Role : (Grows(r)' <=> Grows(r)) /\ (Restarts(r)' <=> Restarts(r))
  BY DEF Grows, Restarts
<1>3. SizesKept'
  <2> SUFFICES ASSUME NEW r \in Role
               PROVE  /\ ~Grows(r) =>
                            /\ tfvars'.size[r].disk = config'.size[r].disk
                            /\ \A n \in OfRole(r) : InState(n)' => vm'[n].disk = config'.size[r].disk
                      /\ Whole(r) /\ ~Restarts(r) =>
                            /\ tfvars'.size[r].mem = config'.size[r].mem
                            /\ \A n \in OfRole(r) : InState(n)' => vm'[n].mem = config'.size[r].mem
    BY <1>2 DEF SizesKept
  <2>1. OfRole(r) \subseteq Node /\ \A n \in OfRole(r) : n \in Workers => r = "worker"
    BY NodeType DEF OfRole, Role
  <2>2. marker.op # "resize" => ~Grows(r) /\ ~Restarts(r)
    BY DEF Grows, Restarts
  <2> QED
    BY <2>1, <2>2 DEF AllSized, SizesKept, InState
<1>4. \A n \in Node : (StaleMemory(n)' => StaleMemory(n)) /\ (StaleDisk(n)' => StaleDisk(n))
  BY DEF StaleMemory, StaleDisk, InState
<1>5. StaleOpen'
  BY <1>4 DEF AllSized, StaleOpen, Stale, LeftBy
<1> QED
  BY <1>1, <1>3, <1>5 DEF AllSized, SizesSaved, StaleRun

\* No other operation records a resize.
LEMMA OthersWrite == ASSUME AddStep \/ RemoveStep PROVE marker' = marker \/ marker'.op # "resize"
<1>1. ASSUME NEW op \in {"add", "remove"}, NEW s, Mark(op, s) PROVE marker'.op # "resize"
  BY <1>1 DEF Mark
<1>2. CASE AddMark \/ RemoveMark
  BY <1>1, <1>2 DEF AddMark, RemoveMark
<1>3. CASE AddMarkWindow
  BY <1>3 DEF AddMarkWindow
<1>4. CASE AddPass \/ RemovePass
  BY <1>4 DEF AddPass, RemovePass, Pass, files
<1>5. CASE \/ AddRevive \/ AddNext \/ AddBuildISO \/ AddUploadISO \/ AddApply \/ AddApproveCSR
           \/ AddJoined \/ AddSave \/ AddRender \/ RemoveNext \/ RemoveCordon \/ RemoveDrain
           \/ RemoveApply \/ RemoveSave \/ RemoveRender \/ RemoveDeleteNode
  BY <1>5 DEF AddRevive, AddNext, PickNext, AddBuildISO, AddUploadISO, AddApply, AddApproveCSR,
     AddJoined, AddSave, AddRender, SaveConfig, RenderTfvars, RemoveNext, RemoveCordon,
     RemoveDrain, RemoveApply, RemoveSave, RemoveRender, RemoveDeleteNode, files
<1>6. CASE AddClear \/ RemoveClear
  BY <1>6 DEF AddClear, RemoveClear, ClearMarker, NoMarker
<1> QED
  BY <1>2, <1>3, <1>4, <1>5, <1>6 DEF AddStep, RemoveStep

LEMMA AddSized == ASSUME IInv, Settles, AllTold, AllSized, AddStep PROVE AllSized'
<1>0. TInv /\ run.op = "add" /\ run'.op = "add" /\ run \in Run
  BY AddFrame DEF IInv, Settles, TInv, TypeOK
<1>1. marker.op # "resize"
  BY <1>0, AddFacts
<1>2. run.stage \in AddSteps => run.target \in Workers
  BY <1>0 DEF TInv, AddShape
<1>3. CASE AddApply
  <2> DEFINE w == tfvars.size["worker"]
  <2>1. run.target \in Workers /\ run.target \in Node
    BY <1>2, <1>3, NodeType DEF AddApply, Doing, At, AddSteps
  <2>2. /\ vm' = [vm EXCEPT ![run.target] = w]
        /\ guest' = [guest EXCEPT ![run.target] =
             IF ~InState(run.target) THEN [power |-> "booting", mem |-> w.mem, disk |-> w.disk] ELSE @]
        /\ ~InState(run.target) \/ vm[run.target] = w
        /\ UNCHANGED <<marker, config, tfvars>>
    BY <1>3 DEF AddApply, TargetedApply, PlanGate, files
  <2>3. vm \in [Node -> Size \cup {Absent}]
        /\ guest \in [Node -> [power : {"off", "booting", "up"}, mem : Memory \cup {0}, disk : Disk \cup {0}]]
    BY DEF IInv, TInv, TypeOK
  <2>4. CASE ~InState(run.target)
    <3>1. /\ vm'[run.target] = w /\ guest'[run.target].mem = w.mem /\ guest'[run.target].disk = w.disk
          /\ \A n \in Node \ {run.target} : vm'[n] = vm[n] /\ guest'[n] = guest[n]
      BY <2>1, <2>2, <2>3, <2>4
    <3> HIDE DEF w
    <3>2. \A n \in Node :
              \/ /\ vm'[n] \in {vm[n], Absent}
                 /\ guest'[n].mem = guest[n].mem /\ guest'[n].disk = guest[n].disk
              \/ /\ marker.op # "resize" /\ n \in Workers /\ vm'[n] = w
                 /\ guest'[n].mem = vm'[n].mem /\ guest'[n].disk = vm'[n].disk
      BY <1>1, <2>1, <3>1
    <3> QED
      BY <1>0, <2>2, <3>2, SizedAside DEF w
  <2>5. CASE InState(run.target)
    <3>1. vm' = vm /\ guest' = guest
      BY <2>1, <2>2, <2>3, <2>5
    <3> QED
      BY <1>0, <2>2, <3>1, SizedAside
  <2> QED
    BY <2>4, <2>5
<1>4. CASE ~AddApply
  <2> USE DEF AddStep, AddMarkWindow, AddRevive, AddNext, PickNext, AddMark, AddPass, Mark, Pass,
           AddBuildISO, AddUploadISO, AddApproveCSR, AddJoined, AddSave, SaveConfig,
           AddRender, RenderTfvars, AddClear, ClearMarker
  <2>1. UNCHANGED infra
    BY <1>4
  <2>2. marker' = marker \/ marker'.op # "resize"
    BY <1>4, OthersWrite
  <2>3. config' = config \/ config' = [config EXCEPT !.workers = run.intent.start + run.intent.count]
    BY <1>4 DEF files
  <2>4. tfvars' = tfvars \/ tfvars' = config
    BY <1>4 DEF files
  <2>5. config'.size = config.size
    BY <2>3 DEF IInv, TInv, TypeOK, Topology
  <2> QED
    BY <1>0, <1>1, <2>1, <2>2, <2>4, <2>5, SizedAside DEF infra
<1> QED
  BY <1>3, <1>4

LEMMA RemoveSized == ASSUME IInv, AllTold, AllSized, RemoveStep PROVE AllSized'
<1>0. TInv /\ run.op = "remove" /\ run'.op = "remove" /\ run \in Run
  BY RemoveFrame DEF IInv, TInv, TypeOK
<1>1. marker.op # "resize"
  BY <1>0 DEF AllTold, Sole, Recording, Idle
<1>2. CASE RemoveApply
  <2>1. /\ vm' = [vm EXCEPT ![run.target] = Absent] /\ UNCHANGED <<marker, config, tfvars>>
        /\ guest' = [guest EXCEPT ![run.target] = [power |-> "off", mem |-> 0, disk |-> 0]]
    BY <1>2 DEF RemoveApply, TargetedApply, files
  <2>2. vm \in [Node -> Size \cup {Absent}]
        /\ guest \in [Node -> [power : {"off", "booting", "up"}, mem : Memory \cup {0}, disk : Disk \cup {0}]]
    BY DEF IInv, TInv, TypeOK
  <2>3. \A n \in Node : vm'[n] = Absent \/ (vm'[n] = vm[n] /\ guest'[n] = guest[n])
    BY <2>1, <2>2
  <2> QED
    BY <1>0, <2>1, <2>3, SizedAside
<1>3. CASE ~RemoveApply
  <2> USE DEF RemoveStep, RemoveNext, PickNext, RemoveMark, RemovePass, Mark, Pass, RemoveCordon,
           RemoveDrain, RemoveSave, SaveConfig, RemoveRender, RenderTfvars, RemoveDeleteNode,
           RemoveClear, ClearMarker
  <2>1. UNCHANGED infra
    BY <1>3
  <2>2. marker' = marker \/ marker'.op # "resize"
    BY <1>3, OthersWrite
  <2>3. config' = config \/ config' = [config EXCEPT !.workers = run.target[2]]
    BY <1>3 DEF files
  <2>4. tfvars' = tfvars \/ tfvars' = config
    BY <1>3 DEF files
  <2>5. config'.size = config.size
    BY <2>3 DEF IInv, TInv, TypeOK, Topology
  <2> QED
    BY <1>0, <1>1, <2>1, <2>2, <2>4, <2>5, SizedAside DEF infra
<1> QED
  BY <1>2, <1>3

\* What a resize knows of its request, and of the guests that lag behind while it runs.
LEMMA SizedFacts ==
    ASSUME IInv, AllTold, AllSized, run.op = "resize", run.stage # "done"
    PROVE  /\ Resolved(run.intent) /\ run.intent.scope[1] \in Role
           /\ run.intent.askMem \in Nat /\ run.intent.askDisk \in Nat
           /\ \A n \in ResizeTargets(run.intent.scope) : n \in OfRole(run.intent.scope[1])
           /\ \A n \in Node : InState(n) => n \in registered
           /\ \A n \in Node : Stale(n) /\ run.stage \in Working \ {"probe"} =>
                 /\ n = run.target
                 /\ run.stage \notin Applied =>
                       /\ LeftBy(run.from, n) /\ run.from.intent = run.intent
                       /\ ResumeStep = run.from.step
           /\ run.todo = {} /\ run.stage \notin Working => \A n \in Node : ~Stale(n)
<1>1. Resolved(run.intent) /\ run.intent.scope[1] \in Role /\ run.intent \in Intent
  BY DEF AllSized, SizesResolved, IInv, TInv, TypeOK, ResizeShape, Run
<1>2. run.intent.askMem \in Nat /\ run.intent.askDisk \in Nat
  <2>1. run.intent.askMem \in Memory \cup {0} /\ run.intent.askDisk \in Disk \cup {0}
    BY <1>1 DEF Intent
  <2>2. \A m \in Memory : m \in Nat
    BY SizeAssumption
  <2>3. \A d \in Disk : d \in Nat
    BY SizeAssumption
  <2> QED
    BY <2>1, <2>2, <2>3
<1>3. \A n \in ResizeTargets(run.intent.scope) : n \in OfRole(run.intent.scope[1])
  <2>1. CASE run.intent.scope[2] = -1
    BY <2>1 DEF ResizeTargets
  <2>2. CASE run.intent.scope[2] # -1
    <3>1. \A n \in ResizeTargets(run.intent.scope) : n = run.intent.scope /\ n \in Node
      BY <2>2 DEF ResizeTargets, IInv, TInv, TypeOK
    <3>2. \A n \in Node : n \in OfRole(n[1])
      BY Indices DEF Node, OfRole
    <3> QED
      BY <3>1, <3>2
  <2> QED
    BY <2>1, <2>2
<1>4. \A n \in Node : InState(n) => n \in registered
  <2>1. Placed = Joined /\ Masters \subseteq registered
    BY ResizeFacts DEF AllTold, Quiet
  <2> QED
    BY <2>1 DEF Placed, Joined, Node
<1>5. NoMarker.op = "none" /\ Applied \subseteq Working
  BY DEF NoMarker, Applied, Working, ResizeSteps
<1>6. \A n \in Node : Stale(n) /\ run.stage \in Working \ {"probe"} =>
         /\ n = run.target
         /\ run.stage \notin Applied =>
               /\ LeftBy(run.from, n) /\ run.from.intent = run.intent
               /\ ResumeStep = run.from.step
  <2> SUFFICES ASSUME NEW n \in Node, Stale(n), run.stage \in Working \ {"probe"}
               PROVE  /\ n = run.target
                      /\ run.stage \notin Applied =>
                            /\ LeftBy(run.from, n) /\ run.from.intent = run.intent
                            /\ ResumeStep = run.from.step
    OBVIOUS
  <2>1. CASE run.stage \in Applied
    BY <2>1 DEF AllSized, StaleRun
  <2>2. CASE run.stage \notin Applied
    <3>1. LeftBy(run.from, n) /\ (n \in run.todo \/ n = run.target)
      BY <2>2 DEF AllSized, StaleRun
    <3>2. run.from.target = n /\ Resuming
      BY <1>5, <3>1 DEF LeftBy, Resuming
    <3>3. n \notin run.todo
      <4>1. "next" \notin Working
        BY DEF Working, ResizeSteps
      <4> QED
        BY <3>2, <4>1 DEF AllTold, ResizeRun
    <3> QED
      BY <3>1, <3>2, <3>3, ResizeFacts DEF ResumeStep
  <2> QED
    BY <2>1, <2>2
<1>7. run.todo = {} /\ run.stage \notin Working => \A n \in Node : ~Stale(n)
  BY <1>5 DEF AllSized, StaleRun
<1> QED
  BY <1>1, <1>2, <1>3, <1>4, <1>6, <1>7

\* Where the resume point leaves a step out, in the order of the steps.
LEMMA DueInOrder ==
    ASSUME IInv, run.op = "resize"
    PROVE  /\ ResumeStep \in {"none"} \cup ResizeSteps
           /\ ResizeDue("cordon") \/ ResizeDue("drain") => ResumeStep \notin Follows
           /\ ResizeDue("tf-apply") <=> ResumeStep \notin {"power-cycle", "disk-grow", "uncordon"}
           /\ ResizeDue("power-cycle") <=>
                 ~DiskOnly(run.intent) /\ ResumeStep \notin {"disk-grow", "uncordon"}
           /\ ResizeDue("disk-grow") <=> run.intent.askDisk > 0 /\ ResumeStep # "uncordon"
<1>1. ResumeStep \in {"none"} \cup ResizeSteps
  BY ResumeStepType
<1>2. /\ StepOrder["cordon"] = 0 /\ StepOrder["drain"] = 1 /\ StepOrder["tf-apply"] = 2
      /\ StepOrder["power-cycle"] = 3 /\ StepOrder["disk-grow"] = 4 /\ StepOrder["uncordon"] = 5
  BY StepOrderValues DEF Step
<1>3. /\ ShouldRunStep("cordon", ResumeStep) \/ ShouldRunStep("drain", ResumeStep) =>
            ResumeStep \notin Follows
      /\ ShouldRunStep("tf-apply", ResumeStep) <=>
            ResumeStep \notin {"power-cycle", "disk-grow", "uncordon"}
      /\ ShouldRunStep("power-cycle", ResumeStep) <=> ResumeStep \notin {"disk-grow", "uncordon"}
      /\ ShouldRunStep("disk-grow", ResumeStep) <=> ResumeStep # "uncordon"
  BY <1>1, <1>2 DEF ShouldRunStep, ResizeSteps, Follows
<1> QED
  BY <1>1, <1>3 DEF ResizeDue

LEMMA ResizeSized == ASSUME IInv, AllTold, AllSized, ResizeStep PROVE AllSized'
<1> DEFINE i == run.intent
           t == run.target
           r == run.intent.scope[1]
<1>0. run.op = "resize" /\ run.stage # "done"
  BY DEF ResizeStep, ResizeMark, ResizePass, Mark, Pass, ResizeProbe, ResizePreGate,
         ResizeCordon, ResizeDrain, ResizeApply, ResizePowerOff, ResizePowerOn,
         ResizeWaitReady, ResizeGrowDisk, ResizePostGate, ResizeUncordon, ResizeNext,
         PickNext, ResizeSave, SaveConfig, ResizeRender, RenderTfvars, ResizeClear,
         ClearMarker, Doing, At, ResizeSteps
<1>F. /\ run \in Run /\ ResizeTargets(i.scope) \subseteq Node
      /\ Recording => marker.op = "resize" /\ marker.intent = i
      /\ marker.op = "resize" => Recording
      /\ run.marked => Recording /\ marker.target = t
      /\ t \notin run.todo
  BY <1>0, ResizeFacts
<1>S. /\ Resolved(i) /\ r \in Role /\ i.askMem \in Nat /\ i.askDisk \in Nat
      /\ \A n \in ResizeTargets(i.scope) : n \in OfRole(r)
      /\ \A n \in Node : InState(n) => n \in registered
      /\ \A n \in Node : Stale(n) /\ run.stage \in Working \ {"probe"} =>
            /\ n = t
            /\ run.stage \notin Applied =>
                  LeftBy(run.from, n) /\ run.from.intent = i /\ ResumeStep = run.from.step
      /\ run.todo = {} /\ run.stage \notin Working => \A n \in Node : ~Stale(n)
  BY <1>0, SizedFacts
<1>L. \A n \in Node : Stale(n) =>
         IF run.stage \in Applied
         THEN /\ n = t /\ run.stage \in {"power-cycle", "wait-ready", "disk-grow"}
              /\ StaleMemory(n) => /\ run.stage = "power-cycle" /\ i.askMem > 0
                                   /\ ResumeStep \notin {"disk-grow", "uncordon"}
              /\ StaleDisk(n) => i.askDisk > 0 /\ ResumeStep # "uncordon"
         ELSE /\ LeftBy(run.from, n)
              /\ n \in run.todo \/ (run.stage \in Working /\ n = t)
  BY <1>0 DEF AllSized, StaleRun
<1>A. /\ Applied \subseteq Working \ {"probe"} /\ "probe" \in Working
      /\ {"next", "save", "render", "clear", "done"} \cap Working = {}
      /\ ResizeSteps \subseteq Working \ {"probe"}
  BY DEF Applied, Working, ResizeSteps
\* A step that changes nobody's size has to say where the guests stand that lag behind.
<1>G. ASSUME UNCHANGED <<marker, config, tfvars, vm, guest>>,
             run'.op = "resize", run'.intent = i, run'.from = run.from,
             run'.stage \notin {"render", "clear"},
             \A n \in Node : Stale(n) =>
                IF run'.stage \in Applied
                THEN /\ n = run'.target /\ run'.stage \in {"power-cycle", "wait-ready", "disk-grow"}
                     /\ StaleMemory(n) => /\ run'.stage = "power-cycle" /\ i.askMem > 0
                                          /\ ResumeStep' \notin {"disk-grow", "uncordon"}
                     /\ StaleDisk(n) => i.askDisk > 0 /\ ResumeStep' # "uncordon"
                ELSE /\ LeftBy(run.from, n)
                     /\ n \in run'.todo \/ (run'.stage \in Working /\ n = run'.target)
      PROVE  AllSized'
  <2>1. SizesResolved' /\ SizesKept'
    BY <1>0, <1>G DEF AllSized, SizesResolved, Resolved, SizesKept, Grows, Restarts, InState
  <2>2. SizesSaved'
    BY <1>G DEF SizesSaved
  <2>3. \A n \in Node : (StaleMemory(n)' <=> StaleMemory(n)) /\ (StaleDisk(n)' <=> StaleDisk(n))
    BY <1>G DEF StaleMemory, StaleDisk, InState
  <2>4. StaleOpen'
    BY <1>G, <2>3 DEF AllSized, StaleOpen, Stale, LeftBy
  <2>5. \A n \in Node : LeftBy(run.from, n) => LeftBy(run.from, n)'
    BY <1>G, <2>3 DEF LeftBy
  <2>6. StaleRun'
    BY <1>G, <2>3, <2>5 DEF StaleRun, Stale
  <2> QED
    BY <2>1, <2>2, <2>4, <2>6 DEF AllSized
<1> HIDE DEF i, t, r
<1>1. CASE ResizeNext
  <2>1. PickNext("resize", "next", "master", "probe", "save")
    BY <1>1 DEF ResizeNext
  <2>2. /\ run.stage = "next" /\ run'.op = "resize"
        /\ run'.from = run.from /\ run'.intent = run.intent
        /\ \/ run'.stage = "save" /\ run.todo = {} /\ run'.todo = {}
           \/ /\ run'.stage = "probe" /\ run'.target \in run.todo
              /\ run'.todo = run.todo \ {run'.target}
    BY <1>0, <2>1, PickType DEF Stage, Step, IInv, TInv
  <2>3. UNCHANGED <<marker, config, tfvars, vm, guest>>
    BY <2>1 DEF PickNext, files, infra
  <2>4. /\ \A n \in Node : Stale(n) => LeftBy(run.from, n) /\ n \in run.todo
        /\ run'.stage \notin Applied
    BY <1>A, <1>L, <2>2
  <2> QED
    BY <1>A, <1>G, <2>2, <2>3, <2>4 DEF i
<1>2. CASE ResizeProbe
  <2>1. /\ run.stage = "probe" /\ UNCHANGED <<marker, config, tfvars, vm, guest>>
        /\ \/ GoTo("pre-gate")
           \/ run.from.target # t /\ GoTo("next")
    BY <1>2 DEF ResizeProbe, At, files, infra, t
  <2>2. PICK s \in {"next", "pre-gate"} : GoTo(s) /\ (s = "next" => run.from.target # t)
    BY <2>1
  <2>3. /\ run'.op = "resize" /\ run'.stage = s /\ run'.target = t /\ run'.todo = run.todo
        /\ run'.from = run.from /\ run'.intent = i
    BY <1>0, <1>F, <2>2, GoToRun DEF Stage, i, t
  <2>4. \A n \in Node : Stale(n) =>
           LeftBy(run.from, n) /\ (n \in run.todo \/ (s = "pre-gate" /\ n = t))
    BY <1>A, <1>L, <2>1, <2>2 DEF LeftBy
  <2>5. s \notin Applied /\ "pre-gate" \in Working
    BY DEF Applied, Working
  <2> QED
    BY <1>G, <2>1, <2>3, <2>4, <2>5
\* Before the apply, a guest that lags behind waits for the step its resume point names.
<1>3. CASE ResizePreGate \/ ResizeCordon \/ ResizeDrain
  <2>1. PICK s \in {"cordon", "drain", "tf-apply"} :
          /\ GoTo(s) /\ run.stage \in {"pre-gate", "cordon", "drain"}
          /\ UNCHANGED <<marker, config, tfvars, vm, guest>>
    BY <1>3 DEF ResizePreGate, ResizeCordon, ResizeDrain, Doing, At, files, infra
  <2>2. /\ run'.op = "resize" /\ run'.stage = s /\ run'.target = t /\ run'.todo = run.todo
        /\ run'.from = run.from /\ run'.intent = i
    BY <1>0, <1>F, <2>1, GoToRun DEF Stage, Step, i, t
  <2>3. /\ s \notin Applied /\ s \in Working /\ run.stage \notin Applied
    BY <2>1 DEF Applied, Working, ResizeSteps
  <2> QED
    BY <1>G, <1>L, <2>1, <2>2, <2>3
<1>4. CASE ResizePass
  <2>1. PICK s \in ResizeSteps : ~ResizeDue(s) /\ Pass("resize", s, AfterStep(s))
    BY <1>4 DEF ResizePass
  <2>2. AfterStep(s) \in Stage
    BY DEF AfterStep, ResizeSteps, Stage, Step
  <2>3. /\ run'.stage = AfterStep(s) /\ run.stage = s /\ run'.op = "resize"
        /\ run'.target = t /\ run'.todo = run.todo /\ run'.from = run.from /\ run'.intent = i
    BY <2>1, <2>2, <1>0, PassType DEF IInv, TInv, i, t
  <2>4. UNCHANGED <<marker, config, tfvars, vm, guest>>
    BY <2>1 DEF Pass, files, infra
  <2>5. ResumeStep' = ResumeStep
    BY <2>3 DEF ResumeStep, t
  <2>6. CASE s \in {"cordon", "drain"}
    <3>1. /\ run'.stage \notin Applied /\ run'.stage \in Working /\ run.stage \notin Applied
          /\ run'.stage \notin {"render", "clear"}
      BY <2>3, <2>6 DEF AfterStep, Applied, Working, ResizeSteps
    <3> QED
      BY <1>G, <1>L, <2>3, <2>4, <3>1
  <2>7. CASE s = "tf-apply"
    <3>1. /\ run'.stage = "power-cycle" /\ "power-cycle" \in Applied /\ run.stage \notin Applied
      BY <2>3, <2>7 DEF AfterStep, Applied
    <3>2. ResumeStep \in {"power-cycle", "disk-grow", "uncordon"}
      BY <1>0, <2>1, <2>7, DueInOrder
    <3>3. \A n \in Node : Stale(n) =>
             n = t /\ LeftBy(run.from, n) /\ run.from.intent = i /\ ResumeStep = run.from.step
      BY <1>A, <1>S, <2>3, <3>1
    <3>4. \A n \in Node : Stale(n) =>
             /\ n = t
             /\ StaleMemory(n) => i.askMem > 0 /\ ResumeStep \notin {"disk-grow", "uncordon"}
             /\ StaleDisk(n) => i.askDisk > 0 /\ ResumeStep # "uncordon"
      BY <3>2, <3>3 DEF LeftBy, Follows
    <3> QED
      BY <1>G, <2>3, <2>4, <2>5, <3>1, <3>4
  <2>8. CASE s = "power-cycle"
    <3>1. /\ run'.stage = "wait-ready" /\ "wait-ready" \in Applied /\ run.stage \in Applied
      BY <2>3, <2>8 DEF AfterStep, Applied
    <3>2. DiskOnly(i) \/ ResumeStep \in {"disk-grow", "uncordon"}
      BY <1>0, <2>1, <2>8, DueInOrder DEF i
    <3>3. \A n \in Node : Stale(n) =>
             /\ n = t /\ ~StaleMemory(n)
             /\ StaleDisk(n) => i.askDisk > 0 /\ ResumeStep # "uncordon"
      BY <1>L, <3>1, <3>2 DEF DiskOnly
    <3> QED
      BY <1>G, <2>3, <2>4, <2>5, <3>1, <3>3
  <2>9. CASE s \in {"disk-grow", "uncordon"}
    <3>1. /\ run'.stage \in {"post-gate", "next"} /\ run.stage \in Applied
      BY <2>3, <2>9 DEF AfterStep, Applied
    <3>2. s = "disk-grow" => ~(i.askDisk > 0 /\ ResumeStep # "uncordon")
      BY <1>0, <2>1, <2>9, DueInOrder DEF i
    <3>3. \A n \in Node : ~Stale(n)
      BY <1>L, <2>3, <2>9, <3>1, <3>2 DEF Stale
    <3> QED
      BY <1>G, <2>3, <2>4, <3>1, <3>3
  <2> QED
    BY <2>6, <2>7, <2>8, <2>9 DEF ResizeSteps
\* The new marker names the node that lags behind, at a step that makes it follow.
<1>5. CASE ResizeMark
  <2>1. PICK s \in ResizeSteps : ResizeDue(s) /\ Mark("resize", s)
    BY <1>5 DEF ResizeMark
  <2>2. /\ marker' = [op |-> "resize", target |-> t, step |-> s, intent |-> i]
        /\ run'.stage = s /\ run.stage = s /\ run'.op = "resize" /\ run'.target = t
        /\ run'.todo = run.todo /\ run'.from = run.from /\ run'.intent = i
    BY <2>1, <1>0, MarkType, ResizeStepsAreSteps DEF Op, IInv, TInv, i, t
  <2>3. /\ marker'.op = "resize" /\ marker'.target = t /\ marker'.step = s /\ marker'.intent = i
    BY <2>2
  <2>4. UNCHANGED <<config, tfvars, vm, guest>>
    BY <2>1 DEF Mark, infra
  <2>5. SizesResolved'
    BY <1>S, <2>2, <2>3, <2>4 DEF SizesResolved, Resolved
  <2>6. SizesKept'
    <3>1. \A x \in Role : (Grows(x) => Grows(x)') /\ (Restarts(x) => Restarts(x)')
      BY <1>F, <2>3 DEF Grows, Restarts
    <3> QED
      BY <2>4, <3>1 DEF AllSized, SizesKept, InState
  <2>7. SizesSaved'
    BY <2>2 DEF SizesSaved, ResizeSteps
  <2>8. /\ ResumeStep' = ResumeStep
        /\ \A n \in Node : (StaleMemory(n)' <=> StaleMemory(n)) /\ (StaleDisk(n)' <=> StaleDisk(n))
    BY <2>2, <2>4 DEF StaleMemory, StaleDisk, InState, ResumeStep, t
  <2>9. StaleOpen'
    <3> SUFFICES ASSUME NEW n \in Node, Stale(n)
                 PROVE  /\ n = t /\ s \in Follows
                        /\ StaleMemory(n) => s # "disk-grow" /\ i.askMem > 0
                        /\ StaleDisk(n) => i.askDisk > 0
      BY <2>3, <2>8 DEF StaleOpen, Stale, LeftBy
    <3>1. /\ n = t
          /\ s \notin Applied =>
                LeftBy(run.from, n) /\ run.from.intent = i /\ ResumeStep = run.from.step
      BY <1>A, <1>S, <2>2
    <3>2. CASE s \in Applied
      <4>1. /\ s \in {"power-cycle", "wait-ready", "disk-grow"}
            /\ StaleMemory(n) => s = "power-cycle" /\ i.askMem > 0
            /\ StaleDisk(n) => i.askDisk > 0
        BY <1>L, <2>2, <3>2
      <4> QED
        BY <3>1, <4>1 DEF Follows, ResizeSteps
    <3>3. CASE s \notin Applied
      <4>1. LeftBy(run.from, n) /\ run.from.intent = i /\ ResumeStep \in Follows
        BY <3>1, <3>3 DEF LeftBy
      <4>2. s \in {"cordon", "drain", "tf-apply"}
        BY <3>3 DEF ResizeSteps, Applied
      <4>3. s = "tf-apply"
        BY <1>0, <2>1, <4>1, <4>2, DueInOrder
      <4> QED
        BY <3>1, <4>1, <4>3 DEF LeftBy, Follows
    <3> QED
      BY <3>2, <3>3
  <2>10. StaleRun'
    <3>1. \A n \in Node : LeftBy(run.from, n) => LeftBy(run.from, n)'
      BY <2>2, <2>8 DEF LeftBy
    <3> QED
      BY <1>L, <2>2, <2>8, <3>1 DEF StaleRun, Stale
  <2> QED
    BY <2>5, <2>6, <2>7, <2>9, <2>10 DEF AllSized
\* The apply changes what is asked for and nothing else: without --memory-mb the role's
\* memory, without --disk-gb the disk that tfvars gives.
<1>6. CASE ResizeApply
  <2> DEFINE w == WantedHere
  <2>1. /\ GoTo("power-cycle") /\ run.stage = "tf-apply" /\ run.marked
        /\ TargetedApply(run.target, "update", WantedHere)
        /\ UNCHANGED <<marker, config, tfvars>>
    BY <1>6 DEF ResizeApply, Doing, At, files
  <2>2. /\ run'.op = "resize" /\ run'.stage = "power-cycle" /\ run'.target = t
        /\ run'.todo = run.todo /\ run'.from = run.from /\ run'.intent = i
    BY <1>0, <1>F, <2>1, GoToRun DEF Stage, Step, i, t
  <2>3. /\ t \in ResizeTargets(i.scope) /\ t \in Node /\ t \in OfRole(r)
        /\ \A x \in Role \ {r} : t \notin OfRole(x)
    <3>1. t \in ResizeTargets(i.scope)
      BY <1>0, <1>A, <2>1 DEF AllTold, ResizeRun, i, t, ResizeSteps
    <3> QED
      BY <1>F, <1>S, <3>1, NodeType DEF OfRole, Role
  <2>4. /\ vm' = [vm EXCEPT ![t] = w] /\ InState(t) /\ guest' = guest
        /\ vm \in [Node -> Size \cup {Absent}]
    <3>1. guest' = [guest EXCEPT ![t] = @]
      BY <2>1 DEF TargetedApply, t
    <3>2. /\ vm' = [vm EXCEPT ![t] = w] /\ InState(t)
          /\ vm \in [Node -> Size \cup {Absent}] /\ guest' = guest
      BY <2>1, <3>1 DEF TargetedApply, PlanGate, t, IInv, TInv, TypeOK
    <3> QED
      BY <3>2
  <2>5. /\ w.mem = i.mem /\ w.disk = IF i.askDisk > 0 THEN i.askDisk ELSE tfvars.size[t[1]].disk
        /\ t[1] = r
    BY <2>3, Indices DEF WantedHere, Wanted, i, t, OfRole, Role
  <2>6. vm'[t] = w /\ \A n \in Node \ {t} : vm'[n] = vm[n]
    BY <2>3, <2>4
  <2> HIDE DEF w
  <2>7. Recording /\ marker.op = "resize" /\ marker.intent = i /\ marker.target = t /\ marker.step = "tf-apply"
    BY <1>0, <1>F, <2>1 DEF IInv, DInv, MarkedShape
  <2>8. /\ (Grows(r) <=> i.askDisk > 0) /\ (Restarts(r) <=> i.askMem > 0)
        /\ \A x \in Role : (Grows(x)' <=> Grows(x)) /\ (Restarts(x)' <=> Restarts(x))
    BY <2>1, <2>7 DEF Grows, Restarts, r, i
  <2>9. /\ i.askDisk = 0 => w.disk = vm[t].disk /\ w.disk = config.size[r].disk
        /\ i.askMem = 0 => w.mem = vm[t].mem
        /\ Whole(r) /\ i.askMem = 0 => w.mem = config.size[r].mem
    <3>1. i.askDisk = 0 => /\ tfvars.size[r].disk = config.size[r].disk
                           /\ vm[t].disk = config.size[r].disk
      BY <1>S, <2>3, <2>4, <2>8 DEF AllSized, SizesKept
    <3>2. i.askMem = 0 => Whole(r) /\ i.mem = config.size[r].mem
      BY <1>S DEF Resolved, DiskOnly, r, i
    <3>3. i.askMem = 0 => vm[t].mem = config.size[r].mem
      BY <1>S, <2>3, <2>4, <2>8, <3>2 DEF AllSized, SizesKept
    <3> QED
      BY <1>S, <2>5, <3>1, <3>2, <3>3
  <2>10. SizesResolved' /\ SizesSaved'
    BY <1>S, <2>1, <2>2, <2>7 DEF SizesResolved, SizesSaved, Resolved
  <2>11. SizesKept'
    <3> SUFFICES ASSUME NEW x \in Role, NEW n \in OfRole(x)
                 PROVE  /\ ~Grows(x) => /\ tfvars'.size[x].disk = config'.size[x].disk
                                        /\ InState(n)' => vm'[n].disk = config'.size[x].disk
                        /\ Whole(x) /\ ~Restarts(x) =>
                              /\ tfvars'.size[x].mem = config'.size[x].mem
                              /\ InState(n)' => vm'[n].mem = config'.size[x].mem
      <4>1. \A x \in Role : (~Grows(x) => tfvars'.size[x].disk = config'.size[x].disk)
                         /\ (Whole(x) /\ ~Restarts(x) => tfvars'.size[x].mem = config'.size[x].mem)
        BY <2>1 DEF AllSized, SizesKept
      <4> QED
        BY <2>8, <4>1 DEF SizesKept
    <3>1. /\ ~Grows(x) => /\ tfvars.size[x].disk = config.size[x].disk
                          /\ InState(n) => vm[n].disk = config.size[x].disk
          /\ Whole(x) /\ ~Restarts(x) =>
                /\ tfvars.size[x].mem = config.size[x].mem
                /\ InState(n) => vm[n].mem = config.size[x].mem
      BY DEF AllSized, SizesKept
    <3>2. n \in Node
      BY NodeType DEF OfRole
    <3>3. CASE n = t
      BY <1>S, <2>1, <2>3, <2>6, <2>8, <2>9, <3>1, <3>3 DEF InState
    <3>4. CASE n # t
      BY <2>1, <2>6, <3>1, <3>2, <3>4 DEF InState
    <3> QED
      BY <3>3, <3>4
  <2>12. \A n \in Node : Stale(n)' =>
            /\ n = t
            /\ StaleMemory(n)' => i.askMem > 0
            /\ StaleDisk(n)' => i.askDisk > 0
    <3>1. /\ "tf-apply" \in Working \ {"probe"} /\ "tf-apply" \notin Applied
      BY DEF Working, Applied, ResizeSteps
    <3>2. \A n \in Node : Stale(n) => n = t /\ LeftBy(run.from, n) /\ run.from.intent = i
      BY <1>S, <2>1, <3>1
    <3>3. \A n \in Node \ {t} : ~Stale(n)'
      BY <2>4, <2>6, <3>2 DEF Stale, StaleMemory, StaleDisk, InState
    <3>4. \A n \in {t} : StaleMemory(n)' => i.askMem > 0
      <4> SUFFICES ASSUME NEW n \in {t}, StaleMemory(n)', i.askMem = 0 PROVE FALSE
        BY <1>S
      <4>1. guest[n].mem # vm[n].mem
        BY <2>4, <2>6, <2>9 DEF StaleMemory
      <4>2. StaleMemory(t)
        BY <2>4, <4>1 DEF StaleMemory
      <4> QED
        BY <1>S, <2>3, <3>2, <4>2 DEF LeftBy, Stale
    <3>5. \A n \in {t} : StaleDisk(n)' => i.askDisk > 0
      <4> SUFFICES ASSUME NEW n \in {t}, StaleDisk(n)', i.askDisk = 0 PROVE FALSE
        BY <1>S
      <4>1. guest[n].disk # vm[n].disk
        BY <2>4, <2>6, <2>9 DEF StaleDisk
      <4>2. StaleDisk(t)
        BY <2>4, <4>1 DEF StaleDisk
      <4> QED
        BY <1>S, <2>3, <3>2, <4>2 DEF LeftBy, Stale
    <3> QED
      BY <3>3, <3>4, <3>5
  <2>13. StaleOpen'
    BY <2>1, <2>7, <2>12 DEF StaleOpen, LeftBy, Follows
  <2>14. StaleRun'
    <3>1. ResumeStep \notin {"power-cycle", "disk-grow", "uncordon"} /\ ResumeStep' = ResumeStep
      <4>1. ResizeDue("tf-apply")
        BY <1>0, <2>1 DEF IInv, DInv, MarkedShape
      <4> QED
        BY <1>0, <2>2, <4>1, DueInOrder DEF ResumeStep, t
    <3>2. "power-cycle" \in Applied
      BY DEF Applied
    <3> QED
      BY <2>2, <2>12, <3>1, <3>2 DEF StaleRun
  <2> QED
    BY <2>10, <2>11, <2>13, <2>14 DEF AllSized
<1>7. CASE ResizePowerOff
  <2>1. UNCHANGED sized /\ PowerOff(run.target)
    BY <1>7 DEF ResizePowerOff, files, sized
  <2>2. SameGuests
    BY <2>1 DEF PowerOff, SameGuests, IInv, TInv, TypeOK
  <2> QED
    BY <2>1, <2>2, NothingSized
\* A start takes the memory up, and the growing the disk.
<1>8. CASE ResizePowerOn \/ ResizeGrowDisk
  <2>1. /\ run.marked /\ run.stage \in {"power-cycle", "disk-grow"}
        /\ GoTo(IF run.stage = "power-cycle" THEN "wait-ready" ELSE "post-gate")
        /\ UNCHANGED <<marker, config, tfvars, vm>>
    BY <1>8 DEF ResizePowerOn, ResizeGrowDisk, Doing, At, files
  <2>2. PICK s \in {"wait-ready", "post-gate"} :
          GoTo(s) /\ s = IF run.stage = "power-cycle" THEN "wait-ready" ELSE "post-gate"
    BY <2>1
  <2>3. /\ run'.op = "resize" /\ run'.stage = s /\ run'.target = t /\ run'.todo = run.todo
        /\ run'.from = run.from /\ run'.intent = i
    BY <1>0, <1>F, <2>2, GoToRun DEF Stage, Step, i, t
  <2>4. guest \in [Node -> [power : {"off", "booting", "up"}, mem : Memory \cup {0}, disk : Disk \cup {0}]]
    BY DEF IInv, TInv, TypeOK
  <2>5. /\ \A n \in Node \ {t} : guest'[n] = guest[n]
        /\ t \in Node => IF run.stage = "power-cycle"
                         THEN guest'[t].mem = vm[t].mem /\ guest'[t].disk = guest[t].disk
                         ELSE guest'[t].mem = guest[t].mem /\ guest'[t].disk = vm[t].disk
    <3>1. CASE ResizePowerOn
      <4>1. PowerOn(t) /\ guest[t].power = "off" /\ run.stage = "power-cycle"
        BY <3>1 DEF ResizePowerOn, Doing, At, t
      <4> QED
        BY <2>4, <4>1 DEF PowerOn
    <3>2. CASE ResizeGrowDisk
      <4>1. guest' = [guest EXCEPT ![t].disk = vm[t].disk] /\ run.stage # "power-cycle"
        BY <3>2 DEF ResizeGrowDisk, Doing, At, t
      <4> QED
        BY <2>4, <4>1
    <3> QED
      BY <1>8, <3>1, <3>2
  <2>6. \A n \in Node : Stale(n) =>
           /\ n = t
           /\ StaleMemory(n) => run.stage = "power-cycle"
           /\ StaleDisk(n) => i.askDisk > 0 /\ ResumeStep # "uncordon"
    BY <1>L, <2>1 DEF Applied
  <2>7. \A n \in Node : /\ ~StaleMemory(n)'
                        /\ StaleDisk(n)' => n = t /\ StaleDisk(n) /\ run.stage = "power-cycle"
    <3>1. \A n \in Node \ {t} : ~StaleMemory(n)' /\ ~StaleDisk(n)'
      BY <2>1, <2>5, <2>6 DEF Stale, StaleMemory, StaleDisk, InState
    <3>2. \A n \in Node \cap {t} :
             /\ ~StaleMemory(n)'
             /\ StaleDisk(n)' => StaleDisk(n) /\ run.stage = "power-cycle"
      BY <2>1, <2>5, <2>6 DEF Stale, StaleMemory, StaleDisk, InState
    <3> QED
      BY <3>1, <3>2
  <2>8. SizesResolved' /\ SizesKept' /\ SizesSaved'
    BY <1>S, <2>1, <2>3 DEF AllSized, SizesResolved, Resolved, SizesKept, SizesSaved, Grows, Restarts, InState
  <2>9. StaleOpen'
    BY <2>1, <2>7 DEF AllSized, StaleOpen, Stale, LeftBy
  <2>10. StaleRun'
    <3>1. ResumeStep' = ResumeStep /\ "wait-ready" \in Applied
      BY <2>3 DEF ResumeStep, t, Applied
    <3> QED
      BY <2>2, <2>3, <2>6, <2>7, <3>1 DEF StaleRun, Stale
  <2> QED
    BY <2>8, <2>9, <2>10 DEF AllSized
<1>9. CASE ResizeWaitReady \/ ResizePostGate \/ ResizeUncordon
  <2>1. /\ UNCHANGED <<marker, config, tfvars, vm, guest>>
        /\ \/ run.stage = "wait-ready" /\ GoTo("disk-grow")
           \/ run.stage = "post-gate" /\ GoTo("uncordon")
           \/ run.stage = "uncordon" /\ GoTo("next")
    BY <1>9 DEF ResizeWaitReady, ResizePostGate, ResizeUncordon, Doing, At, files, infra
  <2>2. PICK s \in {"disk-grow", "uncordon", "next"} :
          GoTo(s) /\ (s = "disk-grow" => run.stage = "wait-ready")
                  /\ (s # "disk-grow" => run.stage \in {"post-gate", "uncordon"})
    BY <2>1
  <2>3. /\ run'.op = "resize" /\ run'.stage = s /\ run'.target = t /\ run'.todo = run.todo
        /\ run'.from = run.from /\ run'.intent = i
    BY <1>0, <1>F, <2>2, GoToRun DEF Stage, Step, i, t
  <2>4. ResumeStep' = ResumeStep /\ "disk-grow" \in Applied /\ run.stage \in Applied
    BY <2>1, <2>3 DEF ResumeStep, t, Applied
  <2>5. /\ s # "disk-grow" => \A n \in Node : ~Stale(n)
        /\ s = "disk-grow" => \A n \in Node : Stale(n) =>
              n = t /\ ~StaleMemory(n) /\ (StaleDisk(n) => i.askDisk > 0 /\ ResumeStep # "uncordon")
    BY <1>L, <2>2, <2>4
  <2> QED
    BY <1>G, <2>1, <2>3, <2>4, <2>5
\* Once every target has landed, nobody lags behind, and okdctl.yaml and tfvars follow.
<1>10. CASE ResizeSave
  <2>1. /\ GoTo("render") /\ run.stage = "save" /\ config' = Resized(config, run.intent)
        /\ UNCHANGED <<marker, tfvars, vm, guest>>
    BY <1>10 DEF ResizeSave, SaveConfig, At, infra
  <2>2. /\ run'.op = "resize" /\ run'.stage = "render" /\ run'.intent = i
    BY <1>0, <1>F, <2>1, GoToRun DEF Stage, i
  <2>3. /\ config'.size[r].mem = i.mem
        /\ config'.size[r].disk = IF i.askDisk > 0 THEN i.askDisk ELSE config.size[r].disk
        /\ \A x \in Role \ {r} : config'.size[x] = config.size[x]
    <3>1. config \in Topology /\ config.size \in [Role -> Size]
      BY DEF IInv, TInv, TypeOK, Topology
    <3> DEFINE g == [config.size EXCEPT ![r] =
                       [mem |-> i.mem, disk |-> IF i.askDisk > 0 THEN i.askDisk ELSE @.disk]]
    <3>2. config' = [config EXCEPT !.size = g]
      BY <2>1, <3>1 DEF Resized, Topology, i, r
    <3>3. /\ g[r].mem = i.mem /\ g[r].disk = IF i.askDisk > 0 THEN i.askDisk ELSE config.size[r].disk
          /\ \A x \in Role \ {r} : g[x] = config.size[x]
      BY <1>S, <3>1
    <3> HIDE DEF g
    <3>4. config'.size = g
      BY <3>1, <3>2 DEF Topology
    <3> QED
      BY <3>3, <3>4
  <2>4. run.todo = {} /\ Recording /\ marker.op = "resize" /\ marker.intent = i
    <3>1. run.todo = {} /\ Recording
      BY <1>0, <2>1 DEF AllTold, ResizeRun
    <3> QED
      BY <1>F, <3>1
  <2>5. \A n \in Node : ~Stale(n)'
    BY <1>A, <1>S, <2>1, <2>4 DEF Stale, StaleMemory, StaleDisk, InState
  <2>6. SizesResolved' /\ SizesSaved'
    <3>1. Resolved(i)'
      BY <1>S, <2>2, <2>3 DEF Resolved, r, i
    <3> QED
      BY <2>1, <2>2, <2>3, <2>4, <3>1 DEF SizesResolved, SizesSaved, r, i
  <2>7. SizesKept'
    <3>1. /\ (Grows(r) <=> i.askDisk > 0) /\ (Restarts(r) <=> i.askMem > 0)
          /\ \A x \in Role : (Grows(x)' <=> Grows(x)) /\ (Restarts(x)' <=> Restarts(x))
      BY <2>1, <2>4 DEF Grows, Restarts, r, i
    <3>2. /\ ~Grows(r) => config'.size[r].disk = config.size[r].disk
          /\ Whole(r) /\ ~Restarts(r) => config'.size[r].mem = config.size[r].mem
      BY <1>S, <2>3, <3>1 DEF Resolved, DiskOnly, r, i
    <3> QED
      BY <2>1, <2>3, <3>1, <3>2 DEF AllSized, SizesKept, InState
  <2> QED
    BY <2>2, <2>5, <2>6, <2>7 DEF AllSized, StaleOpen, StaleRun, Stale
<1>11. CASE ResizeRender
  <2>1. /\ GoTo("clear") /\ run.stage = "render" /\ tfvars' = config
        /\ UNCHANGED <<marker, config, vm, guest>>
    BY <1>11 DEF ResizeRender, RenderTfvars, At, infra
  <2>2. /\ run'.op = "resize" /\ run'.stage = "clear" /\ run'.intent = i
    BY <1>0, <1>F, <2>1, GoToRun DEF Stage, i
  <2>3. run.todo = {}
    BY <1>0, <2>1 DEF AllTold, ResizeRun
  <2>4. \A n \in Node : ~Stale(n)'
    BY <1>A, <1>S, <2>1, <2>3 DEF Stale, StaleMemory, StaleDisk, InState
  <2>5. SizesResolved' /\ SizesKept' /\ SizesSaved'
    BY <1>0, <2>1, <2>2 DEF AllSized, SizesResolved, Resolved, SizesKept, SizesSaved, Grows, Restarts, InState, i
  <2> QED
    BY <2>2, <2>4, <2>5 DEF AllSized, StaleOpen, StaleRun, Stale
\* The whole role has the sizes that are saved, so the marker is not needed to say so.
<1>12. CASE ResizeClear
  <2>1. /\ GoTo("done") /\ run.stage = "clear" /\ marker' \in {NoMarker, marker}
        /\ UNCHANGED <<config, tfvars, vm, guest>>
    BY <1>12 DEF ResizeClear, ClearMarker, At, infra
  <2>2. /\ run'.op = "resize" /\ run'.stage = "done" /\ run'.intent = i
    BY <1>0, <1>F, <2>1, GoToRun DEF Stage, i
  <2>3. /\ run.todo = {} /\ tfvars = config /\ Recording /\ marker.op = "resize" /\ marker.intent = i
        /\ \A n \in ResizeTargets(i.scope) : vm[n] = Wanted(i, n[1])
    <3>1. /\ run.todo = {} /\ tfvars = config /\ Recording
          /\ \A n \in ResizeTargets(i.scope) : vm[n] = Wanted(i, n[1])
      BY <1>0, <1>A, <2>1 DEF AllTold, ResizeRun, Landed, i
    <3> QED
      BY <1>F, <3>1
  <2>4. \A n \in Node : ~Stale(n)'
    BY <1>A, <1>S, <2>1, <2>3 DEF Stale, StaleMemory, StaleDisk, InState
  <2>5. config.size[r].mem = i.mem /\ (i.askDisk > 0 => config.size[r].disk = i.askDisk)
    BY <1>0, <2>1 DEF AllSized, SizesSaved, r, i
  <2>6. NoMarker.op = "none"
    BY DEF NoMarker
  <2>7. SizesResolved' /\ SizesSaved'
    BY <1>0, <1>S, <2>1, <2>2, <2>6 DEF AllSized, SizesResolved, Resolved, SizesSaved
  <2>8. i.scope[2] = -1 => \A n \in OfRole(r) : InState(n) => vm[n].mem = i.mem /\
                              (i.askDisk > 0 => vm[n].disk = i.askDisk)
    <3> SUFFICES ASSUME i.scope[2] = -1, NEW n \in OfRole(r), InState(n)
                 PROVE  vm[n].mem = i.mem /\ (i.askDisk > 0 => vm[n].disk = i.askDisk)
      OBVIOUS
    <3>1. n \in Node /\ n \in registered
      BY <1>S, NodeType DEF OfRole
    <3>2. n \in ResizeTargets(i.scope)
      BY <3>1 DEF ResizeTargets, r, i
    <3>3. vm[n] = Wanted(i, n[1])
      BY <2>3, <3>2
    <3>4. /\ Wanted(i, n[1]).mem = i.mem
          /\ i.askDisk > 0 => Wanted(i, n[1]).disk = i.askDisk
      BY DEF Wanted
    <3> QED
      BY <3>3, <3>4
  <2>9. SizesKept'
    <3>1. CASE marker' = marker
      BY <2>1, <3>1 DEF AllSized, SizesKept, Grows, Restarts, InState
    <3>2. CASE marker' = NoMarker
      <4>1. \A x \in Role \ {r} : ~Grows(x) /\ ~Restarts(x)
        BY <2>3 DEF Grows, Restarts, r, i
      <4>2. (~Grows(r) <=> i.askDisk = 0)
        BY <1>S, <2>3 DEF Grows, r, i
      <4>3. \A n \in OfRole(r) : InState(n) => vm[n].disk = config.size[r].disk
        <5>1. CASE i.askDisk = 0
          BY <1>S, <4>2, <5>1 DEF AllSized, SizesKept
        <5>2. CASE i.askDisk > 0
          BY <1>S, <2>5, <2>8, <5>2 DEF Resolved
        <5> QED
          BY <1>S, <5>1, <5>2
      <4>4. Whole(r) => \A n \in OfRole(r) : InState(n) => vm[n].mem = config.size[r].mem
        BY <1>S, <2>5, <2>8 DEF Resolved, r, i
      <4>5. \A x \in Role : /\ \A n \in OfRole(x) : InState(n) => vm[n].disk = config.size[x].disk
                            /\ Whole(x) => \A n \in OfRole(x) : InState(n) => vm[n].mem = config.size[x].mem
        BY <4>1, <4>3, <4>4 DEF AllSized, SizesKept
      <4> QED
        BY <2>1, <2>3, <4>5 DEF SizesKept, InState
    <3> QED
      BY <2>1, <3>1, <3>2
  <2> QED
    BY <2>2, <2>4, <2>7, <2>9 DEF AllSized, StaleOpen, StaleRun, Stale
<1> QED
  BY <1>1, <1>2, <1>3, <1>4, <1>5, <1>6, <1>7, <1>8, <1>9, <1>10, <1>11, <1>12 DEF ResizeStep

\* A resize starts from a cluster where nobody lags behind, or takes up the node that does.
LEMMA BeginSized == ASSUME IInv, Unforced, RoleWise, AllTold, AllSized, Begin PROVE AllSized'
<1>N. NoMarker.op = "none"
  BY DEF NoMarker
<1>0. /\ UNCHANGED <<config, tfvars, vm, guest>>
      /\ \A n \in Node : (StaleMemory(n)' <=> StaleMemory(n)) /\ (StaleDisk(n)' <=> StaleDisk(n))
  <2>1. UNCHANGED <<config, tfvars, vm, guest>>
    BY DEF Begin, BeginResize, ResizeBegin, BeginAdd, AddBegin, BeginRemove, RemoveBegin,
       BeginStop, StopBegin, BeginStart, StartBegin, infra
  <2> QED
    BY <2>1 DEF StaleMemory, StaleDisk, InState
<1>1. CASE BeginResize
  <2>1. PICK q \in ResizeRequests, ack \in Acks : ResizeBegin(q, ack)
    BY <1>1 DEF BeginResize
  <2> DEFINE intent == ResizeIntent(q)
  <2>2. PICK from \in {NoMarker, marker} :
          /\ BeginOp("resize", ResizeMatch(q.scope, marker.target), intent, ack, from)
          /\ Started("resize", "next", ResizeTargets(q.scope), from, intent)
    BY <2>1 DEF ResizeBegin
  <2>3. Resolved(intent) /\ intent.scope = q.scope
    <3>1. /\ q.mem \in Memory \cup {0} /\ q.disk \in Disk \cup {0} /\ (q.mem > 0 \/ q.disk > 0)
          /\ q.disk > 0 => q.scope[2] = -1
      BY ResizeAssumption
    <3>2. q.mem \in Nat /\ q.disk \in Nat
      <4>1. \A m \in Memory : m \in Nat
        BY SizeAssumption
      <4>2. \A d \in Disk : d \in Nat
        BY SizeAssumption
      <4> QED
        BY <3>1, <4>1, <4>2
    <3>3. /\ intent.scope = q.scope /\ intent.askMem = q.mem /\ intent.askDisk = q.disk
          /\ intent.mem = IF q.mem > 0 THEN q.mem ELSE config.size[q.scope[1]].mem
          /\ intent.disk = IF q.disk > 0 THEN q.disk ELSE config.size[q.scope[1]].disk
      BY DEF ResizeIntent, NoIntent
    <3> HIDE DEF intent
    <3>4. /\ Whole(q.scope[1]) => q.scope[2] = -1
          /\ q.mem = 0 => Whole(q.scope[1])
      BY DEF Whole, RoleWise
    <3> QED
      BY <3>1, <3>2, <3>3, <3>4 DEF Resolved, DiskOnly
  <2> HIDE DEF intent
  <2>4. /\ run.op = "none"
        /\ \/ ~Recording /\ from = NoMarker /\ marker' \in {NoMarker, marker}
           \/ /\ Recording /\ from = marker /\ marker' = marker
              /\ marker.op = "resize" /\ marker.intent = intent
    BY <2>2, BeginOpTold
  <2>5. /\ run'.op = "resize" /\ run'.stage = "next" /\ run'.todo = ResizeTargets(intent.scope)
        /\ run'.from = from /\ run'.intent = intent
    BY <2>2, <2>3 DEF Started
  <2>6. marker'.op = "resize" => marker' = marker /\ marker.op = "resize" /\ Recording
    BY <1>N, <2>4 DEF Recording
  <2>7. marker.op = "resize" => marker' = marker
    BY <2>4 DEF Recording
  <2>8. SizesResolved'
    BY <1>0, <2>3, <2>5, <2>6 DEF AllSized, SizesResolved, Resolved
  <2>9. SizesKept'
    BY <1>0, <2>6, <2>7 DEF AllSized, SizesKept, Grows, Restarts, InState
  <2>10. SizesSaved'
    BY <2>5 DEF SizesSaved
  <2>11. StaleOpen'
    BY <1>0, <2>7 DEF AllSized, StaleOpen, Stale, LeftBy
  <2>12. StaleRun'
    <3> SUFFICES ASSUME NEW n \in Node, Stale(n)
                 PROVE  LeftBy(from, n) /\ n \in ResizeTargets(intent.scope)
      <4>1. "next" \notin Applied
        BY DEF Applied
      <4>2. \A n \in Node : LeftBy(from, n) => LeftBy(run.from, n)'
        BY <1>0, <2>5 DEF LeftBy
      <4> QED
        BY <1>0, <2>5, <4>1, <4>2 DEF StaleRun, Stale
    <3>1. LeftBy(marker, n)
      BY DEF AllSized, StaleOpen
    <3>2. from = marker /\ marker.intent = intent /\ marker.target = n /\ marker.op = "resize"
      BY <2>4, <3>1 DEF LeftBy, Recording
    <3>3. marker.target \in ResizeTargets(marker.intent.scope)
      BY <3>2 DEF AllTold, ResizeOpen, Past
    <3> QED
      BY <3>1, <3>2, <3>3
  <2> QED
    BY <2>8, <2>9, <2>10, <2>11, <2>12 DEF AllSized
<1>2. ASSUME NEW op \in {"add", "remove"}, NEW matches, NEW intent, NEW ack \in Acks, NEW from,
             BeginOp(op, matches, intent, ack, from), run'.op = op
      PROVE  AllSized'
  <2>1. \/ ~Recording /\ marker' \in {NoMarker, marker}
        \/ marker' = marker
    BY <1>2, BeginOpTold
  <2>2. marker' = marker \/ (marker.op # "resize" /\ marker'.op # "resize")
    BY <1>N, <2>1 DEF Recording
  <2>3. TInv
    BY DEF IInv
  <2>4. run'.op # "resize"
    BY <1>2
  <2> QED
    BY <1>0, <2>2, <2>3, <2>4, SizedAside
<1>3. CASE BeginAdd
  <2>1. PICK count \in AddCounts, ack \in Acks : AddBegin(count, ack)
    BY <1>3 DEF BeginAdd
  <2>2. \E matches, intent, from : BeginOp("add", matches, intent, ack, from) /\ run'.op = "add"
    BY <2>1 DEF AddBegin, Started
  <2> QED
    BY <1>2, <2>2
<1>4. CASE BeginRemove
  <2>1. PICK n \in Workers, skipDrain \in RemoveRequests, ack \in Acks :
            RemoveBegin(n, skipDrain, ack)
    BY <1>4 DEF BeginRemove
  <2>2. \E matches, intent, from : BeginOp("remove", matches, intent, ack, from) /\ run'.op = "remove"
    BY <2>1 DEF RemoveBegin, Started
  <2> QED
    BY <1>2, <2>2
<1>5. CASE BeginStop \/ BeginStart
  BY <1>5 DEF BeginStop, BeginStart, StopBegin, StartBegin, RefuseForeignMarker, Unforced
<1> QED
  BY <1>1, <1>3, <1>4, <1>5 DEF Begin

LEMMA InitSized == Init => AllSized
<1> SUFFICES ASSUME Init PROVE AllSized
  OBVIOUS
<1>1. run.op = "none" /\ marker.op # "resize"
  BY DEF Init, IdleRun, NoMarker
<1>2. \A n \in Node : /\ guest[n].mem = vm[n].mem /\ guest[n].disk = vm[n].disk
                      /\ InState(n) => vm[n] = FirstSize
  BY DEF Init, InState
<1>3. /\ tfvars.size = config.size /\ \A r \in Role : config.size[r] = FirstSize
      /\ \A r \in Role : OfRole(r) \subseteq Node
  BY NodeType DEF Init, OfRole
<1> QED
  BY <1>1, <1>2, <1>3 DEF AllSized, SizesResolved, SizesKept, SizesSaved, StaleOpen, StaleRun, Stale,
     StaleMemory, StaleDisk

LEMMA AllSizedStep ==
    ASSUME Unforced, RoleWise, IInv, Settles, AllTold, AllSized, [Next]_vars
    PROVE  AllSized'
<1>0. NoMarker.op = "none" /\ TInv
  BY DEF NoMarker, IInv
<1>1. CASE Begin
  BY <1>1, BeginSized
<1>2. CASE SweepResidue
  <2>1. /\ run' = run /\ run.op = "none" /\ marker.op = "add" /\ marker' = NoMarker
        /\ UNCHANGED <<config, tfvars, vm, guest>>
    BY <1>2 DEF SweepResidue, Idle, CompletedAddResidue, infra
  <2> QED
    BY <1>0, <2>1, SizedAside
<1>3. CASE ResizeStep \/ AddStep \/ RemoveStep
  BY <1>3, ResizeSized, AddSized, RemoveSized
<1>4. CASE PowerStep
  <2>1. run.op \in {"stop", "start"}
    BY <1>4 DEF PowerStep, StopList, StopCordonAll, StopCordoned, StopNext, PickNext, StopMark, Mark,
       StopShutdown, StopClear, ClearMarker, StartList, StartMark, StartPowerOn, StartPoweredOn, StartWait,
       StartUncordonAll, StartUncordoned, StartClear, Doing, At
  <2> QED
    BY <2>1 DEF AllTold, Sole
<1>5. CASE Return \/ Fail \/ Crash \/ ResizeGivesUp \/ AddGivesUp \/ PowerGivesUp
  <2>1. run'.op = "none" /\ UNCHANGED <<marker, config, tfvars, vm, guest>>
    BY <1>5 DEF Return, Fail, Crash, ResizeGivesUp, AddGivesUp, PowerGivesUp, GiveUp, IdleRun, files, infra
  <2> QED
    BY <1>0, <2>1, SizedAside
<1>6. CASE Environment
  <2>1. UNCHANGED sized
    BY <1>6 DEF Environment, Boot, ReportStatus, sized, files, infra
  <2>2. SameGuests
    <3>1. guest \in [Node -> [power : {"off", "booting", "up"}, mem : Memory \cup {0}, disk : Disk \cup {0}]]
      BY <1>0 DEF TInv, TypeOK
    <3>2. guest' = guest \/ \E n \in Node : guest' = [guest EXCEPT ![n].power = "up"]
      BY <1>6 DEF Environment, Boot, ReportStatus, infra
    <3> QED
      BY <3>1, <3>2 DEF SameGuests
  <2> QED
    BY <2>1, <2>2, NothingSized
<1>7. CASE UNCHANGED vars
  BY <1>7, NothingSized DEF vars, files, infra, sized, SameGuests
<1> QED
  BY <1>1, <1>2, <1>3, <1>4, <1>5, <1>6, <1>7 DEF Next, Proceed

\* Where no recorded operation is overridden, the cluster is not powered off as a whole, and a
\* role whose disks are grown on their own is resized as a whole: a resize that persists its
\* sizes or reports success has every target running with the memory and the disk that were
\* asked for, however often it was interrupted and taken up.
THEOREM ResizesLand == ASSUME Unforced, RoleWise PROVE Spec => []ResizeRealized
<1>1. Init => IInv /\ Settles /\ AllTold /\ AllSized
  BY InitType, InitKeeps, InitSettles, InitTells, InitSized DEF IInv
<1>2. IInv /\ Settles /\ AllTold /\ AllSized /\ [Next]_vars => (IInv /\ Settles /\ AllTold /\ AllSized)'
  BY IInvStep, SettlesStep, AllToldStep, AllSizedStep
<1>3. IInv /\ AllTold /\ AllSized => ResizeRealized
  <2> SUFFICES ASSUME IInv, AllTold, AllSized,
                      run.op = "resize", run.stage \in {"save", "render", "clear", "done"},
                      NEW n \in ResizeTargets(run.intent.scope)
               PROVE  /\ run.intent.askMem > 0 => guest[n].mem = run.intent.mem
                      /\ run.intent.askDisk > 0 => guest[n].disk = run.intent.disk
    BY DEF ResizeRealized
  <2>1. run.stage \notin Working /\ run.stage \notin Applied
    BY DEF Working, Applied, ResizeSteps
  <2>2. run.todo = {} /\ vm[n] = Wanted(run.intent, n[1]) /\ Resolved(run.intent)
    BY <2>1 DEF AllTold, ResizeRun, Landed, AllSized, SizesResolved
  <2>3. n \in Node
    BY DEF ResizeTargets, IInv, TInv, TypeOK
  <2>4. ~Stale(n)
    BY <2>1, <2>2, <2>3 DEF AllSized, StaleRun
  <2>5. InState(n)
    <3>1. n \in registered
      BY DEF ResizeTargets
    <3>2. Wanted(run.intent, n[1]) # Absent
      <4>1. run.intent.mem \in Memory /\ \A m \in Memory : m # 0
        BY SizeAssumption DEF IInv, TInv, ResizeShape
      <4> QED
        BY <4>1 DEF Wanted, Absent
    <3> QED
      BY <2>2, <3>2 DEF InState
  <2>6. guest[n].mem = vm[n].mem /\ guest[n].disk = vm[n].disk
    BY <2>4, <2>5 DEF Stale, StaleMemory, StaleDisk
  <2>7. /\ Wanted(run.intent, n[1]).mem = run.intent.mem
        /\ run.intent.askDisk > 0 => Wanted(run.intent, n[1]).disk = run.intent.askDisk
    BY DEF Wanted
  <2> QED
    BY <2>2, <2>6, <2>7 DEF Resolved
<1> QED
  BY <1>1, <1>2, <1>3, PTL DEF Spec

=============================================================================
