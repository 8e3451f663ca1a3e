----------------------------- MODULE NodeResize -----------------------------
(***************************************************************************)
(* node.Runner.Resize: change the sizing of a role, or of one node of it,  *)
(* rolled out one node at a time.  Each node goes through the stages       *)
(*                                                                         *)
(*   probe -> pre-gate -> cordon -> drain -> tf-apply -> power-cycle ->    *)
(*   wait-ready -> disk-grow -> post-gate -> uncordon                      *)
(*                                                                         *)
(* of which the request and the resume point leave some out.  The role's   *)
(* sizing is persisted once every target has landed.                       *)
(***************************************************************************)
EXTENDS NodeWorld

CONSTANT ResizeRequests  \* the flags an operator gives: scope, sizes, --skip-drain

ASSUME ResizeAssumption ==
    \A q \in ResizeRequests :
        /\ q.scope \in Node \cup (Role \X {-1})
        /\ q.mem \in Memory \cup {0} /\ q.disk \in Disk \cup {0}
        /\ q.skipDrain \in BOOLEAN
        /\ q.mem > 0 \/ q.disk > 0                      \* Resize's first guard
        /\ q.disk > 0 => q.scope[2] = -1                \* validateDiskScope

\* An omitted size keeps the role's current one.
ResizeIntent(q) ==
    LET current == config.size[q.scope[1]] IN
    [NoIntent EXCEPT !.scope = q.scope, !.skipDrain = q.skipDrain,
        !.askMem = q.mem,   !.mem = IF q.mem > 0 THEN q.mem ELSE current.mem,
        !.askDisk = q.disk, !.disk = IF q.disk > 0 THEN q.disk ELSE current.disk]

\* resolveResizeTargets, from the nodes the API lists.
ResizeTargets(scope) ==
    IF scope[2] = -1 THEN registered \cap OfRole(scope[1]) ELSE registered \cap {scope}

\* resizeScopeMatch: a node scope matches that node, a role scope its role.
ResizeMatch(scope, target) ==
    IF scope[2] = -1 THEN target \in registered \cap OfRole(scope[1]) ELSE target = scope

\* validateDiskGrowth: grow-only, and equal only where a resume recomputes it.
DiskGrows(q, resuming) ==
    LET current == config.size[q.scope[1]].disk IN
    q.disk > 0 => q.disk > current \/ (q.disk = current /\ resuming)

ResizeBegin(q, ack) ==
    LET intent == ResizeIntent(q)
    IN  /\ ApiUp
        /\ ResizeTargets(q.scope) # {}
        /\ \A n \in ResizeTargets(q.scope) : InState(n)      \* targetHosts
        /\ \E from \in {NoMarker, marker} :
              /\ BeginOp("resize", ResizeMatch(q.scope, marker.target), intent, ack, from)
              /\ DiskGrows(q, from # NoMarker)
              /\ Started("resize", "next", ResizeTargets(q.scope), from, intent)
        /\ UNCHANGED <<config, tfvars, infra, kube, boot, faults>>

-----------------------------------------------------------------------------
\* The size the -var overrides give the target; an omitted disk keeps tfvars'.
Wanted(i, role) == [mem |-> i.mem, disk |-> IF i.askDisk > 0 THEN i.askDisk
                                            ELSE tfvars.size[role].disk]
WantedHere == Wanted(run.intent, run.target[1])

Drains(i) == ~DiskOnly(i) /\ ~i.skipDrain
IsMaster == run.target \in Masters

\* Whether a stage runs for the current target: the request asks for it and the
\* resume point has not passed it.
ResizeDue(step) ==
    /\ ShouldRunStep(step, ResumeStep)
    /\ CASE step \in {"cordon", "drain"} -> Drains(run.intent)
         [] step \in {"power-cycle", "uncordon"} -> ~DiskOnly(run.intent)
         [] step = "disk-grow" -> run.intent.askDisk > 0
         [] OTHER -> TRUE

AfterStep(step) ==
    CASE step = "cordon" -> "drain"
      [] step = "drain" -> "tf-apply"
      [] step = "tf-apply" -> "power-cycle"
      [] step = "power-cycle" -> "wait-ready"
      [] step = "disk-grow" -> "post-gate"
      [] step = "uncordon" -> "next"
ResizeSteps == {"cordon", "drain", "tf-apply", "power-cycle", "disk-grow", "uncordon"}

ResizeMark == \E s \in ResizeSteps : ResizeDue(s) /\ Mark("resize", s)
ResizePass == \E s \in ResizeSteps : ~ResizeDue(s) /\ Pass("resize", s, AfterStep(s))

\* (mutant) the node the marker names is probed as well.
ProbeAll ==
    /\ At("resize", "probe") /\ InState(run.target)
    /\ GoTo(IF Resuming /\ vm[run.target] = WantedHere THEN "next" ELSE "pre-gate")
    /\ UNCHANGED <<files, infra, kube, boot, faults>>

\* A resumed role roll probes the nodes the marker does not name.
ResizeProbe ==
    /\ At("resize", "probe")
    /\ \/ (Resuming => run.from.target = run.target) /\ GoTo("pre-gate")
       \/ /\ Resuming /\ run.from.target # run.target /\ InState(run.target)
          /\ GoTo(IF vm[run.target] = WantedHere THEN "next" ELSE "pre-gate")
    /\ UNCHANGED <<files, infra, kube, boot, faults>>

\* The gate before a master is skipped only when the resumed step is the
\* power-cycle, which may have left that very master off.
SkipPreGate == ResumeStep = "power-cycle"
ResizePreGate ==
    /\ At("resize", "pre-gate")
    /\ IsMaster /\ ~SkipPreGate => EtcdHealthy
    /\ Count(IF IsMaster /\ ~SkipPreGate THEN Masters ELSE {})
    /\ GoTo("cordon")
    /\ UNCHANGED <<files, infra, kube, faults>>

ResizeCordon ==
    /\ Doing("resize", "cordon") /\ ApiUp
    /\ cordoned' = cordoned \cup {run.target}
    /\ GoTo("drain")
    /\ UNCHANGED <<files, infra, registered, ready, drained, boot, faults>>

\* oc adm drain cordons first.
ResizeDrain ==
    /\ Doing("resize", "drain") /\ ApiUp
    /\ cordoned' = cordoned \cup {run.target}
    /\ drained' = drained \cup {run.target}
    /\ GoTo("tf-apply")
    /\ UNCHANGED <<files, infra, registered, ready, boot, faults>>

ResizeApply ==
    /\ Doing("resize", "tf-apply")
    /\ TargetedApply(run.target, "update", WantedHere)
    /\ GoTo("power-cycle")
    /\ UNCHANGED <<files, kube, boot, faults>>

\* PowerCycleVM stops a running VM, then starts it: two effects, one step.
ResizePowerOff ==
    /\ Doing("resize", "power-cycle") /\ guest[run.target].power # "off"
    /\ PowerOff(run.target)
    /\ UNCHANGED <<files, vm, registered, cordoned, drained, boot, run, faults>>

ResizePowerOn ==
    /\ Doing("resize", "power-cycle") /\ guest[run.target].power = "off"
    /\ PowerOn(run.target)
    /\ GoTo("wait-ready")
    /\ UNCHANGED <<files, vm, kube, boot, faults>>

\* waitNodeReady polls at once and takes the status the API reports.
ResizeWaitReady ==
    /\ At("resize", "wait-ready")
    /\ DiskOnly(run.intent) \/ (ApiUp /\ run.target \in registered \cap ready)
    /\ GoTo("disk-grow")
    /\ UNCHANGED <<files, infra, kube, boot, faults>>

ResizeGrowDisk ==
    /\ Doing("resize", "disk-grow") /\ ApiUp /\ Up(run.target)
    /\ guest' = [guest EXCEPT ![run.target].disk = vm[run.target].disk]
    /\ GoTo("post-gate")
    /\ UNCHANGED <<files, vm, kube, boot, faults>>

ResizePostGate ==
    /\ At("resize", "post-gate")
    /\ IsMaster => EtcdHealthy
    /\ Count(IF IsMaster THEN Masters ELSE {})
    /\ GoTo("uncordon")
    /\ UNCHANGED <<files, infra, kube, faults>>

ResizeUncordon ==
    /\ Doing("resize", "uncordon") /\ ApiUp
    /\ cordoned' = cordoned \ {run.target}
    /\ drained' = drained \ {run.target}
    /\ GoTo("next")
    /\ UNCHANGED <<files, infra, registered, ready, boot, faults>>

ResizeNext == PickNext("resize", "next", "master", "probe", "save")

\* (mutant) an omitted disk size is persisted as asked: zero.
ResizedAsAsked(topology, i) ==
    [topology EXCEPT !.size[i.scope[1]] = [mem |-> i.mem, disk |-> i.askDisk]]

\* applyRoleSizing: the sizes the request names, memory always.
Resized(topology, i) ==
    [topology EXCEPT !.size[i.scope[1]] =
        [mem |-> i.mem, disk |-> IF i.askDisk > 0 THEN i.askDisk ELSE @.disk]]
ResizeSave == SaveConfig("resize", Resized(config, run.intent), "render")
ResizeRender == RenderTfvars("resize", "clear")
ResizeClear == ClearMarker("resize")

-----------------------------------------------------------------------------
\* A gate that times out, a refused plan, an API that does not answer.
ResizeBlocked ==
    \/ At("resize", "probe") /\ ~InState(run.target)
    \/ At("resize", "pre-gate") /\ IsMaster /\ ~SkipPreGate /\ ~EtcdHealthy
    \/ \E s \in {"cordon", "drain", "uncordon"} : Doing("resize", s) /\ ~ApiUp
    \/ Doing("resize", "tf-apply") /\ ~PlanGate(run.target, "update", WantedHere)
    \/ At("resize", "wait-ready") /\ ~DiskOnly(run.intent)
          /\ ~(ApiUp /\ run.target \in registered \cap ready)
    \/ Doing("resize", "disk-grow") /\ ~(ApiUp /\ Up(run.target))
    \/ At("resize", "post-gate") /\ IsMaster /\ ~EtcdHealthy

ResizeStep ==
    \/ ResizeMark \/ ResizePass \/ ResizeProbe \/ ResizePreGate
    \/ ResizeCordon \/ ResizeDrain \/ ResizeApply
    \/ ResizePowerOff \/ ResizePowerOn \/ ResizeWaitReady
    \/ ResizeGrowDisk \/ ResizePostGate \/ ResizeUncordon
    \/ ResizeNext \/ ResizeSave \/ ResizeRender \/ ResizeClear

=============================================================================
