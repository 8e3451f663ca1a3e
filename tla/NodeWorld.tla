----------------------------- MODULE NodeWorld -----------------------------
(***************************************************************************)
(* The state that okdctl's node-lifecycle operations share, and the        *)
(* machinery of internal/node that every one of them goes through: the op  *)
(* marker written before each mutating step, the decision to resume,       *)
(* refuse or override a marker, the plan-gated targeted terraform apply,   *)
(* and the order in which topology is persisted.                           *)
(*                                                                         *)
(* One okdctl process runs at a time (internal/runlock), so the operations *)
(* never interleave with each other.  What interleaves with the running    *)
(* process is its own death, the guests that boot, and the status the API  *)
(* server reports for them.                                                *)
(***************************************************************************)
EXTENDS Integers, FiniteSets

CONSTANTS
    MasterCount,    \* control-plane VMs, fixed for the life of a cluster
    WorkerCount,    \* workers of the cluster as first deployed
    MaxWorkers,     \* bound: workers the topology may grow to
    Memory, Disk,   \* sizes a role may be given, the least is the initial one
    Verbs,          \* the operations an operator issues
    Acks,           \* values of --acknowledge-interrupted-op that are used
    PromptStatus,   \* the API withdraws Ready as soon as a guest stops
    MaxFaults       \* bound: failures, kills and failed cleanups in total

ASSUME ClusterAssumption ==
    /\ MasterCount \in Nat \ {0}
    /\ WorkerCount \in Nat /\ MaxWorkers \in Nat /\ WorkerCount =< MaxWorkers

ASSUME SizeAssumption ==
    /\ Memory \subseteq Nat \ {0}
    /\ Disk \subseteq Nat \ {0}
    /\ \E m \in Memory : \A x \in Memory : m =< x
    /\ \E d \in Disk : \A x \in Disk : d =< x

ASSUME OperatorAssumption ==
    /\ Verbs \subseteq {"resize", "add", "remove", "stop", "start"}
    /\ Acks \subseteq BOOLEAN
    /\ PromptStatus \in BOOLEAN
    /\ MaxFaults \in Nat

VARIABLES
    marker,      \* .okdctl-node-op.json, or NoMarker
    config,      \* okdctl.yaml: worker count and per-role sizing
    tfvars,      \* terraform.tfvars: what a full plan would realize
    vm,          \* terraform state and the VM configuration in Proxmox
    guest,       \* what each VM actually runs with
    registered,  \* nodes that have a Node object
    ready,       \* nodes the API server reports Ready
    cordoned,    \* nodes marked unschedulable
    drained,     \* nodes whose pods were evicted and cannot come back
    iso,         \* how far each worker's boot ISO got
    ignition,    \* the ignition server is serving worker.ign
    misled,      \* history: nodes not up yet since a gate counted a stale Ready of theirs
    run,         \* the okdctl process in flight, or IdleRun
    faults       \* failures so far, bounded by MaxFaults

files == <<marker, config, tfvars>>
infra == <<vm, guest>>
kube == <<registered, ready, cordoned, drained>>
boot == <<iso, ignition, misled>>
vars == <<files, infra, kube, boot, run, faults>>

-----------------------------------------------------------------------------
(* Nodes, sizes, intents and markers *)

Masters == {"master"} \X (0 .. MasterCount - 1)
Workers == {"worker"} \X (0 .. MaxWorkers - 1)
Node == Masters \cup Workers
Role == {"master", "worker"}
NoNode == <<"cluster", -1>>      \* start's marker names the cluster, not a node
OfRole(r) == IF r = "master" THEN Masters ELSE Workers

Least(S) == CHOOSE x \in S : \A y \in S : x =< y
Size == [mem : Memory, disk : Disk]
FirstSize == [mem |-> Least(Memory), disk |-> Least(Disk)]
Absent == [mem |-> 0, disk |-> 0]
Topology == [workers : 0 .. MaxWorkers, size : [Role -> Size]]

\* A scope is a node, or a role with index -1 for all of its nodes.
Scope == Node \cup (Role \X {-1}) \cup {NoNode}

\* mem and disk are the resolved sizes, askMem and askDisk the requested ones
\* (0: the flag was omitted).  CPU follows memory in every rule of the code.
Intent == [scope : Scope, mem : Memory \cup {0}, disk : Disk \cup {0},
           askMem : Memory \cup {0}, askDisk : Disk \cup {0},
           skipDrain : BOOLEAN, start : 0 .. MaxWorkers, count : 0 .. MaxWorkers]
NoIntent == [scope |-> NoNode, mem |-> 0, disk |-> 0, askMem |-> 0, askDisk |-> 0,
             skipDrain |-> FALSE, start |-> 0, count |-> 0]

DiskOnly(i) == i.askDisk > 0 /\ i.askMem = 0

Op == {"resize", "add", "remove", "stop", "start"}
Step == {"ignition-up", "build-iso", "upload-iso", "cordon", "drain", "tf-apply",
         "power-cycle", "disk-grow", "delete-node", "uncordon", "wait-join",
         "shutdown", "power-on"}
Marker == [op : Op \cup {"none"}, target : Node \cup {NoNode},
           step : Step \cup {"none"}, intent : Intent]
NoMarker == [op |-> "none", target |-> NoNode, step |-> "none", intent |-> NoIntent]

\* A resumed operation re-runs its recorded step and every later one.
StepOrder == [s \in Step |->
    CASE s = "ignition-up" -> -4
      [] s = "build-iso"   -> -3
      [] s = "upload-iso"  -> -2
      [] s = "cordon"      -> 0
      [] s = "drain"       -> 1
      [] s = "tf-apply"    -> 2
      [] s = "power-cycle" -> 3
      [] s \in {"disk-grow", "delete-node"} -> 4
      [] s = "uncordon"    -> 5
      [] s = "wait-join"   -> 6
      [] OTHER             -> 0]

ShouldRunStep(step, from) == from # "none" => StepOrder[step] >= StepOrder[from]

-----------------------------------------------------------------------------
(* What the process can observe *)

Up(n) == guest[n].power = "up"
InState(n) == vm[n] # Absent

\* The API server needs a majority of the etcd members.
ApiUp == 2 * Cardinality({n \in Masters : Up(n)}) > MasterCount
EtcdHealthy == ApiUp /\ Masters \subseteq ready

-----------------------------------------------------------------------------
(* The process *)

Stage == Step \cup {"probe", "pre-gate", "wait-ready", "post-gate", "next", "save",
                    "render", "clear", "done", "cordon-all", "cluster-ready",
                    "uncordon-all", "idle"}
Run == [op : Op \cup {"none"}, stage : Stage, marked : BOOLEAN,
        target : Node \cup {NoNode}, todo : SUBSET Node, from : Marker, intent : Intent]
IdleRun == [op |-> "none", stage |-> "idle", marked |-> FALSE, target |-> NoNode,
            todo |-> {}, from |-> NoMarker, intent |-> NoIntent]

Idle == run.op = "none"
At(op, stage) == run.op = op /\ run.stage = stage
Doing(op, stage) == At(op, stage) /\ run.marked
Resuming == run.from # NoMarker
ResumeStep == IF run.from.target = run.target THEN run.from.step ELSE "none"

GoTo(stage) == run' = [run EXCEPT !.stage = stage, !.marked = FALSE]

\* runStep: a step that is due is recorded first; the effect comes after.
Mark(op, step) ==
    /\ At(op, step) /\ ~run.marked
    /\ marker' = [op |-> op, target |-> run.target, step |-> step, intent |-> run.intent]
    /\ run' = [run EXCEPT !.marked = TRUE]
    /\ UNCHANGED <<config, tfvars, infra, kube, boot, faults>>

\* A stage the request or the resume point leaves out.
Pass(op, stage, next) ==
    /\ At(op, stage) /\ ~run.marked
    /\ GoTo(next)
    /\ UNCHANGED <<files, infra, kube, boot, faults>>

-----------------------------------------------------------------------------
(* Starting an operation: resume, refuse or override the marker *)

\* Residue of an add that completed, left by a release that recorded no intent.
CompletedAddResidue(m) ==
    /\ m.op = "add" /\ m.intent = NoIntent
    /\ m.target \in Workers /\ m.target[2] < config.workers

Resumable(op, matches, intent) ==
    marker.op = op /\ matches /\ marker.intent = intent

Stranded == marker # NoMarker /\ ~CompletedAddResidue(marker)

\* beginOp: the marker to resume from (NoMarker: a fresh run) and the marker
\* file it leaves.  matches says that the request covers the marker's target.
\* A stranded marker is refused unless acknowledged; an acknowledged one stays
\* on disk until the first step overwrites it.
BeginOp(op, matches, intent, ack, from) ==
    /\ op \in Verbs /\ Idle
    /\ \/ ~Stranded /\ from = NoMarker
          /\ marker' \in {NoMarker, marker}
       \/ Stranded /\ Resumable(op, matches, intent)
          /\ from = marker /\ UNCHANGED marker
       \/ Stranded /\ ~Resumable(op, matches, intent) /\ ack
          /\ from = NoMarker /\ UNCHANGED marker

\* refuseForeignMarker: stop and start never resume; an override consumes the marker.
RefuseForeignMarker(op, ack) ==
    /\ op \in Verbs /\ Idle
    /\ Stranded => ack
    /\ marker' \in {NoMarker, marker}

\* The scope and the resume point of a started run; PickNext takes its targets.
Started(op, stage, todo, from, intent) ==
    run' = [op |-> op, stage |-> stage, marked |-> FALSE, target |-> NoNode,
            todo |-> todo, from |-> from, intent |-> intent]

\* The loop over the targets: one role after the other, by ascending index.
Precedes(m, n, lead) == \/ m[1] = lead /\ n[1] # lead
                        \/ m[1] = n[1] /\ m[2] =< n[2]
PickNext(op, stage, lead, body, after) ==
    /\ At(op, stage) /\ ~run.marked
    /\ \/ /\ run.todo = {}
          /\ run' = [run EXCEPT !.target = NoNode, !.stage = after]
       \/ \E n \in run.todo :
             /\ \A m \in run.todo : Precedes(n, m, lead)
             /\ run' = [run EXCEPT !.target = n, !.todo = @ \ {n}, !.stage = body]
    /\ UNCHANGED <<files, infra, kube, boot, faults>>

-----------------------------------------------------------------------------
(* The plan-gated targeted apply *)

\* planTargeted towards size w: the gate passes a plan that holds exactly the
\* wanted change and, for a change that already landed, an empty plan: a delete
\* on any run, an update or a create on a resumed run only.
PlanGate(n, want, w) ==
    CASE want = "update" -> InState(n) /\ (vm[n] # w \/ Resuming)
      [] want = "create" -> ~InState(n) \/ (vm[n] = w /\ Resuming)
      [] want = "delete" -> TRUE

\* An update leaves a running guest as it is; a created VM starts at once.
TargetedApply(n, want, w) ==
    /\ PlanGate(n, want, w)
    /\ vm' = [vm EXCEPT ![n] = IF want = "delete" THEN Absent ELSE w]
    /\ guest' = [guest EXCEPT ![n] =
          CASE want = "create" /\ ~InState(n) ->
                 [power |-> "booting", mem |-> w.mem, disk |-> w.disk]
            [] want = "delete" -> [power |-> "off", mem |-> 0, disk |-> 0]
            [] OTHER -> @]

-----------------------------------------------------------------------------
(* Guests and the status reported for them *)

\* What the API reports after the guests in S stopped.
Withdrawn(S) == IF PromptStatus THEN ready \ S ELSE ready

PowerOff(n) ==
    /\ guest' = [guest EXCEPT ![n].power = "off"]
    /\ ready' = Withdrawn({n})

\* A start realizes the memory that terraform configured; the guest's
\* filesystem keeps its size until it is grown in the guest.
PowerOn(n) ==
    guest' = [guest EXCEPT ![n].power = IF @ = "off" THEN "booting" ELSE @,
                           ![n].mem = IF guest[n].power = "off" THEN vm[n].mem ELSE @]

\* A first boot needs the ignition server; later boots do not.
Boot(n) ==
    /\ guest[n].power = "booting"
    /\ n \in registered \/ ignition
    /\ guest' = [guest EXCEPT ![n].power = "up"] /\ misled' = misled \ {n}
    /\ UNCHANGED <<files, vm, kube, iso, ignition, run, faults>>

ReportStatus(n) ==
    /\ ApiUp /\ n \in registered
    /\ Up(n) # (n \in ready)
    /\ ready' = IF Up(n) THEN ready \cup {n} ELSE ready \ {n}
    /\ UNCHANGED <<files, infra, registered, cordoned, drained, boot, run, faults>>

\* A gate counts the nodes in S as Ready.
Count(S) == misled' = misled \cup {n \in S \cap ready : ~Up(n)} /\ UNCHANGED <<iso, ignition>>

\* Nothing is about to change by itself: a gate that is still shut times out.
Settled ==
    /\ \A n \in Node : guest[n].power = "booting" => n \notin registered /\ ~ignition
    /\ ApiUp => \A n \in registered : Up(n) <=> n \in ready

-----------------------------------------------------------------------------
(* Completing and ending a run *)

\* persistTopology saves okdctl.yaml first: a crash leaves it ahead of tfvars.
SaveConfig(op, topology, next) ==
    /\ At(op, "save")
    /\ config' = topology
    /\ GoTo(next)
    /\ UNCHANGED <<marker, tfvars, infra, kube, boot, faults>>

RenderTfvars(op, next) ==
    /\ At(op, "render")
    /\ tfvars' = config
    /\ GoTo(next)
    /\ UNCHANGED <<marker, config, infra, kube, boot, faults>>

\* A marker that cannot be removed only warns.
ClearMarker(op) ==
    /\ At(op, "clear")
    /\ \/ marker' = NoMarker /\ UNCHANGED faults
       \/ faults < MaxFaults /\ faults' = faults + 1 /\ UNCHANGED marker
    /\ GoTo("done")
    /\ UNCHANGED <<config, tfvars, infra, kube, boot>>

\* AddWorkers defers the teardown once it owns the join window; the deferred
\* call runs on every way out except the death of the process.
OwnsIgnition == run.op = "add" /\ (Resuming \/ run.marked \/ run.stage # "ignition-up")

TearDown(cost) ==
    \/ /\ ignition' = (ignition /\ ~OwnsIgnition)
       /\ faults' = faults + cost
    \/ /\ OwnsIgnition /\ faults + cost < MaxFaults
       /\ UNCHANGED ignition /\ faults' = faults + cost + 1

\* The operation returns: with success, with an error of its own, or because
\* a gate it polls timed out or refused (which needs no fault).
Return ==
    /\ run.stage = "done"
    /\ TearDown(0)
    /\ run' = IdleRun
    /\ UNCHANGED <<files, infra, kube, iso, misled>>

Fail ==
    /\ ~Idle /\ run.stage # "done" /\ faults < MaxFaults
    /\ TearDown(1)
    /\ run' = IdleRun
    /\ UNCHANGED <<files, infra, kube, iso, misled>>

GiveUp(blocked) ==
    /\ blocked /\ Settled
    /\ TearDown(0)
    /\ run' = IdleRun
    /\ UNCHANGED <<files, infra, kube, iso, misled>>

\* The process dies: nothing deferred runs.
Crash ==
    /\ ~Idle /\ faults < MaxFaults
    /\ faults' = faults + 1
    /\ run' = IdleRun
    /\ UNCHANGED <<files, infra, kube, boot>>

-----------------------------------------------------------------------------

\* A deployed cluster at rest, and the marker an older release may have left.
Init ==
    /\ marker \in {NoMarker} \cup
         {[op |-> "add", target |-> n, step |-> "wait-join", intent |-> NoIntent] :
            n \in {m \in Workers : "add" \in Verbs /\ m[2] = WorkerCount - 1}}
    /\ config = [workers |-> WorkerCount, size |-> [r \in Role |-> FirstSize]]
    /\ tfvars = config
    /\ registered = Masters \cup {n \in Workers : n[2] < WorkerCount}
    /\ ready = registered
    /\ vm = [n \in Node |-> IF n \in registered THEN FirstSize ELSE Absent]
    /\ guest = [n \in Node |-> [power |-> IF n \in registered THEN "up" ELSE "off",
                                mem |-> vm[n].mem, disk |-> vm[n].disk]]
    /\ cordoned = {} /\ drained = {}
    /\ iso = [n \in Workers |-> IF n \in registered THEN "uploaded" ELSE "none"]
    /\ ignition = FALSE /\ misled = {}
    /\ run = IdleRun
    /\ faults = 0

TypeOK ==
    /\ marker \in Marker
    /\ config \in Topology /\ tfvars \in Topology
    /\ vm \in [Node -> Size \cup {Absent}]
    /\ guest \in [Node -> [power : {"off", "booting", "up"},
                           mem : Memory \cup {0}, disk : Disk \cup {0}]]
    /\ registered \subseteq Node /\ ready \subseteq Node
    /\ cordoned \subseteq Node /\ drained \subseteq Node
    /\ iso \in [Workers -> {"none", "built", "uploaded"}]
    /\ ignition \in BOOLEAN /\ misled \subseteq Node
    /\ run \in Run
    /\ faults \in Nat

=============================================================================
