# okdctl: models, checks and proofs

okdctl deploys an OKD (OpenShift) cluster on Proxmox with Terraform and then
operates it: it adds, removes and resizes nodes, stops and starts the cluster,
and tears it down. Almost everything it does is a long sequence of durable
effects in places that cannot be changed together: files of the workspace,
Terraform state and the Proxmox VMs, the Kubernetes API, the bastion host's
services, and the screen an operator reads before agreeing. The process may fail
or be killed between any two of them and is then run again. What makes it
correct is what the *next* step or the *next* run finds; that is what these
modules are about.

Paths below are relative to `src/internal/` unless they start with `docs/` or
`infrastructure/`.

## 1. Inventory

| Component | State it keeps | Operations | Interacts with |
|---|---|---|---|
| node operations (`node/`) | op marker `.okdctl-node-op.json`, persisted topology and tfvars | Resize, AddWorkers, RemoveWorker, Stop, Start | cluster client, power API, Terraform, ISO and ignition server |
| cluster client (`cluster/`) | none (the API's nodes, CSRs, etcd status) | list, cordon, drain, uncordon, delete, etcd and ceph gates, approve CSRs, patch | every operation, install, post-install |
| power API and host SSH (`infrastructure/proxmox`) | none (VM power, ISO storage) | start, shut down, power-cycle, upload, remove ISOs | node operations, setup, install, destroy |
| Terraform driver (`infrastructure/terraform`) | state, snapshots, plan files, destroy override, bootstrap sentinel | init, plan, apply, destroy, snapshot, prune, restore | deploy, node operations, destroy |
| Terraform module (`infrastructure/terraform/`, HCL) | which variables each VM derives from | | Terraform |
| provisioning (`distribution/okd/provision`) | ISO cache with fingerprints, certificate, ignition web root | build, upload, revive and tear down the server | setup, add, destroy |
| deploy engine (`deploy/`, `cli/deploy.go`) | phase marker `.okdctl-deploy-state.json` | Execute, resume, GuardSetup | setup, install, post-install, run lock |
| setup, install, post-install (`distribution/okd/{setup,install,postinstall}`) | cluster-config (credentials, ignition), tfvars, kubeconfig, ingress backups | ordered steps with already-done, skip and non-fatal policies; update-ingress | all of the above |
| destroy and cleanup (`distribution/okd/{destroy,cleanup}`) | removes what the others made | destroy, cleanup in three modes | Terraform, workspace files, bastion, ISO storage |
| step orchestrator (`distribution/orchestrator.go`, `system/`) | position in a step list | Run, WaitFor | every phase |
| run lock (`runlock/`) | flock and pid file | Acquire, Release | every mutating command |
| addons (`addon/`) | installed set, namespace ownership | install one or all, compensate, uninstall, verify | post-install, CLI |
| configuration and credentials (`config/`, `credentials/`) | `okdctl.yaml`, `.env`, what the process read | load, default, validate, save, sign in | everything |
| releases (`distribution/okd/releases`) | an hour's disk cache | fetch pages, classify | wizard |
| downloads (`download/`, `httputil/`) | files of the download directory, version sentinel | fetch with retries, verify, extract, install | setup |
| bastion services (`distribution/okd/{dns,firewall}`, HAProxy, httpd) | drop-ins, backups, resolver profile | configure with a way back, remove | setup, cleanup, update-ingress |
| wizard (`tui/wizard`) | flow and step on screen, forms, a manage session, an execution | navigate, edit, preview, confirm, execute, cancel, quit | CLI, configuration, node operations, deploy |
| doctor, cluster status, rendering, log view, hostnet, platform, logging | none | read-only checks, text | CLI |

### What is hard here

* **Death between two effects.** A power-cycle is a stop and a start; topology
  is a YAML save and a tfvars render; an add is a marker, an ISO, an upload, an
  apply and a join; an ingress controller is deleted to be created anew. Every
  pair of neighbours is a crash point.
* **Resume by comparison.** A marker, a fingerprint, a version sentinel or a
  backup holds one thing that was true once. What a run skips, repeats or trusts
  follows from comparing it with the request, and an operator may override it.
* **Stale observation.** The API server reports a stopped node Ready until its
  lease expires; Terraform state shows what was configured, not what runs; a plan
  is read by a person while the cluster moves; a list is worked off while its
  items are replaced.
* **Waiting on oneself.** The API is hosted by the masters being resized,
  stopped and started; etcd needs a majority; the installer waits for nodes that
  wait for an approval okdctl gives while it waits for the installer.
* **One step of several failing**, with the rest already applied, in a sequence
  that continues (non-fatal steps), undoes (addons, ingress, HAProxy) or stops.
* **Cancelling what is still running.** A session is built, a plan computed and
  an operation executed beside an update loop whose operator may leave, come
  back or quit; cancelling cancels the context the last event is sent under. A
  terraform child may outlive the process that started it.
* **A long sequence of legal commands** whose leftovers meet: an acknowledged
  override, then a resume of the override, then a remove.
* **The same thing computed twice**: VM numbers and hosts in Go and in HCL, a
  login from the shell, from `.env` and from a form, a placement per visit.

`PROJECT.json` lists each of these hazards at the line where it bites, with the
properties that would catch it.

### What makes each component correct

* *Node operations*: a success means the request is realized; a retry ends and
  does the work once; a drained operation disrupts only drained nodes; two
  masters are never down together; a partial stop leaves nothing schedulable.
* *Deploy engine*: the identity live VMs were built with is never replaced
  under them; a marker never vouches for material that is gone; a retry ends.
* *Post-install*: the bootstrap VM, which serves the API first, goes only once
  the VIP answers; the desired state never brings a destroyed bootstrap back;
  an ingress controller is never gone without its original on disk.
* *Destroy and cleanup*: what a failed destroy still needs survives it; nothing
  that others use is removed.
* *Terraform driver*: no mutation without a snapshot; the state can be restored
  while it is torn; a forgotten destroy override blocks everything but destroy; a
  plan gate decides on complete output only.
* *Setup and provisioning*: an ISO is reused only for the inputs it was built
  from; what is served is what this run generated; the tools are the release's.
* *Addons*: dependencies first; a failed install leaves nothing half installed,
  and nothing that was somebody else's is deleted.
* *CSR policy and monitor*: only expected nodes, with their addresses and
  usages; and the three-cornered wait ends.
* *Configuration*: what is deployed is what the screens showed: the placement,
  the login, and one numbering in Go and in HCL.
* *Wizard*: only the plan that was read and accepted is executed; every session
  is closed; what the process reports happened; it ends.

## 2. Modules

Five systems are modelled. A cluster that exists and is operated on:

```
NodeWorld            state, marker and resume machinery, Terraform and power primitives,
   |                 booting guests and status reports, failure, death
   +-- NodeResize    Resize
   +-- NodeAdd       AddWorkers
   +-- NodeRemove    RemoveWorker
   +-- ClusterPower  Stop, Start
          \   |   /
       NodeLifecycle            all five composed, fairness, properties
          |              \
   MCNodeLifecycle       NodeLifecycle_proofs
```

A cluster that is made and unmade:

```
DeployWorld          workspace, identity, Terraform files, VMs, the growing cluster, death
   |
Cleanup              the cleanup phase, inside deploy and destroy or by itself
   +-- Deploy        engine, phase marker, setup, install, post-install
   +-- Teardown      destroy and its variants, cleanup
          \   /
        Deployment              all six commands composed, fairness, properties
                |
        Deployment_proofs
```

The Terraform driver under all of them, two processes at a time:

```
StateStore             the promise: backed up before it is written, restorable while torn
TerraformDriver        locks, snapshots, plan files, override, child and pipe, one action per step
   |
TerraformSessions      seven commands from several processes; implements StateStore
   |
TerraformSessions_proofs
```

The services a deploy and its clean-up rest on:

```
Addons                                              addon manager
Conversion  <-implements-  UpdateIngress            ingress conversion
CSRPolicy --> InstallMonitor                        certificate policy, install monitor
Bastion --> BastionServices --> HostSetup           the bastion under setup, join windows, cleanup
Downloads                                           tools and images
HostISOs                                            ISOs on the Proxmox host
ConfigRules --> Credentials, ClusterPlan, ReleaseCatalog --> Configure      configuration and its forms
            \   all of them   /
               Services                             one works at a time, fairness, properties
              /        \
     MCServices         Services_proofs  <--  Addons_proofs, UpdateIngress_proofs, Downloads_proofs
```

The terminal interface as a concurrent program:

```
WizardWorld      programs, steps, messages, sessions, configuration
   |
ExecFeed         the operation's goroutine, its bounded channel, the checklist
   |
WizardFrame      visits, navigation, swapping flows, discarding edits, the end of a program
   |
ManageFlow       choose, preview, confirm, execute a node operation
   |
HubSession       hub, deploy finish, building and handing over sessions, the exit report
   |
Wizard           keys, drift, fairness, properties
   |
Wizard_proofs
```

The systems do not share a state space. The run lock keeps any two mutating
commands apart (`TerraformSessions` models the lock and what escapes it: a child
that outlives its parent), and what one could see of another's leftovers is covered
by the initial states: a cluster with whatever marker an older release left, a
work directory with any mixture of old files, a torn state, a live cluster under a
destroy. `Services` composes parts that decide on none of each other's state: the
variable `focus` lets one work and holds the others still, so their spaces add
up instead of multiplying.

### Node operations: state and its counterpart

| Variable | In the program |
|---|---|
| `marker` | the op marker file: operation, target, step, intent (`node/opstate.go`, `node/intent.go`) |
| `config`, `tfvars` | `okdctl.yaml` topology and sizing, and the rendered `terraform.tfvars` (`persistTopology`) |
| `vm` | Terraform state together with the VM configuration in Proxmox: what a targeted plan compares with |
| `guest` | power, and the sizes the machine actually runs with; memory changes at power-on, disk after growth |
| `registered`, `ready`, `cordoned` | node objects as `ListNodes` reports them |
| `drained` | pods were evicted and not let back: reset on uncordon |
| `iso`, `ignition` | each worker's boot ISO (none, built, uploaded), and whether the join window is open |
| `run` | the process: operation, intent, what it resumes, current target, stage, and the marker it started from |
| `faults` | failures and kills so far |

One action stands for one durable effect together with the checks before it.
`Mark` writes the marker for the step about to run; `Pass` moves on where a
resumed run skips a step at or before the recorded one (`shouldRunStep`).
`GiveUp` is an operation returning an error because a gate, a wait or a guard
can never be satisfied; `Fail` is any call returning an error; `Crash` is the
process dying. Only `Crash` skips what the code defers (the ignition teardown);
`Fail` and `GiveUp` run it. `Boot` and `ReportStatus` are the environment.

Choices of abstraction, all visible in the modules:

* CPU and memory are one size: every rule treats them alike.
* Dry runs, plan previews and declined prompts change nothing and are
  stuttering. Capacity, storage, ingress and HA warnings refuse before the first
  effect; they only remove behaviours.
* The etcd gate is `ApiUp` and every master reported Ready. The ceph gate has no
  state here; its failure is `Fail`.
* Status lag is a constant: with `PromptStatus = FALSE` the API keeps reporting
  a stopped node Ready until a `ReportStatus` step. A gate that counts such a node
  (`Count`) puts it into the history variable `misled`, where it stays until it is up.
* Markers of releases that recorded no intent are possible initial states.
* Stop and start consume the marker before the node list, the host lookup and
  the prompt, as the code does.
* Guests do not fail by themselves; the properties are about what the tool does.
* One process at a time: `runlock.Acquire` holds an flock for the whole of every
  mutating command.

### Deploy, destroy and cleanup: state and its counterpart

| Variable | In the program |
|---|---|
| `marker` | the phase marker `.okdctl-deploy-state.json` (`deploy/state.go`); a marker that cannot be removed may say `completed` |
| `workDir`, `creds` | the work directory, and the identity in its `cluster-config`: CA, kubeconfig, ignition files |
| `served` | identity of the ignition files in the web root |
| `tfvars`, `sentinel`, `override` | `terraform.tfvars`, the bootstrap sentinel `bootstrap-state.auto.tfvars.json`, the destroy override `.tf` file |
| `state` | whether `terraform.tfstate` can be read |
| `vms`, `built`, `workerOn` | the VMs that exist, the identity each installed itself from, the workers' power |
| `cluster` | bootstrap handed over, VIP held by the masters, workers joined |
| `access` | the cluster that `~/.kube/config` opens, perhaps somebody else's |
| `run` | verb and stage of the process, and what it remembers: the VIP was verified, terraform failed, a step failed |
| `faults` | failures and kills so far |

Every command is a walk through `run.stage`, one action per step of the phase's
step list. A step whose check says that it is already done, or whose skip
condition holds, is the part of the action that changes nothing but the stage.
`Apply` and `DestroyVM` create and remove one VM at a time, so that a failure or
a kill finds a part of them. `DeployFails` ends a deploy at a fatal step;
`DeployWarns`, `ClearFails` and `CleanupFails` are the steps the code only logs;
`TerraformFailed` is destroy's *remember and go on*. `DeployGivesUp` is a
refusal, or a wait running out when nothing more can happen (`Settled`).

Choices of abstraction:

* An *identity* stands for everything `openshift-install` generates in one go
  and never again alike. What the properties tell apart is whether two places
  hold the same one. Seven identities are one more than the places that can
  hold one, so a fresh one always exists.
* One master and one worker stand for all: deploy and destroy treat each role as
  a whole, and node counts are the other system's subject.
* Packages, downloads, HAProxy, DNS, firewall, ISOs, operator waits and addons
  are left out of these step lists: they change none of this state. They can fail,
  and a deploy failing there is `DeployFails` at the neighbouring step. Their own
  state is the subject of the services below.
* A kill while terraform works may tear the state file; an operator restores a
  backup (`RestoreState`), which lists the VMs that exist.
* Under sudo the ambient kubeconfig may belong to another user, so whether
  `setup-access` reaches it is a constant, and so is what it opens at first.

### Terraform driver: state and its counterpart

| Variable | In the program |
|---|---|
| `lock` | the flock of `runlock`, which a dead process loses |
| `proc` | each okdctl process: command, step, what it deferred, its verdict |
| `tfstate`, `snaps` | `terraform.tfstate` (the VMs it records, missing, or torn) and the rotating `.bak` copies |
| `vms` | the VMs that exist |
| `plans`, `override`, `sentinel` | saved plan files, the `prevent_destroy` override, `bootstrap-state.auto.tfvars.json` |
| `child`, `pipe` | the terraform process that applies, which may outlive its parent; captured output |
| `backed`, `tries` | history: the content when it was last backed up, and how often a torn file was copied since |
| `overrun` | history: a terraform without its parent has written since that backup |

A command is a list of steps, one action each; `ChildCreates` and `ChildDeletes`
change one VM at a time, so that a failure, a signal or a kill leaves a part.
Captured output is counted, not read: what matters is whether it was cut off at
the limit. The masters' guard is whether the override lies in the module while a
child applies. `Restore` and `RemoveStaleOverride` are the operator following
what the error message says.

### Services: state and its counterpart

| Module | Variables | In the program |
|---|---|---|
| `Addons` | `ns`, `applied`, `job`, `attempts` | namespaces by owner label, applied pieces, the command and what it may have to undo (`addon/manager.go`) |
| `UpdateIngress` | `ics`, `backup`, `dnsmasq`, `haproxy`, `ingress` | controllers, their originals on disk, where names point, the command (`postinstall/update_ingress.go`) |
| `InstallMonitor` | `pending`, `granted`, `joined`, `installer`, `monitor` | requests, nodes, the `openshift-install` child, the loop beside it |
| `Bastion`, `BastionServices` | `want`, `tools`, `dir`, `iso`, `fp`, `remote`, `cert`, `httpd`, `web`, `conf`, `resolver` | the bastion's files with their fingerprints and sentinels, and what the services actually loaded |
| `HostSetup` | `step` | setup, join window and cleanup as step lists with fatal and non-fatal steps |
| `Downloads` | `work`, `installed`, `sentinel`, `extra`, `load` | the download directory, binaries, version sentinel, tools on PATH, the command |
| `HostISOs` | `isos`, `on`, `erase` | ISO storage of the Proxmox host, running VMs, the removal |
| `Configure` | `file`, `login`, `cfg`, `screen`, `forms`, `place`, `catalog` | `okdctl.yaml`, `.env` and shell, configuration in memory, the wizard's steps and what their fields show |

Choices of abstraction:

* A cache entry, file or certificate is identified by what it was made from. The
  properties compare it with what is wanted now; what is in it does not matter.
  A configuration edited back to an earlier value counts as new (see section 3).
* A piece of an addon, a CSR or a controller is reduced to what the rules tell
  apart: its owner, who asked for what in whose name, where it is.
* ISOs are known by name alone, which is all the program has: custom names carry
  no cluster prefix. Only running VMs of the configured node are asked; an answer
  that cannot be had or read keeps the ISO; what `rm` answers is not looked at.
* A file of the download directory is absent, cut short, somebody else's, the
  pinned one, or of a release. Releases only move forward. `kubectl` comes with `oc`.
* A text is left out, malformed, well formed but pointing nowhere, or good; an
  address is a number. Every validator is the set of the fields it reports, so
  that a gate, a form and a file are judged by the same operators as in the code.
  Switches no rule looks at (NUMA, HA, TLS verification) are left out.
* A login is an endpoint, a user with password, and a token. An empty variable
  counts as unset. `typed` is history: what the form was given, recorded only
  where nothing else could win.
* The screens are modelled by the fields they sync and when. Moving the cursor over
  several rows is one step; answers to a visit that was left are dropped.
* The releases' labels (latest stable, latest preview, series) are operators;
  `ASSUME CatalogLabels` in `MCServices` has TLC check them over every subset of
  five releases.

### Wizard: state and its counterpart

| Variable | In the program |
|---|---|
| `program`, `ui` | which command owns the terminal; `wizard.Model`: flow, step, visit, the discard question, how it ended |
| `msgs` | commands at work and messages on their way to `Update` |
| `conf` | the configuration in memory, as opened, on disk, as deployed |
| `st`, `consent` | `lifecycle.State`; history: what the operator agreed to in this pass through the preview |
| `session`, `slot` | manage sessions built so far; `lifecycleSlot`, the one the CLI reports on and closes |
| `dep`, `eng`, `feed`, `listener`, `rows` | an execution: its state, its goroutine with the steps that failed, the bounded channel, the command that waits on it, the checklist |
| `world` | a version of the nodes a plan names, and one of what it only warns about |

Each key, message and goroutine step is one action. The messages of a visit that
was left are dropped when the visit ends; a session that is being built survives
its visit, since handing it to the slot has an effect. `workers.Wait` and the CLI's
exit are one step, guarded by the workers having ended. Keys that were pressed
before the quit message arrives are still processed, as in the code, and so is a verb of
the finish screen pressed again while the first press is at work. A deploy may be refused
before its first step and between two of them (`StopsBetween`: the run lock, the
configuration, the guard of setup, the marker of a phase), with no row that tells of it,
and goes on after a failed step that is not fatal. `PlansEquivalent` compares what the
code compares: a plan made anew may warn of other data disks or ingress pods.

### Bounds

| Bound | What it limits | Why it is enough |
|---|---|---|
| `MaxFaults` (both cluster systems, Terraform) | failures, kills, unremovable markers, together | two let a run be interrupted, resumed or overridden, and interrupted again, which is how one run's marker comes to vouch for another; where commands themselves build the long histories one is enough |
| `AddonFaults`, `IngressFaults`, `MonitorFaults`, `HostFaults`, `DownloadFaults` | the same for one service each | one leaves a command half-way and, with its repetition, meets its own leftovers; a conversion and a download need three to fail, fail to undo, and fail again |
| `MaxWorkers`, `MasterCount` | the topology | three masters are the least with an etcd majority that differs from all; three workers let a batch of two be added above an existing one |
| `Verbs`, `Acks`, the request sets, `Commands` | the operator's choices | two sizes make a resize asked for or not; every verb occurs |
| `Identity` (1 to 7) | identities | one more than the places that hold one, so a fresh one always exists: no restriction |
| `Retain`, `Limit`, `PipeRoom`, `Outputs` | copies kept, bytes captured | pruning happens with two, output is cut off or fits, and the pipe fills |
| `Edits`, `Newest` | changes of the bastion's inputs, releases | a cache entry can be of this input or of the last |
| `Machines`, `MaxTurns` | VMs on the host and their power changes | a VM starts, or stops, between being listed and its ISO's removal |
| `Projects`, `Entries`, `MaxEdits`, `MaxSessions` of `Configure` | files found, what may be typed, edits, wizards opened | one session of two edits, over an absent, a placed and a small project with each kind of `.env` and shell, then any `deploy --yes`; typing the login does not count |
| `perPage`, `maxPages`, `Releases` | the catalog | a full page, a last one and a failing one |
| `MaxSessions` of `Wizard`, `MaxWorld`, `Gates`, `Capacity` | sessions, drift, rows, the feed | two sessions are swapped; one drift makes a plan stale; a feed of two fills |

`Drafts`, `Asks`, `Ops`, `Markers` and `Programs` are what the wizard's operator
chooses from, `HubAsks` and `HubOps` what is left of it in a flow that the hub opened,
where the keys of the other flows come on top. Counters that are not named here do not exist.

## 3. Runs

| Run | Instance | Question |
|---|---|---|
| `Masters` | 3 masters, 1 worker; resize, stop, start; status lag, 2 faults | do retries of a drained master roll end with every master resized, are the others kept up, and does a start bring a majority up? |
| `Pool` | 1 master, 1 to 3 workers, add 1 or 2, remove, resize both sizes, status lag, legacy markers, 2 faults | do retries end, do the work once and leave topology, VMs and nodes in agreement? |
| `Mixed` | 1 master, 1 to 2 workers, all five operations, overrides, 2 faults | does what one operation leaves mislead the next? |
| `DeployRetries` | from nothing, deploy repeated, 2 faults | one identity from ignition to kubeconfig, no bootstrap VM wanted again, and does the deploy end up running? |
| `Commands` | from nothing, all six commands in any order, 1 fault, both ambient kubeconfigs | is a live identity kept, the fallback API kept, a successful destroy complete, and do destroys end? |
| `Terraform` | seven commands, two processes, 1 fault | does every apply start on what was backed up, is the guard on, does a node operation change its target only, and does every command end? |
| `Services` | the services one at a time, see Bounds | are caches never trusted when stale, deletions recoverable, foreign things spared, reviewed configurations deployed, and do commands end? |
| `Wizard` | hub and manage programs, resize and remove, two sessions, a crash | is only the accepted plan executed, every session closed, the outcome told, and does it end? |
| `AckedResize`, `ResumedInstall`, `FirstSetup`, `EditedDeploy` | | violations, see below |

`DeployRetries` gives `setup-access` no way to reach `~/.kube/config`: where it
does, `CompletedRuns` fails, which is the run `ResumedInstall`. `Commands` starts
without a cluster: a deploy followed by anything else is a live cluster.

Deadlock is checked in the deployment's and Terraform's runs: a command can
always be issued again. It is not where the system may really stop: a node
system with nothing left to resize, add or remove, a service that has done what
was asked, a terminal program that has exited.

`ImplementsConversion` is a refinement: the ingress command, with its failures,
kills and repetitions, implements `Conversion`, in which a controller is taken away
with its original kept and put back from it, and HAProxy retires for good once no
controller is on the host network. The mapping reads a controller that is going
or gone as *away* while its backup is on disk, and as *lost* without it, which
`Conversion` allows only of a controller whose deletion a later run found under way
(`Overtake`, `LoseOrFind`). `BacksUpFirst` is the refinement of `StateStore` by the
Terraform driver: an apply starts only on the content that was copied last, and that
copy is kept while it runs; while the file is torn the copied content can be restored
unless `Retain` later attempts have each pushed a copy of the torn file. One thing the
driver cannot see: a terraform whose parent was killed may write between the snapshot and
the apply of the next command, which then starts on a content that nobody copied. That is
`overrun`, a history of such writes, and nothing else excuses an apply.

### Disagreements that the runs show

* `AckedResize`: one master's resize is applied but the process dies before its
  power-cycle; a second resize overrides it elsewhere; resuming that one probes
  the first master with a plan, finds nothing to change and skips it. The resize
  reports success over a guest that still runs the old size (`node/resize.go:384`).
* `ResumedInstall`: the install is interrupted after `setup-access`; its resume
  applies the whole plan, in which the workers are not started, so running
  workers are powered off; `start-workers` then finds them registered and skips.
  The deploy completes with the workers off (`distribution/okd/install/steps.go:42`).
* `FirstSetup`: after a cleanup the certificate is gone; httpd is configured to
  serve it before it is made and does not start, the step is not fatal, and the
  verification that makes the certificate then fails the setup. The second one
  succeeds (`distribution/okd/setup/steps.go:225`), against "setup regenerates the
  cert if missing" (`distribution/okd/cleanup/certs.go:13`).
* `EditedDeploy`: edits left in the configure flow by escaping to the hub are
  deployed by the hub's deploy verb, unsaved and unreviewed, against "deploy runs
  the configuration already on disk untouched" (`cli/deploy.go:208`, `215`).

### Disagreements met while modelling

No run is kept for these. Where constants reach one, they are named.

*Node operations*

* With drain skipped, `waitNodeReady` may pass on the status from before the
  stop, and the next master is stopped while the last one boots
  (`node/runner.go:458`); `start` may likewise end, and uncordon, on statuses from
  before the stop (`node/start.go:114`). `Masters` runs with this lag: `MastersSpared`
  and `PowerSettled` speak of a node as up *or* as one not up yet whose stale Ready a
  gate counted (`misled`), and without that exception TLC finds both broken.
* With one master, a kill between stop and start makes every retry fail at
  listing nodes (`node/resize.go:86`), against "Retry the same request to resume"
  (`docs/architecture/operation-recovery.md:3`): `RetryConverges` with a resize of
  the only master. Starting the VM by hand is the way out.
* `CompletedAddResidue` holds for no marker with an intent, so the sweep its
  comment describes only fires for markers of older releases (`node/opstate.go:141`).
* `start` powers on the persisted count but waits for every node the API lists
  (`node/start.go:38`): after an add killed between join and persist, then a
  stop, `StartCompletes` fails with `Verbs = {"add", "stop", "start"}` and `Acks`
  of both kinds.
* A single-node memory resize persists the role's sizing; a later disk-only resize
  of the role applies its siblings' pending memory without a power-cycle, and a
  resumed memory resize probes them clean and reports success over guests on the old
  memory (`node/resize.go:384`, against "never report success on an unrealized
  resize", `node/resize.go:446`). No override is needed: `ResizeRealized` with
  `Acks = {FALSE}`, two workers, and the requests memory of one, disk of all, memory
  of all, the last one interrupted.

*Deploy, destroy, cleanup*

* `start-workers` asks the ambient kubeconfig whether workers run
  (`distribution/okd/install/workers.go:57`): where it opens another cluster the
  workers are never started and the monitor runs out: `DeployConverges` with
  `AmbientAccess = {Foreign}`.
* A destroy killed in cleanup between the credentials and the work directory
  leaves a marker past setup that vouches for an identity that is gone; the
  next deploy resumes there and cannot finish until `--fresh` (`deploy/state.go:98`).
* Cleanup keeps `terraform.tfstate` "so destroy can still run", and removes the
  `terraform.tfvars` without which destroy's plan fails
  (`distribution/okd/cleanup/infra.go:50`); `DestroyConverges` therefore excludes it.
* A destroy killed in terraform leaves the `prevent_destroy` override; a repeated
  destroy that finds no VM returns before the `defer` that removes it
  (`distribution/okd/destroy/helpers.go:51`), and the next deploy refuses and names
  the file. `DestroyConverges` says nothing of `override`.
* `deploy --fresh` over live VMs wipes their identity by consent and applies over
  them without re-creating them; the deploy cannot complete until they are
  destroyed. `IdentityAgrees` is therefore stated without `fresh`.

*Terraform*

* A torn state is copied as the newest `.bak`; as many such retries as copies are
  kept (five) prune every good one (`infrastructure/terraform/terraform.go:442`).
  `StateStore` says so.
* `init` of a dry run or a plan preview runs without the backup; materializing the
  module stamps the manifest with embedded hashes for files it did not write; the
  answer "already destroyed" can race an orphaned terraform.

*Bastion, downloads, ISOs*

* An input edited from A to B and back while builds are cut short leaves an ISO or a
  tool of B accepted as A's; the model never reuses a value. The ISO fingerprint
  omits the pre-install script (`distribution/okd/provision/iso.go:192`).
* httpd is started, not reloaded, so a certificate made anew is not served by a
  running one. HAProxy's rollback restores the configuration from before okdctl,
  though `haproxy.go:94` says the previous one. dnsmasq killed between write and
  validation lets the next failing run restore a configuration that was never
  validated. Cleanup skips the resolver where the drop-in is gone, and otherwise sets
  DHCP rather than what was there.
* A pinned bootstrap archive that could not be removed sorts before the tarball of a
  later release; for an older release it would be unpacked last and overwrite `oc`.
  The version sentinel would claim an image that lacks a client tarball.
* A stopped VM of another cluster loses the ISO of the same name and then cannot
  start. VMs are listed for the configured node while files are on the SSH host. A
  VM started between the check and `rm` loses its ISO, against "skipping any still
  referenced by a running VM"; `SparesISOsInUse` speaks of VMs that keep running.
  An SSH exit of 255 reads as "nothing to remove".

*Ingress, addons, monitor*

* Repeated while a deletion is still under way, the restoration of orphaned backups
  drops the backup of a controller that is about to go
  (`postinstall/update_ingress.go:473`). The model repeats at any time; `overtaken` names
  the controllers whose deletion a run found under way until they are back, and
  `Recoverable` and `Conversion` promise nothing of those.
* HAProxy may retire while a controller is away that a later run puts back on the
  host network. Removing HAProxy closes port 443, which the join window of a later
  add needs and does not open.
* An onepassword addon with one of its two files always fails its verification; a
  skip that is called non-fatal is followed by a verification that fails; a failed
  re-install of a working addon removes it; uninstalling flux deletes its namespace
  whoever made it; a namespace made between inspection and creation is deleted by
  the rollback (`addon/manager.go:164`). `SparesForeign` excepts flux by name.

*Configuration*

* `.env` is read once per process: from the hub, manage nodes, then an edit and a
  deploy in the same process sign in with the old credentials. An edited host without
  a retyped password is overridden by the endpoint of the old `.env`.
* The gate before a deploy omits rules the forms enforce (resource minima, an odd
  number of masters, files), against "a hand-edited config is rejected here"
  (`cli/deploy.go:383`), and accepts what the module's variables refuse.
  `reviewCheck.failed` "blocks deploy" and is never consulted.
* Discovery that fails leaves the single default node to choose from, and confirming
  overwrites the saved placement; changing the host keeps the old inventory; a
  placement list with empty entries means another host in HCL than in Go; a hidden
  role's kept entries are written. A file that omits a disk size shows sizing drift
  for ever. `PlanAgrees` excepts the last.
* A blank among the Proxmox nodes of a placement in `okdctl.yaml` is accepted
  (`config/validators.go:588`), taken for the default node by okdctl
  (`nodetypes/placement.go:14`), and handed to Terraform as a node without a name
  (`modules/proxmox-okd/main.tf:132`). The files of the runs have such blanks:
  `PlacedAsChosen` and `PlanAgrees` speak of the machines that a node is given for.
* `r` is said to force a refresh of the versions, and the answer comes from the
  hour's cache; a page that failed is cached as the end; labels and series ignore the
  major version.

*Wizard*

* When the hub's renderer fails, "wizard failed" is reported and the outcome of the
  day-two operation is not, against "never silently swallowed"
  (`cli/wizard_setup.go:42`): the exception in `TruthfulOutcome`. A gate of a node
  operation that fails has already reported that it is done, so it is drawn as passed
  and the failure names no gate (`tui/wizard/lifecycle/failure.go:90`).
* A verb of the finish screen pressed twice builds two sessions. The later one closes the
  earlier, whose flow may stay on screen, and an operation that was started there is not
  the one the process reports on: `Superseded` in `SessionsClosed` and `TruthfulOutcome`.
* The plan is not asked for again when only its warnings changed: `PlansEquivalent`
  compares neither OSDs nor ingress pods (`tui/wizard/lifecycle/plancheck.go:12`), though
  the preview says that a data disk is destroyed (`tui/wizard/lifecycle/preview.go:282`).
  And `ConfirmFunc` does not cross-check an operation that is taken up where it stopped,
  against `cli/node_manage.go:227`. `ConsentedPlan` speaks of the request, and of the
  nodes of an operation that is not resumed.
* A deploy that is refused before its first step or between phases
  (`deploy/deploy.go:111`, `115`, `278`, `289`, `333`, `382`) ends as failed with no row
  that failed, and one that goes on after a step that is not fatal succeeds with a failed
  row: a failed row is no sign of how the deploy ended, and `TruthfulOutcome` says only
  that the failed rows are the steps that failed.
* With a full feed and a cancelled operation the last event is given up, and the
  deploy screen waits for it without an end: excluded in `Concludes` by `GivenUp`.
* A key between the completing message and quit can turn the hub's verb into an edit
  that deploys without a review. Manage nodes after unsaved edits saves the whole
  edited configuration with the topology (`node/runner.go:227`). Shutting down stops
  the steps of the flow on screen, not of a suspended one.

### Fairness

*Node operations*: weak fairness of the process's own steps (`Proceed`: a
single-threaded command runs until it returns), of each guest's boot and each
status report (`Boot`, `ReportStatus`: the premise of every wait with a timeout in
the code; a wait that times out is a `GiveUp` or a `Fail`), and of `Begin` (an
operator repeats the request).

*Deployment*: weak fairness of `Proceed`, of each VM's installation (`Boot`), of
the bootstrap hand-over, the VIP and the workers' join (`ControlPlaneUp`, `VipUp`,
`Join`), and of `BeginCommand`. Strong fairness of `RestoreState`: it is possible
only between two commands, and an operator who keeps retrying restores the torn
state file sooner or later; deploy and destroy both refuse to touch VMs while it
cannot be read.

*Terraform*: weak fairness of each process (`Works`) and of the child as a whole
(`Child`: it makes progress, writes or fails; nothing says it succeeds).

*Services*: weak fairness of the steps of the part that works (`OwnSteps`: a
command returns from each call, with an answer or an error; the screens' commands
answer). Around the monitor, that expected nodes ask again while unanswered, that
the installer ends, and strong fairness of the loop's noticing it, since a `select`
between a tick and the end may pick the tick, though not for ever; around the ingress, that a deletion is over in
the end.

*Wizard*: weak fairness of `Works` alone: the operation's goroutine, the feed, the
building of a session and the exit go on. Keys, messages of previews and crashes
are not fair; no property needs a key to be pressed.

Failures and kills have no fairness and are bounded: liveness says that once
nothing goes wrong any more, things end.

## 4. Proofs

The eight proof modules hold for every value of the constants that the named
assumptions of the modules allow (`ClusterAssumption`, `ResizeAssumption`,
`DeployAssumption`, `DriverAssumption`, ...); TLC evaluates those on every run. Where a
theorem needs more it says so as a hypothesis on the constants, and the run named
beside it is an instance that satisfies it. No theorem uses fairness. Every
invariant below was model-checked on the instances of section 3 before it was proved.

| Theorem | States | Beyond the modules' assumptions |
|---|---|---|
| `TypeCorrect` | `TypeOK` | |
| `LeavesCordoned` | `LeftCordoned` | |
| `DrainsFirst` | `DrainedBeforeDisruption` | |
| `StopAndStartSettle` | `PowerSettled` | |
| `SparesMasters` | `MastersSpared` | |
| `NothingIsLeft` | `NothingLeftBehind` | `Unforced` (`Pool`) |
| `AddsExactly` | `AddedExactly` | `Unforced` (`Pool`) |
| `ResizesLand` | `ResizeRealized` | `Unforced`, `RoleWise` (`Pool`) |
| `DeployTypeCorrect` | `TypeOK` | |
| `DestroyComplete` | `SuccessMeansGone` | |
| `KeepsIdentity` | `IdentityPreserved` | |
| `KeepsFallback` | `ApiFallback` | |
| `GuestsAgree` | `IdentityAgrees` | no `fresh` |
| `BootstrapNeverWantedBack` | `BootstrapStaysGone` | `Verbs \subseteq KeepsVMs` |
| `CompletionMeansUp` | `CompletedReached`, and `CompletedRuns` while `access = 0` | the same |
| `WellTyped` | `TypeOK` | |
| `OverrideNeverLeaks` | `GuardHolds` | |
| `OnlyTheGatedChange` | `AppliesAsGated` | |
| `StateIsAStore` | `BacksUpFirst` | |
| `ForeignNamespacesStay` | the namespaces of `ForeignKept` | |
| `FailuresAreUndone` | `NoDebris` | |
| `NeverLost` | `Recoverable` | |
| `ConversionImplemented` | `ImplementsConversion` | |
| `OnlyTheRelease` | `BuildsFromRelease` | |
| `NobodyElseJoins` | `OnlyExpected` | |
| `ServicesKeepForeign` | `ForeignKept` | |
| `Services...` | four of the above, for `ServicesSpec` | |
| `SetupsServe` | `SetupServes` | |
| `ISOsAreCurrent` | `IsoCurrent` | |
| `ServicesTyped` | `ServicesTypeOK` | |
| `DeploysWhatWasReviewed` | `DeploysAsReviewed` | |
| `WizardTyped` | `WizardTypeOK` | |
| `ConsentGiven` | `ConsentedPlan` | |
| `EverySessionCloses` | `SessionsClosed` | |
| `OutcomesAreTrue` | `TruthfulOutcome` | |

### Node operations

`NodeLifecycle_proofs` proves about every number of masters, workers and faults
and every set of sizes and requests. It has five invariants, each on top of the
ones it needs.

`IInv` gives `TypeCorrect`, `LeavesCordoned` and `DrainsFirst`. `LeftCordoned` is
not inductive. A resumed run does not look at the marker file again: it trusts
the marker it read, and writes new markers on the strength of it, after the file
has moved on to other nodes. `IInv` carries the promise along this chain: the
marker on disk holds its node (`LeftCordoned`); a run that resumes from such a
marker holds the marker's node until it has passed it (`HeldForResume`); and a
run past its own cordon and drain holds its current target (`HeldNow`). With that
go the shapes that tie these together: which stages a run of each operation can be
in and which target it then has (`ResizeShape`, `AddShape`, `RemoveShape`), that a
marker names a node of its intent's scope at a step of its operation
(`MarkerShape`, `FromShape`), and that a run which has not yet marked a node has
not left the marker it started from (`MarkedShape`, `StartMarked`,
`TargetTaken`). `DrainsFirst` then follows step by step: the two actions that stop
or delete a worker's machine need the target cordoned and drained, which `HeldNow`
gives.

`Settles` gives `StopAndStartSettle`. A start reads what the API reports, which may be
from before the stop, so its success means that every node it counted is up or on the
record of those it miscounted (`UpOrMisled`), and that it switched on every node of the
topology (`SwitchedOn`). That needs that nothing starts or creates anew a guest that is
up already (`Known`, `Powered`), and that what is registered or cordoned between the
recorded shutdown and the start is accounted for (`Cordons`, `AddMarked`). Nothing is
assumed of how soon a report is withdrawn.

`Spares` gives `SparesMasters`. The gate that finds the other masters up before a
power-cycle is skipped by a run that resumes at the power-cycle, so the marker has
to carry what the gate found: while a power-cycle of a master is recorded every other
master is up or misled about, which a step ends only by the node being up
(`MisleadsStep`), and a run that resumes it takes the promise over, breaks it for the
masters it rolls before that one, and restores it at the gate after each.

`AllTold` gives `NothingIsLeft` and `AddsExactly`: everything unfinished is told by
the marker. `Unforced` leaves out `--acknowledge-interrupted-op` and the shutdown of the
cluster; then only the recorded operation runs and takes up what was recorded
(`Sole`). What each operation may have left half done is stated of the marker
(`AddOpen`, `RemoveOpen`, `ResizeOpen`), what a run has done so far of the run
(`AddRun`, `RemoveRun`, `ResizeRun`), and with nothing recorded the VMs, the nodes,
`okdctl.yaml` and `tfvars` agree (`Quiet`). A marker is cleared only where the marker's
part and the run's part together say that nothing is left. The hypothesis is what the
code promises: an override is the operator's word that what was recorded is dealt with.

`AllSized` gives `ResizesLand`. A probe, and the gate of the next apply, compare what
terraform has with what is asked for, and neither sees what the guest runs with. So a
guest that lags behind its VM has to be the marker's target, at a step whose resume makes
it follow (`StaleOpen`), and ahead of a run that resumes there (`StaleRun`). That an apply
leaves nobody else behind needs that what the request does not name is the same in
`okdctl.yaml`, in `tfvars` and on the VMs (`SizesKept`), and this is where single-node
resizes break it: they save the role's memory for nodes that do not have it. `RoleWise`
says that a role whose disks are ever grown on their own is never resized node by node;
without it the disagreement of section 3 is a counterexample. `Masters` checks the same
invariant with stops and starts among the resizes, which `Unforced` leaves out.

### Deploy, destroy and cleanup

`Deployment_proofs` proves about every set of commands, every number of faults and
both starting points. The first four theorems rest on `IInv`, which says what a
process knows at each point of its walk and why it is still true when it acts on it:

* `Stages`: which verbs can be at which stage (no deploy destroys VMs, no destroy
  sets up);
* `Housed`: credentials and marker live in the work directory;
* `Wiped`: past the guard of the wipe there is no VM, or the operator consented
  with `--fresh`; the guard is evaluated once and the removal comes steps later;
* `Verified`: a VIP that this process has verified still serves, since only a
  destroy takes it down;
* `Destroyed`: a destroy that has not failed so far has removed what the stages
  behind it stand for.

`KeepsIdentity` and `KeepsFallback` look at each step that changes the
credentials or removes the bootstrap VM and find the fact they need in `Wiped`
and `Verified`. `GuestsAgree` needs more, `AInv`: as long as a VM exists or may
be created by a resumed install, what is served is nothing or the identity in
the work directory (`Serving`). An interrupted setup may leave another identity
in the web root, but then no VM can be made until `deploy-ignition` has compared
contents. The hypothesis on `fresh` is needed: see section 3.

The last two are about commands that leave the VMs alone (`KeepsVMs`: deploy,
cleanup, and the destroy that skips Terraform). `Handed` orders the sentinel, the
bootstrap VM and the variables: a bootstrap VM that is gone was removed under a
sentinel, and what would want it back is only rendered for a cluster without VMs. A
destroy removes the VMs one by one and may stop with the bootstrap VM gone and its
variables in place, which is what the hypothesis leaves out. `Reached`
says what a deploy has waited for by the stage it is at *or resumes at*, which is
what a completion after any number of interruptions relies on. That workers *run* is not
waited for anywhere: it is known where `start-workers` started them, which it skips on the
word of the ambient kubeconfig. So the theorem has two parts: whatever that opens, a deploy
that completes reached its own API with its workers joined (`CompletedReached`), and it has
them running (`CompletedRuns`) while the ambient kubeconfig opens no cluster. `DeployRetries`
checks `CompletedRuns` there; `ResumedInstall` shows it fail where it opens one.

### Terraform driver

`TerraformSessions_proofs` proves about every set of resources, contents and
commands and every number of faults and retained copies, with an orphaned
terraform beside the commands. Its invariant is `Typed` and

* `Session`: who runs holds the lock, and a child of a process is one that its
  step applies;
* `GuardHolds` itself;
* `Gated`: past its gate a node operation has a plan of exactly its one change on
  disk, and its child does at most that. The plan file is shared by all commands,
  but while the lock is held nobody else writes it, and a child left from a
  killed process does not;
* `Readable`: a state that was read stays readable to its reader;
* `Copied`: from its snapshot to its apply a command finds the state as it copied it, or
  an orphan has written (`Matched`);
* `Stored`: the newest copies are the tries at a torn state, and before them is
  the content that was backed up last, as long as the pruning keeps one for it.

The proof runs over the command's script: `Spot` says where in a command a step can
be, `Turn` and `Stay` summarize what a step does to the process that takes it and to
a child, and each of the conjuncts follows from these. `StateIsAStore` maps every step
to a step of `StateStore` or a stutter, on `Stored`, `Copied` and `Readable`.

### Services

Each service is proved about in its own module, over its own variables, and
`Services_proofs` lifts the results to `ServicesSpec`, where one service steps and the
others stutter. `ServicesTyped` gathers the invariants of all parts, since types alone do
not hold by induction: a list that is worked off is typed because what was filed is.

* `Addons_proofs`. An undo removes what the record of attempts says is this run's own,
  so `Labelled` says that nothing on record is somebody else's, and `Control` that the
  stage at hand has its attempt on record. `Accounted` is the promise of `NoDebris` in
  mid-run: where there was nothing, there is nothing, or an attempt on record takes it
  away, or it was installed and verified. `OneByOne` (an addon is on the list once, one
  that failed is not met again) is needed to keep the three apart, and makes the
  dependencies' acyclicity part of the type.
* `UpdateIngress_proofs`. `Recoverable` needs that what the command decides on is still
  there (`SeesTruly`), that who is under conversion is where its stage says, with its
  original on disk (`Converting`), and that nobody is on the way out unobserved
  (`Calm`). A run that finds a deletion of an earlier one under way takes the controller
  for one that is there; all four speak of the others (`InTime`).
  `ConversionImplemented` maps each step by whether it moves a controller.
* `Downloads_proofs`. The version file is the word of a setup that installed all tools
  of its release (`SentinelTells`), and is not to be had while one is under way
  (`Outdated`); what is unpacked and installed in which order is in `Unpacking` and
  `Installing`, and the image built from is the one asked for by the installer that is
  installed (`ImageAsked`).
* `Services_proofs`. `NobodyElseJoins` follows from the list the approver works off
  being a subset of what the policy let pass; `ServicesKeepForeign` from what the
  removal of ISOs still has to look at being the cluster's own, with no machine that
  ran all along having it in its drive, of those already asked (`EraseInv`).

`Services_proofs` also holds the two that need most, because they are about a whole
history of commands:

* *The bastion* (`HostInv`, for `SetupsServe` and `ISOsAreCurrent`). At each place of
  its plan a command has what the steps before it made (`Behind`), and what the steps
  ahead replace may be anything. A fingerprint is honest: when one equals the inputs of
  now, the ISO beside it is whole and of now. That holds because inputs do not come
  back to an earlier value (the version numbers of `HostSetup` grow; the divergence of
  section 3 for an input edited back), and because a fingerprint is written after its
  ISO is. The attempt at the proof showed that in the model they did
  not: tools found at the beginning had release 90, which edits reach once `Edits` is 88,
  and the next setup would have kept them. They now have release 0 or 1, the configured
  release is 2, and edits begin at 3.
* *The configuration* (`Configuring` and `Reviewed`, for `DeploysWhatWasReviewed`). Of a
  deploy that is let through: the machines go where they were placed on the screen, the
  three places that name the bastion name one, it signs in with what was typed, and
  okdctl and Terraform give each machine one address, id and host. `Configuring` types
  what the screens hold and says who is on which screen with what under way; `Reviewed`
  follows the placement. A placement that was confirmed equals the configuration's, and
  the ways back (the hub, a jump from the review, a count that shrinks) either keep both
  or lose both. What was typed stays to be used until a file or a shell variable was
  read first. The last part is arithmetic: the gate's bounds and `CanListNodes` leave no
  address that leaves the range, no id given twice and no index outside a list
  (`PlanAgrees`). It is proved for any files, entries, hosts and releases, and any number
  of edits and wizards.

  The attempt showed two things. A password typed without a user signs nobody in: the
  deploy warns that it has no credentials and goes on (`cli/deploy.go:399`), so `Promise`
  asks for a user. And a blank among the nodes of a placement, which the validator lets
  pass (`config/validators.go:588`), is the default node for okdctl
  (`nodetypes/placement.go:14`) and a node without a name for Terraform
  (`master_target_nodes[count.index]`,
  `modules/proxmox-okd/main.tf:132` and `282`). No screen makes one;
  a file written by hand may. The theorem is about such files too: what it says of hosts is
  said of the machines that a node is given for.

### Wizard

`Wizard_proofs` proves about any number of sessions, gates, drafts and places in the
feed, with keys, slow answers, crashes and an operation that runs on beside them. Its
invariant grows with the theorems:

* `Well`, for `WizardTyped`: the types, and that a message belongs to the screen of
  the visit that asked for it (`Belongs`). Types alone do not hold by induction: a step
  without a preview would not know what to do with a dry run's answer. What a flow
  suspends, and where it can be resumed, is in `OnScreen`.
* `Agreed`, for `ConsentGiven`. Consent is given on a screen and used by a goroutine
  that starts two screens later. So at the preview nothing may be on its way that could
  replace the plan once keys act, and no two dry runs at once (`PlanRead`); at the
  confirmation the step completes only with the name typed (`NameTyped`); what the
  goroutine was handed is the plan agreed to, and it runs another only if the two are
  equivalent (`PlanExecuted`), while no step that asks anew can be reached
  (`OnlyExecuting`).
* `HandedOver`, for `EverySessionCloses`. The slot and the screen hold the same session
  (`SlotOpen`, `ScreenOpen`) because one handover is under way at a time (`OneHandover`,
  `FromWelcome`). On the finish screen nothing sees to that, and a verb pressed twice
  makes two: there the flow on screen may hold a session that a later one superseded
  (`Accounted`), and the slot's is still the one that is open.
* `Reported`, for the first half of `OutcomesAreTrue`: the execution the CLI asks about is
  the one that was started. At most one ever is (`OneStarted`), by the session in the
  slot, unless that was superseded (`OwnSession`), or by the program that streams a deploy
  (`OwnDeploy`), and its result is set only with its end (`AllProper`). `SaysTruly` then looks at each way the
  CLI ends.
* `Told`, for the second half: where the end of each step of a deploy is between the
  goroutine and the checklist. Every event tells what happened to its step (`Truthful`). A
  step that failed has its row, or its event is still in the feed or in the listener's hand
  (`Marked`), and so is the end of every step whose start is (`Queued`, `InHand`); behind
  the terminal event there is nothing. So a failed row is never painted over, and when the
  end is heard the feed is empty and every step has told (`Heard`). It holds as long as
  nobody cancels, which is what the property says.

### Only model-checked

* Liveness (`RetryConverges`, `StartCompletes`, `DeployConverges`,
  `DestroyConverges`, `CommandsEnd`, `ServiceCommandsEnd`, `MonitorConcludes`,
  `Concludes`): it rests on fairness and `ENABLED`, out of the prover's reach.

Every invariant and every action property of a passing run is the property of a theorem,
on the terms named in the table; of `CompletedRuns` the part that speaks of an ambient
kubeconfig that opens no cluster is proved, which are the terms of its run.

## 5. Plan

What is left, in order of what it is worth: the orchestrator as an abstract list of
steps that `Cleanup`, `Deploy` and `HostSetup` implement; the operations of the bastion that are still left out
(packages, firewall); the review's preflight.

## 6. Not modelled, and why

* HTTP and SSH as transports, Proxmox task polling: request and response over the
  network; a failed, lost or cut-off answer is a failure of the step that asks.
* Rendering and templates: text. The rendered variables appear as state where an
  operation depends on their order, and as a record where Go and HCL compute the
  same thing (`ClusterPlan`).
* Firewall rules and packages: idempotent edits of things nothing here reads back.
* The screens' layout, themes, log view and tables; the review's preflight, whose
  answer is not consulted; capacity, storage and HA warnings, which refuse before the
  first effect.
* The doctor and the cluster status: read-only.
* The catalog sources of post-install, kernel arguments, network interfaces of the
  host: single writes without a protocol.
* What guests and Kubernetes do on their own: only as far as the tool waits for it
  (`Boot`, `ReportStatus`, `ControlPlaneUp`, `VipUp`, `Join`, `NodeAsks`,
  `Terminated`). Nodes that fail by themselves are not in the model.
