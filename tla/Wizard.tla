------------------------------- MODULE Wizard -------------------------------
(***************************************************************************)
(* okdctl deploy's hub and okdctl node manage as processes: the operator's *)
(* keys, the commands and the operation that run beside them, the cluster  *)
(* that changes while a plan is read, and the process's exit.              *)
(***************************************************************************)
EXTENDS HubSession

WizardInit ==
    /\ program \in Programs
    /\ conf = [draft |-> 0, opened |-> 0, disk |-> 0, deployed |-> -1]
    /\ msgs = {} /\ world = AsOpened
    /\ consent = NoConsent
    /\ dep = NotExecuted /\ eng = NoEngine
    /\ feed = <<>> /\ listener = Off /\ rows = NoRows
    /\ LET open == program = "manage" IN
       /\ IF open THEN \E marker \in Markers : st = FreshState(marker) ELSE st = Idle
       /\ ui = IF open THEN [Opened("manage") EXCEPT !.live = 1] ELSE Opened("configure")
       /\ slot = IF open THEN 1 ELSE 0
       /\ session = [n \in Session |-> [life |-> IF open /\ n = 1 THEN "open" ELSE None,
                                        exe |-> NotExecuted]]

\* The cluster, its state files or its nodes change behind the operator's back
\* (bound: where the flow was opened by its own command).
Drift ==
    /\ Running /\ program = "manage" /\ world.nodes + world.warned < MaxWorld
    /\ eng.stage \in {"off", "plan"}        \* nothing compares plans later
    /\ world' \in {[world EXCEPT !.nodes = @ + 1], [world EXCEPT !.warned = @ + 1]}
    /\ UNCHANGED <<program, ui, msgs, conf, st, consent, session, slot, dep, operation>>

Keys == HubKeys \/ ManageKeys \/ PressCtrlC \/ AnswerDiscard \/ PressEsc
Works == EngineNext \/ FeedNext \/ OpenFlow \/ NotStarted \/ CliEnds
WizardNext == Keys \/ ManageWork \/ Deliver \/ Works \/ QuitArrives \/ RendererFails \/ Drift

\* The runtime goes on with what runs beside the keys.
WizardSpec == WizardInit /\ [][WizardNext]_vars /\ WF_vars(Works)

-----------------------------------------------------------------------------
(* Properties *)

\* What a node operation executes is what the operator read and accepted in this
\* very pass through the preview, on the very nodes, and a removal only once the
\* cluster's name was typed: going back, editing, resuming, a slow dry run of an
\* earlier visit or nodes that changed meanwhile never let another one through
\* (cli/node_manage.go executeLifecycleOp).  Two things are not asked again: what
\* the plan only warns about, which PlansEquivalent leaves out, and the nodes of
\* an operation that is taken up again.
ConsentedPlan ==
    (eng.kind = "manage" /\ eng.stage \in {"start", "work", "stop"}) =>
        /\ eng.plan.req = consent.plan.req
        /\ ~eng.resumed => eng.plan.world.nodes = consent.plan.world.nodes
        /\ eng.plan.req.op = "remove" => consent.typed

\* A manage session holds credentials and connections: only the one the CLI will
\* report on and close is open, it is the one on screen unless another was built
\* over that (a verb of the finish screen pressed twice), and when the process
\* ends none is, whatever was escaped, swapped, cancelled or crashed in between
\* (lifecycleSlot, cli/node_manage.go).
Superseded(n) == \E k \in Session : k > n /\ session[k].life # None
SessionsClosed ==
    LET open == {n \in Session : session[n].life = "open"} IN
    /\ open = IF slot = 0 THEN {} ELSE {slot}
    /\ (Running /\ ui.flow = "manage") => ui.live \in open \/ Superseded(ui.live)
    /\ ui.phase = "exited" => open = {}

\* What the process reports is what happened to the last operation it started:
\* an interruption when its end was never seen, success only when it succeeded
\* (reportLifecycleOutcome, reportDeployStreamOutcome).  And once a deploy nobody
\* cancelled is over, the failed rows of its checklist are the steps that failed,
\* and none is left open if it succeeded (deployexec applyEvent, finish).  Left
\* out are a hub whose renderer crashes, which reports that alone, and the
\* operation of a session that another one was built over: the CLI reports on
\* that other one.
LastStarted == IF eng.kind = "manage" THEN session[eng.id].exe ELSE dep
TruthfulOutcome ==
    LET exe == LastStarted IN
    /\ (/\ ui.phase = "exited" /\ ~(program = "hub" /\ ui.crashed)
        /\ ~(eng.kind = "manage" /\ Superseded(eng.id))) =>
          /\ (exe.started /\ ~exe.executed) => ui.exit = "interrupted"
          /\ (exe.executed /\ exe.result # "ok") => ui.exit \in {"failed", "interrupted"}
          /\ (ui.exit = "ok") <=> (exe.executed /\ exe.result = "ok" /\ ~ui.crashed)
    /\ (Running /\ eng.kind = "deploy" /\ dep.executed /\ ~eng.cancel) =>
          /\ {g \in Gate : rows[g] = "failed"} = eng.failed
          /\ dep.result = "ok" => \A g \in Gate : ~Open1(rows[g])

\* An operation's end reaches the screen that waits for it, unless the operator
\* leaves first or the end finds the feed full of a cancelled operation: either
\* alone, a cancel or a full feed, never loses it.  A program that is closing
\* lets go of the terminal whatever is still running, except that the deploy
\* screen waits for ever for an end that was given up (deployexec.go send,
\* stream.go listen, lifecycle/exec.go sendFinal, visit.go shutdown).
Cornered == eng.stage = "final" /\ Cancelled /\ Len(feed) = Capacity
GivenUp == eng.stage = "ended" /\ feed = <<>> /\ listener.state = "waiting"
Concludes ==
    /\ (eng.stage = "final" /\ ~Cornered) ~> (Settled \/ ~Running \/ Cornered)
    /\ (ui.phase = "closing" /\ ~GivenUp) ~> (ui.phase \in {"running", "exited"})

\* The hub's deploy verb runs the configuration on disk, and a reviewed one is
\* saved before it is deployed (cli/deploy.go runHubVerb: "deploy runs the
\* configuration already on disk untouched").
DeploysSaved == [][(program # "deploy" /\ program' = "deploy") => conf'.deployed = conf'.disk]_vars
=============================================================================
