---------------------------- MODULE WizardWorld ----------------------------
(***************************************************************************)
(* The state of the terminal user interface (internal/tui/wizard) and of   *)
(* the commands that open it (internal/cli): a program shows one flow of   *)
(* steps at a time, commands run beside the update loop and come back as   *)
(* messages, and an operation runs in a goroutine of its own that feeds    *)
(* the execution screen through a bounded channel.                         *)
(***************************************************************************)
EXTENDS Integers, Sequences, FiniteSets, SequencesExt

CONSTANTS
    Programs,     \* the commands that may be run: "hub" (deploy) and "manage"
    Ops,          \* the node operations the manage flow offers
    Asks,         \* the parameters an operation can be given
    HubOps, HubAsks,  \* bound: those chosen when the flow is opened from another
    Markers,      \* whether an interrupted operation may be recorded
    Drafts,       \* the contents the configuration can be edited to
    MaxSessions,  \* bound: manage sessions built by one process
    MaxWorld,     \* bound: times the cluster changes behind the operator's back
    Gates,        \* gates (or deploy steps) of an operation
    Capacity,     \* places in the event feed
    MayCrash      \* whether the renderer may fail

ASSUME WizardAssumption ==
    /\ Programs \subseteq {"hub", "manage"}
    /\ HubOps \subseteq Ops /\ HubAsks \subseteq Asks /\ Ops \subseteq {"resize", "add", "remove"}
    /\ Markers \subseteq BOOLEAN
    /\ 1 \in Asks                \* what an interrupted operation was asked for
    /\ 0 \in Drafts
    /\ {MaxSessions, Gates, Capacity} \subseteq Nat \ {0}
    /\ MaxWorld \in Nat
    /\ MayCrash \in BOOLEAN

VARIABLES
    program,   \* the command whose program owns the terminal
    ui,        \* wizard.Model, and how its program ended
    msgs,      \* commands at work and messages on their way to Update
    conf,      \* the configuration: in memory, as opened, on disk, as deployed
    st,        \* lifecycle.State of the manage flow on screen
    consent,   \* what the operator agreed to in this pass through the preview
    session,   \* the manage sessions built so far
    slot,      \* lifecycleSlot: the session the CLI will report on and close
    dep,       \* deployexec.State
    eng,       \* the goroutine that executes the operation
    feed,      \* its event channel
    listener,  \* the command that waits on the channel
    rows,      \* the checklist
    world      \* version of what a plan is computed from, and of what it warns about

operation == <<eng, feed, listener, rows>>
vars == <<program, ui, msgs, conf, st, consent, session, slot, dep, operation, world>>

None == "none"
Session == 1..MaxSessions
Gate == 1..Gates

-----------------------------------------------------------------------------
(* Flows and steps *)

StepsOf(flow) ==
    CASE flow = "configure" -> <<"welcome", "basics", "advanced", "review">>
      [] flow = "manage" -> <<"op", "target", "params", "preview", "confirm", "exec", "done">>
      [] flow = "deploy" -> <<"stream", "finish">>
Flow == {"configure", "manage", "deploy"}
StepId == UNION {Range(StepsOf(f)) : f \in Flow}
ConfigureStep == {"basics", "advanced", "review"}
ExecStep == {"exec", "stream"}
Place(flow, step) == CHOOSE i \in DOMAIN StepsOf(flow) : StepsOf(flow)[i] = step

Verb == {"deploy", "edit", "manage", "handoff"}
NoPlace == [flow |-> None, step |-> None]
Ui == [flow : Flow, step : StepId, suspended : {NoPlace} \cup [flow : Flow, step : StepId],
       toReview : BOOLEAN, asked : BOOLEAN, opening : BOOLEAN, interrupted : BOOLEAN,
       settling : BOOLEAN, verb : Verb \cup {None}, live : 0..MaxSessions, phase : {"running", "closing", "exited"},
       quit : BOOLEAN, crashed : BOOLEAN, outcome : {"unset", "completed", "cancelled"},
       choice : {"deploy", "exit"}, action : {"deploy", "exit"}, exitStep : StepId \cup {None},
       exit : {None, "ok", "nothing", "saved", "handoff", "failed", "interrupted", "declined"}]

Opened(flow) ==
    [flow |-> flow, step |-> StepsOf(flow)[1], suspended |-> NoPlace, toReview |-> FALSE,
     asked |-> FALSE, opening |-> FALSE, interrupted |-> FALSE, settling |-> FALSE,
     verb |-> None, live |-> 0, phase |-> "running", quit |-> FALSE, crashed |-> FALSE, outcome |-> "unset",
     choice |-> "exit", action |-> "exit", exitStep |-> None, exit |-> None]

-----------------------------------------------------------------------------
(* A node operation as it is asked for, planned and executed *)

Request == [op : Ops \cup {None}, target : {None, "role", "node"}, ask : Asks \cup {0}]
NoRequest == [op |-> None, target |-> None, ask |-> 0]
World == [nodes : 0..MaxWorld, warned : 0..MaxWorld]
AsOpened == [nodes |-> 0, warned |-> 0]
Plan == [req : Request, world : World]
NoPlan == [req |-> NoRequest, world |-> AsOpened]
Requested(s) == [op |-> s.op, target |-> s.target, ask |-> s.ask]

State == [marker : BOOLEAN, op : Ops \cup {None}, resume : BOOLEAN,
          target : {None, "role", "node"}, ask : Asks \cup {0},
          list : {None, "loading", "failed"} \cup Ops, phase : {"running", "failed", "done"},
          seen : BOOLEAN, plan : Plan, proceed : BOOLEAN, exitChosen : BOOLEAN]
FreshState(marker) ==
    [marker |-> marker, op |-> None, resume |-> FALSE, target |-> None, ask |-> 0,
     list |-> None, phase |-> "running", seen |-> FALSE, plan |-> NoPlan, proceed |-> FALSE,
     exitChosen |-> FALSE]

\* What is kept of it while no manage flow is on screen: nothing reads it.
Idle == FreshState(FALSE)
NoConsent == [plan |-> NoPlan, typed |-> FALSE]

Outcome == {None, "ok", "skipped", "failed", "cancelled", "declined"}
Executed == [started : BOOLEAN, executed : BOOLEAN, result : Outcome]
NotExecuted == [started |-> FALSE, executed |-> FALSE, result |-> None]
SessionState == [life : {None, "open", "closed"}, exe : Executed]

-----------------------------------------------------------------------------
(* Messages.  A visit's number is kept as whether it is still the current one. *)

Message == [kind : {"complete", "back", "jump", "list", "listed", "dryrun", "dryran",
                    "open", "openfailed", "swap"},
            step : StepId, fresh : BOOLEAN, req : Request, n : Nat, ok : BOOLEAN, world : World]
Msg(kind, step, req, n) ==
    [kind |-> kind, step |-> step, fresh |-> TRUE, req |-> req, n |-> n, ok |-> TRUE,
     world |-> AsOpened]
Signal(kind) == Msg(kind, ui.step, NoRequest, 0)

\* When a visit ends its context is cancelled and its messages will be dropped, so
\* the reads it left at work are of no consequence; a session being built is.
Stale(ms) == {[m EXCEPT !.fresh = FALSE] : m \in {w \in ms : w.kind = "open"}}
Answered(m) == IF m.fresh THEN {m} ELSE {}

Event == [kind : {"start", "done", "final"}, at : 0..Gates, out : Outcome]
Ev(kind, at, out) == [kind |-> kind, at |-> at, out |-> out]
NoEvent == Ev("start", 0, None)

Engine == [kind : {None, "manage", "deploy"}, id : 0..MaxSessions,
           stage : {"off", "plan", "start", "work", "stop", "final", "ended"},
           at : 0..Gates, out : Outcome, failed : SUBSET (0..Gates), cancel : BOOLEAN,
           req : Request, approved : Plan, plan : Plan, resumed : BOOLEAN]
NoEngine == [kind |-> None, id |-> 0, stage |-> "off", at |-> 0, out |-> None, failed |-> {},
             cancel |-> FALSE, req |-> NoRequest, approved |-> NoPlan, plan |-> NoPlan,
             resumed |-> FALSE]
RowStatus == {"pending", "running", "done", "skipped", "failed"}
NoRows == [g \in Gate |-> "pending"]

WizardTypeOK ==
    /\ program \in Programs \cup {"deploy"}
    /\ ui \in Ui
    /\ msgs \subseteq Message
    /\ conf \in [draft : Drafts, opened : Drafts, disk : Drafts, deployed : Drafts \cup {-1}]
    /\ st \in State
    /\ consent \in [plan : Plan, typed : BOOLEAN]
    /\ session \in [Session -> SessionState] /\ slot \in 0..MaxSessions
    /\ dep \in Executed
    /\ eng \in Engine
    /\ feed \in Seq(Event) /\ Len(feed) <= Capacity
    /\ listener \in [state : {"off", "waiting", "held"}, ev : Event]
    /\ rows \in [Gate -> RowStatus]
    /\ world \in World
=============================================================================
