----------------------------- MODULE ManageFlow -----------------------------
(***************************************************************************)
(* The cluster lifecycle flow (internal/tui/wizard/lifecycle): choose an   *)
(* operation and its target, preview the plan a dry run makes of it, type  *)
(* the cluster's name when data is destroyed, execute.                     *)
(***************************************************************************)
EXTENDS WizardFrame

Press(step) == Running /\ ui.step = step /\ ~ui.asked
Returns(msg) == /\ msgs' = msgs \cup {msg}
                /\ UNCHANGED <<program, ui, conf, session, slot, dep, operation, world>>

-----------------------------------------------------------------------------
(* Apply: what each step writes into the state when it is left forward *)

\* The choices the target step built when the list arrived, for the operation
\* chosen then: roles and nodes to resize, or the last worker to remove.
Offered(list) == CASE list = "resize" -> {"role", "node"} [] list = "remove" -> {"node"} [] OTHER -> {}

\* OpStep.Apply: a recorded operation is resumed with its own parameters and
\* target, any other choice forgets the scope and target of an earlier pass.
OpApplied(op, s) == [s EXCEPT !.op = op, !.resume = FALSE, !.target = None]
Resumed(op, target, s) == [s EXCEPT !.op = op, !.resume = TRUE, !.target = target, !.ask = 1]
Recorded(op) == IF Offered(op) = {} THEN {None} ELSE Offered(op)
OpsOffered == IF program = "manage" THEN Ops ELSE HubOps
OpChoices(s) ==
    UNION {{OpApplied(op, s)} \cup
           (IF s.marker THEN {Resumed(op, target, s) : target \in Recorded(op)} ELSE {}) : op \in OpsOffered}

Picked(op, choice) == IF op = "remove" /\ choice = "role" THEN None ELSE choice
TargetChoices(s) ==
    IF Offered(s.list) = {} THEN {s}
    ELSE {[s EXCEPT !.target = Picked(s.op, c)] : c \in Offered(s.list)}

ParamChoices(s) == {[s EXCEPT !.ask = a] : a \in IF program = "manage" THEN Asks ELSE HubAsks}

Applied1 ==
    CASE ui.step = "op" -> OpChoices(st)
      [] ui.step = "target" -> TargetChoices(st)
      [] ui.step = "params" -> ParamChoices(st)
      [] OTHER -> {st}

-----------------------------------------------------------------------------
(* Keys *)

\* Enter on the screens that complete at once.
PressEnter ==
    /\ \/ Press("op") \/ Press("params") \/ Press("done")
       \/ Press("target") /\ Offered(st.list) # {}
    /\ Returns(Signal("complete")) /\ UNCHANGED <<st, consent>>

PressRefresh ==
    /\ Press("target") /\ st.list \notin {None, "loading"}
    /\ st' = [st EXCEPT !.list = "loading"]
    /\ Returns(Msg("list", "target", Requested(st), 0)) /\ UNCHANGED consent

\* The plan was scrolled to its end (or fits): only then do keys act.
ReachBottom ==
    /\ Press("preview") /\ st.phase = "done" /\ ~st.seen
    /\ st' = [st EXCEPT !.seen = TRUE]
    /\ UNCHANGED <<program, ui, msgs, conf, consent, session, slot, dep, operation, world>>

PreviewKeys == Press("preview") /\ st.phase = "done" /\ st.seen
PressExecute ==
    /\ PreviewKeys
    /\ st' = [st EXCEPT !.proceed = TRUE]
    /\ consent' = [plan |-> st.plan, typed |-> FALSE]
    /\ Returns(Signal("complete"))
PressBackToParams == PreviewKeys /\ Returns(Signal("back")) /\ UNCHANGED <<st, consent>>
PressExit ==
    /\ PreviewKeys
    /\ st' = [st EXCEPT !.exitChosen = TRUE]
    /\ Returns(Signal("complete")) /\ UNCHANGED consent

\* ConfirmStep: enter does nothing until the typed name matches.
TypeName ==
    /\ Press("confirm")
    /\ consent' = [consent EXCEPT !.typed = TRUE]
    /\ Returns(Signal("complete")) /\ UNCHANGED st

ManageKeys == PressEnter \/ PressRefresh \/ ReachBottom \/ PressExecute \/ PressBackToParams
              \/ PressExit \/ TypeName

-----------------------------------------------------------------------------
(* Commands at work *)

Becomes(m, answer) ==
    /\ msgs' = (msgs \ {m}) \cup {answer}
    /\ UNCHANGED <<program, ui, conf, st, consent, session, slot, dep, operation, world>>
ListNodes ==
    \E m \in msgs : m.kind = "list" /\ \E ok \in BOOLEAN :
        Becomes(m, [m EXCEPT !.kind = "listed", !.ok = ok])

\* The dry run's guards refuse a removal without a worker and a resize without
\* a scope; they, terraform's gate or the API may refuse anything.
Plannable(req) == /\ req.op = "remove" => req.target = "node"
                  /\ req.op = "resize" => req.target # None
DryRun ==
    \E m \in msgs : m.kind = "dryrun" /\ \E ok \in {FALSE, Plannable(m.req)} :
        Becomes(m, [m EXCEPT !.kind = "dryran", !.ok = ok, !.world = world])

ManageWork == ListNodes \/ DryRun

-----------------------------------------------------------------------------
(* Their answers *)

Taken(m) ==
    /\ msgs' = msgs \ {m}
    /\ UNCHANGED <<program, ui, conf, consent, session, slot, dep, operation, world>>

NodesLoaded(m) ==
    /\ m.kind = "listed"
    /\ st' = [st EXCEPT !.list = IF m.ok THEN st.op ELSE "failed"]
    /\ Taken(m)

DryRunDone(m) ==
    /\ m.kind = "dryran"
    /\ st' = [st EXCEPT !.phase = IF m.ok THEN "done" ELSE "failed",
                        !.plan = IF m.ok THEN [req |-> m.req, world |-> m.world] ELSE NoPlan]
    /\ Taken(m)
=============================================================================
