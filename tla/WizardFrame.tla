---------------------------- MODULE WizardFrame ----------------------------
(***************************************************************************)
(* The shell every flow runs in (wizard.Model): one visit of one step at a *)
(* time, moves between steps, the flow swapped in over the hub, the        *)
(* question before edits are discarded, and the end of the program.  What  *)
(* a step does on arrival (Init) is part of the move that reaches it.      *)
(***************************************************************************)
EXTENDS ExecFeed

Running == ui.phase = "running"

-----------------------------------------------------------------------------
(* What a step's Init does to the shared state, and the commands it returns *)

\* PreviewStep.Init clears what an earlier pass left; TargetStep.Init fetches
\* the nodes unless it has a list.
Entered(step, s) ==
    CASE step = "preview" -> [s EXCEPT !.phase = "running", !.exitChosen = FALSE,
                                       !.seen = FALSE, !.proceed = FALSE, !.plan = NoPlan]
      [] step = "target" /\ s.list \in {None, "loading", "failed"} -> [s EXCEPT !.list = "loading"]
      [] step = "exec" -> [Idle EXCEPT !.proceed = TRUE]     \* the rest has been handed over
      [] OTHER -> s
Commands(step, s) ==
    CASE step = "preview" -> {Msg("dryrun", step, Requested(s), 0)}
      [] step = "target" /\ Entered(step, s).list = "loading" -> {Msg("list", step, Requested(s), 0)}
      [] OTHER -> {}

\* The execution step starts its goroutine and begins to listen.
EngineEntered(step, s) ==
    IF step = "exec"
    THEN /\ eng' = [Engaged("manage", ui.live) EXCEPT !.req = Requested(s), !.approved = s.plan]
         /\ listener' = Waiting /\ rows' = NoRows /\ feed' = <<>>
         /\ session' = [session EXCEPT ![ui.live].exe = Begun(@)]
    ELSE IF step = "finish"           \* the goroutine is over, its checklist gone
    THEN eng' = NoEngine /\ rows' = NoRows /\ UNCHANGED <<feed, listener, session>>
    ELSE UNCHANGED <<operation, session>>

\* focusStep: a new visit begins, which cancels the last one and outdates
\* whatever it left under way.
Arrive(target, s, rest) ==
    /\ ui' = target
    /\ st' = Entered(target.step, s)
    /\ msgs' = Stale(rest) \cup Commands(target.step, s)
    /\ consent' = IF target.step = "preview" THEN NoConsent ELSE consent
    /\ EngineEntered(target.step, s)
At1(step) == [ui EXCEPT !.step = step, !.choice = "exit", !.opening = @ /\ step # "welcome"]

-----------------------------------------------------------------------------
(* Moves *)

Shown(step, s) ==
    CASE step = "target" -> s.op \in {"resize", "remove"} /\ ~s.resume
      [] step = "params" -> ~s.resume
      [] step = "confirm" -> s.proceed /\ s.plan.req.op = "remove"
      [] step \in {"exec", "done"} -> s.proceed
      [] OTHER -> TRUE
Here == Place(ui.flow, ui.step)
Ahead(s) == {i \in Here + 1..Len(StepsOf(ui.flow)) : Shown(StepsOf(ui.flow)[i], s)}
Behind == {i \in 1..Here - 1 : Shown(StepsOf(ui.flow)[i], st)}

\* The welcome screen leaves for the CLI unless it opens the configure flow;
\* the preview when the operator chose to exit.
ExitsEarly == \/ ui.step = "welcome" /\ ui.verb # "edit"
              \/ ui.step = "preview" /\ st.exitChosen
Concluded == [ui EXCEPT !.quit = TRUE, !.outcome = "completed", !.exitStep = ui.step,
                        !.action = IF ui.step = "review" THEN ui.choice
                                   ELSE IF ui.step = "welcome" /\ ui.verb = "deploy" THEN "deploy" ELSE "exit"]
StayPut(rest) == msgs' = rest /\ UNCHANGED <<ui, st, consent, session, operation>>

\* goToNextStep: s is the state once the step has been applied.
GoToNextStep(s, rest) ==
    IF ExitsEarly \/ (~ui.toReview /\ Ahead(s) = {})
    THEN /\ ui' = Concluded /\ st' = s /\ msgs' = rest
         /\ UNCHANGED <<consent, session, operation>>
    ELSE IF ui.toReview
    THEN Arrive([At1("review") EXCEPT !.toReview = FALSE], s, rest)
    ELSE Arrive(At1(StepsOf(ui.flow)[Min(Ahead(s))]), s, rest)

GoToPreviousStep(rest) ==
    IF Here = 1 THEN StayPut(rest)
    ELSE IF ui.toReview THEN Arrive([At1("review") EXCEPT !.toReview = FALSE], st, rest)
    ELSE IF Behind = {} THEN StayPut(rest)
    ELSE Arrive(At1(StepsOf(ui.flow)[Max(Behind)]), st, rest)

JumpToStep(step, rest) == Arrive([At1(step) EXCEPT !.toReview = TRUE], st, rest)

\* SwapFlow takes a flow only when none is suspended.
SwapFlow(n, rest) ==
    IF ui.suspended # NoPlace THEN StayPut(rest)
    ELSE \E marker \in Markers :
            Arrive([ui EXCEPT !.flow = "manage", !.step = "op", !.toReview = FALSE, !.live = n,
                              !.interrupted = FALSE,
                              !.suspended = [flow |-> ui.flow, step |-> ui.step]],
                   FreshState(marker), rest)

RestoreFlow ==
    Arrive([ui EXCEPT !.flow = ui.suspended.flow, !.step = ui.suspended.step, !.live = 0,
                      !.toReview = FALSE, !.suspended = NoPlace, !.opening = FALSE], Idle, msgs)

-----------------------------------------------------------------------------
(* Keys the shell handles before the step sees them *)

\* ExecStep and StreamStep: the first ctrl+c cancels the operation.
InterceptsQuit == ui.step \in ExecStep /\ ~ui.interrupted /\ ~Settled
AsksBeforeDiscarding == ui.step \in ConfigureStep /\ conf.draft # conf.opened
Quitting == [ui EXCEPT !.quit = TRUE, !.outcome = "cancelled", !.asked = FALSE]

PressCtrlC ==
    /\ Running
    /\ \/ InterceptsQuit /\ ui' = [ui EXCEPT !.interrupted = TRUE] /\ eng' = [eng EXCEPT !.cancel = TRUE]
       \/ /\ ~InterceptsQuit /\ ~ui.asked /\ AsksBeforeDiscarding
          /\ ui' = [ui EXCEPT !.asked = TRUE] /\ UNCHANGED eng
       \/ ~InterceptsQuit /\ (ui.asked \/ ~AsksBeforeDiscarding) /\ ui' = Quitting /\ UNCHANGED eng
    /\ UNCHANGED <<program, msgs, conf, st, consent, session, slot, dep, feed, listener, rows, world>>

AnswerDiscard ==
    /\ Running /\ ui.asked
    /\ ui' \in {Quitting, [ui EXCEPT !.asked = FALSE]}
    /\ UNCHANGED <<program, msgs, conf, st, consent, session, slot, dep, operation, world>>

\* Screens that keep esc to themselves.
InterceptsBack == \/ ui.step \in ExecStep \cup {"done", "finish"}
                  \/ ui.step = "preview" /\ st.phase = "running"
PressEsc ==
    /\ Running /\ ~ui.asked /\ ~InterceptsBack
    /\ \/ Here > 1 /\ GoToPreviousStep(msgs)
       \/ Here = 1 /\ ui.suspended # NoPlace /\ RestoreFlow
    /\ UNCHANGED <<program, conf, slot, dep, world>>

-----------------------------------------------------------------------------
(* The end of the program *)

\* A command performed once the model is closing returns nothing; one that was
\* already at work is waited for.
Shutdown(last) ==
    /\ ui' = [last EXCEPT !.phase = "closing", !.interrupted = FALSE, !.settling = FALSE, !.quit = FALSE,
                          !.asked = FALSE, !.opening = FALSE, !.toReview = FALSE, !.suspended = NoPlace]
    /\ st' = Idle
    /\ msgs' = Stale(msgs)
    /\ eng' = IF ui.flow = "manage" /\ eng.kind = "manage" /\ eng.id = ui.live
              THEN [eng EXCEPT !.cancel = TRUE] ELSE eng
    /\ UNCHANGED <<program, conf, consent, session, slot, dep, feed, listener, rows, world>>

QuitArrives == Running /\ ui.quit /\ Shutdown(ui)
RendererFails ==
    MayCrash /\ Running /\ Shutdown([ui EXCEPT !.crashed = TRUE, !.outcome = "unset", !.exitStep = None])

NotStarted ==
    /\ ui.phase = "closing"
    /\ \E m \in msgs : msgs' = msgs \ {m}
    /\ UNCHANGED <<program, ui, conf, st, consent, session, slot, dep, operation, world>>

\* workers.Wait
WorkersDone == ui.phase = "closing" /\ msgs = {} /\ listener.state # "waiting"
=============================================================================
