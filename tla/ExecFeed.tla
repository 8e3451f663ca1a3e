------------------------------ MODULE ExecFeed ------------------------------
(***************************************************************************)
(* The execution screens of the two flows: a goroutine runs the operation  *)
(* and reports on a bounded channel, a command of the screen waits on it,  *)
(* and the screen folds each event into a checklist.  Cancelling the       *)
(* operation cancels the very context the senders select on.               *)
(***************************************************************************)
EXTENDS WizardWorld

\* The context of the operation: cancelled by hand, or closed with its session.
Cancelled == eng.cancel \/ (eng.kind = "manage" /\ session[eng.id].life = "closed")

\* Executing a step for the first time starts its goroutine.
Engaged(kind, id) ==
    [NoEngine EXCEPT !.kind = kind, !.id = id, !.at = 1, !.out = "ok",
                     !.stage = IF kind = "manage" THEN "plan" ELSE "start",
                     !.req = IF kind = "manage" THEN Requested(st) ELSE NoRequest,
                     !.approved = IF kind = "manage" THEN st.plan ELSE NoPlan]
Begun(exe) == [exe EXCEPT !.started = TRUE]

-----------------------------------------------------------------------------
(* Senders: an event is given up only when the feed is full and the context *)
(* is done; while there is room it is delivered.                            *)

Put(ev) == Len(feed) < Capacity /\ feed' = Append(feed, ev)
SendUniform(ev) ==                    \* (mutant) a two-way select
    \/ Put(ev)
    \/ Cancelled /\ UNCHANGED feed
Send(ev) ==
    \/ Put(ev)
    \/ Len(feed) = Capacity /\ Cancelled /\ UNCHANGED feed

Working == eng.stage \notin {"off", "ended"} /\ ui.phase # "exited"
EngineAt(stage) == Working /\ eng.stage = stage
Next1(e) == [e EXCEPT !.stage = "start", !.at = @ + 1, !.out = "ok"]
Past(e) == IF e.at < Gates THEN Next1(e) ELSE [e EXCEPT !.stage = "final", !.out = "ok"]
Failures == {"failed"} \cup (IF Cancelled THEN {"cancelled"} ELSE {})

\* What a plan made now would be.
FreshPlan == [req |-> eng.req, world |-> world]
EquivalentAlways(approved, fresh) == TRUE        \* (mutant) no comparison
PlansEquivalent(approved, fresh) ==   \* not what the plan only warns about
    approved.req = fresh.req /\ approved.world.nodes = fresh.world.nodes

\* A request that matches the marker of an interrupted operation takes that one
\* up where it stopped, whether or not the operator chose to resume it.
MayResume == TRUE \in Markers /\ eng.req.ask = 1

\* Execute: a runner is built and plans again; it asks Confirm unless it resumes.
Confirm ==
    /\ EngineAt("plan")
    /\ \/ \E out \in Failures : eng' = [eng EXCEPT !.stage = "final", !.out = out]
       \/ /\ ~Cancelled /\ PlansEquivalent(eng.approved, FreshPlan)
          /\ eng' = [eng EXCEPT !.stage = "start", !.plan = FreshPlan]
       \/ /\ ~Cancelled /\ MayResume
          /\ eng' = [eng EXCEPT !.stage = "start", !.plan = FreshPlan, !.resumed = TRUE]
       \/ /\ ~Cancelled /\ ~PlansEquivalent(eng.approved, FreshPlan)
          /\ eng' = [eng EXCEPT !.stage = "final", !.out = "declined"]
    /\ UNCHANGED <<feed, listener, rows>>

\* Before the first step and between two of them a deploy may be refused, by the
\* run lock, the configuration, the guard of setup or the marker of a phase, and
\* any operation stop; no step tells of it.
StopsBetween ==
    /\ EngineAt("start")
    /\ \E out \in Failures : eng' = [eng EXCEPT !.stage = "final", !.out = out]
    /\ UNCHANGED <<feed, listener, rows>>

\* A step of a deploy that is not due, or done already, is never started.
StepSkipped ==
    /\ EngineAt("start") /\ eng.kind = "deploy" /\ Send(Ev("done", eng.at, "skipped"))
    /\ eng' = Past(eng)
    /\ UNCHANGED <<listener, rows>>

StepStarted ==
    /\ EngineAt("start") /\ Send(Ev("start", eng.at, None))
    /\ eng' = [eng EXCEPT !.stage = "work"]
    /\ UNCHANGED <<listener, rows>>

\* A node operation saves the whole configuration it was opened with (in the
\* model, at the end of its first gate).
PersistTopology == [conf EXCEPT !.disk = conf.draft]

\* One gate or step of the operation.
Work ==
    /\ EngineAt("work")
    /\ \E out \in {"ok"} \cup Failures :
          /\ eng' = [eng EXCEPT !.stage = "stop", !.out = out,
                               !.failed = IF out = "ok" THEN @ ELSE @ \cup {eng.at}]
          /\ conf' = IF eng.kind = "manage" /\ eng.at = 1 /\ out = "ok" THEN PersistTopology ELSE conf
    /\ UNCHANGED <<feed, listener, rows>>

\* The closing bracket of a node operation's span is sent by a defer and says
\* nothing of how the span ended; a deploy's carries the step's result, and it may
\* go on after a step whose failure is not fatal.
StepFinished ==
    /\ EngineAt("stop")
    /\ Send(Ev("done", eng.at, IF eng.kind = "deploy" THEN eng.out ELSE "ok"))
    /\ \/ (eng.out = "ok" \/ eng.kind = "deploy") /\ eng' = Past(eng)
       \/ eng.out # "ok" /\ eng' = [eng EXCEPT !.stage = "final"]
    /\ UNCHANGED <<listener, rows>>

\* The goroutine is over: of it only what its checklist has to tell is kept.
SendFinal ==
    /\ EngineAt("final") /\ Send(Ev("final", 0, eng.out))
    /\ eng' = [NoEngine EXCEPT !.kind = eng.kind, !.id = eng.id, !.stage = "ended",
                               !.failed = eng.failed, !.cancel = eng.cancel]
    /\ UNCHANGED <<listener, rows>>

EngineNext ==
    /\ \/ Work
       \/ /\ Confirm \/ StopsBetween \/ StepSkipped \/ StepStarted \/ StepFinished \/ SendFinal
          /\ UNCHANGED conf
    /\ UNCHANGED <<program, ui, msgs, st, consent, session, slot, dep, world>>

-----------------------------------------------------------------------------
(* The checklist *)

Open1(s) == s \in {"pending", "running"}
Promoted(r, active) == [g \in Gate |-> IF g < active /\ Open1(r[g]) THEN "done" ELSE r[g]]
DoneStatus(ev) ==
    CASE ev.out \in {"failed", "cancelled"} -> "failed"
      [] ev.out = "skipped" -> "skipped"
      [] OTHER -> "done"
Applied(ev) ==
    [Promoted(rows, ev.at) EXCEPT ![ev.at] =
        IF ev.kind = "done" THEN DoneStatus(ev) ELSE IF @ = "pending" THEN "running" ELSE @]
Finished(out) ==
    IF out = "ok" THEN Promoted(rows, Gates + 1)
    ELSE [g \in Gate |-> IF rows[g] = "running" THEN "failed" ELSE rows[g]]

-----------------------------------------------------------------------------
(* The screen's side *)

Off == [state |-> "off", ev |-> NoEvent]
Waiting == [state |-> "waiting", ev |-> NoEvent]

Listen ==
    /\ listener.state = "waiting" /\ feed # <<>> /\ ui.phase \in {"running", "closing"}
    /\ listener' = [state |-> "held", ev |-> Head(feed)]
    /\ feed' = Tail(feed)
    /\ UNCHANGED <<program, ui, msgs, conf, st, consent, session, slot, dep, eng, rows, world>>

\* The manage screen's wait ends with its visit; the deploy screen's does not.
ListenGivesUp ==
    /\ listener.state = "waiting" /\ eng.kind = "manage" /\ ui.phase = "closing"
    /\ listener' = Off
    /\ UNCHANGED <<program, ui, msgs, conf, st, consent, session, slot, dep, eng, feed, rows, world>>

OnExec == ui.phase = "running" /\ ui.step \in ExecStep

ApplyEvent ==
    /\ OnExec /\ listener.state = "held" /\ listener.ev.kind # "final"
    /\ rows' = Applied(listener.ev)
    /\ listener' = Waiting
    /\ UNCHANGED <<program, ui, msgs, conf, st, consent, session, slot, dep, eng, feed, world>>

\* The terminal event: a clean deploy may settle its bar before it completes.
Ended(exe) == [exe EXCEPT !.executed = TRUE, !.result = listener.ev.out]
ApplyFinal ==
    /\ OnExec /\ listener.state = "held" /\ listener.ev.kind = "final"
    /\ rows' = Finished(listener.ev.out)
    /\ listener' = Off
    /\ IF eng.kind = "deploy"
       THEN dep' = Ended(dep) /\ UNCHANGED session
       ELSE session' = [session EXCEPT ![ui.live].exe = Ended(@)] /\ UNCHANGED dep
    /\ \/ msgs' = msgs \cup {Signal("complete")} /\ UNCHANGED ui
       \/ /\ eng.kind = "deploy" /\ listener.ev.out = "ok"
          /\ ui' = [ui EXCEPT !.settling = TRUE] /\ UNCHANGED msgs
    /\ UNCHANGED <<program, conf, st, consent, slot, eng, feed, world>>

SettleEnds ==
    /\ OnExec /\ ui.settling
    /\ ui' = [ui EXCEPT !.settling = FALSE]
    /\ msgs' = msgs \cup {Signal("complete")}
    /\ UNCHANGED <<program, conf, st, consent, session, slot, dep, operation, world>>

FeedNext == Listen \/ ListenGivesUp \/ ApplyEvent \/ ApplyFinal \/ SettleEnds

\* Whether the screen that runs the operation has seen its end.
Settled == IF eng.kind = "deploy" THEN dep.executed
           ELSE eng.kind = "manage" /\ session[eng.id].exe.executed
=============================================================================
