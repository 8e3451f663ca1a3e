----------------------------- MODULE HubSession -----------------------------
(***************************************************************************)
(* The hub, the configure flow and the deploy's finish screen, with the    *)
(* CLI around them: building a manage session off the update loop and      *)
(* handing it over through lifecycleSlot, and what the process does and    *)
(* reports once a program has released the terminal.                       *)
(***************************************************************************)
EXTENDS ManageFlow

-----------------------------------------------------------------------------
(* The welcome screen and the finish screen open the manage flow *)

Unbuilt == {n \in Session : session[n].life = None}
Opening == {m \in msgs : m.kind = "open"}
CanBuild == Cardinality(Opening) < Cardinality(Unbuilt)

\* A verb with a flow is opened once; the others leave the step.
ConfirmVerb(verb) ==
    /\ Press("welcome") /\ ~ui.opening
    /\ ui' = [ui EXCEPT !.verb = verb, !.opening = verb = "manage"]
    /\ verb = "manage" => CanBuild
    /\ msgs' = msgs \cup {Signal(IF verb = "manage" THEN "open" ELSE "complete")}
    /\ UNCHANGED <<program, conf, st, consent, session, slot, dep, operation, world>>

FinishExit ==
    /\ Press("finish") /\ Returns(Signal("complete")) /\ UNCHANGED <<st, consent>>
FinishManage ==                           \* pressed twice, it opens two
    /\ Press("finish") /\ dep.result = "ok" /\ CanBuild
    /\ Returns(Msg("open", "finish", NoRequest, Cardinality(Opening)))
    /\ UNCHANGED <<st, consent>>

\* lifecycleSlot.put: the session before was escaped out of.  (A session that
\* comes after the slot was taken would be closed at once; the program waits for
\* its commands before it is over, so none does.)
Closed(ss, n) == IF n = 0 THEN ss ELSE [ss EXCEPT ![n].life = "closed"]
PutKeeping(ss, n) == ss                   \* (mutant) the one before stays open
PutOver(ss, n) == Closed(ss, n)
OpenFlow ==
    \E m \in Opening :
       \/ /\ msgs' = (msgs \ {m}) \cup Answered([m EXCEPT !.kind = "openfailed"])
          /\ UNCHANGED <<program, ui, conf, st, consent, session, slot, dep, operation, world>>
       \/ \E n \in Unbuilt :
          /\ \A k \in Unbuilt : n <= k
          /\ session' = PutOver([session EXCEPT ![n].life = "open"], slot)
          /\ slot' = n
          /\ msgs' = (msgs \ {m}) \cup Answered([m EXCEPT !.kind = "swap", !.n = n])
          /\ UNCHANGED <<program, ui, conf, st, consent, dep, operation, world>>

-----------------------------------------------------------------------------
(* The configure flow *)

FormStep == {"basics", "advanced"}

\* Each key press in a field applies the step to the shared configuration.
EditField ==
    /\ Running /\ ui.step \in FormStep /\ ~ui.asked
    /\ \E d \in Drafts : conf' = [conf EXCEPT !.draft = d]
    /\ UNCHANGED <<program, ui, msgs, st, consent, session, slot, dep, operation, world>>
SubmitForm ==
    /\ \E s \in FormStep : Press(s)
    /\ Returns(Signal("complete")) /\ UNCHANGED <<st, consent>>
ReviewJump ==
    /\ Press("review")
    /\ \E i \in {1, 2} : Returns(Msg("jump", "review", NoRequest, i))
    /\ UNCHANGED <<st, consent>>
ReviewConfirm ==
    /\ Press("review")
    /\ \E a \in {"deploy", "exit"} : ui' = [ui EXCEPT !.choice = a]
    /\ msgs' = msgs \cup {Signal("complete")}
    /\ UNCHANGED <<program, conf, st, consent, session, slot, dep, operation, world>>

HubKeys == \/ \E v \in Verb : ConfirmVerb(v)
           \/ FinishExit \/ FinishManage \/ EditField \/ SubmitForm \/ ReviewJump \/ ReviewConfirm

-----------------------------------------------------------------------------
(* Update.  A message of an earlier visit is dropped: see Stale. *)

Received(m) ==
    \/ m.kind = "complete" /\ \E s \in Applied1 : GoToNextStep(s, msgs \ {m})
    \/ m.kind = "complete" /\ ui.step \in FormStep /\ StayPut(msgs \ {m})   \* Apply failed
    \/ m.kind = "back" /\ GoToPreviousStep(msgs \ {m})
    \/ m.kind = "jump" /\ JumpToStep(<<"basics", "advanced">>[m.n], msgs \ {m})
    \/ m.kind = "swap" /\ SwapFlow(m.n, msgs \ {m})
    \/ /\ m.kind = "openfailed"
       /\ ui' = [ui EXCEPT !.opening = FALSE] /\ msgs' = msgs \ {m}
       /\ UNCHANGED <<st, consent, session, operation>>
Deliver ==
    /\ Running
    /\ \E m \in msgs :
          \/ Received(m) /\ UNCHANGED <<program, conf, slot, dep, world>>
          \/ NodesLoaded(m)
          \/ DryRunDone(m)

-----------------------------------------------------------------------------
(* The CLI once the program is over *)

\* reportLifecycleOutcome
LifecycleQuiet(exe) ==                    \* (mutant) a cancelled program is asked first
    CASE ui.outcome = "cancelled" -> "nothing"
      [] exe.started /\ ~exe.executed -> "interrupted"
      [] exe.executed -> IF exe.result = "ok" THEN "ok" ELSE "failed"
      [] OTHER -> "nothing"
LifecycleExit(exe) ==
    CASE exe.started /\ ~exe.executed -> "interrupted"
      [] exe.executed -> IF exe.result = "ok" THEN "ok" ELSE "failed"
      [] OTHER -> "nothing"
DeployExit ==
    CASE dep.started /\ ~dep.executed -> "interrupted"
      [] dep.result = "cancelled" -> "interrupted"
      [] dep.executed -> IF dep.result = "ok" THEN "ok" ELSE "failed"
      [] OTHER -> "nothing"
Crashed(status) == IF status = "interrupted" THEN "interrupted" ELSE "failed"

Held1 == IF slot = 0 THEN NotExecuted ELSE session[slot].exe
Gone == session' = Closed(session, slot) /\ slot' = 0 /\ consent' = NoConsent /\ UNCHANGED <<st, world>>
Leaves(status, c) ==
    /\ ui' = [ui EXCEPT !.phase = "exited", !.exit = status] /\ conf' = c /\ Gone
    /\ eng' = [NoEngine EXCEPT !.kind = eng.kind, !.id = eng.id]
    /\ feed' = <<>> /\ listener' = Off /\ rows' = NoRows
    /\ UNCHANGED <<program, msgs, dep>>
Exits(status) == Leaves(status, conf)

\* node manage: its one session is closed by a defer.
ManageEnds ==
    /\ program = "manage"
    /\ Exits(IF ui.crashed THEN Crashed(LifecycleExit(Held1)) ELSE LifecycleExit(Held1))

\* runDeployStream
DeployEnds ==
    /\ program = "deploy"
    /\ LET status == IF Held1.started THEN LifecycleExit(Held1) ELSE DeployExit
       IN  Exits(IF ui.crashed THEN Crashed(status) ELSE status)

\* runFullDeployment: the credentials, the terminal or the interrupted-operation
\* gate refuse it, or the stream starts with the configuration in memory.
Deploys(c) ==
    \/ Leaves("failed", c)
    \/ /\ program' = "deploy" /\ ui' = Opened("deploy") /\ msgs' = {} /\ Gone
       /\ conf' = [c EXCEPT !.deployed = c.draft]
       /\ dep' = Begun(NotExecuted) /\ eng' = Engaged("deploy", 0)
       /\ feed' = <<>> /\ listener' = Waiting /\ rows' = NoRows

\* sessionVerb: a session the review ended went through the configure flow,
\* whose result is saved first.
Saved == [conf EXCEPT !.disk = conf.draft]
ReviewedEnds ==
    \/ Exits("failed")
    \/ ui.action = "exit" /\ Leaves("saved", Saved)
    \/ ui.action = "deploy" /\ Deploys(Saved)
VerbEnds ==
    \/ ui.verb = "deploy" /\ Deploys(conf)
    \/ ui.verb = "handoff" /\ Exits("handoff")
    \/ ui.verb = "manage" /\ Exits("nothing")
    \/ ui.verb = "edit" /\ ReviewedEnds      \* chosen before the quit arrived

\* runDeploy after the wizard.
HubEnds ==
    /\ program = "hub"
    /\ IF ui.crashed THEN Exits("failed")
       ELSE IF Held1.started THEN Exits(LifecycleExit(Held1))
       ELSE IF ui.outcome # "completed" THEN Exits("nothing")
       ELSE IF ui.exitStep = "review" THEN ReviewedEnds ELSE VerbEnds

CliEnds == WorkersDone /\ (ManageEnds \/ DeployEnds \/ HubEnds)
=============================================================================
