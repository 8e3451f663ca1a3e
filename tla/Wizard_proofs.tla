--------------------------- MODULE Wizard_proofs ---------------------------
(***************************************************************************)
(* Proofs about the terminal user interface, for any number of sessions,   *)
(* gates, drafts and places in the feed: types, the consent that every     *)
(* node operation runs on, the closing of sessions, and the truth of what  *)
(* the process reports.                                                    *)
(***************************************************************************)
EXTENDS Wizard, FiniteSetTheorems, SequenceTheorems, TLAPS

-----------------------------------------------------------------------------
(* Where the steps of a flow are *)

ConfigureSteps == {"welcome", "basics", "advanced", "review"}
ManageSteps == {"op", "target", "params", "preview", "confirm", "exec", "done"}
DeploySteps == {"stream", "finish"}

LEMMA FlowSteps ==
    /\ StepsOf("configure") = <<"welcome", "basics", "advanced", "review">>
    /\ StepsOf("manage") = <<"op", "target", "params", "preview", "confirm", "exec", "done">>
    /\ StepsOf("deploy") = <<"stream", "finish">>
BY DEF StepsOf

LEMMA StepSets ==
    /\ Range(StepsOf("configure")) = ConfigureSteps
    /\ Range(StepsOf("manage")) = ManageSteps
    /\ Range(StepsOf("deploy")) = DeploySteps
    /\ StepId = ConfigureSteps \cup ManageSteps \cup DeploySteps
<1>1. Range(StepsOf("configure")) = ConfigureSteps
  <2> DEFINE l == <<"welcome", "basics", "advanced", "review">>
  <2>1. DOMAIN l = {1, 2, 3, 4}
    OBVIOUS
  <2>2. l[1] = "welcome" /\ l[2] = "basics" /\ l[3] = "advanced" /\ l[4] = "review"
    OBVIOUS
  <2> HIDE DEF l
  <2> QED
    BY FlowSteps, <2>1, <2>2 DEF Range, ConfigureSteps, l
<1>2. Range(StepsOf("manage")) = ManageSteps
  <2> DEFINE l == <<"op", "target", "params", "preview", "confirm", "exec", "done">>
  <2>1. DOMAIN l = {1, 2, 3, 4, 5, 6, 7}
    OBVIOUS
  <2>2. /\ l[1] = "op" /\ l[2] = "target" /\ l[3] = "params" /\ l[4] = "preview"
        /\ l[5] = "confirm" /\ l[6] = "exec" /\ l[7] = "done"
    OBVIOUS
  <2> HIDE DEF l
  <2> QED
    BY FlowSteps, <2>1, <2>2 DEF Range, ManageSteps, l
<1>3. Range(StepsOf("deploy")) = DeploySteps
  <2> DEFINE l == <<"stream", "finish">>
  <2>1. DOMAIN l = {1, 2}
    OBVIOUS
  <2>2. l[1] = "stream" /\ l[2] = "finish"
    OBVIOUS
  <2> HIDE DEF l
  <2> QED
    BY FlowSteps, <2>1, <2>2 DEF Range, DeploySteps, l
<1>4. StepId = Range(StepsOf("configure")) \cup Range(StepsOf("manage")) \cup Range(StepsOf("deploy"))
  BY Zenon DEF StepId, Flow
<1> QED
  BY <1>1, <1>2, <1>3, <1>4, Zenon

LEMMA Places ==
    /\ Place("configure", "welcome") = 1 /\ Place("configure", "basics") = 2
    /\ Place("configure", "advanced") = 3 /\ Place("configure", "review") = 4
    /\ Place("manage", "op") = 1 /\ Place("manage", "target") = 2
    /\ Place("manage", "params") = 3 /\ Place("manage", "preview") = 4
    /\ Place("manage", "confirm") = 5 /\ Place("manage", "exec") = 6
    /\ Place("manage", "done") = 7
    /\ Place("deploy", "stream") = 1 /\ Place("deploy", "finish") = 2
BY FlowSteps DEF Place

LEMMA Least ==
    ASSUME NEW S \in SUBSET (1..7), S # {}
    PROVE  Min(S) \in S /\ \A i \in S : Min(S) <= i
<1>1. \E m \in S : \A i \in S : m <= i
  <2> DEFINE Best(m) == m \in S /\ \A i \in S : m <= i
  <2>1. 1 \in S => Best(1)
    OBVIOUS
  <2>2. 1 \notin S /\ 2 \in S => Best(2)
    OBVIOUS
  <2>3. 1 \notin S /\ 2 \notin S /\ 3 \in S => Best(3)
    OBVIOUS
  <2>4. 1 \notin S /\ 2 \notin S /\ 3 \notin S /\ 4 \in S => Best(4)
    OBVIOUS
  <2>5. 1 \notin S /\ 2 \notin S /\ 3 \notin S /\ 4 \notin S /\ 5 \in S => Best(5)
    OBVIOUS
  <2>6. 1 \notin S /\ 2 \notin S /\ 3 \notin S /\ 4 \notin S /\ 5 \notin S /\ 6 \in S => Best(6)
    OBVIOUS
  <2>7. 1 \notin S /\ 2 \notin S /\ 3 \notin S /\ 4 \notin S /\ 5 \notin S /\ 6 \notin S => Best(7)
    <3>1. PICK e \in S : TRUE
      OBVIOUS
    <3>2. 1 \notin S /\ 2 \notin S /\ 3 \notin S /\ 4 \notin S /\ 5 \notin S /\ 6 \notin S => \A i \in S : i = 7
      OBVIOUS
    <3> QED
      BY <3>1, <3>2
  <2> HIDE DEF Best
  <2>8. Best(1) \/ Best(2) \/ Best(3) \/ Best(4) \/ Best(5) \/ Best(6) \/ Best(7)
    BY <2>1, <2>2, <2>3, <2>4, <2>5, <2>6, <2>7
  <2> QED
    BY <2>8 DEF Best
<1> QED
  BY <1>1 DEF Min

LEMMA Greatest ==
    ASSUME NEW S \in SUBSET (1..7), S # {}
    PROVE  Max(S) \in S /\ \A i \in S : i <= Max(S)
<1>1. \E m \in S : \A i \in S : m >= i
  <2> DEFINE Best(m) == m \in S /\ \A i \in S : m >= i
  <2>1. 7 \in S => Best(7)
    OBVIOUS
  <2>2. 7 \notin S /\ 6 \in S => Best(6)
    OBVIOUS
  <2>3. 7 \notin S /\ 6 \notin S /\ 5 \in S => Best(5)
    OBVIOUS
  <2>4. 7 \notin S /\ 6 \notin S /\ 5 \notin S /\ 4 \in S => Best(4)
    OBVIOUS
  <2>5. 7 \notin S /\ 6 \notin S /\ 5 \notin S /\ 4 \notin S /\ 3 \in S => Best(3)
    OBVIOUS
  <2>6. 7 \notin S /\ 6 \notin S /\ 5 \notin S /\ 4 \notin S /\ 3 \notin S /\ 2 \in S => Best(2)
    OBVIOUS
  <2>7. 7 \notin S /\ 6 \notin S /\ 5 \notin S /\ 4 \notin S /\ 3 \notin S /\ 2 \notin S => Best(1)
    <3>1. PICK e \in S : TRUE
      OBVIOUS
    <3>2. 7 \notin S /\ 6 \notin S /\ 5 \notin S /\ 4 \notin S /\ 3 \notin S /\ 2 \notin S => \A i \in S : i = 1
      OBVIOUS
    <3> QED
      BY <3>1, <3>2
  <2> HIDE DEF Best
  <2>8. Best(1) \/ Best(2) \/ Best(3) \/ Best(4) \/ Best(5) \/ Best(6) \/ Best(7)
    BY <2>1, <2>2, <2>3, <2>4, <2>5, <2>6, <2>7
  <2> QED
    BY <2>8 DEF Best
<1> QED
  BY <1>1 DEF Max

-----------------------------------------------------------------------------
(* Types of what the state is made of *)

LEMMA Constants ==
    /\ MaxSessions \in Nat /\ MaxSessions >= 1 /\ Gates \in Nat /\ Gates >= 1
    /\ Capacity \in Nat /\ Capacity >= 1 /\ MaxWorld \in Nat
    /\ 0 \in Drafts /\ HubOps \subseteq Ops /\ HubAsks \subseteq Asks
    /\ 1 \in Asks
    /\ Markers \subseteq BOOLEAN /\ Programs \subseteq {"hub", "manage"}
    /\ Ops \subseteq {"resize", "add", "remove"}
<1>1. /\ MaxSessions \in Nat /\ MaxSessions >= 1 /\ Gates \in Nat /\ Gates >= 1
      /\ Capacity \in Nat /\ Capacity >= 1
  <2>1. {MaxSessions, Gates, Capacity} \subseteq Nat \ {0}
    BY WizardAssumption DEF WizardAssumption
  <2> QED
    BY <2>1
<1>2. /\ 0 \in Drafts /\ HubOps \subseteq Ops /\ HubAsks \subseteq Asks
      /\ Markers \subseteq BOOLEAN /\ Programs \subseteq {"hub", "manage"}
      /\ Ops \subseteq {"resize", "add", "remove"} /\ MaxWorld \in Nat
  BY WizardAssumption DEF WizardAssumption
<1>3. 1 \in Asks
  BY WizardAssumption DEF WizardAssumption
<1> QED
  BY <1>1, <1>2, <1>3, Zenon

LEMMA Blanks ==
    /\ NoRequest \in Request /\ NoPlan \in Plan /\ NoEvent \in Event /\ NotExecuted \in Executed
    /\ NoEngine \in Engine /\ NoConsent \in [plan : Plan, typed : BOOLEAN]
    /\ NoRows \in [Gate -> RowStatus]
<1>1. NoRequest \in Request
  BY Constants DEF NoRequest, Request, None
<1>2. NoPlan \in Plan
  BY <1>1, Constants DEF NoPlan, Plan, World, AsOpened
<1>3. NoEvent \in Event
  BY Constants DEF NoEvent, Ev, Event, None, Outcome
<1>4. NotExecuted \in Executed
  BY DEF NotExecuted, Executed, None, Outcome
<1>5. NoEngine \in Engine
  BY <1>1, <1>2, Constants DEF NoEngine, Engine, None, Outcome
<1>6. NoConsent \in [plan : Plan, typed : BOOLEAN]
  BY <1>2 DEF NoConsent
<1>7. NoRows \in [Gate -> RowStatus]
  BY DEF NoRows, RowStatus
<1> QED
  BY <1>1, <1>2, <1>3, <1>4, <1>5, <1>6, <1>7

LEMMA FreshTyped ==
    ASSUME NEW marker \in BOOLEAN
    PROVE  FreshState(marker) \in State
BY Blanks DEF FreshState, State, None

LEMMA RequestedTyped ==
    ASSUME NEW s \in State
    PROVE  Requested(s) \in Request
BY DEF Requested, Request, State

LEMMA EnteredTyped ==
    ASSUME NEW step, NEW s \in State
    PROVE  Entered(step, s) \in State
<1>1. [s EXCEPT !.phase = "running", !.exitChosen = FALSE,
                !.seen = FALSE, !.proceed = FALSE, !.plan = NoPlan] \in State
  BY Blanks DEF State
<1>2. [s EXCEPT !.list = "loading"] \in State
  BY DEF State
<1>3. [Idle EXCEPT !.proceed = TRUE] \in State
  <2>1. Idle \in State
    BY FreshTyped DEF Idle
  <2> QED
    BY <2>1 DEF State
<1> QED
  BY <1>1, <1>2, <1>3, Zenon DEF Entered

LEMMA EngagedTyped ==
    ASSUME NEW kind \in {"manage", "deploy"}, NEW id \in 0..MaxSessions, st \in State
    PROVE  /\ Engaged(kind, id) \in Engine
           /\ Engaged(kind, id).kind = kind /\ Engaged(kind, id).id = id
           /\ Engaged(kind, id).stage = IF kind = "manage" THEN "plan" ELSE "start"
           /\ Engaged(kind, id).at = 1 /\ Engaged(kind, id).out = "ok"
           /\ ~Engaged(kind, id).cancel
<1>1. Requested(st) \in Request /\ st.plan \in Plan
  BY RequestedTyped DEF State
<1>2. /\ (IF kind = "manage" THEN Requested(st) ELSE NoRequest) \in Request
      /\ (IF kind = "manage" THEN st.plan ELSE NoPlan) \in Plan
  BY <1>1, Blanks
<1> DEFINE r == IF kind = "manage" THEN Requested(st) ELSE NoRequest
           p == IF kind = "manage" THEN st.plan ELSE NoPlan
           g == IF kind = "manage" THEN "plan" ELSE "start"
           e == [NoEngine EXCEPT !.kind = kind, !.id = id, !.at = 1, !.out = "ok",
                                 !.stage = g, !.req = r, !.approved = p]
<1>3. Engaged(kind, id) = e
  BY DEF Engaged
<1> HIDE DEF r, p
<1>4. r \in Request /\ p \in Plan
  BY <1>2 DEF r, p
<1>5. NoEngine \in Engine /\ NoEngine.cancel = FALSE /\ 1 \in 0..Gates
  BY Blanks, Constants DEF NoEngine
<1>6. e \in Engine
  BY <1>4, <1>5 DEF Engine, Outcome
<1>7. /\ e.kind = kind /\ e.id = id /\ e.stage = g /\ e.at = 1 /\ e.out = "ok"
      /\ e.cancel = FALSE
  BY <1>5 DEF Engine
<1> HIDE DEF e
<1> QED
  BY <1>3, <1>6, <1>7


-----------------------------------------------------------------------------
(* Every message belongs to the screen of its visit *)

Opens == {"open", "swap", "openfailed"}
Doors == {[flow |-> "configure", step |-> "welcome"], [flow |-> "deploy", step |-> "finish"]}

Belongs(m) ==
    /\ m.kind # "open" => m.fresh
    /\ m.kind \in Opens /\ m.fresh => ui.step \in {"welcome", "finish"}
    /\ m.kind = "swap" => m.n \in Session
    /\ m.kind \in {"list", "listed"} => ui.step = "target"
    /\ m.kind \in {"dryrun", "dryran"} => ui.step = "preview"
    /\ m.kind = "jump" => ui.step = "review" /\ m.n \in {1, 2}
    /\ m.kind = "back" => ui.step = "preview"

OnScreen(u) ==
    /\ u.step \in Range(StepsOf(u.flow))
    /\ u.suspended # NoPlace => u.flow = "manage" /\ u.suspended \in Doors
    /\ u.toReview => u.step \in {"basics", "advanced"}
    /\ u.flow = "manage" => u.live \in Session

Screens ==
    /\ IsFiniteSet(msgs)
    /\ Running => OnScreen(ui) /\ \A m \in msgs : Belongs(m)
    /\ ~Running => \A m \in msgs : m.kind = "open" /\ ~m.fresh

Well == WizardTypeOK /\ Screens

LEMMA StepFlow ==
    ASSUME NEW u \in Ui, u.step \in Range(StepsOf(u.flow))
    PROVE  /\ u.step \in ConfigureSteps <=> u.flow = "configure"
           /\ u.step \in ManageSteps <=> u.flow = "manage"
           /\ u.step \in DeploySteps <=> u.flow = "deploy"
<1>1. u.flow \in {"configure", "manage", "deploy"}
  BY DEF Ui, Flow
<1>2. CASE u.flow = "configure"
  <2>1. u.step \in ConfigureSteps
    BY <1>2, StepSets
  <2> QED
    BY <2>1, <1>2 DEF ConfigureSteps, ManageSteps, DeploySteps
<1>3. CASE u.flow = "manage"
  <2>1. u.step \in ManageSteps
    BY <1>3, StepSets
  <2> QED
    BY <2>1, <1>3 DEF ConfigureSteps, ManageSteps, DeploySteps
<1>4. CASE u.flow = "deploy"
  <2>1. u.step \in DeploySteps
    BY <1>4, StepSets
  <2> QED
    BY <2>1, <1>4 DEF ConfigureSteps, ManageSteps, DeploySteps
<1> QED
  BY <1>1, <1>2, <1>3, <1>4

LEMMA MsgTyped ==
    ASSUME NEW kind \in {"complete", "back", "jump", "list", "listed", "dryrun", "dryran",
                         "open", "openfailed", "swap"},
           NEW step \in StepId, NEW req \in Request, NEW n \in Nat
    PROVE  /\ Msg(kind, step, req, n) \in Message
           /\ Msg(kind, step, req, n).kind = kind /\ Msg(kind, step, req, n).fresh
           /\ Msg(kind, step, req, n).n = n /\ Msg(kind, step, req, n).req = req
BY Constants DEF Msg, Message, World, AsOpened

\* What a visit leaves behind is the sessions being built for it, outdated.
LEMMA Left ==
    ASSUME NEW rest \in SUBSET Message, IsFiniteSet(rest)
    PROVE  /\ Stale(rest) \subseteq Message /\ IsFiniteSet(Stale(rest))
           /\ \A m \in Stale(rest) : m.kind = "open" /\ ~m.fresh
           /\ (\A m \in rest : m.kind # "open") => Stale(rest) = {}
           /\ \A x \in Stale(rest) : \E m \in rest : m.kind = "open" /\ x = [m EXCEPT !.fresh = FALSE]
<1> DEFINE W == {w \in rest : w.kind = "open"}
           f == [w \in W |-> [w EXCEPT !.fresh = FALSE]]
<1>1. \A w \in W : [w EXCEPT !.fresh = FALSE] \in Message
  BY DEF Message
<1>2. \A w \in W : [w EXCEPT !.fresh = FALSE].kind = "open" /\ [w EXCEPT !.fresh = FALSE].fresh = FALSE
  BY DEF Message
<1>3. Stale(rest) \subseteq Message /\ \A m \in Stale(rest) : m.kind = "open" /\ ~m.fresh
  <2> SUFFICES ASSUME NEW m \in Stale(rest) PROVE m \in Message /\ m.kind = "open" /\ ~m.fresh
    OBVIOUS
  <2>1. PICK w \in W : m = [w EXCEPT !.fresh = FALSE]
    BY DEF Stale
  <2> QED
    BY <2>1, <1>1, <1>2
<1>4. IsFiniteSet(W)
  BY FS_Subset
<1>5. f \in Surjection(W, Stale(rest))
  BY DEF Surjection, Stale
<1>6. IsFiniteSet(Stale(rest))
  <2> HIDE DEF f, W
  <2> QED
    BY <1>4, <1>5, FS_Surjection, Zenon
<1>7. (\A m \in rest : m.kind # "open") => Stale(rest) = {}
  BY DEF Stale
<1>8. \A x \in Stale(rest) : \E m \in rest : m.kind = "open" /\ x = [m EXCEPT !.fresh = FALSE]
  BY DEF Stale
<1> QED
  BY <1>3, <1>6, <1>7, <1>8


LEMMA ListenerTyped ==
    /\ Waiting \in [state : {"off", "waiting", "held"}, ev : Event]
    /\ Off \in [state : {"off", "waiting", "held"}, ev : Event]
    /\ Waiting.state = "waiting" /\ Off.state = "off"
BY Blanks DEF Waiting, Off

LEMMA SessionTyped ==
    ASSUME session \in [Session -> SessionState], NEW n \in Session, NEW x \in Executed
    PROVE  /\ [session EXCEPT ![n].exe = x] \in [Session -> SessionState]
           /\ \A k \in Session : [session EXCEPT ![n].exe = x][k] =
                 IF k = n THEN [life |-> session[n].life, exe |-> x] ELSE session[k]
<1>1. session[n] \in SessionState
  OBVIOUS
<1>2. [session[n] EXCEPT !.exe = x] = [life |-> session[n].life, exe |-> x]
  BY <1>1 DEF SessionState
<1>3. [life |-> session[n].life, exe |-> x] \in SessionState
  BY <1>1 DEF SessionState
<1>4. [session EXCEPT ![n].exe = x] = [session EXCEPT ![n] = [life |-> session[n].life, exe |-> x]]
  BY <1>2
<1> HIDE DEF SessionState
<1> QED
  BY <1>3, <1>4

LEMMA BegunTyped ==
    ASSUME NEW x \in Executed
    PROVE  /\ Begun(x) \in Executed /\ Begun(x).started
           /\ Begun(x).executed = x.executed /\ Begun(x).result = x.result
BY DEF Begun, Executed

LEMMA CommandsTyped ==
    ASSUME NEW step \in StepId, NEW s \in State
    PROVE  /\ Commands(step, s) \subseteq Message /\ IsFiniteSet(Commands(step, s))
           /\ \A m \in Commands(step, s) :
                 /\ m.fresh
                 /\ \/ m.kind = "dryrun" /\ step = "preview"
                    \/ m.kind = "list" /\ step = "target"
<1> DEFINE r == Requested(s)
           d == Msg("dryrun", step, r, 0)
           l == Msg("list", step, r, 0)
<1>1. r \in Request
  BY RequestedTyped
<1> HIDE DEF r
<1>2. d \in Message /\ d.kind = "dryrun" /\ d.fresh /\ l \in Message /\ l.kind = "list" /\ l.fresh
  BY <1>1, MsgTyped
<1> HIDE DEF d, l
<1>3. \/ Commands(step, s) = {d} /\ step = "preview"
      \/ Commands(step, s) = {l} /\ step = "target"
      \/ Commands(step, s) = {}
  BY Zenon DEF Commands, d, l, r
<1>4. IsFiniteSet({d}) /\ IsFiniteSet({l}) /\ IsFiniteSet({})
  BY FS_Singleton, FS_EmptySet
<1> QED
  BY <1>2, <1>3, <1>4

\* What an arrival changes keeps its types, and every message belongs to the
\* screen that is now shown.
Moved ==
    /\ ui' \in Ui /\ msgs' \subseteq Message /\ st' \in State
    /\ consent' \in [plan : Plan, typed : BOOLEAN]
    /\ session' \in [Session -> SessionState]
    /\ eng' \in Engine
    /\ feed' \in Seq(Event) /\ Len(feed') <= Capacity
    /\ listener' \in [state : {"off", "waiting", "held"}, ev : Event]
    /\ rows' \in [Gate -> RowStatus]
    /\ Screens'

LEMMA EngineEnteredTyped ==
    ASSUME WizardTypeOK, NEW step, NEW s \in State, EngineEntered(step, s),
           step = "exec" => ui.live \in Session
    PROVE  /\ eng' \in Engine
           /\ feed' \in Seq(Event) /\ Len(feed') <= Capacity
           /\ listener' \in [state : {"off", "waiting", "held"}, ev : Event]
           /\ rows' \in [Gate -> RowStatus]
           /\ session' \in [Session -> SessionState]
<1>1. CASE step = "exec"
  <2> DEFINE e == Engaged("manage", ui.live)
  <2>1. e \in Engine
    BY <1>1, EngagedTyped DEF WizardTypeOK, Session
  <2>2. Requested(s) \in Request /\ s.plan \in Plan
    BY RequestedTyped DEF State
  <2>3. eng' = [e EXCEPT !.req = Requested(s), !.approved = s.plan]
    BY <1>1, Zenon DEF EngineEntered
  <2> HIDE DEF e
  <2>4. eng' \in Engine
    BY <2>1, <2>2, <2>3 DEF Engine
  <2>5. listener' = Waiting /\ rows' = NoRows /\ feed' = <<>>
        /\ session' = [session EXCEPT ![ui.live].exe = Begun(@)]
    BY <1>1, Zenon DEF EngineEntered
  <2>6. session[ui.live].exe \in Executed
    BY <1>1 DEF WizardTypeOK, SessionState
  <2>7. session' \in [Session -> SessionState]
    BY <1>1, <2>5, <2>6, BegunTyped, SessionTyped DEF WizardTypeOK
  <2>8. feed' \in Seq(Event) /\ Len(feed') <= Capacity
    BY <2>5, EmptySeq, Constants
  <2> QED
    BY <2>4, <2>5, <2>7, <2>8, ListenerTyped, Blanks
<1>2. CASE step = "finish"
  <2>1. eng' = NoEngine /\ rows' = NoRows /\ UNCHANGED <<feed, listener, session>>
    BY <1>2 DEF EngineEntered
  <2> QED
    BY <2>1, Blanks DEF WizardTypeOK
<1>3. CASE step # "exec" /\ step # "finish"
  <2>1. UNCHANGED <<operation, session>>
    BY <1>3 DEF EngineEntered
  <2> QED
    BY <2>1 DEF WizardTypeOK, operation
<1> QED
  BY <1>1, <1>2, <1>3

LEMMA Arrival ==
    ASSUME Well, NEW target \in Ui, NEW s \in State, NEW rest \in SUBSET msgs,
           Arrive(target, s, rest), OnScreen(target), target.phase = "running",
           target.step = "exec" => ui.live \in Session
    PROVE  Moved
<1>1. /\ ui' = target
      /\ st' = Entered(target.step, s)
      /\ msgs' = Stale(rest) \cup Commands(target.step, s)
      /\ consent' = IF target.step = "preview" THEN NoConsent ELSE consent
      /\ EngineEntered(target.step, s)
  BY DEF Arrive
<1>2. target.step \in StepId
  BY DEF Ui
<1>3. IsFiniteSet(rest) /\ rest \in SUBSET Message
  BY FS_Subset DEF Well, Screens, WizardTypeOK
<1>4. /\ msgs' \subseteq Message /\ IsFiniteSet(msgs')
      /\ \A m \in msgs' : \/ m.kind = "open" /\ ~m.fresh
                          \/ m.fresh /\ m.kind = "dryrun" /\ target.step = "preview"
                          \/ m.fresh /\ m.kind = "list" /\ target.step = "target"
  <2> DEFINE X == Stale(rest)
             Y == Commands(target.step, s)
  <2>1. /\ X \subseteq Message /\ IsFiniteSet(X)
        /\ \A m \in X : m.kind = "open" /\ ~m.fresh
    BY <1>3, Left
  <2>2. /\ Y \subseteq Message /\ IsFiniteSet(Y)
        /\ \A m \in Y : /\ m.fresh
                       /\ \/ m.kind = "dryrun" /\ target.step = "preview"
                          \/ m.kind = "list" /\ target.step = "target"
    BY <1>2, CommandsTyped
  <2>3. msgs' = X \cup Y
    BY <1>1
  <2> HIDE DEF X, Y
  <2>4. IsFiniteSet(X \cup Y)
    BY <2>1, <2>2, FS_Union
  <2> QED
    BY <2>1, <2>2, <2>3, <2>4
<1>5. \A m \in msgs' : Belongs(m)'
  BY <1>1, <1>4 DEF Belongs, Opens
<1>6. Screens'
  BY <1>1, <1>4, <1>5 DEF Screens, Running, OnScreen
<1>7. st' \in State
  BY <1>1, EnteredTyped
<1>8. consent' \in [plan : Plan, typed : BOOLEAN]
  BY <1>1, Blanks DEF Well, WizardTypeOK
<1>9. /\ eng' \in Engine
      /\ feed' \in Seq(Event) /\ Len(feed') <= Capacity
      /\ listener' \in [state : {"off", "waiting", "held"}, ev : Event]
      /\ rows' \in [Gate -> RowStatus]
      /\ session' \in [Session -> SessionState]
  BY <1>1, EngineEnteredTyped DEF Well
<1> QED
  BY <1>1, <1>4, <1>6, <1>7, <1>8, <1>9 DEF Moved


-----------------------------------------------------------------------------
(* Where a move leads *)

\* A new visit that keeps to the flow on screen.
Visits(target, s, rest) ==
    /\ target \in Ui /\ OnScreen(target) /\ target.phase = "running"
    /\ target.flow = ui.flow /\ target.live = ui.live /\ target.suspended = ui.suspended
    /\ target.verb = ui.verb /\ target.step = "welcome" => ~target.opening
    /\ Arrive(target, s, rest)

Concludes1(s, rest) ==
    /\ ui' = Concluded /\ st' = s /\ msgs' = rest
    /\ UNCHANGED <<consent, session, operation>>

EarlyStep == {"op", "target", "params"}

\* Where the next step is, by the step that is left.
Onward(from, to, s) ==
    \/ from = "welcome" /\ ui.verb = "edit" /\ to \in ConfigureStep
    \/ from \in ConfigureStep /\ to \in ConfigureStep
    \/ from = "stream" /\ to = "finish"
    \/ from \in EarlyStep /\ to \in {"target", "params", "preview"}
    \/ from = "preview" /\ s.proceed /\ to = IF s.plan.req.op = "remove" THEN "confirm" ELSE "exec"
    \/ from = "confirm" /\ s.proceed /\ to = "exec"
    \/ from = "exec" /\ to = "done"

LEMMA AtTyped ==
    ASSUME ui \in Ui, NEW step \in StepId
    PROVE  /\ At1(step) \in Ui /\ At1(step).step = step
           /\ At1(step).flow = ui.flow /\ At1(step).live = ui.live
           /\ At1(step).suspended = ui.suspended /\ At1(step).toReview = ui.toReview
           /\ At1(step).verb = ui.verb /\ At1(step).phase = ui.phase
           /\ step = "welcome" => ~At1(step).opening
<1> DEFINE b == ui.opening /\ step # "welcome"
           u == [ui EXCEPT !.step = step, !.choice = "exit", !.opening = b]
<1>1. At1(step) = u
  BY DEF At1
<1>2. b \in BOOLEAN
  OBVIOUS
<1>3. step = "welcome" => b = FALSE
  OBVIOUS
<1> HIDE DEF b
<1>4. u \in Ui
  BY <1>2 DEF Ui
<1>5. /\ u.step = step /\ u.flow = ui.flow /\ u.live = ui.live
      /\ u.suspended = ui.suspended /\ u.toReview = ui.toReview
      /\ u.verb = ui.verb /\ u.phase = ui.phase /\ u.opening = b
  BY DEF Ui
<1> HIDE DEF u
<1> QED
  BY <1>1, <1>3, <1>4, <1>5

\* Any step of the flow on screen can be visited.
LEMMA Visitable ==
    ASSUME Well, Running, NEW step \in Range(StepsOf(ui.flow)), ~ui.toReview \/ step = "review",
           NEW s, NEW rest
    PROVE  /\ ~ui.toReview => (Arrive(At1(step), s, rest) => Visits(At1(step), s, rest))
           /\ LET u == [At1(step) EXCEPT !.toReview = FALSE]
              IN  u.step = step /\ (Arrive(u, s, rest) => Visits(u, s, rest))
<1> DEFINE a == At1(step)
           u == [a EXCEPT !.toReview = FALSE]
<1>1. ui \in Ui /\ OnScreen(ui) /\ step \in StepId
  BY StepSets DEF Well, WizardTypeOK, Screens, Ui, Flow
<1>2. /\ a \in Ui /\ a.step = step
      /\ a.flow = ui.flow /\ a.live = ui.live
      /\ a.suspended = ui.suspended /\ a.toReview = ui.toReview
      /\ a.verb = ui.verb /\ a.phase = ui.phase
      /\ step = "welcome" => ~a.opening
  BY <1>1, AtTyped
<1> HIDE DEF a
<1>3. u \in Ui
  BY <1>2 DEF Ui
<1>4. /\ u.step = step
      /\ u.flow = ui.flow /\ u.live = ui.live
      /\ u.suspended = ui.suspended /\ u.toReview = FALSE
      /\ u.verb = ui.verb /\ u.phase = ui.phase /\ u.opening = a.opening
  BY <1>2 DEF Ui
<1> HIDE DEF u
<1>5. OnScreen(u) /\ (~ui.toReview => OnScreen(a))
  BY <1>1, <1>2, <1>4 DEF OnScreen
<1>6. ~ui.toReview => (Arrive(a, s, rest) => Visits(a, s, rest))
  BY <1>2, <1>5 DEF Visits, Running
<1>7. u.step = step /\ (Arrive(u, s, rest) => Visits(u, s, rest))
  BY <1>2, <1>3, <1>4, <1>5 DEF Visits, Running
<1> QED
  BY <1>6, <1>7 DEF a, u


LEMMA StepAt ==
    /\ Len(StepsOf("configure")) = 4 /\ Len(StepsOf("manage")) = 7 /\ Len(StepsOf("deploy")) = 2
    /\ \A i \in 1..4 : StepsOf("configure")[i] \in ConfigureSteps
    /\ \A i \in 2..4 : StepsOf("configure")[i] \in ConfigureStep
    /\ \A i \in 1..7 : StepsOf("manage")[i] \in ManageSteps
    /\ \A i \in 1..2 : StepsOf("deploy")[i] \in DeploySteps
    /\ StepsOf("manage")[1] = "op" /\ StepsOf("manage")[2] = "target"
    /\ StepsOf("manage")[3] = "params" /\ StepsOf("manage")[4] = "preview"
    /\ StepsOf("manage")[5] = "confirm" /\ StepsOf("manage")[6] = "exec"
    /\ StepsOf("manage")[7] = "done"
    /\ StepsOf("deploy")[1] = "stream" /\ StepsOf("deploy")[2] = "finish"
<1> DEFINE c == <<"welcome", "basics", "advanced", "review">>
           m == <<"op", "target", "params", "preview", "confirm", "exec", "done">>
           d == <<"stream", "finish">>
<1>1. Len(c) = 4 /\ Len(m) = 7 /\ Len(d) = 2
  OBVIOUS
<1>2. c[1] = "welcome" /\ c[2] = "basics" /\ c[3] = "advanced" /\ c[4] = "review"
  OBVIOUS
<1>3. /\ m[1] = "op" /\ m[2] = "target" /\ m[3] = "params" /\ m[4] = "preview"
      /\ m[5] = "confirm" /\ m[6] = "exec" /\ m[7] = "done"
  OBVIOUS
<1>4. d[1] = "stream" /\ d[2] = "finish"
  OBVIOUS
<1>5. StepsOf("configure") = c /\ StepsOf("manage") = m /\ StepsOf("deploy") = d
  BY FlowSteps
<1> HIDE DEF c, m, d
<1>6. \A i \in 1..4 : c[i] \in ConfigureSteps
  BY <1>2 DEF ConfigureSteps
<1>7. \A i \in 2..4 : c[i] \in ConfigureStep
  BY <1>2 DEF ConfigureStep
<1>8. \A i \in 1..7 : m[i] \in ManageSteps
  BY <1>3 DEF ManageSteps
<1>9. \A i \in 1..2 : d[i] \in DeploySteps
  BY <1>4 DEF DeploySteps
<1> QED
  BY <1>1, <1>3, <1>4, <1>5, <1>6, <1>7, <1>8, <1>9

LEMMA ShownAre ==
    ASSUME NEW s \in State
    PROVE  /\ Shown("preview", s)
           /\ Shown("confirm", s) <=> (s.proceed /\ s.plan.req.op = "remove")
           /\ Shown("exec", s) <=> s.proceed
           /\ Shown("done", s) <=> s.proceed
           /\ Shown("finish", s)
<1>1. s.proceed \in BOOLEAN
  BY DEF State
<1> QED
  BY <1>1 DEF Shown

LEMMA HereIn ==
    ASSUME Well, Running
    PROVE  /\ ui.flow \in {"configure", "manage", "deploy"}
           /\ Here \in 1..Len(StepsOf(ui.flow)) /\ Len(StepsOf(ui.flow)) \in 1..7
           /\ ui.step \in Range(StepsOf(ui.flow))
           /\ \A i \in 1..Len(StepsOf(ui.flow)) :
                 StepsOf(ui.flow)[i] \in Range(StepsOf(ui.flow))
<1>1. /\ ui \in Ui /\ ui.step \in Range(StepsOf(ui.flow))
      /\ ui.flow \in {"configure", "manage", "deploy"}
  BY DEF Well, WizardTypeOK, Screens, OnScreen, Ui, Flow
<1>2. /\ ui.flow = "configure" => ui.step \in ConfigureSteps
      /\ ui.flow = "manage" => ui.step \in ManageSteps
      /\ ui.flow = "deploy" => ui.step \in DeploySteps
  BY <1>1, StepFlow
<1>3. Len(StepsOf(ui.flow)) \in 1..7
  BY <1>1, StepAt
<1>4. Here \in 1..Len(StepsOf(ui.flow))
  BY <1>1, <1>2, StepAt, Places DEF Here, ConfigureSteps, ManageSteps, DeploySteps
<1>5. \A i \in 1..Len(StepsOf(ui.flow)) : StepsOf(ui.flow)[i] \in Range(StepsOf(ui.flow))
  <2>1. CASE ui.flow = "configure"
    BY <2>1, StepAt, StepSets
  <2>2. CASE ui.flow = "manage"
    BY <2>2, StepAt, StepSets
  <2>3. CASE ui.flow = "deploy"
    BY <2>3, StepAt, StepSets
  <2> QED
    BY <1>1, <2>1, <2>2, <2>3
<1> QED
  BY <1>1, <1>3, <1>4, <1>5

LEMMA AheadIn ==
    ASSUME Well, Running, NEW s, Ahead(s) # {}
    PROVE  /\ Min(Ahead(s)) \in Ahead(s)
           /\ \A i \in Ahead(s) : Min(Ahead(s)) <= i
           /\ StepsOf(ui.flow)[Min(Ahead(s))] \in Range(StepsOf(ui.flow))
           /\ Min(Ahead(s)) \in Here + 1..Len(StepsOf(ui.flow))
<1>1. Ahead(s) \in SUBSET (1..7) /\ Ahead(s) \subseteq Here + 1..Len(StepsOf(ui.flow))
  BY HereIn DEF Ahead
<1>2. Min(Ahead(s)) \in Ahead(s) /\ \A i \in Ahead(s) : Min(Ahead(s)) <= i
  BY <1>1, Least
<1> QED
  BY <1>1, <1>2, HereIn

LEMMA BehindIn ==
    ASSUME Well, Running, Behind # {}
    PROVE  /\ Max(Behind) \in Behind /\ Max(Behind) \in 1..Here - 1
           /\ StepsOf(ui.flow)[Max(Behind)] \in Range(StepsOf(ui.flow))
<1>1. Behind \in SUBSET (1..7) /\ Behind \subseteq 1..Here - 1
  BY HereIn DEF Behind
<1>2. Max(Behind) \in Behind
  BY <1>1, Greatest
<1>3. Max(Behind) \in 1..Here - 1
  BY <1>1, <1>2
<1>4. Here \in 1..Len(StepsOf(ui.flow)) /\ Len(StepsOf(ui.flow)) \in 1..7
  BY HereIn
<1>5. Max(Behind) \in 1..Len(StepsOf(ui.flow))
  <2> DEFINE x == Max(Behind)
             l == Len(StepsOf(ui.flow))
             h == Here
  <2>1. x \in 1..h - 1 /\ h \in 1..l /\ l \in 1..7
    BY <1>3, <1>4
  <2> HIDE DEF x, h, l
  <2>2. x \in 1..l
    BY <2>1
  <2> QED
    BY <2>2 DEF x, l
<1> QED
  BY <1>2, <1>3, <1>5, HereIn


LEMMA NextGoes ==
    ASSUME Well, Running, NEW s \in State, NEW rest \in SUBSET msgs, GoToNextStep(s, rest)
    PROVE  \/ Concludes1(s, rest)
           \/ \E target : Visits(target, s, rest) /\ Onward(ui.step, target.step, s)
<1>0. ui \in Ui /\ OnScreen(ui)
  BY DEF Well, WizardTypeOK, Screens
<1>1. CASE ExitsEarly \/ (~ui.toReview /\ Ahead(s) = {})
  BY <1>1, Zenon DEF GoToNextStep, Concludes1
<1>2. CASE ~ExitsEarly /\ ui.toReview
  <2>1. Arrive([At1("review") EXCEPT !.toReview = FALSE], s, rest)
    BY <1>2, Zenon DEF GoToNextStep
  <2>2. ui.step \in {"basics", "advanced"}
    BY <1>0, <1>2 DEF OnScreen
  <2>3. "review" \in Range(StepsOf(ui.flow))
    BY <1>0, <2>2, StepFlow, StepSets DEF OnScreen, ConfigureSteps
  <2> DEFINE u == [At1("review") EXCEPT !.toReview = FALSE]
  <2>4. u.step = "review" /\ (Arrive(u, s, rest) => Visits(u, s, rest))
    BY <2>3, Visitable, Zenon
  <2> HIDE DEF u
  <2>5. Onward(ui.step, u.step, s)
    BY <2>2, <2>4 DEF Onward, ConfigureStep
  <2> QED
    BY <2>1, <2>4, <2>5, Zenon DEF u
<1>3. CASE ~ExitsEarly /\ ~ui.toReview /\ Ahead(s) # {}
  <2> DEFINE k == Min(Ahead(s))
             to == StepsOf(ui.flow)[k]
  <2>1. Arrive(At1(to), s, rest)
    BY <1>3, Zenon DEF GoToNextStep
  <2>2. /\ k \in Ahead(s) /\ \A i \in Ahead(s) : k <= i
        /\ to \in Range(StepsOf(ui.flow)) /\ k \in Here + 1..Len(StepsOf(ui.flow))
    BY <1>3, AheadIn
  <2>3. Ahead(s) = {i \in Here + 1..Len(StepsOf(ui.flow)) : Shown(StepsOf(ui.flow)[i], s)}
    BY DEF Ahead
  <2> HIDE DEF k
  <2>4. Visits(At1(to), s, rest)
    BY <1>3, <2>1, <2>2, Visitable
  <2>5. At1(to).step = to
    BY <1>0, <2>2, <2>4, AtTyped, StepSets DEF Ui, Flow
  <2>6. Onward(ui.step, to, s)
    <3>1. CASE ui.step = "welcome"
      <4>1. ui.flow = "configure"
        BY <1>0, <3>1, StepFlow DEF OnScreen, ConfigureSteps
      <4>2. to \in ConfigureStep
        BY <2>2, <3>1, <4>1, Places, StepAt DEF Here
      <4>3. ui.verb = "edit"
        BY <1>3, <3>1 DEF ExitsEarly
      <4> QED
        BY <3>1, <4>2, <4>3 DEF Onward
    <3>2. CASE ui.step \in ConfigureStep
      <4>1. ui.flow = "configure"
        BY <1>0, <3>2, StepFlow DEF OnScreen, ConfigureSteps, ConfigureStep
      <4>2. to \in ConfigureStep
        BY <2>2, <3>2, <4>1, Places, StepAt DEF Here, ConfigureStep
      <4> QED
        BY <3>2, <4>2 DEF Onward
    <3>3. CASE ui.step \in DeploySteps
      <4>1. ui.flow = "deploy"
        BY <1>0, <3>3, StepFlow DEF OnScreen
      <4>2. ui.step = "stream" /\ to = "finish"
        BY <2>2, <3>3, <4>1, Places, StepAt DEF Here, DeploySteps
      <4> QED
        BY <4>2 DEF Onward
    <3>4. CASE ui.step \in ManageSteps
      <4>1. ui.flow = "manage" /\ Len(StepsOf(ui.flow)) = 7
        BY <1>0, <3>4, StepFlow, StepAt DEF OnScreen
      <4>2. \A i \in Here + 1..7 : i \in Ahead(s) <=> Shown(StepsOf("manage")[i], s)
        BY <2>3, <4>1
      <4>3. CASE ui.step \in EarlyStep
        <5>1. Here \in 1..3
          BY <4>1, <4>3, Places DEF Here, EarlyStep
        <5>2. 4 \in Ahead(s)
          BY <4>2, <5>1, StepAt, ShownAre
        <5>3. k \in 2..4
          BY <2>2, <5>1, <5>2, <4>1
        <5>4. to \in {"target", "params", "preview"}
          BY <4>1, <5>3, StepAt
        <5> QED
          BY <4>3, <5>4 DEF Onward
      <4>4. CASE ui.step = "preview"
        <5>1. Here = 4
          BY <4>1, <4>4, Places DEF Here
        <5>2. /\ 5 \in Ahead(s) <=> (s.proceed /\ s.plan.req.op = "remove")
              /\ 6 \in Ahead(s) <=> s.proceed
              /\ 7 \in Ahead(s) <=> s.proceed
          BY <4>2, <5>1, StepAt, ShownAre
        <5>3. k \in 5..7
          BY <2>2, <5>1, <4>1
        <5>4. s.proceed /\ k = IF s.plan.req.op = "remove" THEN 5 ELSE 6
          BY <2>2, <5>2, <5>3
        <5>5. to = IF s.plan.req.op = "remove" THEN "confirm" ELSE "exec"
          BY <4>1, <5>4, StepAt
        <5> QED
          BY <4>4, <5>4, <5>5 DEF Onward
      <4>5. CASE ui.step = "confirm"
        <5>1. Here = 5
          BY <4>1, <4>5, Places DEF Here
        <5>2. /\ 6 \in Ahead(s) <=> s.proceed
              /\ 7 \in Ahead(s) <=> s.proceed
          BY <4>2, <5>1, StepAt, ShownAre
        <5>3. k \in 6..7
          BY <2>2, <5>1, <4>1
        <5>4. s.proceed /\ k = 6
          BY <2>2, <5>2, <5>3
        <5>5. to = "exec"
          BY <4>1, <5>4, StepAt
        <5> QED
          BY <4>5, <5>4, <5>5 DEF Onward
      <4>6. CASE ui.step = "exec"
        <5>1. k = 7
          BY <2>2, <4>1, <4>6, Places DEF Here
        <5> QED
          BY <4>1, <4>6, <5>1, StepAt DEF Onward
      <4>7. CASE ui.step = "done"
        BY <2>2, <4>1, <4>7, Places DEF Here
      <4> QED
        BY <3>4, <4>3, <4>4, <4>5, <4>6, <4>7 DEF ManageSteps, EarlyStep
    <3> QED
      BY <1>0, <3>1, <3>2, <3>3, <3>4, StepSets DEF Ui, ConfigureSteps, ConfigureStep
  <2> HIDE DEF to
  <2> QED
    BY <2>4, <2>5, <2>6
<1> QED
  BY <1>1, <1>2, <1>3

\* Where esc and the preview's way back lead.
Backward(from, to) ==
    \/ from \in ConfigureStep /\ to \in ConfigureSteps
    \/ from \in {"target", "params", "preview"} /\ to \in EarlyStep
    \/ from = "confirm" /\ to \in EarlyStep \cup {"preview"}

LEMMA PreviousGoes ==
    ASSUME Well, Running, NEW rest \in SUBSET msgs, GoToPreviousStep(rest),
           ui.step \notin {"exec", "done", "stream", "finish"}
    PROVE  \/ StayPut(rest)
           \/ \E target : Visits(target, st, rest) /\ Backward(ui.step, target.step)
<1>0. ui \in Ui /\ OnScreen(ui)
  BY DEF Well, WizardTypeOK, Screens
<1>1. CASE Here = 1 \/ (~ui.toReview /\ Behind = {})
  BY <1>1, Zenon DEF GoToPreviousStep
<1>2. CASE Here # 1 /\ ui.toReview
  <2>1. Arrive([At1("review") EXCEPT !.toReview = FALSE], st, rest)
    BY <1>2, Zenon DEF GoToPreviousStep
  <2>2. ui.step \in {"basics", "advanced"}
    BY <1>0, <1>2 DEF OnScreen
  <2>3. "review" \in Range(StepsOf(ui.flow))
    BY <1>0, <2>2, StepFlow, StepSets DEF OnScreen, ConfigureSteps
  <2> DEFINE u == [At1("review") EXCEPT !.toReview = FALSE]
  <2>4. u.step = "review" /\ (Arrive(u, st, rest) => Visits(u, st, rest))
    BY <2>3, Visitable, Zenon
  <2> HIDE DEF u
  <2>5. Backward(ui.step, u.step)
    BY <2>2, <2>4 DEF Backward, ConfigureStep, ConfigureSteps
  <2> QED
    BY <2>1, <2>4, <2>5, Zenon DEF u
<1>3. CASE Here # 1 /\ ~ui.toReview /\ Behind # {}
  <2> DEFINE k == Max(Behind)
             to == StepsOf(ui.flow)[k]
  <2>1. Arrive(At1(to), st, rest)
    BY <1>3, Zenon DEF GoToPreviousStep
  <2>2. to \in Range(StepsOf(ui.flow)) /\ k \in 1..Here - 1
    BY <1>3, BehindIn
  <2> HIDE DEF k
  <2>3. Visits(At1(to), st, rest)
    BY <1>3, <2>1, <2>2, Visitable
  <2>4. At1(to).step = to
    BY <1>0, <2>2, <2>3, AtTyped, StepSets DEF Ui, Flow
  <2>5. Backward(ui.step, to)
    <3>1. CASE ui.step \in ConfigureSteps
      <4>1. ui.flow = "configure"
        BY <1>0, <3>1, StepFlow DEF OnScreen
      <4>2. ui.step # "welcome"
        BY <1>3, <4>1, Places DEF Here
      <4> QED
        BY <2>2, <3>1, <4>1, <4>2, StepSets DEF Backward, ConfigureStep, ConfigureSteps
    <3>2. CASE ui.step \in ManageSteps
      <4>1. ui.flow = "manage"
        BY <1>0, <3>2, StepFlow DEF OnScreen
      <4>2. ui.step \in {"target", "params", "preview", "confirm"}
        BY <1>3, <3>2, <4>1, Places DEF Here, ManageSteps
      <4>3. ui.step \in {"target", "params", "preview"} => k \in 1..3
        BY <2>2, <4>1, Places DEF Here
      <4>4. ui.step = "confirm" => k \in 1..4
        BY <2>2, <4>1, Places DEF Here
      <4>5. \A i \in 1..3 : StepsOf("manage")[i] \in EarlyStep
        BY StepAt DEF EarlyStep
      <4>6. \A i \in 1..4 : StepsOf("manage")[i] \in EarlyStep \cup {"preview"}
        BY StepAt DEF EarlyStep
      <4> QED
        BY <4>1, <4>2, <4>3, <4>4, <4>5, <4>6 DEF Backward
    <3> QED
      BY <1>0, <3>1, <3>2, StepSets DEF Ui, DeploySteps
  <2> HIDE DEF to
  <2> QED
    BY <2>3, <2>4, <2>5
<1> QED
  BY <1>1, <1>2, <1>3


-----------------------------------------------------------------------------
(* Types: the keys *)

SameScreen(u) ==
    /\ u.phase = ui.phase /\ u.flow = ui.flow /\ u.step = ui.step
    /\ u.suspended = ui.suspended /\ u.toReview = ui.toReview /\ u.live = ui.live

LEMMA Steady ==
    ASSUME Well, SameScreen(ui'), IsFiniteSet(msgs'),
           \A m \in msgs' : m \in msgs \/ (Running /\ Belongs(m))
    PROVE  Screens'
<1>1. Running' <=> Running
  BY DEF SameScreen, Running
<1>2. \A m : Belongs(m) => Belongs(m)'
  BY DEF SameScreen, Belongs
<1>3. OnScreen(ui) => OnScreen(ui')
  BY DEF SameScreen, OnScreen
<1> QED
  BY <1>1, <1>2, <1>3 DEF Well, Screens, OnScreen

LEMMA SteadyEasy ==
    ASSUME Well, SameScreen(ui'), msgs' \subseteq msgs
    PROVE  Screens' /\ msgs' \subseteq Message
BY Steady, FS_Subset DEF Well, Screens, WizardTypeOK

LEMMA MoreMessages ==
    ASSUME Well, Running, NEW m \in Message, Belongs(m), msgs' = msgs \cup {m}, SameScreen(ui')
    PROVE  Screens' /\ msgs' \subseteq Message
<1>1. IsFiniteSet(msgs')
  BY FS_AddElement DEF Well, Screens
<1> QED
  BY <1>1, Steady DEF Well, WizardTypeOK

LEMMA Signalled ==
    ASSUME Well, NEW kind \in {"complete", "back", "open"},
           kind = "back" => ui.step = "preview", kind = "open" => ui.step = "welcome"
    PROVE  Signal(kind) \in Message /\ Belongs(Signal(kind)) /\ Signal(kind).kind = kind
           /\ Signal(kind).fresh
<1>1. ui.step \in StepId
  BY DEF Well, WizardTypeOK, Ui
<1>2. Signal(kind) \in Message /\ Signal(kind).kind = kind /\ Signal(kind).fresh
  BY <1>1, MsgTyped, Blanks DEF Signal
<1> QED
  BY <1>2 DEF Belongs, Opens

\* A key that sends one message: the rest of the state keeps its types.
LEMMA Answers ==
    ASSUME Well, Running, NEW m \in Message, Belongs(m), Returns(m), st' \in State,
           consent' \in [plan : Plan, typed : BOOLEAN]
    PROVE  Well'
<1>1. /\ msgs' = msgs \cup {m}
      /\ UNCHANGED <<program, ui, conf, session, slot, dep, operation, world>>
  BY DEF Returns
<1>2. Screens' /\ msgs' \subseteq Message
  BY <1>1, MoreMessages DEF SameScreen
<1>3. WizardTypeOK'
  BY <1>1, <1>2 DEF Well, WizardTypeOK, operation
<1> QED
  BY <1>2, <1>3 DEF Well

LEMMA WellHubKeys ==
    ASSUME Well, HubKeys
    PROVE  Well'
<1>1. ASSUME NEW v \in Verb, ConfirmVerb(v) PROVE Well'
  <2> DEFINE kind == IF v = "manage" THEN "open" ELSE "complete"
  <2>1. /\ Running /\ ui.step = "welcome"
        /\ ui' = [ui EXCEPT !.verb = v, !.opening = v = "manage"]
        /\ msgs' = msgs \cup {Signal(kind)}
        /\ UNCHANGED <<program, conf, st, consent, session, slot, dep, operation, world>>
    BY <1>1 DEF ConfirmVerb, Press
  <2>2. kind \in {"complete", "open"}
    OBVIOUS
  <2> HIDE DEF kind
  <2>3. Signal(kind) \in Message /\ Belongs(Signal(kind))
    BY <2>1, <2>2, Signalled
  <2>4. ui' \in Ui /\ SameScreen(ui')
    BY <2>1 DEF Well, WizardTypeOK, Ui, SameScreen
  <2>5. Screens' /\ msgs' \subseteq Message
    BY <2>1, <2>3, <2>4, MoreMessages
  <2> QED
    BY <2>1, <2>4, <2>5 DEF Well, WizardTypeOK, operation
<1>2. CASE FinishExit \/ SubmitForm
  <2>1. Running /\ Returns(Signal("complete")) /\ UNCHANGED <<st, consent>>
    BY <1>2 DEF FinishExit, SubmitForm, Press
  <2>2. Signal("complete") \in Message /\ Belongs(Signal("complete"))
    BY Signalled
  <2> QED
    BY <2>1, <2>2, Answers DEF Well, WizardTypeOK
<1>3. CASE FinishManage
  <2> DEFINE n == Cardinality(Opening)
             m == Msg("open", "finish", NoRequest, n)
  <2>1. Running /\ ui.step = "finish" /\ Returns(m) /\ UNCHANGED <<st, consent>>
    BY <1>3 DEF FinishManage, Press
  <2>2. n \in Nat
    BY FS_Subset, FS_CardinalityType DEF Opening, Well, Screens
  <2> HIDE DEF n
  <2>3. m \in Message /\ m.kind = "open" /\ m.fresh
    <3>1. "finish" \in StepId /\ NoRequest \in Request
      BY StepSets, Blanks DEF DeploySteps
    <3> QED
      BY <2>2, <3>1, MsgTyped
  <2> HIDE DEF m
  <2>4. Belongs(m)
    BY <2>1, <2>3 DEF Belongs
  <2> QED
    BY <2>1, <2>3, <2>4, Answers DEF Well, WizardTypeOK
<1>4. CASE EditField
  <2>1. PICK d \in Drafts : conf' = [conf EXCEPT !.draft = d]
    BY <1>4 DEF EditField
  <2>2. UNCHANGED <<program, ui, msgs, st, consent, session, slot, dep, operation, world>>
    BY <1>4 DEF EditField
  <2>3. Screens'
    BY <2>2, SteadyEasy DEF SameScreen
  <2> QED
    BY <2>1, <2>2, <2>3 DEF Well, WizardTypeOK, operation
<1>5. CASE ReviewJump
  <2>1. PICK i \in {1, 2} : Returns(Msg("jump", "review", NoRequest, i))
    BY <1>5 DEF ReviewJump
  <2> DEFINE m == Msg("jump", "review", NoRequest, i)
  <2>2. Running /\ ui.step = "review" /\ Returns(m) /\ UNCHANGED <<st, consent>>
    BY <1>5, <2>1 DEF ReviewJump, Press
  <2>3. m \in Message /\ m.kind = "jump" /\ m.fresh /\ m.n = i
    BY MsgTyped, Blanks, StepSets DEF ConfigureSteps
  <2> HIDE DEF m
  <2>4. Belongs(m)
    BY <2>2, <2>3 DEF Belongs, Opens
  <2> QED
    BY <2>2, <2>3, <2>4, Answers DEF Well, WizardTypeOK
<1>6. CASE ReviewConfirm
  <2>1. PICK a \in {"deploy", "exit"} : ui' = [ui EXCEPT !.choice = a]
    BY <1>6 DEF ReviewConfirm
  <2>2. /\ Running /\ msgs' = msgs \cup {Signal("complete")}
        /\ UNCHANGED <<program, conf, st, consent, session, slot, dep, operation, world>>
    BY <1>6 DEF ReviewConfirm, Press
  <2>3. Signal("complete") \in Message /\ Belongs(Signal("complete"))
    BY Signalled
  <2>4. ui' \in Ui /\ SameScreen(ui')
    BY <2>1 DEF Well, WizardTypeOK, Ui, SameScreen
  <2>5. Screens' /\ msgs' \subseteq Message
    BY <2>2, <2>3, <2>4, MoreMessages
  <2> QED
    BY <2>2, <2>4, <2>5 DEF Well, WizardTypeOK, operation
<1> QED
  BY <1>1, <1>2, <1>3, <1>4, <1>5, <1>6 DEF HubKeys

LEMMA WellManageKeys ==
    ASSUME Well, ManageKeys
    PROVE  Well'
<1>0. st \in State /\ consent \in [plan : Plan, typed : BOOLEAN] /\ st.plan \in Plan
  BY DEF Well, WizardTypeOK, State
<1>1. Signal("complete") \in Message /\ Belongs(Signal("complete"))
  BY Signalled
<1>2. CASE PressEnter
  <2>1. Running /\ Returns(Signal("complete")) /\ UNCHANGED <<st, consent>>
    BY <1>2 DEF PressEnter, Press
  <2> QED
    BY <2>1, <1>0, <1>1, Answers
<1>3. CASE PressRefresh
  <2> DEFINE m == Msg("list", "target", Requested(st), 0)
  <2>1. /\ Running /\ ui.step = "target" /\ st' = [st EXCEPT !.list = "loading"]
        /\ Returns(m) /\ UNCHANGED consent
    BY <1>3 DEF PressRefresh, Press
  <2>2. Requested(st) \in Request
    BY <1>0, RequestedTyped
  <2>3. m \in Message /\ m.kind = "list" /\ m.fresh
    <3> DEFINE r == Requested(st)
    <3>1. "target" \in StepId /\ r \in Request /\ 0 \in Nat
      BY <2>2, StepSets DEF ManageSteps
    <3> HIDE DEF r
    <3>2. Msg("list", "target", r, 0) \in Message /\ Msg("list", "target", r, 0).kind = "list"
          /\ Msg("list", "target", r, 0).fresh
      BY <3>1, MsgTyped
    <3> QED
      BY <3>2 DEF r
  <2> HIDE DEF m
  <2>4. Belongs(m)
    BY <2>1, <2>3 DEF Belongs, Opens
  <2>5. st' \in State
    BY <1>0, <2>1 DEF State
  <2> QED
    BY <1>0, <2>1, <2>3, <2>4, <2>5, Answers
<1>4. CASE ReachBottom
  <2>1. /\ st' = [st EXCEPT !.seen = TRUE]
        /\ UNCHANGED <<program, ui, msgs, conf, consent, session, slot, dep, operation, world>>
    BY <1>4 DEF ReachBottom
  <2>2. Screens'
    BY <2>1, SteadyEasy DEF SameScreen
  <2>3. st' \in State
    BY <1>0, <2>1 DEF State
  <2> QED
    BY <2>1, <2>2, <2>3 DEF Well, WizardTypeOK, operation
<1>5. CASE PressExecute
  <2>1. /\ Running /\ Returns(Signal("complete")) /\ st' = [st EXCEPT !.proceed = TRUE]
        /\ consent' = [plan |-> st.plan, typed |-> FALSE]
    BY <1>5 DEF PressExecute, PreviewKeys, Press
  <2>2. st' \in State /\ consent' \in [plan : Plan, typed : BOOLEAN]
    BY <1>0, <2>1 DEF State
  <2> QED
    BY <2>1, <2>2, <1>1, Answers
<1>6. CASE PressBackToParams
  <2>1. Running /\ ui.step = "preview" /\ Returns(Signal("back")) /\ UNCHANGED <<st, consent>>
    BY <1>6 DEF PressBackToParams, PreviewKeys, Press
  <2>2. Signal("back") \in Message /\ Belongs(Signal("back"))
    BY <2>1, Signalled
  <2> QED
    BY <2>1, <2>2, <1>0, Answers
<1>7. CASE PressExit
  <2>1. Running /\ Returns(Signal("complete")) /\ st' = [st EXCEPT !.exitChosen = TRUE]
        /\ UNCHANGED consent
    BY <1>7 DEF PressExit, PreviewKeys, Press
  <2>2. st' \in State
    BY <1>0, <2>1 DEF State
  <2> QED
    BY <2>1, <2>2, <1>0, <1>1, Answers
<1>8. CASE TypeName
  <2>1. Running /\ Returns(Signal("complete")) /\ consent' = [consent EXCEPT !.typed = TRUE]
        /\ UNCHANGED st
    BY <1>8 DEF TypeName, Press
  <2>2. consent' \in [plan : Plan, typed : BOOLEAN]
    BY <1>0, <2>1
  <2> QED
    BY <2>1, <2>2, <1>0, <1>1, Answers
<1> QED
  BY <1>2, <1>3, <1>4, <1>5, <1>6, <1>7, <1>8 DEF ManageKeys


-----------------------------------------------------------------------------
(* Types: the moves *)

LEMMA VisitMoves ==
    ASSUME Well, Running, NEW s \in State, NEW rest \in SUBSET msgs, NEW target,
           Visits(target, s, rest)
    PROVE  Moved
<1>1. /\ target \in Ui /\ OnScreen(target) /\ target.phase = "running"
      /\ target.flow = ui.flow /\ Arrive(target, s, rest)
  BY DEF Visits
<1>2. target.step = "exec" => ui.live \in Session
  <2>1. target.step = "exec" => target.flow = "manage"
    BY <1>1, StepFlow DEF OnScreen, ManageSteps
  <2> QED
    BY <1>1, <2>1 DEF Well, Screens, OnScreen
<1> QED
  BY <1>1, <1>2, Arrival

LEMMA StayMoves ==
    ASSUME Well, Running, NEW rest \in SUBSET msgs, StayPut(rest)
    PROVE  Moved
<1>1. msgs' = rest /\ UNCHANGED <<ui, st, consent, session, operation>>
  BY DEF StayPut
<1>2. Screens' /\ msgs' \subseteq Message
  BY <1>1, SteadyEasy DEF SameScreen
<1> QED
  BY <1>1, <1>2 DEF Moved, Well, WizardTypeOK, operation

LEMMA ConcludedTyped ==
    ASSUME Well
    PROVE  Concluded \in Ui /\ SameScreen(Concluded)
<1> DEFINE a == IF ui.step = "review" THEN ui.choice
                ELSE IF ui.step = "welcome" /\ ui.verb = "deploy" THEN "deploy" ELSE "exit"
           u == [ui EXCEPT !.quit = TRUE, !.outcome = "completed", !.exitStep = ui.step, !.action = a]
<1>1. Concluded = u
  BY DEF Concluded
<1>2. ui \in Ui /\ ui.step \in StepId
  BY DEF Well, WizardTypeOK, Ui
<1>3. a \in {"deploy", "exit"}
  BY <1>2 DEF Ui
<1> HIDE DEF a
<1>4. u \in Ui
  BY <1>2, <1>3 DEF Ui
<1>5. SameScreen(u)
  BY <1>2 DEF Ui, SameScreen
<1> QED
  BY <1>1, <1>4, <1>5

LEMMA ConcludeMoves ==
    ASSUME Well, Running, NEW s \in State, NEW rest \in SUBSET msgs, Concludes1(s, rest)
    PROVE  Moved
<1>1. /\ ui' = Concluded /\ st' = s /\ msgs' = rest
      /\ UNCHANGED <<consent, session, operation>>
  BY DEF Concludes1
<1>2. ui' \in Ui /\ SameScreen(ui')
  BY <1>1, ConcludedTyped
<1>3. Screens' /\ msgs' \subseteq Message
  BY <1>1, <1>2, SteadyEasy
<1> QED
  BY <1>1, <1>2, <1>3 DEF Moved, Well, WizardTypeOK, operation

LEMMA NextMoves ==
    ASSUME Well, Running, NEW s \in State, NEW rest \in SUBSET msgs, GoToNextStep(s, rest)
    PROVE  Moved
BY NextGoes, VisitMoves, ConcludeMoves

LEMMA AppliedTyped ==
    ASSUME Well
    PROVE  Applied1 \subseteq State
<1>0. st \in State
  BY DEF Well, WizardTypeOK
<1>1. OpChoices(st) \subseteq State
  <2> SUFFICES ASSUME NEW s \in OpChoices(st) PROVE s \in State
    OBVIOUS
  <2>1. PICK op \in OpsOffered :
           s = OpApplied(op, st) \/ \E target \in Recorded(op) : s = Resumed(op, target, st)
    BY DEF OpChoices
  <2>2. op \in Ops /\ Recorded(op) \subseteq {None, "role", "node"}
    BY Constants DEF OpsOffered, Recorded, Offered
  <2>3. 1 \in Asks \cup {0}
    BY Constants
  <2>4. OpApplied(op, st) \in State
    BY <1>0, <2>2 DEF OpApplied, State
  <2>5. \A target \in {None, "role", "node"} : Resumed(op, target, st) \in State
    BY <1>0, <2>2, <2>3 DEF Resumed, State
  <2> QED
    BY <2>1, <2>2, <2>4, <2>5
<1>2. TargetChoices(st) \subseteq State
  <2>1. \A c \in Offered(st.list) : Picked(st.op, c) \in {None, "role", "node"}
    BY DEF Picked, Offered
  <2>2. \A t \in {None, "role", "node"} : [st EXCEPT !.target = t] \in State
    BY <1>0 DEF State
  <2> QED
    BY <1>0, <2>1, <2>2 DEF TargetChoices
<1>3. ParamChoices(st) \subseteq State
  <2>1. \A a \in Asks : [st EXCEPT !.ask = a] \in State
    BY <1>0 DEF State
  <2> QED
    BY <2>1, Constants DEF ParamChoices
<1> QED
  BY <1>0, <1>1, <1>2, <1>3 DEF Applied1


LEMMA JumpMoves ==
    ASSUME Well, Running, ui.step = "review", NEW step \in FormStep, NEW rest \in SUBSET msgs
    PROVE  LET u == [At1(step) EXCEPT !.toReview = TRUE]
           IN  /\ u \in Ui /\ OnScreen(u) /\ u.phase = "running" /\ u.step = step
               /\ u.verb = ui.verb /\ u.live = ui.live /\ u.suspended = ui.suspended
               /\ u.flow = ui.flow /\ ui.flow = "configure"
               /\ JumpToStep(step, rest) => Arrive(u, st, rest) /\ Moved
<1> DEFINE a == At1(step)
           u == [a EXCEPT !.toReview = TRUE]
<1>1. ui \in Ui /\ OnScreen(ui) /\ st \in State /\ step \in StepId
  BY StepSets DEF Well, WizardTypeOK, Screens, FormStep, ConfigureSteps
<1>2. ui.flow = "configure"
  BY <1>1, StepFlow DEF OnScreen, ConfigureSteps
<1>3. /\ a \in Ui /\ a.step = step /\ a.flow = ui.flow /\ a.live = ui.live
      /\ a.suspended = ui.suspended /\ a.verb = ui.verb /\ a.phase = ui.phase
  BY <1>1, AtTyped
<1> HIDE DEF a
<1>4. /\ u \in Ui /\ u.step = step /\ u.flow = ui.flow /\ u.live = ui.live
      /\ u.suspended = ui.suspended /\ u.verb = ui.verb /\ u.phase = ui.phase /\ u.toReview
  BY <1>3 DEF Ui
<1>5. JumpToStep(step, rest) => Arrive(u, st, rest)
  BY DEF JumpToStep, a
<1> HIDE DEF u
<1>6. OnScreen(u)
  BY <1>1, <1>2, <1>4, StepSets DEF OnScreen, FormStep, ConfigureSteps
<1>7. JumpToStep(step, rest) => Moved
  BY <1>1, <1>4, <1>5, <1>6, Arrival DEF Running, FormStep
<1> QED
  BY <1>2, <1>4, <1>5, <1>6, <1>7 DEF u, a, Running

Swapped(n) ==
    [ui EXCEPT !.flow = "manage", !.step = "op", !.toReview = FALSE, !.live = n,
               !.interrupted = FALSE, !.suspended = [flow |-> ui.flow, step |-> ui.step]]

LEMMA SwapMoves ==
    ASSUME Well, Running, NEW n \in Session, ui.step \in {"welcome", "finish"},
           NEW rest \in SUBSET msgs, SwapFlow(n, rest)
    PROVE  /\ Moved
           /\ \E marker \in BOOLEAN : Arrive(Swapped(n), FreshState(marker), rest)
           /\ Swapped(n).flow = "manage" /\ Swapped(n).step = "op" /\ Swapped(n).live = n
           /\ Swapped(n).suspended # NoPlace /\ Swapped(n).phase = "running"
           /\ Swapped(n).verb = ui.verb
<1> DEFINE place == [flow |-> ui.flow, step |-> ui.step]
           u == [ui EXCEPT !.flow = "manage", !.step = "op", !.toReview = FALSE, !.live = n,
                           !.interrupted = FALSE, !.suspended = place]
<1>1. ui \in Ui /\ OnScreen(ui)
  BY DEF Well, WizardTypeOK, Screens
<1>2. ui.flow # "manage" /\ place \in Doors
  <2>1. CASE ui.step = "welcome"
    BY <1>1, <2>1, StepFlow DEF OnScreen, ConfigureSteps, Doors
  <2>2. CASE ui.step = "finish"
    BY <1>1, <2>2, StepFlow DEF OnScreen, DeploySteps, Doors
  <2> QED
    BY <2>1, <2>2
<1>3. ui.suspended = NoPlace
  BY <1>1, <1>2 DEF OnScreen
<1>4. PICK marker \in Markers : Arrive(u, FreshState(marker), rest)
  BY <1>3, Zenon DEF SwapFlow
<1>5. "op" \in StepId /\ "op" \in Range(StepsOf("manage")) /\ "manage" \in Flow
      /\ n \in 0..MaxSessions /\ place \in [flow : Flow, step : StepId] /\ place # NoPlace
  <2>1. "op" \in StepId /\ "op" \in Range(StepsOf("manage")) /\ "manage" \in Flow
        /\ n \in 0..MaxSessions /\ place \in [flow : Flow, step : StepId]
    BY <1>1, StepSets, Constants DEF ManageSteps, Flow, Session, Ui
  <2>2. place # NoPlace
    BY <1>2 DEF Doors, NoPlace, None
  <2> QED
    BY <2>1, <2>2
<1>6. FreshState(marker) \in State /\ marker \in BOOLEAN
  BY FreshTyped, Constants
<1> HIDE DEF place
<1>7. u \in Ui
  BY <1>1, <1>5 DEF Ui
<1>8. /\ u.flow = "manage" /\ u.step = "op" /\ ~u.toReview /\ u.live = n /\ u.suspended = place
      /\ u.phase = ui.phase /\ u.verb = ui.verb
  BY <1>1 DEF Ui
<1>9. u = Swapped(n)
  BY Zenon DEF Swapped, place
<1> HIDE DEF u
<1>10. OnScreen(u)
  BY <1>2, <1>5, <1>8 DEF OnScreen
<1>11. Moved
  BY <1>4, <1>6, <1>7, <1>8, <1>10, Arrival DEF Running
<1> QED
  BY <1>4, <1>5, <1>6, <1>8, <1>9, <1>11 DEF Running

Restored ==
    [ui EXCEPT !.flow = ui.suspended.flow, !.step = ui.suspended.step, !.live = 0,
               !.toReview = FALSE, !.suspended = NoPlace, !.opening = FALSE]

LEMMA RestoreMoves ==
    ASSUME Well, Running, ui.suspended # NoPlace, RestoreFlow
    PROVE  /\ Moved /\ Arrive(Restored, Idle, msgs)
           /\ ui.flow = "manage" /\ Restored.step \in {"welcome", "finish"}
           /\ Restored.flow # "manage" /\ Restored.suspended = NoPlace
           /\ Restored.phase = "running" /\ ~Restored.opening
<1> DEFINE f == ui.suspended.flow
           p == ui.suspended.step
           u == [ui EXCEPT !.flow = f, !.step = p, !.live = 0,
                           !.toReview = FALSE, !.suspended = NoPlace, !.opening = FALSE]
<1>1. ui \in Ui /\ OnScreen(ui) /\ ui.flow = "manage" /\ ui.suspended \in Doors
  BY DEF Well, WizardTypeOK, Screens, OnScreen
<1>2. \/ f = "configure" /\ p = "welcome"
      \/ f = "deploy" /\ p = "finish"
  BY <1>1 DEF Doors
<1>3. Arrive(u, Idle, msgs)
  BY DEF RestoreFlow
<1>4. u = Restored
  BY Zenon DEF Restored
<1>5. f \in Flow /\ p \in StepId /\ 0 \in 0..MaxSessions /\ p \in Range(StepsOf(f))
  BY <1>2, StepSets, Constants DEF Flow, ConfigureSteps, DeploySteps
<1> HIDE DEF f, p
<1>6. u \in Ui
  BY <1>1, <1>5 DEF Ui
<1>7. /\ u.flow = f /\ u.step = p /\ u.live = 0 /\ ~u.toReview /\ u.suspended = NoPlace
      /\ ~u.opening /\ u.phase = ui.phase
  BY <1>1 DEF Ui
<1> HIDE DEF u
<1>8. OnScreen(u)
  BY <1>2, <1>5, <1>7 DEF OnScreen
<1>9. Idle \in State
  BY FreshTyped DEF Idle
<1>10. Moved
  BY <1>2, <1>3, <1>6, <1>7, <1>8, <1>9, Arrival DEF Running
<1> QED
  BY <1>1, <1>2, <1>3, <1>4, <1>7, <1>10 DEF Running

LEMMA MovesKeep ==
    ASSUME Well, Moved, UNCHANGED <<program, conf, slot, dep, world>>
    PROVE  Well'
BY DEF Well, WizardTypeOK, Moved

LEMMA ReceivedMoves ==
    ASSUME Well, Running, NEW m \in msgs, Received(m)
    PROVE  Moved
<1> DEFINE rest == msgs \ {m}
<1>0. rest \in SUBSET msgs /\ Belongs(m) /\ ui \in Ui /\ OnScreen(ui)
  BY DEF Well, Screens, WizardTypeOK
<1> HIDE DEF rest
<1>1. CASE m.kind = "complete" /\ \E s \in Applied1 : GoToNextStep(s, rest)
  BY <1>0, <1>1, AppliedTyped, NextMoves
<1>2. CASE m.kind = "complete" /\ ui.step \in FormStep /\ StayPut(rest)
  BY <1>0, <1>2, StayMoves
<1>3. CASE m.kind = "back" /\ GoToPreviousStep(rest)
  <2>1. ui.step = "preview"
    BY <1>0, <1>3 DEF Belongs
  <2>2. st \in State
    BY DEF Well, WizardTypeOK
  <2> QED
    BY <1>0, <1>3, <2>1, <2>2, PreviousGoes, StayMoves, VisitMoves
<1>4. CASE m.kind = "jump" /\ JumpToStep(<<"basics", "advanced">>[m.n], rest)
  <2>1. ui.step = "review" /\ m.n \in {1, 2}
    BY <1>0, <1>4 DEF Belongs
  <2> DEFINE step == <<"basics", "advanced">>[m.n]
  <2>2. step \in FormStep
    BY <2>1 DEF FormStep
  <2> HIDE DEF step
  <2>3. JumpToStep(step, rest)
    BY <1>4 DEF step
  <2> QED
    BY <1>0, <2>1, <2>2, <2>3, JumpMoves
<1>5. CASE m.kind = "swap" /\ SwapFlow(m.n, rest)
  <2>1. ui.step \in {"welcome", "finish"} /\ m.n \in Session
    BY <1>0, <1>5 DEF Belongs, Opens
  <2> QED
    BY <1>0, <1>5, <2>1, SwapMoves
<1>6. CASE /\ m.kind = "openfailed"
           /\ ui' = [ui EXCEPT !.opening = FALSE] /\ msgs' = rest
           /\ UNCHANGED <<st, consent, session, operation>>
  <2>1. ui' \in Ui /\ SameScreen(ui')
    BY <1>0, <1>6 DEF Ui, SameScreen
  <2>2. Screens' /\ msgs' \subseteq Message
    BY <1>0, <1>6, <2>1, SteadyEasy
  <2> QED
    BY <1>6, <2>1, <2>2 DEF Moved, Well, WizardTypeOK, operation
<1> QED
  BY <1>1, <1>2, <1>3, <1>4, <1>5, <1>6 DEF Received, rest

LEMMA EscMoves ==
    ASSUME Well, PressEsc
    PROVE  Moved
<1>1. Running /\ ui.step \notin {"exec", "done", "stream", "finish"}
  BY DEF PressEsc, InterceptsBack, ExecStep
<1>2. CASE GoToPreviousStep(msgs)
  <2>1. st \in State
    BY DEF Well, WizardTypeOK
  <2> QED
    BY <1>1, <1>2, <2>1, PreviousGoes, StayMoves, VisitMoves
<1>3. CASE ui.suspended # NoPlace /\ RestoreFlow
  BY <1>1, <1>3, RestoreMoves
<1> QED
  BY <1>2, <1>3 DEF PressEsc

LEMMA WellMoves ==
    ASSUME Well, PressEsc \/ Deliver
    PROVE  Well'
<1>1. CASE PressEsc
  <2>1. UNCHANGED <<program, conf, slot, dep, world>>
    BY <1>1 DEF PressEsc
  <2> QED
    BY <1>1, <2>1, EscMoves, MovesKeep
<1>2. ASSUME Running, NEW m \in msgs, Received(m), UNCHANGED <<program, conf, slot, dep, world>>
      PROVE  Well'
  BY <1>2, ReceivedMoves, MovesKeep
<1>3. ASSUME Running, NEW m \in msgs, NodesLoaded(m) PROVE Well'
  <2>1. /\ st' = [st EXCEPT !.list = IF m.ok THEN st.op ELSE "failed"]
        /\ msgs' = msgs \ {m}
        /\ UNCHANGED <<program, ui, conf, consent, session, slot, dep, operation, world>>
    BY <1>3 DEF NodesLoaded, Taken
  <2>2. (IF m.ok THEN st.op ELSE "failed") \in {None, "loading", "failed"} \cup Ops
        /\ st \in State
    BY DEF Well, WizardTypeOK, State
  <2>3. st' \in State
    BY <2>1, <2>2 DEF State
  <2>4. Screens' /\ msgs' \subseteq Message
    BY <2>1, SteadyEasy DEF SameScreen
  <2> QED
    BY <2>1, <2>3, <2>4 DEF Well, WizardTypeOK, operation
<1>4. ASSUME Running, NEW m \in msgs, DryRunDone(m) PROVE Well'
  <2> DEFINE p == IF m.ok THEN [req |-> m.req, world |-> m.world] ELSE NoPlan
             a == IF m.ok THEN "done" ELSE "failed"
  <2>1. /\ m.kind = "dryran" /\ st' = [st EXCEPT !.phase = a, !.plan = p]
        /\ msgs' = msgs \ {m}
        /\ UNCHANGED <<program, ui, conf, consent, session, slot, dep, operation, world>>
    BY <1>4 DEF DryRunDone, Taken
  <2>2. m \in Message /\ st \in State
    BY <1>4 DEF Well, WizardTypeOK
  <2>3. p \in Plan /\ a \in {"running", "failed", "done"}
    BY <2>2, Blanks DEF Plan, Message
  <2> HIDE DEF p, a
  <2>4. st' \in State
    BY <2>1, <2>2, <2>3 DEF State
  <2>5. Screens' /\ msgs' \subseteq Message
    BY <2>1, SteadyEasy DEF SameScreen
  <2> QED
    BY <2>1, <2>4, <2>5 DEF Well, WizardTypeOK, operation
<1> QED
  BY <1>1, <1>2, <1>3, <1>4 DEF Deliver


-----------------------------------------------------------------------------
(* Types: what runs beside the keys *)

LEMMA WellShell ==
    ASSUME Well, PressCtrlC \/ AnswerDiscard
    PROVE  Well'
<1>0. ui \in Ui /\ eng \in Engine
  BY DEF Well, WizardTypeOK
<1>1. Quitting \in Ui /\ SameScreen(Quitting)
  BY <1>0 DEF Quitting, Ui, SameScreen
<1>4. /\ [ui EXCEPT !.interrupted = TRUE] \in Ui /\ SameScreen([ui EXCEPT !.interrupted = TRUE])
      /\ [ui EXCEPT !.asked = TRUE] \in Ui /\ SameScreen([ui EXCEPT !.asked = TRUE])
      /\ [ui EXCEPT !.asked = FALSE] \in Ui /\ SameScreen([ui EXCEPT !.asked = FALSE])
  BY <1>0 DEF Ui, SameScreen
<1>2. CASE PressCtrlC
  <2>1. /\ ui' = [ui EXCEPT !.interrupted = TRUE] \/ ui' = [ui EXCEPT !.asked = TRUE] \/ ui' = Quitting
        /\ eng' = [eng EXCEPT !.cancel = TRUE] \/ eng' = eng
        /\ UNCHANGED <<program, msgs, conf, st, consent, session, slot, dep, feed, listener, rows, world>>
    BY <1>2 DEF PressCtrlC
  <2>2. ui' \in Ui /\ SameScreen(ui')
    BY <1>1, <1>4, <2>1
  <2>3. eng' \in Engine
    BY <1>0, <2>1 DEF Engine
  <2>4. Screens'
    BY <2>1, <2>2, SteadyEasy
  <2> QED
    BY <2>1, <2>2, <2>3, <2>4 DEF Well, WizardTypeOK
<1>3. CASE AnswerDiscard
  <2>1. /\ ui' = [ui EXCEPT !.asked = FALSE] \/ ui' = Quitting
        /\ UNCHANGED <<program, msgs, conf, st, consent, session, slot, dep, operation, world>>
    BY <1>3 DEF AnswerDiscard
  <2>2. ui' \in Ui /\ SameScreen(ui')
    BY <1>1, <1>4, <2>1
  <2>4. Screens'
    BY <2>1, <2>2, SteadyEasy
  <2> QED
    BY <2>1, <2>2, <2>4 DEF Well, WizardTypeOK, operation
<1> QED
  BY <1>2, <1>3

LEMMA WellWork ==
    ASSUME Well, ManageWork
    PROVE  Well'
<1>1. ASSUME NEW m \in msgs, NEW a \in Message, m.kind # "open",
             Running => Belongs(a), Becomes(m, a)
      PROVE  Well'
  <2>1. /\ msgs' = (msgs \ {m}) \cup {a}
        /\ UNCHANGED <<program, ui, conf, st, consent, session, slot, dep, operation, world>>
    BY <1>1 DEF Becomes
  <2>2. Running
    BY <1>1 DEF Well, Screens
  <2>3. IsFiniteSet(msgs')
    BY <2>1, FS_Subset, FS_AddElement DEF Well, Screens
  <2>4. Screens'
    BY <1>1, <2>1, <2>2, <2>3, Steady DEF SameScreen
  <2> QED
    BY <1>1, <2>1, <2>4 DEF Well, WizardTypeOK, operation
<1>2. CASE ListNodes
  <2>1. PICK m \in msgs, ok \in BOOLEAN :
           m.kind = "list" /\ Becomes(m, [m EXCEPT !.kind = "listed", !.ok = ok])
    BY <1>2 DEF ListNodes
  <2> DEFINE a == [m EXCEPT !.kind = "listed", !.ok = ok]
  <2>2. m \in Message
    BY DEF Well, WizardTypeOK
  <2>3. a \in Message /\ a.kind = "listed" /\ a.fresh = m.fresh
    BY <2>2 DEF Message
  <2>4. Running => Belongs(m)
    BY DEF Well, Screens
  <2> HIDE DEF a
  <2>5. Running => Belongs(a)
    BY <2>1, <2>3, <2>4 DEF Belongs, Opens
  <2> QED
    BY <1>1, <2>1, <2>3, <2>5 DEF a
<1>3. CASE DryRun
  <2>0. PICK m \in msgs : m.kind = "dryrun" /\ \E ok \in {FALSE, Plannable(m.req)} :
           Becomes(m, [m EXCEPT !.kind = "dryran", !.ok = ok, !.world = world])
    BY <1>3 DEF DryRun
  <2>1. PICK ok \in {FALSE, Plannable(m.req)} :
           Becomes(m, [m EXCEPT !.kind = "dryran", !.ok = ok, !.world = world])
    BY <2>0
  <2> DEFINE a == [m EXCEPT !.kind = "dryran", !.ok = ok, !.world = world]
  <2>2. m \in Message /\ world \in World
    BY DEF Well, WizardTypeOK
  <2>3. Plannable(m.req) \in BOOLEAN
    BY DEF Plannable
  <2>4. ok \in BOOLEAN
    <3> DEFINE b == Plannable(m.req)
    <3>1. b \in BOOLEAN /\ ok \in {FALSE, b}
      BY <2>3
    <3> HIDE DEF b
    <3> QED
      BY <3>1
  <2>5. a \in Message /\ a.kind = "dryran" /\ a.fresh = m.fresh
    BY <2>2, <2>4 DEF Message
  <2>6. Running => Belongs(m)
    BY DEF Well, Screens
  <2> HIDE DEF a
  <2>7. Running => Belongs(a)
    BY <2>0, <2>2, <2>5, <2>6 DEF Belongs, Opens
  <2> QED
    BY <1>1, <2>0, <2>1, <2>5, <2>7 DEF a
<1> QED
  BY <1>2, <1>3 DEF ManageWork

LEMMA SendTyped ==
    ASSUME Well, NEW ev \in Event, Send(ev)
    PROVE  feed' \in Seq(Event) /\ Len(feed') <= Capacity
<1>1. feed \in Seq(Event) /\ Len(feed) <= Capacity /\ Len(feed) \in Nat /\ Capacity \in Nat
  BY Constants, LenProperties DEF Well, WizardTypeOK
<1>2. CASE Put(ev)
  <2>1. feed' = Append(feed, ev) /\ Len(feed) < Capacity
    BY <1>2 DEF Put
  <2> QED
    BY <1>1, <2>1, AppendProperties
<1>3. CASE UNCHANGED feed
  BY <1>1, <1>3
<1> QED
  BY <1>2, <1>3 DEF Send

\* What is kept of an engine that is over, and one that goes on to its next step.
EndedEngine == [NoEngine EXCEPT !.kind = eng.kind, !.id = eng.id, !.stage = "ended",
                                !.failed = eng.failed, !.cancel = eng.cancel]

LEMMA EndedTyped ==
    ASSUME eng \in Engine
    PROVE  /\ EndedEngine \in Engine
           /\ EndedEngine.kind = eng.kind /\ EndedEngine.id = eng.id /\ EndedEngine.stage = "ended"
           /\ EndedEngine.failed = eng.failed /\ EndedEngine.cancel = eng.cancel
<1>1. NoEngine \in Engine
  BY Blanks
<1> QED
  BY <1>1 DEF EndedEngine, Engine

LEMMA PastTyped ==
    ASSUME eng \in Engine
    PROVE  /\ Past(eng) \in Engine
           /\ Past(eng).stage \in {"start", "final"} /\ Past(eng).out = "ok"
           /\ Past(eng).stage = "start" => eng.at < Gates /\ Past(eng).at = eng.at + 1
           /\ Past(eng).stage = "final" => eng.at >= Gates /\ Past(eng).at = eng.at
           /\ Past(eng).kind = eng.kind /\ Past(eng).id = eng.id /\ Past(eng).cancel = eng.cancel
           /\ Past(eng).failed = eng.failed /\ Past(eng).req = eng.req
           /\ Past(eng).approved = eng.approved /\ Past(eng).plan = eng.plan
           /\ Past(eng).resumed = eng.resumed
<1>1. eng.at \in Nat /\ Gates \in Nat /\ eng.at \in 0..Gates
  BY Constants DEF Engine
<1>2. CASE eng.at < Gates
  <2>1. Past(eng) = [eng EXCEPT !.stage = "start", !.at = @ + 1, !.out = "ok"] /\ eng.at + 1 \in 0..Gates
    BY <1>1, <1>2 DEF Past, Next1
  <2> QED
    BY <1>1, <1>2, <2>1 DEF Engine, Outcome
<1>3. CASE ~(eng.at < Gates)
  <2> DEFINE p == [eng EXCEPT !.stage = "final", !.out = "ok"]
  <2>1. Past(eng) = p
    BY <1>3 DEF Past
  <2>2. p \in Engine
    BY DEF Engine, Outcome
  <2>3. /\ p.stage = "final" /\ p.out = "ok" /\ p.at = eng.at /\ p.kind = eng.kind /\ p.id = eng.id
        /\ p.cancel = eng.cancel /\ p.failed = eng.failed /\ p.req = eng.req
        /\ p.approved = eng.approved /\ p.plan = eng.plan /\ p.resumed = eng.resumed
    BY DEF Engine
  <2>4. eng.at >= Gates
    BY <1>1, <1>3
  <2> HIDE DEF p
  <2> QED
    BY <2>1, <2>2, <2>3, <2>4
<1> QED
  BY <1>2, <1>3

LEMMA WellEngine ==
    ASSUME Well, EngineNext
    PROVE  Well'
<1>0. UNCHANGED <<program, ui, msgs, st, consent, session, slot, dep, world>>
  BY DEF EngineNext
<1>1. Screens'
  BY <1>0, SteadyEasy DEF SameScreen
<1>2. eng \in Engine /\ eng.at \in Nat /\ eng.at \in 0..Gates /\ eng.out \in Outcome
  BY Constants DEF Well, WizardTypeOK, Engine
<1> SUFFICES /\ conf' \in [draft : Drafts, opened : Drafts, disk : Drafts, deployed : Drafts \cup {-1}]
             /\ eng' \in Engine
             /\ feed' \in Seq(Event) /\ Len(feed') <= Capacity
             /\ listener' = listener /\ rows' = rows
  BY <1>0, <1>1 DEF Well, WizardTypeOK
<1>3. CASE Work
  <2>1. PICK out \in {"ok", "failed", "cancelled"} :
           /\ eng' = [eng EXCEPT !.stage = "stop", !.out = out,
                                 !.failed = IF out = "ok" THEN @ ELSE @ \cup {eng.at}]
           /\ conf' = PersistTopology \/ conf' = conf
    BY <1>3 DEF Work, Failures
  <2>2. UNCHANGED <<feed, listener, rows>>
    BY <1>3 DEF Work
  <2>3. eng.failed \cup {eng.at} \in SUBSET (0..Gates)
    BY <1>2 DEF Engine
  <2>4. eng' \in Engine
    BY <1>2, <2>1, <2>3 DEF Engine, Outcome
  <2>5. PersistTopology \in [draft : Drafts, opened : Drafts, disk : Drafts, deployed : Drafts \cup {-1}]
    BY DEF PersistTopology, Well, WizardTypeOK
  <2> QED
    BY <2>1, <2>2, <2>4, <2>5 DEF Well, WizardTypeOK
<1>4. CASE Confirm /\ UNCHANGED conf
  <2>1. UNCHANGED <<conf, feed, listener, rows>>
    BY <1>4 DEF Confirm
  <2>2. FreshPlan \in Plan
    BY <1>2 DEF FreshPlan, Plan, Engine, Well, WizardTypeOK
  <2>3. \/ \E out \in {"cancelled", "failed", "declined"} : eng' = [eng EXCEPT !.stage = "final", !.out = out]
        \/ eng' = [eng EXCEPT !.stage = "start", !.plan = FreshPlan]
        \/ eng' = [eng EXCEPT !.stage = "start", !.plan = FreshPlan, !.resumed = TRUE]
    BY <1>4 DEF Confirm, Failures
  <2>4. eng' \in Engine
    <3> DEFINE f == FreshPlan
    <3>1. f \in Plan
      BY <2>2
    <3> HIDE DEF f
    <3>2. \A out \in {"cancelled", "failed", "declined"} :
             [eng EXCEPT !.stage = "final", !.out = out] \in Engine
      BY <1>2 DEF Engine, Outcome
    <3>3. [eng EXCEPT !.stage = "start", !.plan = f] \in Engine
      BY <1>2, <3>1 DEF Engine
    <3>4. [eng EXCEPT !.stage = "start", !.plan = f, !.resumed = TRUE] \in Engine
      BY <1>2, <3>1 DEF Engine
    <3> QED
      BY <2>3, <3>2, <3>3, <3>4 DEF f
  <2> QED
    BY <2>1, <2>4 DEF Well, WizardTypeOK
<1>5. CASE StepStarted /\ UNCHANGED conf
  <2>1. /\ eng' = [eng EXCEPT !.stage = "work"] /\ UNCHANGED <<conf, listener, rows>>
        /\ Send(Ev("start", eng.at, None))
    BY <1>5 DEF StepStarted
  <2>2. Ev("start", eng.at, None) \in Event
    BY <1>2 DEF Ev, Event, Outcome
  <2>3. eng' \in Engine
    BY <1>2, <2>1 DEF Engine
  <2> QED
    BY <2>1, <2>2, <2>3, SendTyped DEF Well, WizardTypeOK
<1>6. CASE StepFinished /\ UNCHANGED conf
  <2> DEFINE ev == Ev("done", eng.at, IF eng.kind = "deploy" THEN eng.out ELSE "ok")
  <2>1. /\ UNCHANGED <<conf, listener, rows>> /\ Send(ev)
        /\ eng' = Past(eng) \/ eng' = [eng EXCEPT !.stage = "final"]
    BY <1>6 DEF StepFinished
  <2>2. ev \in Event
    BY <1>2 DEF Ev, Event, Outcome
  <2>3. [eng EXCEPT !.stage = "final"] \in Engine
    BY <1>2 DEF Engine
  <2> HIDE DEF ev
  <2> QED
    BY <1>2, <2>1, <2>2, <2>3, PastTyped, SendTyped DEF Well, WizardTypeOK
<1>7. CASE SendFinal /\ UNCHANGED conf
  <2>1. /\ eng' = EndedEngine /\ UNCHANGED <<conf, listener, rows>>
        /\ Send(Ev("final", 0, eng.out))
    BY <1>7 DEF SendFinal, EndedEngine
  <2>2. Ev("final", 0, eng.out) \in Event
    BY <1>2, Constants DEF Ev, Event
  <2>3. eng' \in Engine
    BY <1>2, <2>1, EndedTyped
  <2> QED
    BY <2>1, <2>2, <2>3, SendTyped DEF Well, WizardTypeOK
<1>9. CASE StopsBetween /\ UNCHANGED conf
  <2>1. PICK out \in {"failed", "cancelled"} : eng' = [eng EXCEPT !.stage = "final", !.out = out]
    BY <1>9 DEF StopsBetween, Failures
  <2>2. eng' \in Engine
    BY <1>2, <2>1 DEF Engine, Outcome
  <2> QED
    BY <1>9, <2>2 DEF StopsBetween, Well, WizardTypeOK
<1>10. CASE StepSkipped /\ UNCHANGED conf
  <2>1. /\ eng' = Past(eng) /\ UNCHANGED <<conf, listener, rows>>
        /\ Send(Ev("done", eng.at, "skipped"))
    BY <1>10 DEF StepSkipped
  <2>2. Ev("done", eng.at, "skipped") \in Event
    BY <1>2 DEF Ev, Event, Outcome
  <2> QED
    BY <1>2, <2>1, <2>2, PastTyped, SendTyped DEF Well, WizardTypeOK
<1> QED
  BY <1>3, <1>4, <1>5, <1>6, <1>7, <1>9, <1>10 DEF EngineNext


LEMMA RowsTyped ==
    ASSUME rows \in [Gate -> RowStatus], NEW ev \in Event
    PROVE  /\ Applied(ev) \in [Gate -> RowStatus]
           /\ \A out : Finished(out) \in [Gate -> RowStatus]
           /\ \A k \in Nat : Promoted(rows, k) \in [Gate -> RowStatus]
           /\ \A k \in Nat, g \in Gate :
                 Promoted(rows, k)[g] = IF g < k /\ Open1(rows[g]) THEN "done" ELSE rows[g]
<1>1. \A k \in Nat : Promoted(rows, k) \in [Gate -> RowStatus]
  BY DEF Promoted, RowStatus
<1>2. DoneStatus(ev) \in RowStatus
  BY DEF DoneStatus, RowStatus
<1>3. ev.at \in Nat
  BY Constants DEF Event
<1>4. Applied(ev) \in [Gate -> RowStatus]
  <2> DEFINE p == Promoted(rows, ev.at)
             x == IF ev.kind = "done" THEN DoneStatus(ev)
                  ELSE IF p[ev.at] = "pending" THEN "running" ELSE p[ev.at]
  <2>1. p \in [Gate -> RowStatus]
    BY <1>1, <1>3
  <2>2. Applied(ev) = [p EXCEPT ![ev.at] = x]
    BY DEF Applied
  <2>3. ev.at \in Gate => x \in RowStatus
    BY <1>2, <2>1 DEF RowStatus
  <2> HIDE DEF p, x
  <2> QED
    BY <2>1, <2>2, <2>3
<1>5. \A out : Finished(out) \in [Gate -> RowStatus]
  <2>1. \A out : out = "ok" => Finished(out) \in [Gate -> RowStatus]
    <3>1. Gates + 1 \in Nat
      BY Constants
    <3> QED
      BY <1>1, <3>1 DEF Finished
  <2>2. \A out : out # "ok" => Finished(out) \in [Gate -> RowStatus]
    BY DEF Finished, RowStatus
  <2> QED
    BY <2>1, <2>2
<1>6. \A k \in Nat, g \in Gate :
         Promoted(rows, k)[g] = IF g < k /\ Open1(rows[g]) THEN "done" ELSE rows[g]
  BY DEF Promoted
<1> QED
  BY <1>1, <1>4, <1>5, <1>6

LEMMA WellFeed ==
    ASSUME Well, FeedNext
    PROVE  Well'
<1>0. /\ ui \in Ui /\ listener \in [state : {"off", "waiting", "held"}, ev : Event]
      /\ listener.ev \in Event /\ rows \in [Gate -> RowStatus]
      /\ feed \in Seq(Event) /\ Len(feed) <= Capacity
      /\ session \in [Session -> SessionState]
  BY DEF Well, WizardTypeOK
<1>1. CASE Listen
  <2>1. /\ feed # <<>> /\ listener' = [state |-> "held", ev |-> Head(feed)] /\ feed' = Tail(feed)
        /\ UNCHANGED <<program, ui, msgs, conf, st, consent, session, slot, dep, eng, rows, world>>
    BY <1>1 DEF Listen
  <2>2. Head(feed) \in Event /\ Tail(feed) \in Seq(Event) /\ Len(Tail(feed)) = Len(feed) - 1
        /\ Len(feed) \in Nat
    BY <1>0, <2>1, HeadTailProperties, LenProperties
  <2>3. feed' \in Seq(Event) /\ Len(feed') <= Capacity
    BY <1>0, <2>1, <2>2, Constants
  <2>4. listener' \in [state : {"off", "waiting", "held"}, ev : Event]
    BY <2>1, <2>2
  <2>5. Screens'
    BY <2>1, SteadyEasy DEF SameScreen
  <2> QED
    BY <2>1, <2>3, <2>4, <2>5 DEF Well, WizardTypeOK
<1>2. CASE ListenGivesUp
  <2>1. /\ listener' = Off
        /\ UNCHANGED <<program, ui, msgs, conf, st, consent, session, slot, dep, eng, feed, rows, world>>
    BY <1>2 DEF ListenGivesUp
  <2>2. Screens'
    BY <2>1, SteadyEasy DEF SameScreen
  <2> QED
    BY <2>1, <2>2, ListenerTyped DEF Well, WizardTypeOK
<1>3. CASE ApplyEvent
  <2>1. /\ listener' = Waiting /\ rows' = Applied(listener.ev)
        /\ UNCHANGED <<program, ui, msgs, conf, st, consent, session, slot, dep, eng, feed, world>>
    BY <1>3 DEF ApplyEvent
  <2>2. Screens'
    BY <2>1, SteadyEasy DEF SameScreen
  <2>3. rows' \in [Gate -> RowStatus]
    BY <1>0, <2>1, RowsTyped
  <2> QED
    BY <2>1, <2>2, <2>3, ListenerTyped DEF Well, WizardTypeOK
<1>4. Signal("complete") \in Message /\ Belongs(Signal("complete"))
  BY Signalled
<1>5. /\ [ui EXCEPT !.settling = TRUE] \in Ui /\ SameScreen([ui EXCEPT !.settling = TRUE])
      /\ [ui EXCEPT !.settling = FALSE] \in Ui /\ SameScreen([ui EXCEPT !.settling = FALSE])
  BY <1>0 DEF Ui, SameScreen
<1>6. CASE ApplyFinal
  <2>1. /\ rows' = Finished(listener.ev.out) /\ listener' = Off /\ Running
        /\ UNCHANGED <<program, conf, st, consent, slot, eng, feed, world>>
        /\ \/ dep' = Ended(dep) /\ UNCHANGED session
           \/ session' = [session EXCEPT ![ui.live].exe = Ended(@)] /\ UNCHANGED dep
        /\ \/ msgs' = msgs \cup {Signal("complete")} /\ UNCHANGED ui
           \/ ui' = [ui EXCEPT !.settling = TRUE] /\ UNCHANGED msgs
    BY <1>6 DEF ApplyFinal, OnExec, Running
  <2>2. \A x \in Executed : Ended(x) \in Executed
    BY <1>0 DEF Ended, Executed, Event
  <2>3. dep' \in Executed
    BY <2>1, <2>2 DEF Well, WizardTypeOK
  <2>4. session' \in [Session -> SessionState]
    <3>1. CASE ui.live \in Session
      <4>1. session[ui.live].exe \in Executed
        BY <1>0, <3>1 DEF SessionState
      <4> DEFINE x == Ended(session[ui.live].exe)
      <4>2. x \in Executed
        BY <2>2, <4>1
      <4>3. session' = session \/ session' = [session EXCEPT ![ui.live].exe = x]
        BY <2>1
      <4> HIDE DEF x
      <4>4. [session EXCEPT ![ui.live].exe = x] \in [Session -> SessionState]
        BY <1>0, <3>1, <4>2, SessionTyped, Zenon
      <4> QED
        BY <1>0, <4>3, <4>4
    <3>2. CASE ui.live \notin Session
      BY <1>0, <2>1, <3>2
    <3> QED
      BY <3>1, <3>2
  <2>5. rows' \in [Gate -> RowStatus]
    BY <1>0, <2>1, RowsTyped
  <2>6. ui' \in Ui /\ SameScreen(ui') /\ msgs' \subseteq Message /\ Screens'
    <3>1. CASE msgs' = msgs \cup {Signal("complete")} /\ UNCHANGED ui
      <4>1. SameScreen(ui')
        BY <3>1 DEF SameScreen
      <4> QED
        BY <1>0, <1>4, <2>1, <3>1, <4>1, MoreMessages
    <3>2. CASE ui' = [ui EXCEPT !.settling = TRUE] /\ UNCHANGED msgs
      BY <1>5, <3>2, SteadyEasy
    <3> QED
      BY <2>1, <3>1, <3>2
  <2> QED
    BY <2>1, <2>3, <2>4, <2>5, <2>6, ListenerTyped DEF Well, WizardTypeOK
<1>7. CASE SettleEnds
  <2>1. /\ Running /\ ui' = [ui EXCEPT !.settling = FALSE] /\ msgs' = msgs \cup {Signal("complete")}
        /\ UNCHANGED <<program, conf, st, consent, session, slot, dep, operation, world>>
    BY <1>7 DEF SettleEnds, OnExec, Running
  <2>2. Screens' /\ msgs' \subseteq Message
    BY <1>4, <1>5, <2>1, MoreMessages
  <2> QED
    BY <1>5, <2>1, <2>2 DEF Well, WizardTypeOK, operation
<1> QED
  BY <1>1, <1>2, <1>3, <1>6, <1>7 DEF FeedNext

\* Opening and closing sessions.
LEMMA LifeTyped ==
    ASSUME NEW ss \in [Session -> SessionState], NEW n \in Session, NEW l \in {None, "open", "closed"}
    PROVE  /\ [ss EXCEPT ![n].life = l] \in [Session -> SessionState]
           /\ \A k \in Session : /\ [ss EXCEPT ![n].life = l][k].exe = ss[k].exe
                                 /\ [ss EXCEPT ![n].life = l][k].life = IF k = n THEN l ELSE ss[k].life
<1>1. ss[n] \in SessionState
  OBVIOUS
<1> DEFINE x == [ss[n] EXCEPT !.life = l]
<1>2. x \in SessionState /\ x.life = l /\ x.exe = ss[n].exe
  BY <1>1 DEF SessionState
<1>3. [ss EXCEPT ![n].life = l] = [ss EXCEPT ![n] = x]
  OBVIOUS
<1> HIDE DEF SessionState, x
<1> QED
  BY <1>2, <1>3

LEMMA ClosedTyped ==
    ASSUME NEW ss \in [Session -> SessionState], NEW n \in 0..MaxSessions
    PROVE  /\ Closed(ss, n) \in [Session -> SessionState]
           /\ \A k \in Session : /\ Closed(ss, n)[k].exe = ss[k].exe
                                 /\ Closed(ss, n)[k].life = IF k = n THEN "closed" ELSE ss[k].life
<1>1. CASE n = 0
  BY <1>1 DEF Closed, Session
<1>2. CASE n # 0
  <2>1. n \in Session
    BY <1>2, Constants DEF Session
  <2>2. Closed(ss, n) = [ss EXCEPT ![n].life = "closed"]
    BY <1>2 DEF Closed
  <2>3. "closed" \in {None, "open", "closed"}
    OBVIOUS
  <2> DEFINE y == [ss EXCEPT ![n].life = "closed"]
  <2>4. /\ y \in [Session -> SessionState]
        /\ \A k \in Session : y[k].exe = ss[k].exe
                              /\ y[k].life = IF k = n THEN "closed" ELSE ss[k].life
    BY <2>1, <2>3, LifeTyped, Zenon
  <2> HIDE DEF y
  <2>5. Closed(ss, n) = y
    BY <2>2 DEF y
  <2> QED
    BY <2>4, <2>5
<1> QED
  BY <1>1, <1>2

LEMMA WellOpen ==
    ASSUME Well, OpenFlow
    PROVE  Well'
<1>1. PICK m \in Opening :
       \/ /\ msgs' = (msgs \ {m}) \cup Answered([m EXCEPT !.kind = "openfailed"])
          /\ UNCHANGED <<program, ui, conf, st, consent, session, slot, dep, operation, world>>
       \/ \E n \in Unbuilt :
          /\ session' = PutOver([session EXCEPT ![n].life = "open"], slot)
          /\ slot' = n
          /\ msgs' = (msgs \ {m}) \cup Answered([m EXCEPT !.kind = "swap", !.n = n])
          /\ UNCHANGED <<program, ui, conf, st, consent, dep, operation, world>>
  BY DEF OpenFlow
<1>2. /\ m \in msgs /\ m.kind = "open" /\ m \in Message
      /\ Running => Belongs(m)
      /\ ~Running => ~m.fresh
  BY DEF Opening, Well, Screens, WizardTypeOK
<1>3. ASSUME NEW a \in Message, a.kind \in {"openfailed", "swap"}, a.fresh = m.fresh,
             a.kind = "swap" => a.n \in Session,
             msgs' = (msgs \ {m}) \cup Answered(a), UNCHANGED ui
      PROVE  msgs' \subseteq Message /\ Screens'
  <2>1. m.fresh => Running /\ Belongs(a)
    BY <1>2, <1>3 DEF Belongs, Opens
  <2>2. Answered(a) = IF m.fresh THEN {a} ELSE {}
    BY <1>3 DEF Answered
  <2>3. msgs' \subseteq Message
    BY <1>3, <2>2 DEF Well, WizardTypeOK
  <2>4. IsFiniteSet(msgs')
    <3>1. IsFiniteSet(msgs \ {m})
      BY FS_Subset DEF Well, Screens
    <3>2. IsFiniteSet(Answered(a))
      BY <2>2, FS_EmptySet, FS_Singleton
    <3> QED
      BY <1>3, <3>1, <3>2, FS_Union
  <2>5. \A w \in msgs' : w \in msgs \/ (Running /\ Belongs(w))
    BY <1>3, <2>1, <2>2
  <2>6. SameScreen(ui')
    BY <1>3 DEF SameScreen
  <2> QED
    BY <2>3, <2>4, <2>5, <2>6, Steady
<1>4. CASE /\ msgs' = (msgs \ {m}) \cup Answered([m EXCEPT !.kind = "openfailed"])
           /\ UNCHANGED <<program, ui, conf, st, consent, session, slot, dep, operation, world>>
  <2> DEFINE a == [m EXCEPT !.kind = "openfailed"]
  <2>1. a \in Message /\ a.kind = "openfailed" /\ a.fresh = m.fresh
    BY <1>2 DEF Message
  <2> HIDE DEF a
  <2>2. msgs' \subseteq Message /\ Screens'
    BY <1>3, <1>4, <2>1 DEF a
  <2> QED
    BY <1>4, <2>2 DEF Well, WizardTypeOK, operation
<1>5. ASSUME NEW n \in Unbuilt,
          /\ session' = PutOver([session EXCEPT ![n].life = "open"], slot)
          /\ slot' = n
          /\ msgs' = (msgs \ {m}) \cup Answered([m EXCEPT !.kind = "swap", !.n = n])
          /\ UNCHANGED <<program, ui, conf, st, consent, dep, operation, world>>
      PROVE Well'
  <2> DEFINE a == [m EXCEPT !.kind = "swap", !.n = n]
  <2>1. n \in Session /\ n \in Nat /\ n \in 0..MaxSessions
    BY Constants DEF Unbuilt, Session
  <2>2. a \in Message /\ a.kind = "swap" /\ a.fresh = m.fresh /\ a.n = n
    BY <1>2, <2>1 DEF Message
  <2> HIDE DEF a
  <2>3. msgs' \subseteq Message /\ Screens'
    BY <1>3, <1>5, <2>1, <2>2 DEF a
  <2>4. session' \in [Session -> SessionState]
    <3>1. [session EXCEPT ![n].life = "open"] \in [Session -> SessionState]
      BY <2>1, LifeTyped DEF Well, WizardTypeOK
    <3>2. slot \in 0..MaxSessions
      BY DEF Well, WizardTypeOK
    <3> QED
      BY <1>5, <3>1, <3>2, ClosedTyped DEF PutOver
  <2> QED
    BY <1>5, <2>1, <2>3, <2>4 DEF Well, WizardTypeOK, operation
<1> QED
  BY <1>1, <1>4, <1>5


-----------------------------------------------------------------------------
(* Types: the end of a program *)

Conf == [draft : Drafts, opened : Drafts, disk : Drafts, deployed : Drafts \cup {-1}]
Status == {"ok", "nothing", "saved", "handoff", "failed", "interrupted", "declined"}

\* The stream starts with the configuration c.
Streams(c) ==
    /\ program' = "deploy" /\ ui' = Opened("deploy") /\ msgs' = {} /\ Gone
    /\ conf' = [c EXCEPT !.deployed = c.draft]
    /\ dep' = Begun(NotExecuted) /\ eng' = Engaged("deploy", 0)
    /\ feed' = <<>> /\ listener' = Waiting /\ rows' = NoRows

LEMMA StatusTyped ==
    /\ \A x : LifecycleExit(x) \in {"ok", "nothing", "failed", "interrupted"}
    /\ DeployExit \in {"ok", "nothing", "failed", "interrupted"}
    /\ \A x : Crashed(x) \in {"failed", "interrupted"}
BY DEF LifecycleExit, DeployExit, Crashed

LEMMA EndsHow ==
    ASSUME Well, CliEnds
    PROVE  /\ WorkersDone
           /\ \/ \E status \in Status, c \in Conf : Leaves(status, c)
              \/ program = "hub" /\ ~Held1.started /\ \E c \in Conf : Streams(c)
<1>1. WorkersDone /\ conf \in Conf
  BY DEF CliEnds, Well, WizardTypeOK, Conf
<1>2. Saved \in Conf
  BY <1>1 DEF Saved, Conf
<1>3. \A status \in Status : Exits(status) => Leaves(status, conf)
  BY DEF Exits
<1>4. \A c \in Conf : Deploys(c) => Leaves("failed", c) \/ Streams(c)
  BY DEF Deploys, Streams
<1>5. ASSUME NEW x PROVE LifecycleExit(x) \in Status /\ DeployExit \in Status /\ Crashed(x) \in Status
  BY StatusTyped DEF Status
<1>6. CASE ManageEnds
  BY <1>1, <1>3, <1>5, <1>6 DEF ManageEnds
<1>7. CASE DeployEnds
  <2> DEFINE status == IF Held1.started THEN LifecycleExit(Held1) ELSE DeployExit
  <2>1. Exits(IF ui.crashed THEN Crashed(status) ELSE status)
    BY <1>7 DEF DeployEnds
  <2>2. status \in Status
    BY <1>5
  <2> HIDE DEF status
  <2> QED
    BY <1>1, <1>3, <1>5, <2>1, <2>2
<1>8. ReviewedEnds => \/ \E status \in Status, c \in Conf : Leaves(status, c)
                      \/ \E c \in Conf : Streams(c)
  BY <1>1, <1>2, <1>3, <1>4 DEF ReviewedEnds, Status
<1>9. VerbEnds => \/ \E status \in Status, c \in Conf : Leaves(status, c)
                  \/ \E c \in Conf : Streams(c)
  BY <1>1, <1>3, <1>4, <1>8 DEF VerbEnds, Status
<1>10. CASE HubEnds
  <2>1. program = "hub"
    BY <1>10 DEF HubEnds
  <2>2. \/ Exits("failed") \/ Exits(LifecycleExit(Held1)) \/ Exits("nothing")
        \/ ~Held1.started /\ (ReviewedEnds \/ VerbEnds)
    BY <1>10, Zenon DEF HubEnds
  <2>3. CASE Exits("failed") \/ Exits(LifecycleExit(Held1)) \/ Exits("nothing")
    BY <1>1, <1>3, <1>5, <2>3 DEF Status
  <2>4. CASE ~Held1.started /\ (ReviewedEnds \/ VerbEnds)
    BY <1>1, <1>8, <1>9, <2>1, <2>4, Zenon
  <2> QED
    BY <1>1, <2>2, <2>3, <2>4
<1> QED
  BY <1>1, <1>6, <1>7, <1>10 DEF CliEnds

LEMMA WellEnds ==
    ASSUME Well, CliEnds
    PROVE  Well'
<1>1. /\ ui.phase = "closing" /\ msgs = {} /\ ui \in Ui /\ eng \in Engine /\ slot \in 0..MaxSessions
      /\ session \in [Session -> SessionState] /\ st \in State /\ program \in Programs \cup {"deploy"}
      /\ world \in World /\ dep \in Executed
  BY EndsHow DEF WorkersDone, Well, WizardTypeOK
<1>2. Gone => /\ session' \in [Session -> SessionState] /\ slot' \in 0..MaxSessions
              /\ consent' \in [plan : Plan, typed : BOOLEAN] /\ st' \in State /\ world' \in World
  BY <1>1, ClosedTyped, Blanks, Constants DEF Gone
<1>3. IsFiniteSet({})
  BY FS_EmptySet
<1>4. <<>> \in Seq(Event) /\ Len(<<>>) <= Capacity
  BY EmptySeq, Constants
<1>5. ASSUME NEW status \in Status, NEW c \in Conf, Leaves(status, c) PROVE Well'
  <2>1. /\ ui' = [ui EXCEPT !.phase = "exited", !.exit = status] /\ conf' = c /\ Gone
        /\ eng' = [NoEngine EXCEPT !.kind = eng.kind, !.id = eng.id]
        /\ feed' = <<>> /\ listener' = Off /\ rows' = NoRows
        /\ UNCHANGED <<program, msgs, dep>>
    BY <1>5 DEF Leaves
  <2>2. ui' \in Ui /\ ui'.phase = "exited"
    BY <1>1, <2>1 DEF Ui, Status
  <2>3. eng' \in Engine
    <3>1. NoEngine \in Engine
      BY Blanks
    <3> QED
      BY <1>1, <2>1, <3>1 DEF Engine
  <2>4. Screens'
    BY <1>1, <1>3, <2>1, <2>2 DEF Screens, Running
  <2> QED
    BY <1>1, <1>2, <1>4, <2>1, <2>2, <2>3, <2>4, Blanks, ListenerTyped DEF Well, WizardTypeOK, Conf
<1>6. ASSUME NEW c \in Conf, Streams(c) PROVE Well'
  <2>1. /\ program' = "deploy" /\ ui' = Opened("deploy") /\ msgs' = {} /\ Gone
        /\ conf' = [c EXCEPT !.deployed = c.draft]
        /\ dep' = Begun(NotExecuted) /\ eng' = Engaged("deploy", 0)
        /\ feed' = <<>> /\ listener' = Waiting /\ rows' = NoRows
    BY <1>6 DEF Streams
  <2>2. ui' \in Ui /\ OnScreen(ui')
    <3>1. /\ "stream" \in StepId /\ "stream" \in Range(StepsOf("deploy"))
          /\ StepsOf("deploy")[1] = "stream" /\ 0 \in 0..MaxSessions
      BY StepSets, StepAt, Constants DEF DeploySteps
    <3> QED
      BY <2>1, <3>1 DEF Opened, Ui, Flow, OnScreen, None
  <2>3. eng' \in Engine
    BY <1>1, <2>1, EngagedTyped, Constants
  <2>4. Screens'
    BY <1>3, <2>1, <2>2 DEF Screens, OnScreen
  <2>5. dep' \in Executed
    BY <2>1, BegunTyped, Blanks
  <2>6. conf' \in Conf
    BY <2>1 DEF Conf
  <2>7. WizardTypeOK'
    BY <1>2, <1>4, <2>1, <2>2, <2>3, <2>5, <2>6, Blanks, ListenerTyped DEF WizardTypeOK, Conf
  <2> QED
    BY <2>4, <2>7 DEF Well
<1> QED
  BY <1>5, <1>6, EndsHow

LEMMA ShutTyped ==
    ASSUME NEW u \in Ui
    PROVE  /\ [u EXCEPT !.phase = "closing", !.interrupted = FALSE] \in Ui
           /\ [u EXCEPT !.phase = "closing", !.interrupted = FALSE].phase = "closing"
           /\ [u EXCEPT !.settling = FALSE, !.quit = FALSE] \in Ui
           /\ [u EXCEPT !.settling = FALSE, !.quit = FALSE].phase = u.phase
           /\ [u EXCEPT !.asked = FALSE, !.opening = FALSE] \in Ui
           /\ [u EXCEPT !.asked = FALSE, !.opening = FALSE].phase = u.phase
           /\ [u EXCEPT !.toReview = FALSE, !.suspended = NoPlace] \in Ui
           /\ [u EXCEPT !.toReview = FALSE, !.suspended = NoPlace].phase = u.phase
<1>1. /\ [u EXCEPT !.phase = "closing", !.interrupted = FALSE] \in Ui
      /\ [u EXCEPT !.phase = "closing", !.interrupted = FALSE].phase = "closing"
  BY ZenonT(60) DEF Ui
<1>2. /\ [u EXCEPT !.settling = FALSE, !.quit = FALSE] \in Ui
      /\ [u EXCEPT !.settling = FALSE, !.quit = FALSE].phase = u.phase
  BY ZenonT(60) DEF Ui
<1>3. /\ [u EXCEPT !.asked = FALSE, !.opening = FALSE] \in Ui
      /\ [u EXCEPT !.asked = FALSE, !.opening = FALSE].phase = u.phase
  BY ZenonT(60) DEF Ui
<1>4. /\ [u EXCEPT !.toReview = FALSE, !.suspended = NoPlace] \in Ui
      /\ [u EXCEPT !.toReview = FALSE, !.suspended = NoPlace].phase = u.phase
  BY ZenonT(60) DEF Ui
<1> QED
  BY <1>1, <1>2, <1>3, <1>4

LEMMA WellCloses ==
    ASSUME Well, QuitArrives \/ RendererFails \/ NotStarted \/ Drift
    PROVE  Well'
<1>0. ui \in Ui /\ eng \in Engine
  BY DEF Well, WizardTypeOK
<1>1. ASSUME NEW last \in Ui, Shutdown(last) PROVE Well'
  <2> DEFINE a == [last EXCEPT !.phase = "closing", !.interrupted = FALSE]
             b == [a EXCEPT !.settling = FALSE, !.quit = FALSE]
             c == [b EXCEPT !.asked = FALSE, !.opening = FALSE]
             v == [c EXCEPT !.toReview = FALSE, !.suspended = NoPlace]
  <2>1. a \in Ui /\ a.phase = "closing"
    BY ShutTyped, Zenon
  <2>2. ui' = v
    BY <1>1, Zenon DEF Shutdown
  <2> HIDE DEF a
  <2>9. b \in Ui /\ b.phase = "closing"
    BY <2>1, ShutTyped, Zenon
  <2> HIDE DEF b
  <2>10. c \in Ui /\ c.phase = "closing"
    BY <2>9, ShutTyped, Zenon
  <2> HIDE DEF c
  <2>3. v \in Ui /\ v.phase = "closing"
    BY <2>10, ShutTyped, Zenon
  <2>4. /\ st' = Idle /\ msgs' = Stale(msgs)
        /\ eng' = eng \/ eng' = [eng EXCEPT !.cancel = TRUE]
        /\ UNCHANGED <<program, conf, consent, session, slot, dep, feed, listener, rows, world>>
    BY <1>1 DEF Shutdown
  <2> HIDE DEF v
  <2>5. eng' \in Engine
    BY <1>0, <2>4 DEF Engine
  <2>6. /\ msgs' \subseteq Message /\ IsFiniteSet(msgs')
        /\ \A m \in msgs' : m.kind = "open" /\ ~m.fresh
    BY <2>4, Left DEF Well, WizardTypeOK, Screens
  <2>7. Screens'
    BY <2>2, <2>3, <2>6 DEF Screens, Running
  <2>8. st' \in State
    BY <2>4, FreshTyped DEF Idle
  <2> QED
    BY <2>2, <2>3, <2>4, <2>5, <2>6, <2>7, <2>8 DEF Well, WizardTypeOK
<1>2. CASE QuitArrives
  BY <1>0, <1>1, <1>2 DEF QuitArrives
<1>3. CASE RendererFails
  <2> DEFINE u == [ui EXCEPT !.crashed = TRUE, !.outcome = "unset", !.exitStep = None]
  <2>1. u \in Ui
    BY <1>0 DEF Ui
  <2>2. Shutdown(u)
    BY <1>3 DEF RendererFails
  <2> HIDE DEF u
  <2> QED
    BY <1>1, <2>1, <2>2
<1>4. CASE NotStarted
  <2>1. /\ msgs' \subseteq msgs
        /\ UNCHANGED <<program, ui, conf, st, consent, session, slot, dep, operation, world>>
    BY <1>4 DEF NotStarted
  <2>2. Screens' /\ msgs' \subseteq Message
    BY <2>1, SteadyEasy DEF SameScreen
  <2> QED
    BY <2>1, <2>2 DEF Well, WizardTypeOK, operation
<1>5. CASE Drift
  <2>1. /\ world.nodes + world.warned < MaxWorld
        /\ world' \in {[world EXCEPT !.nodes = @ + 1], [world EXCEPT !.warned = @ + 1]}
        /\ UNCHANGED <<program, ui, msgs, conf, st, consent, session, slot, dep, operation>>
    BY <1>5 DEF Drift
  <2>2. Screens'
    BY <2>1, SteadyEasy DEF SameScreen
  <2>3. world' \in World
    BY <2>1, Constants DEF World, Well, WizardTypeOK
  <2> QED
    BY <2>1, <2>2, <2>3 DEF Well, WizardTypeOK, operation
<1> QED
  BY <1>2, <1>3, <1>4, <1>5

LEMMA WellInit ==
    WizardInit => Well
<1> SUFFICES ASSUME WizardInit PROVE Well
  OBVIOUS
<1> DEFINE open == program = "manage"
<1>1. /\ program \in Programs /\ msgs = {} /\ world = AsOpened /\ consent = NoConsent
      /\ conf = [draft |-> 0, opened |-> 0, disk |-> 0, deployed |-> -1]
      /\ dep = NotExecuted /\ eng = NoEngine /\ feed = <<>> /\ listener = Off /\ rows = NoRows
      /\ IF open THEN \E marker \in Markers : st = FreshState(marker) ELSE st = Idle
      /\ ui = IF open THEN [Opened("manage") EXCEPT !.live = 1] ELSE Opened("configure")
      /\ slot = IF open THEN 1 ELSE 0
      /\ session = [n \in Session |-> [life |-> IF open /\ n = 1 THEN "open" ELSE None,
                                       exe |-> NotExecuted]]
  BY DEF WizardInit
<1> HIDE DEF open
<1>2. st \in State
  BY <1>1, FreshTyped, Constants DEF Idle
<1>3. ui \in Ui /\ OnScreen(ui)
  <2>1. /\ "op" \in StepId /\ "op" \in Range(StepsOf("manage")) /\ StepsOf("manage")[1] = "op"
        /\ 1 \in 0..MaxSessions /\ 0 \in 0..MaxSessions /\ 1 \in Session
        /\ "welcome" \in StepId /\ "welcome" \in Range(StepsOf("configure"))
    BY StepSets, StepAt, Constants DEF ConfigureSteps, ManageSteps, Session
  <2>2. StepsOf("configure")[1] = "welcome"
    BY FlowSteps
  <2>3. Opened("manage") \in Ui /\ Opened("configure") \in Ui
    BY <2>1, <2>2 DEF Opened, Ui, Flow, None
  <2>4. /\ Opened("manage").flow = "manage" /\ Opened("manage").step = "op"
        /\ ~Opened("manage").toReview /\ Opened("manage").suspended = NoPlace
        /\ Opened("configure").flow = "configure" /\ Opened("configure").step = "welcome"
        /\ ~Opened("configure").toReview /\ Opened("configure").suspended = NoPlace
    BY <2>1, <2>2 DEF Opened
  <2>5. OnScreen(Opened("configure"))
    BY <2>1, <2>4 DEF OnScreen
  <2> DEFINE u == [Opened("manage") EXCEPT !.live = 1]
  <2>6. u \in Ui
    BY <2>1, <2>3 DEF Ui
  <2>7. /\ u.flow = "manage" /\ u.step = "op" /\ ~u.toReview /\ u.suspended = NoPlace /\ u.live = 1
    BY <2>3, <2>4 DEF Ui
  <2> HIDE DEF u
  <2>8. OnScreen(u)
    BY <2>1, <2>7 DEF OnScreen
  <2>9. ui = u \/ ui = Opened("configure")
    BY <1>1 DEF u
  <2> QED
    BY <2>3, <2>5, <2>6, <2>8, <2>9
<1>4. session \in [Session -> SessionState]
  BY <1>1, Blanks DEF SessionState
<1>5. Screens
  BY <1>1, <1>3, FS_EmptySet DEF Screens
<1>6. /\ conf \in [draft : Drafts, opened : Drafts, disk : Drafts, deployed : Drafts \cup {-1}]
      /\ slot \in 0..MaxSessions /\ world \in World
      /\ feed \in Seq(Event) /\ Len(feed) <= Capacity
  BY <1>1, Constants, EmptySeq DEF World, AsOpened
<1> QED
  BY <1>1, <1>2, <1>3, <1>4, <1>5, <1>6, Blanks, ListenerTyped DEF Well, WizardTypeOK

LEMMA WellStep ==
    ASSUME Well, [WizardNext]_vars
    PROVE  Well'
<1>1. CASE UNCHANGED vars
  <2>1. Screens'
    BY <1>1, SteadyEasy DEF vars, SameScreen
  <2> QED
    BY <1>1, <2>1 DEF Well, WizardTypeOK, vars, operation
<1>2. CASE WizardNext
  BY <1>2, WellHubKeys, WellManageKeys, WellShell, WellMoves, WellWork, WellEngine, WellFeed,
     WellOpen, WellEnds, WellCloses DEF WizardNext, Keys, Works
<1> QED
  BY <1>1, <1>2

\* Every variable stays in its type, and every message belongs to the screen of
\* the visit that asked for it.
THEOREM WizardTyped == WizardSpec => []WizardTypeOK
<1>1. WizardInit => Well
  BY WellInit
<1>2. Well /\ [WizardNext]_vars => Well'
  BY WellStep
<1>3. Well => WizardTypeOK
  BY DEF Well
<1> QED
  BY <1>1, <1>2, <1>3, PTL DEF WizardSpec


-----------------------------------------------------------------------------
(* Consent *)

Dry == {"dryrun", "dryran"}

\* What was read stays what was agreed to: at the preview no other plan can
\* arrive once keys act and it is a plan of what was asked for, the plan asked
\* about is the one on screen, the name is typed before the confirmation is left,
\* and the goroutine that was started holds the request and the plan of that
\* consent, and compares with it unless it resumes.
PlanRead ==
    Running /\ ui.step = "preview" =>
        /\ st.proceed => st.phase = "done"
        /\ st.phase # "running" => \A m \in msgs : m.kind \notin Dry
        /\ \A m, w \in msgs : m.kind \in Dry /\ w.kind \in Dry => m = w
        /\ \A m \in msgs : m.kind \in Dry => m.req = Requested(st)
        /\ st.phase = "done" => st.plan.req = Requested(st)
PlanAccepted ==
    Running /\ ui.step \in {"preview", "confirm"} /\ st.proceed =>
        consent.plan = st.plan /\ st.plan.req = Requested(st)
NameTyped ==
    Running /\ ui.step = "confirm" =>
        st.proceed /\ \A m \in msgs : m.kind = "complete" => consent.typed
OnlyExecuting == Running /\ eng.kind = "manage" => ui.step \in {"exec", "done"}
PlanExecuted ==
    eng.kind = "manage" /\ eng.stage \in {"plan", "start", "work", "stop"} =>
        /\ eng.approved = consent.plan /\ eng.req = eng.approved.req
        /\ consent.plan.req.op = "remove" => consent.typed
        /\ eng.stage # "plan" => eng.plan.req = eng.approved.req
        /\ eng.stage # "plan" /\ ~eng.resumed => eng.plan.world.nodes = eng.approved.world.nodes

Agreed == PlanRead /\ PlanAccepted /\ NameTyped /\ OnlyExecuting /\ PlanExecuted

LEMMA AgreedQuiet ==
    ASSUME Agreed, SameScreen(ui'), UNCHANGED <<st, consent, eng>>,
           \A m \in msgs' : /\ m.kind = "complete" => m \in msgs \/ ui.step # "confirm"
                            /\ m.kind \in Dry => m \in msgs
    PROVE  Agreed'
<1>1. (Running' <=> Running) /\ ui'.step = ui.step
  BY DEF SameScreen, Running
<1>2. PlanRead'
  BY <1>1 DEF Agreed, PlanRead
<1>3. PlanAccepted'
  BY <1>1 DEF Agreed, PlanAccepted
<1>4. NameTyped'
  BY <1>1 DEF Agreed, NameTyped
<1>5. OnlyExecuting' /\ PlanExecuted'
  BY <1>1 DEF Agreed, OnlyExecuting, PlanExecuted
<1> QED
  BY <1>2, <1>3, <1>4, <1>5 DEF Agreed

LEMMA AgreedQuietly ==
    ASSUME Agreed, SameScreen(ui'), UNCHANGED <<st, consent, eng>>, msgs' \subseteq msgs
    PROVE  Agreed'
BY AgreedQuiet

LEMMA AgreedMore ==
    ASSUME Agreed, SameScreen(ui'), UNCHANGED <<st, consent, eng>>, NEW m,
           msgs' = msgs \cup {m}, m.kind \notin Dry, m.kind = "complete" => ui.step # "confirm"
    PROVE  Agreed'
BY AgreedQuiet

LEMMA AgreedHubKeys ==
    ASSUME Well, Agreed, HubKeys
    PROVE  Agreed'
<1>0. ui \in Ui
  BY DEF Well, WizardTypeOK
<1>1. ASSUME NEW v \in Verb, ConfirmVerb(v) PROVE Agreed'
  <2> DEFINE kind == IF v = "manage" THEN "open" ELSE "complete"
  <2>1. /\ ui.step = "welcome"
        /\ ui' = [ui EXCEPT !.verb = v, !.opening = v = "manage"]
        /\ msgs' = msgs \cup {Signal(kind)} /\ UNCHANGED <<st, consent, eng>>
    BY <1>1 DEF ConfirmVerb, Press, operation
  <2>2. kind \in {"complete", "open"}
    OBVIOUS
  <2> HIDE DEF kind
  <2>3. Signal(kind).kind = kind
    BY <2>1, <2>2, Signalled
  <2>4. SameScreen(ui')
    BY <1>0, <2>1 DEF Ui, SameScreen
  <2> QED
    BY <2>1, <2>2, <2>3, <2>4, AgreedMore DEF Dry
<1>2. ASSUME NEW m, Returns(m), UNCHANGED <<st, consent>>, m.kind \notin Dry, ui.step # "confirm"
      PROVE  Agreed'
  <2>1. msgs' = msgs \cup {m} /\ UNCHANGED <<ui, st, consent, eng>>
    BY <1>2 DEF Returns, operation
  <2> QED
    BY <1>2, <2>1, AgreedMore DEF SameScreen
<1>3. Signal("complete").kind = "complete"
  BY Signalled
<1>4. CASE FinishExit \/ SubmitForm
  <2>1. Returns(Signal("complete")) /\ UNCHANGED <<st, consent>> /\ ui.step # "confirm"
    BY <1>4 DEF FinishExit, SubmitForm, Press, FormStep
  <2> QED
    BY <1>2, <1>3, <2>1 DEF Dry
<1>5. CASE FinishManage
  <2> DEFINE m == Msg("open", "finish", NoRequest, Cardinality(Opening))
  <2>1. Returns(m) /\ UNCHANGED <<st, consent>> /\ ui.step # "confirm"
    BY <1>5 DEF FinishManage, Press
  <2>2. m.kind = "open"
    BY DEF Msg
  <2> HIDE DEF m
  <2> QED
    BY <1>2, <2>1, <2>2 DEF Dry
<1>6. CASE EditField
  <2>1. UNCHANGED <<ui, msgs, st, consent, eng>>
    BY <1>6 DEF EditField, operation
  <2> QED
    BY <2>1, AgreedQuietly DEF SameScreen
<1>7. CASE ReviewJump
  <2>1. PICK i \in {1, 2} : Returns(Msg("jump", "review", NoRequest, i))
    BY <1>7 DEF ReviewJump
  <2> DEFINE m == Msg("jump", "review", NoRequest, i)
  <2>2. Returns(m) /\ UNCHANGED <<st, consent>> /\ ui.step # "confirm"
    BY <1>7, <2>1 DEF ReviewJump, Press
  <2>3. m.kind = "jump"
    BY DEF Msg
  <2> HIDE DEF m
  <2> QED
    BY <1>2, <2>2, <2>3 DEF Dry
<1>8. CASE ReviewConfirm
  <2>1. /\ \E a \in {"deploy", "exit"} : ui' = [ui EXCEPT !.choice = a]
        /\ ui.step = "review" /\ msgs' = msgs \cup {Signal("complete")}
        /\ UNCHANGED <<st, consent, eng>>
    BY <1>8 DEF ReviewConfirm, Press, operation
  <2>2. SameScreen(ui')
    BY <1>0, <2>1 DEF Ui, SameScreen
  <2> QED
    BY <1>3, <2>1, <2>2, AgreedMore DEF Dry
<1> QED
  BY <1>1, <1>4, <1>5, <1>6, <1>7, <1>8 DEF HubKeys

LEMMA AgreedManageKeys ==
    ASSUME Well, Agreed, ManageKeys
    PROVE  Agreed'
<1>0. st \in State /\ consent \in [plan : Plan, typed : BOOLEAN]
  BY DEF Well, WizardTypeOK
<1>1. ASSUME NEW m, Returns(m) PROVE msgs' = msgs \cup {m} /\ UNCHANGED <<ui, eng>>
  BY <1>1 DEF Returns, operation
<1>2. /\ Signal("complete").kind = "complete"
      /\ ui.step = "preview" => Signal("back").kind = "back"
  BY Signalled
<1>3. CASE PressEnter
  <2>1. Returns(Signal("complete")) /\ UNCHANGED <<st, consent>> /\ ui.step # "confirm"
    BY <1>3 DEF PressEnter, Press
  <2> QED
    BY <1>1, <1>2, <2>1, AgreedMore DEF SameScreen, Dry
<1>4. CASE PressRefresh
  <2> DEFINE m == Msg("list", "target", Requested(st), 0)
  <2>1. Returns(m) /\ ui.step = "target" /\ UNCHANGED consent
    BY <1>4 DEF PressRefresh, Press
  <2>2. UNCHANGED <<ui, eng>>
    BY <1>1, <2>1
  <2> QED
    BY <2>1, <2>2 DEF Agreed, PlanRead, PlanAccepted, NameTyped, OnlyExecuting, PlanExecuted, Running
<1>5. CASE ReachBottom
  <2>1. st' = [st EXCEPT !.seen = TRUE] /\ UNCHANGED <<ui, msgs, consent, eng>>
    BY <1>5 DEF ReachBottom, operation
  <2>2. /\ st'.proceed = st.proceed /\ st'.phase = st.phase /\ st'.plan = st.plan
        /\ Requested(st') = Requested(st)
    BY <1>0, <2>1 DEF State, Requested
  <2> QED
    BY <2>1, <2>2 DEF Agreed, PlanRead, PlanAccepted, NameTyped, OnlyExecuting, PlanExecuted, Running
<1>6. CASE PressExecute
  <2>1. /\ ui.step = "preview" /\ Running /\ st.phase = "done"
        /\ st' = [st EXCEPT !.proceed = TRUE]
        /\ consent' = [plan |-> st.plan, typed |-> FALSE]
        /\ msgs' = msgs \cup {Signal("complete")} /\ UNCHANGED <<ui, eng>>
    BY <1>1, <1>6 DEF PressExecute, PreviewKeys, Press
  <2>2. st'.phase = "done" /\ st'.plan = st.plan /\ Requested(st') = Requested(st)
    BY <1>0, <2>1 DEF State, Requested
  <2>3. PlanRead'
    BY <1>2, <2>1, <2>2 DEF Agreed, PlanRead, Dry
  <2>4. eng.kind # "manage" /\ st.plan.req = Requested(st)
    BY <2>1 DEF Agreed, OnlyExecuting, PlanRead
  <2> QED
    BY <2>1, <2>2, <2>3, <2>4 DEF Agreed, PlanAccepted, NameTyped, OnlyExecuting, PlanExecuted, Running
<1>7. CASE PressBackToParams
  <2>1. Returns(Signal("back")) /\ UNCHANGED <<st, consent>> /\ ui.step = "preview"
    BY <1>7 DEF PressBackToParams, PreviewKeys, Press
  <2> QED
    BY <1>1, <1>2, <2>1, AgreedMore DEF SameScreen, Dry
<1>8. CASE PressExit
  <2>1. /\ Returns(Signal("complete")) /\ st' = [st EXCEPT !.exitChosen = TRUE]
        /\ UNCHANGED consent /\ ui.step = "preview"
    BY <1>8 DEF PressExit, PreviewKeys, Press
  <2>2. msgs' = msgs \cup {Signal("complete")} /\ UNCHANGED <<ui, eng>>
    BY <1>1, <2>1
  <2>3. /\ st'.proceed = st.proceed /\ st'.phase = st.phase /\ st'.plan = st.plan
        /\ Requested(st') = Requested(st)
    BY <1>0, <2>1 DEF State, Requested
  <2>4. PlanRead'
    BY <1>2, <2>1, <2>2, <2>3 DEF Agreed, PlanRead, Dry, Running
  <2> QED
    BY <2>1, <2>2, <2>3, <2>4 DEF Agreed, PlanAccepted, NameTyped, OnlyExecuting, PlanExecuted, Running
<1>9. CASE TypeName
  <2>1. /\ Returns(Signal("complete")) /\ consent' = [consent EXCEPT !.typed = TRUE]
        /\ UNCHANGED st /\ ui.step = "confirm" /\ Running
    BY <1>9 DEF TypeName, Press
  <2>2. msgs' = msgs \cup {Signal("complete")} /\ UNCHANGED <<ui, eng>>
    BY <1>1, <2>1
  <2>3. consent'.plan = consent.plan /\ consent'.typed
    BY <1>0, <2>1
  <2> QED
    BY <2>1, <2>2, <2>3 DEF Agreed, PlanRead, PlanAccepted, NameTyped, OnlyExecuting, PlanExecuted, Running
<1> QED
  BY <1>3, <1>4, <1>5, <1>6, <1>7, <1>8, <1>9 DEF ManageKeys


\* What an arrival makes of the state, where consent depends on it.
LEMMA EnteredAre ==
    ASSUME NEW s \in State
    PROVE  /\ ~Entered("preview", s).proceed /\ Entered("preview", s).phase = "running"
           /\ Requested(Entered("preview", s)) = Requested(s)
           /\ \A step : step \notin {"preview", "target", "exec"} => Entered(step, s) = s
<1>1. Entered("preview", s) = [s EXCEPT !.phase = "running", !.exitChosen = FALSE,
                                        !.seen = FALSE, !.proceed = FALSE, !.plan = NoPlan]
  BY DEF Entered
<1>2. \A step : step \notin {"preview", "target", "exec"} => Entered(step, s) = s
  BY DEF Entered
<1> QED
  BY <1>1, <1>2 DEF State, Requested

\* A visit keeps the agreement when it starts an operation, or asks for the
\* cluster's name, only with the plan that was accepted.
LEMMA AgreedArrives ==
    ASSUME Well, Agreed, Running, NEW target \in Ui, NEW s \in State, NEW rest \in SUBSET msgs,
           Arrive(target, s, rest),
           target.step \in {"confirm", "exec"} =>
              s.proceed /\ consent.plan = s.plan /\ s.plan.req = Requested(s),
           target.step = "exec" /\ consent.plan.req.op = "remove" => consent.typed,
           eng.kind = "manage" => target.step \in {"exec", "done"}
    PROVE  Agreed'
<1>1. /\ ui' = target
      /\ st' = Entered(target.step, s)
      /\ msgs' = Stale(rest) \cup Commands(target.step, s)
      /\ consent' = IF target.step = "preview" THEN NoConsent ELSE consent
      /\ EngineEntered(target.step, s)
  BY DEF Arrive
<1>2. \A m \in Stale(rest) : m.kind = "open"
  BY Left, FS_Subset DEF Well, Screens, WizardTypeOK
<1>3. target.step \in StepId
  BY DEF Ui
<1>4. PlanRead'
  <2> DEFINE q == Requested(s)
             d == Msg("dryrun", target.step, q, 0)
  <2>0. d.req = q
    BY DEF Msg
  <2> HIDE DEF d
  <2>1. ASSUME target.step = "preview" PROVE PlanRead'
    <3>1. Commands(target.step, s) = {d}
      BY <2>1 DEF Commands, d
    <3>2. ~st'.proceed /\ st'.phase = "running" /\ Requested(st') = q
      BY <1>1, <2>1, EnteredAre
    <3> HIDE DEF q
    <3> QED
      BY <1>1, <1>2, <2>0, <3>1, <3>2 DEF PlanRead, Dry
  <2> QED
    BY <1>1, <2>1 DEF PlanRead
<1>5. PlanAccepted'
  <2>1. CASE target.step = "preview"
    BY <1>1, <2>1, EnteredAre DEF PlanAccepted
  <2>2. CASE target.step = "confirm"
    BY <1>1, <2>2, EnteredAre DEF PlanAccepted
  <2> QED
    BY <1>1, <2>1, <2>2 DEF PlanAccepted
<1>6. NameTyped'
  <2>1. ASSUME target.step = "confirm" PROVE NameTyped'
    <3>1. Commands(target.step, s) = {}
      BY <2>1 DEF Commands
    <3>2. st' = s
      BY <1>1, <2>1, EnteredAre
    <3> QED
      BY <1>1, <1>2, <2>1, <3>1, <3>2 DEF NameTyped
  <2> QED
    BY <1>1, <2>1 DEF NameTyped
<1>7. CASE target.step = "exec"
  <2> DEFINE e == Engaged("manage", ui.live)
             r == Requested(s)
             p == s.plan
  <2>1. e \in Engine /\ e.stage = "plan"
    BY EngagedTyped DEF Well, WizardTypeOK, Ui
  <2>2. r \in Request /\ p \in Plan
    BY RequestedTyped DEF State
  <2>3. eng' = [e EXCEPT !.req = r, !.approved = p]
    BY <1>1, <1>7, Zenon DEF EngineEntered
  <2> HIDE DEF e, r
  <2>4. eng'.stage = "plan" /\ eng'.approved = p /\ eng'.req = r
    BY <2>1, <2>2, <2>3 DEF Engine
  <2>5. OnlyExecuting'
    BY <1>1, <1>7 DEF OnlyExecuting
  <2>6. PlanExecuted'
    BY <1>1, <1>7, <2>4 DEF PlanExecuted, r
  <2> QED
    BY <1>4, <1>5, <1>6, <2>5, <2>6 DEF Agreed
<1>8. CASE target.step = "finish"
  <2>1. eng' = NoEngine
    BY <1>1, <1>8 DEF EngineEntered
  <2>2. eng'.kind = None
    BY <2>1 DEF NoEngine
  <2> QED
    BY <1>4, <1>5, <1>6, <2>2 DEF Agreed, OnlyExecuting, PlanExecuted, None
<1>9. CASE target.step \notin {"exec", "finish"}
  <2>1. eng' = eng
    BY <1>1, <1>9 DEF EngineEntered, operation
  <2>2. OnlyExecuting'
    BY <1>1, <2>1 DEF OnlyExecuting
  <2>3. eng.kind = "manage" => consent' = consent
    BY <1>1
  <2>4. PlanExecuted'
    BY <2>1, <2>3 DEF Agreed, PlanExecuted
  <2> QED
    BY <1>4, <1>5, <1>6, <2>2, <2>4 DEF Agreed
<1> QED
  BY <1>7, <1>8, <1>9

LEMMA AgreedStays ==
    ASSUME Well, Agreed, Running, NEW rest \in SUBSET msgs, StayPut(rest)
    PROVE  Agreed'
BY AgreedQuietly DEF StayPut, SameScreen, operation

LEMMA AgreedReceived ==
    ASSUME Well, Agreed, Running, NEW m \in msgs, Received(m)
    PROVE  Agreed'
<1> DEFINE rest == msgs \ {m}
<1>0. /\ rest \in SUBSET msgs /\ Belongs(m) /\ ui \in Ui /\ OnScreen(ui) /\ st \in State
      /\ eng.kind = "manage" => ui.step \in {"exec", "done"}
  BY DEF Well, Screens, WizardTypeOK, Agreed, OnlyExecuting
<1> HIDE DEF rest
<1>1. CASE m.kind = "complete" /\ \E s \in Applied1 : GoToNextStep(s, rest)
  <2>1. PICK s \in Applied1 : GoToNextStep(s, rest)
    BY <1>1
  <2>2. s \in State
    BY AppliedTyped
  <2>3. ui.step \notin EarlyStep => s = st
    BY DEF Applied1, EarlyStep
  <2>4. CASE Concludes1(s, rest)
    <3>1. /\ ui' = Concluded /\ st' = s /\ msgs' = rest
          /\ UNCHANGED <<consent, session, operation>>
      BY <2>4 DEF Concludes1
    <3>2. SameScreen(ui')
      BY <3>1, ConcludedTyped
    <3>3. CASE ui.step \notin EarlyStep
      BY <1>0, <2>3, <3>1, <3>2, <3>3, AgreedQuietly DEF operation
    <3>4. CASE ui.step \in EarlyStep
      <4>1. ui'.step \notin {"preview", "confirm"} /\ eng.kind # "manage"
        BY <1>0, <3>2, <3>4 DEF SameScreen, EarlyStep
      <4> QED
        BY <3>1, <4>1
           DEF Agreed, PlanRead, PlanAccepted, NameTyped, OnlyExecuting, PlanExecuted, operation
    <3> QED
      BY <3>3, <3>4
  <2>5. ASSUME NEW target, Visits(target, s, rest), Onward(ui.step, target.step, s)
        PROVE  Agreed'
    <3>1. target \in Ui /\ Arrive(target, s, rest)
      BY <2>5 DEF Visits
    <3>2. target.step \in {"confirm", "exec"} =>
             /\ ui.step \in {"preview", "confirm"} /\ s.proceed
             /\ ui.step = "preview" => (target.step = "exec" => s.plan.req.op # "remove")
      BY <2>5 DEF Onward, ConfigureStep, EarlyStep
    <3>3. target.step \in {"confirm", "exec"} =>
             s.proceed /\ consent.plan = s.plan /\ s.plan.req = Requested(s)
      BY <2>3, <3>2 DEF Agreed, PlanAccepted, EarlyStep
    <3>4. target.step = "exec" /\ consent.plan.req.op = "remove" => consent.typed
      BY <1>1, <3>2, <3>3 DEF Agreed, NameTyped
    <3>5. eng.kind = "manage" => target.step \in {"exec", "done"}
      BY <1>0, <2>5 DEF Onward, ConfigureStep, EarlyStep
    <3> QED
      BY <1>0, <2>2, <3>1, <3>3, <3>4, <3>5, AgreedArrives
  <2> QED
    BY <1>0, <2>1, <2>2, <2>4, <2>5, NextGoes
<1>2. CASE m.kind = "complete" /\ ui.step \in FormStep /\ StayPut(rest)
  BY <1>0, <1>2, AgreedStays
<1>3. CASE m.kind = "back" /\ GoToPreviousStep(rest)
  <2>1. ui.step = "preview"
    BY <1>0, <1>3 DEF Belongs
  <2>2. ASSUME NEW target, Visits(target, st, rest), Backward(ui.step, target.step)
        PROVE  Agreed'
    <3>1. target \in Ui /\ Arrive(target, st, rest) /\ target.step \notin {"confirm", "exec"}
      BY <2>1, <2>2 DEF Visits, Backward, ConfigureStep, EarlyStep
    <3> QED
      BY <1>0, <2>1, <3>1, AgreedArrives
  <2> QED
    BY <1>0, <1>3, <2>1, <2>2, PreviousGoes, AgreedStays
<1>4. CASE m.kind = "jump" /\ JumpToStep(<<"basics", "advanced">>[m.n], rest)
  <2>1. ui.step = "review" /\ m.n \in {1, 2}
    BY <1>0, <1>4 DEF Belongs
  <2> DEFINE step == <<"basics", "advanced">>[m.n]
             u == [At1(step) EXCEPT !.toReview = TRUE]
  <2>2. step \in FormStep
    BY <2>1 DEF FormStep
  <2> HIDE DEF step
  <2>3. JumpToStep(step, rest)
    BY <1>4 DEF step
  <2>4. u \in Ui /\ u.step = step /\ Arrive(u, st, rest)
    BY <1>0, <2>1, <2>2, <2>3, JumpMoves, Zenon
  <2> HIDE DEF u
  <2> QED
    BY <1>0, <2>1, <2>2, <2>4, AgreedArrives DEF FormStep
<1>5. CASE m.kind = "swap" /\ SwapFlow(m.n, rest)
  <2>1. ui.step \in {"welcome", "finish"} /\ m.n \in Session
    BY <1>0, <1>5 DEF Belongs, Opens
  <2> DEFINE u == Swapped(m.n)
  <2>2. /\ Moved /\ u.step = "op"
        /\ \E marker \in BOOLEAN : Arrive(u, FreshState(marker), rest)
    BY <1>0, <1>5, <2>1, SwapMoves
  <2>3. PICK marker \in BOOLEAN : Arrive(u, FreshState(marker), rest)
    BY <2>2
  <2>4. u \in Ui
    <3>1. ui' = u
      BY <2>3, Zenon DEF Arrive
    <3> QED
      BY <2>2, <3>1 DEF Moved
  <2> HIDE DEF u
  <2> QED
    BY <1>0, <2>1, <2>2, <2>3, <2>4, FreshTyped, AgreedArrives
<1>6. CASE /\ m.kind = "openfailed"
           /\ ui' = [ui EXCEPT !.opening = FALSE] /\ msgs' = rest
           /\ UNCHANGED <<st, consent, session, operation>>
  <2>1. SameScreen(ui')
    BY <1>0, <1>6 DEF Ui, SameScreen
  <2> QED
    BY <1>0, <1>6, <2>1, AgreedQuietly DEF operation
<1> QED
  BY <1>1, <1>2, <1>3, <1>4, <1>5, <1>6 DEF Received, rest

LEMMA AgreedEsc ==
    ASSUME Well, Agreed, PressEsc
    PROVE  Agreed'
<1>1. /\ Running /\ ui.step \notin {"exec", "done", "stream", "finish"}
      /\ st \in State /\ msgs \in SUBSET msgs
      /\ eng.kind # "manage"
  BY DEF PressEsc, InterceptsBack, ExecStep, Well, WizardTypeOK, Agreed, OnlyExecuting
<1>2. CASE GoToPreviousStep(msgs)
  <2>1. ASSUME NEW target, Visits(target, st, msgs), Backward(ui.step, target.step)
        PROVE  Agreed'
    <3>1. target \in Ui /\ Arrive(target, st, msgs) /\ target.step \notin {"confirm", "exec"}
      BY <2>1 DEF Visits, Backward, ConfigureSteps, EarlyStep
    <3> QED
      BY <1>1, <3>1, AgreedArrives
  <2> QED
    BY <1>1, <1>2, <2>1, PreviousGoes, AgreedStays
<1>3. CASE ui.suspended # NoPlace /\ RestoreFlow
  <2> DEFINE u == Restored
  <2>1. Moved /\ Arrive(u, Idle, msgs) /\ u.step \in {"welcome", "finish"}
    BY <1>1, <1>3, RestoreMoves
  <2>2. u \in Ui
    <3>1. ui' = u
      BY <2>1, Zenon DEF Arrive
    <3> QED
      BY <2>1, <3>1 DEF Moved
  <2>3. Idle \in State
    BY FreshTyped DEF Idle
  <2> HIDE DEF u
  <2> QED
    BY <1>1, <2>1, <2>2, <2>3, AgreedArrives
<1> QED
  BY <1>2, <1>3 DEF PressEsc


LEMMA AgreedDeliver ==
    ASSUME Well, Agreed, Deliver
    PROVE  Agreed'
<1>0. Running /\ st \in State
  BY DEF Deliver, Well, WizardTypeOK
<1>1. ASSUME NEW m \in msgs, Received(m) PROVE Agreed'
  BY <1>0, <1>1, AgreedReceived
<1>2. ASSUME NEW m \in msgs, NodesLoaded(m) PROVE Agreed'
  <2> DEFINE l == IF m.ok THEN st.op ELSE "failed"
  <2>1. /\ st' = [st EXCEPT !.list = l] /\ msgs' = msgs \ {m}
        /\ UNCHANGED <<ui, consent, eng>>
    BY <1>2 DEF NodesLoaded, Taken, operation
  <2> HIDE DEF l
  <2>2. /\ st'.proceed = st.proceed /\ st'.phase = st.phase /\ st'.plan = st.plan
        /\ Requested(st') = Requested(st)
    BY <1>0, <2>1 DEF State, Requested
  <2> QED
    BY <2>1, <2>2
       DEF Agreed, PlanRead, PlanAccepted, NameTyped, OnlyExecuting, PlanExecuted, Running
<1>3. ASSUME NEW m \in msgs, DryRunDone(m) PROVE Agreed'
  <2> DEFINE p == IF m.ok THEN [req |-> m.req, world |-> m.world] ELSE NoPlan
             a == IF m.ok THEN "done" ELSE "failed"
  <2>1. /\ m.kind = "dryran" /\ st' = [st EXCEPT !.phase = a, !.plan = p]
        /\ msgs' = msgs \ {m} /\ UNCHANGED <<ui, consent, eng>>
    BY <1>3 DEF DryRunDone, Taken, operation
  <2> HIDE DEF p, a
  <2>2. st'.proceed = st.proceed /\ st'.phase = a /\ st'.plan = p /\ Requested(st') = Requested(st)
    BY <1>0, <2>1 DEF State, Requested
  <2>3. ui.step = "preview"
    BY <1>0, <2>1 DEF Well, Screens, Belongs
  <2>4. \A w \in msgs : w.kind \in Dry => w = m
    BY <1>0, <2>1, <2>3 DEF Agreed, PlanRead, Dry
  <2>5. ~st.proceed /\ m.req = Requested(st)
    BY <1>0, <2>1, <2>3 DEF Agreed, PlanRead, Dry
  <2>6. a = "done" => p.req = m.req
    BY DEF a, p
  <2> QED
    BY <2>1, <2>2, <2>3, <2>4, <2>5, <2>6
       DEF Agreed, PlanRead, PlanAccepted, NameTyped, OnlyExecuting, PlanExecuted, Running
<1> QED
  BY <1>1, <1>2, <1>3 DEF Deliver

LEMMA AgreedShell ==
    ASSUME Well, Agreed, PressCtrlC \/ AnswerDiscard
    PROVE  Agreed'
<1>0. ui \in Ui /\ eng \in Engine
  BY DEF Well, WizardTypeOK
<1>1. SameScreen(ui')
  BY <1>0 DEF PressCtrlC, AnswerDiscard, Quitting, Ui, SameScreen
<1>2. /\ eng' = eng \/ eng' = [eng EXCEPT !.cancel = TRUE]
      /\ UNCHANGED <<msgs, st, consent>>
  BY DEF PressCtrlC, AnswerDiscard, operation
<1>3. /\ eng'.kind = eng.kind /\ eng'.stage = eng.stage
      /\ eng'.approved = eng.approved /\ eng'.plan = eng.plan
      /\ eng'.req = eng.req /\ eng'.resumed = eng.resumed
  BY <1>0, <1>2 DEF Engine
<1> QED
  BY <1>1, <1>2, <1>3
     DEF Agreed, PlanRead, PlanAccepted, NameTyped, OnlyExecuting, PlanExecuted, SameScreen, Running

LEMMA AgreedWork ==
    ASSUME Well, Agreed, ManageWork
    PROVE  Agreed'
<1>1. ASSUME NEW m \in msgs, NEW a, Becomes(m, a),
             \/ m.kind = "list" /\ a.kind = "listed"
             \/ m.kind = "dryrun" /\ a.kind = "dryran" /\ a.req = m.req
      PROVE  Agreed'
  <2>1. msgs' = (msgs \ {m}) \cup {a} /\ UNCHANGED <<ui, st, consent, eng>>
    BY <1>1 DEF Becomes, operation
  <2>2. CASE m.kind = "list" /\ a.kind = "listed"
    BY <2>1, <2>2, AgreedQuiet DEF SameScreen, Dry
  <2>3. CASE m.kind = "dryrun" /\ a.kind = "dryran" /\ a.req = m.req
    <3>1. PlanRead'
      BY <2>1, <2>3 DEF Agreed, PlanRead, Dry, Running
    <3> QED
      BY <2>1, <2>3, <3>1
         DEF Agreed, PlanAccepted, NameTyped, OnlyExecuting, PlanExecuted, Running
  <2> QED
    BY <1>1, <2>2, <2>3
<1>2. msgs \subseteq Message
  BY DEF Well, WizardTypeOK
<1>3. CASE ListNodes
  <2>1. PICK m \in msgs, ok \in BOOLEAN :
           m.kind = "list" /\ Becomes(m, [m EXCEPT !.kind = "listed", !.ok = ok])
    BY <1>3 DEF ListNodes
  <2> DEFINE a == [m EXCEPT !.kind = "listed", !.ok = ok]
  <2>2. a.kind = "listed"
    BY <1>2 DEF Message
  <2> HIDE DEF a
  <2> QED
    BY <1>1, <2>1, <2>2 DEF a
<1>4. CASE DryRun
  <2>1. PICK m \in msgs : m.kind = "dryrun" /\ \E ok \in {FALSE, Plannable(m.req)} :
           Becomes(m, [m EXCEPT !.kind = "dryran", !.ok = ok, !.world = world])
    BY <1>4 DEF DryRun
  <2>2. PICK ok \in {FALSE, Plannable(m.req)} :
           Becomes(m, [m EXCEPT !.kind = "dryran", !.ok = ok, !.world = world])
    BY <2>1
  <2> DEFINE a == [m EXCEPT !.kind = "dryran", !.ok = ok, !.world = world]
  <2>3. a.kind = "dryran" /\ a.req = m.req
    BY <1>2 DEF Message
  <2> HIDE DEF a
  <2> QED
    BY <1>1, <2>1, <2>2, <2>3 DEF a
<1> QED
  BY <1>3, <1>4 DEF ManageWork

\* The goroutine's runner starts only on the request that was approved, and on
\* the nodes that were unless it resumes.
LEMMA AgreedEngine ==
    ASSUME Well, Agreed, EngineNext
    PROVE  Agreed'
<1>0. /\ UNCHANGED <<ui, msgs, st, consent>> /\ eng \in Engine
  BY DEF EngineNext, Well, WizardTypeOK
<1> SUFFICES /\ eng'.kind = eng.kind
             /\ eng'.stage \in {"plan", "start", "work", "stop"} =>
                   /\ eng.stage \in {"plan", "start", "work", "stop"}
                   /\ eng'.approved = eng.approved /\ eng'.req = eng.req
                   /\ eng'.stage # "plan"
                   /\ \/ eng.stage # "plan" /\ eng'.plan = eng.plan /\ eng'.resumed = eng.resumed
                      \/ /\ eng'.plan.req = eng.req
                         /\ eng'.resumed \/ eng'.plan.world.nodes = eng.approved.world.nodes
  BY <1>0 DEF Agreed, PlanRead, PlanAccepted, NameTyped, OnlyExecuting, PlanExecuted, Running
<1>1. CASE Work
  <2>1. eng.stage = "work" /\ \E out, f : eng' = [eng EXCEPT !.stage = "stop", !.out = out, !.failed = f]
    BY <1>1 DEF Work, EngineAt
  <2> QED
    BY <1>0, <2>1 DEF Engine
<1>2. CASE Confirm
  <2> DEFINE f == FreshPlan
  <2>1. f \in Plan /\ f.req = eng.req
    BY <1>0 DEF FreshPlan, Plan, Engine, Well, WizardTypeOK
  <2>2. \/ \E out : eng' = [eng EXCEPT !.stage = "final", !.out = out]
        \/ /\ eng.stage = "plan" /\ f.world.nodes = eng.approved.world.nodes
           /\ eng' = [eng EXCEPT !.stage = "start", !.plan = f]
        \/ /\ eng.stage = "plan"
           /\ eng' = [eng EXCEPT !.stage = "start", !.plan = f, !.resumed = TRUE]
    BY <1>2 DEF Confirm, PlansEquivalent, EngineAt
  <2> HIDE DEF f
  <2> QED
    BY <1>0, <2>1, <2>2 DEF Engine
<1>3. CASE StepStarted
  <2>1. eng.stage = "start" /\ eng' = [eng EXCEPT !.stage = "work"]
    BY <1>3 DEF StepStarted, EngineAt
  <2> QED
    BY <1>0, <2>1 DEF Engine
<1>4. CASE StepFinished
  <2>1. /\ eng.stage = "stop"
        /\ eng' = Past(eng) \/ eng' = [eng EXCEPT !.stage = "final"]
    BY <1>4 DEF StepFinished, EngineAt
  <2>2. CASE eng' = Past(eng)
    BY <1>0, <2>1, <2>2, PastTyped
  <2>3. CASE eng' = [eng EXCEPT !.stage = "final"]
    BY <1>0, <2>1, <2>3 DEF Engine
  <2> QED
    BY <2>1, <2>2, <2>3
<1>5. CASE SendFinal
  <2>1. eng' = EndedEngine
    BY <1>5 DEF SendFinal, EndedEngine
  <2> QED
    BY <1>0, <2>1, EndedTyped
<1>6. CASE StopsBetween
  <2>1. \E out : eng' = [eng EXCEPT !.stage = "final", !.out = out]
    BY <1>6 DEF StopsBetween
  <2> QED
    BY <1>0, <2>1 DEF Engine
<1>7. CASE StepSkipped
  <2>1. eng.stage = "start" /\ eng' = Past(eng)
    BY <1>7 DEF StepSkipped, EngineAt
  <2> QED
    BY <1>0, <2>1, PastTyped
<1> QED
  BY <1>1, <1>2, <1>3, <1>4, <1>5, <1>6, <1>7 DEF EngineNext

LEMMA AgreedFeed ==
    ASSUME Well, Agreed, FeedNext
    PROVE  Agreed'
<1>0. ui \in Ui
  BY DEF Well, WizardTypeOK
<1>1. UNCHANGED <<st, consent, eng>>
  BY DEF FeedNext, Listen, ListenGivesUp, ApplyEvent, ApplyFinal, SettleEnds, operation
<1>2. SameScreen(ui')
  BY <1>0 DEF FeedNext, Listen, ListenGivesUp, ApplyEvent, ApplyFinal, SettleEnds, Ui, SameScreen
<1>3. CASE Listen \/ ListenGivesUp \/ ApplyEvent
  BY <1>1, <1>2, <1>3, AgreedQuietly DEF Listen, ListenGivesUp, ApplyEvent
<1>4. CASE ApplyFinal \/ SettleEnds
  <2>1. Signal("complete").kind = "complete"
    BY Signalled
  <2>2. ui.step # "confirm"
    BY <1>4 DEF ApplyFinal, SettleEnds, OnExec, ExecStep
  <2>3. msgs' = msgs \/ msgs' = msgs \cup {Signal("complete")}
    BY <1>4 DEF ApplyFinal, SettleEnds
  <2> QED
    BY <1>1, <1>2, <2>1, <2>2, <2>3, AgreedQuietly, AgreedMore DEF Dry
<1> QED
  BY <1>3, <1>4 DEF FeedNext

LEMMA AgreedOpen ==
    ASSUME Well, Agreed, OpenFlow
    PROVE  Agreed'
<1>1. PICK m \in Opening :
         /\ \/ msgs' = (msgs \ {m}) \cup Answered([m EXCEPT !.kind = "openfailed"])
            \/ \E n : msgs' = (msgs \ {m}) \cup Answered([m EXCEPT !.kind = "swap", !.n = n])
         /\ UNCHANGED <<ui, st, consent, eng>>
  BY DEF OpenFlow, operation
<1>2. m \in Message
  BY DEF Opening, Well, WizardTypeOK
<1>3. \A a : \A w \in Answered(a) : w = a
  BY DEF Answered
<1>4. [m EXCEPT !.kind = "openfailed"].kind = "openfailed"
  BY <1>2 DEF Message
<1>5. \A n : [m EXCEPT !.kind = "swap", !.n = n].kind = "swap"
  BY <1>2 DEF Message
<1>6. \A w \in msgs' : w \in msgs \/ w.kind \in {"openfailed", "swap"}
  BY <1>1, <1>3, <1>4, <1>5
<1> QED
  BY <1>1, <1>6, AgreedQuiet DEF SameScreen, Dry

LEMMA AgreedEnds ==
    ASSUME Well, Agreed, CliEnds
    PROVE  Agreed'
<1>1. NoEngine \in Engine /\ NoEngine.stage = "off" /\ st \in State
  BY Blanks DEF NoEngine, Well, WizardTypeOK
<1>2. ASSUME NEW status, NEW c, Leaves(status, c) PROVE Agreed'
  <2>1. ui' = [ui EXCEPT !.phase = "exited", !.exit = status]
        /\ eng' = [NoEngine EXCEPT !.kind = eng.kind, !.id = eng.id]
    BY <1>2 DEF Leaves
  <2>2. ui'.phase = "exited" /\ eng'.stage = "off"
    BY <1>1, <2>1 DEF Ui, Engine, Well, WizardTypeOK
  <2> QED
    BY <2>2 DEF Agreed, PlanRead, PlanAccepted, NameTyped, OnlyExecuting, PlanExecuted, Running
<1>3. ASSUME NEW c, Streams(c) PROVE Agreed'
  <2>1. ui' = Opened("deploy") /\ eng' = Engaged("deploy", 0)
    BY <1>3 DEF Streams
  <2>2. ui'.step = "stream"
    BY <2>1, StepAt DEF Opened
  <2>3. eng'.kind = "deploy"
    BY <1>1, <2>1, EngagedTyped, Constants
  <2> QED
    BY <2>2, <2>3 DEF Agreed, PlanRead, PlanAccepted, NameTyped, OnlyExecuting, PlanExecuted
<1> QED
  BY <1>2, <1>3, EndsHow

\* The interface lets go of the terminal.
LEMMA ShutsDown ==
    ASSUME Well, NEW last \in Ui, Shutdown(last)
    PROVE  ui'.phase = "closing" /\ ui'.live = last.live
<1> DEFINE a == [last EXCEPT !.phase = "closing", !.interrupted = FALSE, !.settling = FALSE, !.quit = FALSE]
           b == [a EXCEPT !.asked = FALSE, !.opening = FALSE, !.toReview = FALSE, !.suspended = NoPlace]
<1>1. ui' = b
  BY Zenon DEF Shutdown
<1>2. a \in Ui /\ a.phase = "closing" /\ a.live = last.live
  BY DEF Ui
<1> HIDE DEF a
<1>3. b.phase = "closing" /\ b.live = last.live
  BY <1>2 DEF Ui
<1> HIDE DEF b
<1> QED
  BY <1>1, <1>3

LEMMA AgreedCloses ==
    ASSUME Well, Agreed, QuitArrives \/ RendererFails \/ NotStarted \/ Drift
    PROVE  Agreed'
<1>0. ui \in Ui /\ eng \in Engine
  BY DEF Well, WizardTypeOK
<1>1. ASSUME NEW last \in Ui, Shutdown(last) PROVE Agreed'
  <2>1. eng' = eng \/ eng' = [eng EXCEPT !.cancel = TRUE]
    BY <1>1 DEF Shutdown
  <2>2. /\ eng'.kind = eng.kind /\ eng'.stage = eng.stage
        /\ eng'.approved = eng.approved /\ eng'.plan = eng.plan
        /\ eng'.req = eng.req /\ eng'.resumed = eng.resumed
    BY <1>0, <2>1 DEF Engine
  <2>3. consent' = consent /\ ui'.phase = "closing"
    BY <1>1, ShutsDown DEF Shutdown
  <2> QED
    BY <2>2, <2>3 DEF Agreed, PlanRead, PlanAccepted, NameTyped, OnlyExecuting, PlanExecuted, Running
<1>2. CASE QuitArrives
  BY <1>0, <1>1, <1>2 DEF QuitArrives
<1>3. CASE RendererFails
  <2> DEFINE u == [ui EXCEPT !.crashed = TRUE, !.outcome = "unset", !.exitStep = None]
  <2>1. u \in Ui
    BY <1>0 DEF Ui
  <2>2. Shutdown(u)
    BY <1>3 DEF RendererFails
  <2> HIDE DEF u
  <2> QED
    BY <1>1, <2>1, <2>2
<1>4. CASE NotStarted \/ Drift
  BY <1>4, AgreedQuietly DEF NotStarted, Drift, SameScreen, operation
<1> QED
  BY <1>2, <1>3, <1>4

LEMMA AgreedInit ==
    WizardInit => Agreed
<1> SUFFICES ASSUME WizardInit PROVE Agreed
  OBVIOUS
<1>1. eng = NoEngine /\ (ui = Opened("configure") \/ ui = [Opened("manage") EXCEPT !.live = 1])
  BY DEF WizardInit
<1>2. Opened("configure").step = "welcome" /\ Opened("manage").step = "op"
  BY FlowSteps, StepAt DEF Opened
<1>3. [Opened("manage") EXCEPT !.live = 1].step = Opened("manage").step
  BY DEF Opened
<1>4. ui.step \in {"welcome", "op"} /\ eng.kind = None
  BY <1>1, <1>2, <1>3 DEF NoEngine
<1> QED
  BY <1>4 DEF Agreed, PlanRead, PlanAccepted, NameTyped, OnlyExecuting, PlanExecuted, None

LEMMA AgreedStep ==
    ASSUME Well, Agreed, [WizardNext]_vars
    PROVE  Agreed'
<1>1. CASE UNCHANGED vars
  BY <1>1, AgreedQuietly DEF vars, operation, SameScreen
<1>2. CASE WizardNext
  BY <1>2, AgreedHubKeys, AgreedManageKeys, AgreedShell, AgreedEsc, AgreedDeliver, AgreedWork,
     AgreedEngine, AgreedFeed, AgreedOpen, AgreedEnds, AgreedCloses DEF WizardNext, Keys, Works
<1> QED
  BY <1>1, <1>2

\* Every node operation runs the request whose plan the operator read and accepted
\* in that pass through the preview, on that plan's nodes unless it resumes, and
\* removes a node only once the cluster's name was typed (cli/node_manage.go
\* executeLifecycleOp, lifecycle/preview.go, lifecycle/confirm.go).
THEOREM ConsentGiven == WizardSpec => []ConsentedPlan
<1>1. WizardInit => Well /\ Agreed
  BY WellInit, AgreedInit
<1>2. Well /\ Agreed /\ [WizardNext]_vars => (Well /\ Agreed)'
  BY WellStep, AgreedStep
<1>3. Well /\ Agreed => ConsentedPlan
  BY DEF Agreed, PlanExecuted, ConsentedPlan
<1> QED
  BY <1>1, <1>2, <1>3, PTL DEF WizardSpec



-----------------------------------------------------------------------------
(* Sessions *)

\* The session the CLI would close is the open one, and the one on screen.  The
\* hub has one handover under way at a time; on a deploy's finish screen the verb
\* may be pressed again while the first press is at work, and the later session
\* takes the place of the one that is shown.
Handover == {"open", "swap"}
Accounted(n) == n = slot \/ (program = "deploy" /\ Superseded(n))
Before == Running /\ program # "deploy"
InOrder == \A n, k \in Session : session[n].life = None /\ session[k].life # None => k < n
SlotOpen == \A n \in Session : (session[n].life = "open") <=> (slot = n)
ScreenOpen == Running /\ ui.flow = "manage" => Accounted(ui.live)
OneHandover ==
    /\ Running => \A m \in msgs : m.kind = "swap" => Accounted(m.n)
    /\ Before => /\ \A m \in msgs : m.fresh
                 /\ \A m, w \in msgs : m.kind \in Handover /\ w.kind \in Handover => m = w
FromWelcome ==
    Before /\ ui.step = "welcome" =>
        /\ \A m \in msgs : m.kind \in Opens => ui.opening /\ ui.verb = "manage"
        /\ \A m, w \in msgs : m.kind \in Opens /\ w.kind \in Opens => m = w
Undeployed == Before => ui.flow # "deploy" /\ ui.suspended.flow # "deploy"
AllClosed == ui.phase = "exited" => slot = 0 /\ msgs = {}

HandedOver ==
    InOrder /\ SlotOpen /\ ScreenOpen /\ OneHandover /\ FromWelcome /\ Undeployed /\ AllClosed

SameOffer(u) == SameScreen(u) /\ u.opening = ui.opening /\ u.verb = ui.verb
SameLives == \A n \in Session : session'[n].life = session[n].life

LEMMA HandedQuiet ==
    ASSUME HandedOver, SameOffer(ui'), UNCHANGED <<program, slot>>, SameLives,
           \A m \in msgs' : m \in msgs \/ (Running /\ m.kind \notin Opens /\ m.fresh)
    PROVE  HandedOver'
<1>1. (Running' <=> Running) /\ (Before' <=> Before) /\ ui'.step = ui.step
      /\ ui'.flow = ui.flow /\ ui'.suspended = ui.suspended /\ ui'.live = ui.live
  BY DEF SameOffer, SameScreen, Running, Before
<1>2. SlotOpen' /\ InOrder'
  BY DEF HandedOver, SlotOpen, InOrder, SameLives
<1>3. ScreenOpen'
  BY <1>1 DEF HandedOver, ScreenOpen, Accounted, Superseded, SameLives
<1>4. OneHandover'
  <2>1. Running' => \A m \in msgs' : m.kind = "swap" => Accounted(m.n)'
    BY <1>1 DEF HandedOver, OneHandover, Accounted, Superseded, SameLives, Opens
  <2>2. Before' => /\ \A m \in msgs' : m.fresh
                   /\ \A m, w \in msgs' : m.kind \in Handover /\ w.kind \in Handover => m = w
    BY <1>1 DEF HandedOver, OneHandover, Handover, Opens
  <2> QED
    BY <2>1, <2>2 DEF OneHandover, Accounted, Superseded
<1>5. FromWelcome'
  BY <1>1 DEF HandedOver, FromWelcome, SameOffer
<1>6. AllClosed' /\ Undeployed'
  BY <1>1 DEF HandedOver, AllClosed, Undeployed, SameOffer, SameScreen, Running
<1> QED
  BY <1>2, <1>3, <1>4, <1>5, <1>6 DEF HandedOver

LEMMA HandedQuietly ==
    ASSUME HandedOver, SameOffer(ui'), UNCHANGED <<program, slot, session>>, msgs' \subseteq msgs
    PROVE  HandedOver'
BY HandedQuiet DEF SameLives

LEMMA HandedMore ==
    ASSUME HandedOver, Running, SameOffer(ui'), UNCHANGED <<program, slot, session>>,
           NEW m, msgs' = msgs \cup {m}, m.kind \notin Opens, m.fresh
    PROVE  HandedOver'
BY HandedQuiet DEF SameLives

\* No session is being built outside the two screens that open the flow, unless it
\* was pressed for again on the finish screen.
LEMMA NothingOpens ==
    ASSUME Well, HandedOver, Before, ui.step \notin {"welcome", "finish"}
    PROVE  \A m \in msgs : m.kind \notin Opens
BY DEF Well, Screens, Belongs, HandedOver, OneHandover, Before

LEMMA EngineEnteredLives ==
    ASSUME Well, NEW step, NEW s, EngineEntered(step, s), step = "exec" => ui.live \in Session
    PROVE  SameLives
<1>1. CASE step = "exec"
  <2> DEFINE x == Begun(session[ui.live].exe)
  <2>1. session' = [session EXCEPT ![ui.live].exe = x]
    BY <1>1 DEF EngineEntered
  <2>2. session \in [Session -> SessionState] /\ session[ui.live].exe \in Executed
    BY <1>1 DEF Well, WizardTypeOK, SessionState
  <2>3. x \in Executed
    BY <2>2, BegunTyped
  <2> HIDE DEF x
  <2> QED
    BY <1>1, <2>1, <2>2, <2>3, SessionTyped DEF SameLives
<1>2. CASE step # "exec"
  BY <1>2 DEF EngineEntered, SameLives, operation
<1> QED
  BY <1>1, <1>2

\* An arrival where no session was being built leaves none behind.
LEMMA HandedArrives ==
    ASSUME Well, HandedOver, Running, NEW target \in Ui, NEW s \in State, NEW rest \in SUBSET msgs,
           Arrive(target, s, rest), target.phase = "running", UNCHANGED <<program, slot>>,
           Before => \A m \in rest : m.kind # "open",
           Before => target.flow # "deploy" /\ target.suspended.flow # "deploy",
           target.flow = "manage" => Accounted(target.live),
           target.step = "exec" => ui.live \in Session
    PROVE  HandedOver'
<1>1. /\ ui' = target
      /\ msgs' = Stale(rest) \cup Commands(target.step, s)
      /\ EngineEntered(target.step, s)
  BY DEF Arrive
<1>2. /\ \A m \in Stale(rest) : m.kind = "open"
      /\ Before => Stale(rest) = {}
  BY Left, FS_Subset DEF Well, Screens, WizardTypeOK
<1>3. target.step \in StepId
  BY DEF Ui
<1>4. \A m \in msgs' : m.kind \in {"dryrun", "list", "open"}
  BY <1>1, <1>2, <1>3, CommandsTyped
<1>5. Before => \A m \in msgs' : m.fresh /\ m.kind \in {"dryrun", "list"}
  BY <1>1, <1>2, <1>3, CommandsTyped
<1>6. SameLives
  BY <1>1, EngineEnteredLives
<1>7. SlotOpen' /\ InOrder'
  BY <1>6 DEF HandedOver, SlotOpen, InOrder, SameLives
<1>8. ScreenOpen'
  BY <1>1, <1>6 DEF ScreenOpen, Accounted, Superseded, SameLives
<1>9. OneHandover' /\ FromWelcome' /\ Undeployed' /\ AllClosed'
  BY <1>1, <1>4, <1>5 DEF OneHandover, FromWelcome, Undeployed, AllClosed, Opens, Handover, Before, Running
<1> QED
  BY <1>7, <1>8, <1>9 DEF HandedOver

LEMMA HandedVisits ==
    ASSUME Well, HandedOver, Running, NEW s \in State, NEW rest \in SUBSET msgs, NEW target,
           Visits(target, s, rest), UNCHANGED <<program, slot>>,
           Before => \A m \in rest : m.kind # "open"
    PROVE  HandedOver'
<1>1. /\ target \in Ui /\ OnScreen(target) /\ target.phase = "running"
      /\ target.flow = ui.flow /\ target.live = ui.live /\ target.suspended = ui.suspended
      /\ Arrive(target, s, rest)
  BY DEF Visits
<1>2. target.step = "exec" => ui.live \in Session
  <2>1. target.step = "exec" => target.flow = "manage"
    BY <1>1, StepFlow DEF OnScreen, ManageSteps
  <2> QED
    BY <1>1, <2>1 DEF Well, Screens, OnScreen
<1>3. Before => target.flow # "deploy" /\ target.suspended.flow # "deploy"
  BY <1>1 DEF HandedOver, Undeployed
<1> QED
  BY <1>1, <1>2, <1>3, HandedArrives DEF HandedOver, ScreenOpen

\* A session more begins to be built (or the step is left): the first one before a deploy.
LEMMA HandedOpens ==
    ASSUME HandedOver, Running, UNCHANGED <<program, slot, session>>, SameScreen(ui'),
           NEW m, m.kind \in {"open", "complete"}, m.fresh, msgs' = msgs \cup {m},
           Before => \A w \in msgs : w.kind \notin Opens,
           FromWelcome'
    PROVE  HandedOver'
<1>1. Running' /\ (Before' <=> Before)
  BY DEF SameScreen, Running, Before
<1>2. OneHandover'
  BY <1>1 DEF HandedOver, OneHandover, Handover, Opens, Accounted, Superseded
<1>3. ScreenOpen' /\ Undeployed' /\ AllClosed'
  BY <1>1 DEF HandedOver, ScreenOpen, Accounted, Superseded, Undeployed, AllClosed, SameScreen, Running
<1> QED
  BY <1>2, <1>3 DEF HandedOver, SlotOpen, InOrder

LEMMA HandedHubKeys ==
    ASSUME Well, HandedOver, HubKeys
    PROVE  HandedOver'
<1>0. ui \in Ui
  BY DEF Well, WizardTypeOK
<1>1. ASSUME NEW v \in Verb, ConfirmVerb(v) PROVE HandedOver'
  <2> DEFINE kind == IF v = "manage" THEN "open" ELSE "complete"
             b == v = "manage"
  <2>1. /\ Running /\ ui.step = "welcome" /\ ~ui.opening
        /\ ui' = [ui EXCEPT !.verb = v, !.opening = b]
        /\ msgs' = msgs \cup {Signal(kind)} /\ UNCHANGED <<program, session, slot>>
    BY <1>1 DEF ConfirmVerb, Press
  <2>2. kind \in {"complete", "open"} /\ (kind = "open" <=> b) /\ b \in BOOLEAN
    OBVIOUS
  <2>3. b => v = "manage"
    OBVIOUS
  <2> HIDE DEF kind, b
  <2>4. Signal(kind).kind = kind /\ Signal(kind).fresh
    BY <2>1, <2>2, Signalled
  <2>5. SameScreen(ui') /\ ui'.verb = v /\ ui'.opening = b
    BY <1>0, <2>1, <2>2 DEF Ui, SameScreen
  <2>6. Before => \A m \in msgs : m.kind \notin Opens
    BY <2>1 DEF HandedOver, FromWelcome
  <2>7. Running' /\ (Before' <=> Before) /\ ui'.step = ui.step /\ ui'.flow = ui.flow /\ ui'.live = ui.live
    BY <2>1, <2>5 DEF SameScreen, Running, Before
  <2>8. FromWelcome'
    BY <2>1, <2>2, <2>3, <2>4, <2>5, <2>6, <2>7 DEF HandedOver, FromWelcome, Opens
  <2> QED
    BY <2>1, <2>2, <2>4, <2>5, <2>6, <2>7, <2>8, HandedOpens
<1>2. ASSUME NEW m, Running, Returns(m), m.kind \notin Opens, m.fresh
      PROVE  HandedOver'
  <2>1. msgs' = msgs \cup {m} /\ UNCHANGED <<program, ui, session, slot>>
    BY <1>2 DEF Returns
  <2> QED
    BY <1>2, <2>1, HandedMore DEF SameOffer, SameScreen
<1>3. Signal("complete").kind = "complete" /\ Signal("complete").fresh
  BY Signalled
<1>4. CASE FinishExit \/ SubmitForm
  <2>1. Running /\ Returns(Signal("complete"))
    BY <1>4 DEF FinishExit, SubmitForm, Press
  <2> QED
    BY <1>2, <1>3, <2>1 DEF Opens
<1>5. CASE FinishManage
  <2> DEFINE m == Msg("open", "finish", NoRequest, Cardinality(Opening))
  <2>1. /\ Running /\ ui.step = "finish" /\ Returns(m)
    BY <1>5 DEF FinishManage, Press
  <2>2. m.kind = "open" /\ m.fresh
    BY DEF Msg
  <2> HIDE DEF m
  <2>3. msgs' = msgs \cup {m} /\ UNCHANGED <<program, ui, session, slot>>
    BY <2>1 DEF Returns
  <2>4. ~Before
    <3>1. OnScreen(ui)
      BY <2>1 DEF Well, Screens
    <3> QED
      BY <1>0, <2>1, <3>1, StepFlow DEF OnScreen, DeploySteps, HandedOver, Undeployed
  <2>5. ~Before' /\ SameScreen(ui')
    BY <2>3, <2>4 DEF Before, Running, SameScreen
  <2>6. FromWelcome'
    BY <2>5 DEF FromWelcome
  <2> QED
    BY <2>1, <2>2, <2>3, <2>4, <2>5, <2>6, HandedOpens
<1>6. CASE EditField
  BY <1>6, HandedQuietly DEF EditField, SameOffer, SameScreen
<1>7. CASE ReviewJump
  <2>1. PICK i \in {1, 2} : Returns(Msg("jump", "review", NoRequest, i))
    BY <1>7 DEF ReviewJump
  <2> DEFINE m == Msg("jump", "review", NoRequest, i)
  <2>2. Running /\ Returns(m)
    BY <1>7, <2>1 DEF ReviewJump, Press
  <2>3. m.kind = "jump" /\ m.fresh
    BY DEF Msg
  <2> HIDE DEF m
  <2> QED
    BY <1>2, <2>2, <2>3 DEF Opens
<1>8. CASE ReviewConfirm
  <2>1. /\ Running /\ \E a \in {"deploy", "exit"} : ui' = [ui EXCEPT !.choice = a]
        /\ msgs' = msgs \cup {Signal("complete")} /\ UNCHANGED <<program, session, slot>>
    BY <1>8 DEF ReviewConfirm, Press
  <2>2. SameOffer(ui')
    BY <1>0, <2>1 DEF Ui, SameScreen, SameOffer
  <2> QED
    BY <1>3, <2>1, <2>2, HandedMore DEF Opens
<1> QED
  BY <1>1, <1>4, <1>5, <1>6, <1>7, <1>8 DEF HubKeys

LEMMA HandedManageKeys ==
    ASSUME Well, HandedOver, ManageKeys
    PROVE  HandedOver'
<1>1. ASSUME Running, NEW m, Returns(m), m.kind \notin Opens, m.fresh PROVE HandedOver'
  <2>1. msgs' = msgs \cup {m} /\ UNCHANGED <<program, ui, session, slot>>
    BY <1>1 DEF Returns
  <2> QED
    BY <1>1, <2>1, HandedMore DEF SameOffer, SameScreen
<1>2. /\ Signal("complete").kind = "complete" /\ Signal("complete").fresh
      /\ ui.step = "preview" => Signal("back").kind = "back" /\ Signal("back").fresh
  BY Signalled
<1>3. CASE PressEnter \/ PressExecute \/ PressExit \/ TypeName
  <2>1. Running /\ Returns(Signal("complete"))
    BY <1>3 DEF PressEnter, PressExecute, PressExit, TypeName, PreviewKeys, Press
  <2> QED
    BY <1>1, <1>2, <2>1 DEF Opens
<1>4. CASE PressRefresh
  <2> DEFINE m == Msg("list", "target", Requested(st), 0)
  <2>1. Running /\ Returns(m)
    BY <1>4 DEF PressRefresh, Press
  <2>2. m.kind = "list" /\ m.fresh
    BY DEF Msg
  <2> HIDE DEF m
  <2> QED
    BY <1>1, <2>1, <2>2 DEF Opens
<1>5. CASE ReachBottom
  BY <1>5, HandedQuietly DEF ReachBottom, SameOffer, SameScreen
<1>6. CASE PressBackToParams
  <2>1. Running /\ ui.step = "preview" /\ Returns(Signal("back"))
    BY <1>6 DEF PressBackToParams, PreviewKeys, Press
  <2> QED
    BY <1>1, <1>2, <2>1 DEF Opens
<1> QED
  BY <1>3, <1>4, <1>5, <1>6 DEF ManageKeys


LEMMA ConcludedOffers ==
    ASSUME Well
    PROVE  SameOffer(Concluded)
<1> DEFINE a == IF ui.step = "review" THEN ui.choice
                ELSE IF ui.step = "welcome" /\ ui.verb = "deploy" THEN "deploy" ELSE "exit"
           u == [ui EXCEPT !.quit = TRUE, !.outcome = "completed", !.exitStep = ui.step, !.action = a]
<1>1. Concluded = u /\ ui \in Ui
  BY DEF Concluded, Well, WizardTypeOK
<1> HIDE DEF a
<1>2. u.opening = ui.opening /\ u.verb = ui.verb
  BY <1>1 DEF Ui
<1> HIDE DEF u
<1> QED
  BY <1>1, <1>2, ConcludedTyped DEF SameOffer

LEMMA HandedStays ==
    ASSUME HandedOver, NEW rest \in SUBSET msgs, StayPut(rest), UNCHANGED <<program, slot>>
    PROVE  HandedOver'
BY HandedQuietly DEF StayPut, SameOffer, SameScreen

LEMMA HandedReceived ==
    ASSUME Well, HandedOver, Running, NEW m \in msgs, Received(m), UNCHANGED <<program, slot>>
    PROVE  HandedOver'
<1> DEFINE rest == msgs \ {m}
<1>0. /\ rest \in SUBSET msgs /\ rest = msgs \ {m} /\ Belongs(m)
      /\ ui \in Ui /\ OnScreen(ui) /\ st \in State
      /\ Before /\ ui.step \notin {"welcome", "finish"} => \A w \in msgs : w.kind # "open"
  BY NothingOpens DEF Well, Screens, WizardTypeOK, Opens
<1> HIDE DEF rest
<1>1. CASE m.kind = "complete" /\ \E s \in Applied1 : GoToNextStep(s, rest)
  <2>1. PICK s \in Applied1 : GoToNextStep(s, rest)
    BY <1>1
  <2>2. s \in State
    BY AppliedTyped
  <2>3. CASE Concludes1(s, rest)
    <3>1. ui' = Concluded /\ msgs' = rest /\ UNCHANGED session
      BY <2>3 DEF Concludes1
    <3> QED
      BY <1>0, <3>1, ConcludedOffers, HandedQuietly
  <2>4. ASSUME NEW target, Visits(target, s, rest), Onward(ui.step, target.step, s)
        PROVE  HandedOver'
    <3>1. ui.step # "finish" /\ (ui.step = "welcome" => ui.verb = "edit")
      BY <2>4 DEF Onward, ConfigureStep, EarlyStep
    <3>2. Before => \A w \in rest : w.kind # "open"
      BY <1>0, <3>1 DEF HandedOver, FromWelcome, Opens
    <3> QED
      BY <1>0, <2>2, <2>4, <3>2, HandedVisits
  <2> QED
    BY <1>0, <2>1, <2>2, <2>3, <2>4, NextGoes
<1>2. CASE m.kind = "complete" /\ ui.step \in FormStep /\ StayPut(rest)
  BY <1>0, <1>2, HandedStays
<1>3. CASE m.kind = "back" /\ GoToPreviousStep(rest)
  <2>1. ui.step = "preview"
    BY <1>0, <1>3 DEF Belongs
  <2>2. Before => \A w \in rest : w.kind # "open"
    BY <1>0, <2>1
  <2> QED
    BY <1>0, <1>3, <2>1, <2>2, PreviousGoes, HandedStays, HandedVisits
<1>4. CASE m.kind = "jump" /\ JumpToStep(<<"basics", "advanced">>[m.n], rest)
  <2>1. ui.step = "review" /\ m.n \in {1, 2}
    BY <1>0, <1>4 DEF Belongs
  <2> DEFINE step == <<"basics", "advanced">>[m.n]
             u == [At1(step) EXCEPT !.toReview = TRUE]
  <2>2. step \in FormStep
    BY <2>1 DEF FormStep
  <2> HIDE DEF step
  <2>3. JumpToStep(step, rest)
    BY <1>4 DEF step
  <2>4. /\ u \in Ui /\ u.step = step /\ u.phase = "running" /\ u.flow = "configure"
        /\ u.suspended = ui.suspended /\ Arrive(u, st, rest)
    BY <1>0, <2>1, <2>2, <2>3, JumpMoves, Zenon
  <2> HIDE DEF u
  <2>5. Before => \A w \in rest : w.kind # "open"
    BY <1>0, <2>1
  <2>6. Before => u.suspended.flow # "deploy"
    BY <2>4 DEF HandedOver, Undeployed
  <2> QED
    BY <1>0, <2>2, <2>4, <2>5, <2>6, HandedArrives DEF FormStep
<1>5. CASE m.kind = "swap" /\ SwapFlow(m.n, rest)
  <2>1. ui.step \in {"welcome", "finish"} /\ m.n \in Session
    BY <1>0, <1>5 DEF Belongs, Opens
  <2> DEFINE u == Swapped(m.n)
  <2>2. /\ Moved /\ u.flow = "manage" /\ u.step = "op" /\ u.live = m.n /\ u.phase = "running"
        /\ \E marker \in BOOLEAN : Arrive(u, FreshState(marker), rest)
    BY <1>0, <1>5, <2>1, SwapMoves
  <2>3. PICK marker \in BOOLEAN : Arrive(u, FreshState(marker), rest)
    BY <2>2
  <2>4. u \in Ui
    <3>1. ui' = u
      BY <2>3, Zenon DEF Arrive
    <3> QED
      BY <2>2, <3>1 DEF Moved
  <2> HIDE DEF u
  <2>5. Accounted(m.n) /\ (Before => \A w \in rest : w.kind # "open")
    BY <1>0, <1>5 DEF HandedOver, OneHandover, Handover
  <2>6. u.suspended.flow = ui.flow
    BY <1>0 DEF u, Swapped, Ui
  <2>7. Before => u.flow # "deploy" /\ u.suspended.flow # "deploy"
    BY <2>2, <2>6 DEF HandedOver, Undeployed
  <2> QED
    BY <1>0, <2>2, <2>3, <2>4, <2>5, <2>7, FreshTyped, HandedArrives
<1>6. CASE /\ m.kind = "openfailed"
           /\ ui' = [ui EXCEPT !.opening = FALSE] /\ msgs' = rest
           /\ UNCHANGED <<st, consent, session, operation>>
  <2>1. SameScreen(ui')
    BY <1>0, <1>6 DEF Ui, SameScreen
  <2>2. InOrder' /\ SlotOpen' /\ ScreenOpen' /\ OneHandover' /\ AllClosed' /\ Undeployed'
    BY <1>0, <1>6, <2>1
       DEF HandedOver, InOrder, SlotOpen, ScreenOpen, OneHandover, AllClosed, Undeployed, SameScreen,
           Running, Before, Accounted, Superseded
  <2>3. Before /\ ui.step = "welcome" => \A w \in rest : w.kind \notin Opens
    BY <1>0, <1>6 DEF HandedOver, FromWelcome, Opens
  <2>4. FromWelcome'
    BY <1>6, <2>1, <2>3 DEF FromWelcome, SameScreen, Before, Running
  <2> QED
    BY <2>2, <2>4 DEF HandedOver
<1> QED
  BY <1>1, <1>2, <1>3, <1>4, <1>5, <1>6 DEF Received, rest

LEMMA HandedEsc ==
    ASSUME Well, HandedOver, PressEsc
    PROVE  HandedOver'
<1>1. /\ Running /\ ui.step \notin {"exec", "done", "stream", "finish"}
      /\ st \in State /\ msgs \in SUBSET msgs /\ UNCHANGED <<program, slot>> /\ OnScreen(ui)
  BY DEF PressEsc, InterceptsBack, ExecStep, Well, WizardTypeOK, Screens
<1>2. Before /\ ui.step # "welcome" => \A m \in msgs : m.kind # "open"
  BY <1>1, NothingOpens DEF Opens
<1>3. CASE GoToPreviousStep(msgs)
  <2>1. ASSUME NEW target, Visits(target, st, msgs), Backward(ui.step, target.step)
        PROVE  HandedOver'
    <3>1. ui.step # "welcome"
      BY <2>1 DEF Backward, ConfigureStep
    <3> QED
      BY <1>1, <1>2, <2>1, <3>1, HandedVisits
  <2> QED
    BY <1>1, <1>3, <2>1, PreviousGoes, HandedStays
<1>4. CASE ui.suspended # NoPlace /\ RestoreFlow
  <2> DEFINE u == Restored
  <2>1. /\ Moved /\ Arrive(u, Idle, msgs) /\ u.step \in {"welcome", "finish"}
        /\ u.flow # "manage" /\ u.phase = "running" /\ ui.flow = "manage"
        /\ u.suspended = NoPlace
    BY <1>1, <1>4, RestoreMoves
  <2>2. u \in Ui
    <3>1. ui' = u
      BY <2>1, Zenon DEF Arrive
    <3> QED
      BY <2>1, <3>1 DEF Moved
  <2>3. Idle \in State
    BY FreshTyped DEF Idle
  <2> HIDE DEF u
  <2>4. ui.step # "welcome"
    <3>1. ui.step \in ManageSteps
      BY <1>1, <2>1, StepSets DEF OnScreen
    <3> QED
      BY <3>1 DEF ManageSteps
  <2>5. u.flow = ui.suspended.flow
    BY DEF u, Restored, Well, WizardTypeOK, Ui
  <2>6. Before => u.flow # "deploy" /\ u.suspended.flow # "deploy"
    BY <2>1, <2>5 DEF HandedOver, Undeployed, NoPlace, None
  <2> QED
    BY <1>1, <1>2, <2>1, <2>2, <2>3, <2>4, <2>6, HandedArrives
<1> QED
  BY <1>3, <1>4 DEF PressEsc

LEMMA HandedDeliver ==
    ASSUME Well, HandedOver, Deliver
    PROVE  HandedOver'
<1>0. Running
  BY DEF Deliver
<1>1. ASSUME NEW m \in msgs, Received(m), UNCHANGED <<program, slot>> PROVE HandedOver'
  BY <1>0, <1>1, HandedReceived
<1>2. ASSUME NEW m \in msgs, NodesLoaded(m) \/ DryRunDone(m) PROVE HandedOver'
  BY <1>2, HandedQuietly DEF NodesLoaded, DryRunDone, Taken, SameOffer, SameScreen
<1> QED
  BY <1>1, <1>2 DEF Deliver

LEMMA HandedShell ==
    ASSUME Well, HandedOver, PressCtrlC \/ AnswerDiscard
    PROVE  HandedOver'
<1>0. ui \in Ui
  BY DEF Well, WizardTypeOK
<1>1. SameOffer(ui')
  BY <1>0 DEF PressCtrlC, AnswerDiscard, Quitting, Ui, SameScreen, SameOffer
<1> QED
  BY <1>1, HandedQuietly DEF PressCtrlC, AnswerDiscard

LEMMA HandedWork ==
    ASSUME Well, HandedOver, ManageWork
    PROVE  HandedOver'
<1>1. ASSUME NEW m \in msgs, NEW a, Becomes(m, a), m.kind # "open",
             a.kind \in {"listed", "dryran"}, a.fresh = m.fresh
      PROVE  HandedOver'
  <2>1. msgs' = (msgs \ {m}) \cup {a} /\ UNCHANGED <<program, ui, session, slot>>
    BY <1>1 DEF Becomes
  <2>2. Running /\ m.fresh
    BY <1>1 DEF Well, Screens, Belongs
  <2> QED
    BY <1>1, <2>1, <2>2, HandedQuiet DEF SameOffer, SameScreen, SameLives, Opens
<1>2. msgs \subseteq Message
  BY DEF Well, WizardTypeOK
<1>3. CASE ListNodes
  <2>1. PICK m \in msgs, ok \in BOOLEAN :
           m.kind = "list" /\ Becomes(m, [m EXCEPT !.kind = "listed", !.ok = ok])
    BY <1>3 DEF ListNodes
  <2> DEFINE a == [m EXCEPT !.kind = "listed", !.ok = ok]
  <2>2. a.kind = "listed" /\ a.fresh = m.fresh
    BY <1>2 DEF Message
  <2> HIDE DEF a
  <2> QED
    BY <1>1, <2>1, <2>2 DEF a
<1>4. CASE DryRun
  <2>1. PICK m \in msgs : m.kind = "dryrun" /\ \E ok \in {FALSE, Plannable(m.req)} :
           Becomes(m, [m EXCEPT !.kind = "dryran", !.ok = ok, !.world = world])
    BY <1>4 DEF DryRun
  <2>2. PICK ok \in {FALSE, Plannable(m.req)} :
           Becomes(m, [m EXCEPT !.kind = "dryran", !.ok = ok, !.world = world])
    BY <2>1
  <2> DEFINE a == [m EXCEPT !.kind = "dryran", !.ok = ok, !.world = world]
  <2>3. a.kind = "dryran" /\ a.fresh = m.fresh
    BY <1>2 DEF Message
  <2> HIDE DEF a
  <2> QED
    BY <1>1, <2>1, <2>2, <2>3 DEF a
<1> QED
  BY <1>3, <1>4 DEF ManageWork

LEMMA HandedEngine ==
    ASSUME Well, HandedOver, EngineNext
    PROVE  HandedOver'
BY HandedQuietly DEF EngineNext, SameOffer, SameScreen

\* Showing events opens and closes no session.
LEMMA FeedLives ==
    ASSUME Well, FeedNext
    PROVE  SameLives
<1> DEFINE x == Ended(session[ui.live].exe)
<1>1. session' = session \/ session' = [session EXCEPT ![ui.live].exe = x]
  BY DEF FeedNext, Listen, ListenGivesUp, ApplyEvent, ApplyFinal, SettleEnds
<1>2. CASE ui.live \in Session
  <2>1. listener.ev \in Event /\ session[ui.live].exe \in Executed
        /\ session \in [Session -> SessionState]
    BY <1>2 DEF Well, WizardTypeOK, SessionState
  <2>2. x \in Executed
    BY <2>1 DEF Ended, Executed, Event
  <2> HIDE DEF x
  <2>3. \A k \in Session : [session EXCEPT ![ui.live].exe = x][k].life = session[k].life
    BY <1>2, <2>1, <2>2, SessionTyped
  <2> QED
    BY <1>1, <2>3 DEF SameLives
<1>3. CASE ui.live \notin Session
  <2> HIDE DEF x
  <2>1. session \in [Session -> SessionState]
    BY DEF Well, WizardTypeOK
  <2>2. \A n \in Session : [session EXCEPT ![ui.live].exe = x][n] = session[n]
    BY <1>3, <2>1
  <2> QED
    BY <1>1, <2>2 DEF SameLives
<1> QED
  BY <1>2, <1>3

LEMMA HandedFeed ==
    ASSUME Well, HandedOver, FeedNext
    PROVE  HandedOver'
<1>0. ui \in Ui /\ UNCHANGED <<program, slot>>
  BY DEF Well, WizardTypeOK, FeedNext, Listen, ListenGivesUp, ApplyEvent, ApplyFinal, SettleEnds
<1>1. SameOffer(ui')
  BY <1>0 DEF FeedNext, Listen, ListenGivesUp, ApplyEvent, ApplyFinal, SettleEnds, Ui,
              SameScreen, SameOffer
<1>2. CASE Listen \/ ListenGivesUp \/ ApplyEvent
  BY <1>0, <1>1, <1>2, HandedQuietly DEF Listen, ListenGivesUp, ApplyEvent
<1>3. CASE ApplyFinal \/ SettleEnds
  <2>1. Signal("complete").kind = "complete" /\ Signal("complete").fresh
    BY Signalled
  <2>2. Running
    BY <1>3 DEF ApplyFinal, SettleEnds, OnExec, Running
  <2>3. msgs' = msgs \/ msgs' = msgs \cup {Signal("complete")}
    BY <1>3 DEF ApplyFinal, SettleEnds
  <2> QED
    BY <1>0, <1>1, <2>1, <2>2, <2>3, FeedLives, HandedQuiet DEF Opens
<1> QED
  BY <1>2, <1>3 DEF FeedNext


\* The session that is built comes after every other and takes the slot's place.
LEMMA BuiltLater ==
    ASSUME Well, HandedOver, NEW n \in Unbuilt, \A k \in Unbuilt : n <= k,
           session' = PutOver([session EXCEPT ![n].life = "open"], slot)
    PROVE  /\ \A k \in Session : (session'[k].life = "open") <=> (n = k)
           /\ InOrder'
           /\ \A k \in Session : session[k].life # None \/ Superseded(k) => Superseded(k)'
<1> DEFINE y == [session EXCEPT ![n].life = "open"]
<1>1. n \in Session /\ n \in Nat /\ session[n].life = None
  BY Constants DEF Unbuilt, Session
<1>2. session \in [Session -> SessionState] /\ slot \in 0..MaxSessions
  BY DEF Well, WizardTypeOK
<1>3. /\ y \in [Session -> SessionState]
      /\ \A k \in Session : y[k].life = IF k = n THEN "open" ELSE session[k].life
  BY <1>1, <1>2, LifeTyped, Zenon
<1>4. session' = Closed(y, slot)
  BY DEF PutOver
<1> HIDE DEF y
<1>5. \A k \in Session : session'[k].life = IF k = slot THEN "closed" ELSE y[k].life
  BY <1>2, <1>3, <1>4, ClosedTyped
<1>6. slot # n
  BY <1>1 DEF HandedOver, SlotOpen, None
<1>7. \A k \in Session : (session[k].life = "open") <=> (slot = k)
  BY DEF HandedOver, SlotOpen
<1>8. \A k \in Session : (session'[k].life = "open") <=> (n = k)
  BY <1>3, <1>5, <1>6, <1>7
<1>9. \A k \in Session : session[k].life # None => k < n
  BY <1>1 DEF HandedOver, InOrder
<1>10. \A k \in Session : /\ session[k].life # None => session'[k].life # None
                          /\ session'[k].life # None => k = n \/ session[k].life # None
  BY <1>3, <1>5, <1>7 DEF None
<1>11. \A k \in Session : session'[k].life = None => k # n /\ session[k].life = None
  BY <1>8, <1>10 DEF None
<1>12. InOrder'
  <2> SUFFICES ASSUME NEW i \in Session, NEW k \in Session,
                      session'[i].life = None, session'[k].life # None
               PROVE  k < i
    BY DEF InOrder
  <2>1. i # n /\ session[i].life = None
    BY <1>11
  <2>4. i \in Nat /\ k \in Nat
    BY Constants DEF Session
  <2>2. n <= i
    <3>1. i \in Unbuilt
      BY <2>1 DEF Unbuilt
    <3> QED
      BY <3>1
  <2>3. k = n \/ session[k].life # None
    BY <1>10
  <2> QED
    BY <1>1, <1>9, <2>1, <2>2, <2>3, <2>4
<1>13. \A k \in Session : session[k].life # None => Superseded(k)'
  BY <1>1, <1>8, <1>9 DEF Superseded, None
<1>14. \A k \in Session : Superseded(k) => Superseded(k)'
  BY <1>10 DEF Superseded
<1> QED
  BY <1>8, <1>12, <1>13, <1>14

LEMMA HandedOpen ==
    ASSUME Well, HandedOver, OpenFlow
    PROVE  HandedOver'
<1>1. PICK m \in Opening :
       \/ /\ msgs' = (msgs \ {m}) \cup Answered([m EXCEPT !.kind = "openfailed"])
          /\ UNCHANGED <<program, ui, conf, st, consent, session, slot, dep, operation, world>>
       \/ \E n \in Unbuilt :
          /\ \A k \in Unbuilt : n <= k
          /\ session' = PutOver([session EXCEPT ![n].life = "open"], slot)
          /\ slot' = n
          /\ msgs' = (msgs \ {m}) \cup Answered([m EXCEPT !.kind = "swap", !.n = n])
          /\ UNCHANGED <<program, ui, conf, st, consent, dep, operation, world>>
  BY DEF OpenFlow
<1>2. /\ m \in msgs /\ m.kind = "open" /\ m \in Message /\ UNCHANGED <<program, ui>>
      /\ Running /\ m.fresh => ui.step \in {"welcome", "finish"}
      /\ Before => m.fresh
      /\ ~Running => ~m.fresh
  BY <1>1 DEF Opening, Well, Screens, WizardTypeOK, Belongs, HandedOver, OneHandover, Opens
<1>3. \A a : Answered(a) = IF a.fresh THEN {a} ELSE {}
  BY DEF Answered
<1>4. AllClosed' /\ Undeployed'
  BY <1>2 DEF HandedOver, AllClosed, Undeployed, Before, Running
<1>5. Running /\ m.fresh => ui.flow # "manage"
  <2>1. Running => OnScreen(ui) /\ ui \in Ui
    BY DEF Well, Screens, WizardTypeOK
  <2> QED
    BY <1>2, <2>1, StepFlow DEF OnScreen, ManageSteps
\* What a handover that is answered leaves in a hub.
<1>7. ASSUME NEW a, a.kind \in {"openfailed", "swap"}, a.fresh = m.fresh,
             msgs' = (msgs \ {m}) \cup Answered(a)
      PROVE  /\ FromWelcome'
             /\ Before' => /\ \A w \in msgs' : w.fresh
                           /\ \A v, w \in msgs' : v.kind \in Handover /\ w.kind \in Handover => v = w
  <2>1. CASE ~Before
    BY <1>2, <2>1 DEF FromWelcome, Running, Before
  <2>2. CASE Before
    <3>1. msgs' = (msgs \ {m}) \cup {a} /\ a.fresh
      BY <1>2, <1>3, <1>7, <2>2
    <3>2. \A w \in msgs : w.kind \in Handover => w = m
      BY <1>2, <2>2 DEF HandedOver, OneHandover, Handover
    <3>4. FromWelcome'
      BY <1>2, <1>7, <2>2, <3>1 DEF HandedOver, FromWelcome, Opens, Running, Before
    <3> QED
      BY <1>7, <2>2, <3>1, <3>2, <3>4 DEF HandedOver, OneHandover, Handover
  <2> QED
    BY <2>1, <2>2
<1>8. CASE /\ msgs' = (msgs \ {m}) \cup Answered([m EXCEPT !.kind = "openfailed"])
           /\ UNCHANGED <<program, ui, conf, st, consent, session, slot, dep, operation, world>>
  <2> DEFINE a == [m EXCEPT !.kind = "openfailed"]
  <2>1. a.kind = "openfailed" /\ a.fresh = m.fresh
    BY <1>2 DEF Message
  <2>4. msgs' = (msgs \ {m}) \cup Answered(a) /\ UNCHANGED <<program, ui, session, slot>>
    BY <1>8
  <2> HIDE DEF a
  <2>2. FromWelcome'
    BY <1>7, <2>1, <2>4
  <2>3. SlotOpen' /\ InOrder' /\ ScreenOpen'
    BY <2>4 DEF HandedOver, SlotOpen, InOrder, ScreenOpen, Accounted, Superseded, Running
  <2>5. \A w \in msgs' : w = a \/ w \in msgs
    BY <1>3, <2>4
  <2>6. OneHandover'
    BY <1>7, <2>1, <2>4, <2>5 DEF HandedOver, OneHandover, Accounted, Superseded, Running
  <2> QED
    BY <1>4, <2>2, <2>3, <2>6 DEF HandedOver
<1>9. ASSUME NEW n \in Unbuilt,
          /\ \A k \in Unbuilt : n <= k
          /\ session' = PutOver([session EXCEPT ![n].life = "open"], slot)
          /\ slot' = n
          /\ msgs' = (msgs \ {m}) \cup Answered([m EXCEPT !.kind = "swap", !.n = n])
          /\ UNCHANGED <<program, ui, conf, st, consent, dep, operation, world>>
      PROVE HandedOver'
  <2> DEFINE a == [m EXCEPT !.kind = "swap", !.n = n]
  <2>1. a.kind = "swap" /\ a.fresh = m.fresh /\ a.n = n
    BY <1>2, Constants DEF Message, Unbuilt, Session
  <2>2. msgs' = (msgs \ {m}) \cup Answered(a)
    BY <1>9
  <2> HIDE DEF a
  <2>3. /\ \A k \in Session : (session'[k].life = "open") <=> (n = k)
        /\ InOrder'
        /\ \A k \in Session : session[k].life # None \/ Superseded(k) => Superseded(k)'
    BY <1>9, BuiltLater
  <2>4. SlotOpen'
    BY <1>9, <2>3 DEF SlotOpen
  <2>5. ASSUME NEW k \in Session, Accounted(k), ~Before PROVE Running => Accounted(k)'
    <3>1. k = slot => session[k].life # None
      BY DEF HandedOver, SlotOpen, None
    <3> QED
      BY <1>9, <2>3, <2>5, <3>1 DEF Accounted, Before
  <2>6. ScreenOpen'
    <3> SUFFICES ASSUME Running, ui.flow = "manage" PROVE Accounted(ui.live)'
      BY <1>2 DEF ScreenOpen, Running
    <3>1. ui.live \in Session /\ Accounted(ui.live) /\ ~Before
      BY <1>2, <1>5 DEF Well, Screens, OnScreen, HandedOver, ScreenOpen
    <3> QED
      BY <1>2, <2>5, <3>1
  <2>7. FromWelcome' /\ (Before' => /\ \A w \in msgs' : w.fresh
                                    /\ \A v, w \in msgs' : v.kind \in Handover /\ w.kind \in Handover => v = w)
    BY <1>7, <2>1, <2>2
  <2>8. \A w \in msgs' : w = a \/ w \in msgs
    BY <1>3, <2>2
  <2>9. ASSUME Running', NEW w \in msgs', w.kind = "swap" PROVE Accounted(w.n)'
    <3>1. CASE w = a
      BY <1>9, <2>1, <3>1 DEF Accounted
    <3>2. CASE w # a
      <4>1. w \in msgs /\ Running /\ w # m
        BY <1>2, <2>8, <2>9, <3>2 DEF Running
      <4>2. w.n \in Session /\ Accounted(w.n)
        BY <2>9, <4>1 DEF Well, Screens, Belongs, HandedOver, OneHandover
      <4>3. ~Before
        BY <1>2, <2>9, <4>1 DEF HandedOver, OneHandover, Handover
      <4> QED
        BY <2>5, <4>1, <4>2, <4>3
    <3> QED
      BY <3>1, <3>2
  <2>10. OneHandover'
    BY <2>7, <2>9 DEF OneHandover
  <2> QED
    BY <1>4, <2>3, <2>4, <2>6, <2>7, <2>10 DEF HandedOver
<1> QED
  BY <1>1, <1>8, <1>9

LEMMA HandedEnds ==
    ASSUME Well, HandedOver, CliEnds
    PROVE  HandedOver'
<1>1. /\ ui.phase = "closing" /\ msgs = {} /\ ui \in Ui
      /\ session \in [Session -> SessionState] /\ slot \in 0..MaxSessions
  BY EndsHow DEF WorkersDone, Well, WizardTypeOK
<1>2. ASSUME Gone PROVE SlotOpen' /\ InOrder'
  <2>1. session' = Closed(session, slot) /\ slot' = 0
    BY <1>2 DEF Gone
  <2>2. \A k \in Session : session'[k].life = IF k = slot THEN "closed" ELSE session[k].life
    BY <1>1, <2>1, ClosedTyped
  <2>3. \A k \in Session : session[k].life = None <=> session'[k].life = None
    BY <2>2 DEF HandedOver, SlotOpen, None
  <2> QED
    BY <2>1, <2>2, <2>3 DEF HandedOver, SlotOpen, InOrder, Session
<1>3. ASSUME NEW status, NEW c, Leaves(status, c) PROVE HandedOver'
  <2>1. ui' = [ui EXCEPT !.phase = "exited", !.exit = status] /\ msgs' = {} /\ Gone /\ slot' = 0
    BY <1>1, <1>3 DEF Leaves, Gone
  <2>2. ui'.phase = "exited"
    BY <1>1, <2>1 DEF Ui
  <2> QED
    BY <1>2, <2>1, <2>2
       DEF HandedOver, ScreenOpen, OneHandover, FromWelcome, Undeployed, AllClosed, Running, Before
<1>4. ASSUME NEW c, Streams(c) PROVE HandedOver'
  <2>1. ui' = Opened("deploy") /\ msgs' = {} /\ Gone /\ program' = "deploy"
    BY <1>4 DEF Streams
  <2>2. ui'.flow = "deploy" /\ ui'.phase = "running"
    BY <2>1 DEF Opened
  <2> QED
    BY <1>2, <2>1, <2>2 DEF HandedOver, ScreenOpen, OneHandover, FromWelcome, Undeployed, AllClosed, Before
<1> QED
  BY <1>3, <1>4, EndsHow

LEMMA HandedCloses ==
    ASSUME Well, HandedOver, QuitArrives \/ RendererFails \/ NotStarted \/ Drift
    PROVE  HandedOver'
<1>0. ui \in Ui
  BY DEF Well, WizardTypeOK
<1>1. ASSUME NEW last \in Ui, Shutdown(last) PROVE HandedOver'
  <2>1. UNCHANGED <<program, session, slot>>
    BY <1>1 DEF Shutdown
  <2>2. ui'.phase = "closing"
    BY <1>1, ShutsDown
  <2> QED
    BY <2>1, <2>2
       DEF HandedOver, InOrder, SlotOpen, ScreenOpen, OneHandover, FromWelcome, Undeployed, AllClosed,
           Running, Before
<1>2. CASE QuitArrives
  BY <1>0, <1>1, <1>2 DEF QuitArrives
<1>3. CASE RendererFails
  <2> DEFINE u == [ui EXCEPT !.crashed = TRUE, !.outcome = "unset", !.exitStep = None]
  <2>1. u \in Ui
    BY <1>0 DEF Ui
  <2>2. Shutdown(u)
    BY <1>3 DEF RendererFails
  <2> HIDE DEF u
  <2> QED
    BY <1>1, <2>1, <2>2
<1>4. CASE NotStarted \/ Drift
  BY <1>4, HandedQuietly DEF NotStarted, Drift, SameOffer, SameScreen
<1> QED
  BY <1>2, <1>3, <1>4

LEMMA HandedInit ==
    WizardInit => HandedOver
<1> SUFFICES ASSUME WizardInit PROVE HandedOver
  OBVIOUS
<1> DEFINE open == program = "manage"
<1>1. /\ msgs = {} /\ slot = IF open THEN 1 ELSE 0
      /\ ui = IF open THEN [Opened("manage") EXCEPT !.live = 1] ELSE Opened("configure")
      /\ session = [n \in Session |-> [life |-> IF open /\ n = 1 THEN "open" ELSE None,
                                       exe |-> NotExecuted]]
  BY DEF WizardInit
<1> HIDE DEF open
<1>2. SlotOpen /\ InOrder
  <2>1. \A n \in Session : session[n].life = IF open /\ n = 1 THEN "open" ELSE None
    BY <1>1
  <2>2. SlotOpen
    BY <1>1, <2>1 DEF SlotOpen, Session, None
  <2>3. \A n, k \in Session : k = 1 /\ n # 1 => k < n
    <3>1. \A n \in Session : n \in Nat /\ n >= 1
      BY Constants DEF Session
    <3> QED
      BY <3>1
  <2>4. InOrder
    BY <2>1, <2>3 DEF InOrder, None
  <2> QED
    BY <2>2, <2>4
<1>3. /\ Opened("configure").flow = "configure" /\ Opened("configure").phase = "running"
      /\ Opened("configure").suspended = NoPlace
  BY DEF Opened
<1>4. ASSUME NEW u, u = [Opened("manage") EXCEPT !.live = 1]
      PROVE  u.live = 1 /\ u.phase = "running" /\ u.flow = "manage" /\ u.suspended = NoPlace
  BY <1>4 DEF Opened
<1>5. /\ ui.flow = "manage" => ui.live = slot
      /\ ui.phase = "running" /\ ui.flow # "deploy" /\ ui.suspended.flow # "deploy"
  <2>1. NoPlace.flow # "deploy"
    BY DEF NoPlace, None
  <2>2. CASE open
    BY <1>1, <1>4, <2>1, <2>2
  <2>3. CASE ~open
    BY <1>1, <1>3, <2>1, <2>3
  <2> QED
    BY <2>2, <2>3
<1> QED
  BY <1>1, <1>2, <1>5 DEF HandedOver, ScreenOpen, OneHandover, FromWelcome, Undeployed, AllClosed, Accounted

LEMMA HandedStep ==
    ASSUME Well, HandedOver, [WizardNext]_vars
    PROVE  HandedOver'
<1>1. CASE UNCHANGED vars
  BY <1>1, HandedQuietly DEF vars, SameOffer, SameScreen
<1>2. CASE WizardNext
  BY <1>2, HandedHubKeys, HandedManageKeys, HandedShell, HandedEsc, HandedDeliver, HandedWork,
     HandedEngine, HandedFeed, HandedOpen, HandedEnds, HandedCloses DEF WizardNext, Keys, Works
<1> QED
  BY <1>1, <1>2

\* The session the CLI will report on and close is the one that is open; it is the
\* one on screen unless a later one was built over that; and the process ends with
\* every session closed (tui/wizard lifecycleSlot.put, cli/node_manage.go).
THEOREM EverySessionCloses ==
    WizardSpec => []SessionsClosed
<1>1. WizardInit => Well /\ HandedOver
  BY WellInit, HandedInit
<1>2. Well /\ HandedOver /\ [WizardNext]_vars => (Well /\ HandedOver)'
  BY WellStep, HandedStep
<1>3. Well /\ HandedOver => SessionsClosed
  <2> SUFFICES ASSUME Well, HandedOver PROVE SessionsClosed
    OBVIOUS
  <2> DEFINE open == {n \in Session : session[n].life = "open"}
  <2>1. open = {n \in Session : slot = n} /\ slot \in 0..MaxSessions
    BY DEF HandedOver, SlotOpen, Well, WizardTypeOK
  <2>2. open = IF slot = 0 THEN {} ELSE {slot}
    BY <2>1, Constants DEF Session
  <2>3. Running /\ ui.flow = "manage" => ui.live \in open \/ Superseded(ui.live)
    BY <2>1 DEF Well, Screens, OnScreen, HandedOver, ScreenOpen, Accounted
  <2>4. ui.phase = "exited" => open = {}
    BY <2>2 DEF HandedOver, AllClosed
  <2> QED
    BY <2>2, <2>3, <2>4 DEF SessionsClosed
<1> QED
  BY <1>1, <1>2, <1>3, PTL DEF WizardSpec



-----------------------------------------------------------------------------
(* Reports *)

\* What the CLI reads once the program is over is what was started: the execution
\* in the slot's session is the goroutine's, unless that session was superseded, no
\* other session began one, and the deploy's own is of the program that streams it.
Proper(exe) == (exe.executed => exe.started) /\ (~exe.executed => exe.result = None)
OneStarted == \A n \in Session : session[n].exe.started <=> (eng.kind = "manage" /\ eng.id = n)
AllProper == Proper(dep) /\ \A n \in Session : Proper(session[n].exe)
OwnSession ==
    eng.kind = "manage" =>
        /\ eng.id \in Session
        /\ ui.phase # "exited" => Accounted(eng.id)
        /\ Running => ui.live = eng.id
        /\ program # "deploy" => \A m \in msgs : m.kind \notin Opens
OwnDeploy ==
    /\ dep.started <=> (program = "deploy")
    /\ eng.kind = "deploy" => program = "deploy"
    /\ Running => (eng.kind = "deploy" <=> (ui.step = "stream"))
    /\ Running /\ ui.step = "exec" => eng.kind = "manage"

Reported == OneStarted /\ AllProper /\ OwnSession /\ OwnDeploy

SameEngine(e) == e.kind = eng.kind /\ e.id = eng.id
SameExes == \A n \in Session : session'[n].exe = session[n].exe

LEMMA ReportedQuiet ==
    ASSUME Reported, SameScreen(ui'), UNCHANGED <<program, slot, dep>>, SameEngine(eng'), SameExes,
           SameLives,
           \A m \in msgs' : m \in msgs \/ m.kind \notin Opens \/ eng.kind # "manage"
    PROVE  Reported'
<1>1. (Running' <=> Running) /\ ui'.step = ui.step /\ ui'.phase = ui.phase /\ ui'.live = ui.live
  BY DEF SameScreen, Running
<1>2. OneStarted'
  BY DEF Reported, OneStarted, SameEngine, SameExes
<1>3. AllProper'
  BY DEF Reported, AllProper, SameExes, Proper
<1>4. OwnSession'
  BY <1>1 DEF Reported, OwnSession, SameEngine, Accounted, Superseded, SameLives
<1>5. OwnDeploy'
  BY <1>1 DEF Reported, OwnDeploy, SameEngine
<1> QED
  BY <1>2, <1>3, <1>4, <1>5 DEF Reported

LEMMA ReportedQuietly ==
    ASSUME Reported, SameScreen(ui'), UNCHANGED <<program, slot, dep, eng, session>>,
           \A m \in msgs' : m \in msgs \/ m.kind \notin Opens \/ eng.kind # "manage"
    PROVE  Reported'
BY ReportedQuiet DEF SameEngine, SameExes, SameLives

LEMMA ReportedArrives ==
    ASSUME Well, HandedOver, Reported, Running, NEW target \in Ui, NEW s \in State,
           NEW rest \in SUBSET msgs,
           Arrive(target, s, rest), target.phase = "running", UNCHANGED <<program, slot, dep>>,
           Before => \A m \in rest : m.kind # "open",
           target.step = "exec" => ui.flow = "manage",
           target.step \in {"exec", "done"} => target.live = ui.live,
           target.step # "stream",
           eng.kind = "manage" => target.step = "done",
           eng.kind = "deploy" => target.step = "finish"
    PROVE  Reported'
<1>1. /\ ui' = target
      /\ msgs' = Stale(rest) \cup Commands(target.step, s)
      /\ EngineEntered(target.step, s)
  BY DEF Arrive
<1>2. Before => Stale(rest) = {}
  BY Left, FS_Subset DEF Well, Screens, WizardTypeOK
<1>3. target.step \in StepId
  BY DEF Ui
<1>4. program' # "deploy" => \A m \in msgs' : m.kind \in {"dryrun", "list"}
  BY <1>1, <1>2, <1>3, CommandsTyped DEF Before
<1>5. CASE target.step = "exec"
  <2> DEFINE e == Engaged("manage", ui.live)
             r == Requested(s)
             x == Begun(session[ui.live].exe)
  <2>1. /\ ui.live \in Session /\ Accounted(ui.live) /\ ui \in Ui /\ st \in State
        /\ session \in [Session -> SessionState] /\ session[ui.live].exe \in Executed
        /\ eng.kind # "manage" /\ eng.kind # "deploy"
    BY <1>5 DEF Well, WizardTypeOK, Screens, OnScreen, HandedOver, ScreenOpen, SessionState
  <2>2. e \in Engine /\ e.kind = "manage" /\ e.id = ui.live
    BY <2>1, EngagedTyped DEF Ui
  <2>3. r \in Request /\ s.plan \in Plan
    BY RequestedTyped DEF State
  <2>4. eng' = [e EXCEPT !.req = r, !.approved = s.plan]
        /\ session' = [session EXCEPT ![ui.live].exe = x]
    BY <1>1, <1>5, Zenon DEF EngineEntered
  <2>5. x \in Executed /\ x.started /\ x.executed = session[ui.live].exe.executed
        /\ x.result = session[ui.live].exe.result
    BY <2>1, BegunTyped
  <2> HIDE DEF e, r, x
  <2>6. eng'.kind = "manage" /\ eng'.id = ui.live
    BY <2>2, <2>3, <2>4 DEF Engine
  <2>7. \A k \in Session : session'[k].exe = IF k = ui.live THEN x ELSE session[k].exe
    BY <2>1, <2>4, <2>5, SessionTyped
  <2>8. OneStarted'
    BY <2>1, <2>5, <2>6, <2>7 DEF Reported, OneStarted
  <2>9. AllProper'
    BY <2>1, <2>5, <2>7 DEF Reported, AllProper, Proper
  <2>12. SameLives
    BY <1>1, <2>1, EngineEnteredLives
  <2>10. OwnSession'
    BY <1>1, <1>4, <1>5, <2>1, <2>6, <2>12 DEF OwnSession, Opens, Accounted, Superseded, SameLives
  <2>11. OwnDeploy'
    BY <1>1, <1>5, <2>6 DEF Reported, OwnDeploy
  <2> QED
    BY <2>8, <2>9, <2>10, <2>11 DEF Reported
<1>6. CASE target.step = "finish"
  <2>1. eng' = NoEngine /\ session' = session
    BY <1>1, <1>6 DEF EngineEntered
  <2>2. eng'.kind = None /\ eng.kind # "manage"
    BY <1>6, <2>1 DEF NoEngine
  <2> QED
    BY <1>1, <1>6, <2>1, <2>2
       DEF Reported, OneStarted, AllProper, Proper, OwnSession, OwnDeploy, None
<1>7. CASE target.step \notin {"exec", "finish"}
  <2>1. eng' = eng /\ session' = session
    BY <1>1, <1>7 DEF EngineEntered, operation
  <2> QED
    BY <1>1, <1>4, <1>7, <2>1
       DEF Reported, OneStarted, AllProper, Proper, OwnSession, OwnDeploy, Opens, Running,
           Accounted, Superseded
<1> QED
  BY <1>5, <1>6, <1>7

\* No goroutine but a deploy's runs on the other screens.
LEMMA NothingRuns ==
    ASSUME Agreed, Reported, Running
    PROVE  /\ ui.step \notin {"exec", "done"} => eng.kind # "manage"
           /\ ui.step # "stream" => eng.kind # "deploy"
           /\ ui.step = "stream" => eng.kind = "deploy"
BY DEF Agreed, OnlyExecuting, Reported, OwnDeploy

LEMMA ReportedStays ==
    ASSUME Reported, NEW rest \in SUBSET msgs, StayPut(rest), UNCHANGED <<program, slot, dep>>
    PROVE  Reported'
BY ReportedQuietly DEF StayPut, SameScreen, operation

LEMMA ReportedBack ==
    ASSUME Well, Agreed, HandedOver, Reported, Running, NEW rest \in SUBSET msgs,
           UNCHANGED <<program, slot, dep>>,
           GoToPreviousStep(rest), ui.step \notin {"exec", "done", "stream", "finish"}
    PROVE  Reported'
<1>1. st \in State
  BY DEF Well, WizardTypeOK
<1>2. ASSUME NEW target, Visits(target, st, rest), Backward(ui.step, target.step)
      PROVE  Reported'
  <2>1. /\ target \in Ui /\ Arrive(target, st, rest) /\ target.phase = "running"
        /\ target.live = ui.live
        /\ ui.step # "welcome" /\ target.step \notin {"exec", "stream"}
    BY <1>2 DEF Visits, Backward, ConfigureStep, ConfigureSteps, EarlyStep
  <2>2. Before => \A m \in rest : m.kind # "open"
    BY <2>1, NothingOpens DEF Opens
  <2>3. eng.kind # "manage" /\ eng.kind # "deploy"
    BY NothingRuns
  <2> QED
    BY <1>1, <2>1, <2>2, <2>3, ReportedArrives
<1> QED
  BY <1>1, <1>2, PreviousGoes, ReportedStays

LEMMA ReportedReceived ==
    ASSUME Well, Agreed, HandedOver, Reported, Running, NEW m \in msgs, Received(m),
           UNCHANGED <<program, slot, dep>>
    PROVE  Reported'
<1> DEFINE rest == msgs \ {m}
<1>0. /\ rest \in SUBSET msgs /\ Belongs(m) /\ rest = msgs \ {m}
      /\ ui \in Ui /\ OnScreen(ui) /\ st \in State
      /\ Before /\ ui.step \notin {"welcome", "finish"} => \A w \in msgs : w.kind # "open"
  BY NothingOpens DEF Well, Screens, WizardTypeOK, Opens
<1> HIDE DEF rest
<1>1. CASE m.kind = "complete" /\ \E s \in Applied1 : GoToNextStep(s, rest)
  <2>1. PICK s \in Applied1 : GoToNextStep(s, rest)
    BY <1>1
  <2>2. s \in State
    BY AppliedTyped
  <2>3. CASE Concludes1(s, rest)
    <3>1. ui' = Concluded /\ msgs' = rest /\ UNCHANGED <<eng, session>>
      BY <2>3 DEF Concludes1, operation
    <3> QED
      BY <1>0, <3>1, ConcludedTyped, ReportedQuietly
  <2>4. ASSUME NEW target, Visits(target, s, rest), Onward(ui.step, target.step, s)
        PROVE  Reported'
    <3>1. /\ ui.step # "finish" /\ (ui.step = "welcome" => ui.verb = "edit")
          /\ target.step # "stream" /\ (ui.step = "stream" => target.step = "finish")
          /\ ui.step \in {"exec", "done"} => target.step = "done"
      BY <2>4 DEF Onward, ConfigureStep, EarlyStep
    <3>2. Before => \A w \in rest : w.kind # "open"
      BY <1>0, <3>1 DEF HandedOver, FromWelcome, Opens
    <3>3. target.step = "exec" => ui.flow = "manage"
      <4>1. OnScreen(target) /\ target.flow = ui.flow /\ target \in Ui
        BY <2>4 DEF Visits
      <4> QED
        BY <4>1, StepFlow DEF OnScreen, ManageSteps
    <3>4. /\ eng.kind = "manage" => target.step = "done"
          /\ eng.kind = "deploy" => target.step = "finish"
      BY <3>1, NothingRuns
    <3>5. target \in Ui /\ Arrive(target, s, rest) /\ target.phase = "running" /\ target.live = ui.live
      BY <2>4 DEF Visits
    <3> QED
      BY <1>0, <2>2, <3>1, <3>2, <3>3, <3>4, <3>5, ReportedArrives
  <2> QED
    BY <1>0, <2>1, <2>2, <2>3, <2>4, NextGoes
<1>2. CASE m.kind = "complete" /\ ui.step \in FormStep /\ StayPut(rest)
  BY <1>0, <1>2, ReportedStays
<1>3. CASE m.kind = "back" /\ GoToPreviousStep(rest)
  <2>1. ui.step = "preview"
    BY <1>0, <1>3 DEF Belongs
  <2> QED
    BY <1>0, <1>3, <2>1, ReportedBack
<1>4. CASE m.kind = "jump" /\ JumpToStep(<<"basics", "advanced">>[m.n], rest)
  <2>1. ui.step = "review" /\ m.n \in {1, 2}
    BY <1>0, <1>4 DEF Belongs
  <2> DEFINE step == <<"basics", "advanced">>[m.n]
             u == [At1(step) EXCEPT !.toReview = TRUE]
  <2>2. step \in FormStep
    BY <2>1 DEF FormStep
  <2> HIDE DEF step
  <2>3. JumpToStep(step, rest)
    BY <1>4 DEF step
  <2>4. u \in Ui /\ u.step = step /\ u.phase = "running" /\ Arrive(u, st, rest)
    BY <1>0, <2>1, <2>2, <2>3, JumpMoves, Zenon
  <2> HIDE DEF u
  <2>5. (Before => \A w \in rest : w.kind # "open") /\ eng.kind # "manage" /\ eng.kind # "deploy"
    BY <1>0, <2>1, NothingRuns
  <2> QED
    BY <1>0, <2>2, <2>4, <2>5, ReportedArrives DEF FormStep
<1>5. CASE m.kind = "swap" /\ SwapFlow(m.n, rest)
  <2>1. ui.step \in {"welcome", "finish"} /\ m.n \in Session
    BY <1>0, <1>5 DEF Belongs, Opens
  <2> DEFINE u == Swapped(m.n)
  <2>2. /\ Moved /\ u.step = "op" /\ u.phase = "running"
        /\ \E marker \in BOOLEAN : Arrive(u, FreshState(marker), rest)
    BY <1>0, <1>5, <2>1, SwapMoves
  <2>3. PICK marker \in BOOLEAN : Arrive(u, FreshState(marker), rest)
    BY <2>2
  <2>4. u \in Ui
    <3>1. ui' = u
      BY <2>3, Zenon DEF Arrive
    <3> QED
      BY <2>2, <3>1 DEF Moved
  <2> HIDE DEF u
  <2>5. Before => \A w \in rest : w.kind # "open"
    BY <1>0, <1>5 DEF HandedOver, OneHandover, Handover
  <2>6. eng.kind # "manage" /\ eng.kind # "deploy"
    BY <2>1, NothingRuns
  <2> QED
    BY <1>0, <2>2, <2>3, <2>4, <2>5, <2>6, FreshTyped, ReportedArrives
<1>6. CASE /\ m.kind = "openfailed"
           /\ ui' = [ui EXCEPT !.opening = FALSE] /\ msgs' = rest
           /\ UNCHANGED <<st, consent, session, operation>>
  <2>1. SameScreen(ui')
    BY <1>0, <1>6 DEF Ui, SameScreen
  <2> QED
    BY <1>0, <1>6, <2>1, ReportedQuietly DEF operation
<1> QED
  BY <1>1, <1>2, <1>3, <1>4, <1>5, <1>6 DEF Received, rest

LEMMA ReportedEsc ==
    ASSUME Well, Agreed, HandedOver, Reported, PressEsc
    PROVE  Reported'
<1>1. /\ Running /\ ui.step \notin {"exec", "done", "stream", "finish"} /\ msgs \in SUBSET msgs
      /\ UNCHANGED <<program, slot, dep>> /\ OnScreen(ui)
  BY DEF PressEsc, InterceptsBack, ExecStep, Well, Screens
<1>2. CASE GoToPreviousStep(msgs)
  BY <1>1, <1>2, ReportedBack
<1>3. CASE ui.suspended # NoPlace /\ RestoreFlow
  <2> DEFINE u == Restored
  <2>1. /\ Moved /\ Arrive(u, Idle, msgs) /\ u.step \in {"welcome", "finish"}
        /\ u.phase = "running" /\ ui.flow = "manage"
    BY <1>1, <1>3, RestoreMoves
  <2>2. u \in Ui
    <3>1. ui' = u
      BY <2>1, Zenon DEF Arrive
    <3> QED
      BY <2>1, <3>1 DEF Moved
  <2>3. Idle \in State
    BY FreshTyped DEF Idle
  <2> HIDE DEF u
  <2>4. ui.step \in ManageSteps
    BY <1>1, <2>1, StepSets DEF OnScreen
  <2>5. Before => \A m \in msgs : m.kind # "open"
    BY <1>1, <2>4, NothingOpens DEF ManageSteps, Opens
  <2>6. eng.kind # "manage" /\ eng.kind # "deploy"
    BY <1>1, NothingRuns
  <2> QED
    BY <1>1, <2>1, <2>2, <2>3, <2>5, <2>6, ReportedArrives
<1> QED
  BY <1>2, <1>3 DEF PressEsc


LEMMA ReportedKeys ==
    ASSUME Well, Agreed, HandedOver, Reported, Keys
    PROVE  Reported'
<1>0. ui \in Ui /\ eng \in Engine
  BY DEF Well, WizardTypeOK
<1>1. ASSUME Running, SameScreen(ui'), UNCHANGED <<program, slot, dep, eng, session>>,
             NEW m, msgs' = msgs \cup {m},
             m.kind \notin Opens \/ ui.step \in {"welcome", "finish"}
      PROVE  Reported'
  BY <1>1, NothingRuns, ReportedQuietly
<1>2. ASSUME Running, NEW m, Returns(m), m.kind \notin Opens \/ ui.step \in {"welcome", "finish"}
      PROVE  Reported'
  BY <1>1, <1>2 DEF Returns, SameScreen, operation
<1>3. Signal("complete").kind = "complete" /\ (ui.step = "preview" => Signal("back").kind = "back")
  BY Signalled
<1>4. ASSUME NEW v \in Verb, ConfirmVerb(v) PROVE Reported'
  <2> DEFINE b == v = "manage"
  <2>1. /\ Running /\ ui.step = "welcome" /\ ui' = [ui EXCEPT !.verb = v, !.opening = b]
        /\ \E m : msgs' = msgs \cup {m}
        /\ UNCHANGED <<program, slot, dep, eng, session>>
    BY <1>4 DEF ConfirmVerb, Press, operation
  <2> HIDE DEF b
  <2>2. SameScreen(ui')
    BY <1>0, <2>1 DEF Ui, SameScreen
  <2> QED
    BY <1>1, <2>1, <2>2
<1>5. CASE FinishExit \/ SubmitForm \/ PressEnter \/ PressExecute \/ PressExit \/ TypeName
  <2>1. Running /\ Returns(Signal("complete"))
    BY <1>5 DEF FinishExit, SubmitForm, PressEnter, PressExecute, PressExit, TypeName, PreviewKeys, Press
  <2> QED
    BY <1>2, <1>3, <2>1 DEF Opens
<1>6. CASE FinishManage
  <2>1. Running /\ ui.step = "finish" /\ \E m : Returns(m)
    BY <1>6 DEF FinishManage, Press
  <2> QED
    BY <1>2, <2>1
<1>7. CASE ReviewJump
  <2>1. PICK i \in {1, 2} : Returns(Msg("jump", "review", NoRequest, i))
    BY <1>7 DEF ReviewJump
  <2> DEFINE m == Msg("jump", "review", NoRequest, i)
  <2>2. Running /\ Returns(m)
    BY <1>7, <2>1 DEF ReviewJump, Press
  <2>3. m.kind = "jump"
    BY DEF Msg
  <2> HIDE DEF m
  <2> QED
    BY <1>2, <2>2, <2>3 DEF Opens
<1>8. CASE ReviewConfirm
  <2>1. /\ Running /\ \E a \in {"deploy", "exit"} : ui' = [ui EXCEPT !.choice = a]
        /\ msgs' = msgs \cup {Signal("complete")} /\ UNCHANGED <<program, slot, dep, eng, session>>
    BY <1>8 DEF ReviewConfirm, Press, operation
  <2>2. SameScreen(ui')
    BY <1>0, <2>1 DEF Ui, SameScreen
  <2> QED
    BY <1>1, <1>3, <2>1, <2>2 DEF Opens
<1>9. CASE EditField \/ ReachBottom
  BY <1>9, ReportedQuietly DEF EditField, ReachBottom, SameScreen, operation
<1>10. CASE PressRefresh
  <2> DEFINE m == Msg("list", "target", Requested(st), 0)
  <2>1. Running /\ Returns(m)
    BY <1>10 DEF PressRefresh, Press
  <2>2. m.kind = "list"
    BY DEF Msg
  <2> HIDE DEF m
  <2> QED
    BY <1>2, <2>1, <2>2 DEF Opens
<1>11. CASE PressBackToParams
  <2>1. Running /\ ui.step = "preview" /\ Returns(Signal("back"))
    BY <1>11 DEF PressBackToParams, PreviewKeys, Press
  <2> QED
    BY <1>2, <1>3, <2>1 DEF Opens
<1>12. CASE PressCtrlC \/ AnswerDiscard
  <2>1. SameScreen(ui')
    BY <1>0, <1>12 DEF PressCtrlC, AnswerDiscard, Quitting, Ui, SameScreen
  <2>2. /\ eng' = eng \/ eng' = [eng EXCEPT !.cancel = TRUE]
        /\ UNCHANGED <<program, slot, dep, msgs, session>>
    BY <1>12 DEF PressCtrlC, AnswerDiscard, operation
  <2>3. SameEngine(eng')
    BY <1>0, <2>2 DEF Engine, SameEngine
  <2> QED
    BY <2>1, <2>2, <2>3, ReportedQuiet DEF SameExes, SameLives
<1> QED
  BY <1>4, <1>5, <1>6, <1>7, <1>8, <1>9, <1>10, <1>11, <1>12, ReportedEsc
     DEF Keys, HubKeys, ManageKeys

LEMMA ReportedDeliver ==
    ASSUME Well, Agreed, HandedOver, Reported, Deliver
    PROVE  Reported'
<1>0. Running
  BY DEF Deliver
<1>1. ASSUME NEW m \in msgs, Received(m), UNCHANGED <<program, slot, dep>> PROVE Reported'
  BY <1>0, <1>1, ReportedReceived
<1>2. ASSUME NEW m \in msgs, NodesLoaded(m) \/ DryRunDone(m) PROVE Reported'
  BY <1>2, ReportedQuietly DEF NodesLoaded, DryRunDone, Taken, SameScreen, operation
<1> QED
  BY <1>1, <1>2 DEF Deliver

LEMMA ReportedWork ==
    ASSUME Well, Reported, ManageWork
    PROVE  Reported'
<1>1. ASSUME NEW m \in msgs, NEW a, Becomes(m, a), a.kind \in {"listed", "dryran"}
      PROVE  Reported'
  BY <1>1, ReportedQuietly DEF Becomes, SameScreen, operation, Opens
<1>2. msgs \subseteq Message
  BY DEF Well, WizardTypeOK
<1>3. CASE ListNodes
  <2>1. PICK m \in msgs, ok \in BOOLEAN :
           m.kind = "list" /\ Becomes(m, [m EXCEPT !.kind = "listed", !.ok = ok])
    BY <1>3 DEF ListNodes
  <2> DEFINE a == [m EXCEPT !.kind = "listed", !.ok = ok]
  <2>2. a.kind = "listed"
    BY <1>2 DEF Message
  <2> HIDE DEF a
  <2> QED
    BY <1>1, <2>1, <2>2 DEF a
<1>4. CASE DryRun
  <2>1. PICK m \in msgs : m.kind = "dryrun" /\ \E ok \in {FALSE, Plannable(m.req)} :
           Becomes(m, [m EXCEPT !.kind = "dryran", !.ok = ok, !.world = world])
    BY <1>4 DEF DryRun
  <2>2. PICK ok \in {FALSE, Plannable(m.req)} :
           Becomes(m, [m EXCEPT !.kind = "dryran", !.ok = ok, !.world = world])
    BY <2>1
  <2> DEFINE a == [m EXCEPT !.kind = "dryran", !.ok = ok, !.world = world]
  <2>3. a.kind = "dryran"
    BY <1>2 DEF Message
  <2> HIDE DEF a
  <2> QED
    BY <1>1, <2>1, <2>2, <2>3 DEF a
<1> QED
  BY <1>3, <1>4 DEF ManageWork

\* The goroutine moves along its operation: it changes neither what it is nor whether
\* it was cancelled.
LEMMA EngineWorks ==
    ASSUME Well, EngineNext
    PROVE  /\ SameEngine(eng') /\ eng'.cancel = eng.cancel
           /\ UNCHANGED <<program, ui, msgs, session, slot, dep>>
<1>1. eng \in Engine /\ UNCHANGED <<program, ui, msgs, session, slot, dep>>
  BY DEF EngineNext, Well, WizardTypeOK
<1>2. \/ \E o : eng' = [eng EXCEPT !.stage = "stop", !.out = o,
                                   !.failed = IF o = "ok" THEN @ ELSE @ \cup {eng.at}]
      \/ \E g, p, b : eng' = [eng EXCEPT !.stage = g, !.plan = p, !.resumed = b]
      \/ \E g, p : eng' = [eng EXCEPT !.stage = g, !.plan = p]
      \/ \E g, o : eng' = [eng EXCEPT !.stage = g, !.out = o]
      \/ \E g : eng' = [eng EXCEPT !.stage = g]
      \/ eng' = Past(eng)
      \/ eng' = EndedEngine
  <2>1. CASE Work
    BY <2>1 DEF Work
  <2>2. CASE Confirm
    BY <2>2 DEF Confirm
  <2>3. CASE StepStarted
    BY <2>3 DEF StepStarted
  <2>4. CASE StepFinished
    BY <2>4 DEF StepFinished
  <2>5. CASE SendFinal
    BY <2>5 DEF SendFinal, EndedEngine
  <2>6. CASE StopsBetween
    BY <2>6 DEF StopsBetween
  <2>7. CASE StepSkipped
    BY <2>7 DEF StepSkipped
  <2> QED
    BY <2>1, <2>2, <2>3, <2>4, <2>5, <2>6, <2>7 DEF EngineNext
<1>3. SameEngine(eng') /\ eng'.cancel = eng.cancel
  BY <1>1, <1>2, PastTyped, EndedTyped DEF Engine, SameEngine
<1> QED
  BY <1>1, <1>3

LEMMA ReportedEngine ==
    ASSUME Well, Reported, EngineNext
    PROVE  Reported'
BY EngineWorks, ReportedQuiet DEF SameScreen, SameExes, SameLives

\* Where an execution ends: the one that was started.
LEMMA ExeTyped ==
    ASSUME Well, NEW x \in Executed
    PROVE  /\ Ended(x) \in Executed /\ Ended(x).started = x.started
           /\ Ended(x).executed /\ Ended(x).result = listener.ev.out
<1>1. listener.ev \in Event
  BY DEF Well, WizardTypeOK
<1> QED
  BY <1>1 DEF Ended, Executed, Event

LEMMA ReportedFeed ==
    ASSUME Well, HandedOver, Reported, FeedNext
    PROVE  Reported'
<1>0. ui \in Ui /\ UNCHANGED <<program, slot, eng>>
  BY DEF Well, WizardTypeOK, FeedNext, Listen, ListenGivesUp, ApplyEvent, ApplyFinal, SettleEnds, operation
<1>1. SameScreen(ui')
  BY <1>0 DEF FeedNext, Listen, ListenGivesUp, ApplyEvent, ApplyFinal, SettleEnds, Ui, SameScreen
<1>2. Signal("complete").kind = "complete"
  BY Signalled
<1>3. CASE Listen \/ ListenGivesUp \/ ApplyEvent \/ SettleEnds
  <2>1. UNCHANGED <<dep, session>> /\ (msgs' = msgs \/ msgs' = msgs \cup {Signal("complete")})
    BY <1>3 DEF Listen, ListenGivesUp, ApplyEvent, SettleEnds
  <2> QED
    BY <1>0, <1>1, <1>2, <2>1, ReportedQuietly DEF Opens
<1>4. CASE ApplyFinal
  <2>1. /\ Running /\ ui.step \in {"exec", "stream"}
        /\ msgs' = msgs \/ msgs' = msgs \cup {Signal("complete")}
        /\ IF eng.kind = "deploy"
           THEN dep' = Ended(dep) /\ UNCHANGED session
           ELSE session' = [session EXCEPT ![ui.live].exe = Ended(@)] /\ UNCHANGED dep
    BY <1>4 DEF ApplyFinal, OnExec, ExecStep, Running
  <2>2. \A m \in msgs' : m \in msgs \/ m.kind \notin Opens
    BY <1>2, <2>1 DEF Opens
  <2>3. dep \in Executed
    BY DEF Well, WizardTypeOK
  <2>4. (Running' <=> Running) /\ ui'.step = ui.step /\ ui'.phase = ui.phase /\ ui'.live = ui.live
    BY <1>1 DEF SameScreen, Running
  <2>8. SameLives
    BY <1>4, FeedLives DEF FeedNext
  <2>5. OwnSession'
    BY <1>0, <2>2, <2>4, <2>8 DEF Reported, OwnSession, Accounted, Superseded, SameLives
  <2>6. CASE eng.kind = "deploy"
    <3>1. dep' = Ended(dep) /\ session' = session
      BY <2>1, <2>6
    <3>2. dep'.started = dep.started /\ dep'.executed /\ dep.started
      BY <2>3, <2>6, <3>1, ExeTyped DEF Reported, OwnDeploy
    <3>3. AllProper'
      BY <3>1, <3>2 DEF Reported, AllProper, Proper
    <3>4. OneStarted'
      BY <1>0, <3>1 DEF Reported, OneStarted
    <3>5. OwnDeploy'
      BY <1>0, <2>4, <3>2 DEF Reported, OwnDeploy
    <3> QED
      BY <2>5, <3>3, <3>4, <3>5 DEF Reported
  <2>7. CASE eng.kind # "deploy"
    <3> DEFINE x == Ended(session[ui.live].exe)
    <3>1. session' = [session EXCEPT ![ui.live].exe = x] /\ dep' = dep
      BY <2>1, <2>7
    <3>2. eng.kind = "manage"
      BY <2>1, <2>7 DEF Reported, OwnDeploy
    <3>3. OnScreen(ui) /\ ui.flow = "manage"
      <4>1. OnScreen(ui)
        BY <2>1 DEF Well, Screens
      <4> QED
        BY <1>0, <2>1, <2>7, <4>1, StepFlow DEF OnScreen, ManageSteps, Reported, OwnDeploy
    <3>4. ui.live \in Session /\ ui.live = eng.id
      BY <2>1, <3>2, <3>3 DEF OnScreen, Reported, OwnSession
    <3>5. session \in [Session -> SessionState] /\ session[ui.live].exe \in Executed
      BY <3>4 DEF Well, WizardTypeOK, SessionState
    <3>6. x \in Executed /\ x.started = session[ui.live].exe.started /\ x.executed
      BY <3>5, ExeTyped
    <3> HIDE DEF x
    <3>7. \A k \in Session : session'[k].exe = IF k = ui.live THEN x ELSE session[k].exe
      BY <3>1, <3>4, <3>5, <3>6, SessionTyped
    <3>8. session[ui.live].exe.started
      BY <3>2, <3>4 DEF Reported, OneStarted
    <3>9. OneStarted'
      BY <1>0, <3>4, <3>6, <3>7 DEF Reported, OneStarted
    <3>10. AllProper'
      BY <3>1, <3>6, <3>7, <3>8 DEF Reported, AllProper, Proper
    <3>11. OwnDeploy'
      BY <1>0, <2>4, <3>1 DEF Reported, OwnDeploy
    <3> QED
      BY <2>5, <3>9, <3>10, <3>11 DEF Reported
  <2> QED
    BY <2>6, <2>7
<1> QED
  BY <1>3, <1>4 DEF FeedNext

LEMMA ReportedOpen ==
    ASSUME Well, HandedOver, Reported, OpenFlow
    PROVE  Reported'
<1>1. UNCHANGED <<program, ui, dep, eng>>
  BY DEF OpenFlow, operation
<1>2. eng.kind = "manage" => program = "deploy"
  BY DEF OpenFlow, Opening, Reported, OwnSession, Opens
<1>3. session \in [Session -> SessionState] /\ slot \in 0..MaxSessions
  BY DEF Well, WizardTypeOK
<1>4. \/ session' = session /\ slot' = slot
      \/ \E n \in Unbuilt : /\ \A k \in Unbuilt : n <= k
                           /\ session' = PutOver([session EXCEPT ![n].life = "open"], slot)
  BY DEF OpenFlow
<1>5. ASSUME NEW n \in Unbuilt, session' = PutOver([session EXCEPT ![n].life = "open"], slot)
      PROVE  SameExes
  <2> DEFINE y == [session EXCEPT ![n].life = "open"]
  <2>1. n \in Session
    BY DEF Unbuilt
  <2>2. y \in [Session -> SessionState] /\ \A k \in Session : y[k].exe = session[k].exe
    BY <1>3, <2>1, LifeTyped, Zenon
  <2>3. session' = Closed(y, slot)
    BY <1>5 DEF PutOver
  <2> HIDE DEF y
  <2> QED
    BY <1>3, <2>2, <2>3, ClosedTyped DEF SameExes
<1>6. SameExes
  BY <1>4, <1>5 DEF SameExes
<1>7. eng.kind = "manage" => (slot' = slot /\ session' = session) \/ Superseded(eng.id)'
  <2> SUFFICES ASSUME eng.kind = "manage", ~(slot' = slot /\ session' = session)
               PROVE  Superseded(eng.id)'
    OBVIOUS
  <2>1. PICK n \in Unbuilt : /\ \A k \in Unbuilt : n <= k
                             /\ session' = PutOver([session EXCEPT ![n].life = "open"], slot)
    BY <1>4
  <2>2. \A k \in Session : session[k].life # None \/ Superseded(k) => Superseded(k)'
    BY <2>1, BuiltLater
  <2>3. eng.id \in Session /\ Accounted(eng.id)
    <3>1. ui.phase # "exited"
      BY DEF OpenFlow, Opening, HandedOver, AllClosed
    <3> QED
      BY <3>1 DEF Reported, OwnSession
  <2>4. session[eng.id].life # None \/ Superseded(eng.id)
    BY <2>3 DEF Accounted, HandedOver, SlotOpen, None
  <2> QED
    BY <1>1, <2>2, <2>3, <2>4
<1>8. OwnSession'
  BY <1>1, <1>2, <1>7 DEF Reported, OwnSession, Accounted, Superseded, Running
<1> QED
  BY <1>1, <1>6, <1>8 DEF Reported, OneStarted, AllProper, Proper, OwnSession, OwnDeploy, SameExes, Running

LEMMA GoneExes ==
    ASSUME Well, Gone
    PROVE  SameExes
BY ClosedTyped DEF Gone, SameExes, Well, WizardTypeOK

LEMMA LeavesEngine ==
    ASSUME Well, NEW status, NEW c, Leaves(status, c)
    PROVE  /\ SameEngine(eng') /\ ui'.phase = "exited" /\ ui'.exit = status
           /\ ui'.crashed = ui.crashed /\ Gone /\ UNCHANGED <<program, msgs, dep>>
<1>1. /\ ui' = [ui EXCEPT !.phase = "exited", !.exit = status] /\ Gone
      /\ eng' = [NoEngine EXCEPT !.kind = eng.kind, !.id = eng.id]
      /\ UNCHANGED <<program, msgs, dep>>
  BY DEF Leaves
<1>2. NoEngine \in Engine /\ eng \in Engine /\ ui \in Ui
  BY Blanks DEF Well, WizardTypeOK
<1>3. eng'.kind = eng.kind /\ eng'.id = eng.id
  BY <1>1, <1>2 DEF Engine
<1>4. ui'.phase = "exited" /\ ui'.exit = status /\ ui'.crashed = ui.crashed
  BY <1>1, <1>2 DEF Ui
<1> QED
  BY <1>1, <1>3, <1>4 DEF SameEngine

LEMMA ReportedEnds ==
    ASSUME Well, Reported, CliEnds
    PROVE  Reported'
<1>1. ui.phase = "closing" /\ msgs = {} /\ st \in State
  BY EndsHow DEF WorkersDone, Well, WizardTypeOK
<1>2. ASSUME NEW status, NEW c, Leaves(status, c) PROVE Reported'
  <2>1. /\ SameEngine(eng') /\ ui'.phase = "exited" /\ SameExes /\ UNCHANGED <<program, msgs, dep>>
    BY <1>2, LeavesEngine, GoneExes
  <2> QED
    BY <1>1, <2>1 DEF Reported, OneStarted, AllProper, Proper, OwnSession, OwnDeploy,
                      SameExes, SameEngine, Running
<1>3. ASSUME NEW c, Streams(c), program = "hub", ~Held1.started PROVE Reported'
  <2>1. /\ program' = "deploy" /\ ui' = Opened("deploy") /\ msgs' = {} /\ Gone
        /\ dep' = Begun(NotExecuted) /\ eng' = Engaged("deploy", 0)
    BY <1>3 DEF Streams
  <2>2. SameExes
    BY <2>1, GoneExes
  <2>3. ui'.step = "stream"
    BY <2>1, StepAt DEF Opened
  <2>4. eng'.kind = "deploy"
    BY <1>1, <2>1, EngagedTyped, Constants
  <2>5. dep'.started /\ ~dep'.executed /\ dep'.result = None
    <3>1. ~NotExecuted.executed /\ NotExecuted.result = None
      BY DEF NotExecuted
    <3> QED
      BY <2>1, <3>1, BegunTyped, Blanks
  <2>6. eng.kind # "manage"
    <3> SUFFICES ASSUME eng.kind = "manage" PROVE FALSE
      OBVIOUS
    <3>1. eng.id \in Session /\ eng.id = slot /\ slot # 0
      BY <1>1, <1>3 DEF Reported, OwnSession, Session, Accounted
    <3>2. session[slot].exe.started
      BY <3>1 DEF Reported, OneStarted
    <3> QED
      BY <1>3, <3>1, <3>2 DEF Held1
  <2>7. OneStarted' /\ OwnSession'
    BY <2>2, <2>4, <2>6 DEF Reported, OneStarted, OwnSession, SameExes
  <2>8. AllProper'
    BY <2>2, <2>5 DEF Reported, AllProper, Proper, SameExes
  <2>9. OwnDeploy'
    BY <2>1, <2>3, <2>4, <2>5 DEF OwnDeploy
  <2> QED
    BY <2>7, <2>8, <2>9 DEF Reported
<1> QED
  BY <1>2, <1>3, EndsHow

LEMMA ReportedCloses ==
    ASSUME Well, Agreed, HandedOver, Reported, QuitArrives \/ RendererFails \/ NotStarted \/ Drift
    PROVE  Reported'
<1>0. ui \in Ui /\ eng \in Engine
  BY DEF Well, WizardTypeOK
<1>1. ASSUME NEW last \in Ui, Shutdown(last), Running PROVE Reported'
  <2>1. /\ eng' = eng \/ eng' = [eng EXCEPT !.cancel = TRUE]
        /\ msgs' = Stale(msgs) /\ UNCHANGED <<program, session, slot, dep>>
    BY <1>1 DEF Shutdown
  <2>2. SameEngine(eng')
    BY <1>0, <2>1 DEF Engine, SameEngine
  <2>3. ui'.phase = "closing"
    BY <1>1, ShutsDown
  <2>4. eng.kind = "manage" /\ program # "deploy" => msgs' = {}
    <3>1. eng.kind = "manage" /\ program # "deploy" => \A m \in msgs : m.kind # "open"
      BY DEF Reported, OwnSession, Opens
    <3> QED
      BY <2>1, <3>1, Left DEF Well, Screens, WizardTypeOK
  <2> QED
    BY <1>1, <2>1, <2>2, <2>3, <2>4
       DEF Reported, OneStarted, AllProper, Proper, OwnSession, OwnDeploy, SameEngine, Running,
           Accounted, Superseded
<1>2. CASE QuitArrives
  BY <1>0, <1>1, <1>2 DEF QuitArrives
<1>3. CASE RendererFails
  <2> DEFINE u == [ui EXCEPT !.crashed = TRUE, !.outcome = "unset", !.exitStep = None]
  <2>1. u \in Ui
    BY <1>0 DEF Ui
  <2>2. Shutdown(u) /\ Running
    BY <1>3 DEF RendererFails
  <2> HIDE DEF u
  <2> QED
    BY <1>1, <2>1, <2>2
<1>4. CASE NotStarted \/ Drift
  BY <1>4, ReportedQuietly DEF NotStarted, Drift, SameScreen, operation
<1> QED
  BY <1>2, <1>3, <1>4

LEMMA ReportedInit ==
    WizardInit => Reported
<1> SUFFICES ASSUME WizardInit PROVE Reported
  OBVIOUS
<1>1. /\ program \in Programs /\ dep = NotExecuted /\ eng = NoEngine /\ msgs = {}
      /\ \A n \in Session : session[n].exe = NotExecuted
      /\ ui = Opened("configure") \/ ui = [Opened("manage") EXCEPT !.live = 1]
  BY DEF WizardInit
<1>2. Opened("configure").step = "welcome" /\ Opened("manage").step = "op"
  BY FlowSteps, StepAt DEF Opened
<1>3. [Opened("manage") EXCEPT !.live = 1].step = Opened("manage").step
  BY DEF Opened
<1>4. ui.step \in {"welcome", "op"} /\ eng.kind = None
  BY <1>1, <1>2, <1>3 DEF NoEngine
<1>5. program # "deploy"
  BY <1>1, Constants
<1>6. ~NotExecuted.started /\ ~NotExecuted.executed /\ NotExecuted.result = None
  BY DEF NotExecuted
<1> QED
  BY <1>1, <1>4, <1>5, <1>6
     DEF Reported, OneStarted, AllProper, Proper, OwnSession, OwnDeploy, None

LEMMA ReportedStep ==
    ASSUME Well, Agreed, HandedOver, Reported, [WizardNext]_vars
    PROVE  Reported'
<1>1. CASE UNCHANGED vars
  BY <1>1, ReportedQuietly DEF vars, operation, SameScreen
<1>2. CASE WizardNext
  BY <1>2, ReportedKeys, ReportedDeliver, ReportedWork, ReportedEngine, ReportedFeed,
     ReportedOpen, ReportedEnds, ReportedCloses DEF WizardNext, Works
<1> QED
  BY <1>1, <1>2



-----------------------------------------------------------------------------
(* The rows of a deploy *)

IsDone(e, g) == e.kind = "done" /\ e.at = g
Held == listener.state = "held"
Stepping(g) == g.stage \in {"start", "work", "stop"}
CurrentIn(n, g) == g.stage \in {"work", "stop"} /\ g.at = n

\* An event says what happened: a step that failed is told to have failed, no other
\* is, each is told once the goroutine has passed it, and the terminal event is the
\* goroutine's last word.
TruthfulIn(e, g) ==
    /\ e.kind # "final" => e.at \in Gate /\ e.out \in {None, "ok", "skipped", "failed"}
    /\ e.kind = "done" => /\ (e.out = "failed") <=> (e.at \in g.failed)
                          /\ Stepping(g) => e.at < g.at
    /\ e.kind = "final" => g.stage = "ended"
Truthful(e) == TruthfulIn(e, eng)

\* The end of a step is still to come: it is at work, or its event is behind the
\* k first ones of the feed, or in the hands of the screen.
DoneAfter(g, k, f) == \E j \in 1..Len(f) : j > k /\ IsDone(f[j], g)
SettlesIn(g, k, f, e) == CurrentIn(g, e) \/ DoneAfter(g, k, f)
Settles(g, k) == SettlesIn(g, k, feed, eng)
Awaited(g) == Settles(g, 0) \/ (Held /\ IsDone(listener.ev, g))

Going ==
    /\ eng.stage \in {"start", "work", "stop", "final", "ended"}
    /\ Stepping(eng) => eng.at \in Gate
    /\ eng.failed \subseteq Gate
    /\ eng.stage \in {"start", "work"} => \A g \in eng.failed : g < eng.at
    /\ eng.stage = "stop" => /\ \A g \in eng.failed : g <= eng.at
                             /\ eng.out \in {"ok", "failed"}
                             /\ (eng.out = "failed") <=> (eng.at \in eng.failed)
Queued ==
    /\ \A i \in 1..Len(feed) : Truthful(feed[i])
    /\ \A i \in 1..Len(feed) : feed[i].kind = "start" => Settles(feed[i].at, i)
    /\ \A i, j \in 1..Len(feed) : i < j => feed[i].kind # "final"
InHand ==
    Held => /\ Truthful(listener.ev)
            /\ listener.ev.kind = "start" => Settles(listener.ev.at, 0)
            /\ listener.ev.kind = "final" => feed = <<>>
Marked ==
    \A g \in Gate : /\ rows[g] = "failed" => g \in eng.failed
                    /\ g \in eng.failed => rows[g] = "failed" \/ Awaited(g)
                    /\ rows[g] = "running" => Awaited(g)
Heard ==
    dep.executed => /\ eng.stage = "ended" /\ feed = <<>> /\ ~Held
                    /\ dep.result = "ok" => \A g \in Gate : ~Open1(rows[g])
Deploying == Running /\ eng.kind = "deploy" /\ ~eng.cancel
Told == Deploying => Going /\ Queued /\ InHand /\ Marked /\ Heard

LEMMA ToldQuietly ==
    ASSUME Told, Deploying' => Deploying, UNCHANGED <<feed, listener, rows, dep>>,
           Deploying' => eng' = eng
    PROVE  Told'
BY DEF Told, Going, Queued, InHand, Marked, Heard, Truthful, TruthfulIn, IsDone, Held, Stepping,
       CurrentIn, DoneAfter, Settles, SettlesIn, Awaited

LEMMA Appended ==
    ASSUME Well, NEW ev \in Event, feed' = Append(feed, ev)
    PROVE  /\ Len(feed) \in Nat /\ Len(feed') = Len(feed) + 1
           /\ feed'[Len(feed) + 1] = ev
           /\ \A i \in 1..Len(feed) : feed'[i] = feed[i]
<1>1. feed \in Seq(Event)
  BY DEF Well, WizardTypeOK
<1> QED
  BY <1>1, AppendProperties, LenProperties

\* A deploy nobody cancelled waits for room in its feed.
LEMMA SentDeploying ==
    ASSUME Deploying, NEW ev, Send(ev)
    PROVE  feed' = Append(feed, ev)
BY DEF Deploying, Send, Put, Cancelled

\* The goroutine sends an event of the step it is at.
LEMMA ToldSent ==
    ASSUME Well, Queued, InHand, Marked, Heard, eng.stage # "ended",
           NEW ev \in Event, feed' = Append(feed, ev), UNCHANGED <<listener, rows, dep>>,
           eng'.failed = eng.failed,
           \A e : Truthful(e) /\ e.kind # "final" => TruthfulIn(e, eng'),
           TruthfulIn(ev, eng'), ev.kind = "start" => CurrentIn(ev.at, eng'),
           \A g \in Gate : CurrentIn(g, eng) => CurrentIn(g, eng') \/ IsDone(ev, g)
    PROVE  Queued' /\ InHand' /\ Marked' /\ Heard'
<1>1. /\ Len(feed) \in Nat /\ Len(feed') = Len(feed) + 1
      /\ feed'[Len(feed) + 1] = ev
      /\ \A i \in 1..Len(feed) : feed'[i] = feed[i]
  BY Appended
<1>2. \A i \in 1..Len(feed') : i \in 1..Len(feed) \/ i = Len(feed) + 1
  BY <1>1
<1>3. /\ \A i \in 1..Len(feed) : Truthful(feed[i]) /\ feed[i].kind # "final"
      /\ Held => Truthful(listener.ev) /\ listener.ev.kind # "final"
      /\ ~dep.executed
  BY DEF Queued, InHand, Truthful, TruthfulIn, Heard
<1>4. \A g \in Gate, k \in 0..Len(feed) : Settles(g, k) => SettlesIn(g, k, feed', eng')
  <2> SUFFICES ASSUME NEW g \in Gate, NEW k \in 0..Len(feed), Settles(g, k) PROVE SettlesIn(g, k, feed', eng')
    OBVIOUS
  <2>1. CASE CurrentIn(g, eng)
    <3>1. IsDone(ev, g) => DoneAfter(g, k, feed')
      <4>1. Len(feed) + 1 \in 1..Len(feed') /\ Len(feed) + 1 > k
        BY <1>1
      <4> QED
        BY <1>1, <4>1 DEF DoneAfter, IsDone
    <3>2. CurrentIn(g, eng') => CurrentIn(g, eng)'
      BY DEF CurrentIn
    <3> QED
      BY <2>1, <3>1, <3>2 DEF Settles, SettlesIn
  <2>2. CASE DoneAfter(g, k, feed)
    <3>1. DoneAfter(g, k, feed')
      BY <1>1, <2>2 DEF DoneAfter, IsDone
    <3> QED
      BY <3>1 DEF Settles, SettlesIn
  <2> QED
    BY <2>1, <2>2 DEF Settles, SettlesIn
<1>5. \A i \in 1..Len(feed') : TruthfulIn(feed'[i], eng')
  BY <1>1, <1>2, <1>3
<1>6. \A i \in 1..Len(feed') : feed'[i].kind = "start" => SettlesIn(feed'[i].at, i, feed', eng')
  <2> SUFFICES ASSUME NEW i \in 1..Len(feed'), feed'[i].kind = "start" PROVE SettlesIn(feed'[i].at, i, feed', eng')
    OBVIOUS
  <2>1. CASE i \in 1..Len(feed)
    <3>1. feed'[i] = feed[i] /\ feed[i].at \in Gate /\ Settles(feed[i].at, i) /\ i \in 0..Len(feed)
      BY <1>1, <1>3, <2>1 DEF Queued, Truthful, TruthfulIn
    <3>2. SettlesIn(feed[i].at, i, feed', eng')
      BY <1>4, <3>1
    <3> QED
      BY <3>1, <3>2
  <2>2. CASE i = Len(feed) + 1
    BY <1>1, <2>2 DEF Settles, SettlesIn, CurrentIn
  <2> QED
    BY <1>2, <2>1, <2>2
<1>7. \A i, j \in 1..Len(feed') : i < j => feed'[i].kind # "final"
  <2>1. \A i, j \in 1..Len(feed') : i < j => i \in 1..Len(feed)
    BY <1>1
  <2> QED
    BY <1>1, <1>3, <2>1
<1>8. Queued'
  BY <1>5, <1>6, <1>7 DEF Queued, Truthful, TruthfulIn, Stepping, Settles
<1>9. Held' => /\ Held /\ listener.ev.kind # "final" /\ TruthfulIn(listener.ev, eng')
               /\ listener.ev.kind = "start" => SettlesIn(listener.ev.at, 0, feed', eng')
  <2> SUFFICES ASSUME Held
               PROVE  /\ listener.ev.kind # "final" /\ TruthfulIn(listener.ev, eng')
                      /\ listener.ev.kind = "start" => SettlesIn(listener.ev.at, 0, feed', eng')
    BY DEF Held
  <2> DEFINE n == listener.ev.at
  <2>1. n \in Gate /\ (listener.ev.kind = "start" => Settles(n, 0)) /\ n' = n
    BY <1>3 DEF InHand, Truthful, TruthfulIn
  <2>2. 0 \in 0..Len(feed)
    BY <1>1
  <2> QED
    BY <1>3, <1>4, <2>1, <2>2
<1>10. InHand'
  BY <1>9 DEF InHand, Truthful, TruthfulIn, Stepping, Settles
<1>11. \A g \in Gate : Awaited(g) => Awaited(g)'
  <2>1. 0 \in 0..Len(feed)
    BY <1>1
  <2> QED
    BY <1>4, <2>1 DEF Awaited, Held, IsDone, Settles
<1>12. Marked'
  BY <1>11 DEF Marked
<1> QED
  BY <1>3, <1>8, <1>10, <1>12 DEF Heard

\* It works on a step, or stops, without a word.
LEMMA ToldUnsent ==
    ASSUME Queued, InHand, Marked, Heard, eng.stage # "ended",
           UNCHANGED <<feed, listener, rows, dep>>,
           \A e : Truthful(e) /\ e.kind # "final" => TruthfulIn(e, eng'),
           \A g \in Gate : CurrentIn(g, eng) <=> CurrentIn(g, eng'),
           eng.failed \subseteq eng'.failed,
           \A g \in eng'.failed : g \in eng.failed \/ CurrentIn(g, eng')
    PROVE  Queued' /\ InHand' /\ Marked' /\ Heard'
<1>1. /\ \A i \in 1..Len(feed) : Truthful(feed[i]) /\ feed[i].kind # "final"
      /\ Held => Truthful(listener.ev) /\ listener.ev.kind # "final"
      /\ ~dep.executed
  BY DEF Queued, InHand, Truthful, TruthfulIn, Heard
<1>2. \A g \in Gate : \A k : Settles(g, k) => SettlesIn(g, k, feed', eng')
  BY DEF Settles, SettlesIn, CurrentIn, DoneAfter, IsDone
<1>3. Queued'
  <2>1. \A i \in 1..Len(feed) : TruthfulIn(feed[i], eng')
    BY <1>1
  <2>2. \A i \in 1..Len(feed) : feed[i].kind = "start" => SettlesIn(feed[i].at, i, feed', eng')
    <3> SUFFICES ASSUME NEW i \in 1..Len(feed), feed[i].kind = "start" PROVE SettlesIn(feed[i].at, i, feed', eng')
      OBVIOUS
    <3>1. feed[i].at \in Gate /\ Settles(feed[i].at, i)
      BY <1>1 DEF Queued, Truthful, TruthfulIn
    <3> QED
      BY <3>1 DEF Settles, SettlesIn, CurrentIn, DoneAfter, IsDone
  <2> QED
    BY <1>1, <2>1, <2>2 DEF Queued, Truthful, TruthfulIn, Stepping, Settles, SettlesIn, CurrentIn, DoneAfter, IsDone
<1>4. Held => /\ TruthfulIn(listener.ev, eng')
              /\ listener.ev.kind = "start" => SettlesIn(listener.ev.at, 0, feed', eng')
  <2> SUFFICES ASSUME Held
               PROVE  /\ TruthfulIn(listener.ev, eng')
                      /\ listener.ev.kind = "start" => SettlesIn(listener.ev.at, 0, feed', eng')
    OBVIOUS
  <2>1. listener.ev.at \in Gate /\ (listener.ev.kind = "start" => Settles(listener.ev.at, 0))
    BY <1>1 DEF InHand, Truthful, TruthfulIn
  <2> QED
    BY <1>1, <2>1 DEF Settles, SettlesIn, CurrentIn, DoneAfter, IsDone
<1>5. InHand'
  BY <1>1, <1>4 DEF InHand, Truthful, TruthfulIn, Stepping, Held, Settles, SettlesIn, CurrentIn, DoneAfter, IsDone
<1>6. \A g \in Gate : Awaited(g) => Awaited(g)'
  BY <1>2 DEF Awaited, Held, IsDone, Settles
<1>7. \A g \in Gate : CurrentIn(g, eng') => Awaited(g)'
  BY DEF Awaited, Settles, SettlesIn, CurrentIn
<1>8. Marked'
  BY <1>6, <1>7 DEF Marked
<1> QED
  BY <1>1, <1>3, <1>5, <1>8 DEF Heard

LEMMA ToldEngine ==
    ASSUME Well, Told, EngineNext
    PROVE  Told'
<1>0. /\ eng \in Engine /\ eng.at \in Nat /\ eng.at \in 0..Gates /\ eng.out \in Outcome
      /\ UNCHANGED <<ui, dep, session>>
  BY Constants DEF EngineNext, Well, WizardTypeOK, Engine
<1>1. eng'.kind = eng.kind /\ eng'.cancel = eng.cancel
  BY EngineWorks DEF SameEngine
<1> SUFFICES ASSUME Deploying, Going, Queued, InHand, Marked, Heard
             PROVE  Going' /\ Queued' /\ InHand' /\ Marked' /\ Heard'
  BY <1>0, <1>1 DEF Told, Deploying, Running
<1>2. ~Cancelled /\ Failures = {"failed"}
  BY DEF Cancelled, Deploying, Failures
<1>3. \A g \in Gate : g \in Nat /\ g <= Gates
  BY Constants DEF Gate
<1>4. CASE Work
  <2>1. PICK out \in {"ok", "failed"} :
          eng' = [eng EXCEPT !.stage = "stop", !.out = out,
                             !.failed = IF out = "ok" THEN @ ELSE @ \cup {eng.at}]
    BY <1>2, <1>4 DEF Work
  <2>2. eng.stage = "work" /\ UNCHANGED <<feed, listener, rows>>
    BY <1>4 DEF Work, EngineAt
  <2>3. /\ eng'.stage = "stop" /\ eng'.out = out /\ eng'.at = eng.at
        /\ eng'.failed = IF out = "ok" THEN eng.failed ELSE eng.failed \cup {eng.at}
    BY <1>0, <2>1 DEF Engine
  <2>4. eng.at \in Gate /\ eng.failed \subseteq Gate /\ \A g \in eng.failed : g < eng.at
    BY <2>2 DEF Going, Stepping
  <2>5. eng.at \notin eng.failed
    BY <1>3, <2>4
  <2>6. Going'
    <3>1. (out = "failed") <=> (eng.at \in eng'.failed)
      BY <2>3, <2>5
    <3>2. \A g \in eng'.failed : g <= eng.at /\ g \in Gate
      BY <1>3, <2>3, <2>4
    <3> QED
      BY <2>3, <2>4, <3>1, <3>2 DEF Going, Stepping
  <2>7. \A e : Truthful(e) /\ e.kind # "final" => TruthfulIn(e, eng')
    <3> SUFFICES ASSUME NEW e, Truthful(e), e.kind # "final" PROVE TruthfulIn(e, eng')
      OBVIOUS
    <3>1. e.kind = "done" => e.at \in Gate /\ e.at < eng.at /\ ((e.out = "failed") <=> (e.at \in eng.failed))
      BY <2>2 DEF Truthful, TruthfulIn, Stepping
    <3>2. e.kind = "done" => e.at # eng.at
      BY <1>0, <3>1
    <3> QED
      BY <2>3, <3>1, <3>2 DEF Truthful, TruthfulIn, Stepping
  <2>8. /\ \A g \in Gate : CurrentIn(g, eng) <=> CurrentIn(g, eng')
        /\ eng.failed \subseteq eng'.failed
        /\ \A g \in eng'.failed : g \in eng.failed \/ CurrentIn(g, eng')
    BY <2>2, <2>3 DEF CurrentIn
  <2> QED
    BY <1>0, <2>2, <2>6, <2>7, <2>8, ToldUnsent
<1>5. CASE StopsBetween
  <2>1. PICK out \in {"failed"} : eng' = [eng EXCEPT !.stage = "final", !.out = out]
    BY <1>2, <1>5 DEF StopsBetween
  <2>2. eng.stage = "start" /\ UNCHANGED <<feed, listener, rows>>
    BY <1>5 DEF StopsBetween, EngineAt
  <2>3. eng'.stage = "final" /\ eng'.failed = eng.failed
    BY <1>0, <2>1 DEF Engine
  <2>4. Going'
    BY <2>3 DEF Going, Stepping
  <2>5. \A e : Truthful(e) /\ e.kind # "final" => TruthfulIn(e, eng')
    BY <2>3 DEF Truthful, TruthfulIn, Stepping
  <2>6. \A g \in Gate : ~CurrentIn(g, eng) /\ ~CurrentIn(g, eng')
    BY <2>2, <2>3 DEF CurrentIn
  <2> QED
    BY <1>0, <2>2, <2>3, <2>4, <2>5, <2>6, ToldUnsent
<1>6. CASE Confirm
  BY <1>6 DEF Confirm, EngineAt, Going
\* The goroutine goes past a step it has told of.
<1>7. ASSUME eng' = Past(eng), Stepping(eng), \A g \in eng.failed : g <= eng.at
      PROVE  /\ Going' /\ eng'.failed = eng.failed
             /\ \A e : Truthful(e) /\ e.kind # "final" => TruthfulIn(e, eng')
             /\ \A e : /\ e.kind = "done" /\ e.at = eng.at /\ e.out \in {"ok", "skipped", "failed"}
                       /\ (e.out = "failed") <=> (eng.at \in eng.failed)
                       => TruthfulIn(e, eng')
  <2>0. eng.at \in Gate /\ eng.failed \subseteq Gate
    BY <1>7 DEF Going
  <2>1. CASE eng.at < Gates
    <3>1. eng' = Next1(eng)
      BY <1>7, <2>1 DEF Past
    <3>2. eng'.stage = "start" /\ eng'.at = eng.at + 1 /\ eng'.failed = eng.failed
      BY <1>0, <3>1 DEF Next1, Engine
    <3>3. eng'.at \in Gate /\ \A g \in eng.failed : g < eng'.at
      BY <1>0, <1>3, <1>7, <2>0, <2>1, <3>2, Constants DEF Gate
    <3>4. Going'
      BY <2>0, <3>2, <3>3 DEF Going, Stepping
    <3>5. \A e : Truthful(e) /\ e.kind # "final" => TruthfulIn(e, eng')
      <4> SUFFICES ASSUME NEW e, Truthful(e), e.kind # "final" PROVE TruthfulIn(e, eng')
        OBVIOUS
      <4>1. e.at \in Gate /\ (e.kind = "done" => e.at < eng.at)
        BY <1>7 DEF Truthful, TruthfulIn
      <4>2. e.kind = "done" => e.at < eng'.at
        BY <1>0, <1>3, <3>2, <4>1
      <4> QED
        BY <3>2, <4>2 DEF Truthful, TruthfulIn
    <3>6. eng.at < eng'.at
      BY <1>0, <3>2
    <3> QED
      BY <2>0, <3>2, <3>4, <3>5, <3>6 DEF TruthfulIn
  <2>2. CASE ~(eng.at < Gates)
    <3>1. eng' = [eng EXCEPT !.stage = "final", !.out = "ok"]
      BY <1>7, <2>2 DEF Past
    <3>2. eng'.stage = "final" /\ eng'.failed = eng.failed
      BY <1>0, <3>1 DEF Engine
    <3> QED
      BY <2>0, <3>2 DEF Going, Stepping, Truthful, TruthfulIn
  <2> QED
    BY <2>1, <2>2
<1>8. CASE StepSkipped
  <2> DEFINE ev == Ev("done", eng.at, "skipped")
  <2>1. eng' = Past(eng) /\ UNCHANGED <<listener, rows>> /\ eng.stage = "start" /\ Send(ev)
    BY <1>8 DEF StepSkipped, EngineAt
  <2>2. ev \in Event /\ ev.kind = "done" /\ ev.at = eng.at /\ ev.out = "skipped"
    BY <1>0 DEF Ev, Event, Outcome
  <2> HIDE DEF ev
  <2>3. feed' = Append(feed, ev)
    BY <2>1, SentDeploying
  <2>4. /\ Stepping(eng) /\ \A g \in eng.failed : g < eng.at
        /\ eng.failed \subseteq Gate
    BY <2>1 DEF Stepping, Going
  <2>5. eng.at \notin eng.failed /\ \A g \in eng.failed : g <= eng.at
    BY <1>0, <1>3, <2>4
  <2>6. /\ Going' /\ eng'.failed = eng.failed
        /\ \A e : Truthful(e) /\ e.kind # "final" => TruthfulIn(e, eng')
        /\ TruthfulIn(ev, eng')
    BY <1>7, <2>1, <2>2, <2>4, <2>5
  <2>7. \A g \in Gate : ~CurrentIn(g, eng)
    BY <2>1 DEF CurrentIn
  <2> QED
    BY <1>0, <2>1, <2>2, <2>3, <2>6, <2>7, ToldSent
<1>9. CASE StepStarted
  <2> DEFINE ev == Ev("start", eng.at, None)
  <2>1. /\ eng' = [eng EXCEPT !.stage = "work"] /\ UNCHANGED <<listener, rows>>
        /\ eng.stage = "start" /\ Send(ev)
    BY <1>9 DEF StepStarted, EngineAt
  <2>2. ev \in Event /\ ev.kind = "start" /\ ev.at = eng.at /\ ev.out = None
    BY <1>0 DEF Ev, Event, Outcome
  <2> HIDE DEF ev
  <2>3. eng'.stage = "work" /\ eng'.failed = eng.failed /\ eng'.at = eng.at
    BY <1>0, <2>1 DEF Engine
  <2>4. feed' = Append(feed, ev)
    BY <2>1, SentDeploying
  <2>5. eng.at \in Gate
    BY <2>1 DEF Going, Stepping
  <2>6. Going'
    BY <2>1, <2>3 DEF Going, Stepping
  <2>7. /\ TruthfulIn(ev, eng')
        /\ \A e : Truthful(e) /\ e.kind # "final" => TruthfulIn(e, eng')
    BY <2>1, <2>2, <2>3, <2>5 DEF Truthful, TruthfulIn, Stepping
  <2>8. CurrentIn(ev.at, eng') /\ \A g \in Gate : ~CurrentIn(g, eng)
    BY <2>1, <2>2, <2>3 DEF CurrentIn
  <2> QED
    BY <1>0, <2>1, <2>2, <2>3, <2>4, <2>6, <2>7, <2>8, ToldSent
<1>10. CASE StepFinished
  <2> DEFINE ev == Ev("done", eng.at, eng.out)
  <2>1. /\ UNCHANGED <<listener, rows>> /\ eng.stage = "stop" /\ Send(ev)
        /\ eng' = Past(eng) \/ eng' = [eng EXCEPT !.stage = "final"]
    BY <1>10 DEF StepFinished, EngineAt, Deploying
  <2>2. ev \in Event /\ ev.kind = "done" /\ ev.at = eng.at /\ ev.out = eng.out
    BY <1>0 DEF Ev, Event
  <2> HIDE DEF ev
  <2>3. feed' = Append(feed, ev)
    BY <2>1, SentDeploying
  <2>4. /\ Stepping(eng) /\ eng.at \in Gate /\ eng.failed \subseteq Gate
        /\ \A g \in eng.failed : g <= eng.at
        /\ eng.out \in {"ok", "failed"} /\ ((eng.out = "failed") <=> (eng.at \in eng.failed))
    BY <2>1 DEF Stepping, Going
  <2>5. /\ Going' /\ eng'.failed = eng.failed
        /\ \A e : Truthful(e) /\ e.kind # "final" => TruthfulIn(e, eng')
        /\ TruthfulIn(ev, eng')
    <3>1. CASE eng' = Past(eng)
      BY <1>7, <2>2, <2>4, <3>1
    <3>2. CASE eng' = [eng EXCEPT !.stage = "final"]
      <4>1. eng'.stage = "final" /\ eng'.failed = eng.failed
        BY <1>0, <3>2 DEF Engine
      <4> QED
        BY <2>2, <2>4, <4>1 DEF Going, Stepping, Truthful, TruthfulIn
    <3> QED
      BY <2>1, <3>1, <3>2
  <2>6. \A g \in Gate : CurrentIn(g, eng) => IsDone(ev, g)
    BY <2>2 DEF CurrentIn, IsDone
  <2> QED
    BY <1>0, <2>1, <2>2, <2>3, <2>5, <2>6, ToldSent
<1>11. CASE SendFinal
  <2> DEFINE ev == Ev("final", 0, eng.out)
  <2>1. /\ UNCHANGED <<listener, rows>> /\ eng.stage = "final" /\ Send(ev)
        /\ eng' = [NoEngine EXCEPT !.kind = eng.kind, !.id = eng.id, !.stage = "ended",
                                   !.failed = eng.failed, !.cancel = eng.cancel]
    BY <1>11 DEF SendFinal, EngineAt
  <2>2. ev \in Event /\ ev.kind = "final" /\ ev.out = eng.out
    BY <1>0, Constants DEF Ev, Event
  <2> HIDE DEF ev
  <2>3. feed' = Append(feed, ev)
    BY <2>1, SentDeploying
  <2>4. eng'.stage = "ended" /\ eng'.failed = eng.failed
    BY <2>1 DEF NoEngine
  <2>5. Going'
    BY <2>4 DEF Going, Stepping
  <2>6. /\ TruthfulIn(ev, eng')
        /\ \A e : Truthful(e) /\ e.kind # "final" => TruthfulIn(e, eng')
    BY <2>2, <2>4 DEF Truthful, TruthfulIn, Stepping
  <2>7. \A g \in Gate : ~CurrentIn(g, eng)
    BY <2>1 DEF CurrentIn
  <2> QED
    BY <1>0, <2>1, <2>2, <2>3, <2>4, <2>5, <2>6, <2>7, ToldSent
<1> QED
  BY <1>4, <1>5, <1>6, <1>8, <1>9, <1>10, <1>11 DEF EngineNext

LEMMA HeadIsFirst ==
    ASSUME NEW S, NEW s \in Seq(S), s # <<>>
    PROVE  Head(s) = s[1]
OBVIOUS

\* The screen takes an event, applies it to the checklist, and ends with the last one.
LEMMA ToldListen ==
    ASSUME Well, Told, Deploying, Listen
    PROVE  Told'
<1>0. Going /\ Queued /\ InHand /\ Marked /\ Heard
  BY DEF Told
<1>1. /\ feed \in Seq(Event) /\ feed # <<>> /\ ~Held
      /\ listener' = [state |-> "held", ev |-> Head(feed)]
      /\ feed' = Tail(feed) /\ UNCHANGED <<eng, dep, rows, ui>>
  BY DEF Listen, Well, WizardTypeOK, Held
<1>2. /\ Len(feed) \in Nat /\ Len(feed) >= 1 /\ Head(feed) = feed[1]
      /\ Len(feed') = Len(feed) - 1
      /\ \A i \in 1..Len(feed') : feed'[i] = feed[i + 1]
      /\ Len(feed) = 1 => feed' = <<>>
  <2>1. Len(feed) \in Nat /\ Len(feed) # 0
    BY <1>1, LenProperties, EmptySeq
  <2>2. /\ Tail(feed) \in Seq(Event) /\ Len(Tail(feed)) = Len(feed) - 1
        /\ \A i \in 1..Len(Tail(feed)) : Tail(feed)[i] = feed[i + 1]
    BY <1>1, HeadTailProperties
  <2>3. Len(feed) = 1 => Tail(feed) = <<>>
    <3>1. Len(feed) = 1 => Len(Tail(feed)) = 0
      BY <2>2
    <3> QED
      BY <2>2, <3>1, EmptySeq
  <2>4. Head(feed) = feed[1]
    BY <1>1, HeadIsFirst
  <2> QED
    BY <1>1, <2>1, <2>2, <2>3, <2>4
<1>3. \A i \in 1..Len(feed') : i + 1 \in 1..Len(feed) /\ 1 < i + 1
  BY <1>2
<1>4. 1 \in 1..Len(feed)
  BY <1>2
<1>5. listener'.state = "held" /\ listener'.ev = feed[1]
  BY <1>1, <1>2
\* What was behind the k + 1 first events is behind the k first.
<1>6. \A g : \A k \in Nat : DoneAfter(g, k + 1, feed) => DoneAfter(g, k, feed')
  <2> SUFFICES ASSUME NEW g, NEW k \in Nat, NEW j \in 1..Len(feed), j > k + 1, IsDone(feed[j], g)
               PROVE  DoneAfter(g, k, feed')
    BY DEF DoneAfter
  <2>1. j - 1 \in 1..Len(feed') /\ j - 1 > k /\ (j - 1) + 1 = j
    BY <1>2
  <2>2. feed'[j - 1] = feed[j]
    BY <1>2, <2>1
  <2> QED
    BY <2>1, <2>2 DEF DoneAfter, IsDone
<1>7. \A g : \A k \in Nat : Settles(g, k + 1) => SettlesIn(g, k, feed', eng')
  BY <1>1, <1>6 DEF Settles, SettlesIn, CurrentIn
<1>8. Going' /\ Heard'
  BY <1>0, <1>1 DEF Going, Heard, Stepping
<1>9. Queued'
  <2>1. \A i \in 1..Len(feed') : Truthful(feed'[i])
    BY <1>0, <1>2, <1>3 DEF Queued
  <2>2. \A i \in 1..Len(feed') : feed'[i].kind = "start" => SettlesIn(feed'[i].at, i, feed', eng')
    <3> SUFFICES ASSUME NEW i \in 1..Len(feed'), feed'[i].kind = "start"
                 PROVE  CurrentIn(feed'[i].at, eng') \/ \E j \in 1..Len(feed') : j > i /\ IsDone(feed'[j], feed'[i].at)
      BY DEF SettlesIn, DoneAfter
    <3> DEFINE n == feed[i + 1].at
    <3>1. Settles(n, i + 1) /\ i \in Nat /\ feed'[i].at = n
      BY <1>0, <1>2, <1>3 DEF Queued
    <3>2. CASE CurrentIn(n, eng)
      BY <1>1, <3>1, <3>2 DEF CurrentIn
    <3>3. CASE DoneAfter(n, i + 1, feed)
      <4>1. PICK j \in 1..Len(feed) : j > i + 1 /\ IsDone(feed[j], n)
        BY <3>3 DEF DoneAfter
      <4>2. j - 1 \in 1..Len(feed') /\ j - 1 > i /\ (j - 1) + 1 = j
        BY <1>2, <3>1, <4>1
      <4>3. feed'[j - 1] = feed[j]
        BY <1>2, <4>2
      <4> QED
        BY <3>1, <4>1, <4>2, <4>3
    <3> QED
      BY <3>1, <3>2, <3>3 DEF Settles, SettlesIn
  <2>3. \A i, j \in 1..Len(feed') : i < j => feed'[i].kind # "final"
    <3> SUFFICES ASSUME NEW i \in 1..Len(feed'), NEW j \in 1..Len(feed'), i < j
                 PROVE  feed'[i].kind # "final"
      OBVIOUS
    <3>1. i + 1 < j + 1
      BY <1>2
    <3> QED
      BY <1>0, <1>2, <1>3, <3>1 DEF Queued
  <2> QED
    BY <1>1, <2>1, <2>2, <2>3 DEF Queued, Truthful, TruthfulIn, Stepping, Settles
<1>10. Truthful(feed[1]) /\ (feed[1].kind = "start" => SettlesIn(feed[1].at, 0, feed', eng'))
  <2>1. Truthful(feed[1]) /\ (feed[1].kind = "start" => Settles(feed[1].at, 1))
    BY <1>0, <1>4 DEF Queued
  <2>2. CASE feed[1].kind = "start"
    <3> DEFINE n == feed[1].at
    <3>1. CASE CurrentIn(n, eng)
      BY <1>1, <2>1, <3>1 DEF Settles, SettlesIn, CurrentIn
    <3>2. CASE DoneAfter(n, 1, feed)
      <4>1. PICK j \in 1..Len(feed) : j > 1 /\ IsDone(feed[j], n)
        BY <3>2 DEF DoneAfter
      <4>2. j - 1 \in 1..Len(feed') /\ j - 1 > 0 /\ (j - 1) + 1 = j
        BY <1>2, <4>1
      <4>3. feed'[j - 1] = feed[j]
        BY <1>2, <4>2
      <4> QED
        BY <2>1, <4>1, <4>2, <4>3 DEF Settles, SettlesIn, DoneAfter, IsDone
    <3> QED
      BY <2>1, <2>2, <3>1, <3>2 DEF Settles, SettlesIn
  <2> QED
    BY <2>1, <2>2
<1>11. feed[1].kind = "final" => feed' = <<>>
  <2>1. feed[1].kind = "final" => Len(feed') = 0
    <3>1. Len(feed') # 0 => 1 \in 1..Len(feed')
      BY <1>2
    <3>2. Len(feed') # 0 => 2 \in 1..Len(feed)
      BY <1>2
    <3> QED
      BY <1>0, <1>4, <3>2 DEF Queued
  <2> QED
    BY <1>2, <2>1
<1>12. InHand'
  BY <1>1, <1>5, <1>10, <1>11 DEF InHand, Truthful, TruthfulIn, Stepping, Settles, SettlesIn, DoneAfter, CurrentIn, IsDone
<1>13. \A g \in Gate : Awaited(g) => Awaited(g)'
  <2> SUFFICES ASSUME NEW g \in Gate, Settles(g, 0) PROVE Awaited(g)'
    BY <1>1 DEF Awaited
  <2>1. CASE CurrentIn(g, eng)
    BY <1>1, <2>1 DEF Awaited, Settles, SettlesIn, CurrentIn
  <2>2. CASE DoneAfter(g, 0, feed)
    <3>1. PICK j \in 1..Len(feed) : IsDone(feed[j], g)
      BY <2>2 DEF DoneAfter
    <3>2. CASE j = 1
      BY <1>5, <3>1, <3>2 DEF Awaited, Held, IsDone
    <3>3. CASE j # 1
      <4>1. DoneAfter(g, 0 + 1, feed)
        BY <3>1, <3>3 DEF DoneAfter
      <4>2. DoneAfter(g, 0, feed')
        BY <1>6, <4>1
      <4> QED
        BY <4>2 DEF Awaited, Settles, SettlesIn
    <3> QED
      BY <3>2, <3>3
  <2> QED
    BY <2>1, <2>2 DEF Settles, SettlesIn
<1>14. Marked'
  BY <1>0, <1>1, <1>13 DEF Marked
<1> QED
  BY <1>8, <1>9, <1>12, <1>14 DEF Told

\* What an event does to the checklist.
LEMMA AppliedRows ==
    ASSUME Well, NEW ev, ev.at \in Gate, ev.out # "cancelled",
           rows' = Applied(ev), ev.kind # "final"
    PROVE  \A g \in Gate :
             /\ ev.kind = "done" /\ g = ev.at => /\ (rows'[g] = "failed") <=> (ev.out = "failed")
                                                 /\ rows'[g] # "running"
             /\ ~(ev.kind = "done" /\ g = ev.at) =>
                   /\ (rows'[g] = "failed") <=> (rows[g] = "failed")
                   /\ rows'[g] = "running" => rows[g] = "running" \/ g = ev.at
<1>1. rows \in [Gate -> RowStatus]
  BY DEF Well, WizardTypeOK
<1> DEFINE p == Promoted(rows, ev.at)
<1>2. /\ DOMAIN p = Gate
      /\ \A g \in Gate : (p[g] = "failed" <=> rows[g] = "failed") /\ (p[g] = "running" => rows[g] = "running")
  BY <1>1 DEF Promoted, Open1
<1> HIDE DEF p
<1>3. \A g \in Gate : rows'[g] = IF g = ev.at THEN (IF ev.kind = "done" THEN DoneStatus(ev)
                                                    ELSE IF p[g] = "pending" THEN "running" ELSE p[g])
                                 ELSE p[g]
  BY <1>2 DEF Applied, p
<1>4. (DoneStatus(ev) = "failed" <=> (ev.out = "failed")) /\ DoneStatus(ev) # "running"
  BY DEF DoneStatus
<1> QED
  BY <1>2, <1>3, <1>4

\* What the terminal event does to it, when no step is left at work.
LEMMA FinishedRows ==
    ASSUME Well, NEW out, rows' = Finished(out), \A g \in Gate : rows[g] # "running"
    PROVE  /\ \A g \in Gate : /\ (rows'[g] = "failed") <=> (rows[g] = "failed")
                              /\ rows'[g] # "running"
           /\ out = "ok" => \A g \in Gate : ~Open1(rows'[g])
<1>1. rows \in [Gate -> RowStatus]
  BY DEF Well, WizardTypeOK
<1>2. CASE out = "ok"
  <2>1. \A g \in Gate : rows'[g] = IF Open1(rows[g]) THEN "done" ELSE rows[g]
    BY <1>2, Constants DEF Finished, Promoted, Gate
  <2> QED
    BY <2>1 DEF Open1
<1>3. CASE out # "ok"
  <2>1. \A g \in Gate : rows'[g] = rows[g]
    BY <1>3 DEF Finished
  <2> QED
    BY <1>3, <2>1
<1> QED
  BY <1>2, <1>3

LEMMA ToldFeed ==
    ASSUME Well, Told, FeedNext
    PROVE  Told'
<1>1. eng' = eng /\ (Deploying' <=> Deploying)
  <2>1. ui \in Ui /\ eng' = eng
    BY DEF Well, WizardTypeOK, FeedNext, Listen, ListenGivesUp, ApplyEvent, ApplyFinal, SettleEnds, operation
  <2>2. ui'.phase = ui.phase
    BY <2>1 DEF FeedNext, Listen, ListenGivesUp, ApplyEvent, ApplyFinal, SettleEnds, Ui
  <2> QED
    BY <2>1, <2>2 DEF Deploying, Running
<1> SUFFICES ASSUME Deploying PROVE Told'
  BY <1>1 DEF Told
<1>0. Going /\ Queued /\ InHand /\ Marked /\ Heard
  BY DEF Told
<1>2. CASE Listen
  BY <1>2, ToldListen
<1>3. CASE ListenGivesUp
  BY <1>3 DEF ListenGivesUp, Deploying
<1>4. CASE ApplyEvent
  <2> DEFINE ev == listener.ev
  <2>1. /\ Held /\ ev.kind # "final" /\ rows' = Applied(ev)
        /\ listener' = Waiting /\ UNCHANGED <<feed, dep>>
    BY <1>4 DEF ApplyEvent, Held
  <2>2. ~Held' /\ ~dep.executed
    BY <1>0, <2>1 DEF Held, Waiting, Heard
  <2>3. Truthful(ev) /\ ev.at \in Gate /\ ev.out # "cancelled"
    BY <1>0, <2>1 DEF InHand, Truthful, TruthfulIn, None
  <2>4. \A g \in Gate :
             /\ ev.kind = "done" /\ g = ev.at => /\ (rows'[g] = "failed") <=> (ev.out = "failed")
                                                 /\ rows'[g] # "running"
             /\ ~(ev.kind = "done" /\ g = ev.at) =>
                   /\ (rows'[g] = "failed") <=> (rows[g] = "failed")
                   /\ rows'[g] = "running" => rows[g] = "running" \/ g = ev.at
    BY <2>1, <2>3, AppliedRows
  <2>5. ev.kind = "start" => Settles(ev.at, 0)
    BY <1>0, <2>1 DEF InHand
  <2>6. ev.kind = "start" \/ ev.kind = "done"
    BY <2>1 DEF Well, WizardTypeOK, Event
  <2>7. \A g : SettlesIn(g, 0, feed', eng') <=> Settles(g, 0)
    BY <1>1, <2>1 DEF Settles, SettlesIn, CurrentIn, DoneAfter, IsDone
  <2> HIDE DEF ev
  <2>8. Marked'
    <3> SUFFICES ASSUME NEW g \in Gate
                 PROVE  /\ rows'[g] = "failed" => g \in eng.failed
                        /\ g \in eng.failed => rows'[g] = "failed" \/ Settles(g, 0)
                        /\ rows'[g] = "running" => Settles(g, 0)
      BY <1>1, <2>7 DEF Marked, Awaited, Settles
    <3>1. CASE ev.kind = "done" /\ g = ev.at
      BY <2>3, <2>4, <3>1 DEF Truthful, TruthfulIn
    <3>2. CASE ~(ev.kind = "done" /\ g = ev.at)
      <4>1. ~IsDone(ev, g)
        BY <3>2 DEF IsDone
      <4>2. /\ rows[g] = "failed" => g \in eng.failed
            /\ g \in eng.failed => rows[g] = "failed" \/ Settles(g, 0)
            /\ rows[g] = "running" => Settles(g, 0)
        BY <1>0, <4>1 DEF Marked, Awaited, ev
      <4> QED
        BY <2>4, <2>5, <2>6, <3>2, <4>2
    <3> QED
      BY <3>1, <3>2
  <2>9. Queued' /\ Going'
    BY <1>0, <1>1, <2>1
       DEF Queued, Going, Truthful, TruthfulIn, Stepping, Settles, SettlesIn, CurrentIn, DoneAfter, IsDone
  <2>10. InHand' /\ Heard'
    BY <2>1, <2>2 DEF InHand, Heard
  <2> QED
    BY <2>8, <2>9, <2>10 DEF Told
<1>5. CASE ApplyFinal
  <2>1. /\ Held /\ listener.ev.kind = "final" /\ rows' = Finished(listener.ev.out)
        /\ listener' = Off /\ feed' = feed /\ dep' = Ended(dep)
    BY <1>5 DEF ApplyFinal, Held, Deploying
  <2>2. ~Held'
    BY <2>1 DEF Held, Off
  <2>3. eng.stage = "ended" /\ feed = <<>>
    BY <1>0, <2>1 DEF InHand, Truthful, TruthfulIn
  <2>4. \A g \in Gate : ~Awaited(g)
    <3>1. Len(feed) = 0
      BY <2>3, EmptySeq
    <3> QED
      BY <2>1, <2>3, <3>1 DEF Awaited, Settles, SettlesIn, CurrentIn, DoneAfter, IsDone
  <2>5. \A g \in Gate : rows[g] # "running" /\ ((rows[g] = "failed") <=> (g \in eng.failed))
    BY <1>0, <2>4 DEF Marked
  <2>6. /\ \A g \in Gate : /\ (rows'[g] = "failed") <=> (rows[g] = "failed")
                           /\ rows'[g] # "running"
        /\ listener.ev.out = "ok" => \A g \in Gate : ~Open1(rows'[g])
    BY <2>1, <2>5, FinishedRows
  <2>7. Marked'
    BY <1>1, <2>5, <2>6 DEF Marked
  <2>8. Queued' /\ Going' /\ InHand'
    BY <1>0, <1>1, <2>1, <2>2
       DEF Queued, Going, InHand, Truthful, TruthfulIn, Stepping, Settles, SettlesIn, CurrentIn, DoneAfter, IsDone
  <2>9. Heard'
    <3>1. dep'.result = listener.ev.out
      BY <2>1 DEF Ended, Well, WizardTypeOK, Executed
    <3> QED
      BY <1>1, <2>1, <2>2, <2>3, <2>6, <3>1 DEF Heard
  <2> QED
    BY <2>7, <2>8, <2>9 DEF Told
<1>6. CASE SettleEnds
  BY <1>1, <1>6, ToldQuietly DEF SettleEnds, operation
<1> QED
  BY <1>2, <1>3, <1>4, <1>5, <1>6 DEF FeedNext

\* A move leaves the operation alone, starts a node operation, or leaves the stream.
OperationMoved == UNCHANGED operation \/ ui'.step \in {"exec", "finish"}

LEMMA ArriveMoves ==
    ASSUME NEW target, NEW s, NEW rest, Arrive(target, s, rest)
    PROVE  OperationMoved
BY DEF Arrive, EngineEntered, OperationMoved, operation

LEMMA StepMoves ==
    ASSUME NEW rest,
           \/ \E s : GoToNextStep(s, rest)
           \/ GoToPreviousStep(rest)
           \/ \E step : JumpToStep(step, rest)
           \/ \E n : SwapFlow(n, rest)
           \/ RestoreFlow
    PROVE  OperationMoved
<1>1. ASSUME NEW s, GoToNextStep(s, rest) PROVE OperationMoved
  BY <1>1, ArriveMoves, Zenon DEF GoToNextStep, OperationMoved, operation
<1>2. CASE GoToPreviousStep(rest)
  BY <1>2, ArriveMoves, Zenon DEF GoToPreviousStep, StayPut, OperationMoved, operation
<1>3. ASSUME NEW step, JumpToStep(step, rest) PROVE OperationMoved
  BY <1>3, ArriveMoves, Zenon DEF JumpToStep
<1>4. ASSUME NEW n, SwapFlow(n, rest) PROVE OperationMoved
  BY <1>4, ArriveMoves, Zenon DEF SwapFlow, StayPut, OperationMoved, operation
<1>5. CASE RestoreFlow
  BY <1>5, ArriveMoves, Zenon DEF RestoreFlow
<1> QED
  BY <1>1, <1>2, <1>3, <1>4, <1>5

\* The stream's engine is a deploy's, and no other step's is.
LEMMA ToldMoved ==
    ASSUME Told, Reported', Running, OperationMoved, dep' = dep
    PROVE  Told'
<1>1. CASE UNCHANGED operation
  BY <1>1, ToldQuietly DEF operation, Deploying
<1>2. CASE ui'.step \in {"exec", "finish"}
  BY <1>2 DEF Reported, OwnDeploy, Deploying, Told
<1> QED
  BY <1>1, <1>2 DEF OperationMoved

LEMMA ToldKeys ==
    ASSUME Well, Told, Reported', Keys
    PROVE  Told'
<1>1. CASE HubKeys
  <2>1. Running /\ UNCHANGED <<operation, dep>>
    BY <1>1 DEF HubKeys, ConfirmVerb, FinishExit, FinishManage, EditField, SubmitForm, ReviewJump,
                ReviewConfirm, Press, Returns, operation
  <2> QED
    BY <2>1, ToldMoved DEF OperationMoved
<1>2. CASE ManageKeys
  <2>1. Running /\ UNCHANGED <<operation, dep>>
    BY <1>2 DEF ManageKeys, PressEnter, PressRefresh, ReachBottom, PressExecute, PressBackToParams,
                PressExit, TypeName, PreviewKeys, Press, Returns, operation
  <2> QED
    BY <2>1, ToldMoved DEF OperationMoved
<1>3. CASE PressCtrlC
  <2>1. eng \in Engine
    BY DEF Well, WizardTypeOK
  <2>2. Running /\ UNCHANGED <<feed, listener, rows, dep>> /\ (eng' = eng \/ eng'.cancel)
    BY <1>3, <2>1 DEF PressCtrlC, Engine
  <2> QED
    BY <2>2, ToldQuietly DEF Deploying, Told
<1>4. CASE AnswerDiscard
  BY <1>4, ToldMoved DEF AnswerDiscard, OperationMoved
<1>5. CASE PressEsc
  <2>1. Running /\ dep' = dep /\ (GoToPreviousStep(msgs) \/ RestoreFlow)
    BY <1>5 DEF PressEsc
  <2> QED
    BY <2>1, StepMoves, ToldMoved
<1> QED
  BY <1>1, <1>2, <1>3, <1>4, <1>5 DEF Keys

LEMMA ToldDeliver ==
    ASSUME Told, Reported', Deliver
    PROVE  Told'
<1>1. Running
  BY DEF Deliver
<1>2. ASSUME NEW m \in msgs, Received(m), dep' = dep PROVE Told'
  <2>1. CASE \/ m.kind = "complete" /\ ui.step \in FormStep /\ StayPut(msgs \ {m})
             \/ m.kind = "openfailed" /\ UNCHANGED operation
    BY <1>1, <1>2, <2>1, ToldMoved DEF OperationMoved, StayPut
  <2>2. CASE \/ \E s : GoToNextStep(s, msgs \ {m})
             \/ GoToPreviousStep(msgs \ {m})
             \/ \E step : JumpToStep(step, msgs \ {m})
             \/ \E n : SwapFlow(n, msgs \ {m})
    BY <1>1, <1>2, <2>2, StepMoves, ToldMoved
  <2> QED
    BY <1>2, <2>1, <2>2, Zenon DEF Received
<1>3. ASSUME NEW m \in msgs, NodesLoaded(m) \/ DryRunDone(m) PROVE Told'
  BY <1>1, <1>3, ToldMoved DEF NodesLoaded, DryRunDone, Taken, OperationMoved
<1> QED
  BY <1>2, <1>3 DEF Deliver

LEMMA ToldEnds ==
    ASSUME Well, Told, CliEnds
    PROVE  Told'
<1>1. st \in State /\ ui \in Ui
  BY DEF Well, WizardTypeOK
<1>2. ASSUME NEW status, NEW c, Leaves(status, c) PROVE Told'
  BY <1>2, LeavesEngine DEF Told, Deploying, Running
<1>3. ASSUME NEW c, Streams(c) PROVE Told'
  <2>1. /\ dep' = Begun(NotExecuted) /\ eng' = Engaged("deploy", 0)
        /\ feed' = <<>> /\ listener' = Waiting /\ rows' = NoRows
    BY <1>3 DEF Streams
  <2>2. eng'.stage = "start" /\ eng'.at = 1 /\ eng'.failed = {}
    BY <2>1 DEF Engaged, NoEngine
  <2>3. ~dep'.executed
    <3>1. ~NotExecuted.executed
      BY DEF NotExecuted
    <3> QED
      BY <2>1, <3>1, BegunTyped, Blanks
  <2>4. ~Held'
    BY <2>1 DEF Held, Waiting
  <2>5. \A g \in Gate : rows'[g] = "pending"
    BY <2>1 DEF NoRows
  <2>6. Len(feed') = 0
    BY <2>1, EmptySeq
  <2>7. Going'
    BY <2>2, Constants DEF Going, Gate, Stepping
  <2>8. Queued'
    BY <2>6 DEF Queued
  <2>9. Marked'
    BY <2>2, <2>5 DEF Marked
  <2> QED
    BY <2>3, <2>4, <2>7, <2>8, <2>9 DEF Told, InHand, Heard
<1> QED
  BY <1>2, <1>3, EndsHow

LEMMA ToldCloses ==
    ASSUME Well, Told, QuitArrives \/ RendererFails \/ NotStarted \/ Drift
    PROVE  Told'
<1>0. ui \in Ui
  BY DEF Well, WizardTypeOK
<1>1. ASSUME NEW last \in Ui, Shutdown(last) PROVE Told'
  BY <1>1, ShutsDown DEF Told, Deploying, Running
<1>2. CASE QuitArrives
  BY <1>0, <1>1, <1>2 DEF QuitArrives
<1>3. CASE RendererFails
  <2> DEFINE u == [ui EXCEPT !.crashed = TRUE, !.outcome = "unset", !.exitStep = None]
  <2>1. u \in Ui
    BY <1>0 DEF Ui
  <2>2. Shutdown(u)
    BY <1>3 DEF RendererFails
  <2> HIDE DEF u
  <2> QED
    BY <1>1, <2>1, <2>2
<1>4. CASE NotStarted \/ Drift
  BY <1>4, ToldQuietly DEF NotStarted, Drift, operation, Deploying, Running
<1> QED
  BY <1>2, <1>3, <1>4

LEMMA ToldStep ==
    ASSUME Well, Told, Reported', [WizardNext]_vars
    PROVE  Told'
<1>1. CASE UNCHANGED vars
  BY <1>1, ToldQuietly DEF vars, operation, Deploying, Running
<1>2. CASE ManageWork \/ OpenFlow
  BY <1>2, ToldQuietly
     DEF ManageWork, ListNodes, DryRun, Becomes, OpenFlow, operation, Deploying, Running
<1>3. CASE WizardNext
  BY <1>2, <1>3, ToldKeys, ToldDeliver, ToldEngine, ToldFeed, ToldEnds, ToldCloses DEF WizardNext, Works
<1> QED
  BY <1>1, <1>3

LEMMA ToldInit ==
    WizardInit => Told
BY DEF WizardInit, Told, Deploying, NoEngine, None


-----------------------------------------------------------------------------
(* What the process says when it ends *)

\* A status that says what became of the last operation.
Truth(status) ==
    /\ (LastStarted.started /\ ~LastStarted.executed) => status = "interrupted"
    /\ (LastStarted.executed /\ LastStarted.result # "ok") => status \in {"failed", "interrupted"}
    /\ (status = "ok") <=> (LastStarted.executed /\ LastStarted.result = "ok" /\ ~ui.crashed)
CrashedHub == program = "hub" /\ ui.crashed

\* The operation of a session that another has superseded.
Dropped == eng.kind = "manage" /\ Superseded(eng.id)
SaysTruly == ui.phase = "exited" /\ ~CrashedHub /\ ~Dropped => Truth(ui.exit)

\* The CLI asks the session it holds, and the deploy when no session ran.
LEMMA HeldRuns ==
    ASSUME Well, Reported, ui.phase = "closing"
    PROVE  /\ Held1.started => LastStarted = Held1
           /\ ~Held1.started => \/ eng.kind # "manage" /\ LastStarted = dep
                                \/ program = "deploy" /\ Dropped
           /\ Proper(LastStarted) /\ Proper(Held1)
<1>0. slot = 0 \/ slot \in Session
  BY Constants DEF Well, WizardTypeOK, Session
<1>1. eng.kind = "manage" => eng.id \in Session /\ session[eng.id].exe.started
  BY DEF Reported, OwnSession, OneStarted
<1>2. Held1.started => eng.kind = "manage" /\ eng.id = slot /\ LastStarted = Held1
  <2>1. ~NotExecuted.started
    BY DEF NotExecuted
  <2>2. slot \in Session /\ session[slot].exe.started => eng.kind = "manage" /\ eng.id = slot
    BY DEF Reported, OneStarted
  <2> QED
    BY <1>0, <2>1, <2>2 DEF Held1, LastStarted
<1>3. ~Held1.started => \/ eng.kind # "manage" /\ LastStarted = dep
                        \/ program = "deploy" /\ Dropped
  <2>1. CASE eng.kind # "manage"
    BY <2>1 DEF LastStarted
  <2>2. CASE eng.kind = "manage"
    <3>1. eng.id = slot \/ (program = "deploy" /\ Superseded(eng.id))
      BY <2>2 DEF Reported, OwnSession, Accounted
    <3>2. eng.id = slot => Held1.started
      <4>1. eng.id = slot => slot # 0
        BY <1>1, <2>2, Constants DEF Session
      <4> QED
        BY <1>1, <2>2, <4>1 DEF Held1
    <3> QED
      BY <2>2, <3>1, <3>2 DEF Dropped
  <2> QED
    BY <2>1, <2>2
<1>4. Proper(LastStarted) /\ Proper(Held1)
  <2>1. Proper(NotExecuted)
    BY DEF Proper, NotExecuted
  <2>2. Proper(dep) /\ \A n \in Session : Proper(session[n].exe)
    BY DEF Reported, AllProper
  <2> QED
    BY <1>0, <1>1, <2>1, <2>2 DEF Held1, LastStarted
<1> QED
  BY <1>2, <1>3, <1>4

LEMMA ExitsTruly ==
    ASSUME Reported, ui.phase = "closing", NEW x,
           Proper(x), x = LastStarted
    PROVE  Truth(IF ui.crashed THEN Crashed(LifecycleExit(x)) ELSE LifecycleExit(x))
BY DEF Truth, LifecycleExit, Crashed, Proper

LEMMA QuietlyTruly ==
    ASSUME Reported, NEW status, status # "ok", ~LastStarted.started, Proper(LastStarted)
    PROVE  Truth(status)
BY DEF Truth, Proper

\* How the process ends: it says what became of the last operation, or a deploy
\* takes the terminal over.
LEMMA EndsTruly ==
    ASSUME Well, Reported, CliEnds
    PROVE  \/ \E status, c : Leaves(status, c) /\ (CrashedHub \/ Dropped \/ Truth(status))
           \/ \E c : Streams(c)
<1>0. ui.phase = "closing"
  BY DEF CliEnds, WorkersDone
<1>1. /\ Held1.started => LastStarted = Held1
      /\ ~Held1.started => \/ eng.kind # "manage" /\ LastStarted = dep
                           \/ program = "deploy" /\ Dropped
      /\ Proper(LastStarted) /\ Proper(Held1)
  BY <1>0, HeldRuns
<1>2. ASSUME NEW status, Exits(status), CrashedHub \/ Dropped \/ Truth(status)
      PROVE  \E s, c : Leaves(s, c) /\ (CrashedHub \/ Dropped \/ Truth(s))
  BY <1>2 DEF Exits
<1>3. CASE ManageEnds
  <2> DEFINE status == IF ui.crashed THEN Crashed(LifecycleExit(Held1)) ELSE LifecycleExit(Held1)
  <2>1. Exits(status) /\ program = "manage"
    BY <1>3 DEF ManageEnds
  <2>2. Truth(status)
    <3>1. CASE Held1.started
      BY <1>0, <1>1, <3>1, ExitsTruly
    <3>2. CASE ~Held1.started
      <4>1. ~LastStarted.started
        BY <1>1, <2>1, <3>2 DEF Reported, OwnDeploy
      <4>2. status # "ok"
        BY <1>1, <3>2 DEF Crashed, LifecycleExit, Proper
      <4> QED
        BY <1>1, <4>1, <4>2, QuietlyTruly
    <3> QED
      BY <3>1, <3>2
  <2> HIDE DEF status
  <2> QED
    BY <1>2, <2>1, <2>2
<1>4. CASE DeployEnds
  <2> DEFINE exit == IF Held1.started THEN LifecycleExit(Held1) ELSE DeployExit
             status == IF ui.crashed THEN Crashed(exit) ELSE exit
  <2>1. Exits(status) /\ program = "deploy"
    BY <1>4 DEF DeployEnds
  <2>2. Dropped \/ Truth(status)
    <3>1. CASE Held1.started
      BY <1>0, <1>1, <3>1, ExitsTruly
    <3>2. CASE ~Held1.started
      BY <1>1, <3>2 DEF Truth, DeployExit, Crashed, Proper, None
    <3> QED
      BY <3>1, <3>2
  <2> HIDE DEF status
  <2> QED
    BY <1>2, <2>1, <2>2
<1>5. CASE HubEnds
  <2>1. program = "hub"
    BY <1>5 DEF HubEnds
  <2>2. CASE ui.crashed
    BY <1>2, <1>5, <2>1, <2>2 DEF HubEnds, CrashedHub
  <2>3. CASE ~ui.crashed /\ Held1.started
    <3>1. Exits(LifecycleExit(Held1))
      BY <1>5, <2>3 DEF HubEnds
    <3>2. Truth(LifecycleExit(Held1))
      BY <1>0, <1>1, <2>3, ExitsTruly
    <3> QED
      BY <1>2, <3>1, <3>2
  <2>4. CASE ~ui.crashed /\ ~Held1.started
    <3>1. ~LastStarted.started
      BY <1>1, <2>1, <2>4 DEF Reported, OwnDeploy
    <3>2. \A status : status # "ok" => Truth(status)
      BY <1>1, <3>1, QuietlyTruly
    <3>3. \A c : Deploys(c) => Leaves("failed", c) \/ Streams(c)
      BY DEF Deploys, Streams
    <3>4. \/ Exits("nothing") \/ Exits("handoff") \/ Exits("failed")
          \/ Leaves("saved", Saved) \/ \E c : Deploys(c)
      BY <1>5, <2>4, Zenon DEF HubEnds, ReviewedEnds, VerbEnds
    <3> QED
      BY <1>2, <3>2, <3>3, <3>4
  <2> QED
    BY <2>2, <2>3, <2>4
<1> QED
  BY <1>3, <1>4, <1>5 DEF CliEnds

\* A process that has ended does nothing more.
LEMMA Over ==
    ASSUME HandedOver, ui.phase = "exited"
    PROVE  ~WizardNext
<1>0. ~Running /\ msgs = {}
  BY DEF HandedOver, AllClosed, Running
<1>1. ~Keys
  BY <1>0 DEF Keys, HubKeys, ConfirmVerb, FinishExit, FinishManage, EditField, SubmitForm, ReviewJump,
              ReviewConfirm, ManageKeys, PressEnter, PressRefresh, ReachBottom, PressExecute,
              PressBackToParams, PressExit, TypeName, PreviewKeys, Press, PressCtrlC, AnswerDiscard,
              PressEsc
<1>2. ~ManageWork /\ ~Deliver /\ ~OpenFlow
  BY <1>0 DEF ManageWork, ListNodes, DryRun, Deliver, OpenFlow, Opening
<1>3. ~EngineNext
  BY DEF EngineNext, Work, Confirm, StopsBetween, StepSkipped, StepStarted, StepFinished,
         SendFinal, EngineAt, Working
<1>4. ~FeedNext
  BY DEF FeedNext, Listen, ListenGivesUp, ApplyEvent, ApplyFinal, SettleEnds, OnExec
<1>5. ~NotStarted /\ ~CliEnds /\ ~QuitArrives /\ ~RendererFails /\ ~Drift
  BY <1>0 DEF NotStarted, CliEnds, WorkersDone, QuitArrives, RendererFails, Drift
<1> QED
  BY <1>1, <1>2, <1>3, <1>4, <1>5 DEF WizardNext, Works

\* Nothing but the CLI ends a program that runs.
LEMMA PhaseKept ==
    ASSUME ui \in Ui
    PROVE  /\ \A step : At1(step).phase = ui.phase
           /\ \A step : [At1(step) EXCEPT !.toReview = TRUE].phase = ui.phase
           /\ [At1("review") EXCEPT !.toReview = FALSE].phase = ui.phase
           /\ Concluded.phase = ui.phase
           /\ \A n : Swapped(n).phase = ui.phase
           /\ Restored.phase = ui.phase
<1>1. ASSUME NEW step
      PROVE  /\ At1(step).phase = ui.phase
             /\ [At1(step) EXCEPT !.toReview = TRUE].phase = ui.phase
             /\ [At1(step) EXCEPT !.toReview = FALSE].phase = ui.phase
  <2> DEFINE b == ui.opening /\ step # "welcome"
             u == [ui EXCEPT !.step = step, !.choice = "exit", !.opening = b]
  <2>1. At1(step) = u
    BY DEF At1
  <2> HIDE DEF b
  <2>2. u.phase = ui.phase /\ DOMAIN u = DOMAIN ui /\ "phase" \in DOMAIN ui
    BY DEF Ui
  <2> HIDE DEF u
  <2>3. /\ [u EXCEPT !.toReview = TRUE].phase = ui.phase
        /\ [u EXCEPT !.toReview = FALSE].phase = ui.phase
    BY <2>2
  <2> QED
    BY <2>1, <2>2, <2>3
<1>2. Concluded.phase = ui.phase
  <2> DEFINE a == IF ui.step = "review" THEN ui.choice
                  ELSE IF ui.step = "welcome" /\ ui.verb = "deploy" THEN "deploy" ELSE "exit"
             p == ui.step
             u == [ui EXCEPT !.quit = TRUE, !.outcome = "completed", !.exitStep = p, !.action = a]
  <2>1. Concluded = u
    BY DEF Concluded
  <2> HIDE DEF a, p
  <2>2. u.phase = ui.phase
    BY DEF Ui
  <2> QED
    BY <2>1, <2>2
<1>3. ASSUME NEW n PROVE Swapped(n).phase = ui.phase
  <2> DEFINE place == [flow |-> ui.flow, step |-> ui.step]
             u == [ui EXCEPT !.flow = "manage", !.step = "op", !.toReview = FALSE, !.live = n,
                             !.interrupted = FALSE, !.suspended = place]
  <2>1. Swapped(n) = u
    BY Zenon DEF Swapped
  <2> HIDE DEF place
  <2>2. u.phase = ui.phase
    BY DEF Ui
  <2> QED
    BY <2>1, <2>2
<1>4. Restored.phase = ui.phase
  <2> DEFINE f == ui.suspended.flow
             p == ui.suspended.step
             u == [ui EXCEPT !.flow = f, !.step = p, !.live = 0,
                             !.toReview = FALSE, !.suspended = NoPlace, !.opening = FALSE]
  <2>1. Restored = u
    BY Zenon DEF Restored
  <2> HIDE DEF f, p
  <2>2. u.phase = ui.phase
    BY DEF Ui
  <2> QED
    BY <2>1, <2>2
<1> QED
  BY <1>1, <1>2, <1>3, <1>4

LEMMA MoveRuns ==
    ASSUME ui \in Ui, NEW rest,
           \/ \E s : GoToNextStep(s, rest)
           \/ GoToPreviousStep(rest)
           \/ \E step : JumpToStep(step, rest)
           \/ \E n : SwapFlow(n, rest)
           \/ RestoreFlow
    PROVE  ui'.phase = ui.phase
<1> DEFINE review == [At1("review") EXCEPT !.toReview = FALSE]
<1>0. ASSUME NEW target, NEW s, NEW r, Arrive(target, s, r) PROVE ui' = target
  BY <1>0 DEF Arrive
<1>6. /\ review.phase = ui.phase /\ Concluded.phase = ui.phase
      /\ \A step : At1(step).phase = ui.phase
  BY PhaseKept, Zenon
<1> HIDE DEF review
<1>1. ASSUME NEW s, GoToNextStep(s, rest) PROVE ui'.phase = ui.phase
  <2>1. ui' = Concluded \/ ui' = review \/ \E step : ui' = At1(step)
    BY <1>0, <1>1, Zenon DEF GoToNextStep, review
  <2> QED
    BY <1>6, <2>1
<1>2. CASE GoToPreviousStep(rest)
  <2>1. ui' = ui \/ ui' = review \/ \E step : ui' = At1(step)
    BY <1>0, <1>2, Zenon DEF GoToPreviousStep, StayPut, review
  <2> QED
    BY <1>6, <2>1
<1>3. ASSUME NEW step, JumpToStep(step, rest) PROVE ui'.phase = ui.phase
  <2>1. ui' = [At1(step) EXCEPT !.toReview = TRUE]
    BY <1>0, <1>3, Zenon DEF JumpToStep
  <2> QED
    BY <2>1, PhaseKept
<1>4. ASSUME NEW n, SwapFlow(n, rest) PROVE ui'.phase = ui.phase
  <2>1. ui' = ui \/ ui' = Swapped(n)
    BY <1>0, <1>4, Zenon DEF SwapFlow, StayPut, Swapped
  <2> QED
    BY <2>1, PhaseKept
<1>5. CASE RestoreFlow
  <2>1. ui' = Restored
    BY <1>0, <1>5, Zenon DEF RestoreFlow, Restored
  <2> QED
    BY <2>1, PhaseKept
<1> QED
  BY <1>1, <1>2, <1>3, <1>4, <1>5

LEMMA OnlyCliEnds ==
    ASSUME Well, WizardNext, ui.phase # "exited", ~CliEnds
    PROVE  ui'.phase # "exited"
<1>0. ui \in Ui
  BY DEF Well, WizardTypeOK
<1>1. CASE HubKeys
  <2>1. ASSUME NEW v, ConfirmVerb(v) PROVE ui'.phase = ui.phase
    <3> DEFINE b == v = "manage"
    <3>1. ui' = [ui EXCEPT !.verb = v, !.opening = b]
      BY <2>1 DEF ConfirmVerb
    <3> HIDE DEF b
    <3> QED
      BY <1>0, <3>1 DEF Ui
  <2>2. CASE ReviewConfirm
    BY <1>0, <2>2 DEF ReviewConfirm, Ui
  <2>3. CASE FinishExit \/ FinishManage \/ EditField \/ SubmitForm \/ ReviewJump
    BY <2>3 DEF FinishExit, FinishManage, EditField, SubmitForm, ReviewJump, Returns
  <2> QED
    BY <1>1, <2>1, <2>2, <2>3 DEF HubKeys
<1>2. CASE ManageKeys
  BY <1>2 DEF ManageKeys, PressEnter, PressRefresh, ReachBottom, PressExecute, PressBackToParams,
              PressExit, TypeName, Returns
<1>3. CASE PressCtrlC \/ AnswerDiscard
  BY <1>0, <1>3 DEF PressCtrlC, AnswerDiscard, Quitting, Ui
<1>4. CASE PressEsc
  BY <1>0, <1>4, MoveRuns DEF PressEsc
<1>5. CASE Deliver
  <2>1. ASSUME NEW m \in msgs, Received(m) PROVE ui'.phase = ui.phase
    <3>1. CASE \/ StayPut(msgs \ {m})
               \/ ui' = [ui EXCEPT !.opening = FALSE]
      BY <1>0, <3>1 DEF StayPut, Ui
    <3>2. CASE \/ \E s : GoToNextStep(s, msgs \ {m})
               \/ GoToPreviousStep(msgs \ {m})
               \/ \E step : JumpToStep(step, msgs \ {m})
               \/ \E n : SwapFlow(n, msgs \ {m})
      BY <1>0, <3>2, MoveRuns
    <3> QED
      BY <2>1, <3>1, <3>2, Zenon DEF Received
  <2> QED
    BY <1>5, <2>1 DEF Deliver, NodesLoaded, DryRunDone, Taken
<1>6. CASE ManageWork \/ OpenFlow \/ EngineNext \/ NotStarted \/ Drift
  BY <1>6 DEF ManageWork, ListNodes, DryRun, Becomes, OpenFlow, EngineNext, NotStarted, Drift
<1>7. CASE FeedNext
  BY <1>0, <1>7 DEF FeedNext, Listen, ListenGivesUp, ApplyEvent, ApplyFinal, SettleEnds, Ui
<1>8. ASSUME NEW last \in Ui, Shutdown(last) PROVE ui'.phase = "closing"
  BY <1>8, ShutsDown
<1>9. CASE QuitArrives
  BY <1>0, <1>8, <1>9 DEF QuitArrives
<1>10. CASE RendererFails
  <2> DEFINE u == [ui EXCEPT !.crashed = TRUE, !.outcome = "unset", !.exitStep = None]
  <2>1. u \in Ui
    BY <1>0 DEF Ui
  <2>2. Shutdown(u)
    BY <1>10 DEF RendererFails
  <2> HIDE DEF u
  <2> QED
    BY <1>8, <2>1, <2>2
<1> QED
  BY <1>1, <1>2, <1>3, <1>4, <1>5, <1>6, <1>7, <1>9, <1>10 DEF WizardNext, Keys, Works

LEMMA TrulyStep ==
    ASSUME Well, HandedOver, Reported, SaysTruly, [WizardNext]_vars
    PROVE  SaysTruly'
<1>1. CASE UNCHANGED vars
  BY <1>1 DEF vars, operation, SaysTruly, CrashedHub, Truth, LastStarted, Dropped, Superseded
<1>2. CASE WizardNext /\ ~CliEnds
  BY <1>2, Over, OnlyCliEnds DEF SaysTruly
<1>3. CASE CliEnds
  <2>0. ui.phase = "closing" /\ session' \in [Session -> SessionState]
    <3>1. Well'
      BY <1>3, WellStep DEF WizardNext, Works
    <3> QED
      BY <1>3, <3>1 DEF CliEnds, WorkersDone, Well, WizardTypeOK
  <2>1. ASSUME NEW status, NEW c, Leaves(status, c), CrashedHub \/ Dropped \/ Truth(status)
        PROVE  SaysTruly'
    <3>1. /\ SameEngine(eng') /\ ui'.exit = status /\ ui'.crashed = ui.crashed
          /\ Gone /\ SameExes /\ UNCHANGED <<program, dep>>
      BY <2>1, LeavesEngine, GoneExes
    <3>2. LastStarted' = LastStarted
      BY <2>0, <3>1 DEF LastStarted, SameEngine, SameExes, Reported, OwnSession
    <3>3. Dropped => Dropped'
      <4>1. \A k \in Session : session[k].life # None => session'[k].life # None
        BY <3>1, ClosedTyped DEF Gone, Well, WizardTypeOK, None
      <4> QED
        BY <3>1, <4>1 DEF Dropped, Superseded, SameEngine
    <3> QED
      BY <2>1, <3>1, <3>2, <3>3 DEF SaysTruly, CrashedHub, Truth
  <2>2. ASSUME NEW c, Streams(c) PROVE SaysTruly'
    BY <2>2 DEF Streams, Opened, SaysTruly
  <2> QED
    BY <1>3, <2>1, <2>2, EndsTruly
<1> QED
  BY <1>1, <1>2, <1>3

\* TruthfulOutcome: what the process reports when it ends is what happened to the
\* last operation it started, if no other session has superseded the operation's, and
\* a deploy nobody cancelled that has ended shows as failed the steps that failed, and
\* no other, and none as open when it ended well.
THEOREM OutcomesAreTrue ==
    WizardSpec => []TruthfulOutcome
<1> DEFINE Inv == Well /\ Agreed /\ HandedOver /\ Reported /\ Told /\ SaysTruly
<1>1. WizardInit => Inv
  <2>1. WizardInit => SaysTruly
    BY DEF WizardInit, SaysTruly, Opened
  <2> QED
    BY <2>1, WellInit, AgreedInit, HandedInit, ReportedInit, ToldInit
<1>2. Inv /\ [WizardNext]_vars => Inv'
  <2> SUFFICES ASSUME Inv, [WizardNext]_vars PROVE Inv'
    OBVIOUS
  <2>1. Reported'
    BY ReportedStep
  <2> QED
    BY <2>1, WellStep, AgreedStep, HandedStep, ToldStep, TrulyStep
<1>3. Inv => TruthfulOutcome
  <2> SUFFICES ASSUME Inv PROVE TruthfulOutcome
    OBVIOUS
  <2>1. ui.phase = "exited" /\ ~CrashedHub /\ ~Dropped => Truth(ui.exit)
    BY DEF SaysTruly
  <2>2. Deploying /\ dep.executed =>
          /\ \A g \in Gate : (rows[g] = "failed") <=> (g \in eng.failed)
          /\ eng.failed \subseteq Gate
          /\ dep.result = "ok" => \A g \in Gate : ~Open1(rows[g])
    <3> SUFFICES ASSUME Deploying, dep.executed
                 PROVE  /\ \A g \in Gate : (rows[g] = "failed") <=> (g \in eng.failed)
                        /\ eng.failed \subseteq Gate
                        /\ dep.result = "ok" => \A g \in Gate : ~Open1(rows[g])
      OBVIOUS
    <3>1. Going /\ Marked /\ Heard
      BY DEF Told
    <3>2. Len(feed) = 0
      BY <3>1, EmptySeq DEF Heard
    <3>3. \A g \in Gate : ~Awaited(g)
      BY <3>1, <3>2 DEF Heard, Awaited, Settles, SettlesIn, CurrentIn, DoneAfter
    <3> QED
      BY <3>1, <3>3 DEF Marked, Heard, Going
  <2>3. Deploying /\ dep.executed =>
          /\ {g \in Gate : rows[g] = "failed"} = eng.failed
          /\ dep.result = "ok" => \A g \in Gate : ~Open1(rows[g])
    BY <2>2
  <2> QED
    BY <2>1, <2>3 DEF TruthfulOutcome, Truth, CrashedHub, Dropped, Deploying
<1> HIDE DEF Inv
<1> QED
  BY <1>1, <1>2, <1>3, PTL DEF WizardSpec

=============================================================================
