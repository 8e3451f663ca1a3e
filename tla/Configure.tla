----------------------------- MODULE Configure -----------------------------
(***************************************************************************)
(* okdctl deploy as its operator meets it: the configuration is loaded, the *)
(* wizard's forms edit it, each key press in a form is synced into it, the *)
(* review saves it and, if asked, deploys it; --yes deploys the file.      *)
(***************************************************************************)
EXTENDS Credentials, ClusterPlan, ReleaseCatalog

CONSTANTS
    Projects,   \* what may be there at first: okdctl.yaml (<<>>, absent or unreadable, or <<c>>),
                \* the .env file and the variables of the operator's shell
    Entries,    \* what an operator may type: pairs of a field and a value
    Hosts,      \* what a discovery may find: sequences of Proxmox nodes
    Releases,   \* what GitHub may answer: sequences of pages of releases
    Minimal,    \* whether deploy was given --minimal, for the defaults of a small cluster
    MaxEdits, MaxSessions   \* changes an operator makes, and wizards that are opened, in a behaviour

\* A saved configuration has every field, counts are numbers, a range is a pair and lists are lists; a discovery
\* that found no node is a failed one.
Project(p) ==
    p.file # <<>> => \E c \in {p.file[1]} :
        /\ p.file = <<c>> /\ DOMAIN c = DOMAIN DefaultConfig
        /\ c.px \in BOOLEAN /\ c.masters \in Int /\ c.workers \in Int /\ c.machine \in Int \X Int
        /\ c.master \in Seq(STRING) /\ c.worker \in Seq(STRING)

ASSUME ConfigureAssumption ==
    /\ MaxEdits \in Nat /\ MaxSessions \in Nat
    /\ \A p \in Projects : Project(p)
    /\ \A e \in Entries : /\ e[1] \in {"masters", "workers"} => e[2] \in Int
                          /\ e[1] = "machine" => e[2] \in Int \X Int
    /\ \A names \in Hosts : names \in Seq(STRING \ {""}) /\ names # <<>>

VARIABLES
    file,      \* okdctl.yaml, <<>> or <<c>>
    login,     \* the .env file, the shell, what this process read of them and used
    cfg,       \* the configuration in memory, <<>> before a command loads one
    screen,    \* the step on screen ("shell" outside the wizard) and whether review comes next
    forms,     \* what the fields show
    place,     \* the node placement step
    catalog,   \* the distribution step
    chosen,    \* history: the placement last loaded, or confirmed on its screen
    outcome,   \* how the last command ended
    budget     \* what is left of MaxEdits and MaxSessions

configureVars == <<file, login, cfg, screen, forms, place, catalog, chosen, outcome, budget>>

Steps == <<"welcome", "distribution", "proxmox", "basics", "node-placement", "networking",
           "resources", "addons", "files", "advanced", "review">>

-----------------------------------------------------------------------------
(* The forms of the data-driven steps. *)

ProxmoxFields == <<"host", "username", "password">>
BasicsFields == <<"name", "domain", "masters", "workers">>
NetworkingFields == <<"machine", "gateway", "dns", "pod", "service", "start", "iface", "bastion", "vip">>
ResourcesFields == <<"cp_cpu", "cp_mem", "cp_disk", "w_cpu", "w_mem", "w_disk", "w_data", "cp_data">>
AddonsFields == <<"flux", "repository", "secretstore", "ss_provider", "vault_server", "org_id", "project_id">>
FilesFields == <<"pull", "key", "web_root">>
AdvancedFields == <<"vmid", "cpu_type", "ntp", "bootstrap_timeout", "install_timeout", "env", "bin_dir">>

StepFields ==
    [proxmox |-> ProxmoxFields, basics |-> BasicsFields, networking |-> NetworkingFields,
     resources |-> ResourcesFields, addons |-> AddonsFields, files |-> FilesFields,
     advanced |-> AdvancedFields]

FormFields == UNION {ToSet(StepFields[s]) : s \in DOMAIN StepFields}

Bounds ==
    [workers |-> nodeCountBounds, cp_cpu |-> cpuBounds, cp_mem |-> memoryBounds, cp_disk |-> osDiskBounds,
     w_cpu |-> cpuBounds, w_mem |-> memoryBounds, w_disk |-> osDiskBounds, w_data |-> dataDiskBounds,
     cp_data |-> dataDiskBounds, vmid |-> vmidBounds, bootstrap_timeout |-> timeoutBounds,
     install_timeout |-> timeoutBounds]

\* What an integer field shows when it is no number.
NaN == -1000

\* The sections of the addons that are off, and of the other providers, are not shown.
IsVisible(fm, f) ==
    CASE f = "repository" -> fm.flux
      [] f = "ss_provider" -> fm.secretstore
      [] f = "vault_server" -> fm.secretstore /\ fm.ss_provider = "vault"
      [] f \in {"org_id", "project_id"} -> fm.secretstore /\ fm.ss_provider = "bitwarden"
      [] OTHER -> TRUE

\* A field's own check; the others are selections, or may hold anything.
Check(f, v) ==
    CASE f \in {"machine", "pod", "service"} -> IsValidCIDR(v)
      [] f \in {"gateway", "start", "bastion"} -> IsValidIP(v)
      [] f = "vip" -> v = 0 \/ IsValidIP(v)
      [] f = "host" -> ValidateProxmoxHost(v)
      [] f = "dns" -> v # {} /\ \A a \in v : IsValidIP(a)
      [] f \in DOMAIN Bounds -> v \in Bounds[f]
      [] f \in {"name", "domain"} -> Given(v) /\ WellFormed(v)
      [] f \in {"pull", "key"} -> Given(v) /\ v # "gone"
      [] f \in {"username", "password", "iface", "repository", "org_id", "project_id", "web_root"} -> Given(v)
      [] f \in {"ntp", "env", "bin_dir"} -> WellFormed(v)
      [] OTHER -> TRUE

\* What a step checks across its fields.
NetworkingValidate(fm) ==
    /\ \A r \in {<<"pod", "service">>, <<"pod", "machine">>, <<"service", "machine">>} :
          checkCIDROverlap(fm, r[1], r[2]) = {}
    /\ checkIPInCIDR(fm, "gateway") = {}

AddonsValidate(fm) == IsVisible(fm, "vault_server") => Given(fm.vault_server)

DefinitionValidate(fm, step) ==
    /\ step = "networking" => NetworkingValidate(fm)
    /\ step = "addons" => AddonsValidate(fm)

FormValid(fm, step) ==
    /\ \A f \in ToSet(StepFields[step]) : IsVisible(fm, f) => Check(f, fm[f])
    /\ DefinitionValidate(fm, step)

DefinitionApply(c, step) ==
    CASE step = "proxmox" -> [c EXCEPT !.px = TRUE, !.provider = "proxmox"]
      [] step = "networking" -> DeriveStaticNetmask([c EXCEPT !.static_dns = c.bastion])
      [] step = "files" -> [c EXCEPT !.ignition = c.bastion]
      [] OTHER -> c

\* The visible fields are written in order, up to the first that is no number, where it stops.
FormApply(c, fm, step) ==
    LET Field(i) == StepFields[step][i]
        shown == {i \in DOMAIN StepFields[step] : IsVisible(fm, Field(i))}
        noNumbers == {i \in shown : Field(i) \in DOMAIN Bounds /\ fm[Field(i)] = NaN}
        written == {Field(i) : i \in {j \in shown : \A k \in noNumbers : j < k}}
        result == [f \in DOMAIN c |-> IF f \in written THEN fm[f] ELSE c[f]]
    IN  IF noNumbers # {} THEN result ELSE DefinitionApply(result, step)

\* The password is never shown; a blank of the defaults leaves a field's own default.
LoadFromConfig(c, exists) ==
    [f \in FormFields |->
        IF f = "password" THEN "" ELSE IF f = "username" /\ ~exists THEN "root@pam" ELSE c[f]]

-----------------------------------------------------------------------------
(* Node placement: a discovery, then dropdowns for the bootstrap and every VM. *)

NewPlacement ==
    [phase |-> "discovering", err |-> FALSE, fetch |-> FALSE, options |-> <<>>, boot |-> "",
     master |-> <<>>, worker |-> <<>>, shown |-> {}, pools |-> FALSE]

startDiscovery == [place EXCEPT !.phase = "discovering", !.err = FALSE, !.fetch = TRUE]

\* A discovery that succeeded is reused; one that failed, or was left, is begun again.
PlacementInit ==
    IF place.phase = "placing" /\ ~place.err THEN place
    ELSE IF ~cfg'.px THEN [place EXCEPT !.phase = "placing", !.err = TRUE]
    ELSE startDiscovery

\* A dropdown shows what is assigned if the discovery found it, else the first node.
nodeSelectFields(c, role, names) ==
    [i \in 1..CountOf(c, role) |->
        IF i <= Len(c[role]) /\ c[role][i] \in ToSet(names) THEN c[role][i] ELSE names[1]]

\* A role without VMs has no dropdowns, and those of an earlier form are kept.
buildInnerStep(names, found) ==
    LET Fields(role) == IF CountOf(cfg, role) > 0 THEN nodeSelectFields(cfg, role, names) ELSE place[role]
    IN  [place EXCEPT !.options = names, !.boot = OrText(cfg.node, names[1]), !.master = Fields("master"),
            !.worker = Fields("worker"), !.shown = {r \in Roles : CountOf(cfg, r) > 0},
            !.pools = @ \/ found]

\* What the dropdowns hold is written, of a role that is no longer shown too.
PlacementApply(c) ==
    LET Pool(p, default) == IF place.pools /\ ~Given(p) THEN default ELSE p
        List(role) == IF place[role] # <<>> THEN place[role] ELSE c[role]
    IN  IF place.options = <<>> \/ ~c.px THEN c
        ELSE [c EXCEPT !.node = place.boot, !.master = List("master"), !.worker = List("worker"),
                !.storage = Pool(@, "local-lvm"), !.data_storage = Pool(@, "local-lvm"),
                !.iso_storage = Pool(@, "local"), !.bridge = Pool(@, "vmbr0")]

-----------------------------------------------------------------------------
(* Distribution: the releases, a row to a series and, in the one that is    *)
(* expanded, a row to each version.                                        *)

Minor(m) == [minor |-> m, ver |-> ""]
Patch(v) == [minor |-> <<>>, ver |-> v]

NewCatalog(current, cached) ==
    [phase |-> "loading", fetch |-> FALSE, series |-> <<>>, expanded |-> <<>>, cursor |-> 1,
     selected |-> Patch(current), current |-> current, cached |-> cached]

startFetch == [catalog EXCEPT !.phase = "loading", !.fetch = TRUE]

\* A catalog that was loaded is reused.
DistributionInit == IF catalog.phase = "select" THEN catalog ELSE startFetch

\* A configured version the catalog does not offer leads the list.
injectsCurrentVersion(k) == Given(k.current) /\ k.series # <<>> /\ k.current \notin Offered(k.series)

Rows(k) ==
    LET Versions(s) == [i \in DOMAIN s.versions |-> Patch(s.versions[i].tag)]
        Block(s) == <<Minor(s.minor)>> \o IF s.minor = k.expanded THEN Versions(s) ELSE <<>>
    IN  (IF injectsCurrentVersion(k) THEN <<Patch(k.current)>> ELSE <<>>)
        \o FlattenSeq([n \in DOMAIN k.series |-> Block(k.series[n])])

\* The cursor goes to what is selected if there is a row of it, and else stays in its place.
updateVersionSelector(k) ==
    LET rows == Rows(k)
        selected == IF k.series = <<>> THEN Patch("")
                    ELSE IF k.selected = Patch("") THEN Minor(k.series[1].minor) ELSE k.selected
    IN  [k EXCEPT !.selected = selected,
            !.cursor = IF selected \in ToSet(rows) THEN CHOOSE i \in DOMAIN rows : rows[i] = selected
                       ELSE IF @ > Len(rows) THEN Len(rows) ELSE @]

HoldsVersion(s, version) == \E i \in DOMAIN s.versions : s.versions[i].tag = version

\* The series of the configured version is shown expanded.
anchorConfiguredVersion(k) ==
    IF \E s \in ToSet(k.series) : HoldsVersion(s, k.current)
    THEN updateVersionSelector([k EXCEPT !.expanded =
            (CHOOSE s \in ToSet(k.series) : HoldsVersion(s, k.current)).minor])
    ELSE k

\* A row stands for its version, that of a series for its latest one.
VersionAt(k, row) ==
    IF row.minor = <<>> THEN row.ver
    ELSE (CHOOSE s \in ToSet(k.series) : s.minor = row.minor).latest

DistributionApply(c, version) == [c EXCEPT !.dist = "okd", !.version = version]

-----------------------------------------------------------------------------
(* Moving between the steps. *)

ShouldShow(step, c) ==
    CASE step = "node-placement" -> c.provider = "proxmox"
      [] step = "files" -> c.dist = "okd"
      [] OTHER -> TRUE

OnStep(step) == screen.at = step
InForm == screen.at \in DOMAIN StepFields

\* Every arrival calls the step's Init; what the step left was fetching is not delivered.
focusStep(step, toReview, k) ==
    /\ screen' = [screen EXCEPT !.at = step, !.toReview = toReview]
    /\ place' = IF step = "node-placement" THEN PlacementInit ELSE [place EXCEPT !.fetch = FALSE]
    /\ catalog' = IF step = "distribution" THEN DistributionInit ELSE [k EXCEPT !.fetch = FALSE]

Position == CHOOSE i \in DOMAIN Steps : OnStep(Steps[i])

\* Forward, to the review a jump came from or to the next step that shows.
goToNextStep(k) ==
    IF screen.toReview THEN focusStep("review", FALSE, k)
    ELSE \E i \in DOMAIN Steps :
            /\ i > Position /\ ShouldShow(Steps[i], cfg')
            /\ \A j \in Position + 1..i - 1 : ~ShouldShow(Steps[j], cfg')
            /\ focusStep(Steps[i], FALSE, k)

goToPreviousStep ==
    IF screen.toReview THEN focusStep("review", FALSE, catalog)
    ELSE \E i \in DOMAIN Steps :
            /\ i < Position /\ ShouldShow(Steps[i], cfg)
            /\ \A j \in i + 1..Position - 1 : ~ShouldShow(Steps[j], cfg)
            /\ focusStep(Steps[i], FALSE, catalog)

-----------------------------------------------------------------------------
(* The command, and its verbs. *)

AtRest == place = NewPlacement /\ catalog = NewCatalog("", <<>>) /\ forms = <<>>
           /\ screen = [at |-> "shell", toReview |-> FALSE, exists |-> FALSE]

ConfigureInit ==
    /\ \E p \in Projects :
          /\ file = p.file
          /\ login = [envfile |-> p.envfile, shell |-> p.shell, environ |-> NoLogin, loaded |-> "no",
                      used |-> NoLogin, typed |-> <<>>]
    /\ cfg = <<>> /\ AtRest
    /\ chosen = [r \in Roles |-> <<>>] /\ outcome = "none"
    /\ budget = [edits |-> MaxEdits, sessions |-> MaxSessions]

Spend == budget.edits > 0 /\ budget' = [budget EXCEPT !.edits = @ - 1]

PlacedIn(c) == [r \in Roles |-> c[r]]

\* Without a file that loads the wizard starts from the defaults.
loadDeployConfig ==
    IF file # <<>> THEN LoadFile(file[1]) ELSE IF Minimal THEN MinimalConfig ELSE DefaultConfig

RunWizard ==
    /\ OnStep("shell") /\ budget.sessions > 0 /\ budget' = [budget EXCEPT !.sessions = @ - 1]
    /\ cfg' = loadDeployConfig /\ chosen' = PlacedIn(cfg') /\ forms' = LoadFromConfig(cfg', file # <<>>)
    /\ catalog' = NewCatalog(IF file # <<>> THEN cfg'.version ELSE "", catalog.cached)
    /\ screen' = [at |-> "welcome", toReview |-> FALSE, exists |-> file # <<>>]
    /\ place' = NewPlacement /\ outcome' = "none" /\ UNCHANGED file
    /\ login' = [NewProcess(login) EXCEPT !.used = NoLogin, !.typed = <<>>]

\* The gate, the credentials, and what setup and Terraform refuse before a machine is made.
\* The process ends with it.
runFullDeployment(c, p) ==
    LET q == LoadEnvFile(p)
        Ends(how) == outcome' = how /\ login' = EndProcess(p)
    IN  IF ~Admitted(c) THEN Ends("rejected")
        ELSE IF q.loaded = "failed" THEN Ends("failed")
        ELSE \E shared \in BOOLEAN : \E active \in SUBSET placementNodes(c) :
                IF /\ ValidateISOPlacement(c, shared, active) /\ CanListNodes(c)
                   /\ ModuleAccepts(buildTerraformVarsData(c))
                THEN /\ outcome' = "deployed"
                     /\ login' = EndProcess([q EXCEPT !.used = GetProxmoxCredentials(c, q.environ)])
                ELSE Ends("failed")

LeaveWizard ==
    /\ screen' = [at |-> "shell", toReview |-> FALSE, exists |-> FALSE]
    /\ forms' = <<>> /\ place' = NewPlacement /\ catalog' = NewCatalog("", catalog.cached)

\* deploy --yes: the file, which has to be there.
DeployYes ==
    /\ OnStep("shell") /\ file # <<>>
    /\ cfg' = loadDeployConfig /\ chosen' = PlacedIn(cfg')
    /\ runFullDeployment(cfg', [NewProcess(login) EXCEPT !.used = NoLogin, !.typed = <<>>])
    /\ UNCHANGED <<file, screen, forms, place, catalog, budget>>

\* The hub offers to deploy what was loaded, or to edit it.
HubVerbDeploy ==
    /\ OnStep("welcome") /\ screen.exists /\ runFullDeployment(cfg, login) /\ LeaveWizard
    /\ UNCHANGED <<file, cfg, chosen, budget>>

\* Managing nodes from the hub reads the .env file, and comes back to the hub.
HubVerbManage ==
    /\ OnStep("welcome") /\ screen.exists /\ login.loaded = "no" /\ Spend /\ login' = LoadEnvFile(login)
    /\ UNCHANGED <<file, cfg, screen, forms, place, catalog, chosen, outcome>>

HubVerbEdit ==
    /\ OnStep("welcome") /\ UNCHANGED <<file, login, cfg, forms, chosen, outcome, budget>>
    /\ goToNextStep(catalog)

CtrlC ==
    /\ ~OnStep("shell") /\ outcome' = "cancelled" /\ LeaveWizard
    /\ cfg' = <<>> /\ chosen' = [r \in Roles |-> <<>>] /\ login' = EndProcess(login)
    /\ UNCHANGED <<file, budget>>

\* The .env file is written before the configuration, either may fail, and what the review
\* was told to do then is not done.
persistWizardConfig(p) ==
    /\ NothingTyped(cfg) => p = login
    /\ ~NothingTyped(cfg) =>
          /\ CanWriteEnvFile(login, TypedLogin(cfg, login))
          /\ p = WriteEnvFile(login, TypedLogin(cfg, login))

SaveFails ==
    /\ OnStep("review") /\ outcome' = "failed" /\ LeaveWizard /\ cfg' = Saved(cfg)
    /\ \/ ~NothingTyped(cfg) /\ login' = EndProcess(login)
       \/ \E p \in {login, WriteEnvFile(login, TypedLogin(cfg, login))} :
             persistWizardConfig(p) /\ login' = EndProcess(p)
    /\ UNCHANGED <<file, chosen, budget>>

\* What was typed is what this process signs in with, unless it read others before.  A password
\* without a user signs nobody in: the deploy warns that it has no credentials and goes on.
Promise(p) ==
    [p EXCEPT !.typed = IF NothingTyped(cfg) \/ ~Given(cfg.username) \/ p.loaded # "no" \/ p.shell # NoLogin
                        THEN <<>>
                        ELSE <<[NoLogin EXCEPT !.endpoint = cfg.host, !.username = cfg.username,
                                               !.password = cfg.password]>>]

\* Saved whatever the warnings; the deploy then runs the configuration in memory.
ReviewDone(deploy) ==
    /\ OnStep("review") /\ cfg' = Saved(cfg) /\ file' = <<Saved(cfg)>> /\ LeaveWizard
    /\ \E p \in {login, WriteEnvFile(login, TypedLogin(cfg, login))} :
          /\ persistWizardConfig(p)
          /\ IF deploy THEN runFullDeployment(cfg', Promise(p))
             ELSE outcome' = "saved" /\ login' = EndProcess(p)
    /\ UNCHANGED <<chosen, budget>>

-----------------------------------------------------------------------------
(* Keys in the forms. *)

\* The credentials have to be typed in every session and are no change of the configuration.
Counted(f) == IF f \in {"username", "password"} THEN UNCHANGED budget ELSE Spend

\* A key press is synced, unless the visit ends before its message is handled.
Synced == cfg' \in {cfg, FormApply(cfg, forms', screen.at)}

Type(f, v) ==
    /\ InForm /\ f \in ToSet(StepFields[screen.at]) /\ IsVisible(forms, f) /\ forms[f] # v
    /\ Counted(f) /\ forms' = [forms EXCEPT ![f] = v] /\ Synced
    /\ UNCHANGED <<file, login, screen, place, catalog, chosen, outcome>>

\* Any other key of a form, an arrow for one, is synced as well.
Nudge ==
    /\ InForm /\ UNCHANGED forms /\ cfg' = FormApply(cfg, forms, screen.at)
    /\ UNCHANGED <<file, login, screen, place, catalog, chosen, outcome, budget>>

EnterForm ==
    /\ InForm /\ FormValid(forms, screen.at) /\ cfg' = FormApply(cfg, forms, screen.at)
    /\ goToNextStep(catalog)
    /\ UNCHANGED <<file, login, forms, chosen, outcome, budget>>

\* Back, from any step; nothing is applied.
Back ==
    /\ screen.at \notin {"shell", "welcome"} /\ UNCHANGED <<file, login, cfg, forms, chosen, outcome, budget>>
    /\ goToPreviousStep

\* The sections of the review that are shown can be jumped to.
sectionVisible(step) ==
    CASE step = "proxmox" -> cfg.px
      [] step = "node-placement" -> cfg.px /\ (cfg.master # <<>> \/ cfg.worker # <<>>)
      [] step = "addons" -> cfg.flux \/ cfg.secretstore
      [] step = "advanced" -> \/ cfg.vmid > 0 \/ cfg.bootstrap_timeout > 0
                              \/ \E f \in {"env", "ntp", "bin_dir"} : Given(cfg[f])
                              \/ cfg.cpu_type \notin {"", "host"}
      [] OTHER -> TRUE

jumpToStep(step) ==
    /\ OnStep("review") /\ ShouldShow(step, cfg) /\ sectionVisible(step) /\ UNCHANGED cfg
    /\ focusStep(step, TRUE, catalog) /\ UNCHANGED <<file, login, forms, chosen, outcome, budget>>

-----------------------------------------------------------------------------
(* The placement step. *)

\* Without the host and the credentials nothing is asked; an inventory that lacks what
\* the configuration names is shown with the error.
discoverProxmox ==
    \/ /\ place' = [buildInnerStep(<<OrText(cfg.node, "pve")>>, FALSE) EXCEPT
                       !.phase = "placing", !.err = TRUE, !.fetch = FALSE]
    \/ /\ cfg.host # 0 /\ Given(cfg.username) /\ Given(cfg.password)
       /\ \E names \in Hosts : \E lacking \in SUBSET ToSet(names) :
            place' = [buildInnerStep(names, TRUE) EXCEPT !.phase = "placing", !.fetch = FALSE,
                       !.err = validatePlacementInventory(cfg, lacking) # {}]

discoveryComplete ==
    /\ OnStep("node-placement") /\ place.fetch /\ discoverProxmox
    /\ UNCHANGED <<file, login, cfg, screen, forms, catalog, chosen, outcome, budget>>

Placing == OnStep("node-placement") /\ place.phase = "placing" /\ place.options # <<>>

Refresh ==
    /\ Placing /\ place' = startDiscovery
    /\ UNCHANGED <<file, login, cfg, screen, forms, catalog, chosen, outcome, budget>>

\* A dropdown is turned; the step does not sync its keys.
Select ==
    /\ Placing /\ Spend
    /\ \E h \in ToSet(place.options) :
         \/ place.boot # h /\ place' = [place EXCEPT !.boot = h]
         \/ \E r \in place.shown : \E i \in DOMAIN place[r] :
               place[r][i] # h /\ place' = [place EXCEPT ![r][i] = h]
    /\ UNCHANGED <<file, login, cfg, screen, forms, catalog, chosen, outcome>>

\* Confirmed: what is shown is what the operator chose.
EnterPlacement ==
    /\ Placing /\ cfg' = PlacementApply(cfg) /\ goToNextStep(catalog)
    /\ chosen' = [r \in Roles |-> IF r \in place.shown THEN place[r] ELSE <<>>]
    /\ UNCHANGED <<file, login, forms, outcome, budget>>

-----------------------------------------------------------------------------
(* The distribution step. *)

\* A list of the last hour is reused; without one, or when it cannot be read, GitHub is asked,
\* and its answer kept.
Answers == {fetchFromNetwork(pages) : pages \in Releases}
FetchVersions == (IF catalog.cached # <<>> THEN {catalog.cached} ELSE {}) \cup Answers

versionsLoaded ==
    /\ OnStep("distribution") /\ catalog.fetch
    /\ \E answer \in FetchVersions :
          LET k == [catalog EXCEPT !.fetch = FALSE, !.series = answer]
          IN  catalog' = IF answer = <<>> THEN [k EXCEPT !.phase = "error"]
                         ELSE anchorConfiguredVersion(updateVersionSelector(
                                 [k EXCEPT !.phase = "select", !.cached = answer]))
    /\ UNCHANGED <<file, login, cfg, screen, forms, place, chosen, outcome, budget>>

Retry ==
    /\ OnStep("distribution") /\ catalog.phase \in {"error", "select"} /\ catalog' = startFetch
    /\ UNCHANGED <<file, login, cfg, screen, forms, place, chosen, outcome, budget>>

Choosing == OnStep("distribution") /\ catalog.phase = "select" /\ Rows(catalog) # <<>>
RowAt(k) == Rows(k)[k.cursor]

\* Moving through the list selects, and is synced.
handleNavigationKey ==
    /\ Choosing /\ Spend
    /\ \E i \in DOMAIN Rows(catalog) \ {catalog.cursor} :
         LET v == VersionAt(catalog, Rows(catalog)[i]) IN
         /\ catalog' = [catalog EXCEPT !.cursor = i, !.selected = Patch(v)]
         /\ cfg' \in {cfg, DistributionApply(cfg, v)}
    /\ UNCHANGED <<file, login, screen, forms, place, chosen, outcome>>

\* Tab opens the series of the row, and closes it again.
handleTabKey ==
    /\ Choosing /\ Spend
    /\ LET row == RowAt(catalog)
           minor == IF row.minor = <<>> THEN TagSeries[row.ver] ELSE row.minor
           opens == catalog.expanded # minor
           at == IF opens THEN row ELSE Minor(minor)
           k == updateVersionSelector([catalog EXCEPT !.expanded = IF opens THEN minor ELSE <<>>])
       IN  catalog' = [k EXCEPT !.cursor = IF at \in ToSet(Rows(k))
                                           THEN CHOOSE i \in DOMAIN Rows(k) : Rows(k)[i] = at ELSE @]
    /\ UNCHANGED <<file, login, cfg, screen, forms, place, chosen, outcome>>

handleEnterKey ==
    /\ Choosing
    /\ LET v == VersionAt(catalog, RowAt(catalog)) IN
          /\ cfg' = DistributionApply(cfg, v)
          /\ goToNextStep([catalog EXCEPT !.selected = Patch(v)])
    /\ UNCHANGED <<file, login, forms, chosen, outcome, budget>>

-----------------------------------------------------------------------------
Replies == discoveryComplete \/ versionsLoaded

Keys ==
    \/ HubVerbDeploy \/ HubVerbManage \/ HubVerbEdit \/ CtrlC \/ Back \/ Nudge \/ EnterForm
    \/ \E e \in Entries : Type(e[1], e[2])
    \/ \E deploy \in BOOLEAN : ReviewDone(deploy)
    \/ SaveFails
    \/ \E step \in DOMAIN StepFields \cup {"node-placement"} : jumpToStep(step)
    \/ Refresh \/ Select \/ EnterPlacement
    \/ Retry \/ handleNavigationKey \/ handleTabKey \/ handleEnterKey

ConfigureNext == RunWizard \/ DeployYes \/ Keys \/ Replies

\* Fetches answer within their timeouts; keys are the operator's.
ConfigureSpec == ConfigureInit /\ [][ConfigureNext]_configureVars /\ WF_configureVars(Replies)

-----------------------------------------------------------------------------
\* The steps, phases, dropdowns and what is left of the bounds.
ConfigureTypeOK ==
    /\ screen.at \in ToSet(Steps) \cup {"shell"} /\ screen.toReview \in BOOLEAN
    /\ outcome \in {"none", "cancelled", "saved", "rejected", "failed", "deployed"}
    /\ budget \in [edits : 0..MaxEdits, sessions : 0..MaxSessions]
    /\ place.phase \in {"discovering", "placing"} /\ catalog.phase \in {"loading", "select", "error"}
    /\ place.fetch => OnStep("node-placement") /\ place.phase = "discovering"
    /\ catalog.fetch => OnStep("distribution") /\ catalog.phase = "loading"
    /\ OnStep("node-placement") /\ place.phase = "placing" /\ place.options # <<>> =>
          \A r \in place.shown : place[r] # <<>>

\* What the operator chose for a VM, on the placement screen or in the file, is where a deploy
\* that is let through puts it: nothing chosen is dropped by a count that was lowered
\* afterwards.  A blank chooses no host.
PlacedAsChosen ==
    \A r \in Roles : \A i \in DOMAIN chosen[r] :
        /\ i <= CountOf(cfg, r)
        /\ Given(chosen[r][i]) => ProxmoxNode(cfg, r, i) = chosen[r][i]

\* The nodes ask one bastion for names and for their ignition files.
OneBastion ==
    cfg.bastion # 0 => ExtractNetworkConfig(cfg) = cfg.bastion /\ cfg.ignition \in {0, cfg.bastion}

\* A password that was typed for this deploy signs it in, at the host that was reviewed.
SignsInAsTyped == login.typed # <<>> => Env(login.used) = login.typed[1]

\* The machines have addresses of the machine range and VMs of their own, and the VM and the
\* host that okdctl works with for each are those the Terraform module gives it, where that
\* names a host at all: of a blank in the placement it makes a VM on no host, and okdctl takes
\* it for the default one.  A role whose disk size the configuration gives is not listed as
\* drifted from what was deployed.
PlanAgrees ==
    LET vars == buildTerraformVarsData(cfg)
        nodes == ToSet(ClusterNodes(cfg))
    IN  /\ \A n \in nodes :
              /\ IPInCIDR(n.ip, cfg.machine)
              /\ LET vm == ModuleVM(vars, n.role, n.index)
                 IN  /\ vm.id = VMID(cfg, n.role, n.index)
                     /\ Given(vm.node) => vm.node = ProxmoxNode(cfg, n.role, n.index)
        /\ \A n, m \in nodes :
              n # m => n.ip # m.ip /\ VMID(cfg, n.role, n.index) # VMID(cfg, m.role, m.index)
        /\ \A r \in Roles :
              CountOf(cfg, r) > 0 /\ cfg[IF r = "master" THEN "cp_disk" ELSE "w_disk"] # 0 =>
                 roleSizingDrift(cfg, r, ReadTerraformVarsSizing(vars)) = "none"

\* A deploy that passed the gate deploys what the screens showed, although each step writes
\* its part of the configuration when it is left and another step may change what it rests on.
DeploysAsReviewed ==
    outcome = "deployed" => PlacedAsChosen /\ OneBastion /\ SignsInAsTyped /\ PlanAgrees

\* A screen that shows nothing but that it waits.
Waiting ==
    \/ OnStep("node-placement") /\ place.phase = "discovering"
    \/ OnStep("distribution") /\ catalog.phase = "loading"

=============================================================================
