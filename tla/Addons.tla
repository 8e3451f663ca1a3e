------------------------------- MODULE Addons -------------------------------
(***************************************************************************)
(* The addon manager and the two addons of the registry, as okdctl addon   *)
(* install, uninstall and the post-install step drive them: per addon a    *)
(* namespace that okdctl or somebody else made, and what was applied in it.*)
(***************************************************************************)
EXTENDS Naturals, FiniteSets, SequencesExt, Relation

CONSTANT AddonFaults   \* failures, cancellations and kills of the commands

ASSUME AddonsAssumption == AddonFaults \in Nat

Registry == {"secretstore", "flux"}
Priority(a) == IF a = "secretstore" THEN 50 ELSE 80

\* What Install applies, in this order, and Verify asks for.
Pieces(a) == IF a = "secretstore" THEN <<"credentials", "token", "store">>
             ELSE <<"deploy-key", "operator", "instance">>
Required(a) == IF a = "secretstore" THEN {"credentials", "token"} ELSE {"operator", "instance"}

VARIABLES
    enabled, deps,   \* the configuration, and the dependencies of the registry
    credentialFiles,   \* credential files of the secret store on the host
    ns,              \* of each addon's namespace: who made it
    applied,         \* pieces in it
    job,             \* the command that runs
    attempts,        \* its installAttempts that may have to be undone, oldest first
    mishaps,         \* failures so far
    ended            \* how the last command ended

addonVars == <<enabled, deps, credentialFiles, ns, applied, job, attempts, mishaps, ended>>

\* began: the namespaces as the command found them; clean: every undoing worked.
NoJob == [verb |-> "none", todo |-> <<>>, failed |-> {}, at |-> "none", piece |-> 0,
          cancelled |-> FALSE, mishap |-> FALSE, clean |-> TRUE, began |-> <<>>]
NotEnded == [verb |-> "none", ok |-> FALSE, failed |-> {}]

Working == job.verb # "none"
Mishap == mishaps < AddonFaults /\ mishaps' = mishaps + 1

-----------------------------------------------------------------------------
(* The registry: dependencies and order *)

DependsOn(a, b) == TransitiveClosure([x, y \in Registry |-> y \in deps[x]], Registry)[a, b]
CollectWithDeps(a) == {a} \cup {b \in Registry : DependsOn(a, b)}

\* Kahn's algorithm with ties broken by priority, for the registry's two addons.
Resolvable(set) == \A a \in set : deps[a] \subseteq set
Before(a, b) == \/ a \in deps[b]
                \/ b \notin deps[a] /\ Priority(a) < Priority(b)
Resolve(set) ==
    CHOOSE order \in SetToSeqs(set) : \A i, j \in DOMAIN order : i < j => Before(order[i], order[j])

-----------------------------------------------------------------------------
(* Commands *)

Start(verb, todo) ==
    /\ job' = [NoJob EXCEPT !.verb = verb, !.todo = todo, !.at = "next", !.began = ns]
    /\ attempts' = <<>> /\ ended' = NotEnded
    /\ UNCHANGED <<enabled, deps, credentialFiles, ns, applied, mishaps>>

InstallAll ==
    /\ ~Working /\ enabled # {} /\ Resolvable(enabled)
    /\ Start("install-all", Resolve(enabled))

InstallOne(a) == ~Working /\ Start("install", Resolve(CollectWithDeps(a)))

\* An addon that an enabled one depends on, however far, stays.
UninstallCommand(a) ==
    /\ ~Working /\ \A b \in enabled : ~DependsOn(b, a)
    /\ job' = [NoJob EXCEPT !.verb = "uninstall", !.todo = <<a>>, !.at = "uninstall", !.began = ns]
    /\ attempts' = <<[name |-> a, mutated |-> TRUE, rollback |-> TRUE]>>
    /\ ended' = NotEnded
    /\ UNCHANGED <<enabled, deps, credentialFiles, ns, applied, mishaps>>

Finish(ok) ==
    /\ ended' = [verb |-> job.verb, ok |-> ok /\ job.failed = {}, failed |-> job.failed]
    /\ job' = NoJob /\ attempts' = <<>>

Current == Head(job.todo)

-----------------------------------------------------------------------------
(* installAndVerify *)

\* The next addon of the list: skipped when one it depends on failed.
NextAddon ==
    /\ job.at = "next" /\ job.todo # <<>> /\ ~job.cancelled
    /\ IF job.verb = "install-all" /\ deps[Current] \cap job.failed # {}
       THEN job' = [job EXCEPT !.todo = Tail(@), !.failed = @ \cup {Current}]
       ELSE job' = [job EXCEPT !.at = "inspect"]
    /\ UNCHANGED <<enabled, deps, credentialFiles, ns, applied, attempts, mishaps, ended>>

AllDone ==
    /\ job.at = "next" /\ job.todo = <<>>
    /\ Finish(TRUE)
    /\ UNCHANGED <<enabled, deps, credentialFiles, ns, applied, mishaps>>

AlwaysAllowed(a) == TRUE

\* PrepareRollback: allowed for a namespace that is absent, or labelled as okdctl's.
RollbackAllowed(a) == ns[a] # "foreign"

Inspect ==
    /\ job.at = "inspect" /\ ~job.cancelled
    /\ attempts' = Append(attempts, [name |-> Current, mutated |-> TRUE,
                                     rollback |-> RollbackAllowed(Current)])
    /\ job' = [job EXCEPT !.at = IF Current = "secretstore" /\ credentialFiles = {} THEN "verify" ELSE "ensure"]
    /\ UNCHANGED <<enabled, deps, credentialFiles, ns, applied, mishaps, ended>>

\* EnsureNamespace: created with the label when it is not there.  A question that
\* fails at the cluster counts as "not there", and the label is applied to what is.
EnsureNamespace ==
    /\ job.at = "ensure" /\ ~job.cancelled
    /\ \/ /\ ns' = [ns EXCEPT ![Current] = IF @ = "absent" THEN "owned" ELSE @]
          /\ mishaps' = mishaps
       \/ ns' = [ns EXCEPT ![Current] = "owned"] /\ Mishap
    /\ job' = [job EXCEPT !.at = "apply", !.piece = 1]
    /\ UNCHANGED <<enabled, deps, credentialFiles, applied, attempts, ended>>

\* A piece whose credential file is missing is left out.
Skipped(piece) == piece \in {"credentials", "token"} /\ piece \notin credentialFiles

Apply ==
    /\ job.at = "apply" /\ ~job.cancelled
    /\ LET piece == Pieces(Current)[job.piece] IN
       applied' = IF Skipped(piece) \/ ns[Current] = "absent" THEN applied
                  ELSE [applied EXCEPT ![Current] = @ \cup {piece}]
    /\ job' = IF job.piece < Len(Pieces(Current)) THEN [job EXCEPT !.piece = @ + 1]
              ELSE [job EXCEPT !.at = "verify", !.piece = 0]
    /\ UNCHANGED <<enabled, deps, credentialFiles, ns, attempts, mishaps, ended>>

Verified(a) == Required(a) \subseteq applied[a]

\* What a failed attempt leads to: InstallAll undoes the last, InstallOne all.
Failed ==
    /\ job' = [job EXCEPT !.at = "compensate", !.piece = 0, !.failed = @ \cup {Current}]
    /\ UNCHANGED <<enabled, deps, credentialFiles, ns, applied, ended>>

Verify ==
    /\ job.at = "verify" /\ ~job.cancelled
    /\ IF Verified(Current)
       THEN /\ job' = [job EXCEPT !.todo = Tail(@), !.at = "next"]
            /\ attempts' = IF job.verb = "install-all" THEN <<>> ELSE attempts
            /\ UNCHANGED <<enabled, deps, credentialFiles, ns, applied, ended>>
       ELSE Failed /\ attempts' = attempts
    /\ mishaps' = mishaps

\* A call fails, its effect perhaps done, or the context is cancelled before it.
CallFails ==
    /\ job.at \in {"inspect", "ensure", "apply", "verify"}
    /\ attempts' = IF job.at = "inspect"
                   THEN Append(attempts, [name |-> Current, mutated |-> FALSE, rollback |-> FALSE])
                   ELSE attempts
    /\ \/ job.cancelled /\ Failed /\ mishaps' = mishaps
       \/ /\ ~job.cancelled /\ Mishap
          /\ \E done \in BOOLEAN :
                /\ ns' = IF done /\ job.at = "ensure" /\ ns[Current] = "absent"
                         THEN [ns EXCEPT ![Current] = "owned"] ELSE ns
                /\ applied' = IF done /\ job.at = "apply" /\ ~Skipped(Pieces(Current)[job.piece])
                              THEN [applied EXCEPT ![Current] = @ \cup {Pieces(Current)[job.piece]}]
                              ELSE applied
          /\ job' = [job EXCEPT !.at = "compensate", !.piece = 0, !.failed = @ \cup {Current},
                                !.mishap = TRUE]
          /\ UNCHANGED <<enabled, deps, credentialFiles, ended>>

Cancel ==
    /\ Working /\ ~job.cancelled /\ Mishap
    /\ job' = [job EXCEPT !.cancelled = TRUE, !.mishap = TRUE]
    /\ UNCHANGED <<enabled, deps, credentialFiles, ns, applied, attempts, ended>>

StopAtOnce ==
    /\ job.at = "next" /\ job.todo # <<>> /\ job.cancelled
    /\ Finish(FALSE)
    /\ UNCHANGED <<enabled, deps, credentialFiles, ns, applied, mishaps>>

\* Cancelled between two addons: InstallAll just ends, InstallOne undoes its addons.
StopBetween ==
    /\ job.at = "next" /\ job.todo # <<>> /\ job.cancelled
    /\ IF job.verb = "install"
       THEN /\ job' = [job EXCEPT !.at = "compensate", !.failed = @ \cup {Current}]
            /\ UNCHANGED <<attempts, ended>>
       ELSE Finish(FALSE)
    /\ UNCHANGED <<enabled, deps, credentialFiles, ns, applied, mishaps>>

-----------------------------------------------------------------------------
(* compensate and Uninstall, under a context of their own *)

Undoable(attempt) == attempt.mutated /\ attempt.rollback

DropAttempt ==
    /\ job.at = "compensate" /\ attempts # <<>> /\ ~Undoable(Last(attempts))
    /\ attempts' = Front(attempts)
    /\ UNCHANGED <<enabled, deps, credentialFiles, ns, applied, job, mishaps, ended>>

Compensate ==
    /\ job.at = "compensate" /\ attempts # <<>> /\ Undoable(Last(attempts))
    /\ job' = [job EXCEPT !.at = "uninstall"]
    /\ UNCHANGED <<enabled, deps, credentialFiles, ns, applied, attempts, mishaps, ended>>

\* The secret store deletes its own objects, and its namespace when it is labelled;
\* flux its releases and its namespace.
NamespaceDeleted(a) == IF a = "secretstore" THEN ns[a] = "owned" ELSE TRUE

UninstallAddon ==
    /\ job.at = "uninstall"
    /\ LET a == Last(attempts).name IN
       /\ ns' = [ns EXCEPT ![a] = IF NamespaceDeleted(a) THEN "absent" ELSE @]
       /\ applied' = [applied EXCEPT ![a] = {}]
    /\ IF job.verb = "uninstall"
       THEN Finish(TRUE)
       ELSE /\ attempts' = Front(attempts) /\ job' = [job EXCEPT !.at = "compensate"]
            /\ ended' = ended
    /\ UNCHANGED <<enabled, deps, credentialFiles, mishaps>>

\* Every deletion is tried; those that fail are joined into the error.
UninstallFails ==
    /\ job.at = "uninstall" /\ Mishap
    /\ LET a == Last(attempts).name IN
       \E gone \in SUBSET applied[a], nsGone \in BOOLEAN :
          /\ nsGone => NamespaceDeleted(a)
          /\ ns' = [ns EXCEPT ![a] = IF nsGone THEN "absent" ELSE @]
          /\ applied' = [applied EXCEPT ![a] = IF nsGone THEN {} ELSE @ \ gone]
    /\ attempts' = Front(attempts)
    /\ job' = [job EXCEPT !.at = IF job.verb = "uninstall" THEN "next" ELSE "compensate",
                          !.todo = IF job.verb = "uninstall" THEN <<>> ELSE @,
                          !.failed = @ \cup {Last(attempts).name},
                          !.clean = FALSE, !.mishap = TRUE]
    /\ UNCHANGED <<enabled, deps, credentialFiles, ended>>

CompensatedAgain ==
    /\ job.at = "compensate" /\ attempts = <<>>
    /\ IF job.verb = "install-all"
       THEN job' = [job EXCEPT !.at = "next"] /\ UNCHANGED <<attempts, ended>>
       ELSE Finish(FALSE)
    /\ UNCHANGED <<enabled, deps, credentialFiles, ns, applied, mishaps>>

\* All that had to be undone is: InstallAll goes on to the next addon.
Compensated ==
    /\ job.at = "compensate" /\ attempts = <<>>
    /\ IF job.verb = "install-all"
       THEN /\ job' = [job EXCEPT !.todo = Tail(@), !.at = "next"]
            /\ UNCHANGED <<attempts, ended>>
       ELSE Finish(FALSE)
    /\ UNCHANGED <<enabled, deps, credentialFiles, ns, applied, mishaps>>

-----------------------------------------------------------------------------
Die ==
    /\ Working /\ Mishap
    /\ job' = NoJob /\ attempts' = <<>> /\ ended' = NotEnded
    /\ UNCHANGED <<enabled, deps, credentialFiles, ns, applied>>

\* Somebody else makes a namespace of that name, while nothing is being installed.
SomebodyCreates(a) ==
    /\ ~Working /\ ns[a] = "absent"
    /\ ns' = [ns EXCEPT ![a] = "foreign"]
    /\ UNCHANGED <<enabled, deps, credentialFiles, applied, job, attempts, mishaps, ended>>

AddonsInit ==
    /\ enabled \in SUBSET Registry
    /\ deps \in {[a \in Registry |-> {}],
                 [a \in Registry |-> IF a = "flux" THEN {"secretstore"} ELSE {}]}
    /\ credentialFiles \in {{}, {"token"}, {"credentials", "token"}}
    /\ ns \in [Registry -> {"absent", "foreign"}] /\ applied = [a \in Registry |-> {}]
    /\ job = NoJob /\ attempts = <<>> /\ mishaps = 0 /\ ended = NotEnded

AddonStep ==
    \/ NextAddon \/ AllDone \/ Inspect \/ EnsureNamespace \/ Apply \/ Verify
    \/ StopBetween \/ DropAttempt \/ Compensate \/ UninstallAddon \/ Compensated
    \/ CallFails /\ job.cancelled

AddonsNext ==
    \/ InstallAll \/ \E a \in Registry : InstallOne(a) \/ UninstallCommand(a)
    \/ AddonStep \/ CallFails \/ Cancel \/ UninstallFails \/ Die
    \/ \E a \in Registry : SomebodyCreates(a)

AddonsSpec == AddonsInit /\ [][AddonsNext]_addonVars /\ WF_addonVars(AddonStep)

-----------------------------------------------------------------------------
(* What the manager promises *)

AddonsTypeOK ==
    /\ enabled \subseteq Registry /\ credentialFiles \subseteq {"credentials", "token"}
    /\ ns \in [Registry -> {"absent", "owned", "foreign"}]
    /\ \A a \in Registry : /\ applied[a] \subseteq ToSet(Pieces(a))
                           /\ ns[a] = "absent" => applied[a] = {}
    /\ job.failed \subseteq Registry /\ mishaps \in 0..AddonFaults

\* A namespace without okdctl's label is not deleted, whatever fails and however
\* often: rollback and uninstall go by the label.  Flux asked to be uninstalled takes
\* its namespace whoever made it.
SparesForeign ==
    \A a \in Registry : ns[a] = "foreign" /\ ns'[a] = "absent" => a = "flux" /\ job.verb = "uninstall"

\* An install that fails and undoes without an error of its own leaves nothing of
\* the addons it failed on where there was nothing before; for one addon asked by
\* name, nothing of the addons installed for its sake either.
NoDebris ==
    [][Working /\ ended'.verb \in {"install", "install-all"} /\ ~ended'.ok /\ job.clean =>
           \A a \in IF job.verb = "install" THEN Registry ELSE ended'.failed :
               job.began[a] = "absent" => ns'[a] = "absent" /\ applied'[a] = {}]_addonVars

=============================================================================
