--------------------------- MODULE Addons_proofs ---------------------------
(***************************************************************************)
(* Proofs about Addons, for every number of failures.                      *)
(***************************************************************************)
EXTENDS Addons, FiniteSetTheorems, SequenceTheorems, TLAPS

-----------------------------------------------------------------------------
(* The order of an installation *)

Acyclic == {[a \in Registry |-> {}], [a \in Registry |-> IF a = "flux" THEN {"secretstore"} ELSE {}]}

Distinct(s) == \A i, j \in DOMAIN s : s[i] = s[j] => i = j

\* Resolve lists every addon it is given once.
LEMMA ResolveOrders ==
    ASSUME NEW set \in SUBSET Registry, deps \in Acyclic
    PROVE  Resolve(set) \in Seq(Registry) /\ Distinct(Resolve(set))
<1> DEFINE Ordered(order) == \A i, j \in DOMAIN order : i < j => Before(order[i], order[j])
<1>1. \E order \in SetToSeqs(set) : Ordered(order)
  <2>1. CASE set = {}
    <3>1. Cardinality(set) = 0
      BY <2>1, FS_EmptySet
    <3>2. [i \in 1..0 |-> "flux"] \in SetToSeqs(set)
      BY <3>1 DEF SetToSeqs
    <3> QED
      BY <3>2
  <2>2. ASSUME NEW a \in Registry, set = {a} PROVE \E order \in SetToSeqs(set) : Ordered(order)
    <3>1. Cardinality(set) = 1
      BY <2>2, FS_Singleton
    <3>2. [i \in 1..1 |-> a] \in SetToSeqs(set)
      BY <2>2, <3>1 DEF SetToSeqs
    <3> QED
      BY <3>2
  <2>3. CASE set = Registry
    <3> DEFINE order == [i \in 1..2 |-> IF i = 1 THEN "secretstore" ELSE "flux"]
    <3>1. Cardinality(set) = 2
      <4>1. IsFiniteSet({"secretstore"}) /\ Cardinality({"secretstore"}) = 1
        BY FS_Singleton
      <4>2. Cardinality({"secretstore"} \cup {"flux"}) = 2
        BY <4>1, FS_AddElement
      <4> QED
        BY <2>3, <4>2 DEF Registry
    <3>2. order \in SetToSeqs(set)
      BY <2>3, <3>1 DEF SetToSeqs, Registry
    <3>3. Before("secretstore", "flux")
      BY DEF Before, Acyclic, Registry, Priority
    <3>4. Ordered(order)
      BY <3>3
    <3> QED
      BY <3>2, <3>4
  <2> QED
    BY <2>1, <2>2, <2>3 DEF Registry
<1>2. Resolve(set) \in SetToSeqs(set)
  BY <1>1 DEF Resolve
<1>3. IsFiniteSet(set)
  <2>1. IsFiniteSet({"secretstore"})
    BY FS_Singleton
  <2>2. IsFiniteSet({"secretstore"} \cup {"flux"})
    BY <2>1, FS_AddElement
  <2>3. set \subseteq {"secretstore"} \cup {"flux"}
    BY DEF Registry
  <2> QED
    BY <2>2, <2>3, FS_Subset
<1>4. Cardinality(set) \in Nat
  BY <1>3, FS_CardinalityType
<1>5. Resolve(set) \in Seq(set)
  BY <1>2, <1>4 DEF SetToSeqs
<1> QED
  BY <1>2, <1>5 DEF SetToSeqs, Distinct

-----------------------------------------------------------------------------
(* The invariant *)

Owner == {"absent", "owned", "foreign"}
Attempt == [name : Registry, mutated : BOOLEAN, rollback : BOOLEAN]

\* The steps of one addon's installation, and those with its attempt on record.
Recorded == {"ensure", "apply", "verify"}
Underway == Recorded \cup {"inspect"}
Undoing == {"compensate", "uninstall"}

Job == [verb : {"none", "install", "install-all", "uninstall"}, todo : Seq(Registry),
        failed : SUBSET Registry, at : {"none", "next"} \cup Underway \cup Undoing, piece : Nat,
        cancelled : BOOLEAN, mishap : BOOLEAN, clean : BOOLEAN,
        began : {<<>>} \cup [Registry -> Owner]]

Typed ==
    /\ AddonsTypeOK /\ deps \in Acyclic
    /\ job \in Job /\ attempts \in Seq(Attempt)
    /\ DOMAIN applied = Registry

\* Where a command can be, and what it has in hand there.
Control ==
    /\ ~Working => job = NoJob /\ attempts = <<>>
    /\ Working => job.at # "none" /\ job.began \in [Registry -> Owner] /\ ended = NotEnded
    /\ job.verb = "uninstall" => job.at = "uninstall" \/ (job.at = "next" /\ job.todo = <<>>)
    /\ job.at \in Underway \cup {"compensate"} => job.todo # <<>>
    /\ job.at \in Recorded =>
          attempts # <<>> /\ Last(attempts).name = Current /\ Last(attempts).mutated
    /\ job.at = "uninstall" =>
          attempts # <<>> /\ Undoable(Last(attempts)) /\ (job.verb # "uninstall" => job.todo # <<>>)
    /\ job.at = "apply" => job.piece \in DOMAIN Pieces(Current) /\ ns[Current] # "absent"

\* Nobody else makes a namespace while a command runs, so what it found to be its own to
\* undo stays so; and what was not there when it began is its own.
Labelled ==
    Working =>
       /\ \A a \in Registry : ns[a] = "foreign" => job.began[a] = "foreign"
       /\ job.verb # "uninstall" =>
             \A i \in DOMAIN attempts : Undoable(attempts[i]) => ns[attempts[i].name] # "foreign"
       /\ job.at \in Recorded /\ job.began[Current] = "absent" => Undoable(Last(attempts))

LEMMA Appended ==
    ASSUME NEW S, NEW s \in Seq(S), NEW e \in S
    PROVE  /\ Append(s, e) \in Seq(S) /\ Append(s, e) # <<>> /\ Last(Append(s, e)) = e
           /\ DOMAIN Append(s, e) = DOMAIN s \cup {Len(s) + 1}
           /\ \A i \in DOMAIN s : Append(s, e)[i] = s[i]
           /\ Append(s, e)[Len(s) + 1] = e
BY DEF Last

LEMMA WithoutLast ==
    ASSUME NEW S, NEW s \in Seq(S), s # <<>>
    PROVE  /\ Front(s) \in Seq(S) /\ Last(s) \in S
           /\ DOMAIN Front(s) = DOMAIN s \ {Len(s)} /\ Len(s) \in DOMAIN s /\ Last(s) = s[Len(s)]
           /\ \A i \in DOMAIN Front(s) : Front(s)[i] = s[i]
<1>1. Len(s) \in Nat /\ Len(s) >= 1
  BY EmptySeq
<1> QED
  BY <1>1 DEF Front, Last

LEMMA WithoutHead ==
    ASSUME NEW S, NEW s \in Seq(S), s # <<>>
    PROVE  /\ Tail(s) \in Seq(S) /\ Head(s) \in S
           /\ 1 \in DOMAIN s /\ Head(s) = s[1]
           /\ DOMAIN Tail(s) = {i \in Nat : i + 1 \in DOMAIN s /\ i >= 1}
           /\ \A i \in DOMAIN Tail(s) : Tail(s)[i] = s[i + 1]
<1>1. Len(s) \in Nat /\ Len(s) >= 1
  BY EmptySeq
<1> QED
  BY <1>1

LEMMA EachAttempt ==
    ASSUME NEW s \in Seq(Attempt), NEW i \in DOMAIN s
    PROVE  s[i] \in Attempt /\ s[i].name \in Registry
<1>1. s[i] \in Attempt
  OBVIOUS
<1> QED
  BY <1>1 DEF Attempt

\* Every addon has three pieces.
LEMMA EachPiece ==
    ASSUME NEW a PROVE DOMAIN Pieces(a) = 1..3 /\ Len(Pieces(a)) = 3 /\ \A i \in 1..3 : Pieces(a)[i] \in ToSet(Pieces(a))
BY DEF Pieces, ToSet

\* A failed attempt leaves a job that has it to undo.
LEMMA FailedJob ==
    ASSUME job \in Job, job.todo # <<>>, NEW new,
           new \in {[job EXCEPT !.at = "compensate", !.piece = 0, !.failed = @ \cup {Current}],
                    [job EXCEPT !.at = "compensate", !.piece = 0, !.failed = @ \cup {Current}, !.mishap = TRUE]}
    PROVE  /\ new \in Job /\ new.todo = job.todo /\ new.verb = job.verb /\ new.began = job.began
           /\ new.at = "compensate" /\ new.failed = job.failed \cup {Current} /\ new.clean = job.clean
<1>1. job.todo \in Seq(Registry) /\ job.failed \subseteq Registry
  BY DEF Job
<1>2. job.failed \cup {Current} \subseteq Registry
  BY <1>1, WithoutHead DEF Current
<1>3. [job EXCEPT !.at = "compensate"] \in Job
  BY DEF Job, Undoing
<1>4. [job EXCEPT !.at = "compensate", !.piece = 0] \in Job
  BY <1>3 DEF Job
<1>5. [job EXCEPT !.at = "compensate", !.piece = 0, !.failed = @ \cup {Current}] \in Job
  BY <1>2, <1>4 DEF Job
<1>6. [job EXCEPT !.at = "compensate", !.piece = 0, !.failed = @ \cup {Current}, !.mishap = TRUE] \in Job
  BY <1>5 DEF Job
<1>7. CASE new = [job EXCEPT !.at = "compensate", !.piece = 0, !.failed = @ \cup {Current}]
  <2>1. new \in Job
    BY <1>5, <1>7
  <2>2. new.todo = job.todo /\ new.verb = job.verb /\ new.began = job.began /\ new.clean = job.clean
    BY <1>7 DEF Job
  <2>3. new.at = "compensate" /\ new.failed = job.failed \cup {Current}
    BY <1>7 DEF Job
  <2> QED
    BY <2>1, <2>2, <2>3
<1>8. CASE new = [job EXCEPT !.at = "compensate", !.piece = 0, !.failed = @ \cup {Current}, !.mishap = TRUE]
  <2>1. new \in Job
    BY <1>6, <1>8
  <2>2. new.todo = job.todo /\ new.verb = job.verb /\ new.began = job.began /\ new.clean = job.clean
    BY <1>8 DEF Job
  <2>3. new.at = "compensate" /\ new.failed = job.failed \cup {Current}
    BY <1>8 DEF Job
  <2> QED
    BY <2>1, <2>2, <2>3
<1> QED
  BY <1>7, <1>8

Manager == Typed /\ Control /\ Labelled

-----------------------------------------------------------------------------
(* Every step keeps it *)

LEMMA ManagerBegins == AddonsInit => Manager
<1> SUFFICES ASSUME AddonsInit PROVE Manager
  OBVIOUS
<1> USE DEF AddonsInit
<1>1. NoJob \in Job
  BY EmptySeq DEF NoJob, Job, Underway, Recorded, Undoing
<1>2. Typed
  BY <1>1, AddonsAssumption DEF Typed, AddonsTypeOK, Acyclic, Registry, NoJob, Owner
<1> QED
  BY <1>2 DEF Manager, Control, Labelled, Working, NoJob, Underway, Recorded

LEMMA CommandsBegin ==
    ASSUME Manager, InstallAll \/ \E a \in Registry : InstallOne(a) \/ UninstallCommand(a)
    PROVE  Manager'
<1> USE DEF Manager
<1>1. ns \in [Registry -> Owner]
  BY DEF Typed, AddonsTypeOK, Owner
<1>2. ASSUME NEW verb \in {"install", "install-all"}, NEW todo \in Seq(Registry), Start(verb, todo)
      PROVE  Manager'
  <2>1. job' \in Job /\ job'.at = "next" /\ job'.verb = verb /\ job'.began = ns
    BY <1>1, <1>2 DEF Start, NoJob, Job
  <2>2. Typed'
    BY <2>1, <1>2, EmptySeq DEF Start, Typed, AddonsTypeOK, Job
  <2>3. Control'
    BY <1>1, <2>1, <1>2 DEF Start, Control, Working, Recorded, Underway
  <2>4. Labelled'
    BY <2>1, <1>2 DEF Start, Labelled, Recorded
  <2> QED
    BY <2>2, <2>3, <2>4
<1>3. CASE InstallAll
  BY <1>2, <1>3, ResolveOrders DEF InstallAll, Typed, AddonsTypeOK
<1>4. ASSUME NEW a \in Registry, InstallOne(a) PROVE Manager'
  <2>1. CollectWithDeps(a) \in SUBSET Registry
    BY DEF CollectWithDeps
  <2> QED
    BY <1>2, <1>4, <2>1, ResolveOrders DEF InstallOne, Typed
<1>5. ASSUME NEW a \in Registry, UninstallCommand(a) PROVE Manager'
  <2> DEFINE own == [name |-> a, mutated |-> TRUE, rollback |-> TRUE]
  <2>0. own \in Attempt /\ attempts' = <<own>> /\ Undoable(own)
    BY <1>5 DEF UninstallCommand, Attempt, Undoable
  <2> HIDE DEF own
  <2>1. <<a>> \in Seq(Registry) /\ attempts' \in Seq(Attempt) /\ attempts' # <<>> /\ Undoable(Last(attempts'))
    BY <2>0 DEF Last
  <2>2. job' \in Job /\ job'.at = "uninstall" /\ job'.verb = "uninstall" /\ job'.began = ns
    BY <1>1, <1>5, <2>1 DEF UninstallCommand, NoJob, Job, Undoing
  <2>3. Typed'
    BY <2>1, <2>2, <1>5 DEF UninstallCommand, Typed, AddonsTypeOK, Job
  <2>4. Control'
    BY <1>1, <2>1, <2>2, <1>5 DEF UninstallCommand, Control, Working, Recorded, Underway
  <2>5. Labelled'
    BY <2>2, <1>5 DEF UninstallCommand, Labelled, Recorded
  <2> QED
    BY <2>3, <2>4, <2>5
<1> QED
  BY <1>3, <1>4, <1>5

\* A command that ends leaves nothing in hand.
LEMMA CommandsEnd ==
    ASSUME Manager, job' = NoJob, attempts' = <<>>, mishaps' \in 0..AddonFaults,
           UNCHANGED <<enabled, deps, credentialFiles, ns, applied>>
    PROVE  Manager'
<1>1. NoJob \in Job
  BY EmptySeq DEF NoJob, Job, Underway, Recorded, Undoing
<1>2. Typed'
  BY <1>1, EmptySeq DEF Manager, Typed, AddonsTypeOK, Job, NoJob
<1> QED
  BY <1>2 DEF Manager, Control, Labelled, Working, NoJob, Underway, Recorded

\* The steps of an installation.
LEMMA InstallationGoesOn ==
    ASSUME Manager, NextAddon \/ Inspect \/ EnsureNamespace \/ Apply \/ Verify \/ CallFails \/ Cancel
    PROVE  Manager'
<1> USE DEF Manager
<1> USE DEF Underway, Recorded, Undoing
<1>1. /\ job \in Job /\ Working /\ job.at # "none" /\ attempts \in Seq(Attempt)
      /\ ns \in [Registry -> Owner] /\ DOMAIN applied = Registry
      /\ job.todo \in Seq(Registry) /\ job.failed \subseteq Registry
  BY DEF Typed, Control, NextAddon, Inspect, EnsureNamespace, Apply, Verify, CallFails, Cancel, NoJob, Job,
     AddonsTypeOK, Owner
<1>2. job.todo # <<>> => Current \in Registry /\ Tail(job.todo) \in Seq(Registry)
  BY <1>1, WithoutHead DEF Current
<1>3. CASE NextAddon
  <2>1. job' \in Job
    <3>1. job.failed \cup {Current} \subseteq Registry
      BY <1>1, <1>2, <1>3 DEF NextAddon
    <3>2. job' \in {[job EXCEPT !.todo = Tail(@), !.failed = @ \cup {Current}], [job EXCEPT !.at = "inspect"]}
      BY <1>3 DEF NextAddon
    <3>3. [job EXCEPT !.at = "inspect"] \in Job
      BY <1>1 DEF Job
    <3>4. [job EXCEPT !.todo = Tail(@), !.failed = @ \cup {Current}] \in Job
      BY <1>1, <1>2, <1>3, <3>1 DEF Job, NextAddon
    <3> QED
      BY <3>2, <3>3, <3>4
  <2>2. Typed'
    BY <1>1, <2>1, <1>3 DEF NextAddon, Typed, AddonsTypeOK, Job
  <2>3. Control'
    BY <1>1, <1>2, <1>3 DEF NextAddon, Control, Working, Job
  <2>4. Labelled'
    BY <1>1, <1>2, <1>3, ZenonT(40) DEF NextAddon, Labelled, Job, Working
  <2> QED
    BY <2>2, <2>3, <2>4
<1>4. CASE Inspect
  <2> DEFINE found == [name |-> Current, mutated |-> TRUE, rollback |-> RollbackAllowed(Current)]
  <2>1. job.todo # <<>> /\ found \in Attempt
    BY <1>1, <1>2, <1>4 DEF Inspect, Control, Attempt, RollbackAllowed
  <2>2. /\ attempts' \in Seq(Attempt) /\ attempts' # <<>> /\ Last(attempts') = found
        /\ \A i \in DOMAIN attempts' :
              (i \in DOMAIN attempts /\ attempts'[i] = attempts[i]) \/ attempts'[i] = found
    BY <1>1, <1>4, <2>1, Appended DEF Inspect
  <2>3. job' \in Job /\ job'.todo = job.todo /\ job'.verb = job.verb /\ job'.began = job.began
        /\ job'.at \in {"verify", "ensure"}
    BY <1>1, <1>4 DEF Inspect, Job
  <2>4. Typed'
    BY <1>1, <2>2, <2>3, <1>4 DEF Inspect, Typed, AddonsTypeOK, Job
  <2>5. Control'
    BY <1>1, <2>1, <2>2, <2>3, <1>4 DEF Inspect, Control, Working, Current
  <2>6. Labelled'
    <3>1. job.began[Current] = "absent" => ns[Current] # "foreign"
      BY <1>2, <2>1, <1>1 DEF Labelled
    <3>2. Undoable(found) <=> ns[Current] # "foreign"
      BY DEF Undoable, RollbackAllowed
    <3>3. found.name = Current /\ Current' = Current
      BY <2>3 DEF Current
    <3>4. \A attempt : Undoable(attempt)' = Undoable(attempt)
      BY DEF Undoable
    <3> HIDE DEF found
    <3> QED
      BY <1>1, <2>1, <2>2, <2>3, <3>1, <3>2, <3>3, <3>4, <1>4 DEF Inspect, Labelled, Working
  <2> QED
    BY <2>4, <2>5, <2>6
<1>5. CASE EnsureNamespace
  <2>1. job' \in Job /\ job'.todo = job.todo /\ job'.verb = job.verb /\ job'.began = job.began
        /\ job'.at = "apply" /\ job'.piece = 1 /\ job.todo # <<>>
    BY <1>1, <1>5 DEF EnsureNamespace, Job, Control
  <2>2. /\ ns' \in [Registry -> Owner] /\ ns'[Current] # "absent"
        /\ \A a \in Registry : ns'[a] = "absent" => ns[a] = "absent"
        /\ \A a \in Registry : ns'[a] = "foreign" => ns[a] = "foreign"
    BY <1>1, <1>2, <2>1, <1>5 DEF EnsureNamespace, Owner
  <2>3. Typed'
    BY <1>1, <2>1, <2>2, <1>5, AddonsAssumption DEF EnsureNamespace, Typed, AddonsTypeOK, Job, Owner, Mishap
  <2>4. Control'
    BY <1>1, <2>1, <2>2, <1>5 DEF EnsureNamespace, Control, Working, Current, Pieces
  <2>5. Labelled'
    <3>1. \A i \in DOMAIN attempts : attempts[i].name \in Registry
      BY <1>1, EachAttempt
    <3> QED
      BY <1>1, <2>1, <2>2, <3>1, <1>5 DEF EnsureNamespace, Labelled, Working, Current
  <2> QED
    BY <2>3, <2>4, <2>5
<1>6. CASE Apply
  <2>1. /\ job' \in Job /\ job'.todo = job.todo /\ job'.verb = job.verb /\ job'.began = job.began
        /\ job'.at \in {"apply", "verify"} /\ job.todo # <<>>
        /\ job'.at = "apply" => job'.piece \in DOMAIN Pieces(Current)
    <3>1. job.piece \in 1..3 /\ job.todo # <<>> /\ job.at = "apply"
      BY <1>6, EachPiece DEF Apply, Control
    <3>2. CASE job.piece < 3
      <4>1. job' = [job EXCEPT !.piece = @ + 1]
        BY <1>6, <3>2, EachPiece DEF Apply
      <4> QED
        BY <1>1, <3>1, <3>2, <4>1, EachPiece DEF Job
    <3>3. CASE ~(job.piece < 3)
      <4>1. job' = [job EXCEPT !.at = "verify", !.piece = 0]
        BY <1>6, <3>3, EachPiece DEF Apply
      <4>2. [job EXCEPT !.at = "verify"] \in Job
        BY <1>1 DEF Job
      <4> QED
        BY <1>1, <3>1, <4>1, <4>2 DEF Job
    <3> QED
      BY <3>2, <3>3
  <2>2. /\ DOMAIN applied' = Registry
        /\ \A a \in Registry : applied'[a] \subseteq ToSet(Pieces(a)) /\ (ns[a] = "absent" => applied'[a] = {})
    <3>1. Pieces(Current)[job.piece] \in ToSet(Pieces(Current)) /\ ns[Current] # "absent"
      BY <1>6, EachPiece DEF Apply, Control
    <3>2. applied' \in {applied, [applied EXCEPT ![Current] = @ \cup {Pieces(Current)[job.piece]}]}
      BY <1>6 DEF Apply
    <3>3. \A a \in Registry : applied[a] \subseteq ToSet(Pieces(a)) /\ (ns[a] = "absent" => applied[a] = {})
      BY DEF Typed, AddonsTypeOK
    <3> QED
      BY <1>1, <1>2, <2>1, <3>1, <3>2, <3>3
  <2>3. Typed'
    BY <1>1, <2>1, <2>2, <1>6 DEF Apply, Typed, AddonsTypeOK, Job
  <2>4. Control'
    BY <1>1, <2>1, <1>6 DEF Apply, Control, Working, Current
  <2>5. Labelled'
    BY <1>1, <2>1, <1>6 DEF Apply, Labelled, Working, Current
  <2> QED
    BY <2>3, <2>4, <2>5
<1>7. CASE Verify
  <2>1. /\ job' \in Job /\ job'.verb = job.verb /\ job'.began = job.began
        /\ job'.at = "next" \/ (job'.at = "compensate" /\ job'.todo = job.todo)
        /\ job.todo # <<>>
        /\ attempts' \in {<<>>, attempts}
    <3>1. job.todo # <<>>
      BY <1>7 DEF Verify, Control
    <3>2. CASE Verified(Current)
      <4>1. job' = [job EXCEPT !.todo = Tail(@), !.at = "next"] /\ attempts' \in {<<>>, attempts}
        BY <1>7, <3>2 DEF Verify
      <4>2. [job EXCEPT !.todo = Tail(@)] \in Job
        BY <1>1, <1>2, <3>1 DEF Job
      <4> QED
        BY <1>1, <3>1, <4>1, <4>2 DEF Job
    <3>3. CASE ~Verified(Current)
      BY <1>1, <1>7, <3>1, <3>3, FailedJob DEF Verify, Failed
    <3> QED
      BY <3>2, <3>3
  <2>2. Typed'
    <3>1. UNCHANGED <<enabled, deps, credentialFiles, ns, applied, mishaps>>
      BY <1>7 DEF Verify, Failed
    <3>2. attempts' \in Seq(Attempt) /\ job'.failed \subseteq Registry
      BY <1>1, <2>1, EmptySeq, ZenonT(40) DEF Job
    <3> QED
      BY <2>1, <3>1, <3>2 DEF Typed, AddonsTypeOK
  <2>3. Control'
    BY <1>1, <2>1, <1>7 DEF Verify, Failed, Control, Working
  <2>4. Labelled'
    BY <1>1, <2>1, <1>7 DEF Verify, Failed, Labelled, Working
  <2> QED
    BY <2>2, <2>3, <2>4
<1>8. CASE CallFails
  <2> DEFINE unread == [name |-> Current, mutated |-> FALSE, rollback |-> FALSE]
  <2>1. job.todo # <<>> /\ unread \in Attempt
    BY <1>1, <1>2, <1>8 DEF CallFails, Control, Attempt
  <2>2. /\ attempts' \in Seq(Attempt)
        /\ \A i \in DOMAIN attempts' :
              (i \in DOMAIN attempts /\ attempts'[i] = attempts[i]) \/ attempts'[i] = unread
    BY <1>1, <1>8, <2>1, Appended DEF CallFails
  <2>3. /\ job' \in Job /\ job'.todo = job.todo /\ job'.verb = job.verb /\ job'.began = job.began
        /\ job'.at = "compensate" /\ job.verb # "uninstall"
    <3>1. job' \in {[job EXCEPT !.at = "compensate", !.piece = 0, !.failed = @ \cup {Current}],
                    [job EXCEPT !.at = "compensate", !.piece = 0, !.failed = @ \cup {Current}, !.mishap = TRUE]}
      BY <1>8 DEF CallFails, Failed
    <3>2. job.verb # "uninstall"
      BY <1>8 DEF CallFails, Control
    <3> QED
      BY <1>1, <2>1, <3>1, <3>2, FailedJob
  <2>4. /\ ns' \in [Registry -> Owner]
        /\ \A a \in Registry : ns'[a] = "absent" => ns[a] = "absent"
        /\ \A a \in Registry : ns'[a] = "foreign" => ns[a] = "foreign"
    BY <1>1, <1>2, <2>1, <1>8 DEF CallFails, Failed, Owner
  <2>5. /\ DOMAIN applied' = Registry
        /\ \A a \in Registry : applied'[a] \subseteq ToSet(Pieces(a)) /\ (ns'[a] = "absent" => applied'[a] = {})
    <3>1. job.at = "apply" => Pieces(Current)[job.piece] \in ToSet(Pieces(Current)) /\ ns[Current] # "absent"
      BY <1>8, EachPiece DEF CallFails, Control
    <3>2. \/ applied' = applied
          \/ job.at = "apply" /\ applied' = [applied EXCEPT ![Current] = @ \cup {Pieces(Current)[job.piece]}]
      BY <1>8 DEF CallFails, Failed
    <3>3. \A a \in Registry : applied[a] \subseteq ToSet(Pieces(a)) /\ (ns[a] = "absent" => applied[a] = {})
      BY DEF Typed, AddonsTypeOK
    <3> QED
      BY <1>1, <1>2, <2>1, <2>4, <3>1, <3>2, <3>3
  <2>6. mishaps' \in 0..AddonFaults
    BY <1>8, AddonsAssumption DEF CallFails, Mishap, Typed, AddonsTypeOK
  <2>7. Typed'
    BY <1>1, <2>2, <2>3, <2>4, <2>5, <2>6, <1>8 DEF CallFails, Failed, Typed, AddonsTypeOK, Job, Owner
  <2>8. Control'
    BY <1>1, <2>1, <2>3, <1>8 DEF CallFails, Failed, Control, Working
  <2>9. Labelled'
    <3>1. \A i \in DOMAIN attempts : attempts[i].name \in Registry
      BY <1>1, EachAttempt
    <3> QED
      BY <1>1, <2>2, <2>3, <2>4, <3>1, <1>8 DEF Labelled, Working, Undoable
  <2> QED
    BY <2>7, <2>8, <2>9
<1>9. CASE Cancel
  <2>1. /\ job' \in Job /\ job'.todo = job.todo /\ job'.verb = job.verb /\ job'.began = job.began
        /\ job'.at = job.at /\ job'.piece = job.piece /\ job'.failed = job.failed
    BY <1>1, <1>9 DEF Cancel, Job
  <2>2. Typed'
    BY <1>1, <2>1, <1>9, AddonsAssumption DEF Cancel, Typed, AddonsTypeOK, Mishap
  <2>3. Control'
    BY <1>1, <2>1, <1>9 DEF Cancel, Control, Working, Current
  <2>4. Labelled'
    BY <1>1, <2>1, <1>9 DEF Cancel, Labelled, Working, Current
  <2> QED
    BY <2>2, <2>3, <2>4
<1> QED
  BY <1>3, <1>4, <1>5, <1>6, <1>7, <1>8, <1>9

LEMMA UndoingGoesOn ==
    ASSUME Manager, DropAttempt \/ Compensate \/ UninstallAddon \/ UninstallFails \/ Compensated \/ StopBetween
    PROVE  Manager'
<1> USE DEF Manager
<1> USE DEF Underway, Recorded, Undoing
<1>0. job.at # "none"
  BY DEF DropAttempt, Compensate, UninstallAddon, UninstallFails, Compensated, StopBetween
<1>1. /\ job \in Job /\ Working /\ job.at # "none" /\ attempts \in Seq(Attempt)
      /\ ns \in [Registry -> Owner] /\ DOMAIN applied = Registry
      /\ job.todo \in Seq(Registry) /\ job.failed \subseteq Registry
  BY <1>0 DEF Typed, Control, NoJob, Job, AddonsTypeOK, Owner
<1>2. attempts # <<>> =>
         /\ Front(attempts) \in Seq(Attempt) /\ Last(attempts) \in Attempt
         /\ \A i \in DOMAIN Front(attempts) : i \in DOMAIN attempts /\ Front(attempts)[i] = attempts[i]
         /\ Len(attempts) \in DOMAIN attempts /\ Last(attempts) = attempts[Len(attempts)]
  BY <1>1, WithoutLast
<1>3. job.todo # <<>> => Current \in Registry /\ Tail(job.todo) \in Seq(Registry)
  BY <1>1, WithoutHead DEF Current
<1>4. mishaps \in 0..AddonFaults
  BY DEF Typed, AddonsTypeOK
<1>5. CASE DropAttempt
  BY <1>1, <1>2, <1>5 DEF DropAttempt, Typed, AddonsTypeOK, Control, Labelled, Working
<1>6. CASE Compensate
  <2>1. /\ job' \in Job /\ job'.todo = job.todo /\ job'.verb = job.verb /\ job'.began = job.began
        /\ job'.at = "uninstall" /\ job.todo # <<>> /\ job.verb # "uninstall"
    BY <1>1, <1>6 DEF Compensate, Job, Control
  <2>2. Typed'
    BY <1>1, <2>1, <1>6 DEF Compensate, Typed, AddonsTypeOK, Job
  <2>3. Control'
    BY <1>1, <2>1, <1>6 DEF Compensate, Control, Working
  <2>4. Labelled'
    BY <1>1, <2>1, <1>6 DEF Compensate, Labelled, Working
  <2> QED
    BY <2>2, <2>3, <2>4
<1>7. ASSUME job.at = "uninstall", NEW gone \in BOOLEAN,
             gone => NamespaceDeleted(Last(attempts).name),
             ns' = [ns EXCEPT ![Last(attempts).name] = IF gone THEN "absent" ELSE @],
             UNCHANGED <<enabled, deps, credentialFiles>>, mishaps' \in 0..AddonFaults,
             DOMAIN applied' = Registry, \A a \in Registry : applied'[a] \subseteq applied[a],
             gone => applied'[Last(attempts).name] = {}
      PROVE  /\ attempts # <<>> /\ Last(attempts).name \in Registry
             /\ attempts' \in Seq(Attempt) /\ job' \in Job => Typed'
             /\ \A a \in Registry : ns'[a] = "foreign" => ns[a] = "foreign"
  <2>1. attempts # <<>>
    BY <1>7 DEF Control
  <2>2. Last(attempts).name \in Registry
    BY <1>2, <2>1 DEF Attempt
  <2>3. ns' \in [Registry -> Owner] /\ \A a \in Registry : ns'[a] = "foreign" => ns[a] = "foreign"
    BY <1>1, <1>7, <2>2 DEF Owner
  <2>4. \A a \in Registry : applied'[a] \subseteq ToSet(Pieces(a)) /\ (ns'[a] = "absent" => applied'[a] = {})
    <3>1. \A a \in Registry : applied[a] \subseteq ToSet(Pieces(a)) /\ (ns[a] = "absent" => applied[a] = {})
      BY DEF Typed, AddonsTypeOK
    <3>2. \A a \in Registry : ns'[a] = "absent" => ns[a] = "absent" \/ (gone /\ a = Last(attempts).name)
      BY <1>1, <1>7, <2>2
    <3> QED
      BY <1>7, <3>1, <3>2
  <2>5. ASSUME attempts' \in Seq(Attempt), job' \in Job PROVE Typed'
    <3>1. job'.failed \subseteq Registry
      BY <2>5 DEF Job
    <3> QED
      BY <1>7, <2>3, <2>4, <2>5, <3>1 DEF Typed, AddonsTypeOK, Owner
  <2> QED
    BY <2>1, <2>2, <2>3, <2>5
<1>8. ASSUME job.at = "uninstall", job.verb # "uninstall", attempts' = Front(attempts), job' \in Job,
             job'.at = "compensate", job'.verb = job.verb, job'.began = job.began, job'.todo = job.todo,
             ended' = ended, attempts # <<>>,
             \A a \in Registry : ns'[a] = "foreign" => ns[a] = "foreign"
      PROVE  Control' /\ Labelled'
  <2>1. \A i \in DOMAIN attempts : attempts[i].name \in Registry
    BY <1>1, EachAttempt
  <2>2. Control'
    BY <1>1, <1>8 DEF Control, Working
  <2>3. Labelled'
    BY <1>1, <1>2, <1>8, <2>1 DEF Labelled, Working
  <2> QED
    BY <2>2, <2>3
<1>9. CASE UninstallAddon
  <2>1. /\ attempts # <<>> /\ Last(attempts).name \in Registry
        /\ attempts' \in Seq(Attempt) /\ job' \in Job => Typed'
        /\ \A a \in Registry : ns'[a] = "foreign" => ns[a] = "foreign"
    <3> DEFINE gone == NamespaceDeleted(Last(attempts).name)
    <3>1. gone \in BOOLEAN
      BY DEF NamespaceDeleted
    <3> HIDE DEF gone
    <3>2. ns' = [ns EXCEPT ![Last(attempts).name] = IF gone THEN "absent" ELSE @]
      BY <1>9 DEF UninstallAddon, gone
    <3> QED
      BY <1>1, <1>4, <1>7, <1>9, <3>1, <3>2 DEF UninstallAddon, gone
  <2>2. CASE job.verb = "uninstall"
    <3>1. job' = NoJob /\ attempts' = <<>> /\ UNCHANGED mishaps
      BY <1>9, <2>2 DEF UninstallAddon, Finish
    <3>2. Typed'
      BY <2>1, <3>1, EmptySeq DEF NoJob, Job
    <3> QED
      BY <3>1, <3>2 DEF Control, Labelled, Working, NoJob
  <2>3. CASE job.verb # "uninstall"
    <3>1. attempts' = Front(attempts) /\ job' = [job EXCEPT !.at = "compensate"] /\ ended' = ended
      BY <1>9, <2>3 DEF UninstallAddon
    <3>2. job' \in Job /\ job'.at = "compensate" /\ job'.verb = job.verb /\ job'.began = job.began
          /\ job'.todo = job.todo
      BY <1>1, <3>1 DEF Job
    <3> QED
      BY <1>2, <1>8, <1>9, <2>1, <2>3, <3>1, <3>2 DEF UninstallAddon
  <2> QED
    BY <2>2, <2>3
<1>10. CASE UninstallFails
  <2>1. /\ attempts # <<>> /\ Last(attempts).name \in Registry
        /\ attempts' \in Seq(Attempt) /\ job' \in Job => Typed'
        /\ \A a \in Registry : ns'[a] = "foreign" => ns[a] = "foreign"
    <3>1. mishaps' \in 0..AddonFaults
      BY <1>4, <1>10, AddonsAssumption DEF UninstallFails, Mishap
    <3>2. PICK pieces \in SUBSET applied[Last(attempts).name], gone \in BOOLEAN :
             /\ gone => NamespaceDeleted(Last(attempts).name)
             /\ ns' = [ns EXCEPT ![Last(attempts).name] = IF gone THEN "absent" ELSE @]
             /\ applied' = [applied EXCEPT ![Last(attempts).name] = IF gone THEN {} ELSE @ \ pieces]
      BY <1>10 DEF UninstallFails
    <3> QED
      BY <1>1, <1>7, <1>10, <3>1, <3>2 DEF UninstallFails
  <2>2. /\ attempts' = Front(attempts) /\ attempts' \in Seq(Attempt) /\ ended' = ended /\ job.at = "uninstall"
        /\ job' \in Job /\ job'.verb = job.verb /\ job'.began = job.began
        /\ IF job.verb = "uninstall" THEN job'.at = "next" /\ job'.todo = <<>>
           ELSE job'.at = "compensate" /\ job'.todo = job.todo
    BY <1>1, <1>2, <1>10, <2>1, EmptySeq DEF UninstallFails, Job
  <2>3. CASE job.verb = "uninstall"
    BY <1>1, <2>1, <2>2, <2>3 DEF Control, Labelled, Working
  <2>4. CASE job.verb # "uninstall"
    BY <1>8, <2>1, <2>2, <2>4
  <2> QED
    BY <2>3, <2>4
<1>11. CASE Compensated
  <2>1. CASE job.verb = "install-all"
    <3>1. /\ job' \in Job /\ job'.verb = job.verb /\ job'.began = job.began /\ job'.at = "next"
          /\ UNCHANGED <<attempts, ended, enabled, deps, credentialFiles, ns, applied, mishaps>>
      <4>1. job' = [job EXCEPT !.todo = Tail(@), !.at = "next"] /\ job.todo # <<>>
        BY <1>11, <2>1 DEF Compensated, Control
      <4>2. [job EXCEPT !.todo = Tail(@)] \in Job
        BY <1>1, <1>3, <4>1 DEF Job
      <4> QED
        BY <1>1, <1>11, <2>1, <4>1, <4>2 DEF Compensated, Job
    <3> QED
      BY <1>1, <3>1, <2>1 DEF Typed, AddonsTypeOK, Job, Control, Labelled, Working
  <2>2. CASE job.verb # "install-all"
    BY <1>4, <1>11, <2>2, CommandsEnd DEF Compensated, Finish
  <2> QED
    BY <2>1, <2>2
<1>12. CASE StopBetween
  <2>1. CASE job.verb = "install"
    <3>1. /\ job' \in Job /\ job'.verb = job.verb /\ job'.began = job.began /\ job'.at = "compensate"
          /\ job'.todo = job.todo /\ job.todo # <<>>
          /\ UNCHANGED <<attempts, ended, enabled, deps, credentialFiles, ns, applied, mishaps>>
      <4>1. job' = [job EXCEPT !.at = "compensate", !.failed = @ \cup {Current}] /\ job.todo # <<>>
        BY <1>12, <2>1 DEF StopBetween
      <4>2. [job EXCEPT !.at = "compensate"] \in Job
        BY <1>1 DEF Job
      <4>3. job.failed \cup {Current} \subseteq Registry
        BY <1>1, <1>3, <4>1
      <4>4. [job EXCEPT !.at = "compensate", !.failed = @ \cup {Current}] \in Job
        BY <4>2, <4>3 DEF Job
      <4> QED
        BY <1>1, <1>12, <2>1, <4>1, <4>4 DEF StopBetween, Job
    <3> QED
      BY <1>1, <3>1, <2>1 DEF Typed, AddonsTypeOK, Job, Control, Labelled, Working
  <2>2. CASE job.verb # "install"
    BY <1>4, <1>12, <2>2, CommandsEnd DEF StopBetween, Finish
  <2> QED
    BY <2>1, <2>2
<1> QED
  BY <1>5, <1>6, <1>9, <1>10, <1>11, <1>12

\* A command ends, is killed, or somebody else makes a namespace between two of them.
LEMMA ManagerGoesOn == ASSUME Manager, [AddonsNext]_addonVars PROVE Manager'
<1>1. CASE AllDone \/ Die
  BY <1>1, CommandsEnd, AddonsAssumption DEF AllDone, Die, Finish, Mishap, Manager, Typed, AddonsTypeOK
<1>2. ASSUME NEW a \in Registry, SomebodyCreates(a) PROVE Manager'
  <2>1. UNCHANGED <<enabled, deps, credentialFiles, applied, job, attempts, mishaps, ended>> /\ ~Working
    BY <1>2 DEF SomebodyCreates
  <2>2. ns' \in [Registry -> Owner] /\ \A b \in Registry : ns'[b] = "absent" => ns[b] = "absent"
    BY <1>2 DEF SomebodyCreates, Manager, Typed, AddonsTypeOK, Owner
  <2>3. Typed'
    BY <2>1, <2>2 DEF Manager, Typed, AddonsTypeOK, Owner
  <2>4. Control' /\ Labelled'
    BY <2>1 DEF Manager, Control, Labelled, Working, NoJob, Recorded, Underway
  <2> QED
    BY <2>3, <2>4 DEF Manager
<1>3. CASE UNCHANGED addonVars
  BY <1>3 DEF addonVars, Manager, Typed, AddonsTypeOK, Control, Labelled, Working, Current
<1> QED
  BY <1>1, <1>2, <1>3, CommandsBegin, InstallationGoesOn, UndoingGoesOn DEF AddonsNext, AddonStep

\* The label a namespace had when a command found it is the one it is undone by: whatever
\* fails, and whoever makes namespaces between the commands, a namespace without okdctl's
\* label is only deleted when flux, which does not look, is asked to be uninstalled.
THEOREM ForeignNamespacesStay == AddonsInit /\ [][AddonsNext]_addonVars => [][SparesForeign]_addonVars
<1>1. ASSUME Manager, [AddonsNext]_addonVars PROVE SparesForeign
  <2> USE <1>1 DEF Manager
  <2> SUFFICES ASSUME NEW a \in Registry, ns[a] = "foreign", ns'[a] = "absent"
               PROVE  a = "flux" /\ job.verb = "uninstall"
    BY DEF SparesForeign
  <2>1. ns \in [Registry -> Owner] /\ attempts \in Seq(Attempt)
    BY DEF Typed, AddonsTypeOK, Owner
  <2>2. job.at = "uninstall" /\ (UninstallAddon \/ UninstallFails)
    <3>1. ~(EnsureNamespace \/ CallFails \/ \E b \in Registry : SomebodyCreates(b))
      BY <2>1 DEF EnsureNamespace, CallFails, Failed, SomebodyCreates
    <3>2. ns' # ns
      BY <2>1
    <3> QED
      BY <3>1, <3>2 DEF AddonsNext, AddonStep, addonVars, InstallAll, InstallOne, UninstallCommand, Start, NextAddon,
         AllDone, Finish, Inspect, Apply, Verify, Failed, Cancel, StopBetween, DropAttempt, Compensate,
         UninstallAddon, UninstallFails, Compensated, Die
  <2>3. NamespaceDeleted(a) /\ a = Last(attempts).name
    BY <2>1, <2>2 DEF UninstallAddon, UninstallFails
  <2>4. attempts # <<>> /\ Undoable(Last(attempts)) /\ Working
    BY <2>2 DEF Control, NoJob
  <2>5. Len(attempts) \in DOMAIN attempts /\ Last(attempts) = attempts[Len(attempts)]
    BY <2>1, <2>4, WithoutLast
  <2>6. job.verb = "uninstall"
    BY <2>3, <2>4, <2>5 DEF Labelled
  <2> QED
    BY <2>3, <2>6 DEF NamespaceDeleted, Registry
<1> QED
  BY <1>1, ManagerBegins, ManagerGoesOn, PTL

-----------------------------------------------------------------------------
(* What a failed installation leaves *)

\* What is still to come of the list, without the addon that is worked on or undone.
Ahead == IF job.at \in Undoing THEN Tail(job.todo) ELSE job.todo

\* The list names an addon once, one that failed is not met again, and install-all has no
\* attempt on record but that of the addon it is at; install stops at the first that fails.
OneByOne ==
    /\ job.verb = "install-all" =>
          /\ Distinct(job.todo) /\ ToSet(Ahead) \cap job.failed = {}
          /\ job.at \in {"next", "inspect"} => attempts = <<>>
          /\ \A i \in DOMAIN attempts : attempts[i].name = Current
    /\ job.verb = "install" /\ job.at \notin Undoing => job.failed = {}

Clear(a) == ns[a] = "absent" /\ applied[a] = {}
Pending(a) == \E i \in DOMAIN attempts : attempts[i].name = a /\ Undoable(attempts[i])
Kept(a) == job.verb = "install-all" /\ a \notin job.failed /\ a \notin ToSet(Ahead)

\* Where there was nothing there is nothing, or there is an attempt on record that takes it
\* away, or it is an addon that was installed and verified.
Accounted ==
    job.verb \in {"install", "install-all"} /\ job.clean =>
       \A a \in Registry : job.began[a] = "absent" => Clear(a) \/ Pending(a) \/ Kept(a)

Books == Manager /\ OneByOne /\ Accounted

LEMMA HeadAndTail ==
    ASSUME NEW s \in Seq(Registry), s # <<>>
    PROVE  /\ ToSet(s) = {Head(s)} \cup ToSet(Tail(s))
           /\ Distinct(s) => Head(s) \notin ToSet(Tail(s)) /\ Distinct(Tail(s))
<1>1. /\ 1 \in DOMAIN s /\ Head(s) = s[1]
      /\ DOMAIN Tail(s) = {i \in Nat : i + 1 \in DOMAIN s /\ i >= 1}
      /\ \A i \in DOMAIN Tail(s) : Tail(s)[i] = s[i + 1]
  BY WithoutHead
<1>2. \A i \in DOMAIN s : i = 1 \/ (i - 1 \in DOMAIN Tail(s) /\ s[i] = Tail(s)[i - 1])
  <2>1. DOMAIN s \subseteq Nat \ {0}
    OBVIOUS
  <2> QED
    BY <1>1, <2>1
<1>3. ToSet(s) = {Head(s)} \cup ToSet(Tail(s))
  <2>1. \A i \in DOMAIN s : s[i] \in {Head(s)} \cup ToSet(Tail(s))
    BY <1>1, <1>2 DEF ToSet
  <2>2. Head(s) \in ToSet(s) /\ \A i \in DOMAIN Tail(s) : Tail(s)[i] \in ToSet(s)
    BY <1>1 DEF ToSet
  <2> QED
    BY <2>1, <2>2 DEF ToSet
<1>4. ASSUME Distinct(s) PROVE Head(s) \notin ToSet(Tail(s)) /\ Distinct(Tail(s))
  BY <1>1, <1>4 DEF ToSet, Distinct
<1> QED
  BY <1>3, <1>4

\* The next addon, one that failed, and one that came through.
LEMMA ListShortens ==
    ASSUME Manager, OneByOne, job.todo # <<>>, job.at \notin Undoing
    PROVE  /\ Current \in Registry /\ Tail(job.todo) \in Seq(Registry) /\ ToSet(job.todo) = {Current} \cup ToSet(Tail(job.todo))
           /\ Ahead = job.todo
           /\ job.verb = "install-all" =>
                 /\ Distinct(Tail(job.todo)) /\ Current \notin job.failed \cup ToSet(Tail(job.todo))
                 /\ ToSet(Tail(job.todo)) \cap (job.failed \cup {Current}) = {}
<1>1. job.todo \in Seq(Registry)
  BY DEF Manager, Typed, Job
<1> QED
  BY <1>1, HeadAndTail, WithoutHead DEF OneByOne, Ahead, Current

LEMMA BooksBegin == AddonsInit => Books
BY ManagerBegins DEF Books, OneByOne, Accounted, AddonsInit, NoJob

LEMMA BooksGoOn == ASSUME Books, [AddonsNext]_addonVars PROVE OneByOne' /\ Accounted'
<1> USE DEF Books
<1> USE DEF Underway, Recorded, Undoing
<1>2. /\ job \in Job /\ attempts \in Seq(Attempt) /\ job.todo \in Seq(Registry)
      /\ ns \in [Registry -> Owner] /\ DOMAIN applied = Registry
      /\ \A a \in Registry : ns[a] = "absent" => applied[a] = {}
  BY DEF Manager, Typed, AddonsTypeOK, Owner, Job
<1>3. \A attempt : Undoable(attempt)' = Undoable(attempt)
  BY DEF Undoable
<1>20. attempts # <<>> =>
          /\ Last(attempts) \in Attempt /\ Len(attempts) \in DOMAIN attempts
          /\ Last(attempts) = attempts[Len(attempts)]
          /\ DOMAIN Front(attempts) = DOMAIN attempts \ {Len(attempts)}
          /\ \A i \in DOMAIN Front(attempts) : Front(attempts)[i] = attempts[i]
  <2> SUFFICES ASSUME attempts # <<>>
               PROVE  /\ Last(attempts) \in Attempt /\ Len(attempts) \in DOMAIN attempts
                      /\ Last(attempts) = attempts[Len(attempts)]
                      /\ DOMAIN Front(attempts) = DOMAIN attempts \ {Len(attempts)}
                      /\ \A i \in DOMAIN Front(attempts) : Front(attempts)[i] = attempts[i]
    OBVIOUS
  <2>1. attempts \in Seq(Attempt)
    BY <1>2
  <2> HIDE DEF Books
  <2> QED
    BY ONLY <2>1, attempts # <<>>, WithoutLast
\* No addon's attempt is dropped, and what it does is on its own attempt.
<1>4. ASSUME job.at \in Underway,
             job'.verb = job.verb, job'.began = job.began, job'.clean = job.clean,
             \A i \in DOMAIN attempts : i \in DOMAIN attempts' /\ attempts'[i] = attempts[i],
             \A i \in DOMAIN attempts' \ DOMAIN attempts : attempts'[i].name = Current,
             \A a \in Registry : Clear(a) /\ (a # Current \/ job.at = "inspect") => Clear(a)',
             \/ job'.todo = job.todo /\ job'.at \in Recorded /\ job'.failed = job.failed
             \/ job'.todo = job.todo /\ job'.at = "compensate" /\ job'.failed = job.failed \cup {Current}
      PROVE  OneByOne' /\ Accounted'
  <2>1. job.todo # <<>>
    BY <1>4 DEF Manager, Control
  <2>2. Current' = Current
    BY <1>4 DEF Current
  <2>3. OneByOne'
    BY <1>2, <1>4, <2>1, <2>2, ListShortens DEF OneByOne, Ahead
  <2>4. \A a \in Registry : Pending(a) => Pending(a)'
    BY <1>3, <1>4 DEF Pending
  <2>5. \A a \in Registry : Kept(a) => Kept(a)'
    BY <1>2, <1>4, <2>1, <2>2, ListShortens DEF Kept, Ahead
  <2>6. job.at # "inspect" /\ job.began[Current] = "absent" => Pending(Current)
    <3>1. job.at \in Recorded /\ job.began[Current] = "absent" =>
             attempts # <<>> /\ Last(attempts).name = Current /\ Undoable(Last(attempts))
      BY <1>4 DEF Manager, Control, Labelled, Working, NoJob
    <3>2. attempts # <<>> => Len(attempts) \in DOMAIN attempts /\ Last(attempts) = attempts[Len(attempts)]
      BY <1>2, WithoutLast
    <3> QED
      BY <1>2, <1>4, <3>1, <3>2 DEF Pending
  <2>7. Accounted'
    BY <1>4, <2>4, <2>5, <2>6 DEF Accounted
  <2> QED
    BY <2>3, <2>7
<1>5. CASE Inspect
  <2>1. /\ job.todo # <<>> /\ job.at = "inspect"
        /\ job'.verb = job.verb /\ job'.began = job.began /\ job'.clean = job.clean /\ job'.todo = job.todo
        /\ job'.at \in Recorded /\ job'.failed = job.failed /\ ns' = ns /\ applied' = applied
    BY <1>2, <1>5 DEF Inspect, Manager, Control, Job
  <2>2. [name |-> Current, mutated |-> TRUE, rollback |-> RollbackAllowed(Current)] \in Attempt
    BY <1>2, <2>1, WithoutHead DEF Attempt, RollbackAllowed, Current
  <2>3. /\ \A i \in DOMAIN attempts : i \in DOMAIN attempts' /\ attempts'[i] = attempts[i]
        /\ \A i \in DOMAIN attempts' \ DOMAIN attempts : attempts'[i].name = Current
    BY <1>2, <1>5, <2>2, Appended DEF Inspect
  <2> QED
    BY <1>4, <2>1, <2>3 DEF Clear
<1>6. CASE EnsureNamespace \/ Apply
  <2>1. /\ job.todo # <<>> /\ job.at \in {"ensure", "apply"} /\ attempts' = attempts
        /\ job'.verb = job.verb /\ job'.began = job.began /\ job'.clean = job.clean /\ job'.todo = job.todo
        /\ job'.at \in Recorded /\ job'.failed = job.failed
    BY <1>2, <1>6, ZenonT(40) DEF EnsureNamespace, Apply, Manager, Control, Job
  <2>2. \A a \in Registry \ {Current} : ns'[a] = ns[a] /\ applied'[a] = applied[a]
    BY <1>2, <1>6 DEF EnsureNamespace, Apply
  <2> QED
    BY <1>4, <2>1, <2>2 DEF Clear
<1>7. CASE CallFails \/ (Verify /\ ~Verified(Current))
  <2>1. job.todo # <<>> /\ job.at \in Underway
    BY <1>7 DEF CallFails, Verify, Manager, Control
  <2>2. job' \in {[job EXCEPT !.at = "compensate", !.piece = 0, !.failed = @ \cup {Current}],
                  [job EXCEPT !.at = "compensate", !.piece = 0, !.failed = @ \cup {Current}, !.mishap = TRUE]}
    BY <1>7 DEF CallFails, Verify, Failed
  <2>3. [name |-> Current, mutated |-> FALSE, rollback |-> FALSE] \in Attempt
    BY <1>2, <2>1, WithoutHead DEF Attempt, Current
  <2>4. /\ \A i \in DOMAIN attempts : i \in DOMAIN attempts' /\ attempts'[i] = attempts[i]
        /\ \A i \in DOMAIN attempts' \ DOMAIN attempts : attempts'[i].name = Current
    <3> DEFINE unread == [name |-> Current, mutated |-> FALSE, rollback |-> FALSE]
    <3>1. unread \in Attempt /\ unread.name = Current
      BY <2>3
    <3>2. attempts' = attempts \/ attempts' = Append(attempts, unread)
      BY <1>7 DEF CallFails, Verify
    <3> HIDE DEF unread
    <3> QED
      BY <1>2, <3>1, <3>2, Appended
  <2>5. \A a \in Registry : a # Current \/ job.at = "inspect" => ns'[a] = ns[a] /\ applied'[a] = applied[a]
    BY <1>2, <1>7 DEF CallFails, Verify, Failed
  <2> QED
    BY <1>2, <1>4, <2>1, <2>2, <2>4, <2>5, FailedJob DEF Clear
<1>8. CASE Verify /\ Verified(Current)
  <2>1. /\ job.todo # <<>> /\ job.at = "verify" /\ ns' = ns /\ applied' = applied
        /\ job'.verb = job.verb /\ job'.began = job.began /\ job'.clean = job.clean
        /\ job'.todo = Tail(job.todo) /\ job'.at = "next" /\ job'.failed = job.failed
        /\ attempts' = IF job.verb = "install-all" THEN <<>> ELSE attempts
    BY <1>2, <1>8 DEF Verify, Manager, Control, Job
  <2>2. OneByOne'
    BY <2>1, ListShortens DEF OneByOne, Ahead
  <2>3. \A a \in Registry : Clear(a) \/ Pending(a) \/ Kept(a) => (Clear(a) \/ Pending(a) \/ Kept(a))'
    <3>1. CASE job.verb = "install-all"
      <4>1. \A a \in Registry : Pending(a) => a = Current
        BY <3>1 DEF Pending, OneByOne
      <4>2. \A a \in Registry : Kept(a) \/ a = Current => Kept(a)'
        BY <2>1, <3>1, ListShortens DEF Kept, Ahead
      <4> QED
        BY <2>1, <4>1, <4>2 DEF Clear
    <3>2. CASE job.verb # "install-all"
      BY <1>3, <2>1, <3>2 DEF Clear, Pending, Kept
    <3> QED
      BY <3>1, <3>2
  <2> QED
    BY <2>1, <2>2, <2>3 DEF Accounted
<1>9. CASE NextAddon
  <2>1. /\ job.todo # <<>> /\ job.at = "next" /\ ns' = ns /\ applied' = applied /\ attempts' = attempts
        /\ job'.verb = job.verb /\ job'.began = job.began /\ job'.clean = job.clean
    <3>1. job' \in {[job EXCEPT !.todo = Tail(@), !.failed = @ \cup {Current}], [job EXCEPT !.at = "inspect"]}
      BY <1>9 DEF NextAddon
    <3> QED
      BY <1>2, <1>9, <3>1 DEF NextAddon, Job
  <2>2. \/ job'.todo = job.todo /\ job'.at = "inspect" /\ job'.failed = job.failed
        \/ /\ job.verb = "install-all" /\ job'.at = "next"
           /\ job'.todo = Tail(job.todo) /\ job'.failed = job.failed \cup {Current}
    BY <1>2, <1>9 DEF NextAddon, Job
  <2>3. OneByOne'
    BY <2>1, <2>2, ListShortens DEF OneByOne, Ahead, Current
  <2>4. \A a \in Registry : Kept(a) => Kept(a)'
    BY <2>1, <2>2, ListShortens DEF Kept, Ahead
  <2>5. \A a \in Registry : Clear(a) \/ Pending(a) => (Clear(a) \/ Pending(a))'
    BY <1>3, <2>1 DEF Clear, Pending
  <2> QED
    BY <2>1, <2>3, <2>4, <2>5 DEF Accounted
<1>10. CASE Cancel \/ Compensate
  <2>1. /\ ns' = ns /\ applied' = applied /\ attempts' = attempts
        /\ job'.verb = job.verb /\ job'.began = job.began /\ job'.clean = job.clean
        /\ job'.todo = job.todo /\ job'.failed = job.failed
        /\ job'.at = job.at \/ (job.at = "compensate" /\ job'.at = "uninstall")
    BY <1>2, <1>10 DEF Cancel, Compensate, Job
  <2>2. Ahead' = Ahead /\ Current' = Current
    BY <2>1 DEF Ahead, Current
  <2>3. OneByOne'
    BY <2>1, <2>2 DEF OneByOne
  <2>4. Accounted'
    BY <1>3, <2>1, <2>2 DEF Accounted, Clear, Pending, Kept
  <2> QED
    BY <2>3, <2>4
<1>11. ASSUME job' = NoJob \/ job'.verb \in {"uninstall", "none"} PROVE OneByOne' /\ Accounted'
  BY <1>11 DEF OneByOne, Accounted, NoJob
<1>12. CASE StopBetween
  <2>1. CASE job.verb = "install"
    <3>1. /\ ns' = ns /\ applied' = applied /\ attempts' = attempts /\ job'.at = "compensate"
          /\ job'.verb = job.verb /\ job'.began = job.began /\ job'.clean = job.clean
      BY <1>2, <1>12, <2>1 DEF StopBetween, Job
    <3> QED
      BY <1>3, <2>1, <3>1 DEF OneByOne, Accounted, Clear, Pending, Kept
  <2> QED
    BY <1>11, <1>12, <2>1 DEF StopBetween, Finish
<1>13. CASE DropAttempt
  <2>1. /\ ns' = ns /\ applied' = applied /\ job' = job
        /\ \A i \in DOMAIN attempts' : i \in DOMAIN attempts /\ attempts'[i] = attempts[i]
        /\ \A i \in DOMAIN attempts : Undoable(attempts[i]) => i \in DOMAIN attempts' /\ attempts'[i] = attempts[i]
        /\ job.at = "compensate"
    <3>1. attempts # <<>> /\ ~Undoable(Last(attempts)) /\ attempts' = Front(attempts) /\ job' = job
          /\ ns' = ns /\ applied' = applied /\ job.at = "compensate"
      BY <1>13 DEF DropAttempt
    <3> QED
      BY <1>20, <3>1
  <2>2. Ahead' = Ahead /\ Current' = Current
    BY <2>1 DEF Ahead, Current
  <2>3. OneByOne'
    BY <2>1, <2>2 DEF OneByOne
  <2>4. Accounted'
    BY <1>3, <2>1, <2>2 DEF Accounted, Clear, Pending, Kept
  <2> QED
    BY <2>3, <2>4
<1>14. CASE UninstallAddon \/ UninstallFails
  <2>1. CASE job.verb = "uninstall"
    BY <1>2, <1>11, <1>14, <2>1 DEF UninstallAddon, UninstallFails, Finish, Job
  <2>2. CASE job.verb # "uninstall"
    <3>1. job.at = "uninstall" /\ attempts # <<>> /\ Working
      BY <1>14 DEF UninstallAddon, UninstallFails, Manager, Control, NoJob
    <3>0. PICK a \in Registry : a = Last(attempts).name
      BY <1>20, <3>1 DEF Attempt
    <3>2. /\ attempts' = Front(attempts) /\ job'.at = "compensate" /\ job'.verb = job.verb
          /\ job'.began = job.began /\ job'.todo = job.todo
          /\ \/ UninstallAddon /\ job'.failed = job.failed /\ job'.clean = job.clean
             \/ UninstallFails /\ job'.failed = job.failed \cup {a} /\ job'.clean = FALSE
      <4>1. CASE UninstallAddon
        <5>1. attempts' = Front(attempts) /\ job' = [job EXCEPT !.at = "compensate"]
          BY <2>2, <4>1 DEF UninstallAddon
        <5> QED
          BY <1>2, <4>1, <5>1 DEF Job
      <4>2. CASE UninstallFails
        <5>1. /\ attempts' = Front(attempts)
              /\ job' = [job EXCEPT !.at = "compensate", !.todo = @, !.failed = @ \cup {a},
                                    !.clean = FALSE, !.mishap = TRUE]
          BY <2>2, <3>0, <4>2 DEF UninstallFails
        <5> QED
          BY <1>2, <4>2, <5>1 DEF Job
      <4> QED
        BY <1>14, <4>1, <4>2
    <3>3. /\ \A i \in DOMAIN attempts' : i \in DOMAIN attempts /\ attempts'[i] = attempts[i]
          /\ \A i \in DOMAIN attempts : attempts[i].name # a => i \in DOMAIN attempts' /\ attempts'[i] = attempts[i]
          /\ Len(attempts) \in DOMAIN attempts /\ Last(attempts) = attempts[Len(attempts)] /\ a \in Registry
      BY <1>20, <3>0, <3>1, <3>2
    <3>4. Ahead' = Ahead /\ Current' = Current
      BY <3>1, <3>2 DEF Ahead, Current
    <3>5. OneByOne'
      <4>1. job.verb = "install-all" => a = Current /\ job.todo # <<>>
        BY <3>0, <3>1, <3>3, <2>2 DEF OneByOne, Manager, Control
      <4>2. job.verb = "install-all" => Current \notin ToSet(Tail(job.todo))
        BY <1>2, <4>1, HeadAndTail DEF OneByOne, Current
      <4> QED
        BY <1>14, <3>1, <3>2, <3>3, <3>4, <4>1, <4>2 DEF OneByOne, Ahead
    <3>6. Accounted'
      <4>1. CASE job'.clean = FALSE
        BY <4>1 DEF Accounted
      <4>2. CASE UninstallAddon /\ job'.failed = job.failed /\ job'.clean = job.clean
        <5>1. ns' = [ns EXCEPT ![a] = IF NamespaceDeleted(a) THEN "absent" ELSE @] /\ applied' = [applied EXCEPT ![a] = {}]
          BY <3>0, <4>2 DEF UninstallAddon
        <5>2. job.began[a] = "absent" => Clear(a)'
          <6>1. job.began[a] = "absent" => ns[a] # "foreign"
            BY <3>1, <3>3 DEF Manager, Labelled
          <6> QED
            BY <1>2, <3>3, <5>1, <6>1 DEF Clear, NamespaceDeleted, Owner
        <5>3. \A b \in Registry \ {a} : (Clear(b) => Clear(b)') /\ (Pending(b) => Pending(b)') /\ (Kept(b) => Kept(b)')
          BY <1>2, <1>3, <3>2, <3>3, <3>4, <4>2, <5>1 DEF Clear, Pending, Kept
        <5> QED
          BY <3>2, <3>3, <4>2, <5>2, <5>3 DEF Accounted
      <4> QED
        BY <3>2, <4>1, <4>2
    <3> QED
      BY <3>5, <3>6
  <2> QED
    BY <2>1, <2>2
<1>15. CASE Compensated
  <2>1. CASE job.verb = "install-all"
    <3>1. /\ ns' = ns /\ applied' = applied /\ attempts' = attempts /\ attempts = <<>>
          /\ job'.at = "next" /\ job'.todo = Tail(job.todo) /\ job.todo # <<>> /\ job.at = "compensate"
          /\ job'.verb = job.verb /\ job'.began = job.began /\ job'.clean = job.clean /\ job'.failed = job.failed
      <4>1. job' = [job EXCEPT !.todo = Tail(@), !.at = "next"] /\ job.at = "compensate"
            /\ UNCHANGED <<ns, applied, attempts>> /\ attempts = <<>>
        BY <1>15, <2>1 DEF Compensated
      <4>2. job.todo # <<>>
        BY <4>1 DEF Manager, Control
      <4> QED
        BY <1>2, <4>1, <4>2 DEF Job
    <3>2. Ahead' = Ahead
      BY <3>1 DEF Ahead
    <3>3. OneByOne'
      BY <1>2, <2>1, <3>1, <3>2, HeadAndTail DEF OneByOne
    <3>4. Accounted'
      BY <1>3, <3>1, <3>2 DEF Accounted, Clear, Pending, Kept
    <3> QED
      BY <3>3, <3>4
  <2> QED
    BY <1>11, <1>15, <2>1 DEF Compensated, Finish
<1>16. CASE InstallAll \/ \E a \in Registry : InstallOne(a)
  <2>1. PICK verb \in {"install", "install-all"}, todo \in Seq(Registry) :
           Start(verb, todo) /\ (verb = "install-all" => Distinct(todo))
    <3>1. CASE InstallAll
      BY <3>1, ResolveOrders DEF InstallAll, Manager, Typed, AddonsTypeOK
    <3>2. ASSUME NEW a \in Registry, InstallOne(a)
          PROVE  \E todo \in Seq(Registry) : Start("install", todo)
      <4>1. CollectWithDeps(a) \in SUBSET Registry
        BY DEF CollectWithDeps
      <4> QED
        BY <3>2, <4>1, ResolveOrders DEF InstallOne, Manager, Typed
    <3> QED
      BY <1>16, <3>1, <3>2
  <2>2. /\ ns' = ns /\ applied' = applied /\ attempts' = <<>> /\ job'.began = ns /\ job'.failed = {}
        /\ job'.at = "next" /\ job'.verb = verb /\ job'.todo = todo
    BY <2>1 DEF Start, NoJob
  <2>3. OneByOne'
    BY <2>1, <2>2 DEF OneByOne
  <2>4. Accounted'
    BY <1>2, <2>2 DEF Accounted, Clear
  <2> QED
    BY <2>3, <2>4
<1>17. CASE \E a \in Registry : UninstallCommand(a) \/ SomebodyCreates(a)
  <2>1. job' = NoJob \/ job'.verb \in {"uninstall", "none"}
    BY <1>17 DEF UninstallCommand, SomebodyCreates, NoJob, Working
  <2> QED
    BY <1>11, <2>1
<1>18. CASE AllDone \/ Die
  BY <1>11, <1>18 DEF AllDone, Die, Finish
<1>19. CASE UNCHANGED addonVars
  <2>1. Ahead' = Ahead /\ Current' = Current /\ ns' = ns /\ applied' = applied /\ attempts' = attempts /\ job' = job
    BY <1>19 DEF addonVars, Ahead, Current
  <2> QED
    BY <1>3, <2>1 DEF OneByOne, Accounted, Clear, Pending, Kept
<1> QED
  BY <1>5, <1>6, <1>7, <1>8, <1>9, <1>10, <1>12, <1>13, <1>14, <1>15, <1>16, <1>17, <1>18, <1>19
     DEF AddonsNext, AddonStep

\* Whatever fails on the way, is cancelled or answers late: an install that fails and whose
\* compensation has no error of its own leaves nothing of the addons it failed on where there
\* was nothing before, and asked for one addon nothing of those installed for its sake
\* (installAndVerify, compensate).
THEOREM FailuresAreUndone == AddonsInit /\ [][AddonsNext]_addonVars => NoDebris
<1> DEFINE Undone ==
       Working /\ ended'.verb \in {"install", "install-all"} /\ ~ended'.ok /\ job.clean =>
           \A a \in IF job.verb = "install" THEN Registry ELSE ended'.failed :
               job.began[a] = "absent" => ns'[a] = "absent" /\ applied'[a] = {}
<1>1. ASSUME Books, [AddonsNext]_addonVars PROVE [Undone]_addonVars
  <2> USE <1>1 DEF Books
  <2> SUFFICES ASSUME Working, ended'.verb \in {"install", "install-all"}, ~ended'.ok, job.clean,
                      NEW a \in IF job.verb = "install" THEN Registry ELSE ended'.failed,
                      job.began[a] = "absent"
               PROVE  ns'[a] = "absent" /\ applied'[a] = {}
    OBVIOUS
  <2>1. ended' # ended
    BY DEF Manager, Control, NotEnded
  <2>2. \/ AllDone
        \/ StopBetween /\ job.verb # "install"
        \/ Compensated /\ job.verb # "install-all"
        \/ UninstallAddon /\ job.verb = "uninstall"
    <3>1. ~Die
      BY DEF Die, NotEnded
    <3>2. ~(InstallAll \/ \E b \in Registry : InstallOne(b) \/ UninstallCommand(b) \/ SomebodyCreates(b))
      BY DEF InstallAll, InstallOne, UninstallCommand, SomebodyCreates
    <3>3. ~(NextAddon \/ Inspect \/ EnsureNamespace \/ Apply \/ Verify \/ CallFails \/ Cancel \/ DropAttempt
            \/ Compensate \/ UninstallFails \/ UNCHANGED addonVars)
      BY <2>1 DEF NextAddon, Inspect, EnsureNamespace, Apply, Verify, CallFails, Failed, Cancel, DropAttempt,
         Compensate, UninstallFails, addonVars
    <3>4. /\ StopBetween /\ job.verb = "install" => ended' = ended
          /\ Compensated /\ job.verb = "install-all" => ended' = ended
          /\ UninstallAddon /\ job.verb # "uninstall" => ended' = ended
      BY DEF StopBetween, Compensated, UninstallAddon
    <3> QED
      BY <2>1, <3>1, <3>2, <3>3, <3>4 DEF AddonsNext, AddonStep
  <2>3. ended'.verb = job.verb /\ ended'.failed = job.failed /\ (AllDone => job.failed # {})
    <3>1. PICK ok \in BOOLEAN :
             /\ ended' = [verb |-> job.verb, ok |-> ok /\ job.failed = {}, failed |-> job.failed]
             /\ AllDone => ok = TRUE
      <4>1. AllDone \/ Finish(FALSE) \/ (Finish(TRUE) /\ ~AllDone)
        BY <2>2 DEF StopBetween, Compensated, UninstallAddon
      <4>2. AllDone => Finish(TRUE)
        BY DEF AllDone
      <4>3. CASE Finish(TRUE)
        BY <4>3 DEF Finish
      <4>4. CASE Finish(FALSE) /\ ~AllDone
        BY <4>4 DEF Finish
      <4> QED
        BY <4>1, <4>2, <4>3, <4>4
    <3>2. ended'.ok = (ok /\ job.failed = {})
      BY <3>1
    <3>3. AllDone => job.failed # {}
      BY <3>1, <3>2
    <3> QED
      BY <3>1, <3>3
  <2>4. AllDone \/ (StopBetween /\ job.verb # "install") \/ (Compensated /\ job.verb # "install-all")
    BY <2>2, <2>3
  <2>5. UNCHANGED <<ns, applied>>
    BY <2>4 DEF AllDone, StopBetween, Compensated
  <2>6. attempts = <<>> /\ ~Kept(a)
    <3>1. CASE AllDone \/ StopBetween
      <4>1. job.at = "next"
        BY <3>1 DEF AllDone, StopBetween
      <4>2. AllDone => job.failed # {}
        BY <2>3 DEF AllDone
      <4>3. job.verb = "install-all"
        BY <2>3, <2>4, <4>1, <4>2 DEF OneByOne, Undoing, Compensated
      <4> QED
        BY <2>3, <4>1, <4>3 DEF OneByOne, Kept
    <3>2. CASE Compensated /\ job.verb # "install-all"
      BY <3>2 DEF Compensated, Kept
    <3> QED
      BY <2>4, <3>1, <3>2
  <2>7. a \in Registry
    BY <2>3 DEF Manager, Typed, Job
  <2>8. Clear(a)
    BY <2>3, <2>6, <2>7 DEF Accounted, Pending
  <2> QED
    BY <2>5, <2>8 DEF Clear
<1>2. ASSUME Books, [AddonsNext]_addonVars PROVE Books'
  BY <1>2, ManagerGoesOn, BooksGoOn DEF Books
<1> QED
  BY <1>1, <1>2, BooksBegin, PTL DEF NoDebris

=============================================================================
