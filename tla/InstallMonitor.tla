--------------------------- MODULE InstallMonitor ---------------------------
(***************************************************************************)
(* MonitorInstallation: openshift-install waits for the cluster while      *)
(* okdctl approves, at every tick, the certificate requests of the nodes   *)
(* the cluster needs to complete.  Requests come, are replaced and are     *)
(* approved while the approver works on the list it took.                  *)
(***************************************************************************)
EXTENDS CSRPolicy

CONSTANTS Fishy,           \* requests that outsiders may file
          MonitorFaults    \* calls that fail, and requests replaced under the list

ASSUME MonitorAssumption ==
    MonitorFaults \in Nat /\ Fishy \subseteq Requests /\ IsFiniteSet(Expected)

VARIABLES
    pending,     \* unanswered requests of the cluster, with their resource version
    granted,     \* requests that were approved
    joined,      \* how far each node is: waiting, client, serving
    installer,   \* the child: running, done, failed, killed, gone
    monitor,     \* the loop
    hiccups

monitorVars == <<pending, granted, joined, installer, monitor, hiccups>>

Idle == [at |-> "wait", list |-> {}, outcome |-> "none"]
Hiccup == hiccups < MonitorFaults /\ hiccups' = hiccups + 1

KubeletRequest(n, signer) ==
    [name |-> n, signer |-> signer, by |-> IF signer = "client" THEN "bootstrapper" ELSE "self",
     sans |-> IF signer = "client" THEN {} ELSE {n}, usages |-> "exact", form |-> "good",
     ids |-> "complete"]

-----------------------------------------------------------------------------
(* The cluster and the installer, outside okdctl *)

\* A kubelet asks for its client certificate and, once it has it, for the serving one.
NodeAsks(n) ==
    /\ \E signer \in {"client", "serving"} :
          LET request == KubeletRequest(n, signer) IN
          /\ signer = IF joined[n] = "waiting" THEN "client" ELSE "serving"
          /\ joined[n] # "serving" /\ \A p \in pending : p.csr # request
          /\ pending' = pending \cup {[csr |-> request, version |-> 0]}
    /\ UNCHANGED <<granted, joined, installer, monitor, hiccups>>

StrangerAsks(csr) ==
    /\ \A p \in pending : p.csr # csr
    /\ pending' = pending \cup {[csr |-> csr, version |-> 0]}
    /\ UNCHANGED <<granted, joined, installer, monitor, hiccups>>

\* A request is replaced by another, of the same name, while the approver has it listed.
Replaced(p, csr) ==
    /\ p \in monitor.list /\ p \in pending /\ Hiccup
    /\ pending' = (pending \ {p}) \cup {[csr |-> csr, version |-> 1]}
    /\ UNCHANGED <<granted, joined, installer, monitor>>

\* The cluster completes when its nodes serve; openshift-install may fail before.
InstallerEnds ==
    /\ installer = "running"
    /\ \/ /\ \A n \in Expected : joined[n] = "serving"
          /\ installer' = "done" /\ hiccups' = hiccups
       \/ installer' = "failed" /\ Hiccup
    /\ UNCHANGED <<pending, granted, joined, monitor>>

InstallerDies ==
    /\ installer = "killed" /\ installer' = "gone"
    /\ UNCHANGED <<pending, granted, joined, monitor, hiccups>>

-----------------------------------------------------------------------------
(* MonitorInstallation *)

End(outcome) == monitor' = [monitor EXCEPT !.at = "ended", !.outcome = outcome, !.list = {}]

\* A tick, or the final approval once the installer reported success.  (A tick that
\* Go's select takes after the context ended lists nothing.)
PendingCSRs ==
    /\ \/ monitor.at = "wait" /\ installer # "killed"
       \/ monitor.at = "final"
    /\ LET next == IF monitor.at = "wait" THEN "approve" ELSE "approve-last" IN
       \/ monitor' = [monitor EXCEPT !.at = next, !.list = pending] /\ hiccups' = hiccups
       \/ monitor' = [monitor EXCEPT !.at = next, !.list = {}] /\ Hiccup
    /\ UNCHANGED <<pending, granted, joined, installer>>

\* ApprovePendingCSRs, one of the list: left pending when it is not of this
\* operation; the approval names the listed version, so a conflict leaves it too.
ApproveCSR(p) ==
    /\ monitor.at \in {"approve", "approve-last"} /\ p \in monitor.list
    /\ monitor' = [monitor EXCEPT !.list = @ \ {p}]
    /\ IF ValidateCSR(p.csr, ExpectedCSRIdentities("any")) /\ p \in pending
       THEN \/ /\ pending' = pending \ {p} /\ granted' = granted \cup {p.csr}
               /\ joined' = [joined EXCEPT ![p.csr.name] =
                     IF p.csr.signer = "serving" THEN "serving" ELSE "client"]
               /\ hiccups' = hiccups
            \/ Hiccup /\ UNCHANGED <<pending, granted, joined>>
       ELSE UNCHANGED <<pending, granted, joined, hiccups>>
    /\ installer' = installer

Approved ==
    /\ monitor.at \in {"approve", "approve-last"} /\ monitor.list = {}
    /\ IF monitor.at = "approve" THEN monitor' = [monitor EXCEPT !.at = "wait"] ELSE End("complete")
    /\ UNCHANGED <<pending, granted, joined, installer, hiccups>>

InstallDone ==
    /\ monitor.at = "wait" /\ installer \in {"done", "failed", "gone"}
    /\ IF installer = "done" THEN monitor' = [monitor EXCEPT !.at = "final"] ELSE End("failed")
    /\ UNCHANGED <<pending, granted, joined, installer, hiccups>>

\* The deadline passes or the operator interrupts: the child is killed with the context.
ContextEnds ==
    /\ installer = "running" /\ monitor.at # "ended" /\ Hiccup
    /\ installer' = "killed"
    /\ UNCHANGED <<pending, granted, joined, monitor>>

CtxDone ==
    /\ monitor.at = "wait" /\ installer \in {"killed", "gone"}
    /\ monitor' = [monitor EXCEPT !.at = "reap"]
    /\ UNCHANGED <<pending, granted, joined, installer, hiccups>>

\* reapInstall waits for the child, and gives it up after its grace.
ReapInstall ==
    /\ monitor.at = "reap"
    /\ \/ installer = "gone" /\ End("stopped") /\ hiccups' = hiccups
       \/ installer # "gone" /\ End("abandoned") /\ Hiccup
    /\ UNCHANGED <<pending, granted, joined, installer>>

MonitorInit ==
    /\ pending = {} /\ granted = {} /\ joined = [n \in Expected |-> "waiting"]
    /\ installer = "running" /\ monitor = Idle /\ hiccups = 0

MonitorStep ==
    \/ PendingCSRs \/ Approved \/ InstallDone \/ CtxDone \/ ReapInstall
    \/ \E p \in monitor.list : ApproveCSR(p)

Monitor ==
    \/ MonitorStep \/ ContextEnds \/ InstallerEnds \/ InstallerDies
    \/ \E n \in Expected : NodeAsks(n)
    \/ \E csr \in Fishy : StrangerAsks(csr) \/ \E p \in monitor.list : Replaced(p, csr)

MonitorSpec ==
    /\ MonitorInit /\ [][Monitor]_monitorVars
    /\ WF_monitorVars(MonitorStep) /\ SF_monitorVars(InstallDone)
    /\ WF_monitorVars(InstallerEnds) /\ WF_monitorVars(InstallerDies)
    /\ \A n \in Expected : WF_monitorVars(NodeAsks(n))

-----------------------------------------------------------------------------
(* What the approver and the monitor promise *)

MonitorTypeOK ==
    /\ joined \in [Expected -> {"waiting", "client", "serving"}]
    /\ granted \subseteq Requests /\ monitor.list \subseteq [csr : Requests, version : 0..1]
    /\ installer \in {"running", "done", "failed", "killed", "gone"} /\ hiccups \in 0..MonitorFaults

\* Whatever is filed or swapped while the list is worked off, no certificate is
\* granted but to a node of the operation, in its own name and for itself alone.
OnlyExpected ==
    \A csr \in granted : /\ csr.name \in Expected /\ csr.sans \subseteq {csr.name}
                         /\ csr.by # "other"
                         /\ csr.signer = "serving" => csr.by = "self"

\* The loop is over, and unless something failed or the context ended it saw the
\* installation complete.
MonitorSettled == monitor.at = "ended" /\ (monitor.outcome = "complete" \/ hiccups > 0)

=============================================================================
