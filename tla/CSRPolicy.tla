----------------------------- MODULE CSRPolicy -----------------------------
(***************************************************************************)
(* Which certificate signing requests okdctl approves: those of the nodes  *)
(* of the operation that runs, with what a kubelet asks for and no more.   *)
(* A request is reduced to what the policy tells apart.                    *)
(***************************************************************************)
EXTENDS Naturals, FiniteSets

CONSTANTS Expected,    \* nodes of the operation that runs
          Outsiders    \* other names a certificate may carry

\* ExpectedCSRIdentities: with a target, that node only; nobody is an error.
ExpectedCSRIdentities(target) ==
    IF target = "any" THEN Expected ELSE Expected \cap {target}

Signers == {"client", "serving", "other"}
Requesters == {"bootstrapper", "self", "other"}

\* name: of the subject; sans: the names and addresses it is to be valid for;
\* usages: exactly the signer's, or others; form: a signed request of the node
\* group, with no extension but the alternative names.
Requests == [name : Expected \cup Outsiders, signer : Signers, by : Requesters,
             sans : SUBSET (Expected \cup Outsiders), usages : {"exact", "more", "less"},
             form : {"good", "bad"}, ids : {"complete", "missing"}]

ValidCSRUsages(csr) == csr.usages = "exact"

SANsInclude(csr, identity) == identity \in csr.sans
ValidateServingSANs(csr, identity) == csr.sans # {} /\ csr.sans \subseteq {identity}

ValidateOwn(csr, identities) ==
    /\ csr.ids = "complete" /\ csr.form = "good" /\ csr.name \in identities /\ csr.by = "self"

ValidateCSR(csr, identities) ==
    /\ csr.ids = "complete" /\ csr.form = "good" /\ csr.name \in identities
    /\ \/ /\ csr.signer = "client" /\ ValidCSRUsages(csr) /\ csr.sans = {}
          /\ csr.by \in {"bootstrapper", "self"}
       \/ /\ csr.signer = "serving" /\ csr.by = "self" /\ ValidCSRUsages(csr)
          /\ ValidateServingSANs(csr, csr.name)

=============================================================================
