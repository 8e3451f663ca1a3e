--------------------------- MODULE UpdateIngress ---------------------------
(***************************************************************************)
(* okdctl update-ingress: converts the cluster's host-network ingress      *)
(* controllers to load balancers by deleting and recreating them, points   *)
(* the bastion's dnsmasq at the cluster, and retires the bastion's         *)
(* HAProxy.  A controller under deletion goes away in its own time.        *)
(***************************************************************************)
EXTENDS Naturals

CONSTANT IngressFaults   \* calls that fail and processes that die

ASSUME IngressAssumption == IngressFaults \in Nat

Controllers == {"default", "extra"}

VARIABLES
    ics,       \* the controllers in the cluster
    backup,    \* controllers whose original is on disk
    dnsmasq,   \* where dnsmasq sends api.* and *.apps
    haproxy,   \* the bastion's HAProxy runs
    metallb,   \* MetalLB with an address pool is there
    ingress,   \* the command that runs
    misses,    \* faults so far
    overtaken  \* history: controllers not back yet from a deletion that a later
               \* command did not wait for

ingressVars == <<ics, backup, dnsmasq, haproxy, metallb, ingress, misses, overtaken>>

NoIngress == [at |-> "none", seen |-> [c \in Controllers |-> "absent"], bootstrap |-> FALSE,
              todo |-> {}, subject |-> "none", remove |-> FALSE, converted |-> FALSE]

Updating == ingress.at # "none"
Miss == misses < IngressFaults /\ misses' = misses + 1
GoTo(place) == ingress' = [ingress EXCEPT !.at = place]
GiveUp == ingress' = NoIngress
StillOvertaken == overtaken' = {c \in overtaken : ics'[c] \in {"terminating", "absent"}}

HostSeen == {c \in Controllers : ingress.seen[c] = "host"}
LBSeen == {c \in Controllers : ingress.seen[c] = "lb"}

\* What oc get shows: a controller under deletion is still listed, as it was.
Listed == [c \in Controllers |-> IF ics[c] = "terminating" THEN "host" ELSE ics[c]]

-----------------------------------------------------------------------------
(* UpdateIngress: discovery, and the backups of an interrupted conversion *)

BeginUpdate ==
    /\ ~Updating
    /\ \E remove \in BOOLEAN :
          ingress' = [NoIngress EXCEPT !.at = "discover", !.remove = remove,
                                       !.bootstrap = dnsmasq.api = "bastion"]
    /\ overtaken' = overtaken \cup {c \in Controllers : ics[c] = "terminating"}
    /\ UNCHANGED <<ics, backup, dnsmasq, haproxy, metallb, misses>>

Discover ==
    /\ ingress.at \in {"discover", "rediscover", "recount"}
    /\ ingress' = [ingress EXCEPT
          !.seen = Listed,
          !.todo = IF ingress.at = "discover" THEN backup ELSE {},
          !.at = CASE ingress.at = "discover" -> "restore"
                   [] ingress.at = "rediscover" -> "restored"
                   [] OTHER -> "collect"]
    /\ UNCHANGED <<ics, backup, dnsmasq, haproxy, metallb, misses>>

\* Unreachable: with bootstrap DNS the first discovery settles for the API name.
DiscoverFails ==
    /\ ingress.at \in {"discover", "rediscover", "recount"} /\ Miss
    /\ IF ingress.at = "discover" /\ ingress.bootstrap THEN GoTo("api-only") ELSE GiveUp
    /\ UNCHANGED <<ics, backup, dnsmasq, haproxy, metallb>> /\ StillOvertaken

RestoreAndForget(c) ==
    /\ ingress.at = "restore" /\ c \in ingress.todo
    /\ backup' = backup \ {c}
    /\ ingress' = [ingress EXCEPT !.todo = @ \ {c}, !.converted = TRUE]
    /\ \/ ics' = (IF ics[c] = "absent" THEN [ics EXCEPT ![c] = "host"] ELSE ics) /\ misses' = misses
       \/ Miss /\ ics' = ics
    /\ UNCHANGED <<dnsmasq, haproxy, metallb>>

\* restoreOrphanedIngressBackups, one backup: dropped when the controller was
\* listed, else created anew and then dropped; kept when the creation fails.
RestoreBackup(c) ==
    /\ ingress.at = "restore" /\ c \in ingress.todo
    /\ \/ /\ ingress.seen[c] # "absent"
          /\ backup' = backup \ {c} /\ UNCHANGED <<ics, misses>>
          /\ ingress' = [ingress EXCEPT !.todo = @ \ {c}]
       \/ /\ ingress.seen[c] = "absent" /\ ics[c] = "absent"
          /\ ics' = [ics EXCEPT ![c] = "host"] /\ backup' = backup \ {c} /\ misses' = misses
          /\ ingress' = [ingress EXCEPT !.todo = @ \ {c}, !.converted = TRUE]
       \/ /\ ingress.seen[c] = "absent" /\ Miss
          /\ ingress' = [ingress EXCEPT !.todo = @ \ {c}]
          /\ UNCHANGED <<ics, backup>>
    /\ UNCHANGED <<dnsmasq, haproxy, metallb>>

Restored ==
    /\ ingress.at = "restore" /\ ingress.todo = {}
    /\ ingress' = [ingress EXCEPT !.at = IF ingress.converted THEN "rediscover" ELSE "restored",
                                  !.converted = FALSE]
    /\ UNCHANGED <<ics, backup, dnsmasq, haproxy, metallb, misses>>

\* No controller at all is an error, or a DNS-only run; host-network ones are
\* converted when MetalLB answers and the operator agrees.
Divide ==
    /\ ingress.at = "restored"
    /\ CASE HostSeen \cup LBSeen = {} -> IF ingress.bootstrap THEN GoTo("api-only") ELSE GiveUp
         [] HostSeen \cup LBSeen # {} /\ HostSeen # {} /\ metallb ->
               \/ ingress' = [ingress EXCEPT !.at = "convert", !.todo = HostSeen]
               \/ GoTo("collect")
         [] OTHER -> GoTo("collect")
    /\ UNCHANGED <<ics, backup, dnsmasq, haproxy, metallb, misses>>

-----------------------------------------------------------------------------
(* convertToLoadBalancer *)

\* The original is on disk before the controller is deleted.
BackUp(c) ==
    /\ ingress.at = "convert" /\ c \in ingress.todo
    /\ backup' = backup \cup {c}
    /\ ingress' = [ingress EXCEPT !.at = "delete", !.subject = c, !.todo = @ \ {c}]
    /\ UNCHANGED <<ics, dnsmasq, haproxy, metallb, misses>>

\* oc delete: of one that is not there it fails; one that fails, or is killed, may
\* have been accepted; the backup stays.
DeleteController ==
    /\ ingress.at = "delete"
    /\ LET c == ingress.subject IN
       \/ /\ ics[c] # "absent" /\ ics' = [ics EXCEPT ![c] = "terminating"]
          /\ GoTo("await-gone") /\ misses' = misses
       \/ ics[c] = "absent" /\ ics' = ics /\ GiveUp /\ misses' = misses
       \/ \E accepted \in BOOLEAN :
             /\ ics' = IF accepted /\ ics[c] # "absent" THEN [ics EXCEPT ![c] = "terminating"] ELSE ics
             /\ GiveUp /\ Miss
    /\ UNCHANGED <<backup, dnsmasq, haproxy, metallb>>

\* waitForRouterGone, which may time out.
RouterGone ==
    /\ ingress.at = "await-gone"
    /\ \/ ics[ingress.subject] = "absent" /\ GoTo("create") /\ misses' = misses
       \/ GiveUp /\ Miss
    /\ UNCHANGED <<ics, backup, dnsmasq, haproxy, metallb>>

CreateReplacement ==
    /\ ingress.at = "create"
    /\ \/ /\ ics' = [ics EXCEPT ![ingress.subject] = "lb"]
          /\ backup' = backup \ {ingress.subject}
          /\ ingress' = [ingress EXCEPT !.at = "convert", !.converted = TRUE, !.subject = "none"]
          /\ misses' = misses
       \/ GoTo("recreate") /\ Miss /\ UNCHANGED <<ics, backup>>
    /\ UNCHANGED <<dnsmasq, haproxy, metallb>>

RollbackForgets ==
    /\ ingress.at = "recreate"
    /\ backup' = backup \ {ingress.subject} /\ GiveUp
    /\ \/ ics' = [ics EXCEPT ![ingress.subject] = "host"] /\ misses' = misses
       \/ Miss /\ ics' = ics
    /\ UNCHANGED <<dnsmasq, haproxy, metallb>>

\* attemptRollback; the backup goes with it when it worked.
Rollback ==
    /\ ingress.at = "recreate"
    /\ \/ /\ ics' = [ics EXCEPT ![ingress.subject] = "host"]
          /\ backup' = backup \ {ingress.subject} /\ misses' = misses
       \/ Miss /\ UNCHANGED <<ics, backup>>
    /\ GiveUp
    /\ UNCHANGED <<dnsmasq, haproxy, metallb>>

AllConverted ==
    /\ ingress.at = "convert" /\ ingress.todo = {}
    /\ GoTo("recount")
    /\ UNCHANGED <<ics, backup, dnsmasq, haproxy, metallb, misses>>

-----------------------------------------------------------------------------
(* collectLBEntries, finalizeIngress and RemoveHAProxy *)

\* Only the default controller's missing address is an error.
CollectLBEntries ==
    /\ ingress.at = "collect"
    /\ \/ GoTo("dns") /\ misses' = misses
       \/ "default" \in LBSeen /\ GiveUp /\ Miss
    /\ UNCHANGED <<ics, backup, dnsmasq, haproxy, metallb>>

AppsIP == IF "default" \in LBSeen THEN "lb" ELSE "bastion"

\* DeployProduction: a rejected configuration is put back as it was.
DeployProduction ==
    /\ ingress.at \in {"dns", "api-only"}
    /\ \/ /\ dnsmasq' = [api |-> "vip", apps |-> IF ingress.at = "dns" THEN AppsIP ELSE "bastion"]
          /\ misses' = misses
          /\ IF ingress.at = "dns" /\ ingress.remove /\ HostSeen = {} THEN GoTo("preflight") ELSE GiveUp
       \/ dnsmasq' = dnsmasq /\ GiveUp /\ Miss
    /\ UNCHANGED <<ics, backup, haproxy, metallb>>

\* The API must answer at the VIP and by its name before HAProxy goes; if it does
\* not, the names are pointed back at the bastion.
Preflight ==
    /\ ingress.at = "preflight"
    /\ \/ GoTo("retire") /\ misses' = misses
       \/ GoTo("undo-dns") /\ Miss
    /\ UNCHANGED <<ics, backup, dnsmasq, haproxy, metallb>>

\* Stopping it, its configuration, ports and address are best effort.
RetireHAProxy ==
    /\ ingress.at = "retire"
    /\ \/ haproxy' = FALSE /\ misses' = misses
       \/ haproxy' = haproxy /\ Miss
    /\ GiveUp
    /\ UNCHANGED <<ics, backup, dnsmasq, metallb>>

UndoDNS ==
    /\ ingress.at = "undo-dns"
    /\ \/ dnsmasq' = [api |-> "bastion", apps |-> "bastion"] /\ misses' = misses
       \/ dnsmasq' = dnsmasq /\ Miss
    /\ GiveUp
    /\ UNCHANGED <<ics, backup, haproxy, metallb>>

-----------------------------------------------------------------------------
(* Around the command *)

Interrupted ==
    /\ Updating /\ Miss /\ GiveUp
    /\ UNCHANGED <<ics, backup, dnsmasq, haproxy, metallb>> /\ StillOvertaken

\* The ingress operator takes the router down, and then the controller is gone.
Terminated(c) ==
    /\ ics[c] = "terminating" /\ ics' = [ics EXCEPT ![c] = "absent"]
    /\ UNCHANGED <<backup, dnsmasq, haproxy, metallb, ingress, misses>> /\ StillOvertaken

IngressInit ==
    /\ ics \in [Controllers -> {"host", "lb"}]
    /\ backup = {} /\ haproxy = TRUE /\ metallb \in BOOLEAN
    /\ dnsmasq \in {[api |-> a, apps |-> "bastion"] : a \in {"bastion", "vip"}}
    /\ ingress = NoIngress /\ misses = 0 /\ overtaken = {}

IngressStep ==
    /\ \/ Discover \/ Restored \/ Divide \/ AllConverted
       \/ \E c \in Controllers : RestoreBackup(c) \/ BackUp(c)
       \/ DeleteController \/ RouterGone \/ CreateReplacement \/ Rollback
       \/ CollectLBEntries \/ DeployProduction \/ Preflight \/ RetireHAProxy \/ UndoDNS
    /\ StillOvertaken

Ingress ==
    \/ BeginUpdate \/ DiscoverFails \/ Interrupted \/ IngressStep
    \/ \E c \in Controllers : Terminated(c)

IngressSpec ==
    /\ IngressInit /\ [][Ingress]_ingressVars /\ WF_ingressVars(IngressStep)
    /\ \A c \in Controllers : WF_ingressVars(Terminated(c))

-----------------------------------------------------------------------------
(* What a run promises *)

IngressTypeOK ==
    /\ ics \in [Controllers -> {"absent", "host", "lb", "terminating"}]
    /\ backup \subseteq Controllers /\ misses \in 0..IngressFaults
    /\ dnsmasq.api \in {"bastion", "vip"} /\ dnsmasq.apps \in {"bastion", "lb"}
    /\ overtaken \subseteq Controllers

\* convertToLoadBalancer writes the backup before the deletion so that a crash in
\* between leaves a copy to restore: a controller that was there and is not any more
\* has its original on disk, through failures, kills and repeated runs.  A later command
\* may drop the copy of one whose deletion it finds under way, and only of such a one.
Recoverable ==
    \A c \in Controllers \ overtaken : ics[c] \in {"terminating", "absent"} => c \in backup

\* Conversion, seen through what the code keeps: a controller that is going or gone
\* is away while its original is on disk, and lost without it.
Abstract == INSTANCE Conversion WITH
    place <- [c \in Controllers |->
                 IF ics[c] \notin {"terminating", "absent"} THEN ics[c]
                 ELSE IF c \in backup THEN "away" ELSE "lost"],
    atRisk <- overtaken, retired <- ~haproxy

\* The command, failed, killed and repeated, only ever does what Conversion allows: a
\* controller leaves the host network with its original on disk, comes back from there
\* or behind the load balancer, is lost only when a command overtook its deletion, and
\* HAProxy, once retired, is not started again.
ImplementsConversion == Abstract!ConversionSpec

=============================================================================
