------------------------ MODULE UpdateIngress_proofs ------------------------
(***************************************************************************)
(* Proofs, for any number of failures and kills, that update-ingress never *)
(* loses a controller, but one whose deletion a later run of it overtook,  *)
(* and implements Conversion.                                              *)
(***************************************************************************)
EXTENDS UpdateIngress, TLAPS

-----------------------------------------------------------------------------
(* The inductive invariant *)

IngressPlaces == {"none", "discover", "rediscover", "recount", "restore", "restored", "convert",
           "delete", "await-gone", "create", "recreate", "collect", "dns", "api-only",
           "preflight", "retire", "undo-dns"}
IngressRuns == [at : IngressPlaces, seen : [Controllers -> {"absent", "host", "lb"}], bootstrap : BOOLEAN,
         todo : SUBSET Controllers, subject : Controllers \cup {"none"}, remove : BOOLEAN,
         converted : BOOLEAN]

IngressTyped == IngressTypeOK /\ ingress \in IngressRuns /\ haproxy \in BOOLEAN

\* An overtaken controller is not back yet.
Behind == \A c \in overtaken : ics[c] \in {"terminating", "absent"}
InTime == Controllers \ overtaken

\* A controller that was not overtaken is on its way out only while the command waits
\* for it, or after the command was given up.
Calm ==
    /\ ingress.at \notin {"none", "await-gone"} => \A c \in InTime : ics[c] # "terminating"
    /\ ingress.at = "await-gone" =>
          \A c \in InTime \ {ingress.subject} : ics[c] # "terminating"

\* What the command decides on is what is there: a backup dropped for a listed
\* controller is not needed, and the host-network ones are those it saw.
SeesTruly ==
    /\ ingress.at = "restore" =>
          \A c \in Controllers :
             /\ ingress.seen[c] # "absent" => ics[c] # "absent" \/ c \in overtaken
             /\ ingress.seen[c] = "host" => ics[c] = "host" \/ c \in overtaken
             /\ ics[c] = "host" => ingress.seen[c] = "host" \/ ingress.converted
    /\ ingress.at \in {"restored", "collect", "dns"} =>
          \A c \in Controllers :
             /\ ics[c] = "host" => ingress.seen[c] = "host"
             /\ ingress.seen[c] = "host" => ics[c] = "host" \/ c \in overtaken
    /\ ingress.at \in {"preflight", "retire"} => \A c \in Controllers : ics[c] # "host"

\* Those still to be converted are on the host network, or overtaken; the one under
\* conversion is where its stage says, with its original on disk, and the backups still
\* to be looked at are there.
Converting ==
    /\ ingress.at = "restore" => ingress.todo \subseteq backup
    /\ ingress.at \in {"convert", "delete", "await-gone", "create"} =>
          \A c \in ingress.todo : ics[c] = "host" \/ c \in overtaken
    /\ ingress.at \in {"delete", "await-gone", "create", "recreate"} =>
          /\ ingress.subject \in Controllers \ ingress.todo
          /\ ingress.subject \in backup
    /\ ingress.at = "delete" => ics[ingress.subject] = "host" \/ ingress.subject \in overtaken
    /\ ingress.at = "await-gone" => ics[ingress.subject] \in {"terminating", "absent"}
    /\ ingress.at \in {"create", "recreate"} => ics[ingress.subject] = "absent"

IngressInv == IngressTyped /\ Behind /\ Recoverable /\ Calm /\ SeesTruly /\ Converting

-----------------------------------------------------------------------------
LEMMA IngressBegins == IngressInit => IngressInv
BY IngressAssumption
DEF IngressInit, IngressInv, IngressTyped, IngressTypeOK, IngressRuns, IngressPlaces, NoIngress, Recoverable, Calm,
    SeesTruly, Converting, Behind, InTime

\* A command that is given up leaves nothing that the next one relies on but the
\* controllers and their originals.
LEMMA IngressGivenUp ==
    ASSUME IngressInv, GiveUp, ics' \in [Controllers -> {"absent", "host", "lb", "terminating"}],
           backup' \subseteq Controllers, misses' \in 0..IngressFaults, haproxy' \in BOOLEAN,
           dnsmasq'.api \in {"bastion", "vip"}, dnsmasq'.apps \in {"bastion", "lb"},
           Recoverable', StillOvertaken
    PROVE  IngressInv'
BY DEF IngressInv, GiveUp, NoIngress, IngressTyped, IngressTypeOK, IngressRuns, IngressPlaces, Calm, SeesTruly,
   Converting, Behind, InTime, StillOvertaken

\* As long as no overtaken controller comes back, all of them are.
LEMMA NobodyBack ==
    ASSUME IngressInv, StillOvertaken, \A c \in overtaken : ics'[c] \in {"terminating", "absent"}
    PROVE  overtaken' = overtaken
BY DEF StillOvertaken

LEMMA NothingMoves ==
    ASSUME IngressInv, StillOvertaken, ics' = ics
    PROVE  overtaken' = overtaken /\ Behind'
BY NobodyBack DEF IngressInv, Behind

LEMMA MissType == ASSUME IngressInv, Miss \/ misses' = misses PROVE misses' \in 0..IngressFaults
BY IngressAssumption DEF IngressInv, IngressTyped, IngressTypeOK, Miss

LEMMA Discovers ==
    ASSUME IngressInv, BeginUpdate \/ DiscoverFails \/ (Discover /\ StillOvertaken)
    PROVE  IngressInv'
<1>1. CASE BeginUpdate
  <2>1. PICK remove \in BOOLEAN, bootstrap \in BOOLEAN :
           ingress' = [NoIngress EXCEPT !.at = "discover", !.remove = remove, !.bootstrap = bootstrap]
    <3>1. (dnsmasq.api = "bastion") \in BOOLEAN
      OBVIOUS
    <3> QED
      BY <1>1, <3>1 DEF BeginUpdate
  <2>2. ingress' \in IngressRuns /\ ingress'.at = "discover"
    BY <2>1 DEF NoIngress, IngressRuns, IngressPlaces
  <2>3. \A c \in InTime' : c \in InTime /\ ics[c] # "terminating"
    BY <1>1 DEF BeginUpdate, InTime
  <2>4. Behind' /\ overtaken' \subseteq Controllers
    BY <1>1 DEF BeginUpdate, IngressInv, IngressTyped, IngressTypeOK, Behind
  <2> QED
    BY <1>1, <2>2, <2>3, <2>4
    DEF BeginUpdate, IngressInv, IngressTyped, IngressTypeOK, Recoverable, Calm, SeesTruly, Converting, InTime
<1>2. CASE Discover /\ StillOvertaken
  <2>0. ics' = ics /\ overtaken' = overtaken /\ Behind'
    BY <1>2, NothingMoves DEF Discover
  <2>1. ingress'.seen = Listed /\ Listed \in [Controllers -> {"absent", "host", "lb"}]
    BY <1>2 DEF Discover, Listed, IngressInv, IngressTyped, IngressTypeOK, IngressRuns
  <2>2. /\ \A c \in InTime : ics[c] # "terminating" /\ Listed[c] = ics[c]
        /\ \A c \in Controllers : ics[c] = "host" => Listed[c] = "host"
    BY <1>2 DEF Discover, Listed, IngressInv, Calm, InTime
  <2>3. /\ ingress'.at \in {"restore", "restored", "collect"}
        /\ ingress'.todo \subseteq backup
        /\ ingress' \in IngressRuns
    BY <1>2, <2>1 DEF Discover, IngressInv, IngressTyped, IngressTypeOK, IngressRuns, IngressPlaces
  <2>4. SeesTruly'
    BY <1>2, <2>0, <2>1, <2>2, <2>3 DEF Discover, SeesTruly, InTime
  <2> QED
    BY <1>2, <2>0, <2>2, <2>3, <2>4
    DEF Discover, IngressInv, IngressTyped, IngressTypeOK, Recoverable, Calm, Converting, InTime
<1>3. CASE DiscoverFails
  <2>0. ics' = ics /\ overtaken' = overtaken /\ Behind' /\ StillOvertaken
    BY <1>3, NothingMoves DEF DiscoverFails
  <2>1. CASE GiveUp
    BY <1>3, <2>0, <2>1, IngressGivenUp, MissType
    DEF DiscoverFails, IngressInv, IngressTyped, IngressTypeOK, Recoverable
  <2>2. CASE GoTo("api-only")
    BY <1>3, <2>0, <2>2, MissType DEF DiscoverFails, GoTo, IngressInv, IngressTyped, IngressTypeOK, IngressRuns,
       IngressPlaces, Recoverable, Calm, SeesTruly, Converting, InTime
  <2> QED
    BY <1>3, <2>1, <2>2 DEF DiscoverFails
<1> QED
  BY <1>1, <1>2, <1>3

LEMMA Restores ==
    ASSUME IngressInv, StillOvertaken, Restored \/ Divide \/ \E c \in Controllers : RestoreBackup(c)
    PROVE  IngressInv'
<1>1. CASE Restored
  <2>1. overtaken' = overtaken /\ Behind'
    BY <1>1, NothingMoves DEF Restored
  <2> QED
    BY <1>1, <2>1, ZenonT(40) DEF Restored, IngressInv, IngressTyped, IngressTypeOK, IngressRuns, IngressPlaces,
       Recoverable, Calm, SeesTruly, Converting, InTime
<1>2. CASE Divide
  <2>0. overtaken' = overtaken /\ Behind'
    BY <1>2, NothingMoves DEF Divide
  <2>1. CASE GiveUp
    BY <1>2, <2>0, <2>1, IngressGivenUp, MissType DEF Divide, IngressInv, IngressTyped, IngressTypeOK, Recoverable
  <2>2. CASE ingress' = [ingress EXCEPT !.at = "convert", !.todo = HostSeen]
    BY <1>2, <2>0, <2>2, ZenonT(40) DEF Divide, HostSeen, IngressInv, IngressTyped, IngressTypeOK, IngressRuns,
       IngressPlaces, Recoverable, Calm, SeesTruly, Converting, InTime
  <2>3. CASE GoTo("api-only") \/ GoTo("collect")
    BY <1>2, <2>0, <2>3 DEF Divide, GoTo, IngressInv, IngressTyped, IngressTypeOK, IngressRuns, IngressPlaces,
       Recoverable, Calm, SeesTruly, Converting, InTime
  <2> QED
    BY <1>2, <2>1, <2>2, <2>3 DEF Divide
<1>3. ASSUME NEW c \in Controllers, RestoreBackup(c) PROVE IngressInv'
  <2>0. /\ misses' \in 0..IngressFaults
        /\ ics' \in [Controllers -> {"absent", "host", "lb", "terminating"}]
        /\ backup' \subseteq Controllers
        /\ overtaken' \subseteq overtaken /\ Behind'
        /\ \A d \in Controllers : ics[d] \in {"absent", "terminating"} \/ ics'[d] = ics[d]
        /\ \A d \in overtaken : d \notin overtaken' => d = c /\ ics[c] = "absent" /\ ics'[c] = "host"
    BY <1>3, MissType DEF RestoreBackup, IngressInv, IngressTyped, IngressTypeOK, Behind, StillOvertaken
  <2>1. /\ ingress.at = "restore" /\ ingress'.at = "restore" /\ ingress'.seen = ingress.seen
        /\ ingress' \in IngressRuns /\ ingress'.todo = ingress.todo \ {c} /\ c \in ingress.todo
    <3>1. CASE ingress' = [ingress EXCEPT !.todo = ingress.todo \ {c}]
      BY <1>3, <3>1 DEF RestoreBackup, IngressInv, IngressTyped, IngressRuns
    <3>2. CASE ingress' = [ingress EXCEPT !.todo = ingress.todo \ {c}, !.converted = TRUE]
      BY <1>3, <3>2 DEF RestoreBackup, IngressInv, IngressTyped, IngressRuns
    <3> QED
      BY <1>3, <3>1, <3>2 DEF RestoreBackup
  <2>2. CASE /\ ics' = ics /\ ingress' = [ingress EXCEPT !.todo = ingress.todo \ {c}]
             /\ backup' = backup \/ (backup' = backup \ {c} /\ ingress.seen[c] # "absent")
    <3>1. ingress'.converted = ingress.converted
      BY <2>2 DEF IngressInv, IngressTyped, IngressRuns
    <3>2. overtaken' = overtaken
      BY <2>2, NothingMoves
    <3>3. SeesTruly'
      BY <2>1, <2>2, <3>1, <3>2 DEF IngressInv, SeesTruly
    <3>4. c \notin overtaken /\ ingress.seen[c] # "absent" => ics[c] \notin {"absent", "terminating"}
      BY <2>1 DEF IngressInv, SeesTruly, Calm, InTime
    <3>5. Recoverable'
      BY <2>2, <3>2, <3>4 DEF IngressInv, Recoverable
    <3>6. Calm' /\ Converting'
      BY <2>1, <2>2, <3>2 DEF IngressInv, Calm, Converting, InTime
    <3> QED
      BY <1>3, <2>0, <2>1, <3>3, <3>5, <3>6 DEF RestoreBackup, IngressInv, IngressTyped, IngressTypeOK
  <2>3. CASE /\ ics[c] = "absent" /\ ingress.seen[c] = "absent" /\ ics' = [ics EXCEPT ![c] = "host"]
             /\ backup' = backup \ {c}
             /\ ingress' = [ingress EXCEPT !.todo = ingress.todo \ {c}, !.converted = TRUE]
    <3>1. ingress'.converted
      BY <2>3 DEF IngressInv, IngressTyped, IngressRuns
    <3>2. /\ ics'[c] = "host" /\ \A d \in Controllers \ {c} : ics'[d] = ics[d]
          /\ \A d \in Controllers \ {c} : d \in overtaken' <=> d \in overtaken
      BY <2>3 DEF IngressInv, IngressTyped, IngressTypeOK, StillOvertaken, Behind
    <3>3. SeesTruly'
      BY <2>1, <2>3, <3>1, <3>2 DEF IngressInv, SeesTruly
    <3>4. Recoverable' /\ Calm' /\ Converting'
      BY <2>1, <2>3, <3>2 DEF IngressInv, Recoverable, Calm, Converting, InTime
    <3> QED
      BY <1>3, <2>0, <2>1, <3>3, <3>4 DEF RestoreBackup, IngressInv, IngressTyped, IngressTypeOK
  <2> QED
    BY <1>3, <2>2, <2>3 DEF RestoreBackup
<1> QED
  BY <1>1, <1>2, <1>3

LEMMA Converts ==
    ASSUME IngressInv, StillOvertaken,
           \/ AllConverted \/ DeleteController \/ RouterGone \/ CreateReplacement \/ Rollback
           \/ \E c \in Controllers : BackUp(c)
    PROVE  IngressInv'
<1>0. overtaken' \subseteq overtaken /\ Behind' /\ (ics' = ics => overtaken' = overtaken)
  <2>1. ics' = ics => overtaken' = overtaken
    BY NothingMoves
  <2> QED
    BY <2>1 DEF StillOvertaken, Behind
<1>1. CASE AllConverted
  BY <1>0, <1>1 DEF AllConverted, GoTo, IngressInv, IngressTyped, IngressTypeOK, IngressRuns, IngressPlaces,
     Recoverable, Calm, SeesTruly, Converting, InTime
<1>2. ASSUME NEW c \in Controllers, BackUp(c) PROVE IngressInv'
  <2>1. /\ ingress' \in IngressRuns /\ ingress'.at = "delete" /\ ingress'.subject = c
        /\ ingress'.todo = ingress.todo \ {c} /\ c \in backup' /\ backup' \subseteq Controllers
    BY <1>2 DEF BackUp, IngressInv, IngressTyped, IngressTypeOK, IngressRuns, IngressPlaces
  <2>2. Converting'
    BY <1>0, <1>2, <2>1 DEF BackUp, IngressInv, Converting
  <2> QED
    BY <1>0, <1>2, <2>1, <2>2 DEF BackUp, IngressInv, IngressTyped, IngressTypeOK, Recoverable, Calm, SeesTruly, InTime
<1>3. CASE DeleteController
  <2>0. /\ ics' = ics \/ ics' = [ics EXCEPT ![ingress.subject] = "terminating"]
        /\ overtaken' = overtaken /\ backup' = backup
        /\ ingress.subject \in Controllers /\ ingress.subject \in backup
    <3>1. /\ ics' = ics \/ ics' = [ics EXCEPT ![ingress.subject] = "terminating"]
          /\ ingress.subject \in Controllers /\ ingress.subject \in backup /\ backup' = backup
      BY <1>3 DEF DeleteController, IngressInv, Converting
    <3>2. \A c \in overtaken : ics'[c] \in {"terminating", "absent"}
      BY <3>1 DEF IngressInv, IngressTyped, IngressTypeOK, Behind
    <3> QED
      BY <3>1, <3>2, NobodyBack
  <2>1. CASE GiveUp
    BY <1>0, <1>3, <2>0, <2>1, IngressGivenUp, MissType
    DEF DeleteController, IngressInv, IngressTyped, IngressTypeOK, Recoverable, Converting
  <2>2. CASE GoTo("await-gone") /\ ics' = [ics EXCEPT ![ingress.subject] = "terminating"]
             /\ misses' = misses
    BY <1>0, <1>3, <2>0, <2>2 DEF DeleteController, GoTo, IngressInv, IngressTyped, IngressTypeOK, IngressRuns,
       IngressPlaces, Recoverable, Calm, SeesTruly, Converting, InTime
  <2> QED
    BY <1>3, <2>1, <2>2 DEF DeleteController
<1>4. CASE RouterGone
  <2>1. CASE GiveUp
    BY <1>0, <1>4, <2>1, IngressGivenUp, MissType DEF RouterGone, IngressInv, IngressTyped, IngressTypeOK, Recoverable
  <2>2. CASE GoTo("create") /\ ics[ingress.subject] = "absent" /\ misses' = misses
    BY <1>0, <1>4, <2>2 DEF RouterGone, GoTo, IngressInv, IngressTyped, IngressTypeOK, IngressRuns, IngressPlaces,
       Recoverable, Calm, SeesTruly, Converting, InTime
  <2> QED
    BY <1>4, <2>1, <2>2 DEF RouterGone
<1>5. CASE CreateReplacement
  <2>1. /\ ingress' \in IngressRuns /\ ingress'.at \in {"convert", "recreate"}
        /\ ingress'.todo = ingress.todo
        /\ ingress'.at = "recreate" => ingress'.subject = ingress.subject /\ UNCHANGED <<ics, backup>>
    BY <1>5 DEF CreateReplacement, GoTo, IngressInv, IngressTyped, IngressRuns, IngressPlaces
  <2>2. /\ ics' \in [Controllers -> {"absent", "host", "lb", "terminating"}]
        /\ backup' \subseteq Controllers /\ misses' \in 0..IngressFaults
    BY <1>5, MissType DEF CreateReplacement, IngressInv, IngressTyped, IngressTypeOK
  <2>3. /\ ingress.at = "create" /\ ingress.subject \in Controllers \ ingress.todo
        /\ ingress.subject \in backup /\ ics[ingress.subject] = "absent"
        /\ \A c \in ingress.todo : ics[c] = "host" \/ c \in overtaken
    BY <1>5 DEF CreateReplacement, IngressInv, Converting
  <2>4. \A c \in Controllers \ {ingress.subject} :
          /\ ics'[c] = ics[c] /\ (c \in overtaken' <=> c \in overtaken)
          /\ c \in backup' <=> c \in backup
    BY <1>5, <2>3 DEF CreateReplacement, IngressInv, IngressTyped, IngressTypeOK, StillOvertaken, Behind
  <2>5. \/ ics'[ingress.subject] = "lb" /\ ingress'.at = "convert"
        \/ ics' = ics /\ backup' = backup /\ overtaken' = overtaken /\ ingress'.at = "recreate"
    BY <1>0, <1>5, <2>3 DEF CreateReplacement, GoTo, IngressInv, IngressTyped, IngressTypeOK, IngressRuns
  <2>6. Recoverable' /\ Calm'
    BY <2>1, <2>2, <2>3, <2>4, <2>5 DEF IngressInv, Recoverable, Calm, InTime
  <2>7. Converting'
    <3>1. \A c \in ingress.todo : ics'[c] = ics[c] /\ (c \in overtaken' <=> c \in overtaken)
      BY <2>3, <2>4 DEF IngressInv, IngressTyped, IngressRuns
    <3> QED
      BY <2>1, <2>3, <2>5, <3>1 DEF Converting
  <2> QED
    BY <1>0, <1>5, <2>1, <2>2, <2>6, <2>7
    DEF CreateReplacement, IngressInv, IngressTyped, IngressTypeOK, SeesTruly
<1>6. CASE Rollback
  <2>1. ingress.subject \in Controllers /\ ingress.subject \in backup /\ ics[ingress.subject] = "absent"
    BY <1>6 DEF Rollback, IngressInv, Converting
  <2>2. \A c \in Controllers \ {ingress.subject} :
          /\ ics'[c] = ics[c] /\ (c \in overtaken' <=> c \in overtaken)
          /\ c \in backup' <=> c \in backup
    BY <1>6, <2>1 DEF Rollback, IngressInv, IngressTyped, IngressTypeOK, StillOvertaken, Behind
  <2>3. ics'[ingress.subject] = "host" \/ UNCHANGED <<ics, backup, overtaken>>
    BY <1>0, <1>6, <2>1 DEF Rollback, IngressInv, IngressTyped, IngressTypeOK
  <2>4. Recoverable'
    BY <2>1, <2>2, <2>3 DEF IngressInv, Recoverable
  <2> QED
    BY <1>6, <2>4, IngressGivenUp, MissType DEF Rollback, IngressInv, IngressTyped, IngressTypeOK
<1> QED
  BY <1>1, <1>2, <1>3, <1>4, <1>5, <1>6

LEMMA Finalizes ==
    ASSUME IngressInv, StillOvertaken,
           \/ CollectLBEntries \/ DeployProduction \/ Preflight \/ RetireHAProxy \/ UndoDNS
           \/ Interrupted
    PROVE  IngressInv'
<1> USE DEF IngressInv, IngressTyped, IngressTypeOK
<1>0. UNCHANGED <<ics, backup, overtaken>> /\ Recoverable' /\ Behind'
  <2>1. UNCHANGED <<ics, backup>>
    BY DEF CollectLBEntries, DeployProduction, Preflight, RetireHAProxy, UndoDNS, Interrupted
  <2> QED
    BY <2>1, NothingMoves DEF Recoverable
<1>1. /\ misses' \in 0..IngressFaults /\ haproxy' \in BOOLEAN
      /\ dnsmasq'.api \in {"bastion", "vip"} /\ dnsmasq'.apps \in {"bastion", "lb"}
  <2>1. misses' \in 0..IngressFaults
    BY MissType DEF CollectLBEntries, DeployProduction, Preflight, RetireHAProxy, UndoDNS,
       Interrupted
  <2>2. haproxy' \in BOOLEAN
    BY DEF CollectLBEntries, DeployProduction, Preflight, RetireHAProxy, UndoDNS, Interrupted
  <2>3. \/ dnsmasq' = dnsmasq
        \/ \E api \in {"bastion", "vip"}, apps \in {"bastion", "lb"} :
              dnsmasq' = [api |-> api, apps |-> apps]
    BY DEF CollectLBEntries, DeployProduction, Preflight, RetireHAProxy, UndoDNS, Interrupted,
       AppsIP
  <2> QED
    BY <2>1, <2>2, <2>3
<1>2. CASE GiveUp
  BY <1>0, <1>1, <1>2, IngressGivenUp
<1>3. CASE CollectLBEntries /\ GoTo("dns")
  BY <1>0, <1>1, <1>3 DEF CollectLBEntries, GoTo, IngressRuns, IngressPlaces, Calm, SeesTruly, Converting, InTime
<1>4. CASE DeployProduction /\ GoTo("preflight") /\ HostSeen = {} /\ ingress.at = "dns"
  BY <1>0, <1>1, <1>4 DEF GoTo, HostSeen, IngressRuns, IngressPlaces, Calm, SeesTruly, Converting, InTime
<1>5. CASE Preflight /\ (GoTo("retire") \/ GoTo("undo-dns"))
  BY <1>0, <1>1, <1>5 DEF Preflight, GoTo, IngressRuns, IngressPlaces, Calm, SeesTruly, Converting, InTime
<1> QED
  BY <1>2, <1>3, <1>4, <1>5
  DEF CollectLBEntries, DeployProduction, Preflight, RetireHAProxy, UndoDNS, Interrupted

LEMMA Terminates == ASSUME IngressInv, NEW c \in Controllers, Terminated(c) PROVE IngressInv'
<1>1. overtaken' = overtaken
  BY NobodyBack DEF Terminated, IngressInv, IngressTyped, IngressTypeOK, Behind
<1> QED
  BY <1>1 DEF Terminated, IngressInv, IngressTyped, IngressTypeOK, IngressRuns, Recoverable, Calm, SeesTruly,
     Converting, Behind, InTime

LEMMA IngressInductive == ASSUME IngressInv, [Ingress]_ingressVars PROVE IngressInv'
<1>1. CASE UNCHANGED ingressVars
  BY <1>1 DEF ingressVars, IngressInv, IngressTyped, IngressTypeOK, Recoverable, Calm, SeesTruly, Converting,
     Behind, InTime
<1> QED
  BY <1>1, Discovers, Restores, Converts, Finalizes, Terminates DEF Ingress, IngressStep, Interrupted

\* The types alone.
LEMMA IngressStaysTyped == ASSUME IngressTyped, [Ingress]_ingressVars PROVE IngressTyped'
<1> USE DEF IngressTyped, IngressTypeOK
<1> DEFINE Cluster == ics' \in [Controllers -> {"absent", "host", "lb", "terminating"}] /\ backup' \subseteq Controllers
           Bastion == /\ dnsmasq'.api \in {"bastion", "vip"} /\ dnsmasq'.apps \in {"bastion", "lb"}
                      /\ haproxy' \in BOOLEAN
<1>0. overtaken' \subseteq Controllers
  <2>1. overtaken' \subseteq overtaken \cup Controllers
    BY DEF Ingress, IngressStep, ingressVars, BeginUpdate, StillOvertaken, DiscoverFails, Interrupted, Terminated
  <2> QED
    BY <2>1
<1>1. misses' \in 0..IngressFaults
  <2>1. misses' = misses \/ Miss
    BY DEF Ingress, IngressStep, ingressVars, BeginUpdate, Discover, DiscoverFails, Restored, Divide, AllConverted,
       RestoreBackup, BackUp, DeleteController, RouterGone, CreateReplacement, Rollback, CollectLBEntries,
       DeployProduction, Preflight, RetireHAProxy, UndoDNS, Interrupted, Terminated
  <2> QED
    BY <2>1, IngressAssumption DEF Miss
<1>2. Cluster
  <2>1. CASE UNCHANGED <<ics, backup>>
    BY <2>1
  <2>2. ASSUME NEW c \in Controllers, RestoreBackup(c) \/ BackUp(c) \/ Terminated(c) PROVE Cluster
    BY <2>2 DEF RestoreBackup, BackUp, Terminated
  <2>3. CASE DeleteController \/ CreateReplacement \/ Rollback
    BY <2>3 DEF DeleteController, CreateReplacement, Rollback
  <2> QED
    BY <2>1, <2>2, <2>3 DEF Ingress, IngressStep, ingressVars, BeginUpdate, Discover, DiscoverFails, Restored, Divide,
       AllConverted, RouterGone, CollectLBEntries, DeployProduction, Preflight, RetireHAProxy, UndoDNS, Interrupted
<1>3. Bastion
  <2>1. CASE UNCHANGED <<dnsmasq, haproxy>>
    BY <2>1
  <2>2. CASE DeployProduction \/ RetireHAProxy \/ UndoDNS
    <3>1. \/ dnsmasq' = dnsmasq
          \/ \E api \in {"bastion", "vip"}, apps \in {"bastion", "lb"} : dnsmasq' = [api |-> api, apps |-> apps]
      BY <2>2 DEF DeployProduction, RetireHAProxy, UndoDNS, AppsIP
    <3>2. haproxy' \in BOOLEAN
      BY <2>2 DEF DeployProduction, RetireHAProxy, UndoDNS
    <3> QED
      BY <3>1, <3>2
  <2> QED
    BY <2>1, <2>2 DEF Ingress, IngressStep, ingressVars, BeginUpdate, Discover, DiscoverFails, Restored, Divide,
       AllConverted, RestoreBackup, BackUp, DeleteController, RouterGone, CreateReplacement, Rollback,
       CollectLBEntries, Preflight, Interrupted, Terminated
<1>4. ingress' \in IngressRuns
  <2>1. CASE GiveUp
    BY <2>1 DEF GiveUp, NoIngress, IngressRuns, IngressPlaces
  <2>2. ASSUME NEW place \in IngressPlaces, GoTo(place) PROVE ingress' \in IngressRuns
    BY <2>2 DEF GoTo, IngressRuns
  <2>3. CASE ingress' = ingress
    BY <2>3
  <2>4. CASE BeginUpdate
    <3>1. PICK remove \in BOOLEAN, bootstrap \in BOOLEAN :
             ingress' = [NoIngress EXCEPT !.at = "discover", !.remove = remove, !.bootstrap = bootstrap]
      <4>1. (dnsmasq.api = "bastion") \in BOOLEAN
        OBVIOUS
      <4> QED
        BY <2>4, <4>1 DEF BeginUpdate
    <3> QED
      BY <3>1 DEF NoIngress, IngressRuns, IngressPlaces
  <2>5. CASE Discover
    <3>1. Listed \in [Controllers -> {"absent", "host", "lb"}]
      BY DEF Listed
    <3>2. PICK place \in {"restore", "restored", "collect"}, todo \in {backup, {}} :
             ingress' = [ingress EXCEPT !.seen = Listed, !.todo = todo, !.at = place]
      BY <2>5 DEF Discover
    <3> QED
      BY <3>1, <3>2 DEF IngressRuns, IngressPlaces
  <2>6. ASSUME NEW c \in Controllers, RestoreBackup(c) PROVE ingress' \in IngressRuns
    <3>1. \/ ingress' = [ingress EXCEPT !.todo = @ \ {c}]
          \/ ingress' = [ingress EXCEPT !.todo = @ \ {c}, !.converted = TRUE]
      BY <2>6 DEF RestoreBackup
    <3>2. ingress.todo \ {c} \in SUBSET Controllers
      BY DEF IngressRuns
    <3>3. CASE ingress' = [ingress EXCEPT !.todo = @ \ {c}]
      BY <3>2, <3>3 DEF IngressRuns
    <3>4. CASE ingress' = [ingress EXCEPT !.todo = @ \ {c}, !.converted = TRUE]
      BY <3>2, <3>4 DEF IngressRuns
    <3> QED
      BY <3>1, <3>3, <3>4
  <2>7. CASE Restored
    BY <2>7 DEF Restored, IngressRuns, IngressPlaces
  <2>8. ASSUME ingress' = [ingress EXCEPT !.at = "convert", !.todo = HostSeen] PROVE ingress' \in IngressRuns
    BY <2>8 DEF HostSeen, IngressRuns, IngressPlaces
  <2>9. ASSUME NEW c \in Controllers, BackUp(c) PROVE ingress' \in IngressRuns
    BY <2>9 DEF BackUp, IngressRuns, IngressPlaces
  <2>10. ASSUME ingress' = [ingress EXCEPT !.at = "convert", !.converted = TRUE, !.subject = "none"]
         PROVE  ingress' \in IngressRuns
    BY <2>10 DEF IngressRuns, IngressPlaces
  <2> DEFINE Goes == \E place \in IngressPlaces : GoTo(place)
  <2>11. CASE DiscoverFails \/ Divide \/ AllConverted
    <3>1. GiveUp \/ Goes \/ ingress' = [ingress EXCEPT !.at = "convert", !.todo = HostSeen]
      BY <2>11 DEF DiscoverFails, Divide, AllConverted, IngressPlaces
    <3> QED
      BY <2>1, <2>2, <2>8, <3>1
  <2>12. CASE DeleteController \/ RouterGone \/ CreateReplacement \/ Rollback
    <3>1. GiveUp \/ Goes \/ ingress' = [ingress EXCEPT !.at = "convert", !.converted = TRUE, !.subject = "none"]
      BY <2>12 DEF DeleteController, RouterGone, CreateReplacement, Rollback, IngressPlaces
    <3> QED
      BY <2>1, <2>2, <2>10, <3>1
  <2>13. CASE CollectLBEntries \/ DeployProduction \/ Preflight \/ RetireHAProxy \/ UndoDNS \/ Interrupted
    <3>1. GiveUp \/ Goes
      BY <2>13 DEF CollectLBEntries, DeployProduction, Preflight, RetireHAProxy, UndoDNS, Interrupted, IngressPlaces
    <3> QED
      BY <2>1, <2>2, <3>1
  <2> QED
    BY <2>3, <2>4, <2>5, <2>6, <2>7, <2>9, <2>11, <2>12, <2>13
    DEF Ingress, IngressStep, ingressVars, Terminated
<1> QED
  BY <1>0, <1>1, <1>2, <1>3, <1>4

-----------------------------------------------------------------------------
(* Theorems *)

\* A controller that was there and is gone, or going, has its original on disk: the
\* backup is written before the deletion and dropped only once a controller is there
\* again, whatever fails, dies and is repeated (postinstall/update_ingress.go
\* convertToLoadBalancer, restoreOrphanedIngressBackups).  The one exception is a
\* controller that a later run still found listed while its deletion was under way:
\* of no other is the backup ever missing.
THEOREM NeverLost == IngressInit /\ [][Ingress]_ingressVars => []Recoverable
<1>1. IngressInv => Recoverable
  BY DEF IngressInv
<1> QED
  BY <1>1, IngressBegins, IngressInductive, PTL

-----------------------------------------------------------------------------
(* Conversion *)

Whereabouts == [c \in Controllers |->
             IF ics[c] \notin {"terminating", "absent"} THEN ics[c]
             ELSE IF c \in backup THEN "away" ELSE "lost"]

StaysPut == Whereabouts' = Whereabouts /\ UNCHANGED <<haproxy, overtaken>>

LEMMA ConversionBegins == IngressInit => Abstract!ConversionInit
BY DEF IngressInit, Abstract!ConversionInit

\* Backups come and go only for controllers that are not on their way, or overtaken.
LEMMA StaysInPlace ==
    ASSUME IngressInv, StillOvertaken,
           \/ \E c \in Controllers : BackUp(c) \/ Terminated(c)
           \/ UNCHANGED <<ics, backup, haproxy>>
    PROVE  StaysPut \/ \E c \in Controllers : Abstract!LoseOrFind(c)
<1> USE DEF IngressInv, IngressTyped, IngressTypeOK
<1>1. ASSUME NEW c \in Controllers, BackUp(c) PROVE StaysPut \/ Abstract!LoseOrFind(c)
  <2>1. /\ ics' = ics /\ backup' = backup \cup {c} /\ haproxy' = haproxy /\ overtaken' = overtaken
        /\ (ics[c] = "host" \/ c \in overtaken)
    BY <1>1, NothingMoves DEF BackUp, Converting
  <2>2. CASE ics[c] = "host"
    BY <2>1, <2>2 DEF StaysPut, Whereabouts
  <2>3. CASE c \in overtaken
    <3>1. ics[c] \in {"terminating", "absent"}
      BY <2>3 DEF Behind
    <3>2. Whereabouts[c] \in {"away", "lost"} /\ Whereabouts' = [Whereabouts EXCEPT ![c] = "away"]
      BY <2>1, <3>1 DEF Whereabouts
    <3> QED
      BY <2>1, <2>3, <3>2 DEF Abstract!LoseOrFind, Whereabouts
  <2> QED
    BY <2>1, <2>2, <2>3
<1>2. ASSUME NEW c \in Controllers, Terminated(c) PROVE StaysPut
  <2>1. overtaken' = overtaken
    BY <1>2, NobodyBack DEF Terminated, Behind
  <2> QED
    BY <1>2, <2>1 DEF Terminated, StaysPut, Whereabouts
<1>3. CASE UNCHANGED <<ics, backup, haproxy>>
  BY <1>3, NothingMoves DEF StaysPut, Whereabouts
<1> QED
  BY <1>1, <1>2, <1>3

LEMMA MovesAsPromised ==
    ASSUME IngressInv, StillOvertaken, NEW c \in Controllers, haproxy' = haproxy,
           NEW to \in {"host", "lb", "terminating"}, ics' = [ics EXCEPT ![c] = to],
           backup' \in {backup, backup \ {c}}, c \in backup,
           \/ ics[c] = "absent" /\ to # "terminating"
           \/ ics[c] = "host" /\ to = "terminating" /\ c \in backup'
    PROVE  Abstract!TakeAway(c) \/ Abstract!PutBack(c)
<1> USE DEF IngressInv, IngressTyped, IngressTypeOK
<1>1. (~haproxy)' = ~haproxy
  OBVIOUS
<1>2. CASE ics[c] = "absent" /\ to # "terminating"
  <2>1. Whereabouts[c] = "away" /\ to \in {"host", "lb"} /\ Whereabouts' = [Whereabouts EXCEPT ![c] = to]
    BY <1>2 DEF Whereabouts
  <2>2. overtaken' = overtaken \ {c}
    BY <1>2 DEF StillOvertaken, Behind
  <2> QED
    BY <1>1, <2>1, <2>2 DEF Abstract!PutBack, Whereabouts
<1>3. CASE ics[c] = "host" /\ to = "terminating" /\ c \in backup'
  <2>1. Whereabouts[c] = "host" /\ Whereabouts' = [Whereabouts EXCEPT ![c] = "away"]
    BY <1>3 DEF Whereabouts
  <2>2. overtaken' = overtaken
    BY <1>3, NobodyBack DEF Behind
  <2> QED
    BY <1>1, <2>1, <2>2 DEF Abstract!TakeAway, Whereabouts
<1> QED
  BY <1>2, <1>3

\* A backup that is dropped is that of a controller in its place, or overtaken.
LEMMA RestoresAsPromised ==
    ASSUME IngressInv, StillOvertaken, NEW c \in Controllers, RestoreBackup(c)
    PROVE  StaysPut \/ \E d \in Controllers :
                          Abstract!TakeAway(d) \/ Abstract!PutBack(d) \/ Abstract!LoseOrFind(d)
<1> USE DEF IngressInv, IngressTyped, IngressTypeOK
<1>1. CASE ingress.seen[c] # "absent" /\ backup' = backup \ {c} /\ ics' = ics
  <2>1. haproxy' = haproxy /\ overtaken' = overtaken
    BY <1>1, NothingMoves DEF RestoreBackup
  <2>2. CASE c \in overtaken
    <3>1. ics[c] \in {"terminating", "absent"}
      BY <2>2 DEF Behind
    <3>2. Whereabouts[c] \in {"away", "lost"} /\ Whereabouts' = [Whereabouts EXCEPT ![c] = "lost"]
      BY <1>1, <3>1 DEF Whereabouts
    <3>3. Abstract!LoseOrFind(c)
      BY <2>1, <2>2, <3>2 DEF Abstract!LoseOrFind, Whereabouts
    <3> QED
      BY <3>3
  <2>3. CASE c \notin overtaken
    <3>1. ics[c] \notin {"absent", "terminating"}
      BY <1>1, <2>3 DEF RestoreBackup, SeesTruly, Calm, InTime
    <3> QED
      BY <1>1, <2>1, <3>1 DEF StaysPut, Whereabouts
  <2> QED
    BY <2>2, <2>3
<1>2. CASE ics[c] = "absent" /\ ics' = [ics EXCEPT ![c] = "host"] /\ backup' = backup \ {c}
  <2>1. c \in backup /\ haproxy' = haproxy
    BY DEF RestoreBackup, Converting
  <2> QED
    BY <1>2, <2>1, MovesAsPromised
<1>3. CASE UNCHANGED <<ics, backup>>
  BY <1>3, StaysInPlace DEF RestoreBackup
<1> QED
  BY <1>1, <1>2, <1>3 DEF RestoreBackup

LEMMA ConversionSteps ==
    ASSUME IngressInv, [Ingress]_ingressVars
    PROVE  [Abstract!ConversionNext]_<<Whereabouts, overtaken, ~haproxy>>
<1> DEFINE Done == \/ StaysPut
                   \/ \E c \in Controllers :
                         Abstract!TakeAway(c) \/ Abstract!PutBack(c) \/ Abstract!LoseOrFind(c)
<1>1. ASSUME DeleteController, StillOvertaken PROVE Done
  <2>1. ingress.subject \in Controllers /\ (ics[ingress.subject] = "host" \/ ingress.subject \in overtaken)
        /\ ingress.subject \in backup /\ backup' = backup /\ haproxy' = haproxy
    BY <1>1 DEF DeleteController, IngressInv, Converting
  <2>2. \/ ics' = [ics EXCEPT ![ingress.subject] = "terminating"] /\ ics[ingress.subject] # "absent"
        \/ ics' = ics
    BY <1>1 DEF DeleteController
  <2>3. CASE ics[ingress.subject] = "host"
    BY <1>1, <2>1, <2>2, <2>3, MovesAsPromised, StaysInPlace
  <2>4. CASE ingress.subject \in overtaken
    <3>1. ics[ingress.subject] \in {"terminating", "absent"}
      BY <2>4 DEF IngressInv, Behind
    <3>2. ics' = ics
      BY <2>2, <3>1 DEF IngressInv, IngressTyped, IngressTypeOK
    <3> QED
      BY <1>1, <2>1, <3>2, StaysInPlace
  <2> QED
    BY <2>1, <2>3, <2>4
<1>2. ASSUME CreateReplacement \/ Rollback, StillOvertaken PROVE Done
  <2>1. ingress.subject \in Controllers /\ ics[ingress.subject] = "absent" /\ haproxy' = haproxy
        /\ ingress.subject \in backup
    BY <1>2 DEF CreateReplacement, Rollback, IngressInv, Converting
  <2>2. \/ UNCHANGED <<ics, backup>>
        \/ /\ backup' = backup \ {ingress.subject}
           /\ \E to \in {"host", "lb"} : ics' = [ics EXCEPT ![ingress.subject] = to]
    BY <1>2 DEF CreateReplacement, Rollback
  <2> QED
    BY <1>2, <2>1, <2>2, MovesAsPromised, StaysInPlace
<1>3. ASSUME RetireHAProxy, StillOvertaken, haproxy' = FALSE PROVE Abstract!Retire
  <2>1. \A c \in Controllers : ics[c] # "host"
    BY <1>3 DEF RetireHAProxy, IngressInv, SeesTruly
  <2>2. \A c \in Controllers : Whereabouts[c] # "host"
    BY <2>1 DEF Whereabouts
  <2>3. Whereabouts' = Whereabouts /\ (~haproxy)' = TRUE /\ overtaken' = overtaken
    BY <1>3, NothingMoves DEF RetireHAProxy, Whereabouts
  <2> QED
    BY <2>2, <2>3 DEF Abstract!Retire, Whereabouts
<1>4. ASSUME BeginUpdate PROVE Abstract!Overtake
  <2>1. Whereabouts' = Whereabouts /\ (~haproxy)' = ~haproxy
    BY <1>4 DEF BeginUpdate, Whereabouts
  <2> DEFINE S == {c \in Controllers : ics[c] = "terminating"}
  <2>2. S \in SUBSET {c \in Controllers : Whereabouts[c] \in {"away", "lost"}}
    BY DEF Whereabouts
  <2>3. overtaken' = overtaken \cup S
    BY <1>4 DEF BeginUpdate
  <2> HIDE DEF S
  <2> QED
    BY <2>1, <2>2, <2>3 DEF Abstract!Overtake, Whereabouts
<1>5. Done \/ Abstract!Retire \/ Abstract!Overtake
  <2>1. ASSUME NEW c \in Controllers, Terminated(c) PROVE Done
    BY <2>1, StaysInPlace DEF Terminated
  <2>2. CASE RetireHAProxy /\ StillOvertaken
    <3>1. CASE haproxy' = FALSE
      BY <1>3, <2>2, <3>1
    <3>2. CASE haproxy' = haproxy
      BY <2>2, <3>2, StaysInPlace DEF RetireHAProxy
    <3> QED
      BY <2>2, <3>1, <3>2 DEF RetireHAProxy
  <2>3. CASE /\ \/ Discover \/ Restored \/ Divide \/ AllConverted \/ RouterGone \/ CollectLBEntries
                \/ DeployProduction \/ Preflight \/ UndoDNS \/ DiscoverFails \/ Interrupted
                \/ \E c \in Controllers : BackUp(c)
             /\ StillOvertaken
    BY <2>3, StaysInPlace DEF Discover, Restored, Divide, AllConverted, RouterGone, CollectLBEntries,
       DeployProduction, Preflight, UndoDNS, DiscoverFails, Interrupted
  <2>4. CASE UNCHANGED ingressVars
    BY <2>4 DEF ingressVars, StaysPut, Whereabouts
  <2>5. ASSUME NEW c \in Controllers, RestoreBackup(c), StillOvertaken PROVE Done
    BY <2>5, RestoresAsPromised
  <2> QED
    BY <1>1, <1>2, <1>4, <2>1, <2>2, <2>3, <2>4, <2>5 DEF Ingress, IngressStep, DiscoverFails, Interrupted
<1> QED
  BY <1>5 DEF StaysPut, Abstract!ConversionNext, Whereabouts

\* A step of the command, of one that was killed or of the next one is a step of
\* Conversion, or none: a controller is taken away from the host network only, with its
\* original on disk, comes back from there, is lost only once a later run overtook its
\* deletion, and HAProxy retires when no controller is on the host network any more
\* (finalizeIngress, RemoveHAProxy).
THEOREM ConversionImplemented == IngressInit /\ [][Ingress]_ingressVars => ImplementsConversion
BY IngressBegins, ConversionBegins, IngressInductive, ConversionSteps, PTL DEF ImplementsConversion, Abstract!ConversionSpec, Whereabouts

=============================================================================
