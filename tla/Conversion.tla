----------------------------- MODULE Conversion -----------------------------
(***************************************************************************)
(* What update-ingress promises of the ingress controllers: each is on the *)
(* host network, behind a load balancer, or away with its original kept;   *)
(* only one whose deletion a later command overtook may be lost until it   *)
(* is backed up anew, and the bastion's HAProxy retires, for good, only at *)
(* a time when no controller is on the host network.                       *)
(***************************************************************************)
CONSTANT Controllers

VARIABLES place, atRisk, retired

TakeAway(c) ==
    /\ place[c] = "host" /\ place' = [place EXCEPT ![c] = "away"]
    /\ UNCHANGED <<atRisk, retired>>

PutBack(c) ==
    /\ place[c] = "away"
    /\ \E to \in {"host", "lb"} : place' = [place EXCEPT ![c] = to]
    /\ atRisk' = atRisk \ {c} /\ UNCHANGED retired

Overtake ==
    /\ \E S \in SUBSET {c \in Controllers : place[c] \in {"away", "lost"}} : atRisk' = atRisk \cup S
    /\ UNCHANGED <<place, retired>>

LoseOrFind(c) ==
    /\ c \in atRisk /\ place[c] \in {"away", "lost"}
    /\ \E to \in {"away", "lost"} : place' = [place EXCEPT ![c] = to]
    /\ UNCHANGED <<atRisk, retired>>

Retire ==
    /\ \A c \in Controllers : place[c] # "host"
    /\ retired' = TRUE /\ UNCHANGED <<place, atRisk>>

ConversionInit == place \in [Controllers -> {"host", "lb"}] /\ atRisk = {} /\ retired = FALSE

ConversionNext ==
    \/ Overtake \/ Retire
    \/ \E c \in Controllers : TakeAway(c) \/ PutBack(c) \/ LoseOrFind(c)

ConversionSpec == ConversionInit /\ [][ConversionNext]_<<place, atRisk, retired>>

=============================================================================
