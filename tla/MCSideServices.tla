--------------------------- MODULE MCSideServices ---------------------------
(***************************************************************************)
(* Three parts of the repository that share no state with one another: the   *)
(* devnet rehearsal, the status pages of the trading loops and the request   *)
(* limits. A behaviour is one of one part; the others stand still, which     *)
(* loses nothing, since no step of a part reads or writes another's state.   *)
(***************************************************************************)
EXTENDS DevnetRehearsal, BotStatus, RequestLimit

VARIABLE part

SideInit ==
    /\ part \in {"rehearsal", "status", "limit"}
    /\ RehearsalInit /\ LimitInit
    /\ StatusInit /\ (part # "status" => loop = "live" /\ ~switch)

SideNext ==
    /\ UNCHANGED part
    /\ \/ /\ part = "rehearsal" /\ RehearsalNext
          /\ UNCHANGED <<statusVars, limitVars>>
       \/ /\ part = "status" /\ StatusNext
          /\ UNCHANGED <<rehearsalVars, limitVars>>
       \/ /\ part = "limit" /\ LimitNext
          /\ UNCHANGED <<rehearsalVars, statusVars>>

\* The operator runs the script again and clears its way, the script goes on,
\* and the cluster works off what it holds.
Rehearsing(A) == part = "rehearsal" /\ A
SideFairness ==
    /\ WF_rehearsalVars(Rehearsing(Start))
    /\ WF_rehearsalVars(Rehearsing(RemoveDraft))
    /\ WF_rehearsalVars(Rehearsing(Script))
    /\ WF_rehearsalVars(Rehearsing(Finalize))
    /\ \A n \in Attempt : WF_rehearsalVars(Rehearsing(n \in DOMAIN txs /\ Land(n)))

SideSpec ==
    /\ SideInit /\ [][SideNext]_<<part, rehearsalVars, statusVars, limitVars>>
    /\ SideFairness

\* EvidenceIsWritten, of the behaviours of the rehearsal.
RehearsalEnds == part = "rehearsal" => EvidenceIsWritten
=============================================================================
