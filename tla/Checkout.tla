------------------------------- MODULE Checkout -------------------------------
(***************************************************************************)
(* The license checkout of the API server (routes/licensing.ts): intents in *)
(* PostgreSQL, status requests that load a row, ask the chain for a payment *)
(* and record what they found in separate statements, and downloads of the  *)
(* archive under a claim of five minutes. Requests interleave; the server   *)
(* may be killed at any step. Deadlines are facts of a row that time turns  *)
(* true: the intent is late (30 minutes), its grant is over (an hour), its  *)
(* claim is old (5 minutes).                                                *)
(***************************************************************************)
EXTENDS Naturals, FiniteSets

CONSTANTS
    Intent,         \* rows of license_checkout_intents
    Signature,      \* finalized transactions that may pay for intents
    NoSignature,
    Poll,           \* status requests in progress at one time
    Transfer,       \* downloads in progress at one time
    MaxMishaps      \* bound on failed calls, unseen payments and crashes

ASSUME NoSignatureAssumption == NoSignature \notin Signature
ASSUME MishapAssumption == MaxMishaps \in Nat

VARIABLES
    row,            \* the table
    paid,           \* the references and exact amounts a transaction covers
    poll,
    transfer,
    received,       \* intents whose archive the buyer got in full
    mishaps

rows == <<row, paid>>
work == <<poll, transfer>>

Absent == [status |-> "none", signature |-> NoSignature, late |-> FALSE,
           over |-> FALSE, claim |-> "none", downloaded |-> FALSE]

IdlePoll == [step |-> "idle", of |-> "none", found |-> NoSignature,
             answer |-> "none", link |-> FALSE]

IdleTransfer == [step |-> "idle", of |-> "none"]

CheckoutInit ==
    /\ row = [i \in Intent |-> Absent]
    /\ paid = [s \in Signature |-> {}]
    /\ poll = [p \in Poll |-> IdlePoll]
    /\ transfer = [d \in Transfer |-> IdleTransfer]
    /\ received = {}
    /\ mishaps = 0

Mishap == mishaps < MaxMishaps /\ mishaps' = mishaps + 1

\* POST /licensing/intents
InsertIntent(i) ==
    /\ row[i] = Absent
    /\ row' = [row EXCEPT ![i].status = "pending"]
    /\ UNCHANGED <<paid, work, received, mishaps>>

\* A buyer's transaction becomes final. One transaction may carry the
\* references of several intents of one price.
Pay(s, covered) ==
    /\ paid[s] = {}
    /\ covered # {} /\ \A i \in covered : row[i].status # "none"
    /\ paid' = [paid EXCEPT ![s] = covered]
    /\ UNCHANGED <<row, work, received, mishaps>>

\* Only a pending row is asked for its deadline.
IntentIsLate(i) ==
    /\ row[i].status = "pending" /\ ~row[i].late
    /\ row' = [row EXCEPT ![i].late = TRUE]
    /\ UNCHANGED <<paid, work, received, mishaps>>

GrantIsOver(i) ==
    /\ row[i].status = "verified" /\ ~row[i].over
    /\ row' = [row EXCEPT ![i].over = TRUE]
    /\ UNCHANGED <<paid, work, received, mishaps>>

ClaimIsOld(i) ==
    /\ row[i].claim = "fresh"
    /\ row' = [row EXCEPT ![i].claim = "old"]
    /\ UNCHANGED <<paid, work, received, mishaps>>

(***************************************************************************)
(* GET /licensing/intents/:id/status                                        *)
(***************************************************************************)
Ask(p, i) ==
    /\ poll[p] = IdlePoll
    /\ poll' = [poll EXCEPT ![p] = [@ EXCEPT !.step = "asked", !.of = i]]

\* verifiedCheckoutStatus: the link is offered while the grant can be used.
OffersLink(i) == ~row[i].downloaded /\ ~row[i].over

Answered(p, value) ==
    poll' = [poll EXCEPT ![p] = [@ EXCEPT !.step = "answered",
        !.found = NoSignature, !.answer = value,
        !.link = value = "verified" /\ OffersLink(poll[p].of)]]

\* loadIntent, and the branch its row decides.
Load(p) ==
    LET r == row[poll[p].of] IN
    /\ poll[p].step = "asked"
    /\ IF r.status # "pending" THEN Answered(p, r.status)
       ELSE poll' = [poll EXCEPT ![p].step =
                        IF r.late THEN "expiring" ELSE "searching"]
    /\ UNCHANGED <<rows, transfer, received, mishaps>>

\* WHERE status = 'pending' of both updates.
\* (Mutant: the rows are updated by their id alone.)
AnyStatus(i) == row[i].status # "none"
StillPending(i) == row[i].status = "pending"

\* The update may find a row that another request verified in the meantime;
\* the answer is taken from the memory of this one.
Expire(p) ==
    LET i == poll[p].of IN
    /\ poll[p].step = "expiring"
    /\ row' = IF StillPending(i) THEN [row EXCEPT ![i].status = "expired"]
              ELSE row
    /\ Answered(p, "expired")
    /\ UNCHANGED <<paid, transfer, received, mishaps>>

\* findMatchingSignature: a transaction with the reference of this intent
\* that credits exactly its amount.
Payments(i) == {s \in Signature : i \in paid[s]}

SearchFinds(p) ==
    /\ poll[p].step = "searching"
    /\ \E s \in Payments(poll[p].of) :
          poll' = [poll EXCEPT ![p].step = "recording", ![p].found = s]
    /\ UNCHANGED <<rows, transfer, received, mishaps>>

\* Nothing was paid, or the endpoint does not show the payment yet.
SearchMisses(p) ==
    /\ poll[p].step = "searching"
    /\ IF Payments(poll[p].of) = {} THEN UNCHANGED mishaps ELSE Mishap
    /\ Answered(p, "pending")
    /\ UNCHANGED <<rows, transfer, received>>

\* The database or the RPC endpoint fails.
PollFails(p) ==
    /\ poll[p].step \in {"asked", "expiring", "searching", "recording"}
    /\ Mishap
    /\ Answered(p, "error")
    /\ UNCHANGED <<rows, transfer, received>>

\* AND NOT EXISTS (... WHERE signature = $2), and the unique column.
\* (Mutant: a payment may verify several intents.)
NeverUsed(s) == FALSE
Used(s) == \E i \in Intent : row[i].signature = s

Record(p) ==
    LET i == poll[p].of
        s == poll[p].found
        matched == StillPending(i) /\ ~Used(s)
    IN
    /\ poll[p].step = "recording"
    /\ row' = IF matched THEN [row EXCEPT ![i].status = "verified",
                                          ![i].signature = s]
              ELSE row
    /\ poll' = [poll EXCEPT ![p] = [@ EXCEPT !.step = "answered",
                    !.found = NoSignature,
                    !.answer = IF matched THEN "verified" ELSE "pending",
                    !.link = matched]]
    /\ UNCHANGED <<paid, transfer, received, mishaps>>

(***************************************************************************)
(* GET /licensing/download/:id/:token                                       *)
(***************************************************************************)
\* (Mutant: a claim is never taken over.)
HeldForGood(i) == row[i].claim # "none"
Held(i) == row[i].claim = "fresh"

Grantable(i) ==
    row[i].status = "verified" /\ ~row[i].downloaded /\ ~row[i].over

\* The grant and the archive are looked up and the claim is taken; a request
\* that is refused changes nothing.
StartDownload(d, i) ==
    /\ transfer[d] = IdleTransfer
    /\ Grantable(i) /\ ~Held(i)
    /\ row' = [row EXCEPT ![i].claim = "fresh"]
    /\ transfer' = [transfer EXCEPT ![d] = [step |-> "sending", of |-> i]]
    /\ UNCHANGED <<paid, poll, received, mishaps>>

\* The last byte is sent; the callback of res.download is still to come.
DownloadEnds(d) ==
    LET i == transfer[d].of IN
    /\ transfer[d].step = "sending"
    /\ received' = received \cup {i}
    /\ transfer' = [transfer EXCEPT ![d].step = "done"]
    /\ UNCHANGED <<rows, poll, mishaps>>

\* UPDATE ... SET downloaded_at = NOW(), download_claimed_at = NULL
MarkDownloaded(d) ==
    LET i == transfer[d].of IN
    /\ transfer[d].step = "done"
    /\ row' = [row EXCEPT ![i].downloaded = TRUE, ![i].claim = "none"]
    /\ transfer' = [transfer EXCEPT ![d] = IdleTransfer]
    /\ UNCHANGED <<paid, poll, received, mishaps>>

\* A failed transfer clears the claim of the row, whoever holds it by now.
DownloadFails(d) ==
    LET i == transfer[d].of IN
    /\ transfer[d].step = "sending"
    /\ Mishap
    /\ row' = IF row[i].downloaded THEN row
              ELSE [row EXCEPT ![i].claim = "none"]
    /\ transfer' = [transfer EXCEPT ![d] = IdleTransfer]
    /\ UNCHANGED <<paid, poll, received>>

\* Requests die with the process, claims stay.
ServerCrash ==
    /\ Mishap
    /\ poll' = [p \in Poll |->
                   IF poll[p].step \in {"idle", "answered"} THEN poll[p]
                   ELSE [poll[p] EXCEPT !.step = "answered", !.answer = "error",
                                        !.found = NoSignature]]
    /\ transfer' = [d \in Transfer |-> IdleTransfer]
    /\ UNCHANGED <<rows, received>>

PollStep(p) ==
    Load(p) \/ Expire(p) \/ SearchFinds(p) \/ SearchMisses(p) \/ Record(p)

TransferStep(d) == DownloadEnds(d) \/ MarkDownloaded(d)

ServerStep ==
    \/ \E s \in Signature, covered \in SUBSET Intent : Pay(s, covered)
    \/ \E i \in Intent : IntentIsLate(i) \/ GrantIsOver(i) \/ ClaimIsOld(i)
    \/ \E p \in Poll : PollStep(p) \/ PollFails(p)
    \/ \E d \in Transfer : TransferStep(d) \/ DownloadFails(d)
    \/ ServerCrash

(***************************************************************************)
(* What the table promises.                                                 *)
(***************************************************************************)
CheckoutTypeOK ==
    /\ row \in [Intent ->
          [status : {"none", "pending", "verified", "expired"},
           signature : Signature \cup {NoSignature}, late : BOOLEAN,
           over : BOOLEAN, claim : {"none", "fresh", "old"},
           downloaded : BOOLEAN]]
    /\ paid \in [Signature -> SUBSET Intent]
    /\ poll \in [Poll ->
          [step : {"idle", "asked", "expiring", "searching", "recording",
                   "answered"},
           of : Intent \cup {"none"}, found : Signature \cup {NoSignature},
           answer : {"none", "pending", "verified", "expired", "error"},
           link : BOOLEAN]]
    /\ transfer \in [Transfer -> [step : {"idle", "sending", "done"},
                                  of : Intent \cup {"none"}]]
    /\ received \subseteq Intent
    /\ mishaps \in Nat

\* A verified intent was paid in full by a transaction that verifies no other
\* intent, however the status requests of several intents interleave
\* (findMatchingSignature and the update of the status route).
EachLicenseIsPaid ==
    \A i \in Intent : row[i].status = "verified" =>
        /\ row[i].signature \in Payments(i)
        /\ \A j \in Intent \ {i} : row[j].signature # row[i].signature

\* Once verified, an intent stays verified by the same payment and its
\* consumed grant stays consumed: no late update of a request that loaded the
\* row before takes that back.
VerifiedIsFinal ==
    [][\A i \in Intent :
          /\ row[i].status = "verified" =>
                /\ row'[i].status = "verified"
                /\ row'[i].signature = row[i].signature
          /\ row[i].downloaded => row'[i].downloaded]_row
==============================================================================
