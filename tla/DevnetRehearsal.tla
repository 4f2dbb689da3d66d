--------------------------- MODULE DevnetRehearsal ---------------------------
(***************************************************************************)
(* The devnet rehearsal (scripts/src/solana-devnet-rehearsal.ts): a script   *)
(* an operator runs, and runs again after an interruption, until every       *)
(* scenario of the campaign has a finalized transaction. Two programs are    *)
(* deployed, the accounts are set up, and each later step is one transaction *)
(* whose signature is checkpointed in a progress file before it is sent. A   *)
(* transaction may land late, vanish with a fork, or expire with its         *)
(* blockhash; the script may be killed or fail between any two steps. A      *)
(* node answers from one view of the cluster, and one script runs at a time. *)
(***************************************************************************)
EXTENDS Naturals, Sequences, FiniteSets

CONSTANT MaxTrouble     \* bound on crashes, failed calls, forks and expiries

ASSUME MaxTroubleAssumption == MaxTrouble \in Nat

\* The order of main(): programs, accounts without a checkpoint, then steps.
Program == {"adapter", "hook"}
Setup == {"mint", "wsolVault"}
Rejection == {"capRejection", "vaultHookRejection", "aliasedBuyRejection"}
Plan == <<"adapter", "hook", "mint", "wsolVault", "userSetup", "initialize",
          "buy", "sell", "capRejection", "vaultHookRejection",
          "aliasedBuyRejection">>
Step == {Plan[i] : i \in 5..Len(Plan)}

\* What the chain asks of a transaction of each step.
Needs(s) ==
    CASE s = "mint" -> {}
      [] s \in {"wsolVault", "userSetup", "initialize"} -> {"mint"}
      [] s = "sell" -> {"wsolVault", "userSetup", "initialize", "buy"}
      [] OTHER -> {"wsolVault", "userSetup", "initialize"}
OneShot == Setup \cup {"userSetup", "initialize"}

VARIABLES
    program,    \* the two program accounts: "none", "partial", "executable"
    txs,        \* the transactions signed so far
    proved,     \* programs whose deployment proof is in the progress file
    entry,      \* progress: the finalized transaction of a step, or 0
    pending,    \* progress.pending: the prepared transaction of a step, or 0
    evidence,   \* the evidence file: "none", "draft" (.pending), "written"
    at,         \* position in Plan of the running script, 0 when none runs
    phase,      \* what the script does there
    tx,         \* the transaction it submits or reconciles
    resume,     \* "no", or a checkpoint was found: "resend", then "resent"
    expired,    \* the finalized height it read is past the transaction's
    found,      \* what its account look-ups found, see LookUp
    trouble

chainVars == <<program, txs>>
fileVars == <<proved, entry, pending, evidence>>
scriptVars == <<at, phase, tx, resume, expired, found>>
rehearsalVars == <<chainVars, fileVars, scriptVars, trouble>>

Transaction == [step : Setup \cup Step,
                state : {"signed", "sent", "seen", "final"},
                past : BOOLEAN, ok : BOOLEAN]

RehearsalInit ==
    /\ program = [p \in Program |-> "none"] /\ txs = <<>>
    /\ proved = {} /\ evidence = "none"
    /\ entry = [s \in Step |-> 0] /\ pending = [s \in Step |-> 0]
    /\ at = 0 /\ phase = "off" /\ tx = 0 /\ resume = "no"
    /\ expired = FALSE /\ found = {} /\ trouble = 0

Trouble == trouble < MaxTrouble /\ trouble' = trouble + 1
Smooth == trouble' = trouble

Done(s, states) ==
    \E n \in DOMAIN txs : txs[n].step = s /\ txs[n].ok /\ txs[n].state \in states
Finalized(s) == Done(s, {"final"})
Known(s) == Done(s, {"seen", "final"})

\* What executing step s does when the states of txs named count as executed.
Succeeds(s, states) ==
    /\ s \notin Rejection
    /\ \A r \in Needs(s) : Done(r, states)
    /\ s \in OneShot => ~Done(s, states)

(***************************************************************************)
(* The chain.                                                               *)
(***************************************************************************)
Land(n) ==
    /\ txs[n].state = "sent" /\ ~txs[n].past
    /\ txs' = [txs EXCEPT ![n].state = "seen",
                          ![n].ok = Succeeds(txs[n].step, {"seen", "final"})]
    /\ Smooth
    /\ UNCHANGED <<program, fileVars, scriptVars>>

Seen == {n \in DOMAIN txs : txs[n].state = "seen"}

\* Finality reaches what has landed so far.
Finalize ==
    /\ Seen # {}
    /\ txs' = [n \in DOMAIN txs |->
                  IF n \in Seen THEN [txs[n] EXCEPT !.state = "final"] ELSE txs[n]]
    /\ Smooth
    /\ UNCHANGED <<program, fileVars, scriptVars>>

\* The fork that holds them is abandoned; the transactions may land again.
Fork ==
    /\ Seen # {}
    /\ Trouble
    /\ txs' = [n \in DOMAIN txs |->
                  IF n \in Seen THEN [txs[n] EXCEPT !.state = "sent", !.ok = FALSE]
                  ELSE txs[n]]
    /\ UNCHANGED <<program, fileVars, scriptVars>>

\* The finalized height passes lastValidBlockHeight.
Expire(n) ==
    /\ txs[n].state \in {"signed", "sent"} /\ ~txs[n].past
    /\ Trouble
    /\ txs' = [txs EXCEPT ![n].past = TRUE]
    /\ UNCHANGED <<program, fileVars, scriptVars>>

(***************************************************************************)
(* The script.                                                              *)
(***************************************************************************)
Here == Plan[at]

Leave ==
    /\ at' = 0 /\ phase' = "off" /\ tx' = 0
    /\ resume' = "no" /\ expired' = FALSE /\ found' = {}

Forward ==
    /\ at' = at + 1
    /\ phase' = IF at = Len(Plan) THEN "evidence" ELSE "begin"
    /\ tx' = 0 /\ resume' = "no" /\ expired' = FALSE
    /\ UNCHANGED found

Start ==
    /\ at = 0 /\ evidence # "written"
    /\ at' = 1 /\ phase' = "begin"
    /\ Smooth
    /\ UNCHANGED <<chainVars, fileVars, tx, resume, expired, found>>

\* Killed, or a call to the cluster throws.
Crash ==
    /\ at # 0
    /\ Trouble
    /\ Leave
    /\ UNCHANGED <<chainVars, fileVars>>

\* BpfLoader.load creates, writes and finalizes; it resumes what it finds.
Deploy ==
    /\ phase = "begin" /\ Here \in Program
    /\ program[Here] # "executable"
    /\ program' = [program EXCEPT ![Here] =
                       IF @ = "none" THEN "partial" ELSE "executable"]
    /\ Smooth
    /\ UNCHANGED <<txs, fileVars, scriptVars>>

\* loaderProof finds the two instructions and run() checkpoints them.
Prove ==
    /\ phase = "begin" /\ Here \in Program
    /\ program[Here] = "executable"
    /\ proved' = proved \cup {Here}
    /\ Forward /\ Smooth
    /\ UNCHANGED <<chainVars, entry, pending, evidence>>

\* existingMint and existingWsolVault are both read before either is set up.
LookUp ==
    IF Here = "mint" THEN {s \in Setup : Finalized(s)} ELSE found

Refuse ==
    /\ Leave /\ Smooth
    /\ UNCHANGED <<chainVars, fileVars>>

Turn(p) ==
    /\ phase' = p /\ Smooth
    /\ UNCHANGED <<chainVars, fileVars, at, tx, resume, expired, found>>

SetUp ==
    /\ phase = "begin" /\ Here \in Setup
    /\ Smooth
    /\ UNCHANGED <<chainVars, fileVars, tx, resume, expired>>
    /\ found' = LookUp
    /\ IF Here \in LookUp
       THEN at' = at + 1 /\ phase' = "begin"
       ELSE UNCHANGED at /\ phase' = "submit"

\* run() with an entry: its transaction is final, as it was.
Skip ==
    /\ phase = "begin" /\ Here \in Step
    /\ entry[Here] # 0
    /\ Forward /\ Smooth
    /\ UNCHANGED <<chainVars, fileVars>>

\* "user setup is complete on chain but lacks a public transaction checkpoint"
LacksCheckpoint ==
    /\ phase = "begin" /\ Here = "userSetup"
    /\ entry[Here] = 0 /\ pending[Here] = 0
    /\ Finalized(Here)

\* A checkpoint left by an earlier run is reconciled, and sent once more.
Resume ==
    /\ phase = "begin" /\ Here \in Step
    /\ entry[Here] = 0 /\ pending[Here] # 0
    /\ phase' = "height" /\ tx' = pending[Here] /\ resume' = "resend"
    /\ found' = IF Here = "userSetup" /\ Finalized(Here)
                THEN found \cup {Here} ELSE found
    /\ Smooth
    /\ UNCHANGED <<chainVars, fileVars, at, expired>>

Execute ==
    /\ phase = "begin" /\ Here \in Step
    /\ entry[Here] = 0 /\ pending[Here] = 0
    /\ ~LacksCheckpoint
    /\ Turn("submit")

\* The simulation is made on the finalized chain.
Simulated == Succeeds(Here, {"final"}) = (Here \notin Rejection)

SimulationFails ==
    /\ phase = "submit"
    /\ ~Simulated
    /\ Refuse

\* onPrepared saves the progress before the transaction is sent.
Checkpoint(n) ==
    pending' = IF Here \in Step THEN [pending EXCEPT ![Here] = n] ELSE pending

Prepare ==
    /\ phase = "submit"
    /\ Simulated
    /\ LET n == Len(txs) + 1 IN
       /\ txs' = Append(txs, [step |-> Here, state |-> "signed",
                              past |-> FALSE, ok |-> FALSE])
       /\ Checkpoint(n)
       /\ tx' = n
    /\ phase' = "send" /\ Smooth
    /\ UNCHANGED <<program, proved, entry, evidence, at, resume, expired, found>>

Broadcast ==
    txs' = [txs EXCEPT ![tx].state = IF @ = "signed" THEN "sent" ELSE @]

\* Preflight refuses an expired blockhash, unless it is skipped.
Preflight == txs[tx].past => Here \in Rejection

Send ==
    /\ phase = "send"
    /\ Preflight
    /\ Broadcast
    /\ phase' = "height" /\ Smooth
    /\ resume' = IF resume = "resend" THEN "resent" ELSE resume
    /\ UNCHANGED <<program, fileVars, at, tx, expired, found>>

SendRefused ==
    /\ phase = "send"
    /\ ~Preflight
    /\ Refuse

\* The node took the transaction, and its answer is lost.
SendUnanswered ==
    /\ phase = "send"
    /\ Trouble
    /\ Broadcast
    /\ Leave
    /\ UNCHANGED <<program, fileVars>>

(***************************************************************************)
(* reconcilePending: the finalized height first, then the status.           *)
(***************************************************************************)
ReadHeight ==
    /\ phase = "height"
    /\ expired' = txs[tx].past
    /\ phase' = "status" /\ Smooth
    /\ UNCHANGED <<chainVars, fileVars, at, tx, resume, found>>

Unknown == txs[tx].state \in {"signed", "sent"}

\* (Mutant: a status that is not known yet is taken for an expiry.)
UnknownIsGone == Unknown
Gone == Unknown /\ expired

Settled == txs[tx].state = "final"

Expected == txs[tx].ok = (Here \notin Rejection)

Look ==
    /\ phase = "status" /\ ~Settled /\ ~Gone
    /\ Turn(IF resume = "resend" THEN "send" ELSE "height")

Mismatch ==
    /\ phase = "status" /\ Settled /\ ~Expected
    /\ Refuse

\* The checkpoint and the result change places in one save.
Record ==
    /\ pending' = [pending EXCEPT ![Here] = 0]
    /\ entry' = [entry EXCEPT ![Here] = tx]

Accept ==
    /\ phase = "status" /\ Settled /\ Expected
    /\ IF Here \in Step THEN Record ELSE UNCHANGED <<pending, entry>>
    /\ Forward /\ Smooth
    /\ UNCHANGED <<chainVars, proved, evidence>>

\* submit() returns null: main() goes on without the account.
SetupExpired ==
    /\ phase = "status" /\ Gone /\ Here \in Setup
    /\ Forward /\ Smooth
    /\ UNCHANGED <<chainVars, fileVars>>

\* "user setup checkpoint expired without finalized ledger evidence"
LacksEvidence ==
    /\ phase = "status" /\ Gone /\ Here = "userSetup"
    /\ Here \in found

\* Signed anew; an expired checkpoint of this run is deleted first. (Mutant: an
\* expired checkpoint is refused.)
RetryRefuses ==
    /\ phase = "status" /\ Gone /\ Here \in Step
    /\ Refuse
Retry ==
    /\ phase = "status" /\ Gone /\ Here \in Step /\ ~LacksEvidence
    /\ phase' = "submit" /\ tx' = 0 /\ resume' = "no" /\ expired' = FALSE
    /\ pending' = IF resume = "no" THEN [pending EXCEPT ![Here] = 0] ELSE pending
    /\ Smooth
    /\ UNCHANGED <<chainVars, proved, entry, evidence, at, found>>

\* The flag "wx" refuses a draft that an earlier run left.
Draft ==
    /\ phase = "evidence" /\ Smooth
    /\ IF evidence = "none"
       THEN evidence' = "draft" /\ phase' = "verify"
            /\ UNCHANGED <<at, tx, resume, expired, found>>
       ELSE Leave /\ UNCHANGED evidence
    /\ UNCHANGED <<chainVars, proved, entry, pending>>

\* The evidence is verified and renamed into place.
WriteEvidence ==
    /\ phase = "verify"
    /\ evidence' = "written"
    /\ Leave /\ Smooth
    /\ UNCHANGED <<chainVars, proved, entry, pending>>

\* The verifier fails: the draft is removed.
VerifyFails ==
    /\ phase = "verify"
    /\ Trouble
    /\ evidence' = "none"
    /\ Leave
    /\ UNCHANGED <<chainVars, proved, entry, pending>>

\* The operator removes the draft of an interrupted run.
RemoveDraft ==
    /\ evidence = "draft" /\ phase # "verify"
    /\ evidence' = "none"
    /\ Smooth
    /\ UNCHANGED <<chainVars, proved, entry, pending, scriptVars>>

Script ==
    \/ Deploy \/ Prove \/ SetUp \/ Skip \/ Resume \/ Execute
    \/ SimulationFails \/ Prepare \/ Send \/ SendRefused
    \/ ReadHeight \/ Look \/ Mismatch \/ Accept
    \/ SetupExpired \/ Retry
    \/ Draft \/ WriteEvidence

RehearsalNext ==
    \/ \E n \in DOMAIN txs : Land(n) \/ Expire(n)
    \/ Finalize \/ Fork
    \/ Start \/ RemoveDraft \/ Script
    \/ Crash \/ SendUnanswered \/ VerifyFails

RehearsalSpec == RehearsalInit /\ [][RehearsalNext]_rehearsalVars

Attempt == 1..Len(Plan) + MaxTrouble

-------------------------------------------------------------------------------
\* The variables keep their types.
RehearsalTypeOK ==
    /\ program \in [Program -> {"none", "partial", "executable"}]
    /\ DOMAIN txs \subseteq Attempt
    /\ \A n \in DOMAIN txs : txs[n] \in Transaction
    /\ proved \subseteq Program
    /\ entry \in [Step -> {0} \cup DOMAIN txs]
    /\ pending \in [Step -> {0} \cup DOMAIN txs]
    /\ evidence \in {"none", "draft", "written"}
    /\ at \in 0..Len(Plan) + 1
    /\ phase \in {"off", "begin", "submit", "send", "height", "status",
                  "evidence", "verify"}
    /\ tx \in {0} \cup DOMAIN txs
    /\ resume \in {"no", "resend", "resent"}
    /\ expired \in BOOLEAN
    /\ found \subseteq Setup \cup {"userSetup"}
    /\ trouble \in 0..MaxTrouble

\* However often the script is interrupted and run again, the trades of the
\* campaign are made at most once: no step has two transactions that took
\* effect, or that still may (run, reconcilePending).
MadeOnce ==
    \A s \in Step : \A m, n \in DOMAIN txs :
        (m < n /\ txs[m].step = s /\ txs[n].step = s)
        => txs[m].past /\ txs[m].state \in {"signed", "sent"}

\* What the progress file names as the transaction of a step is final, with
\* the outcome the step demands, and stays so.
EntriesAreFinal ==
    \A s \in Step : entry[s] # 0 =>
        /\ txs[entry[s]].step = s
        /\ txs[entry[s]].state = "final"
        /\ txs[entry[s]].ok = (s \notin Rejection)

\* The progress file and the chain agree on what was traded, and it was traded
\* once, after any crash, lost answer, fork or expiry.
CampaignIsSound == MadeOnce /\ EntriesAreFinal

\* Every interruption can be recovered from: run again, the script ends with
\* the evidence of all scenarios.
EvidenceIsWritten == <>(evidence = "written")
===============================================================================
