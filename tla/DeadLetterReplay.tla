--------------------------- MODULE DeadLetterReplay ---------------------------
(***************************************************************************)
(* Dead letters of the core rail and their replay (state.py, cli.py). The   *)
(* engine writes an event it could not deliver to a bounded table, oldest   *)
(* rows evicted first. An operator's `replay-dead-letters` command, another *)
(* process on the same SQLite file, posts selected rows again and records   *)
(* each outcome: an audit row, of which a bounded number is kept, and for a *)
(* delivered row a marker that later commands honour unless forced. Each    *)
(* call of the state is one transaction; nothing is held between them.      *)
(***************************************************************************)
EXTENDS Integers, Sequences, FiniteSets

CONSTANTS
    Command,        \* replay commands that may run at the same time
    MaxLetters,     \* settings.dead_letter_max_entries
    MaxAudits,      \* settings.replay_audit_max_entries
    MaxSelected,    \* MAX_REPLAY_RECORDS
    MaxId,          \* bound: dead letters written
    MaxFaults       \* bound: commands killed

ASSUME ReplayAssumption ==
    /\ MaxLetters \in Nat \ {0}
    /\ MaxAudits \in Nat \ {0}
    /\ MaxSelected \in Nat \ {0}
    /\ MaxId \in Nat
    /\ MaxFaults \in Nat

VARIABLES
    lastId,     \* durable: the AUTOINCREMENT counter of dead_letters
    retained,   \* durable: ids of the rows of dead_letters
    markers,    \* durable: dead_letter_replay_successes
    audits,     \* durable: dead_letter_replays, oldest first
    place,      \* where each command stands in its loop
    todo,       \* the selected ids each command has left
    force,      \* --force
    answer,     \* the outcome each command is about to record
    accepted,   \* history: letters a replay has made the receiver accept
    recorded,   \* history: letters with an outcome "delivered" recorded
    faults      \* bound: faults so far

durable == <<lastId, retained, markers, audits>>
command == <<place, todo, force, answer>>
vars    == <<lastId, retained, markers, audits, place, todo, force, answer,
             accepted, recorded, faults>>

\* Rows are read ORDER BY id ASC.
First(S) == CHOOSE i \in S : \A j \in S : i <= j
Newest(S) == {i \in S : Cardinality({j \in S : j > i}) < MaxLetters}

\* _prune_replay_audits.
Pruned(rows) ==
    IF Len(rows) <= MaxAudits THEN rows
    ELSE SubSeq(rows, Len(rows) - MaxAudits + 1, Len(rows))

Init ==
    /\ lastId = 0
    /\ retained = {} /\ markers = {} /\ audits = <<>>
    /\ place = [c \in Command |-> "idle"]
    /\ todo = [c \in Command |-> {}]
    /\ force = [c \in Command |-> FALSE]
    /\ answer = [c \in Command |-> "failed"]
    /\ accepted = {} /\ recorded = {}
    /\ faults = 0

-----------------------------------------------------------------------------
\* The engine dead-letters an event: insert, then trim; the markers of the
\* evicted rows go with them.
AddLetter ==
    LET id   == lastId + 1
        kept == Newest(retained \cup {id})
    IN /\ id <= MaxId
       /\ lastId' = id
       /\ retained' = kept
       /\ markers' = markers \ ((retained \cup {id}) \ kept)
       /\ UNCHANGED <<audits, command, accepted, recorded, faults>>

Delivered(rows) ==
    {rows[i].id : i \in {j \in DOMAIN rows : rows[j].outcome = "delivered"}}

\* _create_schema when the file is opened: markers are rebuilt from the audits
\* that are left, and removed when their row is gone.
\* (Mutant: only what the audits still show is kept.)
OnlyAudited == Delivered(audits) \cap retained
Reopened == (markers \cup Delivered(audits)) \cap retained

Open ==
    /\ markers' = Reopened
    /\ audits' = Pruned(audits)
    /\ UNCHANGED <<lastId, retained>>

\* The engine restarts.
Restart ==
    /\ Open
    /\ UNCHANGED <<command, accepted, recorded, faults>>

\* replay_dead_letters opens the state and selects rows; ids that are not
\* retained, or too many of them, are rejected before anything is posted.
Start(c, ids, forced) ==
    /\ place[c] = "idle"
    /\ Open
    /\ IF ids \subseteq retained /\ Cardinality(ids) <= MaxSelected
       THEN /\ place' = [place EXCEPT ![c] = "check"]
            /\ todo' = [todo EXCEPT ![c] = ids]
            /\ force' = [force EXCEPT ![c] = forced]
       ELSE UNCHANGED <<place, todo, force>>
    /\ UNCHANGED <<answer, accepted, recorded, faults>>

\* (Mutant: the marker is not looked up.)
NeverProtected(c) == FALSE
Protected(c) == First(todo[c]) \in markers /\ ~force[c]

\* has_successful_replay decides whether the row is skipped or posted.
Check(c) ==
    /\ place[c] = "check" /\ todo[c] # {}
    /\ IF Protected(c)
       THEN /\ place' = [place EXCEPT ![c] = "record"]
            /\ answer' = [answer EXCEPT ![c] = "skipped"]
       ELSE /\ place' = [place EXCEPT ![c] = "post"]
            /\ UNCHANGED answer
    /\ UNCHANGED <<durable, todo, force, accepted, recorded, faults>>

\* deliver(payload), with its retries. The receiver may accept a request whose
\* answer is lost, so a failed delivery may have been accepted too.
Post(c, taken, ok) ==
    /\ place[c] = "post"
    /\ ok => taken
    /\ place' = [place EXCEPT ![c] = "record"]
    /\ answer' = [answer EXCEPT ![c] = IF ok THEN "delivered" ELSE "failed"]
    /\ accepted' = IF taken THEN accepted \cup {First(todo[c])} ELSE accepted
    /\ UNCHANGED <<durable, todo, force, recorded, faults>>

\* (Mutant: any outcome leaves a marker.)
MarksAny(c) == TRUE
MarksSuccess(c) == answer[c] = "delivered"

\* record_replay_outcome: marker and audit in one transaction, whether or not
\* the row is still there.
Record(c) ==
    LET id == First(todo[c]) IN
    /\ place[c] = "record"
    /\ markers' = IF MarksSuccess(c) THEN markers \cup {id} ELSE markers
    /\ audits' = Pruned(Append(audits, [id |-> id, outcome |-> answer[c]]))
    /\ recorded' = IF answer[c] = "delivered" THEN recorded \cup {id} ELSE recorded
    /\ todo' = [todo EXCEPT ![c] = @ \ {id}]
    /\ place' = [place EXCEPT ![c] = "check"]
    /\ UNCHANGED <<lastId, retained, force, answer, accepted, faults>>

Finish(c) ==
    /\ place[c] = "check" /\ todo[c] = {}
    /\ place' = [place EXCEPT ![c] = "idle"]
    /\ UNCHANGED <<durable, todo, force, answer, accepted, recorded, faults>>

\* The command is killed, or SQLite raises "database is locked".
Kill(c) ==
    /\ place[c] # "idle"
    /\ faults < MaxFaults /\ faults' = faults + 1
    /\ place' = [place EXCEPT ![c] = "idle"]
    /\ todo' = [todo EXCEPT ![c] = {}]
    /\ UNCHANGED <<durable, force, answer, accepted, recorded>>

Next ==
    \/ AddLetter \/ Restart
    \/ \E c \in Command :
        \/ \E ids \in SUBSET (1..lastId) \ {{}}, forced \in BOOLEAN :
             Start(c, ids, forced)
        \/ \E taken, ok \in BOOLEAN : Post(c, taken, ok)
        \/ Check(c) \/ Record(c) \/ Finish(c) \/ Kill(c)

Spec == Init /\ [][Next]_vars

-----------------------------------------------------------------------------
Outcome == {"delivered", "failed", "skipped"}

TypeOK ==
    /\ lastId \in Nat
    /\ retained \subseteq 1..lastId
    /\ markers \subseteq 1..lastId
    /\ audits \in Seq([id : 1..lastId, outcome : Outcome])
    /\ Len(audits) <= MaxAudits
    /\ place \in [Command -> {"idle", "check", "post", "record"}]
    /\ todo \in [Command -> SUBSET (1..lastId)]
    /\ \A c \in Command : place[c] \in {"post", "record"} => todo[c] # {}
    /\ force \in [Command -> BOOLEAN]
    /\ answer \in [Command -> Outcome]
    /\ accepted \subseteq 1..lastId
    /\ recorded \subseteq 1..lastId
    /\ faults \in 0..MaxFaults

\* "replay duplicate protection survives audit retention boundary"
\* (test_webhook_harness.py:551): a retained letter whose delivery was recorded
\* stays marked, however the audits were pruned, rows evicted, and the file
\* reopened by the engine or other commands meanwhile.
ProtectionLasts == recorded \cap retained \subseteq markers

\* A letter is marked, and so skipped by later commands, only when the receiver
\* has accepted it: no outcome of another letter or another command's answer
\* ever stands for it.
MarkersAreTrue == markers \subseteq accepted

\* A command without --force never goes on to post a retained letter whose
\* delivery another command, or an earlier one, has recorded: only commands
\* that overlap between the look-up and the record may both post it.
UnforcedOnce ==
    [][\A c \in Command :
         /\ place[c] = "check" /\ place'[c] = "post" /\ ~force[c]
         /\ First(todo[c]) \in retained
         => First(todo[c]) \notin recorded]_vars
=============================================================================
