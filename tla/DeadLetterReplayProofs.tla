------------------------ MODULE DeadLetterReplayProofs ------------------------
(***************************************************************************)
(* The type invariant of DeadLetterReplay and its two guarantees, for every *)
(* number of commands, letters, retained rows and audits. Both follow from  *)
(* one fact about the markers: they are recorded deliveries, and all of     *)
(* those whose row is still there.                                          *)
(***************************************************************************)
EXTENDS DeadLetterReplay, WellFoundedInduction, TLAPS

\* What the markers and audits owe to recorded deliveries.
MarkersAreRecorded ==
    /\ markers \subseteq recorded
    /\ Delivered(audits) \subseteq recorded
    /\ recorded \subseteq accepted

\* A command that is about to record a delivery has seen one.
AnswerIsTrue ==
    \A c \in Command : place[c] = "record" /\ answer[c] = "delivered"
                         => First(todo[c]) \in accepted

ReplayInv == TypeOK /\ MarkersAreRecorded /\ AnswerIsTrue /\ ProtectionLasts

-----------------------------------------------------------------------------
\* The first of some ids is one of them.
LEMMA FirstIsThere ==
    ASSUME NEW S, S \subseteq Nat, S # {}
    PROVE  First(S) \in S
<1> DEFINE less == OpToRel(<, Nat)
<1>1. IsWellFoundedOn(less, Nat)
  BY NatLessThanWellFounded
<1>2. \A x, y \in Nat : x < y => <<x, y>> \in less
  BY DEF OpToRel
<1> HIDE DEF less
<1>3. PICK m \in S : \A j \in S : <<j, m>> \notin less
  BY <1>1, WFMin
<1>4. ASSUME NEW j \in S PROVE m <= j
  <2>1. ~(j < m)
    BY <1>2, <1>3
  <2> QED BY <2>1
<1> QED BY <1>3, <1>4 DEF First

\* Pruning keeps rows, and shows no delivery that was not there.
LEMMA PrunedRows ==
    ASSUME NEW T, NEW rows \in Seq(T), ReplayAssumption
    PROVE  /\ Pruned(rows) \in Seq(T)
           /\ Len(Pruned(rows)) <= MaxAudits
           /\ Delivered(Pruned(rows)) \subseteq Delivered(rows)
<1>1. CASE Len(rows) <= MaxAudits
  BY <1>1 DEF Pruned
<1>2. CASE Len(rows) > MaxAudits
  <2> DEFINE k == Len(rows) - MaxAudits
  <2>1. k \in Nat /\ MaxAudits \in Nat \ {0} /\ k + MaxAudits = Len(rows)
    BY <1>2 DEF ReplayAssumption
  <2>2. Pruned(rows) = SubSeq(rows, k + 1, Len(rows))
    BY <1>2, <2>1 DEF Pruned
  <2> HIDE DEF k
  <2>3. /\ Pruned(rows) \in Seq(T)
        /\ Len(Pruned(rows)) = MaxAudits
        /\ \A i \in 1..MaxAudits : Pruned(rows)[i] = rows[k + i]
    BY <2>1, <2>2
  <2>4. \A i \in DOMAIN Pruned(rows) :
            k + i \in DOMAIN rows /\ Pruned(rows)[i] = rows[k + i]
    BY <2>1, <2>3
  <2>5. Delivered(Pruned(rows)) \subseteq Delivered(rows)
    BY <2>4 DEF Delivered
  <2> QED BY <2>3, <2>5
<1> QED BY <1>1, <1>2

\* Rows of an older table are rows of a longer one.
LEMMA RowsKept ==
    ASSUME NEW m \in Nat, NEW n \in Nat, m <= n,
           NEW rows \in Seq([id : 1..m, outcome : Outcome])
    PROVE  rows \in Seq([id : 1..n, outcome : Outcome])
<1>1. \A r \in [id : 1..m, outcome : Outcome] : r \in [id : 1..n, outcome : Outcome]
  OBVIOUS
<1> DEFINE R == [id : 1..m, outcome : Outcome]
           T == [id : 1..n, outcome : Outcome]
<1>2. R \subseteq T /\ rows \in Seq(R)
  BY <1>1
<1> HIDE DEF R, T
<1>3. rows \in Seq(T)
  BY <1>2
<1> QED BY <1>3 DEF T

\* Opening the file keeps everything that the invariant says of it.
LEMMA OpenKeeps ==
    ASSUME ReplayInv, Open, UNCHANGED <<recorded, accepted>>
    PROVE  /\ markers' \subseteq 1..lastId'
           /\ audits' \in Seq([id : 1..lastId', outcome : Outcome])
           /\ Len(audits') <= MaxAudits
           /\ MarkersAreRecorded'
           /\ ProtectionLasts'
<1>1. /\ audits' \in Seq([id : 1..lastId, outcome : Outcome])
      /\ Len(audits') <= MaxAudits
      /\ Delivered(audits') \subseteq Delivered(audits)
  BY PrunedRows, ReplayAssumption DEF Open, ReplayInv, TypeOK
<1>2. markers' = (markers \cup Delivered(audits)) \cap retained
      /\ UNCHANGED <<lastId, retained>>
  BY DEF Open, Reopened
<1>3. MarkersAreRecorded'
  BY <1>1, <1>2 DEF ReplayInv, MarkersAreRecorded, Delivered
<1>4. ProtectionLasts'
  BY <1>2 DEF ReplayInv, ProtectionLasts
<1> QED BY <1>1, <1>2, <1>3, <1>4 DEF ReplayInv, TypeOK

\* Nothing was delivered or recorded at the start.
LEMMA ReplayInit == Init => ReplayInv
<1> SUFFICES ASSUME Init PROVE ReplayInv
  OBVIOUS
<1> USE ReplayAssumption DEF ReplayAssumption
<1>1. TypeOK
  BY DEF Init, TypeOK, Outcome
<1>2. Delivered(audits) = {}
  BY DEF Init, Delivered
<1> QED BY <1>1, <1>2
      DEF Init, ReplayInv, MarkersAreRecorded, AnswerIsTrue, ProtectionLasts

\* A new letter has an id that was never used, and takes no marker from a row
\* that stays.
LEMMA AddStep == ReplayInv /\ AddLetter => ReplayInv'
<1> SUFFICES ASSUME ReplayInv, AddLetter PROVE ReplayInv'
  OBVIOUS
<1> DEFINE id == lastId + 1
<1>1. /\ lastId \in Nat /\ id \in Nat /\ id # 0 /\ lastId' = id
      /\ 1..lastId \subseteq 1..id /\ id \notin 1..lastId
  BY DEF ReplayInv, TypeOK, AddLetter
<1>2. /\ retained' \subseteq retained \cup {id}
      /\ markers' = markers \ ((retained \cup {id}) \ retained')
      /\ UNCHANGED <<audits, command, accepted, recorded, faults>>
  BY DEF AddLetter, Newest
<1>3. audits' \in Seq([id : 1..lastId', outcome : Outcome])
  <2>1. audits \in Seq([id : 1..lastId, outcome : Outcome]) /\ lastId <= id
    BY <1>1 DEF ReplayInv, TypeOK
  <2> HIDE DEF id
  <2> QED BY <1>1, <1>2, <2>1, RowsKept
<1>4. TypeOK'
  BY <1>1, <1>2, <1>3 DEF ReplayInv, TypeOK, command
<1>5. MarkersAreRecorded' /\ AnswerIsTrue'
  BY <1>2 DEF ReplayInv, MarkersAreRecorded, AnswerIsTrue, command, Delivered
<1>6. ProtectionLasts'
  BY <1>1, <1>2 DEF ReplayInv, ProtectionLasts, TypeOK
<1> QED BY <1>4, <1>5, <1>6 DEF ReplayInv

\* A recorded outcome marks only what was accepted.
LEMMA RecordStep ==
    ASSUME ReplayInv, NEW c \in Command, Record(c)
    PROVE  ReplayInv'
<1> DEFINE id == First(todo[c])
           row == [id |-> id, outcome |-> answer[c]]
<1>1. todo[c] \subseteq 1..lastId /\ todo[c] # {} /\ lastId \in Nat
  BY DEF ReplayInv, TypeOK, Record
<1>2. id \in todo[c] /\ id \in 1..lastId
  BY <1>1, FirstIsThere
<1>3. answer[c] \in Outcome /\ row \in [id : 1..lastId, outcome : Outcome]
  BY <1>2 DEF ReplayInv, TypeOK
<1>4. /\ audits' = Pruned(Append(audits, row))
      /\ markers' = IF answer[c] = "delivered" THEN markers \cup {id} ELSE markers
      /\ recorded' = IF answer[c] = "delivered" THEN recorded \cup {id}
                     ELSE recorded
      /\ todo' = [todo EXCEPT ![c] = @ \ {id}]
      /\ place[c] = "record" /\ place' = [place EXCEPT ![c] = "check"]
      /\ UNCHANGED <<lastId, retained, force, answer, accepted, faults>>
  BY DEF Record, MarksSuccess
<1>5. answer[c] = "delivered" => id \in accepted
  BY <1>4 DEF ReplayInv, AnswerIsTrue
<1> HIDE DEF id
<1>6. /\ Append(audits, row) \in Seq([id : 1..lastId, outcome : Outcome])
      /\ Len(Append(audits, row)) = Len(audits) + 1
      /\ \A i \in 1..Len(audits) : Append(audits, row)[i] = audits[i]
      /\ Append(audits, row)[Len(audits) + 1] = row
  BY <1>3 DEF ReplayInv, TypeOK
<1>7. /\ audits' \in Seq([id : 1..lastId, outcome : Outcome])
      /\ Len(audits') <= MaxAudits
      /\ Delivered(audits') \subseteq Delivered(Append(audits, row))
  BY <1>4, <1>6, PrunedRows, ReplayAssumption
<1>8. Delivered(Append(audits, row)) \subseteq recorded'
  <2> SUFFICES ASSUME NEW i \in DOMAIN Append(audits, row),
                      Append(audits, row)[i].outcome = "delivered"
               PROVE  Append(audits, row)[i].id \in recorded'
    BY DEF Delivered
  <2>1. CASE i = Len(audits) + 1
    BY <1>4, <1>6, <2>1
  <2>2. CASE i \in 1..Len(audits)
    <3>1. i \in DOMAIN audits /\ audits[i].outcome = "delivered"
      BY <1>6, <2>2 DEF ReplayInv, TypeOK
    <3>2. audits[i].id \in recorded
      BY <3>1 DEF ReplayInv, MarkersAreRecorded, Delivered
    <3> QED BY <1>4, <1>6, <2>2, <3>2
  <2> QED BY <1>6, <2>1, <2>2 DEF ReplayInv, TypeOK
<1>9. TypeOK'
  BY <1>2, <1>3, <1>4, <1>7 DEF ReplayInv, TypeOK
<1>10. MarkersAreRecorded'
  BY <1>4, <1>5, <1>7, <1>8 DEF ReplayInv, MarkersAreRecorded
<1>11. AnswerIsTrue'
  BY <1>4 DEF ReplayInv, AnswerIsTrue, TypeOK
<1>12. ProtectionLasts'
  BY <1>4 DEF ReplayInv, ProtectionLasts
<1> QED BY <1>9, <1>10, <1>11, <1>12 DEF ReplayInv

\* Every step keeps the invariant.
LEMMA ReplayNext == ReplayInv /\ [Next]_vars => ReplayInv'
<1> SUFFICES ASSUME ReplayInv, [Next]_vars PROVE ReplayInv'
  OBVIOUS
<1>1. CASE AddLetter
  BY <1>1, AddStep
<1>2. CASE Restart
  <2>1. /\ Open
        /\ UNCHANGED <<command, accepted, recorded, faults, lastId, retained>>
    BY <1>2 DEF Restart, Open
  <2>2. TypeOK'
    BY <2>1, OpenKeeps DEF ReplayInv, TypeOK, command
  <2>3. AnswerIsTrue'
    BY <2>1 DEF ReplayInv, AnswerIsTrue, command
  <2> QED BY <2>1, <2>2, <2>3, OpenKeeps DEF ReplayInv
<1>3. ASSUME NEW c \in Command, NEW ids \in SUBSET (1..lastId) \ {{}},
             NEW forced \in BOOLEAN, Start(c, ids, forced)
      PROVE  ReplayInv'
  <2>1. /\ Open
        /\ UNCHANGED <<accepted, recorded, faults, lastId, retained, answer>>
        /\ place[c] = "idle"
        /\ \/ /\ place' = [place EXCEPT ![c] = "check"]
              /\ todo' = [todo EXCEPT ![c] = ids]
              /\ force' = [force EXCEPT ![c] = forced]
           \/ UNCHANGED <<place, todo, force>>
    BY <1>3 DEF Start, Open
  <2>2. TypeOK'
    <3>1. /\ place' \in [Command -> {"idle", "check", "post", "record"}]
          /\ todo' \in [Command -> SUBSET (1..lastId)]
          /\ force' \in [Command -> BOOLEAN]
      BY <2>1 DEF ReplayInv, TypeOK
    <3>2. \A d \in Command : place'[d] \in {"post", "record"} => todo'[d] # {}
      BY <2>1 DEF ReplayInv, TypeOK
    <3> QED BY <2>1, <3>1, <3>2, OpenKeeps DEF ReplayInv, TypeOK
  <2>3. AnswerIsTrue'
    BY <2>1 DEF ReplayInv, AnswerIsTrue, TypeOK
  <2> QED BY <2>1, <2>2, <2>3, OpenKeeps DEF ReplayInv
<1>4. ASSUME NEW c \in Command, Check(c) PROVE ReplayInv'
  <2>1. TypeOK'
    BY <1>4 DEF Check, ReplayInv, TypeOK, durable, Outcome
  <2>2. AnswerIsTrue'
    BY <1>4 DEF Check, ReplayInv, TypeOK, AnswerIsTrue, durable
  <2>3. MarkersAreRecorded' /\ ProtectionLasts'
    BY <1>4 DEF Check, ReplayInv, MarkersAreRecorded, ProtectionLasts, durable,
       Delivered
  <2> QED BY <2>1, <2>2, <2>3 DEF ReplayInv
<1>5. ASSUME NEW c \in Command, NEW taken \in BOOLEAN, NEW ok \in BOOLEAN,
             Post(c, taken, ok)
      PROVE  ReplayInv'
  <2>1. First(todo[c]) \in 1..lastId
    BY <1>5, FirstIsThere DEF Post, ReplayInv, TypeOK
  <2>2. TypeOK'
    BY <1>5, <2>1 DEF Post, ReplayInv, TypeOK, durable, Outcome
  <2>3. AnswerIsTrue'
    BY <1>5 DEF Post, ReplayInv, TypeOK, AnswerIsTrue, durable
  <2>4. MarkersAreRecorded' /\ ProtectionLasts'
    BY <1>5 DEF Post, ReplayInv, MarkersAreRecorded, ProtectionLasts, durable,
       Delivered
  <2> QED BY <2>2, <2>3, <2>4 DEF ReplayInv
<1>6. ASSUME NEW c \in Command, Record(c) PROVE ReplayInv'
  BY <1>6, RecordStep
<1>7. ASSUME NEW c \in Command, Finish(c) \/ Kill(c) PROVE ReplayInv'
  <2>1. TypeOK'
    <3>1. /\ place' = [place EXCEPT ![c] = "idle"]
          /\ todo' = todo \/ todo' = [todo EXCEPT ![c] = {}]
          /\ UNCHANGED <<durable, force, answer, accepted, recorded>>
      BY <1>7 DEF Finish, Kill
    <3>2. faults' \in 0..MaxFaults
      <4>1. /\ faults \in 0..MaxFaults
            /\ faults' = faults \/ (faults < MaxFaults /\ faults' = faults + 1)
        BY <1>7 DEF Finish, Kill, ReplayInv, TypeOK
      <4> QED BY <4>1, ReplayAssumption DEF ReplayAssumption
    <3> QED BY <3>1, <3>2 DEF ReplayInv, TypeOK, durable
  <2>2. AnswerIsTrue'
    BY <1>7 DEF Finish, Kill, ReplayInv, TypeOK, AnswerIsTrue, durable
  <2>3. MarkersAreRecorded' /\ ProtectionLasts'
    BY <1>7 DEF Finish, Kill, ReplayInv, MarkersAreRecorded, ProtectionLasts,
       durable, Delivered
  <2> QED BY <2>1, <2>2, <2>3 DEF ReplayInv
<1>8. CASE UNCHANGED vars
  BY <1>8 DEF vars, ReplayInv, TypeOK, MarkersAreRecorded, AnswerIsTrue,
     ProtectionLasts, Delivered
<1> QED BY <1>1, <1>2, <1>3, <1>4, <1>5, <1>6, <1>7, <1>8 DEF Next

\* The inductive invariant.
LEMMA ReplayInvariant == Spec => []ReplayInv
BY ReplayInit, ReplayNext, PTL DEF Spec

-----------------------------------------------------------------------------
\* Every reachable state of the dead letters, audits and commands is well typed.
THEOREM TypeCorrect == Spec => []TypeOK
<1>1. ReplayInv => TypeOK
  BY DEF ReplayInv
<1> QED BY <1>1, ReplayInvariant, PTL

\* Duplicate protection outlives pruned audits, evicted rows, reopened files
\* and commands killed between posting and recording (state.py:592-638).
THEOREM DuplicateProtection == Spec => []ProtectionLasts
<1>1. ReplayInv => ProtectionLasts
  BY DEF ReplayInv
<1> QED BY <1>1, ReplayInvariant, PTL

\* A letter that later commands skip has been accepted by the receiver, whatever
\* several commands and the engine did to the table (cli.py:207-219).
THEOREM SkippedWasAccepted == Spec => []MarkersAreTrue
<1>1. ReplayInv => MarkersAreTrue
  BY DEF ReplayInv, MarkersAreRecorded, MarkersAreTrue
<1> QED BY <1>1, ReplayInvariant, PTL

\* A command without --force never goes on to post a retained letter whose
\* delivery is recorded, whoever recorded it (cli.py:211).
THEOREM NoUnforcedRepeat == Spec => UnforcedOnce
<1> DEFINE Again(c) ==
      /\ place[c] = "check" /\ place'[c] = "post" /\ ~force[c]
      /\ First(todo[c]) \in retained
<1>1. ASSUME ReplayInv, Next, NEW c \in Command, Again(c)
      PROVE  First(todo[c]) \notin recorded
  <2>1. /\ place[c] = "check" /\ place'[c] = "post"
        /\ place \in [Command -> {"idle", "check", "post", "record"}]
    BY <1>1 DEF ReplayInv, TypeOK
  <2>2. ~(AddLetter \/ Restart)
    BY <2>1 DEF AddLetter, Restart, command
  <2>3. ASSUME NEW d \in Command, NEW ids, NEW forced, Start(d, ids, forced)
        PROVE  FALSE
    BY <2>1, <2>3 DEF Start
  <2>4. ASSUME NEW d \in Command,
               \/ \E taken, ok \in BOOLEAN : Post(d, taken, ok)
               \/ Record(d) \/ Finish(d) \/ Kill(d)
        PROVE  FALSE
    BY <2>1, <2>4 DEF Post, Record, Finish, Kill
  <2>5. PICK d \in Command : Check(d)
    BY <1>1, <2>2, <2>3, <2>4 DEF Next
  <2>6. d = c /\ ~Protected(c)
    BY <2>1, <2>5 DEF Check
  <2>7. First(todo[c]) \notin markers
    BY <1>1, <2>6 DEF Protected
  <2> QED BY <1>1, <2>7 DEF ReplayInv, ProtectionLasts
<1>2. ReplayInv /\ [Next]_vars
        => [\A c \in Command : Again(c) => First(todo[c]) \notin recorded]_vars
  BY <1>1
<1> QED BY <1>2, ReplayInvariant, PTL DEF Spec, UnforcedOnce
=============================================================================
