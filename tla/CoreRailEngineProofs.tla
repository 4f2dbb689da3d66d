------------------------ MODULE CoreRailEngineProofs ------------------------
(***************************************************************************)
(* Machine-checked facts about the core rail engine, for every set of        *)
(* addresses, explicit signatures and workers and every bound:              *)
(*   - its state is always well typed;                                      *)
(*   - an explicit signature is marked only when its event was delivered or *)
(*     dead-lettered;                                                       *)
(*   - a durable cursor never passes an event that nobody handled, as long  *)
(*     as no RPC call outlives the poll interval. (When one may, the run    *)
(*     core_rail_outlived shows the counterexample.)                        *)
(*   - under the same condition a cursor moves back only when an active     *)
(*     recovery boundary names it, or later detections of other addresses    *)
(*     have filled the bounded table.                                       *)
(***************************************************************************)
EXTENDS CoreRailEngine, TLAPS, SequenceTheorems, WellFoundedInduction

USE EngineAssumption

\* A non-empty set of naturals below a bound has a greatest member.
LEMMA BoundedMax ==
    ASSUME NEW n \in Nat, NEW S \in SUBSET (0..n), S # {}
    PROVE  \E s \in S : \A r \in S : s >= r
<1> DEFINE T == {n - s : s \in S}
<1>1. T \subseteq Nat /\ T # {}
  <2>1. \A s \in S : s \in Nat /\ n - s \in Nat
    OBVIOUS
  <2>2. PICK s \in S : TRUE
    OBVIOUS
  <2>3. n - s \in T
    OBVIOUS
  <2> QED BY <2>1, <2>3
<1>2. PICK x \in T : \A y \in T : ~ (<<y, x>> \in OpToRel(<, Nat))
  <2> HIDE DEF T
  <2> QED BY <1>1, NatLessThanWellFounded, WFMin
<1>3. PICK s \in S : x = n - s
  OBVIOUS
<1>4. ASSUME NEW r \in S PROVE s >= r
  <2>1. n - r \in T /\ n - r \in Nat /\ x \in Nat
    OBVIOUS
  <2>2. ~ (<<n - r, x>> \in OpToRel(<, Nat))
    BY <1>2, <2>1
  <2>3. ~ (n - r < x)
    BY <2>1, <2>2 DEF OpToRel
  <2> QED BY <2>3, <1>3
<1> QED BY <1>4

\* The newest record of a page set is one of its records.
LEMMA NewestInSet ==
    ASSUME NEW n \in Nat, NEW S \in SUBSET (0..n), S # {}
    PROVE  Newest(S) \in S /\ \A r \in S : Newest(S) >= r
BY BoundedMax DEF Newest

\* The member that no other exceeds is the newest.
LEMMA NewestIs ==
    ASSUME NEW S \in SUBSET Nat, NEW s \in S, \A r \in S : s >= r
    PROVE  Newest(S) = s
<1>1. Newest(S) \in S /\ \A r \in S : Newest(S) >= r
  BY DEF Newest
<1>2. Newest(S) >= s /\ s >= Newest(S)
  BY <1>1
<1>3. Newest(S) \in Nat /\ s \in Nat
  BY <1>1
<1> HIDE DEF Newest
<1> QED BY <1>2, <1>3

-----------------------------------------------------------------------------
\* What ReadPage may be given: a node that knows floor+1 .. view.
LEMMA PageBounds ==
    ASSUME TypeOK, NEW t \in tasks, t.addr \in Address,
           NEW view \in 0..chain[t.addr], NEW floor \in 0..view
    PROVE  /\ Page(t, view, floor) \subseteq 1..chain[t.addr]
           /\ PageLow(t, view, floor) \in 1..(view + 1)
           /\ PageHigh(t, view) \in 0..view
<1>1. t \in Task /\ t.cur \in Nat /\ t.before \in Nat /\ chain[t.addr] \in Nat
  BY DEF TypeOK, Task
<1>2. view \in Nat /\ floor \in Nat /\ floor <= view /\ view <= chain[t.addr]
  BY <1>1
<1>3. PageLow(t, view, floor) \in 1..(view + 1)
  BY <1>1, <1>2 DEF PageLow
<1>4. PageHigh(t, view) \in 0..view
  BY <1>1, <1>2 DEF PageHigh
<1>5. ASSUME NEW s \in Page(t, view, floor) PROVE s \in 1..chain[t.addr]
  <2>1. s \in PageLow(t, view, floor)..PageHigh(t, view)
    BY DEF Page
  <2>2. PageLow(t, view, floor) \in Nat /\ PageLow(t, view, floor) >= 1
    BY <1>2, <1>3
  <2>3. PageHigh(t, view) \in Nat /\ PageHigh(t, view) <= view
    BY <1>2, <1>4
  <2> QED BY <1>1, <1>2, <2>1, <2>2, <2>3
<1> QED BY <1>3, <1>4, <1>5

-----------------------------------------------------------------------------
\* Records lie on the chain.
TaskBounds ==
    \A t \in tasks : t.records \subseteq 1..chain[t.addr]

TypeInv == TypeOK /\ TaskBounds

\* Every task is put in the store with the type of its parts.
LEMMA StoreScanType ==
    ASSUME TypeOK, NEW t \in tasks, NEW n \in Nat, NEW records \in SUBSET (1..n),
           NEW safe \in BOOLEAN, StoreScan(t, records, safe)
    PROVE  /\ polls' \in [Address -> [cursor : Nat, canCommit : BOOLEAN]]
           /\ batch' \in [Address -> SUBSET Nat]
<1> DEFINE a == t.addr
<1>1. a \in Address /\ t.cur \in Nat
  BY DEF TypeOK, Task
<1>2. records \in SUBSET (0..n)
  OBVIOUS
<1>c. Candidates(t, records) \in SUBSET Nat
  <2>1. Candidates(t, records) \subseteq records
    BY DEF Candidates
  <2>2. records \subseteq Nat
    OBVIOUS
  <2> QED BY <2>1, <2>2
<1>3. CASE records = {}
  <2>1. polls' = [polls EXCEPT ![a] = [cursor |-> 0, canCommit |-> TRUE]]
    BY <1>3 DEF StoreScan
  <2>2. batch' = batch
    BY <1>3 DEF StoreScan
  <2> QED BY <1>1, <2>1, <2>2 DEF TypeOK
<1>4. CASE records # {}
  <2>1. Newest(records) \in Nat
    <3>1. Newest(records) \in records
      BY <1>2, <1>4, NewestInSet
    <3>2. records \subseteq Nat
      OBVIOUS
    <3> QED BY <3>1, <3>2
  <2>2. CASE t.cur = 0
    <3>1. polls' = [polls EXCEPT ![a] = [cursor |-> Newest(records),
                                         canCommit |-> safe]]
      BY <1>4, <2>2 DEF StoreScan
    <3>2. batch' = batch
      BY <1>4, <2>2 DEF StoreScan
    <3> QED BY <1>1, <2>1, <3>1, <3>2 DEF TypeOK
  <2>3. CASE t.cur # 0
    <3> DEFINE c == IF Candidates(t, records) = {} THEN 0 ELSE Newest(records)
    <3>1. c \in Nat
      BY <2>1
    <3>2. polls' = [polls EXCEPT ![a] = [cursor |-> c, canCommit |-> safe]]
      BY <1>4, <2>3 DEF StoreScan
    <3>3. batch' = [batch EXCEPT ![a] = Candidates(t, records)]
      BY <1>4, <2>3 DEF StoreScan
    <3> HIDE DEF c
    <3> QED BY <1>1, <1>c, <3>1, <3>2, <3>3 DEF TypeOK
  <2> QED BY <2>2, <2>3
<1> QED BY <1>3, <1>4

\* The engine starts well typed.
LEMMA TypeInit == Init => TypeInv
BY DEF Init, TypeInv, TypeOK, TaskBounds, NoPoll, Event

\* A coroutine that starts is a task without records.
LEMMA NewTaskType ==
    ASSUME TypeOK, NEW a \in Address
    PROVE  NewTask(a) \in Task /\ NewTask(a).records = {}
BY DEF NewTask, Task, Phase, TypeOK

\* What is left of a coroutine that returned is a task without records.
LEMMA FinishedType ==
    ASSUME NEW t \in Task, NEW found \in SUBSET Nat
    PROVE  Finished(t, found) \subseteq Task
           /\ \A u \in Finished(t, found) : u.records = {}
<1> DEFINE u == [t EXCEPT !.phase = "done", !.records = {}, !.found = found]
<1>1. u \in Task /\ u.records = {}
  BY DEF Task, Phase
<1>2. Finished(t, found) \subseteq {u}
  BY DEF Finished
<1> HIDE DEF u
<1> QED BY <1>1, <1>2

\* A sequence without the element of one position.
LEMMA RemoveAtElements ==
    ASSUME NEW S, NEW s \in Seq(S), NEW i \in 1..Len(s)
    PROVE  /\ RemoveAt(s, i) \in Seq(S)
           /\ Len(RemoveAt(s, i)) = Len(s) - 1
           /\ \A j \in 1..(i - 1) : RemoveAt(s, i)[j] = s[j]
           /\ \A j \in i..(Len(s) - 1) : RemoveAt(s, i)[j] = s[j + 1]
<1> DEFINE before == SubSeq(s, 1, i - 1)
           after  == SubSeq(s, i + 1, Len(s))
<1>1. before \in Seq(S) /\ Len(before) = i - 1 /\ \A j \in 1..(i - 1) : before[j] = s[j]
  OBVIOUS
<1>2. /\ after \in Seq(S) /\ Len(after) = Len(s) - i
      /\ \A j \in 1..(Len(s) - i) : after[j] = s[i + j]
  OBVIOUS
<1> HIDE DEF before, after
<1>3. RemoveAt(s, i) = before \o after
  BY DEF RemoveAt, before, after
<1>4. /\ before \o after \in Seq(S)
      /\ Len(before \o after) = Len(before) + Len(after)
      /\ \A j \in 1..(Len(before) + Len(after)) :
            (before \o after)[j] = IF j <= Len(before) THEN before[j]
                                   ELSE after[j - Len(before)]
  BY <1>1, <1>2, ConcatProperties
<1>5. \A j \in 1..(i - 1) : (before \o after)[j] = s[j]
  BY <1>1, <1>2, <1>4
<1>6. ASSUME NEW j \in i..(Len(s) - 1) PROVE (before \o after)[j] = s[j + 1]
  <2>1. /\ j - (i - 1) \in 1..(Len(s) - i) /\ i + (j - (i - 1)) = j + 1
        /\ j \in 1..((i - 1) + (Len(s) - i)) /\ ~(j <= i - 1)
    OBVIOUS
  <2>2. (before \o after)[j] = after[j - (i - 1)]
    BY <1>1, <1>2, <1>4, <2>1
  <2>3. after[j - (i - 1)] = s[i + (j - (i - 1))]
    BY <1>2, <2>1
  <2> QED
    BY <2>1, <2>2, <2>3
<1>7. Len(before) + Len(after) = Len(s) - 1
  BY <1>1, <1>2
<1> QED
  BY <1>3, <1>4, <1>5, <1>6, <1>7

\* Clearing takes at most one row away, and a bounded table stays bounded.
LEMMA BoundariesType ==
    ASSUME TypeOK, NEW a \in Address, NEW cur \in Nat
    PROVE  /\ Cleared(a) \in Seq(Boundary) /\ Len(Cleared(a)) <= Len(boundaries)
           /\ Retained(Detected(a, cur)) \in Seq(Boundary)
           /\ Len(Retained(Detected(a, cur))) <= MaxBoundaries
<1>1. boundaries \in Seq(Boundary) /\ Len(boundaries) \in Nat /\ Len(boundaries) <= MaxBoundaries
  BY DEF TypeOK
<1>2. Cleared(a) \in Seq(Boundary) /\ Len(Cleared(a)) <= Len(boundaries)
  <2>1. CASE HasBoundary(a)
    <3>1. RowOf(a) \in 1..Len(boundaries)
      BY <2>1 DEF HasBoundary, RowOf
    <3>2. /\ RemoveAt(boundaries, RowOf(a)) \in Seq(Boundary)
          /\ Len(RemoveAt(boundaries, RowOf(a))) = Len(boundaries) - 1
      BY <1>1, <3>1, RemoveAtElements
    <3> QED
      BY <1>1, <2>1, <3>2 DEF Cleared
  <2>2. CASE ~HasBoundary(a)
    BY <1>1, <2>2 DEF Cleared
  <2> QED
    BY <2>1, <2>2
<1>3. PICK row \in Boundary : row = [address |-> a, cursor |-> cur]
  BY DEF Boundary
<1>4. /\ Detected(a, cur) = Append(Cleared(a), row) /\ Detected(a, cur) \in Seq(Boundary)
      /\ Len(Detected(a, cur)) = Len(Cleared(a)) + 1
  BY <1>2, <1>3 DEF Detected
<1> QED
  BY <1>1, <1>2, <1>4 DEF Retained

\* A step of a coroutine, with what TaskStep lets it receive.
LEMMA ReadPageType ==
    ASSUME TypeInv, NEW t \in tasks, NEW view \in 0..chain[t.addr],
           NEW floor \in 0..view, NEW bad \in SUBSET Page(t, view, floor),
           ReadPage(t, view, floor, bad)
    PROVE  TypeInv'
<1> USE DEF TypeInv
<1> DEFINE page == Page(t, view, floor)
           records == t.records \cup (page \ bad)
           found   == t.cur = 0 \/ t.cur \in page \ bad
           short   == ShortPage(t, view, floor)
           last    == PageHigh(t, view) - Limit + 1
           stuck   == last \in bad
           atLimit == t.pages + 1 = MaxPages
           safe    == t.safe /\ bad = {} /\ (found \/ short \/ stuck \/ ~atLimit)
           ended   == found \/ short \/ stuck \/ atLimit
           rest    == IF t.cur # 0 /\ Candidates(t, records) # {}
                      THEN {[t EXCEPT !.records = records, !.phase = "txs"]}
                      ELSE Finished(t, {})
           next    == [t EXCEPT !.records = records, !.safe = safe,
                                !.pages = t.pages + 1, !.before = last]
<1>1. t \in Task /\ t.addr \in Address /\ t.pages \in Nat
      /\ chain[t.addr] \in Nat
  BY DEF TypeOK, Task
<1>2. page \subseteq 1..chain[t.addr]
  BY <1>1, PageBounds
<1>3. records \in SUBSET (1..chain[t.addr])
  BY <1>2 DEF TaskBounds
<1>n. records \in SUBSET Nat
  BY <1>1, <1>3
<1>4. safe \in BOOLEAN
  OBVIOUS
<1>5. FaultWhen(view < chain[t.addr] \/ floor > 0 \/ bad # {})
  BY DEF ReadPage
<1>6. faults' \in 0..MaxFaults
  BY <1>5 DEF FaultWhen, Fault, TypeOK
<1>7. ended => /\ RecordBoundary(t, records, page # {} \/ t.pages > 0, found, safe)
               /\ StoreScan(t, records, safe)
               /\ tasks' = (tasks \ {t}) \cup rest
  BY DEF ReadPage
<1>8. ~ended => /\ tasks' = (tasks \ {t}) \cup {next}
                /\ UNCHANGED <<boundaries, reported, polls, batch>>
  BY DEF ReadPage
<1>9. ~ended => last \in Nat
  <2>1. PageHigh(t, view) \in Nat /\ PageLow(t, view, floor) \in Nat
    BY <1>1, PageBounds
  <2>2. ~short => PageHigh(t, view) - PageLow(t, view, floor) + 1 >= Limit
    BY <2>1 DEF ShortPage
  <2> QED BY <2>1, <2>2
<1>10. UNCHANGED <<chain, cursor, marked, delivered, deadLetters, base,
                   polling, failures, delivery>>
  BY DEF ReadPage
<1> HIDE DEF page, records, found, safe, last, ended
<1>11. CASE ended
  <2>1. rest \subseteq Task
        /\ \A u \in rest : u.records \subseteq 1..chain[u.addr]
    <3> DEFINE u == [t EXCEPT !.records = records, !.phase = "txs"]
    <3>1. u \in Task /\ u.records = records /\ u.addr = t.addr
      BY <1>1, <1>n DEF Task, Phase
    <3>2. Finished(t, {}) \subseteq Task
          /\ \A v \in Finished(t, {}) : v.records = {}
      BY <1>1, FinishedType
    <3> QED BY <1>3, <3>1, <3>2
  <2>2. /\ boundaries' \in Seq(Boundary) /\ Len(boundaries') <= MaxBoundaries
        /\ reported' \subseteq Address \X Nat
    <3> DEFINE gap == {<<t.addr, s>> : s \in {r \in 1..chain[t.addr] :
                                       safe /\ r > t.cur /\ r \notin records}}
    <3>1. gap \subseteq Address \X Nat
      BY <1>1
    <3>2. t.cur \in Nat
      BY <1>1 DEF Task
    <3>3. /\ \/ boundaries' = boundaries \/ boundaries' = Cleared(t.addr)
             \/ boundaries' = Retained(Detected(t.addr, t.cur))
          /\ reported' = reported \/ reported' = reported \cup gap
      BY <1>7, <1>11 DEF RecordBoundary
    <3> HIDE DEF gap
    <3>4. reported' \subseteq Address \X Nat
      BY <3>1, <3>3 DEF TypeOK
    <3>5. /\ boundaries \in Seq(Boundary) /\ Len(boundaries) \in Nat
          /\ Len(boundaries) <= MaxBoundaries
      BY DEF TypeOK
    <3>6. /\ Cleared(t.addr) \in Seq(Boundary) /\ Len(Cleared(t.addr)) <= Len(boundaries)
          /\ Retained(Detected(t.addr, t.cur)) \in Seq(Boundary)
          /\ Len(Retained(Detected(t.addr, t.cur))) <= MaxBoundaries
      BY <1>1, <3>2, BoundariesType
    <3> QED BY <3>3, <3>4, <3>5, <3>6
  <2>3. /\ polls' \in [Address -> [cursor : Nat, canCommit : BOOLEAN]]
        /\ batch' \in [Address -> SUBSET Nat]
    BY <1>1, <1>3, <1>4, <1>7, <1>11, StoreScanType
  <2>4. tasks' = (tasks \ {t}) \cup rest
    BY <1>7, <1>11
  <2> HIDE DEF rest
  <2>5. TypeOK'
    BY <1>6, <1>10, <2>1, <2>2, <2>3, <2>4 DEF TypeOK, polling, delivery
  <2>6. TaskBounds'
    BY <1>10, <2>1, <2>4 DEF TaskBounds
  <2> QED BY <2>5, <2>6
<1>12. CASE ~ended
  <2>1. next \in Task /\ next.records = records /\ next.addr = t.addr
    <3>1. t.pages + 1 \in Nat
      BY <1>1
    <3>2. last \in Nat
      BY <1>9, <1>12
    <3>3. PICK p \in Nat : p = t.pages + 1
      BY <3>1
    <3>4. next = [t EXCEPT !.records = records, !.safe = safe,
                           !.pages = p, !.before = last]
      BY <3>3
    <3> HIDE DEF next
    <3>5. PICK sf \in BOOLEAN :
            next = [t EXCEPT !.records = records, !.safe = sf,
                             !.pages = p, !.before = last]
      BY <1>4, <3>4, Zenon
    <3>6. t \in Task
      BY <1>1
    <3> QED BY <1>n, <3>2, <3>5, <3>6 DEF Task
  <2>2. /\ tasks' = (tasks \ {t}) \cup {next}
        /\ UNCHANGED <<boundaries, reported, polls, batch>>
    BY <1>8, <1>12
  <2> HIDE DEF next
  <2>3. TypeOK'
    BY <1>6, <1>10, <2>1, <2>2 DEF TypeOK, polling, delivery
  <2>4. TaskBounds'
    BY <1>3, <1>10, <2>1, <2>2 DEF TaskBounds
  <2> QED BY <2>3, <2>4
<1> QED BY <1>11, <1>12

\* Every step keeps the types.
LEMMA TypeStep == TypeInv /\ [Next]_vars => TypeInv'
<1> SUFFICES ASSUME TypeInv, [Next]_vars PROVE TypeInv'
  OBVIOUS
<1> USE DEF TypeInv
<1>1. ASSUME NEW a \in Address, NewSignature(a) PROVE TypeInv'
  <2>a. chain \in [Address -> Nat] /\ chain' = [chain EXCEPT ![a] = @ + 1]
    BY <1>1 DEF NewSignature, TypeOK
  <2>1. \A b \in Address : chain'[b] \in Nat /\ chain[b] <= chain'[b]
    BY <2>a
  <2>2. chain' \in [Address -> Nat]
    BY <2>a
  <2>3. TypeOK'
    BY <1>1, <2>2 DEF NewSignature, TypeOK, durable, history, polling, shared, delivery
  <2>4. TaskBounds'
    <3>1. tasks' = tasks
      BY <1>1 DEF NewSignature, shared
    <3>2. ASSUME NEW t \in tasks PROVE t.records \subseteq 1..chain'[t.addr]
      <4>1. t.addr \in Address /\ chain[t.addr] \in Nat
        BY DEF TypeOK, Task
      <4>2. t.records \subseteq 1..chain[t.addr]
        BY DEF TaskBounds
      <4> QED BY <2>1, <4>1, <4>2
    <3> QED BY <3>1, <3>2 DEF TaskBounds
  <2> QED BY <2>3, <2>4
<1>2. ASSUME NEW a \in Address, CommitCursor(a) PROVE TypeInv'
  BY <1>2 DEF CommitCursor, MayCommit, TypeOK, TaskBounds, delivery
<1>3. ASSUME NEW found \in SUBSET (Explicit \ marked), StartPoll(found)
      PROVE TypeInv'
  <2>1. {NoAddress} \X found \subseteq Event /\ found \subseteq Explicit
    BY DEF Event
  <2>2. faults' \in 0..MaxFaults
    BY <1>3 DEF StartPoll, FaultWhen, Fault, TypeOK
  <2>3. TypeOK'
    BY <1>3, <2>1, <2>2 DEF StartPoll, TypeOK, durable, history, shared,
                            delivery
  <2>4. TaskBounds'
    BY <1>3 DEF StartPoll, TaskBounds, shared
  <2> QED BY <2>3, <2>4
<1>4. ASSUME NEW e \in toPut, Put(e) PROVE TypeInv'
  <2>1. queue' \in Seq(Event) /\ Len(queue') <= QueueSize
    <3>1. /\ queue \in Seq(Event) /\ e \in Event /\ queue' = Append(queue, e)
          /\ Len(queue) < QueueSize
      BY <1>4 DEF Put, QueueHasRoom, TypeOK
    <3> QED BY <3>1
  <2>2. toPut' \subseteq Event
    BY <1>4 DEF Put, TypeOK
  <2>3. UNCHANGED <<chain, durable, history, pc, fetched, toMark, toCommit,
                    shared, busy, faults>>
    BY <1>4 DEF Put
  <2>4. TypeOK'
    BY <2>1, <2>2, <2>3 DEF TypeOK, durable, history, shared
  <2>5. TaskBounds'
    BY <2>3 DEF TaskBounds, shared
  <2> QED BY <2>4, <2>5
<1>5. CASE Gather
  <2>1. tasks' = tasks \cup {NewTask(a) : a \in Address} /\ pc' = "gather"
    BY <1>5 DEF Gather
  <2>2. tasks' \subseteq Task /\ \A t \in tasks' \ tasks : t.records = {}
    <3>1. \A a \in Address : NewTask(a) \in Task /\ NewTask(a).records = {}
      BY NewTaskType
    <3>2. tasks \subseteq Task
      BY DEF TypeOK
    <3> QED BY <2>1, <3>1, <3>2
  <2>3. UNCHANGED <<chain, durable, history, toPut, fetched, toMark, toCommit,
                    polls, batch, failures, delivery, faults>>
    BY <1>5 DEF Gather
  <2>4. TypeOK'
    BY <2>1, <2>2, <2>3 DEF TypeOK, durable, history, delivery
  <2>5. TaskBounds'
    BY <2>2, <2>3 DEF TaskBounds
  <2> QED BY <2>4, <2>5
<1>6. CASE Collect
  <2>1. \A t \in tasks : {t.addr} \X t.found \subseteq Event
    BY DEF TypeOK, Task, Event
  <2>2. toPut' \subseteq Event
    BY <1>6, <2>1 DEF Collect, Live
  <2>3. tasks' \subseteq tasks
    BY <1>6 DEF Collect, Outlived
  <2>4. TypeOK'
    BY <1>6, <2>2, <2>3 DEF Collect, TypeOK, durable, history, delivery
  <2>5. TaskBounds'
    BY <1>6, <2>3 DEF Collect, TaskBounds
  <2> QED BY <2>4, <2>5
<1>7. CASE Join
  BY <1>7 DEF Join, TypeOK, TaskBounds, durable, history, shared, delivery
<1>8. CASE EndPoll
  BY <1>8 DEF EndPoll, NoPoll, TypeOK, TaskBounds, durable, history, delivery
<1>9. ASSUME NEW t \in tasks, NEW view \in 0..chain[t.addr],
             NEW floor \in 0..view, NEW bad \in SUBSET Page(t, view, floor),
             ReadPage(t, view, floor, bad)
      PROVE TypeInv'
  BY <1>9, ReadPageType
<1>10. ASSUME NEW t \in tasks, NEW missing, ReadTransactions(t, missing)
       PROVE TypeInv'
  <2> DEFINE found == Candidates(t, t.records) \ missing
  <2>1. t \in Task /\ t.addr \in Address
    BY DEF TypeOK, Task
  <2>2. found \in SUBSET Nat
    BY <2>1 DEF Candidates, Task
  <2>3. tasks' = (tasks \ {t}) \cup Finished(t, found)
    BY <1>10 DEF ReadTransactions
  <2>4. polls' \in [Address -> [cursor : Nat, canCommit : BOOLEAN]]
    BY <1>10, <2>1 DEF ReadTransactions, NoPoll, TypeOK
  <2>5. faults' \in 0..MaxFaults
    BY <1>10 DEF ReadTransactions, FaultWhen, Fault, TypeOK
  <2>6. tasks' \subseteq Task
    BY <2>2, <2>3, FinishedType DEF TypeOK
  <2>7. TypeOK'
    BY <1>10, <2>4, <2>5, <2>6
       DEF ReadTransactions, TypeOK, durable, history, polling, delivery
  <2>8. TaskBounds'
    <3>1. \A u \in Finished(t, found) : u.records = {}
      BY <2>1, <2>2, FinishedType
    <3>2. chain' = chain
      BY <1>10 DEF ReadTransactions
    <3> HIDE DEF found
    <3> QED BY <2>3, <3>1, <3>2 DEF TaskBounds
  <2> QED BY <2>7, <2>8
<1>11. ASSUME NEW t \in tasks, PollFails(t) PROVE TypeInv'
  <2>1. ASSUME NEW u \in tasks'
        PROVE  /\ u \in Task
               /\ \E v \in tasks : u.addr = v.addr /\ u.records = v.records
    <3>1. CASE u \in Outlived
      BY <3>1 DEF Outlived, TypeOK
    <3>2. CASE u \notin Outlived
      <4>1. PICK v \in tasks : u = [v EXCEPT !.live = FALSE]
        BY <1>11, <3>2 DEF PollFails, Live
      <4>2. v \in Task
        BY DEF TypeOK
      <4> QED BY <4>1, <4>2 DEF Task
    <3> QED BY <3>1, <3>2
  <2>2. faults' \in 0..MaxFaults
    BY <1>11 DEF PollFails, Fault, TypeOK
  <2>3. tasks' \subseteq Task
    BY <2>1
  <2>4. TypeOK'
    BY <1>11, <2>2, <2>3 DEF PollFails, TypeOK, durable, history, delivery
  <2>5. TaskBounds'
    BY <1>11, <2>1 DEF PollFails, TaskBounds
  <2> QED BY <2>4, <2>5
<1>12. ASSUME NEW t \in tasks, OutlivedFails(t) PROVE TypeInv'
  <2>1. tasks' \subseteq tasks
    BY <1>12 DEF OutlivedFails
  <2>2. faults' \in 0..MaxFaults
    BY <1>12 DEF OutlivedFails, Fault, TypeOK
  <2>3. TypeOK'
    BY <1>12, <2>1, <2>2
       DEF OutlivedFails, TypeOK, durable, history, polling, delivery
  <2>4. TaskBounds'
    BY <1>12, <2>1 DEF OutlivedFails, TaskBounds
  <2> QED BY <2>3, <2>4
<1>13. ASSUME NEW s \in toMark, MarkExplicit(s) PROVE TypeInv'
  BY <1>13 DEF MarkExplicit, TypeOK, TaskBounds, history, delivery
<1>14. ASSUME NEW w \in Worker, Take(w) PROVE TypeInv'
  <2>1. Head(queue) \in Event /\ Tail(queue) \in Seq(Event)
        /\ Len(Tail(queue)) <= QueueSize
    BY <1>14 DEF Take, TypeOK
  <2>2. TypeOK'
    BY <1>14, <2>1 DEF Take, TypeOK, durable, history, polling, shared
  <2>3. TaskBounds'
    BY <1>14 DEF Take, TaskBounds, shared
  <2> QED BY <2>2, <2>3
<1>15. ASSUME NEW w \in Worker, NEW dropped \in BOOLEAN, Deliver(w, dropped)
       PROVE TypeInv'
  BY <1>15 DEF Deliver, TaskDone, FaultWhen, Fault, TypeOK, TaskBounds, durable, polling, shared
<1>16. ASSUME NEW w \in Worker, DeliverRaises(w) PROVE TypeInv'
  BY <1>16 DEF DeliverRaises, TaskDone, Fault, TypeOK, TaskBounds, durable, history, polling
<1>17. CASE Crash
  BY <1>17 DEF Crash, Fault, NoPoll, TypeOK, TaskBounds, durable, history
<1>18. CASE UNCHANGED vars
  BY <1>18 DEF vars, TypeOK, TaskBounds
<1>19. ASSUME NEW t \in tasks, TaskStep(t) PROVE TypeInv'
  <2>1. t \in Task /\ t.addr \in Address /\ chain[t.addr] \in Nat
    BY DEF TypeOK, Task
  <2>2. ASSUME NEW view \in (chain[t.addr] - Lag)..chain[t.addr],
               NEW floor \in 0..view, NEW bad \in SUBSET Page(t, view, floor),
               ReadPage(t, view, floor, bad)
        PROVE  TypeInv'
    <3>1. view \in 0..chain[t.addr]
      BY <2>1
    <3> QED BY <1>9, <2>2, <3>1
  <2> QED BY <1>10, <1>19, <2>2 DEF TaskStep
<1> QED
  BY <1>1, <1>2, <1>3, <1>4, <1>5, <1>6, <1>7, <1>8, <1>11, <1>12, <1>13,
     <1>14, <1>15, <1>16, <1>17, <1>18, <1>19 DEF Next

\* The state of the engine is always well typed: in particular the queue never
\* holds more than event_queue_size events.
THEOREM TypeCorrect == Spec => []TypeOK
<1>1. Spec => []TypeInv
  BY TypeInit, TypeStep, PTL DEF Spec
<1>2. TypeInv => TypeOK
  BY DEF TypeInv
<1> QED BY <1>1, <1>2, PTL

-----------------------------------------------------------------------------
(* The invariant behind the safety of the explicit marks.                   *)

\* An event of the current poll is still to be queued, in the queue, with a
\* worker, handled, or remembered as failed.
Tracked(e) == e \in toPut \/ e \in InFlight \/ e \in Handled \/ e \in failures

ExplicitTracked ==
    /\ pc = "gather" => toPut = {}
    /\ pc \in {"putExplicit", "gather", "putAddress"} =>
         \A s \in fetched : Tracked(<<NoAddress, s>>)
    /\ pc = "commit" =>
         \A s \in toMark : \/ <<NoAddress, s>> \in Handled
                           \/ <<NoAddress, s>> \in failures

ExplicitInv == TypeInv /\ ExplicitTracked /\ ExplicitMarkIsHandled

-----------------------------------------------------------------------------
(* How the worker steps move events.                                        *)

\* An event that is put on the queue is in flight; the others stay where they were.
LEMMA PutMoves ==
    ASSUME TypeOK, NEW e \in toPut, Put(e)
    PROVE  InFlight \cup {e} \subseteq InFlight'
<1>1. queue \in Seq(Event) /\ e \in Event /\ queue' = Append(queue, e)
      /\ busy' = busy
  BY DEF TypeOK, Put
<1>2. \A i \in 1..Len(queue) : i \in 1..Len(queue') /\ queue'[i] = queue[i]
  BY <1>1
<1>3. Len(queue) + 1 \in 1..Len(queue') /\ queue'[Len(queue) + 1] = e
  BY <1>1
<1> QED BY <1>1, <1>2, <1>3 DEF InFlight

\* A worker that takes an event keeps it in flight.
LEMMA TakeMoves ==
    ASSUME TypeOK, NEW w \in Worker, Take(w)
    PROVE  InFlight \subseteq InFlight'
<1>1. queue \in Seq(Event) /\ queue # <<>> /\ queue' = Tail(queue)
      /\ busy[w] = {} /\ busy' = [busy EXCEPT ![w] = {Head(queue)}]
      /\ busy \in [Worker -> SUBSET Event]
  BY DEF TypeOK, Take
<1>2. ASSUME NEW i \in 1..Len(queue) PROVE queue[i] \in InFlight'
  <2>1. CASE i = 1
    <3>1. queue[i] \in busy'[w]
      BY <1>1, <2>1
    <3> QED BY <3>1 DEF InFlight
  <2>2. CASE i # 1
    <3>1. i - 1 \in 1..Len(queue') /\ queue'[i - 1] = queue[i]
      BY <1>1, <2>2
    <3> QED BY <3>1 DEF InFlight
  <2> QED BY <2>1, <2>2
<1>3. ASSUME NEW v \in Worker, NEW e \in busy[v] PROVE e \in InFlight'
  <2>1. busy'[v] = busy[v]
    BY <1>1, <1>3
  <2> QED BY <2>1 DEF InFlight
<1> QED BY <1>2, <1>3 DEF InFlight

\* A worker that is done lets go of its own event only.
LEMMA DoneMoves ==
    ASSUME TypeOK, NEW w \in Worker, TaskDone(w), queue' = queue
    PROVE  InFlight \subseteq InFlight' \cup busy[w]
<1>1. \A v \in Worker : v # w => busy'[v] = busy[v]
  BY DEF TaskDone, TypeOK
<1> QED BY <1>1 DEF InFlight

\* Events stay tracked across every step of the coroutines and workers.
LEMMA TrackedKept ==
    ASSUME TypeOK,
           \/ UNCHANGED <<toPut, queue, busy, delivered, deadLetters, failures>>
           \/ \E e \in toPut : Put(e)
           \/ \E w \in Worker : \/ Take(w)
                                \/ \E dropped \in BOOLEAN : Deliver(w, dropped)
                                \/ DeliverRaises(w)
    PROVE  \A e : Tracked(e) => Tracked(e)'
<1>1. CASE UNCHANGED <<toPut, queue, busy, delivered, deadLetters, failures>>
  BY <1>1 DEF Tracked, InFlight, Handled
<1>2. ASSUME NEW e \in toPut, Put(e) PROVE \A d : Tracked(d) => Tracked(d)'
  <2>1. InFlight \cup {e} \subseteq InFlight'
    BY <1>2, PutMoves
  <2>2. toPut' = toPut \ {e} /\ failures' = failures
    BY <1>2 DEF Put, shared
  <2>3. Handled' = Handled
    BY <1>2 DEF Put, Handled, history
  <2> QED BY <2>1, <2>2, <2>3 DEF Tracked
<1>3. ASSUME NEW w \in Worker, Take(w) PROVE \A d : Tracked(d) => Tracked(d)'
  <2>1. InFlight \subseteq InFlight'
    BY <1>3, TakeMoves
  <2>2. toPut' = toPut /\ failures' = failures /\ Handled' = Handled
    BY <1>3 DEF Take, Handled, history, polling, shared
  <2> QED BY <2>1, <2>2 DEF Tracked
<1>4. ASSUME NEW w \in Worker, NEW dropped \in BOOLEAN, Deliver(w, dropped)
      PROVE \A d : Tracked(d) => Tracked(d)'
  <2>1. InFlight \subseteq InFlight' \cup busy[w]
    BY <1>4, DoneMoves DEF Deliver
  <2>2. Handled \cup busy[w] \subseteq Handled'
    BY <1>4 DEF Deliver, Handled
  <2>3. toPut' = toPut /\ failures' = failures
    BY <1>4 DEF Deliver, polling, shared
  <2> QED BY <2>1, <2>2, <2>3 DEF Tracked
<1>5. ASSUME NEW w \in Worker, DeliverRaises(w)
      PROVE \A d : Tracked(d) => Tracked(d)'
  <2>1. InFlight \subseteq InFlight' \cup busy[w]
    BY <1>5, DoneMoves DEF DeliverRaises
  <2>2. failures' = failures \cup busy[w] /\ Handled' = Handled /\ toPut' = toPut
    BY <1>5 DEF DeliverRaises, Handled, polling, history
  <2> QED BY <2>1, <2>2 DEF Tracked
<1> QED BY <1>1, <1>2, <1>3, <1>4, <1>5

\* Nothing handled is ever forgotten, and the durable marks change only in
\* MarkExplicit.
LEMMA HandledGrows ==
    ASSUME [Next]_vars PROVE Handled \subseteq Handled'
<1>1. ASSUME NEW w \in Worker, NEW dropped \in BOOLEAN, Deliver(w, dropped)
      PROVE Handled \subseteq Handled'
  BY <1>1 DEF Deliver, Handled
<1>2. ASSUME NEW t \in tasks, TaskStep(t) PROVE Handled \subseteq Handled'
  <2>1. delivered' = delivered /\ deadLetters' = deadLetters
    <3>1. ASSUME NEW view, NEW floor, NEW bad, ReadPage(t, view, floor, bad)
          PROVE delivered' = delivered /\ deadLetters' = deadLetters
      BY <3>1 DEF ReadPage
    <3>2. ASSUME NEW missing, ReadTransactions(t, missing)
          PROVE delivered' = delivered /\ deadLetters' = deadLetters
      BY <3>2 DEF ReadTransactions, history
    <3> QED BY <1>2, <3>1, <3>2 DEF TaskStep
  <2> QED BY <2>1 DEF Handled
<1>3. ASSUME NEW a \in Address, NewSignature(a) \/ CommitCursor(a)
      PROVE Handled \subseteq Handled'
  BY <1>3 DEF NewSignature, CommitCursor, Handled, history
<1>4. ASSUME NEW found, StartPoll(found) PROVE Handled \subseteq Handled'
  BY <1>4 DEF StartPoll, Handled, history
<1>5. ASSUME NEW e, Put(e) PROVE Handled \subseteq Handled'
  BY <1>5 DEF Put, Handled, history
<1>6. CASE Gather \/ Collect \/ Join \/ EndPoll \/ Crash
  BY <1>6 DEF Gather, Collect, Join, EndPoll, Crash, Handled, history
<1>7. ASSUME NEW t, PollFails(t) \/ OutlivedFails(t)
      PROVE Handled \subseteq Handled'
  BY <1>7 DEF PollFails, OutlivedFails, Handled, history
<1>8. ASSUME NEW s, MarkExplicit(s) PROVE Handled \subseteq Handled'
  BY <1>8 DEF MarkExplicit, Handled, history
<1>9. ASSUME NEW w, Take(w) \/ DeliverRaises(w)
      PROVE Handled \subseteq Handled'
  BY <1>9 DEF Take, DeliverRaises, Handled, history
<1>10. CASE UNCHANGED vars
  BY <1>10 DEF vars, Handled
<1> QED
  BY <1>1, <1>2, <1>3, <1>4, <1>5, <1>6, <1>7, <1>8, <1>9, <1>10 DEF Next

\* A coroutine's step touches only what coroutines own.
LEMMA TaskStepKeeps ==
    ASSUME NEW t, TaskStep(t)
    PROVE  UNCHANGED <<toPut, queue, busy, delivered, deadLetters, failures,
                       marked, pc, fetched, toMark, cursor, toCommit, base, chain>>
<1>1. ASSUME NEW view, NEW floor, NEW bad, ReadPage(t, view, floor, bad)
      PROVE  UNCHANGED <<toPut, queue, busy, delivered, deadLetters, failures,
                         marked, pc, fetched, toMark, cursor, toCommit, base, chain>>
  BY <1>1 DEF ReadPage, polling, delivery
<1>2. ASSUME NEW missing, ReadTransactions(t, missing)
      PROVE  UNCHANGED <<toPut, queue, busy, delivered, deadLetters, failures,
                         marked, pc, fetched, toMark, cursor, toCommit, base, chain>>
  BY <1>2 DEF ReadTransactions, durable, history, polling, delivery
<1> QED BY <1>1, <1>2 DEF TaskStep

-----------------------------------------------------------------------------
\* No explicit signature is marked or fetched at the start.
LEMMA ExplicitInit == Init => ExplicitInv
BY TypeInit DEF ExplicitInv, ExplicitTracked, ExplicitMarkIsHandled, Init

\* Every step keeps the invariant of the explicit marks.
LEMMA ExplicitStep == ExplicitInv /\ [Next]_vars => ExplicitInv'
<1> SUFFICES ASSUME ExplicitInv, [Next]_vars PROVE ExplicitInv'
  OBVIOUS
<1> USE DEF ExplicitInv
<1>1. TypeInv' /\ TypeOK
  BY TypeStep DEF TypeInv
<1>2. Handled \subseteq Handled'
  BY HandledGrows
\* What most steps do: keep the marks and the poll's place, lose no event.
<1>3. ASSUME UNCHANGED <<marked, pc, fetched, toMark>>,
             pc # "commit" => \A e : Tracked(e) => Tracked(e)',
             \A s \in Explicit : <<NoAddress, s>> \in failures =>
                                 <<NoAddress, s>> \in failures',
             pc = "gather" => toPut' \subseteq toPut
      PROVE  ExplicitInv'
  <2>1. ExplicitMarkIsHandled'
    BY <1>2, <1>3 DEF ExplicitMarkIsHandled
  <2>2. fetched \subseteq Explicit /\ toMark \subseteq Explicit
    BY <1>1 DEF TypeOK
  <2>3. (pc = "gather" => toPut = {})'
    BY <1>3 DEF ExplicitTracked
  <2>4. (pc \in {"putExplicit", "gather", "putAddress"} =>
            \A s \in fetched : Tracked(<<NoAddress, s>>))'
    <3> SUFFICES ASSUME pc \in {"putExplicit", "gather", "putAddress"},
                        NEW s \in fetched
                 PROVE  Tracked(<<NoAddress, s>>)'
      BY <1>3
    <3>1. Tracked(<<NoAddress, s>>)
      BY DEF ExplicitTracked
    <3> QED BY <1>3, <3>1
  <2>5. (pc = "commit" =>
            \A s \in toMark : \/ <<NoAddress, s>> \in Handled
                              \/ <<NoAddress, s>> \in failures)'
    BY <1>2, <1>3, <2>2 DEF ExplicitTracked
  <2> QED BY <1>1, <2>1, <2>3, <2>4, <2>5 DEF ExplicitTracked
\* Steps that end the poll, or start one.
<1>4. ASSUME marked' = marked, pc' = "idle" PROVE ExplicitInv'
  BY <1>1, <1>2, <1>4 DEF ExplicitTracked, ExplicitMarkIsHandled
<1>5. ASSUME NEW a \in Address, NewSignature(a) PROVE ExplicitInv'
  <2>1. UNCHANGED <<toPut, queue, busy, delivered, deadLetters, failures,
                    marked, pc, fetched, toMark>>
    BY <1>5 DEF NewSignature, durable, history, polling, shared, delivery
  <2> QED BY <1>1, <1>3, <2>1, TrackedKept
<1>6. ASSUME NEW a \in Address, CommitCursor(a) PROVE ExplicitInv'
  <2>1. UNCHANGED <<marked, pc, fetched, toMark, toPut>> /\ pc = "commit"
        /\ failures' = failures \ ({a} \X batch[a])
    BY <1>6 DEF CommitCursor
  <2> QED BY <1>3, <2>1
<1>7. ASSUME NEW found \in SUBSET (Explicit \ marked), StartPoll(found)
      PROVE ExplicitInv'
  <2>1. /\ marked' = marked /\ pc' = "putExplicit" /\ fetched' = found
        /\ toPut' = {NoAddress} \X found
    BY <1>7 DEF StartPoll, durable
  <2>2. ExplicitTracked'
    BY <2>1 DEF ExplicitTracked, Tracked
  <2>3. ExplicitMarkIsHandled'
    BY <1>2, <2>1 DEF ExplicitMarkIsHandled
  <2> QED BY <1>1, <2>2, <2>3
<1>8. ASSUME NEW e \in toPut, Put(e) PROVE ExplicitInv'
  <2>1. UNCHANGED <<marked, pc, fetched, toMark, failures>>
        /\ toPut' \subseteq toPut
    BY <1>8 DEF Put, durable, shared
  <2> QED BY <1>1, <1>3, <1>8, <2>1, TrackedKept
<1>9. CASE Gather
  <2>1. /\ UNCHANGED <<toPut, queue, busy, delivered, deadLetters, failures,
                       marked, fetched, toMark>>
        /\ pc = "putExplicit" /\ pc' = "gather" /\ toPut = {}
    BY <1>9 DEF Gather, durable, history, delivery
  <2>2. \A e : Tracked(e) => Tracked(e)'
    BY <1>1, <2>1, TrackedKept
  <2>3. ExplicitTracked' /\ ExplicitMarkIsHandled'
    BY <1>2, <2>1, <2>2 DEF ExplicitTracked, ExplicitMarkIsHandled
  <2> QED BY <1>1, <2>3
<1>10. CASE Collect
  <2>1. /\ UNCHANGED <<queue, busy, delivered, deadLetters, failures,
                       marked, fetched, toMark>>
        /\ pc = "gather" /\ pc' = "putAddress" /\ toPut = {}
    BY <1>10 DEF Collect, durable, history, delivery, ExplicitTracked
  <2>2. \A e : Tracked(e) => Tracked(e)'
    BY <2>1 DEF Tracked, InFlight, Handled
  <2>3. ExplicitTracked' /\ ExplicitMarkIsHandled'
    BY <1>2, <2>1, <2>2 DEF ExplicitTracked, ExplicitMarkIsHandled
  <2> QED BY <1>1, <2>3
<1>11. CASE Join
  <2>1. /\ UNCHANGED <<marked, failures, delivered, deadLetters>>
        /\ pc = "putAddress" /\ pc' = "commit" /\ toMark' = fetched
        /\ toPut = {} /\ InFlight = {}
    BY <1>11 DEF Join, durable, history, shared
  <2>2. \A s \in fetched : \/ <<NoAddress, s>> \in Handled
                           \/ <<NoAddress, s>> \in failures
    BY <2>1 DEF ExplicitTracked, Tracked
  <2>3. ExplicitTracked' /\ ExplicitMarkIsHandled'
    BY <1>2, <2>1, <2>2 DEF ExplicitTracked, ExplicitMarkIsHandled
  <2> QED BY <1>1, <2>3
<1>12. CASE EndPoll
  BY <1>4, <1>12 DEF EndPoll, durable
<1>13. ASSUME NEW t \in tasks, TaskStep(t) PROVE ExplicitInv'
  <2>1. UNCHANGED <<toPut, queue, busy, delivered, deadLetters, failures,
                    marked, pc, fetched, toMark>>
    BY <1>13, TaskStepKeeps
  <2> QED BY <1>1, <1>3, <2>1, TrackedKept
<1>14. ASSUME NEW t \in tasks, PollFails(t) PROVE ExplicitInv'
  BY <1>4, <1>14 DEF PollFails, durable
<1>15. ASSUME NEW t \in tasks, OutlivedFails(t) PROVE ExplicitInv'
  <2>1. UNCHANGED <<toPut, queue, busy, delivered, deadLetters, failures,
                    marked, pc, fetched, toMark>>
    BY <1>15 DEF OutlivedFails, durable, history, polling, delivery
  <2> QED BY <1>1, <1>3, <2>1, TrackedKept
<1>16. ASSUME NEW s \in toMark, MarkExplicit(s) PROVE ExplicitInv'
  <2>1. /\ UNCHANGED <<pc, delivered, deadLetters>> /\ pc = "commit"
        /\ toMark' = toMark \ {s}
        /\ failures' = failures \ {<<NoAddress, s>>}
        /\ marked' = IF NotFailed(s) THEN marked \cup {s} ELSE marked
    BY <1>16 DEF MarkExplicit, history
  <2>2. <<NoAddress, s>> \in Handled \/ ~NotFailed(s)
    BY <2>1 DEF ExplicitTracked, NotFailed
  <2>3. ExplicitMarkIsHandled'
    BY <1>2, <2>1, <2>2 DEF ExplicitMarkIsHandled
  <2>4. ExplicitTracked'
    BY <1>2, <2>1 DEF ExplicitTracked
  <2> QED BY <1>1, <2>3, <2>4
<1>17. ASSUME NEW w \in Worker, Take(w) PROVE ExplicitInv'
  <2>1. UNCHANGED <<marked, pc, fetched, toMark, failures, toPut>>
    BY <1>17 DEF Take, durable, shared, polling
  <2> QED BY <1>1, <1>3, <1>17, <2>1, TrackedKept
<1>18. ASSUME NEW w \in Worker, NEW dropped \in BOOLEAN, Deliver(w, dropped)
       PROVE ExplicitInv'
  <2>1. UNCHANGED <<marked, pc, fetched, toMark, failures, toPut>>
    BY <1>18 DEF Deliver, durable, shared, polling
  <2> QED BY <1>1, <1>3, <1>18, <2>1, TrackedKept
<1>19. ASSUME NEW w \in Worker, DeliverRaises(w) PROVE ExplicitInv'
  <2>1. UNCHANGED <<marked, pc, fetched, toMark, toPut>>
        /\ failures \subseteq failures'
    BY <1>19 DEF DeliverRaises, durable, polling
  <2> QED BY <1>1, <1>3, <1>19, <2>1, TrackedKept
<1>20. CASE Crash
  BY <1>4, <1>20 DEF Crash, durable
<1>21. CASE UNCHANGED vars
  <2>1. UNCHANGED <<toPut, queue, busy, delivered, deadLetters, failures,
                    marked, pc, fetched, toMark>>
    BY <1>21 DEF vars
  <2> QED BY <1>1, <1>3, <2>1, TrackedKept
<1> QED
  BY <1>5, <1>6, <1>7, <1>8, <1>9, <1>10, <1>11, <1>12, <1>13, <1>14, <1>15,
     <1>16, <1>17, <1>18, <1>19, <1>20, <1>21 DEF Next

\* An explicit signature is marked as processed only after its event was
\* delivered or dead-lettered: whatever polls fail half-way, whatever workers
\* raise, and wherever the process crashes.
THEOREM ExplicitMarksAreSafe == Spec => []ExplicitMarkIsHandled
<1>1. Spec => []ExplicitInv
  BY ExplicitInit, ExplicitStep, PTL DEF Spec
<1>2. ExplicitInv => ExplicitMarkIsHandled
  BY DEF ExplicitInv
<1> QED BY <1>1, <1>2, PTL

-----------------------------------------------------------------------------
(***************************************************************************)
(* The cursors of the addresses.                                            *)
(***************************************************************************)
\* The cursor that the commit of this poll would write passes only signatures
\* that reverted, are reported, or belong to the batch.
Committable(a) == cursor[a] # 0 /\ polls[a].cursor # 0 /\ polls[a].canCommit
Covered(a) ==
    \A s \in 1..polls[a].cursor :
        \/ s <= cursor[a]
        \/ <<a, s>> \in Reverted
        \/ <<a, s>> \in reported
        \/ s \in batch[a]

\* A scan that may still commit has read a gap-free run of signatures.
ScanInv(t) ==
    t.phase = "scan" =>
        /\ t.pages = 0 => t.records = {} /\ t.before = 0
        /\ t.pages # 0 => t.before # 0
        /\ t.pages # 0 /\ t.safe =>
             \E n \in 1..chain[t.addr] : n >= t.before /\ t.records = t.before..n
TxsInv(t) ==
    t.phase = "txs" =>
        /\ t.cur # 0
        /\ batch[t.addr] = Candidates(t, t.records)
        /\ Committable(t.addr) => Covered(t.addr)
DoneInv(t) ==
    t.phase = "done" =>
        (Committable(t.addr) => Covered(t.addr) /\ batch[t.addr] \subseteq t.found)

\* While an RPC call cannot outlive the poll interval, the coroutines of a poll
\* are exactly one per address and nobody else touches its results.
OwnTasks ==
    /\ pc # "idle" => Outlived = {}
    /\ pc # "gather" => Live = {}
    /\ pc = "gather" =>
         /\ toPut = {}
         /\ \A a \in Address : \E t \in tasks : t.addr = a
         /\ \A t, u \in tasks : t.addr = u.addr => t = u

TaskInv(t) == t.cur = cursor[t.addr] /\ ScanInv(t) /\ TxsInv(t) /\ DoneInv(t)

AddressTracked ==
    /\ pc = "gather" => \A t \in tasks : TaskInv(t)
    /\ pc = "putAddress" =>
         \A a \in Address : Committable(a) =>
             Covered(a) /\ \A s \in batch[a] : Tracked(<<a, s>>)
    /\ pc = "commit" =>
         \A a \in toCommit : Committable(a) =>
             Covered(a) /\ \A s \in batch[a] : \/ <<a, s>> \in Handled
                                               \/ <<a, s>> \in failures

SkipInv == TypeInv /\ OwnTasks /\ AddressTracked /\ NoSilentSkip

-----------------------------------------------------------------------------
(* The pages of one scan form a gap-free run of signatures.                 *)

\* A page is a run of signatures, cut at its older end by the limit.
LEMMA PageIsInterval ==
    ASSUME TypeInv, NEW t \in tasks, NEW view \in 0..chain[t.addr],
           NEW floor \in 0..view
    PROVE  /\ PageLow(t, view, floor) \in Nat /\ PageLow(t, view, floor) >= 1
           /\ PageHigh(t, view) \in Nat /\ PageHigh(t, view) <= chain[t.addr]
           /\ \A s : s \in Page(t, view, floor) <=>
                     /\ s \in Nat /\ s >= PageLow(t, view, floor)
                     /\ s <= PageHigh(t, view) /\ s > PageHigh(t, view) - Limit
<1>1. TypeOK /\ t.addr \in Address /\ chain[t.addr] \in Nat
  BY DEF TypeInv, TypeOK, Task
<1>2. /\ PageLow(t, view, floor) \in 1..(view + 1)
      /\ PageHigh(t, view) \in 0..view
  BY <1>1, PageBounds
<1>3. view \in Nat /\ view <= chain[t.addr]
  BY <1>1
<1>4. PageLow(t, view, floor) \in Nat /\ PageLow(t, view, floor) >= 1
  BY <1>2, <1>3
<1>5. PageHigh(t, view) \in Nat /\ PageHigh(t, view) <= chain[t.addr]
  BY <1>1, <1>2, <1>3
<1>6. PICK low \in Nat : low = PageLow(t, view, floor)
  BY <1>4
<1>7. PICK high \in Nat : high = PageHigh(t, view)
  BY <1>5
<1>8. Page(t, view, floor) = {s \in low..high : s > high - Limit}
  BY <1>6, <1>7 DEF Page
<1>9. \A s : s \in Page(t, view, floor) <=>
              s \in Nat /\ s >= low /\ s <= high /\ s > high - Limit
  BY <1>8
<1> QED BY <1>4, <1>5, <1>6, <1>7, <1>9

\* A page other than the first continues where the scan stands, or is empty.
LEMMA ScanContinues ==
    ASSUME TypeInv, NEW t \in tasks, t.phase = "scan", ScanInv(t),
           NEW view \in 0..chain[t.addr], NEW floor \in 0..view,
           ~ShortPage(t, view, floor),
           NEW last, last = PageHigh(t, view) - Limit + 1
    PROVE  /\ last # 0
           /\ t.safe => \E n \in 1..chain[t.addr] :
                          n >= last /\ t.records \cup Page(t, view, floor) = last..n
<1>1. t.before \in Nat /\ t.pages \in Nat /\ chain[t.addr] \in Nat
      /\ view \in Nat /\ view <= chain[t.addr]
  BY DEF TypeInv, TypeOK, Task
<1>2. PICK low \in Nat : low = PageLow(t, view, floor) /\ low >= 1
  BY PageIsInterval
<1>3. PICK high \in Nat : high = PageHigh(t, view) /\ high <= chain[t.addr]
  BY PageIsInterval
<1>4. \A s : s \in Page(t, view, floor) <=>
              s \in Nat /\ s >= low /\ s <= high /\ s > high - Limit
  BY <1>2, <1>3, PageIsInterval
<1>5. high - low + 1 >= Limit /\ last = high - Limit + 1
  BY <1>2, <1>3 DEF ShortPage
<1>6. last \in Nat /\ last >= 1 /\ last >= low /\ last <= high
  BY <1>2, <1>5
<1>7. Page(t, view, floor) = last..high
  <2>1. \A x : x \in Page(t, view, floor) <=> x \in last..high
    BY <1>4, <1>5, <1>6
  <2> QED BY <2>1
<1>8. ASSUME t.safe
      PROVE  \E n \in 1..chain[t.addr] :
               n >= last /\ t.records \cup Page(t, view, floor) = last..n
  <2>1. CASE t.pages = 0
    <3>1. t.records = {}
      BY <2>1 DEF ScanInv
    <3>2. high \in 1..chain[t.addr] /\ high >= last
      BY <1>1, <1>3, <1>6
    <3> QED BY <1>7, <3>1, <3>2
  <2>2. CASE t.pages # 0
    <3>1. PICK n \in 1..chain[t.addr] : n >= t.before /\ t.records = t.before..n
      BY <1>8, <2>2 DEF ScanInv
    <3>2. t.before # 0
      BY <2>2 DEF ScanInv
    <3>3. high # 0
      BY <1>6
    <3>4. high = t.before - 1
      BY <1>3, <3>2, <3>3 DEF PageHigh
    <3>5. n \in Nat /\ n >= last
      BY <1>1, <1>6, <3>1, <3>4
    <3>6. \A s : s \in t.records \cup Page(t, view, floor) <=> s \in last..n
      BY <1>1, <1>6, <1>7, <3>1, <3>4, <3>5
    <3> QED BY <3>1, <3>5, <3>6
  <2> QED BY <2>1, <2>2
<1> QED BY <1>6, <1>8

\* A scan that has reached the cursor has read everything newer than it.
LEMMA ScanReachesCursor ==
    ASSUME TypeInv, NEW t \in tasks, t.phase = "scan", ScanInv(t), t.safe,
           NEW view \in 0..chain[t.addr], NEW floor \in 0..view,
           t.cur \in Page(t, view, floor),
           NEW r \in t.records \cup Page(t, view, floor),
           NEW s \in Nat, s > t.cur, s <= r
    PROVE  s \in t.records \cup Page(t, view, floor)
<1>1. t.before \in Nat /\ t.pages \in Nat /\ t.cur \in Nat
      /\ chain[t.addr] \in Nat
  BY DEF TypeInv, TypeOK, Task
<1>2. PICK low \in Nat : low = PageLow(t, view, floor) /\ low >= 1
  BY PageIsInterval
<1>3. PICK high \in Nat : high = PageHigh(t, view) /\ high <= chain[t.addr]
  BY PageIsInterval
<1>4. \A x : x \in Page(t, view, floor) <=>
              x \in Nat /\ x >= low /\ x <= high /\ x > high - Limit
  BY <1>2, <1>3, PageIsInterval
<1>5. t.cur >= low /\ t.cur <= high /\ t.cur > high - Limit
  BY <1>4
<1>6. CASE s <= high
  <2>1. s >= low /\ s > high - Limit
    BY <1>1, <1>5
  <2> QED BY <1>4, <1>6, <2>1
<1>7. CASE s > high
  <2>1. r \notin Page(t, view, floor)
    <3>1. SUFFICES ASSUME r \in Page(t, view, floor) PROVE FALSE
      OBVIOUS
    <3>2. r \in Nat /\ r <= high
      BY <1>4, <3>1
    <3> QED BY <1>7, <3>2
  <2>2. r \in t.records
    BY <2>1
  <2>3. t.pages # 0
    BY <2>2 DEF ScanInv
  <2>4. PICK n \in 1..chain[t.addr] : n >= t.before /\ t.records = t.before..n
    BY <2>3 DEF ScanInv
  <2>5. t.before # 0
    BY <2>3 DEF ScanInv
  <2>6. high # 0
    BY <1>1, <1>2, <1>5
  <2>7. high = t.before - 1
    BY <1>3, <2>5, <2>6 DEF PageHigh
  <2>8. s \in t.before..n
    BY <1>1, <1>7, <2>2, <2>4, <2>7
  <2> QED BY <2>4, <2>8
<1> QED BY <1>3, <1>6, <1>7

-----------------------------------------------------------------------------
(* What a coroutine leaves behind it.                                       *)

Step(t, t2) ==
    /\ tasks' = (tasks \ {t}) \cup {t2}
    /\ t2.addr = t.addr /\ t2.live = t.live /\ TaskInv(t2)'
    /\ reported \subseteq reported'
    /\ \A a \in Address : a # t.addr => polls'[a] = polls[a] /\ batch'[a] = batch[a]

\* A live coroutine that returned is one task, with its events.
LEMMA DoneTask ==
    ASSUME NEW t \in Task, t.live, NEW found \in SUBSET Nat
    PROVE  \E t2 : /\ Finished(t, found) = {t2} /\ t2.addr = t.addr
                   /\ t2.live = t.live /\ t2.cur = t.cur
                   /\ t2.phase = "done" /\ t2.found = found
<1> DEFINE t2 == [t EXCEPT !.phase = "done", !.records = {}, !.found = found]
<1>1. /\ t2.addr = t.addr /\ t2.live = t.live /\ t2.cur = t.cur
      /\ t2.phase = "done" /\ t2.found = found
  BY DEF Task
<1>2. Finished(t, found) = {t2}
  BY DEF Finished
<1> QED BY <1>1, <1>2

\* A recorded boundary adds to what is reported and takes nothing away.
LEMMA ReportedGrows ==
    ASSUME NEW t, NEW records, NEW readAny, NEW found, NEW safe,
           RecordBoundary(t, records, readAny, found, safe)
    PROVE  reported \subseteq reported'
BY DEF RecordBoundary

\* A scan that ends and may commit covers the cursor it stores.
LEMMA ScanCovers ==
    ASSUME TypeInv, NEW t \in tasks, TaskInv(t), t.phase = "scan",
           NEW view \in 0..chain[t.addr], NEW floor \in 0..view,
           NEW records, records = t.records \cup Page(t, view, floor),
           t.safe, t.cur # 0, records # {},
           UNCHANGED <<chain, cursor>>,
           RecordBoundary(t, records, Page(t, view, floor) # {} \/ t.pages > 0,
                          t.cur \in Page(t, view, floor), TRUE),
           polls'[t.addr].cursor = Newest(records),
           batch'[t.addr] = Candidates(t, records)
    PROVE  Covered(t.addr)'
<1>1. TypeOK /\ t.addr \in Address /\ t.cur \in Nat /\ t.pages \in Nat
      /\ chain[t.addr] \in Nat /\ t.cur = cursor[t.addr] /\ ScanInv(t)
  BY DEF TypeInv, TypeOK, Task, TaskInv
<1>2. records \subseteq 1..chain[t.addr]
  <2>1. t.records \subseteq 1..chain[t.addr]
    BY DEF TypeInv, TaskBounds
  <2>2. Page(t, view, floor) \subseteq 1..chain[t.addr]
    BY <1>1, PageBounds
  <2> QED BY <2>1, <2>2
<1>3. Newest(records) \in records /\ Newest(records) <= chain[t.addr]
  <2>1. records \in SUBSET (0..chain[t.addr])
    BY <1>1, <1>2
  <2>2. Newest(records) \in records
    BY <1>1, <2>1, NewestInSet
  <2> QED BY <1>1, <1>2, <2>2
<1>4. SUFFICES ASSUME NEW s \in 1..Newest(records), s > t.cur,
                      <<t.addr, s>> \notin Reverted, s \notin records
               PROVE  <<t.addr, s>> \in reported'
  <2>1. Newest(records) \in Nat
    BY <1>2, <1>3
  <2>2. ASSUME NEW s \in 1..Newest(records), s > t.cur,
               <<t.addr, s>> \notin Reverted, s \in records
        PROVE  s \in batch'[t.addr]
    BY <1>1, <2>2 DEF Candidates
  <2>3. \A s \in 1..Newest(records) : ~(s > t.cur) => s <= cursor'[t.addr]
    BY <1>1, <2>1
  <2> QED BY <1>4, <2>2, <2>3 DEF Covered
<1>5. s \in Nat /\ s \in 1..chain[t.addr] /\ s <= Newest(records)
  BY <1>1, <1>2, <1>3
<1>6. CASE t.cur \in Page(t, view, floor)
  BY <1>1, <1>3, <1>4, <1>5, <1>6, ScanReachesCursor
<1>7. CASE t.cur \notin Page(t, view, floor)
  <2>1. Page(t, view, floor) # {} \/ t.pages > 0
    BY <1>1 DEF ScanInv
  <2>2. reported' = reported \cup
          {<<t.addr, x>> : x \in {r \in 1..chain[t.addr] :
                                     TRUE /\ r > t.cur /\ r \notin records}}
    BY <1>7, <2>1 DEF RecordBoundary
  <2> QED BY <1>4, <1>5, <2>2
<1> QED BY <1>6, <1>7

\* A page takes a coroutine of this poll to a state that keeps its invariant.
LEMMA ReadPageSteps ==
    ASSUME TypeInv, NEW t \in tasks, t.live, TaskInv(t),
           NEW view \in 0..chain[t.addr], NEW floor \in 0..view,
           NEW bad \in SUBSET Page(t, view, floor), ReadPage(t, view, floor, bad)
    PROVE  \E t2 : Step(t, t2)
<1> DEFINE page    == Page(t, view, floor)
           records == t.records \cup (page \ bad)
           found   == t.cur = 0 \/ t.cur \in page \ bad
           short   == ShortPage(t, view, floor)
           last    == PageHigh(t, view) - Limit + 1
           stuck   == last \in bad
           atLimit == t.pages + 1 = MaxPages
           safe    == t.safe /\ bad = {} /\ (found \/ short \/ stuck \/ ~atLimit)
           ended   == found \/ short \/ stuck \/ atLimit
           candidates == Candidates(t, records)
           next    == [t EXCEPT !.records = records, !.safe = safe,
                                !.pages = t.pages + 1, !.before = last]
           txs     == [t EXCEPT !.records = records, !.phase = "txs"]
<1>1. TypeOK /\ t \in Task /\ t.addr \in Address /\ t.cur \in Nat
      /\ t.pages \in Nat /\ t.cur = cursor[t.addr] /\ ScanInv(t)
  BY DEF TypeInv, TypeOK, Task, TaskInv
<1>2. t.phase = "scan" /\ UNCHANGED <<chain, cursor>>
  BY DEF ReadPage
<1>3. ended => /\ RecordBoundary(t, records, page # {} \/ t.pages > 0, found, safe)
               /\ StoreScan(t, records, safe)
               /\ tasks' = (tasks \ {t}) \cup
                    (IF t.cur # 0 /\ candidates # {} THEN {txs} ELSE Finished(t, {}))
  BY DEF ReadPage
<1>4. ~ended => /\ tasks' = (tasks \ {t}) \cup {next}
                /\ UNCHANGED <<reported, polls, batch>>
  BY DEF ReadPage
<1>5. CASE ~ended
  <2>1. /\ last # 0
        /\ t.safe => \E n \in 1..chain[t.addr] :
                       n >= last /\ t.records \cup page = last..n
    BY <1>1, <1>2, <1>5, ScanContinues
  <2>2. safe => t.safe /\ records = t.records \cup page
    OBVIOUS
  <2>3. PICK n \in Nat : n = t.pages + 1 /\ n # 0
    BY <1>1
  <2>4. next = [t EXCEPT !.records = records, !.safe = safe, !.pages = n,
                         !.before = last]
    BY <2>3
  <2> HIDE DEF records, safe, last, next
  <2>5. /\ next.addr = t.addr /\ next.live = t.live /\ next.cur = t.cur
        /\ next.phase = "scan" /\ next.pages = n /\ next.before = last
        /\ next.safe = safe /\ next.records = records
    BY <1>1, <1>2, <2>4 DEF Task
  <2>6. ScanInv(next)'
    BY <1>2, <2>1, <2>2, <2>3, <2>5 DEF ScanInv
  <2>7. TaskInv(next)'
    BY <1>1, <1>2, <2>5, <2>6 DEF TaskInv, TxsInv, DoneInv
  <2> QED BY <1>4, <1>5, <2>5, <2>7 DEF Step
<1>6. CASE ended /\ t.cur # 0 /\ candidates # {}
  <2>1. records # {}
    BY <1>6 DEF Candidates
  <2>2. /\ polls' = [polls EXCEPT ![t.addr] = [cursor |-> Newest(records),
                                               canCommit |-> safe]]
        /\ batch' = [batch EXCEPT ![t.addr] = candidates]
    BY <1>3, <1>6, <2>1 DEF StoreScan
  <2>3. polls'[t.addr].cursor = Newest(records) /\ polls'[t.addr].canCommit = safe
        /\ batch'[t.addr] = candidates
    BY <1>1, <2>2 DEF TypeOK
  <2>4. ASSUME safe PROVE Covered(t.addr)'
    <3>1. t.safe /\ bad = {} /\ records = t.records \cup page
      BY <2>4
    <3>2. RecordBoundary(t, records, page # {} \/ t.pages > 0,
                         t.cur \in page, TRUE)
      <4>1. found = (t.cur \in page) /\ safe = TRUE
        BY <1>6, <2>4, <3>1
      <4> QED BY <1>3, <1>6, <4>1
    <3> QED BY <1>1, <1>2, <1>6, <2>1, <2>3, <3>1, <3>2, ScanCovers
  <2>5. /\ txs.addr = t.addr /\ txs.live = t.live /\ txs.cur = t.cur
        /\ txs.phase = "txs" /\ txs.records = records
    BY <1>1 DEF Task
  <2>6. Candidates(txs, records) = candidates
    BY <2>5 DEF Candidates
  <2> HIDE DEF records, safe, txs, candidates
  <2>7. TxsInv(txs)'
    BY <1>6, <2>3, <2>4, <2>5, <2>6 DEF TxsInv, Committable
  <2>8. TaskInv(txs)'
    BY <1>1, <1>2, <2>5, <2>7 DEF TaskInv, ScanInv, DoneInv
  <2>9. reported \subseteq reported'
    BY <1>3, <1>6, ReportedGrows
  <2>10. \A a \in Address : a # t.addr => polls'[a] = polls[a] /\ batch'[a] = batch[a]
    BY <1>1, <2>2 DEF TypeOK
  <2> QED BY <1>3, <1>6, <2>5, <2>8, <2>9, <2>10 DEF Step
<1>7. CASE ended /\ ~(t.cur # 0 /\ candidates # {})
  <2>1. PICK t2 : /\ Finished(t, {}) = {t2} /\ t2.addr = t.addr
                  /\ t2.live = t.live /\ t2.cur = t.cur /\ t2.phase = "done"
    BY <1>1, DoneTask
  <2>2. tasks' = (tasks \ {t}) \cup {t2}
    BY <1>3, <1>7, <2>1
  <2> HIDE DEF records, safe, candidates
  <2>3. PICK p : polls' = [polls EXCEPT ![t.addr] = p]
                 /\ (t.cur # 0 => p.cursor = 0)
    <3>1. CASE records = {}
      BY <1>3, <1>7, <3>1 DEF StoreScan
    <3>2. CASE records # {} /\ t.cur = 0
      BY <1>3, <1>7, <3>2 DEF StoreScan
    <3>3. CASE records # {} /\ t.cur # 0
      <4>1. candidates = {}
        BY <1>7, <3>3
      <4>2. polls' = [polls EXCEPT ![t.addr] = [cursor |-> 0, canCommit |-> safe]]
        BY <1>3, <1>7, <3>3, <4>1 DEF StoreScan, candidates
      <4>3. [cursor |-> 0, canCommit |-> safe].cursor = 0
        OBVIOUS
      <4> QED BY <4>2, <4>3
    <3> QED BY <3>1, <3>2, <3>3
  <2>4. batch' = batch \/ batch' = [batch EXCEPT ![t.addr] = candidates]
    BY <1>3, <1>7 DEF StoreScan, candidates
  <2>5. \A a \in Address : a # t.addr => polls'[a] = polls[a] /\ batch'[a] = batch[a]
    BY <1>1, <2>3, <2>4 DEF TypeOK
  <2>6. polls'[t.addr] = p
    BY <1>1, <2>3 DEF TypeOK
  <2>7. ~Committable(t.addr)'
    BY <1>1, <1>2, <2>3, <2>6 DEF Committable
  <2>8. TaskInv(t2)'
    BY <1>1, <1>2, <2>1, <2>7 DEF TaskInv, ScanInv, TxsInv, DoneInv
  <2>9. reported \subseteq reported'
    BY <1>3, <1>7, ReportedGrows
  <2> QED BY <2>1, <2>2, <2>5, <2>8, <2>9 DEF Step
<1> QED BY <1>5, <1>6, <1>7

\* ... and so do the transactions of its batch.
LEMMA ReadTransactionsSteps ==
    ASSUME TypeInv, NEW t \in tasks, t.live, TaskInv(t),
           NEW missing, ReadTransactions(t, missing)
    PROVE  \E t2 : Step(t, t2)
<1> DEFINE found == Candidates(t, t.records) \ missing
<1>1. TypeOK /\ t \in Task /\ t.addr \in Address /\ t.cur = cursor[t.addr]
      /\ t.phase = "txs" /\ TxsInv(t) /\ t.records \in SUBSET Nat
  BY DEF TypeInv, TypeOK, Task, TaskInv, ReadTransactions
<1>2. found \in SUBSET Nat
  BY <1>1 DEF Candidates
<1>3. PICK t2 : /\ Finished(t, found) = {t2} /\ t2.addr = t.addr
                /\ t2.live = t.live /\ t2.cur = t.cur
                /\ t2.phase = "done" /\ t2.found = found
  <2> HIDE DEF found
  <2> QED BY <1>1, <1>2, DoneTask
<1>4. /\ polls' = IF missing = {} THEN polls
                  ELSE [polls EXCEPT ![t.addr] = NoPoll]
      /\ tasks' = (tasks \ {t}) \cup {t2}
      /\ UNCHANGED <<batch, reported, cursor, chain>>
  BY <1>3 DEF ReadTransactions, history, durable
<1>5. DoneInv(t2)'
  <2>1. CASE missing = {}
    <3>1. batch[t.addr] = found
      BY <1>1, <2>1 DEF TxsInv
    <3>2. Committable(t.addr) => Covered(t.addr)
      BY <1>1 DEF TxsInv
    <3>3. (Committable(t.addr)' => Committable(t.addr))
          /\ (Covered(t.addr) => Covered(t.addr)')
      BY <1>4, <2>1 DEF Committable, Covered
    <3> QED BY <1>3, <1>4, <3>1, <3>2, <3>3 DEF DoneInv
  <2>2. CASE missing # {}
    <3>1. polls'[t.addr] = NoPoll
      BY <1>1, <1>4, <2>2 DEF TypeOK
    <3>2. ~Committable(t.addr)'
      BY <3>1 DEF Committable, NoPoll
    <3> QED BY <1>3, <3>2 DEF DoneInv
  <2> QED BY <2>1, <2>2
<1>6. TaskInv(t2)'
  BY <1>1, <1>3, <1>4, <1>5 DEF TaskInv, ScanInv, TxsInv
<1>7. \A a \in Address : a # t.addr => polls'[a] = polls[a] /\ batch'[a] = batch[a]
  BY <1>1, <1>4 DEF TypeOK
<1> QED BY <1>3, <1>4, <1>6, <1>7 DEF Step

-----------------------------------------------------------------------------
(* Steps that are not a coroutine's: what they keep.                        *)

\* Inside the gather, everything but the coroutines keeps their invariant.
LEMMA TasksKept ==
    ASSUME TypeInv, NEW t \in tasks, TaskInv(t),
           UNCHANGED <<cursor, polls, batch, reported>>,
           \A a \in Address : chain'[a] \in Nat /\ chain'[a] >= chain[a]
    PROVE  TaskInv(t)'
<1>1. t \in Task /\ t.addr \in Address /\ chain[t.addr] \in Nat
  BY DEF TypeInv, TypeOK, Task
<1>2. ScanInv(t)'
  <2>1. 1..chain[t.addr] \subseteq 1..chain'[t.addr]
    BY <1>1
  <2> QED BY <2>1 DEF TaskInv, ScanInv
<1>3. TxsInv(t)' /\ DoneInv(t)' /\ t.cur = cursor'[t.addr]
  BY DEF TaskInv, TxsInv, DoneInv, Committable, Covered
<1> QED BY <1>2, <1>3 DEF TaskInv

\* The coroutine t moved, the others kept their results.
LEMMA OthersKept ==
    ASSUME TypeInv, NEW t \in tasks, NEW u \in tasks, u.addr # t.addr,
           TaskInv(u), NEW t2, Step(t, t2), UNCHANGED <<chain, cursor>>
    PROVE  TaskInv(u)'
<1>1. u \in Task /\ u.addr \in Address
  BY DEF TypeInv, TypeOK, Task
<1>2. polls'[u.addr] = polls[u.addr] /\ batch'[u.addr] = batch[u.addr]
      /\ reported \subseteq reported'
  BY <1>1 DEF Step
<1>3. ScanInv(u)'
  BY DEF TaskInv, ScanInv
<1>4. TxsInv(u)' /\ DoneInv(u)' /\ u.cur = cursor'[u.addr]
  BY <1>2 DEF TaskInv, TxsInv, DoneInv, Committable, Covered
<1> QED BY <1>3, <1>4 DEF TaskInv

\* Events handled and gaps reported stay so.
LEMMA SkipKept ==
    ASSUME NoSilentSkip, UNCHANGED <<cursor, base>>,
           Handled \subseteq Handled', reported \subseteq reported'
    PROVE  NoSilentSkip'
BY DEF NoSilentSkip, Accounted

\* A step that touches neither the coroutines nor their results.
LEMMA QuietKept ==
    ASSUME SkipInv,
           UNCHANGED <<cursor, base, polls, batch, reported, tasks, pc, toCommit>>,
           \A a \in Address : chain'[a] \in Nat /\ chain'[a] >= chain[a],
           pc = "gather" => toPut' \subseteq toPut,
           pc = "putAddress" => \A e : Tracked(e) => Tracked(e)',
           Handled \subseteq Handled',
           \A a \in Address : \A s : <<a, s>> \in failures => <<a, s>> \in failures',
           TypeInv'
    PROVE  SkipInv'
<1> USE DEF SkipInv
<1>1. OwnTasks'
  BY DEF OwnTasks, Outlived, Live
<1>2. NoSilentSkip'
  BY SkipKept
<1>3. ASSUME NEW a PROVE (Committable(a)' => Committable(a))
                         /\ (Covered(a) => Covered(a)')
  BY DEF Committable, Covered
<1>4. (pc = "gather" => \A t \in tasks : TaskInv(t))'
  BY TasksKept DEF AddressTracked
<1>5. (pc = "putAddress" =>
        \A a \in Address : Committable(a) =>
            Covered(a) /\ \A s \in batch[a] : Tracked(<<a, s>>))'
  BY <1>3 DEF AddressTracked
<1>6. (pc = "commit" =>
        \A a \in toCommit : Committable(a) =>
            Covered(a) /\ \A s \in batch[a] : \/ <<a, s>> \in Handled
                                              \/ <<a, s>> \in failures)'
  <2>1. toCommit \subseteq Address
    BY DEF TypeInv, TypeOK
  <2> QED BY <1>3, <2>1 DEF AddressTracked
<1> QED BY <1>1, <1>2, <1>4, <1>5, <1>6 DEF AddressTracked

-----------------------------------------------------------------------------
(* The invariant is inductive when no RPC call outlives the poll interval.  *)

\* No cursor is set at the start.
LEMMA SkipInit == Init => SkipInv
<1> SUFFICES ASSUME Init PROVE SkipInv
  OBVIOUS
<1>1. TypeInv
  BY TypeInit
<1>2. OwnTasks /\ AddressTracked
  BY DEF Init, OwnTasks, AddressTracked, Outlived, Live
<1>3. NoSilentSkip
  BY DEF Init, NoSilentSkip
<1> QED BY <1>1, <1>2, <1>3 DEF SkipInv

\* The coroutines of a poll start from the durable cursors.
LEMMA SkipGather == SkipInv /\ Gather => SkipInv'
<1> SUFFICES ASSUME SkipInv, Gather PROVE SkipInv'
  OBVIOUS
<1> USE DEF SkipInv
<1>1. TypeInv'
  BY TypeStep DEF Next
<1>2. /\ pc = "putExplicit" /\ toPut = {} /\ pc' = "gather" /\ toPut' = toPut
      /\ tasks' = tasks \cup {NewTask(a) : a \in Address}
      /\ UNCHANGED <<cursor, base, reported, delivered, deadLetters>>
  BY DEF Gather, durable, history
<1>3. tasks = {}
  BY <1>2 DEF OwnTasks, Outlived, Live
<1>4. \A a : /\ NewTask(a).addr = a /\ NewTask(a).live /\ NewTask(a).phase = "scan"
             /\ NewTask(a).cur = cursor[a] /\ NewTask(a).pages = 0
             /\ NewTask(a).records = {} /\ NewTask(a).before = 0
  BY DEF NewTask
<1>5. OwnTasks'
  BY <1>2, <1>3, <1>4 DEF OwnTasks, Outlived, Live
<1>6. AddressTracked'
  BY <1>2, <1>3, <1>4 DEF AddressTracked, TaskInv, ScanInv, TxsInv, DoneInv
<1>7. NoSilentSkip'
  BY <1>2, SkipKept DEF Handled
<1> QED BY <1>1, <1>5, <1>6, <1>7

\* A coroutine moves outside the commit loop only, and withdraws no report.
LEMMA TaskStepReports ==
    ASSUME NEW t, TaskStep(t) PROVE pc # "commit" /\ reported \subseteq reported'
<1>1. ASSUME NEW view, NEW floor, NEW bad, ReadPage(t, view, floor, bad)
      PROVE  pc # "commit" /\ reported \subseteq reported'
  BY <1>1, ReportedGrows DEF ReadPage
<1>2. ASSUME NEW missing, ReadTransactions(t, missing)
      PROVE  pc # "commit" /\ reported \subseteq reported'
  BY <1>2 DEF ReadTransactions, history
<1> QED BY <1>1, <1>2 DEF TaskStep

\* A step of a coroutine, of this poll or of one that failed.
LEMMA SkipTaskStep ==
    ASSUME SkipInv, NEW t \in tasks, TaskStep(t) PROVE SkipInv'
<1> USE DEF SkipInv
<1>1. TypeInv' /\ t.addr \in Address /\ chain[t.addr] \in Nat
  BY TypeStep DEF Next, TypeInv, TypeOK, Task
<1>2. UNCHANGED <<toPut, delivered, deadLetters, failures, pc, cursor, toCommit,
                  base, chain>>
  BY TaskStepKeeps
<1>3. pc # "commit" /\ reported \subseteq reported'
  BY TaskStepReports
<1>4. CASE pc = "idle"
  <2>1. \A u \in tasks : ~u.live
    BY <1>4 DEF OwnTasks, Live
  <2>2. \A u \in tasks' : ~u.live
    <3>1. \A found : Finished(t, found) = {}
      BY <2>1 DEF Finished
    <3>2. PICK t2 : t2.live = t.live /\ tasks' \subseteq tasks \cup {t2}
      <4> USE <3>1
      <4>1. ASSUME NEW view, NEW floor, NEW bad, ReadPage(t, view, floor, bad)
            PROVE  \E t2 : t2.live = t.live /\ tasks' \subseteq tasks \cup {t2}
        <5>1. PICK r, b, n, s :
                 \/ tasks' \subseteq tasks \cup {[t EXCEPT !.records = r, !.safe = s,
                                                       !.pages = n, !.before = b]}
                 \/ tasks' \subseteq tasks \cup {[t EXCEPT !.records = r, !.phase = "txs"]}
                 \/ tasks' \subseteq tasks
          BY <4>1 DEF ReadPage
        <5>2. t \in Task
          BY DEF TypeInv, TypeOK
        <5> QED BY <5>1, <5>2 DEF Task
      <4>2. ASSUME NEW missing, ReadTransactions(t, missing)
            PROVE  tasks' \subseteq tasks \cup {t}
        BY <4>2 DEF ReadTransactions
      <4> QED BY <4>1, <4>2 DEF TaskStep
    <3> QED BY <2>1, <3>2
  <2>3. OwnTasks' /\ AddressTracked'
    BY <1>2, <1>4, <2>2 DEF OwnTasks, AddressTracked, Live
  <2> QED BY <1>1, <1>2, <1>3, <2>3, SkipKept DEF Handled
<1>5. CASE pc = "gather"
  <2>1. t.live /\ TaskInv(t)
    BY <1>5 DEF OwnTasks, Outlived, AddressTracked
  <2>2. PICK t2 : Step(t, t2)
    <3>1. ASSUME NEW view \in (chain[t.addr] - Lag)..chain[t.addr],
                 NEW floor \in 0..view, NEW bad \in SUBSET Page(t, view, floor),
                 ReadPage(t, view, floor, bad)
          PROVE  \E t2 : Step(t, t2)
      <4>1. view \in 0..chain[t.addr]
        BY <1>1
      <4> QED BY <2>1, <3>1, <4>1, ReadPageSteps
    <3> QED BY <2>1, <3>1, ReadTransactionsSteps DEF TaskStep
  <2>3. OwnTasks'
    <3>1. /\ tasks' = (tasks \ {t}) \cup {t2} /\ t2.addr = t.addr /\ t2.live
          /\ pc' = "gather" /\ toPut' = toPut
      BY <1>2, <1>5, <2>1, <2>2 DEF Step
    <3>2. /\ \A u \in tasks : u.live
          /\ toPut = {} /\ \A a \in Address : \E u \in tasks : u.addr = a
          /\ \A u, v \in tasks : u.addr = v.addr => u = v
      BY <1>5 DEF OwnTasks, Outlived
    <3>3. \A u \in tasks' : u.live
      BY <3>1, <3>2
    <3>4. \A a \in Address : \E u \in tasks' : u.addr = a
      BY <3>1, <3>2
    <3>5. \A u, v \in tasks' : u.addr = v.addr => u = v
      BY <3>1, <3>2
    <3> QED BY <3>1, <3>2, <3>3, <3>4, <3>5 DEF OwnTasks, Outlived
  <2>4. \A u \in tasks' : TaskInv(u)'
    <3>1. ASSUME NEW u \in tasks, u # t PROVE TaskInv(u)'
      <4>1. u.addr # t.addr /\ TaskInv(u)
        BY <1>5, <3>1 DEF OwnTasks, AddressTracked
      <4> QED BY <1>2, <2>2, <4>1, OthersKept
    <3> QED BY <2>2, <3>1 DEF Step
  <2>5. AddressTracked'
    BY <1>2, <1>5, <2>4 DEF AddressTracked
  <2>6. NoSilentSkip'
    BY <1>2, <2>2, SkipKept DEF Step, Handled
  <2> QED BY <1>1, <2>3, <2>5, <2>6
<1> QED BY <1>3, <1>4, <1>5 DEF OwnTasks, Outlived, Live

\* What the coroutines found is what the poll goes on to queue.
LEMMA SkipCollect == SkipInv /\ Collect => SkipInv'
<1> SUFFICES ASSUME SkipInv, Collect PROVE SkipInv'
  OBVIOUS
<1> USE DEF SkipInv
<1>1. TypeInv'
  BY TypeStep DEF Next
<1>2. /\ pc = "gather" /\ pc' = "putAddress" /\ tasks' = Outlived
      /\ toPut' = UNION {{t.addr} \X t.found : t \in Live}
      /\ \A t \in Live : t.phase = "done"
      /\ UNCHANGED <<cursor, base, reported, delivered, deadLetters, polls, batch>>
  BY DEF Collect, durable, history
<1>3. OwnTasks'
  BY <1>2 DEF OwnTasks, Outlived, Live
<1>4. ASSUME NEW a \in Address, Committable(a)
      PROVE  Covered(a) /\ \A s \in batch[a] : <<a, s>> \in toPut'
  <2>1. PICK t \in tasks : t.addr = a
    BY <1>2 DEF OwnTasks
  <2>2. t \in Live /\ DoneInv(t)
    BY <1>2, <2>1 DEF OwnTasks, Outlived, Live, AddressTracked, TaskInv
  <2>3. Covered(a) /\ batch[a] \subseteq t.found
    BY <1>2, <1>4, <2>1, <2>2 DEF DoneInv
  <2> QED BY <1>2, <2>1, <2>2, <2>3
<1>5. \A a \in Address : (Committable(a)' => Committable(a))
                          /\ (Covered(a) => Covered(a)')
  BY <1>2 DEF Committable, Covered
<1>6. AddressTracked'
  BY <1>2, <1>4, <1>5 DEF AddressTracked, Tracked
<1>7. NoSilentSkip'
  BY <1>2, SkipKept DEF Handled
<1> QED BY <1>1, <1>3, <1>6, <1>7

\* A drained queue leaves each event handled or failed.
LEMMA SkipJoin == SkipInv /\ Join => SkipInv'
<1> SUFFICES ASSUME SkipInv, Join PROVE SkipInv'
  OBVIOUS
<1> USE DEF SkipInv
<1>1. TypeInv'
  BY TypeStep DEF Next
<1>2. /\ pc = "putAddress" /\ pc' = "commit" /\ toPut = {} /\ InFlight = {}
      /\ toCommit' = Address
      /\ UNCHANGED <<cursor, base, reported, delivered, deadLetters, polls, batch,
                     tasks, failures>>
  BY DEF Join, durable, history, shared
<1>3. OwnTasks'
  BY <1>2 DEF OwnTasks, Outlived, Live
<1>4. \A a \in Address : Committable(a) =>
          Covered(a) /\ \A s \in batch[a] : \/ <<a, s>> \in Handled
                                            \/ <<a, s>> \in failures
  BY <1>2 DEF AddressTracked, Tracked
<1>5. \A a \in Address : (Committable(a)' => Committable(a))
                          /\ (Covered(a) => Covered(a)')
  BY <1>2 DEF Committable, Covered
<1>6. Handled' = Handled
  BY <1>2 DEF Handled
<1>7. AddressTracked'
  BY <1>2, <1>4, <1>5, <1>6 DEF AddressTracked
<1>8. NoSilentSkip'
  BY <1>2, <1>6, SkipKept
<1> QED BY <1>1, <1>3, <1>7, <1>8

\* The commit: a cursor moves only past signatures that are accounted for.
LEMMA SkipCommit ==
    ASSUME SkipInv, NEW a \in Address, CommitCursor(a) PROVE SkipInv'
<1> USE DEF SkipInv
<1>1. TypeInv' /\ TypeOK
  BY TypeStep DEF Next, TypeInv
<1>2. /\ pc = "commit" /\ a \in toCommit /\ toCommit' = toCommit \ {a}
      /\ failures' = failures \ ({a} \X batch[a])
      /\ UNCHANGED <<reported, delivered, deadLetters, polls, batch, tasks, pc>>
  BY DEF CommitCursor
<1>3. Handled' = Handled
  BY <1>2 DEF Handled
<1>4. \/ UNCHANGED <<cursor, base>>
      \/ /\ MayCommit(a) /\ cursor' = [cursor EXCEPT ![a] = polls[a].cursor]
         /\ base' = IF cursor[a] = 0
                    THEN [base EXCEPT ![a] = polls[a].cursor] ELSE base
  BY DEF CommitCursor
<1>5. OwnTasks'
  BY <1>2 DEF OwnTasks, Outlived, Live
<1>6. ASSUME NEW b \in toCommit', Committable(b)'
      PROVE  Covered(b)' /\ \A s \in batch'[b] : \/ <<b, s>> \in Handled'
                                                 \/ <<b, s>> \in failures'
  <2>1. b # a /\ b \in toCommit /\ b \in Address
    BY <1>1, <1>2, <1>6 DEF TypeOK
  <2>2. cursor'[b] = cursor[b]
    BY <1>1, <1>4, <2>1 DEF TypeOK
  <2>3. Committable(b) /\ (Covered(b) => Covered(b)')
    BY <1>2, <1>6, <2>2 DEF Committable, Covered
  <2> QED BY <1>2, <1>3, <2>1, <2>3 DEF AddressTracked
<1>7. AddressTracked'
  BY <1>2, <1>6 DEF AddressTracked
<1>8. CASE UNCHANGED <<cursor, base>>
  BY <1>1, <1>2, <1>3, <1>5, <1>7, <1>8, SkipKept
<1>9. CASE /\ MayCommit(a) /\ cursor' = [cursor EXCEPT ![a] = polls[a].cursor]
           /\ base' = IF cursor[a] = 0
                      THEN [base EXCEPT ![a] = polls[a].cursor] ELSE base
  <2>1. cursor'[a] = polls[a].cursor
        /\ \A b \in Address : b # a => cursor'[b] = cursor[b] /\ base'[b] = base[b]
    BY <1>1, <1>9 DEF TypeOK
  <2>2. polls[a].cursor \in Nat
    BY <1>1 DEF TypeOK
  <2>3. ASSUME NEW s \in 1..polls[a].cursor PROVE Accounted(a, s)'
    <3>1. CASE cursor[a] = 0
      <4>1. base'[a] = polls[a].cursor
        BY <1>1, <1>9, <3>1 DEF TypeOK
      <4> QED BY <2>2, <2>3, <4>1 DEF Accounted
    <3>2. CASE cursor[a] # 0
      <4>1. base' = base
        BY <1>9, <3>2
      <4>2. Committable(a) /\ ~BatchFailed(a)
        BY <1>9, <3>2 DEF MayCommit, Committable
      <4>3. Covered(a) /\ \A r \in batch[a] : <<a, r>> \in Handled
        BY <1>2, <4>2 DEF AddressTracked, BatchFailed
      <4>4. Accounted(a, s)
        <5>1. CASE s <= cursor[a]
          <6>1. s \in 1..cursor[a]
            BY <1>1, <2>2, <5>1 DEF TypeOK
          <6> QED BY <6>1 DEF NoSilentSkip
        <5>2. CASE ~(s <= cursor[a])
          BY <4>3, <5>2 DEF Covered, Accounted
        <5> QED BY <5>1, <5>2
      <4> QED BY <1>2, <1>3, <4>1, <4>4 DEF Accounted
    <3> QED BY <3>1, <3>2
  <2>4. ASSUME NEW b \in Address, b # a, NEW s \in 1..cursor'[b]
        PROVE  Accounted(b, s)'
    BY <1>2, <1>3, <2>1, <2>4 DEF NoSilentSkip, Accounted
  <2>5. NoSilentSkip'
    BY <2>1, <2>3, <2>4 DEF NoSilentSkip
  <2> QED BY <1>1, <1>5, <1>7, <2>5
<1> QED BY <1>4, <1>8, <1>9

\* Steps that end the poll.
LEMMA SkipIdle ==
    ASSUME SkipInv, TypeInv', pc' = "idle", \A t \in tasks' : ~t.live,
           UNCHANGED <<cursor, base, reported, delivered, deadLetters>>
    PROVE  SkipInv'
<1>1. OwnTasks' /\ AddressTracked'
  BY DEF OwnTasks, AddressTracked, Live
<1>2. NoSilentSkip'
  BY SkipKept DEF SkipInv, Handled
<1> QED BY <1>1, <1>2 DEF SkipInv

\* Every step keeps the invariant.
LEMMA SkipStep ==
    ASSUME ~RpcOutlastsPoll, SkipInv, [Next]_vars PROVE SkipInv'
<1>1. TypeInv' /\ TypeOK
  BY TypeStep DEF SkipInv, TypeInv
<1>2. Handled \subseteq Handled'
  BY HandledGrows
<1>3. \A a \in Address : chain[a] \in Nat
  BY <1>1 DEF TypeOK
<1>4. ASSUME NEW a \in Address, NewSignature(a) PROVE SkipInv'
  <2>1. /\ UNCHANGED <<cursor, base, polls, batch, reported, tasks, pc, toCommit,
                       toPut, queue, busy, delivered, deadLetters, failures>>
        /\ chain' = [chain EXCEPT ![a] = @ + 1]
    BY <1>4 DEF NewSignature, durable, history, polling, shared, delivery
  <2>2. \A b \in Address : chain'[b] \in Nat /\ chain'[b] >= chain[b]
    BY <1>1, <1>3, <2>1 DEF TypeOK
  <2> QED BY <1>1, <1>2, <2>1, <2>2, QuietKept, TrackedKept
<1>5. ASSUME NEW found \in SUBSET (Explicit \ marked), StartPoll(found)
      PROVE  SkipInv'
  <2>1. /\ pc = "idle" /\ pc' = "putExplicit" /\ Outlived = {}
        /\ UNCHANGED <<tasks, cursor, base, reported>>
    BY <1>5 DEF StartPoll, durable, history, shared
  <2>2. OwnTasks'
    BY <2>1 DEF SkipInv, OwnTasks, Outlived, Live
  <2>3. AddressTracked'
    BY <2>1 DEF AddressTracked
  <2>4. NoSilentSkip'
    BY <1>2, <2>1, SkipKept DEF SkipInv
  <2> QED BY <1>1, <2>2, <2>3, <2>4 DEF SkipInv
<1>6. ASSUME NEW e \in toPut, Put(e) PROVE SkipInv'
  <2>1. UNCHANGED <<cursor, base, polls, batch, reported, tasks, pc, toCommit,
                    chain, failures>> /\ pc # "gather"
    BY <1>6 DEF Put, durable, history, shared
  <2> QED BY <1>1, <1>2, <1>3, <1>6, <2>1, QuietKept, TrackedKept
<1>7. ASSUME NEW t \in tasks, PollFails(t) PROVE SkipInv'
  <2>1. pc' = "idle" /\ UNCHANGED <<cursor, base, reported, delivered, deadLetters>>
    BY <1>7 DEF PollFails, durable, history
  <2>2. \A u \in tasks' : ~u.live
    <3>1. ASSUME NEW u \in tasks PROVE ~[u EXCEPT !.live = FALSE].live
      <4>1. u \in Task
        BY <1>1 DEF TypeOK
      <4> QED BY <4>1 DEF Task
    <3> QED BY <1>7, <3>1 DEF PollFails, Outlived, Live
  <2> QED BY <1>1, <2>1, <2>2, SkipIdle
<1>8. ASSUME NEW t \in tasks, OutlivedFails(t) PROVE SkipInv'
  <2>1. /\ tasks' = tasks \ {t} /\ t \in Outlived
        /\ UNCHANGED <<pc, cursor, base, reported, delivered, deadLetters>>
    BY <1>8 DEF OutlivedFails, durable, history, polling
  <2>2. pc = "idle"
    BY <2>1 DEF SkipInv, OwnTasks
  <2>3. \A u \in tasks' : ~u.live
    BY <2>1, <2>2 DEF SkipInv, OwnTasks, Live
  <2> QED BY <1>1, <2>1, <2>2, <2>3, SkipIdle
<1>9. ASSUME NEW s \in toMark, MarkExplicit(s) PROVE SkipInv'
  <2>1. /\ UNCHANGED <<cursor, base, polls, batch, reported, tasks, pc, toCommit,
                       chain, toPut>>
        /\ pc = "commit" /\ failures' = failures \ {<<NoAddress, s>>}
    BY <1>9 DEF MarkExplicit, history
  <2>2. \A a \in Address : \A r : <<a, r>> \in failures => <<a, r>> \in failures'
    BY <2>1
  <2> QED BY <1>1, <1>2, <1>3, <2>1, <2>2, QuietKept
<1>10. CASE EndPoll
  <2>1. /\ pc = "commit" /\ pc' = "idle" /\ tasks' = tasks
        /\ UNCHANGED <<cursor, base, reported, delivered, deadLetters>>
    BY <1>10 DEF EndPoll, durable, history
  <2>2. \A u \in tasks' : ~u.live
    BY <2>1 DEF SkipInv, OwnTasks, Live
  <2> QED BY <1>1, <2>1, <2>2, SkipIdle
<1>11. CASE Crash
  BY <1>1, <1>11, SkipIdle DEF Crash, durable, history
<1>12. ASSUME NEW w \in Worker,
              \/ Take(w)
              \/ \E dropped \in BOOLEAN : Deliver(w, dropped)
              \/ DeliverRaises(w)
       PROVE  SkipInv'
  <2>1. /\ UNCHANGED <<cursor, base, polls, batch, reported, tasks, pc, toCommit,
                       chain, toPut>>
        /\ failures \subseteq failures'
    <3>1. CASE Take(w)
      BY <3>1 DEF Take, durable, history, polling, shared
    <3>2. ASSUME NEW dropped \in BOOLEAN, Deliver(w, dropped)
          PROVE  /\ UNCHANGED <<cursor, base, polls, batch, reported, tasks, pc,
                                toCommit, chain, toPut>>
                 /\ failures \subseteq failures'
      BY <3>2 DEF Deliver, durable, polling, shared
    <3>3. CASE DeliverRaises(w)
      BY <3>3 DEF DeliverRaises, durable, history, polling
    <3> QED BY <1>12, <3>1, <3>2, <3>3
  <2>2. \A e : Tracked(e) => Tracked(e)'
    BY <1>1, <1>12, TrackedKept
  <2> QED BY <1>1, <1>2, <1>3, <2>1, <2>2, QuietKept
<1>13. CASE UNCHANGED vars
  <2>1. UNCHANGED <<cursor, base, polls, batch, reported, tasks, pc, toCommit,
                    chain, toPut, queue, busy, delivered, deadLetters, failures>>
    BY <1>13 DEF vars
  <2> QED BY <1>1, <1>2, <1>3, <2>1, QuietKept, TrackedKept
<1> QED
  BY <1>4, <1>5, <1>6, <1>7, <1>8, <1>9, <1>10, <1>11, <1>12, <1>13, SkipGather,
     SkipTaskStep, SkipCollect, SkipJoin, SkipCommit DEF Next

\* While every RPC call ends within the poll interval, no durable cursor ever
\* passes a signature that was neither delivered, dead-lettered, reverted,
\* reported as missing, nor older than the priming of the address.
THEOREM CursorNeverSkips == ~RpcOutlastsPoll => (Spec => []NoSilentSkip)
<1> SUFFICES ASSUME ~RpcOutlastsPoll PROVE Spec => []NoSilentSkip
  OBVIOUS
<1>1. SkipInv /\ [Next]_vars => SkipInv'
  BY SkipStep
<1>2. Spec => []SkipInv
  BY <1>1, SkipInit, PTL DEF Spec
<1>3. SkipInv => NoSilentSkip
  BY DEF SkipInv
<1> QED BY <1>2, <1>3, PTL

-----------------------------------------------------------------------------
(***************************************************************************)
(* What a cursor that moves back leaves behind.                             *)
(***************************************************************************)
\* Every coroutine works from the durable cursor, also one whose poll is over;
\* a scan that has read no page has no records.
Current ==
    \A t \in tasks : /\ t.cur = cursor[t.addr]
                     /\ t.phase = "scan" /\ t.pages = 0 => t.records = {}

\* The addresses whose scan of the running poll is over.
Scanned ==
    {a \in Address : \/ pc \in {"putAddress", "commit"}
                     \/ /\ pc = "gather"
                        /\ \A t \in tasks : t.addr = a => t.phase # "scan"}

\* Either a row names the cursor of `a`, and every later one belongs to another
\* address this poll has scanned, or (i = 0) such rows fill the whole table.
\* No scan of this poll can then clear one of them.
EvidenceAt(rows, i, others, named) ==
    /\ \A j \in (i + 1)..Len(rows) : rows[j].address \in others
    /\ IF i = 0 THEN Len(rows) = MaxBoundaries ELSE rows[i] = named
CursorRow(a) == [address |-> a, cursor |-> cursor[a]]
Evidence(a) ==
    \E i \in 0..Len(boundaries) :
        EvidenceAt(boundaries, i, Scanned \ {a}, CursorRow(a))

\* A cursor that a poll found behind the durable one has its evidence.
Evident ==
    \A a \in Scanned :
        (polls[a].cursor # 0 /\ polls[a].cursor < cursor[a]) => Evidence(a)

RegressInv == SkipInv /\ Current /\ Evident

\* The table keeps the evidence of other addresses when the scan of `a` ends:
\* a row of `a` is older than it, and a new row pushes out older ones first.
LEMMA ClearedKeeps ==
    ASSUME TypeOK, NEW a \in Address, NEW b \in Address, a # b, a \notin Scanned, Evidence(b)
    PROVE  \E i \in 0..Len(Cleared(a)) :
              EvidenceAt(Cleared(a), i, Scanned \ {b}, CursorRow(b))
<1>1. PICK i \in 0..Len(boundaries) :
         EvidenceAt(boundaries, i, Scanned \ {b}, CursorRow(b))
  BY DEF Evidence
<1>2. boundaries \in Seq(Boundary) /\ Len(boundaries) \in Nat
  BY DEF TypeOK
<1>3. CASE ~HasBoundary(a)
  BY <1>1, <1>3 DEF Cleared
<1>4. CASE HasBoundary(a)
  <2>1. PICK k \in 1..Len(boundaries) : k = RowOf(a) /\ boundaries[k].address = a
    BY <1>4 DEF HasBoundary, RowOf
  <2>2. Cleared(a) = RemoveAt(boundaries, k)
    BY <1>4, <2>1 DEF Cleared
  <2>3. /\ Len(Cleared(a)) = Len(boundaries) - 1
        /\ \A j \in k..(Len(boundaries) - 1) : Cleared(a)[j] = boundaries[j + 1]
    <3>1. /\ Len(RemoveAt(boundaries, k)) = Len(boundaries) - 1
          /\ \A j \in k..(Len(boundaries) - 1) :
                RemoveAt(boundaries, k)[j] = boundaries[j + 1]
      BY <1>2, RemoveAtElements, Zenon
    <3> QED
      BY <2>2, <3>1
  <2>4. k <= i
    <3>1. SUFFICES ASSUME k > i PROVE FALSE
      BY <1>2, <2>1
    <3>2. k \in (i + 1)..Len(boundaries)
      BY <1>2, <2>1, <3>1
    <3> QED
      BY <1>1, <2>1, <3>2 DEF EvidenceAt
  <2>5. i # 0 /\ boundaries[i] = CursorRow(b)
    BY <1>1, <2>1, <2>4 DEF EvidenceAt
  <2>6. k # i
    BY <2>1, <2>5 DEF CursorRow
  <2>7. i - 1 \in k..(Len(boundaries) - 1) /\ (i - 1) + 1 = i /\ i - 1 # 0
    BY <1>2, <2>1, <2>4, <2>6
  <2>8. Cleared(a)[i - 1] = CursorRow(b)
    BY <2>3, <2>5, <2>7
  <2>9. ASSUME NEW j \in ((i - 1) + 1)..Len(Cleared(a))
        PROVE  Cleared(a)[j].address \in Scanned \ {b}
    <3>1. j \in k..(Len(boundaries) - 1) /\ j + 1 \in (i + 1)..Len(boundaries)
      BY <1>2, <2>1, <2>3, <2>4, <2>9
    <3>2. Cleared(a)[j] = boundaries[j + 1]
      BY <2>3, <3>1
    <3> QED
      BY <1>1, <3>1, <3>2 DEF EvidenceAt
  <2>10. i - 1 \in 0..Len(Cleared(a))
    BY <2>3, <2>7
  <2> QED
    BY <2>7, <2>8, <2>9, <2>10 DEF EvidenceAt
<1> QED
  BY <1>3, <1>4

\* So does a table to which the row of another scanned address is appended,
\* and which is then cut to its bound.
LEMMA RetainedKeeps ==
    ASSUME NEW table \in Seq(Boundary), Len(table) <= MaxBoundaries,
           NEW others, NEW row \in Boundary, row.address \in others, NEW named,
           NEW i \in 0..Len(table), EvidenceAt(table, i, others, named)
    PROVE  \E k \in 0..Len(Retained(Append(table, row))) :
              EvidenceAt(Retained(Append(table, row)), k, others, named)
<1> DEFINE longer == Append(table, row)
<1>1. /\ longer \in Seq(Boundary) /\ Len(longer) = Len(table) + 1 /\ Len(table) \in Nat
      /\ \A j \in 1..Len(table) : longer[j] = table[j]
      /\ longer[Len(table) + 1] = row
  OBVIOUS
<1>2. \A j \in (i + 1)..Len(longer) : longer[j].address \in others
  <2> SUFFICES ASSUME NEW j \in (i + 1)..Len(longer) PROVE longer[j].address \in others
    OBVIOUS
  <2>1. CASE j = Len(table) + 1
    BY <1>1, <2>1
  <2>2. CASE j # Len(table) + 1
    BY <1>1, <2>2 DEF EvidenceAt
  <2> QED
    BY <2>1, <2>2
<1>3. /\ i # 0 => longer[i] = named
      /\ i = 0 => Len(table) = MaxBoundaries
  BY <1>1 DEF EvidenceAt
<1> HIDE DEF longer
<1>4. CASE Len(longer) <= MaxBoundaries
  <2>1. Retained(longer) = longer /\ i # 0 /\ i \in 0..Len(longer)
    BY <1>1, <1>3, <1>4 DEF Retained
  <2>2. EvidenceAt(longer, i, others, named)
    BY <1>2, <1>3, <2>1 DEF EvidenceAt
  <2> QED
    BY <2>1, <2>2 DEF longer
<1>5. CASE Len(longer) > MaxBoundaries
  <2>1. Retained(longer) = Tail(longer) /\ Len(Tail(longer)) = MaxBoundaries
        /\ \A j \in 1..Len(Tail(longer)) : Tail(longer)[j] = longer[j + 1]
    BY <1>1, <1>5 DEF Retained
  <2>2. PICK k \in 0..Len(Tail(longer)) : IF i = 0 THEN k = 0 ELSE k = i - 1
    BY <1>1, <2>1
  <2>3. ASSUME NEW j \in (k + 1)..Len(Tail(longer))
        PROVE  Tail(longer)[j].address \in others
    <3>1. j \in 1..Len(Tail(longer)) /\ j + 1 \in (i + 1)..Len(longer)
      BY <1>1, <1>5, <2>1, <2>2, <2>3
    <3> QED
      BY <1>2, <2>1, <3>1
  <2>4. k # 0 => Tail(longer)[k] = named
    BY <1>3, <2>1, <2>2
  <2>5. EvidenceAt(Tail(longer), k, others, named)
    BY <2>1, <2>3, <2>4 DEF EvidenceAt
  <2> QED
    BY <2>1, <2>5 DEF longer
<1> QED
  BY <1>1, <1>4, <1>5

\* A scan that ends below the durable cursor has not met it, and records that.
LEMMA ScanIsEvident ==
    ASSUME TypeInv, OwnTasks, Current, Evident, NEW t \in tasks,
           NEW view \in 0..chain[t.addr], NEW floor \in 0..view,
           NEW bad \in SUBSET Page(t, view, floor), ReadPage(t, view, floor, bad)
    PROVE  Evident'
<1> DEFINE page    == Page(t, view, floor)
           records == t.records \cup (page \ bad)
           found   == t.cur = 0 \/ t.cur \in page \ bad
           short   == ShortPage(t, view, floor)
           last    == PageHigh(t, view) - Limit + 1
           stuck   == last \in bad
           atLimit == t.pages + 1 = MaxPages
           safe    == t.safe /\ bad = {} /\ (found \/ short \/ stuck \/ ~atLimit)
           readAny == page # {} \/ t.pages > 0
           ended   == found \/ short \/ stuck \/ atLimit
           next    == [t EXCEPT !.records = records, !.safe = safe,
                                !.pages = t.pages + 1, !.before = last]
           ahead   == IF t.cur # 0 /\ Candidates(t, records) # {}
                      THEN {[t EXCEPT !.records = records, !.phase = "txs"]}
                      ELSE Finished(t, {})
<1>1. /\ t \in Task /\ t.addr \in Address /\ t.cur = cursor[t.addr] /\ t.phase = "scan"
      /\ t.pages \in Nat /\ t.cur \in Nat /\ chain[t.addr] \in Nat
      /\ UNCHANGED <<cursor, pc>>
  BY DEF TypeInv, TypeOK, Task, Current, ReadPage, polling
<1>2. SUFFICES ASSUME pc = "gather" PROVE Evident'
  <2>1. CASE pc # "gather"
    <3>1. pc = "idle"
      BY <2>1 DEF OwnTasks, Live, Outlived
    <3>2. Scanned' = {}
      BY <1>1, <3>1 DEF Scanned
    <3> QED
      BY <3>2 DEF Evident
  <2> QED
    BY <2>1
<1>3. /\ ended => /\ RecordBoundary(t, records, readAny, found, safe)
                  /\ StoreScan(t, records, safe)
                  /\ tasks' = (tasks \ {t}) \cup ahead
      /\ ~ended => /\ tasks' = (tasks \ {t}) \cup {next}
                   /\ UNCHANGED <<boundaries, polls>>
  BY DEF ReadPage
<1>4. /\ next.addr = t.addr /\ next.phase = "scan"
      /\ \A u \in ahead : u.addr = t.addr /\ u.phase # "scan"
  <2>1. next.addr = t.addr /\ next.phase = "scan"
    BY <1>1 DEF Task
  <2>2. \A r : LET u == [t EXCEPT !.records = r, !.phase = "txs"] IN
               u.addr = t.addr /\ u.phase # "scan"
    BY <1>1 DEF Task
  <2>3. \A u \in Finished(t, {}) : u.addr = t.addr /\ u.phase # "scan"
    <3> DEFINE u == [t EXCEPT !.phase = "done", !.records = {}, !.found = {}]
    <3>1. u.addr = t.addr /\ u.phase # "scan"
      BY <1>1 DEF Task
    <3>2. Finished(t, {}) \subseteq {u}
      BY DEF Finished
    <3> QED
      BY <3>1, <3>2
  <2> HIDE DEF next, records
  <2> QED
    BY <2>1, <2>2, <2>3
<1> HIDE DEF next, ahead
<1>5. /\ t.addr \notin Scanned /\ Scanned \subseteq Scanned'
      /\ Scanned' \subseteq Scanned \cup {t.addr}
  <2>1. t.addr \notin Scanned
    BY <1>1, <1>2 DEF Scanned
  <2>2. \A u \in tasks' : u \in tasks \/ u.addr = t.addr
    BY <1>3, <1>4
  <2>3. \A u \in tasks : u.addr # t.addr => u \in tasks'
    BY <1>3
  <2> HIDE DEF ended, records, safe, found, readAny
  <2> QED
    BY <1>1, <1>2, <2>1, <2>2, <2>3 DEF Scanned
<1>6. CASE ~ended
  <2>1. t.addr \notin Scanned'
    BY <1>1, <1>2, <1>3, <1>4, <1>6 DEF Scanned
  <2> HIDE DEF ended, records, safe, found, readAny
  <2>2. ASSUME NEW b \in Scanned, Evidence(b) PROVE Evidence(b)'
    BY <1>1, <1>3, <1>5, <1>6, <2>2 DEF Evidence, EvidenceAt, CursorRow
  <2> QED
    BY <1>1, <1>3, <1>5, <1>6, <2>1, <2>2 DEF Evident
<1>7. CASE ended
  <2>0. TypeOK /\ TypeOK'
    BY ReadPageType DEF TypeInv
  <2>1. records \in SUBSET (0..chain[t.addr])
    <3>1. page \subseteq 1..chain[t.addr]
      BY <1>1, PageBounds DEF TypeInv
    <3> QED
      BY <1>1, <3>1 DEF TypeInv, TaskBounds
  <2>2. records # {} => readAny
    BY <1>1 DEF Current
  <2> HIDE DEF page, records, safe, readAny
  <2>a. RecordBoundary(t, records, readAny, found, safe) /\ StoreScan(t, records, safe)
    BY <1>3, <1>7
  <2>3. /\ polls \in [Address -> [cursor : Nat, canCommit : BOOLEAN]]
        /\ boundaries \in Seq(Boundary) /\ Len(boundaries) \in Nat
        /\ Len(boundaries) <= MaxBoundaries
    BY <2>0 DEF TypeOK
  <2>4. \A b \in Address : b # t.addr => polls'[b] = polls[b]
    BY <1>1, <2>a, <2>3 DEF StoreScan
  <2>6. polls'[t.addr].cursor \in Nat
    BY <1>1, <2>0 DEF TypeOK
  <2>7. /\ Cleared(t.addr) \in Seq(Boundary) /\ Len(Cleared(t.addr)) \in Nat
        /\ Len(Cleared(t.addr)) <= MaxBoundaries
    <3>1. Cleared(t.addr) \in Seq(Boundary) /\ Len(Cleared(t.addr)) <= Len(boundaries)
      BY <1>1, <2>0, BoundariesType
    <3> QED
      BY <2>3, <3>1
  <2>8. PICK row \in Boundary : row = [address |-> t.addr, cursor |-> t.cur]
    BY <1>1 DEF Boundary
  <2>5. ASSUME polls'[t.addr].cursor # 0, polls'[t.addr].cursor < cursor[t.addr]
        PROVE  Evidence(t.addr)'
    <3>1. t.cur # 0 /\ records # {} /\ polls'[t.addr].cursor = Newest(records)
      <4>1. cursor[t.addr] # 0
        BY <1>1, <2>1, <2>5, <2>6
      <4>2. PICK p : polls' = [polls EXCEPT ![t.addr] = p] /\ p.cursor \in {0, Newest(records)}
                     /\ (records = {} => p.cursor = 0)
        <5>1. CASE records = {}
          BY <2>a, <5>1 DEF StoreScan
        <5>2. CASE records # {}
          BY <1>1, <2>a, <4>1, <5>2 DEF StoreScan
        <5> QED
          BY <5>1, <5>2
      <4>3. polls'[t.addr] = p
        BY <1>1, <2>3, <4>2
      <4>4. t.cur # 0
        BY <1>1, <4>1
      <4>5. p.cursor # 0
        BY <2>5, <4>3
      <4> QED
        BY <4>2, <4>3, <4>4, <4>5
    <3>2. Newest(records) \in Nat /\ \A r \in records : Newest(records) >= r
      <4>1. PICK n \in Nat : n = chain[t.addr]
        BY <1>1
      <4>2. records \in SUBSET (0..n) /\ records # {}
        BY <2>1, <3>1, <4>1
      <4> HIDE DEF found, short, last, stuck, atLimit
      <4>3. \A S \in SUBSET (0..n) :
               S # {} => Newest(S) \in S /\ \A r \in S : Newest(S) >= r
        BY NewestInSet
      <4>4. Newest(records) \in records /\ \A r \in records : Newest(records) >= r
        BY <4>2, <4>3
      <4>5. 0..n \subseteq Nat
        OBVIOUS
      <4> QED
        BY <4>2, <4>4, <4>5
    <3>3. t.cur \notin records
      BY <1>1, <2>1, <2>5, <3>1, <3>2
    <3>4. ~found
      BY <3>1, <3>3 DEF records, page
    <3> HIDE DEF found
    <3>5. boundaries' = Retained(Append(Cleared(t.addr), row))
      BY <2>2, <2>8, <2>a, <3>1, <3>4 DEF RecordBoundary, Detected
    <3>6. PICK n \in 1..Len(boundaries') : n = Len(boundaries') /\ boundaries'[n] = row
      <4> DEFINE longer == Append(Cleared(t.addr), row)
      <4>1. longer \in Seq(Boundary) /\ Len(longer) = Len(Cleared(t.addr)) + 1
            /\ longer[Len(longer)] = row
        BY <2>7
      <4> HIDE DEF longer
      <4>2. CASE Len(longer) > MaxBoundaries
        <5>1. Retained(longer) = Tail(longer)
          BY <4>2 DEF Retained
        <5>2. /\ Len(Tail(longer)) = Len(longer) - 1 /\ Len(longer) - 1 \in 1..Len(Tail(longer))
              /\ Tail(longer)[Len(longer) - 1] = longer[Len(longer)]
          BY <2>7, <4>1, <4>2
        <5> QED
          BY <3>5, <4>1, <5>1, <5>2 DEF longer
      <4>3. CASE ~(Len(longer) > MaxBoundaries)
        <5>1. Retained(longer) = longer
          BY <4>3 DEF Retained
        <5>2. Len(longer) \in 1..Len(longer)
          BY <2>7, <4>1
        <5> QED
          BY <3>5, <4>1, <5>1, <5>2 DEF longer
      <4> QED
        BY <4>2, <4>3
    <3>7. n \in 0..Len(boundaries') /\ n # 0 /\ \A j \in (n + 1)..Len(boundaries') : FALSE
      BY <3>6
    <3>8. boundaries'[n] = CursorRow(t.addr)'
      BY <1>1, <2>8, <3>6 DEF CursorRow
    <3> QED
      BY <3>7, <3>8 DEF Evidence, EvidenceAt
  <2>9. ASSUME NEW b \in Scanned, Evidence(b) PROVE Evidence(b)'
    <3>1. b \in Address /\ b # t.addr
      BY <1>5 DEF Scanned
    <3>2. CASE boundaries' = boundaries
      BY <1>1, <1>5, <2>9, <3>2 DEF Evidence, EvidenceAt, CursorRow
    <3> DEFINE others == Scanned' \ {b}
    <3>3. PICK i \in 0..Len(Cleared(t.addr)) :
             EvidenceAt(Cleared(t.addr), i, Scanned \ {b}, CursorRow(b))
      BY <1>1, <1>5, <2>0, <2>9, <3>1, ClearedKeeps
    <3>4. EvidenceAt(Cleared(t.addr), i, others, CursorRow(b)')
      BY <1>1, <1>5, <3>3 DEF EvidenceAt, CursorRow
    <3>5. CASE boundaries' = Cleared(t.addr)
      BY <3>4, <3>5 DEF Evidence
    <3>6. CASE boundaries' = Retained(Append(Cleared(t.addr), row))
      <4>1. t.addr \in Scanned'
        <5>1. \A u \in tasks' : u.addr = t.addr => u.phase # "scan"
          BY <1>2, <1>3, <1>4, <1>7 DEF OwnTasks
        <5> QED
          BY <1>1, <1>2, <5>1 DEF Scanned
      <4>2. row.address \in others
        BY <2>8, <3>1, <4>1
      <4> HIDE DEF others
      <4>3. \E k \in 0..Len(boundaries') :
               EvidenceAt(boundaries', k, others, CursorRow(b)')
        BY <2>7, <2>8, <3>4, <3>6, <4>2, RetainedKeeps
      <4> QED
        BY <4>3 DEF Evidence, others
    <3> HIDE DEF found
    <3> QED
      BY <2>8, <2>a, <3>2, <3>5, <3>6 DEF RecordBoundary, Detected
  <2> HIDE DEF found
  <2> QED
    BY <1>1, <1>5, <2>4, <2>5, <2>9 DEF Evident, Scanned
<1> QED
  BY <1>6, <1>7

\* A coroutine goes on with the cursor it has.
LEMMA TaskStepCurrent ==
    ASSUME TypeInv, Current, NEW t \in tasks, TaskStep(t)
    PROVE  Current'
<1>1. t \in Task /\ t.pages \in Nat /\ t.cur = cursor[t.addr] /\ cursor' = cursor
  BY TaskStepKeeps DEF TypeInv, TypeOK, Task, Current
<1>2. \A u \in tasks' \ tasks :
         u.cur = t.cur /\ u.addr = t.addr /\ (u.phase = "scan" => u.pages # 0)
  <2>1. ASSUME NEW view, NEW floor, NEW bad, ReadPage(t, view, floor, bad), NEW u \in tasks' \ tasks
        PROVE  u.cur = t.cur /\ u.addr = t.addr /\ (u.phase = "scan" => u.pages # 0)
    <3>1. PICK r, b, s :
             \/ u = [t EXCEPT !.records = r, !.safe = s, !.pages = t.pages + 1, !.before = b]
             \/ u = [t EXCEPT !.records = r, !.phase = "txs"]
             \/ u = [t EXCEPT !.phase = "done", !.records = {}, !.found = {}]
      <4>1. PICK r, b, s :
               \/ tasks' \subseteq tasks \cup {[t EXCEPT !.records = r, !.safe = s,
                                                     !.pages = t.pages + 1, !.before = b]}
               \/ tasks' \subseteq tasks \cup {[t EXCEPT !.records = r, !.phase = "txs"]}
               \/ tasks' \subseteq tasks \cup Finished(t, {})
        BY <2>1 DEF ReadPage
      <4> QED
        BY <4>1 DEF Finished
    <3>2. t.pages + 1 # 0
      BY <1>1
    <3>3. CASE u = [t EXCEPT !.records = r, !.safe = s, !.pages = t.pages + 1, !.before = b]
      BY <1>1, <3>2, <3>3 DEF Task
    <3>4. CASE u = [t EXCEPT !.records = r, !.phase = "txs"]
      BY <1>1, <3>4 DEF Task
    <3>5. CASE u = [t EXCEPT !.phase = "done", !.records = {}, !.found = {}]
      BY <1>1, <3>5 DEF Task
    <3> QED
      BY <3>1, <3>3, <3>4, <3>5
  <2>2. ASSUME NEW missing, ReadTransactions(t, missing), NEW u \in tasks' \ tasks
        PROVE  u.cur = t.cur /\ u.addr = t.addr /\ (u.phase = "scan" => u.pages # 0)
    <3>1. PICK f : u = [t EXCEPT !.phase = "done", !.records = {}, !.found = f]
      BY <2>2 DEF ReadTransactions, Finished
    <3> QED
      BY <1>1, <3>1 DEF Task
  <2> QED
    BY <2>1, <2>2 DEF TaskStep
<1> QED
  BY <1>1, <1>2 DEF Current

\* No coroutine changes, or all are gone.
LEMMA CurrentKept ==
    ASSUME Current, tasks' \subseteq tasks, cursor' = cursor \/ tasks' = {}
    PROVE  Current'
  BY DEF Current

\* Nothing that Evident speaks of changes, or the poll is over.
LEMMA EvidenceKept ==
    ASSUME Evident, UNCHANGED <<cursor, boundaries>>, Scanned' \in {Scanned, {}},
           \A a \in Address : polls'[a] = polls[a] \/ polls'[a] = NoPoll
    PROVE  Evident'
<1>1. CASE Scanned' = {}
  BY <1>1 DEF Evident
<1>2. CASE Scanned' = Scanned
  <2>1. ASSUME NEW a \in Scanned, Evidence(a) PROVE Evidence(a)'
    BY <1>2, <2>1 DEF Evidence, EvidenceAt, CursorRow
  <2>2. Scanned \subseteq Address
    BY DEF Scanned
  <2> QED
    BY <1>2, <2>1, <2>2 DEF Evident, NoPoll
<1> QED
  BY <1>1, <1>2

\* No coroutine runs at the start, and no cursor was found behind another.
LEMMA RegressInit == Init => RegressInv
<1> SUFFICES ASSUME Init PROVE RegressInv
  OBVIOUS
<1>1. Current /\ Evident
  BY DEF Init, Current, Evident, Scanned
<1> QED
  BY <1>1, SkipInit DEF RegressInv

\* The invariant is inductive when no RPC call outlives the poll interval: a
\* cursor is written only when no coroutine is left that has read it.
LEMMA RegressStep ==
    ASSUME ~RpcOutlastsPoll, RegressInv, [Next]_vars PROVE RegressInv'
<1>1. SkipInv' /\ TypeInv /\ TypeOK /\ TypeOK' /\ Current /\ Evident /\ OwnTasks
  BY SkipStep DEF RegressInv, SkipInv, TypeInv
<1>2. ASSUME NEW a \in Address, CommitCursor(a) PROVE Current' /\ Evident'
  <2>1. /\ pc = "commit" /\ UNCHANGED <<polls, boundaries, tasks, pc>>
        /\ cursor' = cursor \/ cursor' = [cursor EXCEPT ![a] = polls[a].cursor]
    BY <1>2 DEF CommitCursor
  <2>2. tasks = {}
    BY <1>1, <2>1 DEF OwnTasks, Live, Outlived
  <2>3. Current'
    BY <1>1, <2>1, <2>2, CurrentKept
  <2>4. Evident'
    <3>1. Scanned' = Scanned /\ cursor \in [Address -> Nat] /\ polls[a].cursor \in Nat
      BY <1>1, <2>1 DEF TypeOK, Scanned
    <3> SUFFICES ASSUME NEW b \in Scanned, polls[b].cursor # 0, polls[b].cursor < cursor'[b]
                 PROVE  Evidence(b)'
      BY <2>1, <3>1 DEF Evident
    <3>2. cursor'[b] = cursor[b]
      BY <2>1, <3>1 DEF Scanned
    <3>3. Evidence(b)
      BY <1>1, <3>2 DEF Evident
    <3> QED
      BY <2>1, <3>1, <3>2, <3>3 DEF Evidence, EvidenceAt, CursorRow
  <2> QED
    BY <2>3, <2>4
<1>3. ASSUME Gather PROVE Current' /\ Evident'
  <2>1. /\ tasks' = tasks \cup {NewTask(a) : a \in Address}
        /\ pc' = "gather" /\ UNCHANGED <<cursor, boundaries, polls>>
    BY <1>3 DEF Gather, durable
  <2>2. \A a \in Address : NewTask(a).cur = cursor[a] /\ NewTask(a).addr = a
                           /\ NewTask(a).records = {} /\ NewTask(a).phase = "scan"
    BY DEF NewTask
  <2>3. Current'
    BY <1>1, <2>1, <2>2 DEF Current
  <2>4. Scanned' = {}
    BY <2>1, <2>2 DEF Scanned
  <2>5. Evident'
    BY <2>4 DEF Evident
  <2> QED
    BY <2>3, <2>5
<1>4. ASSUME NEW t \in tasks, TaskStep(t) PROVE Current' /\ Evident'
  <2>1. t.addr \in Address /\ chain[t.addr] \in Nat
    BY <1>1 DEF TypeOK, Task
  <2>2. ASSUME NEW view \in (chain[t.addr] - Lag)..chain[t.addr], NEW floor \in 0..view,
               NEW bad \in SUBSET Page(t, view, floor), ReadPage(t, view, floor, bad)
        PROVE  Evident'
    <3>1. view \in 0..chain[t.addr]
      BY <2>1
    <3> QED
      BY <1>1, <2>2, <3>1, ScanIsEvident
  <2>3. ASSUME NEW missing, ReadTransactions(t, missing) PROVE Evident'
    <3>1. /\ UNCHANGED <<cursor, boundaries, pc>>
          /\ \A a \in Address : polls'[a] = polls[a] \/ polls'[a] = NoPoll
      BY <1>1, <2>3 DEF ReadTransactions, durable, polling, TypeOK
    <3>2. t.phase # "scan" /\ \E f \in SUBSET Nat : tasks' = (tasks \ {t}) \cup Finished(t, f)
      <4>1. t.records \subseteq Nat
        BY <1>1 DEF TypeOK, Task
      <4> QED
        BY <2>3, <4>1 DEF ReadTransactions, Candidates
    <3>3. \A u : u.phase = "scan" => (u \in tasks <=> u \in tasks')
      <4>1. PICK f \in SUBSET Nat : tasks' = (tasks \ {t}) \cup Finished(t, f)
        BY <3>2
      <4> DEFINE d == [t EXCEPT !.phase = "done", !.records = {}, !.found = f]
      <4>2. d.phase # "scan"
        BY <1>1 DEF TypeOK, Task
      <4>3. Finished(t, f) \subseteq {d}
        BY DEF Finished
      <4> QED
        BY <3>2, <4>1, <4>2, <4>3
    <3>4. Scanned' = Scanned
      BY <3>1, <3>3 DEF Scanned
    <3> QED
      BY <1>1, <3>1, <3>4, EvidenceKept
  <2> QED
    BY <1>1, <1>4, <2>2, <2>3, TaskStepCurrent DEF TaskStep
<1>5. ASSUME NEW t \in tasks, PollFails(t) PROVE Current' /\ Evident'
  <2>1. /\ pc' = "idle" /\ UNCHANGED <<cursor, polls>>
        /\ tasks' \subseteq tasks \cup {[u EXCEPT !.live = FALSE] : u \in tasks}
    BY <1>5 DEF PollFails, durable, Outlived, Live
  <2>2. ASSUME NEW u \in tasks
        PROVE  LET v == [u EXCEPT !.live = FALSE] IN
               /\ v.cur = u.cur /\ v.addr = u.addr /\ v.phase = u.phase
               /\ v.pages = u.pages /\ v.records = u.records
    BY <1>1 DEF TypeOK, Task
  <2>3. Current'
    <3> SUFFICES ASSUME NEW v \in tasks'
                 PROVE  v.cur = cursor'[v.addr]
                        /\ (v.phase = "scan" /\ v.pages = 0 => v.records = {})
      BY DEF Current
    <3>1. PICK u \in tasks : v = u \/ v = [u EXCEPT !.live = FALSE]
      BY <2>1
    <3>2. /\ v.cur = u.cur /\ v.addr = u.addr /\ v.phase = u.phase
          /\ v.pages = u.pages /\ v.records = u.records
      BY <2>2, <3>1
    <3> QED
      BY <1>1, <2>1, <3>2 DEF Current
  <2>4. Evident'
    BY <2>1 DEF Evident, Scanned
  <2> QED
    BY <2>3, <2>4
<1>6. ASSUME Collect PROVE Current' /\ Evident'
  <2>1. /\ pc = "gather" /\ pc' = "putAddress" /\ tasks' \subseteq tasks
        /\ \A u \in tasks : u.phase = "done"
    BY <1>1, <1>6 DEF Collect, OwnTasks, Outlived, Live, durable
  <2>2. UNCHANGED <<cursor, boundaries, polls>>
    BY <1>6 DEF Collect, durable
  <2>3. Scanned' = Scanned
    BY <2>1 DEF Scanned
  <2> QED
    BY <1>1, <2>1, <2>2, <2>3, EvidenceKept, CurrentKept
<1>7. ASSUME \/ \E a \in Address : NewSignature(a)
             \/ \E found \in SUBSET (Explicit \ marked) : StartPoll(found)
             \/ \E e \in toPut : Put(e)
             \/ Join \/ EndPoll
             \/ \E t \in tasks : OutlivedFails(t)
             \/ \E s \in toMark : MarkExplicit(s)
             \/ \E w \in Worker : Take(w) \/ (\E dropped \in BOOLEAN : Deliver(w, dropped))
                                          \/ DeliverRaises(w)
             \/ Crash \/ UNCHANGED vars
      PROVE  Current' /\ Evident'
  <2>1. /\ UNCHANGED <<cursor, boundaries>> /\ tasks' \subseteq tasks
        /\ polls' = polls \/ polls' = [a \in Address |-> NoPoll]
    BY <1>7 DEF NewSignature, StartPoll, Put, Join, EndPoll, OutlivedFails,
                MarkExplicit, Take, Deliver, DeliverRaises, Crash, vars, durable, shared, Outlived
  <2>2. \/ UNCHANGED <<pc, tasks>>
        \/ pc = "putAddress" /\ pc' = "commit"
        \/ pc' \in {"idle", "putExplicit"}
        \/ pc' = pc /\ Outlived # {}
    BY <1>7 DEF NewSignature, StartPoll, Put, Join, EndPoll, OutlivedFails, MarkExplicit,
                Take, Deliver, DeliverRaises, Crash, vars, polling, shared, Outlived
  <2>3. Outlived # {} => pc = "idle"
    BY <1>1 DEF OwnTasks
  <2>4. Scanned' \in {Scanned, {}}
    BY <2>2, <2>3 DEF Scanned
  <2> QED
    BY <1>1, <2>1, <2>4, EvidenceKept, CurrentKept
<1>8. Current' /\ Evident'
  <2>1. Next \/ UNCHANGED vars
    OBVIOUS
  <2> QED
    BY <2>1, <1>2, <1>3, <1>4, <1>5, <1>6, <1>7 DEF Next
<1> QED
  BY <1>1, <1>8 DEF RegressInv

\* While every RPC call ends within the poll interval, a durable cursor moves
\* back only past a cursor that an active recovery boundary names, or whose row
\* other addresses' later detections have evicted from the full table, for any
\* lag of the nodes, any pages, any faults and any bound of the table
\* (RegressOnlyWithEvidence).
THEOREM RegressIsEvident == ~RpcOutlastsPoll => (Spec => RegressOnlyWithEvidence)
<1> SUFFICES ASSUME ~RpcOutlastsPoll PROVE Spec => RegressOnlyWithEvidence
  OBVIOUS
<1> DEFINE Accompanied == \A a \in Address : cursor'[a] < cursor[a] => Named(a) \/ Displaced(a)
<1>1. RegressInv /\ [Next]_vars => RegressInv'
  BY RegressStep
<1>2. Spec => []RegressInv
  BY <1>1, RegressInit, PTL DEF Spec
<1>3. RegressInv /\ [Next]_vars => [Accompanied]_vars
  <2> SUFFICES ASSUME RegressInv, Next, NEW a \in Address, cursor'[a] < cursor[a]
               PROVE  Named(a) \/ Displaced(a)
    OBVIOUS
  <2>1. TypeOK /\ Evident
    BY DEF RegressInv, SkipInv, TypeInv
  <2>2. PICK b \in Address : CommitCursor(b)
    <3>1. ASSUME NEW t \in tasks, TaskStep(t) PROVE cursor' = cursor
      BY <3>1, TaskStepKeeps
    <3>2. CASE cursor' = cursor
      BY <2>1, <3>2 DEF TypeOK
    <3> QED
      BY <3>1, <3>2 DEF Next, NewSignature, StartPoll, Put, Gather, Collect, Join, EndPoll,
           PollFails, OutlivedFails, MarkExplicit, Take, Deliver, DeliverRaises, Crash, durable
  <2>3. /\ cursor \in [Address -> Nat] /\ cursor' # cursor
        /\ cursor' = cursor \/ (polls[b].cursor # 0
                                 /\ cursor' = [cursor EXCEPT ![b] = polls[b].cursor])
    BY <2>1, <2>2 DEF CommitCursor, MayCommit, TypeOK
  <2>4. b = a /\ polls[a].cursor # 0 /\ cursor'[a] = polls[a].cursor
    BY <2>3
  <2>5. a \in Scanned /\ Evidence(a)
    <3>1. a \in Scanned
      BY <2>2 DEF CommitCursor, Scanned
    <3> QED
      BY <2>1, <2>4, <3>1 DEF Evident
  <2>6. PICK i \in 0..Len(boundaries) : EvidenceAt(boundaries, i, Scanned \ {a}, CursorRow(a))
    BY <2>5 DEF Evidence
  <2>7. CASE i = 0
    <3>1. \A j \in 1..Len(boundaries) : boundaries[j].address # a
      BY <2>6, <2>7 DEF EvidenceAt
    <3> QED
      BY <2>6, <2>7, <3>1 DEF EvidenceAt, Displaced, HasBoundary
  <2>8. CASE i # 0
    BY <2>1, <2>6, <2>8 DEF EvidenceAt, Named, CursorRow, TypeOK
  <2> QED
    BY <2>7, <2>8
<1> QED
  BY <1>2, <1>3, PTL DEF Spec, RegressOnlyWithEvidence
=============================================================================
