-------------------------- MODULE LiveScalperProofs --------------------------
(***************************************************************************)
(* Machine-checked facts about the trade journal and the live scalper that   *)
(* trades by it, for any processes, orders, wallets, faults and bounds.      *)
(*   - The journal's state is always well typed. When no two claims share a  *)
(*     fingerprint, or one process has the journal to itself (OrdersApart),  *)
(*     no swap that may be on the chain is forgotten, the recorded outcomes  *)
(*     are those of the chain, and the positions follow the last strategy    *)
(*     swap it confirmed. Then the journal also implements SwapLedger.       *)
(*   - ScalperInv relates three things that are written at different times:  *)
(*     the claim of the journal, the state file, and where the process       *)
(*     stands. FillInv adds the chain: what memory and file say of it when   *)
(*     saves can fail and others use the wallet.                             *)
(***************************************************************************)
EXTENDS LiveScalper, TLAPS

USE JournalAssumption

(***************************************************************************)
(* The trade journal.                                                       *)
(***************************************************************************)
Working == {"begin", "approve", "swap", "send", "wait", "filled", "failed"}
ApprovalDone(n) == txs[n].phase = "approval" /\ txs[n].status = "confirmed"

\* The claim names a transaction of its own order and phase.
ClaimNamesItsOwn ==
    /\ pending # NoClaim => pending.order \in used
    /\ pending.tx # 0 => /\ txs[pending.tx].order = pending.order
                         /\ txs[pending.tx].phase = pending.phase

\* Processes work on orders that were claimed; two that execute, on different ones.
OwnOrders ==
    /\ \A p \in Process : pc[p] # "idle" => mine[p] \in used
    /\ \A p, q \in Process :
         pc[p] \in Working /\ pc[q] \in Working /\ p # q => mine[p] # mine[q]

\* What a process waits for or has read belongs to its order.
HashIsOwn(p) ==
    /\ pc[p] \in {"send", "wait", "filled", "fetch"}
         => hash[p] \in DOMAIN txs /\ txs[hash[p]].order = mine[p]
    /\ pc[p] = "send" => txs[hash[p]].status = "signed"
    /\ pc[p] = "filled" => /\ txs[hash[p]].phase = "swap"
                           /\ txs[hash[p]].status = "confirmed"
    /\ pc[p] \in Working /\ reverted[p]
         => /\ pc[p] = "failed"
            /\ hash[p] \in DOMAIN txs
            /\ txs[hash[p]].order = mine[p]
            /\ txs[hash[p]].status = "reverted"

\* How far a process has come bounds what the claim it holds may show. Without
\* the claim it cannot be about to send.
Unsent(n) == n = 0 \/ txs[n].status = "signed"
ClaimFollows(p) ==
    /\ pc[p] = "send" => pending.tx = hash[p]
    /\ pc[p] # "idle" /\ Holds(mine[p]) =>
         /\ pc[p] \in {"begin", "approve"} => pending.tx = 0
         /\ pc[p] = "swap" => pending.tx = 0 \/ ApprovalDone(pending.tx)
         /\ pc[p] \in {"wait", "filled"} => pending.tx = hash[p]
         /\ pc[p] = "fetch" => \/ pending.tx = hash[p]
                               \/ ApprovalDone(hash[p]) /\ pending.phase = "swap"
         /\ pc[p] = "failed" /\ reverted[p] => pending.tx = hash[p]
         /\ pc[p] \in Working /\ ~attempted[p] => Unsent(pending.tx)

-----------------------------------------------------------------------------
\* Replacing the status of a transaction keeps the list well typed.
LEMMA SetStatusType ==
    ASSUME txs \in Seq(Tx), NEW n \in DOMAIN txs,
           NEW status \in {"signed", "sent", "confirmed", "reverted"},
           SetStatus(n, status)
    PROVE  /\ txs' \in Seq(Tx)
           /\ Len(txs') = Len(txs)
           /\ DOMAIN txs' = DOMAIN txs
           /\ txs'[n].status = status
           /\ txs'[n].order = txs[n].order /\ txs'[n].phase = txs[n].phase
           /\ \A m \in DOMAIN txs : m # n => txs'[m] = txs[m]
<1>1. txs[n] \in Tx
  OBVIOUS
<1>2. [txs[n] EXCEPT !.status = status] \in Tx
  BY <1>1 DEF Tx
<1> DEFINE tx == [txs[n] EXCEPT !.status = status]
<1>3. txs' = [txs EXCEPT ![n] = tx]
  BY DEF SetStatus
<1>4. tx.status = status /\ tx.order = txs[n].order /\ tx.phase = txs[n].phase
  BY <1>1 DEF Tx
<1>5. tx \in Tx
  BY <1>2
<1> HIDE DEF tx
<1>6. txs' \in Seq(Tx) /\ Len(txs') = Len(txs) /\ DOMAIN txs' = DOMAIN txs
  BY <1>3, <1>5
<1> QED BY <1>3, <1>4, <1>6

\* The claim keeps its type when it is freed or kept.
LEMMA ClaimKept ==
    ASSUME TypeOK, pending' \in {pending, NoClaim}, Len(txs') = Len(txs)
    PROVE  ClaimOK'
BY DEF TypeOK, ClaimOK

\* Ending a claim keeps the journal well typed.
LEMMA EndsWellTyped ==
    ASSUME TypeOK, NEW o \in Order, NEW n \in Nat,
           \/ ConfirmClaim(o, n) \/ RejectClaim(o) \/ ReleaseClaim(o)
           \/ ClearApproval(o) \/ UNCHANGED journal
    PROVE  /\ pending' \in {pending, NoClaim}
           /\ trades' \subseteq [order : Order, tx : Nat, outcome : Final]
           /\ staged' \subseteq Nat
<1>1. Holds(o) => pending.order \in Order /\ pending.tx \in Nat
  BY DEF TypeOK, ClaimOK, Holds, NoClaim
<1>2. ASSUME Holds(o), NEW outcome \in Final, Free(outcome)
      PROVE  /\ pending' = NoClaim
             /\ trades' \subseteq [order : Order, tx : Nat, outcome : Final]
  BY <1>1, <1>2 DEF Free, TypeOK
<1>3. CASE ConfirmClaim(o, n)
  BY <1>2, <1>3 DEF ConfirmClaim, TypeOK, journal, Final
<1>4. CASE RejectClaim(o)
  BY <1>2, <1>4 DEF RejectClaim, TypeOK, Final
<1>5. CASE ReleaseClaim(o) \/ ClearApproval(o)
  BY <1>5 DEF ReleaseClaim, ClearApproval, TypeOK
<1>6. CASE UNCHANGED journal
  BY <1>6 DEF journal, TypeOK
<1> QED BY <1>3, <1>4, <1>5, <1>6

\* A fault is counted within its bound.
LEMMA FaultCount == TypeOK /\ Fault => faults' \in 0..MaxFaults
BY DEF TypeOK, Fault

\* A lock that is let go of keeps its type.
LEMMA UnlockType ==
    ASSUME TypeOK, NEW p, Unlock(p) PROVE lock' \in Process \cup {NoProcess}
BY DEF TypeOK, Unlock

\* The journal starts well typed.
LEMMA TypeInit == Init => TypeOK
BY DEF Init, TypeOK, ClaimOK, Place, Final

\* hash is in the list where the next lemma needs it. (TypeOK alone does not
\* say so.)
HashKnown ==
    \A p \in Process : pc[p] \in {"send", "wait", "filled", "fetch"}
                         => hash[p] \in DOMAIN txs /\ mine[p] \in Order
WorkKnown ==
    \A p \in Process : pc[p] \in Working => mine[p] \in Order
TypeInv == TypeOK /\ HashKnown /\ WorkKnown

\* Every step keeps the types.
LEMMA TypeNext == TypeInv /\ [Next]_vars => TypeInv'
<1> SUFFICES ASSUME TypeInv, [Next]_vars PROVE TypeInv'
  OBVIOUS
<1> USE DEF TypeInv
<1>1. ASSUME NEW p \in Process, NEW o \in Order, Claim(p, o) PROVE TypeInv'
  BY <1>1 DEF Claim, TypeOK, ClaimOK, HashKnown, WorkKnown, Goto, Place, Working,
     NoClaim
<1>2. ASSUME NEW p \in Process, Lock(p) PROVE TypeInv'
  BY <1>2 DEF Lock, TypeOK, ClaimOK, HashKnown, WorkKnown, Goto, Place, Working,
     journal
<1>3. ASSUME NEW p \in Process, SkipApproval(p) PROVE TypeInv'
  BY <1>3 DEF SkipApproval, TypeOK, ClaimOK, HashKnown, WorkKnown, Goto, Place, Working,
     journal
<1>4. ASSUME NEW p \in Process, NEW phase \in {"approval", "swap"},
             Record(p, phase) PROVE TypeInv'
  <2>1. mine[p] \in Order
    BY <1>4 DEF Record, WorkKnown, Working
  <2>2. CASE Holds(mine[p])
    <3> DEFINE tx == [order |-> mine[p], phase |-> phase, status |-> "signed"]
    <3>1. tx \in Tx
      BY <2>1 DEF Tx
    <3>a. txs' = Append(txs, tx) /\ txs \in Seq(Tx)
      BY <1>4, <2>2 DEF Record, TypeOK
    <3> HIDE DEF tx
    <3>2. /\ txs' = Append(txs, tx) /\ txs' \in Seq(Tx)
          /\ Len(txs') = Len(txs) + 1 /\ Len(txs) \in Nat
          /\ DOMAIN txs \subseteq DOMAIN txs' /\ Len(txs) + 1 \in DOMAIN txs'
      BY <3>1, <3>a
    <3>3. pending' = [pending EXCEPT !.tx = Len(txs) + 1, !.phase = phase]
      BY <1>4, <2>2 DEF Record, WithAttempt
    <3>4. pending \in [order : Order, tx : Nat, phase : {"none", "approval", "swap"}]
      BY <2>1, <2>2 DEF Holds, TypeOK, ClaimOK, NoClaim
    <3>b. PICK n \in Nat : n = Len(txs) + 1 /\ n # 0
      BY <3>2
    <3>c. /\ pending'.order \in Order /\ pending'.tx = n /\ pending'.phase = phase
          /\ pending' \in [order : Order, tx : Nat,
                           phase : {"none", "approval", "swap"}]
      <4>1. pending' = [pending EXCEPT !.tx = n, !.phase = phase]
        BY <3>3, <3>b
      <4> QED BY <3>4, <4>1
    <3>d. n \in 0..Len(txs')
      BY <3>2, <3>b
    <3>5. ClaimOK'
      BY <1>4, <3>b, <3>c, <3>d DEF ClaimOK
    <3>6. /\ hash' = [hash EXCEPT ![p] = Len(txs) + 1]
          /\ pc' = [pc EXCEPT ![p] = "send"]
          /\ UNCHANGED <<lock, positions, trades, staged, mine, attempted,
                         reverted, used, faults>>
      BY <1>4, <2>2 DEF Record, Goto
    <3>7. TypeOK'
      BY <3>2, <3>5, <3>6 DEF TypeOK, Place
    <3>8. HashKnown' /\ WorkKnown'
      BY <2>1, <3>2, <3>6 DEF HashKnown, WorkKnown, Working, TypeOK
    <3> QED BY <3>7, <3>8
  <2>3. CASE ~Holds(mine[p])
    <3>1. /\ lock' \in {lock, NoProcess}
          /\ pc' = [pc EXCEPT ![p] = "failed"]
          /\ UNCHANGED <<pending, txs, hash, positions, trades, staged, mine,
                         attempted, reverted, used, faults>>
      BY <1>4, <2>3 DEF Record, Goto, Unlock
    <3>2. TypeOK'
      BY <3>1 DEF TypeOK, ClaimOK, Place
    <3>3. \A q \in Process : pc'[q] = pc[q] \/ (q = p /\ pc'[q] = "failed")
      BY <3>1 DEF TypeOK
    <3>4. HashKnown'
      BY <3>1, <3>3 DEF HashKnown
    <3>5. WorkKnown'
      BY <2>1, <3>1, <3>3 DEF WorkKnown, Working
    <3> QED BY <3>2, <3>4, <3>5
  <2> QED BY <2>2, <2>3
<1>5. ASSUME NEW p \in Process,
             Send(p) \/ (\E taken \in BOOLEAN : SendFails(p, taken))
      PROVE  TypeInv'
  <2>1. hash[p] \in DOMAIN txs
    BY <1>5 DEF HashKnown, Send, SendFails
  <2>2. SetStatus(hash[p], "sent") \/ UNCHANGED txs
    BY <1>5 DEF Send, SendFails
  <2>3. txs' \in Seq(Tx) /\ Len(txs') = Len(txs) /\ DOMAIN txs' = DOMAIN txs
    BY <2>1, <2>2, SetStatusType DEF TypeOK
  <2>4. UNCHANGED journal
    BY <1>5 DEF Send, SendFails
  <2>5. ClaimOK'
    BY <2>3, <2>4, ClaimKept DEF journal
  <2>6. /\ UNCHANGED <<mine, hash, reverted, used>>
        /\ attempted' = [attempted EXCEPT ![p] = TRUE]
        /\ pc[p] = "send"
        /\ pc' = [pc EXCEPT ![p] = "wait"] \/ pc' = [pc EXCEPT ![p] = "failed"]
        /\ faults' = faults \/ Fault
        /\ lock' = lock \/ Unlock(p)
    BY <1>5 DEF Send, SendFails, Goto
  <2>7. faults' \in 0..MaxFaults /\ lock' \in Process \cup {NoProcess}
    BY <2>6, FaultCount, UnlockType DEF TypeOK
  <2>8. TypeOK'
    BY <2>3, <2>4, <2>5, <2>6, <2>7 DEF TypeOK, Place, journal
  <2>9. HashKnown' /\ WorkKnown'
    BY <2>3, <2>6 DEF HashKnown, WorkKnown, Working, TypeOK
  <2> QED BY <2>8, <2>9
<1>6. ASSUME NEW p \in Process, Receipt(p) PROVE TypeInv'
  <2>1. /\ pc[p] = "wait"
        /\ UNCHANGED <<journal, txs, mine, hash, attempted, used, faults>>
        /\ \E place \in {"failed", "swap", "filled"} :
             pc' = [pc EXCEPT ![p] = place]
        /\ lock' = lock \/ Unlock(p)
        /\ reverted' = reverted \/ reverted' = [reverted EXCEPT ![p] = TRUE]
    BY <1>6 DEF Receipt, Goto
  <2>2. lock' \in Process \cup {NoProcess}
    BY <2>1, UnlockType DEF TypeOK
  <2>3. reverted' \in [Process -> BOOLEAN]
    BY <2>1 DEF TypeOK
  <2>3a. ClaimOK'
    BY <2>1, ClaimKept DEF journal
  <2>3b. pc' \in [Process -> Place]
    BY <2>1 DEF TypeOK, Place
  <2>3c. UNCHANGED <<journal, txs, mine, hash, attempted, used, faults>>
    BY <2>1
  <2>4. TypeOK'
    BY <2>2, <2>3, <2>3a, <2>3b, <2>3c DEF TypeOK, journal
  <2>5. HashKnown' /\ WorkKnown'
    BY <2>1 DEF HashKnown, WorkKnown, Working, TypeOK
  <2> QED BY <2>4, <2>5
<1>7. ASSUME NEW p \in Process, Raise(p) \/ Crash(p) \/ SettleFails(p)
      PROVE  TypeInv'
  <2>1. /\ UNCHANGED <<journal, txs, mine, hash, attempted, reverted, used>>
        /\ Fault
        /\ \/ pc' = [pc EXCEPT ![p] = "idle"]
           \/ pc[p] \in Working /\ pc' = [pc EXCEPT ![p] = "failed"]
        /\ lock' = lock \/ Unlock(p)
    <3>1. CASE Raise(p)
      BY <3>1 DEF Raise, Goto, Working
    <3>2. CASE Crash(p)
      BY <3>2 DEF Crash, Goto
    <3>3. CASE SettleFails(p)
      BY <3>3 DEF SettleFails, Goto
    <3> QED BY <1>7, <3>1, <3>2, <3>3
  <2>2. faults' \in 0..MaxFaults /\ lock' \in Process \cup {NoProcess}
    BY <2>1, FaultCount, UnlockType DEF TypeOK
  <2>3. TypeOK'
    BY <2>1, <2>2 DEF TypeOK, ClaimOK, Place, journal
  <2>4. HashKnown' /\ WorkKnown'
    BY <2>1 DEF HashKnown, WorkKnown, Working, TypeOK
  <2> QED BY <2>3, <2>4
<1>8. ASSUME NEW p \in Process, Cleanup(p) \/ Confirm(p) \/ Settle(p)
      PROVE  TypeInv'
  <2>1. mine[p] \in Order /\ hash[p] \in Nat
    BY <1>8 DEF Cleanup, Confirm, Settle, HashKnown, WorkKnown, Working, TypeOK
  <2>2. \/ ConfirmClaim(mine[p], hash[p]) \/ RejectClaim(mine[p])
        \/ ReleaseClaim(mine[p]) \/ ClearApproval(mine[p]) \/ UNCHANGED journal
    BY <1>8 DEF Cleanup, Confirm, Settle, ActOnReceipt
  <2>3. /\ pending' \in {pending, NoClaim}
        /\ trades' \subseteq [order : Order, tx : Nat, outcome : Final]
        /\ staged' \subseteq Nat
    BY <2>1, <2>2, EndsWellTyped
  <2>4. /\ UNCHANGED <<txs, lock, mine, hash, attempted, reverted, used, faults>>
        /\ pc' = [pc EXCEPT ![p] = "idle"]
    BY <1>8 DEF Cleanup, Confirm, Settle, Goto
  <2>5. ClaimOK'
    BY <2>3, <2>4, ClaimKept
  <2> QED BY <2>3, <2>4, <2>5 DEF TypeOK, HashKnown, WorkKnown, Place, Working
<1>9. ASSUME NEW p \in Process, ReadPending(p) PROVE TypeInv'
  <2>1. pending # NoClaim /\ pending.tx \in DOMAIN txs /\ pending.order \in Order
    BY <1>9 DEF ReadPending, TypeOK, ClaimOK, NoClaim
  <2> QED BY <1>9, <2>1 DEF ReadPending, TypeOK, ClaimOK, HashKnown, WorkKnown,
             Goto, Place, Working, journal
<1>10. ASSUME NEW p \in Process, NotFound(p) PROVE TypeInv'
  BY <1>10 DEF NotFound, TypeOK, ClaimOK, HashKnown, WorkKnown, Goto, Place, Working,
     journal
<1>11. ASSUME NEW n \in DOMAIN txs, NEW status \in Final, Mine(n, status)
       PROVE  TypeInv'
  <2>1. txs' \in Seq(Tx) /\ Len(txs') = Len(txs) /\ DOMAIN txs' = DOMAIN txs
    BY <1>11, SetStatusType DEF Mine, TypeOK, Final
  <2>2. UNCHANGED <<journal, lock, local, used, faults>>
    BY <1>11 DEF Mine
  <2>3. ClaimOK'
    BY <2>1, <2>2, ClaimKept DEF journal
  <2> QED BY <2>1, <2>2, <2>3 DEF TypeOK, HashKnown, WorkKnown, journal, local
<1>12. CASE UNCHANGED vars
  BY <1>12 DEF vars, TypeOK, ClaimOK, HashKnown, WorkKnown
<1> QED
  BY <1>1, <1>2, <1>3, <1>4, <1>5, <1>6, <1>7, <1>8, <1>9, <1>10, <1>11, <1>12
     DEF Next, Execute

\* The journal, the chain and the processes are always well typed.
THEOREM TypeCorrect == Spec => []TypeOK
<1>1. Init => TypeInv
  BY TypeInit DEF Init, TypeInv, HashKnown, WorkKnown, Working
<1>2. TypeInv => TypeOK
  BY DEF TypeInv
<1> QED BY <1>1, <1>2, TypeNext, PTL DEF Spec

-----------------------------------------------------------------------------
(***************************************************************************)
(* What the claim protects rests on this: while a process works on an order,*)
(* nobody else claims an equal one. Either no two claims share a            *)
(* fingerprint, or one process has the journal to itself.                   *)
(***************************************************************************)
OrdersApart == ~ReusesOrders \/ \A p, q \in Process : p = q

JournalInv ==
    /\ TypeInv
    /\ ClaimNamesItsOwn /\ OwnOrders
    /\ \A p \in Process : HashIsOwn(p) /\ ClaimFollows(p)
    /\ NoForgottenBroadcast /\ OutcomesAreTrue

\* A transaction is recorded by the outcomes that name it.
LEMMA RecordedKept ==
    ASSUME trades \subseteq trades', NEW n, Recorded(n) PROVE Recorded(n)'
BY DEF Recorded

\* The parts of the state the proofs below read at one process.
LEMMA StateTypes ==
    ASSUME TypeInv
    PROVE  /\ pc \in [Process -> Place] /\ mine \in [Process -> Order \cup {NoOrder}]
           /\ hash \in [Process -> Nat] /\ attempted \in [Process -> BOOLEAN]
           /\ reverted \in [Process -> BOOLEAN] /\ txs \in Seq(Tx)
           /\ \A n \in DOMAIN txs : n \in Nat /\ n # 0
           /\ pending.tx # 0 => pending.tx \in DOMAIN txs
           /\ pending.tx = 0 <=> pending.phase = "none"
           /\ used \subseteq Order /\ NoOrder \notin used
  BY DEF TypeInv, TypeOK, ClaimOK, NoClaim

\* Who is about to send, or executes the claimed order, has it to itself.
LEMMA HoldsAlone ==
    ASSUME JournalInv, NEW p \in Process, NEW q \in Process, p # q,
           pc[p] \in Working, Holds(mine[p])
    PROVE  /\ pc[q] # "send"
           /\ pc[q] # "idle" /\ Holds(mine[q]) => pc[q] = "fetch"
<1>1. pc[q] \in Place /\ (pc[q] \in Place \ {"idle", "fetch"} => pc[q] \in Working)
  BY StateTypes DEF JournalInv, Place, Working
<1>2. pc[q] # "send"
  <2> SUFFICES ASSUME pc[q] = "send" PROVE FALSE
    OBVIOUS
  <2>1. /\ pending.tx = hash[q] /\ hash[q] \in DOMAIN txs /\ txs[hash[q]].order = mine[q]
        /\ hash[q] # 0
    BY StateTypes DEF JournalInv, HashIsOwn, ClaimFollows
  <2>2. mine[q] = mine[p]
    BY <2>1 DEF JournalInv, ClaimNamesItsOwn, Holds
  <2> QED
    BY <2>2 DEF JournalInv, OwnOrders, Working
<1> QED
  BY <1>1, <1>2 DEF JournalInv, OwnOrders, Holds

\* A process moves to another place; journal and chain stay.
LEMMA QuietKept ==
    ASSUME JournalInv, TypeInv', NEW p \in Process, NEW place \in Place,
           UNCHANGED <<journal, txs, mine, hash, attempted, used>>,
           pc' = [pc EXCEPT ![p] = place],
           place # "idle" => pc[p] # "idle",
           place \in Working => pc[p] \in Working,
           \A q \in Process : q # p => reverted'[q] = reverted[q],
           HashIsOwn(p)', ClaimFollows(p)'
    PROVE  JournalInv'
<1> USE DEF JournalInv
<1>1. ClaimNamesItsOwn'
  BY DEF ClaimNamesItsOwn, journal
<1>2. OwnOrders'
  BY StateTypes DEF OwnOrders
<1>3. ASSUME NEW q \in Process, q # p
      PROVE  HashIsOwn(q)' /\ ClaimFollows(q)'
  <2>1. pc'[q] = pc[q] /\ reverted'[q] = reverted[q] /\ pending' = pending
    BY <1>3, StateTypes DEF journal
  <2>2. HashIsOwn(q)'
    BY <2>1 DEF HashIsOwn
  <2>3. ClaimFollows(q)'
    BY <2>1 DEF ClaimFollows, Holds, ApprovalDone, Unsent
  <2> QED
    BY <2>2, <2>3
<1>4. NoForgottenBroadcast' /\ OutcomesAreTrue'
  BY DEF NoForgottenBroadcast, OutcomesAreTrue, Swaps, Recorded, journal
<1> QED
  BY <1>1, <1>2, <1>3, <1>4

\* A step that may change the status of one transaction, which was not final.
LEMMA StatusKept ==
    ASSUME JournalInv, TypeInv', NEW n \in DOMAIN txs, txs[n].status \notin Final,
           \/ UNCHANGED txs
           \/ \E status \in {"sent", "confirmed", "reverted"} : SetStatus(n, status),
           UNCHANGED <<journal, mine, hash, reverted, used>>,
           NEW Moved, \A q \in Process \ Moved : UNCHANGED <<pc[q], attempted[q]>>,
           OwnOrders', \A q \in Process \cap Moved : HashIsOwn(q)' /\ ClaimFollows(q)',
           \A q \in Process \ Moved :
             /\ pc[q] = "send" => hash[q] # n
             /\ pc[q] \in Working /\ ~attempted[q] /\ Holds(mine[q]) => pending.tx # n,
           txs[n].phase = "swap" => pending.tx = n \/ Recorded(n)
    PROVE  JournalInv'
<1> USE DEF JournalInv
<1>1. /\ DOMAIN txs' = DOMAIN txs
      /\ \A m \in DOMAIN txs : txs'[m].order = txs[m].order
                              /\ txs'[m].phase = txs[m].phase
                              /\ (m # n => txs'[m].status = txs[m].status)
  <2>1. CASE UNCHANGED txs
    BY <2>1
  <2>2. CASE \E status \in {"sent", "confirmed", "reverted"} : SetStatus(n, status)
    BY <2>2, StateTypes, SetStatusType
  <2> QED BY <2>1, <2>2
<1>2. \A m \in DOMAIN txs : ApprovalDone(m) => ApprovalDone(m)'
  <2> TAKE m \in DOMAIN txs
  <2>1. ApprovalDone(m) => m # n
    BY DEF ApprovalDone, Final
  <2> QED BY <1>1, <2>1 DEF ApprovalDone
<1>3. ClaimNamesItsOwn'
  BY <1>1, StateTypes DEF ClaimNamesItsOwn, journal
<1>4. ASSUME NEW q \in Process, q \notin Moved PROVE HashIsOwn(q)' /\ ClaimFollows(q)'
  <2>1. pc'[q] = pc[q] /\ attempted'[q] = attempted[q] /\ pending' = pending
        /\ reverted'[q] = reverted[q] /\ mine'[q] = mine[q] /\ hash'[q] = hash[q]
    BY <1>4 DEF journal
  <2>2. \A m \in DOMAIN txs : txs[m].status \in Final => txs'[m].status = txs[m].status
    BY <1>1
  <2>3. HashIsOwn(q)'
    <3>1. HashIsOwn(q) /\ (pc[q] = "send" => hash[q] # n)
      BY <1>4
    <3> QED
      BY <1>1, <2>1, <2>2, <3>1 DEF HashIsOwn, Final, Working
  <2>4. ClaimFollows(q)'
    <3>1. /\ ClaimFollows(q) /\ HashIsOwn(q)
          /\ pc[q] \in Working /\ ~attempted[q] /\ Holds(mine[q]) => pending.tx # n
      BY <1>4
    <3>2. pending.tx # n /\ Unsent(pending.tx) => Unsent(pending.tx)'
      BY <1>1, StateTypes, <2>1 DEF Unsent
    <3>3. ApprovalDone(pending.tx) /\ pending.tx # 0 => ApprovalDone(pending.tx)'
      BY <1>2, StateTypes, <2>1
    <3>4. pc[q] = "fetch" /\ ApprovalDone(hash[q]) => ApprovalDone(hash[q])'
      BY <1>2, <2>1, <3>1 DEF HashIsOwn
    <3> QED
      BY <2>1, <3>1, <3>2, <3>3, <3>4 DEF ClaimFollows, Holds
  <2> QED
    BY <2>3, <2>4
<1>5. NoForgottenBroadcast'
  BY <1>1 DEF NoForgottenBroadcast, Swaps, Recorded, journal
<1>6. OutcomesAreTrue'
  <2>1. \A r \in trades : r.outcome \in Final
    BY DEF TypeInv, TypeOK
  <2> QED BY <1>1, <2>1 DEF OutcomesAreTrue, journal
<1> QED BY <1>3, <1>4, <1>5, <1>6


\* A step of a process that ends its work leaves the claim or gives it up.
LEMMA ClaimEnded ==
    ASSUME JournalInv, TypeInv', NEW p \in Process, pc' = [pc EXCEPT ![p] = "idle"],
           UNCHANGED <<txs, mine, hash, attempted, reverted, used>>,
           pending' \in {pending, NoClaim}, trades \subseteq trades',
           \A n \in Swaps : txs[n].status # "signed" /\ pending.tx = n
                           => pending' = pending \/ Recorded(n)',
           \A q \in Process : q # p /\ pc[q] = "send" => pending' = pending,
           \A r \in trades' \ trades : r.tx \in DOMAIN txs /\ txs[r.tx].status = r.outcome
    PROVE  JournalInv'
<1> USE DEF JournalInv
<1>1. ClaimNamesItsOwn'
  BY DEF ClaimNamesItsOwn, NoClaim
<1>2. OwnOrders'
  BY StateTypes DEF OwnOrders, Working
<1>3. HashIsOwn(p)' /\ ClaimFollows(p)'
  BY StateTypes DEF HashIsOwn, ClaimFollows, Working
<1>4. ASSUME NEW q \in Process, q # p PROVE HashIsOwn(q)' /\ ClaimFollows(q)'
  <2>1. pc'[q] = pc[q]
    BY <1>4, StateTypes
  <2>2. HashIsOwn(q)'
    BY <2>1 DEF HashIsOwn
  <2>3. CASE pending' = pending
    BY <2>1, <2>2, <2>3 DEF ClaimFollows, Holds, ApprovalDone, Unsent
  <2>4. CASE pending' = NoClaim /\ pc[q] # "send"
    <3>1. pc[q] # "idle" => mine[q] # NoOrder
      BY StateTypes DEF OwnOrders
    <3> QED BY <2>1, <2>2, <2>4, <3>1 DEF ClaimFollows, Holds, NoClaim
  <2> QED BY <1>4, <2>3, <2>4
<1>5. NoForgottenBroadcast'
  BY RecordedKept DEF NoForgottenBroadcast, Swaps
<1>6. OutcomesAreTrue'
  BY DEF OutcomesAreTrue
<1> QED BY <1>1, <1>2, <1>3, <1>4, <1>5, <1>6

\* No claim and no transaction at the start.
LEMMA JournalInit == Init => JournalInv
BY TypeInit DEF Init, JournalInv, TypeInv, HashKnown, WorkKnown, ClaimNamesItsOwn,
   OwnOrders, HashIsOwn, ClaimFollows, NoForgottenBroadcast,
   OutcomesAreTrue, NoClaim, Working, Swaps, Recorded

\* An order takes the claim.
LEMMA ClaimStep ==
    ASSUME OrdersApart, JournalInv, TypeInv', NEW p \in Process, NEW o \in Order,
           Claim(p, o)
    PROVE  JournalInv'
<1> USE DEF JournalInv
<1>1. /\ ReusesOrders \/ o \notin used
      /\ used' = used \cup {o}
      /\ pending = NoClaim /\ pending' = [order |-> o, tx |-> 0, phase |-> "none"]
      /\ pc' = [pc EXCEPT ![p] = "begin"] /\ mine' = [mine EXCEPT ![p] = o]
      /\ hash' = [hash EXCEPT ![p] = 0]
      /\ attempted' = [attempted EXCEPT ![p] = FALSE]
      /\ reverted' = [reverted EXCEPT ![p] = FALSE]
      /\ UNCHANGED <<positions, trades, staged, txs, lock, faults>>
  BY DEF Claim, Goto
<1>2. ASSUME NEW q \in Process, q # p, pc[q] # "idle" PROVE mine[q] # o
  BY <1>1, <1>2 DEF OrdersApart, OwnOrders
<1>3. ClaimNamesItsOwn'
  BY <1>1 DEF ClaimNamesItsOwn
<1>4. OwnOrders'
  BY <1>1, <1>2, StateTypes DEF OwnOrders, Working
<1>5. HashIsOwn(p)' /\ ClaimFollows(p)'
  BY <1>1, StateTypes DEF HashIsOwn, ClaimFollows, Unsent
<1>6. ASSUME NEW q \in Process, q # p PROVE HashIsOwn(q)' /\ ClaimFollows(q)'
  <2>1. /\ pc'[q] = pc[q] /\ mine'[q] = mine[q] /\ hash'[q] = hash[q]
        /\ attempted'[q] = attempted[q] /\ reverted'[q] = reverted[q]
    BY <1>1, <1>6, StateTypes
  <2>2. HashIsOwn(q)'
    BY <1>1, <2>1 DEF HashIsOwn
  <2>3. pc[q] # "send"
    BY <1>1, StateTypes DEF ClaimFollows, HashIsOwn, NoClaim
  <2> QED BY <1>1, <1>2, <1>6, <2>1, <2>2, <2>3 DEF ClaimFollows, Holds
<1>7. NoForgottenBroadcast'
  BY <1>1, StateTypes DEF NoForgottenBroadcast, Swaps, Recorded, NoClaim
<1>8. OutcomesAreTrue'
  BY <1>1 DEF OutcomesAreTrue
<1> QED BY <1>3, <1>4, <1>5, <1>6, <1>7, <1>8

\* A process records the hash of the transaction it has signed.
LEMMA RecordStep ==
    ASSUME JournalInv, TypeInv', NEW p \in Process, NEW phase \in {"approval", "swap"},
           Record(p, phase), Holds(mine[p])
    PROVE  JournalInv'
<1> USE DEF JournalInv
<1> DEFINE N == Len(txs) + 1
<1>a. /\ \/ pc[p] = "approve" /\ phase = "approval"
         \/ pc[p] = "swap" /\ phase = "swap"
      /\ pending.order = mine[p]
      /\ pending' = [pending EXCEPT !.tx = N, !.phase = phase]
      /\ txs' = Append(txs, [order |-> mine[p], phase |-> phase,
                             status |-> "signed"])
      /\ hash' = [hash EXCEPT ![p] = N]
      /\ pc' = [pc EXCEPT ![p] = "send"]
      /\ UNCHANGED <<lock, positions, trades, staged, mine, attempted, reverted,
                     used, faults>>
  BY DEF Record, Goto, Holds, WithAttempt
<1>b. /\ DOMAIN txs' = DOMAIN txs \cup {N} /\ N \notin DOMAIN txs
      /\ N \in Nat /\ N # 0
      /\ \A m \in DOMAIN txs : txs'[m] = txs[m]
      /\ txs'[N] = [order |-> mine[p], phase |-> phase, status |-> "signed"]
  BY <1>a, StateTypes
<1>c. mine[p] \in Order /\ mine[p] \in used /\ pc[p] \in Working
  BY <1>a, StateTypes DEF OwnOrders, Working
<1>d. /\ pending'.order = mine[p] /\ pending'.tx = N /\ pending'.phase = phase
  <2>1. pending \in [order : Order, tx : Nat, phase : {"none", "approval", "swap"}]
    BY <1>a, <1>c DEF TypeInv, TypeOK, ClaimOK, NoClaim
  <2> QED BY <1>a, <1>b, <2>1
<1> HIDE DEF N
\* What the claim named before is an approval that the swap follows.
<1>1. \/ pending.tx = 0 /\ pending.phase = "none"
      \/ /\ pending.tx \in DOMAIN txs /\ ApprovalDone(pending.tx)
         /\ pending.phase = "approval" /\ phase = "swap"
  BY <1>a, StateTypes DEF ClaimFollows, ClaimNamesItsOwn, ApprovalDone
<1>2. \A n \in DOMAIN txs : ApprovalDone(n) => ApprovalDone(n)'
  BY <1>b DEF ApprovalDone
<1>3. ClaimNamesItsOwn'
  BY <1>a, <1>b, <1>c, <1>d DEF ClaimNamesItsOwn
<1>4. OwnOrders'
  BY <1>a, <1>c, StateTypes DEF OwnOrders, Working
<1>5. HashIsOwn(p)' /\ ClaimFollows(p)'
  <2>1. pc'[p] = "send" /\ hash'[p] = N /\ mine'[p] = mine[p] /\ ~reverted'[p]
    BY <1>a, <1>c, StateTypes DEF HashIsOwn
  <2>2. HashIsOwn(p)'
    BY <1>b, <2>1 DEF HashIsOwn
  <2> QED BY <1>b, <1>d, <2>1, <2>2 DEF ClaimFollows, Unsent
<1>6. ASSUME NEW q \in Process, q # p PROVE HashIsOwn(q)' /\ ClaimFollows(q)'
  <2>1. /\ pc'[q] = pc[q] /\ mine'[q] = mine[q] /\ hash'[q] = hash[q]
        /\ attempted'[q] = attempted[q] /\ reverted'[q] = reverted[q]
    BY <1>a, <1>6, StateTypes
  <2>2. HashIsOwn(q)'
    BY <1>b, <2>1 DEF HashIsOwn, Working
  <2>3. pc[q] # "send" /\ (pc[q] # "idle" /\ Holds(mine[q]) => pc[q] = "fetch")
    BY <1>6, <1>c, HoldsAlone
  <2>4. ASSUME pc[q] = "fetch", Holds(mine[q])
        PROVE  ApprovalDone(hash[q])' /\ pending'.phase = "swap"
    <3>1. hash[q] \in DOMAIN txs /\ hash[q] # 0
      BY <2>4, StateTypes DEF HashIsOwn
    <3>2. pending.tx = hash[q] \/ (ApprovalDone(hash[q]) /\ pending.phase = "swap")
      BY <1>6, <2>4 DEF ClaimFollows
    <3>3. ApprovalDone(hash[q]) /\ phase = "swap"
      BY <1>1, <3>1, <3>2
    <3> QED BY <1>2, <1>d, <2>1, <3>1, <3>3 DEF ApprovalDone
  <2> QED BY <1>a, <1>d, <2>1, <2>2, <2>3, <2>4 DEF ClaimFollows, Holds, Working
<1>7. NoForgottenBroadcast'
  <2>1. ASSUME NEW n \in Swaps', n # N, txs'[n].status # "signed" PROVE Recorded(n)'
    <3>1. n \in Swaps /\ txs[n].status # "signed" /\ n # 0
      BY <1>b, <2>1, StateTypes DEF Swaps
    <3>2. pending.tx # n
      BY <1>1, <3>1 DEF Swaps, ApprovalDone
    <3> QED BY <1>a, <3>1, <3>2 DEF NoForgottenBroadcast, Recorded
  <2> QED BY <1>d, <2>1 DEF NoForgottenBroadcast
<1>8. OutcomesAreTrue'
  BY <1>a, <1>b DEF OutcomesAreTrue
<1> QED BY <1>3, <1>4, <1>5, <1>6, <1>7, <1>8

\* A transaction is broadcast.
LEMMA SendStep ==
    ASSUME JournalInv, TypeInv', NEW p \in Process,
           Send(p) \/ (\E taken \in BOOLEAN : SendFails(p, taken))
    PROVE  JournalInv'
<1> USE DEF JournalInv
<1>1. /\ pc[p] = "send"
      /\ attempted' = [attempted EXCEPT ![p] = TRUE]
      /\ \E place \in {"wait", "failed"} : pc' = [pc EXCEPT ![p] = place]
      /\ UNCHANGED <<journal, mine, hash, reverted, used>>
      /\ UNCHANGED txs \/ SetStatus(hash[p], "sent")
  BY DEF Send, SendFails, Goto
<1>2. /\ hash[p] \in DOMAIN txs /\ txs[hash[p]].order = mine[p]
      /\ txs[hash[p]].status = "signed" /\ pending.tx = hash[p] /\ ~reverted[p]
      /\ Holds(mine[p]) /\ pc[p] \in Working
  BY <1>1, StateTypes DEF HashIsOwn, ClaimFollows, ClaimNamesItsOwn, Holds, Working
<1>3. /\ DOMAIN txs' = DOMAIN txs
      /\ \A m \in DOMAIN txs : txs'[m].order = txs[m].order
  BY <1>1, <1>2, StateTypes, SetStatusType
<1>4. OwnOrders'
  BY <1>1, StateTypes DEF OwnOrders, Working
<1>5. /\ pc'[p] \in {"wait", "failed"} /\ attempted'[p] /\ ~reverted'[p]
      /\ hash'[p] = hash[p] /\ mine'[p] = mine[p] /\ pending' = pending
  BY <1>1, <1>2, StateTypes DEF journal
<1>6. HashIsOwn(p)' /\ ClaimFollows(p)'
  BY <1>2, <1>3, <1>5 DEF HashIsOwn, ClaimFollows
<1>7. ASSUME NEW q \in Process \ {p}
      PROVE  /\ pc'[q] = pc[q] /\ attempted'[q] = attempted[q]
             /\ pc[q] # "send"
             /\ ~(pc[q] \in Working /\ Holds(mine[q]))
  <2>1. pc[q] # "send" /\ (pc[q] # "idle" /\ Holds(mine[q]) => pc[q] = "fetch")
    BY <1>2, HoldsAlone
  <2> QED BY <1>1, <2>1, StateTypes DEF Working
<1>8. PICK n \in DOMAIN txs : n = hash[p]
  BY <1>2
<1>9. txs[n].status \notin Final /\ pending.tx = n
  BY <1>2, <1>8 DEF Final
<1>10. UNCHANGED txs \/ \E status \in {"sent", "confirmed", "reverted"} :
                          SetStatus(n, status)
  BY <1>1, <1>8
<1>11. /\ \A q \in Process \ {p} : UNCHANGED <<pc[q], attempted[q]>>
       /\ \A q \in Process \cap {p} : HashIsOwn(q)' /\ ClaimFollows(q)'
       /\ \A q \in Process \ {p} :
            /\ pc[q] = "send" => hash[q] # n
            /\ pc[q] \in Working /\ ~attempted[q] /\ Holds(mine[q]) => pending.tx # n
  BY <1>6, <1>7
<1> HIDE DEF JournalInv
<1> QED BY <1>1, <1>4, <1>8, <1>9, <1>10, <1>11, StatusKept

\* The chain decides a transaction that was sent.
LEMMA MineStep ==
    ASSUME JournalInv, TypeInv', NEW n \in DOMAIN txs, NEW status \in Final,
           Mine(n, status)
    PROVE  JournalInv'
<1>1. /\ txs[n].status = "sent" /\ SetStatus(n, status)
      /\ UNCHANGED <<journal, lock, local, used, faults>>
  BY DEF Mine
<1>2. OwnOrders'
  BY <1>1 DEF JournalInv, OwnOrders, local
<1>3. txs[n].phase = "swap" => pending.tx = n \/ Recorded(n)
  BY <1>1 DEF JournalInv, NoForgottenBroadcast, Swaps
<1>4. /\ txs[n].status \notin Final
      /\ \E s \in {"sent", "confirmed", "reverted"} : SetStatus(n, s)
  BY <1>1 DEF Final
<1>5. ASSUME NEW q \in Process
      PROVE  /\ pc'[q] = pc[q] /\ attempted'[q] = attempted[q]
             /\ pc[q] = "send" => hash[q] # n
             /\ pc[q] \in Working /\ ~attempted[q] /\ Holds(mine[q]) => pending.tx # n
  <2>1. HashIsOwn(q) /\ ClaimFollows(q) /\ n # 0
    BY StateTypes DEF JournalInv
  <2> QED BY <1>1, <2>1 DEF HashIsOwn, ClaimFollows, Unsent, Working, local
<1>6. /\ \A q \in Process \ {} : UNCHANGED <<pc[q], attempted[q]>>
      /\ \A q \in Process \cap {} : HashIsOwn(q)' /\ ClaimFollows(q)'
      /\ \A q \in Process \ {} :
           /\ pc[q] = "send" => hash[q] # n
           /\ pc[q] \in Working /\ ~attempted[q] /\ Holds(mine[q]) => pending.tx # n
  BY <1>5
<1>7. UNCHANGED <<journal, mine, hash, reverted, used>>
  BY <1>1 DEF local
<1> QED BY <1>2, <1>3, <1>4, <1>6, <1>7, StatusKept

\* Lock, SkipApproval, failures, crashes and reads without an answer.
LEMMA QuietStep ==
    ASSUME JournalInv, TypeInv', NEW p \in Process,
           UNCHANGED <<journal, txs, mine, hash, attempted, reverted, used>>,
           \/ pc[p] = "begin" /\ pc' = [pc EXCEPT ![p] = "approve"]
           \/ pc[p] = "approve" /\ pc' = [pc EXCEPT ![p] = "swap"]
           \/ pc[p] \in Working /\ pc' = [pc EXCEPT ![p] = "failed"]
           \/ pc' = [pc EXCEPT ![p] = "idle"]
    PROVE  JournalInv'
<1>1. PICK place \in {"approve", "swap", "failed", "idle"} :
        /\ pc' = [pc EXCEPT ![p] = place]
        /\ place = "approve" => pc[p] = "begin"
        /\ place = "swap" => pc[p] = "approve"
        /\ place = "failed" => pc[p] \in Working
  BY DEF Working
<1>2. /\ place \in Place /\ (place # "idle" => pc[p] # "idle")
      /\ place \in Working => pc[p] \in Working
  BY <1>1 DEF Place, Working
<1>3. /\ HashIsOwn(p) /\ ClaimFollows(p) /\ pc'[p] = place
      /\ pending' = pending
  BY <1>1, StateTypes DEF JournalInv, journal
<1>4. HashIsOwn(p)'
  BY <1>1, <1>3 DEF HashIsOwn, Working
<1>5. ClaimFollows(p)'
  BY <1>1, <1>3 DEF HashIsOwn, ClaimFollows, Holds, ApprovalDone, Unsent, Working
<1> QED BY <1>1, <1>2, <1>4, <1>5, QuietKept

\* A process learns what became of its transaction.
LEMMA ReceiptStep ==
    ASSUME JournalInv, TypeInv', NEW p \in Process, Receipt(p) PROVE JournalInv'
<1>1. /\ pc[p] = "wait" /\ txs[hash[p]].status \in Final
      /\ hash[p] \in DOMAIN txs /\ txs[hash[p]].order = mine[p]
      /\ UNCHANGED <<journal, txs, mine, hash, attempted, used>>
      /\ HashIsOwn(p) /\ ClaimFollows(p)
  BY DEF Receipt, HashIsOwn, JournalInv
<1>2. \/ /\ txs[hash[p]].status = "reverted"
         /\ pc' = [pc EXCEPT ![p] = "failed"]
         /\ reverted' = [reverted EXCEPT ![p] = TRUE]
      \/ /\ ApprovalDone(hash[p]) /\ reverted' = reverted
         /\ pc' = [pc EXCEPT ![p] = "swap"]
      \/ /\ txs[hash[p]].status = "confirmed" /\ txs[hash[p]].phase = "swap"
         /\ reverted' = reverted
         /\ pc' = [pc EXCEPT ![p] = "filled"]
  <2>1. txs[hash[p]] \in Tx
    BY <1>1, StateTypes DEF JournalInv
  <2> QED BY <1>1, <2>1 DEF Receipt, Goto, ApprovalDone, Final, Tx
<1>3. PICK place \in {"failed", "swap", "filled"} : pc' = [pc EXCEPT ![p] = place]
  BY <1>2
<1>4. /\ place \in Place /\ place # "idle" /\ pc[p] # "idle" /\ pc[p] \in Working
      /\ \A q \in Process : q # p => reverted'[q] = reverted[q]
  BY <1>1, <1>2, StateTypes DEF Place, Working, JournalInv
<1>5. /\ pc'[p] \in {"failed", "swap", "filled"}
      /\ pc'[p] = "filled" => /\ txs[hash[p]].phase = "swap"
                              /\ txs[hash[p]].status = "confirmed"
      /\ pc'[p] = "swap" => ApprovalDone(hash[p])
      /\ reverted'[p] => pc'[p] = "failed" /\ txs[hash[p]].status = "reverted"
  <2>1. ~reverted[p]
    BY <1>1 DEF HashIsOwn, Working
  <2> QED BY <1>2, <2>1, StateTypes DEF JournalInv
<1>6. HashIsOwn(p)'
  BY <1>1, <1>5 DEF HashIsOwn, Working
<1>7. ClaimFollows(p)'
  <2>1. Holds(mine[p]) => pending.tx = hash[p] /\ (~attempted[p] => Unsent(hash[p]))
    BY <1>1 DEF ClaimFollows, Working
  <2>2. ~Unsent(hash[p])
    BY <1>1, StateTypes DEF Unsent, Final, JournalInv
  <2>3. pending' = pending /\ hash' = hash /\ txs' = txs /\ mine' = mine
        /\ attempted' = attempted
    BY <1>1 DEF journal
  <2> QED BY <1>5, <2>1, <2>2, <2>3 DEF ClaimFollows, Holds, ApprovalDone
<1> QED BY <1>1, <1>3, <1>4, <1>6, <1>7, QuietKept

\* A process looks the claim and its transaction up.
LEMMA ReadStep ==
    ASSUME JournalInv, TypeInv', NEW p \in Process, ReadPending(p) PROVE JournalInv'
<1> USE DEF JournalInv
<1>1. /\ pc[p] = "idle" /\ pending.tx # 0 /\ pc' = [pc EXCEPT ![p] = "fetch"]
      /\ mine' = [mine EXCEPT ![p] = pending.order]
      /\ hash' = [hash EXCEPT ![p] = pending.tx]
      /\ UNCHANGED <<journal, txs, lock, attempted, reverted, used, faults>>
  BY DEF ReadPending, Goto
<1>2. /\ pending.tx \in DOMAIN txs /\ txs[pending.tx].order = pending.order
      /\ pending.order \in used
  BY <1>1, StateTypes DEF NoClaim, ClaimNamesItsOwn
<1>3. ClaimNamesItsOwn'
  BY <1>1 DEF ClaimNamesItsOwn, journal
<1>4. OwnOrders'
  BY <1>1, <1>2, StateTypes DEF OwnOrders, Working
<1>5. HashIsOwn(p)' /\ ClaimFollows(p)'
  <2>1. pc'[p] = "fetch" /\ mine'[p] = pending.order /\ hash'[p] = pending.tx
    BY <1>1, StateTypes
  <2> QED BY <1>1, <1>2, <2>1 DEF HashIsOwn, ClaimFollows, Working, journal
<1>6. ASSUME NEW q \in Process, q # p PROVE HashIsOwn(q)' /\ ClaimFollows(q)'
  <2>1. /\ pc'[q] = pc[q] /\ mine'[q] = mine[q] /\ hash'[q] = hash[q]
        /\ pending' = pending
    BY <1>1, <1>6, StateTypes DEF journal
  <2>2. HashIsOwn(q)'
    BY <1>1, <1>6, <2>1 DEF HashIsOwn
  <2> QED BY <1>1, <1>6, <2>1, <2>2 DEF ClaimFollows, Holds, ApprovalDone, Unsent
<1>7. NoForgottenBroadcast' /\ OutcomesAreTrue'
  BY <1>1 DEF NoForgottenBroadcast, OutcomesAreTrue, Swaps, Recorded, journal
<1> QED BY <1>3, <1>4, <1>5, <1>6, <1>7

(***************************************************************************)
(* How a process ends its work, and what it knows when it does: it gives the*)
(* claim up after its confirmed approval, or before it has sent anything, or*)
(* with the outcome of the transaction it has read.                         *)
(***************************************************************************)
Ends(p) ==
    \/ UNCHANGED journal
    \/ pc[p] = "fetch" /\ ApprovalDone(hash[p]) /\ ClearApproval(mine[p])
    \/ pc[p] = "failed" /\ ~attempted[p] /\ ReleaseClaim(mine[p])
    \/ /\ pc[p] = "fetch" \/ (pc[p] = "failed" /\ reverted[p])
       /\ txs[hash[p]].status = "reverted" /\ RejectClaim(mine[p])
    \/ /\ pc[p] \in {"fetch", "filled"}
       /\ txs[hash[p]].phase = "swap" /\ txs[hash[p]].status = "confirmed"
       /\ ConfirmClaim(mine[p], hash[p])

\* The handlers end a process's work in no other way.
LEMMA EndKnown ==
    ASSUME JournalInv, NEW p \in Process, Cleanup(p) \/ Confirm(p) \/ Settle(p)
    PROVE  /\ Ends(p) /\ pc[p] # "idle"
           /\ pc' = [pc EXCEPT ![p] = "idle"]
           /\ UNCHANGED <<txs, mine, hash, attempted, reverted, used>>
<1>1. HashIsOwn(p)
  BY DEF JournalInv
<1>2. CASE Cleanup(p)
  BY <1>1, <1>2 DEF Cleanup, Ends, Goto, MayRelease, HashIsOwn, Working
<1>3. CASE Confirm(p)
  BY <1>1, <1>3 DEF Confirm, Ends, Goto, HashIsOwn
<1>4. CASE Settle(p)
  <2>1. pc[p] = "fetch" /\ txs[hash[p]].status \in Final /\ hash[p] \in DOMAIN txs
    BY <1>1, <1>4 DEF Settle, HashIsOwn
  <2>2. txs[hash[p]] \in Tx
    BY <2>1, StateTypes DEF JournalInv
  <2>3. Ends(p)
    BY <1>4, <2>1, <2>2 DEF Settle, ActOnReceipt, Ends, ApprovalDone, Final, Tx
  <2> QED BY <1>4, <2>1, <2>3 DEF Settle, Goto
<1> QED BY <1>2, <1>3, <1>4

\* Unless it has read an approval, a process that ends its work with an outcome
\* knows the transaction that the claim names.
LEMMA ClaimIsRead ==
    ASSUME JournalInv, NEW p \in Process, Holds(mine[p]),
           pc[p] \in {"fetch", "filled"} \/ (pc[p] = "failed" /\ reverted[p]),
           ~ApprovalDone(hash[p])
    PROVE  /\ pending.tx = hash[p] /\ hash[p] \in DOMAIN txs
           /\ txs[hash[p]].order = mine[p]
BY DEF JournalInv, HashIsOwn, ClaimFollows, Working

\* The claim is free with the outcome of the transaction it named.
LEMMA OutcomeKept ==
    ASSUME JournalInv, NEW n, pending.tx = n, NEW outcome, Free(outcome),
           n \in DOMAIN txs, txs[n].status = outcome
    PROVE  /\ pending' = NoClaim /\ trades \subseteq trades' /\ Recorded(n)'
           /\ \A r \in trades' \ trades : /\ r.tx \in DOMAIN txs
                                          /\ txs[r.tx].status = r.outcome
<1> DEFINE r == [order |-> pending.order, tx |-> n, outcome |-> outcome]
<1>1. pending' = NoClaim /\ trades' = trades \cup {r}
  BY DEF Free
<1>2. r.tx = n /\ r.outcome = outcome
  OBVIOUS
<1> HIDE DEF r
<1> QED BY <1>1, <1>2 DEF Recorded

\* The end of a process's work keeps the invariant.
LEMMA EndStep ==
    ASSUME JournalInv, TypeInv', NEW p \in Process, Ends(p), pc[p] # "idle",
           pc' = [pc EXCEPT ![p] = "idle"],
           UNCHANGED <<txs, mine, hash, attempted, reverted, used>>
    PROVE  JournalInv'
\* Another process that is about to send has the claim: p works on another order,
\* or it has read an approval that a swap has followed.
<1>1. ASSUME NEW q \in Process, q # p, pc[q] = "send", Holds(mine[p])
      PROVE  /\ pc[p] = "fetch"
             /\ ApprovalDone(hash[p]) => pending.phase = "swap"
             /\ hash[p] \in DOMAIN txs /\ txs[hash[p]].status \in Final
                  => ApprovalDone(hash[p])
  <2>1. /\ pending.tx = hash[q] /\ hash[q] \in DOMAIN txs /\ hash[q] # 0
        /\ txs[hash[q]].order = mine[q] /\ txs[hash[q]].status = "signed"
    BY <1>1, StateTypes DEF ClaimFollows, HashIsOwn, JournalInv
  <2>2. Holds(mine[q]) /\ pc[q] \in Working
    BY <1>1, <2>1 DEF ClaimNamesItsOwn, Holds, JournalInv, Working
  <2>3. pc[p] = "fetch"
    BY <1>1, <2>2, HoldsAlone
  <2>4. pending.tx = hash[p] \/ (ApprovalDone(hash[p]) /\ pending.phase = "swap")
    BY <1>1, <2>3 DEF ClaimFollows, JournalInv
  <2> QED BY <2>1, <2>3, <2>4 DEF ApprovalDone, Final
<1>2. CASE UNCHANGED journal
  BY <1>2, ClaimEnded DEF journal
<1>3. CASE pc[p] = "fetch" /\ ApprovalDone(hash[p]) /\ ClearApproval(mine[p])
  <2>1. /\ pending' \in {pending, NoClaim} /\ UNCHANGED trades
        /\ pending' # pending => Holds(mine[p]) /\ pending.phase = "approval"
    BY <1>3 DEF ClearApproval
  <2>2. \A n \in Swaps : pending.tx = n => pending.phase = "swap"
    BY StateTypes DEF JournalInv, ClaimNamesItsOwn, Swaps
  <2>3. \A q \in Process : q # p /\ pc[q] = "send" => pending' = pending
    BY <1>1, <1>3, <2>1
  <2> QED BY <2>1, <2>2, <2>3, ClaimEnded
<1>4. CASE pc[p] = "failed" /\ ~attempted[p] /\ ReleaseClaim(mine[p])
  <2>1. /\ pending' \in {pending, NoClaim} /\ UNCHANGED trades
        /\ pending' # pending => Holds(mine[p])
    BY <1>4 DEF ReleaseClaim
  <2>2. ASSUME NEW n \in Swaps, pending.tx = n, Holds(mine[p])
        PROVE  txs[n].status = "signed"
    <3>1. n # 0
      BY StateTypes DEF Swaps, JournalInv
    <3> QED BY <1>4, <2>2, <3>1 DEF JournalInv, ClaimFollows, Unsent, Working
  <2>3. \A q \in Process : q # p /\ pc[q] = "send" => pending' = pending
    BY <1>1, <1>4, <2>1
  <2> QED BY <2>1, <2>2, <2>3, ClaimEnded
<1>5. ASSUME NEW outcome \in Final, txs[hash[p]].status = outcome,
             pc[p] \in {"fetch", "filled"} \/ (pc[p] = "failed" /\ reverted[p]),
             ~ApprovalDone(hash[p]),
             Holds(mine[p]) => Free(outcome),
             ~Holds(mine[p]) => UNCHANGED <<pending, trades>>
      PROVE  JournalInv'
  <2>1. CASE ~Holds(mine[p])
    BY <1>5, <2>1, ClaimEnded
  <2>2. CASE Holds(mine[p])
    <3>1. pending.tx = hash[p] /\ hash[p] \in DOMAIN txs
      BY <1>5, <2>2, ClaimIsRead
    <3>2. /\ pending' = NoClaim /\ trades \subseteq trades' /\ Recorded(hash[p])'
          /\ \A r \in trades' \ trades : /\ r.tx \in DOMAIN txs
                                         /\ txs[r.tx].status = r.outcome
      <4>1. PICK n : n = hash[p]
        OBVIOUS
      <4>2. pending' = NoClaim /\ trades \subseteq trades' /\ Recorded(n)'
            /\ \A r \in trades' \ trades : /\ r.tx \in DOMAIN txs
                                           /\ txs[r.tx].status = r.outcome
        BY <1>5, <2>2, <3>1, <4>1, OutcomeKept
      <4> QED BY <4>1, <4>2 DEF Recorded
    <3>3. \A q \in Process : ~(q # p /\ pc[q] = "send")
      BY <1>1, <1>5, <2>2, <3>1
    <3> QED BY <3>1, <3>2, <3>3, ClaimEnded DEF Recorded
  <2> QED BY <2>1, <2>2
<1>6. CASE /\ pc[p] = "fetch" \/ (pc[p] = "failed" /\ reverted[p])
           /\ txs[hash[p]].status = "reverted" /\ RejectClaim(mine[p])
  <2>1. ~ApprovalDone(hash[p]) /\ "reverted" \in Final
    BY <1>6 DEF ApprovalDone, Final
  <2> QED BY <1>5, <1>6, <2>1 DEF RejectClaim
<1>7. CASE /\ pc[p] \in {"fetch", "filled"}
           /\ txs[hash[p]].phase = "swap" /\ txs[hash[p]].status = "confirmed"
           /\ ConfirmClaim(mine[p], hash[p])
  <2>1. ~ApprovalDone(hash[p]) /\ "confirmed" \in Final
    BY <1>7 DEF ApprovalDone, Final
  <2> QED BY <1>5, <1>7, <2>1 DEF ConfirmClaim, journal
<1> QED BY <1>2, <1>3, <1>4, <1>6, <1>7 DEF Ends

\* Every step keeps the invariant, as long as orders stay apart.
LEMMA JournalNext == OrdersApart /\ JournalInv /\ [Next]_vars => JournalInv'
<1> SUFFICES ASSUME OrdersApart, JournalInv, [Next]_vars PROVE JournalInv'
  OBVIOUS
<1>0. TypeInv'
  BY TypeNext DEF JournalInv
<1>1. ASSUME NEW p \in Process, NEW o \in Order, Claim(p, o) PROVE JournalInv'
  BY <1>0, <1>1, ClaimStep
<1>2. ASSUME NEW p \in Process, Lock(p) \/ SkipApproval(p) PROVE JournalInv'
  BY <1>0, <1>2, QuietStep DEF Lock, SkipApproval, Goto
<1>3. ASSUME NEW p \in Process, NEW phase \in {"approval", "swap"}, Record(p, phase)
      PROVE  JournalInv'
  <2>1. CASE Holds(mine[p])
    BY <1>0, <1>3, <2>1, RecordStep
  <2>2. CASE ~Holds(mine[p])
    <3>1. /\ UNCHANGED <<journal, txs, mine, hash, attempted, reverted, used>>
          /\ pc[p] \in Working /\ pc' = [pc EXCEPT ![p] = "failed"]
      BY <1>3, <2>2 DEF Record, Goto, journal, Working
    <3> QED BY <1>0, <1>3, <3>1, QuietStep
  <2> QED BY <2>1, <2>2
<1>4. ASSUME NEW p \in Process,
             Send(p) \/ \E taken \in BOOLEAN : SendFails(p, taken)
      PROVE  JournalInv'
  BY <1>0, <1>4, SendStep
<1>5. ASSUME NEW p \in Process, Receipt(p) PROVE JournalInv'
  BY <1>0, <1>5, ReceiptStep
<1>6. ASSUME NEW p \in Process,
             Raise(p) \/ Crash(p) \/ NotFound(p) \/ SettleFails(p)
      PROVE  JournalInv'
  <2>1. /\ UNCHANGED <<journal, txs, mine, hash, attempted, reverted, used>>
        /\ \/ pc[p] \in Working /\ pc' = [pc EXCEPT ![p] = "failed"]
           \/ pc' = [pc EXCEPT ![p] = "idle"]
    <3>1. CASE Raise(p)
      BY <3>1 DEF Raise, Goto, Working
    <3>2. CASE Crash(p)
      BY <3>2 DEF Crash, Goto
    <3>3. CASE NotFound(p)
      BY <3>3 DEF NotFound, Goto
    <3>4. CASE SettleFails(p)
      BY <3>4 DEF SettleFails, Goto
    <3> QED BY <1>6, <3>1, <3>2, <3>3, <3>4
  <2> QED BY <1>0, <1>6, <2>1, QuietStep
<1>7. ASSUME NEW p \in Process, Cleanup(p) \/ Confirm(p) \/ Settle(p)
      PROVE  JournalInv'
  BY <1>0, <1>7, EndKnown, EndStep
<1>8. ASSUME NEW p \in Process, ReadPending(p) PROVE JournalInv'
  BY <1>0, <1>8, ReadStep
<1>9. ASSUME NEW n \in DOMAIN txs, NEW status \in Final, Mine(n, status)
      PROVE  JournalInv'
  BY <1>0, <1>9, MineStep
<1>10. CASE UNCHANGED vars
  BY <1>0, <1>10 DEF vars, JournalInv, ClaimNamesItsOwn, OwnOrders, HashIsOwn,
     ClaimFollows, Holds, Unsent, ApprovalDone, NoForgottenBroadcast,
     OutcomesAreTrue, Swaps, Recorded
<1> QED
  BY <1>1, <1>2, <1>3, <1>4, <1>5, <1>6, <1>7, <1>8, <1>9, <1>10
     DEF Next, Execute

\* While no two claims share a fingerprint, or one process has the journal to
\* itself, a swap that may be on the chain is named by the claim until its outcome
\* is recorded, whatever crashes, times out or is reconciled by another process.
THEOREM NothingIsForgotten == OrdersApart => (Spec => []NoForgottenBroadcast)
<1> SUFFICES ASSUME OrdersApart PROVE Spec => []NoForgottenBroadcast
  OBVIOUS
<1>1. JournalInv /\ [Next]_vars => JournalInv'
  BY JournalNext
<1>2. JournalInv => NoForgottenBroadcast
  BY DEF JournalInv
<1> QED BY JournalInit, <1>1, <1>2, PTL DEF Spec

\* Under the same condition, the outcome recorded for a transaction is the one on
\* the chain.
THEOREM RecordsAreTrue == OrdersApart => (Spec => []OutcomesAreTrue)
<1> SUFFICES ASSUME OrdersApart PROVE Spec => []OutcomesAreTrue
  OBVIOUS
<1>1. JournalInv /\ [Next]_vars => JournalInv'
  BY JournalNext
<1>2. JournalInv => OutcomesAreTrue
  BY DEF JournalInv
<1> QED BY JournalInit, <1>1, <1>2, PTL DEF Spec

-----------------------------------------------------------------------------
(***************************************************************************)
(* The positions, as long as orders stay apart.                             *)
(***************************************************************************)
\* Outcomes are recorded in the order of the transactions.
RecordedBefore ==
    \A r \in trades : pending.tx # 0 => r.tx < pending.tx

RecordedSwaps(symbol) == {n \in ConfirmedSwaps(symbol) : Recorded(n)}
PositionsMatchRecords ==
    \A o \in Order :
        o.symbol \in positions <=>
            \E n \in RecordedSwaps(o.symbol) :
                /\ txs[n].order.action = "buy"
                /\ \A m \in RecordedSwaps(o.symbol) : m <= n

PositionInv == JournalInv /\ RecordedBefore /\ PositionsMatchRecords

-----------------------------------------------------------------------------
\* Nothing is held and nothing recorded at the start.
LEMMA PositionInit == Init => PositionInv
<1> SUFFICES ASSUME Init PROVE PositionInv
  OBVIOUS
<1>1. JournalInv
  BY JournalInit
<1>2. RecordedBefore
  BY DEF Init, RecordedBefore
<1>3. \A o \in Order : RecordedSwaps(o.symbol) = {}
  BY DEF Init, RecordedSwaps, Recorded
<1>4. PositionsMatchRecords
  BY <1>3 DEF Init, PositionsMatchRecords
<1> QED BY <1>1, <1>2, <1>4 DEF PositionInv

\* A recorded transaction exists and its status is final.
LEMMA RecordedIsFinal ==
    ASSUME JournalInv, NEW n, Recorded(n)
    PROVE  n \in DOMAIN txs /\ n \in Nat /\ txs[n].status \in Final
<1>1. PICK r \in trades : r.tx = n
  BY DEF Recorded
<1>2. r.outcome \in Final /\ n \in DOMAIN txs /\ txs[n].status = r.outcome
  BY <1>1 DEF JournalInv, TypeInv, TypeOK, OutcomesAreTrue
<1>3. txs \in Seq(Tx)
  BY DEF JournalInv, TypeInv, TypeOK
<1> QED BY <1>2, <1>3

\* A step that records nothing and leaves what is recorded as it was.
LEMMA NothingRecorded ==
    ASSUME PositionInv, JournalInv', UNCHANGED <<trades, positions>>,
           \A n \in DOMAIN txs :
             Recorded(n) => n \in DOMAIN txs' /\ txs'[n] = txs[n],
           \/ pending' = pending
           \/ pending'.tx = 0
           \/ \A n \in DOMAIN txs : n < pending'.tx
    PROVE  PositionInv'
<1> USE DEF PositionInv
<1>1. \A n : Recorded(n)' <=> Recorded(n)
  BY DEF Recorded
<1>2. \A n : Recorded(n) => /\ n \in DOMAIN txs /\ n \in DOMAIN txs'
                            /\ txs'[n] = txs[n]
  BY RecordedIsFinal
<1>3. ASSUME NEW o \in Order
      PROVE  RecordedSwaps(o.symbol)' = RecordedSwaps(o.symbol)
  <2>1. \A n : n \in RecordedSwaps(o.symbol)' <=> n \in RecordedSwaps(o.symbol)
    BY <1>1, <1>2 DEF RecordedSwaps, ConfirmedSwaps, Swaps
  <2> QED BY <2>1 DEF RecordedSwaps
<1>4. ASSUME NEW o \in Order, NEW n \in RecordedSwaps(o.symbol) PROVE txs'[n] = txs[n]
  BY <1>2 DEF RecordedSwaps
<1>5. PositionsMatchRecords'
  BY <1>3, <1>4 DEF PositionsMatchRecords
<1>6. RecordedBefore'
  <2>1. \A r \in trades : r.tx \in DOMAIN txs
    BY DEF JournalInv, OutcomesAreTrue
  <2> QED BY <2>1 DEF RecordedBefore
<1> QED BY <1>5, <1>6

\* The claim ends with an outcome of its transaction n, the last one.
LEMMA OutcomeRecorded ==
    ASSUME PositionInv, JournalInv', UNCHANGED txs,
           NEW o \in Order, NEW outcome \in Final,
           pending.order = o, pending.tx \in DOMAIN txs,
           txs[pending.tx].order = o, txs[pending.tx].status = outcome,
           Free(outcome),
           outcome = "confirmed" => txs[pending.tx].phase = "swap",
           positions' = IF outcome = "reverted" \/ o.kind = "manual" THEN positions
                        ELSE IF o.action = "buy" THEN positions \cup {o.symbol}
                        ELSE positions \ {o.symbol}
    PROVE  PositionInv'
<1> USE DEF PositionInv
<1>p. PICK n : n = pending.tx
  OBVIOUS
<1> DEFINE open == outcome = "confirmed" /\ o.kind = "strategy"
<1>0. n \in Nat /\ n # 0 /\ txs \in Seq(Tx)
  BY <1>p DEF JournalInv, TypeInv, TypeOK
<1>1. /\ pending' = NoClaim
      /\ trades' = trades \cup {[order |-> o, tx |-> n, outcome |-> outcome]}
  BY <1>p DEF Free
<1>2. RecordedBefore'
  BY <1>1 DEF RecordedBefore, NoClaim
<1>3. \A m : Recorded(m)' <=> Recorded(m) \/ m = n
  <2>1. \A m : Recorded(m) => Recorded(m)'
    BY <1>1 DEF Recorded
  <2> DEFINE r == [order |-> o, tx |-> n, outcome |-> outcome]
  <2>2. r \in trades' /\ r.tx = n
    BY <1>1
  <2>3. Recorded(n)'
    <3> HIDE DEF r
    <3> QED BY <2>2 DEF Recorded
  <2>4. ASSUME NEW m, Recorded(m)', m # n PROVE Recorded(m)
    <3>1. PICK q \in trades' : q.tx = m
      BY <2>4 DEF Recorded
    <3>2. q \in trades
      BY <1>1, <2>4, <3>1
    <3> QED BY <3>1, <3>2 DEF Recorded
  <2> QED BY <2>1, <2>3, <2>4
<1>4. \A m : Recorded(m) => m < n
  BY <1>0, <1>p DEF Recorded, RecordedBefore
<1>5. n = pending.tx /\ txs[n].order = o /\ txs[n].status = outcome
      /\ n \in DOMAIN txs
  BY <1>p
<1>6. ASSUME NEW s
      PROVE  RecordedSwaps(s)' = RecordedSwaps(s) \cup
                                   (IF open /\ o.symbol = s THEN {n} ELSE {})
  <2>1. \A m : m \in RecordedSwaps(s)' <=> m \in ConfirmedSwaps(s) /\ Recorded(m)'
    BY DEF RecordedSwaps, ConfirmedSwaps, Swaps
  <2>2. n \in ConfirmedSwaps(s) <=> open /\ o.symbol = s
    BY <1>5 DEF ConfirmedSwaps, Swaps
  <2>3. \A m : m \in RecordedSwaps(s)' <=>
               m \in RecordedSwaps(s) \/ (open /\ o.symbol = s /\ m = n)
    BY <1>3, <2>1, <2>2 DEF RecordedSwaps
  <2> HIDE DEF open
  <2> QED BY <2>3 DEF RecordedSwaps
<1>7. \A s : \A m \in RecordedSwaps(s) : m < n /\ m \in Nat
  BY <1>4, RecordedIsFinal DEF RecordedSwaps
<1>8. ASSUME NEW u \in Order
      PROVE  (u.symbol \in positions <=>
               \E m \in RecordedSwaps(u.symbol) :
                 /\ txs[m].order.action = "buy"
                 /\ \A k \in RecordedSwaps(u.symbol) : k <= m)'
  <2>1. CASE open /\ o.symbol = u.symbol
    <3>1. RecordedSwaps(u.symbol)' = RecordedSwaps(u.symbol) \cup {n}
      BY <1>6, <2>1
    <3>2. \A k \in RecordedSwaps(u.symbol)' : k <= n
      BY <1>0, <1>7, <3>1
    <3>3. \A m \in RecordedSwaps(u.symbol)' :
            (\A k \in RecordedSwaps(u.symbol)' : k <= m) => m = n
      <4>1. ASSUME NEW m \in RecordedSwaps(u.symbol)', m # n PROVE ~(n <= m)
        <5>1. m \in RecordedSwaps(u.symbol)
          BY <3>1, <4>1
        <5>2. m \in Nat /\ m < n
          BY <1>7, <5>1
        <5> QED BY <1>0, <5>2
      <4>2. n \in RecordedSwaps(u.symbol)'
        BY <3>1
      <4> QED BY <4>1, <4>2
    <3>4. o.action = "buy" <=> u.symbol \in positions'
      BY <2>1
    <3>5. n \in RecordedSwaps(u.symbol)' /\ txs' = txs
      BY <3>1
    <3> QED BY <1>5, <3>2, <3>3, <3>4, <3>5
  <2>2. CASE ~(open /\ o.symbol = u.symbol)
    <3>1. RecordedSwaps(u.symbol)' = RecordedSwaps(u.symbol)
      BY <1>6, <2>2
    <3>2. u.symbol \in positions' <=> u.symbol \in positions
      <4>1. o \in Order /\ o.kind \in {"manual", "strategy"}
        BY JournalAssumption
      <4>2. outcome \in {"confirmed", "reverted"}
        BY DEF Final
      <4> QED BY <2>2, <4>1, <4>2
    <3>3. u.symbol \in positions <=>
            \E m \in RecordedSwaps(u.symbol) :
              /\ txs[m].order.action = "buy"
              /\ \A k \in RecordedSwaps(u.symbol) : k <= m
      BY DEF PositionsMatchRecords
    <3> QED BY <3>1, <3>2, <3>3
  <2> QED BY <2>1, <2>2
<1>9. PositionsMatchRecords'
  BY <1>8 DEF PositionsMatchRecords
<1> QED BY <1>2, <1>9

\* The end of a process's work keeps the positions in step with the records.
LEMMA EndRecords ==
    ASSUME PositionInv, JournalInv', NEW p \in Process, mine[p] \in Order,
           Ends(p), UNCHANGED txs
    PROVE  PositionInv'
<1> PICK o \in Order : o = mine[p]
  OBVIOUS
<1>0. JournalInv
  BY DEF PositionInv
<1>1. CASE \/ ClearApproval(mine[p]) \/ ReleaseClaim(mine[p]) \/ UNCHANGED journal
           \/ ~Holds(mine[p])
  <2>1. UNCHANGED <<trades, positions>> /\ pending' \in {pending, NoClaim}
    BY <1>1 DEF Ends, ClearApproval, ReleaseClaim, RejectClaim, ConfirmClaim, journal
  <2>2. pending' = pending \/ pending'.tx = 0
    BY <2>1 DEF NoClaim
  <2> QED BY <2>1, <2>2, NothingRecorded
<1>2. CASE /\ Holds(mine[p]) /\ txs[hash[p]].status = "reverted"
           /\ pc[p] = "fetch" \/ (pc[p] = "failed" /\ reverted[p])
           /\ RejectClaim(mine[p])
  <2>1. /\ pending.order = o /\ pending.tx = hash[p] /\ hash[p] \in DOMAIN txs
        /\ txs[hash[p]].order = o
    BY <1>0, <1>2, ClaimIsRead DEF ApprovalDone, Holds
  <2>2. Free("reverted") /\ positions' = positions
    BY <1>2 DEF RejectClaim
  <2>3. "reverted" \in Final
    BY DEF Final
  <2> QED BY <1>2, <2>1, <2>2, <2>3, OutcomeRecorded
<1>3. CASE /\ Holds(mine[p]) /\ pc[p] \in {"fetch", "filled"}
           /\ ConfirmClaim(mine[p], hash[p])
           /\ txs[hash[p]].phase = "swap" /\ txs[hash[p]].status = "confirmed"
  <2>1. /\ pending.order = o /\ pending.tx = hash[p] /\ hash[p] \in DOMAIN txs
        /\ txs[hash[p]].order = o
    BY <1>0, <1>3, ClaimIsRead DEF ApprovalDone, Holds
  <2>2. /\ Free("confirmed")
        /\ positions' = IF o.kind = "manual" THEN positions
                        ELSE IF o.action = "buy" THEN positions \cup {o.symbol}
                        ELSE positions \ {o.symbol}
    BY <1>3 DEF ConfirmClaim
  <2>3. "confirmed" \in Final
    BY DEF Final
  <2> QED BY <1>3, <2>1, <2>2, <2>3, OutcomeRecorded
<1> QED BY <1>1, <1>2, <1>3 DEF Ends

\* Every step keeps the invariant of the positions.
LEMMA PositionNext == OrdersApart /\ PositionInv /\ [Next]_vars => PositionInv'
<1> SUFFICES ASSUME OrdersApart, PositionInv, [Next]_vars PROVE PositionInv'
  OBVIOUS
<1> USE DEF PositionInv
<1>0. JournalInv'
  BY JournalNext
<1>a. txs \in Seq(Tx)
  BY DEF JournalInv, TypeInv, TypeOK
<1>1. ASSUME NEW p \in Process, NEW o \in Order, Claim(p, o) PROVE PositionInv'
  <2>1. UNCHANGED <<trades, positions, txs>> /\ pending'.tx = 0
    BY <1>1 DEF Claim
  <2> QED BY <1>0, <2>1, NothingRecorded
<1>2. ASSUME NEW p \in Process,
             \/ Lock(p) \/ SkipApproval(p) \/ Receipt(p) \/ Raise(p) \/ Crash(p)
             \/ ReadPending(p) \/ NotFound(p) \/ SettleFails(p)
      PROVE  PositionInv'
  <2>1. UNCHANGED <<journal, txs>>
    BY <1>2 DEF Lock, SkipApproval, Receipt, Raise, Crash, ReadPending, NotFound,
       SettleFails
  <2> QED BY <1>0, <2>1, NothingRecorded DEF journal
<1>3. ASSUME NEW p \in Process, NEW phase \in {"approval", "swap"}, Record(p, phase)
      PROVE  PositionInv'
  <2>1. CASE ~Holds(mine[p])
    BY <1>0, <1>3, <2>1, NothingRecorded DEF Record
  <2>2. CASE Holds(mine[p])
    <3>1. PICK n \in Nat : n = Len(txs) + 1
      BY <1>a
    <3>2. /\ UNCHANGED <<trades, positions>>
          /\ pending' = [pending EXCEPT !.tx = n, !.phase = phase]
          /\ txs' = Append(txs, [order |-> mine[p], phase |-> phase,
                                 status |-> "signed"])
          /\ mine[p] \in Order
      BY <1>3, <2>2, <3>1 DEF Record, WithAttempt, JournalInv, TypeInv, WorkKnown,
         Working
    <3>3. pending \in [order : Order, tx : Nat, phase : {"none", "approval", "swap"}]
      BY <2>2, <3>2, JournalAssumption
         DEF JournalInv, TypeInv, TypeOK, ClaimOK, NoClaim, Holds
    <3>4. pending'.tx = n
      BY <3>2, <3>3
    <3>5. \A m \in DOMAIN txs : m < n /\ m \in DOMAIN txs' /\ txs'[m] = txs[m]
      BY <1>a, <3>1, <3>2
    <3> QED BY <1>0, <3>2, <3>4, <3>5, NothingRecorded
  <2> QED BY <2>1, <2>2
<1>4. ASSUME NEW n \in DOMAIN txs, txs[n].status \notin Final,
             NEW status \in {"sent", "confirmed", "reverted"},
             UNCHANGED txs \/ SetStatus(n, status), UNCHANGED journal
      PROVE  PositionInv'
  <2>1. \A m \in DOMAIN txs : Recorded(m) => m # n
    BY <1>4, RecordedIsFinal
  <2>2. \A m \in DOMAIN txs : m # n => m \in DOMAIN txs' /\ txs'[m] = txs[m]
    BY <1>4, <1>a, SetStatusType
  <2> QED BY <1>0, <1>4, <2>1, <2>2, NothingRecorded DEF journal
<1>5. ASSUME NEW p \in Process,
             Send(p) \/ \E taken \in BOOLEAN : SendFails(p, taken)
      PROVE  PositionInv'
  <2>1. /\ hash[p] \in DOMAIN txs /\ txs[hash[p]].status \notin Final
        /\ UNCHANGED txs \/ SetStatus(hash[p], "sent")
        /\ UNCHANGED journal
    BY <1>5 DEF Send, SendFails, JournalInv, HashIsOwn, Final
  <2> QED BY <1>4, <2>1
<1>6. ASSUME NEW n \in DOMAIN txs, NEW status \in Final, Mine(n, status)
      PROVE  PositionInv'
  <2>1. /\ txs[n].status \notin Final /\ status \in {"sent", "confirmed", "reverted"}
        /\ SetStatus(n, status) /\ UNCHANGED journal
    BY <1>6 DEF Mine, Final
  <2> QED BY <1>4, <2>1
<1>7. ASSUME NEW p \in Process, Cleanup(p) \/ Confirm(p) \/ Settle(p)
      PROVE  PositionInv'
  <2>1. Ends(p) /\ UNCHANGED txs
    BY <1>7, EndKnown
  <2>2. mine[p] \in Order
    BY <1>7 DEF Cleanup, Confirm, Settle, JournalInv, TypeInv, HashKnown, WorkKnown,
       Working
  <2> QED BY <1>0, <1>7, <2>1, <2>2, EndRecords
<1>8. CASE UNCHANGED vars
  BY <1>0, <1>8, NothingRecorded DEF vars
<1> QED
  BY <1>1, <1>2, <1>3, <1>5, <1>6, <1>7, <1>8 DEF Next, Execute

\* While no two claims share a fingerprint, or one process has the journal to
\* itself, the journal shows an open position,
\* when nothing is pending, exactly when the last confirmed strategy swap of the
\* symbol is a buy.
THEOREM PositionsFollowChain == OrdersApart => (Spec => []PositionsMatchChain)
<1> SUFFICES ASSUME OrdersApart PROVE Spec => []PositionsMatchChain
  OBVIOUS
<1>1. PositionInv /\ [Next]_vars => PositionInv'
  BY PositionNext
<1>2. ASSUME PositionInv, pending = NoClaim, NEW o \in Order
      PROVE  o.symbol \in positions <=> Bought(o.symbol)
  <2>1. \A n \in DOMAIN txs : n # 0
    BY <1>2 DEF PositionInv, JournalInv, TypeInv, TypeOK
  <2>2. \A n \in ConfirmedSwaps(o.symbol) : Recorded(n)
    BY <1>2, <2>1 DEF PositionInv, JournalInv, NoForgottenBroadcast, ConfirmedSwaps,
       Swaps, NoClaim
  <2>3. RecordedSwaps(o.symbol) = ConfirmedSwaps(o.symbol)
    BY <2>2 DEF RecordedSwaps
  <2> QED BY <1>2, <2>3 DEF PositionInv, PositionsMatchRecords, Bought
<1>3. PositionInv => PositionsMatchChain
  BY <1>2 DEF PositionsMatchChain
<1> QED BY PositionInit, <1>1, <1>3, PTL DEF Spec

-----------------------------------------------------------------------------
(***************************************************************************)
(* The journal implements the ledger of swaps (SwapLedger), step by step.   *)
(***************************************************************************)
\* What the steps below need of the claim.
LEMMA LedgerFacts ==
    ASSUME JournalInv
    PROVE  /\ \A n \in DOMAIN txs : n \in Nat /\ n # 0 /\ txs[n] \in Tx
           /\ 0 \notin Exposed /\ (pending.tx # 0 => pending.tx \in DOMAIN txs)
           /\ pending # NoClaim => pending.order \in Order
           /\ pending.tx # 0 => pending # NoClaim
           /\ NoOrder \notin Order
  BY JournalAssumption, StateTypes DEF JournalInv, TypeInv, TypeOK, ClaimOK, NoClaim, Exposed,
     Swaps

\* At the start nothing is claimed, put out or booked.
LEMMA LedgerInit == Init => Ledger!Init
  BY DEF Init, Ledger!Init, NoClaim, OutSwap, Exposed, SwapsWith, Swaps

\* The ledger shows nothing but the claim, the chain and what is booked.
LEMMA LedgerStill == UNCHANGED <<pending, positions, trades, txs>> => UNCHANGED Ledger!ledger
  BY DEF Ledger!ledger, OutSwap, Exposed, SwapsWith, Swaps

\* An order takes the wallet.
LEMMA LedgerClaim ==
    ASSUME JournalInv, NEW p \in Process, NEW o \in Order, Claim(p, o)
    PROVE  Ledger!Take(o)
<1>1. /\ pending = NoClaim /\ PositionAllows(o)
      /\ pending' = [order |-> o, tx |-> 0, phase |-> "none"]
      /\ UNCHANGED <<positions, trades, txs>>
  BY DEF Claim
<1>2. pending.order = NoOrder /\ pending.tx = 0 /\ pending'.order = o /\ pending'.tx = 0
  BY <1>1 DEF NoClaim
<1>3. UNCHANGED <<Exposed, SwapsWith("confirmed"), SwapsWith("reverted"),
                  {r \in trades : r.tx \in Swaps}, OutSwap>>
  BY <1>1, <1>2, LedgerFacts DEF Exposed, SwapsWith, Swaps, OutSwap
<1> QED
  BY <1>1, <1>2, <1>3 DEF Ledger!Take, PositionAllows

\* A signature puts nothing out, and comes when nothing of the claim is.
LEMMA LedgerRecord ==
    ASSUME JournalInv, NEW p \in Process, NEW phase \in {"approval", "swap"},
           Record(p, phase)
    PROVE  UNCHANGED Ledger!ledger
<1>1. CASE ~Holds(mine[p])
  BY <1>1, LedgerStill DEF Record
<1>2. CASE Holds(mine[p])
  <2>1. PICK n \in Nat : n = Len(txs) + 1
    BY StateTypes DEF JournalInv
  <2>2. PICK tx : tx = [order |-> mine[p], phase |-> phase, status |-> "signed"]
    OBVIOUS
  <2>3. /\ UNCHANGED <<trades, positions>>
        /\ pending' = [pending EXCEPT !.tx = n, !.phase = phase]
        /\ txs' = Append(txs, tx)
        /\ mine[p] \in Order /\ pc[p] \in {"approve", "swap"}
    BY <1>2, <2>1, <2>2 DEF Record, WithAttempt, JournalInv, TypeInv, WorkKnown, Working
  <2>4. pending \in [order : Order, tx : Nat, phase : {"none", "approval", "swap"}]
    BY <1>2, <2>3, JournalAssumption DEF JournalInv, TypeInv, TypeOK, ClaimOK, NoClaim, Holds
  <2>5. pending'.tx = n /\ pending'.order = pending.order
    BY <2>3, <2>4
  <2>6. tx \in Tx /\ tx.status = "signed"
    BY <2>2, <2>3 DEF Tx
  <2>7. /\ DOMAIN txs' = DOMAIN txs \cup {n} /\ n \notin DOMAIN txs
        /\ \A m \in DOMAIN txs : txs'[m] = txs[m]
        /\ txs'[n] = tx
    BY <2>1, <2>3, <2>6, StateTypes DEF JournalInv
  <2>8. UNCHANGED Exposed
    BY <2>6, <2>7 DEF Exposed, Swaps
  <2>9. UNCHANGED <<SwapsWith("confirmed"), SwapsWith("reverted")>>
    BY <2>6, <2>7 DEF SwapsWith, Swaps
  <2>10. UNCHANGED {r \in trades : r.tx \in Swaps}
    BY <2>3, <2>7 DEF Swaps, JournalInv, OutcomesAreTrue
  <2>11. OutSwap = 0
    <3>1. pending.tx = 0 \/ ApprovalDone(pending.tx)
      BY <1>2, <2>3 DEF JournalInv, ClaimFollows
    <3> QED
      BY <3>1 DEF OutSwap, Exposed, Swaps, ApprovalDone
  <2>12. OutSwap' = 0
    <3>1. n \notin Exposed
      BY <2>7 DEF Exposed, Swaps
    <3> QED
      BY <2>5, <2>8, <3>1 DEF OutSwap
  <2> QED
    BY <2>3, <2>5, <2>8, <2>9, <2>10, <2>11, <2>12 DEF Ledger!ledger
<1> QED
  BY <1>1, <1>2

\* A status is set: of an approval, which the ledger does not show, of the claim's
\* swap that is put out, or of a swap that the chain decides.
LEMMA LedgerStatus ==
    ASSUME JournalInv, NEW n \in DOMAIN txs, NEW status \in {"sent"} \cup Final,
           SetStatus(n, status), UNCHANGED journal,
           status = "sent" => txs[n].status = "signed" /\ pending.tx = n,
           status \in Final => txs[n].status = "sent"
    PROVE  [Ledger!Next]_(Ledger!ledger)
<1>1. /\ DOMAIN txs' = DOMAIN txs /\ txs'[n].status = status
      /\ \A m \in DOMAIN txs : txs'[m].phase = txs[m].phase
      /\ \A m \in DOMAIN txs : m # n => txs'[m] = txs[m]
  BY SetStatusType, StateTypes DEF JournalInv, Final
<1>2. Swaps' = Swaps /\ UNCHANGED <<pending, trades, positions>>
  BY <1>1 DEF Swaps, journal
<1>3. UNCHANGED {r \in trades : r.tx \in Swaps}
  BY <1>2
<1>4. CASE n \notin Swaps
  <2>1. UNCHANGED <<Exposed, SwapsWith("confirmed"), SwapsWith("reverted")>>
    BY <1>1, <1>2, <1>4 DEF Exposed, SwapsWith, Swaps
  <2>2. UNCHANGED OutSwap
    BY <1>2, <2>1 DEF OutSwap
  <2> QED
    BY <1>2, <1>3, <2>1, <2>2 DEF Ledger!ledger
<1>5. CASE n \in Swaps /\ status = "sent"
  <2>1. txs[n].status = "signed" /\ pending.tx = n /\ n # 0 /\ n \in Nat
    BY <1>5, LedgerFacts
  <2>2. UNCHANGED <<SwapsWith("confirmed"), SwapsWith("reverted")>>
    BY <1>1, <1>2, <1>5, <2>1 DEF SwapsWith, Swaps
  <2>3. Exposed' = Exposed \cup {n} /\ n \notin Exposed
    <3>1. txs'[n].status = "sent" /\ Swaps \subseteq DOMAIN txs
      BY <1>1, <1>5 DEF Swaps
    <3>2. \A m \in Swaps : m # n => txs'[m].status = txs[m].status
      BY <1>1, <3>1
    <3> QED
      BY <1>2, <1>5, <2>1, <3>1, <3>2 DEF Exposed
  <2>4. OutSwap = 0 /\ OutSwap' = n
    BY <1>2, <2>1, <2>3 DEF OutSwap
  <2>5. pending.order # NoOrder
    BY <2>1, LedgerFacts
  <2>6. Ledger!PutOut
    BY <1>2, <1>3, <2>1, <2>2, <2>3, <2>4, <2>5, LedgerFacts DEF Ledger!PutOut
  <2> QED
    BY <2>6 DEF Ledger!Next
<1>6. CASE n \in Swaps /\ status \in Final
  <2>1. txs[n].status = "sent" /\ n \in Exposed
    BY <1>6 DEF Exposed
  <2>2. n \notin SwapsWith("confirmed") \cup SwapsWith("reverted")
    BY <2>1 DEF SwapsWith
  <2>3. \/ /\ SwapsWith("confirmed")' = SwapsWith("confirmed") \cup {n}
           /\ UNCHANGED SwapsWith("reverted")
        \/ /\ SwapsWith("reverted")' = SwapsWith("reverted") \cup {n}
           /\ UNCHANGED SwapsWith("confirmed")
    BY <1>1, <1>2, <1>6, <2>1 DEF SwapsWith, Swaps, Final
  <2>4. UNCHANGED Exposed
    BY <1>1, <1>2, <1>6, <2>1 DEF Exposed, Swaps, Final
  <2>5. UNCHANGED OutSwap
    BY <1>2, <2>4 DEF OutSwap
  <2>6. Ledger!Decide(n)
    BY <1>2, <1>3, <2>2, <2>3, <2>4, <2>5 DEF Ledger!Decide
  <2> QED
    BY <2>1, <2>6 DEF Ledger!Next
<1> QED
  BY <1>4, <1>5, <1>6

\* A claim ends: given up with nothing out, or booked as the chain has decided.
LEMMA LedgerEnd ==
    ASSUME JournalInv, NEW p \in Process, Ends(p), UNCHANGED txs, pc[p] # "idle"
    PROVE  [Ledger!Next]_(Ledger!ledger)
<1>1. /\ UNCHANGED <<Exposed, SwapsWith("confirmed"), SwapsWith("reverted"), Swaps>>
      /\ Swaps \subseteq DOMAIN txs
  BY DEF Exposed, SwapsWith, Swaps
<1>2. Holds(mine[p]) => pending.order = mine[p] /\ pending.order # NoOrder
                        /\ pending # NoClaim
  BY LedgerFacts, StateTypes DEF Holds, JournalInv, OwnOrders, NoClaim
<1>3. pending' = NoClaim => pending'.order = NoOrder /\ OutSwap' = 0
  <2>1. 0 \notin Exposed'
    BY <1>1, LedgerFacts
  <2> QED
    BY <2>1 DEF OutSwap, NoClaim
<1>4. ASSUME Holds(mine[p]), pending.tx \notin Exposed, pending' = NoClaim,
             UNCHANGED positions, UNCHANGED {r \in trades : r.tx \in Swaps}
      PROVE  [Ledger!Next]_(Ledger!ledger)
  <2>1. OutSwap = 0
    BY <1>4 DEF OutSwap
  <2>2. Ledger!GiveUp
    BY <1>1, <1>2, <1>3, <1>4, <2>1 DEF Ledger!GiveUp
  <2> QED
    BY <2>2 DEF Ledger!Next
<1>5. CASE UNCHANGED journal
  BY <1>5, LedgerStill DEF journal
<1>6. CASE pc[p] = "fetch" /\ ApprovalDone(hash[p]) /\ ClearApproval(mine[p])
  <2>1. UNCHANGED <<positions, trades>>
    BY <1>6 DEF ClearApproval
  <2>2. CASE Holds(mine[p]) /\ pending.phase = "approval"
    <3>1. pending.tx \notin Exposed
      BY <2>2, LedgerFacts DEF JournalInv, ClaimNamesItsOwn, Exposed, Swaps
    <3> QED
      BY <1>1, <1>4, <1>6, <2>1, <2>2, <3>1 DEF ClearApproval
  <2>3. CASE ~(Holds(mine[p]) /\ pending.phase = "approval")
    BY <1>6, <2>1, <2>3, LedgerStill DEF ClearApproval
  <2> QED
    BY <2>2, <2>3
<1>7. CASE pc[p] = "failed" /\ ~attempted[p] /\ ReleaseClaim(mine[p])
  <2>1. UNCHANGED <<positions, trades>>
    BY <1>7 DEF ReleaseClaim
  <2>2. CASE Holds(mine[p])
    <3>1. Unsent(pending.tx)
      BY <1>7, <2>2 DEF JournalInv, ClaimFollows, Working
    <3>2. pending.tx \notin Exposed
      BY <3>1, LedgerFacts DEF Unsent, Exposed
    <3> QED
      BY <1>1, <1>4, <1>7, <2>1, <2>2, <3>2 DEF ReleaseClaim
  <2>3. CASE ~Holds(mine[p])
    BY <1>7, <2>1, <2>3, LedgerStill DEF ReleaseClaim
  <2> QED
    BY <2>2, <2>3
<1>8. CASE /\ pc[p] = "fetch" \/ (pc[p] = "failed" /\ reverted[p])
           /\ txs[hash[p]].status = "reverted" /\ RejectClaim(mine[p])
  <2>1. UNCHANGED positions
    BY <1>8 DEF RejectClaim
  <2>2. CASE ~Holds(mine[p])
    BY <1>8, <2>1, <2>2, LedgerStill DEF RejectClaim
  <2>3. CASE Holds(mine[p])
    <3>1. pending.tx = hash[p] /\ hash[p] \in DOMAIN txs /\ hash[p] # 0
      BY <1>8, <2>3, ClaimIsRead, LedgerFacts DEF ApprovalDone
    <3> DEFINE r == [order |-> pending.order, tx |-> pending.tx, outcome |-> "reverted"]
    <3>2. pending' = NoClaim /\ trades' = trades \cup {r}
      BY <1>8, <2>3 DEF RejectClaim, Free
    <3>3. r.tx = pending.tx
      OBVIOUS
    <3>4. CASE hash[p] \notin Swaps
      <4>1. UNCHANGED {t \in trades : t.tx \in Swaps}
        BY <1>1, <3>1, <3>2, <3>3, <3>4
      <4>2. pending.tx \notin Exposed
        BY <3>1, <3>4 DEF Exposed
      <4> QED
        BY <1>4, <2>1, <2>3, <3>2, <4>1, <4>2
    <3>5. CASE hash[p] \in Swaps
      <4>1. OutSwap = pending.tx /\ pending.tx \in SwapsWith("reverted") /\ pending.tx # 0
        BY <1>8, <3>1, <3>5 DEF OutSwap, Exposed, SwapsWith
      <4>2. {t \in trades : t.tx \in Swaps}' = {t \in trades : t.tx \in Swaps} \cup {r}
        BY <1>1, <3>1, <3>2, <3>3, <3>5
      <4>3. Ledger!BookRevert
        BY <1>1, <1>3, <2>1, <3>2, <4>1, <4>2 DEF Ledger!BookRevert, Ledger!Leave
      <4> QED
        BY <4>3 DEF Ledger!Next
    <3> QED
      BY <3>4, <3>5
  <2> QED
    BY <2>2, <2>3
<1>9. CASE /\ pc[p] \in {"fetch", "filled"}
           /\ txs[hash[p]].phase = "swap" /\ txs[hash[p]].status = "confirmed"
           /\ ConfirmClaim(mine[p], hash[p])
  <2>1. CASE ~Holds(mine[p])
    BY <1>9, <2>1, LedgerStill DEF ConfirmClaim, journal
  <2>2. CASE Holds(mine[p])
    <3>1. pending.tx = hash[p] /\ hash[p] \in DOMAIN txs /\ hash[p] # 0
      BY <1>9, <2>2, ClaimIsRead, LedgerFacts DEF ApprovalDone
    <3> DEFINE r == [order |-> pending.order, tx |-> pending.tx, outcome |-> "confirmed"]
    <3>2. /\ pending' = NoClaim /\ trades' = trades \cup {r}
          /\ positions' = IF pending.order.kind = "manual" THEN positions
                          ELSE IF pending.order.action = "buy"
                               THEN positions \cup {pending.order.symbol}
                          ELSE positions \ {pending.order.symbol}
      BY <1>2, <1>9, <2>2 DEF ConfirmClaim, Free
    <3>3. r.tx = pending.tx
      OBVIOUS
    <3>4. OutSwap = pending.tx /\ pending.tx \in SwapsWith("confirmed") /\ pending.tx # 0
      BY <1>9, <3>1 DEF OutSwap, Exposed, SwapsWith, Swaps
    <3>5. {t \in trades : t.tx \in Swaps}' = {t \in trades : t.tx \in Swaps} \cup {r}
      BY <1>1, <3>2, <3>3, <3>4 DEF SwapsWith
    <3>6. Ledger!BookFill
      BY <1>1, <1>3, <3>2, <3>4, <3>5 DEF Ledger!BookFill, Ledger!Leave
    <3> QED
      BY <3>6 DEF Ledger!Next
  <2> QED
    BY <2>1, <2>2
<1> QED
  BY <1>5, <1>6, <1>7, <1>8, <1>9 DEF Ends

\* Every step of the journal is a step of the ledger, or changes nothing there.
LEMMA LedgerNext ==
    ASSUME JournalInv, [Next]_vars
    PROVE  [Ledger!Next]_(Ledger!ledger)
<1>1. ASSUME NEW p \in Process, NEW o \in Order, Claim(p, o)
      PROVE  [Ledger!Next]_(Ledger!ledger)
  BY <1>1, LedgerClaim DEF Ledger!Next
<1>2. ASSUME NEW p \in Process,
             \/ Lock(p) \/ SkipApproval(p) \/ Receipt(p) \/ Raise(p) \/ Crash(p)
             \/ ReadPending(p) \/ NotFound(p) \/ SettleFails(p)
      PROVE  [Ledger!Next]_(Ledger!ledger)
  <2>1. UNCHANGED <<journal, txs>>
    BY <1>2 DEF Lock, SkipApproval, Receipt, Raise, Crash, ReadPending, NotFound,
       SettleFails
  <2> QED
    BY <2>1, LedgerStill DEF journal
<1>3. ASSUME NEW p \in Process, NEW phase \in {"approval", "swap"}, Record(p, phase)
      PROVE  [Ledger!Next]_(Ledger!ledger)
  BY <1>3, LedgerRecord
<1>4. ASSUME NEW p \in Process, Send(p) \/ \E taken \in BOOLEAN : SendFails(p, taken)
      PROVE  [Ledger!Next]_(Ledger!ledger)
  <2>1. /\ SetStatus(hash[p], "sent") \/ UNCHANGED txs
        /\ UNCHANGED journal /\ pc[p] = "send"
    BY <1>4 DEF Send, SendFails
  <2>2. /\ hash[p] \in DOMAIN txs /\ txs[hash[p]].status = "signed"
        /\ pending.tx = hash[p]
    BY <2>1 DEF JournalInv, HashIsOwn, ClaimFollows
  <2>3. CASE SetStatus(hash[p], "sent")
    BY <2>1, <2>2, <2>3, LedgerStatus DEF Final
  <2>4. CASE UNCHANGED txs
    BY <2>1, <2>4, LedgerStill DEF journal
  <2> QED
    BY <2>1, <2>3, <2>4
<1>5. ASSUME NEW n \in DOMAIN txs, NEW status \in Final, Mine(n, status)
      PROVE  [Ledger!Next]_(Ledger!ledger)
  BY <1>5, LedgerStatus DEF Mine, Final
<1>6. ASSUME NEW p \in Process, Cleanup(p) \/ Confirm(p) \/ Settle(p)
      PROVE  [Ledger!Next]_(Ledger!ledger)
  BY <1>6, EndKnown, LedgerEnd
<1>7. CASE UNCHANGED vars
  BY <1>7, LedgerStill DEF vars
<1> QED
  BY <1>1, <1>2, <1>3, <1>4, <1>5, <1>6, <1>7 DEF Next, Execute

\* The journal implements the ledger of swaps, under the same condition as above:
\* claims, approvals, broadcasts, receipts, crashes and reconciliations by any
\* number of processes amount to one order and one swap after another, each booked
\* once, as the chain has decided it.
THEOREM JournalKeepsTheSwaps == OrdersApart => (Spec => KeepsTheSwaps)
<1> SUFFICES ASSUME OrdersApart PROVE Spec => KeepsTheSwaps
  OBVIOUS
<1>1. JournalInv /\ [Next]_vars => JournalInv'
  BY JournalNext
<1>2. JournalInv /\ [Next]_vars => [Ledger!Next]_(Ledger!ledger)
  BY LedgerNext
<1> QED
  BY JournalInit, LedgerInit, <1>1, <1>2, PTL DEF Spec, KeepsTheSwaps, Ledger!Spec

-----------------------------------------------------------------------------
(***************************************************************************)
(* The live scalper.                                                        *)
(***************************************************************************)
USE ScalperAssumption

Memory == [open : BOOLEAN, intent : {"none", "buy", "sell"}, done : Nat, gain : Int]

ClaimEntry == [order : Order \cup {NoOrder}, tx : Nat,
               phase : {"none", "approval", "swap"}]

ScalperTypes ==
    /\ pending \in ClaimEntry /\ pending.tx \in 0 .. Len(txs)
    /\ txs \in Seq(Tx)
    /\ pc \in [Process -> Place]
    /\ mine \in [Process -> Order \cup {NoOrder}]
    /\ hash \in [Process -> Nat]
    /\ mem \in Memory /\ disk \in Memory
    /\ step \in {"quote", "begun", "busy", "finalized"}
    /\ {before, drift, out} \subseteq Int

\* The state file names the claim: as the intent until its result is saved, as
\* the last confirmation from then on.
Covered ==
    pending # NoClaim =>
        \/ disk.intent = pending.order.action
        \/ disk.intent = "none" /\ disk.done # 0 /\ disk.done = pending.tx

\* While an order may still sign, its action is the intent on disk.
Ordering == pc[Bot] \in {"begin", "approve", "swap", "send", "wait"}
OrderIsIntended ==
    Ordering => /\ step = "busy" /\ mine[Bot] \in Order
                /\ pending # NoClaim => disk.intent = pending.order.action

\* What the process waits for or has read is the transaction of the claim.
Watching == pc[Bot] \in {"send", "wait", "filled", "fetch"}
HashIsClaimed ==
    Watching => /\ hash[Bot] \in DOMAIN txs
                /\ pending # NoClaim => pending.tx = hash[Bot]

\* The step of the loop agrees with the place in the trader.
StepsAgree ==
    /\ step \in {"quote", "begun"} => pc[Bot] = "idle"
    /\ step = "finalized" => pc[Bot] \in {"filled", "fetch"}
    /\ step = "begun" => disk = mem

ScalperInv ==
    ScalperTypes /\ Covered /\ OrderIsIntended /\ HashIsClaimed /\ StepsAgree

-----------------------------------------------------------------------------
\* Neither a claim nor an intent is there at the start.
LEMMA ScalperInvInit == ScalperInit => ScalperInv
<1> SUFFICES ASSUME ScalperInit PROVE ScalperInv
  OBVIOUS
<1> USE DEF ScalperInit, Init
<1>1. ScalperTypes
  BY DEF ScalperTypes, NoClaim, ClaimEntry, NoState, Memory, Place
<1>2. Covered /\ OrderIsIntended /\ HashIsClaimed /\ StepsAgree
  BY DEF Covered, OrderIsIntended, Ordering, HashIsClaimed, Watching, StepsAgree,
     NoState
<1> QED
  BY <1>1, <1>2 DEF ScalperInv

\* The bot goes to another place of the trader.
LEMMA Moved ==
    ASSUME ScalperTypes, NEW place \in Place, Goto(Bot, place)
    PROVE  pc' \in [Process -> Place] /\ pc'[Bot] = place
  BY DEF ScalperTypes, Goto

\* Whatever ends a claim leaves it as it is or leaves none.
LEMMA ClaimEnds ==
    ASSUME NEW o,
           \/ ConfirmClaim(o, hash[Bot]) \/ RejectClaim(o) \/ ReleaseClaim(o)
           \/ ClearApproval(o) \/ UNCHANGED journal
    PROVE  pending' = pending \/ pending' = NoClaim
  BY DEF ConfirmClaim, RejectClaim, ReleaseClaim, ClearApproval, Free, journal

\* The absent claim is one of the entries, without a transaction.
LEMMA NoClaimFact == NoClaim \in ClaimEntry /\ NoClaim.tx = 0
  BY DEF NoClaim, ClaimEntry

\* A claim to which an attempt is added is one of the entries and keeps its order.
LEMMA Attempted ==
    ASSUME ScalperTypes, NEW n \in Nat, NEW phase \in {"approval", "swap"},
           pending' = WithAttempt(n, phase)
    PROVE  pending' \in ClaimEntry /\ pending'.order = pending.order /\ pending'.tx = n
<1>1. PICK e \in ClaimEntry : e = pending
  BY DEF ScalperTypes
<1>2. PICK g : g = pending'
  OBVIOUS
<1>3. g = [e EXCEPT !.tx = n, !.phase = phase]
  BY <1>1, <1>2 DEF WithAttempt
<1>4. g \in ClaimEntry /\ g.order = e.order /\ g.tx = n
  BY <1>3 DEF ClaimEntry
<1> QED
  BY <1>1, <1>2, <1>4

\* The claim ends or not, and the process is through with it.
LEMMA Released ==
    ASSUME ScalperInv, pending' = pending \/ pending' = NoClaim,
           UNCHANGED <<txs, mine, hash, disk, before, drift, out>>,
           mem' \in Memory, Goto(Bot, "idle"), step' = "quote"
    PROVE  ScalperInv'
<1>1. pc' \in [Process -> Place] /\ pc'[Bot] = "idle"
  BY Moved DEF ScalperInv, Place
<1>2. ScalperTypes'
  BY <1>1, NoClaimFact DEF ScalperInv, ScalperTypes
<1>3. Covered'
  BY DEF ScalperInv, Covered
<1> QED
  BY <1>1, <1>2, <1>3 DEF ScalperInv, OrderIsIntended, Ordering, HashIsClaimed,
     Watching, StepsAgree

\* Between two orders the files may change as long as there is no claim.
LEMMA Unclaimed ==
    ASSUME ScalperInv, Between, pending = NoClaim, UNCHANGED <<trader, pc, before, out, drift>>,
           mem' \in Memory, disk' \in Memory,
           step' = "quote" \/ (step' = "begun" /\ disk' = mem')
    PROVE  ScalperInv'
<1>1. ScalperTypes'
  BY DEF ScalperInv, ScalperTypes, trader
<1> QED
  BY <1>1 DEF ScalperInv, Covered, OrderIsIntended, Ordering, HashIsClaimed,
     Watching, StepsAgree, Between, trader

\* The intent is saved before the order, or is not and no order follows.
LEMMA BeginStep == ScalperInv /\ BeginIntent => ScalperInv'
<1> SUFFICES ASSUME ScalperInv, BeginIntent PROVE ScalperInv'
  OBVIOUS
<1> DEFINE r == [mem EXCEPT !.intent = IF mem.open THEN "sell" ELSE "buy"]
<1>1. r \in Memory
  BY DEF ScalperInv, ScalperTypes, Memory
<1>2. \/ mem' = r /\ disk' = r /\ step' = "begun"
      \/ mem' = r /\ disk' \in {disk, r} /\ step' = "quote"
  BY DEF BeginIntent, Saved, NotSaved, Between
<1> HIDE DEF r
<1>3. mem' \in Memory /\ disk' \in Memory
  BY <1>1, <1>2 DEF ScalperInv, ScalperTypes
<1> QED
  BY <1>2, <1>3, Unclaimed DEF BeginIntent

\* An intent is dropped while no claim is there.
LEMMA ClearStep == ScalperInv /\ ClearIntent => ScalperInv'
<1> SUFFICES ASSUME ScalperInv, ClearIntent PROVE ScalperInv'
  OBVIOUS
<1> DEFINE r == [mem EXCEPT !.intent = "none"]
<1>1. r \in Memory
  BY DEF ScalperInv, ScalperTypes, Memory
<1>2. mem' = r /\ disk' \in {disk, r} /\ step' = "quote"
  BY DEF ClearIntent, Saved, NotSaved, Between
<1> HIDE DEF r
<1>3. mem' \in Memory /\ disk' \in Memory
  BY <1>1, <1>2 DEF ScalperInv, ScalperTypes
<1> QED
  BY <1>2, <1>3, Unclaimed DEF ClearIntent, MayClearIntent

\* An order is claimed under the intent that was saved.
LEMMA StartOrderStep ==
    ASSUME ScalperInv, NEW o \in Order, StartOrder(o)
    PROVE  ScalperInv'
<1>1. /\ step = "begun" /\ step' = "busy" /\ o.action = mem.intent
      /\ pending' = [order |-> o, tx |-> 0, phase |-> "none"]
      /\ Goto(Bot, "begin")
      /\ mine' = [mine EXCEPT ![Bot] = o] /\ hash' = [hash EXCEPT ![Bot] = 0]
      /\ before' = drift
      /\ UNCHANGED <<txs, mem, disk, out, drift>>
  BY DEF StartOrder, Claim
<1>2. pc' \in [Process -> Place] /\ pc'[Bot] = "begin"
  BY <1>1, Moved DEF ScalperInv, Place
<1>3. pending' \in ClaimEntry /\ pending'.tx = 0 /\ pending'.order = o
  BY <1>1 DEF ClaimEntry
<1>4. ScalperTypes'
  BY <1>1, <1>2, <1>3 DEF ScalperInv, ScalperTypes
<1>5. disk'.intent = o.action /\ mine'[Bot] = o
  BY <1>1 DEF ScalperInv, StepsAgree, ScalperTypes
<1> QED
  BY <1>1, <1>2, <1>3, <1>4, <1>5 DEF ScalperInv, Covered, OrderIsIntended,
     Ordering, HashIsClaimed, Watching, StepsAgree

\* The claim a restart found is looked up.
LEMMA ReconcileStep == ScalperInv /\ StartReconcile => ScalperInv'
<1> SUFFICES ASSUME ScalperInv, StartReconcile PROVE ScalperInv'
  OBVIOUS
<1>1. /\ step' = "busy" /\ pending.tx # 0 /\ Goto(Bot, "fetch")
      /\ mine' = [mine EXCEPT ![Bot] = pending.order]
      /\ hash' = [hash EXCEPT ![Bot] = pending.tx]
      /\ UNCHANGED <<pending, txs, mem, disk, before, out, drift>>
  BY DEF StartReconcile, ReadPending, journal
<1>2. pc' \in [Process -> Place] /\ pc'[Bot] = "fetch"
  BY <1>1, Moved DEF ScalperInv, Place
<1>3. pending.order \in Order \cup {NoOrder} /\ pending.tx \in DOMAIN txs
  BY <1>1 DEF ScalperInv, ScalperTypes, ClaimEntry
<1>4. hash'[Bot] = pending.tx
  BY <1>1 DEF ScalperInv, ScalperTypes
<1>5. ScalperTypes'
  BY <1>1, <1>2, <1>3 DEF ScalperInv, ScalperTypes
<1> QED
  BY <1>1, <1>2, <1>3, <1>4, <1>5 DEF ScalperInv, Covered, OrderIsIntended,
     Ordering, HashIsClaimed, Watching, StepsAgree

-----------------------------------------------------------------------------
\* The steps of the trader. Those that touch neither the claim nor what the
\* process works on move it, or the chain, along.
LEMMA Onward ==
    ASSUME ScalperInv, UNCHANGED <<pending, mine, hash, scalper>>,
           txs' \in Seq(Tx), Len(txs') = Len(txs), DOMAIN txs' = DOMAIN txs,
           NEW place \in Place \ {"idle"}, Goto(Bot, place),
           step = "busy",
           Ordering \/ place \notin {"begin", "approve", "swap", "send", "wait"},
           Watching \/ place \notin {"send", "wait", "filled", "fetch"}
    PROVE  ScalperInv'
<1>1. pc' \in [Process -> Place] /\ pc'[Bot] = place
  BY Moved DEF ScalperInv
<1>2. ScalperTypes'
  BY <1>1 DEF ScalperInv, ScalperTypes, scalper
<1> QED
  BY <1>1, <1>2 DEF ScalperInv, Covered, OrderIsIntended, Ordering, HashIsClaimed,
     Watching, StepsAgree, scalper

\* Within an order the loop is busy.
LEMMA BusyFact ==
    ASSUME ScalperInv, pc[Bot] \notin {"idle", "filled", "fetch"}
    PROVE  step = "busy"
  BY DEF ScalperInv, StepsAgree, ScalperTypes

\* A signed attempt is recorded in the claim.
LEMMA RecordsAttempt ==
    ASSUME ScalperInv, NEW phase \in {"approval", "swap"}, Record(Bot, phase),
           UNCHANGED scalper
    PROVE  ScalperInv'
<1>1. pc[Bot] \in {"approve", "swap"}
  BY DEF Record
<1>2. step = "busy" /\ Ordering
  BY <1>1, BusyFact DEF Ordering
<1> DEFINE n == Len(txs) + 1
<1>3. CASE Holds(mine[Bot])
  <2>1. /\ pending' = WithAttempt(n, phase)
        /\ txs' = Append(txs, [order |-> mine[Bot], phase |-> phase,
                               status |-> "signed"])
        /\ hash' = [hash EXCEPT ![Bot] = n]
        /\ Goto(Bot, "send")
        /\ UNCHANGED mine
    BY <1>3 DEF Record
  <2>2. pc' \in [Process -> Place] /\ pc'[Bot] = "send"
    BY <2>1, Moved DEF ScalperInv, Place
  <2>3. mine[Bot] \in Order /\ pending.order = mine[Bot]
    BY <1>2, <1>3 DEF ScalperInv, OrderIsIntended, Holds
  <2>4. n \in Nat /\ n # 0
    BY DEF ScalperInv, ScalperTypes
  <2>5. /\ txs' \in Seq(Tx) /\ Len(txs') = n
    BY <2>1, <2>3 DEF ScalperInv, ScalperTypes, Tx
  <2> HIDE DEF n
  <2>7. pending' \in ClaimEntry /\ pending'.order = pending.order /\ pending'.tx = n
    BY <2>1, <2>4, Attempted DEF ScalperInv
  <2>8. hash' \in [Process -> Nat] /\ hash'[Bot] = n
    BY <2>1, <2>4 DEF ScalperInv, ScalperTypes
  <2>9. disk.intent = pending.order.action
    <3>1. pending # NoClaim
      BY <2>3, JournalAssumption DEF NoClaim
    <3> QED
      BY <1>2, <3>1 DEF ScalperInv, OrderIsIntended
  <2>10. ScalperTypes'
    BY <2>1, <2>2, <2>4, <2>5, <2>7, <2>8 DEF ScalperInv, ScalperTypes, scalper
  <2>11. n \in DOMAIN txs'
    BY <2>4, <2>5
  <2> QED
    BY <1>2, <2>1, <2>2, <2>3, <2>7, <2>8, <2>9, <2>10, <2>11 DEF ScalperInv, Covered,
       OrderIsIntended, Ordering, HashIsClaimed, Watching, StepsAgree, scalper
<1>4. CASE ~Holds(mine[Bot])
  <2>1. UNCHANGED <<pending, txs, mine, hash>> /\ Goto(Bot, "failed")
    BY <1>4 DEF Record
  <2> QED
    BY <1>2, <2>1, Onward DEF Place, ScalperInv, ScalperTypes
<1> QED
  BY <1>3, <1>4

\* A transaction that changes its status keeps its number.
LEMMA StatusSet ==
    ASSUME ScalperInv, NEW n \in DOMAIN txs, NEW s \in {"sent"} \cup Final, SetStatus(n, s)
    PROVE  txs' \in Seq(Tx) /\ Len(txs') = Len(txs) /\ DOMAIN txs' = DOMAIN txs
  BY SetStatusType DEF ScalperInv, ScalperTypes, Final

\* The broadcast of the recorded attempt, answered or not.
LEMMA SendsAway ==
    ASSUME ScalperInv, Send(Bot) \/ \E taken \in BOOLEAN : SendFails(Bot, taken),
           UNCHANGED scalper
    PROVE  ScalperInv'
<1>1. pc[Bot] = "send" /\ UNCHANGED <<pending, mine, hash>>
  BY DEF Send, SendFails, journal
<1>2. step = "busy" /\ Ordering /\ Watching /\ hash[Bot] \in DOMAIN txs
  BY <1>1, BusyFact DEF ScalperInv, HashIsClaimed, Watching, Ordering
<1>3. SetStatus(hash[Bot], "sent") \/ UNCHANGED txs
  BY DEF Send, SendFails
<1>4. txs' \in Seq(Tx) /\ Len(txs') = Len(txs) /\ DOMAIN txs' = DOMAIN txs
  BY <1>2, <1>3, StatusSet DEF ScalperInv, ScalperTypes
<1>5. Goto(Bot, "wait") \/ Goto(Bot, "failed")
  BY DEF Send, SendFails
<1> QED
  BY <1>1, <1>2, <1>4, <1>5, Onward DEF Place

\* The chain decides a transaction.
LEMMA ChainStep ==
    ASSUME ScalperInv, NEW n \in DOMAIN txs, NEW status \in Final, Mine(n, status),
           UNCHANGED scalper
    PROVE  ScalperInv'
<1>1. UNCHANGED <<pending, pc, mine, hash>> /\ SetStatus(n, status)
  BY DEF Mine, journal, local
<1>2. txs' \in Seq(Tx) /\ Len(txs') = Len(txs) /\ DOMAIN txs' = DOMAIN txs
  BY <1>1, StatusSet
<1>3. ScalperTypes'
  BY <1>1, <1>2 DEF ScalperInv, ScalperTypes, scalper
<1> QED
  BY <1>1, <1>2, <1>3 DEF ScalperInv, Covered, OrderIsIntended, Ordering,
     HashIsClaimed, Watching, StepsAgree, scalper

\* Steps of the trader that touch neither journal nor chain.
LEMMA QuietTraderStep ==
    ASSUME ScalperInv, UNCHANGED scalper,
           Lock(Bot) \/ SkipApproval(Bot) \/ Raise(Bot) \/ Receipt(Bot)
    PROVE  ScalperInv'
<1>1. UNCHANGED <<pending, txs, mine, hash>>
  BY DEF Lock, SkipApproval, Raise, Receipt, journal
<1>2. Ordering /\ pc[Bot] \notin {"idle", "filled", "fetch"}
  BY DEF Lock, SkipApproval, Raise, Receipt, Ordering
<1>3. step = "busy"
  BY <1>2, BusyFact
<1>4. \/ Goto(Bot, "approve") \/ Goto(Bot, "swap") \/ Goto(Bot, "failed")
      \/ Goto(Bot, "filled") /\ Watching
  BY DEF Lock, SkipApproval, Raise, Receipt, Watching
<1> QED
  BY <1>1, <1>2, <1>3, <1>4, Onward DEF Place, ScalperInv, ScalperTypes

\* The trader's steps, put together.
LEMMA TradersStep == ScalperInv /\ TraderStep => ScalperInv'
  BY QuietTraderStep, SendsAway, RecordsAttempt, ChainStep DEF TraderStep

-----------------------------------------------------------------------------
\* The steps of the scalper around those of the trader.
LEMMA MeasureStep == ScalperInv /\ Measure => ScalperInv'
<1> SUFFICES ASSUME ScalperInv, Measure PROVE ScalperInv'
  OBVIOUS
<1>1. /\ pc[Bot] = "wait"
      /\ UNCHANGED <<pending, txs, mine, hash, mem, disk, step, before, drift>>
      /\ out' = Received(mine[Bot])
      /\ Goto(Bot, "failed") \/ Goto(Bot, "swap") \/ Goto(Bot, "filled")
  BY DEF Measure, Receipt, journal
<1>2. step = "busy" /\ Ordering /\ Watching
  BY <1>1, BusyFact DEF Ordering, Watching
<1>3. out' \in Int
  BY <1>1 DEF Received, ScalperInv, ScalperTypes
<1>4. ASSUME NEW place \in {"failed", "swap", "filled"}, Goto(Bot, place)
      PROVE  ScalperInv'
  <2>1. pc' \in [Process -> Place] /\ pc'[Bot] = place
    BY <1>4, Moved DEF ScalperInv, Place
  <2>2. ScalperTypes'
    BY <1>1, <1>3, <2>1 DEF ScalperInv, ScalperTypes
  <2> QED
    BY <1>1, <1>2, <2>1, <2>2 DEF ScalperInv, Covered, OrderIsIntended, Ordering,
       HashIsClaimed, Watching, StepsAgree
<1> QED
  BY <1>1, <1>4

\* A confirmed swap whose output cannot be measured.
LEMMA NoOutputStep == ScalperInv /\ NoOutput => ScalperInv'
<1> SUFFICES ASSUME ScalperInv, NoOutput PROVE ScalperInv'
  OBVIOUS
<1>1. UNCHANGED <<pending, txs, mine, hash, mem, disk, before, drift, out, history>>
  BY DEF NoOutput, journal
<1>2. mem' \in Memory
  BY <1>1 DEF ScalperInv, ScalperTypes
<1>3. CASE pc[Bot] = "wait"
  <2>1. Goto(Bot, "failed") /\ UNCHANGED step
    BY <1>3 DEF NoOutput
  <2>2. step = "busy"
    BY <1>3, BusyFact
  <2> QED
    BY <1>1, <2>1, <2>2, Onward DEF Place, scalper, ScalperInv, ScalperTypes
<1>4. CASE pc[Bot] # "wait"
  <2>1. Goto(Bot, "idle") /\ step' = "quote"
    BY <1>4 DEF NoOutput
  <2> QED
    BY <1>1, <1>2, <2>1, Released
<1> QED
  BY <1>3, <1>4

\* The order ends and its claim with it, or the claim is kept.
LEMMA OrderEndsStep ==
    ASSUME ScalperInv, OrderFails \/ EndOrder \/ EndReconcile
    PROVE  ScalperInv'
<1>1. /\ UNCHANGED <<txs, mine, hash, mem, disk, before, drift, out>>
      /\ Goto(Bot, "idle") /\ step' = "quote"
  BY DEF OrderFails, EndOrder, EndReconcile, Cleanup, Confirm, NotFound, SettleFails, Settle
<1>2. \E o : \/ ConfirmClaim(o, hash[Bot]) \/ RejectClaim(o) \/ ReleaseClaim(o)
            \/ ClearApproval(o) \/ UNCHANGED journal
  BY DEF OrderFails, EndOrder, EndReconcile, Cleanup, Confirm, NotFound, SettleFails,
     Settle, ActOnReceipt
<1>3. pending' = pending \/ pending' = NoClaim
  BY <1>2, ClaimEnds
<1>4. mem' \in Memory
  BY <1>1 DEF ScalperInv, ScalperTypes
<1> QED
  BY <1>1, <1>3, <1>4, Released

\* A restart reads the state file.
LEMMA RestartStep == ScalperInv /\ Restart => ScalperInv'
<1> SUFFICES ASSUME ScalperInv, Restart PROVE ScalperInv'
  OBVIOUS
<1>1. /\ UNCHANGED <<pending, txs, mine, hash, disk, before, drift, out>>
      /\ mem' = disk /\ Goto(Bot, "idle") /\ step' = "quote"
  BY DEF Restart, journal
<1> QED
  BY <1>1, Released DEF ScalperInv, ScalperTypes

\* What is saved as the result of a claim names its transaction.
LEMMA FinalizedFact ==
    ASSUME ScalperInv, pc[Bot] \in {"filled", "fetch"}, NEW gain \in Int
    PROVE  /\ Finalized(gain) \in Memory
           /\ Finalized(gain).intent = "none"
           /\ Finalized(gain).done # 0
           /\ pending # NoClaim => Finalized(gain).done = pending.tx
<1>1. hash[Bot] \in DOMAIN txs /\ (pending # NoClaim => pending.tx = hash[Bot])
  BY DEF ScalperInv, HashIsClaimed, Watching
<1>2. hash[Bot] \in Nat /\ hash[Bot] # 0
  BY <1>1 DEF ScalperInv, ScalperTypes
<1> QED
  BY <1>1, <1>2 DEF Finalized, Memory

\* The result is saved before the claim ends.
LEMMA FinalizeStep == ScalperInv /\ Finalize => ScalperInv'
<1> SUFFICES ASSUME ScalperInv, Finalize PROVE ScalperInv'
  OBVIOUS
<1>1. /\ pc[Bot] \in {"filled", "fetch"} /\ step = "busy"
      /\ UNCHANGED <<pending, txs, mine, hash, before, out, drift>>
  BY DEF Finalize, trader
<1>2. PICK gain \in Int :
        \/ UNCHANGED <<mem, disk>>
        \/ mem' = Finalized(gain) /\ disk' \in {disk, Finalized(gain)}
  <2>1. out \in Int /\ Received(mine[Bot]) \in Int
    BY DEF ScalperInv, ScalperTypes, Received
  <2> QED
    BY <2>1 DEF Finalize, Saved, NotSaved
<1>3. \/ UNCHANGED pc /\ step' = "finalized"
      \/ Goto(Bot, "idle") /\ step' = "quote"
  BY DEF Finalize, CallbackRaises, CallbackReturns
<1>4. /\ pc' \in [Process -> Place]
      /\ \/ pc' = pc /\ step' = "finalized"
         \/ pc'[Bot] = "idle" /\ step' = "quote"
  BY <1>3, Moved DEF Place, ScalperInv, ScalperTypes
<1>5. mem' \in Memory /\ disk' \in Memory
  BY <1>1, <1>2, FinalizedFact DEF ScalperInv, ScalperTypes
<1>6. Covered'
  <2>1. CASE disk' = disk
    BY <1>1, <2>1 DEF ScalperInv, Covered
  <2>2. CASE disk' = Finalized(gain)
    BY <1>1, <2>2, FinalizedFact DEF Covered
  <2> QED
    BY <1>2, <2>1, <2>2
<1>7. ScalperTypes'
  BY <1>1, <1>4, <1>5 DEF ScalperInv, ScalperTypes
<1> QED
  BY <1>1, <1>4, <1>6, <1>7 DEF ScalperInv, OrderIsIntended, Ordering, HashIsClaimed,
     Watching, StepsAgree

\* A refused order, a swap of another bot, a stutter: none of them touches the
\* claim, the file or the process.
LEMMA IdleStep ==
    ASSUME ScalperInv, UNCHANGED <<pending, txs, pc, mine, hash, mem, disk, before, out>>,
           drift' \in Int, UNCHANGED step \/ (step = "begun" /\ step' = "quote")
    PROVE  ScalperInv'
<1>1. ScalperTypes'
  BY DEF ScalperInv, ScalperTypes
<1> QED
  BY <1>1 DEF ScalperInv, Covered, OrderIsIntended, Ordering, HashIsClaimed,
     Watching, StepsAgree

\* Every step keeps the invariant.
LEMMA ScalperInvStep == ScalperInv /\ [ScalperNext]_allVars => ScalperInv'
<1> SUFFICES ASSUME ScalperInv, [ScalperNext]_allVars PROVE ScalperInv'
  OBVIOUS
<1>1. drift \in Int
  BY DEF ScalperInv, ScalperTypes
<1>2. CASE UNCHANGED allVars
  BY <1>1, <1>2, IdleStep DEF allVars, vars, scalper
<1>3. CASE OrderRefused
  BY <1>1, <1>3, IdleStep DEF OrderRefused, trader
<1>4. CASE \E amount \in {-Out, Out} : OtherSwap(amount)
  BY <1>1, <1>4, IdleStep DEF OtherSwap, vars
<1>5. CASE ScalperNext
  BY <1>3, <1>4, <1>5, BeginStep, ClearStep, ReconcileStep, StartOrderStep, TradersStep,
     MeasureStep, NoOutputStep, OrderEndsStep, FinalizeStep, RestartStep DEF ScalperNext
<1> QED
  BY <1>2, <1>5

\* In every state the state file is enough to finish the claim that a restart
\* would find (process_payload, _finalize_result), whatever failed, was saved or
\* not, and whoever else uses the wallet.
THEOREM IntentAlwaysCovers == ScalperSpec => []IntentCoversClaim
<1>1. ScalperInv => IntentCoversClaim
  BY DEF ScalperInv, Covered, IntentCoversClaim
<1> QED
  BY <1>1, ScalperInvInit, ScalperInvStep, PTL DEF ScalperSpec

-----------------------------------------------------------------------------

-----------------------------------------------------------------------------
(***************************************************************************)
(* The scalper and the chain: what it takes for its position is what its     *)
(* swaps have left, and it knows its own fill again. The file may be one     *)
(* result behind the memory; both say what some swap has left.               *)
(***************************************************************************)
Telling(r) ==
    /\ r.intent = "sell" => r.open
    /\ r.done = 0 => ~r.open
    /\ r.done # 0 => /\ r.done \in DOMAIN txs /\ Filled(r.done)
                     /\ r.open <=> txs[r.done].order.action = "buy"

Remembers ==
    /\ Telling(mem) /\ Telling(disk)
    /\ Ordering => mem = disk
    /\ pending # NoClaim =>
          \/ mem = disk
          \/ mem.intent = "none" /\ mem.done # 0 /\ mem.done = pending.tx

\* Whoever works on a claim holds it, and it names its own transaction, which is
\* none before the last confirmation.
ClaimIsHeld ==
    /\ Ordering \/ pc[Bot] \in {"filled", "fetch"}
         => pending # NoClaim /\ pending.order = mine[Bot]
    /\ pending.tx # 0 => /\ txs[pending.tx].order = pending.order
                         /\ mem.done <= pending.tx /\ disk.done <= pending.tx

\* Until others move the balance that the output is measured by, every
\* measurement for a claim is the same.
Steady(o) == FromReceipt(o) \/ ~moved
GainsAgree ==
    pending # NoClaim /\ Steady(pending.order) =>
        /\ Received(pending.order) = Out
        /\ mem.done # 0 /\ mem.done = pending.tx => mem.gain = Out
        /\ disk.done # 0 /\ disk.done = pending.tx => disk.gain = Out
        /\ pc[Bot] = "filled" => out = Out

\* A transaction is out when it may still be included, or was filled and is not
\* known: to the file while a claim is there, to the memory after that. Only the
\* claim's may be, until a restart has read a stale file.
Known == IF pending = NoClaim THEN mem.done ELSE disk.done
IsOut(n) == txs[n].status = "sent" \/ (Filled(n) /\ n > Known)
NoneOut == \A n \in DOMAIN txs : ~IsOut(n)
OnlyTheClaims ==
    ~lost => \A n \in DOMAIN txs : IsOut(n) => pending # NoClaim /\ pending.tx = n
NoneOutYet ==
    ~lost => /\ pc[Bot] \in {"begin", "approve", "swap"} => NoneOut
             /\ (Ordering \/ pc[Bot] = "failed") /\ ~attempted[Bot] => NoneOut

\* What the places of the trader say of the transaction.
Places ==
    /\ attempted \in [Process -> BOOLEAN] /\ reverted \in [Process -> BOOLEAN]
    /\ Ordering => ~reverted[Bot]
    /\ pc[Bot] = "failed" /\ reverted[Bot] =>
          /\ hash[Bot] \in DOMAIN txs /\ txs[hash[Bot]].status = "reverted"
          /\ pending.tx = hash[Bot]
    /\ pc[Bot] = "send" => /\ hash[Bot] \in DOMAIN txs
                           /\ txs[hash[Bot]].status = "signed"
    /\ pc[Bot] = "filled" => Filled(hash[Bot])
    /\ step = "finalized" => mem.done = hash[Bot] /\ Filled(hash[Bot])

FillInv ==
    /\ ScalperInv
    /\ Remembers /\ ClaimIsHeld /\ GainsAgree /\ OnlyTheClaims /\ NoneOutYet
    /\ Places

\* At the start nothing is bought.
LEMMA FillInvInit == ScalperInit => FillInv
<1> SUFFICES ASSUME ScalperInit PROVE FillInv
  OBVIOUS
<1>1. ScalperInv
  BY ScalperInvInit
<1>2. Remembers /\ ClaimIsHeld /\ GainsAgree
  BY DEF ScalperInit, Init, Remembers, Telling, ClaimIsHeld, GainsAgree, Ordering,
     NoState, NoClaim
<1>3. OnlyTheClaims /\ NoneOutYet /\ Places
  BY DEF ScalperInit, Init, OnlyTheClaims, NoneOutYet, NoneOut, Places, Ordering
<1> QED
  BY <1>1, <1>2, <1>3 DEF FillInv

\* What the steps below need of the invariant.
LEMMA FillFacts ==
    ASSUME FillInv
    PROVE  /\ pc \in [Process -> Place] /\ reverted \in [Process -> BOOLEAN]
           /\ mem.done \in Nat /\ disk.done \in Nat
           /\ \A n \in DOMAIN txs : n \in Nat /\ n # 0
           /\ Watching => hash[Bot] \in DOMAIN txs /\ hash[Bot] # 0
           /\ Watching => pending # NoClaim /\ pending.tx = hash[Bot]
           /\ Ordering => pending # NoClaim /\ pending.order = mine[Bot] /\ ~reverted[Bot]
           /\ pending # NoClaim => disk.done <= mem.done
<1>1. ScalperTypes /\ HashIsClaimed /\ ClaimIsHeld /\ Places /\ Remembers
  BY DEF FillInv, ScalperInv
<1>2. mem.done \in Nat /\ disk.done \in Nat /\ \A n \in DOMAIN txs : n \in Nat /\ n # 0
  BY <1>1 DEF ScalperTypes, Memory
<1>3. pending # NoClaim => disk.done <= mem.done
  BY <1>1, <1>2 DEF Remembers, ClaimIsHeld
<1> QED
  BY <1>1, <1>2, <1>3 DEF ScalperTypes, HashIsClaimed, ClaimIsHeld, Places, Watching, Ordering

\* Without a claim nothing is out, unless a result was lost.
LEMMA FreeIsClear == FillInv /\ pending = NoClaim /\ ~lost => NoneOut
  BY DEF FillInv, OnlyTheClaims, NoneOut

\* Between orders the memory and the chain agree.
LEMMA PositionFollows == FillInv => PositionIsReal
<1> SUFFICES ASSUME FillInv, Between, pending = NoClaim, ~lost
             PROVE  mem.open <=> \E n \in DOMAIN txs :
                        LastFilled(n) /\ txs[n].order.action = "buy"
  BY DEF PositionIsReal
<1>1. /\ mem.done \in Nat /\ mem.open \in BOOLEAN
      /\ \A n \in DOMAIN txs : n \in Nat /\ n # 0
  BY DEF FillInv, ScalperInv, ScalperTypes, Memory
<1>2. \A n \in DOMAIN txs : Filled(n) => n <= mem.done
  BY <1>1, FreeIsClear DEF NoneOut, IsOut, Known
<1>3. CASE mem.done = 0
  BY <1>1, <1>2, <1>3 DEF FillInv, Remembers, Telling, LastFilled
<1>4. CASE mem.done # 0
  <2>1. mem.done \in DOMAIN txs /\ Filled(mem.done)
        /\ (mem.open <=> txs[mem.done].order.action = "buy")
    BY <1>4 DEF FillInv, Remembers, Telling
  <2>2. LastFilled(mem.done)
    BY <1>2, <2>1 DEF LastFilled
  <2>3. ASSUME NEW n \in DOMAIN txs, LastFilled(n) PROVE n = mem.done
    <3>1. Filled(n) /\ mem.done <= n
      BY <2>1, <2>3 DEF LastFilled
    <3>2. n <= mem.done
      BY <1>2, <2>3, <3>1
    <3> QED
      BY <1>1, <2>3, <3>1, <3>2
  <2> QED
    BY <2>1, <2>2, <2>3
<1> QED
  BY <1>3, <1>4

\* What a reconciliation hands over is the intent, or its replay.
LEMMA CallbackFollows == FillInv => CallbackAccepts
<1> SUFFICES ASSUME FillInv, Reconciling, FromReceipt(mine[Bot]) \/ ~moved
             PROVE  Matches \/ Replay(Received(mine[Bot]))
  BY DEF CallbackAccepts
<1>1. pc[Bot] = "fetch"
  BY DEF Reconciling
<1>2. /\ pending # NoClaim /\ pending.order = mine[Bot]
      /\ pending.tx = hash[Bot]
  BY <1>1 DEF FillInv, ScalperInv, ClaimIsHeld, HashIsClaimed, Watching
<1>3. /\ Received(mine[Bot]) = Out
      /\ mem.done # 0 /\ mem.done = pending.tx => mem.gain = Out
  BY <1>2 DEF FillInv, GainsAgree, Steady
<1>4. CASE mem.intent = "none" /\ mem.done # 0 /\ mem.done = pending.tx
  BY <1>2, <1>3, <1>4 DEF Replay
<1>5. CASE mem = disk /\ disk.intent = pending.order.action
  BY <1>2, <1>5 DEF Matches, FillInv, Remembers, Telling
<1> QED
  BY <1>2, <1>4, <1>5 DEF FillInv, ScalperInv, Covered, Remembers

-----------------------------------------------------------------------------
\* What a step that leaves the memory, the file and the balances alone keeps.
LEMMA FillKept ==
    ASSUME FillInv, UNCHANGED <<pending, mem, disk, before, drift, history>>,
           pc'[Bot] = "filled" => /\ pc[Bot] # "filled"
                                  /\ Steady(pending.order) => out' = Out
    PROVE  GainsAgree'
  BY DEF FillInv, GainsAgree, Steady, FromReceipt, Received, history

\* A step that leaves the claim, the chain and the memory alone moves the
\* process from one place to another.
LEMMA FillMove ==
    ASSUME FillInv, ScalperInv',
           UNCHANGED <<pending, txs, mine, hash, mem, disk, drift, before, attempted, history>>,
           reverted' \in [Process -> BOOLEAN],
           NEW place \in Place \ {"send"}, pc'[Bot] = place,
           place = "filled" => /\ Filled(hash[Bot]) /\ pc[Bot] # "filled"
                               /\ Steady(pending.order) => out' = Out,
           place \in {"begin", "approve", "swap", "wait", "filled", "fetch"}
             => pending # NoClaim /\ pending.order = mine[Bot],
           place \in {"begin", "approve", "swap", "wait"} => mem = disk,
           place \in {"begin", "approve", "swap"} /\ ~lost => NoneOut,
           place \in {"wait", "failed"} /\ ~attempted[Bot] /\ ~lost => NoneOut,
           place \in {"begin", "approve", "swap", "wait"} => ~reverted'[Bot],
           place = "failed" /\ reverted'[Bot] =>
              /\ hash[Bot] \in DOMAIN txs /\ txs[hash[Bot]].status = "reverted"
              /\ pending.tx = hash[Bot],
           step' # "finalized"
    PROVE  FillInv'
<1>1. Remembers'
  BY DEF FillInv, Remembers, Telling, Filled, Ordering
<1>2. OnlyTheClaims'
  BY DEF FillInv, OnlyTheClaims, IsOut, Filled, Known, history
<1>3. ClaimIsHeld'
  BY DEF FillInv, ClaimIsHeld, Ordering
<1>4. NoneOutYet'
  BY DEF FillInv, NoneOutYet, NoneOut, IsOut, Filled, Known, Ordering, history
<1>5. Places'
  BY DEF FillInv, Places, Filled, Ordering
<1> QED
  BY <1>1, <1>2, <1>3, <1>4, <1>5, FillKept DEF FillInv

\* While an order may still sign, the memory is what the file says.
LEMMA OrderFacts ==
    ASSUME FillInv, Ordering
    PROVE  /\ mem = disk /\ pending # NoClaim /\ pending.order = mine[Bot]
           /\ ~reverted[Bot] /\ (~attempted[Bot] /\ ~lost => NoneOut)
           /\ pc[Bot] \in {"begin", "approve", "swap"} /\ ~lost => NoneOut
           /\ pc[Bot] # "filled"
  BY FillFacts DEF FillInv, Remembers, NoneOutYet, Ordering

\* Steps of the trader that change neither the claim nor the chain.
LEMMA FillQuiet ==
    ASSUME FillInv, ScalperInv', step' # "finalized", UNCHANGED scalper,
           Lock(Bot) \/ SkipApproval(Bot) \/ Raise(Bot)
    PROVE  FillInv'
<1>1. /\ UNCHANGED <<pending, txs, mine, hash, attempted, reverted>>
      /\ UNCHANGED <<mem, disk, drift, before, history>>
  BY DEF Lock, SkipApproval, Raise, journal, scalper
<1>2. Ordering
  BY DEF Lock, SkipApproval, Raise, Ordering
<1>4. CASE Lock(Bot)
  <2>1. pc'[Bot] = "approve" /\ pc[Bot] = "begin"
    BY <1>4, FillFacts DEF Lock, Goto
  <2> QED
    BY <1>1, <1>2, <2>1, FillFacts, OrderFacts, FillMove DEF Place
<1>5. CASE SkipApproval(Bot)
  <2>1. pc'[Bot] = "swap" /\ pc[Bot] = "approve"
    BY <1>5, FillFacts DEF SkipApproval, Goto
  <2> QED
    BY <1>1, <1>2, <2>1, FillFacts, OrderFacts, FillMove DEF Place
<1>6. CASE Raise(Bot)
  <2>1. pc'[Bot] = "failed"
    BY <1>6, FillFacts DEF Raise, Goto
  <2> QED
    BY <1>1, <1>2, <2>1, FillFacts, OrderFacts, FillMove DEF Place
<1> QED
  BY <1>4, <1>5, <1>6

\* The receipt: of an approval, which is no fill, of a reverted transaction, or
\* of the fill, when the output was measured.
LEMMA FillReceipt ==
    ASSUME FillInv, ScalperInv', step' # "finalized", Receipt(Bot),
           UNCHANGED <<mem, disk, step, before, drift, history>>,
           Filled(hash[Bot]) /\ Steady(pending.order) => out' = Out
    PROVE  FillInv'
<1>1. /\ pc[Bot] = "wait" /\ Ordering /\ Watching
      /\ UNCHANGED <<pending, txs, mine, hash, attempted>>
      /\ txs[hash[Bot]].status \in Final
  BY DEF Receipt, journal, Ordering, Watching
<1>2. hash[Bot] \in DOMAIN txs /\ txs[hash[Bot]] \in Tx
  BY <1>1, FillFacts DEF FillInv, ScalperInv, ScalperTypes
<1>3. CASE txs[hash[Bot]].status = "reverted"
  <2>1. pc'[Bot] = "failed" /\ reverted' = [reverted EXCEPT ![Bot] = TRUE]
    BY <1>3, FillFacts DEF Receipt, Goto
  <2> QED
    BY <1>1, <1>2, <1>3, <2>1, FillFacts, OrderFacts, FillMove DEF Place
<1>4. CASE txs[hash[Bot]].status # "reverted" /\ txs[hash[Bot]].phase = "approval"
  <2>1. pc'[Bot] = "swap" /\ UNCHANGED reverted
    BY <1>4, FillFacts DEF Receipt, Goto
  <2>2. ~IsOut(hash[Bot])
    BY <1>1, <1>4 DEF IsOut, Filled, Final
  <2>3. ~lost => NoneOut
    BY <1>1, <2>2, FillFacts DEF FillInv, OnlyTheClaims, NoneOut
  <2> QED
    BY <1>1, <2>1, <2>3, FillFacts, OrderFacts, FillMove DEF Place
<1>5. CASE txs[hash[Bot]].status # "reverted" /\ txs[hash[Bot]].phase # "approval"
  <2>1. pc'[Bot] = "filled" /\ UNCHANGED reverted
    BY <1>5, FillFacts DEF Receipt, Goto
  <2>2. Filled(hash[Bot])
    BY <1>1, <1>2, <1>5 DEF Filled, Final, Tx
  <2> QED
    BY <1>1, <2>1, <2>2, FillFacts, OrderFacts, FillMove DEF Place
<1> QED
  BY <1>3, <1>4, <1>5

\* The output is measured as the difference of two balances.
LEMMA FillMeasure == FillInv /\ Measure /\ ScalperInv' => FillInv'
<1> SUFFICES ASSUME FillInv, Measure, ScalperInv' PROVE FillInv'
  OBVIOUS
<1>1. /\ Receipt(Bot) /\ UNCHANGED <<mem, disk, step, before, drift, history>>
      /\ out' = Received(mine[Bot]) /\ pc[Bot] = "wait"
  BY DEF Measure
<1>2. step = "busy"
  BY <1>1, BusyFact DEF FillInv
<1>3. pending # NoClaim /\ pending.order = mine[Bot]
  BY <1>1, FillFacts DEF Ordering
<1>4. Steady(pending.order) => out' = Out
  BY <1>1, <1>3 DEF FillInv, GainsAgree
<1> QED
  BY <1>1, <1>2, <1>4, FillReceipt

\* Signing: the transaction is new, and nothing else is out.
LEMMA FillRecord ==
    ASSUME FillInv, ScalperInv', NEW phase \in {"approval", "swap"}, Record(Bot, phase),
           UNCHANGED scalper
    PROVE  FillInv'
<1>1. /\ pc[Bot] \in {"approve", "swap"} /\ Ordering
      /\ UNCHANGED <<mine, attempted, reverted, mem, disk, step, before, drift, out, history>>
  BY DEF Record, Ordering, scalper
<1>2. step = "busy"
  BY <1>1, BusyFact DEF FillInv
<1>3. pending # NoClaim /\ pending.order = mine[Bot] /\ ~reverted[Bot] /\ mem = disk
  BY <1>1, OrderFacts
<1>4. ~lost => NoneOut
  BY <1>1, OrderFacts
<1> DEFINE n == Len(txs) + 1
<1> DEFINE tx == [order |-> mine[Bot], phase |-> phase, status |-> "signed"]
<1>5. /\ pending' = WithAttempt(n, phase)
      /\ txs' = Append(txs, tx)
      /\ hash' = [hash EXCEPT ![Bot] = n]
      /\ Goto(Bot, "send")
  BY <1>3 DEF Record, Holds
<1>6. pc'[Bot] = "send"
  BY <1>5, FillFacts DEF Goto
<1>7. tx.order = mine[Bot] /\ tx.status = "signed" /\ tx.phase = phase
  OBVIOUS
<1>8. /\ txs \in Seq(Tx) /\ pending \in ClaimEntry
  BY DEF FillInv, ScalperInv, ScalperTypes
<1>9. n \in Nat /\ n # 0 /\ n \notin DOMAIN txs
  BY <1>8
<1>10. tx \in Tx
  BY <1>1 DEF FillInv, ScalperInv, OrderIsIntended, Tx
<1> HIDE DEF tx
<1>11. /\ DOMAIN txs' = DOMAIN txs \cup {n}
       /\ \A m \in DOMAIN txs : txs'[m] = txs[m]
       /\ txs'[n] = tx
  BY <1>5, <1>8, <1>10
<1>12. /\ mem.done \in Nat /\ (mem.done # 0 => mem.done \in DOMAIN txs)
       /\ mem.done <= n
  <2>1. mem.done \in Nat /\ (mem.done # 0 => mem.done \in DOMAIN txs)
    BY FillFacts DEF FillInv, Remembers, Telling
  <2>2. mem.done \in 0 .. Len(txs)
    BY <1>8, <2>1
  <2> QED
    BY <1>8, <2>1, <2>2
<1> HIDE DEF n
<1>13. pending'.order = mine[Bot] /\ pending'.tx = n
  <2>1. pending'.order = pending.order /\ pending'.tx = n
    BY <1>5, <1>9, Attempted DEF FillInv, ScalperInv
  <2> QED
    BY <1>3, <2>1
<1>14. pending' # NoClaim
  BY <1>9, <1>13, NoClaimFact
<1>15. ~lost => NoneOut'
  BY <1>1, <1>3, <1>4, <1>7, <1>11, <1>14 DEF NoneOut, IsOut, Filled, Known
<1>16. Remembers'
  BY <1>1, <1>3, <1>11, <1>12 DEF FillInv, Remembers, Telling, Filled
<1>17. GainsAgree'
  <2>1. mem.done # n
    BY <1>9, <1>12
  <2>2. Steady(pending.order)' => Received(pending.order)' = Out
    BY <1>1, <1>3, <1>13 DEF FillInv, GainsAgree, Steady, Received, FromReceipt, history
  <2> QED
    BY <1>1, <1>3, <1>6, <1>13, <2>1, <2>2 DEF GainsAgree, history
<1>18. ClaimIsHeld'
  BY <1>1, <1>3, <1>7, <1>11, <1>12, <1>13, <1>14 DEF ClaimIsHeld
<1>19. OnlyTheClaims' /\ NoneOutYet'
  BY <1>1, <1>15 DEF OnlyTheClaims, NoneOutYet, NoneOut, history
<1>20. Places'
  <2>1. hash'[Bot] = n
    BY <1>5 DEF FillInv, ScalperInv, ScalperTypes
  <2> QED
    BY <1>1, <1>2, <1>3, <1>6, <1>7, <1>11, <2>1 DEF FillInv, Places, Ordering
<1> QED
  BY <1>16, <1>17, <1>18, <1>19, <1>20 DEF FillInv

\* Setting the status of a transaction that no block has included.
LEMMA FillStatus ==
    ASSUME FillInv, NEW n \in DOMAIN txs, NEW s \in {"sent"} \cup Final, SetStatus(n, s),
           txs[n].status \in {"signed", "sent"}, UNCHANGED <<pending, mem, disk>>
    PROVE  /\ DOMAIN txs' = DOMAIN txs
           /\ \A m \in DOMAIN txs : txs'[m].order = txs[m].order
           /\ \A m \in DOMAIN txs : m # n => txs'[m] = txs[m]
           /\ \A m \in DOMAIN txs : m # n => (IsOut(m)' <=> IsOut(m))
           /\ \A m \in DOMAIN txs : txs[m].status \in Final => m # n
           /\ Telling(mem)' /\ Telling(disk)'
<1>1. /\ DOMAIN txs' = DOMAIN txs
      /\ txs'[n].order = txs[n].order
      /\ \A m \in DOMAIN txs : m # n => txs'[m] = txs[m]
  BY SetStatusType DEF FillInv, ScalperInv, ScalperTypes, Final
<1>2. \A m \in DOMAIN txs : txs[m].status \in Final => m # n
  BY DEF Final
<1>3. Telling(mem)' /\ Telling(disk)'
  BY <1>1, <1>2 DEF FillInv, Remembers, Telling, Filled, Final
<1> QED
  BY <1>1, <1>2, <1>3 DEF IsOut, Filled, Known

\* The broadcast of the attempt.
LEMMA FillSend ==
    ASSUME FillInv, ScalperInv', Send(Bot) \/ \E taken \in BOOLEAN : SendFails(Bot, taken),
           UNCHANGED scalper
    PROVE  FillInv'
<1>1. /\ pc[Bot] = "send" /\ Ordering /\ Watching
      /\ UNCHANGED <<pending, mine, hash, reverted>>
      /\ UNCHANGED <<mem, disk, step, before, drift, out, history>>
      /\ attempted' = [attempted EXCEPT ![Bot] = TRUE]
      /\ SetStatus(hash[Bot], "sent") \/ UNCHANGED txs
      /\ Goto(Bot, "wait") \/ Goto(Bot, "failed")
  BY DEF Send, SendFails, journal, Ordering, Watching, scalper
<1>2. step = "busy"
  BY <1>1, BusyFact DEF FillInv
<1>3. /\ hash[Bot] \in DOMAIN txs /\ pending # NoClaim /\ pending.tx = hash[Bot]
      /\ pending.order = mine[Bot] /\ ~reverted[Bot] /\ hash[Bot] # 0
      /\ txs[hash[Bot]].status = "signed" /\ mem = disk
  BY <1>1, FillFacts, OrderFacts DEF FillInv, Places
<1>4. pc'[Bot] \in {"wait", "failed"}
  BY <1>1, FillFacts DEF Goto
<1>5. attempted' \in [Process -> BOOLEAN] /\ attempted'[Bot]
  BY <1>1 DEF FillInv, Places
<1>6. /\ DOMAIN txs' = DOMAIN txs
      /\ \A m \in DOMAIN txs : txs'[m].order = txs[m].order
      /\ \A m \in DOMAIN txs : m # hash[Bot] => (IsOut(m)' <=> IsOut(m))
      /\ Telling(mem)' /\ Telling(disk)'
  <2>1. CASE SetStatus(hash[Bot], "sent")
    BY <1>1, <1>3, <2>1, FillStatus
  <2>2. CASE UNCHANGED txs
    BY <1>1, <2>2 DEF IsOut, Filled, Known, FillInv, Remembers, Telling
  <2> QED
    BY <1>1, <2>1, <2>2
<1>7. Remembers'
  BY <1>1, <1>3, <1>6 DEF Remembers
<1>8. ClaimIsHeld'
  BY <1>1, <1>3, <1>6 DEF FillInv, ClaimIsHeld
<1>9. OnlyTheClaims'
  BY <1>1, <1>3, <1>6 DEF FillInv, OnlyTheClaims, history
<1>10. NoneOutYet' /\ Places'
  BY <1>1, <1>2, <1>3, <1>4, <1>5 DEF FillInv, NoneOutYet, Places, Ordering
<1>11. GainsAgree'
  BY <1>1, <1>4, FillKept
<1> QED
  BY <1>7, <1>8, <1>9, <1>10, <1>11 DEF FillInv

\* The chain decides the attempt of this claim, as there is no other.
LEMMA FillChain ==
    ASSUME FillInv, ScalperInv', NEW n \in DOMAIN txs, NEW status \in Final,
           Mine(n, status), UNCHANGED scalper
    PROVE  FillInv'
<1>1. /\ UNCHANGED <<pending, pc, mine, hash, attempted, reverted>>
      /\ UNCHANGED <<mem, disk, step, before, drift, out, history>>
      /\ SetStatus(n, status) /\ txs[n].status = "sent"
  BY DEF Mine, journal, local, scalper
<1>2. /\ DOMAIN txs' = DOMAIN txs
      /\ \A m \in DOMAIN txs : txs'[m].order = txs[m].order
      /\ \A m \in DOMAIN txs : m # n => txs'[m] = txs[m]
      /\ \A m \in DOMAIN txs : m # n => (IsOut(m)' <=> IsOut(m))
      /\ \A m \in DOMAIN txs : txs[m].status \in Final => m # n
      /\ Telling(mem)' /\ Telling(disk)'
  BY <1>1, FillStatus
<1>3. IsOut(n) /\ (~lost => pending # NoClaim /\ pending.tx = n)
  BY <1>1 DEF IsOut, FillInv, OnlyTheClaims
<1>4. Remembers'
  BY <1>1, <1>2 DEF FillInv, Remembers, Ordering
<1>5. pending.tx \in Nat /\ (pending.tx # 0 => pending.tx \in DOMAIN txs)
  BY DEF FillInv, ScalperInv, ScalperTypes
<1>6. ClaimIsHeld'
  BY <1>1, <1>2, <1>5 DEF FillInv, ClaimIsHeld, Ordering
<1>7. OnlyTheClaims'
  BY <1>1, <1>2, <1>3 DEF FillInv, OnlyTheClaims, history
<1>8. NoneOutYet'
  BY <1>1, <1>3 DEF FillInv, NoneOutYet, NoneOut, Ordering, history
<1>9. \A m \in DOMAIN txs : Filled(m) \/ txs[m].status = "reverted" => txs'[m] = txs[m]
  BY <1>2 DEF Filled, Final
<1>10. pc[Bot] = "filled" \/ step = "finalized" => hash[Bot] \in DOMAIN txs
  BY FillFacts DEF FillInv, ScalperInv, StepsAgree, Watching
<1>11. \A m \in DOMAIN txs : /\ Filled(m) => Filled(m)'
                            /\ txs[m].status = "reverted" => txs'[m].status = "reverted"
  BY <1>9 DEF Filled
<1>12. pc[Bot] = "send" => n # hash[Bot] /\ txs'[hash[Bot]] = txs[hash[Bot]]
  <2>1. pc[Bot] = "send" => hash[Bot] \in DOMAIN txs /\ txs[hash[Bot]].status = "signed"
    BY DEF FillInv, Places
  <2> QED
    BY <1>1, <1>2, <2>1
<1>13. Filled(hash[Bot]) /\ hash[Bot] \in DOMAIN txs => Filled(hash[Bot])'
  <2>1. hash'[Bot] = hash[Bot]
    BY <1>1
  <2>2. Filled(hash[Bot]) /\ hash[Bot] \in DOMAIN txs
          => txs'[hash[Bot]] = txs[hash[Bot]]
    BY <1>9
  <2> QED
    BY <2>1, <2>2 DEF Filled
<1>14. Places
  BY DEF FillInv
<1>15. Places'
  BY <1>1, <1>2, <1>10, <1>11, <1>12, <1>13, <1>14 DEF Places, Ordering
<1>16. GainsAgree'
  BY <1>1 DEF FillInv, GainsAgree, Steady, Received, FromReceipt, history
<1> QED
  BY <1>4, <1>6, <1>7, <1>8, <1>15, <1>16 DEF FillInv

\* The steps between two orders change the intent only.
LEMMA FillFile ==
    ASSUME FillInv, ScalperInv', BeginIntent \/ ClearIntent
    PROVE  FillInv'
<1>1. /\ Between /\ pending = NoClaim
      /\ UNCHANGED <<pending, txs, pc, mine, hash, attempted, reverted>>
      /\ UNCHANGED <<before, out, drift, history>>
  BY DEF BeginIntent, ClearIntent, MayClearIntent, trader
<1>2. step' # "finalized"
  BY DEF BeginIntent, ClearIntent, Between
<1>3. PICK intent \in {"none", IF mem.open THEN "sell" ELSE "buy"} :
        mem' = [mem EXCEPT !.intent = intent] /\ disk' \in {disk, mem'}
  BY DEF BeginIntent, ClearIntent, Saved, NotSaved
<1>4. /\ mem'.open = mem.open /\ mem'.done = mem.done /\ mem'.gain = mem.gain
      /\ mem'.intent = "sell" => mem'.open
  BY <1>3 DEF FillInv, ScalperInv, ScalperTypes, Memory
<1>5. pc[Bot] = "idle"
  BY <1>1 DEF Between
<1>6. Remembers'
  <2>1. Telling(mem)'
    BY <1>1, <1>4 DEF FillInv, Remembers, Telling, Filled
  <2>2. Telling(disk)'
    <3>1. CASE disk' = disk
      BY <1>1, <3>1 DEF FillInv, Remembers, Telling, Filled
    <3>2. CASE disk' = mem'
      BY <2>1, <3>2 DEF Telling
    <3> QED
      BY <1>3, <3>1, <3>2
  <2> QED
    BY <1>1, <1>5, <2>1, <2>2 DEF Remembers, Ordering
<1>7. OnlyTheClaims'
  BY <1>1, <1>4 DEF FillInv, OnlyTheClaims, IsOut, Filled, Known, history
<1>8. ClaimIsHeld' /\ GainsAgree'
  BY <1>1, <1>5, NoClaimFact DEF ClaimIsHeld, GainsAgree, Ordering
<1>9. NoneOutYet' /\ Places'
  BY <1>1, <1>2, <1>5 DEF FillInv, NoneOutYet, Places, Ordering
<1> QED
  BY <1>6, <1>7, <1>8, <1>9 DEF FillInv

\* An order starts from the balance it reads, under an intent that is saved.
LEMMA FillStartOrder ==
    ASSUME FillInv, ScalperInv', NEW o \in Order, StartOrder(o)
    PROVE  FillInv'
<1>1. /\ step = "begun" /\ pending = NoClaim /\ step' = "busy"
      /\ pending' = [order |-> o, tx |-> 0, phase |-> "none"]
      /\ Goto(Bot, "begin") /\ mine' = [mine EXCEPT ![Bot] = o]
      /\ attempted' = [attempted EXCEPT ![Bot] = FALSE]
      /\ reverted' = [reverted EXCEPT ![Bot] = FALSE]
      /\ before' = drift /\ moved' = FALSE
      /\ UNCHANGED <<txs, mem, disk, out, drift, lost>>
  BY DEF StartOrder, Claim
<1>2. pc'[Bot] = "begin"
  BY <1>1, FillFacts DEF Goto
<1>3. mine'[Bot] = o /\ pending'.order = o /\ pending'.tx = 0
  BY <1>1 DEF FillInv, ScalperInv, ScalperTypes
<1>4. pending' # NoClaim
  BY <1>3, JournalAssumption DEF NoClaim
<1>5. mem = disk
  BY <1>1 DEF FillInv, ScalperInv, StepsAgree
<1>6. ~lost => NoneOut'
  BY <1>1, <1>5, FreeIsClear DEF NoneOut, IsOut, Filled, Known
<1>7. Remembers'
  BY <1>1, <1>5 DEF FillInv, Remembers, Telling, Filled
<1>8. OnlyTheClaims' /\ NoneOutYet'
  BY <1>1, <1>6 DEF OnlyTheClaims, NoneOutYet, NoneOut
<1>9. ClaimIsHeld'
  BY <1>2, <1>3, <1>4 DEF ClaimIsHeld
<1>10. GainsAgree'
  <2>1. drift \in Int /\ Out + drift - drift = Out
    BY DEF FillInv, ScalperInv, ScalperTypes
  <2>2. Received(pending.order)' = Out
    BY <1>1, <2>1 DEF Received
  <2> QED
    BY <1>1, <1>2, <1>3, <2>2 DEF GainsAgree
<1>11. Places'
  BY <1>1, <1>2 DEF FillInv, Places, Ordering
<1> QED
  BY <1>7, <1>8, <1>9, <1>10, <1>11 DEF FillInv

\* The claim a restart found is looked up.
LEMMA FillReconcile == FillInv /\ StartReconcile /\ ScalperInv' => FillInv'
<1> SUFFICES ASSUME FillInv, StartReconcile, ScalperInv' PROVE FillInv'
  OBVIOUS
<1>1. /\ step' = "busy" /\ pending.tx # 0 /\ Goto(Bot, "fetch")
      /\ mine' = [mine EXCEPT ![Bot] = pending.order]
      /\ UNCHANGED <<pending, txs, mem, disk, attempted, reverted>>
      /\ UNCHANGED <<before, drift, out, history>>
  BY DEF StartReconcile, ReadPending, journal
<1>2. pc'[Bot] = "fetch" /\ mine'[Bot] = pending.order /\ pending # NoClaim
  BY <1>1, FillFacts, NoClaimFact DEF Goto, FillInv, ScalperInv, ScalperTypes
<1>3. Remembers' /\ OnlyTheClaims'
  BY <1>1, <1>2 DEF FillInv, Remembers, Telling, Ordering, OnlyTheClaims, IsOut, Filled,
     Known, history
<1>4. ClaimIsHeld' /\ NoneOutYet' /\ Places'
  BY <1>1, <1>2 DEF FillInv, ClaimIsHeld, NoneOutYet, Places, Ordering
<1>5. GainsAgree'
  BY <1>1, <1>2, FillKept
<1> QED
  BY <1>3, <1>4, <1>5 DEF FillInv

\* The process is idle again, and what is out is still the claim's.
LEMMA FillEnd ==
    ASSUME FillInv, ScalperInv', pc'[Bot] = "idle", step' = "quote",
           UNCHANGED <<txs, mem, disk, before, drift, attempted, reverted, history>>,
           pending' = pending \/ (pending' = NoClaim /\ (~lost => NoneOut'))
    PROVE  FillInv'
<1>1. Remembers'
  BY DEF FillInv, Remembers, Telling, Filled, Ordering
<1>2. OnlyTheClaims'
  <2>1. CASE pending' = pending
    BY <2>1 DEF FillInv, OnlyTheClaims, IsOut, Filled, Known, history
  <2>2. CASE pending' # pending
    BY <2>2 DEF OnlyTheClaims, NoneOut, history
  <2> QED
    BY <2>1, <2>2
<1>3. ClaimIsHeld'
  BY NoClaimFact DEF FillInv, ClaimIsHeld, Ordering
<1>4. NoneOutYet' /\ Places'
  BY DEF FillInv, NoneOutYet, Places, Ordering
<1>5. GainsAgree'
  <2>1. CASE pending' = pending
    BY <2>1, FillKept
  <2>2. CASE pending' # pending
    BY <2>2 DEF GainsAgree
  <2> QED
    BY <2>1, <2>2
<1> QED
  BY <1>1, <1>2, <1>3, <1>4, <1>5 DEF FillInv

\* What was not out stays in when the claim ends: the memory knows no less than
\* the file.
LEMMA StaysIn ==
    ASSUME FillInv, UNCHANGED <<txs, mem, disk>>, pending' = NoClaim,
           NEW n \in DOMAIN txs, IsOut(n)'
    PROVE  /\ IsOut(n)
           /\ txs[n].status = "sent" \/ (Filled(n) /\ n > mem.done)
<1>1. Known' = mem.done
  BY DEF Known
<1>2. txs[n].status = "sent" \/ (Filled(n) /\ n > mem.done)
  BY <1>1 DEF IsOut, Filled
<1>3. Known \in Nat /\ Known <= mem.done
  BY FillFacts DEF Known
<1>4. n \in Nat /\ mem.done \in Nat
  BY FillFacts
<1> QED
  BY <1>2, <1>3, <1>4 DEF IsOut

\* The order ends.
LEMMA FillOrderEnds ==
    ASSUME FillInv, ScalperInv', OrderFails \/ EndOrder \/ EndReconcile
    PROVE  FillInv'
<1>1. /\ Goto(Bot, "idle") /\ step' = "quote"
      /\ UNCHANGED <<txs, mem, disk, before, drift, attempted, reverted, history>>
  BY DEF OrderFails, EndOrder, EndReconcile, Cleanup, Confirm, NotFound, SettleFails, Settle
<1>2. pc'[Bot] = "idle"
  BY <1>1, FillFacts DEF Goto
<1>3. pending' = pending \/ pending' = NoClaim
  <2>1. \E o : \/ ConfirmClaim(o, hash[Bot]) \/ RejectClaim(o) \/ ReleaseClaim(o)
              \/ ClearApproval(o) \/ UNCHANGED journal
    BY DEF OrderFails, EndOrder, EndReconcile, Cleanup, Confirm, NotFound, SettleFails,
       Settle, ActOnReceipt
  <2> QED
    BY <2>1, ClaimEnds
<1>4. pending' = NoClaim /\ NoneOut => NoneOut'
  BY <1>1, StaysIn DEF NoneOut
<1>5. CASE OrderFails
  <2>1. pc[Bot] = "failed"
    BY <1>5 DEF OrderFails, Cleanup
  <2>2. CASE reverted[Bot]
    <3>1. pending.tx = hash[Bot] /\ txs[hash[Bot]].status = "reverted"
      BY <2>1, <2>2 DEF FillInv, Places
    <3>2. ~IsOut(hash[Bot])
      BY <3>1 DEF IsOut, Filled
    <3>3. ~lost => NoneOut
      BY <3>1, <3>2 DEF FillInv, OnlyTheClaims, NoneOut
    <3> QED
      BY <1>1, <1>2, <1>3, <1>4, <3>3, FillEnd
  <2>3. CASE ~reverted[Bot] /\ ~attempted[Bot]
    <3>1. ~lost => NoneOut
      BY <2>1, <2>3 DEF FillInv, NoneOutYet
    <3> QED
      BY <1>1, <1>2, <1>3, <1>4, <3>1, FillEnd
  <2>4. CASE ~reverted[Bot] /\ attempted[Bot]
    <3>1. pending' = pending
      BY <1>5, <2>4 DEF OrderFails, Cleanup, MayRelease, journal
    <3> QED
      BY <1>1, <1>2, <3>1, FillEnd
  <2> QED
    BY <2>2, <2>3, <2>4
<1>6. ASSUME pc[Bot] \in {"filled", "fetch"}, txs[hash[Bot]].status \in Final,
             Filled(hash[Bot]) => step = "finalized"
      PROVE  FillInv'
  <2>1. pending.tx = hash[Bot]
    BY <1>6, FillFacts DEF Watching
  <2>2. hash[Bot] \in Nat /\ (Filled(hash[Bot]) => mem.done = hash[Bot])
    BY <1>6 DEF FillInv, ScalperInv, ScalperTypes, Places
  <2>3. ~(txs[hash[Bot]].status = "sent" \/ (Filled(hash[Bot]) /\ hash[Bot] > mem.done))
    BY <1>6, <2>2 DEF Final
  <2>4. pending' = NoClaim /\ ~lost => NoneOut'
    <3>1. SUFFICES ASSUME pending' = NoClaim, ~lost, NEW n \in DOMAIN txs, IsOut(n)'
                   PROVE  FALSE
      BY <1>1 DEF NoneOut
    <3>2. IsOut(n) /\ (txs[n].status = "sent" \/ (Filled(n) /\ n > mem.done))
      BY <1>1, <3>1, StaysIn
    <3>3. n = hash[Bot]
      BY <2>1, <3>1, <3>2 DEF FillInv, OnlyTheClaims
    <3> QED
      BY <2>3, <3>2, <3>3
  <2> QED
    BY <1>1, <1>2, <1>3, <2>4, FillEnd
<1>7. CASE EndOrder
  <2>1. pc[Bot] = "filled" /\ step = "finalized" /\ Filled(hash[Bot])
    BY <1>7 DEF EndOrder, MayConfirm, Confirm, FillInv, Places
  <2> QED
    BY <1>6, <2>1 DEF Filled, Final
<1>8. CASE EndReconcile
  <2>1. CASE NotFound(Bot) \/ SettleFails(Bot)
    BY <1>1, <1>2, <2>1, FillEnd DEF NotFound, SettleFails, journal
  <2>2. CASE Settle(Bot) /\ (Filled(hash[Bot]) => MayConfirm)
    BY <1>6, <2>2 DEF Settle, MayConfirm
  <2> QED
    BY <1>8, <2>1, <2>2 DEF EndReconcile
<1> QED
  BY <1>5, <1>7, <1>8

\* A refused order leaves everything as it was.
LEMMA FillRefused ==
    ASSUME FillInv, ScalperInv', OrderRefused
    PROVE  FillInv'
<1>1. /\ UNCHANGED <<pending, txs, mem, disk, before, drift, attempted, reverted, history>>
      /\ step' = "quote" /\ UNCHANGED pc /\ step = "begun"
  BY DEF OrderRefused, trader
<1>2. pc'[Bot] = "idle"
  BY <1>1 DEF FillInv, ScalperInv, StepsAgree
<1> QED
  BY <1>1, <1>2, FillEnd

\* A restart reads what was saved: of a claim that is there the result may be
\* missing, of one that is gone the missing result is noted.
LEMMA FillRestart ==
    ASSUME FillInv, ScalperInv', Restart
    PROVE  FillInv'
<1>1. /\ UNCHANGED <<pending, txs, disk, before, drift, attempted, reverted, moved>>
      /\ step' = "quote" /\ mem' = disk
      /\ lost' = (lost \/ (pending = NoClaim /\ disk.done # mem.done))
      /\ Goto(Bot, "idle")
  BY DEF Restart, journal
<1>2. pc'[Bot] = "idle"
  BY <1>1, FillFacts DEF Goto
<1>3. Remembers'
  BY <1>1 DEF FillInv, Remembers, Telling, Filled
<1>4. OnlyTheClaims'
  <2>1. ~lost' => ~lost /\ Known' = Known
    BY <1>1 DEF Known
  <2> QED
    BY <1>1, <2>1 DEF FillInv, OnlyTheClaims, IsOut, Filled
<1>5. ClaimIsHeld' /\ NoneOutYet' /\ Places'
  BY <1>1, <1>2 DEF FillInv, ClaimIsHeld, NoneOutYet, Places, Ordering
<1>6. GainsAgree'
  BY <1>1, <1>2 DEF FillInv, GainsAgree, Steady, Received, FromReceipt
<1> QED
  BY <1>3, <1>4, <1>5, <1>6 DEF FillInv

\* Another bot swaps: outputs that are read from a receipt stay as they were.
LEMMA FillOther ==
    ASSUME FillInv, ScalperInv', NEW amount, OtherSwap(amount)
    PROVE  FillInv'
<1>1. /\ UNCHANGED <<pending, txs, pc, mine, hash, attempted, reverted>>
      /\ UNCHANGED <<mem, disk, step, before, out, lost>>
      /\ moved' = TRUE
  BY DEF OtherSwap, vars
<1>2. Remembers' /\ OnlyTheClaims'
  BY <1>1 DEF FillInv, Remembers, Telling, Ordering, OnlyTheClaims, IsOut, Filled, Known
<1>3. ClaimIsHeld' /\ NoneOutYet' /\ Places'
  BY <1>1 DEF FillInv, ClaimIsHeld, NoneOutYet, NoneOut, IsOut, Known, Filled, Places, Ordering
<1>4. GainsAgree'
  BY <1>1 DEF FillInv, GainsAgree, Steady, Received, FromReceipt
<1> QED
  BY <1>2, <1>3, <1>4 DEF FillInv

\* A result that has no measurable output is left to a later reconciliation.
LEMMA FillNoOutput ==
    ASSUME FillInv, ScalperInv', NoOutput
    PROVE  FillInv'
<1>1. /\ UNCHANGED <<pending, txs, mine, hash, mem, disk, drift, before, attempted, history>>
      /\ UNCHANGED <<reverted>>
      /\ pc[Bot] \in {"wait", "fetch"}
  BY DEF NoOutput, journal
<1>2. CASE pc[Bot] = "wait"
  <2>1. Goto(Bot, "failed") /\ UNCHANGED step
    BY <1>2 DEF NoOutput
  <2>2. pc'[Bot] = "failed" /\ step' = "busy"
    BY <1>2, <2>1, FillFacts, BusyFact DEF Goto, FillInv
  <2> QED
    BY <1>1, <1>2, <2>2, FillFacts, OrderFacts, FillMove DEF Place, Ordering
<1>3. CASE pc[Bot] = "fetch"
  <2>1. Goto(Bot, "idle") /\ step' = "quote"
    BY <1>3 DEF NoOutput
  <2>2. pc'[Bot] = "idle"
    BY <2>1, FillFacts DEF Goto
  <2> QED
    BY <1>1, <2>1, <2>2, FillEnd
<1> QED
  BY <1>1, <1>2, <1>3

\* What is saved as the result of a filled claim is what its swap has left.
LEMMA ResultTells ==
    ASSUME FillInv, pc[Bot] \in {"filled", "fetch"}, Filled(hash[Bot]), Matches,
           NEW gain \in Int
    PROVE  Telling(Finalized(gain))
<1>1. /\ hash[Bot] \in DOMAIN txs /\ hash[Bot] # 0
      /\ pending # NoClaim /\ pending.tx = hash[Bot] /\ pending.order = mine[Bot]
      /\ txs[hash[Bot]].order = mine[Bot]
  BY FillFacts DEF FillInv, ClaimIsHeld, Watching
<1>2. mem.intent = txs[hash[Bot]].order.action
  BY <1>1 DEF Matches
<1> QED
  BY <1>1, <1>2 DEF Telling, Finalized

\* The result is saved, with the order's own transaction, whether or not the
\* callback then returns.
LEMMA FillSaved ==
    ASSUME FillInv, ScalperInv', pc[Bot] \in {"filled", "fetch"}, Filled(hash[Bot]),
           Matches, NEW gain \in Int, Steady(mine[Bot]) => gain = Out,
           UNCHANGED <<pending, txs, mine, hash, attempted, reverted>>,
           UNCHANGED <<before, out, drift, history>>,
           mem' = Finalized(gain),
           \/ disk' = mem' /\ UNCHANGED pc /\ step' = "finalized"
           \/ disk' \in {disk, mem'} /\ pc'[Bot] = "idle" /\ step' = "quote"
    PROVE  FillInv'
<1>1. /\ hash[Bot] \in DOMAIN txs /\ hash[Bot] # 0 /\ hash[Bot] \in Nat
      /\ pending # NoClaim /\ pending.tx = hash[Bot] /\ pending.order = mine[Bot]
      /\ txs[hash[Bot]].order = mine[Bot] /\ disk.done <= hash[Bot]
  <2>1. hash[Bot] \in Nat
    BY DEF FillInv, ScalperInv, ScalperTypes
  <2> QED
    BY <2>1, FillFacts DEF FillInv, ClaimIsHeld, Watching
<1>2. mem'.intent = "none" /\ mem'.done = hash[Bot] /\ mem'.gain = gain
  BY DEF Finalized
<1>3. /\ disk' \in {disk, mem'}
      /\ pc'[Bot] \in {"idle", "filled", "fetch"}
      /\ pc'[Bot] = "filled" => pc[Bot] = "filled"
  OBVIOUS
<1>4. Remembers'
  <2>1. Telling(mem')
    BY ResultTells
  <2>2. Telling(mem)'
    BY <2>1 DEF Telling, Filled
  <2>3. Telling(disk)'
    <3>1. CASE disk' = disk
      BY <3>1 DEF FillInv, Remembers, Telling, Filled
    <3>2. CASE disk' = mem'
      BY <2>2, <3>2 DEF Telling
    <3> QED
      BY <1>3, <3>1, <3>2
  <2> QED
    BY <1>1, <1>2, <1>3, <2>2, <2>3 DEF Remembers, Ordering
<1>5. disk'.done \in Nat /\ disk.done <= disk'.done /\ disk'.done <= hash[Bot]
  BY <1>1, <1>2, <1>3, FillFacts
<1>6. \A n \in DOMAIN txs : IsOut(n)' => IsOut(n)
  BY <1>1, <1>5, FillFacts DEF IsOut, Filled, Known
<1>7. OnlyTheClaims'
  BY <1>6 DEF FillInv, OnlyTheClaims, history
<1>8. ClaimIsHeld'
  BY <1>1, <1>2, <1>3, <1>5 DEF ClaimIsHeld, Ordering
<1>9. NoneOutYet'
  BY <1>3 DEF NoneOutYet, Ordering
<1>10. Places'
  BY <1>2, <1>3 DEF FillInv, Places, Filled, Ordering
<1>11. GainsAgree'
  BY <1>1, <1>2, <1>3 DEF FillInv, GainsAgree, Steady, Received, FromReceipt, history
<1> QED
  BY <1>4, <1>7, <1>8, <1>9, <1>10, <1>11 DEF FillInv

\* The result is saved, or known already, or refused.
LEMMA FillFinalize == FillInv /\ Finalize /\ ScalperInv' => FillInv'
<1> SUFFICES ASSUME FillInv, Finalize, ScalperInv' PROVE FillInv'
  OBVIOUS
<1> DEFINE gain == IF pc[Bot] = "filled" THEN out ELSE Received(mine[Bot])
<1>1. /\ pc[Bot] \in {"filled", "fetch"} /\ Watching
      /\ UNCHANGED <<pending, txs, mine, hash, attempted, reverted>>
      /\ UNCHANGED <<before, out, drift, history>>
  BY DEF Finalize, trader, Watching
<1>2. Filled(hash[Bot])
  BY DEF Finalize, FillInv, Places
<1>3. gain \in Int
  BY DEF Received, FillInv, ScalperInv, ScalperTypes
<1>4. Steady(mine[Bot]) => gain = Out
  BY <1>1 DEF FillInv, ClaimIsHeld, GainsAgree
<1>5. \/ Replay(gain) /\ CallbackReturns /\ UNCHANGED <<mem, disk>>
      \/ Matches /\ Saved(Finalized(gain)) /\ CallbackReturns
      \/ Matches /\ NotSaved(Finalized(gain)) /\ CallbackRaises
      \/ CallbackRaises /\ UNCHANGED <<mem, disk>>
  BY DEF Finalize
<1>6. CallbackRaises => pc'[Bot] = "idle" /\ step' = "quote"
  BY FillFacts DEF CallbackRaises, Goto
<1> HIDE DEF gain
<1>7. CASE Replay(gain) /\ CallbackReturns /\ UNCHANGED <<mem, disk>>
  <2>1. UNCHANGED <<mem, disk, pc>> /\ mem.done = hash[Bot]
    BY <1>7 DEF Replay, CallbackReturns
  <2>2. Remembers' /\ OnlyTheClaims'
    BY <1>1, <2>1 DEF FillInv, Remembers, Telling, Ordering, OnlyTheClaims, IsOut, Filled,
       Known, history
  <2>3. ClaimIsHeld' /\ NoneOutYet'
    BY <1>1, <2>1 DEF FillInv, ClaimIsHeld, NoneOutYet, Ordering
  <2>4. Places'
    BY <1>1, <1>2, <2>1 DEF FillInv, Places, Ordering, Filled
  <2>5. GainsAgree'
    BY <1>1, <2>1 DEF FillInv, GainsAgree, Steady, Received, FromReceipt, history
  <2> QED
    BY <2>2, <2>3, <2>4, <2>5 DEF FillInv
<1>8. CASE Matches /\ Saved(Finalized(gain)) /\ CallbackReturns
  BY <1>1, <1>2, <1>3, <1>4, <1>8, FillSaved DEF Saved, CallbackReturns
<1>9. CASE Matches /\ NotSaved(Finalized(gain)) /\ CallbackRaises
  BY <1>1, <1>2, <1>3, <1>4, <1>6, <1>9, FillSaved DEF NotSaved
<1>10. CASE CallbackRaises /\ UNCHANGED <<mem, disk>>
  BY <1>1, <1>6, <1>10, FillEnd
<1> QED
  BY <1>5, <1>7, <1>8, <1>9, <1>10

\* The trader's steps, put together.
LEMMA FillTraderStep ==
    ASSUME FillInv, ScalperInv', TraderStep
    PROVE  FillInv'
<1>1. UNCHANGED scalper /\ UNCHANGED <<mem, disk, step, before, drift, history>>
  BY DEF TraderStep, scalper
<1>2. CASE Lock(Bot) \/ SkipApproval(Bot) \/ Raise(Bot)
  <2>1. step = "busy"
    BY <1>2, BusyFact DEF FillInv, Lock, SkipApproval, Raise
  <2> QED
    BY <1>1, <1>2, <2>1, FillQuiet
<1>3. CASE pc[Bot] = "wait" /\ ~Filled(hash[Bot]) /\ Receipt(Bot)
  <2>1. step = "busy"
    BY <1>3, BusyFact DEF FillInv
  <2> QED
    BY <1>1, <1>3, <2>1, FillReceipt
<1> QED
  BY <1>2, <1>3, FillSend, FillRecord, FillChain DEF TraderStep

\* Every step keeps the invariant.
LEMMA FillInvStep == FillInv /\ [ScalperNext]_allVars => FillInv'
<1> SUFFICES ASSUME FillInv, [ScalperNext]_allVars PROVE FillInv'
  OBVIOUS
<1>1. ScalperInv'
  BY ScalperInvStep DEF FillInv
<1>2. CASE UNCHANGED allVars
  <2>1. /\ UNCHANGED <<pending, txs, pc, mine, hash, attempted, reverted>>
        /\ UNCHANGED <<mem, disk, step, before, out, drift, history>>
    BY <1>2 DEF allVars, vars, scalper
  <2>2. Remembers' /\ OnlyTheClaims'
    BY <2>1 DEF FillInv, Remembers, Telling, Ordering, OnlyTheClaims, IsOut, Filled,
       Known, history
  <2>3. ClaimIsHeld' /\ NoneOutYet' /\ Places'
    BY <2>1 DEF FillInv, ClaimIsHeld, NoneOutYet, NoneOut, IsOut, Filled, Known, Places,
       Ordering, history
  <2>4. GainsAgree'
    BY <2>1 DEF FillInv, GainsAgree, Steady, Received, FromReceipt, history
  <2> QED
    BY <1>1, <2>2, <2>3, <2>4 DEF FillInv
<1>3. CASE ScalperNext
  BY <1>1, <1>3, FillFile, FillReconcile, FillStartOrder, FillRefused, FillTraderStep,
     FillMeasure, FillNoOutput, FillOrderEnds, FillFinalize, FillRestart, FillOther
     DEF ScalperNext
<1> QED
  BY <1>2, <1>3

\* The second inductive invariant: the position in memory, the one on disk, the
\* claim and the chain agree, as far as the writes of the file have succeeded
\* (bot/live_scalper.py, bot/trader.py).
LEMMA FillsHold == ScalperSpec => []FillInv
  BY FillInvInit, FillInvStep, PTL DEF ScalperSpec

\* "This local-only intent is safe to release": until a restart has read a file
\* that lacks the result of a claim already gone, the position the scalper works
\* with is the one its confirmed swaps have left in the wallet.
THEOREM PositionsAreReal == ScalperSpec => []PositionIsReal
  BY FillsHold, PositionFollows, PTL

\* A confirmed claim of this scalper is never refused by its own callback, unless
\* others have moved the balance its output is measured by.
THEOREM CallbacksAccept == ScalperSpec => []CallbackAccepts
  BY FillsHold, CallbackFollows, PTL

-----------------------------------------------------------------------------
(***************************************************************************)
(* The journal under the scalper. Its steps are those of the trade journal, *)
(* or leave journal and chain alone.                                        *)
(***************************************************************************)
\* A fault is met, a lock let go, a place left: nothing else of the trader.
Quietly ==
    /\ UNCHANGED <<journal, txs, mine, hash, attempted, reverted, used>>
    /\ UNCHANGED faults \/ Fault
    /\ UNCHANGED lock \/ Unlock(Bot)
    /\ \/ UNCHANGED pc \/ Goto(Bot, "idle")
       \/ pc[Bot] = "wait" /\ Goto(Bot, "failed")

\* Every step of the scalper is one or the other.
LEMMA JournalStep == [ScalperNext]_allVars => [Next]_vars \/ Quietly
<1> SUFFICES ASSUME [ScalperNext]_allVars PROVE [Next]_vars \/ Quietly
  OBVIOUS
<1>1. CASE BeginIntent \/ ClearIntent \/ OrderRefused \/ Finalize
  BY <1>1 DEF BeginIntent, ClearIntent, OrderRefused, Finalize, CallbackRaises,
     CallbackReturns, Saved, NotSaved, trader, journal, Quietly
<1>2. CASE NoOutput
  BY <1>2 DEF NoOutput, Quietly
<1>3. CASE Restart
  BY <1>3 DEF Restart, Quietly
<1>4. CASE \E amount \in {-Out, Out} : OtherSwap(amount)
  BY <1>4 DEF OtherSwap
<1>5. CASE StartReconcile \/ (\E o \in Order : StartOrder(o)) \/ OrderFails
             \/ EndOrder \/ EndReconcile \/ Measure
  BY <1>5 DEF StartReconcile, StartOrder, OrderFails, EndOrder, EndReconcile, Measure,
     Next, Execute
<1>6. CASE TraderStep
  BY <1>6 DEF TraderStep, Next, Execute
<1>7. CASE UNCHANGED allVars
  BY <1>7 DEF allVars
<1> QED
  BY <1>1, <1>2, <1>3, <1>4, <1>5, <1>6, <1>7 DEF ScalperNext

\* A quiet step keeps the types.
LEMMA QuietTypes == TypeInv /\ Quietly => TypeInv'
<1> SUFFICES ASSUME TypeInv, Quietly PROVE TypeInv'
  OBVIOUS
<1>1. /\ UNCHANGED <<pending, trades, staged, txs, mine, hash, attempted, reverted, used>>
      /\ faults' \in 0..MaxFaults
  BY FaultCount DEF Quietly, journal, TypeInv, TypeOK
<1>2. lock' \in Process \cup {NoProcess}
  BY DEF Quietly, Unlock, TypeInv, TypeOK
<1>3. /\ pc' \in [Process -> Place]
      /\ \A p \in Process : pc'[p] \in {pc[p], "idle"} \/ (pc[p] = "wait" /\ pc'[p] = "failed")
  BY DEF Quietly, Goto, TypeInv, TypeOK, Place
<1>4. TypeOK'
  BY <1>1, <1>2, <1>3 DEF TypeInv, TypeOK, ClaimOK
<1>5. HashKnown' /\ WorkKnown'
  BY <1>1, <1>3 DEF TypeInv, HashKnown, WorkKnown, Working
<1> QED
  BY <1>4, <1>5 DEF TypeInv

\* And the invariant of the journal.
LEMMA JournalQuiet == JournalInv /\ Quietly => JournalInv'
<1> SUFFICES ASSUME JournalInv, Quietly PROVE JournalInv'
  OBVIOUS
<1>1. TypeInv'
  BY QuietTypes DEF JournalInv
<1>2. UNCHANGED <<journal, txs, mine, hash, attempted, reverted, used>>
  BY DEF Quietly
<1>3. CASE UNCHANGED pc
  BY <1>1, <1>2, <1>3 DEF journal, JournalInv, ClaimNamesItsOwn, OwnOrders, HashIsOwn,
     ClaimFollows, Holds, Unsent, ApprovalDone, NoForgottenBroadcast, OutcomesAreTrue,
     Swaps, Recorded
<1>4. CASE Goto(Bot, "idle") \/ (pc[Bot] = "wait" /\ Goto(Bot, "failed"))
  BY <1>1, <1>2, <1>4, QuietStep DEF Goto, Working
<1> QED
  BY <1>3, <1>4 DEF Quietly

\* A scalper that restarts, retries and repeats its orders keeps the promises of
\* the journal: no swap that may be on the chain is forgotten, and the outcomes
\* recorded are those of the chain. It has the journal to itself, which is what
\* lets two of its claims share a fingerprint.
THEOREM ScalperKeepsJournal == ScalperSpec => [](NoForgottenBroadcast /\ OutcomesAreTrue)
<1>1. ScalperInit => JournalInv
  BY JournalInit DEF ScalperInit
<1>2. JournalInv /\ [ScalperNext]_allVars => JournalInv'
  <2>1. OrdersApart
    BY DEF OrdersApart
  <2> QED
    BY <2>1, JournalStep, JournalNext, JournalQuiet
<1>3. JournalInv => NoForgottenBroadcast /\ OutcomesAreTrue
  BY DEF JournalInv
<1> QED
  BY <1>1, <1>2, <1>3, PTL DEF ScalperSpec

\* Nor does it take more from the ledger of swaps than the journal does: a claim
\* of the scalper is left with what the chain made of its swap, and only then.
THEOREM ScalperKeepsTheSwaps == ScalperSpec => KeepsTheSwaps
<1>1. OrdersApart
  BY DEF OrdersApart
<1>2. ScalperInit => JournalInv /\ Ledger!Init
  BY JournalInit, LedgerInit DEF ScalperInit
<1>3. JournalInv /\ [ScalperNext]_allVars => JournalInv'
  BY <1>1, JournalStep, JournalNext, JournalQuiet
<1>4. JournalInv /\ [ScalperNext]_allVars => [Ledger!Next]_(Ledger!ledger)
  <2>1. Quietly => UNCHANGED Ledger!ledger
    BY LedgerStill DEF Quietly, journal
  <2> QED
    BY <1>1, <2>1, JournalStep, LedgerNext
<1> QED
  BY <1>2, <1>3, <1>4, PTL DEF ScalperSpec, KeepsTheSwaps, Ledger!Spec

=============================================================================
