--------------------------- MODULE CheckoutProofs ---------------------------
(***************************************************************************)
(* Proofs about the license checkout, for any intents, transactions, status *)
(* requests, downloads and mishaps. The row of an intent, the requests that *)
(* are about to write it and the payments on the chain are related by       *)
(* CheckoutInv; the updates of the table are proved one by one.             *)
(***************************************************************************)
EXTENDS CheckoutFlow, TLAPS

Row ==
    [status : {"none", "pending", "verified", "expired"},
     signature : Signature \cup {NoSignature}, late : BOOLEAN,
     over : BOOLEAN, claim : {"none", "fresh", "old"}, downloaded : BOOLEAN]

PollEntry ==
    [step : {"idle", "asked", "expiring", "searching", "recording", "answered"},
     of : Intent \cup {"none"}, found : Signature \cup {NoSignature},
     answer : {"none", "pending", "verified", "expired", "error"}, link : BOOLEAN]

TransferEntry ==
    [step : {"idle", "sending", "done"}, of : Intent \cup {"none"}]

ServerTypes ==
    /\ row \in [Intent -> Row]
    /\ paid \in [Signature -> SUBSET Intent]
    /\ poll \in [Poll -> PollEntry]
    /\ transfer \in [Transfer -> TransferEntry]
    /\ received \subseteq Intent
    /\ mishaps \in Nat

\* Only a verified row has a signature, one that pays for it and that no other
\* row has.
RowsAreSigned ==
    \A i \in Intent :
        /\ row[i].status = "verified" => row[i].signature # NoSignature
        /\ row[i].signature # NoSignature =>
              /\ row[i].status = "verified"
              /\ row[i].signature \in Payments(i)
              /\ \A j \in Intent \ {i} : row[j].signature # row[i].signature

\* A request at work is about an intent, and what it is about to record pays
\* for this intent.
Working(p) == poll[p].step \in {"asked", "expiring", "searching", "recording"}
PollsAreSound ==
    \A p \in Poll :
        /\ Working(p) => poll[p].of \in Intent
        /\ poll[p].step = "recording" => poll[p].found \in Payments(poll[p].of)

TransfersAreSound ==
    \A d \in Transfer : transfer[d].step # "idle" => transfer[d].of \in Intent

\* Only requests for an intent are answered with one.
PostsAreSound ==
    \A i \in Intent \cup {Refused} : post[i] = "created" => i \in Intent

CheckoutInv ==
    /\ ServerTypes /\ PageTypeOK
    /\ RowsAreSigned /\ PollsAreSound /\ TransfersAreSound /\ PostsAreSound

\* No intent has a row yet, and nobody asks.
LEMMA CheckoutInvInit == Init => CheckoutInv
<1> SUFFICES ASSUME Init PROVE CheckoutInv
  OBVIOUS
<1> USE DEF Init, CheckoutInit
<1>1. ServerTypes
  BY MishapAssumption DEF ServerTypes, Row, PollEntry, TransferEntry, Absent, IdlePoll, IdleTransfer
<1>2. PageTypeOK
  BY DEF PageTypeOK, Closed
<1>3. RowsAreSigned
  BY DEF RowsAreSigned, Absent
<1>4. PollsAreSound
  BY DEF PollsAreSound, Working, IdlePoll
<1>5. TransfersAreSound
  BY DEF TransfersAreSound, IdleTransfer
<1>6. PostsAreSound
  BY DEF PostsAreSound
<1> QED
  BY <1>1, <1>2, <1>3, <1>4, <1>5, <1>6 DEF CheckoutInv

-----------------------------------------------------------------------------
\* How much of the state an action leaves alone decides what is to be shown of
\* it. The status requests: a step of one request.
LEMMA PollKept ==
    ASSUME CheckoutInv, NEW p \in Poll, poll' \in [Poll -> PollEntry],
           \A q \in Poll \ {p} : poll'[q] = poll[q],
           poll'[p].step \in {"idle", "answered"}
              \/ (poll'[p].of \in Intent
                  /\ (poll'[p].step = "recording"
                        => poll'[p].found \in Payments(poll'[p].of))),
           paid' = paid
    PROVE  PollsAreSound'
  BY DEF CheckoutInv, PollsAreSound, Working, Payments

\* An answer, whatever the request was doing.
LEMMA AnsweredFact ==
    ASSUME CheckoutInv, NEW p \in Poll,
           NEW value \in {"none", "pending", "verified", "expired", "error"},
           Answered(p, value)
    PROVE  /\ poll' \in [Poll -> PollEntry]
           /\ \A q \in Poll \ {p} : poll'[q] = poll[q]
           /\ poll'[p].step = "answered"
<1>1. poll \in [Poll -> PollEntry] /\ poll[p] \in PollEntry
  BY DEF CheckoutInv, ServerTypes
<1>2. PICK link \in BOOLEAN :
        poll' = [poll EXCEPT ![p] = [@ EXCEPT !.step = "answered",
                   !.found = NoSignature, !.answer = value, !.link = link]]
  BY DEF Answered
<1>3. ASSUME NEW e \in PollEntry
      PROVE  LET f == [e EXCEPT !.step = "answered", !.found = NoSignature,
                                !.answer = value, !.link = link]
             IN  f \in PollEntry /\ f.step = "answered"
  BY DEF PollEntry
<1> QED
  BY <1>1, <1>2, <1>3

\* The table: what a step does that touches no status and no signature.
LEMMA RowsKept ==
    ASSUME CheckoutInv, paid' = paid,
           \A i \in Intent : /\ row'[i].status = row[i].status
                             /\ row'[i].signature = row[i].signature
    PROVE  RowsAreSigned'
  BY DEF CheckoutInv, RowsAreSigned, Payments

\* A row with other flags.
LEMMA FlagFact ==
    ASSUME NEW e \in Row
    PROVE  /\ LET f == [e EXCEPT !.late = TRUE] IN
              f \in Row /\ f.status = e.status /\ f.signature = e.signature
           /\ LET f == [e EXCEPT !.over = TRUE] IN
              f \in Row /\ f.status = e.status /\ f.signature = e.signature
           /\ \A c \in {"none", "fresh", "old"} : LET f == [e EXCEPT !.claim = c] IN
              f \in Row /\ f.status = e.status /\ f.signature = e.signature
           /\ LET f == [e EXCEPT !.downloaded = TRUE, !.claim = "none"] IN
              f \in Row /\ f.status = e.status /\ f.signature = e.signature
  BY DEF Row

\* A step that sets a flag of one row.
LEMMA RowFlagged ==
    ASSUME CheckoutInv, NEW i \in Intent, NEW e \in Row,
           row' = [row EXCEPT ![i] = e], paid' = paid,
           e.status = row[i].status, e.signature = row[i].signature
    PROVE  row' \in [Intent -> Row] /\ RowsAreSigned'
<1>1. row \in [Intent -> Row]
  BY DEF CheckoutInv, ServerTypes
<1> QED
  BY <1>1, RowsKept

-----------------------------------------------------------------------------
\* The steps of the server, one after the other.
LEMMA PayStep ==
    ASSUME CheckoutInv, NEW s \in Signature, NEW covered \in SUBSET Intent,
           Pay(s, covered), UNCHANGED client
    PROVE  CheckoutInv'
<1>1. /\ paid \in [Signature -> SUBSET Intent] /\ paid[s] = {}
      /\ paid' = [paid EXCEPT ![s] = covered]
      /\ UNCHANGED <<row, poll, transfer, received, mishaps, page, post, mine>>
  BY DEF Pay, CheckoutInv, ServerTypes, work, client
<1>2. \A i \in Intent : Payments(i) \subseteq Payments(i)'
  BY <1>1 DEF Payments
<1>3. ServerTypes' /\ PageTypeOK' /\ TransfersAreSound' /\ PostsAreSound'
  BY <1>1 DEF CheckoutInv, ServerTypes, PageTypeOK, TransfersAreSound, PostsAreSound
<1>4. RowsAreSigned'
  BY <1>1, <1>2 DEF CheckoutInv, RowsAreSigned
<1>5. PollsAreSound'
  BY <1>1, <1>2 DEF CheckoutInv, PollsAreSound, Working
<1> QED
  BY <1>3, <1>4, <1>5 DEF CheckoutInv

\* A deadline passes, of an intent, its grant or its claim.
LEMMA DeadlineStep ==
    ASSUME CheckoutInv, NEW i \in Intent,
           IntentIsLate(i) \/ GrantIsOver(i) \/ ClaimIsOld(i), UNCHANGED client
    PROVE  CheckoutInv'
<1>1. row \in [Intent -> Row] /\ row[i] \in Row
  BY DEF CheckoutInv, ServerTypes
<1>2. UNCHANGED <<paid, poll, transfer, received, mishaps, page, post, mine>>
  BY DEF IntentIsLate, GrantIsOver, ClaimIsOld, work, client
<1>3. PICK e \in Row : /\ row' = [row EXCEPT ![i] = e]
                       /\ e.status = row[i].status /\ e.signature = row[i].signature
  <2>1. CASE IntentIsLate(i)
    BY <1>1, <2>1, FlagFact DEF IntentIsLate
  <2>2. CASE GrantIsOver(i)
    BY <1>1, <2>2, FlagFact DEF GrantIsOver
  <2>3. CASE ClaimIsOld(i)
    BY <1>1, <2>3, FlagFact DEF ClaimIsOld
  <2> QED
    BY <2>1, <2>2, <2>3
<1>4. row' \in [Intent -> Row] /\ RowsAreSigned'
  BY <1>2, <1>3, RowFlagged
<1> QED
  BY <1>2, <1>4 DEF CheckoutInv, ServerTypes, PageTypeOK, PollsAreSound, Working, Payments,
     TransfersAreSound, PostsAreSound

\* The steps of a status request that only change the request.
LEMMA PollOnly ==
    ASSUME CheckoutInv, poll' \in [Poll -> PollEntry], PollsAreSound',
           mishaps' \in Nat, UNCHANGED <<row, paid, transfer, received, client>>
    PROVE  CheckoutInv'
<1>1. ServerTypes' /\ PageTypeOK'
  BY DEF CheckoutInv, ServerTypes, PageTypeOK, client
<1>2. RowsAreSigned'
  BY RowsKept
<1>3. TransfersAreSound' /\ PostsAreSound'
  BY DEF CheckoutInv, TransfersAreSound, PostsAreSound, client
<1> QED
  BY <1>1, <1>2, <1>3 DEF CheckoutInv

\* The answer of a status request leaves the rows alone.
LEMMA AnswerStep ==
    ASSUME CheckoutInv, NEW p \in Poll,
           NEW value \in {"none", "pending", "verified", "expired", "error"},
           Answered(p, value), mishaps' \in Nat,
           UNCHANGED <<row, paid, transfer, received, client>>
    PROVE  CheckoutInv'
<1>1. poll' \in [Poll -> PollEntry] /\ PollsAreSound'
  BY AnsweredFact, PollKept
<1> QED
  BY <1>1, PollOnly

\* A request with another step, and with something found.
LEMMA PollEntryFact ==
    ASSUME NEW e \in PollEntry, NEW f \in Signature \cup {NoSignature},
           NEW s \in {"expiring", "searching", "recording"}
    PROVE  /\ LET g == [e EXCEPT !.step = s] IN
              g \in PollEntry /\ g.of = e.of /\ g.step = s
           /\ LET g == [[e EXCEPT !.step = s] EXCEPT !.found = f] IN
              g \in PollEntry /\ g.of = e.of /\ g.step = s /\ g.found = f
  BY DEF PollEntry

\* A request that reads a row is about an intent.
LEMMA LoadStep ==
    ASSUME CheckoutInv, NEW p \in Poll, Load(p), UNCHANGED client
    PROVE  CheckoutInv'
<1>1. /\ poll \in [Poll -> PollEntry] /\ poll[p] \in PollEntry /\ poll[p].step = "asked"
      /\ poll[p].of \in Intent /\ row[poll[p].of] \in Row
      /\ UNCHANGED <<row, paid, transfer, received, client>> /\ mishaps' \in Nat
  BY DEF Load, CheckoutInv, ServerTypes, PollsAreSound, Working, rows
<1>2. CASE row[poll[p].of].status # "pending"
  <2>1. PICK value \in {"none", "pending", "verified", "expired", "error"} :
          Answered(p, value)
    BY <1>1, <1>2 DEF Load, Row
  <2> QED
    BY <1>1, <2>1, AnswerStep
<1>3. CASE row[poll[p].of].status = "pending"
  <2>1. PICK s \in {"expiring", "searching"} : poll' = [poll EXCEPT ![p].step = s]
    BY <1>3 DEF Load
  <2>2. /\ poll' \in [Poll -> PollEntry] /\ \A q \in Poll \ {p} : poll'[q] = poll[q]
        /\ poll'[p].of = poll[p].of /\ poll'[p].step = s
    BY <1>1, <2>1 DEF PollEntry
  <2> QED
    BY <1>1, <2>2, PollKept, PollOnly
<1> QED
  BY <1>2, <1>3

\* What a search finds was paid for the intent.
LEMMA SearchFindsStep ==
    ASSUME CheckoutInv, NEW p \in Poll, SearchFinds(p), UNCHANGED client
    PROVE  CheckoutInv'
<1>1. PICK s \in Payments(poll[p].of) :
        poll' = [poll EXCEPT ![p].step = "recording", ![p].found = s]
  BY DEF SearchFinds
<1>2. /\ poll \in [Poll -> PollEntry] /\ poll[p] \in PollEntry
      /\ poll[p].of \in Intent /\ s \in Signature
      /\ UNCHANGED <<row, paid, transfer, received, client>> /\ mishaps' \in Nat
  BY DEF SearchFinds, CheckoutInv, ServerTypes, PollsAreSound, Working, rows, Payments
<1>3. /\ poll' \in [Poll -> PollEntry] /\ \A q \in Poll \ {p} : poll'[q] = poll[q]
      /\ poll'[p].of = poll[p].of /\ poll'[p].found = s
  BY <1>1, <1>2 DEF PollEntry
<1> QED
  BY <1>1, <1>2, <1>3, PollKept, PollOnly

\* A search that finds nothing leaves the row pending.
LEMMA SearchMissesStep ==
    ASSUME CheckoutInv, NEW p \in Poll, SearchMisses(p) \/ PollFails(p), UNCHANGED client
    PROVE  CheckoutInv'
<1>1. UNCHANGED <<row, paid, transfer, received, client>> /\ mishaps' \in Nat
  BY DEF SearchMisses, PollFails, Mishap, CheckoutInv, ServerTypes, rows
<1>2. Answered(p, "pending") \/ Answered(p, "error")
  BY DEF SearchMisses, PollFails
<1> QED
  BY <1>1, <1>2, AnswerStep

\* A row that is still pending has no signature.
LEMMA PendingUnsigned ==
    ASSUME CheckoutInv, NEW i \in Intent, row[i].status # "verified"
    PROVE  row[i].signature = NoSignature
  BY DEF CheckoutInv, RowsAreSigned

\* A pending row expires; a verified one is left alone.
LEMMA ExpireStep ==
    ASSUME CheckoutInv, NEW p \in Poll, Expire(p), UNCHANGED client
    PROVE  CheckoutInv'
<1>1. /\ row \in [Intent -> Row] /\ poll[p].of \in Intent
      /\ Answered(p, "expired")
      /\ UNCHANGED <<paid, transfer, received, mishaps, client>>
  BY DEF Expire, CheckoutInv, ServerTypes, PollsAreSound, Working
<1>2. CASE row' = row
  BY <1>1, <1>2, AnswerStep DEF CheckoutInv, ServerTypes
<1>3. CASE row[poll[p].of].status = "pending"
           /\ row' = [row EXCEPT ![poll[p].of].status = "expired"]
  <2>1. row' \in [Intent -> Row]
    BY <1>1, <1>3 DEF Row
  <2>2. \A i \in Intent : /\ row'[i].signature = row[i].signature
                          /\ row[i].status = "verified" => row'[i].status = "verified"
                          /\ row'[i].status = "verified" => row[i].status = "verified"
    BY <1>1, <1>3 DEF Row
  <2>3. RowsAreSigned'
    BY <1>1, <2>2 DEF CheckoutInv, RowsAreSigned, Payments
  <2>4. poll' \in [Poll -> PollEntry] /\ PollsAreSound'
    BY <1>1, AnsweredFact, PollKept
  <2> QED
    BY <1>1, <2>1, <2>3, <2>4 DEF CheckoutInv, ServerTypes, PageTypeOK, client,
       TransfersAreSound, PostsAreSound
<1> QED
  BY <1>2, <1>3 DEF Expire, StillPending

\* A row is verified by a payment that no other row has.
LEMMA RecordStep ==
    ASSUME CheckoutInv, NEW p \in Poll, Record(p), UNCHANGED client
    PROVE  CheckoutInv'
<1>1. PICK i \in Intent : i = poll[p].of
  BY DEF Record, CheckoutInv, PollsAreSound, Working
<1>2. PICK s \in Payments(i) : s = poll[p].found
  BY <1>1 DEF Record, CheckoutInv, PollsAreSound
<1>3. /\ row \in [Intent -> Row] /\ poll \in [Poll -> PollEntry] /\ s \in Signature
      /\ UNCHANGED <<paid, transfer, received, mishaps, client>>
  BY DEF Record, CheckoutInv, ServerTypes, Payments
<1>4. /\ poll' \in [Poll -> PollEntry] /\ \A q \in Poll \ {p} : poll'[q] = poll[q]
      /\ poll'[p].step = "answered"
  <2>1. PICK value \in {"verified", "pending"}, link \in BOOLEAN :
          poll' = [poll EXCEPT ![p] = [@ EXCEPT !.step = "answered",
                    !.found = NoSignature, !.answer = value, !.link = link]]
    BY DEF Record, StillPending, Used
  <2>2. ASSUME NEW e \in PollEntry
        PROVE  LET f == [e EXCEPT !.step = "answered", !.found = NoSignature,
                                  !.answer = value, !.link = link]
               IN  f \in PollEntry /\ f.step = "answered"
    BY DEF PollEntry
  <2> QED
    BY <1>3, <2>1, <2>2
<1>5. PollsAreSound'
  BY <1>3, <1>4, PollKept
<1>6. row' \in [Intent -> Row] /\ RowsAreSigned'
  <2>1. CASE row' = row
    BY <1>3, <2>1, RowsKept
  <2>2. CASE /\ row[i].status = "pending" /\ ~Used(s)
             /\ row' = [row EXCEPT ![i].status = "verified", ![i].signature = s]
    <3>1. /\ row' \in [Intent -> Row]
          /\ row'[i].status = "verified" /\ row'[i].signature = s
          /\ \A j \in Intent \ {i} : row'[j] = row[j]
      BY <1>3, <2>2 DEF Row
    <3>2. \A j \in Intent : row[j].signature # s
      BY <2>2 DEF Used
    <3>3. row[i].signature = NoSignature /\ s # NoSignature
      BY <1>3, <2>2, PendingUnsigned, NoSignatureAssumption
    <3>4. \A j \in Intent : Payments(j)' = Payments(j)
      BY <1>3 DEF Payments
    <3> QED
      BY <3>1, <3>2, <3>3, <3>4 DEF CheckoutInv, RowsAreSigned
  <2> QED
    BY <1>1, <1>2, <2>1, <2>2 DEF Record, StillPending
<1> QED
  BY <1>3, <1>4, <1>5, <1>6 DEF CheckoutInv, ServerTypes, PageTypeOK, client,
     TransfersAreSound, PostsAreSound

-----------------------------------------------------------------------------
\* Downloads.
LEMMA DownloadStep ==
    ASSUME CheckoutInv, NEW d \in Transfer,
           DownloadEnds(d) \/ MarkDownloaded(d) \/ DownloadFails(d), UNCHANGED client
    PROVE  CheckoutInv'
<1>1. PICK i \in Intent : i = transfer[d].of
  BY DEF DownloadEnds, MarkDownloaded, DownloadFails, CheckoutInv, TransfersAreSound
<1>2. /\ row \in [Intent -> Row] /\ row[i] \in Row
      /\ transfer \in [Transfer -> TransferEntry] /\ received \subseteq Intent
      /\ UNCHANGED <<paid, poll, client>> /\ mishaps' \in Nat
  BY DEF DownloadEnds, MarkDownloaded, DownloadFails, CheckoutInv, ServerTypes, rows, Mishap
<1>3. row' \in [Intent -> Row] /\ RowsAreSigned'
  <2>1. CASE row' = row
    BY <1>2, <2>1, RowsKept
  <2>2. CASE row' = [row EXCEPT ![i].downloaded = TRUE, ![i].claim = "none"]
    <3> DEFINE e == [row[i] EXCEPT !.downloaded = TRUE, !.claim = "none"]
    <3>1. e \in Row /\ e.status = row[i].status /\ e.signature = row[i].signature
      BY <1>2, FlagFact
    <3>2. row' = [row EXCEPT ![i] = e]
      BY <1>2, <2>2
    <3> HIDE DEF e
    <3> QED
      BY <1>2, <3>1, <3>2, RowFlagged
  <2>3. CASE row' = [row EXCEPT ![i].claim = "none"]
    <3> DEFINE e == [row[i] EXCEPT !.claim = "none"]
    <3>1. e \in Row /\ e.status = row[i].status /\ e.signature = row[i].signature
      BY <1>2, FlagFact
    <3>2. row' = [row EXCEPT ![i] = e]
      BY <1>2, <2>3
    <3> HIDE DEF e
    <3> QED
      BY <1>2, <3>1, <3>2, RowFlagged
  <2> QED
    BY <1>1, <2>1, <2>2, <2>3 DEF DownloadEnds, MarkDownloaded, DownloadFails, rows
<1>4. /\ transfer' \in [Transfer -> TransferEntry] /\ TransfersAreSound'
      /\ received' \subseteq Intent
  <2>1. CASE transfer' = [transfer EXCEPT ![d] = IdleTransfer]
             /\ received' = received
    BY <1>2, <2>1 DEF CheckoutInv, TransfersAreSound, IdleTransfer, TransferEntry
  <2>2. CASE transfer' = [transfer EXCEPT ![d].step = "done"]
             /\ received' = received \cup {i}
    BY <1>1, <1>2, <2>2 DEF CheckoutInv, TransfersAreSound, TransferEntry
  <2> QED
    BY <1>1, <2>1, <2>2 DEF DownloadEnds, MarkDownloaded, DownloadFails
<1>5. PollsAreSound'
  BY <1>2 DEF CheckoutInv, PollsAreSound, Working, Payments
<1> QED
  BY <1>2, <1>3, <1>4, <1>5 DEF CheckoutInv, ServerTypes, PageTypeOK, client, PostsAreSound

\* A download that takes the claim.
LEMMA StartStep ==
    ASSUME CheckoutInv, NEW d \in Transfer, NEW i \in Intent, StartDownload(d, i),
           PageTypeOK', UNCHANGED post
    PROVE  CheckoutInv'
<1>1. /\ row \in [Intent -> Row] /\ row[i] \in Row
      /\ transfer \in [Transfer -> TransferEntry]
      /\ UNCHANGED <<paid, poll, received, mishaps, post>>
  BY DEF StartDownload, CheckoutInv, ServerTypes
<1>2. row' \in [Intent -> Row] /\ RowsAreSigned'
  <2> DEFINE e == [row[i] EXCEPT !.claim = "fresh"]
  <2>1. e \in Row /\ e.status = row[i].status /\ e.signature = row[i].signature
    BY <1>1, FlagFact
  <2>2. row' = [row EXCEPT ![i] = e]
    BY <1>1 DEF StartDownload
  <2> HIDE DEF e
  <2> QED
    BY <1>1, <2>1, <2>2, RowFlagged
<1>3. transfer' \in [Transfer -> TransferEntry] /\ TransfersAreSound'
  BY <1>1 DEF StartDownload, CheckoutInv, TransfersAreSound, TransferEntry
<1>4. PollsAreSound'
  BY <1>1 DEF CheckoutInv, PollsAreSound, Working, Payments
<1> QED
  BY <1>1, <1>2, <1>3, <1>4 DEF CheckoutInv, ServerTypes, PostsAreSound

\* A crash ends the requests and keeps the rows.
LEMMA CrashFacts ==
    ServerCrash =>
        /\ Mishap
        /\ poll' = [p \in Poll |->
                     IF poll[p].step \in {"idle", "answered"} THEN poll[p]
                     ELSE [poll[p] EXCEPT !.step = "answered", !.answer = "error",
                                          !.found = NoSignature]]
        /\ transfer' = [d \in Transfer |-> IdleTransfer]
        /\ UNCHANGED <<row, paid, received>>
  BY DEF ServerCrash, rows

\* A crash of the server.
LEMMA CrashStep ==
    ASSUME CheckoutInv, ServerCrash, UNCHANGED client
    PROVE  CheckoutInv'
<1>1. /\ poll \in [Poll -> PollEntry] /\ mishaps' \in Nat
      /\ poll' = [p \in Poll |->
                   IF poll[p].step \in {"idle", "answered"} THEN poll[p]
                   ELSE [poll[p] EXCEPT !.step = "answered", !.answer = "error",
                                        !.found = NoSignature]]
      /\ transfer' = [d \in Transfer |-> IdleTransfer]
      /\ UNCHANGED <<row, paid, received, client>>
  <2>1. mishaps' \in Nat
    <3>1. mishaps \in Nat
      BY DEF CheckoutInv, ServerTypes
    <3>2. Mishap
      BY CrashFacts
    <3> QED
      BY <3>1, <3>2 DEF Mishap
  <2>2. poll \in [Poll -> PollEntry]
    BY DEF CheckoutInv, ServerTypes
  <2> QED
    BY <2>1, <2>2, CrashFacts
<1>2. ASSUME NEW e \in PollEntry
      PROVE  LET f == [e EXCEPT !.step = "answered", !.answer = "error",
                                !.found = NoSignature]
             IN  f \in PollEntry /\ f.step = "answered"
  BY DEF PollEntry
<1>3. /\ poll' \in [Poll -> PollEntry]
      /\ \A p \in Poll : poll'[p].step \in {"idle", "answered"}
  <2> SUFFICES ASSUME NEW p \in Poll
               PROVE  poll'[p] \in PollEntry /\ poll'[p].step \in {"idle", "answered"}
    BY <1>1
  <2>1. poll[p] \in PollEntry
    BY <1>1
  <2> QED
    BY <1>1, <1>2, <2>1
<1>4. PollsAreSound'
  BY <1>3 DEF PollsAreSound, Working
<1>5. transfer' \in [Transfer -> TransferEntry] /\ TransfersAreSound'
  BY <1>1 DEF TransfersAreSound, IdleTransfer, TransferEntry
<1>6. RowsAreSigned'
  BY <1>1, RowsKept
<1> QED
  BY <1>1, <1>3, <1>4, <1>5, <1>6 DEF CheckoutInv, ServerTypes, PageTypeOK, client,
     PostsAreSound

\* The steps of the server, put together.
LEMMA ServerSteps ==
    CheckoutInv /\ ServerStep /\ UNCHANGED client => CheckoutInv'
<1> SUFFICES ASSUME CheckoutInv, ServerStep, UNCHANGED client PROVE CheckoutInv'
  OBVIOUS
<1>1. ASSUME NEW p \in Poll, PollStep(p) \/ PollFails(p) PROVE CheckoutInv'
  BY <1>1, LoadStep, ExpireStep, SearchFindsStep, SearchMissesStep, RecordStep DEF PollStep
<1>2. ASSUME NEW d \in Transfer, TransferStep(d) \/ DownloadFails(d) PROVE CheckoutInv'
  BY <1>2, DownloadStep DEF TransferStep
<1> QED
  BY <1>1, <1>2, PayStep, DeadlineStep, CrashStep DEF ServerStep
-----------------------------------------------------------------------------
\* The steps of the page. Those that leave the server alone change the types of
\* the page only.
LEMMA PageOnly ==
    ASSUME CheckoutInv, UNCHANGED <<row, paid, poll, transfer, received>>,
           mishaps' \in Nat, PageTypeOK', PostsAreSound'
    PROVE  CheckoutInv'
<1>1. ServerTypes'
  BY DEF CheckoutInv, ServerTypes
<1>2. RowsAreSigned'
  BY RowsKept
<1>3. PollsAreSound'
  BY DEF CheckoutInv, PollsAreSound, Working, Payments
<1>4. TransfersAreSound'
  BY DEF CheckoutInv, TransfersAreSound
<1> QED
  BY <1>1, <1>2, <1>3, <1>4 DEF CheckoutInv

\* The page posts an intent, or another one.
LEMMA OpenStep ==
    ASSUME CheckoutInv, Open \/ Again
    PROVE  CheckoutInv'
<1>1. PICK shown \in Intent \cup {"none"}, polling \in Intent \cup {"none"} :
        CreateIntent(shown, polling)
  BY DEF Open, Again, CheckoutInv, PageTypeOK
<1>2. UNCHANGED <<row, paid, poll, transfer, received, mishaps, mine>>
  BY DEF Open, Again, server, rows, work
<1>3. PICK i \in Intent \cup {Refused} : post' = [post EXCEPT ![i] = "sent"]
  <2>1. \E j \in IF Fresh = {} THEN {Refused} ELSE Fresh :
          post' = [post EXCEPT ![j] = "sent"]
    BY <1>1 DEF CreateIntent
  <2> QED
    BY <2>1 DEF Fresh
<1>4. PageTypeOK'
  BY <1>1, <1>2, <1>3 DEF CreateIntent, Closed, CheckoutInv, PageTypeOK
<1>5. PostsAreSound'
  BY <1>3 DEF CheckoutInv, PostsAreSound, PageTypeOK
<1> QED
  BY <1>2, <1>4, <1>5, PageOnly DEF CheckoutInv, ServerTypes

\* The server inserts the row of an intent.
LEMMA CreatedStep ==
    ASSUME CheckoutInv, NEW i \in Intent, Created(i)
    PROVE  CheckoutInv'
<1>1. /\ row[i] = Absent
      /\ row' = [row EXCEPT ![i].status = "pending"]
      /\ UNCHANGED <<paid, poll, transfer, received, mishaps, page, mine>>
  BY DEF Created, InsertIntent, work
<1>2. row \in [Intent -> Row]
  BY DEF CheckoutInv, ServerTypes
<1>3. PICK e \in Row : /\ row' = [row EXCEPT ![i] = e]
                       /\ e.status = "pending" /\ e.signature = NoSignature
  <2>1. Absent \in Row /\ Absent.signature = NoSignature
    BY DEF Absent, Row
  <2>2. ASSUME NEW a \in Row
        PROVE  LET f == [a EXCEPT !.status = "pending"] IN
               f \in Row /\ f.status = "pending" /\ f.signature = a.signature
    BY DEF Row
  <2> QED
    BY <1>1, <1>2, <2>1, <2>2
<1>4. row' \in [Intent -> Row]
  BY <1>2, <1>3
<1>5. RowsAreSigned'
  <2>1. RowsAreSigned
    BY DEF CheckoutInv
  <2>2. \A j \in Intent \ {i} : row'[j] = row[j]
    BY <1>2, <1>3
  <2>3. row'[i].status = "pending" /\ row'[i].signature = NoSignature
    BY <1>2, <1>3
  <2>4. \A j \in Intent : Payments(j)' = Payments(j)
    BY <1>1 DEF Payments
  <2> QED
    BY <2>1, <2>2, <2>3, <2>4 DEF RowsAreSigned
<1>6. PollsAreSound' /\ TransfersAreSound'
  BY <1>1 DEF CheckoutInv, PollsAreSound, Working, Payments, TransfersAreSound
<1>7. PageTypeOK' /\ PostsAreSound'
  BY <1>1 DEF Created, CheckoutInv, PageTypeOK, PostsAreSound
<1> QED
  BY <1>1, <1>4, <1>5, <1>6, <1>7 DEF CheckoutInv, ServerTypes

\* A creation that fails leaves the rows alone.
LEMMA CreationFailsStep ==
    ASSUME CheckoutInv, NEW i \in DOMAIN post, CreationFails(i)
    PROVE  CheckoutInv'
<1>1. UNCHANGED <<row, paid, poll, transfer, received, page, mine>>
  BY DEF CreationFails, rows, work
<1>2. mishaps' \in Nat
  BY DEF CreationFails, Mishap, CheckoutInv, ServerTypes
<1>3. PageTypeOK'
  BY <1>1 DEF CreationFails, CheckoutInv, PageTypeOK
<1>4. PostsAreSound'
  BY DEF CreationFails, CheckoutInv, PageTypeOK, PostsAreSound
<1> QED
  BY <1>1, <1>2, <1>3, <1>4, PageOnly

\* The page learns of its intent.
LEMMA InitializedStep ==
    ASSUME CheckoutInv, NEW i \in DOMAIN post, Initialized(i)
    PROVE  CheckoutInv'
<1>1. UNCHANGED <<row, paid, poll, transfer, received, mishaps, mine>>
  BY DEF Initialized, server, rows, work
<1>2. post[i] # "failed" => i \in Intent
  BY DEF Initialized, CheckoutInv, PageTypeOK, PostsAreSound
<1>3. PageTypeOK'
  BY <1>1, <1>2 DEF Initialized, CheckoutInv, PageTypeOK
<1>4. PostsAreSound'
  BY DEF Initialized, CheckoutInv, PageTypeOK, PostsAreSound
<1> QED
  BY <1>1, <1>3, <1>4, PageOnly DEF CheckoutInv, ServerTypes

\* A page step that forgets requests: the others stay as they are.
LEMMA PollsForgotten ==
    ASSUME CheckoutInv, UNCHANGED <<row, paid, transfer, received, mishaps>>,
           poll' \in [Poll -> PollEntry],
           \A p \in Poll : poll'[p] = poll[p] \/ poll'[p] = IdlePoll,
           PageTypeOK', PostsAreSound'
    PROVE  CheckoutInv'
<1>1. ServerTypes'
  BY DEF CheckoutInv, ServerTypes
<1>2. RowsAreSigned'
  BY RowsKept
<1>3. PollsAreSound'
  BY DEF CheckoutInv, PollsAreSound, Working, Payments, IdlePoll
<1>4. TransfersAreSound'
  BY DEF CheckoutInv, TransfersAreSound
<1> QED
  BY <1>1, <1>2, <1>3, <1>4 DEF CheckoutInv

\* A request that is not under way is one of the entries.
LEMMA IdleFact == IdlePoll \in PollEntry
  BY DEF IdlePoll, PollEntry

\* The page gives an intent up.
LEMMA CancelStep ==
    ASSUME CheckoutInv, Cancel
    PROVE  CheckoutInv'
<1>1. /\ UNCHANGED <<row, paid, transfer, received, mishaps>>
      /\ page' = Closed /\ mine' = {}
      /\ poll' = [p \in Poll |-> IF poll[p].step = "answered" THEN IdlePoll
                                 ELSE poll[p]]
      /\ post' = [i \in DOMAIN post |->
                   IF post[i] \in {"sent", "orphan"} THEN "orphan" ELSE "none"]
  BY DEF Cancel, rows
<1>2. /\ poll' \in [Poll -> PollEntry]
      /\ \A p \in Poll : poll'[p] = poll[p] \/ poll'[p] = IdlePoll
  BY <1>1, IdleFact DEF CheckoutInv, ServerTypes
<1>3. PageTypeOK' /\ PostsAreSound'
  BY <1>1 DEF CheckoutInv, PageTypeOK, PostsAreSound, Closed
<1> QED
  BY <1>1, <1>2, <1>3, PollsForgotten

\* The page asks for the status of its intent.
LEMMA TickStep ==
    ASSUME CheckoutInv, NEW p \in Poll, Tick(p)
    PROVE  CheckoutInv'
<1>1. /\ page.polling \in Intent /\ Ask(p, page.polling)
      /\ mine' = mine \cup {p}
      /\ UNCHANGED <<row, paid, transfer, received, mishaps, page, post>>
  BY DEF Tick, rows
<1>2. PICK i \in Intent :
        poll' = [poll EXCEPT ![p] = [@ EXCEPT !.step = "asked", !.of = i]]
  BY <1>1 DEF Ask
<1>3. poll \in [Poll -> PollEntry]
  BY DEF CheckoutInv, ServerTypes
<1>4. ASSUME NEW e \in PollEntry
      PROVE  LET f == [e EXCEPT !.step = "asked", !.of = i] IN
             f \in PollEntry /\ f.step = "asked" /\ f.of = i
  BY DEF PollEntry
<1>5. /\ poll' \in [Poll -> PollEntry]
      /\ \A q \in Poll \ {p} : poll'[q] = poll[q]
      /\ poll'[p].step = "asked" /\ poll'[p].of = i
  BY <1>2, <1>3, <1>4
<1>6. PollsAreSound'
  BY <1>1, <1>5, PollKept
<1>7. RowsAreSigned'
  BY <1>1, RowsKept
<1>8. PageTypeOK' /\ PostsAreSound' /\ TransfersAreSound'
  BY <1>1 DEF CheckoutInv, PageTypeOK, PostsAreSound, TransfersAreSound
<1> QED
  BY <1>1, <1>5, <1>6, <1>7, <1>8 DEF CheckoutInv, ServerTypes

\* What the page makes of an answer is a page.
LEMMA AfterFact ==
    ASSUME CheckoutInv, NEW p \in Poll, poll[p].step = "answered"
    PROVE  After(p) \in [mounted : BOOLEAN,
                 status : {"initializing", "pending", "verified", "expired",
                           "error"},
                 intent : Intent \cup {"none"}, link : Intent \cup {"none"},
                 auto : Intent \cup {"none"}, polling : Intent \cup {"none"}]
<1>1. poll[p].of \in Intent \cup {"none"}
  BY DEF CheckoutInv, ServerTypes, PollEntry
<1> QED
  BY <1>1 DEF After, CheckoutInv, PageTypeOK

\* The page takes an answer.
LEMMA ReceiveStep ==
    ASSUME CheckoutInv, NEW p \in Poll, Receive(p)
    PROVE  CheckoutInv'
<1>1. /\ poll[p].step = "answered"
      /\ page' = IF p \in mine THEN After(p) ELSE page
      /\ mine' = mine \ {p}
      /\ poll' = [poll EXCEPT ![p] = IdlePoll]
      /\ UNCHANGED <<row, paid, transfer, received, mishaps, post>>
  BY DEF Receive, rows
<1>2. /\ poll' \in [Poll -> PollEntry]
      /\ \A q \in Poll : poll'[q] = poll[q] \/ poll'[q] = IdlePoll
  BY <1>1, IdleFact DEF CheckoutInv, ServerTypes
<1>3. PageTypeOK' /\ PostsAreSound'
  BY <1>1, AfterFact DEF CheckoutInv, PageTypeOK, PostsAreSound
<1> QED
  BY <1>1, <1>2, <1>3, PollsForgotten

\* The page follows the link to the archive.
LEMMA FollowStep ==
    ASSUME CheckoutInv, NEW d \in Transfer, AutoDownload(d) \/ Click(d)
    PROVE  CheckoutInv'
<1>1. page.link \in Intent
  BY DEF AutoDownload, Click, Follows, ShowsLink
<1>2. PageTypeOK' /\ PostsAreSound'
  BY <1>1 DEF AutoDownload, Click, client, CheckoutInv, PageTypeOK, PostsAreSound
<1>3. CASE StartDownload(d, page.link)
  <2>1. PICK i \in Intent : i = page.link
    BY <1>1
  <2>2. StartDownload(d, i) /\ UNCHANGED post
    BY <1>3, <2>1 DEF AutoDownload, Click, client
  <2> QED
    BY <1>2, <2>2, StartStep
<1>4. CASE UNCHANGED server
  BY <1>2, <1>4, PageOnly DEF server, rows, work, CheckoutInv, ServerTypes
<1> QED
  BY <1>3, <1>4 DEF AutoDownload, Click, Download

\* Every step keeps the invariant.
LEMMA CheckoutInvStep == CheckoutInv /\ [Next]_vars => CheckoutInv'
<1> SUFFICES ASSUME CheckoutInv, [Next]_vars PROVE CheckoutInv'
  OBVIOUS
<1>1. CASE UNCHANGED vars
  BY <1>1, PageOnly DEF vars, server, rows, work, client, CheckoutInv, ServerTypes,
     PageTypeOK, PostsAreSound
<1>2. CASE Next
  BY <1>2, ServerSteps, OpenStep, CancelStep, CreatedStep, CreationFailsStep,
     InitializedStep, TickStep, ReceiveStep, FollowStep DEF Next
<1> QED
  BY <1>1, <1>2

\* The inductive invariant: the rows, the requests that are about to write them
\* and the payments agree in every state (routes/licensing.ts).
THEOREM CheckoutHolds == Spec => []CheckoutInv
  BY CheckoutInvInit, CheckoutInvStep, PTL DEF Spec

-----------------------------------------------------------------------------
\* The types of the table, the requests and the page (routes/licensing.ts and
\* pages/buy/checkout-flow.tsx).
THEOREM CheckoutTypes == Spec => []TypeOK
<1>1. CheckoutInv => TypeOK
  BY DEF CheckoutInv, TypeOK, CheckoutTypeOK, ServerTypes, Row, PollEntry, TransferEntry
<1> QED
  BY <1>1, CheckoutHolds, PTL

\* A verified intent was paid by a transaction that verifies no other one
\* (findMatchingSignature, the update of the status route).
THEOREM LicensesArePaid == Spec => []EachLicenseIsPaid
<1>1. CheckoutInv => EachLicenseIsPaid
  BY DEF CheckoutInv, RowsAreSigned, EachLicenseIsPaid
<1> QED
  BY <1>1, CheckoutHolds, PTL

-----------------------------------------------------------------------------
\* How far a row may go in one step.
MayBecome(r, e) ==
    /\ r.status = "verified" => e.status = "verified" /\ e.signature = r.signature
    /\ r.downloaded => e.downloaded

OneRowGrows ==
    \E i \in Intent, e \in Row : row' = [row EXCEPT ![i] = e] /\ MayBecome(row[i], e)

\* A row may become late, gain or lose a claim, and be downloaded.
LEMMA GrowthFact ==
    ASSUME NEW e \in Row
    PROVE  /\ LET f == [e EXCEPT !.late = TRUE] IN f \in Row /\ MayBecome(e, f)
           /\ LET f == [e EXCEPT !.over = TRUE] IN f \in Row /\ MayBecome(e, f)
           /\ \A c \in {"none", "fresh", "old"} : LET f == [e EXCEPT !.claim = c] IN
              f \in Row /\ MayBecome(e, f)
           /\ LET f == [e EXCEPT !.downloaded = TRUE, !.claim = "none"] IN
              f \in Row /\ MayBecome(e, f)
  BY DEF Row, MayBecome

\* The status of a row that is not verified.
LEMMA StatusFact ==
    ASSUME NEW e \in Row, e.status # "verified",
           NEW value \in {"pending", "expired"}
    PROVE  LET f == [e EXCEPT !.status = value] IN f \in Row /\ MayBecome(e, f)
  BY DEF Row, MayBecome

\* A row becomes verified with its signature.
LEMMA SignedFact ==
    ASSUME NEW e \in Row, e.status # "verified",
           NEW s \in Signature \cup {NoSignature}
    PROVE  LET f == [e EXCEPT !.status = "verified", !.signature = s] IN
           f \in Row /\ MayBecome(e, f)
  BY DEF Row, MayBecome

\* The clock and the requests.
LEMMA DeadlinesGrow ==
    ASSUME CheckoutInv, NEW i \in Intent,
           IntentIsLate(i) \/ GrantIsOver(i) \/ ClaimIsOld(i)
    PROVE  OneRowGrows
<1>1. row \in [Intent -> Row] /\ row[i] \in Row
  BY DEF CheckoutInv, ServerTypes
<1>2. CASE IntentIsLate(i)
  <2> DEFINE e == [row[i] EXCEPT !.late = TRUE]
  <2>1. row' = [row EXCEPT ![i] = e]
    BY <1>1, <1>2 DEF IntentIsLate
  <2>2. e \in Row /\ MayBecome(row[i], e)
    BY <1>1, GrowthFact
  <2> HIDE DEF e
  <2> QED
    BY <2>1, <2>2 DEF OneRowGrows
<1>3. CASE GrantIsOver(i)
  <2> DEFINE e == [row[i] EXCEPT !.over = TRUE]
  <2>1. row' = [row EXCEPT ![i] = e]
    BY <1>1, <1>3 DEF GrantIsOver
  <2>2. e \in Row /\ MayBecome(row[i], e)
    BY <1>1, GrowthFact
  <2> HIDE DEF e
  <2> QED
    BY <2>1, <2>2 DEF OneRowGrows
<1>4. CASE ClaimIsOld(i)
  <2> DEFINE e == [row[i] EXCEPT !.claim = "old"]
  <2>1. row' = [row EXCEPT ![i] = e]
    BY <1>1, <1>4 DEF ClaimIsOld
  <2>2. e \in Row /\ MayBecome(row[i], e)
    BY <1>1, GrowthFact
  <2> HIDE DEF e
  <2> QED
    BY <2>1, <2>2 DEF OneRowGrows
<1> QED
  BY <1>2, <1>3, <1>4

\* A status request expires or verifies one row.
LEMMA PollsGrow ==
    ASSUME CheckoutInv, NEW p \in Poll, Expire(p) \/ Record(p), row' # row
    PROVE  OneRowGrows
<1>1. PICK i \in Intent : i = poll[p].of
  BY DEF CheckoutInv, PollsAreSound, Working, Expire, Record
<1>2. row \in [Intent -> Row] /\ row[i] \in Row
  BY <1>1 DEF CheckoutInv, ServerTypes
<1>3. poll[p].found \in Signature \cup {NoSignature}
  BY DEF CheckoutInv, ServerTypes, PollEntry
<1>4. row[i].status = "pending"
  BY <1>1 DEF Expire, Record, StillPending
<1>5. CASE Expire(p)
  <2> DEFINE e == [row[i] EXCEPT !.status = "expired"]
  <2>1. row' = [row EXCEPT ![i] = e]
    BY <1>1, <1>2, <1>5 DEF Expire
  <2>2. e \in Row /\ MayBecome(row[i], e)
    BY <1>2, <1>4, StatusFact
  <2> HIDE DEF e
  <2> QED
    BY <2>1, <2>2 DEF OneRowGrows
<1>6. CASE Record(p)
  <2>1. PICK s \in Signature \cup {NoSignature} : s = poll[p].found
    BY <1>3
  <2> DEFINE e == [row[i] EXCEPT !.status = "verified", !.signature = s]
  <2>2. row' = [row EXCEPT ![i] = e]
    BY <1>1, <1>2, <1>6, <2>1 DEF Record
  <2>3. e \in Row /\ MayBecome(row[i], e)
    BY <1>2, <1>4, SignedFact
  <2> HIDE DEF e
  <2> QED
    BY <2>2, <2>3 DEF OneRowGrows
<1> QED
  BY <1>5, <1>6

\* The claim of a row, by a download that starts, ends or fails.
LEMMA ClaimsGrow ==
    ASSUME CheckoutInv, NEW i \in Intent, NEW c \in {"none", "fresh", "old"},
           row' = [row EXCEPT ![i].claim = c]
    PROVE  OneRowGrows
<1>1. row \in [Intent -> Row] /\ row[i] \in Row
  BY DEF CheckoutInv, ServerTypes
<1> DEFINE e == [row[i] EXCEPT !.claim = c]
<1>2. row' = [row EXCEPT ![i] = e]
  BY <1>1
<1>3. e \in Row /\ MayBecome(row[i], e)
  BY <1>1, GrowthFact
<1> HIDE DEF e
<1> QED
  BY <1>2, <1>3 DEF OneRowGrows

\* A download that ends marks or frees one row.
LEMMA DownloadsGrow ==
    ASSUME CheckoutInv, NEW d \in Transfer,
           TransferStep(d) \/ DownloadFails(d), row' # row
    PROVE  OneRowGrows
<1>1. PICK i \in Intent : i = transfer[d].of
  BY DEF TransferStep, DownloadEnds, MarkDownloaded, DownloadFails, CheckoutInv, TransfersAreSound
<1>2. CASE row' = [row EXCEPT ![i].claim = "none"]
  BY <1>2, ClaimsGrow
<1>3. CASE MarkDownloaded(d)
  <2>1. row \in [Intent -> Row] /\ row[i] \in Row
    BY DEF CheckoutInv, ServerTypes
  <2> DEFINE e == [row[i] EXCEPT !.downloaded = TRUE, !.claim = "none"]
  <2>2. row' = [row EXCEPT ![i] = e]
    BY <1>1, <1>3, <2>1 DEF MarkDownloaded
  <2>3. e \in Row /\ MayBecome(row[i], e)
    BY <2>1, GrowthFact
  <2> HIDE DEF e
  <2> QED
    BY <2>2, <2>3 DEF OneRowGrows
<1> QED
  BY <1>1, <1>2, <1>3 DEF TransferStep, DownloadEnds, DownloadFails, rows

\* A download that starts claims one row.
LEMMA StartsGrow ==
    ASSUME CheckoutInv, NEW d \in Transfer, NEW i \in Intent, StartDownload(d, i)
    PROVE  OneRowGrows
  BY ClaimsGrow DEF StartDownload

\* A creation inserts one row.
LEMMA CreationGrows ==
    ASSUME CheckoutInv, NEW i \in Intent, Created(i)
    PROVE  OneRowGrows
<1>1. row \in [Intent -> Row] /\ row[i] \in Row
  BY DEF CheckoutInv, ServerTypes
<1> DEFINE e == [row[i] EXCEPT !.status = "pending"]
<1>2. row' = [row EXCEPT ![i] = e]
  BY <1>1 DEF Created, InsertIntent
<1>3. row[i].status # "verified"
  BY DEF Created, InsertIntent, Absent
<1>4. e \in Row /\ MayBecome(row[i], e)
  BY <1>1, <1>3, StatusFact
<1> HIDE DEF e
<1> QED
  BY <1>2, <1>4 DEF OneRowGrows

\* No other step writes a row.
LEMMA RowsOnlyGrow ==
    ASSUME CheckoutInv, [Next]_vars
    PROVE  row' = row \/ OneRowGrows
<1>1. CASE ServerStep
  <2>1. ASSUME NEW s \in Signature, NEW covered \in SUBSET Intent, Pay(s, covered)
        PROVE  row' = row
    BY <2>1 DEF Pay
  <2>2. ASSUME NEW p \in Poll, PollStep(p) \/ PollFails(p)
        PROVE  row' = row \/ OneRowGrows
    BY <2>2, PollsGrow DEF PollStep, PollFails, Load, SearchFinds, SearchMisses, rows
  <2>3. ServerCrash => row' = row
    BY CrashFacts
  <2> QED
    BY <1>1, <2>1, <2>2, <2>3, DeadlinesGrow, DownloadsGrow DEF ServerStep
<1>2. CASE \E i \in Intent : Created(i)
  BY <1>2, CreationGrows
<1>3. ASSUME NEW d \in Transfer, AutoDownload(d) \/ Click(d)
      PROVE  row' = row \/ OneRowGrows
  <2>1. PICK i \in Intent : i = page.link
    BY <1>3 DEF AutoDownload, Click, Follows, ShowsLink
  <2>2. StartDownload(d, i) \/ row' = row
    BY <1>3, <2>1 DEF AutoDownload, Click, Download, server, rows
  <2> QED
    BY <2>2, StartsGrow
<1>4. UNCHANGED vars \/ Open \/ Again \/ Cancel => row' = row
  BY DEF vars, server, rows, Open, Again, Cancel
<1>5. \A i \in DOMAIN post : CreationFails(i) \/ Initialized(i) => row' = row
  BY DEF server, rows, CreationFails, Initialized
<1>6. \A p \in Poll : Tick(p) \/ Receive(p) => row' = row
  BY DEF rows, Tick, Receive
<1>7. CASE UNCHANGED vars
  BY <1>4, <1>7
<1>8. CASE Next
  BY <1>1, <1>2, <1>3, <1>4, <1>5, <1>6, <1>8 DEF Next
<1> QED
  BY <1>7, <1>8

\* What such a write leaves of a row that was verified or downloaded.
LEMMA GrowthIsFinal ==
    ASSUME CheckoutInv, OneRowGrows
    PROVE  \A i \in Intent :
              /\ row[i].status = "verified" =>
                    /\ row'[i].status = "verified"
                    /\ row'[i].signature = row[i].signature
              /\ row[i].downloaded => row'[i].downloaded
<1>1. row \in [Intent -> Row]
  BY DEF CheckoutInv, ServerTypes
<1> QED
  BY <1>1 DEF OneRowGrows, MayBecome

\* A verified row keeps its status, its payment and its consumed grant.
THEOREM VerificationIsFinal == Spec => VerifiedIsFinal
<1>1. CheckoutInv /\ [Next]_vars =>
        [\A i \in Intent :
          /\ row[i].status = "verified" =>
                /\ row'[i].status = "verified"
                /\ row'[i].signature = row[i].signature
          /\ row[i].downloaded => row'[i].downloaded]_row
  BY RowsOnlyGrow, GrowthIsFinal
<1> QED
  BY <1>1, CheckoutHolds, PTL DEF Spec, VerifiedIsFinal
=============================================================================
