----------------------------- MODULE CheckoutFlow -----------------------------
(***************************************************************************)
(* The checkout page (pages/buy/checkout-flow.tsx) in one browser tab on    *)
(* top of the checkout of the server. The page asks for the status every    *)
(* five seconds without waiting for the previous answer, so answers may     *)
(* overlap and arrive in any order, also after the page has stopped asking, *)
(* started a new contract or was closed. A closed page that is opened again *)
(* is a new instance, which hears nothing of the old one's requests.        *)
(***************************************************************************)
EXTENDS Checkout

VARIABLES
    page,       \* the mounted component
    post,       \* its createIntent requests, by the intent they will insert
    mine        \* status requests of the mounted instance

client == <<page, post, mine>>
server == <<rows, work, received, mishaps>>
vars == <<server, client>>

Refused == "refused"    \* a POST that createIntentLimiter will refuse

Closed == [mounted |-> FALSE, status |-> "initializing", intent |-> "none",
           link |-> "none", auto |-> "none", polling |-> "none"]

Init ==
    /\ CheckoutInit
    /\ page = Closed /\ mine = {}
    /\ post = [i \in Intent \cup {Refused} |-> "none"]

Fresh == {i \in Intent : row[i] = Absent /\ post[i] = "none"}

\* createIntent up to its request. The intent shown before stays.
CreateIntent(shown, polling) ==
    /\ page' = [Closed EXCEPT !.mounted = TRUE, !.intent = shown,
                              !.polling = polling]
    /\ \E i \in IF Fresh = {} THEN {Refused} ELSE Fresh :
          post' = [post EXCEPT ![i] = "sent"]

Open ==
    /\ ~page.mounted
    /\ CreateIntent("none", "none")
    /\ UNCHANGED <<server, mine>>

\* "Try Again" and "Generate New Contract"
Again ==
    /\ page.mounted /\ page.status \in {"error", "expired"}
    /\ CreateIntent(page.intent, page.polling)
    /\ UNCHANGED <<server, mine>>

Created(i) ==
    /\ post[i] \in {"sent", "orphan"}
    /\ InsertIntent(i)
    /\ post' = [post EXCEPT ![i] = IF @ = "sent" THEN "created" ELSE "none"]
    /\ UNCHANGED <<page, mine>>

\* The request is lost or refused.
CreationFails(i) ==
    /\ post[i] \in {"sent", "orphan"}
    /\ IF i = Refused THEN UNCHANGED mishaps ELSE Mishap
    /\ post' = [post EXCEPT ![i] = IF @ = "sent" THEN "failed" ELSE "none"]
    /\ UNCHANGED <<rows, work, received, page, mine>>

\* The answer of a POST reaches the page: startPolling ends the interval
\* before it, a failure leaves it alone.
Initialized(i) ==
    /\ post[i] \in {"created", "failed"}
    /\ page' = IF post[i] = "failed" THEN [page EXCEPT !.status = "error"]
               ELSE [page EXCEPT !.status = "pending", !.intent = i,
                                 !.polling = i]
    /\ post' = [post EXCEPT ![i] = "none"]
    /\ UNCHANGED <<server, mine>>

\* onCancel: offered on every screen but the first. The interval is stopped
\* and what is still under way is ignored when it arrives.
Cancel ==
    /\ page.mounted /\ page.status # "initializing"
    /\ page' = Closed /\ mine' = {}
    /\ post' = [i \in DOMAIN post |->
                   IF post[i] \in {"sent", "orphan"} THEN "orphan" ELSE "none"]
    /\ poll' = [p \in Poll |-> IF poll[p].step = "answered" THEN IdlePoll
                               ELSE poll[p]]
    /\ UNCHANGED <<rows, transfer, received, mishaps>>

\* The interval fires.
Tick(p) ==
    /\ page.polling \in Intent
    /\ Ask(p, page.polling)
    /\ mine' = mine \cup {p}
    /\ UNCHANGED <<rows, transfer, received, mishaps, page, post>>

\* What the page makes of an answer, whichever contract it is about.
\* (Mutants: an expired intent ends the polling without a word; a missing link
\* is used.)
AfterMissing(p) ==
    CASE poll[p].answer = "verified" -> [page EXCEPT !.status = "verified",
            !.link = IF poll[p].link THEN poll[p].of ELSE "undefined",
            !.polling = "none"]
      [] poll[p].answer = "expired" -> [page EXCEPT !.status = "expired",
                                                    !.polling = "none"]
      [] OTHER -> page
AfterSilent(p) ==
    CASE poll[p].answer = "verified" -> [page EXCEPT !.status = "verified",
            !.link = IF poll[p].link THEN poll[p].of ELSE page.link,
            !.polling = "none"]
      [] poll[p].answer = "expired" -> [page EXCEPT !.polling = "none"]
      [] OTHER -> page
After(p) ==
    LET a == poll[p] IN
    CASE a.answer = "verified" -> [page EXCEPT !.status = "verified",
            !.link = IF a.link THEN a.of ELSE page.link, !.polling = "none"]
      [] a.answer = "expired" -> [page EXCEPT !.status = "expired",
                                              !.polling = "none"]
      [] OTHER -> page

Receive(p) ==
    /\ poll[p].step = "answered"
    /\ page' = IF p \in mine THEN After(p) ELSE page
    /\ mine' = mine \ {p}
    /\ poll' = [poll EXCEPT ![p] = IdlePoll]
    /\ UNCHANGED <<rows, transfer, received, mishaps, post>>

ShowsLink == page.status = "verified" /\ page.link \in Intent

\* The effect that starts the download of the webhook package by itself.
Follows == ShowsLink /\ page.auto # page.link

Download(d) ==
    \/ StartDownload(d, page.link)
    \/ ~(Grantable(page.link) /\ ~Held(page.link)) /\ UNCHANGED server

AutoDownload(d) ==
    /\ Follows
    /\ page' = [page EXCEPT !.auto = page.link]
    /\ Download(d)
    /\ UNCHANGED <<post, mine>>

\* The download button.
Click(d) ==
    /\ ShowsLink
    /\ StartDownload(d, page.link)
    /\ UNCHANGED client

Next ==
    \/ ServerStep /\ UNCHANGED client
    \/ Open \/ Again \/ Cancel
    \/ \E i \in Intent : Created(i)
    \/ \E i \in DOMAIN post : CreationFails(i) \/ Initialized(i)
    \/ \E p \in Poll : Tick(p) \/ Receive(p)
    \/ \E d \in Transfer : AutoDownload(d) \/ Click(d)

\* Requests are answered, the interval fires, deadlines pass and a buyer who
\* is offered the archive goes on asking for it.
Fairness ==
    /\ \A p \in Poll :
          WF_vars((PollStep(p) /\ UNCHANGED client) \/ Receive(p))
    /\ WF_vars(\E p \in Poll : Tick(p))
    /\ \A d \in Transfer : WF_vars(TransferStep(d) /\ UNCHANGED client)
    /\ \A i \in Intent :
          WF_vars((IntentIsLate(i) \/ ClaimIsOld(i)) /\ UNCHANGED client)
    /\ SF_vars(\E d \in Transfer : Click(d))

Spec == Init /\ [][Next]_vars /\ Fairness

(***************************************************************************)
(* Properties of the page.                                                  *)
(***************************************************************************)
PageTypeOK ==
    /\ page \in [mounted : BOOLEAN,
                 status : {"initializing", "pending", "verified", "expired",
                           "error"},
                 intent : Intent \cup {"none"}, link : Intent \cup {"none"},
                 auto : Intent \cup {"none"}, polling : Intent \cup {"none"}]
    /\ post \in [Intent \cup {Refused} ->
                    {"none", "sent", "orphan", "created", "failed"}]
    /\ mine \subseteq Poll

TypeOK == CheckoutTypeOK /\ PageTypeOK

\* A page that awaits a settlement reaches an outcome or is closed: its
\* requests do not stop while it waits.
SettlementIsDecided == page.status = "pending" ~> page.status # "pending"

\* A buyer who goes on asking for the archive gets it in spite of failed
\* transfers and crashes, unless the page no longer offers it or the grant
\* ends: the claim of a dead transfer does not outlive its five minutes.
ArchiveIsDelivered ==
    \A i \in Intent :
        (page.link = i /\ page.status = "verified") ~>
            (i \in received \/ row[i].over
             \/ ~(page.link = i /\ page.status = "verified"))
==============================================================================
