--------------------------- MODULE MCLiveScalper ---------------------------
(***************************************************************************)
(* Two instances of the live scalper in one run: one trades a token, whose  *)
(* output is measured by balances, the other the native coin, whose output a *)
(* buy reads from its receipt. Others use either wallet, and the state file  *)
(* may fail to save.                                                        *)
(***************************************************************************)
EXTENDS LiveScalper

Pair(s) == {[kind |-> "manual", action |-> a, symbol |-> s] : a \in {"buy", "sell"}}
Either == Pair("XRP") \cup Pair("WBNB")

VARIABLE wallet

Token == INSTANCE LiveScalper WITH Order <- Pair("XRP")
Native == INSTANCE LiveScalper WITH Order <- Pair("WBNB")

WalletInit == wallet \in {"token", "native"} /\ ScalperInit

WalletNext ==
    \/ wallet = "token" /\ Token!ScalperNext /\ UNCHANGED wallet
    \/ wallet = "native" /\ Native!ScalperNext /\ UNCHANGED wallet

WalletSpec == WalletInit /\ [][WalletNext]_<<allVars, wallet>> /\ ScalperFairness
=============================================================================
