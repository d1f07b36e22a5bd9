----------------------------- MODULE CoinLedger -----------------------------
(***************************************************************************)
(* What a ledger of coins promises, whatever coins are and whoever may     *)
(* move them: a coin is created once, consumed at most once, and never     *)
(* seen again after that.                                                  *)
(***************************************************************************)
VARIABLES
    live,   \* the coins that can be spent
    spent   \* the coins that have been

Init == spent = {}

\* Some coins are consumed and others, none ever seen before, take their place.
Transfer ==
    LET consumed == live \ live'
        created  == live' \ live
    IN  /\ consumed # {}
        /\ created # {}
        /\ created \cap spent = {}
        /\ spent' = spent \cup consumed

\* One coin, never seen before, comes into being.
Mint ==
    \E coin \in live' :
        /\ coin \notin live \cup spent
        /\ live' = live \cup {coin}
        /\ spent' = spent

Next == Transfer \/ Mint

Spec == Init /\ [][Next]_<<live, spent>>

\* No coin is live and spent: a spend is final and happens once.
SpentForGood == live \cap spent = {}

=============================================================================
