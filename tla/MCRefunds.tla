----------------------------- MODULE MCRefunds -----------------------------
(* Instances of Refunds for TLC.                                           *)
EXTENDS Refunds, TLC

\* A fleet trip credits the driver and the fleet, the fleet so little that a
\* clawback may round its part to nothing.
MCCredits == <<7, 1>>

\* Finance refunds in full, or in part, shared, from both pools; beside it a
\* dispute is resolved with a full refund, or a second operator refunds in
\* part, at the provider's cost to the card or at the platform's to the wallet.
MCIntents ==
    [k1 |-> {i \in FullIntents : i.source = "finance"}
            \cup {i \in PartialIntents({5}) : i.bearer = "shared" /\ i.delivery = "original"},
     k2 |-> {i \in FullIntents : i.source = "dispute"}
            \cup {i \in PartialIntents({2}) :
                     <<i.bearer, i.delivery>> \in {<<"provider", "original">>, <<"platform", "wallet">>}}]

RequestSymmetry == Permutations(Workers)

=============================================================================
