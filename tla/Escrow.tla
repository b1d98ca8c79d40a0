------------------------------- MODULE Escrow -------------------------------
(***************************************************************************)
(* What a payout promises its owner, with no row, handler, provider answer *)
(* or sweep in sight: the amount leaves the wallet once, when it is        *)
(* covered, stays held, and ends either at the bank or back in the wallet, *)
(* never both and never twice.                                             *)
(***************************************************************************)
EXTENDS Integers

CONSTANTS Owners, Keys, Amounts, InitialBalance

VARIABLES
    place,      \* where the amount of a payout is
    stake,      \* the amount, once it has left the wallet
    available   \* the wallet of each owner

evars == <<place, stake, available>>

Accounts == Owners \X Keys

EInit ==
    /\ place = [p \in Accounts |-> "wallet"]
    /\ stake = [p \in Accounts |-> 0]
    /\ available = [o \in Owners |-> InitialBalance]

\* The owner's money is set aside, if there is enough of it.
ETake(p, a) ==
    /\ place[p] = "wallet"
    /\ a <= available[p[1]]
    /\ place' = [place EXCEPT ![p] = "held"]
    /\ stake' = [stake EXCEPT ![p] = a]
    /\ available' = [available EXCEPT ![p[1]] = @ - a]

\* The bank credits the owner's account.
EPay(p) ==
    /\ place[p] = "held"
    /\ place' = [place EXCEPT ![p] = "bank"]
    /\ UNCHANGED <<stake, available>>

\* The held amount goes back to the wallet it came from.
EReturn(p) ==
    /\ place[p] = "held"
    /\ place' = [place EXCEPT ![p] = "returned"]
    /\ available' = [available EXCEPT ![p[1]] = @ + stake[p]]
    /\ UNCHANGED stake

ENext == \E p \in Accounts : \/ \E a \in Amounts : ETake(p, a)
                             \/ EPay(p)
                             \/ EReturn(p)

ESpec == EInit /\ [][ENext]_evars
=============================================================================
