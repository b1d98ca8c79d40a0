----------------------------- MODULE MCPayouts ------------------------------
\* TLC instances of Payouts.
EXTENDS Payouts
=============================================================================
