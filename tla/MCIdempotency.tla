--------------------------- MODULE MCIdempotency ----------------------------
\* TLC instance of Idempotency.
EXTENDS Idempotency
=============================================================================
