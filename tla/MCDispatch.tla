----------------------------- MODULE MCDispatch -----------------------------
\* TLC instances of Dispatch.  Drivers are interchangeable.
EXTENDS Dispatch, TLC

DriverSymmetry == Permutations(Drivers)
=============================================================================
