----------------------------- MODULE MCSessions -----------------------------
\* TLC instances of Sessions: two realms, one of them with windows, and the
\* refresh endpoints of both.
EXTENDS Sessions, TLC

MCRoutes == {{"admin"}, {"driver"}}

TabSymmetry == Permutations(Tabs)
=============================================================================
