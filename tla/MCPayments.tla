----------------------------- MODULE MCPayments -----------------------------
EXTENDS Payments

CONSTANTS r1, r2, k1, k2

TwoRequests == {r1, r2}
TwoKeys == {k1, k2}
=============================================================================
