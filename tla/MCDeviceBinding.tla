-------------------------- MODULE MCDeviceBinding --------------------------
EXTENDS DeviceBinding

CONSTANTS p1, p2, r1, r2

TwoPhones == {p1, p2}
TwoRequests == {r1, r2}
=============================================================================
