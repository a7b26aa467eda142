------------------------------ MODULE MCRoles ------------------------------
EXTENDS Roles, TLC

CONSTANTS r1, r2, admin, staff, other

OneRequest == {r1}
TwoRequests == {r1, r2}
ThreePeople == {admin, staff, other}
Admins == {admin}
CollectorOrOperator == {"COLLECTOR", "OPERATOR"}
InterchangeableStaff == Permutations(TwoRequests) \cup Permutations({staff, other})
=============================================================================
