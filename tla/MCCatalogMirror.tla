-------------------------- MODULE MCCatalogMirror --------------------------
EXTENDS CatalogMirror

CONSTANTS s1, s2, old, r1, r2, op

TwoWorks == {s1, s2}
OneRow == {old}
BearsFirstTitle == [a \in Legacy |-> s1]
FirstIssued == [a \in Legacy |-> {1}]
OneReview == {r1}
OneOperator == {op}
OneList == {r2}
=============================================================================
