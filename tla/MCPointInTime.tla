---------------------------- MODULE MCPointInTime ----------------------------
EXTENDS PointInTime

CONSTANTS A, B, X, Y, i1, e1

MCIdOrder == [x \in Rows |-> CASE x = A -> 2 [] x = B -> 1 [] x = X -> 3
                                  [] x = Y -> 4 [] x = i1 -> 5 [] x = e1 -> 6]
=============================================================================
