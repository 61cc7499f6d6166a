------------------------------ MODULE DeskBase ------------------------------
(* What several components of the desk share.                              *)
EXTENDS Integers

CONSTANT None     \* an absent value

Lesser(a, b) == IF a < b THEN a ELSE b
Greater(a, b) == IF a < b THEN b ELSE a

\* the scores of every component: max(0, min(100, value))
Clamp(n) == Greater(0, Lesser(100, n))

\* n / d rounded to the nearest integer, halves to the even one
HalfEven(n, d) ==
  LET q == n \div d
      r == n % d
  IN  IF 2 * r > d \/ (2 * r = d /\ q % 2 = 1) THEN q + 1 ELSE q

\* the newest of some rows
NewestOf(rows) == IF rows = {} THEN None ELSE CHOOSE r \in rows : \A q \in rows : q.at <= r.at
=============================================================================
