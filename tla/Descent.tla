------------------------------- MODULE Descent -------------------------------
(***************************************************************************)
(* Ranks: tuples of natural numbers, the weightier first.  What lowers its *)
(* rank with every step comes to an end.                                   *)
(***************************************************************************)
EXTENDS Naturals, WellFoundedInduction, TLAPS

Ranks(n) == [1..n -> Nat]

Below == {p \in Nat \X Nat : p[1] < p[2]}

\* <<u, v>> is in it when u is lower than v.
Descent(n) == LexProductOrdering(Below, Nat, n)

\* There is no infinite descent.
THEOREM DescentEnds == \A n \in Nat : IsWellFoundedOn(Descent(n), Ranks(n))
<1>1. OpToRel(<, Nat) = Below
  BY Zenon DEF OpToRel, Below
<1>2. IsWellFoundedOn(Below, Nat)
  BY <1>1, NatLessThanWellFounded
<1> QED
  BY <1>2, WFLexProductOrdering DEF Descent, Ranks

\* A rank is lower when one of its parts is, and the weightier ones are the same.
LEMMA LowerAt ==
    ASSUME NEW n \in Nat, NEW u \in Ranks(n), NEW v \in Ranks(n), NEW j \in 1..n,
           u[j] < v[j], \A i \in 1..(j - 1) : u[i] = v[i]
    PROVE  <<u, v>> \in Descent(n)
<1>1. <<u[j], v[j]>> \in Below
  BY DEF Below, Ranks
<1> QED
  BY <1>1 DEF Descent, LexProductOrdering, Ranks

LEMMA Lower4 ==
    ASSUME NEW a \in Nat, NEW b \in Nat, NEW c \in Nat, NEW d \in Nat,
           NEW p \in Nat, NEW q \in Nat, NEW r \in Nat, NEW s \in Nat,
           \/ a < p
           \/ a = p /\ b < q
           \/ a = p /\ b = q /\ c < r
           \/ a = p /\ b = q /\ c = r /\ d < s
    PROVE  <<<<a, b, c, d>>, <<p, q, r, s>>>> \in Descent(4)
<1> DEFINE u == <<a, b, c, d>>
           v == <<p, q, r, s>>
<1>1. u \in Ranks(4) /\ v \in Ranks(4)
  BY DEF Ranks
<1>2. \E j \in 1..4 : u[j] < v[j] /\ \A i \in 1..(j - 1) : u[i] = v[i]
  <2>1. CASE a < p
    BY <2>1
  <2>2. CASE a = p /\ b < q
    BY <2>2
  <2>3. CASE a = p /\ b = q /\ c < r
    BY <2>3
  <2>4. CASE a = p /\ b = q /\ c = r /\ d < s
    BY <2>4
  <2> QED
    BY <2>1, <2>2, <2>3, <2>4
<1>3. PICK j \in 1..4 : u[j] < v[j] /\ \A i \in 1..(j - 1) : u[i] = v[i]
  BY <1>2
<1> QED
  BY <1>1, <1>3, LowerAt, 4 \in Nat

LEMMA Lower6 ==
    ASSUME NEW u \in Ranks(6), NEW v \in Ranks(6),
           \/ u[1] < v[1]
           \/ u[1] = v[1] /\ u[2] < v[2]
           \/ u[1] = v[1] /\ u[2] = v[2] /\ u[3] < v[3]
           \/ u[1] = v[1] /\ u[2] = v[2] /\ u[3] = v[3] /\ u[4] < v[4]
           \/ u[1] = v[1] /\ u[2] = v[2] /\ u[3] = v[3] /\ u[4] = v[4] /\ u[5] < v[5]
           \/ /\ u[1] = v[1] /\ u[2] = v[2] /\ u[3] = v[3] /\ u[4] = v[4] /\ u[5] = v[5]
              /\ u[6] < v[6]
    PROVE  <<u, v>> \in Descent(6)
<1>1. \E j \in 1..6 : u[j] < v[j] /\ \A i \in 1..(j - 1) : u[i] = v[i]
  <2>1. CASE u[1] < v[1]
    BY <2>1
  <2>2. CASE u[1] = v[1] /\ u[2] < v[2]
    BY <2>2
  <2>3. CASE u[1] = v[1] /\ u[2] = v[2] /\ u[3] < v[3]
    BY <2>3
  <2>4. CASE u[1] = v[1] /\ u[2] = v[2] /\ u[3] = v[3] /\ u[4] < v[4]
    BY <2>4
  <2>5. CASE u[1] = v[1] /\ u[2] = v[2] /\ u[3] = v[3] /\ u[4] = v[4] /\ u[5] < v[5]
    BY <2>5
  <2>6. CASE /\ u[1] = v[1] /\ u[2] = v[2] /\ u[3] = v[3] /\ u[4] = v[4] /\ u[5] = v[5]
             /\ u[6] < v[6]
    BY <2>6
  <2> QED
    BY <2>1, <2>2, <2>3, <2>4, <2>5, <2>6
<1>2. PICK j \in 1..6 : u[j] < v[j] /\ \A i \in 1..(j - 1) : u[i] = v[i]
  BY <1>1
<1> QED
  BY <1>2, LowerAt, 6 \in Nat
=============================================================================
