---------------------------- MODULE MCOrderStock ----------------------------
EXTENDS OrderStock, TLC
CONSTANTS s1, s2, o1, o2, p1, p2

L(p, n) == [product |-> p, qty |-> n]
MCBaskets == {<<L(p1, 1), L(p2, 1)>>, <<L(p2, 1), L(p1, 1)>>}
MCRepeated == {<<L(p1, 2), L(p1, 1)>>, <<L(p1, 2)>>}
MCTargets == {"PAYMENT_PENDING", "PAID", "PROCESSING"}
Symmetry == Permutations({s1, s2}) \cup Permutations({o1, o2}) \cup Permutations({p1, p2})
=============================================================================
