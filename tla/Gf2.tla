-------------------------------- MODULE Gf2 ---------------------------------
(***************************************************************************)
(* Words of bits, one bit of them, as polynomials over GF(2) in the secret *)
(* and random bits of an execution: a polynomial is the set of its         *)
(* monomials, a monomial the set of its atoms.  Two words that are the same*)
(* polynomial are equal whatever the secrets and the random bits are.      *)
(***************************************************************************)
EXTENDS Integers, FiniteSets

Zero == {}
One == {{}}
Atom(a) == {{a}}

x (+) y == (x \ y) \cup (y \ x)

x (.) y ==
    {m \in {m1 \cup m2 : m1 \in x, m2 \in y} :
        Cardinality({q \in x \X y : q[1] \cup q[2] = m}) % 2 = 1}
=============================================================================
