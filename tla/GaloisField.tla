------------------------------ MODULE GaloisField ------------------------------
(***************************************************************************)
(* The field GF(2^m) and polynomials over it, as common/bch/src/bch.c      *)
(* computes with them: by a table of powers and one of logarithms.         *)
(*                                                                         *)
(* A word of the code, and so an element of the field and a polynomial     *)
(* over GF(2), is the set of the positions of its ones; a polynomial over  *)
(* the field is a function from 0 .. degree to elements.  bch is the       *)
(* control structure, of which this module reads m, n, a_pow_tab and       *)
(* a_log_tab.                                                              *)
(***************************************************************************)
EXTENDS BitSets, Sequences, TLC

FieldOf(m) == SUBSET (0 .. m - 1)

(* f itself, every value of it worked out.                                 *)
Computed(f) == f @@ <<>>
----------------------------------------------------------------------------
(* The tables.  a^i runs through all elements but 0 before it comes back   *)
(* to 1 if poly, of degree m, is primitive.                                *)

TimesX(m, poly, x) == LET y == Shl(x, 1) IN IF m \in y THEN XOR(y, poly) ELSE y

RECURSIVE PowersFrom(_, _, _, _)
PowersFrom(m, poly, x, i) ==
  IF i = 2^m - 1 THEN i :> {0}
  ELSE i :> x @@ PowersFrom(m, poly, TimesX(m, poly, x), i + 1)

PowersOfX(m, poly) == PowersFrom(m, poly, {0}, 0)

Primitive(m, poly) == /\ Max(poly) = m
                      /\ LET pow == PowersOfX(m, poly)
                         IN  \A i \in 1 .. 2^m - 2 : pow[i] # {0}

build_gf_tables(m, poly) ==
  LET pow == PowersOfX(m, poly)
  IN  [a_pow_tab |-> pow,
       a_log_tab |-> Computed([x \in FieldOf(m) |->
                        IF x = {} THEN 0 ELSE CHOOSE i \in 0 .. 2^m - 2 : pow[i] = x])]
----------------------------------------------------------------------------
(* Elements.                                                               *)

modulo(bch, v) == v % bch.n

(* Enough below 2n.                                                        *)
mod_s(bch, v) == IF v < bch.n THEN v ELSE v - bch.n

gf_mul(bch, a, b) ==
  IF a = {} \/ b = {} THEN {}
  ELSE bch.a_pow_tab[mod_s(bch, bch.a_log_tab[a] + bch.a_log_tab[b])]

gf_sqr(bch, a) == IF a = {} THEN {} ELSE bch.a_pow_tab[mod_s(bch, 2 * bch.a_log_tab[a])]

gf_div(bch, a, b) ==
  IF a = {} THEN {}
  ELSE bch.a_pow_tab[mod_s(bch, bch.a_log_tab[a] + bch.n - bch.a_log_tab[b])]

gf_inv(bch, a) == bch.a_pow_tab[bch.n - bch.a_log_tab[a]]

a_pow(bch, i) == bch.a_pow_tab[modulo(bch, i)]
a_log(bch, x) == bch.a_log_tab[x]
a_ilog(bch, x) == mod_s(bch, bch.n - bch.a_log_tab[x])
----------------------------------------------------------------------------
(* Polynomials.                                                            *)

Deg(a) == Cardinality(DOMAIN a) - 1
Coef(a, i) == IF i \in DOMAIN a THEN a[i] ELSE {}
Trim(a) == Computed([i \in 0 .. Max({0} \cup {j \in DOMAIN a : a[j] # {}}) |-> a[i]])

gf_poly_add(a, b) == Computed([i \in DOMAIN a \cup DOMAIN b |-> XOR(Coef(a, i), Coef(b, i))])

(* The logarithms of a made monic, -1 for a coefficient that is 0.         *)
gf_poly_logrep(bch, a) ==
  LET d == Deg(a)
      l == bch.n - a_log(bch, a[d])
  IN  Computed([i \in 0 .. d - 1 |->
                  IF a[i] = {} THEN -1 ELSE mod_s(bch, a_log(bch, a[i]) + l)])

(* The division, from the top coefficient down: the one at j stays as that *)
(* of the quotient, its multiple of the divisor is taken from those below. *)
Cancel(bch, c, rep, d, j) ==
  LET Takes(p) == p \in j - d .. j - 1 /\ rep[p - (j - d)] >= 0
  IN  IF c[j] = {} THEN c
      ELSE Computed([p \in DOMAIN c |->
             IF Takes(p)
               THEN XOR(c[p], bch.a_pow_tab[mod_s(bch, rep[p - (j - d)] + a_log(bch, c[j]))])
               ELSE c[p]])

RECURSIVE CancelFrom(_, _, _, _, _)
CancelFrom(bch, c, rep, d, j) ==
  IF j < d THEN c ELSE CancelFrom(bch, Cancel(bch, c, rep, d, j), rep, d, j - 1)

(* What division leaves of a: remainder below, quotient above.             *)
Divided(bch, a, b) == CancelFrom(bch, a, gf_poly_logrep(bch, b), Deg(b), Deg(a))

gf_poly_mod(bch, a, b) ==
  IF Deg(a) < Deg(b) THEN a
  ELSE LET c == Divided(bch, a, b) IN Trim([i \in 0 .. Deg(b) - 1 |-> c[i]])

gf_poly_div(bch, a, b) ==
  IF Deg(a) < Deg(b) THEN 0 :> {}
  ELSE LET c == Divided(bch, a, b)
       IN  Computed([i \in 0 .. Deg(a) - Deg(b) |-> c[i + Deg(b)]])

RECURSIVE Euclid(_, _, _)
Euclid(bch, a, b) == IF Deg(b) = 0 THEN a ELSE Euclid(bch, b, gf_poly_mod(bch, a, b))

gf_poly_gcd(bch, a, b) == IF Deg(a) < Deg(b) THEN Euclid(bch, b, a) ELSE Euclid(bch, a, b)
=============================================================================
