------------------------------- MODULE BchRoots --------------------------------
(***************************************************************************)
(* The roots of an error locator polynomial, common/bch/src/bch.c: by      *)
(* formulas up to degree 4, above it by splitting the polynomial with      *)
(* traces (Berlekamp).  Roots come as the logarithms of their inverses,    *)
(* which are the positions of the errors; a sequence shorter than the      *)
(* degree says that some root is missing.                                  *)
(***************************************************************************)
EXTENDS GaloisField, SequencesExt

(* Gaussian elimination of the column for x_c: swap the first row that has *)
(* it into place and take it from the others, or note a parameter.  s is   *)
(* [rows, param]; a row is the set of its columns, with the constant at 0. *)
Eliminate(m, s, c) ==
  LET p == c - Cardinality(s.param)
      with == {r \in p .. m - 1 : m - c \in s.rows[r]}
      q == Min(with)
      swapped == [s.rows EXCEPT ![p] = s.rows[q], ![q] = s.rows[p]]
  IN  IF with = {} THEN [s EXCEPT !.param = @ \cup {c}]
      ELSE [s EXCEPT !.rows = Computed([r \in 0 .. m - 1 |->
              IF r > q /\ m - c \in swapped[r] THEN XOR(swapped[r], swapped[p]) ELSE swapped[r]])]

RECURSIVE EliminateFrom(_, _, _)
EliminateFrom(m, s, c) == IF c = m THEN s ELSE EliminateFrom(m, Eliminate(m, s, c), c + 1)

(* The rows from the last up determine the unknowns from the last up.      *)
RECURSIVE BackSubstitute(_, _, _, _)
BackSubstitute(m, rows, x, r) ==
  IF r < 0 THEN {i - 1 : i \in x}
  ELSE BackSubstitute(m, rows,
                      IF parity(rows[r] \cap (x \cup {0})) = 1 THEN x \cup {m - r} ELSE x, r - 1)

(* All solutions, if there are nsol; every parameter takes both values.    *)
solve_linear_system(bch, rows, nsol) ==
  LET m == bch.m
      done == EliminateFrom(m, [rows |-> rows, param |-> {}], 0)
      param == done.param
      k == Cardinality(param)
      below(r) == Cardinality({x \in param : x < r})
      spread == Computed([r \in 0 .. m - 1 |->
                            IF r \in param THEN {m - r} ELSE done.rows[r - below(r)]])
      Solution(ones) ==
        BackSubstitute(m, [r \in 0 .. m - 1 |->
                             IF r \in ones THEN spread[r] \cup {0} ELSE spread[r]], {}, m - 1)
  IN  IF (\E r \in m - k .. m - 1 : done.rows[r] # {}) \/ nsol # 2^k THEN {}
      ELSE {Solution(ones) : ones \in SUBSET param}

(* Roots of X^4 + aX^2 + bX + c, which is linear but for c: four or none.  *)
find_affine4_roots(bch, a, b, c) ==
  LET j == a_log(bch, b)
      k == a_log(bch, a)
      column == Computed([i \in 0 .. bch.m |->
        IF i = 0 THEN c
        ELSE XOR(bch.a_pow_tab[4 * (i - 1)],
                 XOR(IF a = {} THEN {} ELSE bch.a_pow_tab[mod_s(bch, k + 2 * (i - 1))],
                     IF b = {} THEN {} ELSE bch.a_pow_tab[mod_s(bch, j + i - 1)]))])
      transposed == Computed([r \in 0 .. bch.m - 1 |-> {i \in 0 .. bch.m : r \in column[i]}])
  IN  solve_linear_system(bch, transposed, 4)

----------------------------------------------------------------------------
(* Up to degree 4.                                                         *)

find_poly_deg1_roots(bch, poly) ==
  IF poly[0] = {} THEN <<>>
  ELSE <<mod_s(bch, bch.n - a_log(bch, poly[0]) + a_log(bch, poly[1]))>>

(* aX^2 + bX + c becomes z^2 + z + u, of which xi_tab gives a root bit by  *)
(* bit of u.                                                               *)
find_poly_deg2_roots(bch, poly) ==
  LET l0 == a_log(bch, poly[0])
      l1 == a_log(bch, poly[1])
      l2 == a_log(bch, poly[2])
      u == a_pow(bch, l0 + l2 + 2 * (bch.n - l1))
      r == {i \in 0 .. bch.m - 1 : parity({j \in u : i \in bch.xi_tab[j]}) = 1}
      Back(z) == modulo(bch, 2 * bch.n - l1 - a_log(bch, z) + l2)
  IN  IF poly[0] # {} /\ poly[1] # {} /\ XOR(gf_sqr(bch, r), r) = u
        THEN <<Back(r), Back(XOR(r, {0}))>>
        ELSE <<>>

(* Times X + a2 it is affine, with the root a2 to be taken out again.      *)
find_poly_deg3_roots(bch, poly) ==
  LET c2 == gf_div(bch, poly[0], poly[3])
      b2 == gf_div(bch, poly[1], poly[3])
      a2 == gf_div(bch, poly[2], poly[3])
      c == gf_mul(bch, a2, c2)
      b == XOR(gf_mul(bch, a2, b2), c2)
      a == XOR(gf_sqr(bch, a2), b2)
      roots == SetToSeq(find_affine4_roots(bch, a, b, c) \ {a2})
  IN  IF poly[0] = {} THEN <<>>
      ELSE [i \in DOMAIN roots |-> a_ilog(bch, roots[i])]

\* Mutant of HalfLog: an odd logarithm is halved as it is.
HalfLog_Odd(bch, l) == l

(* The logarithm of a square is even, if need be once around.              *)
HalfLog(bch, l) == l + IF l % 2 = 1 THEN bch.n ELSE 0

(* aX^3 + bX^2 + cX + d besides X^4: X + e takes cX away and 1/X makes it  *)
(* affine.                                                                 *)
find_poly_deg4_roots(bch, poly) ==
  LET a == gf_div(bch, poly[3], poly[4])
      b1 == gf_div(bch, poly[2], poly[4])
      c == gf_div(bch, poly[1], poly[4])
      d1 == gf_div(bch, poly[0], poly[4])
      shifts == a # {} /\ c # {}
      f == gf_div(bch, c, a)
      l == HalfLog(bch, a_log(bch, f))
      e == IF shifts THEN a_pow(bch, l \div 2) ELSE {}
      d == IF shifts THEN XOR(a_pow(bch, 2 * l), XOR(gf_mul(bch, b1, f), d1)) ELSE d1
      b == IF shifts THEN XOR(gf_mul(bch, a, e), b1) ELSE b1
      roots == SetToSeq(IF a = {} THEN find_affine4_roots(bch, b, c, d)
                     ELSE find_affine4_roots(bch, gf_div(bch, b, d), gf_div(bch, a, d),
                                             gf_inv(bch, d)))
      Back(x) == a_ilog(bch, XOR(IF a = {} THEN x ELSE gf_inv(bch, x), e))
  IN  IF poly[0] = {} \/ (a # {} /\ d = {}) THEN <<>>
      ELSE [i \in DOMAIN roots |-> Back(roots[i])]
----------------------------------------------------------------------------
(* Above: f and the trace of a^k X have in common the roots of f at which  *)
(* the trace is 0.                                                         *)

gf_poly_sqr(bch, z) ==
  Computed([j \in 0 .. 2 * Deg(z) |-> IF j % 2 = 0 THEN gf_sqr(bch, z[j \div 2]) ELSE {}])

(* out adds up z and its squares, turns more of them.                      *)
RECURSIVE TraceFrom(_, _, _, _, _)
TraceFrom(bch, f, z, out, turns) ==
  IF turns = 0 THEN Trim(out)
  ELSE LET squared == gf_poly_mod(bch, gf_poly_sqr(bch, z), f)
       IN  TraceFrom(bch, f, squared, gf_poly_add(out, squared), turns - 1)

compute_trace_bk_mod(bch, k, f) ==
  LET aX == 0 :> {} @@ 1 :> bch.a_pow_tab[k]
  IN  TraceFrom(bch, f, aX, aX, bch.m - 1)

(* f in two factors, or f alone.                                           *)
factor_polynomial(bch, k, f) ==
  LET tk == compute_trace_bk_mod(bch, k, f)
      gcd == gf_poly_gcd(bch, f, tk)
  IN  IF Deg(tk) > 0 /\ Deg(gcd) < Deg(f) THEN <<gcd, gf_poly_div(bch, f, gcd)>> ELSE <<f>>

RECURSIVE find_poly_roots(_, _, _)
find_poly_roots(bch, k, poly) ==
  CASE Deg(poly) = 1 -> find_poly_deg1_roots(bch, poly)
    [] Deg(poly) = 2 -> find_poly_deg2_roots(bch, poly)
    [] Deg(poly) = 3 -> find_poly_deg3_roots(bch, poly)
    [] Deg(poly) = 4 -> find_poly_deg4_roots(bch, poly)
    [] Deg(poly) > 4 /\ k <= bch.m ->
         LET parts == factor_polynomial(bch, k, poly)
         IN  find_poly_roots(bch, k + 1, parts[1])
               \o IF Len(parts) = 2 THEN find_poly_roots(bch, k + 1, parts[2]) ELSE <<>>
    [] OTHER -> <<>>
=============================================================================
