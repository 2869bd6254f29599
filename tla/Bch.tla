---------------------------------- MODULE Bch ----------------------------------
(***************************************************************************)
(* The BCH codec of common/bch/src/bch.c: init_bch builds the tables for a *)
(* field order m and a number t of errors, encode_bch computes the parity  *)
(* of a message, decode_bch says which bits of message and parity arrived  *)
(* wrong.                                                                  *)
(*                                                                         *)
(* Bytes are sets of bit positions, messages and parity sequences of them. *)
(* The words of a register are laid end to end, the first word on top;     *)
(* Width is the number of their bits.  Memory never runs out here.         *)
(***************************************************************************)
EXTENDS BchRoots

CONSTANTS BchParams,    \* the [m, t, prim_poly] init_bch is called with, 0 for its own
          BchTraffic    \* for each, [data, wrong]: the messages to send, and the sets
                        \* of bits that may arrive wrong

Octet == SUBSET (0 .. 7)
DIV_ROUND_UP(n, d) == (n + d - 1) \div d
----------------------------------------------------------------------------
(* init_bch                                                                *)

prim_poly_tab ==
  5 :> {5, 2, 0} @@ 6 :> {6, 1, 0} @@ 7 :> {7, 1, 0} @@ 8 :> {8, 4, 3, 2, 0} @@
  9 :> {9, 4, 0} @@ 10 :> {10, 3, 0} @@ 11 :> {11, 2, 0} @@ 12 :> {12, 6, 4, 1, 0} @@
  13 :> {13, 4, 3, 1, 0} @@ 14 :> {14, 5, 3, 1, 0} @@ 15 :> {15, 1, 0}

(* g is the product of X + a^r for the odd powers r below 2t and their     *)
(* conjugates.                                                             *)
GeneratorRoots(bch) ==
  LET Conjugates(i) == {modulo(bch, (2 * i + 1) * 2^j) : j \in 0 .. bch.m - 1}
  IN  UNION {Conjugates(i) : i \in 0 .. bch.t - 1}

RECURSIVE ProductOf(_, _, _)
ProductOf(bch, g, roots) ==
  LET r == Min(roots)
      times == [j \in 0 .. Deg(g) + 1 |->
                  XOR(gf_mul(bch, Coef(g, j), bch.a_pow_tab[r]), Coef(g, j - 1))]
  IN  IF roots = {} THEN g ELSE ProductOf(bch, Computed(times), roots \ {r})

compute_generator_polynomial(bch) ==
  LET g == ProductOf(bch, 0 :> {0}, GeneratorRoots(bch)) IN {j \in DOMAIN g : g[j] # {}}

(* What is left of p by g, its terms from X^(d + ecc_bits) down.           *)
RECURSIVE ModG(_, _, _)
ModG(bch, p, d) ==
  IF d < 0 THEN p
  ELSE ModG(bch, IF d + bch.ecc_bits \in p THEN XOR(p, Shl(bch.g, d)) ELSE p, d - 1)

build_mod8_tables(bch) ==
  LET Remainder(msg) == ModG(bch, Shl(msg, bch.ecc_bits), 31)
  IN  Computed([b \in 0 .. 3 |-> Computed([i \in Octet |->
        Shl(Remainder(Shl(i, 8 * b)), bch.Width - bch.ecc_bits)])])

(* a^k is the first with trace 1; then one of a^i and a^i + a^k is of the  *)
(* form x^2 + x for every i.                                               *)
RECURSIVE TraceOf(_, _, _)
TraceOf(bch, i, j) ==
  IF j < 0 THEN {} ELSE XOR(a_pow(bch, i * 2^j), TraceOf(bch, i, j - 1))

build_deg2_base(bch) ==
  LET ak == bch.a_pow_tab[Min({i \in 0 .. bch.m - 1 : TraceOf(bch, i, bch.m - 1) # {}})]
  IN  Computed([i \in 0 .. bch.m - 1 |->
        CHOOSE x \in FieldOf(bch.m) :
          XOR(gf_sqr(bch, x), x) \in {bch.a_pow_tab[i], XOR(bch.a_pow_tab[i], ak)}])

PolyOf(p) == IF p.prim_poly = {} THEN prim_poly_tab[p.m] ELSE p.prim_poly

Accepts(p) == /\ p.m \in 5 .. 15
              /\ p.t >= 1 /\ p.m * p.t < 2^p.m - 1
              /\ Primitive(p.m, PolyOf(p))

WithTables(p) == [m |-> p.m, t |-> p.t, n |-> 2^p.m - 1] @@ build_gf_tables(p.m, PolyOf(p))
WithGenerator(bch) ==
  LET g == compute_generator_polynomial(bch)
  IN  [g |-> g, ecc_bits |-> Max(g), ecc_bytes |-> DIV_ROUND_UP(bch.m * bch.t, 8),
       Width |-> 32 * DIV_ROUND_UP(bch.m * bch.t, 32)] @@ bch
WithRemainders(bch) == [mod8_tab |-> build_mod8_tables(bch)] @@ bch

init_bch(p) == LET bch == WithRemainders(WithGenerator(WithTables(p)))
               IN  [xi_tab |-> build_deg2_base(bch)] @@ bch

(* A control structure for each of the parameters it takes.                *)
Codec == Computed([p \in {q \in BchParams : Accepts(q)} |-> init_bch(p)])
----------------------------------------------------------------------------
(* encode_bch                                                              *)

load_ecc8(bch, ecc) ==
  UNION {Shl(ecc[q], bch.Width - 8 * q) : q \in 1 .. bch.ecc_bytes}

store_ecc8(bch, r) ==
  [q \in 1 .. bch.ecc_bytes |-> {i \in 0 .. 7 : bch.Width - 8 * q + i \in r}]

(* The byte k of the top word, the last byte being 0.                      *)
TopByte(bch, r, k) == {i \in 0 .. 7 : bch.Width - 32 + 8 * k + i \in r}
ShiftOut(bch, r, k) == {i \in Shl(r, k) : i < bch.Width}

(* One byte, from a table of remainders.                                   *)
EncodeByte(bch, r, byte) ==
  XOR(ShiftOut(bch, r, 8), bch.mod8_tab[0][XOR(TopByte(bch, r, 3), byte)])

RECURSIVE encode_bch_unaligned(_, _, _)
encode_bch_unaligned(bch, msg, r) ==
  IF msg = <<>> THEN r
  ELSE encode_bch_unaligned(bch, Tail(msg), EncodeByte(bch, r, Head(msg)))

(* Four bytes in parallel, the first of them on top.                       *)
EncodeWord(bch, r, bytes) ==
  LET w(k) == XOR(TopByte(bch, r, k), bytes[4 - k])
      p(k) == bch.mod8_tab[k][w(k)]
  IN  XOR(ShiftOut(bch, r, 32), XOR(XOR(p(0), p(1)), XOR(p(2), p(3))))

RECURSIVE EncodeWords(_, _, _)
EncodeWords(bch, msg, r) ==
  IF Len(msg) < 4 THEN encode_bch_unaligned(bch, msg, r)
  ELSE EncodeWords(bch, SubSeq(msg, 5, Len(msg)), EncodeWord(bch, r, SubSeq(msg, 1, 4)))

(* Bytes up to a word boundary of the memory, words, and the rest.  align  *)
(* is the address of msg modulo 4.                                         *)
encode_bch(bch, msg, align, ecc) ==
  LET mlen == IF align = 0 THEN 0 ELSE Min({Len(msg), 4 - align})
  IN  EncodeWords(bch, SubSeq(msg, mlen + 1, Len(msg)),
                  encode_bch_unaligned(bch, SubSeq(msg, 1, mlen), ecc))
----------------------------------------------------------------------------
(* decode_bch                                                              *)

(* The polynomial of the register at a, a^2 .. a^2t.                       *)
compute_syndromes(bch, r) ==
  LET poly == {i - (bch.Width - bch.ecc_bits) : i \in {j \in r : j >= bch.Width - bch.ecc_bits}}
      At(j) == {b \in 0 .. bch.m - 1 : parity({i \in poly : b \in a_pow(bch, j * i)}) = 1}
      syn[j \in 1 .. 2 * bch.t] == IF j % 2 = 1 THEN At(j) ELSE gf_sqr(bch, syn[j \div 2])
  IN  Computed(syn)

(* One turn of Berlekamp and Massey: correct elp by the discrepancy d with *)
(* a shifted copy of an earlier elp, and compute the next discrepancy.     *)
CorrectElp(bch, s, i) ==
  LET k == 2 * i - s.pp
      tmp == a_log(bch, s.d) + bch.n - a_log(bch, s.pd)
      Shifted(x) == IF Coef(s.pelp, x) = {} THEN {}
                    ELSE a_pow(bch, tmp + a_log(bch, s.pelp[x]))
      longer == Deg(s.pelp) + k > Deg(s.elp)
      elp == Computed([x \in 0 .. Max({Deg(s.elp), Deg(s.pelp) + k}) |->
                         XOR(Coef(s.elp, x), Shifted(x - k))])
  IN  IF s.d = {} THEN s
      ELSE IF longer THEN [elp |-> elp, pelp |-> s.elp, pd |-> s.d, pp |-> 2 * i, d |-> s.d]
      ELSE [s EXCEPT !.elp = elp]

RECURSIVE Discrepancy(_, _, _, _)
Discrepancy(bch, elp, syn, j) ==
  IF j > Deg(elp) THEN {}
  ELSE XOR(gf_mul(bch, elp[j], syn[j]), Discrepancy(bch, elp, syn, j + 1))

RECURSIVE Massey(_, _, _, _)
Massey(bch, syn, s, i) ==
  LET c == CorrectElp(bch, s, i)
      ahead == [j \in 0 .. 2 * i + 2 |-> syn[2 * i + 3 - j]]
  IN  CASE Deg(s.elp) > bch.t \/ i = bch.t -> s.elp
        [] i = bch.t - 1 -> c.elp
        [] OTHER -> Massey(bch, syn, [c EXCEPT !.d = Discrepancy(bch, c.elp, ahead, 0)], i + 1)

compute_error_locator_polynomial(bch, syn) ==
  LET one == 0 :> {0}
  IN  Massey(bch, syn, [elp |-> one, pelp |-> one, pd |-> {0}, pp |-> -1, d |-> syn[1]], 0)

(* Positions count from the last parity bit; locations count bytes from    *)
(* the front and bits in a byte from its low end.                          *)
Location(nbits, errloc) ==
  LET e == nbits - 1 - errloc IN 8 * (e \div 8) + (7 - (e % 8))

Found(errloc) == [err |-> Len(errloc), errloc |-> errloc]
Failure == [err |-> -2, errloc |-> <<>>]
BadArguments == [err |-> -1, errloc |-> <<>>]

(* From the locator and its roots to locations in nbits bits.              *)
Locations(t, nbits, elp, roots) ==
  IF Deg(elp) = 0 THEN Found(<<>>)
  ELSE IF \/ Deg(elp) > t
          \/ Len(roots) # Deg(elp)
          \/ \E i \in DOMAIN roots : roots[i] >= nbits
       THEN Failure
       ELSE Found([i \in DOMAIN roots |-> Location(nbits, roots[i])])

Locate(bch, len, elp) ==
  Locations(bch.t, 8 * len + bch.ecc_bits, elp, find_poly_roots(bch, 1, elp))

TooLong(bch, len) == 8 * len > bch.n - bch.ecc_bits
NoBytes == <<>>

(* What is missing is computed: the parity of msg, the difference of the   *)
(* parities, the syndromes.                                                *)
decode_bch(bch, msg, align, len, recv_ecc, calc_ecc, syn) ==
  LET calculated == IF calc_ecc = NoBytes THEN encode_bch(bch, msg, align, {})
                    ELSE load_ecc8(bch, calc_ecc)
      differs == IF recv_ecc = NoBytes THEN calculated
                 ELSE XOR(calculated, load_ecc8(bch, recv_ecc))
      missing == syn = NoBytes /\ calc_ecc = NoBytes /\ NoBytes \in {msg, recv_ecc}
      syndromes == IF syn # NoBytes THEN syn ELSE compute_syndromes(bch, differs)
  IN  IF TooLong(bch, len) \/ missing THEN BadArguments
      ELSE IF syn = NoBytes /\ recv_ecc # NoBytes /\ differs = {} THEN Found(<<>>)
      ELSE Locate(bch, len, compute_error_locator_polynomial(bch, syndromes))
----------------------------------------------------------------------------
(* One message: a caller makes a codec, encodes in one call or in two,     *)
(* bits change on the way, and the receiver asks which.                    *)

VARIABLES bch_step,
          codec,      \* the parameters
          sending,    \* the message and its parity
          wrong,      \* the bits that arrived wrong, numbered as errloc is
          located     \* what decode_bch answered

bchVars == <<bch_step, codec, sending, wrong, located>>

BchBegin == /\ bch_step = "new"
            /\ codec \in BchParams
            /\ sending = [data |-> <<>>, ecc |-> <<>>]
            /\ wrong = {}
            /\ located = Found(<<>>)

BchInit == /\ bch_step = "new"
           /\ bch_step' = IF codec \in DOMAIN Codec THEN "ready" ELSE "refused"
           /\ UNCHANGED <<codec, sending, wrong, located>>

BchEncode == /\ bch_step = "ready"
             /\ \E msg \in BchTraffic[codec].data, align \in 0 .. 3 :
                  \E cut \in 0 .. Len(msg) :
                    LET bch == Codec[codec]
                        zero == [q \in 1 .. bch.ecc_bytes |-> {}]
                        Encode(part, addr, ecc) ==
                          store_ecc8(bch, encode_bch(bch, part, addr, load_ecc8(bch, ecc)))
                        half == Encode(SubSeq(msg, 1, cut), align, zero)
                    IN  sending' = [data |-> msg,
                                    ecc |-> Encode(SubSeq(msg, cut + 1, Len(msg)),
                                                   (align + cut) % 4, half)]
             /\ bch_step' = "encoded"
             /\ UNCHANGED <<codec, wrong, located>>

Flip(bytes, bits) == [q \in DOMAIN bytes |->
                        XOR(bytes[q], {i \in 0 .. 7 : 8 * (q - 1) + i \in bits})]

(* The four ways to call decode_bch: what a caller hands over.             *)
Ways == {"data", "two parities", "difference", "syndromes"}

HandedOver(bch, way, align, msg, ecc, calc) ==
  LET xor == [q \in DOMAIN ecc |-> XOR(ecc[q], calc[q])]
      none == [msg |-> NoBytes, align |-> 0, recv |-> NoBytes, calc |-> NoBytes, syn |-> NoBytes]
  IN  CASE way = "data" -> [none EXCEPT !.msg = msg, !.align = align, !.recv = ecc]
        [] way = "two parities" -> [none EXCEPT !.recv = ecc, !.calc = calc]
        [] way = "difference" -> [none EXCEPT !.calc = xor]
        [] way = "syndromes" ->
             [none EXCEPT !.syn = compute_syndromes(bch, load_ecc8(bch, xor))]

Call(bch, len, x) == decode_bch(bch, x.msg, x.align, len, x.recv, x.calc, x.syn)

Decode(bch, way, align, msg, ecc) ==
  Call(bch, Len(msg), HandedOver(bch, way, align, msg, ecc,
                                store_ecc8(bch, encode_bch(bch, msg, 0, {}))))

BchDecode == /\ bch_step = "encoded"
             /\ \E bits \in BchTraffic[codec].wrong, way \in Ways, align \in 0 .. 3 :
                  LET all == Flip(sending.data \o sending.ecc, bits)
                      len == Len(sending.data)
                  IN  /\ way # "data" => align = 0
                      /\ wrong' = bits
                      /\ located' = Decode(Codec[codec], way, align, SubSeq(all, 1, len),
                                           SubSeq(all, len + 1, Len(all)))
             /\ bch_step' = "decoded"
             /\ UNCHANGED <<codec, sending>>

BchNext == BchInit \/ BchEncode \/ BchDecode
----------------------------------------------------------------------------
(* The bits that count: the parity ends within its last byte.              *)
BitsThatCount(bch, len) ==
  0 .. 8 * len - 1 \cup {Location(8 * len + bch.ecc_bits, e) : e \in 0 .. bch.ecc_bits - 1}

IsCodeword(bch, msg, ecc) == ecc = store_ecc8(bch, encode_bch(bch, msg, 0, {}))

(* What decode_bch may answer to the parts of a message in all with the    *)
(* wrong bits in it; named are the locations it has given.                 *)
DecodesWell(bch, len, all, named) ==
  LET errors == wrong \cap BitsThatCount(bch, len)
      corrected == Flip(all, SymDiff(errors, named))
  IN  CASE TooLong(bch, len) -> located = BadArguments
        [] ~TooLong(bch, len) /\ Cardinality(errors) <= bch.t ->
             located.err = Cardinality(errors) /\ named = errors
        [] ~TooLong(bch, len) /\ Cardinality(errors) > bch.t ->
             \/ located = Failure
             \/ /\ named \subseteq BitsThatCount(bch, len)
                /\ located.err <= bch.t
                /\ bch.t <= 4 => IsCodeword(bch, SubSeq(corrected, 1, len),
                                            SubSeq(corrected, len + 1, Len(all)))

(* Up to t wrong bits, anywhere in message and parity, are found and       *)
(* nothing else is; the bits that fill up the last byte of the parity do   *)
(* not matter.  With more than t of them decode_bch fails, or it names at  *)
(* most t bits that count; these make some message and its parity as long  *)
(* as t <= 4, where the roots come from formulas.  (gf_poly_gcd answers    *)
(* with a polynomial of degree 1 or more even where there is no common     *)
(* factor, and a locator without roots may then be split into such that    *)
(* have some.)  A message that does not fit is refused.                    *)
LocatesErrors ==
  bch_step = "decoded" =>
    DecodesWell(Codec[codec], Len(sending.data), sending.data \o sending.ecc,
                ToSet(located.errloc))
=============================================================================
