--------------------------------- MODULE Sha512 --------------------------------
(***************************************************************************)
(* sha512_compress of empiricalZK/rtz14/src/sha512c.c, a round at a time,  *)
(* as sha512_hash of commitment.c calls it: with the hash the block        *)
(* before left.  The rounds are unrolled and the registers a .. h change   *)
(* their roles instead of their contents.                                  *)
(***************************************************************************)
EXTENDS BitSets, Sequences

CONSTANT Inputs      \* what is compressed: sequences of blocks of 128 bytes

VARIABLES todo,       \* the blocks that are left, the one in work first
          digest,     \* of eight words, from 0
          schedule,   \* 80 words
          regs,       \* the registers a .. h
          round       \* the next one, or -1 between two blocks

shaVars == <<todo, digest, schedule, regs, round>>

Word == 0 .. 63
Low64(x) == x \cap Word
Plus(a, b) == Low64(Sum2(a, b))
Quarters(q) == UNION {Shl(BitsOf(q[j], 16), 64 - 16 * j) : j \in 1 .. 4}

(* In quarters of 16 bits.                                                 *)
Initial == <<
  <<\h6A09,\hE667,\hF3BC,\hC908>>, <<\hBB67,\hAE85,\h84CA,\hA73B>>, <<\h3C6E,\hF372,\hFE94,\hF82B>>,
  <<\hA54F,\hF53A,\h5F1D,\h36F1>>, <<\h510E,\h527F,\hADE6,\h82D1>>, <<\h9B05,\h688C,\h2B3E,\h6C1F>>,
  <<\h1F83,\hD9AB,\hFB41,\hBD6B>>, <<\h5BE0,\hCD19,\h137E,\h2179>>>>

K == <<
  <<\h428A,\h2F98,\hD728,\hAE22>>, <<\h7137,\h4491,\h23EF,\h65CD>>, <<\hB5C0,\hFBCF,\hEC4D,\h3B2F>>,
  <<\hE9B5,\hDBA5,\h8189,\hDBBC>>, <<\h3956,\hC25B,\hF348,\hB538>>, <<\h59F1,\h11F1,\hB605,\hD019>>,
  <<\h923F,\h82A4,\hAF19,\h4F9B>>, <<\hAB1C,\h5ED5,\hDA6D,\h8118>>, <<\hD807,\hAA98,\hA303,\h0242>>,
  <<\h1283,\h5B01,\h4570,\h6FBE>>, <<\h2431,\h85BE,\h4EE4,\hB28C>>, <<\h550C,\h7DC3,\hD5FF,\hB4E2>>,
  <<\h72BE,\h5D74,\hF27B,\h896F>>, <<\h80DE,\hB1FE,\h3B16,\h96B1>>, <<\h9BDC,\h06A7,\h25C7,\h1235>>,
  <<\hC19B,\hF174,\hCF69,\h2694>>, <<\hE49B,\h69C1,\h9EF1,\h4AD2>>, <<\hEFBE,\h4786,\h384F,\h25E3>>,
  <<\h0FC1,\h9DC6,\h8B8C,\hD5B5>>, <<\h240C,\hA1CC,\h77AC,\h9C65>>, <<\h2DE9,\h2C6F,\h592B,\h0275>>,
  <<\h4A74,\h84AA,\h6EA6,\hE483>>, <<\h5CB0,\hA9DC,\hBD41,\hFBD4>>, <<\h76F9,\h88DA,\h8311,\h53B5>>,
  <<\h983E,\h5152,\hEE66,\hDFAB>>, <<\hA831,\hC66D,\h2DB4,\h3210>>, <<\hB003,\h27C8,\h98FB,\h213F>>,
  <<\hBF59,\h7FC7,\hBEEF,\h0EE4>>, <<\hC6E0,\h0BF3,\h3DA8,\h8FC2>>, <<\hD5A7,\h9147,\h930A,\hA725>>,
  <<\h06CA,\h6351,\hE003,\h826F>>, <<\h1429,\h2967,\h0A0E,\h6E70>>, <<\h27B7,\h0A85,\h46D2,\h2FFC>>,
  <<\h2E1B,\h2138,\h5C26,\hC926>>, <<\h4D2C,\h6DFC,\h5AC4,\h2AED>>, <<\h5338,\h0D13,\h9D95,\hB3DF>>,
  <<\h650A,\h7354,\h8BAF,\h63DE>>, <<\h766A,\h0ABB,\h3C77,\hB2A8>>, <<\h81C2,\hC92E,\h47ED,\hAEE6>>,
  <<\h9272,\h2C85,\h1482,\h353B>>, <<\hA2BF,\hE8A1,\h4CF1,\h0364>>, <<\hA81A,\h664B,\hBC42,\h3001>>,
  <<\hC24B,\h8B70,\hD0F8,\h9791>>, <<\hC76C,\h51A3,\h0654,\hBE30>>, <<\hD192,\hE819,\hD6EF,\h5218>>,
  <<\hD699,\h0624,\h5565,\hA910>>, <<\hF40E,\h3585,\h5771,\h202A>>, <<\h106A,\hA070,\h32BB,\hD1B8>>,
  <<\h19A4,\hC116,\hB8D2,\hD0C8>>, <<\h1E37,\h6C08,\h5141,\hAB53>>, <<\h2748,\h774C,\hDF8E,\hEB99>>,
  <<\h34B0,\hBCB5,\hE19B,\h48A8>>, <<\h391C,\h0CB3,\hC5C9,\h5A63>>, <<\h4ED8,\hAA4A,\hE341,\h8ACB>>,
  <<\h5B9C,\hCA4F,\h7763,\hE373>>, <<\h682E,\h6FF3,\hD6B2,\hB8A3>>, <<\h748F,\h82EE,\h5DEF,\hB2FC>>,
  <<\h78A5,\h636F,\h4317,\h2F60>>, <<\h84C8,\h7814,\hA1F0,\hAB72>>, <<\h8CC7,\h0208,\h1A64,\h39EC>>,
  <<\h90BE,\hFFFA,\h2363,\h1E28>>, <<\hA450,\h6CEB,\hDE82,\hBDE9>>, <<\hBEF9,\hA3F7,\hB2C6,\h7915>>,
  <<\hC671,\h78F2,\hE372,\h532B>>, <<\hCA27,\h3ECE,\hEA26,\h619C>>, <<\hD186,\hB8C7,\h21C0,\hC207>>,
  <<\hEADA,\h7DD6,\hCDE0,\hEB1E>>, <<\hF57D,\h4F7F,\hEE6E,\hD178>>, <<\h06F0,\h67AA,\h7217,\h6FBA>>,
  <<\h0A63,\h7DC5,\hA2C8,\h98A6>>, <<\h113F,\h9804,\hBEF9,\h0DAE>>, <<\h1B71,\h0B35,\h131C,\h471B>>,
  <<\h28DB,\h77F5,\h2304,\h7D84>>, <<\h32CA,\hAB7B,\h40C7,\h2493>>, <<\h3C9E,\hBE0A,\h15C9,\hBEBC>>,
  <<\h431D,\h67C4,\h9C10,\h0D4C>>, <<\h4CC5,\hD4BE,\hCB3E,\h42B6>>, <<\h597F,\h299C,\hFC65,\h7E2A>>,
  <<\h5FCB,\h6FAB,\h3AD6,\hFAEC>>, <<\h6C44,\h198C,\h4A47,\h5817>>>>

ROR(x, k) == {(i - k) % 64 : i \in x}
----------------------------------------------------------------------------
LOADSCHEDULE(block, i) ==
  UNION {Shl(BitsOf(block[8 * i + k], 8), 64 - 8 * k) : k \in 1 .. 8}

\* Mutant of SCHEDULE: the last bits come around where they drop out.
SCHEDULE_Rotates(w, i) ==
  LET s(x, p, q, r) == XOR(XOR(ROR(x, p), ROR(x, q)), ROR(x, r))
  IN  Plus(Plus(w[i - 15], w[i - 6]), Plus(s(w[i - 14], 1, 8, 7), s(w[i - 1], 19, 61, 6)))

(* Word i of the schedule, of which w has those before.                    *)
SCHEDULE(w, i) ==
  LET s(x, p, q, r) == XOR(XOR(ROR(x, p), ROR(x, q)), Shr(x, r))
  IN  Plus(Plus(w[i - 15], w[i - 6]), Plus(s(w[i - 14], 1, 8, 7), s(w[i - 1], 19, 61, 6)))

RECURSIVE ScheduleFrom(_, _, _)
ScheduleFrom(block, w, i) ==
  IF i = 80 THEN w
  ELSE ScheduleFrom(block, Append(w, IF i < 16 THEN LOADSCHEDULE(block, i) ELSE SCHEDULE(w, i)),
                    i + 1)
----------------------------------------------------------------------------
ShaStart == /\ todo \in Inputs
            /\ digest = [i \in 0 .. 7 |-> Quarters(Initial[i + 1])]
            /\ schedule = <<>>
            /\ regs = digest
            /\ round = -1

Load == /\ round = -1 /\ todo # <<>>
        /\ schedule' = ScheduleFrom(Head(todo), <<>>, 0)
        /\ regs' = digest
        /\ round' = 0
        /\ UNCHANGED <<todo, digest>>

(* The register that round i knows as the p-th parameter of ROUND.         *)
Named(i, p) == (p - i) % 8

ROUND == /\ round \in 0 .. 79
         /\ LET a == regs[Named(round, 0)]
                b == regs[Named(round, 1)]
                c == regs[Named(round, 2)]
                d == Named(round, 3)
                e == regs[Named(round, 4)]
                f == regs[Named(round, 5)]
                g == regs[Named(round, 6)]
                h == Named(round, 7)
                S(x, p, q, r) == XOR(XOR(ROR(x, p), ROR(x, q)), ROR(x, r))
                t == Plus(regs[h], Plus(Plus(S(e, 14, 18, 41), XOR(g, e \cap XOR(f, g))),
                                        Plus(Quarters(K[round + 1]), schedule[round + 1])))
                u == Plus(S(a, 28, 34, 39), (a \cap (b \cup c)) \cup (b \cap c))
            IN  regs' = [regs EXCEPT ![d] = Plus(@, t), ![h] = Plus(t, u)]
         /\ round' = round + 1
         /\ UNCHANGED <<todo, digest, schedule>>

AddIn == /\ round = 80
         /\ digest' = [i \in 0 .. 7 |-> Plus(digest[i], regs[i])]
         /\ todo' = Tail(todo)
         /\ round' = -1
         /\ UNCHANGED <<schedule, regs>>

ShaNext == Load \/ ROUND \/ AddIn
----------------------------------------------------------------------------
(* It is SHA-512 as the standard states it.                                *)
Standard == INSTANCE Fips180 WITH
  K <- [i \in 1 .. 80 |-> Quarters(K[i])],
  blocks <- todo,
  H <- [i \in 1 .. 8 |-> digest[i - 1]],
  v <- [p \in 1 .. 8 |-> IF round = -1 THEN digest[p - 1] ELSE regs[Named(round, p - 1)]],
  W <- schedule,
  t <- round

(* Every round leaves the working variables the standard has after it, by  *)
(* the order of the names, the boolean functions and the shifted schedule  *)
(* of the code, with the standard's constants: roots of the first primes.  *)
CompressesAsStandard == Standard!Spec
=============================================================================
