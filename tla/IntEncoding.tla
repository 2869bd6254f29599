----------------------------- MODULE IntEncoding -----------------------------
(* common/encoding/src/encoding/int.c: an integer is four bytes, the most  *)
(* significant first.                                                      *)
EXTENDS Integers, Sequences

I2B(i) == <<(i \div 16777216) % 256, (i \div 65536) % 256, (i \div 256) % 256,
            i % 256>>
B2I(b) == b[1] * 16777216 + b[2] * 65536 + b[3] * 256 + b[4]
=============================================================================
