-------------------------------- MODULE Fips180 --------------------------------
(***************************************************************************)
(* The hash computation of SHA-512 as FIPS 180-4 has it in section 6.4, by *)
(* which sha512c.c is checked: the functions as in 4.1.3, the variables    *)
(* shifted from a to h, the constants as in 4.2.3 and 5.3.5.               *)
(***************************************************************************)
EXTENDS BitSets, Sequences

CONSTANT K           \* the eighty round constants
VARIABLES blocks,    \* those not yet hashed
          H,         \* the hash value
          v,         \* the working variables a .. h
          W,         \* the message schedule
          t          \* the round, -1 between two blocks

Bits64 == 0 .. 63
Add(a, b) == Sum2(a, b) \cap Bits64
ROTR(n, x) == {(i - n) % 64 : i \in x}

Ch(x, y, z) == XOR(x \cap y, (Bits64 \ x) \cap z)
Maj(x, y, z) == XOR(XOR(x \cap y, x \cap z), y \cap z)
Sigma0(x) == XOR(XOR(ROTR(28, x), ROTR(34, x)), ROTR(39, x))
Sigma1(x) == XOR(XOR(ROTR(14, x), ROTR(18, x)), ROTR(41, x))
sigma0(x) == XOR(XOR(ROTR(1, x), ROTR(8, x)), Shr(x, 7))
sigma1(x) == XOR(XOR(ROTR(19, x), ROTR(61, x)), Shr(x, 6))
----------------------------------------------------------------------------
(* The constants: 64 bits of the fraction of a root of a prime number.     *)
IsPrime(n) == n > 1 /\ \A i \in 2 .. n - 1 : n % i # 0
Prime(j) == CHOOSE n \in 2 .. 409 : IsPrime(n) /\ Cardinality({i \in 2 .. n : IsPrime(i)}) = j

RECURSIVE Times(_, _)
Times(a, b) == IF b = {} THEN {} ELSE Sum2(Shl(a, Min(b)), Times(a, b \ {Min(b)}))

Power(a, e) == IF e = 2 THEN Times(a, a) ELSE Times(Times(a, a), a)

IsFractionOfRoot(k, e, p) ==
  LET whole == CHOOSE n \in 1 .. 20 : n^e < p /\ p < (n + 1)^e
      root == k \cup Shl(BitsOf(whole, 5), 64)
      exact == Shl(BitsOf(p, 9), 64 * e)
  IN  ~Less(exact, Power(root, e)) /\ Less(exact, Power(Sum2(root, {0}), e))
----------------------------------------------------------------------------
Message(i) == UNION {Shl(BitsOf(Head(blocks)[8 * i + k], 8), 64 - 8 * k) : k \in 1 .. 8}

IsSchedule(w) ==
  \A i \in 1 .. 80 :
    w[i] = IF i <= 16 THEN Message(i - 1)
           ELSE Add(Add(sigma1(w[i - 2]), w[i - 7]), Add(sigma0(w[i - 15]), w[i - 16]))

Init == /\ \A i \in 1 .. 8 : IsFractionOfRoot(H[i], 2, Prime(i))
        /\ v = H
        /\ t = -1

Begin == /\ t = -1 /\ blocks # <<>>
         /\ IsSchedule(W')
         /\ t' = 0
         /\ UNCHANGED <<blocks, H, v>>

Round == /\ t \in 0 .. 79
         /\ IsFractionOfRoot(K[t + 1], 3, Prime(t + 1))
         /\ LET T1 == Add(Add(v[8], Sigma1(v[5])),
                          Add(Add(Ch(v[5], v[6], v[7]), K[t + 1]), W[t + 1]))
                T2 == Add(Sigma0(v[1]), Maj(v[1], v[2], v[3]))
            IN  v' = <<Add(T1, T2), v[1], v[2], v[3], Add(v[4], T1), v[5], v[6], v[7]>>
         /\ t' = t + 1
         /\ UNCHANGED <<blocks, H, W>>

Finish == /\ t = 80
          /\ H' = [i \in 1 .. 8 |-> Add(v[i], H[i])]
          /\ v' = H'
          /\ blocks' = Tail(blocks)
          /\ t' = -1
          /\ UNCHANGED W

Next == Begin \/ Round \/ Finish
Spec == Init /\ [][Next]_<<blocks, H, v, W, t>>
=============================================================================
