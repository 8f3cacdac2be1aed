-------------------------------- MODULE Points --------------------------------
(***************************************************************************)
(* Compressed points of an elliptic curve, y^2 = x^3 + a x + b modulo a    *)
(* prime (spake2/mbedtls/ecc_point_compression.c).  The curve is fixed     *)
(* code for P-256, whose a is -3; the prime is a parameter here.  Bytes    *)
(* are numbers, and an input of a wrong length is one of "short".          *)
(***************************************************************************)
EXTENDS Integers

CONSTANTS
  Primes    \* the sizes of the field, each one less than a multiple of 4

ASSUME PrimesAssumption == \A q \in Primes : q \in Nat /\ q % 4 = 3

VARIABLES
  P, B,         \* the curve
  point,        \* a point of it
  packed,       \* the output of the first call
  unpacked      \* the output of the second

pointVars == <<P, B, point, packed, unpacked>>

Refused == [format |-> 0]

CurveAt(x) == (x * x * x - 3 * x + B) % P

exp_mod(r, n) ==
  LET power[i \in 0..n] == IF i = 0 THEN 1 ELSE (power[i - 1] * r) % P
  IN  power[n]

(* The square root of r, if r is a square *)
RootOfP(r) == exp_mod(r, P \div 4)

Root(r) == exp_mod(r, (P + 1) \div 4)

mbedtls_ecp_compress(in) ==
  IF in.format # 4 THEN Refused
  ELSE [format |-> 2 + (in.y % 2), x |-> in.x]

mbedtls_ecp_decompress(in) ==
  IF in.format \notin {2, 3} THEN Refused
  ELSE LET r == Root(CurveAt(in.x))
       IN  [format |-> 4, x |-> in.x,
            y |-> IF (in.format = 3) # (r % 2 = 1) THEN P - r ELSE r]
-----------------------------------------------------------------------------
PointsInit ==
  /\ P \in Primes
  /\ B \in 0..(P - 1)
  /\ \E x, y \in 0..(P - 1) :
       (y * y) % P = CurveAt(x) /\ point = [format |-> 4, x |-> x, y |-> y]
  /\ packed = Refused /\ unpacked = Refused

Compress ==
  /\ packed = Refused
  /\ packed' = mbedtls_ecp_compress(point)
  /\ UNCHANGED <<P, B, point, unpacked>>

Decompress ==
  /\ packed # Refused /\ unpacked = Refused
  /\ unpacked' = mbedtls_ecp_decompress(packed)
  /\ UNCHANGED <<P, B, point, packed>>

PointsNext == Compress \/ Decompress

PointsSpec == PointsInit /\ [][PointsNext]_pointVars
-----------------------------------------------------------------------------
(* Every point of the curve survives compression.  The power (P + 1) / 4   *)
(* is a root of every square modulo such a prime, the bit that is kept     *)
(* picks the right one of two, and the point with y = 0 has only one.      *)
PointsComeBack == unpacked # Refused => unpacked = point
=============================================================================
