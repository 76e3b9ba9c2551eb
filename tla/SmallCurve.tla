----------------------------- MODULE SmallCurve -----------------------------
(***************************************************************************)
(* What the group operations are compared with: the curve                  *)
(* -x^2 + y^2 = 1 + d x^2 y^2 over a prime with prime % 8 = 5, where -1 is *)
(* a square and d is not, as for 2^255 - 19, with the law of addition      *)
(* written out, for points <<x, y>>.  The base point generates a subgroup  *)
(* of prime order, a quarter of the curve.                                 *)
(***************************************************************************)
EXTENDS Integers

prime == 61
curveD == 28
order == 19
basePoint == <<8, 49>>
rootOfMinus1 == 11

Field == 0 .. prime - 1

Power(x, n) ==
    LET r[k \in 0 .. n] == IF k = 0 THEN 1 ELSE (r[k - 1] * x) % prime IN r[n]
Inverses == [x \in Field |-> CHOOSE z \in Field : x = 0 \/ (x * z) % prime = 1]

CurvePoints ==
    {u \in Field \X Field :
        (u[2] ^ 2 - u[1] ^ 2) % prime = (1 + curveD * ((u[1] * u[2]) ^ 2 % prime)) % prime}

PointSum(u, v) ==
    LET m == (((curveD * u[1] * v[1]) % prime) * u[2] * v[2]) % prime
    IN  <<((u[1] * v[2] + v[1] * u[2]) * Inverses[(1 + m) % prime]) % prime,
          ((u[2] * v[2] + u[1] * v[1]) * Inverses[(1 - m) % prime]) % prime>>
PointMinus(u) == <<(-u[1]) % prime, u[2]>>

\* The multiples n < count of a point, which are sums in any order.
MultiplesOf(point, count) ==
    LET m[n \in 0 .. count - 1] ==
            LET half == m[n \div 2]
                even == PointSum(half, half)
            IN  CASE n = 0 -> <<0, 1>>
                  [] n > 0 /\ n % 2 = 0 -> even
                  [] n > 0 /\ n % 2 = 1 -> PointSum(even, point)
    IN  m

BaseMultiples == MultiplesOf(basePoint, order)
BaseMultiple(n) == BaseMultiples[n % order]
=============================================================================
