----------------------------- MODULE ReedSolomon ----------------------------
(***************************************************************************)
(* Error correction of the QR decoder: a field of characteristic two by    *)
(* tables of powers and logarithms, polynomials over it, and the decoder   *)
(* (syndromes, Euclid, Chien's search, Forney's formula).                  *)
(* A polynomial is the sequence of its coefficients, the leading one first *)
(* and never 0 unless it is the whole polynomial.                          *)
(***************************************************************************)
EXTENDS Naturals, Sequences, FiniteSets, FiniteSetsExt

CONSTANTS
    Primitive,    \* the field's modulus: the bits of its coefficients
    FieldSize,    \* its number of elements
    GeneratorBase \* exponent of the first root of the generator polynomial

ASSUME FieldAssumption ==
    /\ FieldSize \in {2 ^ k : k \in 1..8}
    /\ Primitive \in FieldSize..(2 * FieldSize - 1)
    /\ GeneratorBase \in Nat

Null == <<>>   \* the decoder's `null': every block has at least one byte

Half(n) == (n + 1) \div 2
-----------------------------------------------------------------------------
(* The field.                                                              *)

Xor4 ==
    [a, b \in 0..15 |->
        LET Bit(k) == IF (a \div k) % 2 = (b \div k) % 2 THEN 0 ELSE k
        IN  Bit(1) + Bit(2) + Bit(4) + Bit(8)]

addOrSubtractGF(a, b) == 16 * Xor4[a \div 16, b \div 16] + Xor4[a % 16, b % 16]

Double(a) == IF 2 * a >= FieldSize
               THEN addOrSubtractGF((2 * a) % FieldSize, Primitive % FieldSize)
               ELSE 2 * a

\* The code's loop over x, in turns of sixteen.
doubled[a \in 0..255, n \in 0..16] == IF n = 0 THEN a ELSE doubled[Double(a), n - 1]
sixteenth[k \in 0..15] == IF k = 0 THEN 1 ELSE doubled[sixteenth[k - 1], 16]

\* expTable[i + 1] is the code's expTable[i].
expTable == SubSeq([i \in 1..FieldSize |->
                       doubled[sixteenth[(i - 1) \div 16], (i - 1) % 16]], 1, FieldSize)

logTable == SubSeq([a \in 1..(FieldSize - 1) |->
                       CHOOSE i \in 0..(FieldSize - 2) : expTable[i + 1] = a],
                   1, FieldSize - 1)

Multiply(a, b) == IF a = 0 \/ b = 0 THEN 0
                  ELSE expTable[((logTable[a] + logTable[b]) % (FieldSize - 1)) + 1]

inverse(a) == expTable[FieldSize - logTable[a]]   \* of a # 0
-----------------------------------------------------------------------------
(* Polynomials.                                                            *)

\* GenericGFPoly: leading zeros are dropped.
Poly(c) == LET nonZero == {i \in DOMAIN c : c[i] # 0}
           IN  IF nonZero = {} THEN <<0>> ELSE SubSeq(c, Min(nonZero), Len(c))

degree(p) == Len(p) - 1
isZero(p) == p[1] = 0

getCoefficient(p, d) == p[Len(p) - d]

addOrSubtract(p, q) ==
    LET n == Max({Len(p), Len(q)})
        Coef(r, d) == IF d > degree(r) THEN 0 ELSE getCoefficient(r, d)
    IN  Poly([i \in 1..n |-> addOrSubtractGF(Coef(p, n - i), Coef(q, n - i))])

multiplyByMonomial(p, d, c) ==
    Poly([i \in 1..(Len(p) + d) |-> IF i > Len(p) THEN 0 ELSE Multiply(p[i], c)])

multiply(p, c) == multiplyByMonomial(p, 0, c)

buildMonomial(d, c) == multiplyByMonomial(<<1>>, d, c)

\* The terms are added in halves rather than by Horner's rule, which would nest
\* as deep as the polynomial is long.
SumOfTerms(terms) ==
    LET sum[l \in DOMAIN terms, h \in DOMAIN terms] ==
            IF l = h THEN terms[l]
            ELSE addOrSubtractGF(sum[l, (l + h) \div 2], sum[((l + h) \div 2) + 1, h])
    IN  sum[1, Len(terms)]

\* The value at a.
evaluateAt(p, a) ==
    IF a = 0 THEN getCoefficient(p, 0)
    ELSE SumOfTerms([i \in DOMAIN p |->
           Multiply(p[i], expTable[((logTable[a] * (Len(p) - i)) % (FieldSize - 1)) + 1])])

\* The sum of q's multiples by p's monomials.
multiplyPoly(p, q) ==
    LET partial[i \in DOMAIN p] ==
            LET term == multiplyByMonomial(q, Len(p) - i, p[i])
            IN  IF i = 1 THEN term ELSE addOrSubtract(partial[i - 1], term)
    IN  partial[Len(p)]
-----------------------------------------------------------------------------
(* The decoder.                                                            *)

\* Long division of r by d from quotient q on: the quotient and the remainder.
Divide[q, r, d \in Seq(Nat)] ==
    LET shift == degree(r) - degree(d)
        scale == Multiply(r[1], inverse(d[1]))
    IN  IF degree(r) < degree(d) \/ isZero(r) THEN <<q, r>>
        ELSE Divide[addOrSubtract(q, buildMonomial(shift, scale)),
                    addOrSubtract(r, multiplyByMonomial(d, shift, scale)), d]

\* Until the remainder's degree is below R / 2: the locator and the evaluator,
\* both scaled so that the locator is 1 at 0.
Scaled(r, t, scale) == <<multiply(t, scale), multiply(r, scale)>>

runEuclideanAlgorithm[rLast, r, tLast, t \in Seq(Nat), R \in Nat] ==
    LET After(division) ==
            IF degree(division[2]) >= degree(r) THEN Null
            ELSE runEuclideanAlgorithm[r, division[2], t,
                     addOrSubtract(multiplyPoly(division[1], t), tLast), R]
    IN  IF degree(r) >= Half(R)
          THEN IF isZero(r) THEN Null ELSE After(Divide[<<0>>, rLast, r])
        ELSE IF getCoefficient(t, 0) = 0 THEN Null
        ELSE Scaled(r, t, inverse(getCoefficient(t, 0)))

\* The locator's roots inverted (Chien's search).
findErrorLocations(locator) ==
    IF degree(locator) = 1 THEN {getCoefficient(locator, 1)}
    ELSE {inverse(i) : i \in {j \in 1..(FieldSize - 1) : evaluateAt(locator, j) = 0}}

\* Mutated form: some roots are enough.
SomeFound(locator, locations) == locations # {}

\* As many as the locator's degree says.
allFound(locator, locations) == Cardinality(locations) = degree(locator)

\* Forney's formula at one location, given the others.
Magnitude(evaluator, others, xInverse) ==
    LET Product(y, acc) == Multiply(acc, addOrSubtractGF(1, Multiply(y, xInverse)))
    IN  Multiply(Multiply(evaluateAt(evaluator, xInverse), inverse(FoldSet(Product, 1, others))),
                 IF GeneratorBase # 0 THEN xInverse ELSE 1)

\* The last twoS bytes of a block are for correction: one syndrome for each.
syndromes(bytes, twoS) ==
    [i \in 1..twoS |-> evaluateAt(Poly(bytes), expTable[twoS - i + GeneratorBase + 1])]

Position(bytes, x) == Len(bytes) - logTable[x]

\* The error of each location taken out; Null when one lies before the block.
Repaired(bytes, evaluator, locations) ==
    IF \E x \in locations : Position(bytes, x) < 1 THEN Null
    ELSE [p \in DOMAIN bytes |->
            IF \E x \in locations : Position(bytes, x) = p
              THEN addOrSubtractGF(bytes[p],
                     Magnitude(evaluator, {x \in locations : Position(bytes, x) # p},
                               inverse(expTable[Len(bytes) - p + 1])))
              ELSE bytes[p]]

RepairedAt(bytes, sigma, omega, locations) ==
    IF allFound(sigma, locations) THEN Repaired(bytes, omega, locations) ELSE Null

RepairedBy(bytes, sigmaOmega) ==
    IF sigmaOmega = Null THEN Null
    ELSE RepairedAt(bytes, sigmaOmega[1], sigmaOmega[2], findErrorLocations(sigmaOmega[1]))

\* The block corrected, or Null.
RepairedFrom(bytes, twoS, syndrome) ==
    IF isZero(syndrome) THEN bytes
    ELSE RepairedBy(bytes, runEuclideanAlgorithm[buildMonomial(twoS, 1), syndrome,
                                                 <<0>>, <<1>>, twoS])

CorrectBlock(bytes, twoS) == RepairedFrom(bytes, twoS, Poly(syndromes(bytes, twoS)))
=============================================================================
