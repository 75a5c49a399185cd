----------------------------- MODULE QrStandard -----------------------------
(***************************************************************************)
(* How QR symbols are printed, after ISO/IEC 18004: where a symbol carries *)
(* data and in which order, how data is cut into blocks, and the bytes for *)
(* correction.  It uses nothing of the decoder, which is checked against   *)
(* it: check bits and bytes for correction are remainders of polynomials,  *)
(* products are taken a bit at a time, and a module's place is computed    *)
(* from its coordinates.                                                   *)
(***************************************************************************)
EXTENDS Integers, SequencesExt, FiniteSetsExt

Bits(value, width) == [i \in 1..width |-> (value \div 2 ^ (width - i)) % 2]

Number(bits) == MapThenSumSet(LAMBDA i : bits[i] * 2 ^ (Len(bits) - i), DOMAIN bits)

\* The remainder by a divisor of n + 1 bits of a word given as bits.
RECURSIVE Remainder(_, _)
Remainder(word, divisor) ==
    LET n == Len(divisor)
        Cleared == SubSeq([i \in 1..n |-> (word[i] + divisor[i]) % 2], 1, n)
                     \o SubSeq(word, n + 1, Len(word))
    IN  IF Len(word) < n THEN word
        ELSE Remainder(Tail(IF word[1] = 1 THEN Cleared ELSE word), divisor)

FormatBits(level, mask) ==
    LET data == Bits(<<1, 0, 3, 2>>[level + 1] * 8 + mask, 5)
        word == data \o Remainder(data \o Bits(0, 10), Bits(1335, 11))
    IN  [i \in 1..15 |-> (word[i] + Bits(21522, 15)[i]) % 2]

VersionBits(v) == Bits(v, 6) \o Remainder(Bits(v, 6) \o Bits(0, 12), Bits(7973, 13))
-----------------------------------------------------------------------------
(* The standard's symbols.                                                 *)

Side(v) == 17 + 4 * v
Cells(v) == (0..(Side(v) - 1)) \X (0..(Side(v) - 1))

\* Annex E: centres from 6 to the last but six, the steps from the far end all
\* one even number, as small as reaches; version 32 alone has 26.
Centres(v) ==
    LET last == Side(v) - 7
        steps == v \div 7 + 1
        step == IF v = 32 THEN 26 ELSE 2 * ((last - 6 + 2 * steps - 1) \div (2 * steps))
    IN  IF v = 1 THEN {} ELSE {6} \cup {last - k * step : k \in 0..(steps - 1)}

\* Of the module at x, y: in a finder pattern, its separator or the format; on
\* a timing line; in an alignment pattern, of which there is none at a finder
\* pattern; in one of the two places of the version.
Reserved(v) ==
    LET far == Side(v) - 8
        near == [k \in 0..(Side(v) - 1) |-> {c \in Centres(v) : c - k \in -2..2}]
        AtFinder(a, b) == <<a, b>> \in {<<6, 6>>, <<6, Side(v) - 7>>, <<Side(v) - 7, 6>>}
        Taken(x, y) ==
            \/ x = 6 \/ y = 6
            \/ x <= 8 /\ (y <= 8 \/ y >= far)
            \/ x >= far /\ y <= 8
            \/ \E a \in near[x], b \in near[y] : ~AtFinder(a, b)
            \/ v >= 7 /\ x <= 5 /\ y >= far - 3
            \/ v >= 7 /\ x >= far - 3 /\ y <= 5
    IN  {c \in Cells(v) : Taken(c[1], c[2])}

\* Table 9: for each level, bytes for correction per block, and blocks, of the
\* forty versions.
CorrectionBytes == <<
    <<7,10,15,20,26,18,20,24,30,18,20,24,26,30,22,24,28,30,28,28,
      28,28,30,30,26,28,30,30,30,30,30,30,30,30,30,30,30,30,30,30>>,
    <<10,16,26,18,24,16,18,22,22,26,30,22,22,24,24,28,28,26,26,26,
      26,28,28,28,28,28,28,28,28,28,28,28,28,28,28,28,28,28,28,28>>,
    <<13,22,18,26,18,24,18,22,20,24,28,26,24,20,30,24,28,28,26,30,
      28,30,30,30,30,28,30,30,30,30,30,30,30,30,30,30,30,30,30,30>>,
    <<17,28,22,16,22,28,26,26,24,28,24,28,22,24,24,30,28,28,26,28,
      30,24,30,30,30,30,30,30,30,30,30,30,30,30,30,30,30,30,30,30>> >>

BlockCount == <<
    <<1,1,1,1,1,2,2,2,2,4,4,4,4,4,6,6,6,6,7,8,
      8,9,9,10,12,12,12,13,14,15,16,17,18,19,19,20,21,22,24,25>>,
    <<1,1,1,2,2,4,4,4,5,5,5,8,9,9,10,10,11,13,14,16,
      17,17,18,20,21,23,25,26,28,29,31,33,35,37,38,40,43,45,47,49>>,
    <<1,1,2,2,4,4,6,6,8,8,8,10,12,16,12,17,16,18,21,20,
      23,23,25,27,29,34,34,35,38,40,43,45,48,51,53,56,59,62,65,68>>,
    <<1,1,2,4,4,4,5,6,8,8,11,11,16,16,18,16,19,21,25,25,
      25,34,30,32,35,37,40,42,45,48,51,54,57,60,63,66,70,74,77,81>> >>

\* A symbol of n modules for data is filled by its blocks, which share the bytes
\* evenly; the last ones take the bytes that are over.
BlockSizes(v, level, n) ==
    LET count == BlockCount[level + 1][v]
        bytes8 == n \div 8
        Data(size) == size - CorrectionBytes[level + 1][v]
    IN  [b \in 1..count |->
            Data(bytes8 \div count + IF b > count - (bytes8 % count) THEN 1 ELSE 0)]
-----------------------------------------------------------------------------
(* The field: bytes are polynomials modulo x^8 + x^4 + x^3 + x^2 + 1.      *)

Zeros(n) == [i \in 1..n |-> 0]

\* The sum of two bytes: bit by bit, without a carry.
Plus(a, b) ==
    LET Bit(k) == IF (a \div k) % 2 = (b \div k) % 2 THEN 0 ELSE k
    IN  Bit(1) + Bit(2) + Bit(4) + Bit(8) + Bit(16) + Bit(32) + Bit(64) + Bit(128)

\* x times a; and b times a, by the bits of b.
Shifted(a) == IF a < 128 THEN 2 * a ELSE Plus(2 * a - 256, 29)

RECURSIVE Times(_, _)
Times(a, b) ==
    IF b = 0 THEN 0
    ELSE IF b % 2 = 0 THEN Times(Shifted(a), b \div 2)
    ELSE Plus(a, Times(Shifted(a), b \div 2))

RECURSIVE Power(_)
Power(n) == IF n = 0 THEN 1 ELSE Shifted(Power(n - 1))

\* The product of x - x^k for the exponents first to last: its coefficients but
\* the leading one, which is 1.
RECURSIVE Product(_, _)
Product(first, last) ==
    LET rest == Product(first + 1, last)
        Of(i) == IF i = 0 THEN 1 ELSE IF i > Len(rest) THEN 0 ELSE rest[i]
    IN  IF first > last THEN <<>>
        ELSE SubSeq([i \in 1..(Len(rest) + 1) |-> Plus(Of(i), Times(Power(first), Of(i - 1)))],
                    1, Len(rest) + 1)

\* The remainder of data by a divisor, a byte at a time.
RECURSIVE Divided(_, _, _)
Divided(data, register, divisor) ==
    LET lead == Plus(data[1], register[1])
        Following(i) == IF i = Len(register) THEN 0 ELSE register[i + 1]
    IN  IF data = <<>> THEN register
        ELSE Divided(Tail(data),
                     SubSeq([i \in DOMAIN register |-> Plus(Following(i), Times(lead, divisor[i]))],
                            1, Len(register)),
                     divisor)

Parity(data, generator) == Divided(data, Zeros(Len(generator)), generator)

\* The generator polynomial of so many bytes for correction.
Generator(ec) == Product(0, ec - 1)
-----------------------------------------------------------------------------
(* The codewords.                                                          *)

\* Pairs of a value and its width, packed, ended and filled up.
Fill(fields, size) ==
    LET bits == FlattenSeq([i \in DOMAIN fields |-> Bits(fields[i][1], fields[i][2])])
        ended == bits \o Zeros(Min({4, 8 * size - Len(bits)}))
        whole == ended \o Zeros((8 - (Len(ended) % 8)) % 8)
    IN  [w \in 1..size |-> IF 8 * w <= Len(whole)
                             THEN Number(SubSeq(whole, 8 * w - 7, 8 * w))
                           ELSE IF (w - Len(whole) \div 8) % 2 = 1 THEN 236 ELSE 17]

\* Data cut into blocks of these sizes.
Cut(data, sizes) ==
    LET start[b \in DOMAIN sizes] == IF b = 1 THEN 0 ELSE start[b - 1] + sizes[b - 1]
    IN  SubSeq([b \in DOMAIN sizes |-> SubSeq(data, start[b] + 1, start[b] + sizes[b])],
               1, Len(sizes))

Interleaved(parts) ==
    LET Column(i) == SelectSeq([b \in DOMAIN parts |->
                                   IF i <= Len(parts[b]) THEN parts[b][i] ELSE -1],
                               LAMBDA w : w >= 0)
    IN  FlattenSeq([i \in 1..Max({Len(parts[b]) : b \in DOMAIN parts}) |-> Column(i)])

WithParity(data, generator) ==
    Interleaved(data)
        \o Interleaved(SubSeq([b \in DOMAIN data |-> Parity(data[b], generator)], 1, Len(data)))

ByteCount(sizes) == MapThenSumSet(LAMBDA b : sizes[b], DOMAIN sizes)

Stream(fields, sizes, ec) ==
    CHOOSE s \in {WithParity(Cut(Fill(fields, ByteCount(sizes)), sizes), g) : g \in {Generator(ec)}} :
        TRUE
-----------------------------------------------------------------------------
(* The modules.                                                            *)

\* The pair of columns a column is in, from the right, and how far along the
\* pair a module is.
PairOf(d, x) == (IF x > 6 THEN d - 1 - x ELSE d - 2 - x) \div 2
Along(d, x, y) ==
    2 * (IF PairOf(d, x) % 2 = 0 THEN d - 1 - y ELSE y)
        + ((IF x > 6 THEN d - 1 - x ELSE d - 2 - x) % 2)

\* The place of each of these modules, which carry data, among them, 0 for the
\* others; by rows.
Ranks(d, data) ==
    LET Upto(n, f) == SubSeq(f, 1, n)
        columns(p) == {x \in (0..(d - 1)) \ {6} : PairOf(d, x) = p - 1}
        pairs == (d - 1) \div 2
        along == Upto(pairs, [p \in 1..pairs |->
                     {Along(d, c[1], c[2]) : c \in {e \in columns(p) \X (0..(d - 1)) : e \in data}}])
        before == Upto(pairs, [p \in 1..pairs |->
                      MapThenSumSet(LAMBDA q : Cardinality(along[q]), 1..(p - 1))])
        Rank(p, n) == before[p] + Cardinality({a \in along[p] : a <= n})
        Module(x, y) == IF <<x, y>> \in data THEN Rank(PairOf(d, x) + 1, Along(d, x, y)) ELSE 0
        Row(y) == Upto(d, [x \in 1..d |-> Module(x - 1, y - 1)])
    IN  Upto(d, [y \in 1..d |-> Row(y)])
=============================================================================
