------------------------------ MODULE QrDecoder -----------------------------
(***************************************************************************)
(* Reading the QR code in a picture, step by step: each symbol located in  *)
(* the picture, then in the inverted picture, is read as it is and, when   *)
(* that fails, mirrored.  One reading finds the version and the format,    *)
(* takes the codewords out of the modules, corrects the blocks and decodes *)
(* the text.  Finding a symbol and sampling its modules is left out: a     *)
(* picture is the symbols that were sampled from it.                       *)
(***************************************************************************)
EXTENDS ReedSolomon, QrVersions, SequencesExt

CONSTANTS
    Pictures,     \* the pictures that may be read
    Kanji(_)      \* the character of a Shift JIS code

\* A symbol sampled from a picture: as wide as it is high, with a middle.
Symbol(m) ==
    /\ m \in Seq(Seq({0, 1})) /\ Len(m) % 2 = 1
    /\ \A y \in DOMAIN m : Len(m[y]) = Len(m)

ASSUME PicturesAssumption ==
    \A p \in Pictures :
        LET lists == p.candidates IN
            /\ lists \in Seq(Seq(Seq(Seq({0, 1}))))
            /\ \A i \in DOMAIN lists : \A j \in DOMAIN lists[i] : Symbol(lists[i][j])

VARIABLES
    picture,      \* the picture, and what was printed on it
    candidates,   \* symbols still to be read: of the picture, of its inverse
    matrix,       \* the symbol being read: rows of modules, 1 where dark
    mirrored,     \* it has been turned over
    version,
    format,       \* level of error correction and mask
    blocks,       \* of each block: its bytes, and how many of them are data
    bytes,        \* the data of the corrected blocks
    result,
    pc

reading == <<matrix, mirrored, version, format, blocks, bytes>>
vars == <<picture, candidates, reading, result, pc>>

None == [ok |-> FALSE]
-----------------------------------------------------------------------------
(* Bits.                                                                   *)

\* pushBit over a sequence of bits.
Word(bits) ==
    LET value[n \in 0..Len(bits)] == IF n = 0 THEN 0 ELSE 2 * value[n - 1] + bits[n]
    IN  value[Len(bits)]

numBitsDiffering(a, b) ==
    Cardinality({i \in 0..17 : (a \div 2 ^ i) % 2 # (b \div 2 ^ i) % 2})

\* BitMatrix: the module at a column and a row.
get(m, c) == m[c[2] + 1][c[1] + 1]

\* The bits of the modules listed.
Read(m, cells) == Word([i \in DOMAIN cells |-> get(m, cells[i])])

\* The first of the table's entries that differs least from either word.
Nearest(table, words) ==
    LET Difference(i) == Min({numBitsDiffering(w, table[i]) : w \in words})
        least == Min({Difference(i) : i \in DOMAIN table})
    IN  [at |-> Min({i \in DOMAIN table : Difference(i) = least}), difference |-> least]
-----------------------------------------------------------------------------
(* Version and format information.                                         *)

TopRightVersion(d) == [i \in 1..18 |-> <<d - 9 - ((i - 1) % 3), 5 - ((i - 1) \div 3)>>]
BottomLeftVersion(d) == [i \in 1..18 |-> <<5 - ((i - 1) \div 3), d - 9 - ((i - 1) % 3)>>]

\* The two copies of the version, and the version they stand for: the first one
\* that carries either copy's very bits, or the nearest, which may be one without
\* bits; 0 when the symbol is too small, or no version is within three bits.
VersionWords(m) ==
    {Read(m, TopRightVersion(Len(m))), Read(m, BottomLeftVersion(Len(m)))}

readVersion(m) ==
    LET d == Len(m)
        exact == {v \in 7..40 : VERSIONS[v].infoBits \in VersionWords(m)}
        nearest == Nearest([i \in DOMAIN VERSIONS |-> VERSIONS[i].infoBits], VersionWords(m))
    IN  IF d < 21 THEN 0
        ELSE IF d < 45 THEN (d - 17) \div 4
        ELSE IF exact # {} THEN Min(exact)
        ELSE IF nearest.difference <= 3 THEN nearest.at ELSE 0

FORMAT_INFO_BITS == <<
    21522, 20773, 24188, 23371, 17913, 16590, 20375, 19104,
    30660, 29427, 32170, 30877, 26159, 25368, 27713, 26998,
     5769,  5054,  7399,  6608,  1890,   597,  3340,  2107,
    13663, 12392, 16177, 14854,  9396,  8579, 11994, 11245 >>

FORMAT_INFO(i) == [errorCorrectionLevel |-> <<1, 0, 3, 2>>[(i + 7) \div 8],
                   dataMask |-> (i - 1) % 8]

TopLeftFormat ==
    [i \in 1..15 |-> IF i <= 6 THEN <<i - 1, 8>> ELSE IF i <= 8 THEN <<i, 8>>
                     ELSE IF i = 9 THEN <<8, 7>> ELSE <<8, 15 - i>>]
OtherFormat(d) == [i \in 1..15 |-> IF i <= 7 THEN <<8, d - i>> ELSE <<d - 16 + i, 8>>]

\* No two of the formats, and of the versions that carry their bits, are near.
ASSUME FormatsAreApart ==
    \A i, j \in DOMAIN FORMAT_INFO_BITS :
        i # j => numBitsDiffering(FORMAT_INFO_BITS[i], FORMAT_INFO_BITS[j]) >= 7

ASSUME VersionsAreApart ==
    \A i \in 7..40, j \in 1..40 :
        i # j => numBitsDiffering(VERSIONS[i].infoBits, VERSIONS[j].infoBits) >= 8

FormatWords(m) == {Read(m, TopLeftFormat), Read(m, OtherFormat(Len(m)))}

readFormatInformation(m) ==
    LET nearest == Nearest(FORMAT_INFO_BITS, FormatWords(m))
    IN  IF nearest.difference <= 3 THEN [ok |-> TRUE] @@ FORMAT_INFO(nearest.at) ELSE None
-----------------------------------------------------------------------------
(* Codewords.                                                              *)

DATA_MASK(mask, x, y) ==
    CASE mask = 0 -> (y + x) % 2 = 0
      [] mask = 1 -> y % 2 = 0
      [] mask = 2 -> x % 3 = 0
      [] mask = 3 -> (y + x) % 3 = 0
      [] mask = 4 -> ((y \div 2) + (x \div 3)) % 2 = 0
      [] mask = 5 -> ((x * y) % 2) + ((x * y) % 3) = 0
      [] mask = 6 -> (((x * y) % 2) + ((x * y) % 3)) % 2 = 0
      [] mask = 7 -> (((y + x) % 2) + ((x * y) % 3)) % 2 = 0

\* The modules in the order they are read: two columns at a time from the
\* right, upwards and downwards in turn, leaving out the timing column.
ModuleOrder(d) ==
    [k \in 1..(d * (d - 1)) |->
        LET pair == (k - 1) \div (2 * d)
            row == ((k - 1) % (2 * d)) \div 2
            right == d - 1 - 2 * pair
            column == IF right <= 6 THEN right - 1 ELSE right
        IN  <<column - ((k - 1) % 2), IF pair % 2 = 0 THEN d - 1 - row ELSE row>>]

\* Of a symbol of d modules that is taken for version v.
DataModules(d, v) ==
    LET Without(fixed) == SelectSeq(ModuleOrder(d), LAMBDA c : c \notin fixed)
    IN  Without(buildFunctionPatternMask(v))

CodewordsIn(m, cells, mask) ==
    LET Unmasked(c) == IF DATA_MASK(mask, c[1], c[2]) THEN 1 - get(m, c) ELSE get(m, c)
    IN  [w \in 1..(Len(cells) \div 8) |-> Word([i \in 1..8 |-> Unmasked(cells[8 * w - 8 + i])])]

readCodewords(m, v, mask) == CodewordsIn(m, DataModules(Len(m), v), mask)

\* The blocks are interleaved: their data bytes, a byte of each at a time, the
\* longer blocks' last data bytes, and then the bytes for correction.  The place
\* of block b's byte i.
PlaceOf(data, b, i) ==
    LET n == Len(data)
        short == data[1]
        long == Cardinality({c \in 1..n : data[c] > short})
    IN  IF i <= short THEN n * (i - 1) + b
        ELSE IF i <= data[b] THEN n * short + b - (n - long)
        ELSE n * (short + i - data[b] - 1) + long + b

\* Blocks of one size, or of two that differ by a byte, the longer ones last.
TwoSizes(data, short, long) ==
    /\ short \in Nat /\ data \in Seq(Nat) /\ long \in 0..(Len(data) - 1)
    /\ \A b \in 1..Len(data) : data[b] = IF b <= Len(data) - long THEN short ELSE short + 1

\* So are those of every version and level.
ASSUME BlocksAssumption ==
    \A v \in 1..40 : \A level \in 0..3 :
        LET ecInfo == VERSIONS[v].errorCorrectionLevels[level]
            data == dataBlocks(ecInfo)
            ec == ecInfo.ecCodewordsPerBlock
        IN  /\ ec \in Nat
            /\ \E short \in {data[1]}, long \in 0..(Len(data) - 1) :
                   /\ TwoSizes(data, short, long)
                   /\ totalCodewords(ecInfo) = Len(data) * (short + ec) + long

Deinterleaved(codewords, data, ec) ==
    [b \in 1..Len(data) |->
        [numDataCodewords |-> data[b],
         codewords |-> [i \in 1..(data[b] + ec) |-> codewords[PlaceOf(data, b, i)]]]]

getDataBlocks(codewords, ecInfo) ==
    IF Len(codewords) < totalCodewords(ecInfo) THEN Null
    ELSE Deinterleaved(codewords, dataBlocks(ecInfo), ecInfo.ecCodewordsPerBlock)
-----------------------------------------------------------------------------
(* The text.                                                               *)

Bit(data, k) == (data[(k \div 8) + 1] \div 2 ^ (7 - (k % 8))) % 2

available(data, at) == 8 * Len(data) - at

readBits(data, at, n) == Word([i \in 1..n |-> Bit(data, at + i - 1)])

\* A segment: a count of characters in `count' bits, then its groups; of n
\* characters the group g takes BitsOf(n, g) bits and stands for Text(n, g, value).
\* None when the data ends before the segment or a group has no text: the code
\* throws there, and the symbol is given up.
Segment(data, at, count, Groups(_), BitsOf(_, _), Text(_, _, _)) ==
    LET n == readBits(data, at, count)
        end[g \in 0..Groups(n)] ==
            IF g = 0 THEN at + count ELSE end[g - 1] + BitsOf(n, g)
        texts == [g \in 1..Groups(n) |->
                    Text(n, g, readBits(data, end[g - 1], BitsOf(n, g)))]
    IN  IF \/ available(data, at) < count
           \/ available(data, end[Groups(n)]) < 0
           \/ \E g \in DOMAIN texts : texts[g] = <<>>
          THEN None
          ELSE [ok |-> TRUE, text |-> FlattenSeq(texts), end |-> end[Groups(n)]]

\* Three digits in ten bits, two in seven, one in four.
decodeNumeric(data, at, size) ==
    LET Digits(n, g) == Min({3, n - 3 * (g - 1)})
        Groups(n) == (n + 2) \div 3
        BitsOf(n, g) == <<4, 7, 10>>[Digits(n, g)]
        Text(n, g, value) ==
            IF value >= 10 ^ Digits(n, g) THEN <<>>
            ELSE [i \in 1..Digits(n, g) |-> 48 + ((value \div 10 ^ (Digits(n, g) - i)) % 10)]
    IN  Segment(data, at, <<10, 12, 14>>[size], Groups, BitsOf, Text)

AlphanumericCharacterCodes ==
    [i \in 1..10 |-> 47 + i] \o [i \in 1..26 |-> 64 + i]
        \o <<32, 36, 37, 42, 43, 45, 46, 47, 58>>

\* Two characters in eleven bits, one in six.
decodeAlphanumeric(data, at, size) ==
    LET Pair(n, g) == n > 2 * g - 1
        Groups(n) == (n + 1) \div 2
        BitsOf(n, g) == IF Pair(n, g) THEN 11 ELSE 6
        Codes(n, g, value) == IF Pair(n, g) THEN <<value \div 45, value % 45>> ELSE <<value>>
        Text(n, g, value) ==
            IF \E i \in DOMAIN Codes(n, g, value) : Codes(n, g, value)[i] > 44 THEN <<>>
            ELSE [i \in DOMAIN Codes(n, g, value) |->
                    AlphanumericCharacterCodes[Codes(n, g, value)[i] + 1]]
    IN  Segment(data, at, <<9, 11, 13>>[size], Groups, BitsOf, Text)

\* What decodeURIComponent accepts: well-formed UTF-8.
Utf8(s) ==
    LET Tail10(i, n) == \A j \in (i + 1)..(i + n) : j \in DOMAIN s /\ s[j] \in 128..191
        Lead(i, n) ==
            CASE n = 1 -> s[i] \in 194..223
              [] n = 2 -> /\ s[i] \in 224..239
                          /\ s[i] = 224 => s[i + 1] >= 160
                          /\ s[i] = 237 => s[i + 1] < 160
              [] n = 3 -> /\ s[i] \in 240..244
                          /\ s[i] = 240 => s[i + 1] >= 144
                          /\ s[i] = 244 => s[i + 1] < 144
        from[i \in 1..(Len(s) + 1)] ==
            \/ i > Len(s)
            \/ s[i] < 128 /\ from[i + 1]
            \/ \E n \in 1..3 : Tail10(i, n) /\ Lead(i, n) /\ from[i + n + 1]
    IN  from[1]

\* Bytes that are not UTF-8 have no text, and are no error.
Utf8OrNothing(segment) ==
    IF segment.ok /\ ~Utf8(segment.text) THEN [segment EXCEPT !.text = <<>>] ELSE segment

decodeByte(data, at, size) ==
    LET Groups(n) == n
        BitsOf(n, g) == 8
        Text(n, g, value) == <<value>>
    IN  Utf8OrNothing(Segment(data, at, <<8, 16, 16>>[size], Groups, BitsOf, Text))

decodeKanji(data, at, size) ==
    LET Groups(n) == n
        BitsOf(n, g) == 13
        Code(value) == 256 * (value \div 192) + (value % 192)
        Text(n, g, value) ==
            <<Kanji(Code(value) + IF Code(value) < 7936 THEN 33088 ELSE 49472)>>
    IN  Segment(data, at, <<8, 10, 12>>[size], Groups, BitsOf, Text)

\* The bits of an ECI designator after its mode: 0, 10 or 110, and a number;
\* 111 alone is taken for a damaged one.
EciBits(data, at) ==
    LET Ones(k) == readBits(data, at, k) = 2 ^ k - 1
    IN  IF ~Ones(1) THEN 8 ELSE IF ~Ones(2) THEN 16 ELSE IF ~Ones(3) THEN 24 ELSE 3

\* A designator has no text.
decodeEci(data, at) ==
    LET Skipped(n) == [ok |-> available(data, at) >= n, text |-> <<>>, end |-> at + n]
    IN  IF available(data, at) < 3 THEN None ELSE Skipped(EciBits(data, at))

\* A mode the program does not know is passed over.
decodeSegment(data, at, size, mode) ==
    CASE mode = 1 -> decodeNumeric(data, at, size)
      [] mode = 2 -> decodeAlphanumeric(data, at, size)
      [] mode = 4 -> decodeByte(data, at, size)
      [] mode = 8 -> decodeKanji(data, at, size)
      [] mode = 7 -> decodeEci(data, at)
      [] OTHER -> [ok |-> TRUE, text |-> <<>>, end |-> at]

\* decode: segments until the terminator, or until the data ends in zeros.
Decode(data, size) ==
    LET After(segment, rest) == [ok |-> rest.ok, text |-> segment.text \o rest.text]
        from[at \in 0..(8 * Len(data))] ==
            LET mode == readBits(data, at, 4)
                segment == decodeSegment(data, at + 4, size, mode)
            IN  CASE available(data, at) < 4 ->
                       [ok |-> readBits(data, at, available(data, at)) = 0, text |-> <<>>]
                  [] available(data, at) >= 4 /\ mode = 0 -> [ok |-> TRUE, text |-> <<>>]
                  [] OTHER -> IF segment.ok THEN After(segment, from[segment.end])
                              ELSE [ok |-> FALSE, text |-> <<>>]
    IN  from[0]

decodeData(data, v) ==
    Decode(data, IF v <= 9 THEN 1 ELSE IF v <= 26 THEN 2 ELSE 3)
-----------------------------------------------------------------------------
(* The steps.                                                              *)

Init ==
    /\ picture \in Pictures
    /\ candidates = picture.candidates
    /\ matrix = <<>> /\ mirrored = FALSE
    /\ version = 0 /\ format = None
    /\ blocks = Null /\ bytes = <<>>
    /\ result = None /\ pc = "scan"

\* scan and jsQR: the next symbol of the picture, then those of its inverse.
NextSymbol ==
    /\ pc = "scan" /\ candidates # <<>> /\ Head(candidates) # <<>>
    /\ matrix' = Head(Head(candidates)) /\ mirrored' = FALSE
    /\ candidates' = <<Tail(Head(candidates))>> \o Tail(candidates)
    /\ pc' = "version"
    /\ UNCHANGED <<picture, version, format, blocks, bytes, result>>

Invert ==
    /\ pc = "scan" /\ candidates # <<>> /\ Head(candidates) = <<>>
    /\ candidates' = Tail(candidates)
    /\ UNCHANGED <<picture, reading, result, pc>>

NotFound ==
    /\ pc = "scan" /\ candidates = <<>>
    /\ pc' = "done"
    /\ UNCHANGED <<picture, candidates, reading, result>>

\* The modules turned over the diagonal from the top left.
Mirror(m) ==
    LET Column(x) == SubSeq([y \in DOMAIN m |-> m[y][x]], 1, Len(m))
    IN  SubSeq([x \in DOMAIN m |-> Column(x)], 1, Len(m))

\* Mutated form: the second reading is not turned over.
GiveUpTwice ==
    /\ IF mirrored THEN pc' = "scan" /\ UNCHANGED <<matrix, mirrored>>
       ELSE /\ pc' = "version" /\ mirrored' = TRUE
            /\ UNCHANGED matrix
    /\ UNCHANGED <<version, format, blocks, bytes>>

\* A reading that fails is tried once more, mirrored.
GiveUp ==
    /\ IF mirrored THEN pc' = "scan" /\ UNCHANGED <<matrix, mirrored>>
       ELSE /\ pc' = "version" /\ mirrored' = TRUE
            /\ matrix' = Mirror(matrix)
    /\ UNCHANGED <<version, format, blocks, bytes>>

\* Each step of a reading gives its result up or goes on with it.
VersionIs(v) ==
    IF v = 0 THEN GiveUp
    ELSE /\ version' = v /\ pc' = "format"
         /\ UNCHANGED <<matrix, mirrored, format, blocks, bytes>>

ReadVersion ==
    /\ pc = "version"
    /\ VersionIs(readVersion(matrix))
    /\ UNCHANGED <<picture, candidates, result>>

FormatIs(f) ==
    IF ~f.ok THEN GiveUp
    ELSE /\ format' = f /\ pc' = "blocks"
         /\ UNCHANGED <<matrix, mirrored, version, blocks, bytes>>

ReadFormat ==
    /\ pc = "format"
    /\ FormatIs(readFormatInformation(matrix))
    /\ UNCHANGED <<picture, candidates, result>>

BlocksAre(read) ==
    IF read = Null THEN GiveUp
    ELSE /\ blocks' = read /\ pc' = "correct"
         /\ UNCHANGED <<matrix, mirrored, version, format, bytes>>

ReadBlocks ==
    /\ pc = "blocks"
    /\ BlocksAre(getDataBlocks(readCodewords(matrix, version, format.dataMask),
                    VERSIONS[version].errorCorrectionLevels[format.errorCorrectionLevel]))
    /\ UNCHANGED <<picture, candidates, result>>

\* The blocks that were read, each corrected by the bytes it has for that.
CorrectedBlocks(read) ==
    SubSeq([b \in DOMAIN read |->
               CorrectBlock(read[b].codewords,
                            Len(read[b].codewords) - read[b].numDataCodewords)],
           1, Len(read))

\* Their data, one after the other.
DataOfBlocks(read, corrected) ==
    FlattenSeq([b \in DOMAIN corrected |-> SubSeq(corrected[b], 1, read[b].numDataCodewords)])

BytesAre(corrected) ==
    IF \E b \in DOMAIN corrected : corrected[b] = Null THEN GiveUp
    ELSE /\ bytes' = DataOfBlocks(blocks, corrected) /\ pc' = "decode"
         /\ UNCHANGED <<matrix, mirrored, version, format, blocks>>

Correct ==
    /\ pc = "correct"
    /\ BytesAre(CorrectedBlocks(blocks))
    /\ UNCHANGED <<picture, candidates, result>>

TextIs(decoded) ==
    IF ~decoded.ok THEN GiveUp /\ UNCHANGED result
    ELSE result' = decoded /\ pc' = "done" /\ UNCHANGED reading

DecodeData ==
    /\ pc = "decode"
    /\ TextIs(decodeData(bytes, version))
    /\ UNCHANGED <<picture, candidates>>

Next == \/ NextSymbol \/ Invert \/ NotFound
        \/ ReadVersion \/ ReadFormat \/ ReadBlocks \/ Correct \/ DecodeData

Spec == Init /\ [][Next]_vars /\ WF_vars(Next)
=============================================================================
