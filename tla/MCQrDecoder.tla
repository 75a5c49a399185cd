----------------------------- MODULE MCQrDecoder ----------------------------
(***************************************************************************)
(* Pictures for QrDecoder: symbols printed as QrStandard has it, and then  *)
(* damaged.                                                                *)
(***************************************************************************)
EXTENDS QrDecoder, QrStandard

MCKanji(code) == <<"kanji", code>>
-----------------------------------------------------------------------------
(* Symbols and damage.                                                     *)

NoDamage == [codewords |-> {}, added |-> <<>>, format |-> {}, other |-> {}, version |-> {},
             otherVersion |-> {}, mirrored |-> FALSE, decoys |-> 0, inverted |-> FALSE]

\* The modules with the two copies of the format and of the version.
Information(v, level, mask, damage) ==
    LET d == Side(v)
        topLeft == [i \in 1..15 |-> IF i <= 6 THEN <<i - 1, 8>> ELSE IF i = 7 THEN <<7, 8>>
                         ELSE IF i = 8 THEN <<8, 8>> ELSE IF i = 9 THEN <<8, 7>> ELSE <<8, 15 - i>>]
        split == [i \in 1..15 |-> IF i <= 7 THEN <<8, d - i>> ELSE <<d - 16 + i, 8>>]
        \* the version's bits, least significant first, in two 3 by 6 corners
        corner == [i \in 1..18 |-> <<d - 11 + ((18 - i) % 3), (18 - i) \div 3>>]
        other == [i \in 1..18 |-> <<corner[i][2], corner[i][1]>>]
        check == FormatBits(level, mask)
        info == VersionBits(v)
        Copy(cells, bits, flipped) ==
            [c \in {cells[i] : i \in DOMAIN cells} |->
                LET i == CHOOSE k \in DOMAIN cells : cells[k] = c
                IN  IF i \in flipped THEN 1 - bits[i] ELSE bits[i]]
    IN  Copy(topLeft, check, damage.format) @@ Copy(split, check, damage.other)
          @@ IF v <= 6 THEN <<>>
             ELSE Copy(corner, info, damage.version) @@ Copy(other, info, damage.otherVersion)

\* The codewords, those of the damage changed, and what it adds to the first.
Damaged(stream, damage) ==
    LET Error(w) == IF w \in damage.codewords THEN 170 ELSE 0
        Added(w) == IF w \in DOMAIN damage.added THEN damage.added[w] ELSE 0
    IN  [w \in DOMAIN stream |-> Plus(stream[w], Plus(Error(w), Added(w)))]

\* The symbol's modules, from its information and its codewords.
Printed(v, mask, turned, information, place, codewords) ==
    LET Inverted(x, y) ==
            CASE mask = 0 -> (x + y) % 2 = 0
              [] mask = 1 -> y % 2 = 0
              [] mask = 2 -> x % 3 = 0
              [] mask = 3 -> (x + y) % 3 = 0
              [] mask = 4 -> ((y \div 2) + (x \div 3)) % 2 = 0
              [] mask = 5 -> (x * y) % 6 = 0
              [] mask = 6 -> (x * y) % 6 \in {0, 1, 2}
              [] mask = 7 -> (((x + y) % 2) + ((x * y) % 3)) % 2 = 0
        DataBit(n) == IF n = 0 \/ n > 8 * Len(codewords) THEN 0
                      ELSE (codewords[((n - 1) \div 8) + 1] \div 2 ^ (7 - ((n - 1) % 8))) % 2
        Data(c) == IF codewords = <<>> THEN 0 ELSE DataBit(place[c[2] + 1][c[1] + 1])
        Module(c) == IF c \in DOMAIN information THEN information[c]
                     ELSE IF Inverted(c[1], c[2]) THEN 1 - Data(c) ELSE Data(c)
        d == Side(v)
        Row(y) == SubSeq([x \in 1..d |-> Module(IF turned THEN <<y - 1, x - 1>>
                                                ELSE <<x - 1, y - 1>>)], 1, d)
    IN  SubSeq([y \in 1..d |-> Row(y)], 1, d)
-----------------------------------------------------------------------------
(* The pictures.                                                           *)

\* A symbol: its version, level, segments and text.
Ascii(codes) == [i \in DOMAIN codes |-> <<codes[i], 8>>]

\* "LPA:1$A.B$C" in the alphanumeric set.
Activation ==
    [version |-> 1, level |-> 1,
     fields |-> << <<2, 4>>, <<11, 9>>, <<21 * 45 + 25, 11>>, <<10 * 45 + 44, 11>>,
                   <<1 * 45 + 37, 11>>, <<10 * 45 + 42, 11>>, <<11 * 45 + 37, 11>>, <<12, 6>> >>,
     text |-> <<76, 80, 65, 58, 49, 36, 65, 46, 66, 36, 67>>]

\* Seventeen digits, which leave one bit of the symbol's nine bytes.
Digits17 ==
    [version |-> 1, level |-> 3,
     fields |-> << <<1, 4>>, <<17, 10>>, <<890, 10>>, <<1, 10>>, <<23, 10>>, <<999, 10>>,
                   <<0, 10>>, <<45, 7>> >>,
     text |-> [i \in 1..17 |-> 48 + <<8, 9, 0, 0, 0, 1, 0, 2, 3, 9, 9, 9, 0, 0, 0, 4, 5>>[i]]]

\* A designator, "h" and an accented letter in UTF-8, a Kanji, one digit,
\* a mode nobody reads, a byte that is no UTF-8.
Mixed ==
    [version |-> 2, level |-> 2,
     fields |-> << <<7, 4>>, <<26, 8>>, <<4, 4>>, <<3, 8>>, <<104, 8>>, <<195, 8>>, <<169, 8>>,
                   <<8, 4>>, <<2, 8>>, <<3487, 13>>, <<6826, 13>>, <<1, 4>>, <<1, 10>>, <<7, 4>>, <<5, 4>>,
                   <<4, 4>>, <<1, 8>>, <<255, 8>> >>,
     text |-> <<104, 195, 169, <<"kanji", 37727>>, <<"kanji", 58538>>, 55>>]

\* Thirty-one bytes over blocks of two sizes.
Long ==
    [version |-> 7, level |-> 3,
     fields |-> << <<4, 4>>, <<31, 8>> >> \o Ascii([i \in 1..31 |-> 40 + 2 * i]),
     text |-> [i \in 1..31 |-> 40 + 2 * i]]

\* "A1B", 123, a Kanji and "h", with the wider counts of the larger versions.
Wider(v, level, numeric, alphanumeric, bytes8, kanji) ==
    [version |-> v, level |-> level,
     fields |-> << <<2, 4>>, <<3, alphanumeric>>, <<10 * 45 + 1, 11>>, <<11, 6>>,
                   <<1, 4>>, <<3, numeric>>, <<123, 10>>,
                   <<8, 4>>, <<1, kanji>>, <<3487, 13>>, <<4, 4>>, <<1, bytes8>>, <<104, 8>> >>,
     text |-> <<65, 49, 66, 49, 50, 51, <<"kanji", 37727>>, 104>>]

Sixteen == Wider(16, 2, 12, 11, 16, 10)
TwentyThree == Wider(23, 1, 12, 11, 16, 10)
ThirtyTwo == Wider(32, 3, 14, 13, 16, 12)

\* Data that is all zeros, in every version.  There is no text in it, and it
\* shows that the version and the format are read, not where codewords go.
Blank(v) == [version |-> v, level |-> v % 4, fields |-> <<>>, text |-> <<>>]

\* One block of 134 bytes, the longest here.
Wide == [version |-> 5, level |-> 0, fields |-> <<>>, text |-> <<>>]

WhitePaper == [y \in 1..21 |-> [x \in 1..21 |-> 0]]

\* Symbols with the places of their modules and their codewords.
Blanks == {Blank(v) : v \in 1..40}

Encoded(s) ==
    LET data == Cells(s.version) \ Reserved(s.version)
        ec == CorrectionBytes[s.level + 1][s.version]
        stream == Stream(s.fields, BlockSizes(s.version, s.level, Cardinality(data)), ec)
    IN  IF s \in Blanks THEN [symbol |-> s, place |-> <<>>, stream |-> <<>>]
        ELSE [symbol |-> s, place |-> Ranks(Side(s.version), data),
              stream |-> SubSeq(stream, 1, Cardinality(data) \div 8)]

\* The parts of a picture, and the picture of them.
Parts(e, mask, damage) ==
    [symbol |-> e.symbol, place |-> e.place, mask |-> mask, damage |-> damage,
     information |-> Information(e.symbol.version, e.symbol.level, mask, damage),
     codewords |-> IF e.stream = <<>> THEN <<>>
                   ELSE SubSeq(Damaged(e.stream, damage), 1, Len(e.stream))]

Picture(p) ==
    LET symbols == [i \in 1..p.damage.decoys |-> WhitePaper]
                     \o << Printed(p.symbol.version, p.mask, p.damage.mirrored,
                                   p.information, p.place, p.codewords) >>
    IN  [symbol |-> p.symbol, mask |-> p.mask, damage |-> p.damage,
         candidates |-> IF p.damage.inverted THEN << <<WhitePaper>>, symbols >>
                                             ELSE << symbols, <<>> >>]

PicturesOf(symbols, masks, damages) ==
    {Picture(p) : p \in {Parts(e, mask, d) : e \in {Encoded(s) : s \in symbols},
                                             mask \in masks, d \in damages}}

\* What a scratch, a blot or a fold leaves readable.
Damages ==
    {[NoDamage EXCEPT !.codewords = c, !.format = f[1], !.other = f[2], !.mirrored = m] :
        c \in {{}, {1}, {1, 8, 14, 20, 26}, 17..21},
        f \in { <<{}, {}>>, <<{1, 2, 3}, {13, 14, 15}>>, <<{4, 9, 15}, {4, 9, 15}>>,
                <<1..7, {8}>> },
        m \in BOOLEAN}
    \cup {[NoDamage EXCEPT !.decoys = n, !.inverted = i, !.mirrored = TRUE] :
            n \in 0..1, i \in BOOLEAN}

\* Too much of the symbol is gone; last, what leaves half of the ten syndromes
\* zero, and so is not seen: six bytes, and seven with a single one beside them.
Beyond ==
    {[NoDamage EXCEPT !.codewords = c] : c \in {1..6, 1..13, 5..26}}
    \cup {[NoDamage EXCEPT !.added = <<0, 0, 1>> \o Product(5, 9)],
          [NoDamage EXCEPT !.added = <<0, 0, 1>> \o Product(4, 9), !.codewords = {20}]}
WideBeyond == {[NoDamage EXCEPT !.codewords = c] : c \in {1..17, 20..48, 60..100, 5..99}}

LongDamages ==
    {[NoDamage EXCEPT !.codewords = c, !.version = w[1], !.otherVersion = w[2], !.mirrored = TRUE] :
        c \in {1..65, 132..196},
        w \in { <<{}, {}>>, <<{1, 5, 18}, {2, 9, 10}>>, <<{1, 2, 3, 4, 5, 6, 7, 8, 9}, {18}>> }}

Cases ==
    << <<Blanks, {5}, {NoDamage}>>,
       <<{Activation, Digits17, Mixed}, 0..7, {NoDamage}>>,
       <<{Activation}, {3}, Damages \cup Beyond>>,
       <<{Wide}, {2}, WideBeyond>>,
       <<{Sixteen, TwentyThree, ThirtyTwo}, {1}, {NoDamage}>>,
       <<{Long}, {6}, LongDamages>> >>

MCPictures == UNION {PicturesOf(Cases[i][1], Cases[i][2], Cases[i][3]) : i \in DOMAIN Cases}
-----------------------------------------------------------------------------
(* Properties.                                                             *)

Sent == picture.symbol

\* What was printed is what is read: the text of a symbol no block of which has
\* lost more than half as many bytes as it has for correction, with each copy of
\* its format and version within three bits (or, in the cases at hand, one copy
\* lost and the other within one), mirrored, inverted or behind other finds.  The
\* texts are in versions 1, 2, 7, 16, 23 and 32 and in all the modes; of the
\* other versions there are empty symbols.  Of symbols that lost more (Beyond and
\* WideBeyond) see RepairsToNearestCodeword.
RecoversText ==
    pc = "done" /\ picture.damage \notin Beyond \cup WideBeyond =>
        result = [ok |-> TRUE, text |-> Sent.text]

Near(read, codeword, ec) ==
    2 * Cardinality({i \in DOMAIN codeword : codeword[i] # read[i]}) <= ec

DataOf(b) ==
    LET From(first) == SubSeq(bytes, first + 1, first + blocks[b].numDataCodewords)
    IN  From(MapThenSumSet(LAMBDA c : blocks[c].numDataCodewords, 1..(b - 1)))

\* The evaluator found for a block is not shorter than the locator.  No error in
\* at most half as many bytes as there are for correction leads to that, and the
\* decoder does not look.
Improper(read, ec) ==
    LET found == runEuclideanAlgorithm[buildMonomial(ec, 1), Poly(syndromes(read, ec)),
                                       <<0>>, <<1>>, ec]
    IN  found # Null /\ degree(found[2]) >= degree(found[1])

\* What correction gives out is, in every block, the data of a codeword that
\* differs from what was read in at most half as many bytes as the block has for
\* correction, so that what is past repair is given up; but for one check that
\* the decoder lacks.  Where the syndromes' upper half is zero the locator is
\* the constant 1, nothing is looked for and the block is given out unrepaired;
\* and so with one error more than the locator finds.  Only the text's own form
\* can refuse such a block.  (findErrorLocations and findErrorMagnitudes; no
\* syndrome is computed again after the repair.)
RepairsToNearestCodeword ==
    pc = "decode" /\ picture.damage # NoDamage =>
        \A b \in DOMAIN blocks :
            LET ec == Len(blocks[b].codewords) - blocks[b].numDataCodewords
                NearTo(data) == Near(blocks[b].codewords, data \o Parity(data, Generator(ec)), ec)
            IN  NearTo(DataOf(b)) \/ Improper(blocks[b].codewords, ec)

\* The decoder's table and its mask of the modules that carry no data are the
\* standard's, so that every codeword is looked for where it is printed and
\* belongs to its block; but for version 23, one of whose centres is at 74 in
\* the table and at 78 in the standard.  The number of its modules is right, and
\* 141 of its 1364 codewords are misread: no more than correction repairs at
\* the three higher levels, and too many at the lowest.
BlocksFitTheSymbol ==
    pc = "format" =>
        LET fixed == buildFunctionPatternMask(version)
            standard == Reserved(version)
            modules == Cardinality(Cells(version)) - Cardinality(standard)
        IN  /\ fixed = standard \/ version = 23
            /\ Cardinality(fixed) = Cardinality(standard)
            /\ \A level \in 0..3 :
                   LET ecInfo == VERSIONS[version].errorCorrectionLevels[level]
                   IN  /\ ecInfo.ecCodewordsPerBlock = CorrectionBytes[level + 1][version]
                       /\ dataBlocks(ecInfo) = BlockSizes(version, level, modules)
=============================================================================
