------------------------------ MODULE QrVersions ----------------------------
(***************************************************************************)
(* The decoder's table of the forty symbol versions: the bits of the       *)
(* version information (0 where the code has null, which counts as 0 in an *)
(* exclusive or and is equal to no bits that are read), the centres of     *)
(* the alignment patterns and, for each level of error correction, the     *)
(* bytes for correction per block and the blocks as pairs of how many and  *)
(* how many data bytes each.                                               *)
(***************************************************************************)
EXTENDS Naturals, Sequences, FiniteSets, FiniteSetsExt

Version(info, centers, low, medium, quartile, high) ==
    [infoBits |-> info,
     alignmentPatternCenters |-> {centers[i] : i \in DOMAIN centers},
     errorCorrectionLevels |->
        [l \in 0..3 |-> LET ec == <<low, medium, quartile, high>>[l + 1]
                        IN  [ecCodewordsPerBlock |-> ec[1], ecBlocks |-> Tail(ec)]]]

Versions1to4 == <<
    Version(0, <<>>,
            <<7, <<1, 19>>>>, <<10, <<1, 16>>>>,
            <<13, <<1, 13>>>>, <<17, <<1, 9>>>>),
    Version(0, <<6, 18>>,
            <<10, <<1, 34>>>>, <<16, <<1, 28>>>>,
            <<22, <<1, 22>>>>, <<28, <<1, 16>>>>),
    Version(0, <<6, 22>>,
            <<15, <<1, 55>>>>, <<26, <<1, 44>>>>,
            <<18, <<2, 17>>>>, <<22, <<2, 13>>>>),
    Version(0, <<6, 26>>,
            <<20, <<1, 80>>>>, <<18, <<2, 32>>>>,
            <<26, <<2, 24>>>>, <<16, <<4, 9>>>>) >>

Versions5to8 == <<
    Version(0, <<6, 30>>,
            <<26, <<1, 108>>>>, <<24, <<2, 43>>>>,
            <<18, <<2, 15>>, <<2, 16>>>>, <<22, <<2, 11>>, <<2, 12>>>>),
    Version(0, <<6, 34>>,
            <<18, <<2, 68>>>>, <<16, <<4, 27>>>>,
            <<24, <<4, 19>>>>, <<28, <<4, 15>>>>),
    Version(31892, <<6, 22, 38>>,
            <<20, <<2, 78>>>>, <<18, <<4, 31>>>>,
            <<18, <<2, 14>>, <<4, 15>>>>, <<26, <<4, 13>>, <<1, 14>>>>),
    Version(34236, <<6, 24, 42>>,
            <<24, <<2, 97>>>>, <<22, <<2, 38>>, <<2, 39>>>>,
            <<22, <<4, 18>>, <<2, 19>>>>, <<26, <<4, 14>>, <<2, 15>>>>) >>

Versions9to12 == <<
    Version(39577, <<6, 26, 46>>,
            <<30, <<2, 116>>>>, <<22, <<3, 36>>, <<2, 37>>>>,
            <<20, <<4, 16>>, <<4, 17>>>>, <<24, <<4, 12>>, <<4, 13>>>>),
    Version(42195, <<6, 28, 50>>,
            <<18, <<2, 68>>, <<2, 69>>>>, <<26, <<4, 43>>, <<1, 44>>>>,
            <<24, <<6, 19>>, <<2, 20>>>>, <<28, <<6, 15>>, <<2, 16>>>>),
    Version(48118, <<6, 30, 54>>,
            <<20, <<4, 81>>>>, <<30, <<1, 50>>, <<4, 51>>>>,
            <<28, <<4, 22>>, <<4, 23>>>>, <<24, <<3, 12>>, <<8, 13>>>>),
    Version(51042, <<6, 32, 58>>,
            <<24, <<2, 92>>, <<2, 93>>>>, <<22, <<6, 36>>, <<2, 37>>>>,
            <<26, <<4, 20>>, <<6, 21>>>>, <<28, <<7, 14>>, <<4, 15>>>>) >>

Versions13to16 == <<
    Version(55367, <<6, 34, 62>>,
            <<26, <<4, 107>>>>, <<22, <<8, 37>>, <<1, 38>>>>,
            <<24, <<8, 20>>, <<4, 21>>>>, <<22, <<12, 11>>, <<4, 12>>>>),
    Version(58893, <<6, 26, 46, 66>>,
            <<30, <<3, 115>>, <<1, 116>>>>, <<24, <<4, 40>>, <<5, 41>>>>,
            <<20, <<11, 16>>, <<5, 17>>>>, <<24, <<11, 12>>, <<5, 13>>>>),
    Version(63784, <<6, 26, 48, 70>>,
            <<22, <<5, 87>>, <<1, 88>>>>, <<24, <<5, 41>>, <<5, 42>>>>,
            <<30, <<5, 24>>, <<7, 25>>>>, <<24, <<11, 12>>, <<7, 13>>>>),
    Version(68472, <<6, 26, 50, 74>>,
            <<24, <<5, 98>>, <<1, 99>>>>, <<28, <<7, 45>>, <<3, 46>>>>,
            <<24, <<15, 19>>, <<2, 20>>>>, <<30, <<3, 15>>, <<13, 16>>>>) >>

Versions17to20 == <<
    Version(70749, <<6, 30, 54, 78>>,
            <<28, <<1, 107>>, <<5, 108>>>>, <<28, <<10, 46>>, <<1, 47>>>>,
            <<28, <<1, 22>>, <<15, 23>>>>, <<28, <<2, 14>>, <<17, 15>>>>),
    Version(76311, <<6, 30, 56, 82>>,
            <<30, <<5, 120>>, <<1, 121>>>>, <<26, <<9, 43>>, <<4, 44>>>>,
            <<28, <<17, 22>>, <<1, 23>>>>, <<28, <<2, 14>>, <<19, 15>>>>),
    Version(79154, <<6, 30, 58, 86>>,
            <<28, <<3, 113>>, <<4, 114>>>>, <<26, <<3, 44>>, <<11, 45>>>>,
            <<26, <<17, 21>>, <<4, 22>>>>, <<26, <<9, 13>>, <<16, 14>>>>),
    Version(84390, <<6, 34, 62, 90>>,
            <<28, <<3, 107>>, <<5, 108>>>>, <<26, <<3, 41>>, <<13, 42>>>>,
            <<30, <<15, 24>>, <<5, 25>>>>, <<28, <<15, 15>>, <<10, 16>>>>) >>

Versions21to24 == <<
    Version(87683, <<6, 28, 50, 72, 94>>,
            <<28, <<4, 116>>, <<4, 117>>>>, <<26, <<17, 42>>>>,
            <<28, <<17, 22>>, <<6, 23>>>>, <<30, <<19, 16>>, <<6, 17>>>>),
    Version(92361, <<6, 26, 50, 74, 98>>,
            <<28, <<2, 111>>, <<7, 112>>>>, <<28, <<17, 46>>>>,
            <<30, <<7, 24>>, <<16, 25>>>>, <<24, <<34, 13>>>>),
    Version(96236, <<6, 30, 54, 74, 102>>,
            <<30, <<4, 121>>, <<5, 122>>>>, <<28, <<4, 47>>, <<14, 48>>>>,
            <<30, <<11, 24>>, <<14, 25>>>>, <<30, <<16, 15>>, <<14, 16>>>>),
    Version(102084, <<6, 28, 54, 80, 106>>,
            <<30, <<6, 117>>, <<4, 118>>>>, <<28, <<6, 45>>, <<14, 46>>>>,
            <<30, <<11, 24>>, <<16, 25>>>>, <<30, <<30, 16>>, <<2, 17>>>>) >>

Versions25to28 == <<
    Version(102881, <<6, 32, 58, 84, 110>>,
            <<26, <<8, 106>>, <<4, 107>>>>, <<28, <<8, 47>>, <<13, 48>>>>,
            <<30, <<7, 24>>, <<22, 25>>>>, <<30, <<22, 15>>, <<13, 16>>>>),
    Version(110507, <<6, 30, 58, 86, 114>>,
            <<28, <<10, 114>>, <<2, 115>>>>, <<28, <<19, 46>>, <<4, 47>>>>,
            <<28, <<28, 22>>, <<6, 23>>>>, <<30, <<33, 16>>, <<4, 17>>>>),
    Version(110734, <<6, 34, 62, 90, 118>>,
            <<30, <<8, 122>>, <<4, 123>>>>, <<28, <<22, 45>>, <<3, 46>>>>,
            <<30, <<8, 23>>, <<26, 24>>>>, <<30, <<12, 15>>, <<28, 16>>>>),
    Version(117786, <<6, 26, 50, 74, 98, 122>>,
            <<30, <<3, 117>>, <<10, 118>>>>, <<28, <<3, 45>>, <<23, 46>>>>,
            <<30, <<4, 24>>, <<31, 25>>>>, <<30, <<11, 15>>, <<31, 16>>>>) >>

Versions29to32 == <<
    Version(119615, <<6, 30, 54, 78, 102, 126>>,
            <<30, <<7, 116>>, <<7, 117>>>>, <<28, <<21, 45>>, <<7, 46>>>>,
            <<30, <<1, 23>>, <<37, 24>>>>, <<30, <<19, 15>>, <<26, 16>>>>),
    Version(126325, <<6, 26, 52, 78, 104, 130>>,
            <<30, <<5, 115>>, <<10, 116>>>>, <<28, <<19, 47>>, <<10, 48>>>>,
            <<30, <<15, 24>>, <<25, 25>>>>, <<30, <<23, 15>>, <<25, 16>>>>),
    Version(127568, <<6, 30, 56, 82, 108, 134>>,
            <<30, <<13, 115>>, <<3, 116>>>>, <<28, <<2, 46>>, <<29, 47>>>>,
            <<30, <<42, 24>>, <<1, 25>>>>, <<30, <<23, 15>>, <<28, 16>>>>),
    Version(133589, <<6, 34, 60, 86, 112, 138>>,
            <<30, <<17, 115>>>>, <<28, <<10, 46>>, <<23, 47>>>>,
            <<30, <<10, 24>>, <<35, 25>>>>, <<30, <<19, 15>>, <<35, 16>>>>) >>

Versions33to36 == <<
    Version(136944, <<6, 30, 58, 86, 114, 142>>,
            <<30, <<17, 115>>, <<1, 116>>>>, <<28, <<14, 46>>, <<21, 47>>>>,
            <<30, <<29, 24>>, <<19, 25>>>>, <<30, <<11, 15>>, <<46, 16>>>>),
    Version(141498, <<6, 34, 62, 90, 118, 146>>,
            <<30, <<13, 115>>, <<6, 116>>>>, <<28, <<14, 46>>, <<23, 47>>>>,
            <<30, <<44, 24>>, <<7, 25>>>>, <<30, <<59, 16>>, <<1, 17>>>>),
    Version(145311, <<6, 30, 54, 78, 102, 126, 150>>,
            <<30, <<12, 121>>, <<7, 122>>>>, <<28, <<12, 47>>, <<26, 48>>>>,
            <<30, <<39, 24>>, <<14, 25>>>>, <<30, <<22, 15>>, <<41, 16>>>>),
    Version(150283, <<6, 24, 50, 76, 102, 128, 154>>,
            <<30, <<6, 121>>, <<14, 122>>>>, <<28, <<6, 47>>, <<34, 48>>>>,
            <<30, <<46, 24>>, <<10, 25>>>>, <<30, <<2, 15>>, <<64, 16>>>>) >>

Versions37to40 == <<
    Version(152622, <<6, 28, 54, 80, 106, 132, 158>>,
            <<30, <<17, 122>>, <<4, 123>>>>, <<28, <<29, 46>>, <<14, 47>>>>,
            <<30, <<49, 24>>, <<10, 25>>>>, <<30, <<24, 15>>, <<46, 16>>>>),
    Version(158308, <<6, 32, 58, 84, 110, 136, 162>>,
            <<30, <<4, 122>>, <<18, 123>>>>, <<28, <<13, 46>>, <<32, 47>>>>,
            <<30, <<48, 24>>, <<14, 25>>>>, <<30, <<42, 15>>, <<32, 16>>>>),
    Version(161089, <<6, 26, 54, 82, 110, 138, 166>>,
            <<30, <<20, 117>>, <<4, 118>>>>, <<28, <<40, 47>>, <<7, 48>>>>,
            <<30, <<43, 24>>, <<22, 25>>>>, <<30, <<10, 15>>, <<67, 16>>>>),
    Version(167017, <<6, 30, 58, 86, 114, 142, 170>>,
            <<30, <<19, 118>>, <<6, 119>>>>, <<28, <<18, 47>>, <<31, 48>>>>,
            <<30, <<34, 24>>, <<34, 25>>>>, <<30, <<20, 15>>, <<61, 16>>>>) >>

VERSIONS == Versions1to4 \o Versions5to8 \o Versions9to12 \o Versions13to16
         \o Versions17to20 \o Versions21to24 \o Versions25to28 \o Versions29to32
         \o Versions33to36 \o Versions37to40
-----------------------------------------------------------------------------
\* Modules along a side.
Dimension(v) == 17 + 4 * v

Region(left, top, width, height) ==
    (left..(left + width - 1)) \X (top..(top + height - 1))

AlignmentPatterns(v) ==
    LET Pairs(centers) == centers \X centers IN Pairs(VERSIONS[v].alignmentPatternCenters)

\* Mutated form: no alignment patterns on the timing lines.
NoneOnTiming(v) ==
    LET d == Dimension(v)
    IN  UNION ({Region(0, 0, 9, 9), Region(d - 8, 0, 8, 9), Region(0, d - 8, 9, 8),
                Region(6, 9, 1, d - 17), Region(9, 6, d - 17, 1)}
          \cup {Region(c[1] - 2, c[2] - 2, 5, 5) : c \in {p \in AlignmentPatterns(v) : 6 \notin {p[1], p[2]}}}
          \cup IF v <= 6 THEN {}
               ELSE {Region(d - 11, 0, 3, 6), Region(0, d - 11, 6, 3)})

\* The modules, as pairs of column and row, that carry no data.
buildFunctionPatternMask(v) ==
    LET d == Dimension(v)
        Corner(x, y) == <<x, y>> \in {<<6, 6>>, <<6, d - 7>>, <<d - 7, 6>>}
    IN  UNION ({Region(0, 0, 9, 9), Region(d - 8, 0, 8, 9), Region(0, d - 8, 9, 8),
                Region(6, 9, 1, d - 17), Region(9, 6, d - 17, 1)}
          \cup {Region(c[1] - 2, c[2] - 2, 5, 5) :
                  c \in {p \in AlignmentPatterns(v) : ~Corner(p[1], p[2])}}
          \cup IF v <= 6 THEN {}
               ELSE {Region(d - 11, 0, 3, 6), Region(0, d - 11, 6, 3)})

\* Of one level of error correction: the data bytes of its blocks, one after the other.
dataBlocks(ecInfo) ==
    LET Blocks(g) == [i \in 1..g[1] |-> g[2]]
    IN  IF Len(ecInfo.ecBlocks) = 1 THEN Blocks(ecInfo.ecBlocks[1])
        ELSE Blocks(ecInfo.ecBlocks[1]) \o Blocks(ecInfo.ecBlocks[2])

totalCodewords(ecInfo) ==
    LET Codewords(g) == ecInfo.ecBlocks[g][1] * (ecInfo.ecBlocks[g][2] + ecInfo.ecCodewordsPerBlock)
    IN  MapThenSumSet(Codewords, DOMAIN ecInfo.ecBlocks)
=============================================================================
