--------------------------- MODULE QrDecoderProofs ---------------------------
(***************************************************************************)
(* Proofs about the QR decoder: its steps compute what jsQR promises of a  *)
(* picture, and what they rest on: where codewords and modules go, and     *)
(* which damage to the format and to the version is repaired.  What the    *)
(* polynomials of the correction compute stays with TLC.                   *)
(***************************************************************************)
EXTENDS QrDecoder, FiniteSetTheorems, SequenceTheorems, WellFoundedInduction, TLAPS

-----------------------------------------------------------------------------
(* The nearest entry of a table.                                           *)

LEMMA MinIsLeast ==
    ASSUME NEW S \in SUBSET Nat, S # {}
    PROVE  Min(S) \in S /\ \A y \in S : Min(S) <= y
<1>1. PICK x \in S : \A y \in S : ~(<<y, x>> \in OpToRel(<, Nat))
  BY NatLessThanWellFounded, WFMin
<1>2. \A y \in S : x <= y
  <2>1. SUFFICES ASSUME NEW y \in S PROVE x <= y
    OBVIOUS
  <2>2. x \in Nat /\ y \in Nat
    OBVIOUS
  <2>3. (y < x) => <<y, x>> \in OpToRel(<, Nat)
    BY <2>2 DEF OpToRel
  <2>4. ~(y < x)
    BY <1>1, <2>1, <2>3
  <2>. QED
    BY <2>2, <2>4
<1>. QED
  BY <1>2 DEF Min

LEMMA DifferencesAreFinite ==
    ASSUME NEW a, NEW b
    PROVE  /\ numBitsDiffering(a, b) \in Nat
           /\ IsFiniteSet({i \in 0..17 : (a \div 2 ^ i) % 2 # (b \div 2 ^ i) % 2})
<1>1. IsFiniteSet(0..17)
  <2>1. 0 \in Int /\ 17 \in Int
    OBVIOUS
  <2>. QED
    BY <2>1, FS_Interval
<1>2. IsFiniteSet({i \in 0..17 : (a \div 2 ^ i) % 2 # (b \div 2 ^ i) % 2})
  BY <1>1, FS_Subset
<1>. QED
  BY <1>2, FS_CardinalityType DEF numBitsDiffering

LEMMA DifferenceIsNat == \A a, b : numBitsDiffering(a, b) \in Nat
  BY DifferencesAreFinite

\* Bits differ on the way from a to c where they differ from a to b or from b to c.
LEMMA DifferenceIsMetric ==
    ASSUME NEW a, NEW b, NEW c
    PROVE  /\ numBitsDiffering(a, b) = numBitsDiffering(b, a)
           /\ numBitsDiffering(a, c) <= numBitsDiffering(a, b) + numBitsDiffering(b, c)
<1>. DEFINE bit(x, i) == (x \div 2 ^ i) % 2
            D(x, y) == {i \in 0..17 : bit(x, i) # bit(y, i)}
<1>1. \A x, y : numBitsDiffering(x, y) = Cardinality(D(x, y)) /\ IsFiniteSet(D(x, y))
  BY DifferencesAreFinite DEF numBitsDiffering
<1>. HIDE DEF bit
<1>2. D(a, b) = D(b, a) /\ D(a, c) \subseteq D(a, b) \cup D(b, c)
  OBVIOUS
<1>. HIDE DEF D
<1>3. Cardinality(D(a, c)) <= Cardinality(D(a, b) \cup D(b, c))
  BY <1>1, <1>2, FS_Union, FS_Subset
<1>4. /\ Cardinality(D(a, b) \cup D(b, c)) =
            Cardinality(D(a, b)) + Cardinality(D(b, c)) - Cardinality(D(a, b) \cap D(b, c))
      /\ Cardinality(D(a, b) \cap D(b, c)) \in Nat
  <2>1. IsFiniteSet(D(a, b) \cap D(b, c))
    BY <1>1, FS_Intersection
  <2>. QED
    BY <1>1, <2>1, FS_Union, FS_CardinalityType
<1>5. Cardinality(D(a, b)) \in Nat /\ Cardinality(D(b, c)) \in Nat /\ Cardinality(D(a, c)) \in Nat
  BY <1>1, FS_CardinalityType
<1>. QED
  BY <1>1, <1>2, <1>3, <1>4, <1>5

\* What Nearest returns: an entry of the table, with the least difference of any.
LEMMA NearestIsLeast ==
    ASSUME NEW table, DOMAIN table \in SUBSET Nat, DOMAIN table # {},
           NEW words, words # {}
    PROVE  LET nearest == Nearest(table, words)
           IN  /\ nearest.at \in DOMAIN table /\ nearest.difference \in Nat
               /\ \E w \in words : numBitsDiffering(w, table[nearest.at]) = nearest.difference
               /\ \A i \in DOMAIN table, w \in words :
                      nearest.difference <= numBitsDiffering(w, table[i])
<1>. DEFINE Of(i) == {numBitsDiffering(w, table[i]) : w \in words}
            Difference(i) == Min(Of(i))
            All == {Difference(i) : i \in DOMAIN table}
            least == Min(All)
            Nearby == {i \in DOMAIN table : Difference(i) = least}
<1>1. \A i \in DOMAIN table : Difference(i) \in Of(i) /\ \A y \in Of(i) : Difference(i) <= y
  <2>1. SUFFICES ASSUME NEW i \in DOMAIN table
                 PROVE  Difference(i) \in Of(i) /\ \A y \in Of(i) : Difference(i) <= y
    OBVIOUS
  <2>2. Of(i) \in SUBSET Nat /\ Of(i) # {}
    BY DifferenceIsNat
  <2>. HIDE DEF Of
  <2>. QED
    BY <2>2, MinIsLeast
<1>2. \A i \in DOMAIN table : Difference(i) \in Nat
  BY <1>1, DifferenceIsNat
<1>3. least \in All /\ \A y \in All : least <= y
  <2>1. All \in SUBSET Nat /\ All # {}
    <3>. HIDE DEF Difference
    <3>. QED
      BY <1>2
  <2>. HIDE DEF All
  <2>. QED
    BY <2>1, MinIsLeast
<1>4. Nearby \in SUBSET Nat /\ Nearby # {}
  <2>. HIDE DEF Difference, least
  <2>. QED
    BY <1>3
<1>5. Nearest(table, words) = [at |-> Min(Nearby), difference |-> least]
  BY DEF Nearest
<1>6. Min(Nearby) \in Nearby
  <2>. HIDE DEF Nearby
  <2>. QED
    BY <1>4, MinIsLeast
<1>7. Nearest(table, words).at \in Nearby /\ Nearest(table, words).difference = least
  <2>. HIDE DEF Nearby, least
  <2>. QED
    BY <1>5, <1>6
<1>. DEFINE at == Nearest(table, words).at
<1>8. at \in DOMAIN table /\ Difference(at) = least /\ Nearest(table, words).difference = least
  <2>. HIDE DEF Difference, least
  <2>. QED
    BY <1>7
<1>. HIDE DEF at
<1>9. least \in Nat /\ \E w \in words : numBitsDiffering(w, table[at]) = least
  <2>1. Difference(at) \in Nat /\ Difference(at) \in Of(at)
    BY <1>1, <1>2, <1>8
  <2>. HIDE DEF Difference, least
  <2>. QED
    BY <1>8, <2>1
<1>10. \A i \in DOMAIN table, w \in words : least <= numBitsDiffering(w, table[i])
  <2>1. SUFFICES ASSUME NEW i \in DOMAIN table, NEW w \in words
                 PROVE  least <= numBitsDiffering(w, table[i])
    OBVIOUS
  <2>2. Difference(i) <= numBitsDiffering(w, table[i]) /\ Difference(i) \in Nat
    BY <1>1, <1>2
  <2>3. least <= Difference(i)
    <3>. HIDE DEF Difference, least
    <3>. QED
      BY <1>3
  <2>. HIDE DEF Difference, least
  <2>. QED
    BY <1>9, <2>2, <2>3, DifferenceIsNat
<1>. HIDE DEF least
<1>. QED
  BY <1>8, <1>9, <1>10 DEF at

\* An entry some word is within k bits of, and no word as near to another, is found.
LEMMA NearestIsRight ==
    ASSUME NEW table, DOMAIN table \in SUBSET Nat, NEW words, NEW i \in DOMAIN table,
           NEW k \in Nat, \E w \in words : numBitsDiffering(w, table[i]) <= k,
           \A j \in DOMAIN table \ {i}, w \in words : numBitsDiffering(w, table[j]) > k
    PROVE  Nearest(table, words).at = i /\ Nearest(table, words).difference <= k
<1>. DEFINE nearest == Nearest(table, words)
<1>1. /\ nearest.at \in DOMAIN table /\ nearest.difference \in Nat
      /\ \E w \in words : numBitsDiffering(w, table[nearest.at]) = nearest.difference
      /\ \A w \in words : nearest.difference <= numBitsDiffering(w, table[i])
  BY NearestIsLeast
<1>. HIDE DEF nearest
<1>2. nearest.difference <= k
  BY <1>1, DifferenceIsNat
<1>3. nearest.at = i
  BY <1>1, <1>2, DifferenceIsNat
<1>. QED
  BY <1>2, <1>3 DEF nearest

\* In a table whose entries are more than 2k bits apart, an entry every word is
\* within k bits of is found.
LEMMA NearestRepairs ==
    ASSUME NEW table, DOMAIN table \in SUBSET Nat, NEW words, words # {},
           NEW i \in DOMAIN table, NEW k \in Nat,
           \A w \in words : numBitsDiffering(w, table[i]) <= k,
           \A j \in DOMAIN table \ {i} : numBitsDiffering(table[i], table[j]) > 2 * k
    PROVE  Nearest(table, words).at = i /\ Nearest(table, words).difference <= k
<1>1. \A j \in DOMAIN table \ {i}, w \in words : numBitsDiffering(w, table[j]) > k
  <2>1. SUFFICES ASSUME NEW j \in DOMAIN table \ {i}, NEW w \in words
                 PROVE  numBitsDiffering(w, table[j]) > k
    OBVIOUS
  <2>2. numBitsDiffering(table[i], table[j]) <=
            numBitsDiffering(w, table[i]) + numBitsDiffering(w, table[j])
    BY DifferenceIsMetric
  <2>. QED
    BY <2>1, <2>2, DifferenceIsNat
<1>. QED
  BY <1>1, NearestIsRight
-----------------------------------------------------------------------------
(* The format and the version that are read.                               *)

\* For symbols of any size: a format both of whose copies lost at most three
\* bits is read as it was printed.
THEOREM FormatIsRepaired ==
    ASSUME NEW m, NEW i \in DOMAIN FORMAT_INFO_BITS,
           \A w \in FormatWords(m) : numBitsDiffering(w, FORMAT_INFO_BITS[i]) <= 3
    PROVE  readFormatInformation(m) = [ok |-> TRUE] @@ FORMAT_INFO(i)
<1>. DEFINE table == FORMAT_INFO_BITS
<1>1. DOMAIN table \in SUBSET Nat
  BY DEF FORMAT_INFO_BITS
<1>2. FormatWords(m) # {}
  BY DEF FormatWords
<1>3. i \in DOMAIN table /\ \A w \in FormatWords(m) : numBitsDiffering(w, table[i]) <= 3
  OBVIOUS
<1>4. \A j \in DOMAIN table \ {i} : numBitsDiffering(table[i], table[j]) > 2 * 3
  BY FormatsAreApart, DifferenceIsNat
<1>. HIDE DEF table
<1>5. Nearest(table, FormatWords(m)).at = i /\ Nearest(table, FormatWords(m)).difference <= 3
  BY <1>1, <1>2, <1>3, <1>4, NearestRepairs
<1>. QED
  BY <1>5 DEF readFormatInformation, table

\* Nothing is read as a format that neither copy is within three bits of.
THEOREM FormatIsNear ==
    ASSUME NEW m, readFormatInformation(m).ok
    PROVE  \E i \in DOMAIN FORMAT_INFO_BITS, w \in FormatWords(m) :
               /\ readFormatInformation(m) = [ok |-> TRUE] @@ FORMAT_INFO(i)
               /\ numBitsDiffering(w, FORMAT_INFO_BITS[i]) <= 3
<1>. DEFINE nearest == Nearest(FORMAT_INFO_BITS, FormatWords(m))
<1>1. DOMAIN FORMAT_INFO_BITS \in SUBSET Nat /\ DOMAIN FORMAT_INFO_BITS # {}
  BY DEF FORMAT_INFO_BITS
<1>2. FormatWords(m) # {}
  BY DEF FormatWords
<1>3. /\ nearest.at \in DOMAIN FORMAT_INFO_BITS
      /\ \E w \in FormatWords(m) :
             numBitsDiffering(w, FORMAT_INFO_BITS[nearest.at]) = nearest.difference
  BY <1>1, <1>2, NearestIsLeast
<1>. HIDE DEF nearest
<1>4. nearest.difference <= 3 /\ readFormatInformation(m) = [ok |-> TRUE] @@ FORMAT_INFO(nearest.at)
  BY DEF readFormatInformation, None, nearest
<1>. QED
  BY <1>3, <1>4

LEMMA FourMore ==
    \A S : \A s, t \in Seq(S) :
        Len(t) = 4 => s \o t \in Seq(S) /\ Len(s \o t) = Len(s) + 4
<1>1. SUFFICES ASSUME NEW S, NEW s \in Seq(S), NEW t \in Seq(S), Len(t) = 4
               PROVE  s \o t \in Seq(S) /\ Len(s \o t) = Len(s) + 4
  OBVIOUS
<1>2. s \o t \in Seq(S) /\ Len(s \o t) = Len(s) + Len(t)
  BY <1>1, ConcatProperties
<1>. QED
  BY <1>1, <1>2

LEMMA FortyVersions == DOMAIN VERSIONS = 1..40
<1>. DEFINE Of(s) == {s[i] : i \in 1..4}
            Entries == UNION {Of(Versions1to4), Of(Versions5to8), Of(Versions9to12),
                              Of(Versions13to16), Of(Versions17to20), Of(Versions21to24),
                              Of(Versions25to28), Of(Versions29to32), Of(Versions33to36),
                              Of(Versions37to40)}
<1>1. Versions1to4 \in Seq(Entries) /\ Len(Versions1to4) = 4
  <2>1. Versions1to4 \in Seq(Of(Versions1to4)) /\ Len(Versions1to4) = 4
    BY DEF Versions1to4
  <2>2. Of(Versions1to4) \subseteq Entries
    <3>. HIDE DEF Of
    <3>. QED
      OBVIOUS
  <2>. HIDE DEF Of, Entries
  <2>. QED
    BY <2>1, <2>2
<1>2. Versions5to8 \in Seq(Entries) /\ Len(Versions5to8) = 4
  <2>1. Versions5to8 \in Seq(Of(Versions5to8)) /\ Len(Versions5to8) = 4
    BY DEF Versions5to8
  <2>2. Of(Versions5to8) \subseteq Entries
    <3>. HIDE DEF Of
    <3>. QED
      OBVIOUS
  <2>. HIDE DEF Of, Entries
  <2>. QED
    BY <2>1, <2>2
<1>3. Versions9to12 \in Seq(Entries) /\ Len(Versions9to12) = 4
  <2>1. Versions9to12 \in Seq(Of(Versions9to12)) /\ Len(Versions9to12) = 4
    BY DEF Versions9to12
  <2>2. Of(Versions9to12) \subseteq Entries
    <3>. HIDE DEF Of
    <3>. QED
      OBVIOUS
  <2>. HIDE DEF Of, Entries
  <2>. QED
    BY <2>1, <2>2
<1>4. Versions13to16 \in Seq(Entries) /\ Len(Versions13to16) = 4
  <2>1. Versions13to16 \in Seq(Of(Versions13to16)) /\ Len(Versions13to16) = 4
    BY DEF Versions13to16
  <2>2. Of(Versions13to16) \subseteq Entries
    <3>. HIDE DEF Of
    <3>. QED
      OBVIOUS
  <2>. HIDE DEF Of, Entries
  <2>. QED
    BY <2>1, <2>2
<1>5. Versions17to20 \in Seq(Entries) /\ Len(Versions17to20) = 4
  <2>1. Versions17to20 \in Seq(Of(Versions17to20)) /\ Len(Versions17to20) = 4
    BY DEF Versions17to20
  <2>2. Of(Versions17to20) \subseteq Entries
    <3>. HIDE DEF Of
    <3>. QED
      OBVIOUS
  <2>. HIDE DEF Of, Entries
  <2>. QED
    BY <2>1, <2>2
<1>6. Versions21to24 \in Seq(Entries) /\ Len(Versions21to24) = 4
  <2>1. Versions21to24 \in Seq(Of(Versions21to24)) /\ Len(Versions21to24) = 4
    BY DEF Versions21to24
  <2>2. Of(Versions21to24) \subseteq Entries
    <3>. HIDE DEF Of
    <3>. QED
      OBVIOUS
  <2>. HIDE DEF Of, Entries
  <2>. QED
    BY <2>1, <2>2
<1>7. Versions25to28 \in Seq(Entries) /\ Len(Versions25to28) = 4
  <2>1. Versions25to28 \in Seq(Of(Versions25to28)) /\ Len(Versions25to28) = 4
    BY DEF Versions25to28
  <2>2. Of(Versions25to28) \subseteq Entries
    <3>. HIDE DEF Of
    <3>. QED
      OBVIOUS
  <2>. HIDE DEF Of, Entries
  <2>. QED
    BY <2>1, <2>2
<1>8. Versions29to32 \in Seq(Entries) /\ Len(Versions29to32) = 4
  <2>1. Versions29to32 \in Seq(Of(Versions29to32)) /\ Len(Versions29to32) = 4
    BY DEF Versions29to32
  <2>2. Of(Versions29to32) \subseteq Entries
    <3>. HIDE DEF Of
    <3>. QED
      OBVIOUS
  <2>. HIDE DEF Of, Entries
  <2>. QED
    BY <2>1, <2>2
<1>9. Versions33to36 \in Seq(Entries) /\ Len(Versions33to36) = 4
  <2>1. Versions33to36 \in Seq(Of(Versions33to36)) /\ Len(Versions33to36) = 4
    BY DEF Versions33to36
  <2>2. Of(Versions33to36) \subseteq Entries
    <3>. HIDE DEF Of
    <3>. QED
      OBVIOUS
  <2>. HIDE DEF Of, Entries
  <2>. QED
    BY <2>1, <2>2
<1>10. Versions37to40 \in Seq(Entries) /\ Len(Versions37to40) = 4
  <2>1. Versions37to40 \in Seq(Of(Versions37to40)) /\ Len(Versions37to40) = 4
    BY DEF Versions37to40
  <2>2. Of(Versions37to40) \subseteq Entries
    <3>. HIDE DEF Of
    <3>. QED
      OBVIOUS
  <2>. HIDE DEF Of, Entries
  <2>. QED
    BY <2>1, <2>2
<1>. HIDE DEF Entries
<1>. DEFINE first8 == Versions1to4 \o Versions5to8
<1>12. first8 \in Seq(Entries) /\ Len(first8) = 8
  <2>1. first8 \in Seq(Entries) /\ Len(first8) = Len(Versions1to4) + 4
    BY <1>1, <1>2, FourMore
  <2>. QED
    BY <1>1, <2>1
<1>. HIDE DEF first8
<1>. DEFINE first12 == first8 \o Versions9to12
<1>13. first12 \in Seq(Entries) /\ Len(first12) = 12
  <2>1. first12 \in Seq(Entries) /\ Len(first12) = Len(first8) + 4
    BY <1>12, <1>3, FourMore
  <2>. QED
    BY <1>12, <2>1
<1>. HIDE DEF first12
<1>. DEFINE first16 == first12 \o Versions13to16
<1>14. first16 \in Seq(Entries) /\ Len(first16) = 16
  <2>1. first16 \in Seq(Entries) /\ Len(first16) = Len(first12) + 4
    BY <1>13, <1>4, FourMore
  <2>. QED
    BY <1>13, <2>1
<1>. HIDE DEF first16
<1>. DEFINE first20 == first16 \o Versions17to20
<1>15. first20 \in Seq(Entries) /\ Len(first20) = 20
  <2>1. first20 \in Seq(Entries) /\ Len(first20) = Len(first16) + 4
    BY <1>14, <1>5, FourMore
  <2>. QED
    BY <1>14, <2>1
<1>. HIDE DEF first20
<1>. DEFINE first24 == first20 \o Versions21to24
<1>16. first24 \in Seq(Entries) /\ Len(first24) = 24
  <2>1. first24 \in Seq(Entries) /\ Len(first24) = Len(first20) + 4
    BY <1>15, <1>6, FourMore
  <2>. QED
    BY <1>15, <2>1
<1>. HIDE DEF first24
<1>. DEFINE first28 == first24 \o Versions25to28
<1>17. first28 \in Seq(Entries) /\ Len(first28) = 28
  <2>1. first28 \in Seq(Entries) /\ Len(first28) = Len(first24) + 4
    BY <1>16, <1>7, FourMore
  <2>. QED
    BY <1>16, <2>1
<1>. HIDE DEF first28
<1>. DEFINE first32 == first28 \o Versions29to32
<1>18. first32 \in Seq(Entries) /\ Len(first32) = 32
  <2>1. first32 \in Seq(Entries) /\ Len(first32) = Len(first28) + 4
    BY <1>17, <1>8, FourMore
  <2>. QED
    BY <1>17, <2>1
<1>. HIDE DEF first32
<1>. DEFINE first36 == first32 \o Versions33to36
<1>19. first36 \in Seq(Entries) /\ Len(first36) = 36
  <2>1. first36 \in Seq(Entries) /\ Len(first36) = Len(first32) + 4
    BY <1>18, <1>9, FourMore
  <2>. QED
    BY <1>18, <2>1
<1>. HIDE DEF first36
<1>. DEFINE first40 == first36 \o Versions37to40
<1>20. first40 \in Seq(Entries) /\ Len(first40) = 40
  <2>1. first40 \in Seq(Entries) /\ Len(first40) = Len(first36) + 4
    BY <1>19, <1>10, FourMore
  <2>. QED
    BY <1>19, <2>1
<1>. HIDE DEF first40
<1>21. DOMAIN first40 = 1..40
  BY <1>20
<1>. QED
  BY <1>21 DEF VERSIONS, first8, first12, first16, first20, first24, first28, first32,
               first36, first40

\* For large symbols, of any size: a version both of whose copies lost at most
\* three bits is read as it was printed.
THEOREM VersionIsRepaired ==
    ASSUME NEW m, Len(m) \in Nat, Len(m) >= 45, NEW v \in 7..40,
           \A w \in VersionWords(m) : numBitsDiffering(w, VERSIONS[v].infoBits) <= 3
    PROVE  readVersion(m) = v
<1>. DEFINE table == [i \in DOMAIN VERSIONS |-> VERSIONS[i].infoBits]
            words == VersionWords(m)
<1>1. DOMAIN table = 1..40 /\ DOMAIN table \in SUBSET Nat /\ v \in DOMAIN table
  BY FortyVersions
<1>2. words # {}
  BY DEF VersionWords
<1>3. \A w \in words : numBitsDiffering(w, table[v]) <= 3
  BY <1>1
<1>4. \A j \in DOMAIN table \ {v} : numBitsDiffering(table[v], table[j]) > 2 * 3
  <2>1. SUFFICES ASSUME NEW j \in DOMAIN table \ {v}
                 PROVE  numBitsDiffering(table[v], table[j]) > 2 * 3
    OBVIOUS
  <2>2. table[v] = VERSIONS[v].infoBits /\ table[j] = VERSIONS[j].infoBits
    BY <1>1
  <2>3. j \in 1..40 /\ v # j
    <3>. HIDE DEF table
    <3>. QED
      BY <1>1
  <2>4. numBitsDiffering(VERSIONS[v].infoBits, VERSIONS[j].infoBits) >= 8
    BY <2>3, VersionsAreApart
  <2>. HIDE DEF table
  <2>. QED
    BY <2>2, <2>4, DifferenceIsNat
<1>. DEFINE exact == {e \in 7..40 : VERSIONS[e].infoBits \in words}
<1>5. readVersion(m) = IF exact # {} THEN Min(exact)
                       ELSE IF Nearest(table, words).difference <= 3
                         THEN Nearest(table, words).at ELSE 0
  BY DEF readVersion
<1>7. exact \subseteq {v}
  <2>1. SUFFICES ASSUME NEW e \in 7..40, VERSIONS[e].infoBits \in words, e # v
                 PROVE  FALSE
    OBVIOUS
  <2>2. numBitsDiffering(VERSIONS[e].infoBits, VERSIONS[v].infoBits) <= 3
    BY <2>1
  <2>3. numBitsDiffering(VERSIONS[e].infoBits, VERSIONS[v].infoBits) >= 8
    <3>1. v \in 1..40
      OBVIOUS
    <3>. HIDE DEF table, words, exact
    <3>. QED
      BY <2>1, <3>1, VersionsAreApart
  <2>. QED
    BY <2>2, <2>3, DifferenceIsNat
<1>8. exact # {} => Min(exact) = v
  <2>1. \A e \in exact : e \in Nat
    OBVIOUS
  <2>. HIDE DEF exact
  <2>. QED
    BY <1>7, <2>1, MinIsLeast
<1>. HIDE DEF table, words, exact
<1>6. Nearest(table, words).at = v /\ Nearest(table, words).difference <= 3
  BY <1>1, <1>2, <1>3, <1>4, NearestRepairs
<1>. QED
  BY <1>5, <1>6, <1>8

\* A version is one of the forty, or none.
LEMMA VersionIsKnown ==
    ASSUME NEW m, Len(m) \in Nat
    PROVE  readVersion(m) \in 0..40
<1>. DEFINE table == [i \in DOMAIN VERSIONS |-> VERSIONS[i].infoBits]
            nearest == Nearest(table, VersionWords(m))
            exact == {v \in 7..40 : VERSIONS[v].infoBits \in VersionWords(m)}
<1>1. DOMAIN table = 1..40 /\ VersionWords(m) # {}
  BY FortyVersions DEF VersionWords
<1>2. nearest.at \in DOMAIN table
  <2>. HIDE DEF table
  <2>1. DOMAIN table \in SUBSET Nat /\ DOMAIN table # {}
    BY <1>1
  <2>. QED
    BY <1>1, <2>1, NearestIsLeast
<1>3. readVersion(m) = IF Len(m) < 21 THEN 0
                       ELSE IF Len(m) < 45 THEN (Len(m) - 17) \div 4
                       ELSE IF exact # {} THEN Min(exact)
                       ELSE IF nearest.difference <= 3 THEN nearest.at ELSE 0
  BY DEF readVersion
<1>7. exact # {} => Min(exact) \in 7..40
  <2>1. \A e \in exact : e \in 7..40 /\ e \in Nat
    OBVIOUS
  <2>. HIDE DEF exact
  <2>. QED
    BY <2>1, MinIsLeast
<1>. HIDE DEF table, nearest, exact
<1>4. nearest.at \in 1..40
  BY <1>1, <1>2
<1>. DEFINE d == Len(m)
<1>5. d \in Nat
  OBVIOUS
<1>. HIDE DEF d
<1>6. 21 <= d /\ d < 45 => (d - 17) \div 4 \in 0..40
  BY <1>5
<1>. QED
  BY <1>3, <1>4, <1>5, <1>6, <1>7 DEF d

-----------------------------------------------------------------------------
(* A symbol turned over.                                                   *)

Matrices == Seq(Seq({0, 1}))

\* A sequence built from a function on its positions.
LEMMA Built ==
    ASSUME NEW S, NEW n \in Nat, NEW f \in [1..n -> S]
    PROVE  /\ SubSeq(f, 1, n) \in Seq(S) /\ Len(SubSeq(f, 1, n)) = n
           /\ \A i \in 1..n : SubSeq(f, 1, n)[i] = f[i]
<1>1. f \in Seq(S) /\ Len(f) = n
  OBVIOUS
<1>. QED
  BY <1>1, SubSeqProperties

LEMMA MirrorIs ==
    ASSUME NEW m, Symbol(m)
    PROVE  /\ Symbol(Mirror(m)) /\ Len(Mirror(m)) = Len(m) /\ Len(m) \in Nat
           /\ \A x, y \in 1..Len(m) : Mirror(m)[x][y] = m[y][x]
<1>. DEFINE n == Len(m)
            column(x) == SubSeq([y \in DOMAIN m |-> m[y][x]], 1, n)
            columns == [x \in DOMAIN m |-> column(x)]
<1>1. /\ n \in Nat /\ n % 2 = 1 /\ DOMAIN m = 1..n
      /\ \A y \in 1..n : m[y] \in Seq({0, 1}) /\ Len(m[y]) = n
  BY DEF Symbol
<1>2. \A x \in 1..n : /\ column(x) \in Seq({0, 1}) /\ Len(column(x)) = n
                      /\ \A y \in 1..n : column(x)[y] = m[y][x]
  <2>1. SUFFICES ASSUME NEW x \in 1..n
                 PROVE  /\ column(x) \in Seq({0, 1}) /\ Len(column(x)) = n
                        /\ \A y \in 1..n : column(x)[y] = m[y][x]
    OBVIOUS
  <2>. DEFINE f == [y \in DOMAIN m |-> m[y][x]]
  <2>2. f \in [1..n -> {0, 1}] /\ \A y \in 1..n : f[y] = m[y][x]
    <3>1. \A y \in 1..n : m[y][x] \in {0, 1}
      <4>. HIDE DEF n
      <4>. QED
        BY <1>1, <2>1
    <3>. HIDE DEF n
    <3>. QED
      BY <1>1, <3>1
  <2>. HIDE DEF f, n
  <2>3. /\ SubSeq(f, 1, n) \in Seq({0, 1}) /\ Len(SubSeq(f, 1, n)) = n
        /\ \A i \in 1..n : SubSeq(f, 1, n)[i] = f[i]
    BY <1>1, <2>2, Built
  <2>. QED
    BY <2>2, <2>3 DEF f, n
<1>. HIDE DEF column
<1>3. columns \in [1..n -> Seq({0, 1})] /\ \A x \in 1..n : columns[x] = column(x)
  <2>. HIDE DEF n
  <2>. QED
    BY <1>1, <1>2
<1>. HIDE DEF columns
<1>4. /\ SubSeq(columns, 1, n) \in Seq(Seq({0, 1})) /\ Len(SubSeq(columns, 1, n)) = n
      /\ \A i \in 1..n : SubSeq(columns, 1, n)[i] = columns[i]
  <2>. HIDE DEF n
  <2>. QED
    BY <1>1, <1>3, Built
<1>5. Mirror(m) = SubSeq(columns, 1, n)
  BY DEF Mirror, columns, column
<1>. HIDE DEF n
<1>6. /\ Mirror(m) \in Seq(Seq({0, 1})) /\ Len(Mirror(m)) = n
      /\ \A x \in 1..n : Mirror(m)[x] = column(x)
  BY <1>3, <1>4, <1>5
<1>7. Symbol(Mirror(m))
  BY <1>1, <1>2, <1>6 DEF Symbol
<1>. QED
  BY <1>1, <1>2, <1>6, <1>7 DEF n

-----------------------------------------------------------------------------
(* Rows of n.                                                              *)

LEMMA DivMod ==
    ASSUME NEW a \in Nat, NEW n \in Nat \ {0}
    PROVE  a = n * (a \div n) + (a % n) /\ (a % n) \in 0..(n - 1) /\ a \div n \in Nat
  OBVIOUS

LEMMA RowsAreApart ==
    ASSUME NEW n \in Nat \ {0}, NEW p \in Int, NEW q \in Int, NEW a \in 1..n, NEW b \in 1..n,
           n * p + a = n * q + b
    PROVE  p = q /\ a = b
<1>1. n * (p - q) = b - a /\ b - a < n /\ b - a > -n
  OBVIOUS
<1>2. CASE p - q >= 1
  <2>1. n * (p - q) >= n
    BY <1>2
  <2>. QED
    BY <1>1, <2>1
<1>3. CASE p - q <= -1
  <2>1. n * (p - q) <= -n
    BY <1>3
  <2>. QED
    BY <1>1, <2>1
<1>. QED
  BY <1>2, <1>3

LEMMA RowsFit ==
    ASSUME NEW n \in Nat \ {0}, NEW k \in Nat, NEW p \in 0..(k - 1), NEW a \in 1..n
    PROVE  n * p + a \in 1..(n * k)
<1>1. n * p >= 0
  OBVIOUS
<1>2. n * (k - 1 - p) >= 0 /\ n * (k - 1 - p) = n * k - n - n * p
  OBVIOUS
<1>. QED
  BY <1>1, <1>2

LEMMA RowsCover ==
    ASSUME NEW n \in Nat \ {0}, NEW k \in Nat, NEW w \in 1..(n * k)
    PROVE  \E p \in 0..(k - 1) : \E a \in 1..n : w = n * p + a
<1>. DEFINE p == (w - 1) \div n
            a == ((w - 1) % n) + 1
<1>1. w - 1 = n * p + (a - 1) /\ a \in 1..n /\ p \in Nat
  BY DivMod
<1>. HIDE DEF p, a
<1>2. p <= k - 1
  <2>1. SUFFICES ASSUME p >= k PROVE FALSE
    BY <1>1
  <2>2. n * (p - k) >= 0 /\ n * (p - k) = n * p - n * k
    BY <1>1, <2>1
  <2>. QED
    BY <1>1, <2>2
<1>3. w = n * p + a
  <2>. DEFINE x == n * p
  <2>1. x \in Int
    BY <1>1
  <2>2. w - 1 = x + (a - 1) /\ a \in Int
    BY <1>1
  <2>. HIDE DEF x
  <2>3. w = x + a
    BY <2>1, <2>2
  <2>. QED
    BY <2>3 DEF x
<1>4. p \in 0..(k - 1)
  BY <1>1, <1>2
<1>5. a \in 1..n
  BY <1>1
<1>. QED
  BY <1>3, <1>4, <1>5, Zenon
-----------------------------------------------------------------------------
(* De-interleaving.                                                        *)

\* The bytes of a block.
Bytes(data, ec, b) == 1..(data[b] + ec)

\* How many codewords there are.
Total(data, ec, short, long) == Len(data) * (short + ec) + long

LEMMA PlaceIs ==
    ASSUME NEW data, NEW short, NEW long, TwoSizes(data, short, long)
    PROVE  /\ Len(data) \in Nat \ {0}
           /\ \A b \in 1..Len(data), i \in Nat :
                  PlaceOf(data, b, i) =
                      IF i <= short THEN Len(data) * (i - 1) + b
                      ELSE IF i <= data[b] THEN Len(data) * short + b - (Len(data) - long)
                      ELSE Len(data) * (short + i - data[b] - 1) + long + b
<1>. DEFINE n == Len(data)
<1>1. /\ n \in Nat \ {0} /\ long \in 0..(n - 1) /\ short \in Nat
      /\ \A b \in 1..n : data[b] = IF b <= n - long THEN short ELSE short + 1
  BY DEF TwoSizes
<1>. HIDE DEF n
<1>2. data[1] = short
  BY <1>1
<1>3. {c \in 1..n : data[c] > short} = (n - long + 1)..n
  BY <1>1
<1>4. Cardinality((n - long + 1)..n) = long
  <2>1. n - long + 1 \in Int /\ n \in Int
    BY <1>1
  <2>2. Cardinality((n - long + 1)..n) =
            IF n - long + 1 > n THEN 0 ELSE n - (n - long + 1) + 1
    BY <2>1, FS_Interval
  <2>. QED
    BY <1>1, <2>2
<1>. QED
  BY <1>1, <1>2, <1>3, <1>4 DEF PlaceOf, n

\* For any number of blocks of two such sizes.
LEMMA PlacesAreApart ==
    ASSUME NEW data, NEW short, NEW long, TwoSizes(data, short, long), NEW ec \in Nat
    PROVE  /\ \A b \in 1..Len(data) : \A i \in Bytes(data, ec, b) :
                  PlaceOf(data, b, i) \in 1..Total(data, ec, short, long)
           /\ \A b, c \in 1..Len(data) :
                  \A i \in Bytes(data, ec, b), j \in Bytes(data, ec, c) :
                      PlaceOf(data, b, i) = PlaceOf(data, c, j) => b = c /\ i = j
           /\ \A w \in 1..Total(data, ec, short, long) :
                  \E b \in 1..Len(data) : \E i \in Bytes(data, ec, b) :
                      PlaceOf(data, b, i) = w
<1>. DEFINE n == Len(data)
            area1(b, i) == i <= short
            area2(b, i) == i > short /\ i <= data[b]
            area3(b, i) == i > data[b]
<1>1. /\ n \in Nat \ {0} /\ long \in 0..(n - 1) /\ short \in Nat
      /\ \A b \in 1..n : data[b] = IF b <= n - long THEN short ELSE short + 1
  BY DEF TwoSizes
<1>2. \A b \in 1..n, i \in Nat :
          PlaceOf(data, b, i) =
              IF i <= short THEN n * (i - 1) + b
              ELSE IF i <= data[b] THEN n * short + b - (n - long)
              ELSE n * (short + i - data[b] - 1) + long + b
  BY PlaceIs
<1>. HIDE DEF n
\* Where the bytes of each part of the symbol go.
<1>3. ASSUME NEW b \in 1..n, NEW i \in Bytes(data, ec, b), area1(b, i)
      PROVE  /\ PlaceOf(data, b, i) = n * (i - 1) + b /\ i - 1 \in 0..(short - 1)
             /\ PlaceOf(data, b, i) \in 1..(n * short)
  <2>1. i \in Nat /\ i - 1 \in 0..(short - 1)
    BY <1>1, <1>3 DEF Bytes
  <2>2. PlaceOf(data, b, i) = n * (i - 1) + b
    BY <1>2, <1>3, <2>1
  <2>. QED
    BY <1>1, <2>1, <2>2, RowsFit
<1>4. ASSUME NEW b \in 1..n, NEW i \in Bytes(data, ec, b), area2(b, i)
      PROVE  /\ PlaceOf(data, b, i) = n * short + b - (n - long)
             /\ i = short + 1 /\ b > n - long
             /\ PlaceOf(data, b, i) \in (n * short + 1)..(n * short + long)
  <2>1. i \in Nat /\ i = short + 1 /\ b > n - long
    BY <1>1, <1>4 DEF Bytes
  <2>2. PlaceOf(data, b, i) = n * short + b - (n - long)
    BY <1>1, <1>2, <1>4, <2>1
  <2>3. n * short \in Nat
    BY <1>1
  <2>. QED
    BY <1>1, <2>1, <2>2, <2>3
<1>5. ASSUME NEW b \in 1..n, NEW i \in Bytes(data, ec, b), area3(b, i)
      PROVE  /\ PlaceOf(data, b, i) = n * (short + i - data[b] - 1) + b + long
             /\ i - data[b] - 1 \in 0..(ec - 1)
             /\ PlaceOf(data, b, i) \in (n * short + long + 1)..(n * (short + ec) + long)
  <2>. DEFINE e == i - data[b] - 1
  <2>1. i \in Nat /\ data[b] \in Nat /\ i > short /\ e \in 0..(ec - 1)
    BY <1>1, <1>5 DEF Bytes
  <2>2. PlaceOf(data, b, i) = n * (short + i - data[b] - 1) + long + b
    BY <1>1, <1>2, <1>5, <2>1
  <2>3. short + i - data[b] - 1 = short + e
    BY <1>1, <2>1
  <2>. HIDE DEF e
  <2>4. PlaceOf(data, b, i) = n * (short + e) + b + long
    BY <1>1, <2>1, <2>2, <2>3
  <2>5. n * (short + e) = n * short + n * e /\ n * (short + ec) = n * short + n * ec
    BY <1>1, <2>1
  <2>6. n * e + b \in 1..(n * ec)
    BY <1>1, <2>1, RowsFit
  <2>7. n * short \in Nat /\ n * e \in Nat /\ n * ec \in Nat
    BY <1>1, <2>1
  <2>8. PlaceOf(data, b, i) \in (n * short + long + 1)..(n * (short + ec) + long)
    BY <1>1, <2>4, <2>5, <2>6, <2>7
  <2>. QED
    BY <2>1, <2>3, <2>4, <2>8 DEF e
<1>6. /\ n * short \in Nat /\ n * (short + ec) \in Nat
      /\ Total(data, ec, short, long) = n * (short + ec) + long
      /\ n * (short + ec) >= n * short
  <2>1. n * (short + ec) = n * short + n * ec
    BY <1>1
  <2>. QED
    BY <1>1, <2>1 DEF Total, n
<1>7. \A b \in 1..n : \A i \in Bytes(data, ec, b) :
          i \in Nat /\ data[b] \in Nat /\ (area1(b, i) \/ area2(b, i) \/ area3(b, i))
  BY <1>1 DEF Bytes
<1>8. \A b \in 1..n : \A i \in Bytes(data, ec, b) :
          PlaceOf(data, b, i) \in 1..Total(data, ec, short, long)
  <2>. HIDE DEF area1, area2, area3
  <2>1. SUFFICES ASSUME NEW b \in 1..n, NEW i \in Bytes(data, ec, b)
                 PROVE  PlaceOf(data, b, i) \in 1..Total(data, ec, short, long)
    OBVIOUS
  <2>2. CASE area1(b, i)
    BY <1>1, <1>3, <1>6, <2>2
  <2>3. CASE area2(b, i)
    BY <1>1, <1>4, <1>6, <2>3
  <2>4. CASE area3(b, i)
    BY <1>1, <1>5, <1>6, <2>4
  <2>. QED
    BY <1>7, <2>2, <2>3, <2>4
<1>9. \A b, c \in 1..n :
          \A i \in Bytes(data, ec, b), j \in Bytes(data, ec, c) :
              PlaceOf(data, b, i) = PlaceOf(data, c, j) => b = c /\ i = j
  <2>1. SUFFICES ASSUME NEW b \in 1..n, NEW c \in 1..n,
                        NEW i \in Bytes(data, ec, b), NEW j \in Bytes(data, ec, c),
                        PlaceOf(data, b, i) = PlaceOf(data, c, j)
                 PROVE  b = c /\ i = j
    OBVIOUS
  <2>2. CASE area1(b, i) /\ area1(c, j)
    <3>1. n * (i - 1) + b = n * (j - 1) + c /\ i - 1 \in Int /\ j - 1 \in Int
      BY <1>3, <2>1, <2>2
    <3>2. b = c /\ i - 1 = j - 1
      BY <1>1, <3>1, RowsAreApart
    <3>. QED
      BY <1>7, <3>2
  <2>3. CASE area2(b, i) /\ area2(c, j)
    <3>1. n * short + b - (n - long) = n * short + c - (n - long) /\ i = j
      BY <1>4, <2>1, <2>3
    <3>. QED
      BY <1>1, <1>6, <3>1
  <2>4. CASE area3(b, i) /\ area3(c, j)
    <3>. DEFINE p == short + i - data[b] - 1
                q == short + j - data[c] - 1
    <3>1. p \in Int /\ q \in Int
      BY <1>1, <1>7
    <3>2. n * p + b + long = n * q + c + long
      BY <1>5, <2>1, <2>4
    <3>3. n * p \in Int /\ n * q \in Int
      <4>. HIDE DEF p, q
      <4>. QED
        BY <1>1, <3>1
    <3>4. n * p + b = n * q + c
      <4>. HIDE DEF p, q
      <4>. QED
        BY <1>1, <3>2, <3>3
    <3>5. p = q /\ b = c
      <4>. HIDE DEF p, q
      <4>. QED
        BY <1>1, <3>1, <3>4, RowsAreApart
    <3>. QED
      BY <1>1, <1>7, <3>5
  <2>. DEFINE x == PlaceOf(data, b, i) y == PlaceOf(data, c, j) r == n * short s == n * (short + ec)
  <2>5. /\ area1(b, i) => x \in 1..r
        /\ area2(b, i) => x \in (r + 1)..(r + long)
        /\ area3(b, i) => x \in (r + long + 1)..(s + long)
        /\ area1(c, j) => y \in 1..r
        /\ area2(c, j) => y \in (r + 1)..(r + long)
        /\ area3(c, j) => y \in (r + long + 1)..(s + long)
    <3>. HIDE DEF area1, area2, area3
    <3>. QED
      BY <1>3, <1>4, <1>5
  <2>6. x = y /\ r \in Nat /\ s \in Nat /\ long \in Nat
    BY <1>1, <1>6, <2>1
  <2>. HIDE DEF x, y, r, s, area1, area2, area3
  <2>7. /\ area1(b, i) => ~area2(c, j) /\ ~area3(c, j)
        /\ area2(b, i) => ~area1(c, j) /\ ~area3(c, j)
        /\ area3(b, i) => ~area1(c, j) /\ ~area2(c, j)
    BY <2>5, <2>6
  <2>. QED
    BY <1>7, <2>2, <2>3, <2>4, <2>7
<1>10. ASSUME NEW w \in 1..Total(data, ec, short, long)
       PROVE  \E b \in 1..n : \E i \in Bytes(data, ec, b) : PlaceOf(data, b, i) = w
  <2>1. CASE w <= n * short
    <3>1. w \in 1..(n * short)
      BY <1>6, <2>1
    <3>2. PICK p \in 0..(short - 1) : \E b \in 1..n : w = n * p + b
      BY <1>1, <3>1, RowsCover
    <3>3. PICK b \in 1..n : w = n * p + b
      BY <3>2
    <3>4. p + 1 \in Bytes(data, ec, b) /\ p + 1 <= short /\ (p + 1) - 1 = p
      BY <1>1 DEF Bytes
    <3>. QED
      BY <1>3, <3>3, <3>4
  <2>2. CASE w > n * short /\ w <= n * short + long
    <3>. DEFINE b == w - n * short + (n - long)
    <3>1. b \in 1..n /\ b > n - long
      BY <1>1, <1>6, <2>2
    <3>2. w = n * short + b - (n - long)
      BY <1>1, <1>6
    <3>. HIDE DEF b
    <3>3. data[b] = short + 1 /\ short + 1 \in Bytes(data, ec, b)
      BY <1>1, <3>1 DEF Bytes
    <3>. QED
      BY <1>1, <1>4, <3>1, <3>2, <3>3
  <2>3. CASE w > n * short + long
    <3>. DEFINE v == w - n * short - long
    <3>1. n * (short + ec) = n * short + n * ec /\ n * ec \in Nat
      BY <1>1
    <3>2. v \in 1..(n * ec)
      BY <1>1, <1>6, <2>3, <3>1
    <3>3. w = n * short + long + v
      BY <1>1, <1>6
    <3>. HIDE DEF v
    <3>4. PICK e \in 0..(ec - 1) : \E b \in 1..n : v = n * e + b
      BY <1>1, <3>2, RowsCover
    <3>5. PICK b \in 1..n : v = n * e + b
      BY <3>4
    <3>. DEFINE i == data[b] + e + 1
    <3>6. i \in Bytes(data, ec, b) /\ i > data[b] /\ short + i - data[b] - 1 = short + e
      BY <1>1 DEF Bytes
    <3>. HIDE DEF i
    <3>7. PlaceOf(data, b, i) = n * (short + e) + b + long
      BY <1>5, <3>6
    <3>8. n * (short + e) = n * short + n * e /\ n * e \in Nat
      BY <1>1
    <3>. QED
      BY <1>1, <1>6, <3>3, <3>5, <3>6, <3>7, <3>8
  <2>. QED
    BY <1>1, <1>6, <2>1, <2>2, <2>3
<1>. QED
  BY <1>8, <1>9, <1>10 DEF n
\* getDataBlocks, of every version and level of the table: each codeword the
\* symbol has is one byte of one block, and each byte of a block is one of them.
THEOREM EveryCodewordOnce ==
    ASSUME NEW v \in 1..40, NEW level \in 0..3
    PROVE  LET ecInfo == VERSIONS[v].errorCorrectionLevels[level]
               data == dataBlocks(ecInfo)
               ec == ecInfo.ecCodewordsPerBlock
               codewords == 1..totalCodewords(ecInfo)
           IN  /\ \A b \in 1..Len(data) : \A i \in Bytes(data, ec, b) :
                      PlaceOf(data, b, i) \in codewords
               /\ \A b, c \in 1..Len(data) :
                      \A i \in Bytes(data, ec, b), j \in Bytes(data, ec, c) :
                          PlaceOf(data, b, i) = PlaceOf(data, c, j) => b = c /\ i = j
               /\ \A w \in codewords :
                      \E b \in 1..Len(data) : \E i \in Bytes(data, ec, b) :
                          PlaceOf(data, b, i) = w
<1>. DEFINE ecInfo == VERSIONS[v].errorCorrectionLevels[level]
            data == dataBlocks(ecInfo)
            ec == ecInfo.ecCodewordsPerBlock
            total == totalCodewords(ecInfo)
<1>1. /\ ec \in Nat
      /\ \E short \in {data[1]}, long \in 0..(Len(data) - 1) :
             /\ TwoSizes(data, short, long)
             /\ total = Len(data) * (short + ec) + long
  BY BlocksAssumption
<1>. HIDE DEF ecInfo, data, ec, total
<1>2. PICK short \in {data[1]}, long \in 0..(Len(data) - 1) :
             /\ TwoSizes(data, short, long)
             /\ total = Total(data, ec, short, long)
  BY <1>1 DEF Total
<1>3. /\ \A b \in 1..Len(data) : \A i \in Bytes(data, ec, b) :
             PlaceOf(data, b, i) \in 1..total
      /\ \A b, c \in 1..Len(data) :
             \A i \in Bytes(data, ec, b), j \in Bytes(data, ec, c) :
                 PlaceOf(data, b, i) = PlaceOf(data, c, j) => b = c /\ i = j
      /\ \A w \in 1..total :
             \E b \in 1..Len(data) : \E i \in Bytes(data, ec, b) :
                 PlaceOf(data, b, i) = w
  BY <1>1, <1>2, PlacesAreApart
<1>. QED
  BY <1>3, Zenon DEF ecInfo, data, ec, total

-----------------------------------------------------------------------------
(* The order of the modules.                                               *)

\* Of a symbol of 2 * e + 1 modules: the module that is `off' to the left of
\* the right column of a pair of columns, in a row of that pair.
Cell(e, pair, row, off) ==
    LET right == 2 * e - 2 * pair
        column == IF right <= 6 THEN right - 1 ELSE right
    IN  <<column - off, IF pair % 2 = 0 THEN 2 * e - row ELSE row>>

\* The modules beside the timing column.
Modules(e) == ((0..(2 * e)) \ {6}) \X (0..(2 * e))

\* When that module is read.
Turn(e, pair, row, off) == (2 * (2 * e + 1)) * pair + (2 * row + off + 1)

LEMMA TurnIs ==
    ASSUME NEW e \in Nat, NEW pair \in 0..(e - 1), NEW row \in 0..(2 * e), NEW off \in 0..1
    PROVE  /\ Turn(e, pair, row, off) \in 1..((2 * e + 1) * (2 * e + 1 - 1))
           /\ ModuleOrder(2 * e + 1)[Turn(e, pair, row, off)] = Cell(e, pair, row, off)
<1>. DEFINE d == 2 * e + 1
            n == 2 * d
            k == n * pair + (2 * row + off + 1)
<1>1. d \in Nat \ {0} /\ n \in Nat \ {0} /\ n = 2 * d /\ d - 1 = 2 * e
  OBVIOUS
<1>2. n * e = d * (d - 1)
  BY <1>1
<1>3. 2 * row + off + 1 \in 1..n
  OBVIOUS
<1>4. k \in 1..(d * (d - 1)) /\ k \in Int
  <2>. HIDE DEF d, n
  <2>1. n * pair + (2 * row + off + 1) \in 1..(n * e)
    BY <1>1, <1>3, RowsFit
  <2>. QED
    BY <1>2, <2>1
<1>5. (k - 1) \div n = pair /\ (k - 1) % n = 2 * row + off
  <2>. HIDE DEF d, n
  <2>1. k - 1 \in Nat
    BY <1>4
  <2>. DEFINE p == (k - 1) \div n
              a == (k - 1) % n
  <2>2. k - 1 = n * p + a /\ a \in 0..(n - 1) /\ p \in Nat
    BY <1>1, <2>1, DivMod
  <2>. HIDE DEF p, a
  <2>3. n * p + (a + 1) = n * pair + (2 * row + off + 1)
    <3>. DEFINE x == n * p y == n * pair
    <3>1. x \in Int /\ y \in Int
      BY <1>1, <2>2
    <3>2. k - 1 = x + a /\ k = y + (2 * row + off + 1) /\ a \in Int
      BY <2>2
    <3>. HIDE DEF x, y, k
    <3>3. x + (a + 1) = y + (2 * row + off + 1)
      BY <1>4, <3>1, <3>2
    <3>. QED
      BY <3>3 DEF x, y
  <2>4. a + 1 \in 1..n /\ p \in Int /\ pair \in Int
    BY <1>1, <2>2
  <2>5. p = pair /\ a + 1 = 2 * row + off + 1
    BY <1>1, <1>3, <2>3, <2>4, RowsAreApart
  <2>6. p = pair /\ a = 2 * row + off
    BY <2>2, <2>5
  <2>. QED
    BY <2>6 DEF p, a
<1>6. (2 * row + off) \div 2 = row /\ (2 * row + off) % 2 = off
  OBVIOUS
<1>7. (k - 1) % 2 = off
  <2>. DEFINE x == d * pair + row
  <2>1. x \in Int
    BY <1>1
  <2>2. n * pair = 2 * (d * pair)
    OBVIOUS
  <2>3. k - 1 = 2 * x + off
    <3>. DEFINE y == d * pair
    <3>1. y \in Int
      BY <1>1
    <3>2. k = 2 * y + (2 * row + off + 1) /\ x = y + row
      BY <2>2
    <3>. HIDE DEF y, k, x
    <3>. QED
      BY <3>1, <3>2
  <2>. HIDE DEF x, k
  <2>. QED
    BY <2>1, <2>3
<1>8. ModuleOrder(d)[k] =
          LET pair1 == (k - 1) \div n
              row1 == ((k - 1) % n) \div 2
              right1 == d - 1 - 2 * pair1
              column1 == IF right1 <= 6 THEN right1 - 1 ELSE right1
          IN  <<column1 - ((k - 1) % 2), IF pair1 % 2 = 0 THEN d - 1 - row1 ELSE row1>>
  <2>. HIDE DEF d, k
  <2>. QED
    BY <1>4 DEF ModuleOrder
<1>9. d - 1 - 2 * pair = 2 * e - 2 * pair /\ d - 1 - row = 2 * e - row
  OBVIOUS
<1>10. ModuleOrder(d)[k] = Cell(e, pair, row, off)
  <2>. HIDE DEF d, k, n
  <2>. QED
    BY <1>1, <1>5, <1>6, <1>7, <1>8, <1>9 DEF Cell
<1>. QED
  BY <1>4, <1>10 DEF Turn

LEMMA EveryTurn ==
    ASSUME NEW e \in Nat, NEW k \in 1..((2 * e + 1) * (2 * e + 1 - 1))
    PROVE  \E pair \in 0..(e - 1) : \E row \in 0..(2 * e) : \E off \in 0..1 :
               k = Turn(e, pair, row, off)
<1>. DEFINE n == 2 * (2 * e + 1)
<1>1. n \in Nat \ {0} /\ n * e = (2 * e + 1) * (2 * e + 1 - 1) /\ n = 4 * e + 2
  OBVIOUS
<1>. HIDE DEF n
<1>2. PICK pair \in 0..(e - 1) : \E a \in 1..n : k = n * pair + a
  <2>1. k \in 1..(n * e)
    BY <1>1, Zenon
  <2>. QED
    BY <1>1, <2>1, RowsCover
<1>3. PICK a \in 1..n : k = n * pair + a
  BY <1>2
<1>. DEFINE row == (a - 1) \div 2
            off == (a - 1) % 2
<1>4. row \in 0..(2 * e) /\ off \in 0..1 /\ a = 2 * row + off + 1
  BY <1>1
<1>. HIDE DEF row, off
<1>5. k = Turn(e, pair, row, off)
  BY <1>3, <1>4 DEF Turn, n
<1>. QED
  BY <1>4, <1>5

LEMMA CellIsModule ==
    ASSUME NEW e \in Nat, NEW pair \in 0..(e - 1), NEW row \in 0..(2 * e), NEW off \in 0..1
    PROVE  Cell(e, pair, row, off) \in Modules(e)
<1>. DEFINE right == 2 * e - 2 * pair
            column == IF right <= 6 THEN right - 1 ELSE right
            y == IF pair % 2 = 0 THEN 2 * e - row ELSE row
<1>1. column - off \in (0..(2 * e)) \ {6}
  OBVIOUS
<1>2. y \in 0..(2 * e)
  OBVIOUS
<1>. QED
  BY <1>1, <1>2 DEF Cell, Modules

LEMMA CellsAreApart ==
    ASSUME NEW e \in Nat,
           NEW pair \in 0..(e - 1), NEW row \in 0..(2 * e), NEW off \in 0..1,
           NEW pair2 \in 0..(e - 1), NEW row2 \in 0..(2 * e), NEW off2 \in 0..1,
           Cell(e, pair, row, off) = Cell(e, pair2, row2, off2)
    PROVE  pair = pair2 /\ row = row2 /\ off = off2
<1>1. /\ (IF 2 * e - 2 * pair <= 6 THEN 2 * e - 2 * pair - 1 ELSE 2 * e - 2 * pair) - off
         = (IF 2 * e - 2 * pair2 <= 6 THEN 2 * e - 2 * pair2 - 1 ELSE 2 * e - 2 * pair2) - off2
      /\ (IF pair % 2 = 0 THEN 2 * e - row ELSE row)
         = (IF pair2 % 2 = 0 THEN 2 * e - row2 ELSE row2)
  BY DEF Cell
<1>2. pair = pair2 /\ off = off2
  BY <1>1
<1>. QED
  BY <1>1, <1>2

LEMMA ModuleIsCell ==
    ASSUME NEW e \in Nat, e >= 3, NEW c \in Modules(e)
    PROVE  \E pair \in 0..(e - 1) : \E row \in 0..(2 * e) : \E off \in 0..1 :
               c = Cell(e, pair, row, off)
<1>1. PICK x \in (0..(2 * e)) \ {6}, y \in 0..(2 * e) : c = <<x, y>>
  BY DEF Modules
<1>2. \E pair \in 0..(e - 1) : \E off \in 0..1 :
          x = (IF 2 * e - 2 * pair <= 6 THEN 2 * e - 2 * pair - 1 ELSE 2 * e - 2 * pair) - off
  <2>. DEFINE h == x \div 2
  <2>1. h \in Nat /\ (x = 2 * h \/ x = 2 * h + 1)
    OBVIOUS
  <2>. HIDE DEF h
  <2>2. CASE x > 6 /\ x = 2 * h
    <3>1. e - h \in 0..(e - 1) /\ 0 \in 0..1
      BY <2>1, <2>2
    <3>2. 2 * e - 2 * (e - h) = x
      BY <2>1, <2>2
    <3>. QED
      BY <2>2, <3>1, <3>2
  <2>3. CASE x > 6 /\ x = 2 * h + 1
    <3>1. e - h - 1 \in 0..(e - 1) /\ 1 \in 0..1
      BY <2>1, <2>3
    <3>2. 2 * e - 2 * (e - h - 1) = x + 1
      BY <2>1, <2>3
    <3>. QED
      BY <2>3, <3>1, <3>2
  <2>4. CASE x < 6 /\ x = 2 * h
    <3>1. e - h - 1 \in 0..(e - 1) /\ 1 \in 0..1
      BY <2>1, <2>4
    <3>2. 2 * e - 2 * (e - h - 1) = x + 2 /\ x + 2 <= 6
      BY <2>1, <2>4
    <3>. QED
      BY <2>4, <3>1, <3>2
  <2>5. CASE x < 6 /\ x = 2 * h + 1
    <3>1. e - h - 1 \in 0..(e - 1) /\ 0 \in 0..1
      BY <2>1, <2>5
    <3>2. 2 * e - 2 * (e - h - 1) = x + 1 /\ x + 1 <= 6
      BY <2>1, <2>5
    <3>. QED
      BY <2>5, <3>1, <3>2
  <2>. QED
    BY <2>1, <2>2, <2>3, <2>4, <2>5
<1>3. PICK pair \in 0..(e - 1), off \in 0..1 :
          x = (IF 2 * e - 2 * pair <= 6 THEN 2 * e - 2 * pair - 1 ELSE 2 * e - 2 * pair) - off
  BY <1>2
<1>. DEFINE row == IF pair % 2 = 0 THEN 2 * e - y ELSE y
<1>4. row \in 0..(2 * e) /\ y = (IF pair % 2 = 0 THEN 2 * e - row ELSE row)
  OBVIOUS
<1>. HIDE DEF row
<1>5. c = Cell(e, pair, row, off)
  BY <1>1, <1>3, <1>4 DEF Cell
<1>. QED
  BY <1>4, <1>5

\* Of a symbol of any size that is read: every module beside the timing column
\* is read once, and no module of that column.
THEOREM EveryModuleOnce ==
    ASSUME NEW e \in Nat, e >= 3
    PROVE  LET d == 2 * e + 1
               turns == 1..(d * (d - 1))
           IN  /\ \A k \in turns : ModuleOrder(d)[k] \in Modules(e)
               /\ \A j, k \in turns : ModuleOrder(d)[j] = ModuleOrder(d)[k] => j = k
               /\ \A c \in Modules(e) : \E k \in turns : ModuleOrder(d)[k] = c
<1>. DEFINE order == ModuleOrder(2 * e + 1)
            turns == 1..((2 * e + 1) * (2 * e + 1 - 1))
<1>1. ASSUME NEW k \in turns
      PROVE  \E pair \in 0..(e - 1) : \E row \in 0..(2 * e) : \E off \in 0..1 :
                 k = Turn(e, pair, row, off) /\ order[k] = Cell(e, pair, row, off)
  <2>1. PICK pair \in 0..(e - 1) : \E row \in 0..(2 * e) : \E off \in 0..1 :
                 k = Turn(e, pair, row, off)
    BY EveryTurn
  <2>. QED
    BY <2>1, TurnIs
<1>2. ASSUME NEW k \in turns PROVE order[k] \in Modules(e)
  <2>1. PICK pair \in 0..(e - 1) : \E row \in 0..(2 * e) : \E off \in 0..1 :
                 k = Turn(e, pair, row, off) /\ order[k] = Cell(e, pair, row, off)
    BY <1>1
  <2>. QED
    BY <2>1, CellIsModule
<1>3. ASSUME NEW j \in turns, NEW k \in turns, order[j] = order[k] PROVE j = k
  <2>1. PICK pair \in 0..(e - 1) : \E row \in 0..(2 * e) : \E off \in 0..1 :
                 j = Turn(e, pair, row, off) /\ order[j] = Cell(e, pair, row, off)
    BY <1>1
  <2>2. PICK row \in 0..(2 * e) : \E off \in 0..1 :
                 j = Turn(e, pair, row, off) /\ order[j] = Cell(e, pair, row, off)
    BY <2>1
  <2>3. PICK off \in 0..1 :
                 j = Turn(e, pair, row, off) /\ order[j] = Cell(e, pair, row, off)
    BY <2>2
  <2>4. PICK pair2 \in 0..(e - 1) : \E row2 \in 0..(2 * e) : \E off2 \in 0..1 :
                 k = Turn(e, pair2, row2, off2) /\ order[k] = Cell(e, pair2, row2, off2)
    BY <1>1
  <2>5. PICK row2 \in 0..(2 * e) : \E off2 \in 0..1 :
                 k = Turn(e, pair2, row2, off2) /\ order[k] = Cell(e, pair2, row2, off2)
    BY <2>4
  <2>6. PICK off2 \in 0..1 :
                 k = Turn(e, pair2, row2, off2) /\ order[k] = Cell(e, pair2, row2, off2)
    BY <2>5
  <2>7. Cell(e, pair, row, off) = Cell(e, pair2, row2, off2)
    BY <1>3, <2>3, <2>6
  <2>8. pair = pair2 /\ row = row2 /\ off = off2
    BY <2>7, CellsAreApart
  <2>. QED
    BY <2>3, <2>6, <2>8
<1>4. ASSUME NEW c \in Modules(e) PROVE \E k \in turns : order[k] = c
  <2>1. PICK pair \in 0..(e - 1) : \E row \in 0..(2 * e) : \E off \in 0..1 :
                 c = Cell(e, pair, row, off)
    BY ModuleIsCell
  <2>2. PICK row \in 0..(2 * e) : \E off \in 0..1 : c = Cell(e, pair, row, off)
    BY <2>1
  <2>3. PICK off \in 0..1 : c = Cell(e, pair, row, off)
    BY <2>2
  <2>. QED
    BY <2>3, TurnIs
<1>. HIDE DEF order, turns
<1>5. /\ \A k \in turns : order[k] \in Modules(e)
      /\ \A j, k \in turns : order[j] = order[k] => j = k
      /\ \A c \in Modules(e) : \E k \in turns : order[k] = c
  BY <1>2, <1>3, <1>4
<1>. QED
  BY <1>5 DEF order, turns
-----------------------------------------------------------------------------
(* The promise.                                                            *)

\* The blocks of a symbol whose version and format were found.
BlocksOf(m) ==
    getDataBlocks(readCodewords(m, readVersion(m), readFormatInformation(m).dataMask),
        VERSIONS[readVersion(m)].errorCorrectionLevels[
            readFormatInformation(m).errorCorrectionLevel])

BytesOf(m) == DataOfBlocks(BlocksOf(m), CorrectedBlocks(BlocksOf(m)))

Repairable(m) ==
    \A corrected \in {CorrectedBlocks(BlocksOf(m))} :
        \A b \in DOMAIN corrected : corrected[b] # Null

\* One reading of a symbol's modules: decodeMatrix.
TextOf(m) ==
    IF /\ readVersion(m) # 0 /\ readFormatInformation(m).ok
       /\ BlocksOf(m) # Null /\ Repairable(m)
      THEN decodeData(BytesOf(m), readVersion(m))
    ELSE None

\* A symbol is read as it is, and mirrored when that fails: decode.
Decoded(m) == IF TextOf(m).ok THEN TextOf(m) ELSE TextOf(Mirror(m))

Readable(m) == Decoded(m).ok

\* jsQR: the text of the first symbol that can be read, of the picture and
\* then of its inverse; none when there is no such symbol.
Lists == picture.candidates

Earlier(h, k, i, j) == h < i \/ (h = i /\ k < j)

FirstReadable(i, j) ==
    /\ i \in DOMAIN Lists /\ j \in DOMAIN Lists[i] /\ Readable(Lists[i][j])
    /\ \A h \in DOMAIN Lists : \A k \in DOMAIN Lists[h] :
            Earlier(h, k, i, j) => ~Readable(Lists[h][k])

NoneReadable ==
    \A i \in DOMAIN Lists : \A j \in DOMAIN Lists[i] : ~Readable(Lists[i][j])

\* What is given out is the text of the first readable symbol, whatever earlier
\* readings that failed have left in the version, the format and the blocks.
ReadsTheFirst ==
    pc = "done" =>
        \/ /\ NoneReadable /\ result = None
        \/ \E i \in DOMAIN Lists : \E j \in DOMAIN Lists[i] :
              FirstReadable(i, j) /\ result = Decoded(Lists[i][j])
-----------------------------------------------------------------------------
(* Where the reading is.                                                   *)

\* The list being read, and how many of its symbols were taken from it.
Here == Len(Lists) - Len(candidates) + 1
Taken == Len(Lists[Here]) - Len(candidates[1])

\* What is left of the lists.
LeftInv ==
    /\ Lists \in Seq(Seq(Matrices)) /\ candidates \in Seq(Seq(Matrices))
    /\ Len(candidates) <= Len(Lists)
    /\ \A i \in 2..Len(candidates) : candidates[i] = Lists[Here - 1 + i]
    /\ candidates # <<>> =>
        /\ Len(candidates[1]) <= Len(Lists[Here])
        /\ \A j \in 1..Len(candidates[1]) : candidates[1][j] = Lists[Here][Taken + j]

\* No symbol up to the n-th of the present list could be read.
Unread(n) ==
    \A i \in DOMAIN Lists : \A j \in DOMAIN Lists[i] :
        (i < Here \/ (i = Here /\ j <= n)) => ~Readable(Lists[i][j])

Steps == {"version", "format", "blocks", "correct", "decode"}

Current == Lists[Here][Taken]

ReadingInv ==
    pc \in Steps =>
        /\ candidates # <<>> /\ Taken >= 1 /\ Unread(Taken - 1)
        /\ mirrored \in BOOLEAN
        /\ matrix = IF mirrored THEN Mirror(Current) ELSE Current
        /\ mirrored => ~TextOf(Current).ok

\* What was found belongs to the modules being read.
FoundInv ==
    /\ pc \in Steps \ {"version"} => version = readVersion(matrix) /\ version # 0
    /\ pc \in Steps \ {"version", "format"} =>
        format = readFormatInformation(matrix) /\ format.ok
    /\ pc \in {"correct", "decode"} => blocks = BlocksOf(matrix) /\ blocks # Null
    /\ pc = "decode" => bytes = BytesOf(matrix) /\ Repairable(matrix)

QrInv ==
    /\ pc \in Steps \cup {"scan", "done"}
    /\ LeftInv /\ ReadingInv /\ FoundInv
    /\ pc = "scan" /\ candidates # <<>> => Unread(Taken)
    /\ pc = "scan" /\ candidates = <<>> => NoneReadable
    /\ pc # "done" => result = None
    /\ ReadsTheFirst
-----------------------------------------------------------------------------
(* The steps keep the invariant.                                           *)

LEMMA InitQr == Init => QrInv
<1>. SUFFICES ASSUME Init PROVE QrInv
  OBVIOUS
<1>1. Lists = candidates /\ candidates \in Seq(Seq(Matrices)) /\ pc = "scan" /\ result = None
  BY PicturesAssumption DEF Init, Lists, Matrices
<1>2. Here = 1 /\ (candidates # <<>> => candidates[1] \in Seq(Matrices) /\ Taken = 0)
  BY <1>1 DEF Here, Taken
<1>3. LeftInv
  BY <1>1, <1>2 DEF LeftInv
<1>4. candidates # <<>> => Unread(Taken)
  BY <1>1, <1>2 DEF Unread
<1>5. candidates = <<>> => NoneReadable
  BY <1>1 DEF NoneReadable
<1>. QED
  BY <1>1, <1>3, <1>4, <1>5 DEF QrInv, ReadingInv, FoundInv, ReadsTheFirst, Steps

\* A step that leaves the lists alone.
LEMMA SameLists ==
    ASSUME UNCHANGED <<picture, candidates>>
    PROVE  /\ Lists' = Lists /\ Here' = Here /\ Taken' = Taken /\ Current' = Current
           /\ LeftInv => LeftInv'
           /\ NoneReadable' <=> NoneReadable
           /\ \A n : Unread(n)' <=> Unread(n)
           /\ \A i, j : FirstReadable(i, j)' <=> FirstReadable(i, j)
<1>1. Lists' = Lists /\ Here' = Here /\ Taken' = Taken /\ Current' = Current
  BY DEF Lists, Here, Taken, Current
<1>2. LeftInv => LeftInv'
  BY <1>1 DEF LeftInv
<1>3. NoneReadable' <=> NoneReadable
  BY <1>1 DEF NoneReadable
<1>4. \A n : Unread(n)' <=> Unread(n)
  BY <1>1 DEF Unread
<1>5. \A i, j : FirstReadable(i, j)' <=> FirstReadable(i, j)
  BY <1>1 DEF FirstReadable
<1>. QED
  BY <1>1, <1>2, <1>3, <1>4, <1>5

\* Where the reading is, in numbers.
LEMMA Whereabouts ==
    ASSUME LeftInv, candidates # <<>>
    PROVE  /\ Len(Lists) \in Nat /\ Len(candidates) \in Nat \ {0}
           /\ Here \in Nat /\ Here \in DOMAIN Lists
           /\ Lists[Here] \in Seq(Matrices) /\ candidates[1] \in Seq(Matrices)
           /\ Len(Lists[Here]) \in Nat /\ Len(candidates[1]) \in Nat
           /\ Taken \in Nat /\ Taken = Len(Lists[Here]) - Len(candidates[1])
           /\ Taken <= Len(Lists[Here])
           /\ \A j \in 1..Len(candidates[1]) : candidates[1][j] = Lists[Here][Taken + j]
<1>1. /\ Lists \in Seq(Seq(Matrices)) /\ candidates \in Seq(Seq(Matrices))
      /\ Len(candidates) <= Len(Lists) /\ Len(candidates[1]) <= Len(Lists[Here])
      /\ \A j \in 1..Len(candidates[1]) : candidates[1][j] = Lists[Here][Taken + j]
  BY DEF LeftInv
<1>2. Len(Lists) \in Nat /\ Len(candidates) \in Nat \ {0}
  BY <1>1
<1>3. Here \in Nat /\ Here \in DOMAIN Lists
  BY <1>1, <1>2 DEF Here
<1>4. Lists[Here] \in Seq(Matrices) /\ candidates[1] \in Seq(Matrices)
  BY <1>1, <1>2, <1>3
<1>5. Len(Lists[Here]) \in Nat /\ Len(candidates[1]) \in Nat
  BY <1>4
<1>6. Taken = Len(Lists[Here]) - Len(candidates[1])
  BY DEF Taken
<1>7. Taken \in Nat /\ Taken <= Len(Lists[Here])
  <2>. DEFINE a == Len(Lists[Here]) b == Len(candidates[1])
  <2>1. a \in Nat /\ b \in Nat /\ b <= a /\ Taken = a - b
    BY <1>1, <1>5, <1>6
  <2>. HIDE DEF a, b
  <2>2. Taken \in Nat /\ Taken <= a
    BY <2>1
  <2>. QED
    BY <2>2 DEF a
<1>. QED
  BY <1>1, <1>2, <1>3, <1>4, <1>5, <1>6, <1>7

\* The next symbol, of the same list.
LEMMA NextSymbolQr == QrInv /\ NextSymbol => QrInv'
<1>. SUFFICES ASSUME QrInv, NextSymbol PROVE QrInv'
  OBVIOUS
<1>. DEFINE head == candidates[1]
<1>1. /\ pc = "scan" /\ candidates # <<>> /\ head # <<>> /\ candidates \in Seq(Seq(Matrices))
      /\ head \in Seq(Matrices) /\ Len(head) \in Nat \ {0} /\ LeftInv /\ Unread(Taken)
      /\ Len(candidates) \in Nat \ {0} /\ Tail(head) \in Seq(Matrices)
  <2>1. /\ pc = "scan" /\ candidates # <<>> /\ head # <<>> /\ LeftInv /\ Unread(Taken)
        /\ candidates \in Seq(Seq(Matrices))
    BY DEF QrInv, NextSymbol, LeftInv
  <2>2. head \in Seq(Matrices) /\ Len(candidates) \in Nat \ {0}
    BY <2>1, Whereabouts
  <2>3. Len(head) \in Nat \ {0} /\ Tail(head) \in Seq(Matrices)
    BY <2>1, <2>2
  <2>. QED
    BY <2>1, <2>2, <2>3
<1>2. /\ picture' = picture /\ Lists' = Lists
      /\ candidates' = <<Tail(head)>> \o Tail(candidates)
      /\ matrix' = head[1] /\ mirrored' = FALSE /\ pc' = "version" /\ result' = result
  BY <1>1 DEF NextSymbol, Lists
<1>3. /\ candidates' \in Seq(Seq(Matrices)) /\ Len(candidates') = Len(candidates)
      /\ candidates'[1] = Tail(head) /\ candidates' # <<>>
      /\ \A i \in 2..Len(candidates) : candidates'[i] = candidates[i]
  <2>. DEFINE tail == Tail(head) rest == Tail(candidates)
  <2>1. tail \in Seq(Matrices) /\ rest \in Seq(Seq(Matrices)) /\ Len(rest) = Len(candidates) - 1
        /\ \A i \in 1..Len(rest) : rest[i] = candidates[i + 1]
    BY <1>1
  <2>2. candidates' = <<tail>> \o rest
    BY <1>2
  <2>. HIDE DEF tail, rest, head
  <2>. QED
    BY <1>1, <2>1, <2>2 DEF tail
<1>4. Len(Tail(head)) = Len(head) - 1 /\ \A j \in 1..(Len(head) - 1) : Tail(head)[j] = head[j + 1]
  BY <1>1
<1>5. /\ Here' = Here /\ Here \in DOMAIN Lists /\ Len(Lists) \in Nat
      /\ Len(Lists[Here]) \in Nat /\ Len(head) <= Len(Lists[Here])
      /\ Taken = Len(Lists[Here]) - Len(head)
      /\ \A j \in 1..Len(head) : head[j] = Lists[Here][Taken + j]
  <2>1. Here' = Here
    BY <1>2, <1>3 DEF Here
  <2>2. Len(head) <= Len(Lists[Here])
    BY <1>1 DEF LeftInv
  <2>. QED
    BY <1>1, <2>1, <2>2, Whereabouts
<1>6. Taken' = Taken + 1 /\ Taken \in Nat
  <2>1. Taken' = Len(Lists[Here]) - Len(Tail(head))
    BY <1>2, <1>3, <1>5 DEF Taken
  <2>. HIDE DEF head
  <2>. QED
    BY <1>1, <1>4, <1>5, <2>1, Whereabouts
<1>7. LeftInv'
  <2>1. \A i \in 2..Len(candidates) : candidates'[i] = Lists[Here - 1 + i]
    BY <1>1, <1>3 DEF LeftInv
  <2>2. \A j \in 1..Len(Tail(head)) : Tail(head)[j] = Lists[Here][Taken + 1 + j]
    <3>1. SUFFICES ASSUME NEW j \in 1..Len(Tail(head))
                   PROVE  Tail(head)[j] = Lists[Here][Taken + 1 + j]
      OBVIOUS
    <3>2. j + 1 \in 1..Len(head) /\ Tail(head)[j] = head[j + 1] /\ Taken + (j + 1) = Taken + 1 + j
      <4>. HIDE DEF head
      <4>. QED
        BY <1>1, <1>4, <1>6, <3>1
    <3>. QED
      BY <1>5, <3>2
  <2>3. Len(candidates) <= Len(Lists) /\ Lists \in Seq(Seq(Matrices)) /\ Len(Tail(head)) <= Len(Lists[Here])
    <3>1. Len(candidates) <= Len(Lists) /\ Lists \in Seq(Seq(Matrices))
      BY <1>1 DEF LeftInv
    <3>. HIDE DEF head
    <3>. QED
      BY <1>1, <1>4, <1>5, <3>1
  <2>. HIDE DEF head
  <2>. QED
    BY <1>2, <1>3, <1>5, <1>6, <2>1, <2>2, <2>3 DEF LeftInv
<1>8. Unread(Taken - 1)' /\ Taken' >= 1
  <2>0. Taken' >= 1
    BY <1>6
  <2>1. Taken' - 1 = Taken
    BY <1>6
  <2>. QED
    <3>1. SUFFICES ASSUME NEW i \in DOMAIN Lists, NEW j \in DOMAIN Lists[i],
                          i < Here' \/ (i = Here' /\ j <= Taken' - 1)
                   PROVE  ~Readable(Lists[i][j])
      BY <1>2, <2>0 DEF Unread
    <3>2. i < Here \/ (i = Here /\ j <= Taken)
      BY <1>5, <2>1, <3>1
    <3>. QED
      BY <1>1, <3>1, <3>2 DEF Unread
<1>9. matrix' = Current'
  <2>1. head[1] = Lists[Here][Taken + 1]
    <3>1. 1 \in 1..Len(head)
      BY <1>1
    <3>. QED
      BY <1>5, <3>1
  <2>. QED
    BY <1>2, <1>5, <1>6, <2>1 DEF Current
<1>10. ReadingInv'
  BY <1>2, <1>3, <1>8, <1>9 DEF ReadingInv
<1>11. FoundInv'
  BY <1>2 DEF FoundInv, Steps
<1>. QED
  BY <1>1, <1>2, <1>7, <1>10, <1>11 DEF QrInv, ReadsTheFirst, Steps

\* On to the inverse of the picture.
LEMMA InvertQr == QrInv /\ Invert => QrInv'
<1>. SUFFICES ASSUME QrInv, Invert PROVE QrInv'
  OBVIOUS
<1>1. /\ pc = "scan" /\ candidates # <<>> /\ candidates[1] = <<>> /\ LeftInv /\ Unread(Taken)
      /\ candidates \in Seq(Seq(Matrices)) /\ Len(candidates) \in Nat \ {0}
      /\ Lists \in Seq(Seq(Matrices)) /\ Len(Lists) \in Nat
  BY SMTT(40) DEF QrInv, Invert, LeftInv
<1>2. /\ Lists' = Lists /\ candidates' = Tail(candidates)
      /\ pc' = "scan" /\ result' = result
  BY <1>1 DEF Invert, Lists
<1>3. /\ candidates' \in Seq(Seq(Matrices)) /\ Len(candidates') = Len(candidates) - 1
      /\ \A i \in 1..(Len(candidates) - 1) : candidates'[i] = candidates[i + 1]
  BY <1>1, <1>2
<1>4. /\ Here' = Here + 1 /\ Here \in DOMAIN Lists /\ Here \in Nat
      /\ Len(candidates) <= Len(Lists)
      /\ \A i \in 2..Len(candidates) : candidates[i] = Lists[Here - 1 + i]
  BY <1>1, <1>2, <1>3 DEF Here, LeftInv
<1>5. \A i \in 1..Len(candidates') : candidates'[i] = Lists[Here' - 1 + i]
  <2>1. SUFFICES ASSUME NEW i \in 1..Len(candidates')
                 PROVE  candidates'[i] = Lists[Here' - 1 + i]
    OBVIOUS
  <2>2. i + 1 \in 2..Len(candidates) /\ Here - 1 + (i + 1) = Here' - 1 + i
    BY <1>1, <1>3, <1>4, <2>1
  <2>. QED
    BY <1>3, <1>4, <2>1, <2>2
<1>6. Unread(Taken) /\ Taken = Len(Lists[Here]) /\ Lists[Here] \in Seq(Matrices)
  BY <1>1, <1>4 DEF Taken
<1>7. \A i \in DOMAIN Lists : \A j \in DOMAIN Lists[i] : i <= Here => ~Readable(Lists[i][j])
  BY <1>1, <1>4, <1>6 DEF Unread
<1>8. candidates' # <<>> => /\ candidates'[1] = Lists[Here'] /\ Taken' = 0
                            /\ candidates'[1] \in Seq(Matrices) /\ Len(candidates'[1]) \in Nat
  <2>1. SUFFICES ASSUME candidates' # <<>>
                 PROVE  /\ candidates'[1] = Lists[Here'] /\ Taken' = 0
                        /\ candidates'[1] \in Seq(Matrices) /\ Len(candidates'[1]) \in Nat
    OBVIOUS
  <2>2. Len(candidates') \in Nat \ {0} /\ candidates'[1] \in Seq(Matrices)
    BY <1>3, <2>1, SMTT(40)
  <2>3. Len(candidates'[1]) \in Nat /\ Here' - 1 + 1 = Here'
    BY <1>4, <2>2
  <2>4. candidates'[1] = Lists[Here']
    BY <1>5, <2>2, <2>3
  <2>5. Taken' = Len(Lists[Here']) - Len(candidates'[1])
    BY <1>2 DEF Taken
  <2>. QED
    BY <2>2, <2>3, <2>4, <2>5
<1>9. LeftInv'
  <2>1. \A i \in 2..Len(candidates') : candidates'[i] = Lists'[Here' - 1 + i]
    BY <1>2, <1>5
  <2>2. Len(candidates') <= Len(Lists')
    BY <1>1, <1>2, <1>3, <1>4
  <2>3. candidates' # <<>> =>
        /\ Len(candidates'[1]) <= Len(Lists'[Here'])
        /\ \A j \in 1..Len(candidates'[1]) : candidates'[1][j] = Lists'[Here'][Taken' + j]
    BY <1>2, <1>8
  <2>. QED
    BY <1>1, <1>2, <1>3, <2>1, <2>2, <2>3 DEF LeftInv
<1>10. candidates' # <<>> => Unread(Taken)'
  <2>1. SUFFICES ASSUME candidates' # <<>>,
                        NEW i \in DOMAIN Lists, NEW j \in DOMAIN Lists[i],
                        i < Here' \/ (i = Here' /\ j <= Taken')
                 PROVE  ~Readable(Lists[i][j])
    BY <1>2 DEF Unread
  <2>2. i \in Nat /\ j \in Nat \ {0} /\ Taken' = 0
    <3>1. Lists[i] \in Seq(Matrices) /\ i \in Nat
      BY <1>1, <2>1, SMTT(40)
    <3>. QED
      BY <1>8, <2>1, <3>1
  <2>. QED
    BY <1>4, <1>7, <2>1, <2>2
<1>11. candidates' = <<>> => NoneReadable'
  <2>1. candidates' = <<>> => Len(candidates) = 1
    BY <1>1, <1>3
  <2>2. Len(candidates) = 1 => Here = Len(Lists)
    BY <1>1 DEF Here
  <2>3. DOMAIN Lists = 1..Len(Lists)
    BY <1>1
  <2>. QED
    BY <1>1, <1>2, <1>7, <2>1, <2>2, <2>3 DEF NoneReadable
<1>. QED
  BY <1>1, <1>2, <1>9, <1>10, <1>11
     DEF QrInv, ReadingInv, FoundInv, ReadsTheFirst, Steps

LEMMA NotFoundQr == QrInv /\ NotFound => QrInv'
<1>. SUFFICES ASSUME QrInv, NotFound PROVE QrInv'
  OBVIOUS
<1>1. /\ pc = "scan" /\ candidates = <<>> /\ pc' = "done" /\ result' = result
      /\ UNCHANGED <<picture, candidates>> /\ LeftInv /\ NoneReadable /\ result = None
  BY DEF QrInv, NotFound
<1>2. LeftInv' /\ NoneReadable'
  BY <1>1, SameLists
<1>. QED
  BY <1>1, <1>2 DEF QrInv, ReadingInv, FoundInv, ReadsTheFirst, Steps
-----------------------------------------------------------------------------
(* Within a reading.                                                       *)

\* A reading that fails is given up: the symbol is mirrored, or was not readable.
LEMMA GiveUpQr ==
    ASSUME QrInv, pc \in Steps, ~TextOf(matrix).ok, GiveUp,
           UNCHANGED <<picture, candidates, result>>
    PROVE  QrInv'
<1>1. /\ candidates # <<>> /\ Taken >= 1 /\ Unread(Taken - 1) /\ mirrored \in BOOLEAN
      /\ matrix = IF mirrored THEN Mirror(Current) ELSE Current
      /\ mirrored => ~TextOf(Current).ok
      /\ LeftInv /\ result = None
  BY DEF QrInv, ReadingInv, Steps
<1>2. /\ LeftInv' /\ Taken' = Taken /\ Current' = Current /\ Here' = Here
      /\ Lists' = Lists /\ \A n : Unread(n)' <=> Unread(n)
  BY <1>1, SameLists
<1>3. CASE mirrored
  <2>1. pc' = "scan" /\ mirrored' = mirrored /\ candidates' = candidates /\ result' = None
    BY <1>1, <1>3 DEF GiveUp
  <2>2. ~Readable(Current)
    BY <1>1, <1>3 DEF Readable, Decoded
  <2>3. Taken \in Int
    BY <1>1 DEF LeftInv, Taken, Here
  <2>4. Unread(Taken)
    BY <1>1, <2>2, <2>3 DEF Unread, Current, LeftInv
  <2>. QED
    BY <1>1, <1>2, <2>1, <2>4 DEF QrInv, ReadingInv, FoundInv, ReadsTheFirst, Steps
<1>4. CASE ~mirrored
  <2>1. pc' = "version" /\ mirrored' = TRUE /\ matrix' = Mirror(matrix)
        /\ candidates' = candidates /\ result' = None
    BY <1>1, <1>4 DEF GiveUp
  <2>2. matrix' = Mirror(Current)' /\ ~TextOf(Current).ok
    BY <1>1, <1>2, <1>4, <2>1
  <2>3. ReadingInv'
    BY <1>1, <1>2, <2>1, <2>2 DEF ReadingInv
  <2>. QED
    BY <1>2, <2>1, <2>3 DEF QrInv, FoundInv, ReadsTheFirst, Steps
<1>. QED
  BY <1>1, <1>3, <1>4

\* A step of a reading that goes on keeps what leads to it.
LEMMA GoOnQr ==
    ASSUME QrInv, pc \in Steps, pc' \in Steps,
           UNCHANGED <<picture, candidates, matrix, mirrored, result>>, FoundInv'
    PROVE  QrInv'
<1>1. LeftInv /\ ReadingInv /\ result = None
  BY DEF QrInv, Steps
<1>2. /\ LeftInv' /\ Taken' = Taken /\ Current' = Current
      /\ \A n : Unread(n)' <=> Unread(n)
  BY <1>1, SameLists
<1>3. ReadingInv'
  BY <1>1, <1>2 DEF ReadingInv
<1>. QED
  BY <1>1, <1>2, <1>3 DEF QrInv, ReadsTheFirst, Steps

LEMMA ReadVersionQr == QrInv /\ ReadVersion => QrInv'
<1>. SUFFICES ASSUME QrInv, ReadVersion PROVE QrInv'
  OBVIOUS
<1>1. pc = "version" /\ pc \in Steps /\ UNCHANGED <<picture, candidates, result>>
  BY DEF ReadVersion, Steps
<1>2. CASE readVersion(matrix) = 0
  <2>1. GiveUp /\ ~TextOf(matrix).ok
    BY <1>2 DEF ReadVersion, VersionIs, TextOf, None
  <2>. QED
    BY <1>1, <2>1, GiveUpQr
<1>3. CASE readVersion(matrix) # 0
  <2>1. /\ version' = readVersion(matrix) /\ pc' = "format"
        /\ UNCHANGED <<matrix, mirrored>>
    BY <1>3 DEF ReadVersion, VersionIs
  <2>2. FoundInv' /\ pc' \in Steps
    BY <1>3, <2>1 DEF FoundInv, Steps
  <2>. QED
    BY <1>1, <2>1, <2>2, GoOnQr
<1>. QED
  BY <1>2, <1>3

LEMMA ReadFormatQr == QrInv /\ ReadFormat => QrInv'
<1>. SUFFICES ASSUME QrInv, ReadFormat PROVE QrInv'
  OBVIOUS
<1>1. pc = "format" /\ pc \in Steps /\ UNCHANGED <<picture, candidates, result>> /\ FoundInv
  BY DEF ReadFormat, Steps, QrInv
<1>2. CASE ~readFormatInformation(matrix).ok
  <2>1. GiveUp /\ ~TextOf(matrix).ok
    BY <1>2 DEF ReadFormat, FormatIs, TextOf, None
  <2>. QED
    BY <1>1, <2>1, GiveUpQr
<1>3. CASE readFormatInformation(matrix).ok
  <2>1. /\ format' = readFormatInformation(matrix) /\ pc' = "blocks"
        /\ UNCHANGED <<matrix, mirrored, version>>
    BY <1>3 DEF ReadFormat, FormatIs
  <2>2. FoundInv' /\ pc' \in Steps
    BY <1>1, <1>3, <2>1 DEF FoundInv, Steps
  <2>. QED
    BY <1>1, <2>1, <2>2, GoOnQr
<1>. QED
  BY <1>2, <1>3

LEMMA ReadBlocksQr == QrInv /\ ReadBlocks => QrInv'
<1>. SUFFICES ASSUME QrInv, ReadBlocks PROVE QrInv'
  OBVIOUS
<1>1. pc = "blocks" /\ pc \in Steps /\ UNCHANGED <<picture, candidates, result>> /\ FoundInv
  BY DEF ReadBlocks, Steps, QrInv
<1>2. /\ version = readVersion(matrix) /\ format = readFormatInformation(matrix)
      /\ version # 0 /\ format.ok
  BY <1>1 DEF FoundInv, Steps
<1>3. BlocksAre(BlocksOf(matrix))
  BY <1>2 DEF ReadBlocks, BlocksOf
<1>4. CASE BlocksOf(matrix) = Null
  <2>1. GiveUp /\ ~TextOf(matrix).ok
    BY <1>3, <1>4 DEF BlocksAre, TextOf, None
  <2>. QED
    BY <1>1, <2>1, GiveUpQr
<1>5. CASE BlocksOf(matrix) # Null
  <2>1. /\ blocks' = BlocksOf(matrix) /\ pc' = "correct"
        /\ UNCHANGED <<matrix, mirrored, version, format>>
    BY <1>3, <1>5 DEF BlocksAre
  <2>2. FoundInv' /\ pc' \in Steps
    BY <1>2, <1>5, <2>1 DEF FoundInv, Steps
  <2>. QED
    BY <1>1, <2>1, <2>2, GoOnQr
<1>. QED
  BY <1>4, <1>5

LEMMA CorrectQr == QrInv /\ Correct => QrInv'
<1>. SUFFICES ASSUME QrInv, Correct PROVE QrInv'
  OBVIOUS
<1>1. pc = "correct" /\ pc \in Steps /\ UNCHANGED <<picture, candidates, result>> /\ FoundInv
  BY DEF Correct, Steps, QrInv
<1>2. /\ version = readVersion(matrix) /\ format = readFormatInformation(matrix)
      /\ version # 0 /\ format.ok /\ blocks = BlocksOf(matrix) /\ blocks # Null
  BY <1>1 DEF FoundInv, Steps
<1>3. BytesAre(CorrectedBlocks(BlocksOf(matrix)))
  BY <1>2 DEF Correct
<1>4. CASE ~Repairable(matrix)
  <2>1. GiveUp /\ ~TextOf(matrix).ok
    BY <1>3, <1>4 DEF BytesAre, TextOf, None, Repairable
  <2>. QED
    BY <1>1, <2>1, GiveUpQr
<1>5. CASE Repairable(matrix)
  <2>1. /\ bytes' = BytesOf(matrix) /\ pc' = "decode"
        /\ UNCHANGED <<matrix, mirrored, version, format, blocks>>
    BY <1>2, <1>3, <1>5 DEF BytesAre, Repairable, BytesOf
  <2>2. Repairable(matrix)' /\ BytesOf(matrix)' = BytesOf(matrix) /\ BlocksOf(matrix)' = BlocksOf(matrix)
    BY <1>5, <2>1
  <2>3. FoundInv' /\ pc' \in Steps
    BY <1>2, <2>1, <2>2 DEF FoundInv, Steps
  <2>. QED
    BY <1>1, <2>1, <2>3, GoOnQr
<1>. QED
  BY <1>4, <1>5

LEMMA DecodeDataQr == QrInv /\ DecodeData => QrInv'
<1>. SUFFICES ASSUME QrInv, DecodeData PROVE QrInv'
  OBVIOUS
<1>1. pc = "decode" /\ pc \in Steps /\ UNCHANGED <<picture, candidates>> /\ FoundInv
  BY DEF DecodeData, Steps, QrInv
<1>2. TextOf(matrix) = decodeData(bytes, version)
  BY <1>1 DEF FoundInv, Steps, TextOf
<1>3. CASE ~TextOf(matrix).ok
  <2>1. GiveUp /\ UNCHANGED result
    BY <1>2, <1>3 DEF DecodeData, TextIs
  <2>. QED
    BY <1>1, <1>3, <2>1, GiveUpQr
<1>4. CASE TextOf(matrix).ok
  <2>1. pc' = "done" /\ result' = TextOf(matrix)
    BY <1>2, <1>4 DEF DecodeData, TextIs
  <2>2. /\ candidates # <<>> /\ Taken >= 1 /\ Unread(Taken - 1) /\ mirrored \in BOOLEAN
        /\ matrix = IF mirrored THEN Mirror(Current) ELSE Current
        /\ mirrored => ~TextOf(Current).ok
        /\ LeftInv
    BY <1>1 DEF QrInv, ReadingInv
  <2>3. Decoded(Current) = TextOf(matrix) /\ Readable(Current)
    BY <1>4, <2>2 DEF Decoded, Readable
  <2>4. Here \in DOMAIN Lists /\ Taken \in DOMAIN Lists[Here]
    <3>1. /\ Here \in DOMAIN Lists /\ Lists[Here] \in Seq(Matrices) /\ Taken \in Nat
          /\ Taken <= Len(Lists[Here]) /\ Len(Lists[Here]) \in Nat
      BY <2>2, Whereabouts
    <3>. QED
      BY <2>2, <3>1
  <2>5. FirstReadable(Here, Taken) /\ Here \in Nat /\ Taken \in Nat
    <3>1. Lists \in Seq(Seq(Matrices)) /\ Lists[Here] \in Seq(Matrices)
      BY <2>2, <2>4 DEF LeftInv
    <3>2. Here \in Nat /\ Taken \in Nat
      BY <2>4, <3>1
    <3>3. \A h \in DOMAIN Lists : \A k \in DOMAIN Lists[h] :
              Earlier(h, k, Here, Taken) => ~Readable(Lists[h][k])
      <4>1. SUFFICES ASSUME NEW h \in DOMAIN Lists, NEW k \in DOMAIN Lists[h],
                            Earlier(h, k, Here, Taken)
                     PROVE  ~Readable(Lists[h][k])
        OBVIOUS
      <4>2. h \in Nat /\ k \in Nat
        BY <3>1, <4>1
      <4>3. h < Here \/ (h = Here /\ k <= Taken - 1)
        BY <3>2, <4>1, <4>2 DEF Earlier
      <4>. QED
        BY <2>2, <4>1, <4>3 DEF Unread
    <3>. QED
      BY <2>3, <2>4, <3>2, <3>3 DEF FirstReadable, Current
  <2>6. FirstReadable(Here, Taken)' /\ Here' = Here /\ Taken' = Taken /\ Lists' = Lists /\ LeftInv'
    BY <1>1, <2>2, <2>5, SameLists
  <2>7. ReadsTheFirst'
    BY <2>1, <2>3, <2>4, <2>5, <2>6 DEF ReadsTheFirst, Current
  <2>. QED
    BY <2>1, <2>6, <2>7 DEF QrInv, ReadingInv, FoundInv, Steps
<1>. QED
  BY <1>3, <1>4

LEMMA NextQr == QrInv /\ [Next]_vars => QrInv'
<1>. SUFFICES ASSUME QrInv, [Next]_vars PROVE QrInv'
  OBVIOUS
<1>1. CASE Next
  BY <1>1, NextSymbolQr, InvertQr, NotFoundQr, ReadVersionQr, ReadFormatQr, ReadBlocksQr,
     CorrectQr, DecodeDataQr DEF Next
<1>2. CASE UNCHANGED vars
  <2>1. /\ LeftInv' /\ Lists' = Lists /\ Taken' = Taken /\ Current' = Current
        /\ NoneReadable' <=> NoneReadable
        /\ \A n : Unread(n)' <=> Unread(n)
        /\ \A i, j : FirstReadable(i, j)' <=> FirstReadable(i, j)
    BY <1>2, SameLists DEF vars, QrInv
  <2>. QED
    BY <1>2, <2>1 DEF vars, reading, QrInv, ReadingInv, FoundInv, ReadsTheFirst
<1>. QED
  BY <1>1, <1>2

\* For any pictures: what the steps give out is what jsQR promises, the text of
\* the first symbol that can be read, as it is or mirrored; none only when no
\* symbol can be read.
THEOREM FirstReadableIsRead == Spec => []ReadsTheFirst
<1>1. QrInv => ReadsTheFirst
  BY DEF QrInv
<1>. QED
  BY <1>1, InitQr, NextQr, PTL DEF Spec

\* For any pictures: a reading that goes on takes a square symbol for one of the
\* forty versions, and for a format that one of its copies is near.
ReadingIsSound ==
    pc \in Steps =>
        /\ Symbol(matrix)
        /\ pc # "version" => version \in 1..40
        /\ pc \notin {"version", "format"} =>
            \E i \in DOMAIN FORMAT_INFO_BITS, w \in FormatWords(matrix) :
                /\ format = [ok |-> TRUE] @@ FORMAT_INFO(i)
                /\ numBitsDiffering(w, FORMAT_INFO_BITS[i]) <= 3

\* A format both of whose copies lost at most three bits, and likewise a version
\* of a large symbol, are what the reading goes on with, whatever was read before.
DamageIsRepaired ==
    /\ pc \in Steps \ {"version", "format"} =>
        \A i \in DOMAIN FORMAT_INFO_BITS :
            (\A w \in FormatWords(matrix) : numBitsDiffering(w, FORMAT_INFO_BITS[i]) <= 3)
                => format = [ok |-> TRUE] @@ FORMAT_INFO(i)
    /\ pc \in Steps \ {"version"} /\ Len(matrix) >= 45 =>
        \A v \in 7..40 :
            (\A w \in VersionWords(matrix) : numBitsDiffering(w, VERSIONS[v].infoBits) <= 3)
                => version = v

LEMMA SymbolsAreRead ==
    ASSUME QrInv, picture \in Pictures, pc \in Steps
    PROVE  Symbol(matrix)
<1>1. /\ LeftInv /\ candidates # <<>> /\ Taken >= 1 /\ mirrored \in BOOLEAN
      /\ matrix = IF mirrored THEN Mirror(Current) ELSE Current
  BY DEF QrInv, ReadingInv
<1>2. /\ Here \in DOMAIN Lists /\ Lists[Here] \in Seq(Matrices) /\ Taken \in Nat
      /\ Taken <= Len(Lists[Here]) /\ Len(Lists[Here]) \in Nat
  BY <1>1, Whereabouts
<1>3. Taken \in DOMAIN Lists[Here]
  BY <1>1, <1>2
<1>4. Symbol(Current)
  BY <1>2, <1>3, PicturesAssumption DEF Lists, Current
<1>. QED
  BY <1>1, <1>4, MirrorIs

\* decodeMatrix of any pictures: readVersion and readFormatInformation give nothing
\* else, and no failed reading leaves anything else behind.
THEOREM ReadingsAreSound == Spec => []ReadingIsSound
<1>1. QrInv /\ picture \in Pictures => ReadingIsSound
  <2>1. SUFFICES ASSUME QrInv, picture \in Pictures, pc \in Steps
                 PROVE  /\ Symbol(matrix)
                        /\ pc # "version" => version \in 1..40
                        /\ pc \notin {"version", "format"} =>
                            \E i \in DOMAIN FORMAT_INFO_BITS, w \in FormatWords(matrix) :
                                /\ format = [ok |-> TRUE] @@ FORMAT_INFO(i)
                                /\ numBitsDiffering(w, FORMAT_INFO_BITS[i]) <= 3
    BY DEF ReadingIsSound
  <2>2. Symbol(matrix) /\ Len(matrix) \in Nat
    BY <2>1, SymbolsAreRead DEF Symbol
  <2>3. pc # "version" => version \in 1..40
    <3>1. pc # "version" => version = readVersion(matrix) /\ version # 0
      BY <2>1 DEF QrInv, FoundInv
    <3>2. readVersion(matrix) \in 0..40
      BY <2>2, VersionIsKnown
    <3>. QED
      BY <3>1, <3>2
  <2>4. ASSUME pc \notin {"version", "format"}
        PROVE  \E i \in DOMAIN FORMAT_INFO_BITS, w \in FormatWords(matrix) :
                   /\ format = [ok |-> TRUE] @@ FORMAT_INFO(i)
                   /\ numBitsDiffering(w, FORMAT_INFO_BITS[i]) <= 3
    <3>1. format = readFormatInformation(matrix) /\ format.ok
      BY <2>1, <2>4 DEF QrInv, FoundInv
    <3>. QED
      BY <3>1, FormatIsNear
  <2>. QED
    BY <2>2, <2>3, <2>4
<1>2. Init => picture \in Pictures
  BY DEF Init
<1>3. picture \in Pictures /\ [Next]_vars => (picture \in Pictures)'
  BY DEF Next, NextSymbol, Invert, NotFound, ReadVersion, ReadFormat, ReadBlocks, Correct,
         DecodeData, vars
<1>. QED
  BY <1>1, <1>2, <1>3, InitQr, NextQr, PTL DEF Spec

\* Along every reading of any pictures, as it is or mirrored.
THEOREM DamageGetsRepaired == Spec => []DamageIsRepaired
<1>1. QrInv /\ picture \in Pictures => DamageIsRepaired
  <2>. SUFFICES ASSUME QrInv, picture \in Pictures PROVE DamageIsRepaired
    OBVIOUS
  <2>1. ASSUME pc \in Steps \ {"version", "format"}, NEW i \in DOMAIN FORMAT_INFO_BITS,
               \A w \in FormatWords(matrix) : numBitsDiffering(w, FORMAT_INFO_BITS[i]) <= 3
        PROVE  format = [ok |-> TRUE] @@ FORMAT_INFO(i)
    <3>1. format = readFormatInformation(matrix)
      BY <2>1 DEF QrInv, FoundInv
    <3>. QED
      BY <2>1, <3>1, FormatIsRepaired
  <2>2. ASSUME pc \in Steps \ {"version"}, Len(matrix) >= 45, NEW v \in 7..40,
               \A w \in VersionWords(matrix) : numBitsDiffering(w, VERSIONS[v].infoBits) <= 3
        PROVE  version = v
    <3>1. version = readVersion(matrix)
      BY <2>2 DEF QrInv, FoundInv
    <3>2. Len(matrix) \in Nat
      BY <2>2, SymbolsAreRead DEF Symbol
    <3>. QED
      BY <2>2, <3>1, <3>2, VersionIsRepaired
  <2>. QED
    BY <2>1, <2>2 DEF DamageIsRepaired
<1>2. Init => picture \in Pictures
  BY DEF Init
<1>3. picture \in Pictures /\ [Next]_vars => (picture \in Pictures)'
  BY DEF Next, NextSymbol, Invert, NotFound, ReadVersion, ReadFormat, ReadBlocks, Correct,
         DecodeData, vars
<1>. QED
  BY <1>1, <1>2, <1>3, InitQr, NextQr, PTL DEF Spec

=============================================================================
