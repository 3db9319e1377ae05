----------------------------- MODULE StorageProofs -----------------------------
(***************************************************************************)
(* Proofs about Storage, for torrents of any number and length of files    *)
(* and any number of writers and restarts: what counts as finished is on   *)
(* disk, and reading it back gives the right bytes.                        *)
(***************************************************************************)
EXTENDS Storage, FiniteSetTheorems, WellFoundedInduction, TLAPS

-----------------------------------------------------------------------------
(* Naturals and recursive functions.                                       *)

\* A set of naturals that is not empty has a least element.
LEMMA SmallestNumber ==
  ASSUME NEW S \in SUBSET Nat, S # {}
  PROVE  Min(S) \in S /\ \A k \in S : Min(S) <= k
<1>1. PICK m \in S : \A k \in S : ~(<<k, m>> \in OpToRel(<, Nat))
  BY NatLessThanWellFounded, WFMin
<1>2. \A k \in S : ~(k < m)
  BY <1>1 DEF OpToRel
<1>3. \A k \in S : m <= k
  BY <1>2
<1> QED  BY <1>3 DEF Min

\* A set that has 0 and, up to n, the successor of each element has all of 0 .. n.
LEMMA InductionUpTo ==
  ASSUME NEW n \in Nat, NEW S, 0 \in S, \A k \in 0 .. n : k \in S /\ k < n => k + 1 \in S
  PROVE  \A k \in 0 .. n : k \in S
<1> DEFINE R == (0 .. n) \ S
<1> SUFFICES ASSUME R # {} PROVE FALSE
  OBVIOUS
<1>1. R \in SUBSET Nat
  OBVIOUS
<1>2. PICK m \in R : \A k \in R : m <= k
  BY <1>1, SmallestNumber
<1>3. m \in 0 .. n /\ m \notin S /\ m # 0
  BY <1>2
<1>4. m - 1 \in 0 .. n /\ m - 1 < n /\ ~(m <= m - 1) /\ (m - 1) + 1 = m
  BY <1>3
<1>5. m - 1 \in S
  BY <1>2, <1>4
<1> QED  BY <1>3, <1>4, <1>5

\* f has the first value a, and g gives each next one from the one before.
FollowsRule(f, V, n, a, g) ==
  /\ f \in [0 .. n -> V] /\ f[0] = a
  /\ \A i \in 1 .. n : f[i] = g[<<f[i - 1], i>>]

\* A function can be defined by its first value and a rule for the next one.
LEMMA Recurrence ==
  ASSUME NEW V, NEW n \in Nat, NEW a \in V, NEW g \in [V \X (1 .. n) -> V]
  PROVE  \E f : FollowsRule(f, V, n, a, g)
<1> DEFINE Upto(k, f) == /\ f \in [0 .. k -> V] /\ f[0] = a
                         /\ \A i \in 1 .. k : f[i] = g[<<f[i - 1], i>>]
           S == {k \in 0 .. n : \E f : Upto(k, f)}
<1>1. 0 \in S
  <2> DEFINE f == [i \in 0 .. 0 |-> a]
  <2>1. f \in [0 .. 0 -> V] /\ f[0] = a
    OBVIOUS
  <2>2. 1 .. 0 = {}
    OBVIOUS
  <2> HIDE DEF f
  <2>3. Upto(0, f)
    BY <2>1, <2>2
  <2> QED  BY <2>3
<1>2. ASSUME NEW k \in 0 .. n, k \in S, k < n PROVE k + 1 \in S
  <2>1. PICK f : Upto(k, f)
    BY <1>2
  <2> DEFINE h == [i \in 0 .. k + 1 |-> IF i = k + 1 THEN g[<<f[k], k + 1>>] ELSE f[i]]
  <2>2. f \in [0 .. k -> V] /\ f[k] \in V /\ k + 1 \in 1 .. n
    BY <1>2, <2>1
  <2>3. g[<<f[k], k + 1>>] \in V
    BY <2>2
  <2>4. \A i \in 0 .. k : h[i] = f[i]
    BY <2>2
  <2>5. h[k + 1] = g[<<f[k], k + 1>>]
    OBVIOUS
  <2>6. h \in [0 .. k + 1 -> V]
    BY <2>2, <2>3
  <2> HIDE DEF h
  <2>7. ASSUME NEW i \in 1 .. k + 1 PROVE h[i] = g[<<h[i - 1], i>>]
    <3>1. CASE i = k + 1
      <4>1. i - 1 = k /\ k \in 0 .. k
        BY <3>1
      <4> QED  BY <2>4, <2>5, <3>1, <4>1
    <3>2. CASE i # k + 1
      <4>1. i \in 1 .. k /\ i \in 0 .. k /\ i - 1 \in 0 .. k
        BY <3>2
      <4> QED  BY <2>1, <2>4, <4>1
    <3> QED  BY <3>1, <3>2
  <2>8. h[0] = a
    BY <2>1, <2>4
  <2>9. Upto(k + 1, h)
    BY <2>6, <2>7, <2>8
  <2> QED  BY <2>2, <2>9
<1> HIDE DEF S
<1>3. \A k \in 0 .. n : k \in S
  BY <1>1, <1>2, InductionUpTo
<1>4. PICK f : Upto(n, f)
  BY <1>3 DEF S
<1> QED  BY <1>4 DEF FollowsRule

-----------------------------------------------------------------------------
(* Where files start.                                                      *)

\* What the assumption says of a torrent.
LEMMA TorrentFacts ==
  ASSUME torrent \in Torrents
  PROVE  /\ Lengths \in Seq(Nat) /\ Len(Lengths) \in Nat /\ Len(Lengths) > 0
         /\ Files = 1 .. Len(Lengths) /\ \A i \in Files : Lengths[i] \in Nat
         /\ PieceLength \in Nat \ {0} /\ BlockSize \in Nat \ {0}
<1>1. /\ torrent.lengths \in Seq(Nat) /\ torrent.lengths # << >>
      /\ torrent.blockSize \in Nat \ {0} /\ torrent.pieceLength \in Nat \ {0}
  BY StorageAssumption
<1> QED  BY <1>1 DEF Lengths, PieceLength, BlockSize, Files

\* The recursive definition of FileStart has a solution, which is the sum.
LEMMA FileStarts ==
  ASSUME torrent \in Torrents
  PROVE  /\ FileStart(1) = 0
         /\ \A i \in Files : FileStart(i + 1) = FileStart(i) + Lengths[i]
         /\ \A i \in 1 .. Len(Lengths) + 1 : FileStart(i) \in Nat
<1> DEFINE n == Len(Lengths)
           D == 1 .. n + 1
           Solves(h) == h = [j \in D |-> IF j = 1 THEN 0 ELSE h[j - 1] + Lengths[j - 1]]
           before == CHOOSE h : Solves(h)
           g == [x \in Nat \X (1 .. n) |-> x[1] + Lengths[x[2]]]
<1>1. Lengths \in Seq(Nat) /\ n \in Nat /\ Files = 1 .. n /\ \A i \in 1 .. n : Lengths[i] \in Nat
  BY TorrentFacts
<1>2. g \in [Nat \X (1 .. n) -> Nat]
  BY <1>1
<1>3. \A x \in Nat, i \in 1 .. n : g[<<x, i>>] = x + Lengths[i]
  OBVIOUS
<1>4. ASSUME NEW i \in D PROVE FileStart(i) = before[i]
  BY DEF FileStart
<1> HIDE DEF g, n
<1>5. PICK f : FollowsRule(f, Nat, n, 0, g)
  BY <1>1, <1>2, Recurrence
<1>6. \A i \in 1 .. n : f[i] = f[i - 1] + Lengths[i]
  <2> TAKE i \in 1 .. n
  <2>1. i - 1 \in 0 .. n
    BY <1>1
  <2> QED  BY <1>3, <1>5, <2>1 DEF FollowsRule
<1> DEFINE h == [j \in D |-> f[j - 1]]
<1>7. \A j \in D : h[j] = IF j = 1 THEN 0 ELSE h[j - 1] + Lengths[j - 1]
  <2> TAKE j \in D
  <2>1. h[j] = f[j - 1]
    OBVIOUS
  <2>2. CASE j = 1
    BY <1>5, <2>1, <2>2 DEF FollowsRule
  <2>3. CASE j # 1
    <3>1. j - 1 \in 1 .. n /\ j - 1 \in D
      BY <1>1, <2>3
    <3>2. h[j - 1] = f[(j - 1) - 1]
      BY <3>1
    <3> QED  BY <1>6, <2>1, <2>3, <3>1, <3>2
  <2> QED  BY <2>2, <2>3
<1>8. Solves(h)
  <2>1. h = [j \in D |-> h[j]]
    OBVIOUS
  <2> HIDE DEF h
  <2> QED  BY <1>7, <2>1
<1> HIDE DEF h
<1>9. PICK t : Solves(t) /\ \A i \in D : FileStart(i) = t[i]
  <2>1. Solves(before)
    BY <1>8
  <2> QED  BY <1>4, <2>1
<1>10. \A j \in D : t[j] = IF j = 1 THEN 0 ELSE t[j - 1] + Lengths[j - 1]
  BY <1>9
<1>11. FileStart(1) = 0
  BY <1>1, <1>9, <1>10
<1>12. ASSUME NEW i \in Files PROVE FileStart(i + 1) = FileStart(i) + Lengths[i]
  <2>1. i \in D /\ i + 1 \in D /\ i + 1 # 1 /\ (i + 1) - 1 = i
    BY <1>1
  <2> QED  BY <1>9, <1>10, <2>1
<1>13. ASSUME NEW i \in D PROVE FileStart(i) \in Nat
  <2> DEFINE S == {k \in 0 .. n : FileStart(k + 1) \in Nat}
  <2>1. 0 \in S
    BY <1>1, <1>11
  <2>2. ASSUME NEW k \in 0 .. n, k \in S, k < n PROVE k + 1 \in S
    <3>1. k + 1 \in Files /\ k + 1 \in 0 .. n
      BY <1>1, <2>2
    <3>2. FileStart((k + 1) + 1) = FileStart(k + 1) + Lengths[k + 1]
      BY <1>12, <3>1
    <3> QED  BY <1>1, <2>2, <3>1, <3>2
  <2> HIDE DEF S
  <2>3. \A k \in 0 .. n : k \in S
    BY <1>1, <2>1, <2>2, InductionUpTo
  <2>4. i - 1 \in 0 .. n /\ (i - 1) + 1 = i
    BY <1>1
  <2> QED  BY <2>3, <2>4 DEF S
<1> QED  BY <1>11, <1>12, <1>13 DEF n

\* Files lie one after the other.
LEMMA StartsGrow ==
  ASSUME torrent \in Torrents, NEW i \in Files
  PROVE  \A j \in i + 1 .. Len(Lengths) + 1 : FileStart(i) + Lengths[i] <= FileStart(j)
<1> DEFINE n == Len(Lengths)
           S == {k \in 0 .. n - i : FileStart(i) + Lengths[i] <= FileStart(i + 1 + k)}
<1>1. n \in Nat /\ Files = 1 .. n /\ \A j \in 1 .. n : Lengths[j] \in Nat
  BY TorrentFacts
<1>2. i \in 1 .. n /\ n - i \in Nat /\ FileStart(i) \in Nat /\ Lengths[i] \in Nat
  BY <1>1, FileStarts
<1>3. 0 \in S
  <2>1. i + 1 + 0 = i + 1 /\ i + 1 \in 1 .. n + 1
    BY <1>1, <1>2
  <2>2. FileStart(i + 1) = FileStart(i) + Lengths[i] /\ FileStart(i + 1) \in Nat
    BY <2>1, FileStarts
  <2> QED  BY <1>2, <2>1, <2>2
<1>4. ASSUME NEW k \in 0 .. n - i, k \in S, k < n - i PROVE k + 1 \in S
  <2>1. i + 1 + k \in Files /\ i + 1 + (k + 1) = (i + 1 + k) + 1 /\ k + 1 \in 0 .. n - i
    BY <1>1, <1>2, <1>4
  <2>2. i + 1 + k \in 1 .. n + 1
    BY <1>1, <1>2, <1>4
  <2>3. /\ FileStart((i + 1 + k) + 1) = FileStart(i + 1 + k) + Lengths[i + 1 + k]
        /\ FileStart(i + 1 + k) \in Nat /\ Lengths[i + 1 + k] \in Nat
    BY <1>1, <2>1, <2>2, FileStarts
  <2> QED  BY <1>2, <1>4, <2>1, <2>3
<1> HIDE DEF S
<1>5. \A k \in 0 .. n - i : k \in S
  BY <1>2, <1>3, <1>4, InductionUpTo
<1>6. ASSUME NEW j \in i + 1 .. n + 1 PROVE FileStart(i) + Lengths[i] <= FileStart(j)
  <2>1. j - (i + 1) \in 0 .. n - i /\ i + 1 + (j - (i + 1)) = j
    BY <1>1, <1>2
  <2> QED  BY <1>5, <2>1 DEF S
<1> QED  BY <1>6

\* Position k of the torrent is one of file i.
Within(k, i) == FileStart(i) < k /\ k <= FileStart(i) + Lengths[i]

\* The end of a file is not after the end of the torrent.
LEMMA FileEnds ==
  ASSUME torrent \in Torrents, NEW i \in Files
  PROVE  /\ FileStart(i) \in Nat /\ Lengths[i] \in Nat /\ totalLength \in Nat
         /\ FileStart(i) + Lengths[i] <= totalLength
         /\ i = Len(Lengths) => FileStart(i) + Lengths[i] = totalLength
<1>1. Len(Lengths) \in Nat /\ Files = 1 .. Len(Lengths) /\ Lengths[i] \in Nat
  BY TorrentFacts
<1>2. i \in 1 .. Len(Lengths) + 1 /\ Len(Lengths) + 1 \in 1 .. Len(Lengths) + 1
  BY <1>1
<1>3. FileStart(i) \in Nat /\ FileStart(Len(Lengths) + 1) \in Nat
  BY <1>2, FileStarts
<1>4. Len(Lengths) + 1 \in i + 1 .. Len(Lengths) + 1
  BY <1>1
<1>5. FileStart(i) + Lengths[i] <= FileStart(Len(Lengths) + 1)
  BY <1>4, StartsGrow
<1>6. i = Len(Lengths) => FileStart(i) + Lengths[i] = FileStart(Len(Lengths) + 1)
  BY <1>1, FileStarts
<1> QED  BY <1>1, <1>3, <1>5, <1>6 DEF totalLength

\* A position is in one file.
LEMMA OneFile ==
  ASSUME torrent \in Torrents, NEW k \in 1 .. totalLength
  PROVE  \E i \in Files : Within(k, i)
<1> DEFINE n == Len(Lengths)
           S == {j \in 1 .. n + 1 : k <= FileStart(j)}
<1>1. n \in Nat /\ Files = 1 .. n /\ n + 1 \in S
  BY TorrentFacts, FileStarts DEF totalLength
<1>2. S \in SUBSET Nat /\ S # {}
  BY <1>1
<1>3. PICK m \in S : \A j \in S : m <= j
  BY <1>2, SmallestNumber
<1>4. FileStart(1) = 0 /\ k > 0 /\ k \in Nat /\ m \in Nat
  BY <1>2, FileStarts, FileEnds, TorrentFacts, <1>1
<1>5. m # 1
  BY <1>4
<1>6. m - 1 \in Files /\ m - 1 \in 1 .. n + 1 /\ ~(m <= m - 1) /\ (m - 1) + 1 = m
  BY <1>1, <1>5
<1>7. ~(k <= FileStart(m - 1)) /\ k <= FileStart(m)
  BY <1>3, <1>6
<1>8. FileStart(m) = FileStart(m - 1) + Lengths[m - 1] /\ FileStart(m - 1) \in Nat
  BY <1>6, FileStarts
<1>9. Within(k, m - 1)
  BY <1>4, <1>7, <1>8 DEF Within
<1> QED  BY <1>6, <1>9

\* A position is in no other file.
LEMMA SameFile ==
  ASSUME torrent \in Torrents, NEW k \in Int, NEW i \in Files, NEW j \in Files,
         Within(k, i), Within(k, j)
  PROVE  i = j
<1>1. Len(Lengths) \in Nat /\ Files = 1 .. Len(Lengths)
  BY TorrentFacts
<1>2. /\ FileStart(i) \in Nat /\ Lengths[i] \in Nat
      /\ FileStart(j) \in Nat /\ Lengths[j] \in Nat
  BY FileEnds
<1>3. ASSUME i < j PROVE FALSE
  <2>1. j \in i + 1 .. Len(Lengths) + 1
    BY <1>1, <1>3
  <2>2. FileStart(i) + Lengths[i] <= FileStart(j)
    BY <2>1, StartsGrow
  <2> QED  BY <1>2, <2>2 DEF Within
<1>4. ASSUME j < i PROVE FALSE
  <2>1. i \in j + 1 .. Len(Lengths) + 1
    BY <1>1, <1>4
  <2>2. FileStart(j) + Lengths[j] <= FileStart(i)
    BY <2>1, StartsGrow
  <2> QED  BY <1>2, <2>2 DEF Within
<1> QED  BY <1>1, <1>3, <1>4

\* The byte at position k when the files are f.
ByteOf(f, k) ==
  LET i == CHOOSE i \in Files : Within(k, i)
      j == k - FileStart(i)
  IN  IF j <= Len(f[i]) THEN f[i][j] ELSE 0

\* The byte at a position is read from the file it is in.
LEMMA ByteIs ==
  ASSUME torrent \in Torrents, NEW f, NEW k \in Int, NEW i \in Files, Within(k, i)
  PROVE  ByteOf(f, k) = IF k - FileStart(i) <= Len(f[i]) THEN f[i][k - FileStart(i)] ELSE 0
<1> DEFINE c == CHOOSE j \in Files : Within(k, j)
<1>1. c \in Files /\ Within(k, c)
  OBVIOUS
<1>2. ByteOf(f, k) = IF k - FileStart(c) <= Len(f[c]) THEN f[c][k - FileStart(c)] ELSE 0
  BY DEF ByteOf
<1> HIDE DEF c
<1>3. c = i
  BY <1>1, SameFile
<1> QED  BY <1>2, <1>3

-----------------------------------------------------------------------------
(* Pieces.                                                                 *)

\* The smaller and the larger of two numbers.
LEMMA OfTwo ==
  ASSUME NEW a \in Int, NEW b \in Int
  PROVE  /\ Min({a, b}) = IF a <= b THEN a ELSE b
         /\ Max({a, b}) = IF a >= b THEN a ELSE b
BY DEF Min, Max

\* Division with remainder.
LEMMA Division ==
  ASSUME NEW a \in Nat, NEW b \in Nat \ {0}
  PROVE  /\ a \div b \in Nat /\ a % b \in Nat /\ a % b < b
         /\ a = b * (a \div b) + (a % b)
OBVIOUS

\* A product with a natural factor does not shrink when the other one grows.
LEMMA Products ==
  ASSUME NEW a \in Int, NEW b \in Int, NEW c \in Nat, a <= b
  PROVE  a * c <= b * c /\ c * a <= c * b /\ a * c \in Int /\ b * c \in Int
OBVIOUS

\* Where a piece begins and ends.
PieceStart(p) == p * PieceLength
PieceEnd(p)   == Min({(p + 1) * PieceLength, totalLength})

\* The torrent's length is a number.
LEMMA TotalLength ==
  ASSUME torrent \in Torrents
  PROVE  totalLength \in Nat
<1>1. 1 \in Files
  BY TorrentFacts
<1> QED  BY <1>1, FileEnds

\* A piece begins before the end of the torrent.
LEMMA PieceBegins ==
  ASSUME torrent \in Torrents, NEW p \in Pieces
  PROVE  p \in Nat /\ PieceStart(p) \in Nat /\ PieceStart(p) < totalLength
<1> DEFINE T == totalLength
           L == PieceLength
           q == (T + L - 1) \div L
<1>1. T \in Nat /\ L \in Nat \ {0}
  BY TotalLength, TorrentFacts
<1>2. p \in 0 .. q - 1
  BY DEF Pieces, numPieces
<1> HIDE DEF T, L
<1>3. T + L - 1 \in Nat
  BY <1>1
<1>4. q \in Nat /\ L * q <= T + L - 1
  BY <1>1, <1>3, Division
<1> HIDE DEF q
<1>5. p \in Nat /\ p + 1 <= q
  BY <1>2, <1>4
<1>6. L * (p + 1) <= L * q
  BY <1>1, <1>4, <1>5, Products
<1>7. L * (p + 1) = p * L + L /\ p * L \in Nat
  BY <1>1, <1>5
<1>8. p * L < T
  BY <1>1, <1>4, <1>6, <1>7
<1> QED  BY <1>5, <1>7, <1>8 DEF PieceStart, T, L

\* Where a piece ends, and how long it is.
LEMMA PieceEnds ==
  ASSUME torrent \in Torrents, NEW p \in Pieces
  PROVE  /\ PieceEnd(p) \in Nat /\ PieceStart(p) < PieceEnd(p) /\ PieceEnd(p) <= totalLength
         /\ PieceEnd(p) <= PieceStart(p) + PieceLength
         /\ PieceEnd(p) = IF PieceStart(p) + PieceLength <= totalLength
                          THEN PieceStart(p) + PieceLength ELSE totalLength
<1>1. totalLength \in Nat /\ PieceLength \in Nat \ {0}
  BY TotalLength, TorrentFacts
<1>2. p \in Nat /\ PieceStart(p) \in Nat /\ PieceStart(p) < totalLength
  BY PieceBegins
<1>3. (p + 1) * PieceLength = PieceStart(p) + PieceLength
  BY <1>1, <1>2 DEF PieceStart
<1>4. PieceEnd(p) = IF PieceStart(p) + PieceLength <= totalLength
                    THEN PieceStart(p) + PieceLength ELSE totalLength
  <2>1. PieceStart(p) + PieceLength \in Int
    BY <1>1, <1>2
  <2> QED  BY <1>1, <1>3, <2>1, OfTwo DEF PieceEnd
<1> QED  BY <1>1, <1>2, <1>4

\* The positions and the right bytes of a piece.
LEMMA PieceBytes ==
  ASSUME torrent \in Torrents, NEW p \in Pieces
  PROVE  /\ PositionsOf(p) = PieceStart(p) + 1 .. PieceEnd(p)
         /\ PositionsOf(p) \subseteq 1 .. totalLength
         /\ IsFiniteSet(PositionsOf(p))
         /\ Cardinality(PositionsOf(p)) = PieceEnd(p) - PieceStart(p)
         /\ PieceData(p) = [k \in 1 .. PieceEnd(p) - PieceStart(p) |-> PieceStart(p) + k]
<1>1. /\ PieceEnd(p) \in Nat /\ PieceStart(p) < PieceEnd(p) /\ PieceEnd(p) <= totalLength
      /\ PieceStart(p) \in Nat /\ totalLength \in Nat
  BY PieceBegins, PieceEnds, TotalLength
<1>2. PositionsOf(p) = PieceStart(p) + 1 .. PieceEnd(p)
  BY DEF PositionsOf, PieceStart, PieceEnd
<1>3. PieceStart(p) + 1 \in Int /\ PieceEnd(p) \in Int /\ ~(PieceStart(p) + 1 > PieceEnd(p))
  BY <1>1
<1>4. /\ IsFiniteSet(PositionsOf(p))
      /\ Cardinality(PositionsOf(p)) = PieceEnd(p) - (PieceStart(p) + 1) + 1
  BY <1>2, <1>3, FS_Interval
<1>5. Cardinality(PositionsOf(p)) = PieceEnd(p) - PieceStart(p)
  BY <1>1, <1>4
<1>6. PieceData(p) = [k \in 1 .. PieceEnd(p) - PieceStart(p) |-> PieceStart(p) + k]
  BY <1>5 DEF PieceData, PieceStart
<1> QED  BY <1>1, <1>2, <1>4, <1>5, <1>6

\* The bytes of a piece as a sequence.
LEMMA DataIsSequence ==
  ASSUME torrent \in Torrents, NEW p \in Pieces
  PROVE  /\ PieceData(p) \in Seq(Nat) /\ Len(PieceData(p)) = PieceEnd(p) - PieceStart(p)
         /\ \A k \in 1 .. PieceEnd(p) - PieceStart(p) : PieceData(p)[k] = PieceStart(p) + k
<1> DEFINE m == PieceEnd(p) - PieceStart(p)
           s == PieceStart(p)
<1>1. PieceData(p) = [k \in 1 .. m |-> s + k]
  BY PieceBytes
<1>2. m \in Nat /\ s \in Nat
  BY PieceBegins, PieceEnds
<1> HIDE DEF m, s
<1>3. /\ [k \in 1 .. m |-> s + k] \in Seq(Nat) /\ Len([k \in 1 .. m |-> s + k]) = m
      /\ \A k \in 1 .. m : [j \in 1 .. m |-> s + j][k] = s + k
  BY <1>2
<1> QED  BY <1>1, <1>3 DEF m, s

-----------------------------------------------------------------------------
(* The invariant.                                                          *)

\* The content of file i is right or 0 where it has a byte, and not too long.
GoodFile(c, i) ==
  /\ c \in Seq(0 .. totalLength) /\ Len(c) <= Lengths[i]
  /\ \A j \in 1 .. Len(c) : c[j] \in {0, FileStart(i) + j}

RightUpTo(f, p, e) == \A k \in PieceStart(p) + 1 .. e : ByteOf(f, k) = k

\* The position before the next byte that the goroutine writes.
At(g) == FileStart(g.file) + g.offset

WriterRecords ==
  [phase : {"writing", "report", "stats"}, piece : Pieces, file : Nat, offset : Nat,
   data : Seq(Nat)]

\* What a goroutine still has to write is the rest of its piece, from where it
\* is; what comes before is on disk.
GoodWriter(g, f) ==
  /\ g \in WriterRecords
  /\ g.phase = "writing" =>
       /\ g.file \in Files
       /\ PieceStart(g.piece) <= At(g) /\ At(g) < PieceEnd(g.piece)
       /\ Len(g.data) = PieceEnd(g.piece) - At(g)
       /\ \A k \in 1 .. Len(g.data) : g.data[k] = At(g) + k
       /\ RightUpTo(f, g.piece, At(g))
  /\ g.phase # "writing" => RightUpTo(f, g.piece, PieceEnd(g.piece))

\* The inductive invariant: files hold nothing but right bytes and holes, and
\* what counts as finished or is about to has no hole.
DiskInv ==
  /\ torrent \in Torrents
  /\ files \in [Files -> Seq(0 .. totalLength)]
  /\ \A i \in Files : GoodFile(files[i], i)
  /\ running \in BOOLEAN /\ starts \in 0 .. MaxStarts /\ left \in Int
  /\ found \subseteq Pieces /\ finishedPieces \subseteq Pieces
  /\ handed \in [Pieces -> 0 .. MaxHandovers]
  /\ DOMAIN writer = Writers
  /\ \A w \in Writers : writer[w] # Idle => GoodWriter(writer[w], files)
  /\ \A p \in finishedPieces : RightUpTo(files, p, PieceEnd(p))

\* The operators that depend on the torrent alone.
LEMMA SameTorrent ==
  ASSUME torrent' = torrent
  PROVE  /\ Lengths' = Lengths /\ Files' = Files /\ totalLength' = totalLength
         /\ PieceLength' = PieceLength /\ Pieces' = Pieces
         /\ WriterRecords' = WriterRecords
<1>1. Lengths' = Lengths /\ PieceLength' = PieceLength
  BY DEF Lengths, PieceLength
<1>2. Files' = Files /\ totalLength' = totalLength
  BY <1>1 DEF Files, totalLength, FileStart
<1>3. Pieces' = Pieces
  BY <1>1, <1>2 DEF Pieces, numPieces
<1> QED  BY <1>1, <1>2, <1>3 DEF WriterRecords

\* The places of files and pieces depend on the torrent alone.
LEMMA SamePlaces ==
  ASSUME torrent' = torrent
  PROVE  /\ \A i : FileStart(i)' = FileStart(i)
         /\ \A p : PieceStart(p)' = PieceStart(p)
         /\ \A p : PieceEnd(p)' = PieceEnd(p)
<1>1. Lengths' = Lengths /\ PieceLength' = PieceLength /\ totalLength' = totalLength
  BY SameTorrent
<1> QED  BY <1>1 DEF FileStart, PieceStart, PieceEnd

\* What a piece is made of depends on the torrent and the files.
LEMMA SameBytes ==
  ASSUME torrent' = torrent, NEW p, NEW e
  PROVE  RightUpTo(files, p, e)' <=> RightUpTo(files', p, e)
<1>2. PieceStart(p)' = PieceStart(p)
  BY SamePlaces
<1>3. ASSUME NEW k PROVE ByteOf(files, k)' = ByteOf(files', k)
  BY DEF ByteOf, Within, Files, FileStart, Lengths
<1> QED  BY <1>2, <1>3 DEF RightUpTo

\* Intact is what RightUpTo says of the whole piece.
LEMMA IntactIs ==
  ASSUME torrent \in Torrents, NEW p \in Pieces
  PROVE  Intact(p) <=> RightUpTo(files, p, PieceEnd(p))
<1>1. PositionsOf(p) = PieceStart(p) + 1 .. PieceEnd(p)
  BY PieceBytes
<1>2. ASSUME NEW k PROVE ByteAt(k) = ByteOf(files, k)
  BY DEF ByteAt, ByteOf, Within
<1> QED  BY <1>1, <1>2 DEF Intact, RightUpTo

\* What os.File.WriteAt leaves in a file.
LEMMA WriteAtEffect ==
  ASSUME NEW V, 0 \in V, NEW c \in Seq(V), NEW d \in Seq(V), NEW o \in Nat
  PROVE  /\ WriteAt(c, d, o) \in Seq(V)
         /\ Len(WriteAt(c, d, o)) = IF d = << >> \/ Len(c) >= o + Len(d)
                                    THEN Len(c) ELSE o + Len(d)
         /\ \A k \in 1 .. Len(WriteAt(c, d, o)) :
              WriteAt(c, d, o)[k] = IF k > o /\ k <= o + Len(d) THEN d[k - o]
                                    ELSE IF k <= Len(c) THEN c[k] ELSE 0
<1>1. CASE d = << >>
  <2>1. WriteAt(c, d, o) = c /\ Len(d) = 0
    BY <1>1 DEF WriteAt
  <2> QED  BY <1>1, <2>1
<1>2. CASE d # << >>
  <2> DEFINE m == IF Len(c) >= o + Len(d) THEN Len(c) ELSE o + Len(d)
             v(k) == IF k > o /\ k <= o + Len(d) THEN d[k - o]
                     ELSE IF k <= Len(c) THEN c[k] ELSE 0
             r == [k \in 1 .. m |-> v(k)]
  <2>1. Max({Len(c), o + Len(d)}) = m
    <3>1. Len(c) \in Int /\ o + Len(d) \in Int
      OBVIOUS
    <3> QED  BY <3>1, OfTwo
  <2>2. WriteAt(c, d, o) = r
    BY <1>2, <2>1 DEF WriteAt
  <2>3. m \in Nat
    OBVIOUS
  <2>4. \A k \in 1 .. m : v(k) \in V
    OBVIOUS
  <2> HIDE DEF v
  <2>5. r \in Seq(V) /\ Len(r) = m /\ \A k \in 1 .. m : r[k] = v(k)
    <3> HIDE DEF m
    <3> QED  BY <2>3, <2>4
  <2> HIDE DEF r
  <2> QED  BY <1>2, <2>2, <2>5 DEF v
<1> QED  BY <1>1, <1>2

\* Writing right bytes where they belong keeps a file good.
LEMMA GoodWrite ==
  ASSUME torrent \in Torrents, NEW i \in Files, NEW c, GoodFile(c, i),
         NEW d \in Seq(Nat), NEW o \in Nat, o + Len(d) <= Lengths[i],
         \A k \in 1 .. Len(d) : d[k] = FileStart(i) + o + k
  PROVE  /\ GoodFile(WriteAt(c, d, o), i)
         /\ Len(c) <= Len(WriteAt(c, d, o))
         /\ \A j \in 1 .. Len(c) : c[j] = FileStart(i) + j
                                     => WriteAt(c, d, o)[j] = FileStart(i) + j
         /\ \A j \in o + 1 .. o + Len(d) : /\ j <= Len(WriteAt(c, d, o))
                                           /\ WriteAt(c, d, o)[j] = FileStart(i) + j
<1> DEFINE V == 0 .. totalLength
           r == WriteAt(c, d, o)
           s == FileStart(i)
<1>1. s \in Nat /\ Lengths[i] \in Nat /\ totalLength \in Nat /\ s + Lengths[i] <= totalLength
  BY FileEnds
<1>2. /\ c \in Seq(V) /\ 0 \in V /\ Len(c) <= Lengths[i]
      /\ \A j \in 1 .. Len(c) : c[j] \in {0, s + j}
  BY <1>1 DEF GoodFile
<1>3. Len(d) \in Nat /\ Len(c) \in Nat
  BY <1>2
<1>4. d \in Seq(V)
  <2>1. \A k \in 1 .. Len(d) : d[k] \in V
    BY <1>1, <1>3
  <2> HIDE DEF V
  <2> QED  BY <2>1
<1>5. /\ r \in Seq(V)
      /\ Len(r) = IF d = << >> \/ Len(c) >= o + Len(d) THEN Len(c) ELSE o + Len(d)
      /\ \A k \in 1 .. Len(r) : r[k] = IF k > o /\ k <= o + Len(d) THEN d[k - o]
                                       ELSE IF k <= Len(c) THEN c[k] ELSE 0
  <2> HIDE DEF V
  <2> QED  BY <1>2, <1>4, WriteAtEffect
<1> HIDE DEF r, V, s
<1>6. Len(r) \in Nat /\ Len(c) <= Len(r) /\ Len(r) <= Lengths[i]
  BY <1>1, <1>2, <1>3, <1>5
<1>7. d = << >> => Len(d) = 0
  OBVIOUS
<1>8. ASSUME NEW j \in o + 1 .. o + Len(d) PROVE j <= Len(r) /\ r[j] = s + j
  <2>1. j \in 1 .. Len(r) /\ j - o \in 1 .. Len(d)
    BY <1>3, <1>5, <1>7
  <2>2. r[j] = d[j - o]
    BY <1>3, <1>5, <2>1
  <2>3. d[j - o] = s + o + (j - o)
    BY <2>1 DEF s
  <2> QED  BY <1>1, <1>3, <2>1, <2>2, <2>3
<1>9. ASSUME NEW j \in 1 .. Len(r), j \notin o + 1 .. o + Len(d)
      PROVE  r[j] = IF j <= Len(c) THEN c[j] ELSE 0
  BY <1>3, <1>5, <1>6, <1>9
<1>10. ASSUME NEW j \in 1 .. Len(r) PROVE r[j] \in {0, s + j}
  <2>1. CASE j \in o + 1 .. o + Len(d)
    BY <1>8, <2>1
  <2>2. CASE j \notin o + 1 .. o + Len(d)
    <3>1. j <= Len(c) => j \in 1 .. Len(c)
      BY <1>3, <1>6
    <3> QED  BY <1>2, <1>9, <2>2, <3>1
  <2> QED  BY <2>1, <2>2
<1>11. GoodFile(r, i)
  BY <1>5, <1>6, <1>10 DEF GoodFile, V, s
<1>12. ASSUME NEW j \in 1 .. Len(c), c[j] = s + j PROVE r[j] = s + j
  <2>1. j \in 1 .. Len(r) /\ j <= Len(c)
    BY <1>3, <1>6
  <2> QED  BY <1>8, <1>9, <1>12, <2>1
<1> QED  BY <1>6, <1>8, <1>11, <1>12 DEF r, s

\* Every file is there and good.
GoodDisk(f) == /\ f \in [Files -> Seq(0 .. totalLength)]
               /\ \A i \in Files : GoodFile(f[i], i)

\* What is right in f is right in g.
Keeps(f, g) == \A k \in 1 .. totalLength : ByteOf(f, k) = k => ByteOf(g, k) = k

RightBetween(f, a, b) == \A k \in a + 1 .. b : ByteOf(f, k) = k

\* Such a write keeps the right bytes of all files and adds its own.
LEMMA DiskWrite ==
  ASSUME torrent \in Torrents, NEW f, GoodDisk(f), NEW i \in Files,
         NEW d \in Seq(Nat), NEW o \in Nat, o + Len(d) <= Lengths[i],
         \A k \in 1 .. Len(d) : d[k] = FileStart(i) + o + k,
         NEW g, g = [f EXCEPT ![i] = WriteAt(f[i], d, o)]
  PROVE  /\ GoodDisk(g) /\ Keeps(f, g)
         /\ RightBetween(g, FileStart(i) + o, FileStart(i) + o + Len(d))
<1> DEFINE r == WriteAt(f[i], d, o)
           s == FileStart(i)
<1>1. GoodFile(f[i], i)
  BY DEF GoodDisk
<1>2. /\ GoodFile(r, i) /\ Len(f[i]) <= Len(r)
      /\ \A j \in 1 .. Len(f[i]) : f[i][j] = s + j => r[j] = s + j
      /\ \A j \in o + 1 .. o + Len(d) : j <= Len(r) /\ r[j] = s + j
  BY <1>1, GoodWrite
<1>3. s \in Nat /\ Lengths[i] \in Nat /\ totalLength \in Nat
  BY FileEnds
<1> HIDE DEF r
<1>4. g[i] = r /\ \A j \in Files \ {i} : g[j] = f[j]
  BY DEF GoodDisk, r
<1>5. GoodDisk(g)
  <2>1. r \in Seq(0 .. totalLength)
    BY <1>2 DEF GoodFile
  <2>2. g \in [Files -> Seq(0 .. totalLength)]
    BY <2>1 DEF GoodDisk, r
  <2>3. \A j \in Files : GoodFile(g[j], j)
    BY <1>2, <1>4 DEF GoodDisk
  <2> QED  BY <2>2, <2>3 DEF GoodDisk
<1>6. Len(f[i]) \in Nat /\ Len(r) \in Nat /\ Len(d) \in Nat
  BY <1>1, <1>2 DEF GoodFile
<1>7. ASSUME NEW k \in 1 .. totalLength, ByteOf(f, k) = k PROVE ByteOf(g, k) = k
  <2>1. PICK j \in Files : Within(k, j)
    BY OneFile
  <2>2. k \in Int /\ k > 0
    BY <1>3
  <2>3. /\ ByteOf(f, k) = IF k - FileStart(j) <= Len(f[j]) THEN f[j][k - FileStart(j)] ELSE 0
        /\ ByteOf(g, k) = IF k - FileStart(j) <= Len(g[j]) THEN g[j][k - FileStart(j)] ELSE 0
    BY <2>1, <2>2, ByteIs
  <2>4. CASE j # i
    BY <1>4, <1>7, <2>3, <2>4
  <2>5. CASE j = i
    <3>1. k - s <= Len(f[i]) /\ f[i][k - s] = k
      BY <1>7, <2>2, <2>3, <2>5
    <3>2. k - s \in 1 .. Len(f[i]) /\ s + (k - s) = k
      BY <1>3, <1>6, <2>1, <2>2, <2>5, <3>1 DEF Within
    <3>3. r[k - s] = k
      BY <1>2, <3>1, <3>2
    <3>4. k - s <= Len(r)
      BY <1>2, <1>3, <1>6, <2>2, <3>1
    <3> QED  BY <1>4, <2>3, <2>5, <3>3, <3>4
  <2> QED  BY <2>4, <2>5
<1>8. ASSUME NEW k \in s + o + 1 .. s + o + Len(d) PROVE ByteOf(g, k) = k
  <2>1. k \in Int /\ Within(k, i) /\ k - s \in o + 1 .. o + Len(d) /\ s + (k - s) = k
    <3> DEFINE m == Len(d)
    <3>1. m \in Nat /\ o + m <= Lengths[i] /\ k \in s + o + 1 .. s + o + m
      BY <1>6
    <3>2. k \in Int /\ s < k /\ k <= s + Lengths[i] /\ k - s \in o + 1 .. o + m
      <4> HIDE DEF m, s
      <4> QED  BY <1>3, <3>1
    <3> QED  BY <1>3, <3>2 DEF Within
  <2>2. k - s <= Len(r) /\ r[k - s] = k
    BY <1>2, <2>1
  <2>3. ByteOf(g, k) = IF k - s <= Len(g[i]) THEN g[i][k - s] ELSE 0
    BY <2>1, ByteIs
  <2> QED  BY <1>4, <2>2, <2>3
<1> QED  BY <1>5, <1>7, <1>8 DEF Keeps, RightBetween

\* Bytes that are right stay right in the part of a piece that is.
LEMMA PartKept ==
  ASSUME torrent \in Torrents, NEW f, NEW g, NEW p \in Pieces, NEW e \in Int,
         e <= PieceEnd(p), RightUpTo(f, p, e), Keeps(f, g)
  PROVE  RightUpTo(g, p, e)
<1>1. /\ PieceStart(p) \in Nat /\ PieceEnd(p) \in Nat /\ PieceEnd(p) <= totalLength
      /\ totalLength \in Nat
  BY PieceBegins, PieceEnds, TotalLength
<1>2. \A k \in PieceStart(p) + 1 .. e : k \in 1 .. totalLength
  BY <1>1
<1> QED  BY <1>2 DEF RightUpTo, Keeps

\* So do the goroutines that write other pieces.
LEMMA WriterKept ==
  ASSUME torrent \in Torrents, NEW f, NEW h, NEW g, GoodWriter(g, f), Keeps(f, h)
  PROVE  GoodWriter(g, h)
<1>1. g \in WriterRecords
  BY DEF GoodWriter
<1>2. g.piece \in Pieces /\ g.offset \in Nat
  BY <1>1 DEF WriterRecords
<1>3. PieceEnd(g.piece) \in Nat
  BY <1>2, PieceEnds
<1>4. CASE g.phase = "writing"
  <2>1. /\ g.file \in Files /\ At(g) < PieceEnd(g.piece) /\ RightUpTo(f, g.piece, At(g))
    BY <1>4 DEF GoodWriter
  <2>2. At(g) \in Int
    BY <1>2, <2>1, FileEnds DEF At
  <2>3. RightUpTo(h, g.piece, At(g))
    BY <1>2, <1>3, <2>1, <2>2, PartKept
  <2> QED  BY <1>4, <2>3 DEF GoodWriter
<1>5. CASE g.phase # "writing"
  <2>1. RightUpTo(f, g.piece, PieceEnd(g.piece))
    BY <1>5 DEF GoodWriter
  <2>2. RightUpTo(h, g.piece, PieceEnd(g.piece))
    BY <1>2, <1>3, <2>1, PartKept
  <2> QED  BY <1>5, <2>2 DEF GoodWriter
<1> QED  BY <1>4, <1>5

-----------------------------------------------------------------------------
(* The stream of all files.                                                *)

\* c lists the concatenations of the first sequences of f.
Concatenates(c, V, n, f) ==
  /\ c \in [1 .. n -> Seq(V)] /\ c[1] = f[1]
  /\ \A i \in 2 .. n : c[i] = c[i - 1] \o f[i]

\* FlattenSeq is the last concatenation.
LEMMA Flattened ==
  ASSUME NEW V, NEW n \in Nat \ {0}, NEW f \in [1 .. n -> Seq(V)]
  PROVE  \E c : Concatenates(c, V, n, f) /\ FlattenSeq(f) = c[n]
<1> DEFINE Solves(c) == c = [i \in 1 .. n |-> IF i = 1 THEN f[i] ELSE c[i - 1] \o f[i]]
           flatten == CHOOSE c : Solves(c)
           Q == Seq(V)
           g == [x \in Q \X (1 .. n) |-> x[1] \o f[x[2]]]
<1>1. << >> \in Q /\ g \in [Q \X (1 .. n) -> Q]
  OBVIOUS
<1>2. \A x \in Q, i \in 1 .. n : g[<<x, i>>] = x \o f[i]
  OBVIOUS
<1> HIDE DEF g
<1>3. PICK u : FollowsRule(u, Q, n, << >>, g)
  <2> HIDE DEF Q
  <2> QED  BY <1>1, Recurrence
<1>4. ASSUME NEW i \in 1 .. n PROVE u[i] \in Q /\ u[i] = u[i - 1] \o f[i]
  <2>1. i \in 0 .. n /\ i - 1 \in 0 .. n
    OBVIOUS
  <2>2. u[i - 1] \in Q /\ u[i] \in Q /\ u[i] = g[<<u[i - 1], i>>]
    BY <1>3, <2>1 DEF FollowsRule
  <2> QED  BY <1>2, <2>2
<1>5. u[1] = f[1]
  <2>1. 1 \in 1 .. n /\ 1 - 1 = 0 /\ u[0] = << >>
    BY <1>3 DEF FollowsRule
  <2>2. u[1] = << >> \o f[1]
    BY <1>4, <2>1
  <2>3. f[1] \in Seq(V)
    BY <2>1
  <2> QED  BY <2>2, <2>3
<1> DEFINE h == [i \in 1 .. n |-> u[i]]
<1>6. \A i \in 1 .. n : h[i] = IF i = 1 THEN f[i] ELSE h[i - 1] \o f[i]
  <2> TAKE i \in 1 .. n
  <2>1. CASE i = 1
    BY <1>5, <2>1
  <2>2. CASE i # 1
    <3>1. i - 1 \in 1 .. n
      BY <2>2
    <3> QED  BY <1>4, <2>2, <3>1
  <2> QED  BY <2>1, <2>2
<1>7. Solves(h)
  <2>1. h = [i \in 1 .. n |-> h[i]]
    OBVIOUS
  <2> HIDE DEF h
  <2> QED  BY <1>6, <2>1
<1> HIDE DEF h
<1>8. PICK c : Solves(c) /\ FlattenSeq(f) = c[n]
  <2>1. Solves(flatten)
    BY <1>7
  <2>2. Len(f) = n
    OBVIOUS
  <2>3. FlattenSeq(f) = flatten[n]
    BY <2>2 DEF FlattenSeq
  <2> HIDE DEF flatten, Solves
  <2> QED  BY <2>1, <2>3
<1>9. \A i \in 1 .. n : c[i] = IF i = 1 THEN f[i] ELSE c[i - 1] \o f[i]
  BY <1>8
<1> DEFINE S == {k \in 0 .. n - 1 : c[k + 1] \in Q}
<1>10. 0 \in S
  BY <1>9
<1>11. ASSUME NEW k \in 0 .. n - 1, k \in S, k < n - 1 PROVE k + 1 \in S
  <2>1. (k + 1) + 1 \in 1 .. n /\ (k + 1) + 1 # 1 /\ ((k + 1) + 1) - 1 = k + 1
    BY <1>11
  <2>2. c[(k + 1) + 1] = c[k + 1] \o f[(k + 1) + 1] /\ f[(k + 1) + 1] \in Seq(V)
    BY <1>9, <2>1
  <2>3. c[k + 1] \in Seq(V) /\ k + 1 \in 0 .. n - 1
    BY <1>11
  <2>4. c[(k + 1) + 1] \in Q
    BY <2>2, <2>3
  <2> QED  BY <2>3, <2>4
<1>12. \A k \in 0 .. n - 1 : k \in S
  <2>1. n - 1 \in Nat
    OBVIOUS
  <2> HIDE DEF S
  <2> QED  BY <1>10, <1>11, <2>1, InductionUpTo
<1>13. ASSUME NEW i \in 1 .. n PROVE c[i] \in Seq(V)
  <2>1. i - 1 \in 0 .. n - 1 /\ (i - 1) + 1 = i
    OBVIOUS
  <2> QED  BY <1>12, <2>1
<1>14. DOMAIN c = 1 .. n
  BY <1>8
<1>15. c = [i \in 1 .. n |-> c[i]]
  BY <1>8
<1>16. c \in [1 .. n -> Seq(V)]
  BY <1>13, <1>15
<1>17. 1 \in 1 .. n /\ \A i \in 2 .. n : i \in 1 .. n /\ i # 1
  OBVIOUS
<1>18. c[1] = f[1] /\ \A i \in 2 .. n : c[i] = c[i - 1] \o f[i]
  BY <1>9, <1>17
<1> QED  BY <1>8, <1>16, <1>18 DEF Concatenates

\* The elements of r are those of s and then those of t.
Joins(r, s, t) ==
  /\ Len(r) = Len(s) + Len(t)
  /\ \A m \in 1 .. Len(s) : r[m] = s[m]
  /\ \A m \in 1 .. Len(t) : r[Len(s) + m] = t[m]

\* What the concatenation of two sequences is.
LEMMA Joined ==
  ASSUME NEW V, NEW s \in Seq(V), NEW t \in Seq(V), NEW r, r = s \o t
  PROVE  Joins(r, s, t)
BY DEF Joins

\* Each element of r is one of s in the same place, or one of t.
MadeOf(r, s, t) ==
  \A m \in 1 .. Len(r) : \/ m \in 1 .. Len(s) /\ r[m] = s[m]
                         \/ \E x \in 1 .. Len(t) : r[m] = t[x]

\* An element of the concatenation is one of the first or of the second.
LEMMA JoinedFrom ==
  ASSUME NEW V, NEW s \in Seq(V), NEW t \in Seq(V), NEW r, r = s \o t
  PROVE  MadeOf(r, s, t)
<1> SUFFICES ASSUME NEW m \in 1 .. Len(r)
             PROVE  \/ m \in 1 .. Len(s) /\ r[m] = s[m]
                    \/ \E x \in 1 .. Len(t) : r[m] = t[x]
  BY DEF MadeOf
<1>1. Len(s) \in Nat /\ Len(t) \in Nat /\ Len(s \o t) = Len(s) + Len(t)
  OBVIOUS
<1>2. CASE m <= Len(s)
  BY <1>1, <1>2
<1>3. CASE m > Len(s)
  <2>1. m - Len(s) \in 1 .. Len(t)
    BY <1>1, <1>3
  <2>2. (s \o t)[m] = t[m - Len(s)]
    BY <1>1, <1>3
  <2> QED  BY <2>1, <2>2
<1> QED  BY <1>1, <1>2, <1>3

\* x is an element of one of the sequences f[1], ..., f[n].
DrawnFrom(x, n, f) == \E i \in 1 .. n : \E j \in 1 .. Len(f[i]) : x = f[i][j]

\* A byte of the stream is one of a file.
LEMMA FromSomeFile ==
  ASSUME NEW V, NEW n \in Nat \ {0}, NEW f \in [1 .. n -> Seq(V)]
  PROVE  /\ FlattenSeq(f) \in Seq(V)
         /\ \A m \in 1 .. Len(FlattenSeq(f)) : DrawnFrom(FlattenSeq(f)[m], n, f)
<1>1. PICK c : Concatenates(c, V, n, f) /\ FlattenSeq(f) = c[n]
  BY Flattened
<1> DEFINE Drawn(x) == DrawnFrom(x, n, f)
           S == {k \in 0 .. n - 1 : \A m \in 1 .. Len(c[k + 1]) : Drawn(c[k + 1][m])}
<1>2. 0 \in S
  <2>1. c[1] = f[1] /\ 1 \in 1 .. n /\ 0 + 1 = 1 /\ 0 \in 0 .. n - 1
    BY <1>1 DEF Concatenates
  <2>2. \A m \in 1 .. Len(c[1]) : Drawn(c[1][m])
    BY <2>1 DEF DrawnFrom
  <2> QED  BY <2>1, <2>2
<1>3. ASSUME NEW k \in 0 .. n - 1, k \in S, k < n - 1 PROVE k + 1 \in S
  <2> DEFINE i == (k + 1) + 1
  <2>1. i \in 2 .. n /\ i - 1 = k + 1 /\ i \in 1 .. n /\ k + 1 \in 1 .. n /\ k + 1 \in 0 .. n - 1
    BY <1>3
  <2>2. c[i] = c[k + 1] \o f[i] /\ c[k + 1] \in Seq(V) /\ f[i] \in Seq(V)
    BY <1>1, <2>1 DEF Concatenates
  <2> HIDE DEF i
  <2>3. ASSUME NEW m \in 1 .. Len(c[i]) PROVE Drawn(c[i][m])
    <3>1. \/ m \in 1 .. Len(c[k + 1]) /\ c[i][m] = c[k + 1][m]
          \/ \E x \in 1 .. Len(f[i]) : c[i][m] = f[i][x]
      <4>2. MadeOf(c[i], c[k + 1], f[i])
        BY <2>2, JoinedFrom
      <4> QED  BY <4>2 DEF MadeOf
    <3>2. m \in 1 .. Len(c[k + 1]) => Drawn(c[k + 1][m])
      BY <1>3
    <3> QED  BY <2>1, <3>1, <3>2 DEF DrawnFrom
  <2> QED  BY <2>1, <2>3 DEF i
<1> HIDE DEF S
<1>4. n - 1 \in Nat /\ n - 1 \in 0 .. n - 1 /\ (n - 1) + 1 = n /\ n \in 1 .. n
  OBVIOUS
<1>5. n - 1 \in S
  BY <1>2, <1>3, <1>4, InductionUpTo
<1>6. \A m \in 1 .. Len(c[n]) : Drawn(c[n][m])
  BY <1>4, <1>5 DEF S
<1>7. c[n] \in Seq(V)
  BY <1>1, <1>4 DEF Concatenates
<1> QED  BY <1>1, <1>6, <1>7

\* A byte of the stream that is not 0 is right where it belongs.
LEMMA StreamByte ==
  ASSUME torrent \in Torrents, GoodDisk(files), NEW m \in 1 .. Len(Contents),
         NEW k \in Nat \ {0}, Contents[m] = k
  PROVE  ByteOf(files, k) = k
<1> DEFINE n == Len(Lengths)
           V == 0 .. totalLength
<1>1. n \in Nat \ {0} /\ Files = 1 .. n
  BY TorrentFacts
<1>2. files \in [1 .. n -> Seq(V)]
  BY <1>1 DEF GoodDisk
<1>3. DrawnFrom(Contents[m], n, files)
  <2> HIDE DEF V, n
  <2> QED  BY <1>1, <1>2, FromSomeFile DEF Contents
<1>0. PICK i \in 1 .. n : \E j \in 1 .. Len(files[i]) : Contents[m] = files[i][j]
  BY <1>3 DEF DrawnFrom
<1>4. PICK j \in 1 .. Len(files[i]) : Contents[m] = files[i][j]
  BY <1>0
<1>5. i \in Files /\ GoodFile(files[i], i)
  BY <1>1 DEF GoodDisk
<1>6. files[i][j] = k /\ files[i][j] \in {0, FileStart(i) + j} /\ Len(files[i]) <= Lengths[i]
  BY <1>4, <1>5 DEF GoodFile
<1>7. k = FileStart(i) + j
  BY <1>6
<1>8. FileStart(i) \in Nat /\ Lengths[i] \in Nat /\ Len(files[i]) \in Nat
  BY <1>5, FileEnds DEF GoodFile
<1>9. Within(k, i) /\ k - FileStart(i) = j /\ j <= Len(files[i])
  BY <1>6, <1>7, <1>8 DEF Within
<1> QED  BY <1>5, <1>6, <1>9, ByteIs

\* What a chunk of the stream is.
LEMMA Chunk ==
  ASSUME NEW V, NEW s \in Seq(V), NEW a \in Nat, NEW b \in Int, a < b, b <= Len(s)
  PROVE  /\ SubSeq(s, a + 1, b) \in Seq(V) /\ Len(SubSeq(s, a + 1, b)) = b - a
         /\ \A k \in 1 .. b - a : SubSeq(s, a + 1, b)[k] = s[a + k]
OBVIOUS

\* A piece that Verify returns is right on disk.
LEMMA VerifyRight ==
  ASSUME torrent \in Torrents, GoodDisk(files), NEW p \in Verify
  PROVE  p \in Pieces /\ RightUpTo(files, p, PieceEnd(p))
<1> DEFINE a == PieceStart(p)
           e == PieceEnd(p)
           l == Len(Contents)
           b == Min({(p + 1) * PieceLength, l})
           V == 0 .. totalLength
<1>1. p \in Pieces /\ SubSeq(Contents, a + 1, b) = PieceData(p)
  BY DEF Verify, PieceStart
<1>2. a \in Nat /\ e \in Nat /\ a < e
  BY <1>1, PieceBegins, PieceEnds
<1>3. Contents \in Seq(V) /\ l \in Nat
  <2>1. Len(Lengths) \in Nat \ {0} /\ files \in [1 .. Len(Lengths) -> Seq(V)]
    BY TorrentFacts DEF GoodDisk
  <2>2. Contents \in Seq(V)
    <3> HIDE DEF V
    <3> QED  BY <2>1, FromSomeFile DEF Contents
  <2> QED  BY <2>2
<1>4. b \in Int /\ b <= l
  <2>1. (p + 1) * PieceLength \in Int
    BY <1>1, PieceBegins, TorrentFacts
  <2> QED  BY <1>3, <2>1, OfTwo
<1>5. Len(PieceData(p)) = e - a /\ \A k \in 1 .. e - a : PieceData(p)[k] = a + k
  BY <1>1, DataIsSequence
<1> HIDE DEF b, l, a, e, V
<1>6. a < b
  <2> SUFFICES ASSUME ~(a < b) PROVE FALSE
    OBVIOUS
  <2>1. Len(SubSeq(Contents, a + 1, b)) = 0
    BY <1>2, <1>3, <1>4
  <2>2. Len(PieceData(p)) = 0
    BY <1>1, <2>1
  <2> QED  BY <1>2, <1>5, <2>2
<1>7. b - a = e - a /\ \A k \in 1 .. b - a : SubSeq(Contents, a + 1, b)[k] = Contents[a + k]
  <2>1. Len(SubSeq(Contents, a + 1, b)) = b - a
    BY <1>2, <1>3, <1>4, <1>6, Chunk DEF l
  <2> QED  BY <1>1, <1>2, <1>3, <1>4, <1>5, <1>6, <2>1, Chunk DEF l
<1>8. ASSUME NEW k \in a + 1 .. e PROVE ByteOf(files, k) = k
  <2>1. k - a \in 1 .. e - a /\ a + (k - a) = k /\ k \in Nat \ {0} /\ k \in 1 .. l
    BY <1>2, <1>3, <1>4, <1>7
  <2>2. Contents[k] = k
    BY <1>1, <1>5, <1>7, <2>1
  <2> QED  BY <2>1, <2>2, StreamByte DEF l
<1> QED  BY <1>1, <1>8 DEF RightUpTo, a, e

-----------------------------------------------------------------------------
(* The invariant holds.                                                    *)

\* What a step that leaves the torrent alone has to establish.
LEMMA InvNext ==
  ASSUME torrent \in Torrents, torrent' = torrent, GoodDisk(files'),
         running' \in BOOLEAN, starts' \in 0 .. MaxStarts, left' \in Int,
         found' \subseteq Pieces, finishedPieces' \subseteq Pieces,
         handed' \in [Pieces -> 0 .. MaxHandovers], DOMAIN writer' = Writers,
         \A w \in Writers : writer'[w] # Idle => GoodWriter(writer'[w], files'),
         \A p \in finishedPieces' : RightUpTo(files', p, PieceEnd(p))
  PROVE  DiskInv'
<1>1. /\ Lengths' = Lengths /\ Files' = Files /\ totalLength' = totalLength
      /\ Pieces' = Pieces /\ WriterRecords' = WriterRecords
  BY SameTorrent
<1>2. \A i : FileStart(i)' = FileStart(i)
  BY SamePlaces
<1>3. \A p : PieceStart(p)' = PieceStart(p)
  BY SamePlaces
<1>4. \A p : PieceEnd(p)' = PieceEnd(p)
  BY SamePlaces
<1>5. \A p, e : RightUpTo(files, p, e)' <=> RightUpTo(files', p, e)
  BY SameBytes
<1>6. (\A i \in Files : GoodFile(files[i], i))'
  BY <1>1, <1>2 DEF GoodDisk, GoodFile
<1>7. ASSUME NEW w \in Writers, writer'[w] # Idle PROVE GoodWriter(writer[w], files)'
  <2>1. GoodWriter(writer'[w], files')
    BY <1>7
  <2>2. At(writer[w])' = At(writer'[w])
    BY <1>2 DEF At
  <2>3. writer'[w] \in WriterRecords'
    BY <1>1, <2>1 DEF GoodWriter
  <2>4. writer'[w].phase # "writing" => RightUpTo(files, writer[w].piece, PieceEnd(writer[w].piece))'
    BY <1>4, <1>5, <2>1 DEF GoodWriter
  <2>5. writer'[w].phase = "writing" => RightUpTo(files, writer[w].piece, At(writer[w]))'
    BY <1>5, <2>1, <2>2 DEF GoodWriter
  <2> QED  BY <1>1, <1>3, <1>4, <2>1, <2>2, <2>3, <2>4, <2>5 DEF GoodWriter
<1>8. ASSUME NEW p \in finishedPieces' PROVE RightUpTo(files, p, PieceEnd(p))'
  BY <1>4, <1>5
<1> QED  BY <1>1, <1>6, <1>7, <1>8 DEF DiskInv, GoodDisk

\* What the invariant says of the files.
LEMMA InvDisk == ASSUME DiskInv PROVE torrent \in Torrents /\ GoodDisk(files)
BY DEF DiskInv, GoodDisk

\* At first there are no files and no goroutines.
LEMMA DiskInvInit == StInit => DiskInv
<1> SUFFICES ASSUME StInit PROVE DiskInv
  OBVIOUS
<1>1. torrent \in Torrents
  BY DEF StInit
<1>2. Len(Lengths) \in Nat /\ \A i \in Files : Lengths[i] \in Nat
  BY <1>1, TorrentFacts
<1>3. \A i \in Files : GoodFile(<< >>, i)
  BY <1>2 DEF GoodFile
<1>4. /\ files = [i \in Files |-> << >>] /\ << >> \in Seq(0 .. totalLength)
  BY DEF StInit
<1>5. \A i \in Files : files[i] = << >>
  BY <1>4
<1>6. files \in [Files -> Seq(0 .. totalLength)] /\ \A i \in Files : GoodFile(files[i], i)
  BY <1>3, <1>4, <1>5
<1>7. MaxHandovers \in Nat /\ MaxStarts \in Nat
  BY StorageAssumption
<1>8. handed \in [Pieces -> 0 .. MaxHandovers] /\ starts \in 0 .. MaxStarts
  BY <1>7 DEF StInit
<1>9. DOMAIN writer = Writers /\ \A w \in Writers : writer[w] = Idle
  BY DEF StInit
<1>10. left \in Int /\ found = {} /\ finishedPieces = {}
  BY DEF StInit
<1>11. running \in BOOLEAN
  BY Zenon DEF StInit
<1> QED  BY <1>1, <1>6, <1>8, <1>9, <1>10, <1>11 DEF DiskInv

\* Pieces are finitely many.
LEMMA PiecesFinite ==
  ASSUME torrent \in Torrents
  PROVE  IsFiniteSet(Pieces) /\ \A P \in SUBSET Pieces : Cardinality(P) \in Nat
<1>1. numPieces \in Int
  BY TotalLength, TorrentFacts DEF numPieces
<1>2. IsFiniteSet(Pieces)
  BY <1>1, FS_Interval DEF Pieces
<1> QED  BY <1>2, FS_Subset, FS_CardinalityType

\* Starting believes only in pieces that are right.
LEMMA DiskInvStart == DiskInv /\ Start => DiskInv'
<1> SUFFICES ASSUME DiskInv, Start PROVE DiskInv'
  OBVIOUS
<1>1. torrent \in Torrents /\ GoodDisk(files)
  BY InvDisk
<1>2. /\ torrent' = torrent /\ files' = files /\ writer' = writer /\ running' = TRUE
      /\ found' = Verify /\ finishedPieces' = Verify
  BY DEF Start
<1>3. starts' \in 0 .. MaxStarts
  BY StorageAssumption DEF Start, DiskInv
<1>4. Verify \subseteq Pieces /\ \A p \in Verify : RightUpTo(files, p, PieceEnd(p))
  BY <1>1, VerifyRight
<1>5. left' \in Int
  <2>1. Cardinality(Verify) \in Nat /\ totalLength \in Nat /\ PieceLength \in Nat
    BY <1>1, <1>4, PiecesFinite, TotalLength, TorrentFacts
  <2>2. left' = totalLength - PieceLength * Cardinality(Verify)
    BY DEF Start, calcBytesLeft
  <2> QED  BY <2>1, <2>2
<1>6. handed' \in [Pieces -> 0 .. MaxHandovers]
  BY StorageAssumption DEF Start
<1>7. DOMAIN writer = Writers /\ \A w \in Writers : writer[w] # Idle => GoodWriter(writer[w], files)
  BY DEF DiskInv
<1> QED  BY <1>1, <1>2, <1>3, <1>4, <1>5, <1>6, <1>7, InvNext

\* The process ends, by itself or because a block cannot be read.
LEMMA DiskInvEnd ==
  ASSUME DiskInv, torrent' = torrent, files' = files, starts' = starts, found' = found,
         finishedPieces' = finishedPieces, handed' = handed, left' = left,
         running' \in BOOLEAN, writer' \in {writer, [w \in Writers |-> Idle]}
  PROVE  DiskInv'
<1>1. torrent \in Torrents /\ GoodDisk(files)
  BY InvDisk
<1>2. /\ starts \in 0 .. MaxStarts /\ left \in Int /\ found \subseteq Pieces
      /\ finishedPieces \subseteq Pieces /\ handed \in [Pieces -> 0 .. MaxHandovers]
      /\ \A p \in finishedPieces : RightUpTo(files, p, PieceEnd(p))
  BY DEF DiskInv
<1>3. /\ DOMAIN writer' = Writers
      /\ \A w \in Writers : writer'[w] # Idle => GoodWriter(writer'[w], files)
  BY DEF DiskInv
<1> QED  BY <1>1, <1>2, <1>3, InvNext

\* A piece is handed to a goroutine, which has all of it to write.
LEMMA DiskInvHandOver ==
  ASSUME DiskInv, NEW w \in Writers, NEW p \in Pieces, HandOver(w, p)
  PROVE  DiskInv'
<1>1. torrent \in Torrents /\ GoodDisk(files)
  BY InvDisk
<1>2. /\ starts \in 0 .. MaxStarts /\ left \in Int /\ found \subseteq Pieces
      /\ running \in BOOLEAN
      /\ finishedPieces \subseteq Pieces /\ handed \in [Pieces -> 0 .. MaxHandovers]
      /\ \A q \in finishedPieces : RightUpTo(files, q, PieceEnd(q))
  BY DEF DiskInv
<1>3. handed' \in [Pieces -> 0 .. MaxHandovers]
  BY <1>2, StorageAssumption DEF HandOver
<1> DEFINE g == [phase |-> "writing", piece |-> p, file |-> 1, offset |-> p * PieceLength,
                 data |-> PieceData(p)]
<1>4. /\ p \in Nat /\ PieceStart(p) \in Nat /\ PieceEnd(p) \in Nat
      /\ PieceStart(p) < PieceEnd(p)
  BY <1>1, PieceBegins, PieceEnds
<1>5. /\ PieceData(p) \in Seq(Nat) /\ Len(PieceData(p)) = PieceEnd(p) - PieceStart(p)
      /\ \A k \in 1 .. PieceEnd(p) - PieceStart(p) : PieceData(p)[k] = PieceStart(p) + k
  BY <1>1, DataIsSequence
<1>6. g \in WriterRecords
  BY <1>4, <1>5 DEF WriterRecords, PieceStart
<1>7. At(g) = PieceStart(p)
  <2>1. FileStart(1) = 0
    BY <1>1, FileStarts
  <2>2. At(g) = FileStart(1) + PieceStart(p)
    BY DEF At, PieceStart
  <2> QED  BY <1>4, <2>1, <2>2
<1>8. 1 \in Files
  BY <1>1, TorrentFacts
<1>9. RightUpTo(files, p, PieceStart(p))
  BY <1>4 DEF RightUpTo
<1>10. g.phase = "writing" /\ g.piece = p /\ g.file = 1 /\ g.data = PieceData(p)
  OBVIOUS
<1>11. writer' = [writer EXCEPT ![w] = g]
  BY DEF HandOver
<1> HIDE DEF g
<1>12. GoodWriter(g, files)
  BY <1>4, <1>5, <1>6, <1>7, <1>8, <1>9, <1>10 DEF GoodWriter
<1>13. /\ DOMAIN writer' = Writers
       /\ \A v \in Writers : writer'[v] # Idle => GoodWriter(writer'[v], files)
  BY <1>11, <1>12 DEF DiskInv
<1>14. UNCHANGED <<torrent, files, running, starts, found, finishedPieces, left>>
  BY DEF HandOver
<1> QED  BY <1>1, <1>2, <1>3, <1>13, <1>14, InvNext

\* A goroutine reports a piece that it has written, and then its bytes.
LEMMA DiskInvReport ==
  ASSUME DiskInv, NEW w \in Writers, ReportPiece(w) \/ ReportBytes(w)
  PROVE  DiskInv'
<1>1. torrent \in Torrents /\ GoodDisk(files)
  BY InvDisk
<1>2. /\ starts \in 0 .. MaxStarts /\ left \in Int /\ found \subseteq Pieces
      /\ running \in BOOLEAN
      /\ finishedPieces \subseteq Pieces /\ handed \in [Pieces -> 0 .. MaxHandovers]
      /\ \A q \in finishedPieces : RightUpTo(files, q, PieceEnd(q))
      /\ DOMAIN writer = Writers
      /\ \A v \in Writers : writer[v] # Idle => GoodWriter(writer[v], files)
  BY DEF DiskInv
<1>3. GoodWriter(writer[w], files) /\ writer[w].phase # "writing"
  BY <1>2 DEF ReportPiece, ReportBytes
<1>4. writer[w] \in WriterRecords /\ RightUpTo(files, writer[w].piece, PieceEnd(writer[w].piece))
  BY <1>3 DEF GoodWriter
<1>5. writer[w].piece \in Pieces
  BY <1>4 DEF WriterRecords
<1>6. CASE ReportPiece(w)
  <2> DEFINE g == [writer[w] EXCEPT !.phase = "stats"]
  <2>1. g \in WriterRecords /\ g.phase = "stats" /\ g.piece = writer[w].piece
    BY <1>4 DEF WriterRecords
  <2>2. writer' = [writer EXCEPT ![w] = g]
    BY <1>6 DEF ReportPiece
  <2> HIDE DEF g
  <2>3. GoodWriter(g, files)
    BY <1>4, <2>1 DEF GoodWriter
  <2>4. /\ DOMAIN writer' = Writers
        /\ \A v \in Writers : writer'[v] # Idle => GoodWriter(writer'[v], files)
    BY <1>2, <2>2, <2>3
  <2>5. finishedPieces' = finishedPieces \cup {writer[w].piece}
    BY <1>6 DEF ReportPiece
  <2>6. /\ finishedPieces' \subseteq Pieces
        /\ \A q \in finishedPieces' : RightUpTo(files, q, PieceEnd(q))
    BY <1>2, <1>4, <1>5, <2>5
  <2>7. UNCHANGED <<torrent, files, running, starts, found, handed, left>>
    BY <1>6 DEF ReportPiece
  <2> QED  BY <1>1, <1>2, <2>4, <2>6, <2>7, InvNext
<1>7. CASE ReportBytes(w)
  <2>1. left' = left - Len(PieceData(writer[w].piece))
    BY <1>7 DEF ReportBytes
  <2>2. Len(PieceData(writer[w].piece)) \in Nat
    BY <1>1, <1>5, DataIsSequence
  <2>3. left' \in Int
    BY <1>2, <2>1, <2>2
  <2>4. /\ DOMAIN writer' = Writers
        /\ \A v \in Writers : writer'[v] # Idle => GoodWriter(writer'[v], files)
    BY <1>2, <1>7 DEF ReportBytes
  <2>5. UNCHANGED <<torrent, files, running, starts, found, finishedPieces, handed>>
    BY <1>7 DEF ReportBytes
  <2> QED  BY <1>1, <1>2, <2>3, <2>4, <2>5, InvNext
<1> QED  BY <1>6, <1>7

\* What the invariant says of a goroutine that writes, and where it is.
LEMMA Writing ==
  ASSUME DiskInv, NEW w \in Writers, writer[w] # Idle, writer[w].phase = "writing",
         NEW g, g = writer[w]
  PROVE  /\ g \in WriterRecords /\ g.piece \in Pieces /\ g.file \in Files /\ g.offset \in Nat
         /\ g.data \in Seq(Nat) /\ Len(g.data) \in Nat
         /\ At(g) = FileStart(g.file) + g.offset
         /\ PieceStart(g.piece) <= At(g) /\ At(g) < PieceEnd(g.piece)
         /\ Len(g.data) = PieceEnd(g.piece) - At(g)
         /\ \A k \in 1 .. Len(g.data) : g.data[k] = At(g) + k
         /\ RightUpTo(files, g.piece, At(g))
<1>1. GoodWriter(g, files) /\ g.phase = "writing"
  BY DEF DiskInv
<1>2. g \in WriterRecords
  BY <1>1 DEF GoodWriter
<1>3. g.piece \in Pieces /\ g.offset \in Nat /\ g.data \in Seq(Nat)
  BY <1>2 DEF WriterRecords
<1> QED  BY <1>1, <1>2, <1>3 DEF GoodWriter, At

\* What a write step leaves, if the file is skipped.
LEMMA SkipFile ==
  ASSUME DiskInv, NEW w \in Writers, writer[w] # Idle, writer[w].phase = "writing",
         NEW g, g = writer[w], g.offset > Lengths[g.file]
  PROVE  /\ NextFile(g).data # << >> /\ g.file # Len(Lengths)
         /\ GoodWriter(NextFile(g), files)
<1> DEFINE i == g.file
           h == [g EXCEPT !.file = @ + 1, !.offset = @ - Lengths[g.file]]
<1>1. torrent \in Torrents
  BY InvDisk
<1>2. /\ g \in WriterRecords /\ g.piece \in Pieces /\ i \in Files /\ g.offset \in Nat
      /\ g.data \in Seq(Nat) /\ Len(g.data) \in Nat /\ At(g) = FileStart(i) + g.offset
      /\ PieceStart(g.piece) <= At(g) /\ At(g) < PieceEnd(g.piece)
      /\ Len(g.data) = PieceEnd(g.piece) - At(g)
      /\ \A k \in 1 .. Len(g.data) : g.data[k] = At(g) + k
      /\ RightUpTo(files, g.piece, At(g))
  BY Writing
<1>3. /\ FileStart(i) \in Nat /\ Lengths[i] \in Nat /\ totalLength \in Nat
      /\ i = Len(Lengths) => FileStart(i) + Lengths[i] = totalLength
  BY <1>1, <1>2, FileEnds
<1>4. PieceEnd(g.piece) \in Nat /\ PieceEnd(g.piece) <= totalLength
  BY <1>1, <1>2, PieceEnds
<1>5. i # Len(Lengths)
  BY <1>2, <1>3, <1>4
<1>6. Len(Lengths) \in Nat /\ Files = 1 .. Len(Lengths)
  BY <1>1, TorrentFacts
<1>7. i + 1 \in Files /\ FileStart(i + 1) = FileStart(i) + Lengths[i] /\ i + 1 \in Nat
  BY <1>1, <1>2, <1>5, <1>6, FileStarts
<1>8. NextFile(g) = h
  BY DEF NextFile
<1>9. g.offset - Lengths[i] \in Nat
  BY <1>2, <1>3
<1>10. /\ h \in WriterRecords /\ h.phase = "writing" /\ h.piece = g.piece /\ h.data = g.data
       /\ h.file = i + 1 /\ h.offset = g.offset - Lengths[i]
  BY <1>2, <1>7, <1>9 DEF WriterRecords
<1> HIDE DEF h
<1>11. At(h) = At(g)
  BY <1>2, <1>3, <1>7, <1>10 DEF At
<1>12. GoodWriter(h, files)
  BY <1>2, <1>7, <1>10, <1>11 DEF GoodWriter
<1>13. h.data # << >>
  <2>1. Len(h.data) # 0
    BY <1>2, <1>3, <1>4, <1>10
  <2> QED  BY <2>1
<1> QED  BY <1>5, <1>8, <1>12, <1>13

\* The first m elements of a sequence, and the rest.
LEMMA Cut ==
  ASSUME NEW V, NEW s \in Seq(V), NEW m \in 0 .. Len(s)
  PROVE  /\ SubSeq(s, 1, m) \in Seq(V) /\ Len(SubSeq(s, 1, m)) = m
         /\ \A k \in 1 .. m : SubSeq(s, 1, m)[k] = s[k]
         /\ SubSeq(s, m + 1, Len(s)) \in Seq(V)
         /\ Len(SubSeq(s, m + 1, Len(s))) = Len(s) - m
         /\ \A k \in 1 .. Len(s) - m : SubSeq(s, m + 1, Len(s))[k] = s[m + k]
OBVIOUS

\* What a write step leaves, if something may be written.
LEMMA WriteSome ==
  ASSUME DiskInv, NEW w \in Writers, writer[w] # Idle, writer[w].phase = "writing",
         NEW g, g = writer[w], ~(g.offset > Lengths[g.file]),
         NEW f, f = [files EXCEPT ![g.file] =
                       WriteAt(files[g.file], SubSeq(g.data, 1, Fitting(g)), g.offset)],
         NEW next, next = IF NextFile(g).data = << >> \/ g.file = Len(Lengths)
                          THEN [NextFile(g) EXCEPT !.phase = "report"] ELSE NextFile(g)
  PROVE  GoodDisk(f) /\ Keeps(files, f) /\ GoodWriter(next, f)
<1> DEFINE i == g.file
           m == Fitting(g)
           d == SubSeq(g.data, 1, m)
           h == [g EXCEPT !.file = @ + 1, !.offset = 0, !.data = SubSeq(g.data, m + 1, Len(g.data))]
<1>1. torrent \in Torrents /\ GoodDisk(files)
  BY InvDisk
<1>2. /\ g \in WriterRecords /\ g.piece \in Pieces /\ i \in Files /\ g.offset \in Nat
      /\ g.data \in Seq(Nat) /\ Len(g.data) \in Nat /\ At(g) = FileStart(i) + g.offset
      /\ PieceStart(g.piece) <= At(g) /\ At(g) < PieceEnd(g.piece)
      /\ Len(g.data) = PieceEnd(g.piece) - At(g)
      /\ \A k \in 1 .. Len(g.data) : g.data[k] = At(g) + k
      /\ RightUpTo(files, g.piece, At(g))
  BY Writing
<1>3. /\ FileStart(i) \in Nat /\ Lengths[i] \in Nat /\ totalLength \in Nat
      /\ i = Len(Lengths) => FileStart(i) + Lengths[i] = totalLength
  BY <1>1, <1>2, FileEnds
<1>4. /\ PieceEnd(g.piece) \in Nat /\ PieceEnd(g.piece) <= totalLength
      /\ PieceStart(g.piece) \in Nat
  BY <1>1, <1>2, PieceBegins, PieceEnds
<1>5. m = IF Len(g.data) <= Lengths[i] - g.offset THEN Len(g.data) ELSE Lengths[i] - g.offset
  <2>1. Lengths[i] - g.offset \in Int /\ Len(g.data) \in Int
    BY <1>2, <1>3
  <2> QED  BY <2>1, OfTwo DEF Fitting
<1>6. NextFile(g) = h
  BY DEF NextFile
<1>7. m \in 0 .. Len(g.data) /\ g.offset + m <= Lengths[i]
  BY <1>2, <1>3, <1>5
<1> HIDE DEF m
<1>8. /\ d \in Seq(Nat) /\ Len(d) = m /\ \A k \in 1 .. m : d[k] = g.data[k]
      /\ SubSeq(g.data, m + 1, Len(g.data)) \in Seq(Nat)
      /\ Len(SubSeq(g.data, m + 1, Len(g.data))) = Len(g.data) - m
      /\ \A k \in 1 .. Len(g.data) - m : SubSeq(g.data, m + 1, Len(g.data))[k] = g.data[m + k]
  BY <1>2, <1>7, Cut
<1>9. \A k \in 1 .. Len(d) : d[k] = FileStart(i) + g.offset + k
  BY <1>2, <1>7, <1>8
<1>10. /\ h \in WriterRecords /\ h.phase = "writing" /\ h.piece = g.piece
       /\ h.data = SubSeq(g.data, m + 1, Len(g.data)) /\ h.file = i + 1 /\ h.offset = 0
  <2>1. i + 1 \in Nat
    BY <1>1, <1>2, TorrentFacts
  <2> QED  BY <1>2, <1>8, <2>1 DEF WriterRecords
<1>11. f = [files EXCEPT ![i] = WriteAt(files[i], d, g.offset)]
  BY DEF m
<1> HIDE DEF d, h
<1>12. /\ GoodDisk(f) /\ Keeps(files, f)
       /\ RightBetween(f, FileStart(i) + g.offset, FileStart(i) + g.offset + Len(d))
  <2>1. d \in Seq(Nat) /\ g.offset + Len(d) <= Lengths[i]
    BY <1>7, <1>8
  <2> QED  BY <1>1, <1>2, <1>9, <1>11, <2>1, DiskWrite
<1>16. /\ At(g) \in Nat /\ Len(g.data) \in Nat /\ m \in Nat /\ m <= Len(g.data)
       /\ Len(g.data) = PieceEnd(g.piece) - At(g) /\ At(g) = FileStart(i) + g.offset
       /\ Len(h.data) = Len(g.data) - m /\ g.offset \in Nat
  <2>1. /\ Len(g.data) \in Nat /\ g.offset \in Nat
        /\ Len(g.data) = PieceEnd(g.piece) - At(g) /\ At(g) = FileStart(i) + g.offset
    BY <1>2
  <2>2. Len(h.data) = Len(g.data) - m
    BY <1>8, <1>10
  <2> QED  BY <1>3, <1>7, <2>1, <2>2
<1>13. RightUpTo(f, g.piece, At(g) + m)
  <2>1. At(g) \in Int /\ At(g) <= PieceEnd(g.piece) /\ m \in Nat
    BY <1>2, <1>3, <1>4, <1>7
  <2>2. RightUpTo(f, g.piece, At(g))
    BY <1>1, <1>2, <1>12, <2>1, PartKept
  <2>3. ASSUME NEW k \in PieceStart(g.piece) + 1 .. At(g) + m PROVE ByteOf(f, k) = k
    <3>1. CASE k <= At(g)
      <4>1. k \in PieceStart(g.piece) + 1 .. At(g)
        BY <1>4, <2>1, <3>1
      <4> QED  BY <2>2, <4>1 DEF RightUpTo
    <3>2. CASE ~(k <= At(g))
      <4>1. k \in FileStart(i) + g.offset + 1 .. FileStart(i) + g.offset + Len(d)
        BY <1>2, <1>4, <1>8, <2>1, <3>2
      <4> QED  BY <1>12, <4>1 DEF RightBetween
    <3> QED  BY <3>1, <3>2
  <2> QED  BY <2>3 DEF RightUpTo
<1>14. CASE h.data = << >>
  <2>1. Len(h.data) = 0
    BY <1>14
  <2>2. At(g) + m = PieceEnd(g.piece)
    BY <1>4, <1>16, <2>1
  <2> DEFINE r == [h EXCEPT !.phase = "report"]
  <2>3. r \in WriterRecords /\ r.phase = "report" /\ r.piece = g.piece
    BY <1>10 DEF WriterRecords
  <2> HIDE DEF r
  <2>4. GoodWriter(r, f)
    BY <1>13, <2>2, <2>3 DEF GoodWriter
  <2> QED  BY <1>6, <1>12, <1>14, <2>4 DEF r
<1>15. CASE h.data # << >>
  <2>1. Len(h.data) # 0
    <3>1. h.data \in Seq(Nat)
      BY <1>8, <1>10
    <3> QED  BY <1>15, <3>1
  <2>2. m = Lengths[i] - g.offset /\ m < Len(g.data)
    BY <1>3, <1>5, <1>16, <2>1
  <2>3. i # Len(Lengths)
    BY <1>2, <1>3, <1>4, <2>2
  <2>4. i + 1 \in Files /\ FileStart(i + 1) = FileStart(i) + Lengths[i]
    <3>1. i \in Files /\ Files = 1 .. Len(Lengths) /\ Len(Lengths) \in Nat
      BY <1>1, <1>2, TorrentFacts
    <3> QED  BY <1>1, <2>3, <3>1, FileStarts
  <2>5. At(h) = At(g) + m
    BY <1>2, <1>3, <1>10, <2>2, <2>4 DEF At
  <2>6. /\ Len(h.data) = PieceEnd(g.piece) - At(h)
        /\ PieceStart(g.piece) <= At(h) /\ At(h) < PieceEnd(g.piece)
    <3>1. PieceStart(g.piece) <= At(g)
      BY <1>2
    <3> QED  BY <1>4, <1>16, <2>2, <2>5, <3>1
  <2>7. ASSUME NEW k \in 1 .. Len(h.data) PROVE h.data[k] = At(h) + k
    <3>1. k \in 1 .. Len(g.data) - m /\ m + k \in 1 .. Len(g.data)
      BY <1>16
    <3>2. h.data[k] = At(g) + (m + k)
      BY <1>2, <1>8, <1>10, <3>1
    <3> QED  BY <1>2, <1>3, <1>7, <2>5, <3>1, <3>2
  <2>8. GoodWriter(h, f)
    BY <1>10, <1>13, <2>4, <2>5, <2>6, <2>7 DEF GoodWriter
  <2> QED  BY <1>6, <1>12, <1>15, <2>3, <2>8
<1> QED  BY <1>14, <1>15

\* A file is skipped or written, while other goroutines write other files or
\* the same one.
LEMMA DiskInvWrite ==
  ASSUME DiskInv, NEW w \in Writers, WriteFile(w)
  PROVE  DiskInv'
<1>1. torrent \in Torrents /\ GoodDisk(files)
  BY InvDisk
<1>2. /\ starts \in 0 .. MaxStarts /\ left \in Int /\ found \subseteq Pieces
      /\ running \in BOOLEAN
      /\ finishedPieces \subseteq Pieces /\ handed \in [Pieces -> 0 .. MaxHandovers]
      /\ \A q \in finishedPieces : RightUpTo(files, q, PieceEnd(q))
      /\ DOMAIN writer = Writers
      /\ \A v \in Writers : writer[v] # Idle => GoodWriter(writer[v], files)
  BY DEF DiskInv
<1>3. writer[w] # Idle /\ writer[w].phase = "writing"
  BY DEF WriteFile
<1>4. UNCHANGED <<torrent, running, starts, found, finishedPieces, handed, left>>
  BY DEF WriteFile
<1>5. PICK g : g = writer[w]
  OBVIOUS
<1>6. PICK h : h = IF NextFile(g).data = << >> \/ g.file = Len(Lengths)
                   THEN [NextFile(g) EXCEPT !.phase = "report"] ELSE NextFile(g)
  OBVIOUS
<1>7. writer' = [writer EXCEPT ![w] = h]
  BY <1>5, <1>6 DEF WriteFile
<1>8. /\ GoodDisk(files') /\ GoodWriter(h, files')
      /\ Keeps(files, files')
  <2>1. CASE g.offset > Lengths[g.file]
    <3>1. files' = files
      BY <1>5, <2>1 DEF WriteFile
    <3>2. /\ NextFile(g).data # << >> /\ g.file # Len(Lengths)
          /\ GoodWriter(NextFile(g), files)
      BY <1>3, <1>5, <2>1, SkipFile
    <3>3. h = NextFile(g)
      BY <1>6, <3>2
    <3>4. Keeps(files, files')
      BY <3>1 DEF Keeps
    <3> QED  BY <1>1, <3>1, <3>2, <3>3, <3>4
  <2>2. CASE ~(g.offset > Lengths[g.file])
    <3>1. files' = [files EXCEPT ![g.file] =
                      WriteAt(files[g.file], SubSeq(g.data, 1, Fitting(g)), g.offset)]
      BY <1>5, <2>2 DEF WriteFile
    <3>2. PICK f : f = files'
      OBVIOUS
    <3>3. GoodDisk(f) /\ Keeps(files, f) /\ GoodWriter(h, f)
      BY <1>3, <1>5, <1>6, <2>2, <3>1, <3>2, WriteSome
    <3> QED  BY <3>2, <3>3
  <2> QED  BY <2>1, <2>2
<1>9. \A v \in Writers : writer'[v] # Idle => GoodWriter(writer'[v], files')
  <2> SUFFICES ASSUME NEW v \in Writers, writer'[v] # Idle
               PROVE  GoodWriter(writer'[v], files')
    OBVIOUS
  <2>1. CASE v = w
    BY <1>2, <1>7, <1>8, <2>1
  <2>2. CASE v # w
    <3>1. writer'[v] = writer[v] /\ GoodWriter(writer[v], files)
      BY <1>2, <1>7, <2>2
    <3> QED  BY <1>1, <1>8, <3>1, WriterKept
  <2> QED  BY <2>1, <2>2
<1>10. \A q \in finishedPieces : RightUpTo(files', q, PieceEnd(q))
  <2> TAKE q \in finishedPieces
  <2>1. q \in Pieces /\ RightUpTo(files, q, PieceEnd(q)) /\ PieceEnd(q) \in Int
    BY <1>1, <1>2, PieceEnds
  <2> QED  BY <1>1, <1>8, <2>1, PartKept
<1>11. DOMAIN writer' = Writers
  BY <1>2, <1>7
<1> QED  BY <1>1, <1>2, <1>4, <1>8, <1>9, <1>10, <1>11, InvNext

\* Every step keeps the invariant.
LEMMA DiskInvStep == DiskInv /\ [StNext]_stvars => DiskInv'
<1> SUFFICES ASSUME DiskInv, [StNext]_stvars PROVE DiskInv'
  OBVIOUS
<1>1. CASE Start
  BY <1>1, DiskInvStart
<1>2. CASE End
  <2>1. /\ UNCHANGED <<torrent, files, starts, found, finishedPieces, handed, left>>
        /\ writer' = [w \in Writers |-> Idle]
    BY <1>2 DEF End
  <2>2. running' \in BOOLEAN
    BY <1>2, Zenon DEF End
  <2> QED  BY <2>1, <2>2, DiskInvEnd
<1>3. CASE \E w \in Writers, p \in Pieces : HandOver(w, p)
  BY <1>3, DiskInvHandOver
<1>4. CASE \E w \in Writers : WriteFile(w) \/ ReportPiece(w) \/ ReportBytes(w)
  BY <1>4, DiskInvWrite, DiskInvReport
<1>5. CASE \E p \in Pieces : \E b \in Blocks(p) : RequestBlock(p, b)
  <2>1. PICK p, b : RequestBlock(p, b)
    BY <1>5
  <2>2. /\ UNCHANGED <<torrent, files, starts, found, finishedPieces, handed, left>>
        /\ writer' \in {writer, [w \in Writers |-> Idle]}
    BY <2>1 DEF RequestBlock
  <2>3. running' \in BOOLEAN
    BY <2>1, Zenon DEF RequestBlock
  <2> QED  BY <2>2, <2>3, DiskInvEnd
<1>6. CASE UNCHANGED stvars
  <2>1. running' \in BOOLEAN
    BY <1>6, Zenon DEF stvars, DiskInv
  <2> QED  BY <1>6, <2>1, DiskInvEnd DEF stvars
<1> QED  BY <1>1, <1>2, <1>3, <1>4, <1>5, <1>6 DEF StNext

\* The inductive invariant holds: the bytes on disk are right or holes, whatever
\* the order of the WriteAt calls of the goroutines and wherever the process ends.
THEOREM DiskInvariance == StSpec => []DiskInv
<1>1. StInit => DiskInv
  BY DiskInvInit
<1>2. DiskInv /\ [StNext]_stvars => DiskInv'
  BY DiskInvStep
<1> QED  BY <1>1, <1>2, PTL DEF StSpec

\* The type invariant.
THEOREM StorageTypeCorrect == StSpec => []StTypeOK
<1>1. ASSUME DiskInv PROVE StTypeOK
  <2>1. /\ torrent \in Torrents /\ DOMAIN files = Files
        /\ running \in BOOLEAN /\ starts \in 0 .. MaxStarts
        /\ found \subseteq Pieces /\ finishedPieces \subseteq Pieces
        /\ handed \in [Pieces -> 0 .. MaxHandovers] /\ left \in Int
    BY <1>1 DEF DiskInv
  <2>2. \A i \in Files : files[i] \in Seq(0 .. totalLength) /\ Len(files[i]) <= Lengths[i]
    BY <1>1 DEF DiskInv, GoodFile
  <2>3. ASSUME NEW w \in Writers, writer[w] # Idle
        PROVE  /\ writer[w].phase \in {"writing", "report", "stats"}
               /\ writer[w].piece \in Pieces /\ writer[w].offset \in Nat
    <3>1. writer[w] \in WriterRecords
      BY <1>1, <2>3 DEF DiskInv, GoodWriter
    <3> QED  BY <3>1 DEF WriterRecords
  <2> QED  BY <2>1, <2>2, <2>3 DEF StTypeOK
<1> QED  BY <1>1, DiskInvariance, PTL

\* A piece that the controller counts is on disk as it should be: Verify believes
\* in no piece that a crash left half written, and writers do not disturb it.
THEOREM FinishedAlwaysIntact == StSpec => []FinishedIntact
<1>1. ASSUME DiskInv PROVE FinishedIntact
  <2>1. ASSUME NEW p \in finishedPieces PROVE Intact(p)
    <3>1. torrent \in Torrents /\ p \in Pieces /\ RightUpTo(files, p, PieceEnd(p))
      BY <1>1 DEF DiskInv
    <3> QED  BY <3>1, IntactIs
  <2> QED  BY <2>1 DEF FinishedIntact
<1> QED  BY <1>1, DiskInvariance, PTL

-----------------------------------------------------------------------------
(* Reading back: Verify on full files, and blocks for remote peers.        *)

AllFull == \A i \in Files : Len(files[i]) = Lengths[i]

\* c has the bytes of the first n positions.
HasBytes(c, n) == Len(c) = n /\ \A k \in 1 .. n : c[k] = ByteOf(files, k)

\* A concatenation of full files has the bytes in their order.
LEMMA NextFileAdded ==
  ASSUME torrent \in Torrents, GoodDisk(files), AllFull, NEW i \in Files,
         NEW V, NEW c \in Seq(V), HasBytes(c, FileStart(i)), files[i] \in Seq(V),
         NEW r, r = c \o files[i]
  PROVE  HasBytes(r, FileStart(i + 1))
<1> DEFINE s == FileStart(i)
           l == Lengths[i]
           t == files[i]
<1>1. s \in Nat /\ l \in Nat /\ FileStart(i + 1) = s + l
  BY FileEnds, FileStarts
<1>2. Len(c) = s /\ Len(t) = l
  BY DEF AllFull, HasBytes
<1>3. Joins(r, c, t)
  BY Joined
<1>4. /\ Len(r) = s + l
      /\ \A m \in 1 .. s : r[m] = c[m]
      /\ \A m \in 1 .. l : r[s + m] = t[m]
  BY <1>2, <1>3 DEF Joins
<1>5. ASSUME NEW k \in 1 .. s + l PROVE r[k] = ByteOf(files, k)
  <2>1. CASE k <= s
    <3>1. k \in 1 .. s
      BY <1>1, <2>1
    <3> QED  BY <1>4, <3>1 DEF HasBytes
  <2>2. CASE k > s
    <3>1. k \in Int /\ k - s \in 1 .. l /\ s + (k - s) = k
      BY <1>1, <2>2
    <3>2. r[k] = t[k - s]
      BY <1>4, <3>1
    <3>3. Within(k, i) /\ k - s <= Len(t)
      BY <1>1, <1>2, <2>2, <3>1 DEF Within
    <3>4. ByteOf(files, k) = t[k - s]
      BY <3>1, <3>3, ByteIs
    <3> QED  BY <3>2, <3>4
  <2> HIDE DEF s, l, t
  <2>3. k <= s \/ k > s
    BY <1>1
  <2> QED  BY <2>1, <2>2, <2>3
<1>6. Len(r) = FileStart(i + 1) /\ \A k \in 1 .. FileStart(i + 1) : r[k] = ByteOf(files, k)
  BY <1>1, <1>4, <1>5
<1> QED  BY <1>6 DEF HasBytes

\* The stream of full files has every byte where it belongs.
LEMMA FullStream ==
  ASSUME torrent \in Torrents, GoodDisk(files), AllFull
  PROVE  HasBytes(Contents, totalLength)
<1> DEFINE n == Len(Lengths)
           V == 0 .. totalLength
<1>1. n \in Nat \ {0} /\ Files = 1 .. n /\ files \in [1 .. n -> Seq(V)]
  BY TorrentFacts DEF GoodDisk
<1> HIDE DEF V, n
<1>2. PICK c : Concatenates(c, V, n, files) /\ FlattenSeq(files) = c[n]
  BY <1>1, Flattened
<1>3. c \in [1 .. n -> Seq(V)] /\ c[1] = files[1] /\ \A i \in 2 .. n : c[i] = c[i - 1] \o files[i]
  BY <1>2 DEF Concatenates
<1> DEFINE S == {k \in 0 .. n - 1 : HasBytes(c[k + 1], FileStart((k + 1) + 1))}
<1>4. 0 \in S
  <2>1. HasBytes(<< >>, FileStart(1))
    BY FileStarts DEF HasBytes
  <2>2. 1 \in Files /\ files[1] \in Seq(V) /\ << >> \in Seq(V)
    BY <1>1
  <2>4. << >> \o files[1] = c[1]
    BY <1>3, <2>2
  <2>3. HasBytes(c[1], FileStart(1 + 1))
    BY <2>1, <2>2, <2>4, NextFileAdded
  <2>5. 0 + 1 = 1 /\ 0 \in 0 .. n - 1
    BY <1>1
  <2> QED  BY <2>3, <2>5
<1>5. ASSUME NEW k \in 0 .. n - 1, k \in S, k < n - 1 PROVE k + 1 \in S
  <2> DEFINE i == (k + 1) + 1
  <2>1. i \in Files /\ i \in 2 .. n /\ i - 1 = k + 1 /\ k + 1 \in 1 .. n /\ k + 1 \in 0 .. n - 1
    BY <1>1, <1>5
  <2>2. c[k + 1] \in Seq(V) /\ files[i] \in Seq(V) /\ HasBytes(c[k + 1], FileStart(i))
    BY <1>1, <1>3, <1>5, <2>1
  <2>3. c[i] = c[k + 1] \o files[i]
    BY <1>3, <2>1
  <2> HIDE DEF i
  <2>4. HasBytes(c[i], FileStart(i + 1))
    BY <2>1, <2>2, <2>3, NextFileAdded
  <2> QED  BY <2>1, <2>4 DEF i
<1> HIDE DEF S
<1>6. n - 1 \in Nat /\ n - 1 \in 0 .. n - 1 /\ (n - 1) + 1 = n
  BY <1>1
<1>7. n - 1 \in S
  BY <1>4, <1>5, <1>6, InductionUpTo
<1>8. HasBytes(c[n], FileStart(n + 1))
  BY <1>6, <1>7 DEF S
<1> QED  BY <1>2, <1>8 DEF Contents, totalLength, n

\* Sequences of the same length with the same elements are the same.
LEMMA SameSequence ==
  ASSUME NEW V, NEW s \in Seq(V), NEW W, NEW t \in Seq(W), Len(s) = Len(t),
         \A k \in 1 .. Len(s) : s[k] = t[k]
  PROVE  s = t
OBVIOUS

\* A piece that is right on full files is found.
LEMMA RightFound ==
  ASSUME torrent \in Torrents, GoodDisk(files), AllFull, NEW p \in Pieces,
         RightUpTo(files, p, PieceEnd(p))
  PROVE  p \in Verify
<1> DEFINE a == PieceStart(p)
           e == PieceEnd(p)
           V == 0 .. totalLength
           chunk == SubSeq(Contents, a + 1, e)
<1>1. HasBytes(Contents, totalLength)
  BY FullStream
<1>2. /\ a \in Nat /\ e \in Nat /\ a < e /\ e <= totalLength /\ totalLength \in Nat
  BY PieceBegins, PieceEnds, TotalLength
<1>3. Contents \in Seq(V)
  <2>1. Len(Lengths) \in Nat \ {0} /\ files \in [1 .. Len(Lengths) -> Seq(V)]
    BY TorrentFacts DEF GoodDisk
  <2> HIDE DEF V
  <2> QED  BY <2>1, FromSomeFile DEF Contents
<1>4. Len(Contents) = totalLength /\ \A k \in 1 .. totalLength : Contents[k] = ByteOf(files, k)
  BY <1>1 DEF HasBytes
<1>5. Min({(p + 1) * PieceLength, Len(Contents)}) = e
  BY <1>4 DEF PieceEnd
<1>6. /\ PieceData(p) \in Seq(Nat) /\ Len(PieceData(p)) = e - a
      /\ \A k \in 1 .. e - a : PieceData(p)[k] = a + k
  BY DataIsSequence
<1>7. \A k \in a + 1 .. e : ByteOf(files, k) = k
  BY DEF RightUpTo
<1> HIDE DEF a, e, V
<1>8. /\ chunk \in Seq(V) /\ Len(chunk) = e - a
      /\ \A k \in 1 .. e - a : chunk[k] = Contents[a + k]
  BY <1>2, <1>3, <1>4, Chunk
<1>9. ASSUME NEW k \in 1 .. e - a PROVE chunk[k] = a + k
  <2>1. a + k \in a + 1 .. e /\ a + k \in 1 .. totalLength
    BY <1>2
  <2> QED  BY <1>4, <1>7, <1>8, <2>1
<1> HIDE DEF chunk
<1>10. chunk = PieceData(p)
  <2>1. Len(chunk) = Len(PieceData(p)) /\ \A k \in 1 .. Len(chunk) : chunk[k] = PieceData(p)[k]
    BY <1>6, <1>8, <1>9
  <2> QED  BY <1>6, <1>8, <2>1, SameSequence
<1>11. chunk # << >>
  <2>1. Len(chunk) # 0
    BY <1>2, <1>8
  <2> QED  BY <2>1
<1>12. chunk = SubSeq(Contents, p * PieceLength + 1, Min({(p + 1) * PieceLength, Len(Contents)}))
  BY <1>5 DEF chunk, a, PieceStart
<1> QED  BY <1>10, <1>11, <1>12 DEF Verify

\* Once every file has its length, Verify returns exactly the pieces that are right.
THEOREM VerifyExactWhenFull == StSpec => []VerifyExactFull
<1>1. ASSUME DiskInv PROVE VerifyExactFull
  <2> SUFFICES ASSUME AllFull PROVE Verify = {p \in Pieces : Intact(p)}
    BY DEF VerifyExactFull, AllFull
  <2>1. torrent \in Torrents /\ GoodDisk(files)
    BY <1>1, InvDisk
  <2>2. ASSUME NEW p \in Verify PROVE p \in Pieces /\ Intact(p)
    BY <2>1, VerifyRight, IntactIs
  <2>3. ASSUME NEW p \in Pieces, Intact(p) PROVE p \in Verify
    BY <2>1, <2>3, RightFound, IntactIs
  <2> QED  BY <2>2, <2>3
<1> QED  BY <1>1, DiskInvariance, PTL

\* The file where requestBlock stops.
StopsAt(offset) == Min({j \in Files : offset - FileStart(j) <= Lengths[j]})

\* It is the first file that does not end before the offset, and begins before it.
LEMMA StopFile ==
  ASSUME torrent \in Torrents, NEW o \in Nat, o < totalLength
  PROVE  /\ StopsAt(o) \in Files
         /\ FileStart(StopsAt(o)) <= o /\ o <= FileStart(StopsAt(o)) + Lengths[StopsAt(o)]
         /\ StopsAt(o) = 1 \/ FileStart(StopsAt(o)) < o
         /\ \A j \in Files : o <= FileStart(j) + Lengths[j] => StopsAt(o) <= j
<1> DEFINE n == Len(Lengths)
           S == {j \in Files : o - FileStart(j) <= Lengths[j]}
<1>1. n \in Nat \ {0} /\ Files = 1 .. n
  BY TorrentFacts
<1>2. \A j \in Files : FileStart(j) \in Nat /\ Lengths[j] \in Nat
  BY FileEnds
<1>3. \A j \in Files : j \in S <=> o <= FileStart(j) + Lengths[j]
  BY <1>2
<1>4. n \in S
  <2>1. n \in Files /\ FileStart(n) + Lengths[n] = totalLength /\ totalLength \in Nat
    BY <1>1, FileEnds
  <2> QED  BY <1>3, <2>1
<1>5. S \in SUBSET Nat /\ S # {}
  BY <1>1, <1>4
<1>6. StopsAt(o) = Min(S)
  BY DEF StopsAt
<1> HIDE DEF S
<1>7. PICK i : i = StopsAt(o) /\ i \in S /\ \A j \in S : i <= j
  BY <1>5, <1>6, SmallestNumber
<1>8. i \in Files
  BY <1>7 DEF S
<1>9. FileStart(i) \in Nat /\ Lengths[i] \in Nat /\ o <= FileStart(i) + Lengths[i]
  BY <1>2, <1>3, <1>7, <1>8
<1>10. \A j \in Files : o <= FileStart(j) + Lengths[j] => i <= j
  BY <1>3, <1>7
<1>11. CASE i = 1
  <2>1. FileStart(i) = 0
    BY <1>11, FileStarts
  <2> QED  BY <1>7, <1>8, <1>9, <1>10, <1>11, <2>1
<1>12. CASE i # 1
  <2>1. i - 1 \in Files /\ ~(i <= i - 1) /\ (i - 1) + 1 = i
    BY <1>1, <1>8, <1>12
  <2>2. FileStart(i) = FileStart(i - 1) + Lengths[i - 1]
    BY <2>1, FileStarts
  <2>3. ~(o <= FileStart(i))
    BY <1>10, <2>1, <2>2
  <2>4. FileStart(i) < o
    BY <1>9, <2>3
  <2> QED  BY <1>7, <1>8, <1>9, <1>10, <2>4
<1> QED  BY <1>11, <1>12

\* A read within the file returns right bytes if they are there.
LEMMA ReadRight ==
  ASSUME torrent \in Torrents, GoodDisk(files), NEW i \in Files, NEW o \in Nat,
         NEW l \in Nat \ {0}, FileStart(i) <= o, o + l <= FileStart(i) + Lengths[i],
         \A k \in o + 1 .. o + l : ByteOf(files, k) = k
  PROVE  ReadAt(files[i], o - FileStart(i), l) = [k \in 1 .. l |-> o + k]
<1> DEFINE s == FileStart(i)
           c == files[i]
           r == SubSeq(c, (o - s) + 1, (o - s) + l)
           t == [k \in 1 .. l |-> o + k]
           V == 0 .. totalLength
<1>1. s \in Nat /\ Lengths[i] \in Nat /\ totalLength \in Nat
  BY FileEnds
<1>2. c \in Seq(V) /\ Len(c) \in Nat
  BY DEF GoodDisk, GoodFile
<1>3. ASSUME NEW k \in o + 1 .. o + l PROVE k - s <= Len(c) /\ c[k - s] = k
  <2>1. k \in Int /\ k # 0
    BY <1>3
  <2>2. Within(k, i)
    <3>1. s < k /\ k <= s + Lengths[i]
      BY <1>1
    <3> QED  BY <3>1 DEF Within
  <2>3. ByteOf(files, k) = IF k - s <= Len(c) THEN c[k - s] ELSE 0
    BY <2>1, <2>2, ByteIs
  <2>4. ByteOf(files, k) = k
    OBVIOUS
  <2> QED  BY <2>1, <2>3, <2>4
<1>4. o + l \in o + 1 .. o + l /\ (o + l) - s = (o - s) + l
  BY <1>1
<1>5. (o - s) + l <= Len(c) /\ o - s \in Nat /\ o - s < (o - s) + l
  <2>1. (o + l) - s <= Len(c)
    BY <1>3, <1>4
  <2> QED  BY <1>1, <1>4, <2>1
<1>6. ReadAt(c, o - s, l) = r
  BY <1>5 DEF ReadAt
<1> HIDE DEF s, c, V
<1>7. /\ r \in Seq(V) /\ Len(r) = ((o - s) + l) - (o - s)
      /\ \A k \in 1 .. ((o - s) + l) - (o - s) : r[k] = c[(o - s) + k]
  <2> DEFINE a == o - s
             b == a + l
  <2>1. a \in Nat /\ b \in Int /\ a < b /\ b <= Len(c)
    BY <1>5
  <2>2. r = SubSeq(c, a + 1, b)
    OBVIOUS
  <2> HIDE DEF a, b, r
  <2>3. /\ r \in Seq(V) /\ Len(r) = b - a /\ \A k \in 1 .. b - a : r[k] = c[a + k]
    BY <1>2, <2>1, <2>2, Chunk
  <2> QED  BY <2>3 DEF a, b
<1>8. ((o - s) + l) - (o - s) = l
  BY <1>5
<1>9. ASSUME NEW k \in 1 .. l PROVE r[k] = o + k
  <2>1. o + k \in o + 1 .. o + l /\ (o + k) - s = (o - s) + k
    BY <1>1
  <2>2. c[(o - s) + k] = o + k
    BY <1>3, <2>1
  <2> QED  BY <1>7, <1>8, <2>2
<1>10. t \in Seq(Nat) /\ Len(t) = l /\ \A k \in 1 .. l : t[k] = o + k
  OBVIOUS
<1> HIDE DEF r, t
<1>11. r = t
  <2>1. Len(r) = Len(t) /\ \A k \in 1 .. Len(r) : r[k] = t[k]
    BY <1>7, <1>8, <1>9, <1>10
  <2> QED  BY <1>7, <1>10, <2>1, SameSequence
<1> QED  BY <1>6, <1>11 DEF s, c, t

\* What requestBlock returns for a range of right bytes.
LEMMA RequestedBytes ==
  ASSUME torrent \in Torrents, GoodDisk(files), NEW o \in Nat, NEW l \in Nat \ {0},
         o + l <= totalLength, \A k \in o + 1 .. o + l : ByteOf(files, k) = k
  PROVE  requestBlock(o, l) = IF InOneFile(o, l) THEN [k \in 1 .. l |-> o + k] ELSE << >>
<1>0. totalLength \in Nat
  BY TotalLength
<1>1. PICK i : i = StopsAt(o)
  OBVIOUS
<1>2. /\ i \in Files /\ FileStart(i) <= o /\ o <= FileStart(i) + Lengths[i]
      /\ i = 1 \/ FileStart(i) < o
      /\ \A j \in Files : o <= FileStart(j) + Lengths[j] => i <= j
  <2>1. o < totalLength
    BY <1>0
  <2> QED  BY <1>1, <2>1, StopFile
<1>3. FileStart(i) \in Nat /\ Lengths[i] \in Nat
  BY <1>2, FileEnds
<1>4. requestBlock(o, l) = ReadAt(files[i], o - FileStart(i), l)
  BY <1>1 DEF requestBlock, StopsAt
<1>5. InOneFile(o, l) <=> o + l <= FileStart(i) + Lengths[i]
  <2>1. ASSUME o + l <= FileStart(i) + Lengths[i] PROVE InOneFile(o, l)
    BY <1>2, <2>1 DEF InOneFile
  <2>2. ASSUME InOneFile(o, l) PROVE o + l <= FileStart(i) + Lengths[i]
    <3>1. PICK j \in Files : (FileStart(j) < o \/ j = 1) /\ o + l <= FileStart(j) + Lengths[j]
      BY <2>2 DEF InOneFile
    <3>2. FileStart(j) \in Nat /\ Lengths[j] \in Nat
      BY FileEnds
    <3>3. i <= j
      <4>1. o <= FileStart(j) + Lengths[j]
        BY <3>1, <3>2
      <4> QED  BY <1>2, <4>1
    <3>4. Files = 1 .. Len(Lengths) /\ Len(Lengths) \in Nat
      BY TorrentFacts
    <3>5. CASE i < j
      <4>1. j # 1 /\ j \in i + 1 .. Len(Lengths) + 1
        BY <1>2, <3>4, <3>5
      <4>2. FileStart(i) + Lengths[i] <= FileStart(j)
        BY <1>2, <4>1, StartsGrow
      <4> QED  BY <1>2, <1>3, <3>1, <3>2, <4>1, <4>2
    <3>6. CASE ~(i < j)
      <4>1. i = j
        BY <1>2, <3>3, <3>4, <3>6
      <4> QED  BY <3>1, <4>1
    <3> QED  BY <3>5, <3>6
  <2> QED  BY <2>1, <2>2
<1>6. CASE o + l <= FileStart(i) + Lengths[i]
  <2>1. ReadAt(files[i], o - FileStart(i), l) = [k \in 1 .. l |-> o + k]
    BY <1>2, <1>6, ReadRight
  <2> QED  BY <1>4, <1>5, <1>6, <2>1
<1>7. CASE ~(o + l <= FileStart(i) + Lengths[i])
  <2>1. Len(files[i]) \in Nat /\ Len(files[i]) <= Lengths[i]
    BY <1>2 DEF GoodDisk, GoodFile
  <2>2. ~((o - FileStart(i)) + l <= Len(files[i]))
    BY <1>3, <1>7, <2>1
  <2>3. ReadAt(files[i], o - FileStart(i), l) = << >>
    BY <2>2 DEF ReadAt
  <2> QED  BY <1>4, <1>5, <1>7, <2>3
<1> QED  BY <1>6, <1>7

\* A block of a piece lies in the piece and is not empty.
LEMMA BlockPlace ==
  ASSUME torrent \in Torrents, NEW p \in Pieces, NEW b \in Blocks(p)
  PROVE  /\ PieceStart(p) + b * BlockSize \in Nat /\ LengthOf(p, b) \in Nat \ {0}
         /\ PieceStart(p) <= PieceStart(p) + b * BlockSize
         /\ PieceStart(p) + b * BlockSize + LengthOf(p, b) <= PieceEnd(p)
<1> DEFINE a == PieceStart(p)
           e == PieceEnd(p)
           x == b * BlockSize
<1>1. a \in Nat /\ e \in Nat /\ a < e /\ Len(PieceData(p)) = e - a
  BY PieceBegins, PieceEnds, DataIsSequence
<1>2. BlockSize \in Nat \ {0} /\ PieceLength \in Nat \ {0}
  BY TorrentFacts
<1>3. b \in Nat /\ x < e - a
  <2> DEFINE n == (e - a) - 1
             q == n \div BlockSize
             y == BlockSize * q
  <2>1. n \in Nat /\ b \in 0 .. q
    BY <1>1 DEF Blocks
  <2>2. q \in Nat /\ n = y + (n % BlockSize) /\ n % BlockSize \in Nat
    BY <1>2, <2>1, Division
  <2>3. b \in Nat /\ b <= q
    BY <2>1, <2>2
  <2>4. b * BlockSize <= q * BlockSize /\ q * BlockSize = y /\ x \in Int /\ y \in Int
    BY <1>2, <2>2, <2>3, Products
  <2> HIDE DEF a, e, q, y
  <2>5. x <= n
    <3> HIDE DEF n, x
    <3> QED  BY <2>1, <2>2, <2>4 DEF x
  <2> HIDE DEF x
  <2> QED  BY <1>1, <2>3, <2>4, <2>5
<1>4. x \in Nat
  BY <1>2, <1>3
<1> HIDE DEF x
<1>5. LengthOf(p, b) = IF BlockSize <= (e - a) - x THEN BlockSize ELSE (e - a) - x
  <2>1. (e - a) - x \in Int /\ BlockSize \in Int
    BY <1>1, <1>2, <1>4
  <2>2. LengthOf(p, b) = Min({BlockSize, (e - a) - x})
    BY <1>1 DEF LengthOf, x
  <2> QED  BY <2>1, <2>2, OfTwo
<1> HIDE DEF a, e
<1>6. /\ a + x \in Nat /\ LengthOf(p, b) \in Nat \ {0} /\ a <= a + x
      /\ a + x + LengthOf(p, b) <= e
  BY <1>1, <1>2, <1>3, <1>4, <1>5
<1> QED  BY <1>6 DEF a, e, x

\* A request for a block of a finished piece returns the right bytes if the block
\* lies in one file and does not begin where the file before ends, and else none.
THEOREM BlocksAlwaysServed == StSpec => []BlocksServed
<1>1. ASSUME DiskInv PROVE BlocksServed
  <2> SUFFICES ASSUME NEW p \in finishedPieces, NEW b \in Blocks(p)
               PROVE  requestBlock(p * PieceLength + b * BlockSize, LengthOf(p, b)) =
                        IF InOneFile(p * PieceLength + b * BlockSize, LengthOf(p, b))
                        THEN [k \in 1 .. LengthOf(p, b) |-> (p * PieceLength + b * BlockSize) + k]
                        ELSE << >>
    BY DEF BlocksServed
  <2>1. /\ torrent \in Torrents /\ GoodDisk(files) /\ p \in Pieces
        /\ RightUpTo(files, p, PieceEnd(p))
    BY <1>1, InvDisk DEF DiskInv
  <2> DEFINE o == p * PieceLength + b * BlockSize
             l == LengthOf(p, b)
  <2>2. /\ o \in Nat /\ l \in Nat \ {0} /\ PieceStart(p) <= o /\ o + l <= PieceEnd(p)
    BY <2>1, BlockPlace DEF PieceStart
  <2>3. /\ PieceStart(p) \in Nat /\ PieceEnd(p) \in Nat /\ PieceEnd(p) <= totalLength
        /\ totalLength \in Nat
    BY <2>1, PieceBegins, PieceEnds, TotalLength
  <2> HIDE DEF o, l
  <2>4. o + l <= totalLength
    BY <2>2, <2>3
  <2>5. \A k \in o + 1 .. o + l : k \in PieceStart(p) + 1 .. PieceEnd(p)
    BY <2>2, <2>3
  <2>6. \A k \in o + 1 .. o + l : ByteOf(files, k) = k
    BY <2>1, <2>5 DEF RightUpTo
  <2>7. requestBlock(o, l) = IF InOneFile(o, l) THEN [k \in 1 .. l |-> o + k] ELSE << >>
    BY <2>1, <2>2, <2>4, <2>6, RequestedBytes
  <2> QED  BY <2>7 DEF o, l
<1> QED  BY <1>1, DiskInvariance, PTL

-----------------------------------------------------------------------------
(* The block arithmetic of a peer.                                         *)

\* Blocks of size b cut r bytes into r \div b whole ones and a rest.
LEMMA BlockOf ==
  ASSUME NEW b \in Nat \ {0}, NEW r \in Nat, NEW k \in 0 .. r - 1
  PROVE  /\ k \div b \in Nat /\ (k \div b) * b <= k /\ k < (k \div b) * b + b
         /\ k \div b <= r \div b
<1> DEFINE q == k \div b
           n == r \div b
<1>1. /\ q \in Nat /\ k = b * q + (k % b) /\ k % b \in Nat /\ k % b < b
  BY Division
<1>2. /\ n \in Nat /\ r = b * n + (r % b) /\ r % b \in Nat /\ r % b < b
  BY Division
<1> HIDE DEF q, n
<1>3. q * b = b * q /\ q * b \in Nat
  BY <1>1
<1>4. q * b <= k /\ k < q * b + b
  <2> DEFINE x == b * q
  <2>1. x \in Nat /\ k = x + (k % b)
    BY <1>1
  <2> HIDE DEF x
  <2>2. x <= k /\ k < x + b
    BY <1>1, <2>1
  <2> QED  BY <1>3, <2>2 DEF x
<1>5. q <= n
  <2> SUFFICES ASSUME n + 1 <= q PROVE FALSE
    BY <1>1, <1>2
  <2>1. b * (n + 1) <= b * q
    BY <1>1, <1>2, Products
  <2>2. b * (n + 1) = b * n + b
    BY <1>2
  <2> DEFINE x == b * n
             y == b * q
  <2>3. x \in Int /\ y \in Int /\ x + b <= y /\ r = x + (r % b) /\ y <= k
    BY <1>1, <1>2, <1>3, <1>4, <2>1, <2>2
  <2> HIDE DEF x, y
  <2> QED  BY <1>2, <2>3
<1> QED  BY <1>1, <1>4, <1>5 DEF q, n

\* The last piece is the one that the torrent's end lies in; it is shorter if
\* the length is not a multiple of the pieces'.
LEMMA LastPiece ==
  ASSUME torrent \in Torrents, NEW p \in Pieces
  PROVE  /\ p = numPieces - 1 /\ totalLength % PieceLength # 0
              => /\ Len(PieceData(p)) = totalLength % PieceLength
                 /\ totalLength % PieceLength < PieceLength
         /\ ~(p = numPieces - 1 /\ totalLength % PieceLength # 0)
              => Len(PieceData(p)) = PieceLength
<1> DEFINE T == totalLength
           L == PieceLength
           n == numPieces
           q == T \div L
           r == T % L
           a == p * L
<1>1. T \in Nat /\ L \in Nat \ {0}
  BY TotalLength, TorrentFacts
<1>2. /\ PieceStart(p) = a /\ a \in Nat /\ a < T /\ p \in Nat
      /\ Len(PieceData(p)) = PieceEnd(p) - a
      /\ PieceEnd(p) = IF a + L <= T THEN a + L ELSE T
  BY PieceBegins, PieceEnds, DataIsSequence DEF PieceStart
<1>3. q \in Nat /\ r \in Nat /\ r < L /\ T = L * q + r
  BY <1>1, Division
<1>4. n = (T + L - 1) \div L
  BY DEF numPieces
<1>5. p <= n - 1 /\ n \in Nat
  BY <1>1, <1>2, <1>4, Division DEF Pieces
<1> HIDE DEF T, L, q, r, n
<1>6. /\ L * n <= T + L - 1 /\ T + L - 1 < L * n + L
  <2>1. T + L - 1 \in Nat
    BY <1>1
  <2> QED  BY <1>1, <1>4, <2>1, Division
<1> DEFINE y == L * n
           z == L * q
<1>7. a <= y - L
  <2>1. L * p <= L * (n - 1)
    BY <1>1, <1>2, <1>5, Products
  <2>2. L * (n - 1) = y - L /\ L * p = a
    BY <1>1, <1>2, <1>5
  <2> QED  BY <2>1, <2>2
<1>8. p = n - 1 => a = y - L
  BY <1>1, <1>5
<1>9. p # n - 1 => a + L <= y - L
  <2> SUFFICES ASSUME p # n - 1 PROVE a + L <= y - L
    OBVIOUS
  <2>1. p + 1 <= n - 1
    BY <1>2, <1>5
  <2>2. L * (p + 1) <= L * (n - 1)
    BY <1>1, <1>2, <1>5, <2>1, Products
  <2>3. L * (n - 1) = y - L /\ L * (p + 1) = a + L
    BY <1>1, <1>2, <1>5
  <2> QED  BY <2>2, <2>3
<1>10. y = IF r = 0 THEN z ELSE z + L
  <2>1. CASE r = 0
    <3>1. n = q
      <4>1. ASSUME n + 1 <= q PROVE FALSE
        <5>1. L * (n + 1) <= L * q /\ L * (n + 1) = L * n + L
          BY <1>1, <1>3, <1>5, <4>1, Products
        <5> QED  BY <1>1, <1>3, <1>5, <1>6, <2>1, <5>1
      <4>2. ASSUME q + 1 <= n PROVE FALSE
        <5>1. L * (q + 1) <= L * n /\ L * (q + 1) = L * q + L
          BY <1>1, <1>3, <1>5, <4>2, Products
        <5> QED  BY <1>1, <1>3, <1>5, <1>6, <2>1, <5>1
      <4> QED  BY <1>3, <1>5, <4>1, <4>2
    <3> QED  BY <2>1, <3>1
  <2>2. CASE r # 0
    <3>1. n = q + 1
      <4>1. ASSUME n <= q PROVE FALSE
        <5>1. L * n <= L * q
          BY <1>1, <1>3, <1>5, <4>1, Products
        <5> QED  BY <1>1, <1>3, <1>5, <1>6, <2>2, <5>1
      <4>2. ASSUME q + 2 <= n PROVE FALSE
        <5>1. L * (q + 2) <= L * n /\ L * (q + 2) = L * q + L + L
          BY <1>1, <1>3, <1>5, <4>2, Products
        <5> QED  BY <1>1, <1>3, <1>5, <1>6, <2>2, <5>1
      <4> QED  BY <1>3, <1>5, <4>1, <4>2
    <3>2. L * (q + 1) = L * q + L
      BY <1>1, <1>3
    <3> QED  BY <2>2, <3>1, <3>2
  <2> QED  BY <2>1, <2>2
<1>11. T = z + r /\ y <= T + L - 1 /\ y \in Int /\ z \in Int
  BY <1>1, <1>3, <1>5, <1>6
<1> HIDE DEF y, z, a
<1>12. p = n - 1 /\ r # 0 => Len(PieceData(p)) = r
  BY <1>1, <1>2, <1>3, <1>8, <1>10, <1>11
<1>13. ~(p = n - 1 /\ r # 0) => Len(PieceData(p)) = L
  BY <1>1, <1>2, <1>3, <1>8, <1>9, <1>10, <1>11
<1> QED  BY <1>3, <1>12, <1>13 DEF T, L, n, r

\* How long the peer thinks that a piece is, and in how many blocks it is cut.
LEMMA ExpectedPiece ==
  ASSUME torrent \in Torrents, NEW p \in Pieces
  PROVE  /\ expectedLengthForPiece(p) = Len(PieceData(p))
         /\ expectedNumBlocksForPiece(p) =
              IF p = numPieces - 1 /\ totalLength % PieceLength # 0
              THEN Len(PieceData(p)) \div BlockSize + 1 ELSE Len(PieceData(p)) \div BlockSize
<1>1. expectedLengthForPiece(p) = Len(PieceData(p))
  BY LastPiece DEF expectedLengthForPiece
<1>2. PieceLength \in Nat /\ totalLength % PieceLength \in Nat
  BY TorrentFacts, TotalLength
<1>3. expectedNumBlocksForPiece(p) = IF p = numPieces - 1 /\ Len(PieceData(p)) # PieceLength
                                     THEN Len(PieceData(p)) \div BlockSize + 1
                                     ELSE PieceLength \div BlockSize
  BY <1>1 DEF expectedNumBlocksForPiece
<1> QED  BY <1>1, <1>2, <1>3, LastPiece

\* The blocks of the last piece, if it is shorter.
LEMMA TileShort ==
  ASSUME torrent \in Torrents, NEW p \in Pieces,
         p = numPieces - 1, totalLength % PieceLength # 0,
         NEW r, r = Len(PieceData(p))
  PROVE  /\ \A k \in 0 .. r - 1 : \E b \in 0 .. r \div BlockSize :
              b * BlockSize <= k /\ k < b * BlockSize + expectedLengthForBlock(p, b)
         /\ \A b \in 0 .. r \div BlockSize :
              /\ expectedLengthForBlock(p, b) <= BlockSize
              /\ b * BlockSize + expectedLengthForBlock(p, b) <= r
         /\ (\E b \in 0 .. r \div BlockSize : expectedLengthForBlock(p, b) = 0)
              <=> r % BlockSize = 0
<1> DEFINE B == BlockSize
           n == r \div B
<1>1. B \in Nat \ {0} /\ r = totalLength % PieceLength /\ r \in Nat
  BY TorrentFacts, TotalLength, LastPiece
<1>2. \A b : expectedLengthForBlock(p, b) = IF b * B + B > r THEN r % B ELSE B
  BY <1>1, ExpectedPiece DEF expectedLengthForBlock
<1>3. n \in Nat /\ r = B * n + (r % B) /\ r % B \in Nat /\ r % B < B
  BY <1>1, Division
<1> HIDE DEF B, n
<1>4. n * B = B * n /\ n * B \in Nat
  BY <1>1, <1>3
<1>5. ASSUME NEW b \in 0 .. n
      PROVE  /\ b * B \in Nat
             /\ expectedLengthForBlock(p, b) = IF b = n THEN r - b * B ELSE B
             /\ b # n => b * B + B <= r
             /\ expectedLengthForBlock(p, b) <= B
  <2>1. CASE b = n
    <3> DEFINE x == n * B
    <3>1. x \in Nat /\ r = x + (r % B)
      BY <1>3, <1>4
    <3> HIDE DEF x
    <3>2. x + B > r /\ r % B = r - x
      BY <1>1, <1>3, <3>1
    <3>3. expectedLengthForBlock(p, b) = r % B
      BY <1>2, <2>1, <3>2 DEF x
    <3>4. expectedLengthForBlock(p, b) <= B
      BY <1>1, <1>3, <3>3
    <3> QED  BY <1>4, <2>1, <3>2, <3>3, <3>4 DEF x
  <2>2. CASE b # n
    <3>1. b + 1 <= n /\ b \in Nat
      BY <1>3, <2>2
    <3>2. (b + 1) * B <= n * B /\ (b + 1) * B = b * B + B /\ b * B \in Nat
      BY <1>1, <1>3, <3>1, Products
    <3> DEFINE x == n * B
               y == b * B
    <3>3. x \in Nat /\ y \in Nat /\ y + B <= x /\ r = x + (r % B)
      BY <1>3, <1>4, <3>2
    <3> HIDE DEF x, y
    <3>4. y + B <= r /\ ~(y + B > r)
      BY <1>1, <1>3, <3>3
    <3> QED  BY <1>1, <1>2, <2>2, <3>3, <3>4 DEF y
  <2> QED  BY <2>1, <2>2
<1>6. ASSUME NEW b \in 0 .. n
      PROVE  expectedLengthForBlock(p, b) <= B /\ b * B + expectedLengthForBlock(p, b) <= r
  BY <1>1, <1>5
<1>7. ASSUME NEW k \in 0 .. r - 1
      PROVE  \E b \in 0 .. n : b * B <= k /\ k < b * B + expectedLengthForBlock(p, b)
  <2> DEFINE b == k \div B
  <2>1. b \in Nat /\ b * B <= k /\ k < b * B + B /\ b <= n
    BY <1>1, BlockOf DEF n
  <2> HIDE DEF b
  <2>2. b \in 0 .. n
    BY <1>3, <2>1
  <2>3. k < b * B + expectedLengthForBlock(p, b)
    BY <1>1, <1>5, <2>1, <2>2
  <2> QED  BY <2>1, <2>2, <2>3
<1>8. (\E b \in 0 .. n : expectedLengthForBlock(p, b) = 0) <=> r % B = 0
  <2>1. n \in 0 .. n
    BY <1>3
  <2>2. expectedLengthForBlock(p, n) = r - n * B
    BY <1>5, <2>1
  <2>3. r - n * B = r % B
    BY <1>1, <1>3, <1>4
  <2>4. ASSUME NEW b \in 0 .. n, b # n PROVE expectedLengthForBlock(p, b) # 0
    BY <1>1, <1>5, <2>4
  <2> QED  BY <2>1, <2>2, <2>3, <2>4
<1> QED  BY <1>6, <1>7, <1>8 DEF B, n

\* The blocks of a piece of full length: they lie in it, and cover all of it only
\* if nothing is left when it is cut into blocks.
LEMMA TileFull ==
  ASSUME torrent \in Torrents, NEW p \in Pieces,
         ~(p = numPieces - 1 /\ totalLength % PieceLength # 0)
  PROVE  /\ (\A k \in 0 .. PieceLength - 1 : \E b \in 0 .. PieceLength \div BlockSize - 1 :
               b * BlockSize <= k /\ k < b * BlockSize + expectedLengthForBlock(p, b))
              <=> PieceLength % BlockSize = 0
         /\ \A b \in 0 .. PieceLength \div BlockSize - 1 :
              /\ expectedLengthForBlock(p, b) <= BlockSize
              /\ b * BlockSize + expectedLengthForBlock(p, b) <= PieceLength
              /\ expectedLengthForBlock(p, b) # 0
<1> DEFINE B == BlockSize
           L == PieceLength
           n == L \div B
           rest == L % B
<1>1. B \in Nat \ {0} /\ L \in Nat \ {0}
  BY TorrentFacts
<1>2. Len(PieceData(p)) = L
  BY LastPiece
<1>3. expectedLengthForPiece(p) = L
  BY <1>2, ExpectedPiece
<1>4. n \in Nat /\ L = B * n + rest /\ rest \in Nat /\ rest < B
  BY <1>1, Division
<1>5. \A b : expectedLengthForBlock(p, b) = IF p = numPieces - 1 /\ b * B + B > L
                                            THEN (totalLength % L) % B ELSE B
  BY <1>3 DEF expectedLengthForBlock
<1> DEFINE z == n * B
<1> HIDE DEF B, L, n, rest
<1>0. z \in Nat /\ L = z + rest
  BY <1>1, <1>4
<1> HIDE DEF z
<1>6. ASSUME NEW b \in 0 .. n - 1 PROVE b * B \in Nat /\ b * B + B <= z /\ b * B + B <= L
  <2>1. b + 1 <= n /\ b \in Nat
    BY <1>4
  <2>2. (b + 1) * B <= n * B /\ (b + 1) * B = b * B + B /\ b * B \in Nat
    BY <1>1, <1>4, <2>1, Products
  <2>3. b * B + B <= z
    BY <2>2 DEF z
  <2> DEFINE x == b * B
  <2> HIDE DEF x
  <2>4. x + B <= L
    BY <1>0, <1>1, <1>4, <2>2, <2>3 DEF x
  <2> QED  BY <2>2, <2>3, <2>4 DEF x
<1>7. ASSUME NEW b \in 0 .. n - 1 PROVE expectedLengthForBlock(p, b) = B
  BY <1>1, <1>5, <1>6
<1>8. ASSUME NEW b \in 0 .. n - 1
      PROVE  /\ expectedLengthForBlock(p, b) <= B /\ b * B + expectedLengthForBlock(p, b) <= L
             /\ expectedLengthForBlock(p, b) # 0
  BY <1>1, <1>6, <1>7
<1>9. ASSUME rest = 0, NEW k \in 0 .. L - 1
      PROVE  \E b \in 0 .. n - 1 : b * B <= k /\ k < b * B + expectedLengthForBlock(p, b)
  <2> DEFINE b == k \div B
  <2>1. b \in Nat /\ b * B <= k /\ k < b * B + B /\ b <= n
    BY <1>1, BlockOf DEF n
  <2> HIDE DEF b
  <2>2. b # n
    <3> SUFFICES ASSUME b = n PROVE FALSE
      OBVIOUS
    <3>1. z <= k /\ z = L
      BY <1>0, <1>1, <1>9, <2>1 DEF z
    <3> QED  BY <1>1, <3>1
  <2>3. b \in 0 .. n - 1
    BY <1>4, <2>1, <2>2
  <2> QED  BY <1>7, <2>1, <2>3
<1>10. ASSUME rest # 0
       PROVE  /\ z \in 0 .. L - 1
              /\ ~\E b \in 0 .. n - 1 : b * B <= z /\ z < b * B + expectedLengthForBlock(p, b)
  <2>1. z \in 0 .. L - 1
    BY <1>0, <1>1, <1>4, <1>10
  <2>2. ASSUME NEW b \in 0 .. n - 1 PROVE ~(z < b * B + expectedLengthForBlock(p, b))
    BY <1>0, <1>1, <1>6, <1>7
  <2> QED  BY <2>1, <2>2
<1>11. (\A k \in 0 .. L - 1 : \E b \in 0 .. n - 1 :
          b * B <= k /\ k < b * B + expectedLengthForBlock(p, b)) <=> rest = 0
  BY <1>9, <1>10
<1> QED  BY <1>8, <1>11 DEF B, L, n, rest

\* The blocks that a peer requests for a piece lie in it without overlap, for
\* every length of the torrent, its pieces and its blocks.  They cover a shorter
\* last piece; they cover the others exactly if the piece length is a multiple of
\* the block size.  One of them is empty exactly for a shorter last piece of whole
\* blocks.
THEOREM BlocksAlwaysTile == StSpec => []BlocksTile
<1>1. ASSUME DiskInv PROVE BlocksTile
  <2>1. torrent \in Torrents
    BY <1>1, InvDisk
  <2>2. ASSUME NEW p \in Pieces
        PROVE  /\ expectedLengthForPiece(p) = Len(PieceData(p))
               /\ \A b \in 0 .. expectedNumBlocksForPiece(p) - 1 :
                    /\ expectedLengthForBlock(p, b) <= BlockSize
                    /\ b * BlockSize + expectedLengthForBlock(p, b) <= Len(PieceData(p))
               /\ Covered(p) <=> Len(PieceData(p)) < PieceLength \/ PieceLength % BlockSize = 0
               /\ HasEmptyBlock(p) <=> /\ Len(PieceData(p)) < PieceLength
                                       /\ Len(PieceData(p)) % BlockSize = 0
    <3>1. expectedLengthForPiece(p) = Len(PieceData(p))
      BY <2>1, ExpectedPiece
    <3>2. CASE p = numPieces - 1 /\ totalLength % PieceLength # 0
      <4>1. PICK r : r = Len(PieceData(p))
        OBVIOUS
      <4>2. r \div BlockSize \in Nat
        <5>1. r \in Nat /\ BlockSize \in Nat \ {0}
          BY <2>1, <4>1, DataIsSequence, TorrentFacts
        <5> QED  BY <5>1, Division
      <4>3. expectedNumBlocksForPiece(p) = r \div BlockSize + 1
        BY <2>1, <3>2, <4>1, ExpectedPiece
      <4>4. expectedNumBlocksForPiece(p) - 1 = r \div BlockSize
        BY <4>2, <4>3
      <4>5. Len(PieceData(p)) < PieceLength
        BY <2>1, <3>2, LastPiece
      <4>6. Covered(p)
        BY <2>1, <3>2, <4>1, <4>4, TileShort DEF Covered
      <4>7. HasEmptyBlock(p) <=> r % BlockSize = 0
        BY <2>1, <3>2, <4>1, <4>4, TileShort DEF HasEmptyBlock
      <4> QED  BY <2>1, <3>1, <3>2, <4>1, <4>4, <4>5, <4>6, <4>7, TileShort
    <3>3. CASE ~(p = numPieces - 1 /\ totalLength % PieceLength # 0)
      <4>1. Len(PieceData(p)) = PieceLength /\ PieceLength \in Nat
        BY <2>1, <3>3, LastPiece, TorrentFacts
      <4>2. expectedNumBlocksForPiece(p) = PieceLength \div BlockSize
        BY <2>1, <3>3, <4>1, ExpectedPiece
      <4>3. Covered(p) <=> PieceLength % BlockSize = 0
        BY <2>1, <3>3, <4>1, <4>2, TileFull DEF Covered
      <4>4. ~(Len(PieceData(p)) < PieceLength)
        BY <4>1
      <4>5. ~HasEmptyBlock(p)
        BY <2>1, <3>3, <4>2, TileFull DEF HasEmptyBlock
      <4> QED  BY <2>1, <3>1, <3>3, <4>1, <4>2, <4>3, <4>4, <4>5, TileFull
    <3> QED  BY <3>2, <3>3
  <2> QED  BY <2>2 DEF BlocksTile
<1> QED  BY <1>1, DiskInvariance, PTL

-----------------------------------------------------------------------------
(* The bytes left.                                                         *)

Bytes(P) == UNION {PositionsOf(p) : p \in P}

\* No piece has been handed over twice, and all that were found are of full length.
Plain ==
  /\ \A p \in Pieces : handed[p] <= 1
  /\ \A p \in found : Len(PieceData(p)) = PieceLength

HasWriter(p) == \E w \in Writers : writer[w] # Idle /\ writer[w].piece = p
Unreported(p) ==
  \E w \in Writers : writer[w] # Idle /\ writer[w].piece = p /\ writer[w].phase # "stats"

\* The pieces whose bytes have been subtracted.
Counted == found \cup {p \in Pieces : handed[p] = 1 /\ ~HasWriter(p)}

\* Each goroutine has a piece of its own that was handed over in this session;
\* finishedPieces has the reported pieces; left is what has not been counted.
Account ==
  /\ \A w \in Writers : writer[w] # Idle => /\ handed[writer[w].piece] = 1
                                            /\ writer[w].piece \notin found
  /\ \A w, v \in Writers : writer[w] # Idle /\ writer[v] # Idle /\ w # v
                           => writer[w].piece # writer[v].piece
  /\ \A p \in Pieces : p \in finishedPieces
                         <=> p \in found \/ (handed[p] = 1 /\ ~Unreported(p))
  /\ left = Cardinality(Bytes(Pieces \ Counted))

LeftInv ==
  /\ ~running => \A w \in Writers : writer[w] = Idle
  /\ running /\ Plain => Account

\* Two pieces have no position in common.
LEMMA PiecesApart ==
  ASSUME torrent \in Torrents, NEW p \in Pieces, NEW q \in Pieces, p < q
  PROVE  PositionsOf(p) \cap PositionsOf(q) = {}
<1> DEFINE L == PieceLength
<1>1. L \in Nat \ {0} /\ p \in Nat /\ q \in Nat
  BY TorrentFacts, PieceBegins
<1>2. (p + 1) * L <= q * L /\ (p + 1) * L = p * L + L /\ q * L \in Nat
  <2>1. p + 1 <= q
    BY <1>1
  <2> HIDE DEF L
  <2> QED  BY <1>1, <2>1, Products
<1>3. /\ PositionsOf(p) = PieceStart(p) + 1 .. PieceEnd(p)
      /\ PositionsOf(q) = PieceStart(q) + 1 .. PieceEnd(q)
  BY PieceBytes
<1>4. /\ PieceEnd(p) \in Nat /\ PieceEnd(p) <= PieceStart(p) + L
      /\ PieceStart(p) = p * L /\ PieceStart(q) = q * L
      /\ PieceStart(p) \in Nat /\ PieceStart(q) \in Nat
  BY PieceEnds, PieceBegins DEF PieceStart
<1>5. PieceEnd(p) <= PieceStart(q)
  <2> DEFINE x == p * L
             y == q * L
  <2>1. x + L <= y /\ PieceEnd(p) <= x + L /\ x \in Nat /\ y \in Nat /\ y = PieceStart(q)
    BY <1>1, <1>2, <1>4
  <2> HIDE DEF x, y, L
  <2> QED  BY <1>1, <1>4, <2>1
<1> QED  BY <1>3, <1>4, <1>5

\* Each position belongs to a piece.
LEMMA PiecesCover ==
  ASSUME torrent \in Torrents, NEW k \in 1 .. totalLength
  PROVE  \E p \in Pieces : k \in PositionsOf(p)
<1> DEFINE T == totalLength
           L == PieceLength
           n == numPieces
           p == (k - 1) \div L
<1>1. T \in Nat /\ L \in Nat \ {0}
  BY TotalLength, TorrentFacts
<1>2. n = (T + L - 1) \div L
  BY DEF numPieces
<1>3. k \in 1 .. T
  OBVIOUS
<1> HIDE DEF T, L, n
<1>4. k - 1 \in Nat /\ T + L - 1 \in Nat /\ k \in Nat
  BY <1>1, <1>3
<1>5. p \in Nat /\ L * p <= k - 1 /\ k - 1 < L * p + L
  BY <1>1, <1>4, Division
<1>6. n \in Nat /\ T + L - 1 < L * n + L
  BY <1>1, <1>2, <1>4, Division
<1> HIDE DEF p
<1>7. p < n
  <2> SUFFICES ASSUME n <= p PROVE FALSE
    BY <1>5, <1>6
  <2>1. L * n <= L * p /\ L * n \in Int /\ L * p \in Int
    BY <1>1, <1>5, <1>6, Products
  <2> DEFINE x == L * n
             y == L * p
  <2>2. x <= y /\ x \in Int /\ y \in Int /\ y <= k - 1 /\ T + L - 1 < x + L /\ k <= T
    BY <1>1, <1>3, <1>5, <1>6, <2>1
  <2> HIDE DEF x, y
  <2> QED  BY <1>1, <1>4, <2>2
<1>8. p \in Pieces
  BY <1>5, <1>6, <1>7 DEF Pieces, n
<1>9. /\ PositionsOf(p) = PieceStart(p) + 1 .. PieceEnd(p) /\ PieceStart(p) = L * p
      /\ PieceEnd(p) = IF PieceStart(p) + L <= T THEN PieceStart(p) + L ELSE T
      /\ PieceStart(p) \in Nat
  <2>1. PieceStart(p) = L * p
    BY <1>1, <1>5 DEF PieceStart, L
  <2> QED  BY <1>8, <2>1, PieceBytes, PieceEnds, PieceBegins DEF T, L
<1>10. k \in PositionsOf(p)
  BY <1>1, <1>3, <1>4, <1>5, <1>9
<1> QED  BY <1>8, <1>10

\* The bytes of some pieces are finitely many.
LEMMA BytesFinite ==
  ASSUME torrent \in Torrents, NEW P \in SUBSET Pieces
  PROVE  Bytes(P) \subseteq 1 .. totalLength /\ IsFiniteSet(Bytes(P)) /\ Cardinality(Bytes(P)) \in Nat
<1>1. totalLength \in Nat
  BY TotalLength
<1>2. \A p \in Pieces : PositionsOf(p) \subseteq 1 .. totalLength
  BY PieceBytes
<1>3. Bytes(P) \subseteq 1 .. totalLength
  BY <1>2 DEF Bytes
<1>4. IsFiniteSet(1 .. totalLength)
  BY <1>1, FS_Interval
<1>5. IsFiniteSet(Bytes(P))
  BY <1>3, <1>4, FS_Subset
<1> QED  BY <1>3, <1>5, FS_CardinalityType

\* All pieces together are the torrent.
LEMMA AllBytes ==
  ASSUME torrent \in Torrents
  PROVE  Cardinality(Bytes(Pieces)) = totalLength
<1>1. totalLength \in Nat
  BY TotalLength
<1>2. Bytes(Pieces) \subseteq 1 .. totalLength
  BY BytesFinite
<1>3. 1 .. totalLength \subseteq Bytes(Pieces)
  BY PiecesCover DEF Bytes
<1>4. Bytes(Pieces) = 1 .. totalLength
  BY <1>2, <1>3
<1>5. Cardinality(1 .. totalLength) = totalLength
  BY <1>1, FS_Interval
<1> QED  BY <1>4, <1>5

\* A piece less is its bytes less.
LEMMA BytesLess ==
  ASSUME torrent \in Torrents, NEW P \in SUBSET Pieces, NEW p \in P
  PROVE  Cardinality(Bytes(P \ {p})) = Cardinality(Bytes(P)) - Len(PieceData(p))
<1>1. p \in Pieces
  OBVIOUS
<1>2. ASSUME NEW q \in Pieces, q # p PROVE PositionsOf(q) \cap PositionsOf(p) = {}
  <2>1. p \in Nat /\ q \in Nat
    BY <1>1, PieceBegins
  <2>2. p < q \/ q < p
    BY <1>2, <2>1
  <2> QED  BY <1>1, <2>2, PiecesApart
<1>3. Bytes(P \ {p}) = Bytes(P) \ PositionsOf(p)
  <2>1. ASSUME NEW k \in Bytes(P \ {p}) PROVE k \in Bytes(P) /\ k \notin PositionsOf(p)
    <3>1. PICK q \in P \ {p} : k \in PositionsOf(q)
      BY DEF Bytes
    <3> QED  BY <1>2, <3>1 DEF Bytes
  <2>2. ASSUME NEW k \in Bytes(P), k \notin PositionsOf(p) PROVE k \in Bytes(P \ {p})
    <3>1. PICK q \in P : k \in PositionsOf(q)
      BY DEF Bytes
    <3> QED  BY <2>2, <3>1 DEF Bytes
  <2> QED  BY <2>1, <2>2
<1>4. Bytes(P) \cap PositionsOf(p) = PositionsOf(p)
  BY DEF Bytes
<1>5. Cardinality(Bytes(P) \ PositionsOf(p)) = Cardinality(Bytes(P)) - Cardinality(PositionsOf(p))
  <2>1. IsFiniteSet(Bytes(P))
    BY BytesFinite
  <2> QED  BY <1>4, <2>1, FS_Difference
<1>6. Cardinality(PositionsOf(p)) = Len(PieceData(p))
  BY <1>1, PieceBytes, DataIsSequence
<1> QED  BY <1>3, <1>5, <1>6

\* What calcBytesLeft subtracts is right if the pieces are of full length.
LEMMA FullPiecesLess ==
  ASSUME torrent \in Torrents, NEW F \in SUBSET Pieces,
         \A p \in F : Len(PieceData(p)) = PieceLength
  PROVE  Cardinality(Bytes(Pieces \ F)) = totalLength - PieceLength * Cardinality(F)
<1> DEFINE T == totalLength
           L == PieceLength
           Full(G) == G \in SUBSET Pieces /\ \A p \in G : Len(PieceData(p)) = PieceLength
           n == Cardinality(F)
           S == {k \in 0 .. n : \A G : Full(G) /\ Cardinality(G) = k
                                  => Cardinality(Bytes(Pieces \ G)) = T - L * k}
<1>1. /\ IsFiniteSet(Pieces) /\ n \in Nat /\ T \in Nat /\ L \in Nat \ {0}
  BY PiecesFinite, TotalLength, TorrentFacts
<1>2. \A G \in SUBSET Pieces : IsFiniteSet(G) /\ Cardinality(G) \in Nat
  BY <1>1, PiecesFinite, FS_Subset
<1>3. 0 \in S
  <2>1. ASSUME NEW G, Full(G), Cardinality(G) = 0
        PROVE  Cardinality(Bytes(Pieces \ G)) = T - L * 0
    <3>1. G = {}
      BY <1>2, <2>1, FS_EmptySet
    <3>2. Pieces \ G = Pieces /\ T - L * 0 = T
      BY <1>1, <3>1
    <3> QED  BY <3>2, AllBytes
  <2> QED  BY <1>1, <2>1
<1>4. ASSUME NEW k \in 0 .. n, k \in S, k < n PROVE k + 1 \in S
  <2>1. ASSUME NEW G, Full(G), Cardinality(G) = k + 1
        PROVE  Cardinality(Bytes(Pieces \ G)) = T - L * (k + 1)
    <3>1. G # {} /\ IsFiniteSet(G)
      BY <1>2, <2>1, FS_EmptySet
    <3>2. PICK p : p \in G
      BY <3>1
    <3>3. Cardinality(G \ {p}) = k
      <4>1. Cardinality(G \ {p}) = Cardinality(G) - 1
        BY <3>1, <3>2, FS_RemoveElement
      <4>2. Cardinality(G) = k + 1
        BY <2>1
      <4> QED  BY <4>1, <4>2
    <3>4. Full(G \ {p})
      BY <2>1
    <3>5. Cardinality(Bytes(Pieces \ (G \ {p}))) = T - L * k
      BY <1>4, <3>3, <3>4
    <3>6. p \in Pieces \ (G \ {p}) /\ (Pieces \ (G \ {p})) \ {p} = Pieces \ G
      BY <2>1, <3>2
    <3>7. Len(PieceData(p)) = L
      BY <2>1, <3>2
    <3>8. Cardinality(Bytes(Pieces \ G)) = Cardinality(Bytes(Pieces \ (G \ {p}))) - Len(PieceData(p))
      <4>1. PICK P : P = Pieces \ (G \ {p})
        OBVIOUS
      <4>2. P \in SUBSET Pieces /\ p \in P /\ P \ {p} = Pieces \ G
        BY <3>6, <4>1
      <4> QED  BY <4>1, <4>2, BytesLess
    <3>9. T - L * (k + 1) = T - L * k - L
      BY <1>1
    <3> QED  BY <3>5, <3>7, <3>8, <3>9
  <2>2. k + 1 \in 0 .. n
    BY <1>1, <1>4
  <2> QED  BY <2>1, <2>2
<1> HIDE DEF S
<1>5. n \in S
  <2>1. n \in 0 .. n
    BY <1>1
  <2> QED  BY <1>1, <1>3, <1>4, <2>1, InductionUpTo
<1>6. Full(F) /\ Cardinality(F) = n
  OBVIOUS
<1> HIDE DEF Full, n
<1> QED  BY <1>5, <1>6 DEF S, n

\* Pieces and their bytes depend on the torrent alone.
LEMMA SamePieces ==
  ASSUME torrent' = torrent
  PROVE  /\ \A p : PieceData(p)' = PieceData(p)
         /\ \A P : Bytes(P)' = Bytes(P)
<1>1. PieceLength' = PieceLength /\ totalLength' = totalLength
  BY SameTorrent
<1>2. \A p : PositionsOf(p)' = PositionsOf(p)
  BY <1>1 DEF PositionsOf
<1>3. \A p : PieceData(p)' = PieceData(p)
  BY <1>1, <1>2 DEF PieceData
<1>4. ASSUME NEW P PROVE Bytes(P)' = Bytes(P)
  BY <1>2 DEF Bytes
<1> QED  BY <1>3, <1>4

\* What the account is after a step that leaves the torrent alone.
LEMMA AccountNext ==
  ASSUME torrent' = torrent, NEW C,
         \A w \in Writers : writer'[w] # Idle => /\ handed'[writer'[w].piece] = 1
                                                 /\ writer'[w].piece \notin found',
         \A w, v \in Writers : writer'[w] # Idle /\ writer'[v] # Idle /\ w # v
                                 => writer'[w].piece # writer'[v].piece,
         \A p \in Pieces : p \in finishedPieces'
                             <=> p \in found' \/ (handed'[p] = 1 /\ ~Unreported(p)'),
         C = found' \cup {p \in Pieces : handed'[p] = 1 /\ ~HasWriter(p)'},
         left' = Cardinality(Bytes(Pieces \ C))
  PROVE  Account'
<1>1. Pieces' = Pieces
  BY SameTorrent
<1>2. \A P : Bytes(P)' = Bytes(P)
  BY SamePieces
<1>3. Counted' = C
  BY <1>1 DEF Counted
<1>4. left' = Cardinality(Bytes(Pieces \ Counted))'
  BY <1>1, <1>2, <1>3
<1> QED  BY <1>1, <1>4 DEF Account

\* At the start.
LEMMA LeftInvStart ==
  ASSUME DiskInv, LeftInv, Start
  PROVE  LeftInv'
<1>1. torrent \in Torrents /\ GoodDisk(files)
  BY InvDisk
<1>2. /\ torrent' = torrent /\ writer' = writer /\ running' = TRUE
      /\ found' = Verify /\ finishedPieces' = Verify
      /\ handed' = [p \in Pieces |-> 0]
      /\ left' = totalLength - PieceLength * Cardinality(Verify)
  BY DEF Start, calcBytesLeft
<1>3. \A w \in Writers : writer'[w] = Idle
  BY <1>2 DEF LeftInv, Start
<1>4. Verify \subseteq Pieces
  BY DEF Verify
<1>5. ASSUME Plain' PROVE Account'
  <2>1. \A p \in Verify : Len(PieceData(p)) = PieceLength
    <3>1. \A p \in found' : Len(PieceData(p))' = PieceLength'
      BY <1>5 DEF Plain
    <3>2. PieceLength' = PieceLength /\ \A p : PieceData(p)' = PieceData(p)
      BY <1>2, SameTorrent, SamePieces
    <3> QED  BY <1>2, <3>1, <3>2
  <2>2. left' = Cardinality(Bytes(Pieces \ Verify))
    BY <1>1, <1>2, <1>4, <2>1, FullPiecesLess
  <2>3. Verify = found' \cup {p \in Pieces : handed'[p] = 1 /\ ~HasWriter(p)'}
    BY <1>2
  <2>4. \A p \in Pieces : handed'[p] # 1
    BY <1>2
  <2> QED  BY <1>2, <1>3, <2>2, <2>3, <2>4, AccountNext
<1> QED  BY <1>2, <1>5 DEF LeftInv

\* At the end all goroutines are gone; a step that changes nothing of it keeps it.
LEMMA LeftInvEnd ==
  ASSUME LeftInv, torrent' = torrent, found' = found, finishedPieces' = finishedPieces,
         handed' = handed, left' = left,
         \/ running' = FALSE /\ writer' = [w \in Writers |-> Idle]
         \/ running' = running /\ writer' = writer
  PROVE  LeftInv'
<1>1. CASE running' = FALSE /\ writer' = [w \in Writers |-> Idle]
  BY <1>1 DEF LeftInv
<1>2. CASE running' = running /\ writer' = writer
  <2>1. ASSUME Plain' PROVE Plain
    <3>1. PieceLength' = PieceLength /\ Pieces' = Pieces /\ \A p : PieceData(p)' = PieceData(p)
      BY SameTorrent, SamePieces
    <3> QED  BY <2>1, <3>1 DEF Plain
  <2>2. ASSUME Account PROVE Account'
    <3>1. \A p : Unreported(p)' <=> Unreported(p)
      BY <1>2 DEF Unreported
    <3>2. \A p : HasWriter(p)' <=> HasWriter(p)
      BY <1>2 DEF HasWriter
    <3>3. /\ \A w \in Writers : writer'[w] # Idle => /\ handed'[writer'[w].piece] = 1
                                                     /\ writer'[w].piece \notin found'
          /\ \A w, v \in Writers : writer'[w] # Idle /\ writer'[v] # Idle /\ w # v
                                     => writer'[w].piece # writer'[v].piece
      BY <1>2, <2>2 DEF Account
    <3>4. \A p \in Pieces : p \in finishedPieces'
                             <=> p \in found' \/ (handed'[p] = 1 /\ ~Unreported(p)')
      BY <2>2, <3>1 DEF Account
    <3>5. Counted = found' \cup {p \in Pieces : handed'[p] = 1 /\ ~HasWriter(p)'}
      BY <3>2 DEF Counted
    <3>6. left' = Cardinality(Bytes(Pieces \ Counted))
      BY <2>2 DEF Account
    <3> QED  BY <3>3, <3>4, <3>5, <3>6, AccountNext
  <2> QED  BY <1>2, <2>1, <2>2 DEF LeftInv
<1> QED  BY <1>1, <1>2

\* A goroutine is not an idle one.
LEMMA BusyNotIdle ==
  ASSUME torrent \in Torrents, NEW g \in WriterRecords
  PROVE  g # Idle
<1>1. Pieces \subseteq Nat
  BY PieceBegins
<1>2. g \in [phase : {"writing", "report", "stats"}, piece : Nat, file : Nat,
             offset : Nat, data : Seq(Nat)]
  BY <1>1 DEF WriterRecords
<1> QED  BY <1>2, IdleAssumption

\* A goroutine that writes keeps its piece.
LEMMA WriterStep ==
  ASSUME DiskInv, NEW w \in Writers, WriteFile(w)
  PROVE  \E h \in WriterRecords : /\ writer' = [writer EXCEPT ![w] = h]
                                  /\ h.piece = writer[w].piece /\ h.phase # "stats"
<1>1. writer[w] # Idle /\ writer[w].phase = "writing"
  BY DEF WriteFile
<1>2. PICK g : g = writer[w]
  OBVIOUS
<1>3. PICK h : h = IF NextFile(g).data = << >> \/ g.file = Len(Lengths)
                   THEN [NextFile(g) EXCEPT !.phase = "report"] ELSE NextFile(g)
  OBVIOUS
<1>4. writer' = [writer EXCEPT ![w] = h]
  BY <1>2, <1>3 DEF WriteFile
<1>5. h \in WriterRecords
  <2>1. CASE g.offset > Lengths[g.file]
    <3>1. /\ NextFile(g).data # << >> /\ g.file # Len(Lengths)
          /\ GoodWriter(NextFile(g), files)
      BY <1>1, <1>2, <2>1, SkipFile
    <3> QED  BY <1>3, <3>1 DEF GoodWriter
  <2>2. CASE ~(g.offset > Lengths[g.file])
    <3>1. PICK f : f = [files EXCEPT ![g.file] =
                          WriteAt(files[g.file], SubSeq(g.data, 1, Fitting(g)), g.offset)]
      OBVIOUS
    <3>2. GoodWriter(h, f)
      BY <1>1, <1>2, <1>3, <2>2, <3>1, WriteSome
    <3> QED  BY <3>2 DEF GoodWriter
  <2> QED  BY <2>1, <2>2
<1>6. g \in WriterRecords /\ g.phase = "writing"
  BY <1>1, <1>2, Writing
<1>7. NextFile(g).piece = g.piece /\ NextFile(g).phase = "writing"
  BY <1>6 DEF NextFile, WriterRecords
<1>8. h.piece = g.piece /\ h.phase # "stats"
  <2>1. CASE h = NextFile(g)
    BY <1>7, <2>1
  <2>2. CASE h = [NextFile(g) EXCEPT !.phase = "report"]
    <3>1. PICK r : r = NextFile(g)
      OBVIOUS
    <3>2. r.piece = g.piece /\ h = [r EXCEPT !.phase = "report"]
      BY <1>7, <2>2, <3>1
    <3>3. DOMAIN r = DOMAIN g
      BY <1>6, <3>1 DEF NextFile, WriterRecords
    <3>4. h.piece = g.piece /\ h.phase = "report"
      BY <1>6, <3>2, <3>3 DEF WriterRecords
    <3> QED  BY <3>4
  <2> QED  BY <1>3, <2>1, <2>2
<1> QED  BY <1>2, <1>4, <1>5, <1>8

\* A goroutine changes, and stays with its piece.
LEMMA LeftInvWriter ==
  ASSUME DiskInv, LeftInv, NEW w \in Writers, writer[w] # Idle,
         NEW h, h # Idle, h.piece = writer[w].piece, writer' = [writer EXCEPT ![w] = h],
         \/ finishedPieces' = finishedPieces /\ (h.phase = "stats" <=> writer[w].phase = "stats")
         \/ finishedPieces' = finishedPieces \cup {writer[w].piece} /\ h.phase = "stats",
         torrent' = torrent, found' = found, handed' = handed, left' = left, running' = running
  PROVE  LeftInv'
<1>1. running
  BY DEF LeftInv
<1>2. DOMAIN writer = Writers /\ torrent \in Torrents
  BY DEF DiskInv
<1>3. writer'[w] = h /\ \A v \in Writers : v # w => writer'[v] = writer[v]
  BY <1>2
<1>4. ASSUME Plain' PROVE Plain
  <2>1. PieceLength' = PieceLength /\ Pieces' = Pieces /\ \A p : PieceData(p)' = PieceData(p)
    BY SameTorrent, SamePieces
  <2> QED  BY <1>4, <2>1 DEF Plain
<1>5. ASSUME Plain' PROVE Account'
  <2>0. Account
    BY <1>1, <1>4, <1>5 DEF LeftInv
  <2>1. \A v \in Writers : (writer'[v] # Idle <=> writer[v] # Idle)
                             /\ (writer[v] # Idle => writer'[v].piece = writer[v].piece)
    BY <1>3
  <2>2. \A p : HasWriter(p)' <=> HasWriter(p)
    BY <2>1 DEF HasWriter
  <2>3. /\ \A v \in Writers : writer'[v] # Idle => /\ handed'[writer'[v].piece] = 1
                                                   /\ writer'[v].piece \notin found'
        /\ \A u, v \in Writers : writer'[u] # Idle /\ writer'[v] # Idle /\ u # v
                                   => writer'[u].piece # writer'[v].piece
    BY <2>0, <2>1 DEF Account
  <2>4. ASSUME NEW p \in Pieces
        PROVE  p \in finishedPieces' <=> p \in found' \/ (handed'[p] = 1 /\ ~Unreported(p)')
    <3>1. p \in finishedPieces <=> p \in found \/ (handed[p] = 1 /\ ~Unreported(p))
      BY <2>0 DEF Account
    <3>2. CASE p # writer[w].piece
      <4>1. Unreported(p)' <=> Unreported(p)
        BY <1>3, <3>2 DEF Unreported
      <4> QED  BY <3>1, <3>2, <4>1
    <3>3. CASE p = writer[w].piece
      <4>1. \A v \in Writers : writer[v] # Idle /\ writer[v].piece = p => v = w
        BY <2>0, <3>3 DEF Account
      <4>2. Unreported(p) <=> writer[w].phase # "stats"
        BY <3>3, <4>1 DEF Unreported
      <4>3. Unreported(p)' <=> h.phase # "stats"
        BY <1>3, <3>3, <4>1 DEF Unreported
      <4>4. handed[p] = 1 /\ p \notin found
        BY <2>0, <3>3 DEF Account
      <4>5. CASE finishedPieces' = finishedPieces /\ (h.phase = "stats" <=> writer[w].phase = "stats")
        BY <3>1, <4>2, <4>3, <4>4, <4>5
      <4>6. CASE finishedPieces' = finishedPieces \cup {writer[w].piece} /\ h.phase = "stats"
        BY <3>3, <4>3, <4>4, <4>6
      <4> QED  BY <4>5, <4>6
    <3> QED  BY <3>2, <3>3
  <2>5. Counted = found' \cup {p \in Pieces : handed'[p] = 1 /\ ~HasWriter(p)'}
    BY <2>2 DEF Counted
  <2>6. left' = Cardinality(Bytes(Pieces \ Counted))
    BY <2>0 DEF Account
  <2> QED  BY <2>3, <2>4, <2>5, <2>6, AccountNext
<1> QED  BY <1>1, <1>5 DEF LeftInv

\* A piece is handed over for the first time.
LEMMA LeftInvHandOver ==
  ASSUME DiskInv, LeftInv, NEW w \in Writers, NEW p \in Pieces, HandOver(w, p)
  PROVE  LeftInv'
<1> DEFINE g == [phase |-> "writing", piece |-> p, file |-> 1, offset |-> p * PieceLength,
                 data |-> PieceData(p)]
<1>1. /\ torrent \in Torrents /\ DOMAIN writer = Writers
      /\ handed \in [Pieces -> 0 .. MaxHandovers] /\ MaxHandovers \in Nat
  BY StorageAssumption DEF DiskInv
<1>2. g \in WriterRecords /\ g.piece = p /\ g.phase = "writing"
  <2>1. p * PieceLength \in Nat /\ PieceData(p) \in Seq(Nat)
    BY <1>1, PieceBegins, DataIsSequence DEF PieceStart
  <2> QED  BY <2>1 DEF WriterRecords
<1>3. g # Idle
  BY <1>1, <1>2, BusyNotIdle
<1>4. writer' = [writer EXCEPT ![w] = g]
  BY DEF HandOver
<1> HIDE DEF g
<1>5. /\ torrent' = torrent /\ running' = running /\ found' = found /\ left' = left
      /\ finishedPieces' = finishedPieces /\ running /\ writer[w] = Idle /\ p \notin found
      /\ handed' = [handed EXCEPT ![p] = @ + 1]
  BY DEF HandOver
<1>6. handed'[p] = handed[p] + 1 /\ \A q \in Pieces : q # p => handed'[q] = handed[q]
  BY <1>1, <1>5
<1>7. writer'[w] = g /\ \A v \in Writers : v # w => writer'[v] = writer[v]
  BY <1>1, <1>4
<1>8. ASSUME Plain' PROVE Plain /\ handed[p] = 0
  <2>1. PieceLength' = PieceLength /\ Pieces' = Pieces /\ \A q : PieceData(q)' = PieceData(q)
    BY <1>5, SameTorrent, SamePieces
  <2>2. \A q \in Pieces : handed'[q] <= 1
    BY <1>8, <2>1 DEF Plain
  <2>3. handed[p] = 0
    BY <1>1, <1>6, <2>2
  <2>4. \A q \in Pieces : handed[q] <= 1
    BY <1>6, <2>2, <2>3
  <2>5. \A q \in found : Len(PieceData(q)) = PieceLength
    BY <1>5, <1>8, <2>1 DEF Plain
  <2> QED  BY <2>3, <2>4, <2>5 DEF Plain
<1>9. ASSUME Plain' PROVE Account'
  <2>0. Account /\ handed[p] = 0
    BY <1>5, <1>8, <1>9 DEF LeftInv
  <2>1. \A v \in Writers : writer[v] # Idle => writer[v].piece # p
    BY <2>0 DEF Account
  <2>2. \A q \in Pieces : q # p => (HasWriter(q)' <=> HasWriter(q))
    BY <1>2, <1>5, <1>7 DEF HasWriter
  <2>3. \A q \in Pieces : q # p => (Unreported(q)' <=> Unreported(q))
    BY <1>2, <1>5, <1>7 DEF Unreported
  <2>4. HasWriter(p)' /\ Unreported(p)'
    BY <1>2, <1>3, <1>7 DEF HasWriter, Unreported
  <2>5. \A v \in Writers : writer[v] # Idle => writer[v].piece \in Pieces
    <3>1. \A v \in Writers : writer[v] # Idle => writer[v] \in WriterRecords
      BY DEF DiskInv, GoodWriter
    <3> QED  BY <3>1 DEF WriterRecords
  <2>6. \A v \in Writers : writer'[v] # Idle => /\ handed'[writer'[v].piece] = 1
                                               /\ writer'[v].piece \notin found'
    BY <1>2, <1>5, <1>6, <1>7, <2>0, <2>1, <2>5 DEF Account
  <2>7. \A u, v \in Writers : writer'[u] # Idle /\ writer'[v] # Idle /\ u # v
                               => writer'[u].piece # writer'[v].piece
    BY <1>2, <1>7, <2>0, <2>1 DEF Account
  <2>8. ASSUME NEW q \in Pieces
        PROVE  q \in finishedPieces' <=> q \in found' \/ (handed'[q] = 1 /\ ~Unreported(q)')
    <3>1. q \in finishedPieces <=> q \in found \/ (handed[q] = 1 /\ ~Unreported(q))
      BY <2>0 DEF Account
    <3>2. CASE q = p
      BY <1>5, <2>0, <2>4, <3>1, <3>2
    <3>3. CASE q # p
      BY <1>5, <1>6, <2>3, <3>1, <3>3
    <3> QED  BY <3>2, <3>3
  <2>9. Counted = found' \cup {q \in Pieces : handed'[q] = 1 /\ ~HasWriter(q)'}
    BY <1>5, <1>6, <2>0, <2>2, <2>4 DEF Counted
  <2>10. left' = Cardinality(Bytes(Pieces \ Counted))
    BY <1>5, <2>0 DEF Account
  <2> QED  BY <1>5, <2>6, <2>7, <2>8, <2>9, <2>10, AccountNext
<1> QED  BY <1>5, <1>9 DEF LeftInv

\* The bytes of a piece are subtracted, and its goroutine ends.
LEMMA LeftInvBytes ==
  ASSUME DiskInv, LeftInv, NEW w \in Writers, ReportBytes(w)
  PROVE  LeftInv'
<1>1. /\ torrent \in Torrents /\ DOMAIN writer = Writers /\ found \subseteq Pieces
  BY DEF DiskInv
<1>2. /\ writer[w] # Idle /\ writer[w].phase = "stats"
      /\ torrent' = torrent /\ running' = running /\ found' = found /\ handed' = handed
      /\ finishedPieces' = finishedPieces /\ writer' = [writer EXCEPT ![w] = Idle]
      /\ left' = left - Len(PieceData(writer[w].piece))
  BY DEF ReportBytes
<1>3. running
  BY <1>2 DEF LeftInv
<1>4. writer'[w] = Idle /\ \A v \in Writers : v # w => writer'[v] = writer[v]
  BY <1>1, <1>2
<1>5. PICK p : p = writer[w].piece
  OBVIOUS
<1>6. p \in Pieces
  <2>1. writer[w] \in WriterRecords
    BY <1>2 DEF DiskInv, GoodWriter
  <2> QED  BY <1>5, <2>1 DEF WriterRecords
<1>7. ASSUME Plain' PROVE Plain
  <2>1. PieceLength' = PieceLength /\ Pieces' = Pieces /\ \A q : PieceData(q)' = PieceData(q)
    BY <1>2, SameTorrent, SamePieces
  <2> QED  BY <1>2, <1>7, <2>1 DEF Plain
<1>8. ASSUME Plain' PROVE Account'
  <2>0. Account
    BY <1>3, <1>7, <1>8 DEF LeftInv
  <2>1. \A v \in Writers : writer[v] # Idle /\ writer[v].piece = p => v = w
    BY <1>2, <1>5, <2>0 DEF Account
  <2>2. handed[p] = 1 /\ p \notin found
    BY <1>2, <1>5, <2>0 DEF Account
  <2>3. \A q : Unreported(q)' <=> Unreported(q)
    BY <1>2, <1>4 DEF Unreported
  <2>4. \A q : HasWriter(q)' <=> HasWriter(q) /\ q # p
    BY <1>2, <1>4, <1>5, <2>1 DEF HasWriter
  <2>5. HasWriter(p)
    BY <1>2, <1>5 DEF HasWriter
  <2>6. /\ \A v \in Writers : writer'[v] # Idle => /\ handed'[writer'[v].piece] = 1
                                                   /\ writer'[v].piece \notin found'
        /\ \A u, v \in Writers : writer'[u] # Idle /\ writer'[v] # Idle /\ u # v
                                   => writer'[u].piece # writer'[v].piece
    BY <1>2, <1>4, <2>0 DEF Account
  <2>7. \A q \in Pieces : q \in finishedPieces'
                            <=> q \in found' \/ (handed'[q] = 1 /\ ~Unreported(q)')
    BY <1>2, <2>0, <2>3 DEF Account
  <2>8. Counted \cup {p} = found' \cup {q \in Pieces : handed'[q] = 1 /\ ~HasWriter(q)'}
    BY <1>2, <1>6, <2>2, <2>4 DEF Counted
  <2>9. left' = Cardinality(Bytes(Pieces \ (Counted \cup {p})))
    <3>1. PICK P : P = Pieces \ Counted
      OBVIOUS
    <3>2. P \in SUBSET Pieces /\ p \in P /\ P \ {p} = Pieces \ (Counted \cup {p})
      BY <1>6, <2>2, <2>5, <3>1 DEF Counted
    <3>3. Cardinality(Bytes(P \ {p})) = Cardinality(Bytes(P)) - Len(PieceData(p))
      BY <1>1, <3>2, BytesLess
    <3>4. left = Cardinality(Bytes(P))
      BY <2>0, <3>1 DEF Account
    <3> QED  BY <1>2, <1>5, <3>2, <3>3, <3>4
  <2> QED  BY <1>2, <2>6, <2>7, <2>8, <2>9, AccountNext
<1> QED  BY <1>2, <1>3, <1>8 DEF LeftInv

\* Every step keeps the account.
LEMMA LeftInvStep == DiskInv /\ LeftInv /\ [StNext]_stvars => LeftInv'
<1> SUFFICES ASSUME DiskInv, LeftInv, [StNext]_stvars PROVE LeftInv'
  OBVIOUS
<1>0. DOMAIN writer = Writers /\ torrent \in Torrents
  BY DEF DiskInv
<1>1. CASE Start
  BY <1>1, LeftInvStart
<1>2. CASE End
  BY <1>2, LeftInvEnd DEF End
<1>3. CASE \E w \in Writers, p \in Pieces : HandOver(w, p)
  BY <1>3, LeftInvHandOver
<1>4. ASSUME NEW w \in Writers, WriteFile(w) PROVE LeftInv'
  <2>1. PICK h \in WriterRecords : /\ writer' = [writer EXCEPT ![w] = h]
                                   /\ h.piece = writer[w].piece /\ h.phase # "stats"
    BY <1>4, WriterStep
  <2>2. /\ writer[w] # Idle /\ writer[w].phase = "writing"
        /\ UNCHANGED <<torrent, running, found, finishedPieces, handed, left>>
    BY <1>4 DEF WriteFile
  <2>3. h # Idle
    BY <1>0, BusyNotIdle
  <2>4. h.phase = "stats" <=> writer[w].phase = "stats"
    BY <2>1, <2>2
  <2> QED  BY <2>1, <2>2, <2>3, <2>4, LeftInvWriter
<1>5. ASSUME NEW w \in Writers, ReportPiece(w) PROVE LeftInv'
  <2>1. /\ writer[w] # Idle /\ writer' = [writer EXCEPT ![w].phase = "stats"]
        /\ finishedPieces' = finishedPieces \cup {writer[w].piece}
        /\ UNCHANGED <<torrent, running, found, handed, left>>
    BY <1>5 DEF ReportPiece
  <2>2. PICK h : h = [writer[w] EXCEPT !.phase = "stats"]
    OBVIOUS
  <2>3. writer[w] \in WriterRecords
    BY <2>1 DEF DiskInv, GoodWriter
  <2>4. h \in WriterRecords /\ h.phase = "stats" /\ h.piece = writer[w].piece
    BY <2>2, <2>3 DEF WriterRecords
  <2>5. h # Idle
    BY <1>0, <2>4, BusyNotIdle
  <2>6. writer' = [writer EXCEPT ![w] = h]
    BY <2>1, <2>2
  <2> QED  BY <2>1, <2>4, <2>5, <2>6, LeftInvWriter
<1>6. CASE \E w \in Writers : WriteFile(w) \/ ReportPiece(w) \/ ReportBytes(w)
  BY <1>4, <1>5, <1>6, LeftInvBytes
<1>7. CASE \E p \in Pieces : \E b \in Blocks(p) : RequestBlock(p, b)
  <2>1. PICK p, b : RequestBlock(p, b)
    BY <1>7
  <2>2. /\ UNCHANGED <<torrent, found, finishedPieces, handed, left>> /\ running
        /\ writer' = IF running' THEN writer ELSE [w \in Writers |-> Idle]
    BY <2>1 DEF RequestBlock
  <2>3. running' = TRUE \/ running' = FALSE
    BY <2>1, Zenon DEF RequestBlock
  <2>4. running = TRUE
    BY <2>2, Zenon DEF DiskInv
  <2> QED  BY <2>2, <2>3, <2>4, LeftInvEnd
<1>8. CASE UNCHANGED stvars
  BY <1>8, LeftInvEnd DEF stvars
<1> QED  BY <1>1, <1>2, <1>3, <1>6, <1>7, <1>8 DEF StNext

\* stats.Left is the number of bytes that are not on disk whenever no writer is at
\* work, if no piece was written twice and no shorter one was found at the start.
THEOREM LeftAlwaysExact == StSpec => []LeftExact
<1>1. StInit => LeftInv
  BY DEF StInit, LeftInv
<1>2. DiskInv /\ LeftInv /\ [StNext]_stvars => LeftInv'
  BY LeftInvStep
<1>3. ASSUME DiskInv, LeftInv PROVE LeftExact
  <2> SUFFICES ASSUME running, \A w \in Writers : writer[w] = Idle, Plain
               PROVE  left = Cardinality(Bytes(Pieces \ finishedPieces))
    BY DEF LeftExact, Plain, Bytes
  <2>1. Account /\ found \subseteq Pieces /\ finishedPieces \subseteq Pieces
    BY <1>3 DEF LeftInv, DiskInv
  <2>2. \A p : ~HasWriter(p) /\ ~Unreported(p)
    BY DEF HasWriter, Unreported
  <2>3. Counted = finishedPieces
    BY <2>1, <2>2 DEF Account, Counted
  <2> QED  BY <2>1, <2>3 DEF Account
<1> QED  BY <1>1, <1>2, <1>3, DiskInvariance, PTL DEF StSpec

================================================================================
