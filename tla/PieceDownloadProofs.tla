-------------------------- MODULE PieceDownloadProofs --------------------------
(***************************************************************************)
(* Proofs about PieceDownload: the counters of a download are what is      *)
(* really under way, so that an honest remote end is kept and the window   *)
(* of outstanding blocks is filled, however the handlers overlap, as long  *)
(* as none of them is preempted inside an update of the counters.          *)
(***************************************************************************)
EXTENDS PieceDownload, FiniteSetTheorems, WellFoundedInduction, TLAPS

-----------------------------------------------------------------------------
(* Naturals.                                                               *)

\* A set of naturals has a least element.
LEMMA LeastElement ==
  ASSUME NEW S \in SUBSET Nat, S # {}
  PROVE  \E m \in S : \A k \in S : m <= k
<1>1. PICK m \in S : \A k \in S : ~(<<k, m>> \in OpToRel(<, Nat))
  BY NatLessThanWellFounded, WFMin
<1>2. \A k \in S : ~(k < m)
  BY <1>1 DEF OpToRel
<1> QED  BY <1>2

\* A set that has 0 and the successor of each element has all naturals.
LEMMA Induction ==
  ASSUME NEW S \in SUBSET Nat, 0 \in S, \A n \in S : n + 1 \in S
  PROVE  S = Nat
<1> SUFFICES ASSUME Nat \ S # {} PROVE FALSE
  OBVIOUS
<1>1. PICK m \in Nat \ S : \A k \in Nat \ S : m <= k
  BY LeastElement
<1>2. m # 0 /\ m - 1 \in Nat /\ ~(m <= m - 1)
  BY <1>1
<1>3. m - 1 \in S /\ (m - 1) + 1 = m
  BY <1>1, <1>2
<1> QED  BY <1>1, <1>3

-----------------------------------------------------------------------------
(* Sums over the objects.                                                  *)

\* What the partial sums of f are.
Partial(f, n, t) ==
  /\ t \in [0 .. n -> Int]
  /\ t[0] = 0
  /\ \A s \in 1 .. n : t[s] = t[s - 1] + f[s]

\* Partial sums exist, up to every n.
LEMMA PartialSums ==
  ASSUME NEW f \in [Slots -> Int], NEW n \in 0 .. MaxSlots
  PROVE  \E t : Partial(f, n, t)
<1> DEFINE S == {k \in Nat : k <= MaxSlots => \E t : Partial(f, k, t)}
<1>0. MaxSlots \in Nat
  BY PieceDownloadAssumption
<1>1. 0 \in S
  <2>1. Partial(f, 0, [s \in 0 .. 0 |-> 0])
    BY DEF Partial
  <2> QED  BY <2>1
<1>2. ASSUME NEW k \in S PROVE k + 1 \in S
  <2> SUFFICES ASSUME k + 1 <= MaxSlots PROVE \E t : Partial(f, k + 1, t)
    OBVIOUS
  <2>1. PICK t : Partial(f, k, t)
    BY <1>0
  <2> DEFINE u == [s \in 0 .. k + 1 |-> IF s = k + 1 THEN t[k] + f[k + 1] ELSE t[s]]
  <2>2. f[k + 1] \in Int /\ k + 1 \in Slots
    BY <1>0 DEF Slots
  <2>3. \A s \in 0 .. k : t[s] \in Int
    BY <2>1 DEF Partial
  <2>4. u \in [0 .. k + 1 -> Int]
    BY <2>2, <2>3
  <2>5. u[0] = 0
    BY <2>1 DEF Partial
  <2>6. ASSUME NEW s \in 1 .. k + 1 PROVE u[s] = u[s - 1] + f[s]
    <3>1. CASE s = k + 1
      BY <3>1
    <3>2. CASE s # k + 1
      <4>1. s \in 1 .. k /\ s - 1 \in 0 .. k
        BY <3>2
      <4>2. u[s] = t[s] /\ u[s - 1] = t[s - 1]
        BY <4>1
      <4> QED  BY <2>1, <4>1, <4>2 DEF Partial
    <3> QED  BY <3>1, <3>2
  <2>7. Partial(f, k + 1, u)
    BY <2>4, <2>5, <2>6 DEF Partial
  <2> QED  BY <2>7
<1>3. S = Nat
  <2> HIDE DEF S
  <2>1. S \in SUBSET Nat
    BY DEF S
  <2> QED  BY <1>1, <1>2, <2>1, Induction
<1> QED  BY <1>0, <1>3

\* The sum is the last of the partial sums.
LEMMA SumIsPartial ==
  ASSUME NEW f \in [Slots -> Int]
  PROVE  \E t : Partial(f, MaxSlots, t) /\ SumOverSlots(f) = t[MaxSlots]
<1> DEFINE Defined(t) == t = [s \in 0 .. MaxSlots |-> IF s = 0 THEN 0 ELSE t[s - 1] + f[s]]
           total == CHOOSE t : Defined(t)
<1>0. MaxSlots \in Nat
  BY PieceDownloadAssumption
<1>1. PICK t : Partial(f, MaxSlots, t)
  BY <1>0, PartialSums
<1>2. Defined(t)
  BY <1>0, <1>1 DEF Partial
<1>3. Defined(total)
  BY <1>2
<1>4. SumOverSlots(f) = total[MaxSlots]
  BY DEF SumOverSlots
<1>5. \A s \in 0 .. MaxSlots : total[s] = IF s = 0 THEN 0 ELSE total[s - 1] + f[s]
  BY <1>3
<1> DEFINE S == {k \in Nat : k <= MaxSlots => total[k] = t[k]}
<1>6. S = Nat
  <2> HIDE DEF total
  <2>1. 0 \in S
    BY <1>0, <1>1, <1>5 DEF Partial
  <2>2. ASSUME NEW k \in S PROVE k + 1 \in S
    BY <1>0, <1>1, <1>5 DEF Partial
  <2> HIDE DEF S
  <2>3. S \in SUBSET Nat
    BY DEF S
  <2> QED  BY <2>1, <2>2, <2>3, Induction
<1>7. total[MaxSlots] = t[MaxSlots]
  BY <1>0, <1>6
<1> QED  BY <1>1, <1>4, <1>7

\* A sum is a number, and it is zero if all terms are.
LEMMA SumBounds ==
  ASSUME NEW f \in [Slots -> Int]
  PROVE  /\ SumOverSlots(f) \in Int
         /\ (\A s \in Slots : f[s] = 0) => SumOverSlots(f) = 0
<1>0. MaxSlots \in Nat
  BY PieceDownloadAssumption
<1>1. PICK t : Partial(f, MaxSlots, t) /\ SumOverSlots(f) = t[MaxSlots]
  BY SumIsPartial
<1>2. SumOverSlots(f) \in Int
  BY <1>0, <1>1 DEF Partial
<1>3. ASSUME \A s \in Slots : f[s] = 0 PROVE SumOverSlots(f) = 0
  <2> DEFINE S == {k \in Nat : k <= MaxSlots => t[k] = 0}
  <2>1. 0 \in S
    BY <1>1 DEF Partial
  <2>2. ASSUME NEW k \in S PROVE k + 1 \in S
    BY <1>0, <1>1, <1>3 DEF Partial, Slots
  <2> HIDE DEF S
  <2>3. S \in SUBSET Nat
    BY DEF S
  <2>4. S = Nat
    BY <2>1, <2>2, <2>3, Induction
  <2> QED  BY <1>0, <1>1, <2>4 DEF S
<1> QED  BY <1>2, <1>3

\* Changing one term changes the sum by the difference.
LEMMA SumChange ==
  ASSUME NEW f \in [Slots -> Int], NEW g \in [Slots -> Int], NEW s \in Slots,
         \A r \in Slots \ {s} : g[r] = f[r]
  PROVE  SumOverSlots(g) = SumOverSlots(f) - f[s] + g[s]
<1>0. MaxSlots \in Nat
  BY PieceDownloadAssumption
<1>1. PICK t : Partial(f, MaxSlots, t) /\ SumOverSlots(f) = t[MaxSlots]
  BY SumIsPartial
<1>2. PICK u : Partial(g, MaxSlots, u) /\ SumOverSlots(g) = u[MaxSlots]
  BY SumIsPartial
<1> DEFINE S == {k \in Nat : k <= MaxSlots => u[k] = IF k < s THEN t[k] ELSE t[k] - f[s] + g[s]}
<1>3. s \in 1 .. MaxSlots /\ f[s] \in Int /\ g[s] \in Int
  BY DEF Slots
<1>4. 0 \in S
  BY <1>0, <1>1, <1>2, <1>3 DEF Partial
<1>5. ASSUME NEW k \in S, k + 1 <= MaxSlots
      PROVE  u[k + 1] = IF k + 1 < s THEN t[k + 1] ELSE t[k + 1] - f[s] + g[s]
  <2>1. u[k + 1] = u[k] + g[k + 1] /\ t[k + 1] = t[k] + f[k + 1]
    BY <1>0, <1>1, <1>2, <1>5 DEF Partial
  <2>2. u[k] \in Int /\ t[k] \in Int /\ f[k + 1] \in Int /\ g[k + 1] \in Int
    <3>1. k \in 0 .. MaxSlots /\ k + 1 \in Slots
      BY <1>0, <1>5 DEF Slots
    <3>2. u[k] \in Int /\ t[k] \in Int
      BY <1>1, <1>2, <3>1 DEF Partial
    <3> QED  BY <3>1, <3>2
  <2>3. u[k] = IF k < s THEN t[k] ELSE t[k] - f[s] + g[s]
    BY <1>0, <1>5
  <2>4. k + 1 # s => g[k + 1] = f[k + 1]
    BY <1>0, <1>5 DEF Slots
  <2>5. CASE k + 1 < s
    BY <1>3, <2>1, <2>2, <2>3, <2>4, <2>5
  <2>6. CASE k + 1 = s
    BY <1>3, <2>1, <2>2, <2>3, <2>6
  <2>7. CASE k + 1 > s
    BY <1>3, <2>1, <2>2, <2>3, <2>4, <2>7
  <2> QED  BY <1>3, <2>5, <2>6, <2>7
<1>6. S = Nat
  <2> HIDE DEF S
  <2>1. S \in SUBSET Nat /\ \A k \in S : k + 1 \in S
    BY <1>5 DEF S
  <2> QED  BY <1>4, <2>1, Induction
<1> QED  BY <1>0, <1>1, <1>2, <1>3, <1>6

-----------------------------------------------------------------------------
(* Bags.                                                                   *)

\* What is in a bag has a positive number of copies.
LEMMA CopiesNumber ==
  ASSUME NEW B, IsABag(B), NEW x
  PROVE  /\ CopiesOf(x, B) \in Nat
         /\ BagIn(x, B) <=> CopiesOf(x, B) > 0
BY DEF IsABag, CopiesOf, BagIn, BagToSet

\* Adding an element to a bag.
LEMMA AddCopies ==
  ASSUME NEW B, IsABag(B), NEW e
  PROVE  /\ IsABag(Add(B, e))
         /\ BagToSet(Add(B, e)) = BagToSet(B) \cup {e}
         /\ \A x : CopiesOf(x, Add(B, e)) = CopiesOf(x, B) + (IF x = e THEN 1 ELSE 0)
<1> DEFINE C == Add(B, e)
<1>1. C = [x \in DOMAIN B \cup {e} |->
             (IF x \in DOMAIN B THEN B[x] ELSE 0) + (IF x \in {e} THEN 1 ELSE 0)]
  BY DEF Add, (+), SetToBag
<1>2. \A x \in DOMAIN B : B[x] \in Nat /\ B[x] > 0
  BY DEF IsABag
<1>3. IsABag(C) /\ BagToSet(C) = BagToSet(B) \cup {e}
  BY <1>1, <1>2 DEF IsABag, BagToSet
<1>4. ASSUME NEW x PROVE CopiesOf(x, C) = CopiesOf(x, B) + (IF x = e THEN 1 ELSE 0)
  <2> HIDE DEF C
  <2>1. DOMAIN C = DOMAIN B \cup {e}
    BY <1>1
  <2>2. x \in DOMAIN C => C[x] = (IF x \in DOMAIN B THEN B[x] ELSE 0) + (IF x = e THEN 1 ELSE 0)
    BY <1>1
  <2> QED  BY <1>2, <2>1, <2>2 DEF CopiesOf, BagIn, BagToSet
<1> QED  BY <1>3, <1>4

\* Taking an element out of a bag.
LEMMA TakeCopies ==
  ASSUME NEW B, IsABag(B), NEW e, BagIn(e, B)
  PROVE  /\ IsABag(Take(B, e))
         /\ BagToSet(Take(B, e)) \subseteq BagToSet(B)
         /\ \A x : CopiesOf(x, Take(B, e)) = CopiesOf(x, B) - (IF x = e THEN 1 ELSE 0)
<1> DEFINE Less == [x \in DOMAIN B |-> IF x \in {e} THEN B[x] - 1 ELSE B[x]]
           C == Take(B, e)
<1>1. C = [x \in {d \in DOMAIN Less : Less[d] > 0} |-> Less[x]]
  BY DEF Take, (-), SetToBag
<1>2. \A x \in DOMAIN B : B[x] \in Nat /\ B[x] > 0
  BY DEF IsABag
<1>3. \A x \in DOMAIN B : Less[x] \in Int /\ Less[x] = IF x = e THEN B[x] - 1 ELSE B[x]
  BY <1>2
<1>4. DOMAIN C = {d \in DOMAIN B : Less[d] > 0} /\ \A x \in DOMAIN C : C[x] = Less[x]
  BY <1>1
<1>5. C = [x \in DOMAIN C |-> C[x]]
  BY <1>1
<1> HIDE DEF C, Less
<1>6. \A x \in DOMAIN C : C[x] \in Nat /\ C[x] > 0
  BY <1>3, <1>4
<1>7. IsABag(C) /\ BagToSet(C) \subseteq BagToSet(B)
  BY <1>4, <1>5, <1>6 DEF IsABag, BagToSet
<1>8. ASSUME NEW x PROVE CopiesOf(x, C) = CopiesOf(x, B) - (IF x = e THEN 1 ELSE 0)
  <2>1. e \in DOMAIN B
    BY DEF BagIn, BagToSet
  <2>2. CASE x \in DOMAIN C
    BY <1>2, <1>3, <1>4, <2>2 DEF CopiesOf, BagIn, BagToSet
  <2>3. CASE x \in DOMAIN B \ DOMAIN C
    <3>1. ~(Less[x] > 0) /\ x \in DOMAIN B
      BY <1>4, <2>3
    <3>2. x = e /\ B[x] = 1
      BY <1>2, <1>3, <3>1
    <3> QED  BY <2>3, <3>2 DEF CopiesOf, BagIn, BagToSet
  <2>4. CASE x \notin DOMAIN B
    BY <1>4, <2>1, <2>4 DEF CopiesOf, BagIn, BagToSet
  <2> QED  BY <2>2, <2>3, <2>4
<1> QED  BY <1>7, <1>8 DEF C

-----------------------------------------------------------------------------
(* The list of downloads.                                                  *)

Object ==
  [piece : Pieces \cup {NoPiece}, received : 0 .. NumBlocks,
   outstanding : -NumBlocks .. NumBlocks, finished : BOOLEAN,
   data : [Blocks -> Pieces \cup {NoPiece}]]

\* The least element is one.
LEMMA MinHit ==
  ASSUME NEW hits \in SUBSET Nat, hits # {}
  PROVE  Min(hits) \in hits
BY LeastElement DEF Min

\* getPieceDownload finds an unfinished download of the piece if there is one.
LEMMA FoundPiece ==
  ASSUME NEW p, downloads \in Seq(Slots)
  PROVE  /\ getPieceDownload(p) # 0 =>
              getPieceDownload(p) \in Unfinished /\ obj[getPieceDownload(p)].piece = p
         /\ getPieceDownload(p) = 0 => \A s \in Unfinished : obj[s].piece # p
<1> DEFINE hits == {i \in DOMAIN downloads : ~obj[downloads[i]].finished
                                             /\ obj[downloads[i]].piece = p}
<1>1. getPieceDownload(p) = IF hits = {} THEN 0 ELSE downloads[Min(hits)]
  BY DEF getPieceDownload, First
<1>2. hits \in SUBSET Nat /\ \A i \in DOMAIN downloads : downloads[i] \in Slots
  OBVIOUS
<1>3. hits # {} => Min(hits) \in hits
  BY <1>2, MinHit
<1>4. 0 \notin Slots
  BY PieceDownloadAssumption DEF Slots
<1> QED  BY <1>1, <1>2, <1>3, <1>4 DEF Unfinished

\* The download that gets the next request is unfinished and has blocks left.
LEMMA FoundOpen ==
  ASSUME downloads \in Seq(Slots)
  PROVE  /\ firstWithBlocksLeft # 0 => /\ firstWithBlocksLeft \in Unfinished
                                       /\ remainingRequestsToSend(firstWithBlocksLeft) > 0
         /\ firstWithBlocksLeft = 0 =>
              \A s \in Unfinished : ~(remainingRequestsToSend(s) > 0)
<1> DEFINE hits == {i \in DOMAIN downloads : ~obj[downloads[i]].finished
                                             /\ remainingRequestsToSend(downloads[i]) > 0}
<1>1. firstWithBlocksLeft = IF hits = {} THEN 0 ELSE downloads[Min(hits)]
  BY DEF firstWithBlocksLeft, First
<1>2. hits \in SUBSET Nat /\ \A i \in DOMAIN downloads : downloads[i] \in Slots
  OBVIOUS
<1>3. hits # {} => Min(hits) \in hits
  BY <1>2, MinHit
<1>4. 0 \notin Slots
  BY PieceDownloadAssumption DEF Slots
<1> QED  BY <1>1, <1>2, <1>3, <1>4 DEF Unfinished

\* An object that is used again is a finished one of the list.
LEMMA FoundFinished ==
  ASSUME downloads \in Seq(Slots)
  PROVE  firstFinished # 0 => /\ firstFinished \in Slots
                              /\ obj[firstFinished].finished
                              /\ \E i \in DOMAIN downloads : downloads[i] = firstFinished
<1> DEFINE hits == {i \in DOMAIN downloads : obj[downloads[i]].finished}
<1>1. firstFinished = IF hits = {} THEN 0 ELSE downloads[Min(hits)]
  BY DEF firstFinished, First
<1>2. hits \in SUBSET Nat /\ \A i \in DOMAIN downloads : downloads[i] \in Slots
  OBVIOUS
<1>3. hits # {} => Min(hits) \in hits
  BY <1>2, MinHit
<1> QED  BY <1>1, <1>2, <1>3

\* Sorting the list keeps its length and its elements.
LEMMA Reordered ==
  ASSUME downloads \in Seq(Slots), NEW o, NEW q \in moveFinishedPieceDownloadsToEnd(o)
  PROVE  /\ q \in Seq(Slots) /\ Len(q) = Len(downloads)
         /\ \A s : (\E i \in DOMAIN q : q[i] = s) <=> (\E i \in DOMAIN downloads : downloads[i] = s)
<1> DEFINE D == DOMAIN downloads
<1>1. PICK from \in [D -> D] :
         /\ q = [i \in D |-> downloads[from[i]]]
         /\ \A i, j \in D : i < j =>
              IF o[downloads[from[i]]].finished = o[downloads[from[j]]].finished
              THEN from[i] < from[j] ELSE o[downloads[from[j]]].finished
  BY DEF moveFinishedPieceDownloadsToEnd
<1>2. D = 1 .. Len(downloads) /\ Len(downloads) \in Nat
  OBVIOUS
<1>3. \A i, j \in D : i < j => from[i] # from[j]
  <2> SUFFICES ASSUME NEW i \in D, NEW j \in D, i < j, from[i] = from[j] PROVE FALSE
    OBVIOUS
  <2>1. from[i] < from[j]
    BY <1>1
  <2> QED  BY <1>2, <2>1
<1>4. from \in Injection(D, D)
  BY <1>2, <1>3 DEF Injection, IsInjective
<1>5. from \in Surjection(D, D)
  BY <1>2, <1>4, FS_Interval, FS_Injection
<1>6. \A i \in D : \E k \in D : from[k] = i
  BY <1>5 DEF Surjection
<1>7. q \in [1 .. Len(downloads) -> Slots]
  BY <1>1, <1>2
<1>8. q \in Seq(Slots) /\ Len(q) = Len(downloads) /\ DOMAIN q = D
  BY <1>2, <1>7
<1> QED  BY <1>1, <1>6, <1>8

-----------------------------------------------------------------------------
(* Types.                                                                  *)

\* A block that is received is no longer outstanding, so their sum only grows
\* by requests; while the peer is up, an unfinished download is incomplete.
CountersOK(s) ==
  /\ obj[s].received + obj[s].outstanding \in 0 .. NumBlocks
  /\ ~obj[s].finished => obj[s].piece \in Pieces
  /\ Up /\ ~obj[s].finished => obj[s].received < NumBlocks

ObjOK == obj \in [Slots -> Object] /\ \A s \in Slots : CountersOK(s)

\* The objects of the list are the first ones.
ListOK ==
  /\ downloads \in Seq(Slots)
  /\ \A i \in DOMAIN downloads : downloads[i] <= Len(downloads)

LoopOK ==
  /\ state \in {"up", "tooManyBlocks", "badChecksum"}
  /\ run \in {"select", "check", "send"}
  /\ decoders \in [{"check", "send"} -> Nat]

FlagsOK == peerChoking \in BOOLEAN /\ remoteChoking \in BOOLEAN /\ isChoked \in BOOLEAN

Messages ==
  [type : {"block"}, piece : Pieces, block : Blocks] \cup {MsgChoke, MsgUnchoke}

AskedOK       == IsABag(asked) /\ BagToSet(asked) \subseteq Pieces \X Blocks
ArrivingOK    == IsABag(arriving) /\ BagToSet(arriving) \subseteq Messages
WritesOK      == IsABag(writes) /\ BagToSet(writes) \subseteq Slots \X Pieces
RequestsOK    == IsABag(requests) /\ BagToSet(requests) \subseteq Pieces
ChokeStatusOK == IsABag(chokeStatus) /\ BagToSet(chokeStatus) \subseteq BOOLEAN

BooksOK ==
  /\ disk \in [Pieces -> {"missing", "good", "bad"}]
  /\ active \subseteq Pieces /\ finishedPieces \subseteq Pieces
  /\ budget \in [choke : 0 .. ChokeBudget, cancel : 0 .. CancelBudget]

TypeInv ==
  /\ ObjOK /\ ListOK /\ LoopOK /\ FlagsOK
  /\ AskedOK /\ ArrivingOK /\ WritesOK /\ RequestsOK /\ ChokeStatusOK
  /\ BooksOK

\* TypeInv says more than PTypeOK.
LEMMA TypeInvTypes == TypeInv /\ torn = {} /\ races \in Nat => PTypeOK
<1> SUFFICES ASSUME TypeInv, torn = {}, races \in Nat PROVE PTypeOK
  OBVIOUS
<1>1. budget \in [choke : Nat, cancel : Nat]
  BY PieceDownloadAssumption DEF TypeInv, BooksOK
<1>2. BagToSet(asked) \subseteq Pieces \X Blocks /\ BagToSet(asked) \subseteq Pieces \X Int
  BY DEF TypeInv, AskedOK, Blocks
<1>3. /\ obj \in [Slots -> [piece : Pieces \cup {NoPiece}, received : Nat, outstanding : Int,
                            finished : BOOLEAN, data : [Blocks -> Pieces \cup {NoPiece}]]]
      /\ \A s \in Slots : /\ obj[s].received \in 0 .. NumBlocks
                          /\ obj[s].outstanding \in -NumBlocks .. NumBlocks
  BY PieceDownloadAssumption DEF TypeInv, ObjOK, Object
<1> QED
  BY <1>1, <1>2, <1>3 DEF TypeInv, PTypeOK, ObjOK, Object, ListOK, LoopOK, FlagsOK, AskedOK, ArrivingOK,
          WritesOK, RequestsOK, ChokeStatusOK, BooksOK, Messages

\* The bounds on the constants, for arithmetic.
LEMMA Constants ==
  /\ NumBlocks \in Nat /\ NumBlocks > 0 /\ MaxBlocks \in Nat /\ MaxBlocks > 0
  /\ MaxSlots \in Nat /\ MaxSlots > 0 /\ ChokeBudget \in Nat /\ CancelBudget \in Nat
BY PieceDownloadAssumption

\* Initially.
LEMMA TypeInvInit == PInit => TypeInv
<1> SUFFICES ASSUME PInit PROVE TypeInv
  OBVIOUS
<1>1. ObjOK
  <2>1. NewPieceDownload \in Object
    BY Constants DEF NewPieceDownload, Object
  <2>2. obj = [s \in Slots |-> NewPieceDownload]
    BY DEF PInit
  <2> QED  BY <2>1, <2>2, Constants DEF ObjOK, CountersOK, NewPieceDownload
<1>2. ListOK
  BY DEF PInit, ListOK
<1>3. LoopOK /\ FlagsOK
  BY DEF PInit, LoopOK, FlagsOK, NoDecoder
<1>4. IsABag(EmptyBag) /\ BagToSet(EmptyBag) = {}
  BY DEF EmptyBag, SetToBag, IsABag, BagToSet
<1>5. AskedOK /\ ArrivingOK /\ WritesOK /\ RequestsOK /\ ChokeStatusOK
  BY <1>4 DEF PInit, AskedOK, ArrivingOK, WritesOK, RequestsOK, ChokeStatusOK
<1>6. BooksOK
  <2>1. ChokeBudget \in 0 .. ChokeBudget /\ CancelBudget \in 0 .. CancelBudget
    BY Constants
  <2>2. budget \in [choke : 0 .. ChokeBudget, cancel : 0 .. CancelBudget]
    BY <2>1 DEF PInit
  <2> QED  BY <2>2 DEF PInit, BooksOK
<1> QED  BY <1>1, <1>2, <1>3, <1>5, <1>6 DEF TypeInv

\* Changing one object.
LEMMA ObjChanged ==
  ASSUME ObjOK, NEW s \in Slots, NEW r \in Object, obj' = [obj EXCEPT ![s] = r],
         Up' => Up,
         r.received + r.outstanding \in 0 .. NumBlocks,
         ~r.finished => r.piece \in Pieces,
         Up' /\ ~r.finished => r.received < NumBlocks
  PROVE  ObjOK'
<1>1. obj' \in [Slots -> Object]
  BY DEF ObjOK
<1>2. ASSUME NEW x \in Slots PROVE CountersOK(x)'
  <2>1. CASE x = s
    <3>1. obj'[x] = r
      BY <2>1 DEF ObjOK
    <3> QED  BY <3>1 DEF CountersOK
  <2>2. CASE x # s
    <3>1. obj'[x] = obj[x]
      BY <2>2 DEF ObjOK
    <3> QED  BY <3>1 DEF CountersOK, ObjOK
  <2> QED  BY <2>1, <2>2
<1> QED  BY <1>1, <1>2 DEF ObjOK

\* The fields of an object.
LEMMA Fields ==
  ASSUME ObjOK, NEW s \in Slots
  PROVE  /\ obj[s] \in Object
         /\ obj[s].received \in 0 .. NumBlocks
         /\ obj[s].outstanding \in -NumBlocks .. NumBlocks
         /\ obj[s].received + obj[s].outstanding \in 0 .. NumBlocks
         /\ obj[s].finished \in BOOLEAN
         /\ obj[s].piece \in Pieces \cup {NoPiece}
         /\ obj[s].data \in [Blocks -> Pieces \cup {NoPiece}]
<1>1. obj[s] \in Object
  BY DEF ObjOK
<1> QED  BY <1>1 DEF ObjOK, CountersOK, Object

\* One round of sendOneOrMoreRequests that sends a request: an unfinished
\* download asks for the block after those received or requested.
LEMMA SendEffect ==
  ASSUME TypeInv, Up, NEW next, SendRequest(next), firstWithBlocksLeft # 0
  PROVE  LET s == firstWithBlocksLeft
             b == obj[s].received + obj[s].outstanding
         IN  /\ s \in Unfinished /\ s \in Slots /\ ~obj[s].finished
             /\ obj[s].piece \in Pieces /\ b \in Blocks /\ next = "check"
             /\ asked' = Add(asked, <<obj[s].piece, b>>)
             /\ obj' = [obj EXCEPT ![s] = [obj[s] EXCEPT !.outstanding = @ + 1]]
             /\ obj[s].outstanding + 1 \in -NumBlocks .. NumBlocks
             /\ UNCHANGED state
<1> DEFINE s == firstWithBlocksLeft
           b == obj[s].received + obj[s].outstanding
<1>1. s \in Unfinished /\ NumBlocks - b > 0
  BY FoundOpen DEF TypeInv, ListOK, remainingRequestsToSend
<1>2. s \in Slots /\ ~obj[s].finished
  BY <1>1 DEF Unfinished
<1>3. obj[s].piece \in Pieces
  BY <1>2 DEF TypeInv, ObjOK, CountersOK
<1>4. /\ b \in 0 .. NumBlocks /\ obj[s].received \in 0 .. NumBlocks
      /\ obj[s].outstanding \in -NumBlocks .. NumBlocks
  BY <1>2, Fields DEF TypeInv
<1> HIDE DEF b
<1>5. b \in Blocks
  BY <1>1, <1>4, Constants DEF Blocks
<1>6. obj[s].outstanding + 1 \in -NumBlocks .. NumBlocks
  BY <1>1, <1>4, Constants DEF b
<1> HIDE DEF s
<1>7. /\ next = "check" /\ asked' = Add(asked, <<obj[s].piece, b>>)
      /\ obj' = [obj EXCEPT ![s].outstanding = @ + 1]
      /\ UNCHANGED state
  BY DEF SendRequest, s, b
<1> QED  BY <1>1, <1>2, <1>3, <1>5, <1>6, <1>7 DEF s, b

\* One round of the loop, by whoever executes it.
LEMMA TypeInvLoop ==
  ASSUME TypeInv, Up, NEW from, NEW next, RequestLoop(from, next)
  PROVE  /\ ObjOK' /\ AskedOK'
         /\ state' \in {"up", "tooManyBlocks", "badChecksum"}
<1>1. CASE CheckTotal(next)
  <2>1. UNCHANGED <<obj, asked>> /\ state' \in {"up", "tooManyBlocks"} /\ (Up' => Up)
    BY <1>1 DEF CheckTotal, Up
  <2> QED  BY <2>1 DEF TypeInv, ObjOK, CountersOK, AskedOK, Up
<1>2. CASE SendRequest(next) /\ firstWithBlocksLeft = 0
  <2>1. UNCHANGED <<obj, asked, state>>
    BY <1>2 DEF SendRequest
  <2> QED  BY <2>1 DEF TypeInv, ObjOK, CountersOK, AskedOK, LoopOK, Up
<1>3. CASE SendRequest(next) /\ firstWithBlocksLeft # 0
  <2> DEFINE s == firstWithBlocksLeft
             b == obj[s].received + obj[s].outstanding
             r == [obj[s] EXCEPT !.outstanding = @ + 1]
  <2>1. /\ s \in Slots /\ ~obj[s].finished
        /\ obj[s].piece \in Pieces /\ b \in Blocks
        /\ asked' = Add(asked, <<obj[s].piece, b>>)
        /\ obj' = [obj EXCEPT ![s] = r]
        /\ obj[s].outstanding + 1 \in -NumBlocks .. NumBlocks
        /\ UNCHANGED state
    BY <1>3, SendEffect
  <2> HIDE DEF s
  <2>2. obj[s] \in Object /\ obj[s].received \in 0 .. NumBlocks
    BY <2>1, Fields DEF TypeInv
  <2>3. r \in Object /\ r.received = obj[s].received /\ r.outstanding = obj[s].outstanding + 1
        /\ r.piece = obj[s].piece /\ r.finished = obj[s].finished
    BY <2>1, <2>2 DEF Object
  <2>4. r.received + r.outstanding \in 0 .. NumBlocks
    <3> HIDE DEF r
    <3>1. obj[s].outstanding \in Int /\ obj[s].received \in Int
      BY <2>1, <2>2, Fields, Constants DEF TypeInv
    <3>2. r.received + r.outstanding = b + 1
      BY <2>3, <3>1
    <3> HIDE DEF b
    <3> QED  BY <2>1, <3>2, Constants DEF Blocks
  <2>5. Up => r.received < NumBlocks
    BY <2>1, <2>3 DEF TypeInv, ObjOK, CountersOK
  <2>6. ObjOK'
    BY <2>1, <2>3, <2>4, <2>5, ObjChanged DEF TypeInv, Up
  <2>7. AskedOK'
    BY <2>1, AddCopies DEF TypeInv, AskedOK
  <2> QED  BY <2>1, <2>6, <2>7 DEF TypeInv, LoopOK
<1> QED  BY <1>1, <1>2, <1>3 DEF RequestLoop

\* A round of the loop in Run or in a decode goroutine.
LEMMA TypeInvRequests == TypeInv /\ (RunRequests \/ DecoderRequests) => TypeInv'
<1> SUFFICES ASSUME TypeInv, RunRequests \/ DecoderRequests PROVE TypeInv'
  OBVIOUS
<1>1. CASE RunRequests
  <2>1. PICK next \in {"check", "send", "done"} :
          Up /\ RequestLoop(run, next) /\ run' = IF next = "done" THEN "select" ELSE next
    BY <1>1 DEF RunRequests
  <2>2. ObjOK' /\ AskedOK' /\ state' \in {"up", "tooManyBlocks", "badChecksum"}
    BY <2>1, TypeInvLoop
  <2>3. UNCHANGED <<downloads, peerChoking, decoders, arriving, remoteChoking, writes,
                    disk, controlVars, requests, budget>>
    BY <1>1 DEF RunRequests
  <2> QED
    BY <2>1, <2>2, <2>3 DEF TypeInv, ListOK, LoopOK, FlagsOK, ArrivingOK, WritesOK, RequestsOK,
                            ChokeStatusOK, BooksOK, controlVars
<1>2. CASE DecoderRequests
  <2>1. PICK from \in {"check", "send"}, next \in {"check", "send", "done"} :
          /\ Up /\ decoders[from] > 0 /\ RequestLoop(from, next)
          /\ decoders' = [pos \in {"check", "send"} |->
                            decoders[pos] - (IF pos = from THEN 1 ELSE 0)
                                          + (IF pos = next THEN 1 ELSE 0)]
    BY <1>2 DEF DecoderRequests
  <2>2. ObjOK' /\ AskedOK' /\ state' \in {"up", "tooManyBlocks", "badChecksum"}
    BY <2>1, TypeInvLoop
  <2>3. UNCHANGED <<downloads, peerChoking, run, arriving, remoteChoking, writes, disk,
                    controlVars, requests, budget>>
    BY <1>2 DEF DecoderRequests
  <2>4. decoders' \in [{"check", "send"} -> Nat]
    <3>1. \A pos \in {"check", "send"} : decoders[pos] \in Nat
      BY DEF TypeInv, LoopOK
    <3>2. \A pos \in {"check", "send"} :
            decoders[pos] - (IF pos = from THEN 1 ELSE 0) + (IF pos = next THEN 1 ELSE 0) \in Nat
      BY <2>1, <3>1
    <3> QED  BY <2>1, <3>2
  <2> QED
    BY <2>2, <2>3, <2>4 DEF TypeInv, ListOK, LoopOK, FlagsOK, ArrivingOK, WritesOK,
                            RequestsOK, ChokeStatusOK, BooksOK, controlVars
<1> QED  BY <1>1, <1>2

\* What is on the list.
Listed(s) == \E i \in DOMAIN downloads : downloads[i] = s

\* An unfinished download is on the list and not finished.
LEMMA UnfinishedListed ==
  /\ Unfinished = {s \in Slots : Listed(s) /\ ~obj[s].finished}
  /\ Unfinished' = {s \in Slots : Listed(s)' /\ ~obj'[s].finished}
BY DEF Unfinished, Listed

\* Run takes a request: an object that was not in use holds the piece.
LEMMA TakeEffect ==
  ASSUME TypeInv, NEW p \in Pieces, TakeRequest(p)
  PROVE  /\ ListOK' /\ BagIn(p, requests) /\ requests' = Take(requests, p)
         /\ \E s \in Slots \ Unfinished, r \in Object :
              /\ obj' = [obj EXCEPT ![s] = r]
              /\ r.piece = p /\ r.received = 0 /\ r.outstanding = 0 /\ r.finished = FALSE
              /\ Unfinished' = Unfinished \cup {s}
<1> DEFINE used  == firstFinished
           s     == IF used = 0 THEN Len(downloads) + 1 ELSE used
           fresh == IF used = 0 THEN NewPieceDownload ELSE obj[used]
           r     == [fresh EXCEPT !.piece = p, !.received = 0, !.outstanding = 0,
                                  !.finished = FALSE]
<1>1. /\ s \in Slots /\ obj' = [obj EXCEPT ![s] = r]
      /\ downloads' = IF used = 0 THEN Append(downloads, s) ELSE downloads
      /\ BagIn(p, requests) /\ requests' = Take(requests, p)
  BY DEF TakeRequest
<1>2. used # 0 => used \in Slots /\ obj[used].finished /\ Listed(used)
  BY FoundFinished DEF TypeInv, ListOK, Listed
<1> HIDE DEF used
<1>3. fresh \in Object
  <2>1. NewPieceDownload \in Object
    BY Constants DEF NewPieceDownload, Object
  <2> QED  BY <1>2, <2>1, Fields DEF TypeInv
<1> HIDE DEF fresh
<1>4. /\ r \in Object /\ r.piece = p /\ r.received = 0 /\ r.outstanding = 0
      /\ r.finished = FALSE
  <2>1. 0 \in 0 .. NumBlocks /\ 0 \in -NumBlocks .. NumBlocks
    BY Constants
  <2> QED  BY <1>3, <2>1 DEF Object
<1> HIDE DEF r
<1>5. Len(downloads) \in Nat /\ \A i \in DOMAIN downloads : downloads[i] <= Len(downloads)
  BY DEF TypeInv, ListOK
<1>6. used = 0 => ~Listed(s)
  <2> SUFFICES ASSUME used = 0, NEW i \in DOMAIN downloads, downloads[i] = Len(downloads) + 1
               PROVE  FALSE
    BY DEF Listed
  <2> QED  BY <1>5
<1>7. s \notin Unfinished
  BY <1>2, <1>6, UnfinishedListed
<1>8. ListOK' /\ (\A x : Listed(x)' <=> Listed(x) \/ x = s)
  <2>1. CASE used = 0
    <3> HIDE DEF s
    <3>1. downloads' = Append(downloads, s) /\ downloads \in Seq(Slots) /\ s \in Slots
      BY <1>1, <2>1 DEF TypeInv, ListOK
    <3>2. /\ downloads' \in Seq(Slots) /\ Len(downloads') = Len(downloads) + 1
          /\ \A i \in DOMAIN downloads : downloads'[i] = downloads[i]
          /\ downloads'[Len(downloads) + 1] = s
      BY <3>1
    <3>3. DOMAIN downloads' = DOMAIN downloads \cup {Len(downloads) + 1}
      BY <3>1, <3>2
    <3>4. \A x : Listed(x)' <=> Listed(x) \/ x = s
      BY <3>2, <3>3 DEF Listed
    <3>5. s = Len(downloads) + 1
      BY <2>1 DEF s
    <3>6. \A i \in DOMAIN downloads' : downloads'[i] <= Len(downloads')
      <4> TAKE i \in DOMAIN downloads'
      <4>1. CASE i \in DOMAIN downloads
        <5>1. downloads[i] \in Nat /\ downloads[i] <= Len(downloads) /\ downloads'[i] = downloads[i]
          BY <1>5, <3>1, <3>2, <4>1, Constants DEF Slots
        <5> QED  BY <1>5, <3>2, <5>1
      <4>2. CASE i = Len(downloads) + 1
        BY <1>5, <3>2, <3>5, <4>2
      <4> QED  BY <3>3, <4>1, <4>2
    <3> QED  BY <3>2, <3>4, <3>6 DEF ListOK
  <2>2. CASE used # 0
    BY <1>1, <1>2, <2>2 DEF TypeInv, ListOK, Listed
  <2> QED  BY <2>1, <2>2
<1> HIDE DEF s
<1>9. Unfinished' = Unfinished \cup {s}
  <2>1. \A x \in Slots : obj'[x] = IF x = s THEN r ELSE obj[x]
    BY <1>1 DEF TypeInv, ObjOK
  <2> QED  BY <1>1, <1>4, <1>8, <2>1, UnfinishedListed
<1> QED  BY <1>1, <1>4, <1>7, <1>8, <1>9

\* Types after a request has been taken.
LEMMA TypeInvTake ==
  ASSUME TypeInv, NEW p \in Pieces, TakeRequest(p)
  PROVE  TypeInv'
<1>1. PICK s \in Slots \ Unfinished, r \in Object :
        /\ obj' = [obj EXCEPT ![s] = r]
        /\ r.piece = p /\ r.received = 0 /\ r.outstanding = 0 /\ r.finished = FALSE
        /\ Unfinished' = Unfinished \cup {s}
  BY TakeEffect
<1>2. ListOK' /\ BagIn(p, requests) /\ requests' = Take(requests, p)
  BY TakeEffect
<1>3. /\ run' = "check"
      /\ UNCHANGED <<peerChoking, state, decoders, remoteVars, arriving, writes, disk,
                     controlVars, budget>>
  BY DEF TakeRequest
<1>4. ObjOK'
  <2>1. 0 + 0 \in 0 .. NumBlocks /\ 0 < NumBlocks
    BY Constants
  <2> QED  BY <1>1, <1>3, <2>1, ObjChanged DEF TypeInv, Up
<1>5. RequestsOK'
  BY <1>2, TakeCopies DEF TypeInv, RequestsOK
<1> QED
  BY <1>2, <1>3, <1>4, <1>5 DEF TypeInv, LoopOK, FlagsOK, AskedOK, ArrivingOK, WritesOK,
                            ChokeStatusOK, BooksOK, remoteVars, controlVars

\* Sorting the list.
LEMMA SortedList ==
  ASSUME ListOK, downloads' \in moveFinishedPieceDownloadsToEnd(obj')
  PROVE  ListOK' /\ \A x : Listed(x)' <=> Listed(x)
<1>1. /\ downloads' \in Seq(Slots) /\ Len(downloads') = Len(downloads)
      /\ \A s : (\E i \in DOMAIN downloads' : downloads'[i] = s)
                  <=> (\E i \in DOMAIN downloads : downloads[i] = s)
  BY Reordered DEF ListOK
<1>2. ASSUME NEW i \in DOMAIN downloads' PROVE downloads'[i] <= Len(downloads')
  <2>1. PICK j \in DOMAIN downloads : downloads[j] = downloads'[i]
    BY <1>1
  <2> QED  BY <1>1, <2>1 DEF ListOK
<1> QED  BY <1>1, <1>2 DEF ListOK, Listed

\* A CANCEL: the download of the piece is no longer unfinished.
LEMMA CancelEffect ==
  ASSUME TypeInv, NEW p \in Pieces, CancelPiece(p)
  PROVE  /\ ListOK'
         /\ \/ UNCHANGED <<obj, downloads>> /\ Unfinished' = Unfinished
            \/ \E s \in Unfinished :
                 /\ obj' = [obj EXCEPT ![s] = [obj[s] EXCEPT !.finished = TRUE]]
                 /\ Unfinished' = Unfinished \ {s}
<1> DEFINE s == getPieceDownload(p)
<1>1. CASE s = 0
  <2>1. UNCHANGED <<obj, downloads>>
    BY <1>1 DEF CancelPiece
  <2> QED  BY <2>1 DEF TypeInv, ListOK, Unfinished
<1>2. CASE s # 0
  <2>1. s \in Unfinished
    BY <1>2, FoundPiece DEF TypeInv, ListOK
  <2>2. /\ obj' = [obj EXCEPT ![s].finished = TRUE]
        /\ downloads' \in moveFinishedPieceDownloadsToEnd(obj')
    BY <1>2 DEF CancelPiece
  <2>3. ListOK' /\ \A x : Listed(x)' <=> Listed(x)
    BY <2>2, SortedList DEF TypeInv
  <2> HIDE DEF s
  <2>4. \A x \in Slots : obj'[x].finished = IF x = s THEN TRUE ELSE obj[x].finished
    BY <2>2, Fields DEF TypeInv, ObjOK, Object
  <2>5. Unfinished' = Unfinished \ {s}
    BY <2>3, <2>4, UnfinishedListed
  <2> QED  BY <2>1, <2>2, <2>3, <2>5
<1> QED  BY <1>1, <1>2

\* Types after a CANCEL.
LEMMA TypeInvCancel ==
  ASSUME TypeInv, NEW p \in Pieces, CancelPiece(p)
  PROVE  TypeInv'
<1>1. /\ budget.cancel > 0 /\ budget' = [budget EXCEPT !.cancel = @ - 1]
      /\ active' = active \ {p} /\ finishedPieces' = finishedPieces \cup {p}
      /\ UNCHANGED <<peerChoking, state, run, decoders, remoteVars, arriving, writes, disk,
                     isChoked, chokeStatus, requests>>
  BY DEF CancelPiece
<1>2. ListOK'
  BY CancelEffect
<1>3. ObjOK'
  <2>1. CASE UNCHANGED <<obj, downloads>>
    BY <1>1, <2>1 DEF TypeInv, ObjOK, CountersOK, Up
  <2>2. ASSUME NEW s \in Unfinished,
               obj' = [obj EXCEPT ![s] = [obj[s] EXCEPT !.finished = TRUE]]
        PROVE  ObjOK'
    <3> DEFINE r == [obj[s] EXCEPT !.finished = TRUE]
    <3>1. s \in Slots /\ obj[s] \in Object /\ obj[s].received + obj[s].outstanding \in 0 .. NumBlocks
      BY Fields DEF TypeInv, Unfinished
    <3>2. /\ r \in Object /\ r.received = obj[s].received /\ r.outstanding = obj[s].outstanding
          /\ r.finished = TRUE
      BY <3>1 DEF Object
    <3> HIDE DEF r
    <3> QED  BY <1>1, <2>2, <3>1, <3>2, ObjChanged DEF TypeInv, Up, r
  <2> QED  BY <2>1, <2>2, CancelEffect
<1>4. BooksOK'
  <2>1. budget \in [choke : 0 .. ChokeBudget, cancel : 0 .. CancelBudget]
    BY DEF TypeInv, BooksOK
  <2>2. budget.cancel - 1 \in 0 .. CancelBudget
    BY <1>1, <2>1, Constants
  <2>3. budget' \in [choke : 0 .. ChokeBudget, cancel : 0 .. CancelBudget]
    BY <1>1, <2>1, <2>2
  <2> QED  BY <1>1, <2>3 DEF TypeInv, BooksOK
<1> QED
  BY <1>1, <1>2, <1>3, <1>4 DEF TypeInv, LoopOK, FlagsOK, AskedOK, ArrivingOK, WritesOK,
                            RequestsOK, ChokeStatusOK, remoteVars

\* An object with one block more.
Counted(s, p, b) ==
  [obj[s] EXCEPT !.data[b] = p, !.received = @ + 1, !.outstanding = @ - 1]

\* The fields of such an object.
LEMMA CountedFields ==
  ASSUME TypeInv, Up, NEW s \in Unfinished, NEW p \in Pieces, NEW b \in Blocks
  PROVE  LET r == Counted(s, p, b)
         IN  /\ r \in Object /\ r.piece = obj[s].piece /\ r.finished = FALSE
             /\ r.received = obj[s].received + 1 /\ r.outstanding = obj[s].outstanding - 1
             /\ r.received + r.outstanding = obj[s].received + obj[s].outstanding
             /\ r.received <= NumBlocks
<1> DEFINE r == Counted(s, p, b)
<1>1. /\ s \in Slots /\ ~obj[s].finished /\ obj[s].received < NumBlocks
  BY DEF Unfinished, TypeInv, ObjOK, CountersOK
<1>2. /\ obj[s] \in Object /\ obj[s].received \in 0 .. NumBlocks /\ obj[s].finished \in BOOLEAN
      /\ obj[s].outstanding \in -NumBlocks .. NumBlocks
      /\ obj[s].received + obj[s].outstanding \in 0 .. NumBlocks
      /\ obj[s].data \in [Blocks -> Pieces \cup {NoPiece}]
  BY <1>1, Fields DEF TypeInv
<1>3. obj[s].received + 1 \in 0 .. NumBlocks /\ obj[s].outstanding - 1 \in -NumBlocks .. NumBlocks
  BY <1>1, <1>2, Constants
<1>4. [obj[s].data EXCEPT ![b] = p] \in [Blocks -> Pieces \cup {NoPiece}]
  BY <1>2
<1>5. /\ r.piece = obj[s].piece /\ r.finished = obj[s].finished
      /\ r.received = obj[s].received + 1 /\ r.outstanding = obj[s].outstanding - 1
      /\ r.data = [obj[s].data EXCEPT ![b] = p]
  BY <1>2 DEF Counted, Object
<1>6. r = [obj[s] EXCEPT !.data = [obj[s].data EXCEPT ![b] = p],
                         !.received = obj[s].received + 1, !.outstanding = obj[s].outstanding - 1]
  BY DEF Counted
<1>7. r \in Object
  <2> DEFINE d == [obj[s].data EXCEPT ![b] = p]
             m == obj[s].received + 1
             n == obj[s].outstanding - 1
  <2>1. r = [obj[s] EXCEPT !.data = d, !.received = m, !.outstanding = n]
    BY <1>6
  <2>2. /\ d \in [Blocks -> Pieces \cup {NoPiece}] /\ m \in 0 .. NumBlocks
        /\ n \in -NumBlocks .. NumBlocks
    BY <1>3, <1>4
  <2> HIDE DEF d, m, n, r
  <2> QED  BY <1>2, <2>1, <2>2 DEF Object
<1>8. r.received + r.outstanding = obj[s].received + obj[s].outstanding /\ r.received <= NumBlocks
  <2> HIDE DEF r
  <2> QED  BY <1>2, <1>3, <1>5, Constants
<1> QED  BY <1>1, <1>2, <1>5, <1>7, <1>8

\* Its buffer.
LEMMA CountedData ==
  ASSUME TypeInv, NEW s \in Slots, NEW p, NEW b \in Blocks, NEW c \in Blocks
  PROVE  Counted(s, p, b).data[c] = IF c = b THEN p ELSE obj[s].data[c]
<1>1. obj[s] \in Object /\ obj[s].data \in [Blocks -> Pieces \cup {NoPiece}]
  BY Fields DEF TypeInv
<1>2. Counted(s, p, b).data = [obj[s].data EXCEPT ![b] = p]
  BY <1>1 DEF Counted, Object
<1> QED  BY <1>1, <1>2

\* A block of a current download: it is counted, and the piece is complete or not.
LEMMA StoreEffect ==
  ASSUME TypeInv, NEW p \in Pieces, NEW b \in Blocks, StoreBlock(p, b)
  PROVE  \E s \in Unfinished :
           /\ s \in Slots /\ obj[s].piece = p /\ ListOK'
           /\ \/ /\ Counted(s, p, b).received # NumBlocks
                 /\ obj' = [obj EXCEPT ![s] = Counted(s, p, b)]
                 /\ Unfinished' = Unfinished
                 /\ decoders' = [decoders EXCEPT !["check"] = @ + 1]
                 /\ UNCHANGED <<state, writes>>
              \/ /\ Counted(s, p, b).received = NumBlocks
                 /\ ~checkHash(Counted(s, p, b).data, p)
                 /\ obj' = [obj EXCEPT ![s] = Counted(s, p, b)]
                 /\ state' = "badChecksum"
                 /\ UNCHANGED <<decoders, writes>>
              \/ /\ Counted(s, p, b).received = NumBlocks
                 /\ obj' = [obj EXCEPT ![s] = [Counted(s, p, b) EXCEPT !.finished = TRUE]]
                 /\ Unfinished' = Unfinished \ {s}
                 /\ writes' = Add(writes, <<s, p>>)
                 /\ \/ decoders' = [decoders EXCEPT !["check"] = @ + 1]
                    \/ decoders' = decoders /\ Unfinished' = {}
                 /\ UNCHANGED state
<1> DEFINE s == getPieceDownload(p)
           r == Counted(s, p, b)
           counted == CountBlock(s, p, b)
           closed == [counted EXCEPT ![s].finished = TRUE]
<1>1. Up /\ s # 0
  BY DEF StoreBlock
<1>2. s \in Unfinished /\ obj[s].piece = p
  BY <1>1, FoundPiece DEF TypeInv, ListOK
<1>3. s \in Slots /\ Listed(s)
  BY <1>2, UnfinishedListed
<1>4. \/ /\ counted[s].received # NumBlocks
         /\ obj' = counted
         /\ decoders' = NextRequests(obj')
         /\ UNCHANGED <<state, downloads, writes>>
      \/ /\ counted[s].received = NumBlocks
         /\ ~checkHash(counted[s].data, p)
         /\ obj' = counted
         /\ state' = "badChecksum"
         /\ UNCHANGED <<decoders, downloads, writes>>
      \/ /\ counted[s].received = NumBlocks
         /\ obj' = closed
         /\ downloads' \in moveFinishedPieceDownloadsToEnd(obj')
         /\ writes' = Add(writes, <<s, p>>)
         /\ decoders' = NextRequests(obj')
         /\ UNCHANGED state
  BY DEF StoreBlock, FinishBlock
<1> HIDE DEF s
<1>5. counted = [obj EXCEPT ![s] = r] /\ counted[s] = r
  BY <1>3 DEF CountBlock, Counted, TypeInv, ObjOK
<1>6. closed = [obj EXCEPT ![s] = [r EXCEPT !.finished = TRUE]]
  BY <1>3, <1>5 DEF TypeInv, ObjOK
<1>7. r \in Object /\ r.finished = FALSE
  BY <1>1, <1>2, CountedFields
<1> HIDE DEF r, counted, closed
<1>8. CASE /\ counted[s].received # NumBlocks /\ obj' = counted
           /\ decoders' = NextRequests(obj') /\ UNCHANGED <<state, downloads, writes>>
  <2>1. \A x \in Slots : obj'[x] = IF x = s THEN r ELSE obj[x]
    BY <1>5, <1>8 DEF TypeInv, ObjOK
  <2>2. ListOK' /\ \A x : Listed(x)' <=> Listed(x)
    BY <1>8 DEF TypeInv, ListOK, Listed
  <2>3. Unfinished' = Unfinished
    BY <1>2, <1>7, <2>1, <2>2, UnfinishedListed
  <2>4. haveCurrentDownloads(obj')
    BY <1>3, <1>7, <2>1 DEF haveCurrentDownloads, Listed
  <2>5. decoders' = [decoders EXCEPT !["check"] = @ + 1]
    BY <1>8, <2>4 DEF NextRequests
  <2> QED  BY <1>2, <1>3, <1>5, <1>8, <2>2, <2>3, <2>5 DEF r
<1>9. CASE /\ counted[s].received = NumBlocks /\ ~checkHash(counted[s].data, p)
           /\ obj' = counted /\ state' = "badChecksum"
           /\ UNCHANGED <<decoders, downloads, writes>>
  <2>1. ListOK'
    BY <1>9 DEF TypeInv, ListOK
  <2> QED  BY <1>2, <1>3, <1>5, <1>9, <2>1 DEF r
<1>10. CASE /\ counted[s].received = NumBlocks /\ obj' = closed
            /\ downloads' \in moveFinishedPieceDownloadsToEnd(obj')
            /\ writes' = Add(writes, <<s, p>>)
            /\ decoders' = NextRequests(obj') /\ UNCHANGED state
  <2>1. ListOK' /\ \A x : Listed(x)' <=> Listed(x)
    BY <1>10, SortedList DEF TypeInv
  <2>2. \A x \in Slots : obj'[x].finished = IF x = s THEN TRUE ELSE obj[x].finished
    BY <1>6, <1>7, <1>10 DEF TypeInv, ObjOK, Object
  <2>3. Unfinished' = Unfinished \ {s}
    BY <2>1, <2>2, UnfinishedListed
  <2>4. \/ decoders' = [decoders EXCEPT !["check"] = @ + 1]
        \/ decoders' = decoders /\ Unfinished' = {}
    <3>1. CASE haveCurrentDownloads(obj')
      BY <1>10, <3>1 DEF NextRequests
    <3>2. CASE ~haveCurrentDownloads(obj')
      <4>1. \A x \in Slots : Listed(x) => obj'[x].finished
        BY <3>2 DEF haveCurrentDownloads, Listed
      <4>2. Unfinished' = {}
        BY <2>1, <4>1, UnfinishedListed
      <4> QED  BY <1>10, <3>2, <4>2 DEF NextRequests
    <3> QED  BY <3>1, <3>2
  <2> QED  BY <1>2, <1>3, <1>5, <1>6, <1>10, <2>1, <2>3, <2>4 DEF r
<1> QED  BY <1>4, <1>8, <1>9, <1>10

\* Types after a block has been stored.
LEMMA TypeInvStore ==
  ASSUME TypeInv, NEW p \in Pieces, NEW b \in Blocks, StoreBlock(p, b)
  PROVE  TypeInv'
<1> DEFINE Incremented == decoders' = [decoders EXCEPT !["check"] = @ + 1]
<1>1. /\ Up /\ BagIn(Block(p, b), arriving) /\ arriving' = Take(arriving, Block(p, b))
      /\ UNCHANGED <<peerChoking, run, remoteVars, disk, controlVars, requests, budget>>
  BY DEF StoreBlock
<1>2. ArrivingOK'
  BY <1>1, TakeCopies DEF TypeInv, ArrivingOK
<1>3. Incremented \/ decoders' = decoders => decoders' \in [{"check", "send"} -> Nat]
  BY DEF TypeInv, LoopOK
<1>4. PICK s \in Unfinished :
        /\ s \in Slots /\ obj[s].piece = p /\ ListOK'
        /\ \/ /\ Counted(s, p, b).received # NumBlocks
              /\ obj' = [obj EXCEPT ![s] = Counted(s, p, b)]
              /\ Incremented
              /\ UNCHANGED <<state, writes>>
           \/ /\ Counted(s, p, b).received = NumBlocks
              /\ obj' = [obj EXCEPT ![s] = Counted(s, p, b)]
              /\ state' = "badChecksum"
              /\ UNCHANGED <<decoders, writes>>
           \/ /\ Counted(s, p, b).received = NumBlocks
              /\ obj' = [obj EXCEPT ![s] = [Counted(s, p, b) EXCEPT !.finished = TRUE]]
              /\ writes' = Add(writes, <<s, p>>)
              /\ Incremented \/ decoders' = decoders
              /\ UNCHANGED state
  BY StoreEffect
<1> HIDE DEF Incremented
<1> DEFINE r == Counted(s, p, b)
<1>5. /\ r \in Object /\ r.piece = p /\ r.finished = FALSE /\ r.received <= NumBlocks
      /\ r.received + r.outstanding \in 0 .. NumBlocks /\ r.received \in 0 .. NumBlocks
  <2>0. obj[s].piece = p
    BY <1>4
  <2>1. /\ r \in Object /\ r.piece = p /\ r.finished = FALSE /\ r.received <= NumBlocks
        /\ r.received + r.outstanding = obj[s].received + obj[s].outstanding
    BY <1>1, <2>0, CountedFields
  <2>2. obj[s].received + obj[s].outstanding \in 0 .. NumBlocks
    BY <1>4, Fields DEF TypeInv
  <2> HIDE DEF r
  <2> QED  BY <2>1, <2>2 DEF Object
<1> HIDE DEF r
<1>6. ObjOK' /\ WritesOK' /\ state' \in {"up", "badChecksum"}
      /\ decoders' \in [{"check", "send"} -> Nat]
  <2>1. CASE /\ r.received # NumBlocks /\ obj' = [obj EXCEPT ![s] = r]
             /\ Incremented /\ UNCHANGED <<state, writes>>
    <3>1. r.received < NumBlocks
      BY <1>5, <2>1, Constants
    <3>2. ObjOK'
      BY <1>1, <1>4, <1>5, <2>1, <3>1, ObjChanged DEF TypeInv, Up
    <3> QED  BY <1>1, <1>3, <2>1, <3>2 DEF TypeInv, WritesOK, Up
  <2>2. CASE /\ obj' = [obj EXCEPT ![s] = r] /\ state' = "badChecksum"
             /\ UNCHANGED <<decoders, writes>>
    <3>1. ObjOK'
      BY <1>1, <1>4, <1>5, <2>2, ObjChanged DEF TypeInv, Up
    <3> QED  BY <1>3, <2>2, <3>1 DEF TypeInv, WritesOK
  <2>3. CASE /\ obj' = [obj EXCEPT ![s] = [r EXCEPT !.finished = TRUE]]
             /\ writes' = Add(writes, <<s, p>>)
             /\ Incremented \/ decoders' = decoders
             /\ UNCHANGED state
    <3> DEFINE c == [r EXCEPT !.finished = TRUE]
    <3>1. /\ c \in Object /\ c.received = r.received /\ c.outstanding = r.outstanding
          /\ c.finished = TRUE
      BY <1>5 DEF Object
    <3>2. obj' = [obj EXCEPT ![s] = c]
      BY <2>3
    <3> HIDE DEF c
    <3>3. ObjOK'
      BY <1>1, <1>4, <1>5, <2>3, <3>1, <3>2, ObjChanged DEF TypeInv, Up
    <3>4. WritesOK'
      BY <1>4, <2>3, AddCopies DEF TypeInv, WritesOK
    <3> QED  BY <1>1, <1>3, <2>3, <3>3, <3>4 DEF Up
  <2> QED  BY <1>4, <2>1, <2>2, <2>3 DEF r
<1> QED
  BY <1>1, <1>2, <1>4, <1>6 DEF TypeInv, LoopOK, FlagsOK, AskedOK, RequestsOK, ChokeStatusOK,
                                BooksOK, remoteVars, controlVars

\* Types after a message that changes nothing but flags, bags and books.
LEMMA TypeInvMessages ==
  ASSUME TypeInv,
         (\E p \in Pieces, b \in Blocks : DropBlock(p, b)) \/ Choke \/ Unchoke
  PROVE  TypeInv'
<1>1. ASSUME NEW m, BagIn(m, arriving), arriving' = Take(arriving, m) PROVE ArrivingOK'
  BY <1>1, TakeCopies DEF TypeInv, ArrivingOK
<1>2. ASSUME NEW c \in BOOLEAN, chokeStatus' = Add(chokeStatus, c) PROVE ChokeStatusOK'
  BY <1>2, AddCopies DEF TypeInv, ChokeStatusOK
<1>3. ASSUME NEW p \in Pieces, NEW b \in Blocks, DropBlock(p, b) PROVE TypeInv'
  <2>1. ArrivingOK'
    BY <1>1, <1>3 DEF DropBlock
  <2> QED
    BY <1>3, <2>1 DEF DropBlock, TypeInv, ObjOK, CountersOK, ListOK, LoopOK, FlagsOK, AskedOK,
                      WritesOK, RequestsOK, ChokeStatusOK, BooksOK, remoteVars, controlVars, Up
<1>4. CASE Choke
  <2>1. ArrivingOK'
    BY <1>1, <1>4 DEF Choke
  <2>2. CASE UNCHANGED <<peerChoking, obj, chokeStatus>>
    BY <1>4, <2>1, <2>2 DEF Choke, TypeInv, ObjOK, CountersOK, ListOK, LoopOK, FlagsOK, AskedOK,
                            WritesOK, RequestsOK, ChokeStatusOK, BooksOK, remoteVars, Up
  <2>3. CASE /\ peerChoking' = TRUE
             /\ obj' = [s \in Slots |-> [obj[s] EXCEPT !.finished = TRUE, !.received = 0,
                                                       !.outstanding = 0]]
             /\ chokeStatus' = Add(chokeStatus, TRUE)
    <3>1. ASSUME NEW s \in Slots
          PROVE  /\ obj'[s] \in Object /\ obj'[s].finished = TRUE
                 /\ obj'[s].received = 0 /\ obj'[s].outstanding = 0
      <4>1. 0 \in 0 .. NumBlocks /\ 0 \in -NumBlocks .. NumBlocks
        BY Constants
      <4>2. obj[s] \in Object
        BY Fields DEF TypeInv
      <4>3. obj'[s] = [obj[s] EXCEPT !.finished = TRUE, !.received = 0, !.outstanding = 0]
        BY <2>3
      <4> QED  BY <4>1, <4>2, <4>3 DEF Object
    <3>2. obj' \in [Slots -> Object]
      BY <2>3, <3>1
    <3>3. ASSUME NEW s \in Slots PROVE CountersOK(s)'
      <4>1. obj'[s].finished = TRUE /\ obj'[s].received = 0 /\ obj'[s].outstanding = 0
        BY <3>1
      <4>2. 0 + 0 \in 0 .. NumBlocks
        BY Constants
      <4> QED  BY <4>1, <4>2 DEF CountersOK
    <3>4. ObjOK' /\ ChokeStatusOK'
      BY <1>2, <2>3, <3>2, <3>3 DEF ObjOK
    <3>5. UNCHANGED <<downloads, state, run, decoders, remoteVars, writes, disk, active,
                      finishedPieces, isChoked, requests, budget>>
      BY <1>4 DEF Choke
    <3> QED
      BY <2>1, <2>3, <3>4, <3>5 DEF TypeInv, ListOK, LoopOK, FlagsOK, AskedOK, WritesOK,
                                    RequestsOK, BooksOK, remoteVars
  <2> QED  BY <1>4, <2>2, <2>3 DEF Choke
<1>5. CASE Unchoke
  <2>1. ArrivingOK'
    BY <1>1, <1>5 DEF Unchoke
  <2>2. ChokeStatusOK' /\ peerChoking' \in BOOLEAN
    BY <1>2, <1>5 DEF Unchoke, TypeInv, ChokeStatusOK, FlagsOK
  <2> QED
    BY <1>5, <2>1, <2>2 DEF Unchoke, TypeInv, ObjOK, CountersOK, ListOK, LoopOK, FlagsOK, AskedOK,
                            WritesOK, RequestsOK, BooksOK, remoteVars, Up
<1> QED  BY <1>3, <1>4, <1>5

\* Types after a step of the remote end.
LEMMA TypeInvRemote ==
  ASSUME TypeInv,
         \/ \E r \in Pieces \X Blocks : ServeBlock(r) \/ IgnoreRequest(r)
         \/ RemoteChokes \/ RemoteUnchokes
  PROVE  TypeInv'
<1>1. ASSUME NEW m \in Messages, arriving' = Add(arriving, m) PROVE ArrivingOK'
  BY <1>1, AddCopies DEF TypeInv, ArrivingOK
<1>2. ASSUME NEW r, BagIn(r, asked), asked' = Take(asked, r) PROVE AskedOK'
  BY <1>2, TakeCopies DEF TypeInv, AskedOK
<1>3. ASSUME NEW r \in Pieces \X Blocks, ServeBlock(r) PROVE TypeInv'
  <2>1. Block(r[1], r[2]) \in Messages
    BY DEF Block, Messages
  <2>2. AskedOK' /\ ArrivingOK'
    BY <1>1, <1>2, <1>3, <2>1 DEF ServeBlock
  <2> QED
    BY <1>3, <2>2 DEF ServeBlock, TypeInv, ObjOK, CountersOK, ListOK, LoopOK, FlagsOK,
                      WritesOK, RequestsOK, ChokeStatusOK, BooksOK, controlVars, Up
<1>4. ASSUME NEW r \in Pieces \X Blocks, IgnoreRequest(r) PROVE TypeInv'
  <2>1. AskedOK'
    BY <1>2, <1>4 DEF IgnoreRequest
  <2> QED
    BY <1>4, <2>1 DEF IgnoreRequest, TypeInv, ObjOK, CountersOK, ListOK, LoopOK, FlagsOK,
                      ArrivingOK, WritesOK, RequestsOK, ChokeStatusOK, BooksOK, controlVars, Up
<1>5. ASSUME RemoteChokes PROVE TypeInv'
  <2>1. ArrivingOK'
    BY <1>1, <1>5 DEF RemoteChokes, Messages
  <2>2. budget \in [choke : 0 .. ChokeBudget, cancel : 0 .. CancelBudget]
    BY DEF TypeInv, BooksOK
  <2>3. budget.choke - 1 \in 0 .. ChokeBudget
    BY <1>5, <2>2, Constants DEF RemoteChokes
  <2>4. budget' \in [choke : 0 .. ChokeBudget, cancel : 0 .. CancelBudget]
    BY <1>5, <2>2, <2>3 DEF RemoteChokes
  <2> QED
    BY <1>5, <2>1, <2>4 DEF RemoteChokes, TypeInv, ObjOK, CountersOK, ListOK, LoopOK, FlagsOK,
                      AskedOK, WritesOK, RequestsOK, ChokeStatusOK, BooksOK, controlVars, Up
<1>6. ASSUME RemoteUnchokes PROVE TypeInv'
  <2>1. ArrivingOK'
    BY <1>1, <1>6 DEF RemoteUnchokes, Messages
  <2> QED
    BY <1>6, <2>1 DEF RemoteUnchokes, TypeInv, ObjOK, CountersOK, ListOK, LoopOK, FlagsOK,
                      AskedOK, WritesOK, RequestsOK, ChokeStatusOK, BooksOK, controlVars, Up
<1> QED  BY <1>3, <1>4, <1>5, <1>6

\* Types after a step of DiskIO or of the controller.
LEMMA TypeInvController ==
  ASSUME TypeInv,
         \/ \E w \in Slots \X Pieces : WritePiece(w)
         \/ \E p \in Pieces : RequestPiece(p)
         \/ \E c \in BOOLEAN : ReceiveChokeStatus(c)
  PROVE  TypeInv'
<1>1. ASSUME NEW w \in Slots \X Pieces, WritePiece(w) PROVE TypeInv'
  <2>1. WritesOK'
    BY <1>1, TakeCopies DEF WritePiece, TypeInv, WritesOK
  <2>2. disk' \in [Pieces -> {"missing", "good", "bad"}]
    BY <1>1 DEF WritePiece, TypeInv, BooksOK
  <2> QED
    BY <1>1, <2>1, <2>2 DEF WritePiece, TypeInv, ObjOK, CountersOK, ListOK, LoopOK, FlagsOK,
                      AskedOK, ArrivingOK, RequestsOK, ChokeStatusOK, BooksOK, remoteVars, Up
<1>2. ASSUME NEW p \in Pieces, RequestPiece(p) PROVE TypeInv'
  <2>1. RequestsOK'
    BY <1>2, AddCopies DEF RequestPiece, TypeInv, RequestsOK
  <2> QED
    BY <1>2, <2>1 DEF RequestPiece, TypeInv, ObjOK, CountersOK, ListOK, LoopOK, FlagsOK,
                      AskedOK, ArrivingOK, WritesOK, ChokeStatusOK, BooksOK, remoteVars, Up
<1>3. ASSUME NEW c \in BOOLEAN, ReceiveChokeStatus(c) PROVE TypeInv'
  <2>1. ChokeStatusOK'
    BY <1>3, TakeCopies DEF ReceiveChokeStatus, TypeInv, ChokeStatusOK
  <2>2. isChoked' \in BOOLEAN /\ active' \subseteq Pieces
    BY <1>3 DEF ReceiveChokeStatus, TypeInv, BooksOK
  <2> QED
    BY <1>3, <2>1, <2>2 DEF ReceiveChokeStatus, TypeInv, ObjOK, CountersOK, ListOK, LoopOK,
                      FlagsOK, AskedOK, ArrivingOK, WritesOK, RequestsOK, BooksOK, remoteVars, Up
<1> QED  BY <1>1, <1>2, <1>3

\* Every step keeps the types.
LEMMA TypeInvStep == TypeInv /\ [WholeStep]_stepVars => TypeInv'
<1> SUFFICES ASSUME TypeInv, [WholeStep]_stepVars PROVE TypeInv'
  OBVIOUS
<1>1. ASSUME NEW p \in Pieces, NEW b \in Blocks, StoreBlock(p, b) PROVE TypeInv'
  BY <1>1, TypeInvStore
<1>2. ASSUME NEW p \in Pieces, NEW b \in Blocks, DropBlock(p, b) PROVE TypeInv'
  BY <1>2, TypeInvMessages
<1>3. CASE Choke \/ Unchoke
  BY <1>3, TypeInvMessages
<1>4. ASSUME NEW p \in Pieces, TakeRequest(p) PROVE TypeInv'
  BY <1>4, TypeInvTake
<1>5. ASSUME NEW p \in Pieces, CancelPiece(p) PROVE TypeInv'
  BY <1>5, TypeInvCancel
<1>6. CASE UNCHANGED stepVars
  BY <1>6 DEF stepVars, TypeInv, ObjOK, CountersOK, ListOK, LoopOK, FlagsOK, AskedOK, ArrivingOK,
          WritesOK, RequestsOK, ChokeStatusOK, BooksOK, remoteVars, controlVars, Up
<1> QED
  BY <1>1, <1>2, <1>3, <1>4, <1>5, <1>6, TypeInvRequests, TypeInvRemote, TypeInvController
     DEF WholeStep, DecodeMessage, Serve, Write

\* As long as no update has been torn: no handler is preempted, and the types are
\* right.
UnracedInv == races \in Nat /\ (Unraced => torn = {} /\ TypeInv)

\* An update that is not preempted tears nothing.
LEMMA WholeUntorn == WholeStep => UNCHANGED <<torn, races>>
<1> SUFFICES ASSUME WholeStep PROVE UNCHANGED raceVars
  BY DEF raceVars
<1>1. CASE RunRequests \/ DecoderRequests
  BY <1>1 DEF RunRequests, DecoderRequests
<1>2. ASSUME NEW p \in Pieces, TakeRequest(p) \/ CancelPiece(p) \/ RequestPiece(p)
      PROVE  UNCHANGED raceVars
  BY <1>2 DEF TakeRequest, CancelPiece, RequestPiece
<1>3. CASE DecodeMessage
  BY <1>3 DEF DecodeMessage, StoreBlock, DropBlock, Choke, Unchoke
<1>4. CASE Serve \/ Write
  BY <1>4 DEF Serve, ServeBlock, Write, WritePiece
<1>5. ASSUME NEW r \in Pieces \X Blocks, IgnoreRequest(r)
      PROVE  UNCHANGED raceVars
  BY <1>5 DEF IgnoreRequest
<1>6. CASE RemoteChokes \/ RemoteUnchokes
  BY <1>6 DEF RemoteChokes, RemoteUnchokes
<1>7. ASSUME NEW c \in BOOLEAN, ReceiveChokeStatus(c)
      PROVE  UNCHANGED raceVars
  BY <1>7 DEF ReceiveChokeStatus
<1> QED  BY <1>1, <1>2, <1>3, <1>4, <1>5, <1>6, <1>7 DEF WholeStep

\* A step before which and after which no update has been torn is a whole step.
LEMMA UnracedStep ==
  ASSUME races \in Nat, Unraced => torn = {}, [PNext]_pvars, Unraced'
  PROVE  Unraced /\ [WholeStep]_stepVars /\ UNCHANGED <<torn, races>>
<1>1. CASE Race
  <2>1. races' = races + 1
    BY <1>1 DEF Race, PreemptStore, PreemptSend, Preempt
  <2> QED  BY <2>1 DEF Unraced
<1>2. CASE Resumes
  <2>1. UNCHANGED races /\ torn # {}
    BY <1>2 DEF Resumes, Resume
  <2> QED  BY <2>1 DEF Unraced
<1>3. CASE WholeStep
  BY <1>3, WholeUntorn DEF Unraced
<1>4. CASE UNCHANGED pvars
  BY <1>4 DEF pvars, raceVars, Unraced
<1> QED  BY <1>1, <1>2, <1>3, <1>4 DEF PNext

\* Torn updates are counted.
LEMMA RacesCounted == races \in Nat /\ [PNext]_pvars => races' \in Nat
<1> SUFFICES ASSUME races \in Nat, [PNext]_pvars PROVE races' = races \/ races' = races + 1
  OBVIOUS
<1>1. CASE Race
  BY <1>1 DEF Race, PreemptStore, PreemptSend, Preempt
<1>2. CASE Resumes
  BY <1>2 DEF Resumes, Resume
<1> QED  BY <1>1, <1>2, WholeUntorn DEF PNext, pvars, raceVars

\* Until an update is torn the types are right, and the sum of received and
\* requested blocks never exceeds the piece, whatever chokes, cancels and overlaps
\* of handlers happen.
THEOREM PieceTypeInvariance == PSpec => []UnracedInv
<1>1. PInit => UnracedInv
  BY TypeInvInit DEF PInit, UnracedInv
<1>2. UnracedInv /\ [PNext]_pvars => UnracedInv'
  <2> SUFFICES ASSUME UnracedInv, [PNext]_pvars PROVE UnracedInv'
    OBVIOUS
  <2>1. races' \in Nat
    BY RacesCounted DEF UnracedInv
  <2>2. Unraced' => torn' = {} /\ TypeInv'
    BY UnracedStep, TypeInvStep DEF UnracedInv
  <2> QED  BY <2>1, <2>2 DEF UnracedInv
<1> QED  BY <1>1, <1>2, PTL DEF PSpec

\* PTypeOK: until an update is torn only blocks that exist are asked for, and no
\* more are counted than the piece has, although a CHOKE can make
\* numOutstandingBlocks negative.
THEOREM PieceTypeCorrect == PSpec => [](Unraced => PTypeOK)
<1>1. UnracedInv => (Unraced => PTypeOK)
  BY TypeInvTypes DEF UnracedInv
<1> QED  BY <1>1, PieceTypeInvariance, PTL

-----------------------------------------------------------------------------
(* The accounts of a peer that is not choked.                              *)

\* No choke is under way.
NoChokes ==
  /\ ~BagIn(MsgChoke, arriving)
  /\ ~BagIn(TRUE, chokeStatus)
  /\ remoteChoking = FALSE

\* A piece is requested once.  Until Run takes the request, nobody downloads it
\* and no block of it is under way.
Fresh(p) ==
  /\ CopiesOf(p, requests) <= 1
  /\ p \notin active \cup finishedPieces => CopiesOf(p, requests) = 0
  /\ p \notin active \cup finishedPieces \/ CopiesOf(p, requests) = 1 =>
       /\ \A s \in Unfinished : obj[s].piece # p
       /\ \A b \in Blocks : Copies(p, b) = 0

OnePerPiece == \A s, t \in Unfinished : obj[s].piece = obj[t].piece => s = t

\* The blocks of p that are under way.
Out(p) == {b \in Blocks : Copies(p, b) > 0}

Accounted(s) ==
  LET p == obj[s].piece
      n == obj[s].received + obj[s].outstanding
  IN  /\ Cardinality(Out(p)) = obj[s].outstanding
      /\ \A b \in Out(p) : Copies(p, b) = 1 /\ b < n
      /\ \A b \in Blocks \ Out(p) : b < n => obj[s].data[b] = p

Accounts ==
  /\ NoChokes
  /\ \A p \in Pieces : Fresh(p)
  /\ OnePerPiece
  /\ \A s \in Unfinished : Accounted(s)
  /\ state # "badChecksum"

AccountInv == TypeInv /\ (Unchoked => Accounts)

\* The number of copies of a block under way is a natural number.
LEMMA CopiesType ==
  ASSUME AskedOK, ArrivingOK, NEW p, NEW b
  PROVE  /\ Copies(p, b) \in Nat
         /\ UnderWay(p, b) <=> Copies(p, b) > 0
<1>1. /\ CopiesOf(<<p, b>>, asked) \in Nat
      /\ BagIn(<<p, b>>, asked) <=> CopiesOf(<<p, b>>, asked) > 0
  BY CopiesNumber DEF AskedOK
<1>2. /\ CopiesOf(Block(p, b), arriving) \in Nat
      /\ BagIn(Block(p, b), arriving) <=> CopiesOf(Block(p, b), arriving) > 0
  BY CopiesNumber DEF ArrivingOK
<1> QED  BY <1>1, <1>2 DEF Copies, UnderWay

\* Different blocks are different messages, and no block is a choke or unchoke.
LEMMA BlocksDiffer ==
  ASSUME NEW p, NEW b, NEW q, NEW c
  PROVE  /\ Block(p, b) = Block(q, c) <=> p = q /\ b = c
         /\ Block(p, b) # MsgChoke /\ Block(p, b) # MsgUnchoke
<1>1. /\ Block(p, b).piece = p /\ Block(q, c).piece = q
      /\ Block(p, b).block = b /\ Block(q, c).block = c
      /\ Block(p, b).type = "block" /\ MsgChoke.type = "choke" /\ MsgUnchoke.type = "unchoke"
  BY DEF Block, MsgChoke, MsgUnchoke
<1> QED  BY <1>1

\* How the copies change: a request is sent,
LEMMA CopiesSent ==
  ASSUME TypeInv, NEW p, NEW b, asked' = Add(asked, <<p, b>>), arriving' = arriving
  PROVE  \A q, c : Copies(q, c)' = Copies(q, c) + (IF q = p /\ c = b THEN 1 ELSE 0)
<1> TAKE q, c
<1>1. CopiesOf(<<q, c>>, asked') = CopiesOf(<<q, c>>, asked) + (IF <<q, c>> = <<p, b>> THEN 1 ELSE 0)
  BY AddCopies DEF TypeInv, AskedOK
<1>2. CopiesOf(<<q, c>>, asked) \in Nat /\ CopiesOf(Block(q, c), arriving) \in Nat
  BY CopiesNumber DEF TypeInv, AskedOK, ArrivingOK
<1>3. <<q, c>> = <<p, b>> <=> q = p /\ c = b
  OBVIOUS
<1> QED  BY <1>1, <1>2, <1>3 DEF Copies

\* or served,
LEMMA CopiesServed ==
  ASSUME TypeInv, NEW r \in Pieces \X Blocks, BagIn(r, asked), asked' = Take(asked, r),
         arriving' = Add(arriving, Block(r[1], r[2]))
  PROVE  \A q, c : Copies(q, c)' = Copies(q, c)
<1> TAKE q, c
<1>1. CopiesOf(<<q, c>>, asked') = CopiesOf(<<q, c>>, asked) - (IF <<q, c>> = r THEN 1 ELSE 0)
  BY TakeCopies DEF TypeInv, AskedOK
<1>2. CopiesOf(Block(q, c), arriving') =
        CopiesOf(Block(q, c), arriving) + (IF Block(q, c) = Block(r[1], r[2]) THEN 1 ELSE 0)
  BY AddCopies DEF TypeInv, ArrivingOK
<1>3. <<q, c>> = r <=> Block(q, c) = Block(r[1], r[2])
  BY BlocksDiffer
<1>4. CopiesOf(<<q, c>>, asked) \in Nat /\ CopiesOf(Block(q, c), arriving) \in Nat
  BY CopiesNumber DEF TypeInv, AskedOK, ArrivingOK
<1> QED  BY <1>1, <1>2, <1>3, <1>4 DEF Copies

\* a block is decoded,
LEMMA CopiesDecoded ==
  ASSUME TypeInv, NEW p, NEW b, BagIn(Block(p, b), arriving),
         arriving' = Take(arriving, Block(p, b)), asked' = asked
  PROVE  /\ \A q, c : Copies(q, c)' = Copies(q, c) - (IF q = p /\ c = b THEN 1 ELSE 0)
         /\ Copies(p, b) > 0
<1>1. Copies(p, b) > 0
  BY CopiesType DEF TypeInv, UnderWay
<1>2. ASSUME NEW q, NEW c
      PROVE  Copies(q, c)' = Copies(q, c) - (IF q = p /\ c = b THEN 1 ELSE 0)
  <2>1. CopiesOf(Block(q, c), arriving') =
          CopiesOf(Block(q, c), arriving) - (IF Block(q, c) = Block(p, b) THEN 1 ELSE 0)
    BY TakeCopies DEF TypeInv, ArrivingOK
  <2>2. CopiesOf(<<q, c>>, asked) \in Nat /\ CopiesOf(Block(q, c), arriving) \in Nat
    BY CopiesNumber DEF TypeInv, AskedOK, ArrivingOK
  <2>3. Block(q, c) = Block(p, b) <=> q = p /\ c = b
    BY BlocksDiffer
  <2> QED  BY <2>1, <2>2, <2>3 DEF Copies
<1> QED  BY <1>1, <1>2

\* or a choke or unchoke is sent or decoded.
LEMMA CopiesUnmoved ==
  ASSUME TypeInv, NEW m \in {MsgChoke, MsgUnchoke}, asked' = asked,
         \/ arriving' = Add(arriving, m)
         \/ BagIn(m, arriving) /\ arriving' = Take(arriving, m)
  PROVE  \A q, c : Copies(q, c)' = Copies(q, c)
<1> TAKE q, c
<1>1. Block(q, c) # m
  BY BlocksDiffer
<1>2. CopiesOf(Block(q, c), arriving') = CopiesOf(Block(q, c), arriving)
  <2>1. CopiesOf(Block(q, c), arriving) \in Nat
    BY CopiesNumber DEF TypeInv, ArrivingOK
  <2>2. CASE arriving' = Add(arriving, m)
    BY <1>1, <2>1, <2>2, AddCopies DEF TypeInv, ArrivingOK
  <2>3. CASE BagIn(m, arriving) /\ arriving' = Take(arriving, m)
    BY <1>1, <2>1, <2>3, TakeCopies DEF TypeInv, ArrivingOK
  <2> QED  BY <2>2, <2>3
<1> QED  BY <1>2 DEF Copies

\* A download is accounted for as before if neither it nor the blocks of its piece
\* move.
LEMMA SameAccount ==
  ASSUME NEW s, Accounted(s), obj'[s] = obj[s],
         \A b \in Blocks : Copies(obj[s].piece, b)' = Copies(obj[s].piece, b)
  PROVE  Accounted(s)'
<1>1. Out(obj[s].piece)' = Out(obj[s].piece)
  BY DEF Out
<1>2. obj'[s].piece = obj[s].piece
  OBVIOUS
<1> QED  BY <1>1, <1>2 DEF Accounted, Out

\* Nothing has been choked before, if nothing has been choked.
LEMMA UnchokedBefore == TypeInv /\ [WholeStep]_stepVars /\ Unchoked' => Unchoked
<1> SUFFICES ASSUME TypeInv, [WholeStep]_stepVars, Unchoked' PROVE Unchoked
  OBVIOUS
<1>1. budget \in [choke : 0 .. ChokeBudget, cancel : 0 .. CancelBudget]
  BY DEF TypeInv, BooksOK
<1>2. CASE RemoteChokes
  <2>1. budget'.choke = budget.choke - 1
    BY <1>1, <1>2 DEF RemoteChokes
  <2>2. budget.choke \in Int /\ budget.choke <= ChokeBudget
    BY <1>1, Constants
  <2> QED  BY <2>1, <2>2, Constants DEF Unchoked
<1>3. ASSUME NEW p \in Pieces, CancelPiece(p) PROVE budget'.choke = budget.choke
  BY <1>1, <1>3 DEF CancelPiece
<1>4. CASE budget' = budget
  BY <1>4 DEF Unchoked
<1>5. ASSUME NEW p \in Pieces, NEW b \in Blocks, StoreBlock(p, b) \/ DropBlock(p, b)
      PROVE  budget' = budget
  BY <1>5 DEF StoreBlock, DropBlock
<1>6. ASSUME NEW p \in Pieces, TakeRequest(p) \/ RequestPiece(p) PROVE budget' = budget
  BY <1>6 DEF TakeRequest, RequestPiece
<1>7. ASSUME NEW r \in Pieces \X Blocks, ServeBlock(r) \/ IgnoreRequest(r)
      PROVE  budget' = budget
  BY <1>7 DEF ServeBlock, IgnoreRequest
<1>8. ASSUME NEW w \in Slots \X Pieces, WritePiece(w) PROVE budget' = budget
  BY <1>8 DEF WritePiece
<1>9. ASSUME NEW c \in BOOLEAN, ReceiveChokeStatus(c) PROVE budget' = budget
  BY <1>9 DEF ReceiveChokeStatus
<1>10. CASE RunRequests \/ DecoderRequests \/ Choke \/ Unchoke \/ RemoteUnchokes \/ UNCHANGED stepVars
  <2>1. budget' = budget
    BY <1>10 DEF RunRequests, DecoderRequests, Choke, Unchoke, RemoteUnchokes, stepVars
  <2> QED  BY <1>4, <2>1
<1> QED
  BY <1>2, <1>3, <1>4, <1>5, <1>6, <1>7, <1>8, <1>9, <1>10
     DEF WholeStep, DecodeMessage, Serve, Write, Unchoked

\* An unfinished download has a piece.
LEMMA UnfinishedPiece ==
  ASSUME TypeInv, NEW s \in Unfinished
  PROVE  s \in Slots /\ obj[s].piece \in Pieces /\ obj[s].finished = FALSE
<1>1. s \in Slots /\ ~obj[s].finished
  BY DEF Unfinished
<1> QED  BY <1>1, Fields DEF TypeInv, ObjOK, CountersOK

\* Finitely many blocks are under way.
LEMMA OutFinite == ASSUME NEW p PROVE IsFiniteSet(Out(p)) /\ Out(p) \subseteq Blocks
<1>1. IsFiniteSet(Blocks)
  <2>1. 0 \in Int /\ NumBlocks - 1 \in Int
    BY Constants
  <2> QED  BY <2>1, FS_Interval DEF Blocks
<1>2. Out(p) \subseteq Blocks
  BY DEF Out
<1> QED  BY <1>1, <1>2, FS_Subset

\* The accounts stay right in a step that moves no block, starts no download and
\* takes no request.
LEMMA AccountsKept ==
  ASSUME TypeInv, Accounts, NoChokes', state' # "badChecksum",
         \A s \in Unfinished' : s \in Unfinished /\ obj'[s] = obj[s],
         \A p \in Pieces, b \in Blocks : Copies(p, b)' = Copies(p, b),
         \A p \in Pieces : p \in active \cup finishedPieces => p \in active' \cup finishedPieces',
         requests' = requests
  PROVE  Accounts'
<1>1. \A p \in Pieces : Fresh(p)'
  BY DEF Accounts, Fresh
<1>2. OnePerPiece'
  BY DEF Accounts, OnePerPiece
<1>3. ASSUME NEW s \in Unfinished' PROVE Accounted(s)'
  <2>1. s \in Unfinished /\ obj'[s] = obj[s]
    OBVIOUS
  <2>2. obj[s].piece \in Pieces
    BY <2>1, UnfinishedPiece
  <2> QED  BY <2>1, <2>2, SameAccount DEF Accounts
<1> QED  BY <1>1, <1>2, <1>3 DEF Accounts

\* A request is sent: the block was not under way, because all that are come before.
LEMMA AccountsLoop ==
  ASSUME TypeInv, Accounts, Up, NEW from, NEW next, RequestLoop(from, next),
         UNCHANGED <<downloads, arriving, remoteChoking, controlVars, requests>>
  PROVE  Accounts'
<1>0. NoChokes' /\ UNCHANGED <<active, finishedPieces>>
  BY DEF Accounts, NoChokes, controlVars
<1>1. CASE UNCHANGED <<obj, asked>> /\ state' # "badChecksum"
  <2>1. Unfinished' = Unfinished
    BY <1>1 DEF Unfinished
  <2>2. \A p, b : Copies(p, b)' = Copies(p, b)
    BY <1>1 DEF Copies
  <2> QED  BY <1>0, <1>1, <2>1, <2>2, AccountsKept
<1>2. CASE SendRequest(next) /\ firstWithBlocksLeft # 0
  <2>0. PICK s, p, b, r : /\ s = firstWithBlocksLeft /\ p = obj[s].piece
                          /\ b = obj[s].received + obj[s].outstanding
                          /\ r = [obj[s] EXCEPT !.outstanding = @ + 1]
    OBVIOUS
  <2>1. /\ s \in Unfinished /\ s \in Slots /\ ~obj[s].finished /\ p \in Pieces /\ b \in Blocks
        /\ asked' = Add(asked, <<p, b>>)
        /\ obj' = [obj EXCEPT ![s] = r]
        /\ UNCHANGED state
    BY <1>2, <2>0, SendEffect
  <2>2. \A q, c : Copies(q, c)' = Copies(q, c) + (IF q = p /\ c = b THEN 1 ELSE 0)
    BY <2>1, CopiesSent
  <2>3. /\ r.piece = p /\ r.received = obj[s].received /\ r.data = obj[s].data
        /\ r.outstanding = obj[s].outstanding + 1 /\ r.finished = obj[s].finished
    BY <2>0, <2>1, Fields DEF TypeInv, Object
  <2>4. \A x \in Slots : obj'[x] = IF x = s THEN r ELSE obj[x]
    BY <2>1 DEF TypeInv, ObjOK
  <2>5. obj[s].received \in Int /\ obj[s].outstanding \in Int /\ b \in Nat
    BY <2>0, <2>1, Fields, Constants DEF TypeInv
  <2>6. Unfinished' = Unfinished /\ \A x \in Unfinished : obj'[x].piece = obj[x].piece
    BY <2>0, <2>1, <2>3, <2>4 DEF Unfinished
  <2>7. p \in active \cup finishedPieces /\ CopiesOf(p, requests) # 1
    BY <2>0, <2>1 DEF Accounts, Fresh
  <2>8. \A q \in Pieces : Fresh(q)'
    <3> TAKE q \in Pieces
    <3>1. Fresh(q)
      BY DEF Accounts
    <3>2. CASE q = p
      BY <1>0, <2>7, <3>1, <3>2 DEF Fresh
    <3>3. CASE q # p
      <4>1. \A c \in Blocks : Copies(q, c)' = Copies(q, c)
        <5> TAKE c \in Blocks
        <5>1. Copies(q, c) \in Nat
          BY CopiesType DEF TypeInv
        <5> QED  BY <2>2, <3>3, <5>1
      <4> QED  BY <1>0, <2>6, <3>1, <4>1 DEF Fresh
    <3> QED  BY <3>2, <3>3
  <2>9. OnePerPiece'
    BY <2>6 DEF Accounts, OnePerPiece
  <2>10. Accounted(s)'
    <3>1. /\ Cardinality(Out(p)) = obj[s].outstanding
          /\ \A c \in Out(p) : Copies(p, c) = 1 /\ c < b
          /\ \A c \in Blocks \ Out(p) : c < b => obj[s].data[c] = p
      BY <2>0, <2>1 DEF Accounts, Accounted
    <3>2. \A c \in Blocks : Copies(p, c) \in Nat
      BY CopiesType DEF TypeInv
    <3>3. b \notin Out(p)
      BY <2>5, <3>1
    <3>4. Copies(p, b) = 0
      BY <2>1, <3>2, <3>3 DEF Out
    <3>5. \A c \in Blocks : Copies(p, c)' = IF c = b THEN 1 ELSE Copies(p, c)
      BY <2>2, <3>2, <3>4
    <3>6. Out(p)' = Out(p) \cup {b}
      BY <2>1, <3>5 DEF Out
    <3>7. IsFiniteSet(Out(p))
      BY OutFinite
    <3>8. Cardinality(Out(p)') = obj[s].outstanding + 1
      BY <3>1, <3>3, <3>6, <3>7, FS_AddElement
    <3>9. /\ obj'[s].piece = p /\ obj'[s].received + obj'[s].outstanding = b + 1
          /\ obj'[s].outstanding = obj[s].outstanding + 1 /\ obj'[s].data = obj[s].data
      <4>1. obj'[s] = r
        BY <2>1, <2>4
      <4>2. b = obj[s].received + obj[s].outstanding
        BY <2>0
      <4> QED  BY <2>3, <2>5, <4>1, <4>2
    <3>10. \A c \in Blocks : c \in Int
      BY Constants DEF Blocks
    <3>11. \A c \in Out(p)' : Copies(p, c)' = 1 /\ c < b + 1
      <4> TAKE c \in Out(p)'
      <4>1. c \in Blocks /\ (c \in Out(p) \/ c = b)
        BY <2>1, <3>6 DEF Out
      <4> QED  BY <2>5, <3>1, <3>5, <3>10, <4>1
    <3>12. \A c \in Blocks \ Out(p)' : c < b + 1 => obj'[s].data[c] = p
      <4> TAKE c \in Blocks \ Out(p)'
      <4> HAVE c < b + 1
      <4>1. c \in Blocks \ Out(p) /\ c # b
        BY <3>6
      <4>2. c < b
        BY <2>5, <3>10, <4>1
      <4> QED  BY <3>1, <3>9, <4>1, <4>2
    <3> QED  BY <3>8, <3>9, <3>11, <3>12 DEF Accounted
  <2>11. ASSUME NEW x \in Unfinished', x # s PROVE Accounted(x)'
    <3>1. x \in Unfinished /\ obj'[x] = obj[x] /\ obj[x].piece # p /\ Accounted(x)
      BY <2>0, <2>1, <2>4, <2>6, <2>11, UnfinishedPiece DEF Accounts, OnePerPiece
    <3>2. \A c \in Blocks : Copies(obj[x].piece, c)' = Copies(obj[x].piece, c)
      <4> TAKE c \in Blocks
      <4>1. Copies(obj[x].piece, c) \in Nat
        BY CopiesType DEF TypeInv
      <4> QED  BY <2>2, <3>1, <4>1
    <3> QED  BY <3>1, <3>2, SameAccount
  <2> QED  BY <1>0, <2>1, <2>8, <2>9, <2>10, <2>11 DEF Accounts
<1>3. CASE CheckTotal(next)
  BY <1>1, <1>3 DEF CheckTotal, Accounts
<1>4. CASE SendRequest(next) /\ firstWithBlocksLeft = 0
  BY <1>1, <1>4 DEF SendRequest, Accounts
<1> QED  BY <1>2, <1>3, <1>4 DEF RequestLoop

\* Run takes a request: the piece is fresh, so the new download has nothing
\* under way, and it is the only one of its piece.
LEMMA AccountsTake ==
  ASSUME TypeInv, Accounts, NEW p \in Pieces, TakeRequest(p)
  PROVE  Accounts'
<1>1. PICK s \in Slots \ Unfinished, r \in Object :
        /\ obj' = [obj EXCEPT ![s] = r]
        /\ r.piece = p /\ r.received = 0 /\ r.outstanding = 0 /\ r.finished = FALSE
        /\ Unfinished' = Unfinished \cup {s}
  BY TakeEffect
<1>2. BagIn(p, requests) /\ requests' = Take(requests, p)
  BY TakeEffect
<1>3. UNCHANGED <<state, asked, remoteChoking, arriving, active, finishedPieces, chokeStatus>>
  BY DEF TakeRequest, remoteVars, controlVars
<1>4. \A x \in Slots : obj'[x] = IF x = s THEN r ELSE obj[x]
  BY <1>1 DEF TypeInv, ObjOK
<1>5. \A q, c : Copies(q, c)' = Copies(q, c)
  BY <1>3 DEF Copies
<1>6. /\ CopiesOf(p, requests) \in Nat /\ CopiesOf(p, requests) > 0
      /\ CopiesOf(p, requests') = CopiesOf(p, requests) - 1
      /\ \A q : q # p => CopiesOf(q, requests') = CopiesOf(q, requests)
  <2>1. \A q : CopiesOf(q, requests) \in Nat /\ (BagIn(q, requests) <=> CopiesOf(q, requests) > 0)
    BY CopiesNumber DEF TypeInv, RequestsOK
  <2>2. \A q : CopiesOf(q, requests') = CopiesOf(q, requests) - (IF q = p THEN 1 ELSE 0)
    BY <1>2, TakeCopies DEF TypeInv, RequestsOK
  <2> QED  BY <1>2, <2>1, <2>2
<1>7. CopiesOf(p, requests) <= 1 /\ Fresh(p)
  BY DEF Accounts, Fresh
<1>8. CopiesOf(p, requests) = 1 /\ CopiesOf(p, requests') = 0
  BY <1>6, <1>7
<1>9. /\ p \in active \cup finishedPieces
      /\ \A x \in Unfinished : obj[x].piece # p
      /\ \A c \in Blocks : Copies(p, c) = 0
  BY <1>7, <1>8 DEF Fresh
<1>10. ASSUME NEW q \in Pieces PROVE Fresh(q)'
  <2>1. CASE q = p
    BY <1>3, <1>8, <1>9, <2>1 DEF Fresh
  <2>2. CASE q # p
    <3>1. Fresh(q) /\ CopiesOf(q, requests') = CopiesOf(q, requests)
      BY <1>6, <2>2 DEF Accounts
    <3>2. \A x \in Unfinished' : obj'[x].piece = q => x \in Unfinished /\ obj[x].piece = q
      BY <1>1, <1>4, <2>2
    <3> QED  BY <1>3, <1>5, <3>1, <3>2 DEF Fresh
  <2> QED  BY <2>1, <2>2
<1>11. OnePerPiece'
  <2> SUFFICES ASSUME NEW x \in Unfinished', NEW y \in Unfinished',
                      obj'[x].piece = obj'[y].piece
               PROVE  x = y
    BY DEF OnePerPiece
  <2>1. x \in Unfinished => obj'[x] = obj[x] /\ obj[x].piece # p
    BY <1>1, <1>4, <1>9, UnfinishedPiece
  <2>2. y \in Unfinished => obj'[y] = obj[y] /\ obj[y].piece # p
    BY <1>1, <1>4, <1>9, UnfinishedPiece
  <2>3. (x = s => obj'[x].piece = p) /\ (y = s => obj'[y].piece = p)
    BY <1>1, <1>4
  <2> QED  BY <1>1, <2>1, <2>2, <2>3 DEF Accounts, OnePerPiece
<1>12. Accounted(s)'
  <2>1. obj'[s].piece = p /\ obj'[s].received = 0 /\ obj'[s].outstanding = 0
    BY <1>1, <1>4
  <2>2. Out(p)' = {}
    <3>1. ASSUME NEW c \in Blocks PROVE ~(Copies(p, c)' > 0)
      BY <1>5, <1>9
    <3> QED  BY <3>1 DEF Out
  <2>3. Cardinality(Out(p)') = 0
    BY <2>2, FS_EmptySet
  <2>4. \A c \in Blocks : ~(c < 0 + 0)
    BY Constants DEF Blocks
  <2> QED  BY <2>1, <2>2, <2>3, <2>4 DEF Accounted
<1>13. ASSUME NEW x \in Unfinished', x # s PROVE Accounted(x)'
  <2>1. x \in Unfinished /\ obj'[x] = obj[x]
    BY <1>1, <1>4, <1>13, UnfinishedPiece
  <2> QED  BY <1>5, <2>1, SameAccount DEF Accounts
<1> QED
  BY <1>1, <1>3, <1>10, <1>11, <1>12, <1>13 DEF Accounts, NoChokes

\* A CANCEL ends a download and leaves the others alone; blocks of the piece
\* may still be under way, but nobody will ask for the piece again.
LEMMA AccountsCancel ==
  ASSUME TypeInv, Accounts, NEW p \in Pieces, CancelPiece(p)
  PROVE  Accounts'
<1>1. /\ active' = active \ {p} /\ finishedPieces' = finishedPieces \cup {p}
      /\ UNCHANGED <<state, asked, remoteChoking, arriving, chokeStatus, requests>>
  BY DEF CancelPiece, remoteVars
<1>2. \A x \in Unfinished' : x \in Unfinished /\ obj'[x] = obj[x]
  <2>1. CASE UNCHANGED <<obj, downloads>> /\ Unfinished' = Unfinished
    BY <2>1
  <2>2. ASSUME NEW s \in Unfinished,
               obj' = [obj EXCEPT ![s] = [obj[s] EXCEPT !.finished = TRUE]],
               Unfinished' = Unfinished \ {s}
        PROVE  \A x \in Unfinished' : x \in Unfinished /\ obj'[x] = obj[x]
    <3>1. \A x \in Unfinished : x \in Slots
      BY UnfinishedPiece
    <3> QED  BY <2>2, <3>1 DEF TypeInv, ObjOK
  <2> QED  BY <2>1, <2>2, CancelEffect
<1>3. \A q, c : Copies(q, c)' = Copies(q, c)
  BY <1>1 DEF Copies
<1>4. NoChokes' /\ state' # "badChecksum"
  BY <1>1 DEF Accounts, NoChokes
<1> QED  BY <1>1, <1>2, <1>3, <1>4, AccountsKept

\* The accounts of a download after one of the blocks under way has been counted.
LEMMA AccountedCounted ==
  ASSUME TypeInv, Up, NEW s \in Unfinished, NEW b \in Blocks, Accounted(s),
         NEW p, p = obj[s].piece, Copies(p, b) > 0
  PROVE  LET r == Counted(s, p, b)
             n == r.received + r.outstanding
         IN  /\ Copies(p, b) = 1
             /\ b \in Out(p) /\ IsFiniteSet(Out(p) \ {b})
             /\ Cardinality(Out(p) \ {b}) = r.outstanding
             /\ \A c \in Out(p) \ {b} : Copies(p, c) = 1 /\ c < n
             /\ \A c \in Blocks \ (Out(p) \ {b}) : c < n => r.data[c] = p
<1> DEFINE r == Counted(s, p, b)
<1>1. p \in Pieces /\ s \in Slots
  BY UnfinishedPiece
<1>2. /\ r.outstanding = obj[s].outstanding - 1
      /\ r.received + r.outstanding = obj[s].received + obj[s].outstanding
  BY <1>1, CountedFields
<1> HIDE DEF r
<1>3. /\ Cardinality(Out(p)) = obj[s].outstanding
      /\ \A c \in Out(p) : Copies(p, c) = 1 /\ c < obj[s].received + obj[s].outstanding
      /\ \A c \in Blocks \ Out(p) :
           c < obj[s].received + obj[s].outstanding => obj[s].data[c] = p
  BY DEF Accounted
<1>4. b \in Out(p)
  BY DEF Out
<1>5. IsFiniteSet(Out(p) \ {b}) /\ Cardinality(Out(p) \ {b}) = obj[s].outstanding - 1
  BY <1>3, <1>4, OutFinite, FS_RemoveElement
<1>6. \A c \in Blocks : r.data[c] = IF c = b THEN p ELSE obj[s].data[c]
  BY <1>1, CountedData DEF r
<1>7. \A c \in Blocks \ (Out(p) \ {b}) : c = b \/ c \in Blocks \ Out(p)
  OBVIOUS
<1> QED  BY <1>2, <1>3, <1>4, <1>5, <1>6, <1>7 DEF r

\* The last block of a download is the only one under way, and it makes the
\* buffer right.
LEMMA LastBlockRight ==
  ASSUME TypeInv, Up, NEW s \in Unfinished, NEW b \in Blocks, Accounted(s),
         NEW p, p = obj[s].piece, Copies(p, b) > 0,
         Counted(s, p, b).received = NumBlocks
  PROVE  checkHash(Counted(s, p, b).data, p)
<1> DEFINE r == Counted(s, p, b)
           n == r.received + r.outstanding
<1>1. /\ IsFiniteSet(Out(p) \ {b})
      /\ Cardinality(Out(p) \ {b}) = r.outstanding
      /\ \A c \in Blocks \ (Out(p) \ {b}) : c < n => r.data[c] = p
  BY AccountedCounted
<1>2. p \in Pieces /\ s \in Slots
  BY UnfinishedPiece
<1>3. n = obj[s].received + obj[s].outstanding /\ n <= NumBlocks
  <2>1. n = obj[s].received + obj[s].outstanding
    BY <1>2, CountedFields
  <2>2. obj[s].received + obj[s].outstanding \in 0 .. NumBlocks
    BY <1>2, Fields DEF TypeInv
  <2> HIDE DEF n
  <2> QED  BY <2>1, <2>2, Constants
<1>4. r.received = NumBlocks
  OBVIOUS
<1>5. Cardinality(Out(p) \ {b}) \in Nat
  BY <1>1, FS_CardinalityType
<1> HIDE DEF r
<1>6. r.outstanding = 0 /\ n = NumBlocks
  BY <1>1, <1>3, <1>4, <1>5, Constants
<1>7. Out(p) \ {b} = {}
  BY <1>1, <1>6, FS_EmptySet
<1>8. \A c \in Blocks : c < NumBlocks
  BY Constants DEF Blocks
<1>9. \A c \in Blocks : r.data[c] = p
  BY <1>1, <1>6, <1>7, <1>8
<1> QED  BY <1>9 DEF checkHash, r

\* A block that is decoded was under way once, so it was not counted before.
LEMMA AccountsStore ==
  ASSUME TypeInv, Accounts, NEW p \in Pieces, NEW b \in Blocks, StoreBlock(p, b)
  PROVE  Accounts'
<1>1. /\ Up /\ BagIn(Block(p, b), arriving) /\ arriving' = Take(arriving, Block(p, b))
      /\ UNCHANGED <<asked, remoteChoking, active, finishedPieces, chokeStatus, requests>>
  BY DEF StoreBlock, remoteVars, controlVars
<1>2. PICK s \in Unfinished :
        /\ s \in Slots /\ obj[s].piece = p
        /\ \/ /\ obj' = [obj EXCEPT ![s] = Counted(s, p, b)]
              /\ Unfinished' = Unfinished
              /\ UNCHANGED state
           \/ /\ Counted(s, p, b).received = NumBlocks
              /\ ~checkHash(Counted(s, p, b).data, p)
           \/ /\ obj' = [obj EXCEPT ![s] = [Counted(s, p, b) EXCEPT !.finished = TRUE]]
              /\ Unfinished' = Unfinished \ {s}
              /\ UNCHANGED state
  BY StoreEffect
<1>3. Accounted(s)
  BY DEF Accounts
<1>4. /\ \A q, c : Copies(q, c)' = Copies(q, c) - (IF q = p /\ c = b THEN 1 ELSE 0)
      /\ Copies(p, b) > 0
  BY <1>1, CopiesDecoded
<1>5. PICK r : r = Counted(s, p, b)
  OBVIOUS
<1>6. r.piece = p
  BY <1>1, <1>2, <1>5, CountedFields
<1>7. /\ Copies(p, b) = 1 /\ b \in Out(p)
      /\ Cardinality(Out(p) \ {b}) = r.outstanding
      /\ \A c \in Out(p) \ {b} : Copies(p, c) = 1 /\ c < r.received + r.outstanding
      /\ \A c \in Blocks \ (Out(p) \ {b}) : c < r.received + r.outstanding => r.data[c] = p
  BY <1>1, <1>2, <1>3, <1>4, <1>5, AccountedCounted
<1>8. \/ /\ obj' = [obj EXCEPT ![s] = r]
         /\ Unfinished' = Unfinished
         /\ UNCHANGED state
      \/ /\ obj' = [obj EXCEPT ![s] = [r EXCEPT !.finished = TRUE]]
         /\ Unfinished' = Unfinished \ {s}
         /\ UNCHANGED state
  BY <1>1, <1>2, <1>3, <1>4, <1>5, LastBlockRight
<1>9. /\ state' = state
      /\ \A x \in Unfinished' : x \in Unfinished
      /\ \A x \in Unfinished' : x # s => obj'[x] = obj[x]
      /\ s \in Unfinished' => obj'[s] = r
  <2>1. \A x \in Unfinished : x \in Slots
    BY UnfinishedPiece
  <2> QED  BY <1>8, <2>1 DEF TypeInv, ObjOK
<1>10. NoChokes'
  <2>1. Block(p, b) # MsgChoke
    BY BlocksDiffer
  <2>2. CopiesOf(MsgChoke, arriving') = CopiesOf(MsgChoke, arriving)
    <3>1. CopiesOf(MsgChoke, arriving) \in Nat
      BY CopiesNumber DEF TypeInv, ArrivingOK
    <3> QED  BY <1>1, <2>1, <3>1, TakeCopies DEF TypeInv, ArrivingOK
  <2>3. IsABag(arriving) /\ IsABag(arriving')
    BY <1>1, TakeCopies DEF TypeInv, ArrivingOK
  <2>4. ~BagIn(MsgChoke, arriving')
    BY <2>2, <2>3, CopiesNumber DEF Accounts, NoChokes
  <2> QED  BY <1>1, <2>4 DEF Accounts, NoChokes
<1>11. ASSUME NEW q \in Pieces PROVE Fresh(q)'
  <2>1. Fresh(q)
    BY DEF Accounts
  <2>2. CASE q = p
    <3>1. q \in active \cup finishedPieces /\ CopiesOf(q, requests) # 1
      BY <1>2, <2>1, <2>2 DEF Fresh
    <3> QED  BY <1>1, <2>1, <3>1 DEF Fresh
  <2>3. CASE q # p
    <3>1. \A c \in Blocks : Copies(q, c)' = Copies(q, c)
      <4> TAKE c \in Blocks
      <4>1. Copies(q, c) \in Nat
        BY CopiesType DEF TypeInv
      <4> QED  BY <1>4, <2>3, <4>1
    <3>2. \A x \in Unfinished' : obj'[x].piece = q => x \in Unfinished /\ obj[x].piece = q
      BY <1>6, <1>9, <2>3
    <3> QED  BY <1>1, <2>1, <3>1, <3>2 DEF Fresh
  <2> QED  BY <2>2, <2>3
<1>12. OnePerPiece'
  <2>1. \A x \in Unfinished' : x \in Unfinished /\ obj'[x].piece = obj[x].piece
    BY <1>2, <1>6, <1>9
  <2> QED  BY <2>1 DEF Accounts, OnePerPiece
<1>13. ASSUME s \in Unfinished' PROVE Accounted(s)'
  <2>1. obj'[s] = r
    BY <1>9, <1>13
  <2>2. \A c \in Blocks : Copies(p, c) \in Nat
    BY CopiesType DEF TypeInv
  <2>3. \A c \in Blocks : Copies(p, c)' = IF c = b THEN 0 ELSE Copies(p, c)
    BY <1>4, <1>7, <2>2
  <2>4. Out(p)' = Out(p) \ {b}
    BY <2>3 DEF Out
  <2>5. \A c \in Out(p)' : Copies(p, c)' = 1 /\ c < r.received + r.outstanding
    <3> TAKE c \in Out(p)'
    <3>1. c \in Blocks /\ c # b /\ c \in Out(p) \ {b}
      BY <2>4 DEF Out
    <3> QED  BY <1>7, <2>3, <3>1
  <2> QED  BY <1>6, <1>7, <2>1, <2>4, <2>5 DEF Accounted
<1>14. ASSUME NEW x \in Unfinished', x # s PROVE Accounted(x)'
  <2>1. x \in Unfinished /\ obj'[x] = obj[x] /\ Accounted(x) /\ obj[x].piece # p
    BY <1>2, <1>9, <1>14 DEF Accounts, OnePerPiece
  <2>2. \A c \in Blocks : Copies(obj[x].piece, c)' = Copies(obj[x].piece, c)
    <3> TAKE c \in Blocks
    <3>1. Copies(obj[x].piece, c) \in Nat
      BY CopiesType DEF TypeInv
    <3> QED  BY <1>4, <2>1, <3>1
  <2> QED  BY <2>1, <2>2, SameAccount
<1> QED
  BY <1>9, <1>10, <1>11, <1>12, <1>13, <1>14 DEF Accounts

\* What is not in a bag does not get into it with another element.
LEMMA StillAbsent ==
  ASSUME NEW B, IsABag(B), NEW x, ~BagIn(x, B), NEW e
  PROVE  /\ x # e => ~BagIn(x, Add(B, e))
         /\ BagIn(e, B) => ~BagIn(x, Take(B, e))
BY AddCopies, TakeCopies DEF BagIn

\* A block that is dropped belongs to a cancelled piece: nobody waits for it.
LEMMA AccountsDrop ==
  ASSUME TypeInv, Accounts, NEW p \in Pieces, NEW b \in Blocks, DropBlock(p, b)
  PROVE  Accounts'
<1>1. /\ BagIn(Block(p, b), arriving) /\ arriving' = Take(arriving, Block(p, b))
      /\ UNCHANGED <<obj, downloads, state, asked, remoteChoking, active, finishedPieces,
                     chokeStatus, requests>>
  BY DEF DropBlock, remoteVars, controlVars
<1>2. \A s \in Unfinished : obj[s].piece # p
  BY FoundPiece DEF DropBlock, TypeInv, ListOK
<1>3. /\ \A q, c : Copies(q, c)' = Copies(q, c) - (IF q = p /\ c = b THEN 1 ELSE 0)
      /\ Copies(p, b) > 0
  BY <1>1, CopiesDecoded
<1>4. Unfinished' = Unfinished
  BY <1>1 DEF Unfinished
<1>5. NoChokes'
  <2>1. ~BagIn(MsgChoke, arriving')
    BY <1>1, StillAbsent DEF TypeInv, ArrivingOK, Accounts, NoChokes
  <2> QED  BY <1>1, <2>1 DEF Accounts, NoChokes
<1>6. ASSUME NEW q \in Pieces, NEW c \in Blocks, q # p PROVE Copies(q, c)' = Copies(q, c)
  <2>1. Copies(q, c) \in Nat
    BY CopiesType DEF TypeInv
  <2> QED  BY <1>3, <1>6, <2>1
<1>7. ASSUME NEW q \in Pieces PROVE Fresh(q)'
  <2>1. Fresh(q)
    BY DEF Accounts
  <2>2. CASE q = p
    <3>1. ~(Copies(p, b) = 0)
      BY <1>3
    <3>2. q \in active \cup finishedPieces /\ CopiesOf(q, requests) # 1
      BY <2>1, <2>2, <3>1 DEF Fresh
    <3> QED  BY <1>1, <2>1, <3>2 DEF Fresh
  <2>3. CASE q # p
    BY <1>1, <1>4, <1>6, <2>1, <2>3 DEF Fresh
  <2> QED  BY <2>2, <2>3
<1>8. OnePerPiece'
  BY <1>1, <1>4 DEF Accounts, OnePerPiece
<1>9. ASSUME NEW s \in Unfinished' PROVE Accounted(s)'
  <2>1. s \in Unfinished /\ obj'[s] = obj[s] /\ obj[s].piece \in Pieces /\ obj[s].piece # p
    BY <1>1, <1>2, <1>4, UnfinishedPiece
  <2>2. \A c \in Blocks : Copies(obj[s].piece, c)' = Copies(obj[s].piece, c)
    BY <1>6, <2>1
  <2> QED  BY <2>1, <2>2, SameAccount DEF Accounts
<1> QED  BY <1>1, <1>5, <1>7, <1>8, <1>9 DEF Accounts

\* The other messages, and what the remote end does: as it does not choke us,
\* it serves every request.
LEMMA AccountsRemote ==
  ASSUME TypeInv, Accounts
  PROVE  /\ ~Choke /\ ~RemoteUnchokes
         /\ \A r \in Pieces \X Blocks : ~IgnoreRequest(r)
         /\ Unchoke => Accounts'
         /\ \A r \in Pieces \X Blocks : ServeBlock(r) => Accounts'
<1>1. ~Choke /\ ~RemoteUnchokes /\ \A r \in Pieces \X Blocks : ~IgnoreRequest(r)
  BY DEF Accounts, NoChokes, Choke, RemoteUnchokes, IgnoreRequest
<1>2. ~BagIn(MsgChoke, arriving) /\ ~BagIn(TRUE, chokeStatus) /\ remoteChoking = FALSE
  BY DEF Accounts, NoChokes
<1>3. IsABag(arriving) /\ IsABag(chokeStatus)
  BY DEF TypeInv, ArrivingOK, ChokeStatusOK
<1>4. ASSUME Unchoke PROVE Accounts'
  <2>1. /\ BagIn(MsgUnchoke, arriving) /\ arriving' = Take(arriving, MsgUnchoke)
        /\ chokeStatus' = chokeStatus \/ chokeStatus' = Add(chokeStatus, FALSE)
        /\ UNCHANGED <<obj, downloads, state, asked, remoteChoking, active, finishedPieces,
                       requests>>
    BY <1>4 DEF Unchoke, remoteVars
  <2>2. \A p, b : Copies(p, b)' = Copies(p, b)
    BY <2>1, CopiesUnmoved
  <2>3. NoChokes'
    <3>1. ~BagIn(MsgChoke, arriving')
      BY <1>2, <1>3, <2>1, StillAbsent
    <3>2. ~BagIn(TRUE, chokeStatus')
      BY <1>2, <1>3, <2>1, StillAbsent
    <3> QED  BY <1>2, <2>1, <3>1, <3>2 DEF NoChokes
  <2>4. Unfinished' = Unfinished
    BY <2>1 DEF Unfinished
  <2>5. state' # "badChecksum"
    BY <2>1 DEF Accounts
  <2> QED  BY <2>1, <2>2, <2>3, <2>4, <2>5, AccountsKept
<1>5. ASSUME NEW r \in Pieces \X Blocks, ServeBlock(r) PROVE Accounts'
  <2>1. /\ BagIn(r, asked) /\ asked' = Take(asked, r)
        /\ arriving' = Add(arriving, Block(r[1], r[2]))
        /\ UNCHANGED <<obj, downloads, state, remoteChoking, active, finishedPieces,
                       chokeStatus, requests>>
    BY <1>5 DEF ServeBlock, controlVars
  <2>2. \A p, b : Copies(p, b)' = Copies(p, b)
    BY <2>1, CopiesServed
  <2>3. NoChokes'
    <3>1. MsgChoke # Block(r[1], r[2])
      BY BlocksDiffer
    <3>2. ~BagIn(MsgChoke, arriving')
      BY <1>2, <1>3, <2>1, <3>1, StillAbsent
    <3> QED  BY <1>2, <2>1, <3>2 DEF NoChokes
  <2>4. Unfinished' = Unfinished
    BY <2>1 DEF Unfinished
  <2>5. state' # "badChecksum"
    BY <2>1 DEF Accounts
  <2> QED  BY <2>1, <2>2, <2>3, <2>4, <2>5, AccountsKept
<1> QED  BY <1>1, <1>4, <1>5

\* The controller asks for a piece once; it is never told of a choke.
LEMMA AccountsController ==
  ASSUME TypeInv, Accounts
  PROVE  /\ \A w \in Slots \X Pieces : WritePiece(w) => Accounts'
         /\ \A c \in BOOLEAN : ReceiveChokeStatus(c) => Accounts'
         /\ \A p \in Pieces : RequestPiece(p) => Accounts'
<1>1. ~BagIn(MsgChoke, arriving) /\ ~BagIn(TRUE, chokeStatus) /\ remoteChoking = FALSE
  BY DEF Accounts, NoChokes
<1>2. ASSUME UNCHANGED <<obj, downloads, state, asked, arriving, remoteChoking>>
      PROVE  /\ Unfinished' = Unfinished
             /\ \A p, b : Copies(p, b)' = Copies(p, b)
             /\ state' # "badChecksum"
  BY <1>2 DEF Unfinished, Copies, Accounts
<1>3. ASSUME NEW w \in Slots \X Pieces, WritePiece(w) PROVE Accounts'
  <2>1. /\ active' = active \ {w[2]} /\ finishedPieces' = finishedPieces \cup {w[2]}
        /\ UNCHANGED <<obj, downloads, state, asked, arriving, remoteChoking, chokeStatus,
                       requests>>
    BY <1>3 DEF WritePiece, remoteVars
  <2>2. NoChokes'
    BY <1>1, <2>1 DEF NoChokes
  <2> QED  BY <1>2, <2>1, <2>2, AccountsKept
<1>4. ASSUME NEW c \in BOOLEAN, ReceiveChokeStatus(c) PROVE Accounts'
  <2>1. c = FALSE
    BY <1>1, <1>4 DEF ReceiveChokeStatus
  <2>2. /\ BagIn(FALSE, chokeStatus) /\ chokeStatus' = Take(chokeStatus, FALSE)
        /\ active' = active
        /\ UNCHANGED <<obj, downloads, state, asked, arriving, remoteChoking,
                       finishedPieces, requests>>
    BY <1>4, <2>1 DEF ReceiveChokeStatus, remoteVars
  <2>3. ~BagIn(TRUE, chokeStatus')
    BY <1>1, <2>2, StillAbsent DEF TypeInv, ChokeStatusOK
  <2>4. NoChokes'
    BY <1>1, <2>2, <2>3 DEF NoChokes
  <2> QED  BY <1>2, <2>2, <2>4, AccountsKept
<1>5. ASSUME NEW p \in Pieces, RequestPiece(p) PROVE Accounts'
  <2>1. /\ p \notin active \cup finishedPieces /\ active' = active \cup {p}
        /\ requests' = Add(requests, p)
        /\ UNCHANGED <<obj, downloads, state, asked, arriving, remoteChoking, chokeStatus,
                       finishedPieces>>
    BY <1>5 DEF RequestPiece, remoteVars
  <2>2. NoChokes'
    BY <1>1, <2>1 DEF NoChokes
  <2>3. /\ Unfinished' = Unfinished /\ state' # "badChecksum"
        /\ \A q, c : Copies(q, c)' = Copies(q, c)
    BY <1>2, <2>1
  <2>4. \A q : /\ CopiesOf(q, requests) \in Nat
               /\ CopiesOf(q, requests') = CopiesOf(q, requests) + (IF q = p THEN 1 ELSE 0)
    BY <2>1, CopiesNumber, AddCopies DEF TypeInv, RequestsOK
  <2>5. ASSUME NEW q \in Pieces PROVE Fresh(q)'
    <3>1. Fresh(q)
      BY DEF Accounts
    <3>2. CASE q = p
      <4>1. CopiesOf(q, requests) = 0
        BY <2>1, <3>1, <3>2 DEF Fresh
      <4>2. CopiesOf(q, requests') = 1
        BY <2>4, <3>2, <4>1
      <4>3. (\A s \in Unfinished : obj[s].piece # q) /\ (\A c \in Blocks : Copies(q, c) = 0)
        BY <2>1, <3>1, <3>2 DEF Fresh
      <4> QED  BY <2>1, <2>3, <3>2, <4>2, <4>3 DEF Fresh
    <3>3. CASE q # p
      <4>1. CopiesOf(q, requests') = CopiesOf(q, requests)
        BY <2>4, <3>3
      <4> QED  BY <2>1, <2>3, <3>1, <3>3, <4>1 DEF Fresh
    <3> QED  BY <3>2, <3>3
  <2>6. OnePerPiece'
    BY <2>1, <2>3 DEF Accounts, OnePerPiece
  <2>7. ASSUME NEW s \in Unfinished' PROVE Accounted(s)'
    BY <2>1, <2>3, SameAccount DEF Accounts
  <2> QED  BY <2>2, <2>3, <2>5, <2>6, <2>7 DEF Accounts
<1> QED  BY <1>3, <1>4, <1>5

\* The accounts are right at the start: nothing is under way.
LEMMA AccountInvInit == PInit => AccountInv
<1> SUFFICES ASSUME PInit PROVE AccountInv
  OBVIOUS
<1>1. TypeInv
  BY TypeInvInit
<1>2. \A x : ~BagIn(x, asked) /\ ~BagIn(x, arriving) /\ ~BagIn(x, requests)
             /\ ~BagIn(x, chokeStatus)
  BY DEF PInit, EmptyBag, SetToBag, BagIn, BagToSet
<1>3. \A p, b : Copies(p, b) = 0
  BY <1>2 DEF Copies, CopiesOf
<1>4. Unfinished = {}
  BY DEF Unfinished, PInit
<1>5. \A p \in Pieces : Fresh(p)
  BY <1>2, <1>3, <1>4 DEF Fresh, CopiesOf
<1>6. NoChokes /\ state # "badChecksum"
  BY <1>2 DEF NoChokes, PInit
<1> QED  BY <1>1, <1>4, <1>5, <1>6 DEF AccountInv, Accounts, OnePerPiece

\* Every step keeps them right, as long as nothing is choked.
LEMMA AccountInvStep == AccountInv /\ [WholeStep]_stepVars => AccountInv'
<1> SUFFICES ASSUME AccountInv, [WholeStep]_stepVars PROVE AccountInv'
  OBVIOUS
<1>1. TypeInv /\ TypeInv'
  BY TypeInvStep DEF AccountInv
<1> SUFFICES ASSUME Unchoked' PROVE Accounts'
  BY <1>1 DEF AccountInv
<1>2. Unchoked /\ Accounts
  BY <1>1, UnchokedBefore DEF AccountInv
<1>3. CASE RunRequests
  <2>1. PICK next : RequestLoop(run, next)
    BY <1>3 DEF RunRequests
  <2>2. Up /\ UNCHANGED <<downloads, arriving, remoteChoking, controlVars, requests>>
    BY <1>3 DEF RunRequests
  <2>3. PICK from : from = run
    OBVIOUS
  <2> QED  BY <1>1, <1>2, <2>1, <2>2, <2>3, AccountsLoop
<1>4. CASE DecoderRequests
  <2>1. PICK from, next : RequestLoop(from, next)
    BY <1>4 DEF DecoderRequests
  <2>2. Up /\ UNCHANGED <<downloads, arriving, remoteChoking, controlVars, requests>>
    BY <1>4 DEF DecoderRequests
  <2> QED  BY <1>1, <1>2, <2>1, <2>2, AccountsLoop
<1>5. ASSUME NEW p \in Pieces, TakeRequest(p) \/ CancelPiece(p) \/ RequestPiece(p)
      PROVE  Accounts'
  BY <1>1, <1>2, <1>5, AccountsTake, AccountsCancel, AccountsController
<1>6. CASE DecodeMessage
  BY <1>1, <1>2, <1>6, AccountsStore, AccountsDrop, AccountsRemote DEF DecodeMessage
<1>7. CASE Serve \/ RemoteUnchokes \/ \E r \in Pieces \X Blocks : IgnoreRequest(r)
  BY <1>1, <1>2, <1>7, AccountsRemote DEF Serve
<1>8. CASE RemoteChokes
  <2>1. budget \in [choke : 0 .. ChokeBudget, cancel : 0 .. CancelBudget]
    BY <1>1 DEF TypeInv, BooksOK
  <2>2. budget'.choke = budget.choke - 1
    BY <1>8, <2>1 DEF RemoteChokes
  <2>3. budget.choke = ChokeBudget /\ budget'.choke = ChokeBudget
    BY <1>2 DEF Unchoked
  <2> QED  BY <2>2, <2>3, Constants
<1>9. CASE Write \/ \E c \in BOOLEAN : ReceiveChokeStatus(c)
  BY <1>1, <1>2, <1>9, AccountsController DEF Write
<1>10. CASE UNCHANGED stepVars
  <2>1. UNCHANGED <<obj, downloads, state, asked, arriving, remoteChoking, active,
                    finishedPieces, chokeStatus, requests>>
    BY <1>10 DEF stepVars, remoteVars, controlVars
  <2>2. Unfinished' = Unfinished /\ \A p, b : Copies(p, b)' = Copies(p, b)
    BY <2>1 DEF Unfinished, Copies
  <2>3. NoChokes' /\ state' # "badChecksum"
    BY <1>2, <2>1 DEF Accounts, NoChokes
  <2> QED  BY <1>1, <1>2, <2>1, <2>2, <2>3, AccountsKept
<1> QED
  BY <1>3, <1>4, <1>5, <1>6, <1>7, <1>8, <1>9, <1>10 DEF WholeStep

\* The accounts are right until an update is torn, however the handlers overlap.
THEOREM AccountInvariance == PSpec => [](Unraced => AccountInv)
<1>1. PInit => AccountInv
  BY AccountInvInit
<1>2. UnracedInv /\ (Unraced => AccountInv) /\ [PNext]_pvars => (Unraced' => AccountInv')
  BY UnracedStep, AccountInvStep DEF UnracedInv
<1> QED  BY <1>1, <1>2, PieceTypeInvariance, PTL DEF PSpec

\* A remote end that sends right data and does not choke us is never disconnected
\* for a wrong checksum (decodeMessage's check of the hash) before an update is
\* torn.
THEOREM HonestPeerKeptAlways == PSpec => []HonestPeerKept
<1>1. (Unraced => AccountInv) => HonestPeerKept
  BY DEF AccountInv, Accounts, HonestPeerKept, HonestPeer
<1> QED  BY <1>1, AccountInvariance, PTL

\* numBlocksReceived and numOutstandingBlocks of a current download say exactly
\* which blocks are there, under way and not asked for.
THEOREM BlocksAlwaysAccounted == PSpec => []BlocksAccounted
<1>1. (Unraced => AccountInv) => BlocksAccounted
  <2> SUFFICES ASSUME AccountInv, Up, Unchoked, NEW s \in Unfinished
               PROVE  LET p   == obj[s].piece
                          out == {b \in Blocks : UnderWay(p, b)}
                      IN  /\ Cardinality(out) = obj[s].outstanding
                          /\ \A b \in out : /\ Copies(p, b) = 1
                                            /\ b < obj[s].received + obj[s].outstanding
                          /\ \A b \in Blocks \ out :
                               b < obj[s].received + obj[s].outstanding => obj[s].data[b] = p
    BY DEF BlocksAccounted
  <2>1. Accounted(s)
    BY DEF AccountInv, Accounts
  <2>2. {b \in Blocks : UnderWay(obj[s].piece, b)} = Out(obj[s].piece)
    BY CopiesType DEF AccountInv, TypeInv, Out
  <2> QED  BY <2>1, <2>2 DEF Accounted
<1> QED  BY <1>1, AccountInvariance, PTL

-----------------------------------------------------------------------------
(* The window of block requests.                                           *)

\* What each object adds to totalOutstandingBlocks.
Terms == [s \in Slots |-> IF s \in Unfinished THEN obj[s].outstanding ELSE 0]

\* The terms are numbers, and so is the total.
LEMMA TotalNumber ==
  ASSUME TypeInv
  PROVE  /\ Terms \in [Slots -> Int] /\ totalOutstandingBlocks = SumOverSlots(Terms)
         /\ totalOutstandingBlocks \in Int
<1>1. \A s \in Slots : obj[s].outstanding \in Int
  BY Fields, Constants DEF TypeInv
<1>2. Terms \in [Slots -> Int]
  BY <1>1 DEF Terms
<1>3. totalOutstandingBlocks = SumOverSlots(Terms)
  BY DEF totalOutstandingBlocks, Terms
<1> QED  BY <1>2, <1>3, SumBounds

\* The total is what it was if no download has changed.
LEMMA TotalUnchanged ==
  ASSUME UNCHANGED <<obj, downloads>>
  PROVE  /\ Unfinished' = Unfinished
         /\ totalOutstandingBlocks' = totalOutstandingBlocks
         /\ \A s : remainingRequestsToSend(s)' = remainingRequestsToSend(s)
<1>1. Unfinished' = Unfinished
  BY DEF Unfinished
<1>2. totalOutstandingBlocks' = totalOutstandingBlocks
  BY <1>1 DEF totalOutstandingBlocks, SumOverSlots
<1> QED  BY <1>1, <1>2 DEF remainingRequestsToSend

\* If one object changes, its term makes the difference.
LEMMA TotalChange ==
  ASSUME TypeInv, TypeInv', NEW s \in Slots,
         \A x \in Slots \ {s} : obj'[x] = obj[x] /\ (x \in Unfinished' <=> x \in Unfinished)
  PROVE  totalOutstandingBlocks' = totalOutstandingBlocks - Terms[s] + Terms'[s]
<1>1. Terms \in [Slots -> Int] /\ totalOutstandingBlocks = SumOverSlots(Terms)
  BY TotalNumber
<1>2. Terms' \in [Slots -> Int] /\ totalOutstandingBlocks' = SumOverSlots(Terms')
  <2>1. \A x \in Slots : obj'[x].outstanding \in Int
    BY Constants DEF TypeInv, ObjOK, Object
  <2>2. Terms' \in [Slots -> Int]
    BY <2>1 DEF Terms
  <2> QED  BY <2>2 DEF totalOutstandingBlocks, SumOverSlots, Terms
<1>3. \A x \in Slots \ {s} : Terms'[x] = Terms[x]
  BY DEF Terms
<1> QED  BY <1>1, <1>2, <1>3, SumChange

\* Nothing has been cancelled before, if nothing has been cancelled.
LEMMA UncancelledBefore ==
  ASSUME TypeInv, UNCHANGED budget \/ RemoteChokes, Uncancelled'
  PROVE  Uncancelled
BY DEF TypeInv, BooksOK, Uncancelled, RemoteChokes

\* A step that leaves the downloads and the handlers alone.
LEMMA FilledKept ==
  ASSUME TypeInv, WindowFilled, UNCHANGED <<obj, downloads, run, decoders, state>>,
         Unchoked' => Unchoked, Uncancelled' => Uncancelled, UNCHANGED races
  PROVE  WindowFilled'
<1>1. /\ Unfinished' = Unfinished
      /\ totalOutstandingBlocks' = totalOutstandingBlocks
      /\ \A s : remainingRequestsToSend(s)' = remainingRequestsToSend(s)
  BY TotalUnchanged
<1>2. Quiet' = Quiet /\ Up' = Up /\ Unraced' = Unraced
  BY DEF Quiet, Up, Unraced
<1> QED  BY <1>1, <1>2 DEF WindowFilled

\* The loop ends when the window is full or nothing is left to ask for.
LEMMA LoopFills ==
  ASSUME TypeInv, Up, NEW from, RequestLoop(from, "done"), UNCHANGED downloads, Up'
  PROVE  \/ totalOutstandingBlocks' = MaxBlocks
         \/ \A s \in Unfinished' : remainingRequestsToSend(s)' = 0
<1>1. CASE CheckTotal("done")
  <2>1. totalOutstandingBlocks \in Int
    BY TotalNumber
  <2>2. totalOutstandingBlocks >= MaxBlocks /\ ~(totalOutstandingBlocks > MaxBlocks)
    BY <1>1 DEF CheckTotal, AfterTotal, Up
  <2>3. totalOutstandingBlocks = MaxBlocks
    BY <2>1, <2>2, Constants
  <2>4. UNCHANGED <<obj, downloads>>
    BY <1>1 DEF CheckTotal
  <2> QED  BY <2>3, <2>4, TotalUnchanged
<1>2. CASE SendRequest("done")
  <2>1. firstWithBlocksLeft = 0 /\ UNCHANGED <<obj, downloads>>
    BY <1>2 DEF SendRequest
  <2>2. \A s \in Unfinished : ~(remainingRequestsToSend(s) > 0)
    BY <2>1, FoundOpen DEF TypeInv, ListOK
  <2>3. ASSUME NEW s \in Unfinished PROVE remainingRequestsToSend(s) = 0
    <3>1. s \in Slots
      BY UnfinishedPiece
    <3>2. obj[s].received + obj[s].outstanding \in 0 .. NumBlocks
      BY <3>1, Fields DEF TypeInv
    <3> QED  BY <2>2, <3>2, Constants DEF remainingRequestsToSend
  <2> QED  BY <2>1, <2>3, TotalUnchanged
<1> QED  BY <1>1, <1>2 DEF RequestLoop

\* One round of the loop by Run or by a decode goroutine.
LEMMA FilledLoop ==
  ASSUME TypeInv, TypeInv', RunRequests \/ DecoderRequests
  PROVE  WindowFilled'
<1>1. CASE RunRequests
  <2>1. PICK next \in {"check", "send", "done"} :
          RequestLoop(run, next) /\ run' = IF next = "done" THEN "select" ELSE next
    BY <1>1 DEF RunRequests
  <2>2. Up /\ UNCHANGED downloads
    BY <1>1 DEF RunRequests
  <2>3. CASE next = "done"
    <3>1. PICK from : from = run
      OBVIOUS
    <3>2. Up' => \/ totalOutstandingBlocks' = MaxBlocks
                 \/ \A s \in Unfinished' : remainingRequestsToSend(s)' = 0
      BY <2>1, <2>2, <2>3, <3>1, LoopFills
    <3> QED  BY <3>2 DEF WindowFilled
  <2>4. CASE next # "done"
    BY <2>1, <2>4 DEF WindowFilled, Quiet
  <2> QED  BY <2>3, <2>4
<1>2. CASE DecoderRequests
  <2>1. PICK from \in {"check", "send"}, next \in {"check", "send", "done"} :
          /\ RequestLoop(from, next)
          /\ decoders' = [pos \in {"check", "send"} |->
                            decoders[pos] - (IF pos = from THEN 1 ELSE 0)
                                          + (IF pos = next THEN 1 ELSE 0)]
    BY <1>2 DEF DecoderRequests
  <2>2. Up /\ UNCHANGED downloads
    BY <1>2 DEF DecoderRequests
  <2>3. CASE next = "done"
    <3>1. Up' => \/ totalOutstandingBlocks' = MaxBlocks
                 \/ \A s \in Unfinished' : remainingRequestsToSend(s)' = 0
      BY <2>1, <2>2, <2>3, LoopFills
    <3> QED  BY <3>1 DEF WindowFilled
  <2>4. CASE next # "done"
    <3>1. from # next
      BY <2>1, <2>4 DEF RequestLoop, CheckTotal, AfterTotal, SendRequest
    <3>2. decoders[next] \in Nat /\ decoders'[next] = decoders[next] + 1
      BY <2>1, <2>4, <3>1 DEF TypeInv, LoopOK
    <3>3. decoders'[next] # 0 /\ next \in {"check", "send"}
      BY <2>4, <3>2
    <3>4. decoders' # NoDecoder
      BY <3>3 DEF NoDecoder
    <3> QED  BY <3>4 DEF WindowFilled, Quiet, NoDecoder
  <2> QED  BY <2>3, <2>4
<1> QED  BY <1>1, <1>2

\* A block that is counted starts the loop, or it was the last one.
LEMMA FilledStore ==
  ASSUME TypeInv, NEW p \in Pieces, NEW b \in Blocks, StoreBlock(p, b)
  PROVE  WindowFilled'
<1>1. \/ decoders' = [decoders EXCEPT !["check"] = @ + 1]
      \/ state' = "badChecksum"
      \/ Unfinished' = {}
  BY StoreEffect
<1>2. CASE decoders' = [decoders EXCEPT !["check"] = @ + 1]
  <2>1. decoders["check"] \in Nat /\ decoders'["check"] = decoders["check"] + 1
    BY <1>2 DEF TypeInv, LoopOK
  <2>2. decoders'["check"] # 0
    BY <2>1
  <2>3. NoDecoder["check"] = 0
    BY DEF NoDecoder
  <2>4. ~(decoders' = NoDecoder)
    BY <2>2, <2>3
  <2> QED  BY <2>4 DEF WindowFilled, Quiet, NoDecoder
<1>3. CASE state' = "badChecksum"
  BY <1>3 DEF WindowFilled, Up
<1>4. CASE Unfinished' = {}
  BY <1>4 DEF WindowFilled
<1> QED  BY <1>1, <1>2, <1>3, <1>4

\* Every step keeps the window filled: a download starts together with the loop,
\* and the loop ends when it has filled the window.
LEMMA FilledStep ==
  ASSUME TypeInv, WindowFilled, [WholeStep]_stepVars, UNCHANGED races
  PROVE  WindowFilled'
<1>1. TypeInv' /\ (Unchoked' => Unchoked)
  BY TypeInvStep, UnchokedBefore
<1>2. ASSUME UNCHANGED <<obj, downloads, run, decoders, state>>, UNCHANGED budget \/ RemoteChokes
      PROVE  WindowFilled'
  BY <1>1, <1>2, UncancelledBefore, FilledKept
<1>3. CASE RunRequests \/ DecoderRequests
  BY <1>1, <1>3, FilledLoop
<1>4. ASSUME NEW p \in Pieces, TakeRequest(p) PROVE WindowFilled'
  BY <1>4 DEF TakeRequest, WindowFilled, Quiet
<1>5. ASSUME NEW p \in Pieces, CancelPiece(p) PROVE WindowFilled'
  <2>1. budget \in [choke : 0 .. ChokeBudget, cancel : 0 .. CancelBudget]
    BY DEF TypeInv, BooksOK
  <2>2. budget'.cancel = budget.cancel - 1
    BY <1>5, <2>1 DEF CancelPiece
  <2>3. budget.cancel \in Int /\ budget.cancel <= CancelBudget
    BY <2>1, Constants
  <2> QED  BY <2>2, <2>3, Constants DEF WindowFilled, Uncancelled
<1>6. ASSUME NEW p \in Pieces, RequestPiece(p) PROVE WindowFilled'
  BY <1>2, <1>6 DEF RequestPiece
<1>7. ASSUME NEW p \in Pieces, NEW b \in Blocks, StoreBlock(p, b) PROVE WindowFilled'
  BY <1>7, FilledStore
<1>8. ASSUME NEW p \in Pieces, NEW b \in Blocks, DropBlock(p, b) PROVE WindowFilled'
  BY <1>2, <1>8 DEF DropBlock
<1>9. CASE Choke
  <2>1. CASE UNCHANGED obj
    BY <1>2, <1>9, <2>1 DEF Choke
  <2>2. CASE obj' = [s \in Slots |-> [obj[s] EXCEPT !.finished = TRUE, !.received = 0,
                                                    !.outstanding = 0]]
    <3>1. \A s \in Slots : obj'[s].finished = TRUE
      BY <2>2 DEF TypeInv, ObjOK, Object
    <3>2. Unfinished' = {}
      BY <3>1 DEF Unfinished
    <3> QED  BY <3>2 DEF WindowFilled
  <2> QED  BY <1>9, <2>1, <2>2 DEF Choke
<1>10. CASE Unchoke
  BY <1>2, <1>10 DEF Unchoke
<1>11. ASSUME NEW r \in Pieces \X Blocks, ServeBlock(r) \/ IgnoreRequest(r) PROVE WindowFilled'
  BY <1>2, <1>11 DEF ServeBlock, IgnoreRequest
<1>12. CASE RemoteChokes
  BY <1>2, <1>12 DEF RemoteChokes
<1>13. CASE RemoteUnchokes
  BY <1>2, <1>13 DEF RemoteUnchokes
<1>14. ASSUME NEW w \in Slots \X Pieces, WritePiece(w) PROVE WindowFilled'
  BY <1>2, <1>14 DEF WritePiece
<1>15. ASSUME NEW c \in BOOLEAN, ReceiveChokeStatus(c) PROVE WindowFilled'
  BY <1>2, <1>15 DEF ReceiveChokeStatus
<1>16. CASE UNCHANGED stepVars
  BY <1>2, <1>16 DEF stepVars
<1> QED
  BY <1>3, <1>4, <1>5, <1>6, <1>7, <1>8, <1>9, <1>10, <1>11, <1>12, <1>13, <1>14, <1>15, <1>16
     DEF WholeStep, DecodeMessage, Serve, Write

\* The peer does not idle: with no handler at work, the window is full or there
\* is nothing left to ask for, however the handlers overlap.
THEOREM WindowAlwaysFilled == PSpec => []WindowFilled
<1>1. PInit => WindowFilled
  BY DEF PInit, WindowFilled, Unfinished
<1>2. UnracedInv /\ WindowFilled /\ [PNext]_pvars => WindowFilled'
  <2> SUFFICES ASSUME UnracedInv, WindowFilled, [PNext]_pvars, Unraced' PROVE WindowFilled'
    BY DEF WindowFilled
  <2> QED  BY UnracedStep, FilledStep DEF UnracedInv
<1> QED  BY <1>1, <1>2, PieceTypeInvariance, PTL DEF PSpec

-----------------------------------------------------------------------------
(* The window while handlers overlap.                                      *)

Window == totalOutstandingBlocks + Sending <= MaxBlocks + Handlers

\* Who is about to send is in the loop.
LEMMA HandlerCounts ==
  ASSUME TypeInv
  PROVE  Sending \in Nat /\ Handlers \in Nat /\ Sending <= Handlers
<1>1. /\ decoders["check"] \in Nat /\ decoders["send"] \in Nat
      /\ run \in {"select", "check", "send"}
  BY DEF TypeInv, LoopOK
<1> QED  BY <1>1 DEF Sending, Handlers

\* In a peer that is not choked, no download has a negative count.
LEMMA TermsNatural ==
  ASSUME TypeInv, Accounts, NEW s \in Unfinished
  PROVE  s \in Slots /\ Terms[s] = obj[s].outstanding /\ obj[s].outstanding \in Nat
<1>1. s \in Slots
  BY UnfinishedPiece
<1>2. Cardinality(Out(obj[s].piece)) = obj[s].outstanding
  BY DEF Accounts, Accounted
<1>3. Cardinality(Out(obj[s].piece)) \in Nat
  BY OutFinite, FS_CardinalityType
<1> QED  BY <1>1, <1>2, <1>3 DEF Terms

\* One round of the loop: who has seen room may send, who has seen none leaves.
LEMMA BoundLoop ==
  ASSUME TypeInv, TypeInv', Up, Up', Window, UNCHANGED downloads,
         NEW from, NEW next \in {"check", "send", "done"}, RequestLoop(from, next),
         Sending' = Sending - (IF from = "send" THEN 1 ELSE 0)
                            + (IF next = "send" THEN 1 ELSE 0),
         Handlers' = Handlers - (IF next = "done" THEN 1 ELSE 0)
  PROVE  Window'
<1>1. /\ totalOutstandingBlocks \in Int /\ Sending \in Nat /\ Handlers \in Nat
      /\ totalOutstandingBlocks + Sending <= MaxBlocks + Handlers
  BY TotalNumber, HandlerCounts DEF Window
<1>2. Sending' \in Nat /\ Handlers' \in Nat /\ Sending' <= Handlers'
  <2>1. /\ decoders'["check"] \in Nat /\ decoders'["send"] \in Nat
        /\ run' \in {"select", "check", "send"}
    BY DEF TypeInv, LoopOK
  <2> QED  BY <2>1 DEF Sending, Handlers
<1>3. CASE from = "check" /\ CheckTotal(next)
  <2>1. UNCHANGED <<obj, downloads>> /\ ~(totalOutstandingBlocks > MaxBlocks)
    BY <1>3 DEF CheckTotal, Up
  <2>2. totalOutstandingBlocks' = totalOutstandingBlocks
    BY <2>1, TotalUnchanged
  <2>3. totalOutstandingBlocks <= MaxBlocks
    BY <1>1, <2>1, Constants
  <2> QED  BY <1>1, <1>2, <2>2, <2>3, Constants DEF Window
<1>4. CASE from = "send" /\ SendRequest(next) /\ firstWithBlocksLeft = 0
  <2>1. UNCHANGED <<obj, downloads>> /\ next = "done"
    BY <1>4 DEF SendRequest
  <2>2. totalOutstandingBlocks' = totalOutstandingBlocks
    BY <2>1, TotalUnchanged
  <2> QED  BY <1>1, <1>2, <1>4, <2>1, <2>2, Constants DEF Window
<1>5. CASE from = "send" /\ SendRequest(next) /\ firstWithBlocksLeft # 0
  <2>0. PICK s : s = firstWithBlocksLeft
    OBVIOUS
  <2>1. /\ s \in Unfinished /\ s \in Slots /\ next = "check"
        /\ obj' = [obj EXCEPT ![s] = [obj[s] EXCEPT !.outstanding = @ + 1]]
    BY <1>5, <2>0, SendEffect
  <2>2. /\ \A x \in Slots \ {s} : obj'[x] = obj[x]
        /\ obj'[s].outstanding = obj[s].outstanding + 1
        /\ obj'[s].finished = obj[s].finished
    BY <2>1 DEF TypeInv, ObjOK, Object
  <2>3. Unfinished' = Unfinished
    BY <2>2 DEF Unfinished
  <2>4. totalOutstandingBlocks' = totalOutstandingBlocks - Terms[s] + Terms'[s]
    BY <2>1, <2>2, <2>3, TotalChange
  <2>5. Terms[s] = obj[s].outstanding /\ Terms'[s] = obj'[s].outstanding
    BY <2>1, <2>3 DEF Terms
  <2>6. obj[s].outstanding \in Int
    BY <2>1, Fields, Constants DEF TypeInv
  <2>7. totalOutstandingBlocks' = totalOutstandingBlocks + 1
    BY <1>1, <2>2, <2>4, <2>5, <2>6
  <2> QED  BY <1>1, <1>2, <1>5, <2>1, <2>7, Constants DEF Window
<1> QED  BY <1>3, <1>4, <1>5 DEF RequestLoop

\* A step that ends, starts or counts at most one download: the total does not
\* grow, and nobody leaves the loop.
LEMMA BoundShrinks ==
  ASSUME TypeInv, TypeInv', Accounts, Window, Sending' = Sending,
         Handlers' = Handlers \/ Handlers' = Handlers + 1,
         NEW s \in Slots,
         \A x \in Slots \ {s} : obj'[x] = obj[x] /\ (x \in Unfinished' <=> x \in Unfinished),
         s \in Unfinished' =>
           \/ obj'[s].outstanding = 0
           \/ s \in Unfinished /\ obj'[s].outstanding = obj[s].outstanding - 1
  PROVE  Window'
<1>1. totalOutstandingBlocks' = totalOutstandingBlocks - Terms[s] + Terms'[s]
  BY TotalChange
<1>2. Terms[s] \in Nat /\ (s \in Unfinished => Terms[s] = obj[s].outstanding)
  BY TermsNatural DEF Terms
<1>3. Terms'[s] = IF s \in Unfinished' THEN obj'[s].outstanding ELSE 0
  BY DEF Terms
<1>4. Terms'[s] = 0 \/ Terms'[s] = Terms[s] - 1
  BY <1>2, <1>3
<1>5. /\ totalOutstandingBlocks \in Int /\ Sending \in Nat /\ Handlers \in Nat
      /\ totalOutstandingBlocks + Sending <= MaxBlocks + Handlers
  BY TotalNumber, HandlerCounts DEF Window
<1> QED  BY <1>1, <1>2, <1>4, <1>5, Constants DEF Window

\* The handlers of Run.
LEMMA BoundRun ==
  ASSUME TypeInv, TypeInv', Accounts, Window, NEW p \in Pieces,
         TakeRequest(p) \/ CancelPiece(p)
  PROVE  Window'
<1>0. decoders["check"] \in Nat /\ decoders["send"] \in Nat
  BY DEF TypeInv, LoopOK
<1>1. /\ run = "select" /\ run' \in {"select", "check"} /\ decoders' = decoders
  BY DEF TakeRequest, CancelPiece
<1>2. Sending' = Sending /\ (Handlers' = Handlers \/ Handlers' = Handlers + 1)
  BY <1>0, <1>1 DEF Sending, Handlers
<1>3. CASE TakeRequest(p)
  <2>1. PICK s \in Slots \ Unfinished, r \in Object :
          /\ obj' = [obj EXCEPT ![s] = r]
          /\ r.outstanding = 0
          /\ Unfinished' = Unfinished \cup {s}
    BY <1>3, TakeEffect
  <2>2. /\ \A x \in Slots \ {s} : obj'[x] = obj[x] /\ (x \in Unfinished' <=> x \in Unfinished)
        /\ obj'[s].outstanding = 0
    BY <2>1 DEF TypeInv, ObjOK
  <2> QED  BY <1>2, <2>1, <2>2, BoundShrinks
<1>4. CASE CancelPiece(p)
  <2>1. CASE UNCHANGED <<obj, downloads>>
    <3>1. UNCHANGED run
      BY <1>4 DEF CancelPiece
    <3> QED  BY <1>1, <2>1, <3>1, TotalUnchanged DEF Window, Sending, Handlers
  <2>2. ASSUME NEW s \in Unfinished,
               obj' = [obj EXCEPT ![s] = [obj[s] EXCEPT !.finished = TRUE]],
               Unfinished' = Unfinished \ {s}
        PROVE  Window'
    <3>1. s \in Slots
      BY UnfinishedPiece
    <3>2. \A x \in Slots \ {s} : obj'[x] = obj[x] /\ (x \in Unfinished' <=> x \in Unfinished)
      BY <2>2, <3>1 DEF TypeInv, ObjOK
    <3> QED  BY <1>2, <2>2, <3>1, <3>2, BoundShrinks
  <2> QED  BY <1>4, <2>1, <2>2, CancelEffect
<1> QED  BY <1>3, <1>4

\* A block that is counted.
LEMMA BoundStore ==
  ASSUME TypeInv, TypeInv', Accounts, Accounts', Window, NEW p \in Pieces,
         NEW b \in Blocks, StoreBlock(p, b)
  PROVE  Window'
<1>0. decoders \in [{"check", "send"} -> Nat]
  BY DEF TypeInv, LoopOK
<1>1. Up /\ run' = run
  BY DEF StoreBlock
<1>2. state' # "badChecksum"
  BY DEF Accounts
<1>3. PICK s \in Unfinished :
        /\ obj[s].piece = p
        /\ \/ /\ obj' = [obj EXCEPT ![s] = Counted(s, p, b)]
              /\ Unfinished' = Unfinished
           \/ /\ obj' = [obj EXCEPT ![s] = [Counted(s, p, b) EXCEPT !.finished = TRUE]]
              /\ Unfinished' = Unfinished \ {s}
        /\ \/ decoders' = [decoders EXCEPT !["check"] = @ + 1]
           \/ decoders' = decoders
  BY <1>2, StoreEffect
<1>4. Sending' = Sending /\ (Handlers' = Handlers \/ Handlers' = Handlers + 1)
  BY <1>0, <1>1, <1>3 DEF Sending, Handlers
<1>6. s \in Slots
  BY UnfinishedPiece
<1>7. Counted(s, p, b).outstanding = obj[s].outstanding - 1
  BY <1>1, CountedFields
<1>8. /\ \A x \in Slots \ {s} : obj'[x] = obj[x] /\ (x \in Unfinished' <=> x \in Unfinished)
      /\ s \in Unfinished' => obj'[s].outstanding = obj[s].outstanding - 1
  BY <1>3, <1>6, <1>7 DEF TypeInv, ObjOK
<1> QED  BY <1>3, <1>4, <1>6, <1>8, BoundShrinks

\* The steps of the loop, the handlers that start, and the steps that leave the
\* handlers and the downloads alone.
LEMMA OtherSteps ==
  ASSUME [WholeStep]_stepVars
  PROVE  \/ RunRequests \/ DecoderRequests
         \/ \E p \in Pieces : TakeRequest(p) \/ CancelPiece(p)
         \/ \E p \in Pieces, b \in Blocks : StoreBlock(p, b)
         \/ Choke
         \/ UNCHANGED <<obj, downloads, run, decoders, state>>
<1>1. ASSUME NEW p \in Pieces, RequestPiece(p)
      PROVE  UNCHANGED <<obj, downloads, run, decoders, state>>
  BY <1>1 DEF RequestPiece
<1>2. ASSUME NEW p \in Pieces, NEW b \in Blocks, DropBlock(p, b)
      PROVE  UNCHANGED <<obj, downloads, run, decoders, state>>
  BY <1>2 DEF DropBlock
<1>3. ASSUME NEW r \in Pieces \X Blocks, ServeBlock(r) \/ IgnoreRequest(r)
      PROVE  UNCHANGED <<obj, downloads, run, decoders, state>>
  BY <1>3 DEF ServeBlock, IgnoreRequest
<1>4. ASSUME NEW w \in Slots \X Pieces, WritePiece(w)
      PROVE  UNCHANGED <<obj, downloads, run, decoders, state>>
  BY <1>4 DEF WritePiece
<1>5. ASSUME NEW c \in BOOLEAN, ReceiveChokeStatus(c)
      PROVE  UNCHANGED <<obj, downloads, run, decoders, state>>
  BY <1>5 DEF ReceiveChokeStatus
<1>6. Unchoke \/ RemoteChokes \/ RemoteUnchokes \/ UNCHANGED stepVars
        => UNCHANGED <<obj, downloads, run, decoders, state>>
  BY DEF Unchoke, RemoteChokes, RemoteUnchokes, stepVars
<1> QED
  BY <1>1, <1>2, <1>3, <1>4, <1>5, <1>6 DEF WholeStep, DecodeMessage, Serve, Write

\* Every whole step keeps the bound.
LEMMA BoundStep ==
  ASSUME AccountInv, Unchoked /\ Up => Window, [WholeStep]_stepVars, Unchoked', Up'
  PROVE  Window'
<1>1. TypeInv /\ TypeInv' /\ AccountInv'
  BY AccountInvStep DEF AccountInv
<1>2. Accounts /\ Accounts' /\ Unchoked
  BY <1>1, UnchokedBefore DEF AccountInv
<1>3. /\ decoders \in [{"check", "send"} -> Nat] /\ run \in {"select", "check", "send"}
      /\ decoders["check"] \in Nat /\ decoders["send"] \in Nat
  BY <1>1 DEF TypeInv, LoopOK
<1>4. CASE RunRequests
  <2>1. PICK next \in {"check", "send", "done"} :
          RequestLoop(run, next) /\ run' = IF next = "done" THEN "select" ELSE next
    BY <1>4 DEF RunRequests
  <2>2. Up /\ UNCHANGED downloads /\ run # "select" /\ decoders' = decoders
    BY <1>4 DEF RunRequests
  <2>3. PICK from : from = run
    OBVIOUS
  <2>4. RequestLoop(from, next)
    BY <2>1, <2>3
  <2>5. /\ Sending' = Sending - (IF from = "send" THEN 1 ELSE 0)
                              + (IF next = "send" THEN 1 ELSE 0)
        /\ Handlers' = Handlers - (IF next = "done" THEN 1 ELSE 0)
    BY <1>3, <2>1, <2>2, <2>3 DEF Sending, Handlers
  <2> QED  BY <1>1, <1>2, <2>2, <2>4, <2>5, BoundLoop
<1>5. CASE DecoderRequests
  <2>1. PICK from \in {"check", "send"}, next \in {"check", "send", "done"} :
          /\ RequestLoop(from, next)
          /\ decoders' = [pos \in {"check", "send"} |->
                            decoders[pos] - (IF pos = from THEN 1 ELSE 0)
                                          + (IF pos = next THEN 1 ELSE 0)]
    BY <1>5 DEF DecoderRequests
  <2>2. Up /\ UNCHANGED downloads /\ run' = run
    BY <1>5 DEF DecoderRequests
  <2>3. /\ decoders'["check"] = decoders["check"] - (IF "check" = from THEN 1 ELSE 0)
                                                  + (IF "check" = next THEN 1 ELSE 0)
        /\ decoders'["send"] = decoders["send"] - (IF "send" = from THEN 1 ELSE 0)
                                                + (IF "send" = next THEN 1 ELSE 0)
    BY <2>1
  <2>4. /\ Sending' = Sending - (IF from = "send" THEN 1 ELSE 0)
                              + (IF next = "send" THEN 1 ELSE 0)
        /\ Handlers' = Handlers - (IF next = "done" THEN 1 ELSE 0)
    BY <1>3, <2>2, <2>3 DEF Sending, Handlers
  <2> QED  BY <1>1, <1>2, <2>1, <2>2, <2>4, BoundLoop
<1>6. ASSUME NEW p \in Pieces, TakeRequest(p) \/ CancelPiece(p) PROVE Window'
  <2>1. Up
    BY <1>6 DEF TakeRequest, CancelPiece
  <2> QED  BY <1>1, <1>2, <1>6, <2>1, BoundRun
<1>7. ASSUME NEW p \in Pieces, NEW b \in Blocks, StoreBlock(p, b) PROVE Window'
  <2>1. Up
    BY <1>7 DEF StoreBlock
  <2> QED  BY <1>1, <1>2, <1>7, <2>1, BoundStore
<1>8. ~Choke
  BY <1>1, <1>2, AccountsRemote
<1>9. CASE UNCHANGED <<obj, downloads, run, decoders, state>>
  BY <1>2, <1>9, TotalUnchanged DEF Up, Window, Sending, Handlers
<1> QED  BY <1>4, <1>5, <1>6, <1>7, <1>8, <1>9, OtherSteps

\* However the handlers overlap, the window of sendOneOrMoreRequests is exceeded
\* by at most one block for each handler in its loop, and when none is there it is
\* kept or the log.Fatalf has ended the process.
THEOREM WindowAlwaysBounded == PSpec => []WindowBounded
<1>1. PInit => WindowBounded
  <2> SUFFICES ASSUME PInit PROVE totalOutstandingBlocks + Sending <= MaxBlocks + Handlers
    BY DEF WindowBounded
  <2>1. TypeInv
    BY TypeInvInit
  <2>2. \A s \in Slots : Terms[s] = 0
    BY DEF Terms, Unfinished, PInit
  <2>3. totalOutstandingBlocks = 0
    BY <2>1, <2>2, TotalNumber, SumBounds
  <2> QED  BY <2>1, <2>3, HandlerCounts, Constants
<1>2. UnracedInv /\ (Unraced => AccountInv) /\ WindowBounded /\ [PNext]_pvars => WindowBounded'
  <2> SUFFICES ASSUME UnracedInv, Unraced => AccountInv, WindowBounded, [PNext]_pvars,
                      Unraced', Unchoked', Up'
               PROVE  Window'
    BY DEF WindowBounded, Window
  <2>1. Unraced /\ [WholeStep]_stepVars
    BY UnracedStep DEF UnracedInv
  <2>2. AccountInv /\ (Unchoked /\ Up => Window)
    BY <2>1 DEF WindowBounded, Window
  <2> QED  BY <2>1, <2>2, BoundStep
<1> QED  BY <1>1, <1>2, PieceTypeInvariance, AccountInvariance, PTL DEF PSpec

===============================================================================
