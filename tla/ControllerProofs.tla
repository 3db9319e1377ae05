--------------------------- MODULE ControllerProofs ---------------------------
(***************************************************************************)
(* Proofs about Controller, for any finite sets of peers and pieces and    *)
(* any limit.  The inductive invariant is IInv.                            *)
(***************************************************************************)
EXTENDS Controller, FiniteSetTheorems, TLAPS

\* Sets of pieces and of peers are finite; disjoint unions add up; a subset
\* of the same size is the whole set.
LEMMA PieceSets ==
  ASSUME NEW A \in SUBSET Pieces, NEW S \in SUBSET Pieces
  PROVE  /\ IsFiniteSet(A) /\ Cardinality(A) \in Nat
         /\ A \cap S = {} => Cardinality(A \cup S) = Cardinality(A) + Cardinality(S)
         /\ S \subseteq A => Cardinality(S) <= Cardinality(A)
         /\ S \subseteq A /\ Cardinality(S) = Cardinality(A) => S = A
<1>1. /\ IsFiniteSet(A) /\ IsFiniteSet(S)
  BY FS_Subset, ControllerAssumption DEF ControllerAssumption
<1>2. /\ Cardinality(A) \in Nat /\ Cardinality(S) \in Nat
  BY <1>1, FS_CardinalityType
<1>3. ASSUME A \cap S = {}
      PROVE  Cardinality(A \cup S) = Cardinality(A) + Cardinality(S)
  <2>1. Cardinality(A \cup S)
          = Cardinality(A) + Cardinality(S) - Cardinality(A \cap S)
    BY <1>1, FS_Union
  <2>2. Cardinality(A \cap S) = 0
    BY <1>3, FS_EmptySet
  <2> QED  BY <2>1, <2>2, <1>2
<1>4. ASSUME S \subseteq A
      PROVE  /\ Cardinality(S) <= Cardinality(A)
             /\ Cardinality(S) = Cardinality(A) => S = A
  BY <1>1, <1>4, FS_Subset
<1> QED  BY <1>1, <1>2, <1>3, <1>4

\* Requesters(p) is finite.
LEMMA RequestersFinite ==
  ASSUME TypeOK, NEW p \in Pieces
  PROVE  IsFiniteSet(Requesters(p)) /\ Cardinality(Requesters(p)) \in Nat
<1>1. Requesters(p) \in SUBSET Peers
  BY DEF TypeOK, Requesters
<1>2. IsFiniteSet(Requesters(p))
  BY <1>1, FS_Subset, ControllerAssumption DEF ControllerAssumption
<1> QED  BY <1>2, FS_CardinalityType

\* An order of a finite set lines up all of it, once each.
LEMMA OrderIsOnto ==
  ASSUME NEW T, IsFiniteSet(T), NEW s \in Orders(T)
  PROVE  /\ Cardinality(T) \in Nat
         /\ s \in [1 .. Cardinality(T) -> T]
         /\ \A i, j \in 1 .. Cardinality(T) : s[i] = s[j] => i = j
         /\ \A x \in T : \E i \in 1 .. Cardinality(T) : s[i] = x
<1>1. Cardinality(T) \in Nat
  BY FS_CardinalityType
<1>2. s \in Injection(1 .. Cardinality(T), T)
  BY DEF Orders
<1>3. Cardinality(1 .. Cardinality(T)) = Cardinality(T)
  <2>1. Cardinality(1 .. Cardinality(T))
          = IF 1 > Cardinality(T) THEN 0 ELSE Cardinality(T) - 1 + 1
    BY <1>1, FS_Interval
  <2> QED  BY <2>1, <1>1
<1>4. s \in Surjection(1 .. Cardinality(T), T)
  BY <1>2, <1>3, FS_Injection
<1> QED  BY <1>1, <1>2, <1>4 DEF Injection, IsInjective, Surjection

\* A prefix of an order is all of the set or as long as asked.
Prefix(s, room) == {s[k] : k \in {i \in DOMAIN s : i <= room}}

LEMMA PrefixOfOrder ==
  ASSUME NEW N \in Nat, NEW T, NEW s \in Bijection(1 .. N, T), NEW room \in Nat
  PROVE  /\ Prefix(s, room) = T \/ Cardinality(Prefix(s, room)) = room
         /\ Cardinality(Prefix(s, room)) <= room
<1> DEFINE S == {s[k] : k \in {i \in 1 .. N : i <= room}}
<1>0. /\ s \in [1 .. N -> T]
      /\ \A i, j \in 1 .. N : s[i] = s[j] => i = j
      /\ \A x \in T : \E i \in 1 .. N : s[i] = x
  BY DEF Bijection, Injection, Surjection, IsInjective
<1> DEFINE M == IF room <= N THEN room ELSE N
           f == [k \in 1 .. M |-> s[k]]
<1>1. M \in Nat
  OBVIOUS
<1>2. f \in [1 .. M -> S]
  BY <1>0
<1>3. \A i, j \in 1 .. M : f[i] = f[j] => i = j
  BY <1>0
<1>4. \A x \in S : \E k \in 1 .. M : f[k] = x
  BY <1>0
<1>5. ~(room <= N) => S = T
  BY <1>0
<1> HIDE DEF f, S
<1>6. f \in Bijection(1 .. M, S)
  BY <1>2, <1>3, <1>4 DEF Bijection, Injection, Surjection, IsInjective
<1>7. ExistsBijection(1 .. M, S)
  BY <1>6 DEF ExistsBijection
<1> HIDE DEF M
<1>8. Cardinality(S) = M
  BY <1>1, <1>7, FS_CountingElements
<1>9. Prefix(s, room) = S
  BY <1>0 DEF Prefix, S
<1> QED  BY <1>5, <1>8, <1>9 DEF M

\* The download priority of a peer holds its candidates once each, and none of
\* them is behind one with more active requests.
LEMMA PriorityIsSorted ==
  ASSUME TypeOK, NEW n \in Peers, NEW choked, NEW available \in [Peers -> SUBSET Pieces],
         NEW raritySlice \in createRaritySlice(choked, available),
         NEW s \in createDownloadPriorityForPeer(n, available, raritySlice)
  PROVE  \E N \in Nat :
           /\ s \in [1 .. N -> CandidatesOf(n, available)]
           /\ \A i, j \in 1 .. N : s[i] = s[j] => i = j
           /\ \A p \in CandidatesOf(n, available) : \E i \in 1 .. N : s[i] = p
           /\ \A i, j \in 1 .. N :
                i < j => activeRequestsTotals[s[i]] <= activeRequestsTotals[s[j]]
<1> DEFINE Needed == Pieces \ finishedPieces
           K == Cardinality(Needed)
           W == {i \in DOMAIN raritySlice : raritySlice[i] \in available[n] \ activeRequests[n]}
           N == Cardinality(W)
<1>1. IsFiniteSet(Needed)
  BY FS_Subset, ControllerAssumption DEF ControllerAssumption
<1>2. raritySlice \in Orders(Needed)
  BY DEF createRaritySlice
<1>3. /\ K \in Nat /\ raritySlice \in [1 .. K -> Needed]
      /\ \A i, j \in 1 .. K : raritySlice[i] = raritySlice[j] => i = j
      /\ \A x \in Needed : \E i \in 1 .. K : raritySlice[i] = x
  BY <1>1, <1>2, OrderIsOnto
<1>4. PICK t \in Orders(W) :
        /\ s = [k \in DOMAIN t |-> raritySlice[t[k]]]
        /\ \A i, j \in DOMAIN t : i < j => Less(t[i], t[j], raritySlice)
  BY DEF createDownloadPriorityForPeer, toSortedPieceSlice
<1>5. IsFiniteSet(1 .. K) /\ W \in SUBSET (1 .. K)
  BY <1>3, FS_Interval
<1>6. IsFiniteSet(W)
  BY <1>5, FS_Subset
<1> HIDE DEF K, W, N
<1>7. /\ N \in Nat /\ t \in [1 .. N -> W]
      /\ \A i, j \in 1 .. N : t[i] = t[j] => i = j
      /\ \A x \in W : \E i \in 1 .. N : t[i] = x
  BY <1>4, <1>6, OrderIsOnto DEF N
<1>8. \A i \in W : raritySlice[i] \in CandidatesOf(n, available)
  BY <1>3, <1>5 DEF W, CandidatesOf
<1>9. s \in [1 .. N -> CandidatesOf(n, available)]
  BY <1>4, <1>7, <1>8
<1>10. ASSUME NEW i \in 1 .. N, NEW j \in 1 .. N, s[i] = s[j] PROVE i = j
  <2>1. t[i] \in 1 .. K /\ t[j] \in 1 .. K
    BY <1>5, <1>7
  <2>2. raritySlice[t[i]] = raritySlice[t[j]]
    BY <1>4, <1>7, <1>10
  <2>3. t[i] = t[j]
    BY <1>3, <2>1, <2>2
  <2> QED  BY <1>7, <2>3
<1>11. ASSUME NEW p \in CandidatesOf(n, available) PROVE \E i \in 1 .. N : s[i] = p
  <2>1. PICK k \in 1 .. K : raritySlice[k] = p
    BY <1>3 DEF CandidatesOf, TypeOK
  <2>2. k \in W
    BY <1>3, <2>1 DEF W, CandidatesOf
  <2> QED  BY <1>4, <1>7, <2>1, <2>2
<1>12. ASSUME NEW i \in 1 .. N, NEW j \in 1 .. N, i < j
       PROVE  activeRequestsTotals[s[i]] <= activeRequestsTotals[s[j]]
  <2>1. Less(t[i], t[j], raritySlice)
    BY <1>4, <1>7, <1>12
  <2>2. s[i] = raritySlice[t[i]] /\ s[j] = raritySlice[t[j]]
    BY <1>4, <1>7
  <2>3. activeRequestsTotals[s[i]] \in Nat /\ activeRequestsTotals[s[j]] \in Nat
    BY <1>9 DEF CandidatesOf, TypeOK
  <2> QED  BY <2>1, <2>2, <2>3 DEF Less
<1> QED  BY <1>7, <1>9, <1>10, <1>11, <1>12

\* sendRequestsToPeer keeps the totals exact, stays within the limit, takes
\* only pieces that are needed, and leaves the peer saturated.
LEMMA SendsRequests ==
  ASSUME TypeOK, TotalsMatch, WithinLimit,
         downloadComplete <=> finishedPieces = Pieces,
         NEW n \in peers, NEW choked, NEW available \in [Peers -> SUBSET Pieces],
         sendRequestsToPeer(n, choked, available), peers' = peers
  PROVE  /\ activeRequests' \in [Peers -> SUBSET Pieces]
         /\ activeRequestsTotals' \in [Pieces -> Nat]
         /\ TotalsMatch'
         /\ WithinLimit'
         /\ \A m \in Peers \ {n} : activeRequests'[m] = activeRequests[m]
         /\ activeRequests'[n] \subseteq activeRequests[n] \cup available[n]
         /\ \/ Cardinality(activeRequests'[n]) >= MaxDownloads
            \/ (available[n] \ finishedPieces) \ activeRequests'[n] = {}
         /\ out' \in SUBSET Messages
         /\ \A m \in Peers, p \in Pieces : RequestPiece(m, p) \in out' =>
              /\ m = n
              /\ p \in (available[n] \ finishedPieces) \ activeRequests[n]
              /\ \A q \in (available[n] \ finishedPieces) \ activeRequests'[n] :
                   activeRequestsTotals[p] <= activeRequestsTotals[q]
<1> DEFINE A == activeRequests[n]
           C == (available[n] \ finishedPieces) \ A
<1>1. n \in Peers /\ A \in SUBSET Pieces /\ C \in SUBSET Pieces
  BY DEF TypeOK
<1>2. PICK S \in SUBSET C :
        /\ activeRequests' = [activeRequests EXCEPT ![n] = @ \cup S]
        /\ activeRequestsTotals' =
             [p \in Pieces |-> IF p \in S THEN activeRequestsTotals[p] + 1
                               ELSE activeRequestsTotals[p]]
        /\ out' = {RequestPiece(n, p) : p \in S}
        /\ \/ S = C
           \/ Cardinality(S) = MaxDownloads - Cardinality(A)
        /\ Cardinality(S) <= MaxDownloads - Cardinality(A)
        /\ \A p \in S, q \in C \ S : activeRequestsTotals[p] <= activeRequestsTotals[q]
  <2>1. /\ Cardinality(A) \in Nat /\ Cardinality(C) \in Nat
        /\ Cardinality(A) <= MaxDownloads
        /\ MaxDownloads \in Nat
    BY <1>1, PieceSets, ControllerAssumption DEF WithinLimit, ControllerAssumption
  <2>2. CASE downloadComplete
    <3>1. C = {}
      BY <2>2 DEF TypeOK
    <3>2. Cardinality({}) = 0
      BY FS_EmptySet
    <3>3. /\ activeRequests' = [activeRequests EXCEPT ![n] = @ \cup {}]
          /\ activeRequestsTotals' =
               [p \in Pieces |-> IF p \in {} THEN activeRequestsTotals[p] + 1
                                 ELSE activeRequestsTotals[p]]
          /\ out' = {RequestPiece(n, p) : p \in {}}
      BY <2>2 DEF sendRequestsToPeer
    <3>4. {} \in SUBSET C
      OBVIOUS
    <3>5. 0 <= MaxDownloads - Cardinality(A)
      BY <2>1
    <3> HIDE DEF A, C
    <3> QED  BY <3>1, <3>2, <3>3, <3>4, <3>5
  <2>3. CASE ~downloadComplete
    <3>1. PICK raritySlice \in createRaritySlice(choked, available) :
          \E priority \in createDownloadPriorityForPeer(n, available, raritySlice) :
            LET S == FirstRequests(n, priority)
            IN  /\ activeRequests' = [activeRequests EXCEPT ![n] = @ \cup S]
                /\ activeRequestsTotals' =
                     [p \in Pieces |-> IF p \in S THEN activeRequestsTotals[p] + 1
                                       ELSE activeRequestsTotals[p]]
                /\ out' = {RequestPiece(n, p) : p \in S}
      BY <2>3 DEF sendRequestsToPeer
    <3>2. PICK s \in createDownloadPriorityForPeer(n, available, raritySlice) :
            LET S == FirstRequests(n, s)
            IN  /\ activeRequests' = [activeRequests EXCEPT ![n] = @ \cup S]
                /\ activeRequestsTotals' =
                     [p \in Pieces |-> IF p \in S THEN activeRequestsTotals[p] + 1
                                       ELSE activeRequestsTotals[p]]
                /\ out' = {RequestPiece(n, p) : p \in S}
      BY <3>1
    <3>3. C = CandidatesOf(n, available)
      BY DEF CandidatesOf
    <3> HIDE DEF C
    <3>4. PICK N \in Nat :
            /\ s \in [1 .. N -> C]
            /\ \A i, j \in 1 .. N : s[i] = s[j] => i = j
            /\ \A p \in C : \E i \in 1 .. N : s[i] = p
            /\ \A i, j \in 1 .. N :
                 i < j => activeRequestsTotals[s[i]] <= activeRequestsTotals[s[j]]
      <4>1. \E N \in Nat :
              /\ s \in [1 .. N -> CandidatesOf(n, available)]
              /\ \A i, j \in 1 .. N : s[i] = s[j] => i = j
              /\ \A p \in CandidatesOf(n, available) : \E i \in 1 .. N : s[i] = p
              /\ \A i, j \in 1 .. N :
                   i < j => activeRequestsTotals[s[i]] <= activeRequestsTotals[s[j]]
        BY <1>1, PriorityIsSorted
      <4> QED  BY <3>3, <4>1
    <3> DEFINE room == MaxDownloads - Cardinality(A)
               S == {s[k] : k \in {i \in 1 .. N : i <= room}}
    <3>5. room \in Nat
      BY <2>1
    <3>6. S = FirstRequests(n, s)
      BY <3>4 DEF FirstRequests
    <3>7. S \in SUBSET C
      BY <3>4
    <3> HIDE DEF room
    <3>8. \A p \in S, q \in C \ S :
            activeRequestsTotals[p] <= activeRequestsTotals[q]
      <4> SUFFICES ASSUME NEW p \in S, NEW q \in C \ S
                   PROVE  activeRequestsTotals[p] <= activeRequestsTotals[q]
        OBVIOUS
      <4>1. PICK i \in 1 .. N : i <= room /\ p = s[i]
        OBVIOUS
      <4>2. PICK j \in 1 .. N : q = s[j]
        BY <3>4
      <4>3. j > room
        BY <4>2, <3>5
      <4> QED  BY <3>4, <3>5, <4>1, <4>2, <4>3
    <3>9. /\ S = C \/ Cardinality(S) = room
          /\ Cardinality(S) <= room
      <4>1. s \in Bijection(1 .. N, C)
        BY <3>4 DEF Bijection, Injection, Surjection, IsInjective
      <4>2. /\ Prefix(s, room) = C \/ Cardinality(Prefix(s, room)) = room
            /\ Cardinality(Prefix(s, room)) <= room
        BY <3>5, <4>1, PrefixOfOrder
      <4>3. S = Prefix(s, room)
        BY <3>4 DEF Prefix
      <4> HIDE DEF S
      <4> QED  BY <4>2, <4>3
    <3> HIDE DEF S
    <3> QED  BY <3>2, <3>6, <3>7, <3>8, <3>9 DEF room
  <2> QED  BY <2>2, <2>3
<1>3. S \in SUBSET Pieces /\ A \cap S = {}
  BY <1>1, <1>2
<1>4. /\ activeRequests' \in [Peers -> SUBSET Pieces]
      /\ activeRequestsTotals' \in [Pieces -> Nat]
      /\ \A m \in Peers \ {n} : activeRequests'[m] = activeRequests[m]
      /\ activeRequests'[n] = A \cup S
  BY <1>1, <1>2, <1>3 DEF TypeOK
<1>5. activeRequests'[n] \subseteq A \cup available[n]
  BY <1>2, <1>4
<1>6. TotalsMatch'
  <2> SUFFICES ASSUME NEW p \in Pieces
               PROVE  activeRequestsTotals'[p] = Cardinality(Requesters(p)')
    BY DEF TotalsMatch
  <2>1. activeRequestsTotals[p] = Cardinality(Requesters(p))
    BY DEF TotalsMatch
  <2>2. CASE p \in S
    <3>1. Requesters(p)' = Requesters(p) \cup {n} /\ n \notin Requesters(p)
      BY <2>2, <1>1, <1>2, <1>4 DEF Requesters, TypeOK
    <3>2. Cardinality(Requesters(p)') = Cardinality(Requesters(p)) + 1
      BY <3>1, RequestersFinite, FS_AddElement
    <3> QED  BY <3>2, <2>1, <2>2, <1>2
  <2>3. CASE p \notin S
    <3>1. Requesters(p)' = Requesters(p)
      BY <2>3, <1>1, <1>4 DEF Requesters, TypeOK
    <3> QED  BY <3>1, <2>1, <2>3, <1>2
  <2> QED  BY <2>2, <2>3
<1>7. /\ WithinLimit'
      /\ \/ Cardinality(activeRequests'[n]) >= MaxDownloads
         \/ (available[n] \ finishedPieces) \ activeRequests'[n] = {}
  <2>1. /\ Cardinality(A) \in Nat /\ Cardinality(S) \in Nat /\ MaxDownloads \in Nat
        /\ Cardinality(activeRequests'[n]) = Cardinality(A) + Cardinality(S)
    BY <1>1, <1>3, <1>4, PieceSets, ControllerAssumption DEF ControllerAssumption
  <2>2. Cardinality(activeRequests'[n]) <= MaxDownloads
    BY <2>1, <1>2
  <2>3. WithinLimit'
    BY <2>2, <1>4 DEF WithinLimit
  <2>4. CASE S = C
    BY <2>3, <2>4, <1>4
  <2>5. CASE Cardinality(S) = MaxDownloads - Cardinality(A)
    BY <2>1, <2>3, <2>5
  <2> QED  BY <2>4, <2>5, <1>2
<1>8. out' \in SUBSET Messages
  BY <1>1, <1>2, <1>3 DEF RequestPiece, Messages
<1>9. ASSUME NEW m \in Peers, NEW p \in Pieces, RequestPiece(m, p) \in out'
      PROVE  m = n /\ p \in S
  BY <1>9, <1>2 DEF RequestPiece
<1> QED  BY <1>2, <1>4, <1>5, <1>6, <1>7, <1>8, <1>9

\* dropActiveRequest, for a peer that fetches p, keeps the totals exact.
LEMMA DropsRequest ==
  ASSUME TypeOK, TotalsMatch, WithinLimit,
         NEW n \in peers, NEW p \in activeRequests[n],
         dropActiveRequest(n, p), peers' = peers
  PROVE  /\ activeRequests' \in [Peers -> SUBSET Pieces]
         /\ activeRequestsTotals' \in [Pieces -> Nat]
         /\ TotalsMatch'
         /\ WithinLimit'
         /\ \A m \in Peers : activeRequests'[m] \subseteq activeRequests[m]
<1>1. n \in Peers /\ p \in Pieces
  BY DEF TypeOK
<1>2. /\ activeRequests' \in [Peers -> SUBSET Pieces]
      /\ activeRequests'[n] = activeRequests[n] \ {p}
      /\ \A m \in Peers \ {n} : activeRequests'[m] = activeRequests[m]
  BY <1>1 DEF dropActiveRequest, TypeOK
<1>3. ASSUME NEW q \in Pieces
      PROVE  /\ activeRequestsTotals'[q] = Cardinality(Requesters(q)')
             /\ activeRequestsTotals'[q] \in Nat
  <2>1. activeRequestsTotals[q] = Cardinality(Requesters(q))
    BY DEF TotalsMatch
  <2>2. CASE q = p
    <3>1. Requesters(q)' = Requesters(q) \ {n} /\ n \in Requesters(q)
      BY <1>1, <1>2, <2>2 DEF Requesters, TypeOK
    <3>2. /\ Cardinality(Requesters(q)') = Cardinality(Requesters(q)) - 1
          /\ IsFiniteSet(Requesters(q)')
      BY <3>1, RequestersFinite, FS_RemoveElement
    <3>3. activeRequestsTotals'[q] = activeRequestsTotals[q] - 1
      BY <2>2 DEF dropActiveRequest, TypeOK
    <3>4. Cardinality(Requesters(q)') \in Nat
      BY <3>2, FS_CardinalityType
    <3> QED  BY <3>2, <3>3, <3>4, <2>1
  <2>3. CASE q # p
    <3>1. Requesters(q)' = Requesters(q)
      BY <1>1, <1>2, <2>3 DEF Requesters, TypeOK
    <3>2. activeRequestsTotals'[q] = activeRequestsTotals[q]
      BY <2>3 DEF dropActiveRequest, TypeOK
    <3> QED  BY <3>1, <3>2, <2>1 DEF TypeOK
  <2> QED  BY <2>2, <2>3
<1>4. activeRequestsTotals' \in [Pieces -> Nat]
  <2>1. DOMAIN activeRequestsTotals' = Pieces
        /\ activeRequestsTotals' = [q \in Pieces |-> activeRequestsTotals'[q]]
    BY DEF dropActiveRequest, TypeOK
  <2> QED  BY <2>1, <1>3
<1>5. TotalsMatch'
  BY <1>3 DEF TotalsMatch
<1>6. \A m \in Peers : activeRequests'[m] \subseteq activeRequests[m]
  BY <1>2
<1>7. WithinLimit'
  <2> SUFFICES ASSUME NEW m \in Peers
               PROVE  Cardinality(activeRequests'[m]) <= MaxDownloads
    BY DEF WithinLimit
  <2>1. /\ Cardinality(activeRequests'[m]) <= Cardinality(activeRequests[m])
        /\ Cardinality(activeRequests'[m]) \in Nat
        /\ Cardinality(activeRequests[m]) \in Nat
    BY <1>2, <1>6, PieceSets DEF TypeOK
  <2>2. Cardinality(activeRequests[m]) <= MaxDownloads
    BY DEF WithinLimit
  <2> QED  BY <2>1, <2>2, ControllerAssumption DEF ControllerAssumption
<1> QED  BY <1>2, <1>4, <1>5, <1>6, <1>7

\* removeUnfinishedWorkForPeer keeps the totals exact, whether the peer stays
\* registered (choke) or not (death).
LEMMA RemovesWork ==
  ASSUME TypeOK, TotalsMatch, WithinLimit, NEW n \in peers,
         removeUnfinishedWorkForPeer(n), peers' = peers \/ peers' = peers \ {n}
  PROVE  /\ activeRequests' \in [Peers -> SUBSET Pieces]
         /\ activeRequestsTotals' \in [Pieces -> Nat]
         /\ TotalsMatch'
         /\ WithinLimit'
         /\ activeRequests'[n] = {}
         /\ \A m \in Peers \ {n} : activeRequests'[m] = activeRequests[m]
<1>1. n \in Peers
  BY DEF TypeOK
<1>2. /\ activeRequests' \in [Peers -> SUBSET Pieces]
      /\ activeRequests'[n] = {}
      /\ \A m \in Peers \ {n} : activeRequests'[m] = activeRequests[m]
  BY <1>1 DEF removeUnfinishedWorkForPeer, TypeOK
<1>3. ASSUME NEW q \in Pieces
      PROVE  /\ activeRequestsTotals'[q] = Cardinality(Requesters(q)')
             /\ activeRequestsTotals'[q] \in Nat
  <2>1. activeRequestsTotals[q] = Cardinality(Requesters(q))
    BY DEF TotalsMatch
  <2>2. CASE q \in activeRequests[n]
    <3>1. Requesters(q)' = Requesters(q) \ {n} /\ n \in Requesters(q)
      BY <1>1, <1>2, <2>2 DEF Requesters, TypeOK
    <3>2. /\ Cardinality(Requesters(q)') = Cardinality(Requesters(q)) - 1
          /\ IsFiniteSet(Requesters(q)')
      BY <3>1, RequestersFinite, FS_RemoveElement
    <3>3. activeRequestsTotals'[q] = activeRequestsTotals[q] - 1
      BY <2>2 DEF removeUnfinishedWorkForPeer
    <3>4. Cardinality(Requesters(q)') \in Nat
      BY <3>2, FS_CardinalityType
    <3> QED  BY <3>2, <3>3, <3>4, <2>1
  <2>3. CASE q \notin activeRequests[n]
    <3>1. Requesters(q)' = Requesters(q)
      BY <1>1, <1>2, <2>3 DEF Requesters, TypeOK
    <3>2. activeRequestsTotals'[q] = activeRequestsTotals[q]
      BY <2>3 DEF removeUnfinishedWorkForPeer
    <3> QED  BY <3>1, <3>2, <2>1 DEF TypeOK
  <2> QED  BY <2>2, <2>3
<1>4. activeRequestsTotals' \in [Pieces -> Nat]
  <2>1. activeRequestsTotals' = [q \in Pieces |-> activeRequestsTotals'[q]]
    BY DEF removeUnfinishedWorkForPeer
  <2> QED  BY <2>1, <1>3
<1>5. TotalsMatch'
  BY <1>3 DEF TotalsMatch
<1>6. WithinLimit'
  <2>1. Cardinality({}) = 0
    BY FS_EmptySet
  <2> QED  BY <1>2, <2>1, ControllerAssumption DEF WithinLimit, ControllerAssumption
<1> QED  BY <1>2, <1>4, <1>5, <1>6

-----------------------------------------------------------------------------
(* One lemma per action: each preserves IInv.                              *)

\* The initial states satisfy IInv.
LEMMA InitIInv == Init => IInv
<1> SUFFICES ASSUME Init PROVE IInv
  OBVIOUS
<1>1. Cardinality({}) = 0
  BY FS_EmptySet
<1>2. TypeOK
  BY DEF Init, TypeOK, SeedingReport, Seeding, Messages, Handling, Halted, Crashed
<1>3. TotalsMatch
  <2>1. \A p \in Pieces : Requesters(p) = {}
    BY DEF Init, Requesters
  <2> QED  BY <2>1, <1>1 DEF Init, TotalsMatch
<1>4. WithinLimit
  BY <1>1, ControllerAssumption DEF Init, WithinLimit, ControllerAssumption
<1>5. NoStuckRequests /\ RequestsJustified /\ NoIdlePeer /\ PhaseOK
  BY DEF Init, NoStuckRequests, RequestsJustified, NoIdlePeer, PhaseOK
<1> QED  BY <1>2, <1>3, <1>4, <1>5 DEF IInv

\* startRequests puts exactly the peers that take requests on the list, and
\* what it leaves out is saturated.
LEMMA StartsRequests ==
  ASSUME TypeOK, finishedPieces' \in SUBSET Pieces, NEW complete \in BOOLEAN,
         complete => finishedPieces' = Pieces,
         startRequests(complete), UNCHANGED <<peers, isChoked, availablePieces, activeRequests>>
  PROVE  /\ todo' \in SUBSET peers
         /\ pc' \in {"idle", "assigning"}
         /\ pc' # "assigning" => todo' = {}
         /\ \A n \in todo' : ~isChoked[n]
         /\ NoIdlePeer'
<1>1. /\ todo' \in SUBSET peers
      /\ pc' \in {"idle", "assigning"}
      /\ pc' # "assigning" => todo' = {}
      /\ \A n \in todo' : ~isChoked[n]
  BY DEF startRequests, TakesRequests
<1>2. ASSUME NEW n \in peers \ todo' PROVE Saturated(n)'
  <2>1. CASE complete
    BY <2>1, <1>2 DEF Saturated, CandidatesOf, TypeOK
  <2>2. CASE ~complete
    <3>1. ~TakesRequests(n)
      BY <2>2, <1>2 DEF startRequests
    <3>2. ~TakesRequests(n)'
      BY <3>1, <1>2 DEF TakesRequests
    <3> QED  BY <3>2 DEF Saturated
  <2> QED  BY <2>1, <2>2
<1>3. NoIdlePeer'
  BY <1>1, <1>2 DEF NoIdlePeer
<1> QED  BY <1>1, <1>3

\* The first part of the received-piece handler preserves IInv.
LEMMA ReceivedPieceIInv ==
  ASSUME IInv, NEW n \in Peers, NEW p \in Pieces, ReceivedPiece(n, p)
  PROVE  IInv'
<1> DEFINE finished == finishedPieces \cup {p}
<1> USE DEF IInv
<1>1. /\ finishedPieces' = finished /\ finished \in SUBSET Pieces
      /\ downloadComplete' \in BOOLEAN
      /\ downloadComplete' <=> finishedPieces' = Pieces
      /\ out' \in SUBSET Messages
      /\ UNCHANGED <<peers, isChoked, availablePieces, blockedOn>>
      /\ pc = "idle" /\ todo = {}
  <2>1. /\ finishedPieces' = finished /\ finished \in SUBSET Pieces
        /\ UNCHANGED <<peers, isChoked, availablePieces, blockedOn>>
        /\ pc = "idle" /\ todo = {}
    BY DEF ReceivedPiece, TypeOK, PhaseOK
  <2>2. /\ downloadComplete' = (downloadComplete \/ finished = Pieces)
        /\ downloadComplete => finished = Pieces
    BY DEF ReceivedPiece, updateCompletedFlagIfFinished, PhaseOK
  <2>3. sendHaveToPeersWhoNeedPiece(p) \in SUBSET Messages
    BY DEF sendHaveToPeersWhoNeedPiece, SendHave, Messages, TypeOK
  <2>4. SeedingReport(finished) \in SUBSET Messages
    BY DEF SeedingReport, Seeding, Messages
  <2>5. out' \in SUBSET Messages
    BY <2>3, <2>4 DEF ReceivedPiece
  <2> QED  BY <2>1, <2>2, <2>5
<1>2. CASE /\ n \notin peers
           /\ pc' = "nilPeer"
           /\ UNCHANGED <<activeRequests, activeRequestsTotals, piece, todo>>
  <2>1. TypeOK'
    BY <1>1, <1>2 DEF TypeOK, Halted, Crashed
  <2>2. TotalsMatch' /\ WithinLimit' /\ RequestsJustified'
    BY <1>1, <1>2 DEF TotalsMatch, Requesters, WithinLimit, RequestsJustified
  <2>3. NoStuckRequests' /\ NoIdlePeer' /\ PhaseOK'
    BY <1>1, <1>2 DEF NoStuckRequests, NoIdlePeer, PhaseOK
  <2> QED  BY <2>1, <2>2, <2>3
<1>3. CASE /\ n \in peers /\ p \in activeRequests[n]
           /\ dropActiveRequest(n, p)
           /\ pc' = "cancelling"
           /\ piece' = p
           /\ UNCHANGED todo
  <2>1. /\ activeRequests' \in [Peers -> SUBSET Pieces]
        /\ activeRequestsTotals' \in [Pieces -> Nat]
        /\ TotalsMatch' /\ WithinLimit'
        /\ \A m \in Peers : activeRequests'[m] \subseteq activeRequests[m]
    BY <1>1, <1>3, DropsRequest
  <2>2. TypeOK'
    BY <1>1, <1>3, <2>1 DEF TypeOK, Handling
  <2>3. RequestsJustified'
    BY <1>1, <2>1 DEF RequestsJustified
  <2>4. NoStuckRequests' /\ NoIdlePeer' /\ PhaseOK'
    BY <1>1, <1>3 DEF NoStuckRequests, NoIdlePeer, PhaseOK
  <2> QED  BY <2>1, <2>2, <2>3, <2>4
<1>4. CASE /\ n \in peers /\ p \notin activeRequests[n]
           /\ startRequests(downloadComplete')
           /\ UNCHANGED <<activeRequests, activeRequestsTotals, piece>>
  <2>1. /\ todo' \in SUBSET peers
        /\ pc' \in {"idle", "assigning"}
        /\ pc' # "assigning" => todo' = {}
        /\ \A m \in todo' : ~isChoked[m]
        /\ NoIdlePeer'
    BY <1>1, <1>4, StartsRequests
  <2>2. TypeOK'
    BY <1>1, <1>4, <2>1 DEF TypeOK, Handling
  <2>3. TotalsMatch' /\ WithinLimit' /\ RequestsJustified'
    BY <1>1, <1>4 DEF TotalsMatch, Requesters, WithinLimit, RequestsJustified
  <2>4. NoStuckRequests' /\ PhaseOK'
    BY <1>1, <1>4, <2>1 DEF NoStuckRequests, PhaseOK
  <2> QED  BY <2>1, <2>2, <2>3, <2>4
<1> QED  BY <1>2, <1>3, <1>4 DEF ReceivedPiece

\* Dropping the request of another peer preserves IInv.
LEMMA CancelOtherIInv ==
  ASSUME IInv, NEW n \in Peers, CancelOther(n)
  PROVE  IInv'
<1> USE DEF IInv
<1>1. /\ n \in peers /\ piece \in activeRequests[n]
      /\ dropActiveRequest(n, piece)
      /\ pc = "cancelling" /\ pc' = "sending" /\ blockedOn' = n /\ out' = {}
      /\ UNCHANGED <<finishedPieces, downloadComplete, peers, isChoked,
                     availablePieces, piece, todo>>
  BY DEF CancelOther
<1>2. /\ activeRequests' \in [Peers -> SUBSET Pieces]
      /\ activeRequestsTotals' \in [Pieces -> Nat]
      /\ TotalsMatch' /\ WithinLimit'
      /\ \A m \in Peers : activeRequests'[m] \subseteq activeRequests[m]
  BY <1>1, DropsRequest
<1>3. TypeOK'
  BY <1>1, <1>2 DEF TypeOK, Handling
<1>4. RequestsJustified'
  BY <1>1, <1>2 DEF RequestsJustified
<1>5. NoStuckRequests' /\ NoIdlePeer' /\ PhaseOK'
  BY <1>1 DEF NoStuckRequests, NoIdlePeer, PhaseOK
<1> QED  BY <1>2, <1>3, <1>4, <1>5

\* Delivering a CANCEL preserves IInv.
LEMMA CancelDeliveredIInv ==
  ASSUME IInv, CancelDelivered
  PROVE  IInv'
<1> USE DEF IInv
<1>1. /\ pc = "sending" /\ pc' = "cancelling" /\ blockedOn' = NoPeer
      /\ UNCHANGED <<finishedPieces, downloadComplete, peers, peerInfo,
                     activeRequestsTotals, piece, todo>>
      /\ out' \in SUBSET Messages
  BY DEF CancelDelivered, CancelPiece, Messages, TypeOK, PhaseOK
<1>2. TypeOK'
  BY <1>1 DEF TypeOK, Handling, peerInfo
<1>3. TotalsMatch' /\ WithinLimit' /\ RequestsJustified'
  BY <1>1 DEF TotalsMatch, Requesters, WithinLimit, RequestsJustified, peerInfo
<1>4. NoStuckRequests' /\ NoIdlePeer' /\ PhaseOK'
  BY <1>1 DEF NoStuckRequests, NoIdlePeer, PhaseOK, peerInfo
<1> QED  BY <1>2, <1>3, <1>4

\* Here TotalsMatch pays off: no requester is left, so the total is zero.
LEMMA CancelsDoneIInv ==
  ASSUME IInv, CancelsDone
  PROVE  IInv'
<1> USE DEF IInv
<1>1. activeRequestsTotals[piece] = 0
  <2>1. Requesters(piece) = {} /\ piece \in Pieces
    BY DEF CancelsDone, Requesters, PhaseOK, TypeOK
  <2> QED  BY <2>1, FS_EmptySet DEF TotalsMatch
<1>2. /\ pc = "cancelling" /\ piece' = NoPiece /\ out' = {}
      /\ startRequests(downloadComplete)
      /\ UNCHANGED <<finishedPieces, downloadComplete, peers, peerInfo,
                     activeRequestsTotals, blockedOn>>
  BY <1>1 DEF CancelsDone
<1>3. /\ todo' \in SUBSET peers
      /\ pc' \in {"idle", "assigning"}
      /\ pc' # "assigning" => todo' = {}
      /\ \A m \in todo' : ~isChoked[m]
      /\ NoIdlePeer'
  BY <1>2, StartsRequests DEF peerInfo, TypeOK, PhaseOK
<1>4. TypeOK'
  BY <1>2, <1>3 DEF TypeOK, Handling, peerInfo
<1>5. TotalsMatch' /\ WithinLimit' /\ RequestsJustified'
  BY <1>2 DEF TotalsMatch, Requesters, WithinLimit, RequestsJustified, peerInfo
<1>6. NoStuckRequests' /\ PhaseOK'
  BY <1>2, <1>3 DEF NoStuckRequests, PhaseOK, peerInfo
<1> QED  BY <1>3, <1>4, <1>5, <1>6

\* sendRequestsToPeer in a handler that has just set isChoked or
\* availablePieces of the peer: it restores what IInv says of requests.
LEMMA RequestsIInv ==
  ASSUME IInv, NEW n \in peers, ~isChoked'[n],
         isChoked' \in [Peers -> BOOLEAN],
         availablePieces' \in [Peers -> SUBSET Pieces],
         availablePieces[n] \subseteq availablePieces'[n],
         \A m \in Peers \ {n} : /\ isChoked'[m] = isChoked[m]
                                /\ availablePieces'[m] = availablePieces[m],
         sendRequestsToPeer(n, isChoked', availablePieces'),
         UNCHANGED <<finishedPieces, peers>>
  PROVE  /\ activeRequests' \in [Peers -> SUBSET Pieces]
         /\ activeRequestsTotals' \in [Pieces -> Nat]
         /\ TotalsMatch' /\ WithinLimit' /\ RequestsJustified'
         /\ Saturated(n)'
         /\ \A m \in peers \ {n} : Saturated(m) => Saturated(m)'
         /\ out' \in SUBSET Messages
         /\ \A m \in Peers, p \in Pieces : RequestPiece(m, p) \in out' =>
              /\ m = n
              /\ p \in (availablePieces'[n] \ finishedPieces) \ activeRequests[n]
              /\ \A q \in (availablePieces'[n] \ finishedPieces) \ activeRequests'[n] :
                   activeRequestsTotals[p] <= activeRequestsTotals[q]
<1> USE DEF IInv
<1>1. /\ activeRequests' \in [Peers -> SUBSET Pieces]
      /\ activeRequestsTotals' \in [Pieces -> Nat]
      /\ TotalsMatch' /\ WithinLimit'
      /\ \A m \in Peers \ {n} : activeRequests'[m] = activeRequests[m]
      /\ activeRequests'[n] \subseteq activeRequests[n] \cup availablePieces'[n]
      /\ \/ Cardinality(activeRequests'[n]) >= MaxDownloads
         \/ (availablePieces'[n] \ finishedPieces) \ activeRequests'[n] = {}
      /\ out' \in SUBSET Messages
      /\ \A m \in Peers, p \in Pieces : RequestPiece(m, p) \in out' =>
           /\ m = n
           /\ p \in (availablePieces'[n] \ finishedPieces) \ activeRequests[n]
           /\ \A q \in (availablePieces'[n] \ finishedPieces) \ activeRequests'[n] :
                activeRequestsTotals[p] <= activeRequestsTotals[q]
  BY SendsRequests DEF PhaseOK
<1>2. n \in Peers /\ peers \subseteq Peers
  BY DEF TypeOK
<1>3. RequestsJustified'
  BY <1>1, <1>2 DEF RequestsJustified
<1>4. Saturated(n)'
  <2>1. /\ Cardinality(activeRequests'[n]) \in Nat
        /\ MaxDownloads \in Nat
    BY <1>1, <1>2, PieceSets, ControllerAssumption DEF ControllerAssumption
  <2> QED  BY <1>1, <2>1 DEF Saturated, TakesRequests, CandidatesOf
<1>5. ASSUME NEW m \in peers \ {n}, Saturated(m)
      PROVE  Saturated(m)'
  BY <1>1, <1>2, <1>5 DEF Saturated, TakesRequests, CandidatesOf
<1> QED  BY <1>1, <1>3, <1>4, <1>5

\* One iteration of the request loop preserves IInv.
LEMMA RequestsForNextPeerIInv ==
  ASSUME IInv, NEW n \in Peers, RequestsForNextPeer(n)
  PROVE  IInv'
<1> USE DEF IInv
<1>1. /\ pc = "assigning" /\ n \in todo /\ n \in peers /\ ~isChoked[n]
      /\ todo' = todo \ {n}
      /\ pc' = IF todo' = {} THEN "idle" ELSE "assigning"
      /\ sendRequestsToPeer(n, isChoked, availablePieces)
      /\ UNCHANGED <<finishedPieces, downloadComplete, peers, isChoked,
                     availablePieces, piece, blockedOn>>
  BY DEF RequestsForNextPeer, TypeOK, PhaseOK
<1>2. sendRequestsToPeer(n, isChoked', availablePieces')
  BY <1>1
<1>3. /\ activeRequests' \in [Peers -> SUBSET Pieces]
      /\ activeRequestsTotals' \in [Pieces -> Nat]
      /\ TotalsMatch' /\ WithinLimit' /\ RequestsJustified'
      /\ Saturated(n)'
      /\ \A m \in peers \ {n} : Saturated(m) => Saturated(m)'
      /\ out' \in SUBSET Messages
  BY <1>1, <1>2, RequestsIInv DEF TypeOK
<1>4. TypeOK'
  BY <1>1, <1>3 DEF TypeOK, Handling
<1>5. NoIdlePeer'
  BY <1>1, <1>3 DEF NoIdlePeer
<1>6. NoStuckRequests' /\ PhaseOK'
  BY <1>1 DEF NoStuckRequests, PhaseOK
<1> QED  BY <1>3, <1>4, <1>5, <1>6

\* The new-peer handler preserves IInv: a fresh PeerInfo fetches nothing.
LEMMA NewPeerIInv ==
  ASSUME IInv, NEW n \in Peers, NewPeer(n)
  PROVE  IInv'
<1> USE DEF IInv
<1>1. /\ pc = "idle"
      /\ UNCHANGED <<finishedPieces, downloadComplete, isChoked, availablePieces,
                     activeRequests, activeRequestsTotals, piece, blockedOn, todo>>
  BY DEF NewPeer, peerInfo
<1>2. CASE n \in peers /\ pc' = "duplicatePeer" /\ out' = {} /\ UNCHANGED peers
  <2>1. TypeOK'
    BY <1>1, <1>2 DEF TypeOK, Halted, Crashed
  <2>2. TotalsMatch' /\ WithinLimit' /\ RequestsJustified'
    BY <1>1, <1>2 DEF TotalsMatch, Requesters, WithinLimit, RequestsJustified
  <2>3. NoStuckRequests' /\ NoIdlePeer' /\ PhaseOK'
    BY <1>1, <1>2 DEF NoStuckRequests, NoIdlePeer, PhaseOK
  <2> QED  BY <2>1, <2>2, <2>3
<1>3. CASE /\ n \notin peers /\ peers' = peers \cup {n}
           /\ out' = {SendBitfield(n)} /\ UNCHANGED pc
  <2>1. isChoked[n] /\ activeRequests[n] = {}
    BY <1>3 DEF PhaseOK, RequestsJustified
  <2>2. TypeOK'
    BY <1>1, <1>3 DEF TypeOK, SendBitfield, Messages
  <2>3. TotalsMatch'
    <3>1. \A p \in Pieces : Requesters(p)' = Requesters(p)
      BY <1>1, <1>3, <2>1 DEF Requesters
    <3> QED  BY <3>1, <1>1 DEF TotalsMatch
  <2>4. WithinLimit' /\ RequestsJustified'
    BY <1>1, <1>3 DEF WithinLimit, RequestsJustified
  <2>5. NoIdlePeer'
    BY <1>1, <1>3, <2>1 DEF NoIdlePeer, Saturated, TakesRequests, CandidatesOf
  <2>6. NoStuckRequests' /\ PhaseOK'
    BY <1>1, <1>3 DEF NoStuckRequests, PhaseOK
  <2> QED  BY <2>2, <2>3, <2>4, <2>5, <2>6
<1> QED  BY <1>2, <1>3 DEF NewPeer

\* The dead-peer handler preserves IInv.
LEMMA DeadPeerIInv ==
  ASSUME IInv, NEW n \in Peers, DeadPeer(n)
  PROVE  IInv'
<1> USE DEF IInv
<1>1. /\ pc = "idle" /\ out' = {} /\ todo = {}
      /\ UNCHANGED <<finishedPieces, downloadComplete, piece, blockedOn, todo>>
  BY DEF DeadPeer, PhaseOK
<1>2. CASE /\ n \notin peers /\ pc' = "unknownDeadPeer"
           /\ UNCHANGED <<peers, peerInfo, activeRequestsTotals>>
  <2>1. TypeOK'
    BY <1>1, <1>2 DEF TypeOK, Halted, Crashed, peerInfo
  <2>2. TotalsMatch' /\ WithinLimit' /\ RequestsJustified'
    BY <1>1, <1>2 DEF TotalsMatch, Requesters, WithinLimit, RequestsJustified, peerInfo
  <2>3. NoStuckRequests' /\ NoIdlePeer' /\ PhaseOK'
    BY <1>1, <1>2 DEF NoStuckRequests, NoIdlePeer, PhaseOK, peerInfo
  <2> QED  BY <2>1, <2>2, <2>3
<1>3. CASE /\ n \in peers
           /\ removeUnfinishedWorkForPeer(n)
           /\ peers' = peers \ {n}
           /\ isChoked' = [isChoked EXCEPT ![n] = TRUE]
           /\ availablePieces' = [availablePieces EXCEPT ![n] = {}]
           /\ UNCHANGED pc
  <2>1. /\ activeRequests' \in [Peers -> SUBSET Pieces]
        /\ activeRequestsTotals' \in [Pieces -> Nat]
        /\ TotalsMatch' /\ WithinLimit'
        /\ activeRequests'[n] = {}
        /\ \A m \in Peers \ {n} : activeRequests'[m] = activeRequests[m]
    BY <1>3, RemovesWork
  <2>2. /\ isChoked' \in [Peers -> BOOLEAN]
        /\ availablePieces' \in [Peers -> SUBSET Pieces]
        /\ isChoked'[n] /\ availablePieces'[n] = {}
        /\ \A m \in Peers \ {n} : /\ isChoked'[m] = isChoked[m]
                                  /\ availablePieces'[m] = availablePieces[m]
    BY <1>3 DEF TypeOK
  <2>3. TypeOK'
    BY <1>1, <1>3, <2>1, <2>2 DEF TypeOK
  <2>4. RequestsJustified'
    BY <1>3, <2>1, <2>2 DEF RequestsJustified
  <2>5. NoIdlePeer'
    BY <1>1, <1>3, <2>1, <2>2
    DEF NoIdlePeer, Saturated, TakesRequests, CandidatesOf, TypeOK
  <2>6. NoStuckRequests' /\ PhaseOK'
    BY <1>1, <1>3, <2>2 DEF NoStuckRequests, PhaseOK
  <2> QED  BY <2>1, <2>3, <2>4, <2>5, <2>6
<1> QED  BY <1>2, <1>3 DEF DeadPeer

\* Returning from Run preserves IInv.
LEMMA HaltIInv ==
  ASSUME IInv, pc' \in {"quit", "unknownPeerMessage"}, pc = "idle", out' = {},
         UNCHANGED <<finishedPieces, downloadComplete, peers, peerInfo,
                     activeRequestsTotals, piece, blockedOn, todo>>
  PROVE  IInv'
<1> USE DEF IInv
<1>1. TypeOK'
  BY DEF TypeOK, Halted, peerInfo
<1>2. TotalsMatch' /\ WithinLimit' /\ RequestsJustified'
  BY DEF TotalsMatch, Requesters, WithinLimit, RequestsJustified, peerInfo
<1>3. NoStuckRequests' /\ NoIdlePeer' /\ PhaseOK'
  BY DEF NoStuckRequests, NoIdlePeer, PhaseOK, peerInfo
<1> QED  BY <1>1, <1>2, <1>3

\* The choke-status handler preserves IInv.
LEMMA ChokeStatusIInv ==
  ASSUME IInv, NEW n \in Peers, NEW choked \in BOOLEAN, ChokeStatus(n, choked)
  PROVE  IInv'
<1> USE DEF IInv
<1>1. CASE UnknownPeerMessage(n)
  BY <1>1, HaltIInv DEF UnknownPeerMessage
<1>2. CASE ~UnknownPeerMessage(n)
  <2>1. /\ pc = "idle" /\ n \in peers
        /\ isChoked' = [isChoked EXCEPT ![n] = choked]
        /\ \/ choked  /\ removeUnfinishedWorkForPeer(n) /\ out' = {}
           \/ ~choked /\ sendRequestsToPeer(n, isChoked', availablePieces)
        /\ UNCHANGED <<finishedPieces, downloadComplete, peers, availablePieces,
                       pc, piece, blockedOn, todo>>
    BY <1>2 DEF ChokeStatus
  <2>2. /\ isChoked' \in [Peers -> BOOLEAN] /\ isChoked'[n] = choked
        /\ \A m \in Peers \ {n} : isChoked'[m] = isChoked[m]
        /\ todo = {}
    BY <2>1 DEF TypeOK, PhaseOK
  <2>3. NoStuckRequests' /\ PhaseOK'
    BY <2>1, <2>2 DEF NoStuckRequests, PhaseOK
  <2>4. CASE choked /\ removeUnfinishedWorkForPeer(n) /\ out' = {}
    <3>1. /\ activeRequests' \in [Peers -> SUBSET Pieces]
          /\ activeRequestsTotals' \in [Pieces -> Nat]
          /\ TotalsMatch' /\ WithinLimit'
          /\ activeRequests'[n] = {}
          /\ \A m \in Peers \ {n} : activeRequests'[m] = activeRequests[m]
      BY <2>1, <2>4, RemovesWork
    <3>2. TypeOK'
      BY <2>1, <2>2, <2>4, <3>1 DEF TypeOK
    <3>3. RequestsJustified'
      BY <2>1, <2>2, <3>1 DEF RequestsJustified
    <3>4. NoIdlePeer'
      BY <2>1, <2>2, <2>4, <3>1
      DEF NoIdlePeer, Saturated, TakesRequests, CandidatesOf, TypeOK
    <3> QED  BY <2>3, <3>1, <3>2, <3>3, <3>4
  <2>5. CASE ~choked /\ sendRequestsToPeer(n, isChoked', availablePieces)
    <3>1. sendRequestsToPeer(n, isChoked', availablePieces')
      BY <2>1, <2>5
    <3>2. /\ activeRequests' \in [Peers -> SUBSET Pieces]
          /\ activeRequestsTotals' \in [Pieces -> Nat]
          /\ TotalsMatch' /\ WithinLimit' /\ RequestsJustified'
          /\ Saturated(n)'
          /\ \A m \in peers \ {n} : Saturated(m) => Saturated(m)'
          /\ out' \in SUBSET Messages
      BY <2>1, <2>2, <2>5, <3>1, RequestsIInv DEF TypeOK
    <3>3. TypeOK'
      BY <2>1, <2>2, <3>2 DEF TypeOK
    <3>4. NoIdlePeer'
      BY <2>1, <3>2 DEF NoIdlePeer
    <3> QED  BY <2>3, <3>2, <3>3, <3>4
  <2> QED  BY <2>1, <2>4, <2>5
<1> QED  BY <1>1, <1>2

\* The have-piece handler preserves IInv.
LEMMA HavePieceIInv ==
  ASSUME IInv, NEW n \in Peers, NEW batch \in SUBSET Pieces, HavePiece(n, batch)
  PROVE  IInv'
<1> USE DEF IInv
<1>1. CASE UnknownPeerMessage(n)
  BY <1>1, HaltIInv DEF UnknownPeerMessage
<1>2. CASE ~UnknownPeerMessage(n)
  <2>1. /\ pc = "idle" /\ n \in peers
        /\ availablePieces' = [availablePieces EXCEPT ![n] = @ \cup batch]
        /\ \/ TakesRequests(n) /\ sendRequestsToPeer(n, isChoked, availablePieces')
           \/ /\ ~TakesRequests(n)
              /\ out' = {}
              /\ UNCHANGED <<activeRequests, activeRequestsTotals>>
        /\ UNCHANGED <<finishedPieces, downloadComplete, peers, isChoked,
                       pc, piece, blockedOn, todo>>
    BY <1>2 DEF HavePiece
  <2>2. /\ availablePieces' \in [Peers -> SUBSET Pieces]
        /\ availablePieces[n] \subseteq availablePieces'[n]
        /\ \A m \in Peers \ {n} : availablePieces'[m] = availablePieces[m]
    BY <2>1 DEF TypeOK
  <2>3. NoStuckRequests' /\ PhaseOK'
    BY <2>1, <2>2 DEF NoStuckRequests, PhaseOK
  <2>4. CASE TakesRequests(n) /\ sendRequestsToPeer(n, isChoked, availablePieces')
    <3>1. sendRequestsToPeer(n, isChoked', availablePieces') /\ ~isChoked'[n]
      BY <2>1, <2>4 DEF TakesRequests
    <3>2. /\ activeRequests' \in [Peers -> SUBSET Pieces]
          /\ activeRequestsTotals' \in [Pieces -> Nat]
          /\ TotalsMatch' /\ WithinLimit' /\ RequestsJustified'
          /\ Saturated(n)'
          /\ \A m \in peers \ {n} : Saturated(m) => Saturated(m)'
          /\ out' \in SUBSET Messages
      BY <2>1, <2>2, <3>1, RequestsIInv DEF TypeOK
    <3>3. TypeOK'
      BY <2>1, <2>2, <3>2 DEF TypeOK
    <3>4. NoIdlePeer'
      BY <2>1, <3>2 DEF NoIdlePeer
    <3> QED  BY <2>3, <3>2, <3>3, <3>4
  <2>5. CASE /\ ~TakesRequests(n)
             /\ out' = {}
             /\ UNCHANGED <<activeRequests, activeRequestsTotals>>
    <3>1. TypeOK'
      BY <2>1, <2>2, <2>5 DEF TypeOK
    <3>2. TotalsMatch' /\ WithinLimit' /\ RequestsJustified'
      BY <2>1, <2>2, <2>5 DEF TotalsMatch, Requesters, WithinLimit, RequestsJustified
    <3>3. NoIdlePeer'
      BY <2>1, <2>2, <2>5
      DEF NoIdlePeer, Saturated, TakesRequests, CandidatesOf, TypeOK
    <3> QED  BY <2>3, <3>1, <3>2, <3>3
  <2> QED  BY <2>1, <2>4, <2>5
<1> QED  BY <1>1, <1>2

\* Every step preserves IInv.
LEMMA NextIInv == IInv /\ [Next]_vars => IInv'
<1> SUFFICES ASSUME IInv, [Next]_vars PROVE IInv'
  OBVIOUS
<1>1. ASSUME NEW n \in Peers, NEW p \in Pieces, ReceivedPiece(n, p) PROVE IInv'
  BY <1>1, ReceivedPieceIInv
<1>2. ASSUME NEW n \in Peers, NewPeer(n) PROVE IInv'
  BY <1>2, NewPeerIInv
<1>3. ASSUME NEW n \in Peers, DeadPeer(n) PROVE IInv'
  BY <1>3, DeadPeerIInv
<1>4. ASSUME NEW n \in Peers, NEW choked \in BOOLEAN, ChokeStatus(n, choked)
      PROVE  IInv'
  BY <1>4, ChokeStatusIInv
<1>5. ASSUME NEW n \in Peers, NEW batch \in SUBSET Pieces, HavePiece(n, batch)
      PROVE  IInv'
  BY <1>5, HavePieceIInv
<1>6. ASSUME Quit PROVE IInv'
  BY <1>6, HaltIInv DEF Quit
<1>7. ASSUME NEW n \in Peers, CancelOther(n) PROVE IInv'
  BY <1>7, CancelOtherIInv
<1>8. ASSUME CancelsDone PROVE IInv'
  BY <1>8, CancelsDoneIInv
<1>9. ASSUME NEW n \in Peers, RequestsForNextPeer(n) PROVE IInv'
  BY <1>9, RequestsForNextPeerIInv
<1>10. ASSUME CancelDelivered PROVE IInv'
  BY <1>10, CancelDeliveredIInv
<1>11. ASSUME UNCHANGED vars PROVE IInv'
  <2>1. TypeOK' /\ TotalsMatch' /\ NoStuckRequests' /\ WithinLimit'
    BY <1>11 DEF vars, IInv, TypeOK, TotalsMatch, Requesters, NoStuckRequests,
                 WithinLimit
  <2>2. RequestsJustified' /\ NoIdlePeer' /\ PhaseOK'
    BY <1>11 DEF vars, IInv, RequestsJustified, NoIdlePeer, Saturated,
                 TakesRequests, CandidatesOf, PhaseOK
  <2> QED  BY <2>1, <2>2 DEF IInv
<1> QED  BY <1>1, <1>2, <1>3, <1>4, <1>5, <1>6, <1>7, <1>8, <1>9, <1>10, <1>11
         DEF Next, TakeMessage, Continue

-----------------------------------------------------------------------------

\* IInv holds in every reachable state of the controller.
THEOREM Invariance == Spec => []IInv
<1>1. IInv /\ [Next]_vars => IInv'
  BY NextIInv
<1> QED  BY <1>1, InitIInv, PTL DEF Spec

\* The types hold, whatever messages arrive; in particular no entry of
\* activeRequestsTotals ever becomes negative.
THEOREM TypeCorrectness == Spec => []TypeOK
<1>1. IInv => TypeOK
  BY DEF IInv
<1> QED  BY <1>1, Invariance, PTL

\* activeRequestsTotals counts exactly the peers that fetch each piece.
THEOREM TotalsStayExact == Spec => []TotalsMatch
<1>1. IInv => TotalsMatch
  BY DEF IInv
<1> QED  BY <1>1, Invariance, PTL

\* The "stuck requests" log.Fatalf of removePieceFromActiveRequests is dead code.
THEOREM StuckRequestsUnreachable == Spec => []NoStuckRequests
<1>1. IInv => NoStuckRequests
  BY DEF IInv
<1> QED  BY <1>1, Invariance, PTL

\* No peer is asked for more than maxSimultaneousDownloadsPerPeer pieces.
THEOREM LimitRespected == Spec => []WithinLimit
<1>1. IInv => WithinLimit
  BY DEF IInv
<1> QED  BY <1>1, Invariance, PTL

\* Recorded requests are for pieces the peer has, and only unchoked registered
\* peers have any.
THEOREM RequestsAreJustified == Spec => []RequestsJustified
<1>1. IInv => RequestsJustified
  BY DEF IInv
<1> QED  BY <1>1, Invariance, PTL

\* No handler leaves an unchoked peer idle while it has a piece we need.
THEOREM WorkConserving == Spec => []NoIdlePeer
<1>1. IInv => NoIdlePeer
  BY DEF IInv
<1> QED  BY <1>1, Invariance, PTL

-----------------------------------------------------------------------------
(* What a step may send.                                                   *)

\* A step that sends a request sends it to the peer it handles, for a piece
\* that peer has, that is needed and not being fetched by it, and that is
\* fetched by no more peers than any piece the peer is not asked for; and it
\* takes no request back.
LEMMA RequestStep ==
  ASSUME IInv, Next, NEW n \in Peers, NEW p \in Pieces, RequestPiece(n, p) \in out'
  PROVE  /\ n \in peers' /\ ~isChoked'[n]
         /\ p \in availablePieces'[n] \ finishedPieces'
         /\ p \notin activeRequests[n]
         /\ \A q \in CandidatesOf(n, availablePieces)' :
              activeRequestsTotals[p] <= activeRequestsTotals[q]
         /\ \A m \in peers : m \in peers' /\ activeRequests[m] \subseteq activeRequests'[m]
<1> DEFINE Goal == /\ n \in peers' /\ ~isChoked'[n]
                   /\ p \in availablePieces'[n] \ finishedPieces'
                   /\ p \notin activeRequests[n]
                   /\ \A q \in CandidatesOf(n, availablePieces)' :
                        activeRequestsTotals[p] <= activeRequestsTotals[q]
                   /\ \A k \in peers :
                        k \in peers' /\ activeRequests[k] \subseteq activeRequests'[k]
<1> USE DEF IInv
<1>1. RequestPiece(n, p).type = "request"
  BY DEF RequestPiece
<1>2. ASSUME NEW m \in peers, ~isChoked'[m],
             isChoked' \in [Peers -> BOOLEAN],
             availablePieces' \in [Peers -> SUBSET Pieces],
             availablePieces[m] \subseteq availablePieces'[m],
             \A k \in Peers \ {m} : /\ isChoked'[k] = isChoked[k]
                                    /\ availablePieces'[k] = availablePieces[k],
             sendRequestsToPeer(m, isChoked', availablePieces'),
             UNCHANGED <<finishedPieces, peers>>
      PROVE  Goal
  <2>1. /\ n = m
        /\ p \in (availablePieces'[m] \ finishedPieces) \ activeRequests[m]
        /\ \A q \in (availablePieces'[m] \ finishedPieces) \ activeRequests'[m] :
             activeRequestsTotals[p] <= activeRequestsTotals[q]
    BY <1>2, RequestsIInv
  <2>2. \A k \in peers : activeRequests[k] \subseteq activeRequests'[k]
    BY <1>2 DEF sendRequestsToPeer, TypeOK
  <2> QED  BY <1>2, <2>1, <2>2 DEF CandidatesOf
<1>3. ASSUME NEW m \in Peers, NEW r \in Pieces, ReceivedPiece(m, r) PROVE FALSE
  <2>1. \A x \in out' : x.type # "request"
    BY <1>3 DEF ReceivedPiece, SeedingReport, Seeding, sendHaveToPeersWhoNeedPiece,
                SendHave
  <2> QED  BY <1>1, <2>1
<1>4. ASSUME NEW m \in Peers, NewPeer(m) PROVE FALSE
  <2>1. \A x \in out' : x.type # "request"
    BY <1>4 DEF NewPeer, SendBitfield
  <2> QED  BY <1>1, <2>1
<1>5. ASSUME CancelDelivered PROVE FALSE
  <2>1. \A x \in out' : x.type # "request"
    BY <1>5 DEF CancelDelivered, CancelPiece
  <2> QED  BY <1>1, <2>1
<1>6. ASSUME out' = {} PROVE FALSE
  BY <1>6
<1>7. ASSUME NEW m \in Peers, NEW choked \in BOOLEAN, ChokeStatus(m, choked) PROVE Goal
  <2>1. CASE out' = {}
    BY <2>1
  <2>2. CASE out' # {}
    <3>1. /\ m \in peers /\ isChoked' = [isChoked EXCEPT ![m] = FALSE]
          /\ sendRequestsToPeer(m, isChoked', availablePieces)
          /\ UNCHANGED <<finishedPieces, peers, availablePieces>>
      BY <1>7, <2>2 DEF ChokeStatus, UnknownPeerMessage
    <3>2. /\ sendRequestsToPeer(m, isChoked', availablePieces')
          /\ isChoked' \in [Peers -> BOOLEAN] /\ ~isChoked'[m]
          /\ \A k \in Peers \ {m} : isChoked'[k] = isChoked[k]
      BY <3>1 DEF TypeOK
    <3> QED  BY <1>2, <3>1, <3>2 DEF TypeOK
  <2> QED  BY <2>1, <2>2
<1>8. ASSUME NEW m \in Peers, NEW batch \in SUBSET Pieces, HavePiece(m, batch) PROVE Goal
  <2>1. CASE out' = {}
    BY <2>1
  <2>2. CASE out' # {}
    <3>1. /\ m \in peers /\ ~isChoked[m]
          /\ availablePieces' = [availablePieces EXCEPT ![m] = @ \cup batch]
          /\ sendRequestsToPeer(m, isChoked, availablePieces')
          /\ UNCHANGED <<finishedPieces, peers, isChoked>>
      BY <1>8, <2>2 DEF HavePiece, UnknownPeerMessage, TakesRequests
    <3>2. /\ sendRequestsToPeer(m, isChoked', availablePieces') /\ ~isChoked'[m]
          /\ availablePieces' \in [Peers -> SUBSET Pieces]
          /\ availablePieces[m] \subseteq availablePieces'[m]
          /\ \A k \in Peers \ {m} : availablePieces'[k] = availablePieces[k]
      BY <3>1 DEF TypeOK
    <3> QED  BY <1>2, <3>1, <3>2 DEF TypeOK
  <2> QED  BY <2>1, <2>2
<1>9. ASSUME NEW m \in Peers, RequestsForNextPeer(m) PROVE Goal
  <2>1. /\ m \in peers /\ ~isChoked[m]
        /\ sendRequestsToPeer(m, isChoked, availablePieces)
        /\ UNCHANGED <<finishedPieces, peers, isChoked, availablePieces>>
    BY <1>9 DEF RequestsForNextPeer, TypeOK, PhaseOK
  <2>2. sendRequestsToPeer(m, isChoked', availablePieces') /\ ~isChoked'[m]
    BY <2>1
  <2> QED  BY <1>2, <2>1, <2>2 DEF TypeOK
<1>10. ASSUME NEW m \in Peers, DeadPeer(m) \/ CancelOther(m) PROVE FALSE
  BY <1>6, <1>10 DEF DeadPeer, CancelOther
<1>11. ASSUME Quit \/ CancelsDone PROVE FALSE
  BY <1>6, <1>11 DEF Quit, CancelsDone
<1> QED  BY <1>3, <1>4, <1>5, <1>7, <1>8, <1>9, <1>10, <1>11
         DEF Next, TakeMessage, Continue

\* Requests go only to registered, unchoked peers, for pieces that are needed.
THEOREM RequestsAreUseful == Spec => UsefulRequests
<1>1. IInv /\ [Next]_vars =>
        [\A n \in Peers, p \in Pieces :
           RequestPiece(n, p) \in out' =>
             /\ n \in peers' /\ ~isChoked'[n]
             /\ p \in availablePieces'[n] \ finishedPieces'
             /\ p \notin activeRequests[n]]_vars
  BY RequestStep
<1> QED  BY <1>1, Invariance, PTL DEF Spec, UsefulRequests

\* Work is duplicated only in the end game: the counters by which the sort
\* tells a piece nobody fetches from one that is being fetched are exact.
THEOREM DuplicatesOnlyInEndgame == Spec => EndgameOnly
<1>1. ASSUME IInv, Next, NEW n \in Peers, NEW p \in Pieces,
             RequestPiece(n, p) \in out', Requesters(p) # {},
             NEW q \in availablePieces'[n] \ finishedPieces'
      PROVE  Requesters(q)' # {}
  <2>1. IInv'
    BY <1>1, NextIInv
  <2>2. q \in Pieces /\ n \in peers'
    BY <1>1, <2>1, RequestStep DEF IInv, TypeOK
  <2>3. CASE q \in activeRequests'[n]
    BY <2>2, <2>3 DEF Requesters
  <2>4. CASE q \notin activeRequests'[n]
    <3>1. q \in CandidatesOf(n, availablePieces)'
      BY <1>1, <2>4 DEF CandidatesOf
    <3>2. /\ activeRequestsTotals[p] <= activeRequestsTotals[q]
          /\ \A m \in peers : m \in peers' /\ activeRequests[m] \subseteq activeRequests'[m]
      BY <1>1, <3>1, RequestStep
    <3>3. /\ activeRequestsTotals[p] = Cardinality(Requesters(p))
          /\ activeRequestsTotals[q] = Cardinality(Requesters(q))
      BY <1>1, <2>2 DEF IInv, TotalsMatch
    <3>4. /\ IsFiniteSet(Requesters(p)) /\ Cardinality(Requesters(p)) \in Nat
          /\ IsFiniteSet(Requesters(q)) /\ Cardinality(Requesters(q)) \in Nat
      BY <1>1, <2>2, RequestersFinite DEF IInv
    <3>5. Cardinality(Requesters(p)) # 0
      BY <1>1, <3>4, FS_EmptySet
    <3>6. Requesters(q) # {}
      BY <3>2, <3>3, <3>4, <3>5, FS_EmptySet
    <3> QED  BY <3>2, <3>6 DEF Requesters
  <2> QED  BY <2>3, <2>4
<1>2. IInv /\ [Next]_vars =>
        [\A n \in Peers, p \in Pieces :
           /\ RequestPiece(n, p) \in out'
           /\ Requesters(p) # {}
           => \A q \in availablePieces'[n] \ finishedPieces' : Requesters(q)' # {}]_vars
  BY <1>1
<1> QED  BY <1>2, Invariance, PTL DEF Spec, EndgameOnly
===============================================================================
