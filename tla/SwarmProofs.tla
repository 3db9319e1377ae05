----------------------------- MODULE SwarmProofs -----------------------------
(***************************************************************************)
(* Proofs about Swarm: the controller inside it behaves as module          *)
(* Controller says, so what ControllerProofs shows carries over; the peer  *)
(* manager's count is exact; and only pieces on disk count as finished.    *)
(***************************************************************************)
EXTENDS Swarm, ControllerProofs

\* Adding one message to a bag.
LEMMA BagAdd ==
  ASSUME NEW B, IsABag(B), NEW e
  PROVE  /\ IsABag(B (+) SetToBag({e}))
         /\ BagToSet(B (+) SetToBag({e})) = BagToSet(B) \cup {e}
<1> DEFINE C == B (+) SetToBag({e})
<1>1. C = [x \in DOMAIN B \cup {e} |->
             (IF x \in DOMAIN B THEN B[x] ELSE 0) + (IF x \in {e} THEN 1 ELSE 0)]
  BY DEF (+), SetToBag
<1>2. \A x \in DOMAIN B : B[x] \in Nat /\ B[x] > 0
  BY DEF IsABag
<1> QED  BY <1>1, <1>2 DEF IsABag, BagToSet

\* Taking one message out of a bag.
LEMMA BagRemove ==
  ASSUME NEW B, IsABag(B), NEW e
  PROVE  /\ IsABag(B (-) SetToBag({e}))
         /\ BagToSet(B (-) SetToBag({e})) \subseteq BagToSet(B)
<1> DEFINE Taken == [x \in DOMAIN B |-> IF x \in {e} THEN B[x] - 1 ELSE B[x]]
           C == B (-) SetToBag({e})
<1>1. C = [x \in {d \in DOMAIN Taken : Taken[d] > 0} |-> Taken[x]]
  BY DEF (-), SetToBag
<1>2. \A x \in DOMAIN B : B[x] \in Nat /\ B[x] > 0
  BY DEF IsABag
<1>3. \A x \in DOMAIN B : Taken[x] \in Int
  BY <1>2
<1>4. DOMAIN C = {d \in DOMAIN B : Taken[d] > 0} /\ \A x \in DOMAIN C : C[x] = Taken[x]
  BY <1>1
<1>5. C = [x \in DOMAIN C |-> C[x]]
  BY <1>1
<1> HIDE DEF C, Taken
<1>6. \A x \in DOMAIN C : C[x] \in Nat /\ C[x] > 0
  BY <1>3, <1>4
<1>7. IsABag(C) /\ BagToSet(C) \subseteq BagToSet(B)
  BY <1>4, <1>5, <1>6 DEF IsABag, BagToSet
<1> QED  BY <1>7 DEF C

\* Changing one entry of requests or downloads.
LEMMA Update2 ==
  ASSUME NEW f \in [Peers -> [Pieces -> Nat]], NEW n \in Peers, NEW p \in Pieces,
         NEW v \in Nat
  PROVE  [f EXCEPT ![n][p] = v] \in [Peers -> [Pieces -> Nat]]
<1>1. [f[n] EXCEPT ![p] = v] \in [Pieces -> Nat]
  OBVIOUS
<1> QED  BY <1>1

\* Spending one unit of a bound.
LEMMA Spend ==
  ASSUME NEW b \in [conn : Nat, choke : Nat, fail : Nat]
  PROVE  /\ b.conn > 0 => [b EXCEPT !.conn = b.conn - 1] \in [conn : Nat, choke : Nat, fail : Nat]
         /\ b.choke > 0 => [b EXCEPT !.choke = b.choke - 1] \in [conn : Nat, choke : Nat, fail : Nat]
         /\ b.fail > 0 => [b EXCEPT !.fail = b.fail - 1] \in [conn : Nat, choke : Nat, fail : Nat]
<1>1. b.conn \in Nat /\ b.choke \in Nat /\ b.fail \in Nat
  OBVIOUS
<1>2. b.conn > 0 => b.conn - 1 \in Nat
  BY <1>1
<1>3. b.choke > 0 => b.choke - 1 \in Nat
  BY <1>1
<1>4. b.fail > 0 => b.fail - 1 \in Nat
  BY <1>1
<1>5. \A k \in Nat : /\ [b EXCEPT !.conn = k] \in [conn : Nat, choke : Nat, fail : Nat]
                     /\ [b EXCEPT !.choke = k] \in [conn : Nat, choke : Nat, fail : Nat]
                     /\ [b EXCEPT !.fail = k] \in [conn : Nat, choke : Nat, fail : Nat]
  OBVIOUS
<1> QED  BY <1>2, <1>3, <1>4, <1>5

\* The messages that the controller takes are the ones module Controller lets
\* arrive.
LEMMA ControllerStep ==
  STypeOK /\ (ControllerTakes \/ ControllerContinues \/ ControllerCancels) => Next
<1> SUFFICES ASSUME STypeOK, ControllerTakes \/ ControllerContinues \/ ControllerCancels
             PROVE  Next
  OBVIOUS
<1>1. CASE ControllerTakes
  <2>1. PICK m \in SMessages : ControllerReceives(m)
    BY <1>1 DEF ControllerTakes, STypeOK
  <2>2. CASE m.type = "received" /\ ReceivedPiece(m.peer, m.piece)
    BY <2>2 DEF SMessages, Next, TakeMessage
  <2>3. CASE m.type = "newPeer" /\ NewPeer(m.peer)
    BY <2>3 DEF SMessages, Next, TakeMessage
  <2>4. CASE m.type = "deadPeer" /\ DeadPeer(m.peer)
    BY <2>4 DEF SMessages, Next, TakeMessage
  <2>5. CASE m.type = "choke" /\ ChokeStatus(m.peer, m.choked)
    BY <2>5 DEF SMessages, Next, TakeMessage
  <2>6. CASE m.type = "have" /\ HavePiece(m.peer, m.batch)
    BY <2>6 DEF SMessages, Next, TakeMessage
  <2> QED  BY <2>1, <2>2, <2>3, <2>4, <2>5, <2>6 DEF ControllerReceives
<1>2. CASE ControllerContinues \/ ControllerCancels
  BY <1>2 DEF ControllerContinues, ControllerCancels, Next
<1> QED  BY <1>1, <1>2

\* Every other step leaves the controller alone.
LEMMA SwarmStep == STypeOK /\ [SNext]_svars => [Next]_vars
<1> SUFFICES ASSUME STypeOK, [SNext]_svars PROVE [Next]_vars
  OBVIOUS
<1>2. CASE ControllerTakes \/ ControllerContinues \/ ControllerCancels
  BY <1>2, ControllerStep
<1>3. CASE PeerManagerStep
  BY <1>3 DEF PeerManagerStep, TrackerPeer, Accept, Connect, TakeConn, RemovePeer,
              StartSeeding
<1>4. ASSUME NEW n \in Peers, PeerStep(n) PROVE UNCHANGED vars
  BY <1>4 DEF PeerStep, FirstHave, Choke, Unchoke, Announce, TakeRequest,
              FinishPiece, PeerStops, PeerWedges, Fail
<1>5. ASSUME NEW n \in Peers, NEW p \in Pieces, WritePiece(n, p)
      PROVE  UNCHANGED vars
  BY <1>5 DEF WritePiece
<1>6. CASE UNCHANGED svars
  BY <1>6 DEF svars
<1> QED  BY <1>2, <1>3, <1>4, <1>5, <1>6 DEF SNext

\* The part of SIInv that is about the components around the controller.
LEMMA InitSIInv == SInit => SIInv
<1> SUFFICES ASSUME SInit PROVE SIInv
  OBVIOUS
<1>1. IInv
  BY InitIInv DEF SInit
<1>2. IsABag(EmptyBag) /\ BagToSet(EmptyBag) = {}
  BY DEF EmptyBag, SetToBag, IsABag, BagToSet
<1>3. STypeOK
  <2>1. TypeOK /\ disk \subseteq Pieces
    BY <1>1 DEF IInv, TypeOK, SInit
  <2>2. None \in [Pieces -> Nat]
    BY DEF None
  <2>3. /\ requests \in [Peers -> [Pieces -> Nat]]
        /\ downloads \in [Peers -> [Pieces -> Nat]]
    BY <2>2 DEF SInit
  <2>4. budget \in [conn : Nat, choke : Nat, fail : Nat]
    BY SwarmAssumption DEF SInit, SwarmAssumption
  <2>5. /\ IsABag(toController) /\ BagToSet(toController) \subseteq SMessages
        /\ IsABag(writes) /\ BagToSet(writes) \subseteq Peers \X Pieces
    BY <1>2 DEF SInit
  <2>6. /\ pmPeers \subseteq Peers /\ numPeers \in Nat
        /\ conns \in [Peers -> Nat] /\ inc \in [Peers -> Nat] /\ chans \in [Peers -> Nat]
        /\ run \in [Peers -> {"none", "waiting", "running", "stopping", "wedged",
                              "noHandshake"}]
        /\ peerChoking \in [Peers -> BOOLEAN]
        /\ announced \in [Peers -> SUBSET Pieces]
    BY DEF SInit
  <2>7. seeding \in BOOLEAN /\ seedingSend \in BOOLEAN
    <3>1. (Seeding \in out) \in BOOLEAN
      OBVIOUS
    <3>2. seeding = FALSE /\ seedingSend = (Seeding \in out)
      BY DEF SInit
    <3> HIDE DEF SInit
    <3> QED  BY <3>1, <3>2, Zenon
  <2> QED  BY <2>1, <2>3, <2>4, <2>5, <2>6, <2>7 DEF STypeOK
<1>4. PeerCountExact
  BY FS_EmptySet, SwarmAssumption DEF SInit, PeerCountExact, SwarmAssumption
<1>5. FinishedOnDisk /\ ReportedOnDisk
  BY <1>2 DEF SInit, FinishedOnDisk, ReportedOnDisk, BagIn
<1>6. \A n \in Peers : run[n] # "none" => n \in pmPeers
  BY DEF SInit
<1> QED  BY <1>1, <1>3, <1>4, <1>5, <1>6 DEF SIInv

\* send adds one message; if it is no report of a piece that is not on disk,
\* ReportedOnDisk stays true.
LEMMA SendKeeps ==
  ASSUME STypeOK, ReportedOnDisk, NEW m \in SMessages, send(m),
         disk \subseteq disk',
         m.type = "received" => m.piece \in disk'
  PROVE  /\ IsABag(toController')
         /\ BagToSet(toController') \subseteq SMessages
         /\ ReportedOnDisk'
<1>1. /\ IsABag(toController')
      /\ BagToSet(toController') = BagToSet(toController) \cup {m}
  BY BagAdd DEF send, STypeOK
<1>2. BagToSet(toController') \subseteq SMessages
  BY <1>1 DEF STypeOK
<1>3. ASSUME NEW n \in Peers, NEW p \in Pieces, BagIn(ReceivedMsg(n, p), toController')
      PROVE  p \in disk'
  <2>1. CASE BagIn(ReceivedMsg(n, p), toController)
    BY <2>1 DEF ReportedOnDisk
  <2>2. CASE ReceivedMsg(n, p) = m
    <3>1. m.type = "received" /\ m.piece = p
      BY <2>2 DEF ReceivedMsg
    <3> QED  BY <3>1
  <2> QED  BY <1>1, <1>3, <2>1, <2>2 DEF BagIn
<1>4. ReportedOnDisk'
  BY <1>3 DEF ReportedOnDisk, ReceivedMsg
<1> QED  BY <1>1, <1>2, <1>4

\* Steps of the controller.
LEMMA ControllerSIInv ==
  ASSUME SIInv, IInv', ControllerTakes \/ ControllerContinues \/ ControllerCancels
  PROVE  SIInv'
<1> USE DEF SIInv
<1>1. TypeOK'
  BY DEF IInv
<1>2. CASE ControllerTakes
  <2>1. PICK m \in SMessages : BagIn(m, toController) /\ ControllerReceives(m)
    BY <1>2 DEF ControllerTakes, STypeOK, BagIn
  <2>2. /\ IsABag(toController')
        /\ BagToSet(toController') \subseteq BagToSet(toController)
    BY <2>1, BagRemove DEF ControllerReceives, Receive, STypeOK
  <2>3. UNCHANGED <<pmVars, peerVars, downloads, writes, disk, budget>>
    BY <2>1 DEF ControllerReceives
  <2>4. chans' \in [Peers -> Nat]
    <3>1. m.type = "newPeer" => m.inc \in Nat
      BY DEF SMessages
    <3>2. \/ chans' = chans
          \/ m.type = "newPeer" /\ chans' = [chans EXCEPT ![m.peer] = m.inc]
          \/ chans' = [chans EXCEPT ![m.peer] = 0]
      BY <2>1 DEF ControllerReceives
    <3> QED  BY <3>1, <3>2 DEF STypeOK
  <2>5. requests' \in [Peers -> [Pieces -> Nat]] /\ seedingSend' \in BOOLEAN
    BY <2>1 DEF ControllerReceives, LaunchSends, STypeOK
  <2>6. STypeOK'
    BY <1>1, <2>2, <2>3, <2>4, <2>5 DEF STypeOK, pmVars, peerVars
  <2>7. ReportedOnDisk'
    BY <2>2, <2>3 DEF ReportedOnDisk, BagIn, ReceivedMsg
  <2>8. FinishedOnDisk'
    <3>1. CASE m.type = "received" /\ ReceivedPiece(m.peer, m.piece)
      <4>1. m = ReceivedMsg(m.peer, m.piece) /\ m.peer \in Peers /\ m.piece \in Pieces
        BY <3>1 DEF SMessages, ReceivedMsg
      <4>2. m.piece \in disk
        BY <2>1, <4>1 DEF ReportedOnDisk
      <4> QED  BY <2>3, <3>1, <4>2 DEF FinishedOnDisk, ReceivedPiece
    <3>2. CASE m.type # "received"
      <4>1. UNCHANGED finishedPieces
        BY <2>1, <3>2 DEF ControllerReceives, NewPeer, DeadPeer, ChokeStatus, HavePiece,
                          UnknownPeerMessage
      <4> QED  BY <4>1, <2>3 DEF FinishedOnDisk
    <3> QED  BY <2>1, <3>1, <3>2 DEF ControllerReceives
  <2> QED  BY <2>3, <2>6, <2>7, <2>8 DEF pmVars, peerVars, PeerCountExact
<1>3. CASE ControllerContinues
  <2>1. UNCHANGED <<toController, pmVars, peerVars, chans, downloads, writes, disk,
                    budget, finishedPieces>>
    BY <1>3 DEF ControllerContinues, Continue, CancelOther, CancelsDone,
                RequestsForNextPeer
  <2>2. requests' \in [Peers -> [Pieces -> Nat]] /\ seedingSend' \in BOOLEAN
    BY <1>3 DEF ControllerContinues, LaunchSends, STypeOK
  <2>3. STypeOK'
    BY <1>1, <2>1, <2>2 DEF STypeOK, pmVars, peerVars
  <2> QED  BY <2>1, <2>3 DEF pmVars, peerVars, PeerCountExact, FinishedOnDisk,
                             ReportedOnDisk, BagIn, ReceivedMsg
<1>4. CASE ControllerCancels
  <2>1. UNCHANGED <<toController, pmVars, seedingSend, peerVars, chans, requests,
                    writes, disk, budget, finishedPieces>>
    BY <1>4 DEF ControllerCancels, CancelDelivered
  <2>2. blockedOn \in Peers /\ piece \in Pieces
    BY <1>4 DEF ControllerCancels, CancelDelivered, IInv, PhaseOK, TypeOK
  <2>3. downloads' \in [Peers -> [Pieces -> Nat]]
    <3>1. CASE downloads[blockedOn][piece] = 0
      BY <1>4, <3>1 DEF ControllerCancels, STypeOK
    <3>2. CASE downloads[blockedOn][piece] # 0
      <4>1. downloads[blockedOn][piece] - 1 \in Nat
        BY <2>2, <3>2 DEF STypeOK
      <4>2. downloads' = [downloads EXCEPT ![blockedOn][piece] =
                            downloads[blockedOn][piece] - 1]
        BY <1>4, <3>2 DEF ControllerCancels
      <4> QED  BY <2>2, <4>1, <4>2, Update2 DEF STypeOK
    <3> QED  BY <3>1, <3>2
  <2>4. STypeOK'
    BY <1>1, <2>1, <2>3 DEF STypeOK, pmVars, peerVars
  <2> QED  BY <2>1, <2>4 DEF pmVars, peerVars, PeerCountExact, FinishedOnDisk,
                             ReportedOnDisk, BagIn, ReceivedMsg
<1> QED  BY <1>2, <1>3, <1>4

\* Steps of the peer manager.
LEMMA PeerManagerSIInv ==
  ASSUME SIInv, IInv', PeerManagerStep
  PROVE  SIInv'
<1> USE DEF SIInv
<1>1. TypeOK'
  BY DEF IInv
<1>2. IsFiniteSet(pmPeers) /\ Cardinality(pmPeers) \in Nat
  BY FS_Subset, FS_CardinalityType, ControllerAssumption DEF STypeOK, ControllerAssumption
<1>3. ASSUME NEW n \in Peers, Connect(n) PROVE SIInv'
  <2>1. UNCHANGED <<vars, toController, pmPeers, numPeers, seeding, seedingSend,
                    peerVars, chans, requests, downloads, writes, disk>>
    BY <1>3 DEF Connect
  <2>2. conns' \in [Peers -> Nat] /\ budget' \in [conn : Nat, choke : Nat, fail : Nat]
    <3>1. conns' \in [Peers -> Nat]
      BY <1>3 DEF Connect, STypeOK
    <3>2. budget.conn > 0 /\ budget' = [budget EXCEPT !.conn = budget.conn - 1]
      BY <1>3 DEF Connect
    <3> QED  BY <3>1, <3>2, Spend DEF STypeOK
  <2>3. STypeOK'
    BY <1>1, <2>1, <2>2 DEF STypeOK, peerVars
  <2> QED  BY <2>1, <2>3 DEF vars, peerVars, PeerCountExact, FinishedOnDisk,
                             ReportedOnDisk, BagIn, ReceivedMsg
<1>4. ASSUME NEW n \in Peers, TakeConn(n) PROVE SIInv'
  <2>1. /\ UNCHANGED <<vars, seeding, seedingSend, chans, requests, downloads, writes,
                       disk, budget>>
        /\ conns' \in [Peers -> Nat]
    BY <1>4 DEF TakeConn, STypeOK
  <2>2. CASE UNCHANGED <<pmPeers, numPeers, peerVars, toController>>
    <3>1. STypeOK'
      BY <1>1, <2>1, <2>2 DEF STypeOK, peerVars
    <3> QED  BY <2>1, <2>2, <3>1 DEF vars, peerVars, PeerCountExact, FinishedOnDisk,
                                     ReportedOnDisk, BagIn, ReceivedMsg
  <2>3. CASE /\ numPeers < MaxPeers /\ n \notin pmPeers
             /\ pmPeers' = pmPeers \cup {n}
             /\ numPeers' = numPeers + 1
             /\ inc' = [inc EXCEPT ![n] = @ + 1]
             /\ run' = [run EXCEPT ![n] = "waiting"]
             /\ peerChoking' = [peerChoking EXCEPT ![n] = TRUE]
             /\ announced' = [announced EXCEPT ![n] = {}]
             /\ send(NewPeerMsg(n))
    <3>1. /\ inc' \in [Peers -> Nat] /\ peerChoking' \in [Peers -> BOOLEAN]
          /\ announced' \in [Peers -> SUBSET Pieces]
          /\ run' \in [Peers -> {"none", "waiting", "running", "stopping", "wedged",
                                 "noHandshake"}]
      BY <2>3 DEF STypeOK
    <3>2. NewPeerMsg(n) \in SMessages /\ NewPeerMsg(n).type # "received"
      BY <3>1 DEF NewPeerMsg, SMessages
    <3>3. /\ IsABag(toController') /\ BagToSet(toController') \subseteq SMessages
          /\ ReportedOnDisk'
      BY <2>1, <2>3, <3>2, SendKeeps
    <3>4. numPeers' \in Nat /\ pmPeers' \subseteq Peers
      BY <2>3 DEF STypeOK
    <3>5. STypeOK'
      BY <1>1, <2>1, <3>1, <3>3, <3>4 DEF STypeOK
    <3>6. PeerCountExact'
      <4>1. Cardinality(pmPeers') = Cardinality(pmPeers) + 1
        BY <1>2, <2>3, FS_AddElement
      <4> QED  BY <4>1, <2>3, SwarmAssumption DEF PeerCountExact, STypeOK, SwarmAssumption
    <3>7. \A k \in Peers : run'[k] # "none" => k \in pmPeers'
      BY <2>3 DEF STypeOK
    <3>8. FinishedOnDisk'
      BY <2>1 DEF FinishedOnDisk, vars
    <3> QED  BY <3>3, <3>5, <3>6, <3>7, <3>8
  <2> QED  BY <1>4, <2>2, <2>3 DEF TakeConn, StartPeer
<1>5. ASSUME NEW n \in Peers, RemovePeer(n) PROVE SIInv'
  <2>1. /\ UNCHANGED <<vars, seeding, conns, seedingSend, inc, peerChoking, announced,
                       chans, requests, downloads, writes, disk, budget>>
        /\ run[n] = "stopping" /\ n \in pmPeers
        /\ run' = [run EXCEPT ![n] = "none"]
        /\ pmPeers' = pmPeers \ {n} /\ numPeers' = numPeers - 1
        /\ send(DeadPeerMsg(n))
    BY <1>5 DEF RemovePeer
  <2>2. DeadPeerMsg(n) \in SMessages /\ DeadPeerMsg(n).type # "received"
    BY DEF DeadPeerMsg, SMessages
  <2>3. /\ IsABag(toController') /\ BagToSet(toController') \subseteq SMessages
        /\ ReportedOnDisk'
    BY <2>1, <2>2, SendKeeps
  <2>4. Cardinality(pmPeers') = Cardinality(pmPeers) - 1 /\ IsFiniteSet(pmPeers')
    BY <1>2, <2>1, FS_RemoveElement
  <2>5. Cardinality(pmPeers') \in Nat
    BY <2>4, FS_CardinalityType
  <2>6. PeerCountExact' /\ numPeers' \in Nat
    BY <1>2, <2>1, <2>4, <2>5, SwarmAssumption DEF PeerCountExact, SwarmAssumption
  <2>7. /\ run' \in [Peers -> {"none", "waiting", "running", "stopping", "wedged",
                               "noHandshake"}]
        /\ \A k \in Peers : run'[k] # "none" => k \in pmPeers'
    BY <2>1 DEF STypeOK
  <2>8. STypeOK'
    BY <1>1, <2>1, <2>3, <2>6, <2>7 DEF STypeOK
  <2>9. FinishedOnDisk'
    BY <2>1 DEF FinishedOnDisk, vars
  <2> QED  BY <2>3, <2>6, <2>7, <2>8, <2>9
<1>6. ASSUME StartSeeding PROVE SIInv'
  <2>1. /\ UNCHANGED <<vars, toController, pmPeers, numPeers, conns, peerVars, chans,
                       requests, downloads, writes, disk, budget>>
        /\ seeding' \in BOOLEAN /\ seedingSend' \in BOOLEAN
    BY <1>6 DEF StartSeeding
  <2>2. STypeOK'
    BY <1>1, <2>1 DEF STypeOK, peerVars
  <2> QED  BY <2>1, <2>2 DEF vars, peerVars, PeerCountExact, FinishedOnDisk,
                             ReportedOnDisk, BagIn, ReceivedMsg
<1> QED  BY <1>3, <1>4, <1>5, <1>6 DEF PeerManagerStep, TrackerPeer, Accept
\* Steps of a peer.  They leave the controller, the peer manager and the disk
\* alone; a message they send is no report of a piece.
LEMMA PeerSIInv ==
  ASSUME SIInv, IInv', NEW n \in Peers, PeerStep(n)
  PROVE  SIInv'
<1> USE DEF SIInv
<1> DEFINE runs == {"none", "waiting", "running", "stopping", "wedged", "noHandshake"}
           kept == UNCHANGED <<vars, pmPeers, numPeers, seeding, conns, seedingSend,
                               inc, chans, disk>>
           typed == /\ IsABag(writes') /\ BagToSet(writes') \subseteq Peers \X Pieces
                    /\ run' \in [Peers -> runs]
                    /\ peerChoking' \in [Peers -> BOOLEAN]
                    /\ announced' \in [Peers -> SUBSET Pieces]
                    /\ requests' \in [Peers -> [Pieces -> Nat]]
                    /\ downloads' \in [Peers -> [Pieces -> Nat]]
                    /\ budget' \in [conn : Nat, choke : Nat, fail : Nat]
           told == /\ IsABag(toController') /\ BagToSet(toController') \subseteq SMessages
                   /\ ReportedOnDisk'
           known == \A k \in Peers : run'[k] # "none" => k \in pmPeers'
<1>1. kept /\ typed /\ told /\ known => SIInv'
  <2> SUFFICES ASSUME kept, typed, told, known PROVE SIInv'
    OBVIOUS
  <2>1. STypeOK'
    BY DEF IInv, STypeOK
  <2>2. PeerCountExact' /\ FinishedOnDisk'
    BY DEF PeerCountExact, FinishedOnDisk, vars
  <2> QED  BY <2>1, <2>2
<1>2. UNCHANGED <<toController, disk>> => told
  BY DEF STypeOK, ReportedOnDisk, BagIn, ReceivedMsg
<1>3. kept /\ UNCHANGED run => known
  OBVIOUS
<1>4. \A m \in SMessages : send(m) /\ UNCHANGED disk /\ m.type # "received" => told
  BY SendKeeps
<1>5. /\ None \in [Pieces -> Nat]
      /\ [downloads EXCEPT ![n] = None] \in [Peers -> [Pieces -> Nat]]
      /\ [requests EXCEPT ![n] = None] \in [Peers -> [Pieces -> Nat]]
  BY DEF None, STypeOK
<1>6. CASE FirstHave(n)
  <2>1. kept /\ UNCHANGED toController /\ known
    BY <1>6 DEF FirstHave, pmVars, STypeOK
  <2>2. typed
    BY <1>6 DEF FirstHave, STypeOK
  <2> QED  BY <1>1, <1>2, <2>1, <2>2
<1>7. CASE Choke(n)
  <2>1. kept /\ UNCHANGED run /\ send(ChokeMsg(n, TRUE))
    BY <1>7 DEF Choke, pmVars
  <2>2. ChokeMsg(n, TRUE) \in SMessages /\ ChokeMsg(n, TRUE).type # "received"
    BY DEF ChokeMsg, SMessages
  <2>3. budget' \in [conn : Nat, choke : Nat, fail : Nat]
    <3>1. budget.choke > 0 /\ budget' = [budget EXCEPT !.choke = budget.choke - 1]
      BY <1>7 DEF Choke
    <3> QED  BY <3>1, Spend DEF STypeOK
  <2>4. typed
    BY <1>5, <1>7, <2>3 DEF Choke, STypeOK
  <2> QED  BY <1>1, <1>3, <1>4, <2>1, <2>2, <2>4
<1>8. CASE Unchoke(n)
  <2>1. kept /\ UNCHANGED run /\ send(ChokeMsg(n, FALSE))
    BY <1>8 DEF Unchoke, pmVars
  <2>2. ChokeMsg(n, FALSE) \in SMessages /\ ChokeMsg(n, FALSE).type # "received"
    BY DEF ChokeMsg, SMessages
  <2>3. typed
    BY <1>8 DEF Unchoke, STypeOK
  <2> QED  BY <1>1, <1>3, <1>4, <2>1, <2>2, <2>3
<1>9. ASSUME NEW batch \in SUBSET RemoteHas[n], Announce(n, batch) PROVE SIInv'
  <2>1. kept /\ UNCHANGED run /\ send(HaveMsg(n, batch))
    BY <1>9 DEF Announce, pmVars
  <2>2. batch \in (SUBSET Pieces) \ {{}}
    <3>1. RemoteHas[n] \subseteq Pieces
      BY SwarmAssumption DEF SwarmAssumption
    <3>2. batch # {}
      BY <1>9 DEF Announce
    <3>3. batch \subseteq Pieces
      BY <1>9, <3>1
    <3> QED  BY <3>2, <3>3
  <2>3. HaveMsg(n, batch) \in SMessages /\ HaveMsg(n, batch).type # "received"
    BY <2>2 DEF HaveMsg, SMessages
  <2>4. typed
    BY <1>9, <2>2 DEF Announce, STypeOK
  <2> QED  BY <1>1, <1>3, <1>4, <2>1, <2>3, <2>4
<1>10. ASSUME NEW p \in Pieces, TakeRequest(n, p) PROVE SIInv'
  <2>1. kept /\ UNCHANGED <<toController, run>>
    BY <1>10 DEF TakeRequest, pmVars, peerVars
  <2>2. requests[n][p] - 1 \in Nat /\ downloads[n][p] + 1 \in Nat
    BY <1>10 DEF TakeRequest, STypeOK
  <2>3. /\ requests' = [requests EXCEPT ![n][p] = requests[n][p] - 1]
        /\ downloads' = [downloads EXCEPT ![n][p] = downloads[n][p] + 1]
    BY <1>10 DEF TakeRequest
  <2>4. /\ requests' \in [Peers -> [Pieces -> Nat]]
        /\ downloads' \in [Peers -> [Pieces -> Nat]]
    BY <2>2, <2>3, Update2 DEF STypeOK
  <2>5. typed
    BY <1>10, <2>4 DEF TakeRequest, peerVars, STypeOK
  <2> QED  BY <1>1, <1>2, <1>3, <2>1, <2>5
<1>11. ASSUME NEW p \in Pieces, FinishPiece(n, p) PROVE SIInv'
  <2>1. kept /\ UNCHANGED <<toController, run>>
    BY <1>11 DEF FinishPiece, pmVars, peerVars
  <2>2. downloads[n][p] - 1 \in Nat
    BY <1>11 DEF FinishPiece, STypeOK
  <2>3. downloads' = [downloads EXCEPT ![n][p] = downloads[n][p] - 1]
    BY <1>11 DEF FinishPiece
  <2>4. downloads' \in [Peers -> [Pieces -> Nat]]
    BY <2>2, <2>3, Update2 DEF STypeOK
  <2>5. IsABag(writes') /\ BagToSet(writes') \subseteq Peers \X Pieces
    <3>1. IsABag(writes') /\ BagToSet(writes') = BagToSet(writes) \cup {<<n, p>>}
      BY <1>11, BagAdd DEF FinishPiece, STypeOK
    <3> QED  BY <3>1 DEF STypeOK
  <2>6. typed
    BY <1>11, <2>4, <2>5 DEF FinishPiece, peerVars, STypeOK
  <2> QED  BY <1>1, <1>2, <1>3, <2>1, <2>6
<1>12. ASSUME NEW where \in runs \ {"none"}, Fail(n, where), run[n] # "none"
       PROVE  /\ kept /\ UNCHANGED toController /\ known
              /\ downloads' \in [Peers -> [Pieces -> Nat]] => typed
  <2>1. kept /\ UNCHANGED toController /\ run' = [run EXCEPT ![n] = where]
    BY <1>12 DEF Fail, pmVars
  <2>2. known
    BY <1>12, <2>1 DEF STypeOK
  <2>3. budget' \in [conn : Nat, choke : Nat, fail : Nat]
    <3>1. budget.fail > 0 /\ budget' = [budget EXCEPT !.fail = budget.fail - 1]
      BY <1>12 DEF Fail
    <3> QED  BY <3>1, Spend DEF STypeOK
  <2>4. /\ run' \in [Peers -> runs]
        /\ requests' \in [Peers -> [Pieces -> Nat]]
        /\ UNCHANGED <<writes, peerChoking, announced>>
    BY <1>5, <1>12, <2>1 DEF Fail, STypeOK
  <2>5. downloads' \in [Peers -> [Pieces -> Nat]] => typed
    BY <2>3, <2>4 DEF STypeOK
  <2> QED  BY <2>1, <2>2, <2>5
<1>13. CASE PeerStops(n)
  <2>1. run[n] # "none" /\ Fail(n, "stopping") /\ downloads' = [downloads EXCEPT ![n] = None]
    BY <1>13 DEF PeerStops
  <2>2. kept /\ UNCHANGED toController /\ known /\ typed
    BY <1>5, <1>12, <2>1
  <2> QED  BY <1>1, <1>2, <2>2
<1>14. CASE PeerWedges(n)
  <2>1. /\ run[n] # "none"
        /\ Fail(n, "noHandshake") \/ Fail(n, "wedged")
        /\ downloads' = downloads
    BY <1>14 DEF PeerWedges
  <2>2. kept /\ UNCHANGED toController /\ known /\ typed
    BY <1>12, <2>1 DEF STypeOK
  <2> QED  BY <1>1, <1>2, <2>2
<1> QED  BY <1>6, <1>7, <1>8, <1>9, <1>10, <1>11, <1>13, <1>14 DEF PeerStep

\* A piece is on disk before it is reported.
LEMMA WritePieceSIInv ==
  ASSUME SIInv, IInv', NEW n \in Peers, NEW p \in Pieces, WritePiece(n, p)
  PROVE  SIInv'
<1> USE DEF SIInv
<1>1. /\ UNCHANGED <<vars, pmPeers, numPeers, seeding, conns, seedingSend, run, inc,
                     peerChoking, announced, chans, requests, downloads, budget>>
      /\ disk' = disk \cup {p} /\ send(ReceivedMsg(n, p))
      /\ writes' = writes (-) SetToBag({<<n, p>>})
  BY DEF WritePiece, pmVars, peerVars
<1>2. IsABag(writes') /\ BagToSet(writes') \subseteq Peers \X Pieces
  BY <1>1, BagRemove DEF STypeOK
<1>3. ReceivedMsg(n, p) \in SMessages /\ ReceivedMsg(n, p).piece \in disk'
  BY <1>1 DEF ReceivedMsg, SMessages
<1>4. /\ IsABag(toController') /\ BagToSet(toController') \subseteq SMessages
      /\ ReportedOnDisk'
  BY <1>1, <1>3, SendKeeps
<1>5. STypeOK'
  BY <1>1, <1>2, <1>4 DEF IInv, STypeOK
<1>6. PeerCountExact' /\ FinishedOnDisk'
  BY <1>1 DEF PeerCountExact, FinishedOnDisk, vars
<1> QED  BY <1>1, <1>4, <1>5, <1>6

\* Every step of the whole system.
LEMMA NextSIInv == SIInv /\ [SNext]_svars => SIInv'
<1> SUFFICES ASSUME SIInv, [SNext]_svars PROVE SIInv'
  OBVIOUS
<1>1. IInv'
  BY SwarmStep, NextIInv DEF SIInv
<1>2. CASE ControllerTakes \/ ControllerContinues \/ ControllerCancels
  BY <1>1, <1>2, ControllerSIInv
<1>3. CASE PeerManagerStep
  BY <1>1, <1>3, PeerManagerSIInv
<1>4. ASSUME NEW n \in Peers, PeerStep(n) PROVE SIInv'
  BY <1>1, <1>4, PeerSIInv
<1>5. ASSUME NEW n \in Peers, NEW p \in Pieces, WritePiece(n, p) PROVE SIInv'
  BY <1>1, <1>5, WritePieceSIInv
<1>6. CASE UNCHANGED svars
  <2>1. /\ UNCHANGED <<toController, pmPeers, numPeers, seeding, conns, seedingSend, run,
                       inc, peerChoking, announced, chans, requests, downloads, writes,
                       disk, budget>>
        /\ UNCHANGED finishedPieces
    BY <1>6 DEF svars, vars, pmVars, peerVars
  <2>2. STypeOK'
    BY <1>1, <2>1 DEF SIInv, IInv, STypeOK
  <2> QED  BY <1>1, <2>1, <2>2 DEF SIInv, PeerCountExact, FinishedOnDisk, ReportedOnDisk,
                                   BagIn, ReceivedMsg
<1> QED  BY <1>2, <1>3, <1>4, <1>5, <1>6 DEF SNext

-----------------------------------------------------------------------------

\* The inductive invariant of the whole system.
THEOREM SwarmInvariance == SSpec => []SIInv
<1> QED  BY InitSIInv, NextSIInv, PTL DEF SSpec

\* The controller among its peers behaves as module Controller allows: the
\* whole system implements its specification.
THEOREM ControllerInSwarm == SSpec => Spec
<1>1. SInit => Init
  BY DEF SInit
<1>2. SIInv /\ [SNext]_svars => [Next]_vars
  BY SwarmStep DEF SIInv
<1> QED  BY <1>1, <1>2, SwarmInvariance, PTL DEF SSpec, Spec

\* All state of the system stays in its types; no counter becomes negative.
THEOREM SwarmTypes == SSpec => []STypeOK
<1>1. SIInv => STypeOK
  BY DEF SIInv
<1> QED  BY <1>1, SwarmInvariance, PTL

\* pm.numPeers counts the registered peers and stays below maxPeers.
THEOREM PeerCountStaysExact == SSpec => []PeerCountExact
<1>1. SIInv => PeerCountExact
  BY DEF SIInv
<1> QED  BY <1>1, SwarmInvariance, PTL

\* What the controller counts as finished is on disk.
THEOREM FinishedIsOnDisk == SSpec => []FinishedOnDisk
<1>1. SIInv => FinishedOnDisk
  BY DEF SIInv
<1> QED  BY <1>1, SwarmInvariance, PTL

\* Every step stores a piece, counts a stored piece, or changes nothing that
\* module Download can see.
LEMMA DownloadStep ==
  SIInv /\ SIInv' /\ [SNext]_svars => [D!Next]_<<disk, finishedPieces, downloadComplete>>
<1> SUFFICES ASSUME SIInv, SIInv', [SNext]_svars
             PROVE  D!Next \/ UNCHANGED <<disk, finishedPieces, downloadComplete>>
  OBVIOUS
<1>1. CASE ControllerTakes
  <2>1. PICK m \in SMessages : BagIn(m, toController) /\ ControllerReceives(m)
    BY <1>1 DEF ControllerTakes, SIInv, STypeOK, BagIn
  <2>2. UNCHANGED disk
    BY <2>1 DEF ControllerReceives
  <2>3. CASE m.type = "received" /\ ReceivedPiece(m.peer, m.piece)
    <3>1. m = ReceivedMsg(m.peer, m.piece) /\ m.peer \in Peers /\ m.piece \in Pieces
      BY <2>3 DEF SMessages, ReceivedMsg
    <3>2. m.piece \in disk
      BY <2>1, <3>1 DEF SIInv, ReportedOnDisk
    <3>3. finishedPieces' = finishedPieces \cup {m.piece}
      BY <2>3 DEF ReceivedPiece
    <3>4. /\ downloadComplete \in BOOLEAN /\ downloadComplete' \in BOOLEAN
          /\ downloadComplete <=> finishedPieces = Pieces
          /\ downloadComplete' <=> finishedPieces' = Pieces
      BY DEF SIInv, IInv, TypeOK, PhaseOK
    <3>5. downloadComplete' = (finishedPieces' = Pieces)
      BY <3>4
    <3>6. CASE m.piece \in finishedPieces
      <4>1. UNCHANGED finishedPieces
        BY <3>3, <3>6
      <4>2. UNCHANGED downloadComplete
        BY <3>4, <4>1
      <4> QED  BY <2>2, <4>1, <4>2
    <3>7. CASE m.piece \notin finishedPieces
      <4>1. D!Count(m.piece)
        BY <2>2, <3>2, <3>3, <3>5, <3>7 DEF D!Count
      <4> QED  BY <3>1, <4>1 DEF D!Next
    <3> QED  BY <3>6, <3>7
  <2>4. CASE m.type # "received"
    BY <2>1, <2>2, <2>4 DEF ControllerReceives, NewPeer, DeadPeer, ChokeStatus, HavePiece,
                            UnknownPeerMessage
  <2> QED  BY <2>1, <2>3, <2>4 DEF ControllerReceives
<1>2. CASE ControllerContinues
  BY <1>2 DEF ControllerContinues, Continue, CancelOther, CancelsDone, RequestsForNextPeer
<1>3. CASE ControllerCancels
  BY <1>3 DEF ControllerCancels, CancelDelivered
<1>4. CASE PeerManagerStep
  BY <1>4 DEF PeerManagerStep, TrackerPeer, Accept, Connect, TakeConn, RemovePeer,
              StartSeeding, vars
<1>5. ASSUME NEW n \in Peers, PeerStep(n)
      PROVE  UNCHANGED <<disk, finishedPieces, downloadComplete>>
  BY <1>5 DEF PeerStep, FirstHave, Choke, Unchoke, Announce, TakeRequest,
              FinishPiece, PeerStops, PeerWedges, Fail, vars
<1>6. ASSUME NEW n \in Peers, NEW p \in Pieces, WritePiece(n, p)
      PROVE  D!Next \/ UNCHANGED <<disk, finishedPieces, downloadComplete>>
  <2>1. disk' = disk \cup {p} /\ UNCHANGED <<finishedPieces, downloadComplete>>
    BY <1>6 DEF WritePiece, vars
  <2>2. CASE p \in disk
    BY <2>1, <2>2
  <2>3. CASE p \notin disk
    BY <2>1, <2>3 DEF D!Next, D!Store
  <2> QED  BY <2>2, <2>3
<1>7. CASE UNCHANGED svars
  BY <1>7 DEF svars, vars
<1> QED  BY <1>1, <1>2, <1>3, <1>4, <1>5, <1>6, <1>7 DEF SNext

\* Refinement: whatever peers, disk and controller do, in whatever order their
\* messages arrive and however connections fail, the system is a download as
\* module Download specifies it.
THEOREM SwarmIsADownload == SSpec => ImplementsDownload
<1>1. SInit => D!Init
  <2> SUFFICES ASSUME SInit PROVE D!Init
    OBVIOUS
  <2>1. finishedPieces \subseteq Pieces /\ disk = finishedPieces
    BY DEF SInit, Init
  <2>2. downloadComplete = (finishedPieces = Pieces)
    BY DEF SInit, Init
  <2> QED  BY <2>1, <2>2 DEF D!Init
<1> QED  BY <1>1, DownloadStep, SwarmInvariance, PTL DEF SSpec, ImplementsDownload, D!Spec
===============================================================================
