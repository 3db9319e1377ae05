-------------------------- MODULE SwarmRecordProofs --------------------------
(***************************************************************************)
(* Proofs about Swarm that relate the requests the controller has recorded *)
(* to what is really on its way: no request is lost, and every duplicate   *)
(* of a finished piece is cancelled.                                       *)
(***************************************************************************)
EXTENDS SwarmOrderProofs

-----------------------------------------------------------------------------
(* What the controller has recorded and what is on its way.                *)

\* A request that is recorded is sent, and one that is sent is recorded.
LEMMA SentIsRecorded ==
  ASSUME TypeOK, NEW k \in peers, NEW choked, NEW available,
         sendRequestsToPeer(k, choked, available), NEW n \in Peers, NEW p \in Pieces
  PROVE  /\ RequestPiece(n, p) \in out' => n = k /\ p \in activeRequests'[n]
         /\ p \in activeRequests'[n] \ activeRequests[n] =>
              n = k /\ RequestPiece(n, p) \in out'
<1>1. PICK S :
        /\ activeRequests' = [activeRequests EXCEPT ![k] = @ \cup S]
        /\ out' = {RequestPiece(k, q) : q \in S}
  BY DEF sendRequestsToPeer
<1>2. k \in Peers /\ activeRequests'[k] = activeRequests[k] \cup S
  BY <1>1 DEF TypeOK
<1>3. n # k => activeRequests'[n] = activeRequests[n]
  BY <1>1, <1>2 DEF TypeOK
<1>4. ASSUME RequestPiece(n, p) \in out' PROVE n = k /\ p \in S
  BY <1>1, <1>4 DEF RequestPiece
<1> QED  BY <1>1, <1>2, <1>3, <1>4

\* The same for every step of the controller that the system takes.
LEMMA RequestsRecorded ==
  ASSUME IInv, Next, NEW n \in Peers, NEW p \in Pieces
  PROVE  /\ RequestPiece(n, p) \in out' => n \in peers /\ p \in activeRequests'[n]
         /\ p \in activeRequests'[n] \ activeRequests[n] =>
              n \in peers /\ RequestPiece(n, p) \in out' /\ p \notin finishedPieces'
<1> DEFINE Goal == /\ RequestPiece(n, p) \in out' => n \in peers /\ p \in activeRequests'[n]
                   /\ p \in activeRequests'[n] \ activeRequests[n] =>
                        n \in peers /\ RequestPiece(n, p) \in out'
<1>0. TypeOK /\ RequestPiece(n, p).type = "request"
  BY DEF IInv, RequestPiece
<1>1. ASSUME NEW k \in peers, NEW choked, NEW available,
             sendRequestsToPeer(k, choked, available)
      PROVE  Goal
  BY <1>0, <1>1, SentIsRecorded
<1>2. ASSUME RequestPiece(n, p) \notin out', activeRequests'[n] \subseteq activeRequests[n]
      PROVE  Goal
  BY <1>2
<1>3. ASSUME NEW m \in Peers, NEW r \in Pieces, ReceivedPiece(m, r) PROVE Goal
  <2>1. \A x \in out' : x.type # "request"
    BY <1>3 DEF ReceivedPiece, SeedingReport, Seeding, sendHaveToPeersWhoNeedPiece,
                SendHave
  <2>2. activeRequests'[n] \subseteq activeRequests[n]
    BY <1>0, <1>3 DEF ReceivedPiece, dropActiveRequest, TypeOK
  <2> QED  BY <1>0, <1>2, <2>1, <2>2
<1>4. ASSUME NEW m \in Peers, NewPeer(m) PROVE Goal
  <2>1. \A x \in out' : x.type # "request"
    BY <1>4 DEF NewPeer, SendBitfield
  <2> QED  BY <1>0, <1>2, <1>4, <2>1 DEF NewPeer, peerInfo
<1>5. ASSUME CancelDelivered PROVE Goal
  <2>1. \A x \in out' : x.type # "request"
    BY <1>5 DEF CancelDelivered, CancelPiece
  <2> QED  BY <1>0, <1>2, <1>5, <2>1 DEF CancelDelivered, peerInfo
<1>6. ASSUME out' = {}, activeRequests'[n] \subseteq activeRequests[n] PROVE Goal
  BY <1>6
<1>7. ASSUME NEW m \in Peers, NEW choked \in BOOLEAN, ChokeStatus(m, choked) PROVE Goal
  <2>1. CASE m \in peers /\ removeUnfinishedWorkForPeer(m) /\ out' = {}
    BY <1>0, <1>6, <2>1 DEF removeUnfinishedWorkForPeer, TypeOK
  <2>2. CASE m \in peers /\ sendRequestsToPeer(m, isChoked', availablePieces)
    BY <1>1, <2>2
  <2> QED  BY <1>6, <1>7, <2>1, <2>2 DEF ChokeStatus, UnknownPeerMessage, peerInfo
<1>8. ASSUME NEW m \in Peers, NEW batch \in SUBSET Pieces, HavePiece(m, batch) PROVE Goal
  <2>1. CASE m \in peers /\ sendRequestsToPeer(m, isChoked, availablePieces')
    BY <1>1, <2>1
  <2> QED  BY <1>6, <1>8, <2>1 DEF HavePiece, UnknownPeerMessage, peerInfo
<1>9. ASSUME NEW m \in Peers, RequestsForNextPeer(m) PROVE Goal
  <2>1. m \in peers /\ sendRequestsToPeer(m, isChoked, availablePieces)
    BY <1>0, <1>9 DEF RequestsForNextPeer, TypeOK
  <2> QED  BY <1>1, <2>1
<1>10. ASSUME NEW m \in Peers, DeadPeer(m) \/ CancelOther(m) PROVE Goal
  <2>1. out' = {} /\ activeRequests'[n] \subseteq activeRequests[n]
    BY <1>0, <1>10 DEF DeadPeer, CancelOther, removeUnfinishedWorkForPeer,
                       dropActiveRequest, TypeOK, peerInfo
  <2> QED  BY <1>6, <2>1
<1>11. ASSUME Quit \/ CancelsDone PROVE Goal
  BY <1>6, <1>11 DEF Quit, CancelsDone, peerInfo
<1>12. Goal
  BY <1>3, <1>4, <1>5, <1>7, <1>8, <1>9, <1>10, <1>11 DEF Next, TakeMessage, Continue
<1>13. RequestPiece(n, p) \in out' => p \notin finishedPieces'
  BY RequestStep
<1> QED  BY <1>12, <1>13

\* What keeps a record of the controller from being forgotten.
Stuck == {"stopping", "wedged", "noHandshake"}

Carried(n, p) ==
  \/ OnItsWay(n, p)
  \/ Waits(ChokeMsg(n, TRUE)) \/ Waits(DeadPeerMsg(n))
  \/ run[n] \in Stuck

\* What the controller has recorded is on its way, or will be cleared.
Recorded(n) == Alive => \A p \in activeRequests[n] : Carried(n, p)

\* The record of a piece is dropped before its CANCEL is sent.
CancelAfterDrop == pc = "sending" => piece \notin activeRequests[blockedOn]

\* A step that takes nothing away.
LEMMA CarriedKept ==
  ASSUME NEW n, NEW p, Carried(n, p),
         requests[n][p] > 0 => requests'[n][p] > 0,
         downloads[n][p] > 0 => downloads'[n][p] > 0,
         <<n, p>> \in DOMAIN writes => <<n, p>> \in DOMAIN writes',
         Waits(ReceivedMsg(n, p)) => ReceivedMsg(n, p) \in DOMAIN toController',
         Waits(ChokeMsg(n, TRUE)) => ChokeMsg(n, TRUE) \in DOMAIN toController',
         Waits(DeadPeerMsg(n)) => DeadPeerMsg(n) \in DOMAIN toController',
         run[n] \in Stuck => run'[n] \in Stuck
  PROVE  Carried(n, p)'
  BY DEF Carried, OnItsWay, Waits, BagIn, BagToSet, ReceivedMsg, ChokeMsg, DeadPeerMsg

\* Something that carries it after the step.
LEMMA CarriedNow ==
  ASSUME NEW n, NEW p,
         \/ requests'[n][p] > 0
         \/ downloads'[n][p] > 0
         \/ <<n, p>> \in DOMAIN writes'
         \/ ReceivedMsg(n, p) \in DOMAIN toController'
         \/ ChokeMsg(n, TRUE) \in DOMAIN toController'
         \/ DeadPeerMsg(n) \in DOMAIN toController'
         \/ run'[n] \in Stuck
  PROVE  Carried(n, p)'
  BY DEF Carried, OnItsWay, Waits, BagIn, BagToSet, ReceivedMsg, ChokeMsg, DeadPeerMsg

\* The sends that a step of the controller starts.
LEMMA Launches ==
  ASSUME STypeOK, LaunchSends, NEW n \in Peers, NEW p \in Pieces
  PROVE  /\ requests[n][p] \in Nat
         /\ requests[n][p] > 0 => requests'[n][p] > 0
         /\ RequestPiece(n, p) \in out' /\ Reachable(n) => requests'[n][p] > 0
         /\ requests'[n][p] > 0 =>
              \/ requests[n][p] > 0
              \/ RequestPiece(n, p) \in out' /\ Reachable(n)
<1>1. requests[n][p] \in Nat
  BY DEF STypeOK
<1>2. requests'[n][p] = IF RequestPiece(n, p) \in out' /\ Reachable(n)
                        THEN requests[n][p] + 1 ELSE requests[n][p]
  BY DEF LaunchSends
<1> QED  BY <1>1, <1>2

\* A new record is carried: by the request, by the news that the peer is gone,
\* or by a peer that is stuck.
LEMMA NewRecordCarried ==
  ASSUME STypeOK, NEW n \in Peers, NEW p \in Pieces, Registration(n), LaunchSends,
         n \in peers, RequestPiece(n, p) \in out', chans' = chans, run' = run,
         Waits(DeadPeerMsg(n)) => DeadPeerMsg(n) \in DOMAIN toController'
  PROVE  Carried(n, p)'
<1>1. CASE Reachable(n)
  <2>1. requests'[n][p] > 0
    BY <1>1, Launches
  <2> QED  BY <2>1, CarriedNow
<1>2. CASE ~Reachable(n)
  <2>1. Waits(DeadPeerMsg(n)) \/ run[n] \in Stuck
    <3>1. \/ Waits(DeadPeerMsg(n))
          \/ chans[n] = inc[n] /\ run[n] # "none"
      BY DEF Registration
    <3>2. run[n] \in {"none", "waiting", "running", "stopping", "wedged", "noHandshake"}
      BY DEF STypeOK
    <3> QED  BY <1>2, <3>1, <3>2 DEF Reachable, Stuck
  <2> QED  BY <2>1, CarriedNow
<1> QED  BY <1>1, <1>2

\* Messages that the controller takes.
LEMMA ControllerRecorded ==
  ASSUME SIInv, IInv', NEW n \in Peers, Registration(n), Recorded(n), ControllerTakes
  PROVE  Recorded(n)'
<1>0. /\ STypeOK /\ IInv /\ TypeOK
      /\ activeRequests \in [Peers -> SUBSET Pieces] /\ activeRequests'[n] \subseteq Pieces
  BY DEF SIInv, IInv, TypeOK
<1>1. PICK m \in SMessages : ControllerReceives(m)
  BY <1>0 DEF ControllerTakes, STypeOK
<1>2. /\ Receive(m) /\ LaunchSends /\ UNCHANGED <<run, downloads, writes>>
      /\ m.peer \in Peers
  BY <1>1, MessageShapes DEF ControllerReceives, peerVars
<1>3. Alive
  BY <1>1 DEF ControllerReceives, ReceivedPiece, NewPeer, DeadPeer, ChokeStatus, HavePiece,
              UnknownPeerMessage, Alive, Crashed
<1>4. Next
  BY <1>0, ControllerStep
<1>5. SUFFICES ASSUME Alive', NEW p \in activeRequests'[n] PROVE Carried(n, p)'
  BY DEF Recorded
<1>6. CASE p \notin activeRequests[n]
  <2>1. n \in peers /\ RequestPiece(n, p) \in out'
    BY <1>0, <1>4, <1>6, RequestsRecorded
  <2>2. m.type \in {"choke", "have"}
    <3>1. activeRequests'[n] \subseteq activeRequests[n] \/ m.type \in {"choke", "have"}
      BY <1>0, <1>1 DEF ControllerReceives, ReceivedPiece, NewPeer, DeadPeer, peerInfo,
                        removeUnfinishedWorkForPeer, dropActiveRequest
    <3> QED  BY <1>6, <3>1
  <2>3. chans' = chans
    BY <1>1, <2>2 DEF ControllerReceives
  <2>4. DeadPeerMsg(n) # m
    BY <2>2, MessageFields
  <2>5. Waits(DeadPeerMsg(n)) => DeadPeerMsg(n) \in DOMAIN toController'
    BY <1>0, <1>2, <2>4, ReceivesOthers
  <2> QED  BY <1>0, <1>2, <2>1, <2>3, <2>5, NewRecordCarried
<1>7. CASE p \in activeRequests[n]
  <2>1. n \in peers /\ Carried(n, p) /\ p \in Pieces
    BY <1>0, <1>3, <1>7 DEF Recorded, IInv, RequestsJustified
  <2>2. m # ReceivedMsg(n, p)
    <3> SUFFICES ASSUME m = ReceivedMsg(n, p) PROVE FALSE
      OBVIOUS
    <3>1. m.type = "received" /\ m.peer = n /\ m.piece = p
      BY MessageFields
    <3>2. ReceivedPiece(n, p)
      BY <1>1, <3>1 DEF ControllerReceives
    <3>3. activeRequests'[n] = activeRequests[n] \ {p}
      BY <1>0, <1>7, <2>1, <3>2 DEF ReceivedPiece, dropActiveRequest
    <3> QED  BY <3>3
  <2>3. m # ChokeMsg(n, TRUE)
    <3> SUFFICES ASSUME m = ChokeMsg(n, TRUE) PROVE FALSE
      OBVIOUS
    <3>1. m.type = "choke" /\ m.peer = n /\ m.choked = TRUE
      BY DEF ChokeMsg
    <3>2. ChokeStatus(n, TRUE)
      BY <1>1, <3>1 DEF ControllerReceives
    <3>3. activeRequests'[n] = {}
      BY <1>0, <2>1, <3>2 DEF ChokeStatus, UnknownPeerMessage, removeUnfinishedWorkForPeer
    <3> QED  BY <3>3
  <2>4. m # DeadPeerMsg(n)
    <3> SUFFICES ASSUME m = DeadPeerMsg(n) PROVE FALSE
      OBVIOUS
    <3>1. m.type = "deadPeer" /\ m.peer = n
      BY MessageFields
    <3>2. DeadPeer(n)
      BY <1>1, <3>1 DEF ControllerReceives
    <3>3. activeRequests'[n] = {}
      BY <1>0, <2>1, <3>2 DEF DeadPeer, removeUnfinishedWorkForPeer
    <3> QED  BY <3>3
  <2>5. /\ Waits(ReceivedMsg(n, p)) => ReceivedMsg(n, p) \in DOMAIN toController'
        /\ Waits(ChokeMsg(n, TRUE)) => ChokeMsg(n, TRUE) \in DOMAIN toController'
        /\ Waits(DeadPeerMsg(n)) => DeadPeerMsg(n) \in DOMAIN toController'
    BY <1>0, <1>2, <2>2, <2>3, <2>4, ReceivesOthers
  <2>6. requests[n][p] > 0 => requests'[n][p] > 0
    BY <1>0, <1>2, <2>1, Launches
  <2> QED  BY <1>2, <2>1, <2>5, <2>6, CarriedKept
<1> QED  BY <1>6, <1>7

\* The rest of the received-piece handler.
LEMMA ContinueRecorded ==
  ASSUME SIInv, IInv', NEW n \in Peers, Registration(n), Recorded(n), CancelAfterDrop,
         ControllerContinues \/ ControllerCancels
  PROVE  Recorded(n)'
<1>0. /\ STypeOK /\ IInv /\ TypeOK
      /\ activeRequests \in [Peers -> SUBSET Pieces] /\ activeRequests'[n] \subseteq Pieces
  BY DEF SIInv, IInv, TypeOK
<1>1. Next
  BY <1>0, ControllerStep
<1>2. Alive /\ UNCHANGED <<run, writes, toController, chans>>
  BY DEF ControllerContinues, ControllerCancels, Continue, CancelOther, CancelsDone,
         RequestsForNextPeer, CancelDelivered, peerVars, Alive, Crashed
<1>3. SUFFICES ASSUME Alive', NEW p \in activeRequests'[n] PROVE Carried(n, p)'
  BY DEF Recorded
<1>4. CASE ControllerContinues
  <2>1. LaunchSends /\ UNCHANGED downloads
    BY <1>4 DEF ControllerContinues
  <2>2. CASE p \notin activeRequests[n]
    <3>1. n \in peers /\ RequestPiece(n, p) \in out'
      BY <1>0, <1>1, <2>2, RequestsRecorded
    <3>2. Waits(DeadPeerMsg(n)) => DeadPeerMsg(n) \in DOMAIN toController'
      BY <1>2 DEF Waits
    <3> QED  BY <1>0, <1>2, <2>1, <3>1, <3>2, NewRecordCarried
  <2>3. CASE p \in activeRequests[n]
    <3>1. Carried(n, p) /\ p \in Pieces
      BY <1>0, <1>2, <2>3 DEF Recorded
    <3>2. requests[n][p] > 0 => requests'[n][p] > 0
      BY <1>0, <2>1, <3>1, Launches
    <3> QED  BY <1>2, <2>1, <3>1, <3>2, CarriedKept DEF Waits
  <2> QED  BY <2>2, <2>3
<1>5. CASE ControllerCancels
  <2>1. /\ UNCHANGED <<requests, activeRequests>> /\ pc = "sending"
        /\ \/ downloads' = downloads
           \/ downloads' = [downloads EXCEPT ![blockedOn][piece] = @ - 1]
    BY <1>5 DEF ControllerCancels, CancelDelivered, peerInfo
  <2>2. p \in activeRequests[n] /\ Carried(n, p) /\ p \in Pieces
    BY <1>0, <1>2, <2>1 DEF Recorded
  <2>3. blockedOn # n \/ piece # p
    BY <2>1, <2>2 DEF CancelAfterDrop
  <2>4. downloads'[n][p] = downloads[n][p]
    BY <1>0, <2>1, <2>2, <2>3 DEF STypeOK
  <2> QED  BY <1>2, <2>1, <2>2, <2>4, CarriedKept DEF Waits
<1> QED  BY <1>4, <1>5

\* A send takes no message away.
LEMMA SendKeepsAll ==
  ASSUME STypeOK, NEW m, send(m), NEW x, Waits(x)
  PROVE  x \in DOMAIN toController'
  BY Sends

\* Steps that leave requests, downloads and writes alone.
LEMMA RecordedKept ==
  ASSUME STypeOK, NEW n \in Peers, Recorded(n), Alive,
         UNCHANGED <<activeRequests, requests, downloads, writes>>,
         UNCHANGED toController \/ (\E m : send(m)),
         run[n] \in Stuck => run'[n] \in Stuck
  PROVE  Recorded(n)'
<1>1. SUFFICES ASSUME NEW p \in activeRequests[n] PROVE Carried(n, p)'
  BY DEF Recorded
<1>2. Carried(n, p)
  BY DEF Recorded
<1>3. \A x : Waits(x) => x \in DOMAIN toController'
  BY SendKeepsAll DEF Waits
<1> QED  BY <1>2, <1>3, CarriedKept

\* Steps of the peer manager.
LEMMA PeerManagerRecorded ==
  ASSUME SIInv, NEW n \in Peers, Registration(n), Recorded(n), PeerManagerStep
  PROVE  Recorded(n)'
<1>0. /\ STypeOK /\ IInv
      /\ run \in [Peers -> {"none", "waiting", "running", "stopping", "wedged",
                            "noHandshake"}]
      /\ \A k \in Peers : run[k] # "none" => k \in pmPeers
  BY DEF SIInv, STypeOK
<1>1. ASSUME NEW k \in Peers, TakeConn(k) PROVE Recorded(n)'
  <2>1. Alive /\ UNCHANGED <<activeRequests, requests, downloads, writes>>
    BY <1>1 DEF TakeConn, vars
  <2>2. CASE UNCHANGED <<run, toController>>
    BY <1>0, <2>1, <2>2, RecordedKept
  <2>3. CASE /\ k \notin pmPeers
             /\ run' = [run EXCEPT ![k] = "waiting"]
             /\ send(New(k, inc'[k]))
    <3>1. run[k] = "none"
      BY <1>0, <2>3
    <3>2. run[n] \in Stuck => run'[n] \in Stuck
      BY <1>0, <2>3, <3>1 DEF Stuck
    <3> QED  BY <1>0, <2>1, <2>3, <3>2, RecordedKept
  <2> QED  BY <1>1, <2>2, <2>3 DEF TakeConn, StartPeer, NewPeerMsg, New, peerVars
<1>2. ASSUME NEW k \in Peers, RemovePeer(k) PROVE Recorded(n)'
  <2>1. /\ Alive /\ UNCHANGED <<activeRequests, requests, downloads, writes>>
        /\ run' = [run EXCEPT ![k] = "none"] /\ send(DeadPeerMsg(k))
    BY <1>2 DEF RemovePeer, vars
  <2>2. CASE k # n
    <3>1. run'[n] = run[n]
      BY <1>0, <2>1, <2>2
    <3> QED  BY <1>0, <2>1, <3>1, RecordedKept
  <2>3. CASE k = n
    <3>1. DeadPeerMsg(n) \in DOMAIN toController'
      BY <1>0, <2>1, <2>3, Sends
    <3> QED  BY <3>1, CarriedNow DEF Recorded
  <2> QED  BY <2>2, <2>3
<1>3. ASSUME NEW k \in Peers, TrackerPeer(k) \/ Accept(k) PROVE Recorded(n)'
  BY <1>0, <1>3, RecordedKept DEF TrackerPeer, Accept, Connect, vars, peerVars
<1>4. ASSUME StartSeeding PROVE Recorded(n)'
  BY <1>0, <1>4, RecordedKept DEF StartSeeding, vars, peerVars
<1> QED  BY <1>1, <1>2, <1>3, <1>4 DEF PeerManagerStep

\* Steps of the peers and of DiskIO.
LEMMA PeerRecorded ==
  ASSUME SIInv, NEW n \in Peers, Recorded(n), NEW k \in Peers,
         PeerStep(k) \/ \E p \in Pieces : WritePiece(k, p)
  PROVE  Recorded(n)'
<1>0. /\ STypeOK /\ activeRequests[n] \subseteq Pieces
      /\ run \in [Peers -> {"none", "waiting", "running", "stopping", "wedged",
                            "noHandshake"}]
      /\ requests \in [Peers -> [Pieces -> Nat]] /\ downloads \in [Peers -> [Pieces -> Nat]]
      /\ IsABag(writes)
  BY DEF SIInv, STypeOK, TypeOK
<1>1. CASE FirstHave(k)
  <2>1. /\ Alive /\ run[k] = "waiting" /\ run' = [run EXCEPT ![k] = "running"]
        /\ UNCHANGED <<activeRequests, requests, downloads, writes, toController>>
    BY <1>1 DEF FirstHave, vars
  <2>2. run[n] \in Stuck => run'[n] \in Stuck
    BY <1>0, <2>1 DEF Stuck
  <2> QED  BY <1>0, <2>1, <2>2, RecordedKept
<1>2. CASE Choke(k)
  <2>1. /\ Alive /\ UNCHANGED <<activeRequests, requests, writes, run>>
        /\ downloads' = [downloads EXCEPT ![k] = None] /\ send(ChokeMsg(k, TRUE))
    BY <1>2 DEF Choke, vars
  <2>2. CASE k = n
    <3>1. ChokeMsg(n, TRUE) \in DOMAIN toController'
      BY <1>0, <2>1, <2>2, Sends
    <3> QED  BY <3>1, CarriedNow DEF Recorded
  <2>3. CASE k # n
    <3>1. SUFFICES ASSUME NEW p \in activeRequests[n] PROVE Carried(n, p)'
      BY <2>1 DEF Recorded
    <3>2. Carried(n, p) /\ downloads'[n][p] = downloads[n][p]
      BY <1>0, <2>1, <2>3 DEF Recorded
    <3>3. \A x : Waits(x) => x \in DOMAIN toController'
      BY <1>0, <2>1, SendKeepsAll
    <3> QED  BY <2>1, <3>2, <3>3, CarriedKept
  <2> QED  BY <2>2, <2>3
<1>3. CASE Unchoke(k) \/ \E batch : Announce(k, batch)
  BY <1>0, <1>3, RecordedKept DEF Unchoke, Announce, vars
<1>4. ASSUME NEW q \in Pieces, TakeRequest(k, q) PROVE Recorded(n)'
  <2>1. /\ Alive /\ UNCHANGED <<activeRequests, writes, run, toController>>
        /\ requests' = [requests EXCEPT ![k][q] = @ - 1]
        /\ downloads' = [downloads EXCEPT ![k][q] = @ + 1]
    BY <1>4 DEF TakeRequest, vars, peerVars
  <2>2. SUFFICES ASSUME NEW p \in activeRequests[n] PROVE Carried(n, p)'
    BY <2>1 DEF Recorded
  <2>3. Carried(n, p) /\ p \in Pieces
    BY <1>0, <2>1 DEF Recorded
  <2>4. CASE n = k /\ p = q
    <3>1. downloads'[n][p] > 0
      BY <1>0, <2>1, <2>3, <2>4
    <3> QED  BY <3>1, CarriedNow
  <2>5. CASE ~(n = k /\ p = q)
    <3>1. downloads'[n][p] = downloads[n][p] /\ requests'[n][p] = requests[n][p]
      BY <1>0, <2>1, <2>3, <2>5
    <3> QED  BY <2>1, <2>3, <3>1, CarriedKept DEF Waits
  <2> QED  BY <2>4, <2>5
<1>5. ASSUME NEW q \in Pieces, FinishPiece(k, q) PROVE Recorded(n)'
  <2>1. /\ Alive /\ UNCHANGED <<activeRequests, requests, run, toController>>
        /\ writes' = writes (+) SetToBag({<<k, q>>})
        /\ downloads' = [downloads EXCEPT ![k][q] = @ - 1]
    BY <1>5 DEF FinishPiece, vars, peerVars
  <2>2. SUFFICES ASSUME NEW p \in activeRequests[n] PROVE Carried(n, p)'
    BY <2>1 DEF Recorded
  <2>3. Carried(n, p) /\ p \in Pieces
    BY <1>0, <2>1 DEF Recorded
  <2>4. DOMAIN writes' = DOMAIN writes \cup {<<k, q>>}
    BY <1>0, <2>1, BagAdd DEF BagToSet
  <2>5. CASE n = k /\ p = q
    <3>1. <<n, p>> \in DOMAIN writes'
      BY <2>4, <2>5
    <3> QED  BY <3>1, CarriedNow
  <2>6. CASE ~(n = k /\ p = q)
    <3>1. downloads'[n][p] = downloads[n][p]
      BY <1>0, <2>1, <2>3, <2>6
    <3> QED  BY <2>1, <2>3, <2>4, <3>1, CarriedKept DEF Waits
  <2> QED  BY <2>5, <2>6
<1>6. ASSUME NEW where \in Stuck, Fail(k, where),
             UNCHANGED downloads \/ downloads' = [downloads EXCEPT ![k] = None]
      PROVE  Recorded(n)'
  <2>1. /\ Alive /\ UNCHANGED <<activeRequests, writes, toController>>
        /\ run' = [run EXCEPT ![k] = where] /\ requests' = [requests EXCEPT ![k] = None]
    BY <1>6 DEF Fail, vars
  <2>2. CASE k = n
    <3>1. run'[n] \in Stuck
      BY <1>0, <2>1, <2>2
    <3> QED  BY <3>1, CarriedNow DEF Recorded
  <2>3. CASE k # n
    <3>1. SUFFICES ASSUME NEW p \in activeRequests[n] PROVE Carried(n, p)'
      BY <2>1 DEF Recorded
    <3>2. /\ Carried(n, p) /\ downloads'[n][p] = downloads[n][p]
          /\ requests'[n][p] = requests[n][p] /\ run'[n] = run[n]
      BY <1>0, <1>6, <2>1, <2>3 DEF Recorded
    <3> QED  BY <2>1, <3>2, CarriedKept DEF Waits
  <2> QED  BY <2>2, <2>3
<1>7. ASSUME NEW q \in Pieces, WritePiece(k, q) PROVE Recorded(n)'
  <2>1. /\ Alive /\ UNCHANGED <<activeRequests, requests, downloads, run>>
        /\ writes' = writes (-) SetToBag({<<k, q>>}) /\ send(ReceivedMsg(k, q))
    BY <1>7 DEF WritePiece, vars, peerVars
  <2>2. SUFFICES ASSUME NEW p \in activeRequests[n] PROVE Carried(n, p)'
    BY <2>1 DEF Recorded
  <2>3. Carried(n, p) /\ p \in Pieces
    BY <1>0, <2>1 DEF Recorded
  <2>4. CASE n = k /\ p = q
    <3>1. ReceivedMsg(n, p) \in DOMAIN toController'
      BY <1>0, <2>1, <2>4, Sends
    <3> QED  BY <3>1, CarriedNow
  <2>5. CASE ~(n = k /\ p = q)
    <3>1. <<n, p>> \in DOMAIN writes => <<n, p>> \in DOMAIN writes'
      <4>1. <<n, p>> # <<k, q>>
        BY <2>5
      <4> QED  BY <1>0, <2>1, <4>1, BagRemoveOthers DEF BagIn, BagToSet
    <3>2. \A x : Waits(x) => x \in DOMAIN toController'
      BY <1>0, <2>1, SendKeepsAll
    <3> QED  BY <2>1, <2>3, <3>1, <3>2, CarriedKept
  <2> QED  BY <2>4, <2>5
<1> QED  BY <1>1, <1>2, <1>3, <1>4, <1>5, <1>6, <1>7 DEF PeerStep, PeerStops, PeerWedges, Stuck

\* The record is dropped before the CANCEL, and nothing is recorded while the
\* controller waits for it to be taken.
LEMMA CancelAfterDropStep ==
  ASSUME STypeOK, IInv, CancelAfterDrop, [SNext]_svars
  PROVE  CancelAfterDrop'
<1>1. [Next]_vars
  BY SwarmStep
<1>2. CASE UNCHANGED vars
  BY <1>2 DEF vars, CancelAfterDrop
<1>3. CASE Next
  <2>1. SUFFICES ASSUME pc' = "sending" PROVE piece' \notin activeRequests'[blockedOn']
    BY DEF CancelAfterDrop
  <2>2. PICK n \in Peers : CancelOther(n)
    BY <1>3, <2>1 DEF Next, TakeMessage, Continue, ReceivedPiece, NewPeer, DeadPeer,
                      ChokeStatus, HavePiece, UnknownPeerMessage, Quit, CancelsDone,
                      RequestsForNextPeer, CancelDelivered, startRequests
  <2>3. activeRequests'[n] = activeRequests[n] \ {piece} /\ blockedOn' = n /\ piece' = piece
    BY <2>2 DEF CancelOther, dropActiveRequest, IInv, TypeOK
  <2> QED  BY <2>3
<1> QED  BY <1>1, <1>2, <1>3

\* What the controller has recorded, on top of registrations.
RecordInv == RInv /\ CancelAfterDrop /\ \A n \in Peers : Recorded(n)

\* The inductive invariant of the controller's records.
THEOREM RecordInvariance == SSpec => []RecordInv
<1>1. SInit => RecordInv
  <2> SUFFICES ASSUME SInit PROVE RecordInv
    OBVIOUS
  <2>1. RInv
    BY InitRInv
  <2>2. pc = "idle" /\ \A n \in Peers : activeRequests[n] = {}
    BY DEF SInit, Init
  <2> QED  BY <2>1, <2>2 DEF RecordInv, CancelAfterDrop, Recorded
<1>2. RecordInv /\ [SNext]_svars => RecordInv'
  <2> SUFFICES ASSUME RecordInv, [SNext]_svars PROVE RecordInv'
    OBVIOUS
  <2>1. RInv /\ RInv' /\ SIInv /\ IInv /\ IInv' /\ STypeOK /\ CancelAfterDrop
    BY NextRInv DEF RecordInv, RInv, SIInv
  <2>2. CancelAfterDrop'
    BY <2>1, CancelAfterDropStep
  <2>3. ASSUME NEW n \in Peers PROVE Recorded(n)'
    <3>1. Registration(n) /\ Recorded(n)
      BY DEF RecordInv, RInv
    <3>2. CASE ControllerTakes
      BY <2>1, <3>1, <3>2, ControllerRecorded
    <3>3. CASE ControllerContinues \/ ControllerCancels
      BY <2>1, <3>1, <3>3, ContinueRecorded
    <3>4. CASE PeerManagerStep
      BY <2>1, <3>1, <3>4, PeerManagerRecorded
    <3>5. CASE \E k \in Peers : PeerStep(k) \/ \E p \in Pieces : WritePiece(k, p)
      BY <2>1, <3>1, <3>5, PeerRecorded
    <3>6. CASE UNCHANGED svars
      <4>1. UNCHANGED <<pc, activeRequests, requests, downloads, writes, toController, run>>
        BY <3>6 DEF svars, vars, peerVars
      <4>2. \A p : Carried(n, p) => Carried(n, p)'
        BY <4>1, CarriedKept DEF Waits
      <4> QED  BY <3>1, <4>1, <4>2 DEF Recorded, Alive
    <3> QED  BY <3>2, <3>3, <3>4, <3>5, <3>6 DEF SNext
  <2> QED  BY <2>1, <2>2, <2>3 DEF RecordInv
<1> QED  BY <1>1, <1>2, PTL DEF SSpec

\* No request is lost: what the controller has recorded is on its way, or news
\* that clears the record is, or Run of that peer is stuck.
THEOREM NoRequestIsLost == SSpec => []NoLostRequest
<1>1. RecordInv => NoLostRequest
  <2> SUFFICES ASSUME RecordInv, Alive, NEW n \in peers, NEW p \in activeRequests[n]
               PROVE  \/ OnItsWay(n, p)
                      \/ BagIn(ChokeMsg(n, TRUE), toController)
                      \/ BagIn(DeadPeerMsg(n), toController)
                      \/ run[n] \in {"stopping", "wedged", "noHandshake"}
    BY DEF NoLostRequest
  <2>1. n \in Peers
    BY DEF RecordInv, RInv, SIInv, IInv, TypeOK
  <2>2. Carried(n, p)
    BY <2>1 DEF RecordInv, Recorded
  <2> QED  BY <2>2 DEF Carried, Stuck, Waits, BagIn, BagToSet
<1> QED  BY <1>1, RecordInvariance, PTL

-----------------------------------------------------------------------------
(* Cancelled duplicates.                                                   *)

\* The other way round, on the first connection and without chokes: what is on
\* its way is recorded or finished.  A peer that has not been registered yet
\* has nothing on its way.
Accounted(n) ==
  budget.choke = ChokeBudget /\ inc[n] <= 1 =>
    \A p \in Pieces : OnItsWay(n, p) =>
      /\ n \in peers => p \in activeRequests[n] \cup finishedPieces
      /\ n \notin peers => inc[n] = 1 /\ run[n] = "none"

\* Nobody has been choked, and nobody has come back under an old name.
FirstTime == budget.choke = ChokeBudget /\ \A n \in Peers : inc[n] <= 1

\* Where the controller is in its cancels: which finished pieces are still
\* recorded as being fetched.
Cancelling ==
  FirstTime =>
    \A n \in peers :
      /\ pc \in {"idle", "assigning"} => activeRequests[n] \cap finishedPieces = {}
      /\ pc \in {"cancelling", "sending"} =>
           activeRequests[n] \cap finishedPieces \subseteq {piece}

\* A step that brings nothing new on its way.
LEMMA OnItsWayBefore ==
  ASSUME NEW n, NEW p, OnItsWay(n, p)',
         requests'[n][p] > 0 => OnItsWay(n, p),
         downloads'[n][p] > 0 => OnItsWay(n, p),
         <<n, p>> \in DOMAIN writes' => OnItsWay(n, p),
         ReceivedMsg(n, p) \in DOMAIN toController' => OnItsWay(n, p)
  PROVE  OnItsWay(n, p)
  BY DEF OnItsWay, BagIn, BagToSet, ReceivedMsg

\* Four ways to be on its way.
LEMMA OnItsWayNow ==
  ASSUME NEW n, NEW p,
         \/ requests[n][p] > 0
         \/ downloads[n][p] > 0
         \/ <<n, p>> \in DOMAIN writes
         \/ Waits(ReceivedMsg(n, p))
  PROVE  OnItsWay(n, p)
  BY DEF OnItsWay, BagIn, BagToSet, Waits

\* Messages that the controller takes.
LEMMA ControllerAccounted ==
  ASSUME SIInv, IInv', NEW n \in Peers, Registration(n), Unchoking(n), Accounted(n),
         ControllerTakes
  PROVE  Accounted(n)'
<1>0. /\ STypeOK /\ IInv /\ TypeOK
      /\ activeRequests \in [Peers -> SUBSET Pieces]
      /\ inc[n] \in Nat /\ chans[n] \in Nat
  BY DEF SIInv, IInv, TypeOK, STypeOK
<1>1. PICK m \in SMessages : ControllerReceives(m)
  BY <1>0 DEF ControllerTakes, STypeOK
<1>2. /\ Receive(m) /\ LaunchSends /\ UNCHANGED <<run, inc, budget, downloads, writes>>
      /\ m.peer \in Peers
  BY <1>1, MessageShapes DEF ControllerReceives, peerVars
<1>3. Next
  BY <1>0, ControllerStep
<1>4. SUFFICES ASSUME budget.choke = ChokeBudget, inc[n] <= 1,
                      NEW p \in Pieces, OnItsWay(n, p)'
               PROVE  /\ n \in peers' => p \in activeRequests'[n] \cup finishedPieces'
                      /\ n \notin peers' => inc[n] = 1 /\ run[n] = "none"
  BY <1>2 DEF Accounted
<1>5. CASE RequestPiece(n, p) \in out'
  <2>1. n \in peers' /\ p \in activeRequests'[n]
    BY <1>0, <1>3, <1>5, RequestsRecorded, RequestStep
  <2> QED  BY <2>1
<1>6. CASE RequestPiece(n, p) \notin out'
  <2>1. OnItsWay(n, p)
    <3>1. requests'[n][p] > 0 => requests[n][p] > 0
      BY <1>0, <1>2, <1>6, Launches
    <3>2. ReceivedMsg(n, p) \in DOMAIN toController' => Waits(ReceivedMsg(n, p))
      BY <1>0, <1>2, Receives
    <3> QED  BY <1>2, <1>4, <3>1, <3>2, OnItsWayBefore, OnItsWayNow
  <2>2. /\ n \in peers => p \in activeRequests[n] \cup finishedPieces
        /\ n \notin peers => inc[n] = 1 /\ run[n] = "none"
    BY <1>4, <2>1 DEF Accounted
  <2>3. CASE m.type = "received"
    <3>1. ReceivedPiece(m.peer, m.piece)
      BY <1>1, <2>3 DEF ControllerReceives
    <3>2. /\ peers' = peers /\ finishedPieces' = finishedPieces \cup {m.piece}
          /\ activeRequests[n] \subseteq activeRequests'[n] \cup {m.piece}
      BY <1>0, <3>1 DEF ReceivedPiece, dropActiveRequest
    <3> QED  BY <2>2, <3>2
  <2>4. CASE m.type = "newPeer"
    <3>1. NewPeer(m.peer) /\ m.inc \in Nat /\ m = New(m.peer, m.inc)
      BY <1>1, <2>4, MessageShapes DEF ControllerReceives
    <3>2. /\ UNCHANGED <<activeRequests, finishedPieces>>
          /\ peers' \subseteq peers \cup {m.peer} /\ peers \subseteq peers'
      BY <3>1 DEF NewPeer, peerInfo
    <3>3. CASE m.peer = n
      <4>1. Waits(New(n, m.inc))
        BY <1>0, <1>2, <3>1, <3>3, Receives
      <4>2. run[n] # "none"
        BY <3>1, <4>1 DEF Registration
      <4> QED  BY <2>2, <3>2, <4>2
    <3> QED  BY <2>2, <3>2, <3>3
  <2>5. CASE m.type = "deadPeer"
    <3>1. DeadPeer(m.peer) /\ m = DeadPeerMsg(m.peer)
      BY <1>1, <2>5, MessageShapes DEF ControllerReceives
    <3>2. CASE m.peer # n
      <4>1. /\ activeRequests'[n] = activeRequests[n] /\ UNCHANGED finishedPieces
            /\ n \in peers' <=> n \in peers
        BY <1>0, <1>2, <3>1, <3>2 DEF DeadPeer, peerInfo, removeUnfinishedWorkForPeer
      <4> QED  BY <2>2, <4>1
    <3>3. CASE m.peer = n
      <4>1. Waits(DeadPeerMsg(n))
        BY <1>0, <1>2, <3>1, <3>3, Receives
      <4>2. /\ n \in peers /\ chans[n] # 0 /\ chans[n] <= inc[n]
            /\ run[n] = "none" \/ chans[n] # inc[n]
        BY <4>1 DEF Registration
      <4>3. inc[n] = 1 /\ run[n] = "none"
        BY <1>0, <1>4, <4>2
      <4>4. n \notin peers'
        BY <3>1, <3>3, <4>2 DEF DeadPeer
      <4> QED  BY <4>3, <4>4
    <3> QED  BY <3>2, <3>3
  <2>6. CASE m.type = "choke"
    <3>1. /\ ChokeStatus(m.peer, m.choked) /\ m = ChokeMsg(m.peer, m.choked)
          /\ m.choked \in BOOLEAN
      BY <1>1, <2>6, MessageShapes DEF ControllerReceives
    <3>2. Waits(ChokeMsg(m.peer, m.choked))
      BY <1>0, <1>2, <3>1, Receives
    <3>3. UNCHANGED <<peers, finishedPieces>>
      BY <3>1 DEF ChokeStatus, UnknownPeerMessage
    <3>4. activeRequests[n] \subseteq activeRequests'[n]
      <4>1. CASE UnknownPeerMessage(m.peer)
        BY <4>1 DEF UnknownPeerMessage, peerInfo
      <4>2. CASE m.choked /\ removeUnfinishedWorkForPeer(m.peer)
        <5>1. m.choked = TRUE
          BY <3>1, <4>2
        <5>2. m.peer # n
          BY <1>4, <3>2, <5>1 DEF Unchoking
        <5> QED  BY <1>0, <1>2, <4>2, <5>2 DEF removeUnfinishedWorkForPeer
      <4>3. CASE sendRequestsToPeer(m.peer, isChoked', availablePieces)
        BY <1>0, <1>2, <4>3 DEF sendRequestsToPeer
      <4> QED  BY <3>1, <4>1, <4>2, <4>3 DEF ChokeStatus
    <3> QED  BY <2>2, <3>3, <3>4
  <2>7. CASE m.type = "have"
    <3>1. HavePiece(m.peer, m.batch)
      BY <1>1, <2>7 DEF ControllerReceives
    <3>2. UNCHANGED <<peers, finishedPieces>>
      BY <3>1 DEF HavePiece, UnknownPeerMessage
    <3>3. activeRequests[n] \subseteq activeRequests'[n]
      <4>1. CASE UNCHANGED activeRequests
        BY <4>1
      <4>2. CASE sendRequestsToPeer(m.peer, isChoked, availablePieces')
        BY <1>0, <1>2, <4>2 DEF sendRequestsToPeer
      <4> QED  BY <3>1, <4>1, <4>2 DEF HavePiece, UnknownPeerMessage, peerInfo
    <3> QED  BY <2>2, <3>2, <3>3
  <2> QED  BY <1>1, <2>3, <2>4, <2>5, <2>6, <2>7 DEF ControllerReceives
<1> QED  BY <1>5, <1>6

\* The rest of the received-piece handler.
LEMMA ContinueAccounted ==
  ASSUME SIInv, NEW n \in Peers, Accounted(n), ControllerContinues \/ ControllerCancels
  PROVE  Accounted(n)'
<1>0. /\ STypeOK /\ IInv /\ TypeOK
      /\ activeRequests \in [Peers -> SUBSET Pieces]
      /\ downloads \in [Peers -> [Pieces -> Nat]]
  BY DEF SIInv, IInv, TypeOK, STypeOK
<1>1. Next
  BY <1>0, ControllerStep
<1>2. UNCHANGED <<run, inc, budget, writes, toController, peers, finishedPieces>>
  BY DEF ControllerContinues, ControllerCancels, Continue, CancelOther, CancelsDone,
         RequestsForNextPeer, CancelDelivered, peerVars
<1>3. SUFFICES ASSUME budget.choke = ChokeBudget, inc[n] <= 1,
                      NEW p \in Pieces, OnItsWay(n, p)'
               PROVE  /\ n \in peers => p \in activeRequests'[n] \cup finishedPieces
                      /\ n \notin peers => inc[n] = 1 /\ run[n] = "none"
  BY <1>2 DEF Accounted
<1>4. activeRequests[n] \subseteq activeRequests'[n] \cup finishedPieces
  <2>1. CASE UNCHANGED activeRequests
    BY <2>1
  <2>2. ASSUME NEW k \in Peers, CancelOther(k)
        PROVE  activeRequests[n] \subseteq activeRequests'[n] \cup finishedPieces
    <3>1. dropActiveRequest(k, piece) /\ piece \in finishedPieces
      BY <1>0, <2>2 DEF CancelOther, IInv, PhaseOK
    <3> QED  BY <1>0, <3>1 DEF dropActiveRequest
  <2>3. ASSUME NEW k \in Peers, RequestsForNextPeer(k)
        PROVE  activeRequests[n] \subseteq activeRequests'[n]
    BY <1>0, <2>3 DEF RequestsForNextPeer, sendRequestsToPeer
  <2> QED  BY <2>1, <2>2, <2>3 DEF ControllerContinues, ControllerCancels, Continue,
                                   CancelsDone, CancelDelivered, peerInfo
<1>5. CASE ControllerContinues
  <2>1. LaunchSends /\ UNCHANGED downloads
    BY <1>5 DEF ControllerContinues
  <2>2. CASE RequestPiece(n, p) \in out'
    BY <1>0, <1>1, <2>2, RequestsRecorded
  <2>3. CASE RequestPiece(n, p) \notin out'
    <3>1. requests'[n][p] > 0 => requests[n][p] > 0
      BY <1>0, <2>1, <2>3, Launches
    <3>2. OnItsWay(n, p)
      BY <1>2, <1>3, <2>1, <3>1, OnItsWayBefore, OnItsWayNow DEF Waits
    <3> QED  BY <1>3, <1>4, <3>2 DEF Accounted
  <2> QED  BY <2>2, <2>3
<1>6. CASE ControllerCancels
  <2>1. /\ UNCHANGED requests
        /\ \/ downloads' = downloads
           \/ downloads' = [downloads EXCEPT ![blockedOn][piece] = @ - 1]
    BY <1>6 DEF ControllerCancels
  <2>2. downloads'[n][p] > 0 => downloads[n][p] > 0
    BY <1>0, <2>1
  <2>3. OnItsWay(n, p)
    BY <1>2, <1>3, <2>1, <2>2, OnItsWayBefore, OnItsWayNow DEF Waits
  <2> QED  BY <1>3, <1>4, <2>3 DEF Accounted
<1> QED  BY <1>5, <1>6

\* A step that brings nothing new on its way and changes neither the records of
\* n nor, while something is on its way, the state of an unregistered n.
LEMMA AccountedKept ==
  ASSUME NEW n, Accounted(n), \A p \in Pieces : OnItsWay(n, p)' => OnItsWay(n, p),
         budget'.choke = budget.choke, inc'[n] = inc[n],
         run'[n] = run[n] \/ run[n] # "none",
         UNCHANGED <<peers, activeRequests, finishedPieces>>
  PROVE  Accounted(n)'
<1>1. SUFFICES ASSUME budget.choke = ChokeBudget, inc[n] <= 1,
                      NEW p \in Pieces, OnItsWay(n, p)'
               PROVE  /\ n \in peers => p \in activeRequests[n] \cup finishedPieces
                      /\ n \notin peers => inc[n] = 1 /\ run'[n] = "none"
  BY DEF Accounted
<1>2. OnItsWay(n, p)
  BY <1>1
<1> QED  BY <1>1, <1>2 DEF Accounted

\* Sends other than a report of p bring nothing on its way.
LEMMA SendsNoReport ==
  ASSUME STypeOK, NEW m, send(m), m.type # "received", NEW n, NEW p,
         ReceivedMsg(n, p) \in DOMAIN toController'
  PROVE  Waits(ReceivedMsg(n, p))
<1>1. ReceivedMsg(n, p) # m
  BY MessageFields
<1> QED  BY <1>1, SendsOthers

\* Steps that leave requests, downloads and writes alone and report no piece.
LEMMA NothingNew ==
  ASSUME STypeOK, NEW n,
         UNCHANGED <<requests, downloads, writes>>,
         UNCHANGED toController \/ \E m : send(m) /\ m.type # "received"
  PROVE  \A p \in Pieces : OnItsWay(n, p)' => OnItsWay(n, p)
<1>1. SUFFICES ASSUME NEW p \in Pieces, OnItsWay(n, p)' PROVE OnItsWay(n, p)
  OBVIOUS
<1>2. ReceivedMsg(n, p) \in DOMAIN toController' => Waits(ReceivedMsg(n, p))
  BY SendsNoReport DEF Waits
<1> QED  BY <1>1, <1>2, OnItsWayBefore, OnItsWayNow

\* Steps of the peer manager.
LEMMA PeerManagerAccounted ==
  ASSUME SIInv, NEW n \in Peers, Registration(n), Accounted(n), PeerManagerStep
  PROVE  Accounted(n)'
<1>0. /\ STypeOK
      /\ run \in [Peers -> {"none", "waiting", "running", "stopping", "wedged",
                            "noHandshake"}]
      /\ inc \in [Peers -> Nat] /\ chans \in [Peers -> Nat]
  BY DEF SIInv, STypeOK
<1>1. ASSUME NEW k \in Peers, TakeConn(k) PROVE Accounted(n)'
  <2>1. UNCHANGED <<peers, activeRequests, finishedPieces, requests, downloads, writes, budget>>
    BY <1>1 DEF TakeConn, vars
  <2>2. CASE UNCHANGED <<run, inc, toController>>
    <3>1. \A p \in Pieces : OnItsWay(n, p)' => OnItsWay(n, p)
      BY <1>0, <2>1, <2>2, NothingNew
    <3> QED  BY <2>1, <2>2, <3>1, AccountedKept
  <2>3. CASE /\ inc' = [inc EXCEPT ![k] = @ + 1]
             /\ run' = [run EXCEPT ![k] = "waiting"]
             /\ send(New(k, inc'[k]))
    <3>1. New(k, inc'[k]).type # "received"
      BY MessageFields
    <3>2. \A p \in Pieces : OnItsWay(n, p)' => OnItsWay(n, p)
      BY <1>0, <2>1, <2>3, <3>1, NothingNew
    <3>3. CASE k # n
      <4>1. inc'[n] = inc[n] /\ run'[n] = run[n]
        BY <1>0, <2>3, <3>3
      <4> QED  BY <2>1, <3>2, <4>1, AccountedKept
    <3>4. CASE k = n
      <4>1. inc'[n] = inc[n] + 1
        BY <1>0, <2>3, <3>4
      <4>2. SUFFICES ASSUME budget.choke = ChokeBudget, inc'[n] <= 1,
                            NEW p \in Pieces, OnItsWay(n, p)
                     PROVE  FALSE
        BY <2>1, <3>2 DEF Accounted
      <4>3. inc[n] = 0 /\ n \notin peers
        BY <1>0, <4>1, <4>2 DEF Registration
      <4> QED  BY <4>2, <4>3 DEF Accounted
    <3> QED  BY <3>3, <3>4
  <2> QED  BY <1>1, <2>2, <2>3 DEF TakeConn, StartPeer, NewPeerMsg, New, peerVars
<1>2. ASSUME NEW k \in Peers, RemovePeer(k) PROVE Accounted(n)'
  <2>1. /\ UNCHANGED <<peers, activeRequests, finishedPieces, requests, downloads, writes,
                       budget, inc>>
        /\ run[k] = "stopping" /\ run' = [run EXCEPT ![k] = "none"] /\ send(DeadPeerMsg(k))
    BY <1>2 DEF RemovePeer, vars
  <2>2. DeadPeerMsg(k).type # "received"
    BY MessageFields
  <2>3. \A p \in Pieces : OnItsWay(n, p)' => OnItsWay(n, p)
    BY <1>0, <2>1, <2>2, NothingNew
  <2>4. run'[n] = run[n] \/ run[n] # "none"
    BY <1>0, <2>1
  <2> QED  BY <2>1, <2>3, <2>4, AccountedKept
<1>3. ASSUME NEW k \in Peers, Connect(k) PROVE Accounted(n)'
  <2>1. /\ UNCHANGED <<peers, activeRequests, finishedPieces, requests, downloads, writes,
                       inc, run, toController>>
        /\ budget'.choke = budget.choke
    BY <1>0, <1>3, SpendOthers DEF Connect, vars, peerVars
  <2>2. \A p \in Pieces : OnItsWay(n, p)' => OnItsWay(n, p)
    BY <1>0, <2>1, NothingNew
  <2> QED  BY <2>1, <2>2, AccountedKept
<1>4. ASSUME StartSeeding PROVE Accounted(n)'
  <2>1. UNCHANGED <<peers, activeRequests, finishedPieces, requests, downloads, writes,
                    inc, run, toController, budget>>
    BY <1>4 DEF StartSeeding, vars, peerVars
  <2>2. \A p \in Pieces : OnItsWay(n, p)' => OnItsWay(n, p)
    BY <1>0, <2>1, NothingNew
  <2> QED  BY <2>1, <2>2, AccountedKept
<1> QED  BY <1>1, <1>2, <1>3, <1>4 DEF PeerManagerStep, TrackerPeer, Accept

\* Steps of the peers and of DiskIO.
LEMMA PeerAccounted ==
  ASSUME SIInv, NEW n \in Peers, Accounted(n), budget.choke <= ChokeBudget, NEW k \in Peers,
         PeerStep(k) \/ \E p \in Pieces : WritePiece(k, p)
  PROVE  Accounted(n)'
<1>0. /\ STypeOK
      /\ run \in [Peers -> {"none", "waiting", "running", "stopping", "wedged",
                            "noHandshake"}]
      /\ requests \in [Peers -> [Pieces -> Nat]] /\ downloads \in [Peers -> [Pieces -> Nat]]
      /\ IsABag(writes) /\ budget.choke \in Nat /\ ChokeBudget \in Nat
  BY SwarmAssumption DEF SIInv, STypeOK, SwarmAssumption
<1>1. UNCHANGED <<peers, activeRequests, finishedPieces, inc>>
  BY DEF PeerStep, FirstHave, Choke, Unchoke, Announce, TakeRequest, FinishPiece, PeerStops,
         PeerWedges, Fail, WritePiece, vars, peerVars
<1>2. CASE Choke(k)
  <2>1. budget'.choke = budget.choke - 1
    BY <1>0, <1>2, SpendOthers DEF Choke
  <2>2. budget'.choke # ChokeBudget
    BY <1>0, <2>1
  <2> QED  BY <2>2 DEF Accounted
<1>3. ASSUME \A p \in Pieces : OnItsWay(n, p)' => OnItsWay(n, p),
             budget'.choke = budget.choke, run'[n] = run[n] \/ run[n] # "none"
      PROVE  Accounted(n)'
  BY <1>1, <1>3, AccountedKept
<1>4. CASE FirstHave(k)
  <2>1. /\ UNCHANGED <<budget, requests, downloads, writes, toController>>
        /\ run[k] = "waiting" /\ run' = [run EXCEPT ![k] = "running"]
    BY <1>4 DEF FirstHave
  <2>2. run'[n] = run[n] \/ run[n] # "none"
    BY <1>0, <2>1
  <2> QED  BY <1>0, <1>3, <2>1, <2>2, NothingNew
<1>5. CASE Unchoke(k) \/ \E batch : Announce(k, batch)
  <2>1. /\ UNCHANGED <<budget, requests, downloads, writes, run>>
        /\ \E m : send(m) /\ m.type # "received"
    <3>1. /\ ChokeMsg(k, FALSE).type # "received"
          /\ \A batch : HaveMsg(k, batch).type # "received"
      BY DEF ChokeMsg, HaveMsg
    <3> QED  BY <1>5, <3>1 DEF Unchoke, Announce
  <2> QED  BY <1>0, <1>3, <2>1, NothingNew
<1>6. ASSUME NEW q \in Pieces, TakeRequest(k, q) PROVE Accounted(n)'
  <2>1. /\ UNCHANGED <<budget, writes, run, toController>> /\ requests[k][q] > 0
        /\ requests' = [requests EXCEPT ![k][q] = @ - 1]
        /\ downloads' = [downloads EXCEPT ![k][q] = @ + 1]
    BY <1>6 DEF TakeRequest, peerVars
  <2>2. ASSUME NEW p \in Pieces, OnItsWay(n, p)' PROVE OnItsWay(n, p)
    <3>1. /\ requests'[n][p] > 0 => requests[n][p] > 0
          /\ downloads'[n][p] > 0 => downloads[n][p] > 0 \/ requests[n][p] > 0
      BY <1>0, <2>1
    <3> QED  BY <2>1, <2>2, <3>1, OnItsWayBefore, OnItsWayNow DEF Waits
  <2> QED  BY <1>3, <2>1, <2>2
<1>7. ASSUME NEW q \in Pieces, FinishPiece(k, q) PROVE Accounted(n)'
  <2>1. /\ UNCHANGED <<budget, requests, run, toController>> /\ downloads[k][q] > 0
        /\ writes' = writes (+) SetToBag({<<k, q>>})
        /\ downloads' = [downloads EXCEPT ![k][q] = @ - 1]
    BY <1>7 DEF FinishPiece, peerVars
  <2>2. ASSUME NEW p \in Pieces, OnItsWay(n, p)' PROVE OnItsWay(n, p)
    <3>1. downloads'[n][p] > 0 => downloads[n][p] > 0
      BY <1>0, <2>1
    <3>2. <<n, p>> \in DOMAIN writes' => <<n, p>> \in DOMAIN writes \/ downloads[n][p] > 0
      <4>1. DOMAIN writes' = DOMAIN writes \cup {<<k, q>>}
        BY <1>0, <2>1, BagAdd DEF BagToSet
      <4> QED  BY <2>1, <4>1
    <3> QED  BY <2>1, <2>2, <3>1, <3>2, OnItsWayBefore, OnItsWayNow DEF Waits
  <2> QED  BY <1>3, <2>1, <2>2
<1>8. ASSUME NEW where, Fail(k, where), run[k] # "none",
             UNCHANGED downloads \/ downloads' = [downloads EXCEPT ![k] = None]
      PROVE  Accounted(n)'
  <2>1. /\ UNCHANGED <<writes, toController>> /\ budget'.choke = budget.choke
        /\ run' = [run EXCEPT ![k] = where] /\ requests' = [requests EXCEPT ![k] = None]
    BY <1>0, <1>8, SpendOthers DEF Fail
  <2>2. run'[n] = run[n] \/ run[n] # "none"
    BY <1>0, <1>8, <2>1
  <2>3. ASSUME NEW p \in Pieces, OnItsWay(n, p)' PROVE OnItsWay(n, p)
    <3>1. /\ requests'[n][p] > 0 => requests[n][p] > 0
          /\ downloads'[n][p] > 0 => downloads[n][p] > 0
      BY <1>0, <1>8, <2>1 DEF None
    <3> QED  BY <2>1, <2>3, <3>1, OnItsWayBefore, OnItsWayNow DEF Waits
  <2> QED  BY <1>3, <2>1, <2>2, <2>3
<1>9. ASSUME NEW q \in Pieces, WritePiece(k, q) PROVE Accounted(n)'
  <2>1. /\ UNCHANGED <<budget, requests, downloads, run>> /\ <<k, q>> \in DOMAIN writes
        /\ writes' = writes (-) SetToBag({<<k, q>>}) /\ send(ReceivedMsg(k, q))
    BY <1>9 DEF WritePiece, peerVars, BagIn, BagToSet
  <2>2. ASSUME NEW p \in Pieces, OnItsWay(n, p)' PROVE OnItsWay(n, p)
    <3>1. <<n, p>> \in DOMAIN writes' => <<n, p>> \in DOMAIN writes
      BY <1>0, <2>1, BagRemove DEF BagToSet
    <3>2. ReceivedMsg(n, p) \in DOMAIN toController' =>
            Waits(ReceivedMsg(n, p)) \/ <<n, p>> \in DOMAIN writes
      <4>1. CASE ReceivedMsg(n, p) = ReceivedMsg(k, q)
        <5>1. n = k /\ p = q
          BY <4>1, MessagesDiffer
        <5> QED  BY <2>1, <5>1
      <4>2. CASE ReceivedMsg(n, p) # ReceivedMsg(k, q)
        BY <1>0, <2>1, <4>2, SendsOthers
      <4> QED  BY <4>1, <4>2
    <3> QED  BY <2>1, <2>2, <3>1, <3>2, OnItsWayBefore, OnItsWayNow
  <2> QED  BY <1>3, <2>1, <2>2
<1> QED  BY <1>2, <1>4, <1>5, <1>6, <1>7, <1>8, <1>9 DEF PeerStep, PeerStops, PeerWedges

\* A first choke or a second connection is never taken back.
LEMMA FirstTimeBefore ==
  ASSUME STypeOK, [SNext]_svars, budget.choke <= ChokeBudget, FirstTime'
  PROVE  FirstTime
<1>0. inc \in [Peers -> Nat] /\ budget.choke \in Nat /\ ChokeBudget \in Nat
  BY SwarmAssumption DEF STypeOK, SwarmAssumption
<1>1. ASSUME NEW n \in Peers PROVE inc[n] <= inc'[n] /\ inc'[n] \in Nat
  <2>1. CASE UNCHANGED inc
    BY <1>0, <2>1
  <2>2. CASE \E k \in Peers : inc' = [inc EXCEPT ![k] = @ + 1]
    BY <1>0, <2>2
  <2>3. UNCHANGED inc \/ \E k \in Peers : inc' = [inc EXCEPT ![k] = @ + 1]
    <3>1. CASE ControllerTakes \/ ControllerContinues \/ ControllerCancels
      BY <3>1 DEF ControllerTakes, ControllerReceives, ControllerContinues,
                  ControllerCancels, peerVars
    <3>2. CASE PeerManagerStep
      BY <3>2 DEF PeerManagerStep, TrackerPeer, Accept, Connect, TakeConn, StartPeer,
                  RemovePeer, StartSeeding, peerVars
    <3>3. CASE \E k \in Peers : PeerStep(k)
      BY <3>3 DEF PeerStep, FirstHave, Choke, Unchoke, Announce, TakeRequest, FinishPiece,
                  PeerStops, PeerWedges, Fail, peerVars
    <3>4. CASE \E k \in Peers, p \in Pieces : WritePiece(k, p)
      BY <3>4 DEF WritePiece, peerVars
    <3>5. CASE UNCHANGED svars
      BY <3>5 DEF svars, peerVars
    <3> QED  BY <3>1, <3>2, <3>3, <3>4, <3>5 DEF SNext
  <2> QED  BY <2>1, <2>2, <2>3
<1>2. budget'.choke <= budget.choke
  BY ChokesBounded
<1>3. budget'.choke = ChokeBudget /\ \A n \in Peers : inc'[n] <= 1
  BY DEF FirstTime
<1>4. budget.choke = ChokeBudget
  BY <1>0, <1>2, <1>3
<1>5. ASSUME NEW n \in Peers PROVE inc[n] <= 1
  <2>1. inc[n] <= inc'[n] /\ inc'[n] <= 1 /\ inc[n] \in Nat /\ inc'[n] \in Nat
    BY <1>0, <1>1, <1>3
  <2> QED  BY <2>1
<1> QED  BY <1>4, <1>5 DEF FirstTime

\* Which finished pieces are recorded changes only as Cancelling allows.
LEMMA CancellingStep ==
  ASSUME SIInv, [SNext]_svars, budget.choke <= ChokeBudget, Cancelling,
         \A n \in Peers : Accounted(n)
  PROVE  Cancelling'
<1>0. /\ STypeOK /\ IInv /\ TypeOK
      /\ activeRequests \in [Peers -> SUBSET Pieces] /\ peers \subseteq Peers
  BY DEF SIInv, IInv, TypeOK
<1>1. SUFFICES ASSUME FirstTime', NEW n \in peers'
               PROVE  /\ pc' \in {"idle", "assigning"} =>
                           activeRequests'[n] \cap finishedPieces' = {}
                      /\ pc' \in {"cancelling", "sending"} =>
                           activeRequests'[n] \cap finishedPieces' \subseteq {piece'}
  BY DEF Cancelling
<1>2. FirstTime
  BY <1>0, <1>1, FirstTimeBefore
<1>3. ASSUME NEW k \in peers
      PROVE  /\ pc \in {"idle", "assigning"} => activeRequests[k] \cap finishedPieces = {}
             /\ pc \in {"cancelling", "sending"} =>
                  activeRequests[k] \cap finishedPieces \subseteq {piece}
  BY <1>2 DEF Cancelling
<1>4. CASE UNCHANGED vars
  BY <1>1, <1>3, <1>4 DEF vars
<1>5. ASSUME Next
      PROVE  /\ n \in Peers
             /\ activeRequests'[n] \cap finishedPieces' \subseteq activeRequests[n]
  <2>1. TypeOK'
    BY <1>0, <1>5, NextIInv DEF IInv
  <2>2. n \in Peers /\ activeRequests'[n] \subseteq Pieces
    BY <1>1, <2>1 DEF TypeOK
  <2>3. ASSUME NEW p \in activeRequests'[n] \cap finishedPieces' PROVE p \in activeRequests[n]
    BY <1>0, <1>5, <2>2, RequestsRecorded
  <2> QED  BY <2>2, <2>3
<1>6. CASE ControllerTakes
  <2>1. PICK m \in SMessages : ControllerReceives(m)
    BY <1>0, <1>6 DEF ControllerTakes, STypeOK
  <2>2. n \in Peers /\ activeRequests'[n] \cap finishedPieces' \subseteq activeRequests[n]
    BY <1>0, <1>5, <1>6, ControllerStep
  <2>3. CASE m.type = "received"
    <3>1. /\ ReceivedPiece(m.peer, m.piece) /\ Receive(m)
          /\ m = ReceivedMsg(m.peer, m.piece) /\ m.peer \in Peers /\ m.piece \in Pieces
      BY <2>1, <2>3, MessageShapes DEF ControllerReceives
    <3>2. /\ pc = "idle" /\ n \in peers /\ finishedPieces' = finishedPieces \cup {m.piece}
          /\ activeRequests[n] \cap finishedPieces = {}
      BY <1>1, <1>3, <3>1 DEF ReceivedPiece
    <3>3. CASE m.peer \notin peers
      BY <3>1, <3>3 DEF ReceivedPiece
    <3>4. CASE m.peer \in peers /\ m.piece \in activeRequests[m.peer]
      <4>1. pc' = "cancelling" /\ piece' = m.piece
        BY <3>1, <3>4 DEF ReceivedPiece
      <4> QED  BY <2>2, <3>2, <4>1
    <3>5. CASE m.peer \in peers /\ m.piece \notin activeRequests[m.peer]
      <4>1. Waits(ReceivedMsg(m.peer, m.piece))
        BY <1>0, <3>1, Receives
      <4>2. OnItsWay(m.peer, m.piece)
        BY <4>1, OnItsWayNow
      <4>3. m.piece \in finishedPieces
        BY <1>2, <3>1, <3>5, <4>2 DEF Accounted, FirstTime
      <4>4. pc' \in {"idle", "assigning"}
        BY <3>1, <3>5 DEF ReceivedPiece, startRequests
      <4> QED  BY <2>2, <3>2, <4>3, <4>4
    <3> QED  BY <3>3, <3>4, <3>5
  <2>4. CASE m.type # "received"
    <3>1. pc = "idle" /\ finishedPieces' = finishedPieces /\ pc' \notin {"cancelling", "sending"}
      BY <2>1, <2>4 DEF ControllerReceives, NewPeer, DeadPeer, ChokeStatus, HavePiece,
                        UnknownPeerMessage
    <3>2. CASE n \in peers
      BY <1>3, <2>2, <3>1, <3>2
    <3>3. CASE n \notin peers
      <4>1. activeRequests[n] = {}
        BY <1>0, <2>2, <3>3 DEF IInv, RequestsJustified
      <4> QED  BY <2>2, <3>1, <4>1
    <3> QED  BY <3>2, <3>3
  <2> QED  BY <2>3, <2>4
<1>7. CASE ControllerContinues \/ ControllerCancels
  <2>1. /\ n \in Peers /\ activeRequests'[n] \cap finishedPieces' \subseteq activeRequests[n]
        /\ n \in peers /\ finishedPieces' = finishedPieces
    <3>1. UNCHANGED <<peers, finishedPieces>>
      BY <1>7 DEF ControllerContinues, ControllerCancels, Continue, CancelOther, CancelsDone,
                  RequestsForNextPeer, CancelDelivered
    <3> QED  BY <1>0, <1>1, <1>5, <1>7, <3>1, ControllerStep
  <2>2. CASE (\E k \in Peers : CancelOther(k)) \/ CancelDelivered
    <3>1. /\ pc \in {"cancelling", "sending"} /\ pc' \in {"cancelling", "sending"}
          /\ piece' = piece
      BY <2>2 DEF CancelOther, CancelDelivered
    <3> QED  BY <1>3, <2>1, <3>1
  <2>3. CASE CancelsDone
    <3>1. /\ pc = "cancelling" /\ pc' \notin {"cancelling", "sending"}
          /\ piece \notin activeRequests[n]
      BY <2>1, <2>3 DEF CancelsDone, startRequests
    <3> QED  BY <1>3, <2>1, <3>1
  <2>4. CASE \E k \in Peers : RequestsForNextPeer(k)
    <3>1. pc = "assigning" /\ pc' \in {"idle", "assigning"}
      BY <2>4 DEF RequestsForNextPeer
    <3> QED  BY <1>3, <2>1, <3>1
  <2> QED  BY <1>7, <2>2, <2>3, <2>4 DEF ControllerContinues, ControllerCancels, Continue
<1>8. CASE PeerManagerStep
  BY <1>4, <1>8 DEF PeerManagerStep, TrackerPeer, Accept, Connect, TakeConn, RemovePeer,
                    StartSeeding
<1>9. ASSUME NEW k \in Peers, PeerStep(k) PROVE UNCHANGED vars
  BY <1>9 DEF PeerStep, FirstHave, Choke, Unchoke, Announce, TakeRequest, FinishPiece,
              PeerStops, PeerWedges, Fail
<1>10. ASSUME NEW k \in Peers, NEW p \in Pieces, WritePiece(k, p) PROVE UNCHANGED vars
  BY <1>10 DEF WritePiece
<1>11. CASE UNCHANGED svars
  BY <1>4, <1>11 DEF svars
<1> QED  BY <1>4, <1>6, <1>7, <1>8, <1>9, <1>10, <1>11 DEF SNext

\* What is on its way and which finished pieces are recorded, on top of the
\* registrations and the chokes.
DuplicateInv == UnchokeInv /\ Cancelling /\ \A n \in Peers : Accounted(n)

\* The inductive invariant of the duplicates.
THEOREM DuplicateInvariance == SSpec => []DuplicateInv
<1>1. SInit => DuplicateInv
  <2> SUFFICES ASSUME SInit PROVE DuplicateInv
    OBVIOUS
  <2>1. UnchokeInv
    BY InitUnchokeInv
  <2>2. peers = {} /\ \A x : x \notin DOMAIN toController /\ x \notin DOMAIN writes
    BY DEF SInit, Init, EmptyBag, SetToBag
  <2>3. \A n \in Peers, p \in Pieces : requests[n][p] = 0 /\ downloads[n][p] = 0
    BY DEF SInit, None
  <2>4. \A n \in Peers, p \in Pieces : ~OnItsWay(n, p)
    BY <2>2, <2>3 DEF OnItsWay, BagIn, BagToSet
  <2> QED  BY <2>1, <2>2, <2>4 DEF DuplicateInv, Cancelling, Accounted
<1>2. DuplicateInv /\ [SNext]_svars => DuplicateInv'
  <2> SUFFICES ASSUME DuplicateInv, [SNext]_svars PROVE DuplicateInv'
    OBVIOUS
  <2>1. UnchokeInv /\ UnchokeInv'
    BY NextUnchokeInv DEF DuplicateInv
  <2>2. SIInv /\ IInv' /\ budget.choke <= ChokeBudget
    BY <2>1 DEF UnchokeInv, RInv, SIInv
  <2>3. Cancelling'
    BY <2>2, CancellingStep DEF DuplicateInv
  <2>4. ASSUME NEW n \in Peers PROVE Accounted(n)'
    <3>1. Registration(n) /\ Unchoking(n) /\ Accounted(n)
      BY <2>1 DEF DuplicateInv, UnchokeInv, RInv
    <3>2. CASE ControllerTakes
      BY <2>2, <3>1, <3>2, ControllerAccounted
    <3>3. CASE ControllerContinues \/ ControllerCancels
      BY <2>2, <3>1, <3>3, ContinueAccounted
    <3>4. CASE PeerManagerStep
      BY <2>2, <3>1, <3>4, PeerManagerAccounted
    <3>5. CASE \E k \in Peers : PeerStep(k) \/ \E p \in Pieces : WritePiece(k, p)
      BY <2>2, <3>1, <3>5, PeerAccounted
    <3>6. CASE UNCHANGED svars
      <4>1. UNCHANGED <<peers, activeRequests, finishedPieces, requests, downloads, writes,
                        toController, run, inc, budget>>
        BY <3>6 DEF svars, vars, peerVars
      <4>2. \A p \in Pieces : OnItsWay(n, p)' => OnItsWay(n, p)
        BY <2>2, <4>1, NothingNew DEF SIInv
      <4> QED  BY <3>1, <4>1, <4>2, AccountedKept
    <3> QED  BY <3>2, <3>3, <3>4, <3>5, <3>6 DEF SNext
  <2> QED  BY <2>1, <2>3, <2>4 DEF DuplicateInv
<1> QED  BY <1>1, <1>2, PTL DEF SSpec

\* As long as nobody chokes us and no peer comes back under its old name, every
\* duplicate request of a finished piece is cancelled.
THEOREM DuplicatesAreCancelled == SSpec => []DuplicatesCancelled
<1>1. DuplicateInv => DuplicatesCancelled
  BY DEF DuplicateInv, Cancelling, FirstTime, DuplicatesCancelled, FinishedNotRequested
<1> QED  BY <1>1, DuplicateInvariance, PTL

===============================================================================
