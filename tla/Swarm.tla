-------------------------------- MODULE Swarm --------------------------------
(***************************************************************************)
(* The controller together with the goroutines it talks to: the peer       *)
(* manager, the peers and DiskIO (src/peer.go, src/diskio.go), and the     *)
(* remote ends of the connections.                                         *)
(*                                                                         *)
(* Most sends to the controller are made by a goroutine of their own ("go  *)
(* func() { ch <- m }()"), so they can be received in any order: they wait *)
(* in the bag toController.  A send on the channels of a peer waits until  *)
(* that peer's Run receives it, for ever if Run has ended: the pieces in   *)
(* requests wait for the current connection, the ones that can no longer   *)
(* arrive are dropped.                                                     *)
(*                                                                         *)
(* A peer name ("IP:port") can be used by several connections in turn.     *)
(* inc[n] numbers them; chans[n] is the one whose channels the             *)
(* controller's PeerInfo holds.                                            *)
(*                                                                         *)
(* A piece is downloaded in one step here: module PieceDownload models the *)
(* block requests.  The HAVE and bitfield messages to the remote end are   *)
(* left out, except that the first one lets Peer.Run start.  A connection  *)
(* attempt that fails changes nothing.  Shutdown (quit) is left out.       *)
(***************************************************************************)
EXTENDS Controller, Bags

CONSTANTS
  RemoteHas,    \* what each remote peer has
  MaxPeers,     \* maxPeers
  ConnBudget,   \* bound: connections ever established
  ChokeBudget,  \* bound: CHOKE messages ever received
  FailBudget    \* bound: connections that ever fail

ASSUME SwarmAssumption ==
  /\ RemoteHas \in [Peers -> SUBSET Pieces]
  /\ MaxPeers \in Nat \ {0}
  /\ ConnBudget \in Nat /\ ChokeBudget \in Nat /\ FailBudget \in Nat

VARIABLES
  toController,  \* bag of messages that goroutines try to send to the controller
  pmPeers,       \* the keys of pm.peers
  numPeers,
  seeding,       \* pm.seeding
  seedingSend,   \* a goroutine waits to report seeding
  conns,         \* connections on their way to the peer manager
  run,           \* where Peer.Run is
  inc,
  chans,
  peerChoking,
  announced,     \* peerBitfield
  requests,      \* request sends that wait for the peer
  downloads,     \* unfinished PieceDownloads
  writes,        \* bag of pieces on their way to DiskIO
  disk,          \* pieces on disk
  budget         \* what is left of the three bounds

pmVars   == <<pmPeers, numPeers, seeding, conns>>
peerVars == <<run, inc, peerChoking, announced>>
svars    == <<vars, toController, pmVars, seedingSend, peerVars, chans, requests,
              downloads, writes, disk, budget>>

NewPeerMsg(n)        == [type |-> "newPeer", peer |-> n, inc |-> inc'[n]]
DeadPeerMsg(n)       == [type |-> "deadPeer", peer |-> n]
ChokeMsg(n, choked)  == [type |-> "choke", peer |-> n, choked |-> choked]
HaveMsg(n, batch)    == [type |-> "have", peer |-> n, batch |-> batch]
ReceivedMsg(n, p)    == [type |-> "received", peer |-> n, piece |-> p]

SMessages ==
  [type : {"newPeer"}, peer : Peers, inc : Nat]
    \cup [type : {"deadPeer"}, peer : Peers]
    \cup [type : {"choke"}, peer : Peers, choked : BOOLEAN]
    \cup [type : {"have"}, peer : Peers, batch : (SUBSET Pieces) \ {{}}]
    \cup [type : {"received"}, peer : Peers, piece : Pieces]

send(m) == toController' = toController (+) SetToBag({m})

None == [p \in Pieces |-> 0]

Alive == pc \notin Crashed  \* log.Fatalf and a nil pointer end the process

-----------------------------------------------------------------------------
(* The controller.                                                         *)

\* Sends on the channels of a peer arrive only if they are those of its
\* current connection and its Run loop is (or will be) receiving.
Reachable(n) == chans'[n] = inc[n] /\ run[n] \in {"waiting", "running"}

\* The goroutines started by the step of the controller.
LaunchSends ==
  /\ requests' = [n \in Peers |-> [p \in Pieces |->
                    IF RequestPiece(n, p) \in out' /\ Reachable(n)
                    THEN requests[n][p] + 1 ELSE requests[n][p]]]
  /\ seedingSend' = (seedingSend \/ Seeding \in out')

Receive(m) ==
  /\ BagIn(m, toController)
  /\ toController' = toController (-) SetToBag({m})

ControllerReceives(m) ==
  /\ Receive(m)
  /\ \/ m.type = "received" /\ ReceivedPiece(m.peer, m.piece) /\ UNCHANGED chans
     \/ /\ m.type = "newPeer" /\ NewPeer(m.peer)
        /\ chans' = IF pc' \in Crashed THEN chans
                    ELSE [chans EXCEPT ![m.peer] = m.inc]
     \/ m.type = "deadPeer" /\ DeadPeer(m.peer)
        /\ chans' = [chans EXCEPT ![m.peer] = 0]
     \/ m.type = "choke" /\ ChokeStatus(m.peer, m.choked) /\ UNCHANGED chans
     \/ m.type = "have" /\ HavePiece(m.peer, m.batch) /\ UNCHANGED chans
  /\ LaunchSends
  /\ UNCHANGED <<pmVars, peerVars, downloads, writes, disk, budget>>

ControllerContinues ==
  /\ Continue
  /\ UNCHANGED chans
  /\ LaunchSends
  /\ UNCHANGED <<toController, pmVars, peerVars, downloads, writes, disk, budget>>

FaultyControllerCancels ==  \* does not check that the download exists
  /\ CancelDelivered
  /\ chans[blockedOn] = inc[blockedOn] /\ run[blockedOn] = "running"
  /\ downloads' = [downloads EXCEPT ![blockedOn][piece] = @ - 1]
  /\ UNCHANGED <<toController, pmVars, seedingSend, peerVars, chans, requests,
                 writes, disk, budget>>

\* processCancelFromController: the first unfinished download of the piece, if
\* there is one, is given up.
ControllerCancels ==
  /\ CancelDelivered
  /\ chans[blockedOn] = inc[blockedOn] /\ run[blockedOn] = "running"
  /\ downloads' = IF downloads[blockedOn][piece] = 0 THEN downloads
                  ELSE [downloads EXCEPT ![blockedOn][piece] = @ - 1]
  /\ UNCHANGED <<toController, pmVars, seedingSend, peerVars, chans, requests,
                 writes, disk, budget>>

-----------------------------------------------------------------------------
(* The peer manager.                                                       *)

Connect(n) ==
  /\ Alive
  /\ budget.conn > 0
  /\ conns' = [conns EXCEPT ![n] = @ + 1]
  /\ budget' = [budget EXCEPT !.conn = @ - 1]
  /\ UNCHANGED <<vars, toController, pmPeers, numPeers, seeding, seedingSend,
                 peerVars, chans, requests, downloads, writes, disk>>

\* A peer reported by a tracker; connectToPeer succeeds.
TrackerPeer(n) ==
  /\ ~seeding /\ numPeers < MaxPeers
  /\ n \notin pmPeers
  /\ Connect(n)

\* Server.Serve accepts a connection.
Accept(n) == Connect(n)

StartPeer(n) ==
  /\ pmPeers' = pmPeers \cup {n}
  /\ numPeers' = numPeers + 1
  /\ inc' = [inc EXCEPT ![n] = @ + 1]
  /\ run' = [run EXCEPT ![n] = "waiting"]
  /\ peerChoking' = [peerChoking EXCEPT ![n] = TRUE]
  /\ announced' = [announced EXCEPT ![n] = {}]
  /\ send(NewPeerMsg(n))

FaultyTakeConn(n) ==  \* a second connection of a known peer is accepted
  /\ Alive
  /\ conns[n] > 0
  /\ conns' = [conns EXCEPT ![n] = @ - 1]
  /\ \/ /\ numPeers >= MaxPeers
        /\ UNCHANGED <<pmPeers, numPeers, peerVars, toController>>
     \/ numPeers < MaxPeers /\ StartPeer(n)
  /\ UNCHANGED <<vars, seeding, seedingSend, chans, requests, downloads, writes,
                 disk, budget>>

FaultyTakeOverLimit(n) ==  \* relies on the limit test made for the tracker's peers
  /\ Alive
  /\ conns[n] > 0
  /\ conns' = [conns EXCEPT ![n] = @ - 1]
  /\ \/ n \in pmPeers /\ UNCHANGED <<pmPeers, numPeers, peerVars, toController>>
     \/ n \notin pmPeers /\ StartPeer(n)
  /\ UNCHANGED <<vars, seeding, seedingSend, chans, requests, downloads, writes,
                 disk, budget>>

\* A connection reaches the peer manager, which closes it (too many peers,
\* name in use) or starts a Peer.
TakeConn(n) ==
  /\ Alive
  /\ conns[n] > 0
  /\ conns' = [conns EXCEPT ![n] = @ - 1]
  /\ \/ /\ numPeers >= MaxPeers \/ n \in pmPeers
        /\ UNCHANGED <<pmPeers, numPeers, peerVars, toController>>
     \/ numPeers < MaxPeers /\ n \notin pmPeers /\ StartPeer(n)
  /\ UNCHANGED <<vars, seeding, seedingSend, chans, requests, downloads, writes,
                 disk, budget>>

RemovePeer(n) ==
  /\ Alive
  /\ run[n] = "stopping"
  /\ run' = [run EXCEPT ![n] = "none"]
  /\ pmPeers' = pmPeers \ {n}
  /\ numPeers' = numPeers - 1
  /\ send(DeadPeerMsg(n))
  /\ UNCHANGED <<vars, seeding, conns, seedingSend, inc, peerChoking, announced,
                 chans, requests, downloads, writes, disk, budget>>

StartSeeding ==
  /\ Alive
  /\ seedingSend
  /\ seedingSend' = FALSE
  /\ seeding' = TRUE
  /\ UNCHANGED <<vars, toController, pmPeers, numPeers, conns, peerVars, chans,
                 requests, downloads, writes, disk, budget>>

-----------------------------------------------------------------------------
(* The peers.                                                              *)

FaultyFirstHave(n) ==  \* does not wait for the controller
  /\ Alive
  /\ run[n] = "waiting"
  /\ run' = [run EXCEPT ![n] = "running"]
  /\ UNCHANGED <<vars, toController, pmVars, seedingSend, inc, peerChoking,
                 announced, chans, requests, downloads, writes, disk, budget>>

\* Peer.Run receives the first havePiece channel, which is sent once the
\* controller has registered the peer, and starts reader and writer.
FirstHave(n) ==
  /\ Alive
  /\ run[n] = "waiting"
  /\ chans[n] = inc[n]
  /\ run' = [run EXCEPT ![n] = "running"]
  /\ UNCHANGED <<vars, toController, pmVars, seedingSend, inc, peerChoking,
                 announced, chans, requests, downloads, writes, disk, budget>>

\* The reader runs in its own goroutine: it goes on when Run is wedged.
Reading(n) == run[n] \in {"running", "wedged"}

FaultyChoke(n) ==  \* does not tell the controller
  /\ Alive
  /\ Reading(n) /\ ~peerChoking[n]
  /\ budget.choke > 0
  /\ peerChoking' = [peerChoking EXCEPT ![n] = TRUE]
  /\ downloads' = [downloads EXCEPT ![n] = None]
  /\ budget' = [budget EXCEPT !.choke = @ - 1]
  /\ UNCHANGED <<vars, toController, pmVars, seedingSend, run, inc, announced,
                 chans, requests, writes, disk>>

Choke(n) ==
  /\ Alive
  /\ Reading(n) /\ ~peerChoking[n]
  /\ budget.choke > 0
  /\ peerChoking' = [peerChoking EXCEPT ![n] = TRUE]
  /\ downloads' = [downloads EXCEPT ![n] = None]
  /\ send(ChokeMsg(n, TRUE))
  /\ budget' = [budget EXCEPT !.choke = @ - 1]
  /\ UNCHANGED <<vars, pmVars, seedingSend, run, inc, announced, chans, requests,
                 writes, disk>>

FaultyUnchoke(n) ==  \* does not tell the controller
  /\ Alive
  /\ Reading(n) /\ peerChoking[n]
  /\ peerChoking' = [peerChoking EXCEPT ![n] = FALSE]
  /\ UNCHANGED <<vars, toController, pmVars, seedingSend, run, inc, announced, chans,
                 requests, downloads, writes, disk, budget>>

Unchoke(n) ==
  /\ Alive
  /\ Reading(n) /\ peerChoking[n]
  /\ peerChoking' = [peerChoking EXCEPT ![n] = FALSE]
  /\ send(ChokeMsg(n, FALSE))
  /\ UNCHANGED <<vars, pmVars, seedingSend, run, inc, announced, chans, requests,
                 downloads, writes, disk, budget>>

\* A HAVE, or a bitfield that is not empty.
Announce(n, batch) ==
  /\ Alive
  /\ Reading(n)
  /\ batch # {} /\ batch \subseteq RemoteHas[n] \ announced[n]
  /\ announced' = [announced EXCEPT ![n] = @ \cup batch]
  /\ send(HaveMsg(n, batch))
  /\ UNCHANGED <<vars, pmVars, seedingSend, run, inc, peerChoking, chans, requests,
                 downloads, writes, disk, budget>>

\* Peer.Run takes a request; a choke that came in between is not looked at.
TakeRequest(n, p) ==
  /\ Alive
  /\ run[n] = "running"
  /\ requests[n][p] > 0
  /\ requests' = [requests EXCEPT ![n][p] = @ - 1]
  /\ downloads' = [downloads EXCEPT ![n][p] = @ + 1]
  /\ UNCHANGED <<vars, toController, pmVars, seedingSend, peerVars, chans, writes,
                 disk, budget>>

\* The last block arrives and the hash is right.  The remote end serves
\* requests only while it does not choke us.
FinishPiece(n, p) ==
  /\ Alive
  /\ Reading(n) /\ ~peerChoking[n]
  /\ p \in RemoteHas[n]
  /\ downloads[n][p] > 0
  /\ downloads' = [downloads EXCEPT ![n][p] = @ - 1]
  /\ writes' = writes (+) SetToBag({<<n, p>>})
  /\ UNCHANGED <<vars, toController, pmVars, seedingSend, peerVars, chans,
                 requests, disk, budget>>

Fail(n, where) ==
  /\ Alive
  /\ budget.fail > 0
  /\ budget' = [budget EXCEPT !.fail = @ - 1]
  /\ run' = [run EXCEPT ![n] = where]
  /\ requests' = [requests EXCEPT ![n] = None]
  /\ UNCHANGED <<vars, toController, pmVars, seedingSend, inc, peerChoking,
                 announced, chans, writes, disk>>

\* The reader or the writer fails, or a hash is wrong: Stop makes Run close
\* the connection and wait for the peer manager.
PeerStops(n) ==
  /\ run[n] = "running"
  /\ Fail(n, "stopping")
  /\ downloads' = [downloads EXCEPT ![n] = None]

\* Run itself calls Stop (no message for 120 seconds, a keepalive or the
\* handshake cannot be sent): it waits for ever for its own receive.
PeerWedges(n) ==
  /\ \/ run[n] = "waiting" /\ Fail(n, "noHandshake")
     \/ run[n] = "running" /\ Fail(n, "wedged")
  /\ UNCHANGED downloads

-----------------------------------------------------------------------------
(* DiskIO writes a piece and reports it, in a goroutine per piece.         *)

WritePiece(n, p) ==
  /\ Alive
  /\ BagIn(<<n, p>>, writes)
  /\ writes' = writes (-) SetToBag({<<n, p>>})
  /\ disk' = disk \cup {p}
  /\ send(ReceivedMsg(n, p))
  /\ UNCHANGED <<vars, pmVars, seedingSend, peerVars, chans, requests, downloads,
                 budget>>

-----------------------------------------------------------------------------

SInit ==
  /\ Init
  /\ toController = EmptyBag
  /\ pmPeers = {} /\ numPeers = 0 /\ seeding = FALSE
  /\ seedingSend = (Seeding \in out)
  /\ conns = [n \in Peers |-> 0]
  /\ run = [n \in Peers |-> "none"]
  /\ inc = [n \in Peers |-> 0]
  /\ chans = [n \in Peers |-> 0]
  /\ peerChoking = [n \in Peers |-> TRUE]
  /\ announced = [n \in Peers |-> {}]
  /\ requests = [n \in Peers |-> None]
  /\ downloads = [n \in Peers |-> None]
  /\ writes = EmptyBag
  /\ disk = finishedPieces
  /\ budget = [conn |-> ConnBudget, choke |-> ChokeBudget, fail |-> FailBudget]

ControllerTakes == \E m \in BagToSet(toController) : ControllerReceives(m)

PeerManagerStep ==
  \/ \E n \in Peers : TrackerPeer(n) \/ Accept(n) \/ TakeConn(n) \/ RemovePeer(n)
  \/ StartSeeding

PeerStep(n) ==
  \/ FirstHave(n)
  \/ Choke(n)
  \/ Unchoke(n)
  \/ \E batch \in SUBSET RemoteHas[n] : Announce(n, batch)
  \/ \E p \in Pieces : TakeRequest(n, p) \/ FinishPiece(n, p)
  \/ PeerStops(n)
  \/ PeerWedges(n)

SNext ==
  \/ ControllerTakes
  \/ ControllerContinues
  \/ ControllerCancels
  \/ PeerManagerStep
  \/ \E n \in Peers : PeerStep(n)
  \/ \E n \in Peers, p \in Pieces : WritePiece(n, p)

SSpec == SInit /\ [][SNext]_svars

\* Goroutines that can run do run, and the remote ends are cooperative: they
\* unchoke us, tell what they have and send what is requested.
SFairness ==
  /\ WF_svars(ControllerTakes)
  /\ WF_svars(ControllerContinues)
  /\ WF_svars(ControllerCancels)
  /\ \A n \in Peers :
       /\ WF_svars(FirstHave(n))
       /\ WF_svars(RemovePeer(n))
       /\ WF_svars(Unchoke(n))
       /\ WF_svars(\E batch \in SUBSET RemoteHas[n] : Announce(n, batch))
       /\ \A p \in Pieces : /\ WF_svars(TakeRequest(n, p))
                            /\ WF_svars(FinishPiece(n, p))
                            /\ WF_svars(WritePiece(n, p))

SFairSpec == SSpec /\ SFairness

-----------------------------------------------------------------------------
(* Properties that hold.                                                   *)

STypeOK ==
  /\ TypeOK
  /\ IsABag(toController) /\ BagToSet(toController) \subseteq SMessages
  /\ IsABag(writes) /\ BagToSet(writes) \subseteq Peers \X Pieces
  /\ pmPeers \subseteq Peers
  /\ numPeers \in Nat
  /\ seeding \in BOOLEAN /\ seedingSend \in BOOLEAN
  /\ conns \in [Peers -> Nat] /\ inc \in [Peers -> Nat] /\ chans \in [Peers -> Nat]
  /\ run \in [Peers -> {"none", "waiting", "running", "stopping", "wedged",
                        "noHandshake"}]
  /\ peerChoking \in [Peers -> BOOLEAN]
  /\ announced \in [Peers -> SUBSET Pieces]
  /\ requests \in [Peers -> [Pieces -> Nat]]
  /\ downloads \in [Peers -> [Pieces -> Nat]]
  /\ disk \subseteq Pieces
  /\ budget \in [conn : Nat, choke : Nat, fail : Nat]

\* pm.numPeers counts pm.peers and never exceeds maxPeers, although the limit
\* is tested when a tracker reports a peer and its connection comes later.
PeerCountExact == numPeers = Cardinality(pmPeers) /\ numPeers <= MaxPeers

\* A peer whose reader runs is registered with the controller, with its own
\* channels: Run waits for the first havePiece before it starts the reader.  So
\* its death is reported after its registration, and the log.Fatalf "Was told
\* that %s is dead, but that peer doesn't exist in the mapping" is unreachable.
RunningRegistered ==
  /\ \A n \in Peers : run[n] = "running" => n \in peers /\ chans[n] = inc[n]
  /\ pc # "unknownDeadPeer"

\* The controller counts a piece as finished (and tells the other peers that
\* we have it) only when it is on disk.
FinishedOnDisk == finishedPieces \subseteq disk

\* The whole system is a download as module Download specifies it: with any
\* interleaving of peers, writes, reports and failures, pieces are stored once,
\* counted only after that, and the download is complete at the very step that
\* counts the last piece.
D == INSTANCE Download WITH stored <- disk, finished <- finishedPieces,
                            complete <- downloadComplete

ImplementsDownload == D!Spec

\* What the proofs need besides: Run is active only for a peer that the
\* manager knows, and only pieces on disk are reported.
ReportedOnDisk ==
  \A n \in Peers, p \in Pieces : BagIn(ReceivedMsg(n, p), toController) => p \in disk

SIInv ==
  /\ IInv
  /\ STypeOK
  /\ PeerCountExact
  /\ \A n \in Peers : run[n] # "none" => n \in pmPeers
  /\ FinishedOnDisk
  /\ ReportedOnDisk

\* A piece recorded as being fetched from a peer is on its way (a request that
\* waits for the peer, a download, a write, a report), or news that will clear
\* the record is on its way, or Run of that peer is stuck.
OnItsWay(n, p) ==
  \/ requests[n][p] > 0
  \/ downloads[n][p] > 0
  \/ BagIn(<<n, p>>, writes)
  \/ BagIn(ReceivedMsg(n, p), toController)

NoLostRequest ==
  Alive =>
    \A n \in peers : \A p \in activeRequests[n] :
      \/ OnItsWay(n, p)
      \/ BagIn(ChokeMsg(n, TRUE), toController)
      \/ BagIn(DeadPeerMsg(n), toController)
      \/ run[n] \in {"stopping", "wedged", "noHandshake"}

\* As long as nobody chokes us and no peer comes back under its old name, no
\* peer is left fetching a piece that is finished: every duplicate of the end
\* game is cancelled.  (A piece that is reported for a peer whose record of it
\* was cleared in between, by a choke or by a new connection, cancels nothing.)
DuplicatesCancelled ==
  budget.choke = ChokeBudget /\ (\A n \in Peers : inc[n] <= 1) => FinishedNotRequested

\* If connections do not break and nobody chokes us, the download completes
\* once every missing piece is held by some connected peer.
Covered == \A p \in Pieces : \/ p \in finishedPieces
                             \/ \E n \in pmPeers : p \in RemoteHas[n]

DownloadCompletes == Covered ~> downloadComplete

\* The controller still holds an earlier connection of n, whose death is on its
\* way to it.
Superseded(n) ==
  /\ 0 < chans[n] /\ chans[n] < inc[n]
  /\ BagIn(DeadPeerMsg(n), toController)

\* A registration waits for a name that the controller already knows only if
\* that name was used before and the death of its old connection waits as well:
\* the log.Fatalf about a pre-existing peer needs a peer that reconnects, and
\* the two messages of that peer in the wrong order.
DuplicateNeedsReconnect ==
  /\ \A m \in BagToSet(toController) :
       m.type = "newPeer" /\ m.peer \in peers => Superseded(m.peer)
  /\ pc = "duplicatePeer" => \E n \in peers : Superseded(n)

\* As long as nobody chokes us, the controller learns of every unchoke: a peer
\* that may be asked for pieces is recorded as unchoked, or the report waits.
UnchokesReported ==
  budget.choke = ChokeBudget /\ Alive =>
    \A n \in Peers :
      run[n] = "running" /\ ~peerChoking[n] =>
        ~isChoked[n] \/ BagIn(ChokeMsg(n, FALSE), toController)

-----------------------------------------------------------------------------
(* Statements of the code's comments and messages.                         *)

\* "Throw an error if the peer is duplicate (same IP/Port. should never happen)"
NoDuplicatePeer == pc # "duplicatePeer"

\* "WARNING. Was notified that %s finished downloading piece %x, but it doesn't
\* currently exist in the peers mapping." and "WARNING: Unable to process
\* PeerChokeStatus from %s because it doesn't exist in the peers mapping":
\* warnings, after which Run goes on.
LateMessageTolerated == pc \notin {"nilPeer", "unknownPeerMessage"}

\* "only 5 pieces at a time" (maxSimultaneousDownloadsPerPeer): what the peer is
\* really downloading.
DownloadsWithinLimit ==
  \A n \in Peers : Cardinality({p \in Pieces : downloads[n][p] > 0}) <= MaxDownloads

\* "Sent by the peer to controller indicating a 'choke' state change": once no
\* such message is under way, both agree.
ChokeAgrees ==
  Alive => \A n \in Peers :
    run[n] = "running" /\ (\A c \in BOOLEAN : ~BagIn(ChokeMsg(n, c), toController))
      => isChoked[n] = peerChoking[n]

\* "Tell this peer to stop downloading this piece because it's already
\* finished.": the CANCEL that the controller waits to hand over is taken.
CancelTaken == blockedOn # NoPeer ~> blockedOn = NoPeer

===============================================================================
