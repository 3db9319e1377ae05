------------------------------ MODULE Controller ------------------------------
(***************************************************************************)
(* The controller goroutine of Tulva (src/controller.go).                  *)
(*                                                                         *)
(* The controller owns the download: which pieces are finished, which      *)
(* peers are registered, what each of them has, whether it chokes us and   *)
(* which pieces it was told to fetch.  Its Run loop takes one message at a *)
(* time from its channels and everything a message triggers happens before *)
(* the next message is taken.                                              *)
(*                                                                         *)
(* The environment is open: any message may arrive at any time, for a      *)
(* registered peer or not.  That is deliberate.  Every sender runs in a    *)
(* goroutine of its own, so the channels give no order between messages of *)
(* different senders; module Swarm closes the system and shows which       *)
(* orders really happen.                                                   *)
(*                                                                         *)
(* A handler is one action wherever the code runs without giving up        *)
(* control.  The received-piece handler is a sequence of actions, chained  *)
(* by pc: it blocks once per CANCEL it sends, and it then walks over the   *)
(* peers.  No message is taken while pc # "idle".                          *)
(*                                                                         *)
(* A PeerInfo object is spread over isChoked, availablePieces and          *)
(* activeRequests, indexed by peer name; a name that is not a key of the   *)
(* peers map holds the values NewPeerInfo would give it.  out is the set   *)
(* of messages that the last step handed to goroutines ("go func() {...}") *)
(* or delivered itself.                                                    *)
(*                                                                         *)
(* The slice of createRaritySlice is shuffled once per message; here every *)
(* peer of the request loop may see its own tie-break, which allows all    *)
(* the behaviours of the code and a few more.                              *)
(*                                                                         *)
(* Operators named Faulty... are variants with a plausible mistake.  The   *)
(* specification does not use them: they show that the properties notice   *)
(* such mistakes.                                                          *)
(***************************************************************************)
EXTENDS Integers, FiniteSets, Functions

CONSTANTS
  Peers,         \* peer names ("IP:port")
  Pieces,        \* piece numbers
  MaxDownloads,  \* maxSimultaneousDownloadsPerPeer
  NoPeer,        \* not a peer
  NoPiece        \* not a piece

\* NewController refuses an empty torrent (controller.go:128).
ASSUME ControllerAssumption ==
  /\ IsFiniteSet(Peers)
  /\ IsFiniteSet(Pieces)
  /\ Pieces # {}
  /\ MaxDownloads \in Nat \ {0}
  /\ NoPeer \notin Peers
  /\ NoPiece \notin Pieces

VARIABLES
  finishedPieces,       \* pieces written to disk and reported by DiskIO
  downloadComplete,
  peers,                \* the keys of cont.peers
  isChoked,
  availablePieces,
  activeRequests,
  activeRequestsTotals,
  pc,                   \* where Run is
  piece,                \* the received piece whose duplicates are cancelled
  blockedOn,            \* the peer whose cancelPiece channel Run waits for
  todo,                 \* peers the request loop has not visited yet
  out                   \* messages sent by the last step

vars == <<finishedPieces, downloadComplete, peers, isChoked, availablePieces,
          activeRequests, activeRequestsTotals, pc, piece, blockedOn, todo, out>>

peerInfo == <<isChoked, availablePieces, activeRequests>>

(***************************************************************************)
(* Messages to peers and to the peer manager.                              *)
(***************************************************************************)
RequestPiece(n, p) == [type |-> "request",  to |-> n, piece |-> p]
CancelPiece(n, p)  == [type |-> "cancel",   to |-> n, piece |-> p]
SendHave(n, p)     == [type |-> "have",     to |-> n, piece |-> p]
SendBitfield(n)    == [type |-> "bitfield", to |-> n]
Seeding            == [type |-> "seeding"]

Messages ==
  [type : {"request", "cancel", "have"}, to : Peers, piece : Pieces]
    \cup [type : {"bitfield"}, to : Peers]
    \cup [type : {"seeding"}]

(***************************************************************************)
(* Ways for Run to end: it returns (on quit, or on a message from a peer   *)
(* that is not registered), or it takes the process down (three log.Fatalf *)
(* and a nil pointer).                                                     *)
(***************************************************************************)
Handling == {"cancelling", "sending", "assigning"}
Crashed  == {"duplicatePeer", "unknownDeadPeer", "stuckRequests", "nilPeer"}
Halted   == {"quit", "unknownPeerMessage"} \cup Crashed

-----------------------------------------------------------------------------
(* Helpers that pick pieces.  They take the values of the fields the       *)
(* calling handler has just updated.                                       *)

\* Rarity of a piece: how many unchoked peers have it.
createPeerPieceTotals(choked, available) ==
  [p \in Pieces |-> Cardinality({n \in peers : ~choked[n] /\ p \in available[n]})]

\* The orders in which the elements of a set can be lined up, as sequences.
Orders(S) == Injection(1 .. Cardinality(S), S)

FaultyRaritySlice(choked, available) ==  \* forgets what is finished
  Orders(Pieces)

\* The needed pieces, the rarest first: the buckets of the RarityMap one after
\* the other, each shuffled, so pieces of the same rarity are in any order.
createRaritySlice(choked, available) ==
  LET total == createPeerPieceTotals(choked, available)
  IN  {s \in Orders(Pieces \ finishedPieces) :
         \A i, j \in DOMAIN s : i < j => total[s[i]] <= total[s[j]]}

\* PiecePrioritySlice.Less.  A PiecePriority is known by its rarityIndex: the
\* piece is at that index and the total is the one of that piece.
Less(i, j, raritySlice) ==
  LET activeRequestsTotal(k) == activeRequestsTotals[raritySlice[k]]
  IN  IF activeRequestsTotal(i) # activeRequestsTotal(j)
      THEN activeRequestsTotal(i) <= activeRequestsTotal(j)
      ELSE i <= j

\* What sort.Sort makes of the PiecePrioritySlice: its elements in the order of
\* Less.  No two of them are equal, so there is exactly one such sequence.
toSortedPieceSlice(pps, raritySlice) ==
  {[k \in DOMAIN s |-> raritySlice[s[k]]] :
     s \in {t \in Orders(pps) :
              \A i, j \in DOMAIN t : i < j => Less(t[i], t[j], raritySlice)}}

\* The pieces of the rarity slice that n has and is not already fetching.
createDownloadPriorityForPeer(n, available, raritySlice) ==
  toSortedPieceSlice({i \in DOMAIN raritySlice :
                        raritySlice[i] \in available[n] \ activeRequests[n]},
                     raritySlice)

FaultyFirstRequests(n, downloadPriority) ==  \* one request too many
  {downloadPriority[k] : k \in {i \in DOMAIN downloadPriority :
                                  i <= MaxDownloads + 1 - Cardinality(activeRequests[n])}}

\* How far sendRequestsToPeer gets before the peer is at its limit.  Only the
\* set matters: every request is sent by a goroutine of its own.
FirstRequests(n, downloadPriority) ==
  {downloadPriority[k] : k \in {i \in DOMAIN downloadPriority :
                                  i <= MaxDownloads - Cardinality(activeRequests[n])}}

-----------------------------------------------------------------------------
(* Helpers that change state.                                              *)

FaultyUpdateCompletedFlag(finished) ==  \* looks before the piece is counted
  downloadComplete' = (downloadComplete \/ finishedPieces = Pieces)

updateCompletedFlagIfFinished(finished) ==
  downloadComplete' = (downloadComplete \/ finished = Pieces)

\* The goroutine that reports seeding is started each time the check succeeds.
SeedingReport(finished) == IF finished = Pieces THEN {Seeding} ELSE {}

sendHaveToPeersWhoNeedPiece(p) ==
  {SendHave(n, p) : n \in {m \in peers : p \notin availablePieces[m]}}

sendRequestsToPeer(n, choked, available) ==
  \E raritySlice \in createRaritySlice(choked, available) :
  \E downloadPriority \in createDownloadPriorityForPeer(n, available, raritySlice) :
    LET S == IF downloadComplete THEN {} ELSE FirstRequests(n, downloadPriority)
    IN  /\ activeRequests' = [activeRequests EXCEPT ![n] = @ \cup S]
        /\ activeRequestsTotals' =
             [p \in Pieces |-> IF p \in S THEN activeRequestsTotals[p] + 1
                               ELSE activeRequestsTotals[p]]
        /\ out' = {RequestPiece(n, p) : p \in S}

FaultyRemoveUnfinishedWork(n) ==  \* forgets the totals
  /\ activeRequests' = [activeRequests EXCEPT ![n] = {}]
  /\ UNCHANGED activeRequestsTotals

FaultyRemoveKeepsSet(n) ==  \* decrements, forgets to empty the set
  /\ activeRequestsTotals' =
       [p \in Pieces |-> IF p \in activeRequests[n] THEN activeRequestsTotals[p] - 1
                         ELSE activeRequestsTotals[p]]
  /\ UNCHANGED activeRequests

removeUnfinishedWorkForPeer(n) ==
  /\ activeRequests' = [activeRequests EXCEPT ![n] = {}]
  /\ activeRequestsTotals' =
       [p \in Pieces |-> IF p \in activeRequests[n] THEN activeRequestsTotals[p] - 1
                         ELSE activeRequestsTotals[p]]

FaultyDropActiveRequest(n, p) ==  \* forgets the total
  /\ activeRequests' = [activeRequests EXCEPT ![n] = @ \ {p}]
  /\ UNCHANGED activeRequestsTotals

dropActiveRequest(n, p) ==
  /\ activeRequests' = [activeRequests EXCEPT ![n] = @ \ {p}]
  /\ activeRequestsTotals' = [activeRequestsTotals EXCEPT ![p] = @ - 1]

\* A peer takes requests when it is unchoked and below its limit.
TakesRequests(n) ==
  /\ ~isChoked[n]
  /\ Cardinality(activeRequests[n]) < MaxDownloads

FaultyStartRequests(complete) ==  \* no request loop
  /\ todo' = {}
  /\ pc' = "idle"

\* Enter the loop over the peers sorted by qtyPiecesNeeded.  The peers that
\* the loop would skip are left out of todo.
startRequests(complete) ==
  /\ todo' = IF complete THEN {} ELSE {n \in peers : TakesRequests(n)}
  /\ pc' = IF todo' = {} THEN "idle" ELSE "assigning"

\* updateQuantityNeededForPeer
qtyPiecesNeeded(n) == Cardinality(availablePieces[n] \ finishedPieces)

-----------------------------------------------------------------------------
(* Messages from DiskIO.                                                   *)

FaultyReceivedPiece(n, p) ==  \* cancels no duplicates
  /\ pc = "idle" /\ n \in peers
  /\ finishedPieces' = finishedPieces \cup {p}
  /\ updateCompletedFlagIfFinished(finishedPieces')
  /\ out' = SeedingReport(finishedPieces') \cup sendHaveToPeersWhoNeedPiece(p)
  /\ IF p \in activeRequests[n] THEN dropActiveRequest(n, p)
     ELSE UNCHANGED <<activeRequests, activeRequestsTotals>>
  /\ startRequests(downloadComplete')
  /\ UNCHANGED <<peers, isChoked, availablePieces, piece, blockedOn>>

\* First part of the received-piece handler, up to the first CANCEL.  When
\* the peer is not registered, removePieceFromActiveRequests reads a field
\* of a nil *PeerInfo.  When the piece is not among the peer's active
\* requests, nothing is cancelled.
ReceivedPiece(n, p) ==
  LET finished == finishedPieces \cup {p}
  IN  /\ pc = "idle"
      /\ finishedPieces' = finished
      /\ updateCompletedFlagIfFinished(finished)
      /\ out' = SeedingReport(finished) \cup sendHaveToPeersWhoNeedPiece(p)
      /\ \/ /\ n \notin peers
            /\ pc' = "nilPeer"
            /\ UNCHANGED <<activeRequests, activeRequestsTotals, piece, todo>>
         \/ /\ n \in peers /\ p \in activeRequests[n]
            /\ dropActiveRequest(n, p)
            /\ pc' = "cancelling"
            /\ piece' = p
            /\ UNCHANGED todo
         \/ /\ n \in peers /\ p \notin activeRequests[n]
            /\ startRequests(downloadComplete')
            /\ UNCHANGED <<activeRequests, activeRequestsTotals, piece>>
      /\ UNCHANGED <<peers, isChoked, availablePieces, blockedOn>>

\* The loop of removePieceFromActiveRequests meets another peer that fetches
\* the piece: the request is dropped, then Run waits for that peer.
CancelOther(n) ==
  /\ pc = "cancelling"
  /\ n \in peers /\ piece \in activeRequests[n]
  /\ dropActiveRequest(n, piece)
  /\ pc' = "sending"
  /\ blockedOn' = n
  /\ out' = {}
  /\ UNCHANGED <<finishedPieces, downloadComplete, peers, isChoked,
                 availablePieces, piece, todo>>

\* The peer takes the CANCEL from its channel.
CancelDelivered ==
  /\ pc = "sending"
  /\ pc' = "cancelling"
  /\ blockedOn' = NoPeer
  /\ out' = {CancelPiece(blockedOn, piece)}
  /\ UNCHANGED <<finishedPieces, downloadComplete, peers, peerInfo,
                 activeRequestsTotals, piece, todo>>

\* The loop is over: the stuck-request check, then the request loop starts.
CancelsDone ==
  /\ pc = "cancelling"
  /\ \A n \in peers : piece \notin activeRequests[n]
  /\ IF activeRequestsTotals[piece] # 0
     THEN pc' = "stuckRequests" /\ UNCHANGED todo
     ELSE startRequests(downloadComplete)
  /\ piece' = NoPiece
  /\ out' = {}
  /\ UNCHANGED <<finishedPieces, downloadComplete, peers, peerInfo,
                 activeRequestsTotals, blockedOn>>

FaultyRequestsForNextPeer(n) ==  \* the loop never advances
  /\ pc = "assigning"
  /\ n \in todo
  /\ sendRequestsToPeer(n, isChoked, availablePieces)
  /\ UNCHANGED <<finishedPieces, downloadComplete, peers, isChoked,
                 availablePieces, pc, piece, blockedOn, todo>>

\* sortedPeersByQtyPiecesNeeded: a peer that has the fewest pieces we need is
\* first of those that are left.
SortedFirst(n) == \A m \in todo : qtyPiecesNeeded(n) <= qtyPiecesNeeded(m)

\* One iteration of the request loop.  The rarity slice is made before the loop;
\* here every iteration makes one, of the same totals, so that two peers may see
\* different shuffles of equally rare pieces, which the code rules out.
RequestsForNextPeer(n) ==
  /\ pc = "assigning"
  /\ n \in todo
  /\ SortedFirst(n)
  /\ sendRequestsToPeer(n, isChoked, availablePieces)
  /\ todo' = todo \ {n}
  /\ pc' = IF todo' = {} THEN "idle" ELSE "assigning"
  /\ UNCHANGED <<finishedPieces, downloadComplete, peers, isChoked,
                 availablePieces, piece, blockedOn>>

-----------------------------------------------------------------------------
(* Messages from the peer manager.                                         *)

NewPeer(n) ==
  /\ pc = "idle"
  /\ \/ /\ n \in peers
        /\ pc' = "duplicatePeer"
        /\ out' = {}
        /\ UNCHANGED peers
     \/ /\ n \notin peers
        /\ peers' = peers \cup {n}
        /\ out' = {SendBitfield(n)}
        /\ UNCHANGED pc
  /\ UNCHANGED <<finishedPieces, downloadComplete, peerInfo,
                 activeRequestsTotals, piece, blockedOn, todo>>

DeadPeer(n) ==
  /\ pc = "idle"
  /\ out' = {}
  /\ \/ /\ n \notin peers
        /\ pc' = "unknownDeadPeer"
        /\ UNCHANGED <<peers, peerInfo, activeRequestsTotals>>
     \/ /\ n \in peers
        /\ removeUnfinishedWorkForPeer(n)
        /\ peers' = peers \ {n}
        /\ isChoked' = [isChoked EXCEPT ![n] = TRUE]
        /\ availablePieces' = [availablePieces EXCEPT ![n] = {}]
        /\ UNCHANGED pc
  /\ UNCHANGED <<finishedPieces, downloadComplete, piece, blockedOn, todo>>

-----------------------------------------------------------------------------
(* Messages from a peer.                                                   *)

\* Run returns when the peer is not registered.
UnknownPeerMessage(n) ==
  /\ pc = "idle"
  /\ n \notin peers
  /\ pc' = "unknownPeerMessage"
  /\ out' = {}
  /\ UNCHANGED <<finishedPieces, downloadComplete, peers, peerInfo,
                 activeRequestsTotals, piece, blockedOn, todo>>

FaultyChokeStatus(n, choked) ==  \* a choke keeps the peer's work
  /\ pc = "idle"
  /\ n \in peers
  /\ isChoked' = [isChoked EXCEPT ![n] = choked]
  /\ IF choked THEN out' = {} /\ UNCHANGED <<activeRequests, activeRequestsTotals>>
     ELSE sendRequestsToPeer(n, isChoked', availablePieces)
  /\ UNCHANGED <<finishedPieces, downloadComplete, peers, availablePieces,
                 pc, piece, blockedOn, todo>>

ChokeStatus(n, choked) ==
  \/ UnknownPeerMessage(n)
  \/ /\ pc = "idle"
     /\ n \in peers
     /\ isChoked' = [isChoked EXCEPT ![n] = choked]
     /\ \/ choked  /\ removeUnfinishedWorkForPeer(n) /\ out' = {}
        \/ ~choked /\ sendRequestsToPeer(n, isChoked', availablePieces)
     /\ UNCHANGED <<finishedPieces, downloadComplete, peers, availablePieces,
                    pc, piece, blockedOn, todo>>

FaultyHavePiece(n, batch) ==  \* waits for the next message to send requests
  /\ pc = "idle"
  /\ n \in peers
  /\ availablePieces' = [availablePieces EXCEPT ![n] = @ \cup batch]
  /\ out' = {}
  /\ UNCHANGED <<finishedPieces, downloadComplete, peers, isChoked, activeRequests,
                 activeRequestsTotals, pc, piece, blockedOn, todo>>

\* An inner channel with the pieces of a HAVE or of a whole bitfield.  The
\* sender does nothing else until it is drained, so the batch is one step.
HavePiece(n, batch) ==
  \/ UnknownPeerMessage(n)
  \/ /\ pc = "idle"
     /\ n \in peers
     /\ availablePieces' = [availablePieces EXCEPT ![n] = @ \cup batch]
     /\ \/ TakesRequests(n) /\ sendRequestsToPeer(n, isChoked, availablePieces')
        \/ /\ ~TakesRequests(n)
           /\ out' = {}
           /\ UNCHANGED <<activeRequests, activeRequestsTotals>>
     /\ UNCHANGED <<finishedPieces, downloadComplete, peers, isChoked,
                    pc, piece, blockedOn, todo>>

Quit ==
  /\ pc = "idle"
  /\ pc' = "quit"
  /\ out' = {}
  /\ UNCHANGED <<finishedPieces, downloadComplete, peers, peerInfo,
                 activeRequestsTotals, piece, blockedOn, todo>>

-----------------------------------------------------------------------------

\* NewController, given the pieces that DiskIO.Verify found on disk.
Init ==
  /\ finishedPieces \in SUBSET Pieces
  /\ downloadComplete = (finishedPieces = Pieces)
  /\ out = SeedingReport(finishedPieces)
  /\ peers = {}
  /\ isChoked = [n \in Peers |-> TRUE]
  /\ availablePieces = [n \in Peers |-> {}]
  /\ activeRequests = [n \in Peers |-> {}]
  /\ activeRequestsTotals = [p \in Pieces |-> 0]
  /\ pc = "idle"
  /\ piece = NoPiece
  /\ blockedOn = NoPeer
  /\ todo = {}

\* The steps Run takes by itself while it handles a received piece.
Continue ==
  \/ \E n \in Peers : CancelOther(n)
  \/ CancelsDone
  \/ \E n \in Peers : RequestsForNextPeer(n)

TakeMessage ==
  \/ \E n \in Peers, p \in Pieces : ReceivedPiece(n, p)
  \/ \E n \in Peers : NewPeer(n)
  \/ \E n \in Peers : DeadPeer(n)
  \/ \E n \in Peers, choked \in BOOLEAN : ChokeStatus(n, choked)
  \/ \E n \in Peers, batch \in (SUBSET Pieces) \ {{}} : HavePiece(n, batch)
  \/ Quit

Next == TakeMessage \/ Continue \/ CancelDelivered

Spec == Init /\ [][Next]_vars

-----------------------------------------------------------------------------
(* Properties.                                                             *)

TypeOK ==
  /\ finishedPieces \in SUBSET Pieces
  /\ downloadComplete \in BOOLEAN
  /\ peers \in SUBSET Peers
  /\ isChoked \in [Peers -> BOOLEAN]
  /\ availablePieces \in [Peers -> SUBSET Pieces]
  /\ activeRequests \in [Peers -> SUBSET Pieces]
  /\ activeRequestsTotals \in [Pieces -> Nat]
  /\ pc \in {"idle"} \cup Handling \cup Halted
  /\ piece \in Pieces \cup {NoPiece}
  /\ blockedOn \in Peers \cup {NoPeer}
  /\ todo \in SUBSET peers
  /\ out \in SUBSET Messages

\* The counter kept beside the per-peer sets never drifts from them: every
\* path that adds or drops a request (sendRequestsToPeer, a CANCEL, a choke, a
\* death) adjusts activeRequestsTotals by the same amount.
Requesters(p) == {n \in peers : p \in activeRequests[n]}

TotalsMatch ==
  \A p \in Pieces : activeRequestsTotals[p] = Cardinality(Requesters(p))

\* The log.Fatalf "Somehow there are %d stuck requests" is unreachable,
\* whatever messages arrive and in whatever order.
NoStuckRequests == pc # "stuckRequests"

\* No peer is ever asked for more than maxSimultaneousDownloadsPerPeer pieces
\* at a time, although three handlers hand out requests.
WithinLimit == \A n \in Peers : Cardinality(activeRequests[n]) <= MaxDownloads

\* What a peer is recorded as fetching is something it has, and a peer that
\* chokes us or is gone is recorded as fetching nothing.
RequestsJustified ==
  \A n \in Peers :
    /\ activeRequests[n] \subseteq availablePieces[n]
    /\ activeRequests[n] # {} => n \in peers /\ ~isChoked[n]

\* Pieces that n has, that we need, and that n is not already fetching.
CandidatesOf(n, available) ==
  (available[n] \ finishedPieces) \ activeRequests[n]

\* Between two messages no peer is left idle by mistake: one that is unchoked
\* and below its limit has no piece left that we need and that it is not
\* already fetching.  In the request loop this holds for the visited peers.
Saturated(n) == TakesRequests(n) => CandidatesOf(n, availablePieces) = {}

NoIdlePeer ==
  /\ pc = "idle" => \A n \in peers : Saturated(n)
  /\ pc = "assigning" => \A n \in peers \ todo : Saturated(n)

\* A request goes only to a registered, unchoked peer that has the piece and
\* is not already fetching it, and never for a piece that is finished.
UsefulRequests ==
  [][\A n \in Peers, p \in Pieces :
       RequestPiece(n, p) \in out' =>
         /\ n \in peers' /\ ~isChoked'[n]
         /\ p \in availablePieces'[n] \ finishedPieces'
         /\ p \notin activeRequests[n]]_vars

\* A piece that another peer is fetching is requested a second time only in
\* the end game: everything we need of what the peer has is by then being
\* fetched by somebody.  The sort looks only at activeRequestsTotals, so this
\* rests on those counters saying who fetches what after any chokes, deaths
\* and CANCELs.
EndgameOnly ==
  [][\A n \in Peers, p \in Pieces :
       /\ RequestPiece(n, p) \in out'
       /\ Requesters(p) # {}
       => \A q \in availablePieces'[n] \ finishedPieces' : Requesters(q)' # {}]_vars

\* The received-piece handler always comes back to the select statement (or
\* ends the process) once the peers take their CANCELs.
HandlerTerminates == pc \in Handling ~> pc \notin Handling

\* "Remove this piece from the active request list for the peer that finished
\* the download, along with all other peers who were downloading it."  That
\* depends on the order of messages: see DuplicatesCancelled in module Swarm.
FinishedNotRequested ==
  pc = "idle" => \A n \in peers : activeRequests[n] \cap finishedPieces = {}

\* What the proofs need besides: which of piece, blockedOn and todo are in use
\* at each point of Run, that an unregistered name holds the values of
\* NewPeerInfo, and what the complete flag means.
PhaseOK ==
  /\ pc \in {"cancelling", "sending"} => piece \in finishedPieces
  /\ pc = "sending" => blockedOn \in peers
  /\ pc # "assigning" => todo = {}
  /\ \A n \in todo : ~isChoked[n]
  /\ \A n \in Peers \ peers : isChoked[n] /\ availablePieces[n] = {}
  /\ downloadComplete <=> finishedPieces = Pieces

IInv == /\ TypeOK
        /\ TotalsMatch
        /\ NoStuckRequests
        /\ WithinLimit
        /\ RequestsJustified
        /\ NoIdlePeer
        /\ PhaseOK
===============================================================================
