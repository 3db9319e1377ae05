----------------------------- MODULE PieceDownload -----------------------------
(***************************************************************************)
(* How one Peer fetches the blocks of the pieces it is told to download    *)
(* (src/peer.go), with the remote end, DiskIO and the controller around    *)
(* it.                                                                     *)
(*                                                                         *)
(* p.downloads is a slice of pointers to PieceDownload objects that are    *)
(* used again when they are finished: obj holds the objects, downloads the *)
(* order.  All pieces have the same length here, so the buffer of an       *)
(* object is kept when the object gets its next piece; data[b] says whose  *)
(* block is at position b.                                                 *)
(*                                                                         *)
(* The reader starts a goroutine per message, so messages are decoded in   *)
(* any order: they wait in the bag arriving.  Requests for blocks are sent *)
(* by goroutines too, and wait in the bag asked until the remote end       *)
(* serves or, while it chokes us, drops them.                              *)
(*                                                                         *)
(* Nothing protects the objects.  A handler may start while others are in  *)
(* sendOneOrMoreRequests, between reading the total and sending a request. *)
(* It may also be preempted inside an update of the counters, after it has *)
(* read them and before it writes them back: torn holds such a handler and *)
(* what it read, races counts them.  When it goes on, each counter gets a  *)
(* value computed from the old or from the current one.                    *)
(*                                                                         *)
(* Operators named Faulty... are variants with a plausible mistake that    *)
(* the specification does not use.                                         *)
(***************************************************************************)
EXTENDS Integers, Sequences, FiniteSets, FiniteSetsExt, Bags

CONSTANTS
  Pieces,
  NumBlocks,     \* numBlocksInPiece
  MaxBlocks,     \* maxSimultaneousBlockDownloads
  MaxDownloads,  \* maxSimultaneousDownloadsPerPeer
  NoPiece,       \* not a piece
  MaxSlots,      \* bound: PieceDownload objects
  ChokeBudget,   \* bound: CHOKE messages
  CancelBudget,  \* bound: pieces that another peer finishes first
  RaceBudget     \* bound: handlers preempted inside an update

ASSUME PieceDownloadAssumption ==
  /\ IsFiniteSet(Pieces) /\ NoPiece \notin Pieces
  /\ NumBlocks \in Nat \ {0} /\ MaxBlocks \in Nat \ {0}
  /\ MaxDownloads \in Nat \ {0} /\ MaxSlots \in Nat \ {0}
  /\ ChokeBudget \in Nat /\ CancelBudget \in Nat /\ RaceBudget \in Nat

VARIABLES
  obj,            \* the PieceDownload objects
  downloads,      \* p.downloads
  peerChoking,
  state,          \* has the process or the connection been given up?
  run,            \* where Run is in sendOneOrMoreRequests
  decoders,       \* how many decode goroutines are where in sendOneOrMoreRequests
  asked,          \* bag of block requests on their way to the remote end
  arriving,       \* bag of messages that goroutines have yet to decode
  remoteChoking,
  writes,         \* bag of objects and pieces on their way to DiskIO
  disk,           \* what is on disk for each piece
  active,         \* the controller's activeRequests for this peer
  finishedPieces, \* the controller's
  isChoked,       \* the controller's
  requests,       \* bag of requests that wait for Run
  chokeStatus,    \* bag of choke reports that wait for the controller
  budget,
  torn,           \* the handler that is preempted inside an update, if any
  races           \* how many handlers have been

remoteVars  == <<asked, remoteChoking>>
controlVars == <<active, finishedPieces, isChoked, chokeStatus>>
stepVars == <<obj, downloads, peerChoking, state, run, decoders, remoteVars, arriving,
              writes, disk, controlVars, requests, budget>>
raceVars == <<torn, races>>
pvars == <<stepVars, raceVars>>

Blocks == 0 .. NumBlocks - 1
Slots  == 1 .. MaxSlots

Block(p, b) == [type |-> "block", piece |-> p, block |-> b]
MsgChoke    == [type |-> "choke"]
MsgUnchoke  == [type |-> "unchoke"]

NewPieceDownload ==
  [piece |-> NoPiece, received |-> 0, outstanding |-> 0, finished |-> TRUE,
   data |-> [b \in Blocks |-> NoPiece]]

Add(bag, e) == bag (+) SetToBag({e})
Take(bag, e) == bag (-) SetToBag({e})
CopiesOf(e, bag) == IF BagIn(e, bag) THEN bag[e] ELSE 0

Up == state = "up"

-----------------------------------------------------------------------------
(* Helpers.                                                                *)

Unfinished == {s \in Slots : \E i \in DOMAIN downloads : downloads[i] = s /\ ~obj[s].finished}

haveCurrentDownloads(o) == \E i \in DOMAIN downloads : ~o[downloads[i]].finished

\* The first element of downloads that satisfies Test, or 0.
First(Test(_)) ==
  LET hits == {i \in DOMAIN downloads : Test(downloads[i])}
  IN  IF hits = {} THEN 0 ELSE downloads[Min(hits)]

getPieceDownload(p) == First(LAMBDA s : ~obj[s].finished /\ obj[s].piece = p)

firstFinished == First(LAMBDA s : obj[s].finished)

\* The unfinished downloads, then the finished ones, both in the order they had:
\* the only sequence in this set.
moveFinishedPieceDownloadsToEnd(o) ==
  LET places       == DOMAIN downloads
      done(i)      == o[downloads[i]].finished
      before(i, j) == IF done(i) = done(j) THEN i < j ELSE done(j)
      order        == {from \in [places -> places] :
                         \A i, j \in places : i < j => before(from[i], from[j])}
  IN  {[i \in places |-> downloads[from[i]]] : from \in order}

FaultyRemaining(s) ==  \* off by one
  NumBlocks + 1 - (obj[s].received + obj[s].outstanding)

remainingRequestsToSend(s) == NumBlocks - (obj[s].received + obj[s].outstanding)

firstWithBlocksLeft == First(LAMBDA s : ~obj[s].finished /\ remainingRequestsToSend(s) > 0)

SumOverSlots(f) ==
  LET total[s \in 0 .. MaxSlots] == IF s = 0 THEN 0 ELSE total[s - 1] + f[s]
  IN  total[MaxSlots]

totalOutstandingBlocks ==
  SumOverSlots([s \in Slots |-> IF s \in Unfinished THEN obj[s].outstanding ELSE 0])

checkHash(data, p) == \A b \in Blocks : data[b] = p

NoDecoder == [pos \in {"check", "send"} |-> 0]

\* Nobody is in sendOneOrMoreRequests.
Quiet == run = "select" /\ decoders = NoDecoder

-----------------------------------------------------------------------------
(* sendOneOrMoreRequests, executed by Run or by a decode goroutine: the    *)
(* total is read, then the first download with blocks left gets a request, *)
(* and again.                                                              *)

FaultyWaitForRoom ==  \* tries again until there is room
  IF totalOutstandingBlocks >= MaxBlocks THEN "check" ELSE "send"

\* Where the loop goes after the total has been read.
AfterTotal ==
  IF totalOutstandingBlocks >= MaxBlocks THEN "done" ELSE "send"

FaultyCheckTotal(next) ==  \* does not notice that the window is exceeded
  next = AfterTotal /\ UNCHANGED <<state, obj, asked>>

CheckTotal(next) ==
  /\ state' = IF totalOutstandingBlocks > MaxBlocks THEN "tooManyBlocks" ELSE state
  /\ next = AfterTotal
  /\ UNCHANGED <<obj, asked>>

FaultySendRequest(next) ==  \* counts the received blocks only
  LET s == firstWithBlocksLeft
  IN  /\ \/ s = 0 /\ next = "done" /\ UNCHANGED <<obj, asked>>
         \/ /\ s # 0 /\ next = "check"
            /\ asked' = Add(asked, <<obj[s].piece, obj[s].received>>)
            /\ obj' = [obj EXCEPT ![s].outstanding = @ + 1]
      /\ UNCHANGED state

\* The block to request is the one after those received or requested.
SendRequest(next) ==
  LET s == firstWithBlocksLeft
  IN  /\ \/ s = 0 /\ next = "done" /\ UNCHANGED <<obj, asked>>
         \/ /\ s # 0 /\ next = "check"
            /\ asked' = Add(asked, <<obj[s].piece, obj[s].received + obj[s].outstanding>>)
            /\ obj' = [obj EXCEPT ![s].outstanding = @ + 1]
      /\ UNCHANGED state

RequestLoop(from, next) ==
  \/ from = "check" /\ CheckTotal(next)
  \/ from = "send" /\ SendRequest(next)

RunRequests ==
  /\ Up /\ run \in {"check", "send"}
  /\ \E next \in {"check", "send", "done"} :
       /\ RequestLoop(run, next)
       /\ run' = IF next = "done" THEN "select" ELSE next
  /\ UNCHANGED <<downloads, peerChoking, decoders, arriving, remoteChoking, writes,
                 disk, controlVars, requests, budget, raceVars>>

DecoderRequests ==
  /\ Up
  /\ \E from \in {"check", "send"}, next \in {"check", "send", "done"} :
       /\ decoders[from] > 0
       /\ RequestLoop(from, next)
       /\ decoders' = [pos \in {"check", "send"} |->
                         decoders[pos] - (IF pos = from THEN 1 ELSE 0)
                                       + (IF pos = next THEN 1 ELSE 0)]
  /\ UNCHANGED <<downloads, peerChoking, run, arriving, remoteChoking, writes, disk,
                 controlVars, requests, budget, raceVars>>

-----------------------------------------------------------------------------
(* Peer.Run.                                                               *)

\* The first finished object is used again, a new one is made otherwise; then
\* block requests are sent.
TakeRequest(p) ==
  /\ Up /\ run = "select"
  /\ BagIn(p, requests)
  /\ LET used  == firstFinished
         s     == IF used = 0 THEN Len(downloads) + 1 ELSE used
         fresh == IF used = 0 THEN NewPieceDownload ELSE obj[used]
     IN  /\ s \in Slots
         /\ downloads' = IF used = 0 THEN Append(downloads, s) ELSE downloads
         /\ obj' = [obj EXCEPT ![s] = [fresh EXCEPT !.piece = p, !.received = 0,
                                                    !.outstanding = 0, !.finished = FALSE]]
  /\ requests' = Take(requests, p)
  /\ run' = "check"
  /\ UNCHANGED <<peerChoking, state, decoders, remoteVars, arriving, writes, disk,
                 controlVars, budget, raceVars>>

\* Another peer has finished p: the controller drops the request and hands over
\* a CANCEL.
CancelPiece(p) ==
  /\ Up /\ run = "select"
  /\ budget.cancel > 0
  /\ p \in active /\ p \notin finishedPieces
  /\ budget' = [budget EXCEPT !.cancel = @ - 1]
  /\ active' = active \ {p}
  /\ finishedPieces' = finishedPieces \cup {p}
  /\ LET s == getPieceDownload(p)
     IN  \/ s = 0 /\ UNCHANGED <<obj, downloads>>
         \/ /\ s # 0
            /\ obj' = [obj EXCEPT ![s].finished = TRUE]
            /\ downloads' \in moveFinishedPieceDownloadsToEnd(obj')
  /\ UNCHANGED <<peerChoking, state, run, decoders, remoteVars, arriving, writes, disk,
                 isChoked, chokeStatus, requests, raceVars>>

-----------------------------------------------------------------------------
(* decodeMessage, in a goroutine of its own.                               *)

\* A block that belongs to no current download is dropped.
DropBlock(p, b) ==
  /\ Up
  /\ BagIn(Block(p, b), arriving)
  /\ getPieceDownload(p) = 0
  /\ arriving' = Take(arriving, Block(p, b))
  /\ UNCHANGED <<obj, downloads, peerChoking, state, run, decoders, remoteVars, writes,
                 disk, controlVars, requests, budget, raceVars>>

FaultyCountBlock(s, p, b) ==  \* forgets that the block is no longer outstanding
  [obj EXCEPT ![s].data[b] = p, ![s].received = @ + 1]

CountBlock(s, p, b) ==
  [obj EXCEPT ![s].data[b] = p, ![s].received = @ + 1, ![s].outstanding = @ - 1]

FaultyNextRequests(o) == decoders  \* asks for nothing more

\* The goroutine goes on to sendOneOrMoreRequests.
NextRequests(o) ==
  IF haveCurrentDownloads(o) THEN [decoders EXCEPT !["check"] = @ + 1] ELSE decoders

\* The block is counted, giving o.  The last one makes the piece complete: it is
\* handed to DiskIO, or the connection is given up.
FinishBlock(s, p, expected, o) ==
  \/ /\ o[s].received # NumBlocks
     /\ obj' = o
     /\ decoders' = NextRequests(obj')
     /\ UNCHANGED <<state, downloads, writes>>
  \/ /\ o[s].received = NumBlocks
     /\ ~checkHash(o[s].data, expected)
     /\ obj' = o
     /\ state' = "badChecksum"
     /\ UNCHANGED <<decoders, downloads, writes>>
  \/ /\ o[s].received = NumBlocks
     /\ checkHash(o[s].data, expected)
     /\ obj' = [o EXCEPT ![s].finished = TRUE]
     /\ downloads' \in moveFinishedPieceDownloadsToEnd(obj')
     /\ writes' = Add(writes, <<s, p>>)
     /\ decoders' = NextRequests(obj')
     /\ UNCHANGED state

\* A block of a current download is stored and counted.
StoreBlock(p, b) ==
  LET s == getPieceDownload(p)
  IN  /\ Up
      /\ BagIn(Block(p, b), arriving)
      /\ s # 0
      /\ arriving' = Take(arriving, Block(p, b))
      /\ FinishBlock(s, p, p, CountBlock(s, p, b))
      /\ UNCHANGED <<peerChoking, run, remoteVars, disk, controlVars, requests, budget,
                     raceVars>>

Choke ==
  /\ Up
  /\ BagIn(MsgChoke, arriving)
  /\ arriving' = Take(arriving, MsgChoke)
  /\ \/ peerChoking /\ UNCHANGED <<peerChoking, obj, chokeStatus>>
     \/ /\ ~peerChoking
        /\ peerChoking' = TRUE
        /\ obj' = [s \in Slots |-> [obj[s] EXCEPT !.finished = TRUE, !.received = 0,
                                                  !.outstanding = 0]]
        /\ chokeStatus' = Add(chokeStatus, TRUE)
  /\ UNCHANGED <<downloads, state, run, decoders, remoteVars, writes, disk, active,
                 finishedPieces, isChoked, requests, budget, raceVars>>

Unchoke ==
  /\ Up
  /\ BagIn(MsgUnchoke, arriving)
  /\ arriving' = Take(arriving, MsgUnchoke)
  /\ \/ ~peerChoking /\ UNCHANGED <<peerChoking, chokeStatus>>
     \/ /\ peerChoking
        /\ peerChoking' = FALSE
        /\ chokeStatus' = Add(chokeStatus, FALSE)
  /\ UNCHANGED <<obj, downloads, state, run, decoders, remoteVars, writes, disk, active,
                 finishedPieces, isChoked, requests, budget, raceVars>>

-----------------------------------------------------------------------------
(* Data races: "numBlocksReceived += 1" and the like are a read and a      *)
(* write, and no lock keeps other goroutines out in between.               *)

\* The handler has read the counters of object s.
Preempt(who, s, p) ==
  /\ torn = {} /\ races < RaceBudget
  /\ torn' = {[who |-> who, slot |-> s, piece |-> p, received |-> obj[s].received,
               outstanding |-> obj[s].outstanding]}
  /\ races' = races + 1

\* A decode goroutine, after it has copied the block.
PreemptStore(p, b) ==
  LET s == getPieceDownload(p)
  IN  /\ Up
      /\ BagIn(Block(p, b), arriving)
      /\ s # 0
      /\ Preempt("store", s, p)
      /\ arriving' = Take(arriving, Block(p, b))
      /\ obj' = [obj EXCEPT ![s].data[b] = p]
      /\ UNCHANGED <<downloads, peerChoking, state, run, decoders, remoteVars, writes,
                     disk, controlVars, requests, budget>>

\* sendOneOrMoreRequests, after it has computed the number of the block.
PreemptSend(who) ==
  LET s == firstWithBlocksLeft
  IN  /\ Up
      /\ s # 0
      /\ \/ /\ who = "run" /\ run = "send"
            /\ run' = "preempted" /\ UNCHANGED decoders
         \/ /\ who = "decoder" /\ decoders["send"] > 0
            /\ decoders' = [decoders EXCEPT !["send"] = @ - 1] /\ UNCHANGED run
      /\ Preempt(who, s, obj[s].piece)
      /\ asked' = Add(asked, <<obj[s].piece, obj[s].received + obj[s].outstanding>>)
      /\ UNCHANGED <<obj, downloads, peerChoking, state, remoteChoking, arriving, writes,
                     disk, controlVars, requests, budget>>

\* The preempted handler goes on.
Resume(h) ==
  LET s == h.slot
  IN  /\ Up
      /\ h \in torn
      /\ torn' = {}
      /\ \E rec \in {h.received, obj[s].received}, out \in {h.outstanding, obj[s].outstanding} :
           \/ /\ h.who = "store"
              /\ FinishBlock(s, h.piece, obj[s].piece,
                             [obj EXCEPT ![s].received = rec + 1, ![s].outstanding = out - 1])
              /\ UNCHANGED run
           \/ /\ h.who # "store"
              /\ obj' = [obj EXCEPT ![s].outstanding = out + 1]
              /\ \/ h.who = "run" /\ run' = "check" /\ UNCHANGED decoders
                 \/ /\ h.who = "decoder" /\ UNCHANGED run
                    /\ decoders' = [decoders EXCEPT !["check"] = @ + 1]
              /\ UNCHANGED <<state, downloads, writes>>
      /\ UNCHANGED <<peerChoking, remoteVars, arriving, disk, controlVars, requests, budget,
                     races>>

-----------------------------------------------------------------------------
(* The remote end, an honest one.                                          *)

ServeBlock(r) ==
  /\ Up
  /\ ~remoteChoking
  /\ BagIn(r, asked)
  /\ asked' = Take(asked, r)
  /\ arriving' = Add(arriving, Block(r[1], r[2]))
  /\ UNCHANGED <<obj, downloads, peerChoking, state, run, decoders, remoteChoking,
                 writes, disk, controlVars, requests, budget, raceVars>>

IgnoreRequest(r) ==
  /\ Up
  /\ remoteChoking
  /\ BagIn(r, asked)
  /\ asked' = Take(asked, r)
  /\ UNCHANGED <<obj, downloads, peerChoking, state, run, decoders, remoteChoking,
                 arriving, writes, disk, controlVars, requests, budget, raceVars>>

RemoteChokes ==
  /\ Up
  /\ ~remoteChoking
  /\ budget.choke > 0
  /\ budget' = [budget EXCEPT !.choke = @ - 1]
  /\ remoteChoking' = TRUE
  /\ arriving' = Add(arriving, MsgChoke)
  /\ UNCHANGED <<obj, downloads, peerChoking, state, run, decoders, asked, writes,
                 disk, controlVars, requests, raceVars>>

RemoteUnchokes ==
  /\ Up
  /\ remoteChoking
  /\ remoteChoking' = FALSE
  /\ arriving' = Add(arriving, MsgUnchoke)
  /\ UNCHANGED <<obj, downloads, peerChoking, state, run, decoders, asked, writes,
                 disk, controlVars, requests, budget, raceVars>>

-----------------------------------------------------------------------------
(* DiskIO and the controller, as far as they matter to this peer.          *)

\* DiskIO writes what is in the buffer at that time; the report reaches the
\* controller.
WritePiece(w) ==
  /\ Up
  /\ BagIn(w, writes)
  /\ writes' = Take(writes, w)
  /\ disk' = [disk EXCEPT ![w[2]] = IF checkHash(obj[w[1]].data, w[2]) THEN "good" ELSE "bad"]
  /\ active' = active \ {w[2]}
  /\ finishedPieces' = finishedPieces \cup {w[2]}
  /\ UNCHANGED <<obj, downloads, peerChoking, state, run, decoders, remoteVars, arriving,
                 isChoked, chokeStatus, requests, budget, raceVars>>

RequestPiece(p) ==
  /\ Up
  /\ ~isChoked
  /\ p \notin active \cup finishedPieces
  /\ Cardinality(active) < MaxDownloads
  /\ active' = active \cup {p}
  /\ requests' = Add(requests, p)
  /\ UNCHANGED <<obj, downloads, peerChoking, state, run, decoders, remoteVars, arriving,
                 writes, disk, finishedPieces, isChoked, chokeStatus, budget, raceVars>>

ReceiveChokeStatus(choked) ==
  /\ Up
  /\ BagIn(choked, chokeStatus)
  /\ chokeStatus' = Take(chokeStatus, choked)
  /\ isChoked' = choked
  /\ active' = IF choked THEN {} ELSE active
  /\ UNCHANGED <<obj, downloads, peerChoking, state, run, decoders, remoteVars, arriving,
                 writes, disk, finishedPieces, requests, budget, raceVars>>

-----------------------------------------------------------------------------

\* The remote end has unchoked us and the controller knows.
PInit ==
  /\ obj = [s \in Slots |-> NewPieceDownload]
  /\ downloads = <<>>
  /\ peerChoking = FALSE
  /\ state = "up"
  /\ run = "select"
  /\ decoders = NoDecoder
  /\ asked = EmptyBag /\ arriving = EmptyBag /\ writes = EmptyBag
  /\ requests = EmptyBag /\ chokeStatus = EmptyBag
  /\ remoteChoking = FALSE
  /\ disk = [p \in Pieces |-> "missing"]
  /\ active = {} /\ finishedPieces = {}
  /\ isChoked = FALSE
  /\ budget = [choke |-> ChokeBudget, cancel |-> CancelBudget]
  /\ torn = {} /\ races = 0

DecodeMessage ==
  \/ \E p \in Pieces, b \in Blocks : StoreBlock(p, b) \/ DropBlock(p, b)
  \/ Choke
  \/ Unchoke

Serve == \E r \in Pieces \X Blocks : ServeBlock(r)
Write == \E w \in Slots \X Pieces : WritePiece(w)

\* The steps that update counters without being preempted.
WholeStep ==
  \/ RunRequests
  \/ DecoderRequests
  \/ \E p \in Pieces : TakeRequest(p) \/ CancelPiece(p) \/ RequestPiece(p)
  \/ DecodeMessage
  \/ Serve
  \/ \E r \in Pieces \X Blocks : IgnoreRequest(r)
  \/ RemoteChokes
  \/ RemoteUnchokes
  \/ Write
  \/ \E c \in BOOLEAN : ReceiveChokeStatus(c)

Race ==
  \/ \E p \in Pieces, b \in Blocks : PreemptStore(p, b)
  \/ \E who \in {"run", "decoder"} : PreemptSend(who)

Resumes == \E h \in torn : Resume(h)

PNext ==
  \/ WholeStep
  \/ Race
  \/ Resumes

PSpec == PInit /\ [][PNext]_pvars

\* Goroutines that can run do run; the remote end unchokes us and serves what
\* it is asked for while it does not choke us.
PFairSpec ==
  /\ PSpec
  /\ WF_pvars(RunRequests) /\ WF_pvars(DecoderRequests)
  /\ WF_pvars(DecodeMessage) /\ WF_pvars(Serve) /\ WF_pvars(Write)
  /\ WF_pvars(Resumes)
  /\ WF_pvars(RemoteUnchokes)
  /\ WF_pvars(\E c \in BOOLEAN : ReceiveChokeStatus(c))
  /\ \A p \in Pieces : WF_pvars(TakeRequest(p))

-----------------------------------------------------------------------------
(* Properties.                                                             *)

\* No update torn, no CHOKE, no CANCEL so far.
Unraced     == races = 0
Unchoked    == budget.choke = ChokeBudget
Uncancelled == budget.cancel = CancelBudget

\* A CHOKE that overtakes a block can make numOutstandingBlocks negative; but as
\* long as no update is torn every block asked for exists, and no more blocks
\* are counted than the piece has.
PTypeOK ==
  /\ obj \in [Slots -> [piece : Pieces \cup {NoPiece}, received : Nat, outstanding : Int,
                        finished : BOOLEAN, data : [Blocks -> Pieces \cup {NoPiece}]]]
  /\ downloads \in Seq(Slots)
  /\ peerChoking \in BOOLEAN /\ remoteChoking \in BOOLEAN /\ isChoked \in BOOLEAN
  /\ state \in {"up", "tooManyBlocks", "badChecksum"}
  /\ run \in {"select", "check", "send", "preempted"}
  /\ decoders \in [{"check", "send"} -> Nat]
  /\ BagToSet(asked) \subseteq Pieces \X Int
  /\ BagToSet(arriving) \subseteq [type : {"block"}, piece : Pieces, block : Blocks]
                                    \cup {MsgChoke, MsgUnchoke}
  /\ BagToSet(writes) \subseteq Slots \X Pieces
  /\ BagToSet(requests) \subseteq Pieces /\ BagToSet(chokeStatus) \subseteq BOOLEAN
  /\ disk \in [Pieces -> {"missing", "good", "bad"}]
  /\ active \subseteq Pieces /\ finishedPieces \subseteq Pieces
  /\ budget \in [choke : Nat, cancel : Nat]
  /\ torn \subseteq [who : {"store", "run", "decoder"}, slot : Slots, piece : Pieces,
                     received : Nat, outstanding : Int]
  /\ races \in Nat
  /\ Unraced => /\ BagToSet(asked) \subseteq Pieces \X Blocks
                /\ \A s \in Slots : /\ obj[s].received \in 0 .. NumBlocks
                                    /\ obj[s].outstanding \in -NumBlocks .. NumBlocks

\* "The piece received from this peer didn't pass the checksum.": the remote
\* end of this model only sends right data, so this is never said of it.
HonestPeer == state # "badChecksum"

\* A remote end that only sends right data is never disconnected for a wrong
\* checksum, as long as it does not choke us and no two handlers update the
\* counters at the same moment: no block is counted twice.
HonestPeerKept == Unchoked /\ Unraced => HonestPeer

\* numOutstandingBlocks is what is really under way: for a current download,
\* the blocks received and the blocks under way are different ones, and
\* together they are the first received + outstanding blocks of the piece.
\* CANCELs do not disturb this, although objects are used again while blocks of
\* the cancelled piece are under way and handlers overlap; a CHOKE does, and so
\* does a torn update.
UnderWay(p, b) == BagIn(<<p, b>>, asked) \/ BagIn(Block(p, b), arriving)
Copies(p, b) == CopiesOf(<<p, b>>, asked) + CopiesOf(Block(p, b), arriving)

BlocksAccounted ==
  Up /\ Unchoked /\ Unraced => \A s \in Unfinished :
    LET p   == obj[s].piece
        out == {b \in Blocks : UnderWay(p, b)}
    IN  /\ Cardinality(out) = obj[s].outstanding
        /\ \A b \in out : Copies(p, b) = 1 /\ b < obj[s].received + obj[s].outstanding
        /\ \A b \in Blocks \ out :
             b < obj[s].received + obj[s].outstanding => obj[s].data[b] = p

\* sendOneOrMoreRequests reads the total and raises it in two steps, without a
\* lock, so handlers that overlap can exceed the window: by one block for each
\* handler in the loop, no more.  Whoever exceeds it reads the total once more, so
\* when nobody is in the loop the window is kept or the process has ended.
Sending  == decoders["send"] + (IF run = "send" THEN 1 ELSE 0)
Handlers == decoders["check"] + decoders["send"] + (IF run = "select" THEN 0 ELSE 1)

WindowBounded ==
  Up /\ Unchoked /\ Unraced => totalOutstandingBlocks + Sending <= MaxBlocks + Handlers

\* The peer does not idle: with a download that has blocks left to ask for,
\* the window is full or the loop that fills it is running.
WindowFilled ==
  Up /\ Quiet /\ Unchoked /\ Uncancelled /\ Unraced =>
    \/ totalOutstandingBlocks = MaxBlocks
    \/ \A s \in Unfinished : remainingRequestsToSend(s) = 0

\* sendOneOrMoreRequests calls itself until the window is full or nothing is
\* left to ask for: it comes to an end, even when chokes and torn updates have
\* made the counters wrong.
Resting == Quiet /\ torn = {}

HandlersReturn == ~Resting ~> Resting \/ ~Up

\* A piece that the controller waits for is finished sooner or later, unless
\* there is a CHOKE, a CANCEL or a torn update, or the process ends.
PiecesFinishUndisturbed ==
  \A p \in Pieces : p \in active ~> \/ p \notin active
                                    \/ ~(Unchoked /\ Uncancelled /\ Unraced /\ Up)

-----------------------------------------------------------------------------
(* Statements of the code's comments and messages.                         *)

\* The log.Fatalf "State Error: Somehow there are %d outstanding blocks, which
\* is more than %d" is unreachable.
WindowRespected == state # "tooManyBlocks"

\* "Wait until blocks are received before sending more requests." and "When we
\* get response (piece) messages, we'll then determine if more need to be set.":
\* when no block is under way and nothing else is left to happen, no download
\* is left unfinished.
NothingPending ==
  /\ Resting /\ ~peerChoking /\ ~remoteChoking
  /\ asked = EmptyBag /\ arriving = EmptyBag
  /\ requests = EmptyBag /\ chokeStatus = EmptyBag

NoneStranded == Up /\ NothingPending => Unfinished = {}

\* "Sent from DiskIO to the controller indicating that a piece has been
\* received and written to disk": what is written is what was checked.
DiskGood == \A p \in Pieces : disk[p] # "bad"

===============================================================================
