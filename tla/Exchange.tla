------------------------------- MODULE Exchange -------------------------------
(***************************************************************************)
(* What a peer and its remote end tell each other besides the blocks we    *)
(* download: which pieces each has, interest and chokes, and the blocks    *)
(* the remote end asks for (src/peer.go, and the HAVE messages of          *)
(* src/controller.go).  One connection, from its registration on.          *)
(*                                                                         *)
(* Every send is made by a goroutine of its own and every message from the *)
(* remote end is decoded by one, so both happen in any order: what waits   *)
(* is a set.                                                               *)
(*                                                                         *)
(* The controller sends what we have over inner channels.  The goroutine   *)
(* that sends the bitfield reads the live slice, not the copy it has made, *)
(* while the peer receives: a piece that is finished meanwhile may or may  *)
(* not be among it.                                                        *)
(***************************************************************************)
EXTENDS Naturals, FiniteSets

CONSTANTS
  Pieces,
  MaxGains,   \* bound: pieces that the remote end gets from others
  MaxRepeats  \* bound: pieces that arrive a second time

ASSUME ExchangeAssumption == MaxGains \in Nat /\ MaxRepeats \in Nat

VARIABLES
  finishedPieces,   \* the controller's
  repeats,          \* how many pieces have arrived a second time
  availablePieces,  \* what the controller knows of the remote end
  haveSends,        \* goroutines that wait to send to the peer: HAVEs, the bitfield
  run,              \* where Peer.Run is
  batchStart,       \* finishedPieces when Run began to receive the bitfield
  ourBitfield, peerBitfield,
  amInterested,
  amChoking,        \* peerInterested is its opposite
  deciders,         \* decoders that are about to look at amInterested
  withdrew,         \* have we ever sent NOT INTERESTED?
  outbox,           \* messages to the remote end that wait to be sent
  inbox,            \* messages of the remote end that wait to be decoded
  toController,     \* batches of HAVEs on their way to the controller
  reading,          \* requested blocks that DiskIO has or waits to hand over
  remote            \* the remote end

runVars  == <<run, batchStart, ourBitfield>>
interest == <<amInterested, deciders, withdrew>>
evars    == <<finishedPieces, repeats, availablePieces, haveSends, runVars,
              peerBitfield, interest, amChoking, outbox, inbox, toController, reading,
              remote>>

TheBitfield == {}   \* among haveSends: the goroutine of sendBitfieldOverChannel
Have(p)     == [type |-> "have", pieces |-> {p}]
Bitfield(S) == [type |-> "bitfield", pieces |-> S]
Request(p)  == [type |-> "request", pieces |-> {p}]
Block(p)    == [type |-> "block", pieces |-> {p}]
Say(what)   == [type |-> what, pieces |-> {}]

EMessages ==
  [type : {"have", "bitfield", "request", "block", "interested", "notInterested",
           "choke", "unchoke", "makeBitfield"},
   pieces : SUBSET Pieces]

send(m) == outbox' = outbox \cup {m}

\* When the connection has ended, nothing that is modelled here matters.
Connected == run # "stopped"

-----------------------------------------------------------------------------
(* The controller.                                                         *)

\* A piece arrives, from whichever peer.  The remote end is told unless the
\* controller knows that it has the piece.
ReceivedPiece(p) ==
  /\ Connected
  /\ \/ p \notin finishedPieces /\ UNCHANGED repeats
     \/ p \in finishedPieces /\ repeats < MaxRepeats /\ repeats' = repeats + 1
  /\ finishedPieces' = finishedPieces \cup {p}
  /\ haveSends' = IF p \in availablePieces THEN haveSends ELSE haveSends \cup {{p}}
  /\ UNCHANGED <<availablePieces, runVars, peerBitfield, interest, amChoking, outbox,
                 inbox, toController, reading, remote>>

HavePiece(batch) ==
  /\ Connected
  /\ batch \in toController
  /\ toController' = toController \ {batch}
  /\ availablePieces' = availablePieces \cup batch
  /\ UNCHANGED <<finishedPieces, repeats, haveSends, runVars, peerBitfield, interest,
                 amChoking, outbox, inbox, reading, remote>>

-----------------------------------------------------------------------------
(* Peer.Run.                                                               *)

weShouldBeInterested == peerBitfield \ ourBitfield # {}

\* Before the first batch Run waits for nothing else; then it has started
\* reader and writer and selects.
Selecting == run \in {"waiting", "running"}

\* Run takes an inner channel.  The one of the bitfield delivers for a while.
TakeBitfield ==
  /\ Selecting
  /\ TheBitfield \in haveSends
  /\ haveSends' = haveSends \ {TheBitfield}
  /\ run' = IF run = "waiting" THEN "firstBatch" ELSE "batch"
  /\ batchStart' = finishedPieces
  /\ UNCHANGED <<finishedPieces, repeats, availablePieces, ourBitfield, peerBitfield,
                 interest, amChoking, outbox, inbox, toController, reading, remote>>

FaultyStarted(batch) ==  \* the bitfield is made before ours is updated
  /\ outbox' = outbox \cup {Bitfield(ourBitfield)}
  /\ run' = "running"

\* The first batch, whatever it is, is announced as the bitfield, by a
\* goroutine that reads ourBitfield when it runs.
Started(batch) ==
  /\ send(Say("makeBitfield"))
  /\ run' = "running"

\* Any other batch is announced by HAVEs; then interest is looked at.
Announced(batch) ==
  /\ outbox' = outbox \cup {Have(p) : p \in batch}
  /\ run' = IF amInterested /\ peerBitfield \ ourBitfield' = {}
            THEN "withdrawing" ELSE "running"

BatchReceived(batch, first) ==
  /\ ourBitfield' = ourBitfield \cup batch
  /\ IF first THEN Started(batch) ELSE Announced(batch)
  /\ batchStart' = {}
  /\ UNCHANGED <<finishedPieces, repeats, availablePieces, peerBitfield, interest,
                 amChoking, inbox, toController, reading, remote>>

FinishBitfield(batch) ==
  /\ run \in {"firstBatch", "batch"}
  /\ batchStart \subseteq batch /\ batch \subseteq finishedPieces
  /\ BatchReceived(batch, run = "firstBatch")
  /\ UNCHANGED haveSends

TakeHave(p) ==
  /\ Selecting
  /\ {p} \in haveSends
  /\ haveSends' = haveSends \ {{p}}
  /\ BatchReceived({p}, run = "waiting")

\* sendNotInterested, after amInterested and the bitfields have been looked at.
Withdraw ==
  /\ run = "withdrawing"
  /\ run' = "running"
  /\ amInterested' = FALSE
  /\ withdrew' = TRUE
  /\ send(Say("notInterested"))
  /\ UNCHANGED <<finishedPieces, repeats, availablePieces, haveSends, batchStart,
                 ourBitfield, peerBitfield, deciders, amChoking, inbox, toController,
                 reading, remote>>

\* A block that DiskIO has read (module Storage).
TakeResponse(p) ==
  /\ run = "running"
  /\ p \in reading
  /\ reading' = reading \ {p}
  /\ send(Block(p))
  /\ UNCHANGED <<finishedPieces, repeats, availablePieces, haveSends, runVars,
                 peerBitfield, interest, amChoking, inbox, toController, remote>>

FaultyMakeBitfield ==  \* of the wrong end
  /\ Connected
  /\ Say("makeBitfield") \in outbox
  /\ outbox' = (outbox \ {Say("makeBitfield")}) \cup {Bitfield(peerBitfield)}
  /\ UNCHANGED <<finishedPieces, repeats, availablePieces, haveSends, runVars,
                 peerBitfield, interest, amChoking, inbox, toController, reading,
                 remote>>

\* The goroutine of sendBitfield.
MakeBitfield ==
  /\ Connected
  /\ Say("makeBitfield") \in outbox
  /\ outbox' = (outbox \ {Say("makeBitfield")}) \cup {Bitfield(ourBitfield)}
  /\ UNCHANGED <<finishedPieces, repeats, availablePieces, haveSends, runVars,
                 peerBitfield, interest, amChoking, inbox, toController, reading,
                 remote>>

\* The connection fails or the program quits.
Stop ==
  /\ run = "running"
  /\ run' = "stopped"
  /\ UNCHANGED <<finishedPieces, repeats, availablePieces, haveSends, batchStart,
                 ourBitfield, peerBitfield, interest, amChoking, outbox, inbox,
                 toController, reading, remote>>

-----------------------------------------------------------------------------
(* decodeMessage.                                                          *)

\* HAVE adds to peerBitfield, BITFIELD replaces it; the controller is told, of a
\* bitfield by a goroutine that may find later HAVEs in it, which are on their
\* way to the controller anyway.
DecodePieces(m) ==
  /\ m.type \in {"have", "bitfield"}
  /\ peerBitfield' = IF m.type = "have" THEN peerBitfield \cup m.pieces ELSE m.pieces
  /\ toController' = IF m.pieces = {} THEN toController ELSE toController \cup {m.pieces}
  /\ deciders' = deciders + 1
  /\ UNCHANGED <<amInterested, withdrew, amChoking, outbox, reading>>

DecodeInterest(m) ==
  /\ m.type \in {"interested", "notInterested"}
  /\ amChoking' = (m.type = "notInterested")
  /\ send(Say(IF amChoking' THEN "choke" ELSE "unchoke"))
  /\ UNCHANGED <<peerBitfield, interest, toController, reading>>

FaultyDecodeRequest(m) ==  \* the payload as it is
  /\ m.type = "request"
  /\ reading' = reading \cup {m.pieces}
  /\ UNCHANGED <<peerBitfield, interest, amChoking, outbox, toController>>

\* The request goes to DiskIO, choked or not.
DecodeRequest(m) ==
  /\ m.type = "request"
  /\ reading' = reading \cup m.pieces
  /\ UNCHANGED <<peerBitfield, interest, amChoking, outbox, toController>>

Decode(m) ==
  /\ run \notin {"waiting", "firstBatch", "stopped"}
  /\ m \in inbox
  /\ inbox' = inbox \ {m}
  /\ DecodePieces(m) \/ DecodeInterest(m) \/ DecodeRequest(m)
  /\ UNCHANGED <<finishedPieces, repeats, availablePieces, haveSends, runVars, remote>>

FaultyDecide ==  \* the remote end is not told
  /\ Connected
  /\ deciders > 0
  /\ deciders' = deciders - 1
  /\ amInterested' = (amInterested \/ weShouldBeInterested)
  /\ UNCHANGED <<finishedPieces, repeats, availablePieces, haveSends, runVars,
                 peerBitfield, withdrew, amChoking, outbox, inbox, toController,
                 reading, remote>>

\* A decoder of HAVE or BITFIELD goes on to the question of interest.
Decide ==
  /\ Connected
  /\ deciders > 0
  /\ deciders' = deciders - 1
  /\ IF ~amInterested /\ weShouldBeInterested
     THEN amInterested' = TRUE /\ send(Say("interested"))
     ELSE UNCHANGED <<amInterested, outbox>>
  /\ UNCHANGED <<finishedPieces, repeats, availablePieces, haveSends, runVars,
                 peerBitfield, withdrew, amChoking, inbox, toController, reading,
                 remote>>

-----------------------------------------------------------------------------
(* The remote end follows the protocol: it says what it has and what it    *)
(* gets, is interested as long as we have something it lacks, and asks for *)
(* one block of each such piece while we do not choke it.                  *)

remoteNeeds == remote.told \ remote.has

\* The writer hands a message to the connection, and it arrives.
RemoteReceives(m) ==
  /\ run \notin {"waiting", "firstBatch", "stopped"}
  /\ m \in outbox /\ m.type # "makeBitfield"
  /\ outbox' = outbox \ {m}
  /\ remote' =
       CASE m.type \in {"have", "bitfield"} -> [remote EXCEPT !.told = @ \cup m.pieces]
         [] m.type = "interested"           -> [remote EXCEPT !.wanted = TRUE]
         [] m.type = "notInterested"        -> [remote EXCEPT !.wanted = FALSE]
         [] m.type = "choke"                -> [remote EXCEPT !.choked = TRUE]
         [] m.type = "unchoke"              -> [remote EXCEPT !.choked = FALSE]
         [] m.type = "block"                -> [remote EXCEPT !.has = @ \cup m.pieces]
  /\ UNCHANGED <<finishedPieces, repeats, availablePieces, haveSends, runVars,
                 peerBitfield, interest, amChoking, inbox, toController, reading>>

RemoteSends(m) ==
  /\ Connected
  /\ inbox' = inbox \cup {m}
  /\ UNCHANGED <<finishedPieces, repeats, availablePieces, haveSends, runVars,
                 peerBitfield, interest, amChoking, outbox, toController, reading>>

RemoteGains(p) ==
  /\ p \notin remote.has /\ remote.gains < MaxGains
  /\ remote' = [remote EXCEPT !.has = @ \cup {p}, !.gains = @ + 1]
  /\ RemoteSends(Have(p))

RemoteInterested ==
  /\ remote.interested # (remoteNeeds # {})
  /\ remote' = [remote EXCEPT !.interested = (remoteNeeds # {})]
  /\ RemoteSends(Say(IF remoteNeeds # {} THEN "interested" ELSE "notInterested"))

RemoteRequests(p) ==
  /\ ~remote.choked
  /\ p \in remoteNeeds \ remote.asked
  /\ remote' = [remote EXCEPT !.asked = @ \cup {p}]
  /\ RemoteSends(Request(p))

-----------------------------------------------------------------------------

EInit ==
  /\ finishedPieces \in SUBSET Pieces
  /\ repeats = 0
  /\ availablePieces = {}
  /\ haveSends = {TheBitfield}
  /\ run = "waiting" /\ batchStart = {}
  /\ ourBitfield = {} /\ peerBitfield = {}
  /\ amInterested = FALSE /\ amChoking = TRUE
  /\ deciders = 0 /\ withdrew = FALSE
  /\ remote \in [has : SUBSET Pieces, told : {{}}, asked : {{}}, gains : {0},
                 interested : {FALSE}, wanted : {FALSE}, choked : {TRUE}]
  /\ outbox = {} /\ toController = {} /\ reading = {}
  /\ inbox = IF remote.has = {} THEN {} ELSE {Bitfield(remote.has)}

PeerStep ==
  \/ TakeBitfield
  \/ \E batch \in SUBSET Pieces : FinishBitfield(batch)
  \/ \E p \in Pieces : TakeHave(p) \/ TakeResponse(p)
  \/ Withdraw \/ MakeBitfield \/ Decide
  \/ \E m \in inbox : Decode(m)

RemoteStep ==
  \/ \E m \in outbox : RemoteReceives(m)
  \/ \E p \in Pieces : RemoteGains(p) \/ RemoteRequests(p)
  \/ RemoteInterested

ENext ==
  \/ \E p \in Pieces : ReceivedPiece(p)
  \/ \E batch \in toController : HavePiece(batch)
  \/ PeerStep \/ Stop
  \/ RemoteStep

ESpec == EInit /\ [][ENext]_evars

-----------------------------------------------------------------------------
(* Properties.                                                             *)

ETypeOK ==
  /\ finishedPieces \subseteq Pieces /\ availablePieces \subseteq Pieces
  /\ repeats \in 0 .. MaxRepeats
  /\ haveSends \subseteq SUBSET Pieces /\ toController \subseteq SUBSET Pieces
  /\ run \in {"waiting", "firstBatch", "running", "batch", "withdrawing", "stopped"}
  /\ batchStart \subseteq Pieces
  /\ ourBitfield \subseteq Pieces /\ peerBitfield \subseteq Pieces
  /\ amInterested \in BOOLEAN /\ amChoking \in BOOLEAN
  /\ deciders \in Nat /\ withdrew \in BOOLEAN
  /\ outbox \subseteq EMessages /\ inbox \subseteq EMessages
  /\ reading \subseteq Pieces
  /\ remote \in [has : SUBSET Pieces, told : SUBSET Pieces, asked : SUBSET Pieces,
                 gains : Nat, interested : BOOLEAN, wanted : BOOLEAN, choked : BOOLEAN]

\* Every finished piece that the remote end lacks, as far as the controller
\* knows, has been announced to it or will be: none falls between the bitfield
\* that is being made and the HAVEs, whichever the peer receives first.
OnItsWay(p) ==
  \/ TheBitfield \in haveSends \/ {p} \in haveSends
  \/ run \in {"firstBatch", "batch"} /\ p \in batchStart
  \/ Say("makeBitfield") \in outbox /\ p \in ourBitfield
  \/ \E m \in outbox : m.type \in {"have", "bitfield"} /\ p \in m.pieces

PiecesAnnounced ==
  \A p \in finishedPieces \ availablePieces : p \in remote.told \/ OnItsWay(p)

\* We announce only what we have: a request that an honest remote end makes is
\* for a piece on disk, which DiskIO needs (it ends the process otherwise).
RequestsServable ==
  remote.told \cup reading \subseteq finishedPieces

\* Until we withdraw our interest, the remote end learns of it as soon as it
\* has a piece that we need, although HAVEs and bitfields are decoded in any
\* order.
InterestShown ==
  ~withdrew /\ weShouldBeInterested =>
    remote.wanted \/ deciders > 0 \/ Say("interested") \in outbox

-----------------------------------------------------------------------------
(* Statements of the code's comments.                                      *)

\* "Determine if we should switch from not interested to interested": once
\* nobody is about to, we are interested if we should be.
InterestFollows == deciders = 0 /\ run = "running" /\ weShouldBeInterested => amInterested

\* "Since this is not the initial bitfield from the controller, there should only
\* be one."
OneHave == [][\A batch \in SUBSET Pieces :
                run = "batch" /\ FinishBitfield(batch) => Cardinality(batch) = 1]_evars

===============================================================================
