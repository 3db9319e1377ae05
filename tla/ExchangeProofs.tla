---------------------------- MODULE ExchangeProofs ----------------------------
(***************************************************************************)
(* Proofs about what a peer and its remote end tell each other, for any    *)
(* number of pieces and whatever the order of sends and decodes.           *)
(***************************************************************************)
EXTENDS Exchange, TLAPS

-----------------------------------------------------------------------------
(* The inductive invariant.                                                *)

\* Nothing asks the remote end for a block here.
NoRequestsSent == \A m \in outbox : m.type # "request"

\* Whatever is on its way to become an announcement or a read is on disk.
OnlyFinished ==
  /\ ourBitfield \subseteq finishedPieces
  /\ \A S \in haveSends : S \subseteq finishedPieces
  /\ \A m \in outbox : m.type \in {"have", "bitfield"} => m.pieces \subseteq finishedPieces
  /\ \A m \in inbox : m.type = "request" => m.pieces \subseteq finishedPieces

\* Until we withdraw, interest once taken is told and never taken back.
InterestKept ==
  ~withdrew =>
    /\ amInterested => remote.wanted \/ Say("interested") \in outbox
    /\ \A m \in outbox : m.type # "notInterested"

EInv ==
  /\ ETypeOK /\ NoRequestsSent
  /\ OnlyFinished /\ RequestsServable
  /\ PiecesAnnounced
  /\ InterestKept /\ InterestShown

-----------------------------------------------------------------------------
(* Messages.                                                               *)

\* What a message says of itself.
LEMMA Messages ==
  /\ \A S : Bitfield(S).type = "bitfield" /\ Bitfield(S).pieces = S
  /\ \A p : Have(p).type = "have" /\ Have(p).pieces = {p}
  /\ \A p : Request(p).type = "request" /\ Request(p).pieces = {p}
  /\ \A p : Block(p).type = "block" /\ Block(p).pieces = {p}
  /\ \A what : Say(what).type = what /\ Say(what).pieces = {}
  BY DEF Bitfield, Have, Request, Block, Say

\* Messages are of the declared type.
LEMMA MessageTypes ==
  /\ \A S \in SUBSET Pieces : Bitfield(S) \in EMessages
  /\ \A p \in Pieces : /\ Have(p) \in EMessages /\ Request(p) \in EMessages
                       /\ Block(p) \in EMessages
  /\ \A what \in {"interested", "notInterested", "choke", "unchoke", "makeBitfield"} :
       Say(what) \in EMessages
  BY DEF Bitfield, Have, Request, Block, Say, EMessages

\* A message that is not of some kind is not that message.
LEMMA SayDiffers ==
  ASSUME NEW m, NEW what, m.type # what
  PROVE  m # Say(what)
  BY Messages

-----------------------------------------------------------------------------
(* What the steps that take a batch have in common.                        *)

Batch(batch) == FinishBitfield(batch) \/ \E p \in Pieces : batch = {p} /\ TakeHave(p)

\* A batch is added to ours and announced as the bitfield or by HAVEs.
LEMMA BatchStep ==
  ASSUME NEW batch, Batch(batch)
  PROVE  /\ ourBitfield' = ourBitfield \cup batch
         /\ Started(batch) \/ Announced(batch)
         /\ batchStart' = {} /\ haveSends' \subseteq haveSends
         /\ UNCHANGED <<finishedPieces, repeats, availablePieces, peerBitfield, interest,
                        amChoking, inbox, toController, reading, remote>>
  BY DEF Batch, FinishBitfield, TakeHave, BatchReceived

-----------------------------------------------------------------------------
(* Each part of the invariant is preserved by every step.                  *)

\* Types, and no request among what we send.
LEMMA TypeStep == EInv /\ [ENext]_evars => ETypeOK' /\ NoRequestsSent'
<1> SUFFICES ASSUME EInv, [ENext]_evars PROVE ETypeOK' /\ NoRequestsSent'
  OBVIOUS
<1> USE DEF EInv, runVars, interest
<1>1. ASSUME NEW p \in Pieces, ReceivedPiece(p) PROVE ETypeOK' /\ NoRequestsSent'
  BY <1>1, ExchangeAssumption DEF ReceivedPiece, ETypeOK, NoRequestsSent
<1>2. ASSUME NEW batch \in toController, HavePiece(batch) PROVE ETypeOK' /\ NoRequestsSent'
  BY <1>2 DEF HavePiece, ETypeOK, NoRequestsSent
<1>3. CASE TakeBitfield
  BY <1>3 DEF TakeBitfield, ETypeOK, NoRequestsSent
<1>4. ASSUME NEW batch \in SUBSET Pieces, Batch(batch) PROVE ETypeOK' /\ NoRequestsSent'
  <2>1. outbox' \subseteq EMessages /\ NoRequestsSent'
    BY <1>4, BatchStep, MessageTypes, Messages
       DEF Started, Announced, send, ETypeOK, NoRequestsSent
  <2>2. run' \in {"running", "withdrawing"}
    BY <1>4, BatchStep DEF Started, Announced
  <2> QED  BY <1>4, BatchStep, <2>1, <2>2 DEF ETypeOK
<1>7. ASSUME NEW p \in Pieces, TakeResponse(p) PROVE ETypeOK' /\ NoRequestsSent'
  BY <1>7, MessageTypes, Messages DEF TakeResponse, send, ETypeOK, NoRequestsSent
<1>8. CASE Withdraw
  <2>1. outbox' \subseteq EMessages /\ NoRequestsSent'
    BY <1>8, MessageTypes, Messages DEF Withdraw, send, ETypeOK, NoRequestsSent
  <2> QED  BY <1>8, <2>1 DEF Withdraw, ETypeOK
<1>9. CASE MakeBitfield
  BY <1>9, MessageTypes, Messages DEF MakeBitfield, ETypeOK, NoRequestsSent
<1>10. CASE Decide
  <2>1. outbox' \subseteq EMessages /\ NoRequestsSent'
    BY <1>10, MessageTypes, Messages DEF Decide, send, ETypeOK, NoRequestsSent
  <2>2. amInterested' \in BOOLEAN
    BY <1>10 DEF Decide, ETypeOK
  <2>3. deciders' \in Nat
    BY <1>10 DEF Decide, ETypeOK
  <2> QED  BY <1>10, <2>1, <2>2, <2>3 DEF Decide, ETypeOK
<1>11. ASSUME NEW m \in inbox, Decode(m) PROVE ETypeOK' /\ NoRequestsSent'
  <2>0. m.pieces \subseteq Pieces
    BY DEF ETypeOK, EMessages
  <2>1. CASE DecodePieces(m)
    BY <1>11, <2>0, <2>1 DEF Decode, DecodePieces, ETypeOK, NoRequestsSent
  <2>2. CASE DecodeInterest(m)
    BY <1>11, <2>0, <2>2, MessageTypes, Messages
       DEF Decode, DecodeInterest, send, ETypeOK, NoRequestsSent
  <2>3. CASE DecodeRequest(m)
    BY <1>11, <2>0, <2>3 DEF Decode, DecodeRequest, ETypeOK, NoRequestsSent
  <2> QED  BY <1>11, <2>1, <2>2, <2>3 DEF Decode
<1>12. ASSUME NEW m \in outbox, RemoteReceives(m) PROVE ETypeOK' /\ NoRequestsSent'
  <2>1. m.pieces \subseteq Pieces /\ m.type \in {"have", "bitfield", "block", "interested",
                                                "notInterested", "choke", "unchoke"}
    BY <1>12 DEF RemoteReceives, NoRequestsSent, ETypeOK, EMessages
  <2>2. remote' \in [has : SUBSET Pieces, told : SUBSET Pieces, asked : SUBSET Pieces,
                     gains : Nat, interested : BOOLEAN, wanted : BOOLEAN, choked : BOOLEAN]
    BY <1>12, <2>1 DEF RemoteReceives, ETypeOK
  <2> QED  BY <1>12, <2>2 DEF RemoteReceives, ETypeOK, NoRequestsSent
<1>13. ASSUME NEW p \in Pieces, RemoteGains(p) PROVE ETypeOK' /\ NoRequestsSent'
  <2>1. remote' \in [has : SUBSET Pieces, told : SUBSET Pieces, asked : SUBSET Pieces,
                     gains : Nat, interested : BOOLEAN, wanted : BOOLEAN, choked : BOOLEAN]
    <3>1. [remote EXCEPT !.has = @ \cup {p}] \in
            [has : SUBSET Pieces, told : SUBSET Pieces, asked : SUBSET Pieces,
             gains : Nat, interested : BOOLEAN, wanted : BOOLEAN, choked : BOOLEAN]
      BY DEF ETypeOK
    <3>2. remote.gains + 1 \in Nat
      BY DEF ETypeOK
    <3> QED  BY <1>13, <3>1, <3>2 DEF RemoteGains, ETypeOK
  <2>2. inbox' \subseteq EMessages
    BY <1>13, MessageTypes DEF RemoteGains, RemoteSends, ETypeOK
  <2> QED  BY <1>13, <2>1, <2>2 DEF RemoteGains, RemoteSends, ETypeOK, NoRequestsSent
<1>14. ASSUME NEW p \in Pieces, RemoteRequests(p) PROVE ETypeOK' /\ NoRequestsSent'
  BY <1>14, MessageTypes DEF RemoteRequests, RemoteSends, ETypeOK, NoRequestsSent
<1>15. CASE RemoteInterested
  BY <1>15, MessageTypes DEF RemoteInterested, RemoteSends, ETypeOK, NoRequestsSent
<1>16. CASE Stop
  BY <1>16 DEF Stop, ETypeOK, NoRequestsSent
<1>17. CASE UNCHANGED evars
  BY <1>17 DEF evars, ETypeOK, NoRequestsSent
<1> QED  BY <1>1, <1>2, <1>3, <1>4, <1>7, <1>8, <1>9, <1>10, <1>11, <1>12, <1>13,
            <1>14, <1>15, <1>16, <1>17 DEF ENext, PeerStep, RemoteStep, Batch

\* Only finished pieces are announced, asked for and read.
LEMMA FinishedStep == EInv /\ [ENext]_evars => OnlyFinished' /\ RequestsServable'
<1> DEFINE Goal == OnlyFinished' /\ RequestsServable'
<1> SUFFICES ASSUME EInv, [ENext]_evars PROVE Goal
  OBVIOUS
<1> USE DEF EInv, runVars, interest, OnlyFinished, RequestsServable
<1>1. ASSUME NEW p \in Pieces, ReceivedPiece(p) PROVE Goal
  BY <1>1 DEF ReceivedPiece
<1>2. ASSUME NEW batch \in toController, HavePiece(batch) PROVE Goal
  BY <1>2 DEF HavePiece
<1>3. CASE TakeBitfield
  BY <1>3 DEF TakeBitfield
<1>4. ASSUME NEW batch \in SUBSET Pieces, Batch(batch) PROVE Goal
  <2>1. batch \subseteq finishedPieces
    BY <1>4 DEF Batch, FinishBitfield, TakeHave
  <2>2. \A m \in outbox' : m.type \in {"have", "bitfield"} => m.pieces \subseteq finishedPieces
    BY <1>4, <2>1, BatchStep, Messages DEF Started, Announced, send
  <2> QED  BY <1>4, <2>1, <2>2, BatchStep
<1>5. ASSUME NEW p \in Pieces, TakeResponse(p) PROVE Goal
  BY <1>5, Messages DEF TakeResponse, send
<1>6. CASE Withdraw
  BY <1>6, Messages DEF Withdraw, send
<1>7. CASE MakeBitfield
  BY <1>7, Messages DEF MakeBitfield
<1>8. CASE Decide
  BY <1>8, Messages DEF Decide, send
<1>9. ASSUME NEW m \in inbox, Decode(m) PROVE Goal
  <2>1. CASE DecodePieces(m)
    BY <1>9, <2>1 DEF Decode, DecodePieces
  <2>2. CASE DecodeInterest(m)
    BY <1>9, <2>2, Messages DEF Decode, DecodeInterest, send
  <2>3. CASE DecodeRequest(m)
    BY <1>9, <2>3 DEF Decode, DecodeRequest
  <2> QED  BY <1>9, <2>1, <2>2, <2>3 DEF Decode
<1>10. ASSUME NEW m \in outbox, RemoteReceives(m) PROVE Goal
  <2>1. m.type \in {"have", "bitfield", "block", "interested", "notInterested", "choke",
                    "unchoke"}
    BY <1>10 DEF RemoteReceives, NoRequestsSent, ETypeOK, EMessages
  <2>2. remote'.told \subseteq finishedPieces
    BY <1>10, <2>1 DEF RemoteReceives, ETypeOK
  <2> QED  BY <1>10, <2>2 DEF RemoteReceives
<1>11. ASSUME NEW p \in Pieces, RemoteGains(p) PROVE Goal
  <2>1. remote'.told = remote.told
    BY <1>11 DEF RemoteGains, ETypeOK
  <2> QED  BY <1>11, <2>1, Messages DEF RemoteGains, RemoteSends
<1>12. ASSUME NEW p \in Pieces, RemoteRequests(p) PROVE Goal
  <2>1. remote'.told = remote.told /\ p \in finishedPieces
    BY <1>12 DEF RemoteRequests, remoteNeeds, ETypeOK
  <2> QED  BY <1>12, <2>1, Messages DEF RemoteRequests, RemoteSends
<1>13. CASE RemoteInterested
  <2>1. remote'.told = remote.told
    BY <1>13 DEF RemoteInterested, ETypeOK
  <2> QED  BY <1>13, <2>1, Messages DEF RemoteInterested, RemoteSends
<1>14. CASE Stop
  BY <1>14 DEF Stop
<1>15. CASE UNCHANGED evars
  BY <1>15 DEF evars
<1> QED  BY <1>1, <1>2, <1>3, <1>4, <1>5, <1>6, <1>7, <1>8, <1>9, <1>10, <1>11, <1>12,
            <1>13, <1>14, <1>15 DEF ENext, PeerStep, RemoteStep, Batch

\* No finished piece falls between the bitfield and the HAVEs.
LEMMA AnnouncedStep == EInv /\ [ENext]_evars => PiecesAnnounced'
<1> SUFFICES ASSUME EInv, [ENext]_evars,
                    NEW p \in Pieces, p \in finishedPieces', p \notin availablePieces'
             PROVE  p \in remote'.told \/ OnItsWay(p)'
  BY TypeStep DEF PiecesAnnounced, ETypeOK
<1> DEFINE Goal == p \in remote'.told \/ OnItsWay(p)'
<1> USE DEF EInv, runVars, interest
<1>a. /\ \A S : Have(p) # Bitfield(S) /\ Say("makeBitfield").type = "makeBitfield"
      /\ {p} # TheBitfield
  BY Messages DEF TheBitfield
<1>b. p \in finishedPieces /\ p \notin availablePieces => p \in remote.told \/ OnItsWay(p)
  BY DEF PiecesAnnounced
<1>1. ASSUME NEW q \in Pieces, ReceivedPiece(q) PROVE Goal
  BY <1>1, <1>b DEF ReceivedPiece, OnItsWay
<1>2. ASSUME NEW batch \in toController, HavePiece(batch) PROVE Goal
  BY <1>2, <1>b DEF HavePiece, OnItsWay
<1>3. CASE TakeBitfield
  <2>1. run' \in {"firstBatch", "batch"} /\ p \in batchStart'
    BY <1>3 DEF TakeBitfield
  <2> QED  BY <2>1 DEF OnItsWay
<1>4. ASSUME NEW batch \in SUBSET Pieces, Batch(batch) PROVE Goal
  <2>1. p \in remote.told \/ OnItsWay(p)
    BY <1>4, <1>b, BatchStep
  <2>2. outbox \subseteq outbox' /\ ourBitfield \subseteq ourBitfield' /\ remote' = remote
    BY <1>4, BatchStep DEF Started, Announced, send
  <2>3. CASE p \in batch
    <3>1. CASE Started(batch)
      BY <1>4, <2>3, <3>1, BatchStep DEF Started, send, OnItsWay
    <3>2. CASE Announced(batch)
      <4>1. Have(p) \in outbox'
        BY <2>3, <3>2 DEF Announced
      <4> QED  BY <4>1, Messages DEF OnItsWay
    <3> QED  BY <1>4, <3>1, <3>2, BatchStep
  <2>4. CASE p \notin batch
    <3>1. /\ TheBitfield \in haveSends => TheBitfield \in haveSends'
          /\ {p} \in haveSends => {p} \in haveSends'
          /\ ~(run \in {"firstBatch", "batch"} /\ p \in batchStart)
      BY <1>4, <2>4 DEF Batch, FinishBitfield, TakeHave, Selecting, TheBitfield
    <3> QED  BY <2>1, <2>2, <3>1 DEF OnItsWay
  <2> QED  BY <2>3, <2>4
<1>5. ASSUME NEW q \in Pieces, TakeResponse(q) PROVE Goal
  BY <1>5, <1>b DEF TakeResponse, send, OnItsWay
<1>6. CASE Withdraw
  BY <1>6, <1>b DEF Withdraw, send, OnItsWay
<1>7. CASE MakeBitfield
  <2>1. Bitfield(ourBitfield) \in outbox' /\ outbox \subseteq outbox' \cup {Say("makeBitfield")}
    BY <1>7 DEF MakeBitfield
  <2>2. \A m \in outbox : m.type \in {"have", "bitfield"} => m \in outbox'
    BY <2>1, <1>a
  <2> QED  BY <1>7, <1>b, <2>1, <2>2, Messages DEF MakeBitfield, OnItsWay
<1>8. CASE Decide
  BY <1>8, <1>b DEF Decide, send, OnItsWay
<1>9. ASSUME NEW m \in inbox, Decode(m) PROVE Goal
  BY <1>9, <1>b DEF Decode, DecodePieces, DecodeInterest, DecodeRequest, send, OnItsWay
<1>10. ASSUME NEW m \in outbox, RemoteReceives(m) PROVE Goal
  <2>1. m.type \in {"have", "bitfield", "block", "interested", "notInterested", "choke",
                    "unchoke"}
    BY <1>10 DEF RemoteReceives, NoRequestsSent, ETypeOK, EMessages
  <2>2. /\ remote.told \subseteq remote'.told
        /\ m.type \in {"have", "bitfield"} => m.pieces \subseteq remote'.told
    BY <1>10, <2>1 DEF RemoteReceives, ETypeOK
  <2>3. m # Say("makeBitfield")
    BY <1>a, <2>1
  <2> QED  BY <1>10, <1>b, <2>2, <2>3 DEF RemoteReceives, OnItsWay
<1>11. ASSUME NEW q \in Pieces, RemoteGains(q) \/ RemoteRequests(q) PROVE Goal
  <2>1. remote'.told = remote.told
    BY <1>11 DEF RemoteGains, RemoteRequests, ETypeOK
  <2> QED  BY <1>11, <1>b, <2>1 DEF RemoteGains, RemoteRequests, RemoteSends, OnItsWay
<1>12. CASE RemoteInterested
  <2>1. remote'.told = remote.told
    BY <1>12 DEF RemoteInterested, ETypeOK
  <2> QED  BY <1>12, <1>b, <2>1 DEF RemoteInterested, RemoteSends, OnItsWay
<1>13. CASE Stop
  BY <1>13, <1>b DEF Stop, OnItsWay
<1>14. CASE UNCHANGED evars
  BY <1>14, <1>b DEF evars, OnItsWay
<1> QED  BY <1>1, <1>2, <1>3, <1>4, <1>5, <1>6, <1>7, <1>8, <1>9, <1>10, <1>11, <1>12,
            <1>13, <1>14 DEF ENext, PeerStep, RemoteStep, Batch

\* Interest is told until it is withdrawn.
LEMMA InterestStep == EInv /\ [ENext]_evars => InterestKept' /\ InterestShown'
<1> DEFINE Goal == InterestKept' /\ InterestShown'
           Told == remote.wanted \/ Say("interested") \in outbox
<1> SUFFICES ASSUME EInv, [ENext]_evars PROVE Goal
  OBVIOUS
<1> USE DEF EInv, runVars, interest
<1>0. deciders \in Nat /\ amInterested \in BOOLEAN /\ withdrew \in BOOLEAN
  BY DEF ETypeOK
<1>a. \A m : m.type # "interested" => m # Say("interested")
  BY SayDiffers
<1>1. ASSUME UNCHANGED <<amInterested, withdrew>>, deciders' \in Nat, deciders <= deciders',
             peerBitfield' = peerBitfield \/ deciders' > 0,
             ourBitfield \subseteq ourBitfield', ~withdrew /\ Told => Told',
             \A m \in outbox' \ outbox : m.type # "notInterested"
      PROVE  Goal
  <2>1. InterestKept'
    BY <1>1 DEF InterestKept
  <2>2. InterestShown'
    BY <1>0, <1>1 DEF InterestShown, weShouldBeInterested
  <2> QED  BY <2>1, <2>2
<1>2. ASSUME UNCHANGED <<amInterested, withdrew, deciders, peerBitfield, ourBitfield, outbox>>,
             remote'.wanted = remote.wanted
      PROVE  Goal
  BY <1>0, <1>1, <1>2
<1>3. CASE Withdraw
  BY <1>3 DEF Withdraw, InterestKept, InterestShown
<1>4. CASE Decide
  <2>1. CASE ~amInterested /\ weShouldBeInterested
    <3>1. Say("interested") \in outbox' /\ withdrew' = withdrew
      BY <1>4, <2>1 DEF Decide, send
    <3>2. \A m \in outbox' \ outbox : m.type # "notInterested"
      BY <1>4, <2>1, Messages DEF Decide, send
    <3> QED  BY <3>1, <3>2 DEF InterestKept, InterestShown
  <2>2. CASE ~(~amInterested /\ weShouldBeInterested)
    <3>1. UNCHANGED <<amInterested, outbox, withdrew, remote, peerBitfield, ourBitfield>>
      BY <1>4, <2>2 DEF Decide
    <3>2. InterestKept'
      BY <3>1 DEF InterestKept
    <3>3. InterestShown'
      BY <1>0, <2>2, <3>1, <3>2 DEF InterestKept, InterestShown, weShouldBeInterested
    <3> QED  BY <3>2, <3>3
  <2> QED  BY <2>1, <2>2
<1>5. ASSUME NEW batch \in SUBSET Pieces, Batch(batch) PROVE Goal
  <2>1. /\ outbox \subseteq outbox'
        /\ \A m \in outbox' \ outbox : m.type \in {"makeBitfield", "have"}
    BY <1>5, BatchStep, Messages DEF Started, Announced, send
  <2> QED  BY <1>0, <1>1, <1>5, <2>1, BatchStep
<1>6. ASSUME NEW p \in Pieces, TakeResponse(p) PROVE Goal
  <2>1. outbox' = outbox \cup {Block(p)} /\ Block(p).type = "block"
    BY <1>6, Messages DEF TakeResponse, send
  <2> QED  BY <1>0, <1>1, <1>6, <2>1 DEF TakeResponse
<1>7. CASE MakeBitfield
  <2>1. /\ outbox' = (outbox \ {Say("makeBitfield")}) \cup {Bitfield(ourBitfield)}
        /\ Bitfield(ourBitfield).type = "bitfield"
        /\ Say("interested") # Say("makeBitfield")
    BY <1>7, <1>a, Messages DEF MakeBitfield
  <2> QED  BY <1>0, <1>1, <1>7, <2>1 DEF MakeBitfield
<1>8. ASSUME NEW m \in inbox, Decode(m) PROVE Goal
  <2>1. CASE DecodePieces(m)
    BY <1>0, <1>1, <1>8, <2>1 DEF Decode, DecodePieces
  <2>2. CASE DecodeInterest(m)
    <3>1. PICK what \in {"choke", "unchoke"} : outbox' = outbox \cup {Say(what)}
      BY <2>2 DEF DecodeInterest, send
    <3>2. Say(what).type # "notInterested"
      BY Messages
    <3> QED  BY <1>0, <1>1, <1>8, <2>2, <3>1, <3>2 DEF Decode, DecodeInterest
  <2>3. CASE DecodeRequest(m)
    BY <1>2, <1>8, <2>3 DEF Decode, DecodeRequest
  <2> QED  BY <1>8, <2>1, <2>2, <2>3 DEF Decode
<1>9. ASSUME NEW m \in outbox, RemoteReceives(m) PROVE Goal
  <2>1. m.type \in {"have", "bitfield", "block", "interested", "notInterested", "choke",
                    "unchoke"}
    BY <1>9 DEF RemoteReceives, NoRequestsSent, ETypeOK, EMessages
  <2>2. ~withdrew /\ Told => Told'
    <3>1. CASE m.type = "interested"
      BY <1>9, <3>1 DEF RemoteReceives, ETypeOK
    <3>2. CASE m.type = "notInterested"
      BY <3>2 DEF InterestKept
    <3>3. CASE m.type \notin {"interested", "notInterested"}
      <4>1. remote'.wanted = remote.wanted
        BY <1>9, <2>1, <3>3 DEF RemoteReceives, ETypeOK
      <4> QED  BY <1>9, <1>a, <3>3, <4>1 DEF RemoteReceives
    <3> QED  BY <3>1, <3>2, <3>3
  <2>3. /\ UNCHANGED <<amInterested, withdrew, deciders, peerBitfield, ourBitfield>>
        /\ outbox' \subseteq outbox
    BY <1>9 DEF RemoteReceives
  <2> QED  BY <1>0, <1>1, <2>2, <2>3
<1>10. ASSUME NEW p \in Pieces, RemoteGains(p) \/ RemoteRequests(p) PROVE Goal
  <2>1. remote'.wanted = remote.wanted
    BY <1>10 DEF RemoteGains, RemoteRequests, ETypeOK
  <2> QED  BY <1>2, <1>10, <2>1 DEF RemoteGains, RemoteRequests, RemoteSends
<1>11. CASE RemoteInterested
  <2>1. remote'.wanted = remote.wanted
    BY <1>11 DEF RemoteInterested, ETypeOK
  <2> QED  BY <1>2, <1>11, <2>1 DEF RemoteInterested, RemoteSends
<1>12. ASSUME NEW p \in Pieces, ReceivedPiece(p) PROVE Goal
  BY <1>2, <1>12 DEF ReceivedPiece
<1>13. ASSUME NEW batch \in toController, HavePiece(batch) PROVE Goal
  BY <1>2, <1>13 DEF HavePiece
<1>14. CASE TakeBitfield \/ Stop
  BY <1>2, <1>14 DEF TakeBitfield, Stop
<1>15. CASE UNCHANGED evars
  BY <1>2, <1>15 DEF evars
<1> QED  BY <1>3, <1>4, <1>5, <1>6, <1>7, <1>8, <1>9, <1>10, <1>11, <1>12,
            <1>13, <1>14, <1>15 DEF ENext, PeerStep, RemoteStep, Batch

-----------------------------------------------------------------------------
(* The theorems.                                                           *)

\* The inductive invariant holds from the registration of the peer on.
THEOREM ExchangeInvariance == ESpec => []EInv
<1>1. EInit => EInv
  <2> SUFFICES ASSUME EInit PROVE EInv
    OBVIOUS
  <2> USE DEF EInit
  <2>1. inbox \subseteq EMessages /\ \A m \in inbox : m.type = "bitfield"
    BY MessageTypes, Messages
  <2>2. ETypeOK
    <3>1. remote \in [has : SUBSET Pieces, told : SUBSET Pieces, asked : SUBSET Pieces,
                      gains : Nat, interested : BOOLEAN, wanted : BOOLEAN, choked : BOOLEAN]
      <4>1. /\ remote.has \in SUBSET Pieces /\ remote.told = {} /\ remote.asked = {}
            /\ remote.gains = 0
        OBVIOUS
      <4>2. remote.interested = FALSE /\ remote.wanted = FALSE /\ remote.choked = TRUE
        OBVIOUS
      <4>3. remote = [has |-> remote.has, told |-> {}, asked |-> {}, gains |-> 0,
                      interested |-> FALSE, wanted |-> FALSE, choked |-> TRUE]
        BY <4>1, <4>2
      <4>4. {} \in SUBSET Pieces /\ 0 \in Nat
        OBVIOUS
      <4> QED  BY <4>1, <4>3, <4>4, Zenon
    <3>2. repeats \in 0 .. MaxRepeats /\ deciders \in Nat
      BY ExchangeAssumption
    <3>3. haveSends \subseteq SUBSET Pieces
      BY DEF TheBitfield
    <3> QED  BY <2>1, <3>1, <3>2, <3>3 DEF ETypeOK
  <2>3. NoRequestsSent /\ OnlyFinished /\ RequestsServable
    BY <2>1 DEF NoRequestsSent, OnlyFinished, RequestsServable, TheBitfield
  <2>4. PiecesAnnounced
    BY DEF PiecesAnnounced, OnItsWay
  <2>5. InterestKept /\ InterestShown
    BY DEF InterestKept, InterestShown, weShouldBeInterested
  <2> QED  BY <2>2, <2>3, <2>4, <2>5 DEF EInv
<1>2. EInv /\ [ENext]_evars => EInv'
  BY TypeStep, FinishedStep, AnnouncedStep, InterestStep DEF EInv
<1> QED  BY <1>1, <1>2, PTL DEF ESpec

\* Every reachable state of an exchange is of the declared types.
THEOREM ExchangeTypeCorrect == ESpec => []ETypeOK
  BY ExchangeInvariance, PTL DEF EInv

\* No finished piece that the remote end lacks is left unannounced, whichever of
\* the bitfield and the HAVEs Peer.Run receives first.
THEOREM NoPieceUnannounced == ESpec => []PiecesAnnounced
  BY ExchangeInvariance, PTL DEF EInv

\* What an honest remote end asks for is on disk, so that DiskIO does not end
\* the process over a file that cannot be read.
THEOREM HonestRequestsServable == ESpec => []RequestsServable
  BY ExchangeInvariance, PTL DEF EInv

\* As long as we have not withdrawn our interest, the remote end is told of it
\* once it has a piece that we need.
THEOREM InterestIsShown == ESpec => []InterestShown
  BY ExchangeInvariance, PTL DEF EInv

===============================================================================
