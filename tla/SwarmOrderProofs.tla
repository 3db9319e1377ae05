--------------------------- MODULE SwarmOrderProofs ---------------------------
(***************************************************************************)
(* Proofs about Swarm that depend on the order in which the controller     *)
(* receives what peers and peer manager tell it: registrations, deaths and *)
(* chokes.                                                                 *)
(***************************************************************************)
EXTENDS SwarmProofs

-----------------------------------------------------------------------------
(* What the controller knows of connections.                               *)

\* The registration of connection i of n.
New(n, i) == [type |-> "newPeer", peer |-> n, inc |-> i]

Waits(m) == m \in DOMAIN toController

\* What the controller knows of the connections of n.  A registration waits
\* only while Run of the current connection waits for it; a death waits only
\* while the controller still holds the channels of the dead connection.
Registration(n) ==
  /\ n \in peers <=> chans[n] # 0
  /\ chans[n] <= inc[n]
  /\ run[n] \in {"running", "stopping", "wedged"} => chans[n] = inc[n]
  /\ run[n] # "none" => inc[n] > 0
  /\ n \in peers => \/ Waits(DeadPeerMsg(n))
                    \/ chans[n] = inc[n] /\ run[n] # "none"
  /\ Waits(DeadPeerMsg(n)) =>
       /\ toController[DeadPeerMsg(n)] = 1
       /\ n \in peers
       /\ run[n] = "none" \/ chans[n] # inc[n]
  /\ \A i \in Nat : Waits(New(n, i)) =>
       /\ toController[New(n, i)] = 1
       /\ i = inc[n]
       /\ run[n] \in {"waiting", "noHandshake"}
       /\ chans[n] # inc[n]

-----------------------------------------------------------------------------
(* Bags.                                                                   *)

\* Adding one element leaves the number of the others alone.
LEMMA BagAddOthers ==
  ASSUME NEW B, IsABag(B), NEW e
  PROVE  /\ BagIn(e, B (+) SetToBag({e}))
         /\ ~BagIn(e, B) => (B (+) SetToBag({e}))[e] = 1
         /\ \A x : x # e =>
              /\ BagIn(x, B (+) SetToBag({e})) <=> BagIn(x, B)
              /\ BagIn(x, B) => (B (+) SetToBag({e}))[x] = B[x]
<1> DEFINE C == B (+) SetToBag({e})
<1>1. C = [x \in DOMAIN B \cup {e} |->
             (IF x \in DOMAIN B THEN B[x] ELSE 0) + (IF x \in {e} THEN 1 ELSE 0)]
  BY DEF (+), SetToBag
<1>2. \A x \in DOMAIN B : B[x] \in Nat
  BY DEF IsABag
<1> QED  BY <1>1, <1>2 DEF BagIn, BagToSet

\* So does removing one, and the last copy of it is gone.
LEMMA BagRemoveOthers ==
  ASSUME NEW B, IsABag(B), NEW e
  PROVE  /\ BagIn(e, B) /\ B[e] = 1 => ~BagIn(e, B (-) SetToBag({e}))
         /\ \A x : x # e =>
              /\ BagIn(x, B (-) SetToBag({e})) <=> BagIn(x, B)
              /\ BagIn(x, B) => (B (-) SetToBag({e}))[x] = B[x]
         /\ \A x : BagIn(x, B (-) SetToBag({e})) => BagIn(x, B)
<1> DEFINE Taken == [x \in DOMAIN B |-> IF x \in {e} THEN B[x] - 1 ELSE B[x]]
           C == B (-) SetToBag({e})
<1>1. C = [x \in {d \in DOMAIN Taken : Taken[d] > 0} |-> Taken[x]]
  BY DEF (-), SetToBag
<1>2. \A x \in DOMAIN B : B[x] \in Nat /\ B[x] > 0
  BY DEF IsABag
<1>3. DOMAIN C = {d \in DOMAIN B : Taken[d] > 0} /\ \A x \in DOMAIN C : C[x] = Taken[x]
  BY <1>1
<1>4. \A x \in DOMAIN B : x # e => Taken[x] = B[x]
  OBVIOUS
<1>5. BagIn(e, B) /\ B[e] = 1 => Taken[e] = 0
  BY DEF BagIn, BagToSet
<1> HIDE DEF C, Taken
<1>6. /\ BagIn(e, B) /\ B[e] = 1 => ~BagIn(e, C)
      /\ \A x : x # e => (BagIn(x, C) <=> BagIn(x, B)) /\ (BagIn(x, B) => C[x] = B[x])
      /\ \A x : BagIn(x, C) => BagIn(x, B)
  BY <1>2, <1>3, <1>4, <1>5 DEF BagIn, BagToSet
<1> QED  BY <1>6 DEF C

\* What a send changes among the messages that wait.
LEMMA Sends ==
  ASSUME STypeOK, NEW m, send(m)
  PROVE  /\ m \in DOMAIN toController'
         /\ ~Waits(m) => toController'[m] = 1
         /\ \A x : x # m => /\ x \in DOMAIN toController' <=> Waits(x)
                            /\ Waits(x) => toController'[x] = toController[x]
         /\ \A x : Waits(x) => x \in DOMAIN toController'
<1>1. toController' = toController (+) SetToBag({m}) /\ IsABag(toController)
  BY DEF send, STypeOK
<1> QED  BY <1>1, BagAddOthers DEF Waits, BagIn, BagToSet

\* The same for one other message.
LEMMA SendsOthers ==
  ASSUME STypeOK, NEW m, send(m), NEW x, x # m
  PROVE  /\ x \in DOMAIN toController' <=> Waits(x)
         /\ Waits(x) => toController'[x] = toController[x]
  BY Sends

\* What a receive changes.
LEMMA Receives ==
  ASSUME STypeOK, NEW m, Receive(m)
  PROVE  /\ Waits(m)
         /\ toController[m] = 1 => m \notin DOMAIN toController'
         /\ \A x : x # m => /\ x \in DOMAIN toController' <=> Waits(x)
                            /\ Waits(x) => toController'[x] = toController[x]
         /\ \A x : x \in DOMAIN toController' => Waits(x)
<1>1. /\ toController' = toController (-) SetToBag({m}) /\ IsABag(toController)
      /\ BagIn(m, toController)
  BY DEF Receive, STypeOK
<1> QED  BY <1>1, BagRemoveOthers DEF Waits, BagIn, BagToSet

\* The same for one other message.
LEMMA ReceivesOthers ==
  ASSUME STypeOK, NEW m, Receive(m), NEW x, x # m
  PROVE  /\ x \in DOMAIN toController' <=> Waits(x)
         /\ Waits(x) => toController'[x] = toController[x]
  BY Receives

\* Messages are told apart by their types and peers.
LEMMA MessageFields ==
  /\ \A n : DeadPeerMsg(n).type = "deadPeer" /\ DeadPeerMsg(n).peer = n
  /\ \A n, i : New(n, i).type = "newPeer" /\ New(n, i).peer = n /\ New(n, i).inc = i
  /\ \A n, c : /\ ChokeMsg(n, c).type = "choke" /\ ChokeMsg(n, c).peer = n
               /\ ChokeMsg(n, c).choked = c
  /\ \A n, b : HaveMsg(n, b).type = "have" /\ HaveMsg(n, b).peer = n
  /\ \A n, p : /\ ReceivedMsg(n, p).type = "received" /\ ReceivedMsg(n, p).peer = n
               /\ ReceivedMsg(n, p).piece = p
  BY DEF DeadPeerMsg, New, ChokeMsg, HaveMsg, ReceivedMsg

\* Different messages differ.
LEMMA MessagesDiffer ==
  /\ \A n, k, i : New(n, i) # DeadPeerMsg(k)
  /\ \A n, k, i, j : New(n, i) = New(k, j) => n = k /\ i = j
  /\ \A n, k : DeadPeerMsg(n) = DeadPeerMsg(k) => n = k
  /\ \A n, k, c, d : ChokeMsg(n, c) = ChokeMsg(k, d) => n = k /\ c = d
  /\ \A n, k, p, q : ReceivedMsg(n, p) = ReceivedMsg(k, q) => n = k /\ p = q
<1>1. \A n, k, i : New(n, i) # DeadPeerMsg(k)
  BY MessageFields
<1>2. \A n, k, i, j : New(n, i) = New(k, j) => n = k /\ i = j
  BY MessageFields
<1>3. \A n, k : DeadPeerMsg(n) = DeadPeerMsg(k) => n = k
  BY MessageFields
<1>4. \A n, k, c, d : ChokeMsg(n, c) = ChokeMsg(k, d) => n = k /\ c = d
  BY MessageFields
<1>5. \A n, k, p, q : ReceivedMsg(n, p) = ReceivedMsg(k, q) => n = k /\ p = q
  BY MessageFields
<1> QED  BY <1>1, <1>2, <1>3, <1>4, <1>5

\* A message is given by its fields.
LEMMA MessageShapes ==
  ASSUME NEW m \in SMessages
  PROVE  /\ m.peer \in Peers
         /\ m.type = "newPeer" => m.inc \in Nat /\ m = New(m.peer, m.inc)
         /\ m.type = "deadPeer" => m = DeadPeerMsg(m.peer)
         /\ m.type = "choke" => m.choked \in BOOLEAN /\ m = ChokeMsg(m.peer, m.choked)
         /\ m.type = "received" => m.piece \in Pieces /\ m = ReceivedMsg(m.peer, m.piece)
<1>1. CASE m \in [type : {"newPeer"}, peer : Peers, inc : Nat]
  BY <1>1 DEF New
<1>2. CASE m \in [type : {"deadPeer"}, peer : Peers]
  BY <1>2 DEF DeadPeerMsg
<1>3. CASE m \in [type : {"choke"}, peer : Peers, choked : BOOLEAN]
  BY <1>3 DEF ChokeMsg
<1>4. CASE m \in [type : {"have"}, peer : Peers, batch : (SUBSET Pieces) \ {{}}]
  BY <1>4
<1>5. CASE m \in [type : {"received"}, peer : Peers, piece : Pieces]
  BY <1>5 DEF ReceivedMsg
<1> QED  BY <1>1, <1>2, <1>3, <1>4, <1>5 DEF SMessages

-----------------------------------------------------------------------------
(* Registrations and deaths.                                               *)

\* The news about connections of n that wait are the same after the step.
SameNews(n) ==
  /\ DeadPeerMsg(n) \in DOMAIN toController' <=> Waits(DeadPeerMsg(n))
  /\ Waits(DeadPeerMsg(n)) => toController'[DeadPeerMsg(n)] = toController[DeadPeerMsg(n)]
  /\ \A i \in Nat : /\ New(n, i) \in DOMAIN toController' <=> Waits(New(n, i))
                    /\ Waits(New(n, i)) => toController'[New(n, i)] = toController[New(n, i)]

\* Messages about another peer, or about something else, are no such news.
LEMMA NoNews ==
  ASSUME STypeOK, NEW n, NEW m, send(m) \/ Receive(m),
         m.peer # n \/ m.type \notin {"newPeer", "deadPeer"}
  PROVE  SameNews(n)
<1>1. m # DeadPeerMsg(n) /\ \A i : m # New(n, i)
  BY MessageFields
<1>2. CASE send(m)
  <2>1. \A x : x # m => /\ x \in DOMAIN toController' <=> Waits(x)
                        /\ Waits(x) => toController'[x] = toController[x]
    BY <1>2, Sends
  <2>2. /\ DeadPeerMsg(n) \in DOMAIN toController' <=> Waits(DeadPeerMsg(n))
        /\ Waits(DeadPeerMsg(n)) =>
             toController'[DeadPeerMsg(n)] = toController[DeadPeerMsg(n)]
    BY <1>1, <2>1, Zenon
  <2>3. ASSUME NEW i \in Nat
        PROVE  /\ New(n, i) \in DOMAIN toController' <=> Waits(New(n, i))
               /\ Waits(New(n, i)) => toController'[New(n, i)] = toController[New(n, i)]
    BY <1>1, <2>1, Zenon
  <2> QED  BY <2>2, <2>3 DEF SameNews
<1>3. CASE Receive(m)
  <2>1. \A x : x # m => /\ x \in DOMAIN toController' <=> Waits(x)
                        /\ Waits(x) => toController'[x] = toController[x]
    BY <1>3, Receives
  <2>2. /\ DeadPeerMsg(n) \in DOMAIN toController' <=> Waits(DeadPeerMsg(n))
        /\ Waits(DeadPeerMsg(n)) =>
             toController'[DeadPeerMsg(n)] = toController[DeadPeerMsg(n)]
    BY <1>1, <2>1, Zenon
  <2>3. ASSUME NEW i \in Nat
        PROVE  /\ New(n, i) \in DOMAIN toController' <=> Waits(New(n, i))
               /\ Waits(New(n, i)) => toController'[New(n, i)] = toController[New(n, i)]
    BY <1>1, <2>1, Zenon
  <2> QED  BY <2>2, <2>3 DEF SameNews
<1> QED  BY <1>2, <1>3

\* A step that tells nothing about connections of n and changes none of them.
LEMMA RegistrationKept ==
  ASSUME NEW n, Registration(n), SameNews(n),
         chans'[n] = chans[n], inc'[n] = inc[n], run'[n] = run[n],
         n \in peers' <=> n \in peers
  PROVE  Registration(n)'
  BY DEF Registration, SameNews, Waits, DeadPeerMsg, New

\* A connection of n changes only as Registration allows.
LEMMA RegistrationStep ==
  ASSUME SIInv, [SNext]_svars, NEW n \in Peers, Registration(n)
  PROVE  Registration(n)'
<1>0. /\ STypeOK
      /\ chans \in [Peers -> Nat] /\ inc \in [Peers -> Nat]
      /\ run \in [Peers -> {"none", "waiting", "running", "stopping", "wedged",
                            "noHandshake"}]
      /\ \A k \in Peers : run[k] # "none" => k \in pmPeers
  BY DEF SIInv, STypeOK
<1>1. UNCHANGED toController => SameNews(n)
  BY DEF SameNews, Waits
<1>2. CASE ControllerTakes
  <2>1. PICK m \in SMessages : ControllerReceives(m)
    BY <1>0, <1>2 DEF ControllerTakes, STypeOK
  <2>2. Receive(m) /\ UNCHANGED <<run, inc>>
    BY <2>1 DEF ControllerReceives, peerVars
  <2>3. CASE m.type \in {"received", "choke", "have"}
    <3>1. UNCHANGED <<peers, chans>>
      BY <2>1, <2>3 DEF ControllerReceives, ReceivedPiece, ChokeStatus, HavePiece,
                        UnknownPeerMessage
    <3>2. SameNews(n)
      BY <1>0, <2>2, <2>3, NoNews
    <3> QED  BY <2>2, <3>1, <3>2, RegistrationKept
  <2>4. CASE m.type = "newPeer"
    <3>1. /\ NewPeer(m.peer)
          /\ chans' = IF pc' \in Crashed THEN chans ELSE [chans EXCEPT ![m.peer] = m.inc]
      BY <2>1, <2>4 DEF ControllerReceives
    <3>2. m.peer \in Peers /\ m.inc \in Nat /\ m = New(m.peer, m.inc)
      BY <2>4, MessageShapes
    <3>3. CASE m.peer # n
      <4>1. chans'[n] = chans[n] /\ (n \in peers' <=> n \in peers)
        BY <1>0, <3>1, <3>2, <3>3 DEF NewPeer
      <4>2. SameNews(n)
        BY <1>0, <2>2, <3>3, NoNews
      <4> QED  BY <2>2, <4>1, <4>2, RegistrationKept
    <3>4. CASE m.peer = n
      <4>1. /\ Waits(New(n, inc[n])) /\ m = New(n, inc[n]) /\ m.inc = inc[n]
            /\ run[n] \in {"waiting", "noHandshake"}
            /\ chans[n] # inc[n] /\ toController[m] = 1 /\ inc[n] > 0
        BY <1>0, <2>2, <3>2, <3>4, Receives DEF Registration
      <4>2. /\ \A i \in Nat : New(n, i) \notin DOMAIN toController'
            /\ DeadPeerMsg(n) \in DOMAIN toController' <=> Waits(DeadPeerMsg(n))
            /\ Waits(DeadPeerMsg(n)) => toController'[DeadPeerMsg(n)] = 1
        <5>1. m \notin DOMAIN toController' /\ DeadPeerMsg(n) # m
          BY <1>0, <2>2, <2>4, <4>1, Receives, MessageFields
        <5>2. ASSUME NEW i \in Nat, New(n, i) \in DOMAIN toController' PROVE FALSE
          <6>1. Waits(New(n, i))
            BY <1>0, <2>2, <5>2, Receives
          <6>2. i = inc[n]
            BY <6>1 DEF Registration
          <6> QED  BY <4>1, <5>1, <5>2, <6>2
        <5>3. /\ DeadPeerMsg(n) \in DOMAIN toController' <=> Waits(DeadPeerMsg(n))
              /\ Waits(DeadPeerMsg(n)) =>
                   toController'[DeadPeerMsg(n)] = toController[DeadPeerMsg(n)]
          BY <1>0, <2>2, <5>1, ReceivesOthers
        <5>4. Waits(DeadPeerMsg(n)) => toController[DeadPeerMsg(n)] = 1
          BY DEF Registration
        <5> QED  BY <5>2, <5>3, <5>4
      <4>3. CASE n \in peers
        <5>1. UNCHANGED <<peers, chans>>
          BY <3>1, <3>4, <4>3 DEF NewPeer, Crashed
        <5> QED  BY <2>2, <4>1, <4>2, <5>1 DEF Registration, Waits, DeadPeerMsg, New
      <4>4. CASE n \notin peers
        <5>1. peers' = peers \cup {n} /\ chans' = [chans EXCEPT ![n] = inc[n]]
          BY <3>1, <3>4, <4>1, <4>4 DEF NewPeer, Crashed
        <5>2. ~Waits(DeadPeerMsg(n))
          BY <4>4 DEF Registration
        <5>3. n \in peers' /\ chans'[n] = inc[n] /\ inc'[n] = inc[n] /\ run'[n] = run[n]
          BY <1>0, <2>2, <5>1
        <5> QED  BY <1>0, <4>1, <4>2, <5>2, <5>3 DEF Registration, Waits, DeadPeerMsg, New
      <4> QED  BY <4>3, <4>4
    <3> QED  BY <3>3, <3>4
  <2>5. CASE m.type = "deadPeer"
    <3>1. DeadPeer(m.peer) /\ chans' = [chans EXCEPT ![m.peer] = 0]
      BY <2>1, <2>5 DEF ControllerReceives
    <3>2. m.peer \in Peers /\ m = DeadPeerMsg(m.peer)
      BY <2>5, MessageShapes
    <3>3. CASE m.peer # n
      <4>1. chans'[n] = chans[n] /\ (n \in peers' <=> n \in peers)
        BY <1>0, <3>1, <3>2, <3>3 DEF DeadPeer
      <4>2. SameNews(n)
        BY <1>0, <2>2, <3>3, NoNews
      <4> QED  BY <2>2, <4>1, <4>2, RegistrationKept
    <3>4. CASE m.peer = n
      <4>1. /\ Waits(DeadPeerMsg(n)) /\ m = DeadPeerMsg(n) /\ toController[m] = 1
            /\ n \in peers /\ (run[n] = "none" \/ chans[n] # inc[n])
        BY <1>0, <2>2, <3>2, <3>4, Receives DEF Registration
      <4>2. DeadPeerMsg(n) \notin DOMAIN toController'
        BY <1>0, <2>2, <4>1, Receives
      <4>3. \A i \in Nat : /\ New(n, i) \in DOMAIN toController' <=> Waits(New(n, i))
                           /\ Waits(New(n, i)) => toController'[New(n, i)] = toController[New(n, i)]
        <5>1. \A i \in Nat : New(n, i) # m
          BY <2>5, MessageFields
        <5> QED  BY <1>0, <2>2, <5>1, ReceivesOthers
      <4>4. n \notin peers' /\ chans'[n] = 0 /\ inc'[n] = inc[n] /\ run'[n] = run[n]
        BY <1>0, <2>2, <3>1, <3>4, <4>1 DEF DeadPeer
      <4>5. Registration(n)
        OBVIOUS
      <4>6. /\ chans'[n] <= inc'[n]
            /\ run'[n] \notin {"running", "stopping", "wedged"}
            /\ run'[n] # "none" => inc'[n] > 0
        BY <1>0, <4>1, <4>4, <4>5 DEF Registration
      <4>7. ASSUME NEW i \in Nat, New(n, i) \in DOMAIN toController'
            PROVE  /\ toController'[New(n, i)] = 1 /\ i = inc'[n]
                   /\ run'[n] \in {"waiting", "noHandshake"} /\ chans'[n] # inc'[n]
        <5>1. Waits(New(n, i)) /\ toController'[New(n, i)] = toController[New(n, i)]
          BY <4>3, <4>7
        <5>2. /\ toController[New(n, i)] = 1 /\ i = inc[n]
              /\ run[n] \in {"waiting", "noHandshake"} /\ inc[n] \in Nat
          BY <1>0, <4>5, <5>1 DEF Registration
        <5>3. inc[n] > 0
          BY <4>5, <5>2 DEF Registration
        <5> QED  BY <4>4, <5>1, <5>2, <5>3
      <4> QED  BY <4>2, <4>4, <4>6, <4>7 DEF Registration, Waits, DeadPeerMsg, New
    <3> QED  BY <3>3, <3>4
  <2> QED  BY <2>1, <2>3, <2>4, <2>5 DEF ControllerReceives
<1>3. CASE ControllerContinues \/ ControllerCancels
  BY <1>1, <1>3, RegistrationKept
     DEF ControllerContinues, ControllerCancels, Continue, CancelOther, CancelsDone,
         RequestsForNextPeer, CancelDelivered, peerVars
<1>4. ASSUME NEW k \in Peers, TakeConn(k) PROVE Registration(n)'
  <2>1. UNCHANGED <<peers, chans>>
    BY <1>4 DEF TakeConn, vars
  <2>2. CASE UNCHANGED <<run, inc, toController>>
    BY <1>1, <2>1, <2>2, RegistrationKept
  <2>3. CASE /\ k \notin pmPeers
             /\ inc' = [inc EXCEPT ![k] = inc[k] + 1]
             /\ run' = [run EXCEPT ![k] = "waiting"]
             /\ send(New(k, inc'[k]))
    <3>1. CASE k # n
      <4>1. SameNews(n)
        <5>1. New(k, inc'[k]).peer # n
          BY <3>1, MessageFields
        <5> QED  BY <1>0, <2>3, <5>1, NoNews
      <4> QED  BY <1>0, <2>1, <2>3, <3>1, <4>1, RegistrationKept
    <3>2. CASE k = n
      <4>1. /\ run[n] = "none" /\ run'[n] = "waiting" /\ inc'[n] = inc[n] + 1
            /\ send(New(n, inc'[n]))
        BY <1>0, <2>3, <3>2
      <4>2. \A i \in Nat : ~Waits(New(n, i))
        BY <4>1 DEF Registration
      <4>3. /\ DeadPeerMsg(n) \in DOMAIN toController' <=> Waits(DeadPeerMsg(n))
            /\ Waits(DeadPeerMsg(n)) =>
                 toController'[DeadPeerMsg(n)] = toController[DeadPeerMsg(n)]
        <5>1. DeadPeerMsg(n) # New(n, inc'[n])
          BY MessagesDiffer
        <5> QED  BY <1>0, <4>1, <5>1, SendsOthers
      <4>4. \A i \in Nat : New(n, i) \in DOMAIN toController' =>
                          i = inc'[n] /\ toController'[New(n, i)] = 1
        <5>1. inc'[n] \in Nat
          BY <1>0, <4>1
        <5>2. ASSUME NEW i \in Nat, New(n, i) \in DOMAIN toController'
              PROVE  New(n, i) = New(n, inc'[n]) /\ i = inc'[n]
          <6>1. CASE New(n, i) # New(n, inc'[n])
            BY <1>0, <4>1, <4>2, <5>2, <6>1, SendsOthers
          <6>2. CASE New(n, i) = New(n, inc'[n])
            BY <6>2, MessagesDiffer
          <6> QED  BY <6>1, <6>2
        <5>3. toController'[New(n, inc'[n])] = 1
          BY <1>0, <4>1, <4>2, <5>1, Sends
        <5> QED  BY <5>2, <5>3
      <4>5. chans[n] < inc'[n] /\ inc'[n] > 0 /\ chans[n] <= inc'[n]
        BY <1>0, <4>1 DEF Registration
      <4>6. n \in peers => Waits(DeadPeerMsg(n))
        BY <4>1 DEF Registration
      <4>7. /\ n \in peers <=> chans[n] # 0
            /\ Waits(DeadPeerMsg(n)) => toController[DeadPeerMsg(n)] = 1 /\ n \in peers
        BY DEF Registration
      <4>8. peers' = peers /\ chans' = chans
        BY <2>1
      <4> QED  BY <1>0, <4>1, <4>3, <4>4, <4>5, <4>6, <4>7, <4>8
               DEF Registration, Waits, DeadPeerMsg, New
    <3> QED  BY <3>1, <3>2
  <2> QED  BY <1>4, <2>2, <2>3 DEF TakeConn, StartPeer, NewPeerMsg, New, peerVars
<1>5. ASSUME NEW k \in Peers, RemovePeer(k) PROVE Registration(n)'
  <2>1. /\ UNCHANGED <<peers, chans, inc>> /\ run[k] = "stopping"
        /\ run' = [run EXCEPT ![k] = "none"] /\ send(DeadPeerMsg(k))
    BY <1>5 DEF RemovePeer, vars
  <2>2. CASE k # n
    <3>1. SameNews(n)
      <4>1. DeadPeerMsg(k).peer # n
        BY <2>2, MessageFields
      <4> QED  BY <1>0, <2>1, <4>1, NoNews
    <3> QED  BY <1>0, <2>1, <2>2, <3>1, RegistrationKept
  <2>3. CASE k = n
    <3>1. /\ chans[n] = inc[n] /\ inc[n] > 0 /\ n \in peers /\ run'[n] = "none"
          /\ ~Waits(DeadPeerMsg(n)) /\ \A i \in Nat : ~Waits(New(n, i))
      BY <1>0, <2>1, <2>3 DEF Registration
    <3>2. /\ DeadPeerMsg(n) \in DOMAIN toController'
          /\ toController'[DeadPeerMsg(n)] = 1
          /\ \A i \in Nat : New(n, i) \notin DOMAIN toController'
      <4>1. send(DeadPeerMsg(n)) /\ \A i \in Nat : New(n, i) # DeadPeerMsg(n)
        BY <2>1, <2>3, MessagesDiffer
      <4>2. \A i \in Nat : New(n, i) \notin DOMAIN toController'
        BY <1>0, <3>1, <4>1, SendsOthers
      <4> QED  BY <1>0, <3>1, <4>1, <4>2, Sends
    <3>3. n \in peers' /\ chans'[n] = inc'[n] /\ inc'[n] > 0 /\ inc'[n] \in Nat
      BY <1>0, <2>1, <3>1
    <3> QED  BY <3>1, <3>2, <3>3 DEF Registration, Waits, DeadPeerMsg, New
  <2> QED  BY <2>2, <2>3
<1>6. ASSUME NEW k \in Peers, TrackerPeer(k) \/ Accept(k) PROVE Registration(n)'
  BY <1>1, <1>6, RegistrationKept DEF TrackerPeer, Accept, Connect, vars, peerVars
<1>7. CASE StartSeeding
  BY <1>1, <1>7, RegistrationKept DEF StartSeeding, vars, peerVars
<1>8. ASSUME NEW k \in Peers, PeerStep(k) PROVE Registration(n)'
  <2>1. UNCHANGED <<peers, chans, inc>>
    BY <1>8 DEF PeerStep, FirstHave, Choke, Unchoke, Announce, TakeRequest, FinishPiece,
                PeerStops, PeerWedges, Fail, vars, peerVars
  <2>2. SameNews(n)
    <3>1. \A m : send(m) /\ m.type \in {"choke", "have"} => SameNews(n)
      BY <1>0, NoNews
    <3>2. CASE Choke(k) \/ Unchoke(k) \/ \E batch : Announce(k, batch)
      <4>1. CASE \E c : send(ChokeMsg(k, c))
        BY <3>1, <4>1, MessageFields
      <4>2. CASE \E batch : send(HaveMsg(k, batch))
        BY <3>1, <4>2, MessageFields
      <4> QED  BY <3>2, <4>1, <4>2 DEF Choke, Unchoke, Announce
    <3>3. CASE ~(Choke(k) \/ Unchoke(k) \/ \E batch : Announce(k, batch))
      BY <1>1, <1>8, <3>3 DEF PeerStep, FirstHave, TakeRequest, FinishPiece, PeerStops,
                              PeerWedges, Fail
    <3> QED  BY <3>2, <3>3
  <2>3. CASE run'[n] = run[n]
    BY <2>1, <2>2, <2>3, RegistrationKept
  <2>4. CASE run'[n] # run[n]
    <3>1. \/ run[n] = "waiting" /\ chans[n] = inc[n] /\ run'[n] = "running"
          \/ run[n] = "waiting" /\ run'[n] = "noHandshake"
          \/ run[n] = "running" /\ run'[n] \in {"stopping", "wedged"}
      BY <1>0, <1>8, <2>4
         DEF PeerStep, FirstHave, Choke, Unchoke, Announce, TakeRequest, FinishPiece,
             PeerStops, PeerWedges, Fail, peerVars
    <3>2. Registration(n) /\ chans'[n] = chans[n] /\ inc'[n] = inc[n] /\ peers' = peers
      BY <2>1
    <3> QED  BY <1>0, <2>2, <3>1, <3>2 DEF Registration, SameNews, Waits, DeadPeerMsg, New
  <2> QED  BY <2>3, <2>4
<1>9. ASSUME NEW k \in Peers, NEW p \in Pieces, WritePiece(k, p) PROVE Registration(n)'
  <2>1. SameNews(n)
    <3>1. send(ReceivedMsg(k, p)) /\ ReceivedMsg(k, p).type = "received"
      BY <1>9, MessageFields DEF WritePiece
    <3> QED  BY <1>0, <3>1, NoNews
  <2> QED  BY <1>9, <2>1, RegistrationKept DEF WritePiece, vars, peerVars
<1>10. CASE UNCHANGED svars
  BY <1>1, <1>10, RegistrationKept DEF svars, vars, peerVars
<1> QED  BY <1>2, <1>3, <1>4, <1>5, <1>6, <1>7, <1>8, <1>9, <1>10 DEF SNext, PeerManagerStep

\* The controller met a second registration of a name.
DuplicateCrash == pc = "duplicatePeer" => \E n \in peers : Superseded(n)

\* The controller is told of a death only while it knows the peer, and a
\* connection that is registered under a known name replaces a dead one whose
\* end the controller has not heard of.
LEMMA CrashStep ==
  ASSUME SIInv, [SNext]_svars, \A n \in Peers : Registration(n),
         pc # "unknownDeadPeer", DuplicateCrash
  PROVE  pc' # "unknownDeadPeer" /\ DuplicateCrash'
<1>0. STypeOK
  BY DEF SIInv
<1>1. CASE ControllerTakes
  <2>1. PICK m \in SMessages : ControllerReceives(m)
    BY <1>0, <1>1 DEF ControllerTakes, STypeOK
  <2>2. Receive(m) /\ m.peer \in Peers
    BY <2>1, MessageShapes DEF ControllerReceives
  <2>3. CASE m.type \in {"received", "choke", "have"}
    <3>1. pc' \notin {"unknownDeadPeer", "duplicatePeer"}
      BY <2>1, <2>3 DEF ControllerReceives, ReceivedPiece, ChokeStatus, HavePiece,
                        UnknownPeerMessage, startRequests
    <3> QED  BY <3>1 DEF DuplicateCrash
  <2>4. CASE m.type = "deadPeer"
    <3>1. DeadPeer(m.peer) /\ m = DeadPeerMsg(m.peer)
      BY <2>1, <2>4, MessageShapes DEF ControllerReceives
    <3>2. Waits(DeadPeerMsg(m.peer))
      BY <1>0, <2>2, <3>1, Receives
    <3>3. m.peer \in peers
      BY <2>2, <3>2 DEF Registration
    <3>4. pc' = "idle"
      BY <3>1, <3>3 DEF DeadPeer
    <3> QED  BY <3>4 DEF DuplicateCrash
  <2>5. CASE m.type = "newPeer"
    <3>1. NewPeer(m.peer) /\ m.inc \in Nat /\ m = New(m.peer, m.inc)
      BY <2>1, <2>5, MessageShapes DEF ControllerReceives
    <3>2. pc' # "unknownDeadPeer" /\ (pc' = "duplicatePeer" => m.peer \in peers)
      BY <3>1 DEF NewPeer
    <3>3. CASE m.peer \in peers
      <4>1. Registration(m.peer) /\ Waits(New(m.peer, m.inc))
        BY <1>0, <2>2, <3>1, Receives
      <4>2. /\ chans[m.peer] # inc[m.peer]
            /\ 0 < chans[m.peer] /\ chans[m.peer] < inc[m.peer]
        <5>1. chans[m.peer] \in Nat /\ inc[m.peer] \in Nat
          BY <1>0, <2>2 DEF STypeOK
        <5> QED  BY <3>1, <3>3, <4>1, <5>1 DEF Registration
      <4>3. Waits(DeadPeerMsg(m.peer))
        BY <3>3, <4>1, <4>2 DEF Registration
      <4>4. DeadPeerMsg(m.peer) # m
        BY <3>1, MessagesDiffer
      <4>5. DeadPeerMsg(m.peer) \in DOMAIN toController'
        BY <1>0, <2>2, <4>3, <4>4, ReceivesOthers
      <4>6. /\ chans'[m.peer] = chans[m.peer] /\ inc' = inc /\ m.peer \in peers'
        BY <2>1, <2>5, <3>1, <3>3 DEF ControllerReceives, NewPeer, Crashed, peerVars
      <4>7. Superseded(m.peer)'
        BY <4>2, <4>5, <4>6 DEF Superseded, BagIn, BagToSet, DeadPeerMsg
      <4> QED  BY <3>2, <4>6, <4>7 DEF DuplicateCrash
    <3> QED  BY <3>2, <3>3 DEF DuplicateCrash
  <2> QED  BY <2>1, <2>3, <2>4, <2>5 DEF ControllerReceives
<1>2. CASE ControllerContinues \/ ControllerCancels
  <2>1. pc' \notin {"unknownDeadPeer", "duplicatePeer"}
    BY <1>2 DEF ControllerContinues, ControllerCancels, Continue, CancelOther, CancelsDone,
                RequestsForNextPeer, CancelDelivered, startRequests
  <2> QED  BY <2>1 DEF DuplicateCrash
<1>3. CASE Alive /\ pc' = pc
  BY <1>3 DEF Alive, Crashed, DuplicateCrash
<1>4. CASE PeerManagerStep
  BY <1>3, <1>4 DEF PeerManagerStep, TrackerPeer, Accept, Connect, TakeConn, RemovePeer,
                    StartSeeding, vars
<1>5. ASSUME NEW n \in Peers, PeerStep(n) PROVE Alive /\ pc' = pc
  BY <1>5 DEF PeerStep, FirstHave, Choke, Unchoke, Announce, TakeRequest, FinishPiece,
              PeerStops, PeerWedges, Fail, vars
<1>6. ASSUME NEW n \in Peers, NEW p \in Pieces, WritePiece(n, p) PROVE Alive /\ pc' = pc
  BY <1>6 DEF WritePiece, vars
<1>7. CASE UNCHANGED svars
  BY <1>7 DEF svars, vars, peerVars, DuplicateCrash, Superseded, DeadPeerMsg
<1> QED  BY <1>1, <1>2, <1>3, <1>4, <1>5, <1>6, <1>7 DEF SNext

\* The controller and the peer manager agree on who is connected, up to the
\* news that is under way.
RInv ==
  /\ SIInv
  /\ \A n \in Peers : Registration(n)
  /\ pc # "unknownDeadPeer"
  /\ DuplicateCrash

\* In the beginning nobody is connected and no news is under way.
LEMMA InitRInv == SInit => RInv
<1> SUFFICES ASSUME SInit PROVE RInv
  OBVIOUS
<1>1. SIInv
  BY InitSIInv
<1>2. \A x : ~Waits(x)
  BY DEF SInit, Waits, EmptyBag, SetToBag
<1>3. pc = "idle" /\ peers = {}
  BY DEF SInit, Init
<1>4. ASSUME NEW n \in Peers PROVE Registration(n)
  <2>1. chans[n] = 0 /\ inc[n] = 0 /\ run[n] = "none"
    BY DEF SInit
  <2> QED  BY <1>2, <1>3, <2>1 DEF Registration
<1> QED  BY <1>1, <1>3, <1>4 DEF RInv, DuplicateCrash

\* Every step of the whole system.
LEMMA NextRInv == RInv /\ [SNext]_svars => RInv'
<1> SUFFICES ASSUME RInv, [SNext]_svars PROVE RInv'
  OBVIOUS
<1>1. SIInv /\ SIInv'
  BY NextSIInv DEF RInv
<1>2. ASSUME NEW n \in Peers PROVE Registration(n)'
  BY <1>1, RegistrationStep DEF RInv
<1>3. pc' # "unknownDeadPeer" /\ DuplicateCrash'
  BY <1>1, CrashStep DEF RInv
<1> QED  BY <1>1, <1>2, <1>3 DEF RInv

\* The inductive invariant of registrations and deaths.
THEOREM RegistrationInvariance == SSpec => []RInv
<1> QED  BY InitRInv, NextRInv, PTL DEF SSpec

\* A peer whose reader runs is registered with its own channels, and the
\* log.Fatalf about a dead peer that is not in the mapping is unreachable.
THEOREM RunningPeersRegistered == SSpec => []RunningRegistered
<1>1. RInv => RunningRegistered
  <2> SUFFICES ASSUME RInv PROVE RunningRegistered
    OBVIOUS
  <2>1. ASSUME NEW n \in Peers, run[n] = "running" PROVE n \in peers /\ chans[n] = inc[n]
    <3>1. Registration(n)
      BY DEF RInv
    <3> QED  BY <2>1, <3>1 DEF Registration
  <2> QED  BY <2>1 DEF RInv, RunningRegistered
<1> QED  BY <1>1, RegistrationInvariance, PTL

\* A second registration of a name waits, or has ended the process, only when
\* the name was used before and the death of its old connection waits too.
THEOREM DuplicatesAreReconnects == SSpec => []DuplicateNeedsReconnect
<1>1. RInv => DuplicateNeedsReconnect
  <2> SUFFICES ASSUME RInv PROVE DuplicateNeedsReconnect
    OBVIOUS
  <2>0. STypeOK
    BY DEF RInv, SIInv
  <2>1. ASSUME NEW m \in BagToSet(toController), m.type = "newPeer", m.peer \in peers
        PROVE  Superseded(m.peer)
    <3>1. m \in SMessages /\ Waits(m)
      BY <2>0, <2>1 DEF STypeOK, Waits, BagToSet
    <3>2. m.peer \in Peers /\ m.inc \in Nat /\ Waits(New(m.peer, m.inc))
      BY <2>1, <3>1, MessageShapes
    <3>3. Registration(m.peer)
      BY <3>2 DEF RInv
    <3>4. /\ chans[m.peer] \in Nat /\ inc[m.peer] \in Nat
      BY <2>0, <3>2 DEF STypeOK
    <3>5. /\ 0 < chans[m.peer] /\ chans[m.peer] < inc[m.peer]
          /\ Waits(DeadPeerMsg(m.peer))
      BY <2>1, <3>2, <3>3, <3>4 DEF Registration
    <3> QED  BY <3>5 DEF Superseded, BagIn, BagToSet, Waits
  <2> QED  BY <2>1 DEF DuplicateNeedsReconnect, RInv, DuplicateCrash
<1> QED  BY <1>1, RegistrationInvariance, PTL

-----------------------------------------------------------------------------
(* Chokes.                                                                 *)

\* Until the first choke: none is under way, and unchokes are not lost.
Unchoking(n) ==
  /\ run[n] = "waiting" => peerChoking[n]
  /\ budget.choke = ChokeBudget =>
       /\ ~Waits(ChokeMsg(n, TRUE))
       /\ Alive /\ run[n] = "running" /\ ~peerChoking[n] =>
            ~isChoked[n] \/ Waits(ChokeMsg(n, FALSE))

\* The choke messages of n that wait are the same after the step.
SameChokes(n) ==
  \A c \in BOOLEAN : ChokeMsg(n, c) \in DOMAIN toController' <=> Waits(ChokeMsg(n, c))

\* Messages of another peer, or about something else, are no choke messages.
LEMMA NoChokes ==
  ASSUME STypeOK, NEW n, NEW m, send(m) \/ Receive(m), m.peer # n \/ m.type # "choke"
  PROVE  SameChokes(n)
<1>1. \A c : ChokeMsg(n, c) # m
  BY MessageFields
<1>2. CASE send(m)
  BY <1>1, <1>2, SendsOthers DEF SameChokes
<1>3. CASE Receive(m)
  BY <1>1, <1>3, ReceivesOthers DEF SameChokes
<1> QED  BY <1>2, <1>3

\* A step that changes nothing about the chokes of n.
LEMMA UnchokingKept ==
  ASSUME NEW n, Unchoking(n), SameChokes(n), Alive' => Alive,
         run'[n] = run[n] \/ run'[n] \notin {"waiting", "running"},
         peerChoking'[n] = peerChoking[n], isChoked'[n] = isChoked[n],
         budget'.choke = budget.choke
  PROVE  Unchoking(n)'
<1>1. /\ ChokeMsg(n, TRUE) \in DOMAIN toController' <=> Waits(ChokeMsg(n, TRUE))
      /\ ChokeMsg(n, FALSE) \in DOMAIN toController' <=> Waits(ChokeMsg(n, FALSE))
  BY DEF SameChokes
<1> QED  BY <1>1 DEF Unchoking, Waits, ChokeMsg

\* Steps of the controller.
LEMMA ControllerUnchoking ==
  ASSUME STypeOK, NEW n \in Peers, Registration(n), Unchoking(n), ControllerTakes
  PROVE  Unchoking(n)'
<1>1. PICK m \in SMessages : ControllerReceives(m)
  BY DEF ControllerTakes, STypeOK
<1>2. /\ Receive(m) /\ UNCHANGED <<run, peerChoking, budget>>
      /\ isChoked \in [Peers -> BOOLEAN] /\ m.peer \in Peers
  BY <1>1, MessageShapes DEF ControllerReceives, peerVars, STypeOK, TypeOK
<1>3. Alive
  BY <1>1 DEF ControllerReceives, ReceivedPiece, NewPeer, DeadPeer, ChokeStatus, HavePiece,
              UnknownPeerMessage, Alive, Crashed
<1>4. CASE m.type \in {"received", "newPeer", "have"}
  <2>1. UNCHANGED isChoked
    BY <1>1, <1>4 DEF ControllerReceives, ReceivedPiece, NewPeer, HavePiece,
                      UnknownPeerMessage, peerInfo
  <2>2. SameChokes(n)
    BY <1>2, <1>4, NoChokes
  <2> QED  BY <1>2, <1>3, <2>1, <2>2, UnchokingKept
<1>5. CASE m.type = "deadPeer"
  <2>1. DeadPeer(m.peer) /\ m = DeadPeerMsg(m.peer)
    BY <1>1, <1>5, MessageShapes DEF ControllerReceives
  <2>2. SameChokes(n)
    BY <1>2, <1>5, NoChokes
  <2>3. CASE m.peer # n
    <3>1. isChoked'[n] = isChoked[n]
      BY <1>2, <2>1, <2>3 DEF DeadPeer, peerInfo
    <3> QED  BY <1>2, <1>3, <2>2, <3>1, UnchokingKept
  <2>4. CASE m.peer = n
    <3>1. Waits(DeadPeerMsg(n))
      BY <1>2, <2>1, <2>4, Receives
    <3>2. run[n] # "running"
      BY <3>1 DEF Registration
    <3>3. ~Waits(ChokeMsg(n, TRUE)) => ChokeMsg(n, TRUE) \notin DOMAIN toController'
      BY <2>2 DEF SameChokes
    <3> QED  BY <1>2, <3>2, <3>3 DEF Unchoking, Waits, ChokeMsg
  <2> QED  BY <2>3, <2>4
<1>6. CASE m.type = "choke"
  <2>1. /\ ChokeStatus(m.peer, m.choked) /\ m = ChokeMsg(m.peer, m.choked)
        /\ m.choked \in BOOLEAN
    BY <1>1, <1>6, MessageShapes DEF ControllerReceives
  <2>2. CASE m.peer # n
    <3>1. SameChokes(n)
      BY <1>2, <2>2, NoChokes
    <3>2. isChoked'[n] = isChoked[n]
      BY <1>2, <2>1, <2>2 DEF ChokeStatus, UnknownPeerMessage, peerInfo
    <3> QED  BY <1>2, <1>3, <3>1, <3>2, UnchokingKept
  <2>3. CASE m.peer = n
    <3>1. Waits(ChokeMsg(n, m.choked))
      BY <1>2, <2>1, <2>3, Receives
    <3>2. ChokeMsg(n, TRUE) \in DOMAIN toController' => Waits(ChokeMsg(n, TRUE))
      BY <1>2, Receives
    <3>3. budget.choke = ChokeBudget => ~m.choked
      BY <2>1, <3>1 DEF Unchoking
    <3>4. run[n] = "running" /\ ~m.choked => ~isChoked'[n]
      <4> SUFFICES ASSUME run[n] = "running", ~m.choked PROVE ~isChoked'[n]
        OBVIOUS
      <4>1. n \in peers
        BY DEF Registration
      <4> QED  BY <1>2, <2>1, <2>3, <4>1 DEF ChokeStatus, UnknownPeerMessage
    <3> QED  BY <1>2, <3>2, <3>3, <3>4 DEF Unchoking, Waits, ChokeMsg
  <2> QED  BY <2>2, <2>3
<1> QED  BY <1>1, <1>4, <1>5, <1>6 DEF ControllerReceives

\* What a bound's spending leaves alone.
LEMMA SpendOthers ==
  ASSUME STypeOK
  PROVE  /\ budget' = [budget EXCEPT !.conn = @ - 1] => budget'.choke = budget.choke
         /\ budget' = [budget EXCEPT !.fail = @ - 1] => budget'.choke = budget.choke
         /\ budget' = [budget EXCEPT !.choke = @ - 1] => budget'.choke = budget.choke - 1
         /\ budget.choke \in Nat
  BY DEF STypeOK

\* The bounds are only spent.
LEMMA BudgetSpent ==
  ASSUME [SNext]_svars
  PROVE  \/ UNCHANGED budget
         \/ budget' = [budget EXCEPT !.conn = @ - 1]
         \/ budget' = [budget EXCEPT !.fail = @ - 1]
         \/ budget' = [budget EXCEPT !.choke = @ - 1]
<1>1. CASE ControllerTakes \/ ControllerContinues \/ ControllerCancels
  BY <1>1 DEF ControllerTakes, ControllerReceives, ControllerContinues, ControllerCancels
<1>2. CASE PeerManagerStep
  BY <1>2 DEF PeerManagerStep, TrackerPeer, Accept, Connect, TakeConn, RemovePeer,
              StartSeeding
<1>3. CASE \E n \in Peers : PeerStep(n)
  BY <1>3 DEF PeerStep, FirstHave, Choke, Unchoke, Announce, TakeRequest, FinishPiece,
              PeerStops, PeerWedges, Fail
<1>4. CASE \E n \in Peers, p \in Pieces : WritePiece(n, p)
  BY <1>4 DEF WritePiece
<1>5. CASE UNCHANGED svars
  BY <1>5 DEF svars
<1> QED  BY <1>1, <1>2, <1>3, <1>4, <1>5 DEF SNext

\* In particular the bound on chokes.
LEMMA ChokesBounded ==
  ASSUME STypeOK, [SNext]_svars, budget.choke <= ChokeBudget
  PROVE  budget'.choke <= ChokeBudget /\ budget'.choke <= budget.choke
<1>1. budget.choke \in Nat /\ ChokeBudget \in Nat
  BY SwarmAssumption DEF STypeOK, SwarmAssumption
<1> QED  BY <1>1, BudgetSpent, SpendOthers

\* Every other step.
LEMMA UnchokingStep ==
  ASSUME SIInv, [SNext]_svars, NEW n \in Peers, Registration(n), Unchoking(n),
         budget.choke <= ChokeBudget
  PROVE  Unchoking(n)'
<1>0. /\ STypeOK
      /\ run \in [Peers -> {"none", "waiting", "running", "stopping", "wedged",
                            "noHandshake"}]
      /\ peerChoking \in [Peers -> BOOLEAN]
      /\ budget.choke \in Nat /\ ChokeBudget \in Nat
  BY SwarmAssumption DEF SIInv, STypeOK, SwarmAssumption
<1>1. UNCHANGED toController => SameChokes(n)
  BY DEF SameChokes, Waits
<1>2. CASE ControllerTakes
  BY <1>0, <1>2, ControllerUnchoking
<1>3. CASE ControllerContinues \/ ControllerCancels
  <2>1. Alive /\ UNCHANGED <<toController, run, peerChoking, isChoked, budget>>
    BY <1>3 DEF ControllerContinues, ControllerCancels, Continue, CancelOther, CancelsDone,
                RequestsForNextPeer, CancelDelivered, peerVars, peerInfo, Alive, Crashed
  <2> QED  BY <1>1, <2>1, UnchokingKept
<1>4. ASSUME NEW k \in Peers, TakeConn(k) PROVE Unchoking(n)'
  <2>1. Alive /\ UNCHANGED <<isChoked, budget>>
    BY <1>4 DEF TakeConn, vars
  <2>2. CASE UNCHANGED <<run, peerChoking, toController>>
    BY <1>1, <2>1, <2>2, UnchokingKept
  <2>3. CASE /\ run' = [run EXCEPT ![k] = "waiting"]
             /\ peerChoking' = [peerChoking EXCEPT ![k] = TRUE]
             /\ send(New(k, inc'[k]))
    <3>1. New(k, inc'[k]).type # "choke"
      BY MessageFields
    <3>2. SameChokes(n)
      BY <1>0, <2>3, <3>1, NoChokes
    <3>3. CASE k # n
      <4>1. run'[n] = run[n] /\ peerChoking'[n] = peerChoking[n]
        BY <1>0, <2>3, <3>3
      <4> QED  BY <2>1, <3>2, <4>1, UnchokingKept
    <3>4. CASE k = n
      <4>1. run'[n] = "waiting" /\ peerChoking'[n]
        BY <1>0, <2>3, <3>4
      <4>2. ~Waits(ChokeMsg(n, TRUE)) => ChokeMsg(n, TRUE) \notin DOMAIN toController'
        BY <3>2 DEF SameChokes
      <4> QED  BY <2>1, <4>1, <4>2 DEF Unchoking, Waits, ChokeMsg
    <3> QED  BY <3>3, <3>4
  <2> QED  BY <1>4, <2>1, <2>2, <2>3 DEF TakeConn, StartPeer, NewPeerMsg, New, peerVars
<1>5. ASSUME NEW k \in Peers, RemovePeer(k) PROVE Unchoking(n)'
  <2>1. /\ Alive /\ UNCHANGED <<isChoked, budget, peerChoking>>
        /\ run' = [run EXCEPT ![k] = "none"] /\ send(DeadPeerMsg(k))
    BY <1>5 DEF RemovePeer, vars
  <2>2. run'[n] = run[n] \/ run'[n] = "none"
    BY <1>0, <2>1
  <2>3. DeadPeerMsg(k).type # "choke"
    BY MessageFields
  <2>4. SameChokes(n)
    BY <1>0, <2>1, <2>3, NoChokes
  <2> QED  BY <2>1, <2>2, <2>4, UnchokingKept
<1>6. ASSUME NEW k \in Peers, Connect(k) PROVE Unchoking(n)'
  <2>1. /\ Alive /\ UNCHANGED <<isChoked, run, peerChoking, toController>>
        /\ budget'.choke = budget.choke
    BY <1>0, <1>6, SpendOthers DEF Connect, vars, peerVars
  <2> QED  BY <1>1, <2>1, UnchokingKept
<1>7. CASE StartSeeding
  <2>1. Alive /\ UNCHANGED <<isChoked, run, peerChoking, toController, budget>>
    BY <1>7 DEF StartSeeding, vars, peerVars
  <2> QED  BY <1>1, <2>1, UnchokingKept
<1>8. ASSUME NEW k \in Peers, FirstHave(k) PROVE Unchoking(n)'
  <2>1. /\ Alive /\ UNCHANGED <<isChoked, peerChoking, toController, budget>>
        /\ run[k] = "waiting" /\ run' = [run EXCEPT ![k] = "running"]
    BY <1>8 DEF FirstHave, vars
  <2>2. CASE k # n
    BY <1>0, <1>1, <2>1, <2>2, UnchokingKept
  <2>3. CASE k = n
    <3>1. peerChoking[n] /\ run'[n] = "running"
      BY <1>0, <2>1, <2>3 DEF Unchoking
    <3>2. budget.choke = ChokeBudget => ChokeMsg(n, TRUE) \notin DOMAIN toController'
      BY <2>1 DEF Unchoking, Waits
    <3>3. run'[n] # "waiting" /\ peerChoking'[n] /\ budget'.choke = budget.choke
      BY <2>1, <3>1
    <3> QED  BY <3>2, <3>3 DEF Unchoking, Waits, ChokeMsg
  <2> QED  BY <2>1, <2>2, <2>3
<1>9. ASSUME NEW k \in Peers, Choke(k) PROVE Unchoking(n)'
  <2>1. /\ UNCHANGED run /\ peerChoking' = [peerChoking EXCEPT ![k] = TRUE]
        /\ budget'.choke = budget.choke - 1
    BY <1>0, <1>9, SpendOthers DEF Choke
  <2>2. peerChoking[n] => peerChoking'[n]
    BY <1>0, <2>1
  <2>3. budget'.choke # ChokeBudget /\ budget'.choke <= ChokeBudget
    BY <1>0, <2>1
  <2> QED  BY <2>1, <2>2, <2>3 DEF Unchoking
<1>10. ASSUME NEW k \in Peers, Unchoke(k) PROVE Unchoking(n)'
  <2>1. /\ Alive /\ UNCHANGED <<isChoked, run, budget>> /\ run[k] \in {"running", "wedged"}
        /\ peerChoking' = [peerChoking EXCEPT ![k] = FALSE] /\ send(ChokeMsg(k, FALSE))
    BY <1>10 DEF Unchoke, Reading, vars
  <2>2. CASE k # n
    <3>1. ChokeMsg(k, FALSE).peer # n
      BY <2>2 DEF ChokeMsg
    <3>2. SameChokes(n)
      BY <1>0, <2>1, <3>1, NoChokes
    <3>3. peerChoking'[n] = peerChoking[n]
      BY <1>0, <2>1, <2>2
    <3> QED  BY <2>1, <3>2, <3>3, UnchokingKept
  <2>3. CASE k = n
    <3>1. ChokeMsg(n, FALSE) \in DOMAIN toController'
      BY <1>0, <2>1, <2>3, Sends
    <3>2. ChokeMsg(n, TRUE) # ChokeMsg(n, FALSE)
      BY MessagesDiffer
    <3>3. ChokeMsg(n, TRUE) \in DOMAIN toController' <=> Waits(ChokeMsg(n, TRUE))
      BY <1>0, <2>1, <2>3, <3>2, SendsOthers
    <3> QED  BY <2>1, <2>3, <3>1, <3>3 DEF Unchoking, Waits, ChokeMsg
  <2> QED  BY <2>1, <2>2, <2>3
<1>11. ASSUME NEW k \in Peers, NEW batch, Announce(k, batch)
       PROVE  Unchoking(n)'
  <2>1. /\ Alive /\ UNCHANGED <<isChoked, run, budget, peerChoking>>
        /\ send(HaveMsg(k, batch))
    BY <1>11 DEF Announce, vars
  <2>2. HaveMsg(k, batch).type # "choke"
    BY MessageFields
  <2>3. SameChokes(n)
    BY <1>0, <2>1, <2>2, NoChokes
  <2> QED  BY <2>1, <2>3, UnchokingKept
<1>12. ASSUME NEW k \in Peers, NEW p \in Pieces, TakeRequest(k, p) \/ FinishPiece(k, p)
       PROVE  Unchoking(n)'
  <2>1. Alive /\ UNCHANGED <<isChoked, run, budget, peerChoking, toController>>
    BY <1>12 DEF TakeRequest, FinishPiece, vars, peerVars
  <2> QED  BY <1>1, <2>1, UnchokingKept
<1>13. ASSUME NEW k \in Peers, NEW where \in {"stopping", "wedged", "noHandshake"},
              Fail(k, where)
       PROVE  Unchoking(n)'
  <2>1. /\ Alive /\ UNCHANGED <<isChoked, peerChoking, toController>>
        /\ run' = [run EXCEPT ![k] = where] /\ budget'.choke = budget.choke
    BY <1>0, <1>13, SpendOthers DEF Fail, vars
  <2>2. run'[n] = run[n] \/ run'[n] \notin {"waiting", "running"}
    BY <1>0, <2>1
  <2> QED  BY <1>1, <2>1, <2>2, UnchokingKept
<1>14. ASSUME NEW k \in Peers, NEW p \in Pieces, WritePiece(k, p)
       PROVE  Unchoking(n)'
  <2>1. /\ Alive /\ UNCHANGED <<isChoked, run, budget, peerChoking>>
        /\ send(ReceivedMsg(k, p))
    BY <1>14 DEF WritePiece, vars, peerVars
  <2>2. ReceivedMsg(k, p).type # "choke"
    BY MessageFields
  <2>3. SameChokes(n)
    BY <1>0, <2>1, <2>2, NoChokes
  <2> QED  BY <2>1, <2>3, UnchokingKept
<1>15. CASE UNCHANGED svars
  <2>1. UNCHANGED <<pc, isChoked, run, budget, peerChoking, toController>>
    BY <1>15 DEF svars, vars, peerVars
  <2>2. Alive' => Alive
    BY <2>1 DEF Alive
  <2> QED  BY <1>1, <2>1, <2>2, UnchokingKept
<1>16. CASE PeerManagerStep
  BY <1>4, <1>5, <1>6, <1>7, <1>16 DEF PeerManagerStep, TrackerPeer, Accept, StartSeeding
<1>17. ASSUME NEW k \in Peers, PeerStep(k) PROVE Unchoking(n)'
  BY <1>8, <1>9, <1>10, <1>11, <1>12, <1>13, <1>17 DEF PeerStep, PeerStops, PeerWedges
<1> QED  BY <1>2, <1>3, <1>14, <1>15, <1>16, <1>17 DEF SNext

\* Unchokes, on top of registrations.
UnchokeInv == RInv /\ budget.choke <= ChokeBudget /\ \A n \in Peers : Unchoking(n)

\* In the beginning no choke is under way.
LEMMA InitUnchokeInv == SInit => UnchokeInv
<1> SUFFICES ASSUME SInit PROVE UnchokeInv
  OBVIOUS
<1>1. RInv
  BY InitRInv
<1>2. budget.choke <= ChokeBudget
  BY SwarmAssumption DEF SInit, SwarmAssumption
<1>3. \A x : ~Waits(x)
  BY DEF SInit, Waits, EmptyBag, SetToBag
<1>4. \A n \in Peers : run[n] = "none"
  BY DEF SInit
<1> QED  BY <1>1, <1>2, <1>3, <1>4 DEF UnchokeInv, Unchoking

\* Every step of the whole system.
LEMMA NextUnchokeInv == UnchokeInv /\ [SNext]_svars => UnchokeInv'
<1> SUFFICES ASSUME UnchokeInv, [SNext]_svars PROVE UnchokeInv'
  OBVIOUS
<1>1. RInv /\ RInv' /\ SIInv
  BY NextRInv DEF UnchokeInv, RInv
<1>2. ASSUME NEW n \in Peers PROVE Unchoking(n)'
  BY <1>1, UnchokingStep DEF UnchokeInv, RInv
<1>3. budget'.choke <= ChokeBudget
  BY <1>1, ChokesBounded DEF UnchokeInv, SIInv
<1> QED  BY <1>1, <1>2, <1>3 DEF UnchokeInv

\* The inductive invariant of the chokes.
THEOREM UnchokeInvariance == SSpec => []UnchokeInv
<1> QED  BY InitUnchokeInv, NextUnchokeInv, PTL DEF SSpec

\* As long as nobody chokes us, no unchoke is lost on its way to the controller.
THEOREM UnchokesAreReported == SSpec => []UnchokesReported
<1>1. UnchokeInv => UnchokesReported
  BY DEF UnchokeInv, Unchoking, UnchokesReported, Waits, BagIn, BagToSet
<1> QED  BY <1>1, UnchokeInvariance, PTL
===============================================================================
