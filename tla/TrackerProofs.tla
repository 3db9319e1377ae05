----------------------------- MODULE TrackerProofs -----------------------------
(***************************************************************************)
(* Proofs about the trackers, for any number of timers and of packets.     *)
(*                                                                         *)
(* The loop of Run is proved to keep a single chain of announces.  The UDP *)
(* tracker is proved to implement the loop, so that it inherits this, and  *)
(* from it follows that packets that are not resent are read by the        *)
(* request they answer.                                                    *)
(***************************************************************************)
EXTENDS UdpTracker, FiniteSetTheorems, TLAPS

-----------------------------------------------------------------------------
(* The loop of Run.                                                        *)

\* Timers that have not delivered are finitely many.
LEMMA ArmedFinite ==
  ASSUME TypeOK
  PROVE  IsFiniteSet(armed) /\ Cardinality(armed) \in Nat
<1>1. IsFiniteSet(Timers)
  BY TrackerAssumption, FS_Interval DEF Timers
<1>2. IsFiniteSet(armed)
  BY <1>1, FS_Subset DEF TypeOK
<1> QED  BY <1>2, FS_CardinalityType

\* An Announce that ends leaves at most one more timer behind.
LEMMA OutcomeStep ==
  ASSUME TypeOK, Outcome
  PROVE  /\ made' \in 0 .. MaxTimers /\ timer' \in {0} \cup Timers
         /\ armed' \subseteq Timers
         /\ Cardinality(armed') \in Nat /\ Cardinality(armed') <= Cardinality(armed) + 1
<1>1. CASE Schedule
  <2>1. made' \in Timers
    BY <1>1, TrackerAssumption DEF Schedule, Timers, TypeOK
  <2>2. armed' \subseteq Timers /\ made' \in 0 .. MaxTimers /\ timer' \in Timers
    BY <1>1, <2>1 DEF Schedule, TypeOK, Timers
  <2>3. Cardinality(armed') \in Nat /\ Cardinality(armed') <= Cardinality(armed) + 1
    BY <1>1, ArmedFinite, FS_AddElement DEF Schedule
  <2> QED  BY <2>2, <2>3
<1>2. CASE NoSchedule
  BY <1>2, ArmedFinite DEF NoSchedule, TypeOK
<1> QED  BY <1>1, <1>2 DEF Outcome

\* What every step of Run keeps.
TInv == TypeOK /\ OneAnnounce

\* The inductive step, one case per action.
LEMMA TrackerInvStep == TInv /\ [Next]_tvars => TInv'
<1> SUFFICES ASSUME TInv, [Next]_tvars PROVE TInv'
  OBVIOUS
<1> USE DEF TInv
<1>0. intervals \in Nat /\ Cardinality(armed) \in Nat
  BY ArmedFinite DEF TypeOK
<1>1. CASE StartedEnds(Outcome)
  <2>1. Outcome /\ pc = "started" /\ pc' = "loop" /\ UNCHANGED <<held, intervals, quit>>
    BY <1>1 DEF StartedEnds
  <2>2. TypeOK'
    BY <2>1, OutcomeStep DEF TypeOK
  <2>3. intervals + Cardinality(armed) + 1 <= 1
    BY <2>1 DEF OneAnnounce
  <2>4. OneAnnounce'
    BY <1>0, <2>1, <2>3, OutcomeStep DEF OneAnnounce
  <2> QED  BY <2>2, <2>4
<1>2. CASE IntervalEnds(Outcome)
  <2>1. /\ Outcome /\ intervals > 0 /\ intervals' = intervals - 1
        /\ UNCHANGED <<pc, held, quit>>
    BY <1>2 DEF IntervalEnds
  <2>2. TypeOK'
    BY <2>1, OutcomeStep DEF TypeOK
  <2>3. OneAnnounce'
    BY <1>0, <2>1, OutcomeStep DEF OneAnnounce
  <2> QED  BY <2>2, <2>3
<1>3. CASE TakeTimer
  <2>1. TypeOK'
    BY <1>3 DEF TakeTimer, TypeOK
  <2>2. Cardinality(armed') = Cardinality(armed) - 1
    BY <1>3, ArmedFinite, FS_RemoveElement DEF TakeTimer
  <2>3. OneAnnounce'
    BY <1>0, <1>3, <2>2 DEF OneAnnounce, TakeTimer
  <2> QED  BY <2>1, <2>3
<1>4. CASE StoppedEnds
  BY <1>0, <1>4 DEF StoppedEnds, NoSchedule, TypeOK, OneAnnounce
<1>5. CASE RunReturns
  BY <1>0, <1>5 DEF RunReturns, NoSchedule, TypeOK, OneAnnounce
<1>6. CASE EnterSelect
  BY <1>0, <1>6 DEF EnterSelect, TypeOK, OneAnnounce
<1>7. CASE TakeQuit
  BY <1>0, <1>7 DEF TakeQuit, TypeOK, OneAnnounce
<1>8. CASE Quit
  BY <1>8 DEF Quit, TypeOK, OneAnnounce
<1>9. CASE UNCHANGED tvars
  BY <1>9 DEF tvars, TypeOK, OneAnnounce
<1> QED  BY <1>1, <1>2, <1>3, <1>4, <1>5, <1>6, <1>7, <1>8, <1>9
         DEF Next, AnnounceEnds, RunStep

\* Run begins with its own announce and no timer.
LEMMA TrackerInvInit == Init => TInv
<1>1. Init => TypeOK
  <2>1. 0 \in 0 .. MaxTimers /\ 0 \in Nat
    BY TrackerAssumption
  <2> QED  BY <2>1, Zenon DEF Init, TypeOK
<1>2. Init => OneAnnounce
  BY FS_EmptySet DEF Init, OneAnnounce
<1> QED  BY <1>1, <1>2 DEF TInv

\* Every tracker keeps the type invariant and the single chain of announces.
THEOREM TrackerInvariance == Spec => []TInv
  BY TrackerInvInit, TrackerInvStep, PTL DEF Spec

\* The announces of a tracker form a single chain, however the periodic ones
\* interleave with Run and whatever they do to tr.timer.
THEOREM AnnouncesChained == Spec => []OneAnnounce
  BY TrackerInvariance, PTL DEF TInv

-----------------------------------------------------------------------------
(* The UDP tracker implements the loop.                                    *)

\* Where an Announce ends, its caller's step is one of the loop.
LEMMA EndsStep ==
  ASSUME NEW a, Ends(a, NoSchedule) \/ Ends(a, Outcome)
  PROVE  AnnounceEnds
  BY DEF Ends, AnnounceEnds, StartedEnds, IntervalEnds, Outcome

\* Every step of the UDP tracker is a step of the loop or does not touch it.
LEMMA UdpStep ==
  ASSUME [UNext]_uvars
  PROVE  [Next]_tvars
<1>1. ASSUME NEW a \in Announcers, NEW response \in Responses, Read(a, response)
      PROVE  [Next]_tvars
  BY <1>1, EndsStep DEF Read, ConnectReturns, Fails, Succeeds, Next
<1>2. ASSUME NEW a \in Announcers, Resend(a) PROVE UNCHANGED tvars
  BY <1>2 DEF Resend
<1>3. ASSUME NEW r \in Requests, ServerAnswers(r) PROVE UNCHANGED tvars
  BY <1>3 DEF ServerAnswers
<1>4. CASE Lose \/ Start \/ UNCHANGED uvars
  BY <1>4 DEF Lose, Start, uvars
<1>5. CASE NoAddress
  BY <1>5 DEF NoAddress, Next
<1>6. CASE USelect \/ StartInterval \/ StartStopped
  BY <1>6 DEF USelect, StartInterval, StartStopped, Next, RunStep
<1>7. CASE UQuit
  BY <1>7 DEF UQuit, Next
<1> QED  BY <1>1, <1>2, <1>3, <1>4, <1>5, <1>6, <1>7 DEF UNext

\* Whatever becomes of its packets, the UDP tracker is a tracker.
THEOREM UdpIsATracker == USpec => ImplementsTracker
<1>1. UInit => Init
  BY DEF UInit
<1> QED  BY <1>1, UdpStep, PTL DEF USpec, Spec, ImplementsTracker

\* So its announces form a single chain too.
THEOREM UdpAnnouncesChained == USpec => []OneAnnounce
  BY UdpIsATracker, AnnouncesChained, PTL DEF ImplementsTracker

-----------------------------------------------------------------------------
(* The packets of the UDP tracker.                                         *)

\* An announcer has a request open exactly as long as its Announce runs, except
\* that Run has not opened a socket yet when it starts.
RequestsOpen ==
  /\ request["interval"] = Idle <=> intervals = 0
  /\ request["run"] # Idle => pc \in {"started", "stopped"}
  /\ pc = "stopped" => request["run"] # Idle

\* As long as IdIssued speaks of a state, the only packet on its way belongs to
\* the only request that is open.
OwnPackets ==
  ~resent /\ pc \notin {"stopped", "done"} =>
    /\ \A r \in toServer : toClient = {} /\ \E a \in Announcers : request[a] = r
    /\ \A c \in toClient : \E a \in Announcers : request[a].type = c

UInv == TInv /\ UTypeOK /\ RequestsOpen /\ OwnPackets /\ IdIssued

\* Kinds of requests are told apart by their type.
LEMMA RequestTypes ==
  /\ Idle.type = "none" /\ ConnectRequest.type = "connect"
  /\ \A id : AnnounceRequest(id).type = "announce" /\ AnnounceRequest(id).id = id
  /\ Idle \notin Requests /\ ConnectRequest \in Requests
  /\ \A id \in Ids : AnnounceRequest(id) \in Requests
  /\ \A r \in Requests : r # Idle /\ r.type \in {"connect", "announce"}
  /\ \A r \in Requests : r.type = "connect" <=> r = ConnectRequest
<1>1. Idle.type = "none" /\ ConnectRequest.type = "connect"
  BY DEF Idle, ConnectRequest
<1>2. \A id : AnnounceRequest(id).type = "announce" /\ AnnounceRequest(id).id = id
  BY DEF AnnounceRequest
<1>3. \A r \in Requests : r = ConnectRequest \/ \E id \in Ids : r = AnnounceRequest(id)
  BY DEF Requests
<1>4. ConnectRequest \in Requests /\ \A id \in Ids : AnnounceRequest(id) \in Requests
  BY DEF Requests
<1> QED  BY <1>1, <1>2, <1>3, <1>4

\* Ids and packets stay what they are, and so does the loop's state.
LEMMA UTypeStep == UInv /\ [UNext]_uvars => UTypeOK'
<1> SUFFICES ASSUME UInv, [UNext]_uvars PROVE UTypeOK'
  OBVIOUS
<1>0. TypeOK'
  BY UdpStep, TrackerInvStep DEF UInv, TInv
<1> USE DEF UInv
<1>1. ASSUME NEW a \in Announcers, NEW r \in Requests, Send(a, r)
      PROVE  /\ request' \in [Announcers -> Requests \cup {Idle}]
             /\ toServer' \subseteq Requests
  BY <1>1 DEF Send, UTypeOK
<1>2. ASSUME NEW a \in Announcers, NEW response \in Responses, Read(a, response)
      PROVE  UTypeOK'
  <2>1. toClient' \subseteq Responses /\ resent' \in BOOLEAN
    BY <1>2 DEF Read, UTypeOK
  <2>2. CASE ConnectReturns(a, response)
    <3>1. ConnectionId' \in Ids
      BY <2>2 DEF ConnectReturns, NewId, Responses, UTypeOK, Ids
    <3>2. Send(a, AnnounceRequest(ConnectionId')) /\ AnnounceRequest(ConnectionId') \in Requests
      BY <2>2, <3>1, RequestTypes DEF ConnectReturns
    <3> QED  BY <1>0, <1>1, <2>1, <3>1, <3>2 DEF UTypeOK
  <2>3. CASE Fails(a, response) \/ Succeeds(a, response)
    BY <1>0, <2>1, <2>3 DEF Fails, Succeeds, UTypeOK
  <2> QED  BY <1>2, <2>2, <2>3 DEF Read
<1>3. ASSUME NEW a \in Announcers, Resend(a) PROVE UTypeOK'
  BY <1>0, <1>3 DEF Resend, UTypeOK
<1>4. ASSUME NEW r \in Requests, ServerAnswers(r) PROVE UTypeOK'
  <2>1. Answers(r) \subseteq Responses
    BY RequestTypes DEF Answers, Responses
  <2> QED  BY <1>0, <1>4, <2>1 DEF ServerAnswers, UTypeOK
<1>5. CASE Lose
  BY <1>0, <1>5 DEF Lose, UTypeOK
<1>6. CASE Start \/ StartInterval \/ StartStopped
  <2>1. \E a \in Announcers : Send(a, ConnectRequest)
    BY <1>6 DEF Start, StartInterval, StartStopped, Connect, Announcers
  <2>2. UNCHANGED <<ConnectionId, toClient, resent>>
    BY <1>6 DEF Start, StartInterval, StartStopped
  <2> QED  BY <1>0, <1>1, <2>1, <2>2, RequestTypes DEF UTypeOK
<1>7. CASE NoAddress \/ USelect \/ UQuit \/ UNCHANGED uvars
  BY <1>0, <1>7 DEF NoAddress, USelect, UQuit, netVars, uvars, UTypeOK
<1> QED  BY <1>2, <1>3, <1>4, <1>5, <1>6, <1>7 DEF UNext

\* Announces open and close their requests with the steps of the loop.
LEMMA RequestsOpenStep == UInv /\ [UNext]_uvars => RequestsOpen'
<1> SUFFICES ASSUME UInv, [UNext]_uvars PROVE RequestsOpen'
  OBVIOUS
<1> USE DEF UInv
<1>0. /\ "run" \in Announcers /\ "interval" \in Announcers /\ intervals \in Nat
      /\ DOMAIN request = Announcers
      /\ intervals <= 1 /\ intervals + Cardinality(armed) <= 1 /\ Cardinality(armed) \in Nat
      /\ \A r \in Requests : r # Idle
  BY ArmedFinite, RequestTypes DEF TInv, TypeOK, OneAnnounce, UTypeOK, Announcers
<1>1. ASSUME NEW a \in Announcers, Ends(a, NoSchedule) \/ Ends(a, Outcome),
             request' = [request EXCEPT ![a] = Idle]
      PROVE  RequestsOpen'
  <2>1. CASE a = "run"
    <3>1. UNCHANGED intervals /\ pc' \in {"loop", "done"}
      BY <1>1, <2>1 DEF Ends, StartedEnds, StoppedEnds
    <3> QED  BY <1>0, <1>1, <2>1, <3>1 DEF RequestsOpen
  <2>2. CASE a = "interval"
    <3>1. intervals > 0 /\ intervals' = intervals - 1 /\ pc' = pc
      BY <1>1, <2>2 DEF Ends, IntervalEnds
    <3> QED  BY <1>0, <1>1, <2>2, <3>1 DEF RequestsOpen
  <2> QED  BY <2>1, <2>2 DEF Announcers
<1>2. ASSUME NEW a \in Announcers, NEW response \in Responses, Read(a, response)
      PROVE  RequestsOpen'
  <2>1. CASE ConnectReturns(a, response)
    <3>1. UNCHANGED <<pc, intervals>> /\ request[a] # Idle
      BY <2>1, RequestTypes DEF ConnectReturns, tvars
    <3>2. request' = [request EXCEPT ![a] = AnnounceRequest(ConnectionId')]
      BY <2>1 DEF ConnectReturns, Send
    <3>3. AnnounceRequest(ConnectionId') # Idle
      BY RequestTypes
    <3> QED  BY <1>0, <3>1, <3>2, <3>3 DEF RequestsOpen, Announcers
  <2>2. CASE Fails(a, response) \/ Succeeds(a, response)
    BY <1>1, <2>2 DEF Fails, Succeeds
  <2> QED  BY <1>2, <2>1, <2>2 DEF Read
<1>3. CASE Start
  BY <1>0, <1>3, RequestTypes DEF Start, Connect, Send, RequestsOpen, tvars
<1>4. CASE StartInterval
  <2>1. Cardinality(armed) # 0
    BY <1>4, ArmedFinite, FS_EmptySet DEF StartInterval, TakeTimer, TInv
  <2>2. intervals = 0 /\ intervals' = 1 /\ pc' = "loop" /\ pc = "select"
    BY <1>0, <1>4, <2>1 DEF StartInterval, TakeTimer
  <2> QED  BY <1>0, <1>4, <2>2, RequestTypes DEF StartInterval, Connect, Send, RequestsOpen
<1>5. CASE StartStopped
  BY <1>0, <1>5, RequestTypes DEF StartStopped, TakeQuit, Connect, Send, RequestsOpen
<1>6. CASE NoAddress
  BY <1>6 DEF NoAddress, RunReturns, RequestsOpen
<1>7. CASE USelect \/ UQuit
  BY <1>7 DEF USelect, UQuit, EnterSelect, Quit, RequestsOpen
<1>8. CASE UNCHANGED <<tvars, request>>
  BY <1>8 DEF tvars, RequestsOpen
<1> QED  BY <1>2, <1>3, <1>4, <1>5, <1>6, <1>7, <1>8
         DEF UNext, Resend, ServerAnswers, Lose, uvars

\* As long as IdIssued speaks of a state, at most one request is open.
LEMMA OneRequest ==
  ASSUME UInv, pc \notin {"stopped", "done"},
         NEW a \in Announcers, NEW b \in Announcers, request[a] # Idle, request[b] # Idle
  PROVE  a = b
<1>1. intervals \in Nat /\ Cardinality(armed) \in Nat
  BY ArmedFinite DEF UInv, TInv, TypeOK
<1> QED  BY <1>1 DEF UInv, TInv, RequestsOpen, OneAnnounce, Announcers

\* Without resending, a response is read by the request it answers.
LEMMA OwnPacketsStep == UInv /\ [UNext]_uvars => OwnPackets' /\ IdIssued'
<1> DEFINE Quiet == ~resent /\ pc \notin {"stopped", "done"}
<1> SUFFICES ASSUME UInv, [UNext]_uvars, Quiet' PROVE OwnPackets' /\ IdIssued'
  BY DEF OwnPackets, IdIssued, ResponsesMatch
<1> USE DEF UInv
<1>0. Quiet /\ request \in [Announcers -> Requests \cup {Idle}]
  <2>1. pc \in {"stopped", "done"} => pc' \in {"stopped", "done"}
    <3>1. [Next]_tvars
      BY UdpStep
    <3> QED  BY <3>1 DEF Next, AnnounceEnds, RunStep, StartedEnds, IntervalEnds, StoppedEnds,
                RunReturns, EnterSelect, TakeTimer, TakeQuit, Quit, tvars
  <2>2. resent => resent'
    BY DEF UNext, Start, NoAddress, USelect, StartInterval, StartStopped, UQuit, Resend,
           Read, ServerAnswers, Lose, uvars, netVars
  <2> QED  BY <2>1, <2>2 DEF UTypeOK
<1>1. /\ \A r \in toServer : toClient = {} /\ \E a \in Announcers : request[a] = r
      /\ \A c \in toClient : \E a \in Announcers : request[a].type = c
      /\ \A a \in Announcers : request[a] \in {Idle, ConnectRequest, AnnounceRequest("issued")}
  BY <1>0 DEF OwnPackets, IdIssued, ResponsesMatch
<1>2. ASSUME \A a \in Announcers : request[a] = Idle
      PROVE  toServer = {} /\ toClient = {}
  BY <1>1, <1>2, RequestTypes DEF UTypeOK, Responses
<1>3. ASSUME NEW a \in Announcers, NEW response \in Responses, Read(a, response)
      PROVE  OwnPackets' /\ IdIssued'
  <2>1. response \in toClient /\ toClient' = toClient \ {response} /\ request[a] # Idle
    BY <1>3, RequestTypes DEF Read, ConnectReturns, Fails, Succeeds
  <2>2. \A b \in Announcers \ {a} : request[b] = Idle
    BY <1>0, <2>1, OneRequest
  <2>3. \A c \in toClient : c = request[a].type
    BY <1>1, <2>2, RequestTypes DEF UTypeOK, Responses
  <2>4. toServer = {} /\ toClient' = {} /\ response = request[a].type
    BY <1>1, <2>1, <2>3
  <2>5. CASE ConnectReturns(a, response)
    <3>1. response = "connect"
      BY <2>4, <2>5, RequestTypes DEF ConnectReturns
    <3>2. request' = [request EXCEPT ![a] = AnnounceRequest("issued")]
          /\ toServer' = {AnnounceRequest("issued")}
      BY <2>4, <2>5, <3>1 DEF ConnectReturns, NewId, Send
    <3> QED  BY <1>0, <1>1, <2>4, <3>2 DEF OwnPackets, IdIssued, ResponsesMatch
  <2>6. CASE Fails(a, response) \/ Succeeds(a, response)
    BY <1>0, <1>1, <2>4, <2>6 DEF Fails, Succeeds, OwnPackets, IdIssued, ResponsesMatch
  <2> QED  BY <1>3, <2>5, <2>6 DEF Read
<1>4. ASSUME NEW a \in Announcers, Resend(a) PROVE FALSE
  BY <1>4 DEF Resend
<1>5. ASSUME NEW r \in Requests, ServerAnswers(r) PROVE OwnPackets' /\ IdIssued'
  <2>1. PICK a \in Announcers : request[a] = r
    BY <1>1, <1>5 DEF ServerAnswers
  <2>2. Answers(r) = {r.type}
    BY <1>1, <2>1, RequestTypes DEF Answers
  <2>3. \A s \in toServer : s = r
    <3>1. ASSUME NEW s \in toServer PROVE s = r
      <4>1. PICK b \in Announcers : request[b] = s
        BY <1>1
      <4>2. s # Idle /\ r # Idle
        BY RequestTypes DEF UTypeOK
      <4> QED  BY <1>0, <2>1, <4>1, <4>2, OneRequest
    <3> QED  BY <3>1
  <2>4. toServer' = {} /\ toClient' = {r.type} /\ request' = request
    BY <1>1, <1>5, <2>2, <2>3 DEF ServerAnswers
  <2> QED  BY <1>1, <2>1, <2>4 DEF OwnPackets, IdIssued, ResponsesMatch
<1>6. CASE Lose
  BY <1>1, <1>6 DEF Lose, OwnPackets, IdIssued, ResponsesMatch
<1>7. CASE Start \/ StartInterval
  <2>1. request["run"] = Idle /\ request["interval"] = Idle
    <3>1. CASE Start
      BY <1>0, <3>1, ArmedFinite DEF Start, TInv, TypeOK, OneAnnounce, RequestsOpen
    <3>2. CASE StartInterval
      <4>1. Cardinality(armed) # 0 /\ Cardinality(armed) \in Nat
        BY <3>2, ArmedFinite, FS_EmptySet DEF StartInterval, TakeTimer, TInv
      <4> QED  BY <3>2, <4>1 DEF StartInterval, TakeTimer, TInv, TypeOK, OneAnnounce,
                                 RequestsOpen
    <3> QED  BY <1>7, <3>1, <3>2
  <2>2. toServer = {} /\ toClient = {}
    BY <1>2, <2>1 DEF Announcers
  <2>3. PICK a \in Announcers : Send(a, ConnectRequest)
    BY <1>7 DEF Start, StartInterval, Connect, Announcers
  <2>4. toServer' = {ConnectRequest} /\ request' = [request EXCEPT ![a] = ConnectRequest]
    BY <2>2, <2>3 DEF Send
  <2>5. toClient' = {}
    BY <1>7, <2>2 DEF Start, StartInterval
  <2> QED  BY <1>0, <1>1, <2>4, <2>5 DEF OwnPackets, IdIssued, ResponsesMatch
<1>8. CASE StartStopped \/ NoAddress
  BY <1>8 DEF StartStopped, NoAddress, TakeQuit, RunReturns
<1>9. CASE USelect \/ UQuit \/ UNCHANGED uvars
  BY <1>1, <1>9 DEF USelect, UQuit, uvars, netVars, OwnPackets, IdIssued, ResponsesMatch
<1> QED  BY <1>3, <1>4, <1>5, <1>6, <1>7, <1>8, <1>9 DEF UNext

\* The inductive invariant of the UDP tracker.
THEOREM UdpInvariance == USpec => []UInv
<1>1. UInit => UInv
  <2>1. UInit => TInv
    BY TrackerInvInit DEF UInit
  <2>2. TInv /\ UInit => UTypeOK
    BY DEF TInv, UInit, UTypeOK, Ids
  <2>3. UInit => RequestsOpen /\ OwnPackets /\ IdIssued
    BY DEF UInit, Init, RequestsOpen, OwnPackets, IdIssued, ResponsesMatch, Announcers
  <2> QED  BY <2>1, <2>2, <2>3 DEF UInv
<1>2. UInv /\ [UNext]_uvars => UInv'
  <2>1. UInv /\ [UNext]_uvars => TInv'
    BY UdpStep, TrackerInvStep DEF UInv
  <2> QED  BY <2>1, UTypeStep, RequestsOpenStep, OwnPacketsStep DEF UInv
<1> QED  BY <1>1, <1>2, PTL DEF USpec

\* Every reachable state of the UDP tracker is of the declared types.
THEOREM UdpTypeCorrect == USpec => []UTypeOK
  BY UdpInvariance, PTL DEF UInv

\* As long as nothing was resent and no last announce runs beside a periodic
\* one, the tracker announces only with ids that its server has issued.
THEOREM UdpIdsIssued == USpec => []IdIssued
  BY UdpInvariance, PTL DEF UInv

===============================================================================
