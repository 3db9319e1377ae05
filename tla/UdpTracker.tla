------------------------------ MODULE UdpTracker ------------------------------
(***************************************************************************)
(* Announce of the UDP tracker (src/udptracker.go), with the packets       *)
(* between it and the server.                                              *)
(*                                                                         *)
(* An Announce makes two requests one after the other, connect and         *)
(* announce.  A request sends its packet until some packet arrives on the  *)
(* socket.  All requests of a tracker share the socket and one             *)
(* TransactionId, so any response will do, and what it is taken for        *)
(* depends on its length: connect wants 16 bytes, announce 20.  A connect  *)
(* response has 16 bytes, an announce response at least 20, an error       *)
(* response as many as its message needs.                                  *)
(*                                                                         *)
(* Packets may be lost, delayed and reordered, and are sent again, so a    *)
(* response may come late.  A set of packets is enough: what is resent may *)
(* be there while the answer to the first one is read.                     *)
(***************************************************************************)
EXTENDS Tracker

VARIABLES
  request,      \* what each Announce is waiting for
  ConnectionId, \* tr.ConnectionId
  toServer,     \* packets on their way to the server
  toClient,     \* packets on their way to the socket
  resent        \* has any packet been sent more than once?

netVars == <<toServer, toClient, resent>>
uvars   == <<tvars, request, ConnectionId, netVars>>

\* The Announce made by Run itself, and a periodic one.
Announcers == {"run", "interval"}

\* The server issued it; it is what two fields of an announce response happen
\* to spell; tr.ConnectionId before the first connect.
Ids == {"issued", "misread", "zero"}

Idle == [type |-> "none"]
ConnectRequest == [type |-> "connect"]
AnnounceRequest(id) == [type |-> "announce", id |-> id]
Requests == {ConnectRequest} \cup {AnnounceRequest(id) : id \in Ids}

Responses == {"connect", "announce", "shortError", "error"}

-----------------------------------------------------------------------------
(* The server: an announce needs an id that it has issued.                 *)

Answers(r) ==
  IF r = ConnectRequest \/ r = AnnounceRequest("issued") THEN {r.type}
  ELSE {"shortError", "error"}

ServerAnswers(r) ==
  /\ r \in toServer
  /\ toServer' = toServer \ {r}
  /\ \E answer \in Answers(r) : toClient' = toClient \cup {answer}
  /\ UNCHANGED <<tvars, request, ConnectionId, resent>>

Lose ==
  /\ \/ \E r \in toServer : toServer' = toServer \ {r} /\ UNCHANGED toClient
     \/ \E r \in toClient : toClient' = toClient \ {r} /\ UNCHANGED toServer
  /\ UNCHANGED <<tvars, request, ConnectionId, resent>>

-----------------------------------------------------------------------------
(* request: the packet is sent at once and after every timeout.            *)

Send(a, r) ==
  /\ request' = [request EXCEPT ![a] = r]
  /\ toServer' = toServer \cup {r}

FaultyResend(a) ==  \* gives up after the first timeout
  /\ request[a] # Idle /\ ~resent
  /\ toServer' = toServer \cup {request[a]}
  /\ resent' = TRUE
  /\ UNCHANGED <<tvars, request, ConnectionId, toClient>>

Resend(a) ==
  /\ request[a] # Idle
  /\ toServer' = toServer \cup {request[a]}
  /\ resent' = TRUE
  /\ UNCHANGED <<tvars, request, ConnectionId, toClient>>

-----------------------------------------------------------------------------
(* Announce.                                                               *)

FaultyConnect(a) ==  \* announces without a connection
  Send(a, AnnounceRequest("initial"))

Connect(a) == Send(a, ConnectRequest)

FaultyNewId(response) ==  \* keeps the id of the last connection
  CASE response = "connect"  -> ConnectionId
    [] response = "announce" -> "misread"
    [] response = "error"    -> ConnectionId

\* connect: what the response makes of tr.ConnectionId.  An announce response
\* is long enough and has the right TransactionId.  An error response leaves
\* the id alone, but connect returns no error.
NewId(response) ==
  CASE response = "connect"  -> "issued"
    [] response = "announce" -> "misread"
    [] response = "error"    -> ConnectionId

ConnectReturns(a, response) ==
  /\ request[a] = ConnectRequest
  /\ response # "shortError"
  /\ ConnectionId' = NewId(response)
  /\ Send(a, AnnounceRequest(ConnectionId'))
  /\ UNCHANGED tvars

FaultyEnds(a, outcome) ==  \* schedules an announce after the last one
  \/ a = "run" /\ pc = "stopped" /\ Schedule /\ pc' = "done"
     /\ UNCHANGED <<held, intervals, quit>>
  \/ a = "run" /\ StartedEnds(outcome)
  \/ a = "interval" /\ IntervalEnds(outcome)

\* Announce returns to its caller.
Ends(a, outcome) ==
  \/ a = "run" /\ StartedEnds(outcome)
  \/ a = "run" /\ StoppedEnds
  \/ a = "interval" /\ IntervalEnds(outcome)

\* A response that is too short for connect, or for the announce response that
\* is expected: a late connect response is one.
Fails(a, response) ==
  /\ \/ request[a] = ConnectRequest /\ response = "shortError"
     \/ request[a].type = "announce" /\ response \in {"shortError", "connect"}
  /\ Ends(a, NoSchedule)
  /\ request' = [request EXCEPT ![a] = Idle]
  /\ UNCHANGED <<ConnectionId, toServer>>

\* An announce response, or an error whose text is taken for one.  There is
\* no new timer if the interval in it is 0.
Succeeds(a, response) ==
  /\ request[a].type = "announce"
  /\ response \in {"announce", "error"}
  /\ Ends(a, Outcome)
  /\ request' = [request EXCEPT ![a] = Idle]
  /\ UNCHANGED <<ConnectionId, toServer>>

\* ReadFrom returns a packet to one of the requests that wait for one.
Read(a, response) ==
  /\ response \in toClient
  /\ toClient' = toClient \ {response}
  /\ \/ ConnectReturns(a, response)
     \/ Fails(a, response)
     \/ Succeeds(a, response)
  /\ UNCHANGED resent

-----------------------------------------------------------------------------
(* Run: the announces start when Run calls them.                           *)

UInit ==
  /\ Init
  /\ request = [a \in Announcers |-> Idle]
  /\ ConnectionId = "zero"
  /\ toServer = {} /\ toClient = {} /\ resent = FALSE

\* Run has an address and a socket: the first announce begins.
Start ==
  /\ pc = "started" /\ request["run"] = Idle
  /\ Connect("run")
  /\ UNCHANGED <<tvars, ConnectionId, toClient, resent>>

NoAddress ==
  /\ request["run"] = Idle
  /\ RunReturns
  /\ UNCHANGED <<request, ConnectionId, netVars>>

StartInterval ==
  /\ TakeTimer
  /\ Connect("interval")
  /\ UNCHANGED <<ConnectionId, toClient, resent>>

StartStopped ==
  /\ TakeQuit
  /\ Connect("run")
  /\ UNCHANGED <<ConnectionId, toClient, resent>>

USelect == EnterSelect /\ UNCHANGED <<request, ConnectionId, netVars>>
UQuit   == Quit /\ UNCHANGED <<request, ConnectionId, netVars>>

UNext ==
  \/ Start \/ NoAddress \/ USelect \/ StartInterval \/ StartStopped \/ UQuit
  \/ \E a \in Announcers : Resend(a)
  \/ \E a \in Announcers, response \in Responses : Read(a, response)
  \/ \E r \in Requests : ServerAnswers(r)
  \/ Lose

USpec == UInit /\ [][UNext]_uvars

\* Timeouts expire, select is fair, and a packet that is sent again and again
\* gets through.
UFairSpec ==
  /\ USpec
  /\ WF_uvars(Start) /\ WF_uvars(USelect) /\ WF_uvars(StartInterval)
  /\ SF_uvars(StartStopped)
  /\ \A a \in Announcers :
       WF_uvars(Resend(a)) /\ SF_uvars(\E response \in Responses : Read(a, response))
  /\ \A r \in Requests : SF_uvars(ServerAnswers(r))

-----------------------------------------------------------------------------
(* Properties.                                                             *)

UTypeOK ==
  /\ TypeOK
  /\ request \in [Announcers -> Requests \cup {Idle}]
  /\ ConnectionId \in Ids
  /\ toServer \subseteq Requests /\ toClient \subseteq Responses
  /\ resent \in BOOLEAN

\* The UDP tracker is a tracker: whatever becomes of its packets, its announces
\* begin and end as module Tracker says, and none is scheduled after the last.
ImplementsTracker == Spec

\* "Send a udp packet to the tracker, fill in the dest buffer with the response":
\* the response that a request gets is the answer to it, so that every announce is
\* made with an id that the server has issued.
ResponsesMatch ==
  \A a \in Announcers : request[a] \in {Idle, ConnectRequest, AnnounceRequest("issued")}

\* As long as nothing had to be sent twice and the last announce has not begun
\* beside a periodic one, responses are read by the request they answer, and
\* only ids that the server has issued are used.
IdIssued == ~resent /\ pc \notin {"stopped", "done"} => ResponsesMatch

===============================================================================
