# Tulva: TLA+ specification

Tulva is a BitTorrent client in Go. It is a set of goroutines that own their
state and talk over unbuffered channels. Many sends are made by a goroutine of
their own (`go func() { ch <- m }()`), so that the sender does not block; the
price is that messages can overtake each other. That, and the objects that the
goroutines of one peer share without a lock, is what this project is about.

## The system

| Part | State | Operations | Talks to |
|---|---|---|---|
| Controller (`controller.go`) | finished pieces, registered peers, what each has, whether it chokes us, what it was told to fetch, how many peers fetch each piece | received piece, new peer, dead peer, choke status, have piece, quit | DiskIO, peer manager, peers |
| PeerManager (`peer.go`) | peers by name, their number, seeding flag | peer from a tracker, connection, dead peer, seeding, quit | trackers, server, controller, peers |
| Peer (`peer.go`) | choke and interest flags, both bitfields, PieceDownload objects | Run (requests, cancels, haves, ticker, stop), a reader that starts a goroutine per message, a writer | controller, DiskIO, the remote end |
| DiskIO (`diskio.go`) | the files | verify, write a piece, read a block | peers, controller |
| Server (`server.go`) | listener | accept | peer manager |
| Trackers (`tracker.go`, `httptracker.go`, `udptracker.go`) | announce timer, connection and transaction ids | announce | peer manager |
| Stats, Torrent, main | counters; start and stop | | everyone |

What is hard here, and what correctness means:

* Controller: a counter (`activeRequestsTotals`) is kept beside the sets it
  counts, by four handlers; three handlers hand out requests. Correct: the
  counter is exact, no peer gets too many requests, useless ones, or none
  while there is work, and no assertion of the code fires.
* Controller and its peers: messages of a peer that has died, chokes and
  deaths that overtake each other, requests that arrive after their
  cancellation, a synchronous send in the middle of a handler. Correct: the
  controller survives every order that can happen, no request is lost, only
  what is on disk is announced, and the download completes.
* A peer's block downloads: goroutines share objects and buffers. Correct: the
  counters say what is under way, the window is full but not exceeded, an
  honest remote end is kept, every piece is finished, and what is on disk is
  what was hashed.
* DiskIO: a piece may lie in several files, pieces are written beside each
  other, the process may end in between and start again on what is there.
  Correct: what counts as finished is on disk, Verify finds what is right, a
  block is read from where it lies.
* Trackers: a timer that is replaced by one goroutine while another waits on
  it; UDP packets that are lost, late or repeated. Correct: announces go on,
  one at a time, responses are read by the request they answer, and quit is
  seen.
* A peer and its remote end: bitfield, HAVEs, interest and chokes are sent and
  decoded by independent goroutines. Correct: every piece is announced, only
  pieces we have are, and our interest is known.
* The whole: a download stores pieces, counts what is stored, and is complete
  when all are counted.

## Modules

| Module | Models | Extends |
|---|---|---|
| `Controller` | `controller.go`, with an environment that may send any message at any time | |
| `ControllerProofs` | theorems about it | `Controller` |
| `Swarm` | the controller, the peer manager, the peers as the controller sees them, DiskIO, the remote ends | `Controller` |
| `SwarmProofs` | theorems about it: types, the controller in it, the download it implements | `Swarm`, `ControllerProofs` |
| `SwarmOrderProofs` | theorems about the order of registrations, deaths and chokes | `SwarmProofs` |
| `SwarmRecordProofs` | theorems about requests, lost ones and duplicates | `SwarmOrderProofs` |
| `PieceDownload` | the block downloads of one peer, with the remote end, DiskIO and the controller around it | |
| `PieceDownloadProofs` | theorems about it | `PieceDownload` |
| `Download` | nothing of its own: what a download is, seen from outside; `Swarm` implements it | |
| `Exchange` | what one peer and its remote end tell each other about pieces, interest and chokes, and uploads | |
| `ExchangeProofs` | theorems about it | `Exchange` |
| `Storage` | `diskio.go`, the start in `torrent.go`, `stats.Left`, the block arithmetic of `peer.go` | |
| `StorageProofs` | theorems about it | `Storage` |
| `Tracker` | the loop of `Run` that both kinds of tracker share; the HTTP tracker | |
| `UdpTracker` | the UDP tracker's announces and packets; implements `Tracker` | `Tracker` |
| `TrackerProofs` | theorems about both, and the refinement | `UdpTracker` |
| `MCController`, `MCSwarm`, `MCPieceDownload`, `MCExchange`, `MCStorage` | instances for TLC | |

Operators named `Faulty...` are variants of the operator that follows them with
a mistake one could make in the code. No specification uses them; putting one
in place of its original makes TLC report a violation of a property.

### Controller

`pc` is where `Run` is. Every handler except that of a received piece is one
action, because the goroutine does nothing that others could see before it ends. The
received-piece handler (`ReceivedPiece`, `CancelOther`, `CancelDelivered`,
`CancelsDone`, `RequestsForNextPeer`) blocks once for each CANCEL, so it is a
chain of actions. The maps of `PeerInfo` become functions over all peer names.
The choice of pieces follows the code: `createRaritySlice` gives the slices that
the shuffles allow, the rarest pieces first; `createDownloadPriorityForPeer` sorts
what the peer has of such a slice by `Less`; `FirstRequests` takes what fits. In
the loop after a received piece each peer has a slice of its own, where the code
makes one for all, so equally rare pieces may be shuffled differently for two
peers. `out` holds what the last step sent. The three `log.Fatalf` and the nil pointer are values of `pc`, so
"this cannot happen" is an invariant.

### Swarm

`toController` is the bag of messages whose goroutines wait for the controller.
`chans[n]` is the connection whose channels the controller holds for name `n`,
`inc[n]` the latest connection: a request to an older one is never received. A
peer's `Run` is `waiting` for the first `havePiece`, `running`, `stopping`
(after `Stop`, waiting for the peer manager), or stuck: `Run` calls `Stop`
itself after 120 seconds of silence or when a keepalive or the handshake fails,
and then waits for its own receive (`wedged`, `noHandshake`). A piece is fetched
in one step. A download that was started while the remote end chokes us may finish after the
unchoke here; `PieceDownload` shows that it does not always.

### PieceDownload

`obj` and `downloads` are the objects and the slice of pointers to them. The
goroutines that decode messages are a bag (`arriving`) and, inside
`sendOneOrMoreRequests`, the counters `decoders`. Nothing in the code keeps handlers
apart, and nothing here does: any number of them may be in the loop, each between
reading the total and sending a request. The updates of the two block counters are
not atomic either. `PreemptStore` (`peer.go:570-571`) and `PreemptSend` (`912-914`)
are handlers that have read the counters of an object and are preempted before they
write them back; `torn` holds such a handler and what it read, and `Resume` lets it
go on, each counter computed from what it read or from what is there by then.
`races` counts such preemptions, at most `RaceBudget`, and one handler is preempted
at a time. Everything else in a handler is one step. The first object that satisfies
a test is found by the least index; `moveFinishedPieceDownloadsToEnd` is the set
of sequences that are ordered as the code orders the slice, which has one
element; the total of the outstanding blocks is a sum over all objects, in which
those that are finished or not on the list count 0. All pieces have the same length, which is the
case in which buffers are kept.

### Download

Three variables: the pieces stored, the pieces counted as finished, the
complete flag. `Swarm` maps `disk`, `finishedPieces` and `downloadComplete` to
them.

### Exchange

One connection. `haveSends` are the controller's goroutines that wait for
the peer: the one with the bitfield (the empty set) and HAVEs. The bitfield
goroutine reads the live slice while the peer receives (`controller.go:395`
ranges over `bitfield`, not over `bitfieldCopy`), so what `FinishBitfield`
delivers lies between what was finished when it began and what is finished now.
`sendBitfield` reads `ourBitfield` when its goroutine runs, so it waits in
`outbox` as `makeBitfield` first. A decoder of HAVE or BITFIELD changes
`peerBitfield` in one step and looks at `amInterested` in another (`deciders`);
`Run` looks at it and withdraws our interest in two steps as well. What waits
in `outbox` and `inbox` is a set: a message that waits twice is one. The
remote end follows the protocol and asks for one block of each piece.

### Storage

A file is a sequence of bytes; the right byte at position k of the torrent is
k, so no two bytes are equal. With repeated content `Verify` could also take a shifted piece for
a right one. A hash is right exactly when the bytes are. A peer hands over a piece
by value, right, and only a piece that its blocks cover (`Covered`): that the peer
may fill the buffer again before it is written is the subject of `PieceDownload`
(`buffer_reuse`). Any piece length is allowed, also one that is no multiple of the
block size, since `torrent.go` checks nothing of the kind. `writePiece` is one step per
iteration of its loop over the files; `End` may come between any two. Single
file mode is the list with one file, where the loops over files do the same.
`stats.Left` is the value `Stats` keeps; the trackers have a copy of the
zero `Stats` that nobody updates, so they announce 0 bytes left.

### Tracker and UdpTracker

A timer is a number, `timer` is `tr.timer`, and `held` is the channel that the
select evaluated when it was entered. `completedCh` is nil and nobody sends
statistics to a tracker, so those cases do not exist. In `UdpTracker` a packet
is its kind and, for an announce, where its connection id comes from. All
requests have the same `TransactionId`, so a response is told apart by its
length only: 16 bytes for connect, 20 for announce.

## Runs

Bounds are small, and chosen so that the interesting cases happen: two peers
with the same pieces for the end game and CANCELs, one failure and a
reconnection under the same name, one choke, pieces of more blocks than the
window holds, pieces in several files, three announces (the chain breaks at the second). Budgets (`ConnBudget`,
`ChokeBudget`, `FailBudget`, `CancelBudget`, `MaxGains`, `MaxRepeats`,
`MaxHandovers`, `MaxStarts`, `MaxTimers`, `RaceBudget`) bound events that could go on for
ever; `MaxSlots` bounds the objects of a peer. Deadlock is not checked: `Run`
ends on quit, the process ends on a `log.Fatalf`, and a finished download is a
legal end.

Passing runs:

| Run | Instance | Shows |
|---|---|---|
| `controller` | 3 peers, 3 pieces, limit 2, up to symmetry | `TotalsMatch`, `NoStuckRequests`, `WithinLimit`, `RequestsJustified`, `NoIdlePeer`, `UsefulRequests`, `EndgameOnly` |
| `swarm` | 2 peers, 2 pieces, limit 1, a choke, a failure, up to symmetry | `ImplementsDownload`: the whole is a download; a running peer is registered and its death is reported later, no request is lost, unchokes are reported until the first choke, duplicates are cancelled without chokes and reconnections, a second registration of a name waits only while the death report of the older connection of that name does |
| `swarm_live` | 3 peers and room for two, 2 pieces, no failures, no chokes | the third connection is refused and `numPeers` stays the number of peers, within `maxPeers` (with deaths and reconnections: theorem `PeerCountStaysExact`); the download completes; the controller's received-piece handler ends |
| `piece` | 2 pieces of 3 blocks, window 2, limit 2, one CANCEL, overlapping handlers, up to symmetry | only existing blocks are asked for, the counters are exact, the window is exceeded by at most one block for each handler in the loop and, without a CANCEL, kept full, an honest remote end is kept |
| `piece_live` | 1 piece of 2 blocks, window 1, a choke, a CANCEL and a torn update | handlers return even when the counters are spoilt; the requested piece is finished unless there is a choke, a CANCEL or a torn update |
| `tracker` | `UdpTracker`, 3 timers | `ImplementsTracker`: it does what `Tracker` allows; announces form one chain; only ids that the server issued are used, unless packets were repeated or the last announce runs beside a periodic one; quit is honoured if the server answers what is sent to it again and again |
| `storage` | 6 layouts (a piece in three files, short last pieces and blocks, an empty file, a block in two files, a single file, a piece length that is no multiple of the block size), 2 writers, 3 starts | finished pieces are intact across crashes; `Verify` is exact once all files have their length; blocks that lie in one file are served right, others end the process but are never wrong; `stats.Left` is exact unless a piece is written twice or the short last piece was found at the start; requested blocks lie in the piece one after the other, and reach its end exactly when the piece is a shorter last one or its length is a multiple of the block size; a block is empty exactly in a shorter last piece of whole blocks |
| `exchange` | 2 pieces, one that the remote end gets from others, one that we get twice | every finished piece is announced or about to be; only finished pieces are announced and read; until we withdraw it, our interest reaches the remote end |

Violations. Each states what a comment or message of the code says, and TLC
shows that the code does something else:

| Run | What happens |
|---|---|
| `late_message` | A message of a dead peer makes the controller's `Run` return (`controller.go:521`, `558`); the report of a piece whose peer died while it was written makes it read a nil pointer (`194`). |
| `cancel_blocks` | A CANCEL for a peer that no longer receives blocks the controller (`controller.go:217`). |
| `buffer_reuse` | The buffer of a piece is filled with the next one before it is written: wrong data on disk (`peer.go:589`, `1090`). |
| `announce_stops` | After the first interval the select waits on the old timer's channel while the goroutine stores a new one in `tr.timer`: no announce ever again (`httptracker.go:92-102`, `udptracker.go:294-304`). |

A property of a passing run that has a condition ("without chokes", "until an update
is torn") excludes a case that can happen. The statement without the condition is
defined beside it, and TLC refutes it with the instance named here
(`tlc -config MCSwarmDuplicate.cfg MCSwarm`, and so on):

| Statement | Config, module | What happens |
|---|---|---|
| `NoDuplicatePeer` | `MCSwarmDuplicate.cfg`, `MCSwarm` | A peer reconnects; its new connection is reported before the old one's death: `log.Fatalf` at `controller.go:483`, "should never happen" (`481`). |
| `ChokeAgrees` | `MCSwarmChoke.cfg`, `MCSwarm` | The reports of a choke and of the unchoke before or after it change places: the controller keeps the wrong state (`peer.go:454`, `470`). |
| `FinishedNotRequested` | `MCSwarmLateReport.cfg`, `MCSwarm` | A choke is handled before the report of a piece: the other peer goes on fetching it (`controller.go:226`). |
| `FinishedNotRequested` | `MCSwarmReconnect.cfg`, `MCSwarm` | The report of a piece comes after its peer has died and registered again: the test looks at the new record, the other peer is not cancelled (`controller.go:194`). |
| `DownloadsWithinLimit` | `MCSwarmDownloads.cfg`, `MCSwarm` | A request is delivered after its CANCEL: more downloads than the limit (`controller.go:372`). |
| `WindowRespected` | `MCPieceWindow.cfg`, `MCPieceDownload` | Two handlers both read the total before either adds its request: `log.Fatalf` at `peer.go:904`. |
| `NoneStranded` | `MCPieceCancel.cfg`, `MCPieceDownload` | A CANCEL of the piece whose blocks fill the window: its blocks are dropped when they come, and the other piece never gets a request (`peer.go:1008`). |
| `NoneStranded` | `MCPieceChoke.cfg`, `MCPieceDownload` | A request taken after a choke fills the window with blocks that the remote end drops: they stay counted for ever (`peer.go:1051`). |
| `HonestPeer` | `MCPieceChokeHash.cfg`, `MCPieceDownload` | Blocks asked for before a choke arrive when the piece is asked for again: one is counted twice, an honest peer fails the hash (`peer.go:450`). |
| `HonestPeer` | `MCPieceRaceHash.cfg`, `MCPieceDownload` | `Run` is preempted between computing the block number and counting the request; a decoder asks for the same block: it is counted twice, an honest peer fails the hash (`peer.go:912`). |
| `VerifyExact` | `MCStorageVerify.cfg`, `MCStorage` | A file that is still short shifts what `Verify` reads after it: a piece that is on disk is forgotten at a restart, against `diskio.go:40-41` (`63-81`). |
| `LeftRight` | `MCStorageLeft.cfg`, `MCStorage` | A short last piece found at the start is subtracted as a whole one; a piece written twice is subtracted twice (`torrent.go:131`, `stats.go:46`). |
| `NoEmptyBlock` | `MCStorageEmptyBlock.cfg`, `MCStorage` | A short last piece of whole blocks gets one block more, of length 0; its answer would end the process at `peer.go:541` (`884`). |
| `BlocksCover` | `MCStorageCover.cfg`, `MCStorage` | With a piece length that is no multiple of the block size the end of a piece is never requested (`peer.go:882`, `888`): it cannot pass the hash. |
| `InterestFollows` | `MCExchangeInterest.cfg`, `MCExchange` | `Run` withdraws our interest after a decoder has added a piece we need and found that we are interested (`peer.go:1072`). |
| `OneHave` | `MCExchangeOneHave.cfg`, `MCExchange` | A HAVE overtakes the bitfield: the batch that is sent as HAVEs is the whole bitfield, against the comment at `peer.go:1066`. |
| `ResponsesMatch` | `MCTrackerResponses.cfg`, `UdpTracker` | The second answer to a packet that was sent twice is read by a later request: the next announce uses an id that was never issued (`udptracker.go:254`). |

Fairness. `SFairSpec`: every goroutine
that can go on does, which the Go scheduler gives, and remote ends unchoke us,
announce what they have and send what is asked for, without which no client
could complete a download; nothing is assumed about connections being made.
`PFairSpec`: the same for one peer. Weak fairness is enough there because
nothing that is enabled in these runs is disabled again by a competitor for ever.
`UFairSpec`: `Run` is scheduled, timeouts expire, and a packet that is sent
again and again gets through (strong fairness of the server's answer and of the
read, because packets may be lost in between); select chooses among
ready cases at random, so quit is taken (strong fairness) although the timer
may be ready again and again. `FairSpec` (`announce_stops`): the same for the loop, and every HTTP
request is answered or fails.

## Proofs

The theorems hold for every value of the constants that the `ASSUME` of each
module allows: finite sets of peers and pieces of any size, any limit, window
and number of blocks, any list of files and piece length, any number of timers, any budget. TLC evaluates the
assumptions in every run.

### Controller

`ControllerProofs` proves `Spec => []IInv` and from it the invariants of run
`controller` and the two action properties. `TotalsMatch` is not inductive
alone: that removing a peer's work leaves no negative total needs `TotalsMatch`
for all pieces together with the types; that the received-piece handler
finds a total of zero (`NoStuckRequests`) needs `TotalsMatch` and that the loop
has dropped every request; `EndgameOnly` needs `TotalsMatch` before the step,
because the sort compares counters while the property speaks of who fetches what,
and that a step that hands out requests takes none away; `NoIdlePeer` needs `PhaseOK`, which says what `piece`, `blockedOn`
and `todo` mean at each point of `Run`, that a name that is not registered
holds the values of `NewPeerInfo`, and that `downloadComplete` means what it says. One lemma per helper
(`SendsRequests`, `DropsRequest`, `RemovesWork`, `StartsRequests`) says how it
changes the sets and the counter, and one lemma per action uses them.

### Swarm

`SwarmProofs` proves that every step of the whole system is a step of the
controller or leaves it alone (`SwarmStep`), so `SSpec => Spec`: everything
proved about the controller in an open environment holds among its peers. It
proves `SSpec => []SIInv` and from it the types, the exact peer count and that
finished pieces are on disk. `SIInv` adds to these that `Run` is active only for a
peer the manager knows (a death is then counted once) and that a report
under way is about a piece on disk. `SwarmIsADownload` shows with it that the
whole system implements `Download` under the refinement mapping: `DownloadStep` goes through the
actions that touch `disk`, `finishedPieces` or the flag, and needs `SIInv` for
"only stored pieces are counted" and the controller's invariant for "complete exactly
when all are counted".

`SwarmOrderProofs` follows newPeer and deadPeer messages. `Registration` says,
for each name, that a registration waits at most once and only while `Run` of the
latest connection waits for it, and that a death report waits at most once and
only while the controller still holds the channels of the connection that died.
`RunningRegistered` and `DuplicateNeedsReconnect` (both messages are of the same name, and
the controller holds the channels of the older connection) follow; without the counts
"at most once" neither is inductive, because the step that receives one copy
would leave another one behind. `UnchokesReported` needs that, until the
first choke, no choke report waits and a peer that waits for its registration is choked.

`SwarmRecordProofs` proves `NoLostRequest`. Each request on record is
`Carried`: it is in the channel, being fetched, being written or reported, or a choke
or death report that clears the record waits, or its peer is stuck. The part that
had to be added is `CancelAfterDrop`: while the controller is blocked on a
CANCEL, the record of that peer is gone already, so the CANCEL takes nothing away that is
on record. `DuplicatesCancelled` is proved without chokes and reconnections
(`Accounted`, the converse of `Carried`, and `Cancelling`, which says where the handler
is). The condition was found by the proof: in an earlier form the property
excluded chokes only, but a report that arrives after its peer has died and
registered again finds a new record without the piece, and the handler then cancels nothing
(`controller.go:194`). `MCSwarmReconnect.cfg` shows it.

### PieceDownload

`PieceDownloadProofs` is about behaviours up to the first torn update (`Unraced`).
`UnracedStep` shows that a step before and after which nothing has been torn is a
`WholeStep`; the three layers below are preserved by those, with any overlap of
handlers. What a torn update does is left to TLC (`MCPieceRaceHash.cfg`, run `piece_live`).

* `TypeInv`: types, that `received + outstanding` lies between 0 and the number of
  blocks, that an unfinished download of a live peer is incomplete, and that the
  objects of the list are the first ones (a new one is then not on it). The type
  invariant alone is not inductive: a count of blocks received would leave its range
  without the bound on the sum. It holds whatever chokes and overlapping
  handlers do, so no block beyond the end of a piece is ever asked for
  (`PieceTypeCorrect`).
* `AccountInv`: as long as nobody has choked us, no choke is under way, every piece is
  requested once, and nobody downloads it and no block of it moves until the
  request is taken (`Fresh`); each piece has one current download (`OnePerPiece`);
  and what is under way is what the counters say (`Accounted`). `BlocksAccounted`
  needs the other two: an object that is used again while blocks of a cancelled
  piece are under way is right because that piece is never requested again.
  `HonestPeerKept` follows in `LastBlockRight`: the last block is the only one
  under way, and all others are in the buffer.
* The window. `WindowFilled` is inductive on top of `TypeInv`: a download starts
  together with the loop, and the loop ends when the window is full or nothing
  is left. `WindowBounded` says by how much the window can be exceeded: a handler
  enters the send only after it has seen room, and one that sees none leaves, so the
  total and the handlers about to send are at most the window plus the handlers in the
  loop; a handler that sees more than the window ends the process. It needs
  `AccountInv`, so that a download that ends does not make the total grow. That the
  window is never exceeded is not true (`MCPieceWindow.cfg`).

The total of the outstanding blocks is a
recursive function; what it computes is proved by induction, from the
well-foundedness of < on the numbers and an explicit set of those for
which the claim holds (`Induction`, `PartialSums`, `SumChange`), because the induction rule that
takes an operator cannot be used.

### Exchange

`ExchangeProofs` proves `ESpec => []EInv`. `PiecesAnnounced` is inductive with
the types. `RequestsServable` is not: a piece that the remote end is told of must have been
finished when it was still in the controller's goroutine, in `ourBitfield` or in a message,
which is `OnlyFinished`. `InterestShown` needs `InterestKept`: until we withdraw,
an interest that we have taken has been told or is about to be, and no message takes
it back.

### Trackers

`TrackerProofs` proves for the loop that the announces form one chain
(`OneAnnounce`, inductive with the types, by a lemma on how an announce that ends
changes the number of timers), and for the UDP tracker that every step is one of the loop or invisible
(`UdpIsATracker`), so the chain carries over by refinement. `IdIssued` needs that a request is open
exactly as long as its `Announce` runs (`RequestsOpen`) and that the only packet on its way
belongs to it (`OwnPackets`).

### Storage

`StorageProofs` proves all properties of run `storage` for any list of file lengths
(empty files too), any piece length and block size, and any
number of goroutines, hand-overs and restarts.

* Places. `FileStart` is a recursive function; `Recurrence` and `InductionUpTo`,
  which rest on the well-foundedness of < on the numbers, show that it adds up the
  lengths (`FileStarts`). So files lie one after the other and each position of the
  torrent is in one of them (`OneFile`, `SameFile`).
* `DiskInv`, the inductive invariant: a file holds at each place the right byte or a
  hole (`GoodFile`); what a goroutine still has to write is the rest of its piece, from
  the offset it has reached, and everything before that is on disk (`GoodWriter`);
  finished pieces are right on disk. `FinishedIntact` is not inductive alone. A write
  must be known to put right bytes in their place, so that it spoils nothing that
  another goroutine has written (`DiskWrite`). And a start after a crash takes
  what `Verify` finds, which reads a stream in which the bytes of a file that is too
  short are missing and all later ones are shifted: that a piece found there is right
  where it belongs needs that every byte of every file is right or a hole
  (`StreamByte`, `VerifyRight`).
* `VerifyExactFull`: if no file is too short, the stream is the torrent (`FullStream`),
  so nothing is forgotten either.
* `BlocksServed` follows the loop over the files to the one where it stops
  (`StopFile`); `BlocksTile` is division with remainder: rounding down loses the end of a piece
  unless nothing remains or, for a shorter last piece, one block is added.
* `LeftExact` needs `LeftInv`: if no piece was handed over twice in this session,
  each goroutine has a piece of its own, and `left` counts the bytes of all pieces that
  are neither found at the start nor subtracted by their goroutine (`Account`).

`Idle` stands for a goroutine that does not exist; the proofs assume only that it is
not the record of one that does.

### Only model-checked

* `HandlerTerminates`, `DownloadCompletes`, `HandlersReturn`,
  `PiecesFinishUndisturbed` and `QuitHonoured`: liveness is out of the prover's reach.

Every other property of the passing runs is a theorem.

## Not modelled

* The wire format (handshake, framing, bitfield packing), the parsing of torrent files and
  tracker responses, the command line and logging: functions of bytes without
  state. The models exchange decoded messages.
* The shutdown: on quit the peer manager returns while its peers wait to report
  their death to it, but the process ends a second later (`torrent.go:176`). Only
  what a tracker does about it is modelled.
* More than one torn update of the block counters at a time, and torn updates of
  anything else (the list of downloads, the flags of a peer).
* The counters `Downloaded` and `Uploaded` of `Stats`, which add up the
  cumulative counters of each peer every second and are read by nobody.

## Plan

1. Done: `Controller`, `Swarm`, `PieceDownload`, `Tracker`, `UdpTracker`,
   `Storage`, `Exchange`, `Download` and the proofs above.
2. What remains are the liveness properties and the effects of torn updates, which
   stay with TLC.
