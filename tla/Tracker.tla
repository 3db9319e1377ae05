-------------------------------- MODULE Tracker --------------------------------
(***************************************************************************)
(* One tracker: the loop of Run, which httptracker.go and udptracker.go    *)
(* share word for word, and Announce as far as the loop can see it.  The   *)
(* HTTP tracker is this module; module UdpTracker adds the packets.        *)
(*                                                                         *)
(* An Announce ends with or without a new timer in tr.timer.  The          *)
(* announces at the start and at the end are made by Run itself, the       *)
(* periodic ones by goroutines.  Each time.After is a new channel, named   *)
(* by a number; 0 is the channel that never delivers.  A select holds the  *)
(* channel that tr.timer had when it was entered.                          *)
(*                                                                         *)
(* completedCh is nil and nobody sends on the stats channel, so these two  *)
(* cases are never taken.                                                  *)
(*                                                                         *)
(* Operators named Faulty... are variants with a plausible mistake that    *)
(* the specification does not use.                                         *)
(***************************************************************************)
EXTENDS Naturals, FiniteSets

CONSTANT MaxTimers  \* bound: calls of time.After

ASSUME TrackerAssumption == MaxTimers \in Nat

VARIABLES
  pc,        \* where Run is
  timer,     \* tr.timer
  held,      \* the timer channel that the select waits on
  armed,     \* timers that have not delivered yet
  made,      \* how many timers have been made
  intervals, \* Announce(Interval) goroutines that are running
  quit       \* tr.quit is closed

tvars == <<pc, timer, held, armed, made, intervals, quit>>

Timers == 1 .. MaxTimers

-----------------------------------------------------------------------------
(* How an Announce ends.                                                   *)

\* The answer has an interval: the next announce is scheduled.
Schedule ==
  /\ made < MaxTimers
  /\ made' = made + 1
  /\ timer' = made'
  /\ armed' = armed \cup {made'}

\* No answer, no interval, or the event is Stopped.
NoSchedule == UNCHANGED <<timer, armed, made>>

Outcome == Schedule \/ NoSchedule

StartedEnds(outcome) ==
  /\ pc = "started"
  /\ pc' = "loop"
  /\ outcome
  /\ UNCHANGED <<held, intervals, quit>>

IntervalEnds(outcome) ==
  /\ intervals > 0
  /\ intervals' = intervals - 1
  /\ outcome
  /\ UNCHANGED <<pc, held, quit>>

StoppedEnds ==
  /\ pc = "stopped"
  /\ pc' = "done"
  /\ NoSchedule
  /\ UNCHANGED <<held, intervals, quit>>

-----------------------------------------------------------------------------
(* Run.                                                                    *)

\* The UDP tracker's host has no address, or there is no port for it.
RunReturns ==
  /\ pc = "started"
  /\ pc' = "done"
  /\ NoSchedule
  /\ UNCHANGED <<held, intervals, quit>>

EnterSelect ==
  /\ pc = "loop"
  /\ pc' = "select"
  /\ held' = timer
  /\ UNCHANGED <<timer, armed, made, intervals, quit>>

FaultyTakeTimer ==  \* a ticker instead of a timer
  /\ pc = "select"
  /\ held \in armed
  /\ intervals' = intervals + 1
  /\ pc' = "loop"
  /\ UNCHANGED <<timer, held, armed, made, quit>>

TakeTimer ==
  /\ pc = "select"
  /\ held \in armed
  /\ armed' = armed \ {held}
  /\ intervals' = intervals + 1
  /\ pc' = "loop"
  /\ UNCHANGED <<timer, held, made, quit>>

TakeQuit ==
  /\ pc = "select"
  /\ quit
  /\ pc' = "stopped"
  /\ UNCHANGED <<timer, held, armed, made, intervals, quit>>

\* Torrent.Run closes trackerManager.quit.
Quit ==
  /\ ~quit
  /\ quit' = TRUE
  /\ UNCHANGED <<pc, timer, held, armed, made, intervals>>

-----------------------------------------------------------------------------

Init ==
  /\ pc = "started"
  /\ timer = 0 /\ held = 0 /\ armed = {} /\ made = 0
  /\ intervals = 0
  /\ quit = FALSE

RunStep == EnterSelect \/ TakeTimer \/ TakeQuit

AnnounceEnds == StartedEnds(Outcome) \/ IntervalEnds(Outcome) \/ StoppedEnds

Next == AnnounceEnds \/ RunReturns \/ RunStep \/ Quit

Spec == Init /\ [][Next]_tvars

\* Run is scheduled and select is fair to its cases.
RunFairness == WF_tvars(EnterSelect) /\ WF_tvars(TakeTimer) /\ SF_tvars(TakeQuit)

\* Every HTTP request is answered or fails.
FairSpec ==
  /\ Spec
  /\ RunFairness
  /\ WF_tvars(StartedEnds(Outcome)) /\ WF_tvars(IntervalEnds(Outcome)) /\ WF_tvars(StoppedEnds)

-----------------------------------------------------------------------------
(* Properties.                                                             *)

TypeOK ==
  /\ pc \in {"started", "loop", "select", "stopped", "done"}
  /\ timer \in {0} \cup Timers /\ held \in {0} \cup Timers
  /\ armed \subseteq Timers
  /\ made \in 0 .. MaxTimers
  /\ intervals \in Nat
  /\ quit \in BOOLEAN

\* The announces of one tracker form a single chain: at any time there is at
\* most one that is running (not counting the last one) or scheduled, although
\* the periodic ones are goroutines that nobody waits for and that write
\* tr.timer without a lock.
OneAnnounce ==
  intervals + Cardinality(armed) + (IF pc = "started" THEN 1 ELSE 0) <= 1

\* Run sees that tr.quit is closed and returns.
QuitHonoured == quit ~> pc = "done"

-----------------------------------------------------------------------------
(* Statement of the code's comments.                                       *)

\* "Schedule a timer to poll this announce URL every interval": a timer that
\* is scheduled leads to an announce, unless the program is shutting down.
EveryInterval == \A t \in Timers : t \in armed ~> t \notin armed \/ quit

===============================================================================
