----------------------------- MODULE AsyncLogger -----------------------------
(***************************************************************************)
(* The asynchronous logger of include/utils/Logger.hpp: an application     *)
(* thread logs into the ring and may flush or destroy the logger; a writer *)
(* thread takes the messages out, formats and writes them.  Every step of  *)
(* a ring operation, and of the empty() that flush and the writer's loop   *)
(* call, is a step here too, with loads as stale as in SPSCQueue.          *)
(*                                                                         *)
(* A message below the minimum level, or one that finds the ring full,     *)
(* changes nothing; a message that is accepted is an element of the ring.  *)
(***************************************************************************)
EXTENDS SPSCQueueObserver

VARIABLES
  running,   (* The atomic flag the destructor clears. *)
  apc,       (* Application: "run", "flushing", "flushed", "joining", "closed". *)
  wpc,       (* Writer: "loop", "asking", "pop", "write", "ended". *)
  written    (* The messages written to stdout and the file, in order. *)

loggerVars == <<running, apc, wpc, written>>
lvars == <<ovars, loggerVars>>

InitLogger ==
  /\ InitObserver
  /\ running = TRUE
  /\ apc = "run"
  /\ wpc = "loop"
  /\ written = <<>>

-----------------------------------------------------------------------------
(* The application thread. *)

(* log(): the level is checked, the message built and pushed. *)
Log ==
  /\ apc = "run"
  /\ \/ \E v \in Values : PushCall(v, FALSE)
     \/ PushFull
     \/ PushRoom
     \/ PushConstruct
     \/ PushPublish
  /\ UNCHANGED <<callVars, loggerVars>>

(* flush(): wait for the ring to be empty, then flush the two streams. *)
Flush ==
  /\ apc = "run"
  /\ ppc = "idle"
  /\ ObserveCall("producer")
  /\ apc' = "flushing"
  /\ UNCHANGED <<vars, running, wpc, written>>

FlushLoads ==
  /\ apc = "flushing"
  /\ ObserveHead("producer") \/ ObserveTail("producer")
  /\ UNCHANGED loggerVars

(* Mutant: flush asks once instead of waiting. *)
FlushAskedOnce ==
  /\ apc = "flushing"
  /\ opc["producer"] = "returned"
  /\ apc' = "flushed"
  /\ UNCHANGED <<ovars, running, wpc, written>>

(* Mutant: the loop compares the indices it loaded once, before it. *)
FlushAskedCached ==
  /\ apc = "flushing"
  /\ opc["producer"] = "returned"
  /\ apc' = IF size["producer"] = 0 THEN "flushed" ELSE "flushing"
  /\ UNCHANGED <<ovars, running, wpc, written>>

FlushAsked ==
  /\ apc = "flushing"
  /\ opc["producer"] = "returned"
  /\ IF size["producer"] = 0
       THEN apc' = "flushed" /\ UNCHANGED callVars
       ELSE ObserveCall("producer") /\ UNCHANGED apc
  /\ UNCHANGED <<vars, running, wpc, written>>

FlushReturns ==
  /\ apc = "flushed"
  /\ ObserveReturn("producer")
  /\ apc' = "run"
  /\ UNCHANGED <<vars, running, wpc, written>>

(* The destructor, called by the thread that logged, or by one that has    *)
(* waited for it: clear the flag (a release store), ...                    *)
Destroy ==
  /\ apc = "run"
  /\ ppc = "idle"
  /\ running' = FALSE
  /\ apc' = "joining"
  /\ UNCHANGED <<ovars, wpc, written>>

(* Mutant: the writer is not joined before the drain. *)
JoinAndDrainUnjoined ==
  /\ apc = "joining"
  /\ head' = tail
  /\ taken' = accepted
  /\ written' = written \o SubSeq(accepted, Len(taken) + 1, Len(accepted))
  /\ apc' = "closed"
  /\ UNCHANGED <<tail, slots, producerVars, consumerVars, accepted, callVars, running, wpc>>

(* ... join the writer, and drain the ring, which only this thread uses now. *)
JoinAndDrain ==
  /\ apc = "joining"
  /\ wpc = "ended"
  /\ head' = tail
  /\ slots' = [i \in Index |-> Raw]
  /\ tailSeen' = tail
  /\ taken' = accepted
  /\ written' = written \o SubSeq(accepted, Len(taken) + 1, Len(accepted))
  /\ apc' = "closed"
  /\ UNCHANGED <<tail, producerVars, cpc, popping, popWaits, peeked, accepted,
                 callVars, running, wpc>>

-----------------------------------------------------------------------------
(* The writer thread: while (running || !empty()) pop and write, or sleep. *)

(* The load of the flag finds it set, or does not see it cleared yet. *)
LoopRuns ==
  /\ wpc = "loop"
  /\ PopCall(FALSE)
  /\ wpc' = "pop"
  /\ UNCHANGED <<callVars, running, apc, written>>

(* Mutant: a relaxed load of the flag orders nothing. *)
LoopStopsRelaxed ==
  /\ wpc = "loop"
  /\ ~running
  /\ ObserveCall("consumer")
  /\ wpc' = "asking"
  /\ UNCHANGED <<vars, running, apc, written>>

(* The acquire load of the cleared flag makes every push before the        *)
(* destructor visible: this thread can load no older tail from now on.     *)
LoopStops ==
  /\ wpc = "loop"
  /\ ~running
  /\ tailSeen' = tail
  /\ ObserveCall("consumer")
  /\ wpc' = "asking"
  /\ UNCHANGED <<tail, head, slots, producerVars, cpc, popping, popWaits, peeked,
                 accepted, taken, running, apc, written>>

LoopLoads ==
  /\ wpc = "asking"
  /\ ObserveHead("consumer") \/ ObserveTail("consumer")
  /\ UNCHANGED loggerVars

LoopAsked ==
  /\ wpc = "asking"
  /\ ObserveReturn("consumer")
  /\ IF size["consumer"] = 0
       THEN wpc' = "ended" /\ UNCHANGED vars
       ELSE wpc' = "pop" /\ PopCall(FALSE)
  /\ UNCHANGED <<running, apc, written>>

WriterPops ==
  /\ wpc = "pop"
  /\ PopFound \/ PopMove \/ PopDestroy
  /\ UNCHANGED <<callVars, loggerVars>>

WriterSleeps ==
  /\ wpc = "pop"
  /\ PopEmpty
  /\ wpc' = "loop"
  /\ UNCHANGED <<callVars, running, apc, written>>

WriterPopped ==
  /\ wpc = "pop"
  /\ PopRelease
  /\ wpc' = "write"
  /\ UNCHANGED <<callVars, running, apc, written>>

(* formatAndWrite *)
WriterWrites ==
  /\ wpc = "write"
  /\ written' = Append(written, popping)
  /\ wpc' = "loop"
  /\ UNCHANGED <<ovars, running, apc>>

-----------------------------------------------------------------------------
Application ==
  \/ Log
  \/ Flush
  \/ FlushLoads
  \/ FlushAsked
  \/ FlushReturns
  \/ Destroy
  \/ JoinAndDrain

Writer ==
  \/ LoopRuns
  \/ LoopStops
  \/ LoopLoads
  \/ LoopAsked
  \/ WriterPops
  \/ WriterSleeps
  \/ WriterPopped
  \/ WriterWrites

NextLogger == Application \/ Writer

SpecLogger == InitLogger /\ [][NextLogger]_lvars

(* Both threads keep running inside a call, and the writer in its loop. A  *)
(* store becomes visible in finite time: among infinitely many loads of    *)
(* the head, the tail or the flag one returns the latest value.            *)
FlushSeesHead == FlushLoads /\ headSeen' = head

LoggerFairness ==
  /\ WF_lvars(FlushLoads \/ FlushAsked \/ FlushReturns)
  /\ WF_lvars(JoinAndDrain)
  /\ WF_lvars(Writer)
  /\ SF_lvars(FlushSeesHead)
  /\ SF_lvars(WriterPops /\ cpc = "check")
  /\ SF_lvars(LoopStops)

FairSpecLogger == SpecLogger /\ LoggerFairness

-----------------------------------------------------------------------------
(* Properties *)

(* Lines come out in the order they were logged, each once, with nothing   *)
(* left out in between, through the destructor's drain too (writerLoop,    *)
(* drainQueue).                                                            *)
WritesInOrder ==
  /\ Len(written) <= Len(accepted)
  /\ written = SubSeq(accepted, 1, Len(written))

(* The writer leaves its loop with nothing left behind: it reads the flag  *)
(* first and the ring second, so the emptiness it ends on is not stale     *)
(* (line 228).                                                             *)
WriterLeavesNothing == wpc = "ended" => written = accepted

(* "Flush all pending messages synchronously." (line 202): when flush      *)
(* returns, every message logged before it has been written.  It waits for *)
(* the ring, not for the writer, and does not keep this.                   *)
FlushWritesEverything == [][FlushReturns => written = accepted]_lvars

(* What flush does keep (lines 207-215): when it stops waiting, every      *)
(* message but the one in the writer's hands has been written.             *)
FlushLeavesAtMostOne ==
  apc = "flushed" =>
    \/ written = accepted
    \/ wpc = "write" /\ Append(written, popping) = accepted

(* flush returns: the writer empties the ring while the only thread that   *)
(* fills it waits.                                                         *)
FlushTerminates == apc = "flushing" ~> apc = "run"

(* The destructor returns, with every message written. *)
DestructorTerminates == apc = "joining" ~> apc = "closed" /\ written = accepted

(* The two calls that wait for the writer, which sleeps, holds a message   *)
(* or sees the ring and the flag late, both return, as long as both        *)
(* threads keep running.                                                   *)
WaitsEnd == LoggerFairness => FlushTerminates /\ DestructorTerminates
=============================================================================
