------------------------------- MODULE MCRing -------------------------------
(***************************************************************************)
(* The ring with any two threads on it, and the logger on the ring: each   *)
(* behaviour is one or the other.  Where there is no logger, its two       *)
(* threads are nowhere.                                                    *)
(***************************************************************************)
EXTENDS AsyncLogger

InitRing ==
  /\ InitObserver
  /\ running = FALSE /\ apc = "none" /\ wpc = "none" /\ written = <<>>

RunRing == apc = "none" /\ Next /\ UNCHANGED <<callVars, loggerVars>>

RingOrLogger == (InitRing \/ InitLogger) /\ [][RunRing \/ NextLogger]_lvars
=============================================================================
