----------------------------- MODULE ServerDrain -----------------------------
(***************************************************************************)
(* Shutting the server down: websocket_stream turns new connections away,  *)
(* _drain_connections waits for those that are open, up to a time limit,   *)
(* looking at them after each pause.  Nothing closes them; the process     *)
(* ends when the drain returns.                                            *)
(***************************************************************************)
EXTENDS Naturals

CONSTANTS Socket,
          DrainTime \* GRACEFUL_SHUTDOWN_TIMEOUT_S, in pauses

ASSUME DrainAssumption == DrainTime \in Nat

VARIABLES phase,  \* "serving", "draining" or "down"
          active, \* _active_websockets
          closed, \* connections that are over, or were turned away
          waited  \* pauses of the drain loop

drainVars == <<phase, active, closed, waited>>

DrainInit == phase = "serving" /\ active = {} /\ closed = {} /\ waited = 0

Untried(s) == s \notin active \cup closed

\* websocket_stream: nothing suspends between the look at _shutdown_event and
\* _track_websocket.
WebsocketStream(s) ==
    /\ phase = "serving" /\ Untried(s)
    /\ active' = active \cup {s}
    /\ UNCHANGED <<phase, closed, waited>>

TurnAway(s) ==
    /\ phase = "draining" /\ Untried(s)
    /\ closed' = closed \cup {s}
    /\ UNCHANGED <<phase, active, waited>>

\* The handler returns or raises; the finally block untracks the connection.
StreamEnds(s) ==
    /\ s \in active /\ phase # "down"
    /\ active' = active \ {s} /\ closed' = closed \cup {s}
    /\ UNCHANGED <<phase, waited>>

\* After the yield of lifespan.
Shutdown ==
    /\ phase = "serving" /\ phase' = "draining"
    /\ UNCHANGED <<active, closed, waited>>

\* The loop of _drain_connections.
Pause ==
    /\ phase = "draining" /\ active # {} /\ waited < DrainTime
    /\ waited' = waited + 1
    /\ UNCHANGED <<phase, active, closed>>

\* Mutant of DrainReturns: it waits for every connection.
DrainReturnsWhenEmpty ==
    /\ phase = "draining" /\ active = {}
    /\ phase' = "down"
    /\ UNCHANGED <<active, closed, waited>>

DrainReturns ==
    /\ phase = "draining" /\ (active = {} \/ waited = DrainTime)
    /\ phase' = "down"
    /\ UNCHANGED <<active, closed, waited>>

DrainNext ==
    \/ \E s \in Socket : WebsocketStream(s) \/ TurnAway(s) \/ StreamEnds(s)
    \/ Shutdown \/ Pause \/ DrainReturns

DrainSpec == DrainInit /\ [][DrainNext]_drainVars

-----------------------------------------------------------------------------
(* Properties *)

DrainTypeOK ==
    /\ phase \in {"serving", "draining", "down"}
    /\ active \subseteq Socket /\ closed \subseteq Socket /\ waited \in 0 .. DrainTime

\* A shutdown comes to its end although some connections never do: the drain neither
\* closes them nor waits for them for ever.
DrainEnds == phase = "draining" ~> phase = "down"
=============================================================================
