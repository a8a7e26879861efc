---------------------------- MODULE BreakerClaims ---------------------------
(***************************************************************************)
(* What the repository's documents and comments say of the circuit         *)
(* breaker and the code, under concurrency, does not do.  Each is checked  *)
(* on its own and refuted by a run.                                        *)
(***************************************************************************)
EXTENDS ChannelBreaker

\* ARCHITECTURE.md: a probe that ends without a verdict, as when the client
\* cancels, resets the half-open mark so that the next request probes again
\* (only a panic leaves it to the deadline).  So while the mark is set and the
\* deadline ahead, its probe is still somewhere on its way.
HalfOpenHasItsProbe ==
    entry # NoEntry /\ IsProbing(entry.state, clock) =>
        \E r \in Requests :
            /\ request[r].phase # "idle"
            /\ request[r].probe
            /\ request[r].grant = entry.state.probeDeadline
=============================================================================
