--------------------------- MODULE PipelineClaims ---------------------------
(***************************************************************************)
(* What the repository's documents and comments say of a request's way     *)
(* through the channels and the code does not do.  Each is checked on its  *)
(* own and refuted by a run.                                               *)
(***************************************************************************)
EXTENDS FailoverPipeline

\* ARCHITECTURE.md: AcquireKey and ReleaseKey bound how many use a key at once.
\* So a request that is over holds no slot, whatever its retry configuration.
NoSlotLeaks ==
    pc = "done" => held = 0

\* The comment in ServeHTTP: OnRequestDone sees the same conclusion as the
\* circuit breaker, so that "the request succeeded" and the breaker's decision
\* do not contradict each other.  So when the last channel's breaker heard of a
\* success, the observer is told of no error.
DoneErrorAgrees ==
    pc = "done" /\ reply = "complete" => DoneErr = NoError
=============================================================================
