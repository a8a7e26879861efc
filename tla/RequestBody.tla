----------------------------- MODULE RequestBody -----------------------------
(***************************************************************************)
(* The request's body when it is shared (src/request_body.go and its users *)
(* in pipeline.go, attempt_http.go and handler.go): one buffer that every  *)
(* attempt uploads from and that is let go as soon as a response has been  *)
(* accepted, while the transport may still be uploading.                   *)
(*                                                                         *)
(* The request's goroutine runs against one uploading goroutine per        *)
(* attempt.  Of the bytes the model keeps how many there are.              *)
(***************************************************************************)
EXTENDS Integers, FiniteSets

CONSTANTS
    BodySize,     \* chunks of the request's body
    MaxUploads    \* bound: attempts the request makes

ASSUME BodyAssumption == BodySize \in Nat \ {0} /\ MaxUploads \in Nat

VARIABLES
    at,         \* where the request's goroutine is
    shared,     \* chunks in the shared buffer
    ctxBody,    \* chunks of Context.RequestBody and of OriginalRequestBody
    released,   \* Context.requestBodyReleased
    hook,       \* OnRequestBodyRelease: how often it was called and what it still saw
    attempts,   \* attempts made so far
    buffers,    \* chunks in each attempt's upload buffer
    uploads     \* each attempt's upload: its reader's chunks, how far it got,
                \* whether it has reported the end

bodyVars == <<at, shared, ctxBody, released, hook, attempts, buffers, uploads>>

Attempts == 1..MaxUploads

NoUpload == [size |-> 0, read |-> 0, state |-> "none"]

BodyTypeOK ==
    /\ at \in {"prepare", "trying", "sending", "judging", "forwarding", "leaving", "done"}
    /\ shared \in {0, BodySize} /\ ctxBody \in {0, BodySize}
    /\ released \in BOOLEAN
    /\ hook \in [calls : 0..2, saw : {0, BodySize}]
    /\ attempts \in 0..MaxUploads
    /\ buffers \in [Attempts -> {0, BodySize}]
    /\ uploads \in [Attempts -> [size : {0, BodySize}, read : 0..BodySize,
                                 state : {"none", "open", "eof", "closed"}]]

-----------------------------------------------------------------------------

BodyInit ==
    /\ at = "prepare"
    /\ shared = 0 /\ ctxBody = 0
    /\ released = FALSE
    /\ hook = [calls |-> 0, saw |-> 0]
    /\ attempts = 0
    /\ buffers = [a \in Attempts |-> 0]
    /\ uploads = [a \in Attempts |-> NoUpload]

\* prepareRequestBody reads the body into the shared buffer, or takes a buffer
\* the host has read already.
PrepareRequestBody ==
    /\ at = "prepare"
    /\ \/ at' = "trying" /\ shared' = BodySize /\ ctxBody' = BodySize
       \/ at' = "leaving" /\ UNCHANGED <<shared, ctxBody>>
    /\ UNCHANGED <<released, hook, attempts, buffers, uploads>>

\* uploadReader: a reader of its own over the bytes of the attempt's buffer.
UploadReader(size) == [size |-> size, read |-> 0, state |-> "open"]

\* executeHTTPAttempt, up to client.Do.
StartUpload ==
    /\ at = "trying" /\ attempts < MaxUploads
    /\ attempts' = attempts + 1
    /\ buffers' = [buffers EXCEPT ![attempts + 1] = ctxBody]
    /\ uploads' = [uploads EXCEPT ![attempts + 1] = UploadReader(ctxBody)]
    /\ at' = "sending"
    /\ UNCHANGED <<shared, ctxBody, released, hook>>

\* client.Do returns, perhaps before the upload is through, and with it
\* executeHTTPAttempt, which lets its buffer go.
FinishAttempt ==
    /\ at = "sending"
    /\ buffers' = [buffers EXCEPT ![attempts] = 0]
    /\ at' = "judging"
    /\ UNCHANGED <<shared, ctxBody, released, hook, attempts, uploads>>

\* The attempt came to nothing: another key, attempt or channel, or the end.
Retry ==
    /\ at = "judging"
    /\ at' \in {"trying", "leaving"}
    /\ UNCHANGED <<shared, ctxBody, released, hook, attempts, buffers, uploads>>

\* Mutant: nobody remembers that the body was released.
ReleaseForgotten ==
    /\ ctxBody' = 0 /\ shared' = 0
    /\ hook' = [calls |-> hook.calls + 1, saw |-> ctxBody]
    /\ UNCHANGED released

\* releaseRequestBody: the hook runs once, while the bytes are there; they are
\* let go when it returns, and also if it panics.
Release ==
    IF released THEN UNCHANGED <<shared, ctxBody, released, hook>>
    ELSE /\ released' = TRUE
         /\ hook' = [calls |-> hook.calls + 1, saw |-> ctxBody]
         /\ ctxBody' = 0 /\ shared' = 0

\* A response was accepted: the body is let go before it is forwarded.
AcceptAndRelease ==
    /\ at = "judging"
    /\ Release
    /\ at' \in {"forwarding", "leaving"}
    /\ UNCHANGED <<attempts, buffers, uploads>>

\* Hooks are called on the request's goroutine and may panic: the deferred
\* calls run, that of executeHTTPAttempt too.
Panic ==
    /\ at \in {"trying", "sending", "judging", "forwarding"}
    /\ buffers' = [a \in Attempts |-> 0]
    /\ at' = "leaving"
    /\ UNCHANGED <<shared, ctxBody, released, hook, attempts, uploads>>

\* The deferred call of ServeHTTP.
LeaveHandler ==
    /\ at = "leaving"
    /\ Release
    /\ at' = "done"
    /\ UNCHANGED <<attempts, buffers, uploads>>

-----------------------------------------------------------------------------
(* The transport's side of an upload.                                      *)

\* Mutant: the upload reads from the shared buffer, as far as it still goes.
AvailableOfShared(a) == shared

\* How far an upload's reader goes.
Available(a) == uploads[a].size

ReadUpload(a) ==
    /\ uploads[a].state = "open"
    /\ \/ /\ uploads[a].read < Available(a)
          /\ uploads' = [uploads EXCEPT ![a].read = @ + 1]
       \/ /\ uploads[a].read >= Available(a)
          /\ uploads' = [uploads EXCEPT ![a].state = "eof"]
    /\ UNCHANGED <<at, shared, ctxBody, released, hook, attempts, buffers>>

\* A redirect or a lost connection starts the upload again with GetBody, inside
\* of client.Do.
RewindUpload(a) ==
    /\ at = "sending" /\ a = attempts /\ uploads[a].state \in {"open", "eof"}
    /\ uploads' = [uploads EXCEPT ![a] = UploadReader(buffers[a])]
    /\ UNCHANGED <<at, shared, ctxBody, released, hook, attempts, buffers>>

\* The response is over or the attempt's context done.
CloseUpload(a) ==
    /\ uploads[a].state \in {"open", "eof"}
    /\ uploads' = [uploads EXCEPT ![a].state = "closed"]
    /\ UNCHANGED <<at, shared, ctxBody, released, hook, attempts, buffers>>

BodyStep ==
    \/ PrepareRequestBody \/ StartUpload \/ FinishAttempt \/ Retry
    \/ AcceptAndRelease \/ Panic \/ LeaveHandler
    \/ \E a \in Attempts : ReadUpload(a) \/ RewindUpload(a) \/ CloseUpload(a)

BodySpec == BodyInit /\ [][BodyStep]_bodyVars

-----------------------------------------------------------------------------
(* What the shared body promises.                                          *)

\* Whatever is let go, and when, an upload that reaches its end has sent the
\* whole body: that of an attempt whose response came early, that of a later
\* attempt, and one that was started again.
UploadsAreWhole ==
    \A a \in Attempts : uploads[a].state = "eof" => uploads[a].read = BodySize

\* When the request is over, however it ended, the host was told of the
\* release once, while the body was still there if it ever was, and nothing of
\* it is left in the shared buffer, the Context or an attempt's buffer.
BodyReleasedOnce ==
    at = "done" =>
        /\ hook.calls = 1
        /\ attempts > 0 => hook.saw = BodySize
        /\ shared = 0 /\ ctxBody = 0
        /\ \A a \in Attempts : buffers[a] = 0
=============================================================================
