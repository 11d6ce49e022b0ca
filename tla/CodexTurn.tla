------------------------------ MODULE CodexTurn ------------------------------
(***************************************************************************)
(* One turn of the Codex proxy (lib/proxy/codex.js): a handler that dials  *)
(* the provider, asks a host hook to repair what was rejected, and passes  *)
(* on a stream.  It is written three times, for providers that speak chat  *)
(* completions ("chat"), Responses ("direct"), or a Responses dialect that *)
(* is busy at times and forgets to complete its streams ("compat").        *)
(*                                                                         *)
(* The handler is a coroutine: at names the await it is suspended at, and  *)
(* the CLI may vanish at each of them.                                     *)
(***************************************************************************)
EXTENDS ProxyTurn

CONSTANT BusyMax    \* COMPAT_BUSY_RETRY_MAX

Outcomes == {"success", "client-disconnected", "transform-failed", "connect-failed",
             "http-error", "stream-failed", "response-failed"}

ASSUME CodexAssumption == RetryMax \in Nat /\ BusyMax \in Nat \ {0} /\ None \notin Outcomes

VARIABLES
  mode,
  at,         \* the await the handler is at
  attempt,
  conn,       \* the connection of the latest dial
  committed,  \* compat: whether this attempt's events go out at once
  after,      \* compat: what is done once the reader is cancelled
  noticed     \* clientClosed: gone while the handler listens

vars == <<mode, hook, at, attempt, repairs, conn, committed, after, client, noticed, answer, outcome>>
turn == <<mode, hook>>
listener == <<client, noticed>>
compat == <<committed, after>>

Awaits == {"prepare", "dial", "error body", "hook", "read", "cancel", "backoff"}
Open == {"dialling", "rejected", "streaming"}

TypeOK ==
  /\ mode \in {"chat", "direct", "compat"}
  /\ hook \in BOOLEAN
  /\ at \in Awaits \cup {"done"}
  /\ attempt \in Nat /\ repairs \in 0..RetryMax
  /\ conn \in Open \cup {"none", "aborted", "over"}
  /\ committed \in BOOLEAN
  /\ after \in {"retry", "success", "response-failed", None}
  /\ client \in {"there", "gone"}
  /\ noticed \in BOOLEAN
  /\ answer \in {"none", "head", "partial", "completed", "failed", "busy"}
  /\ outcome \in Outcomes \cup {None}

Init ==
  /\ mode \in {"chat", "direct", "compat"}
  /\ hook \in BOOLEAN
  /\ at = "prepare"
  /\ attempt = 0 /\ repairs = 0
  /\ conn = "none"
  /\ committed = FALSE /\ after = None
  /\ client = "there" /\ noticed = FALSE
  /\ answer = "none"
  /\ outcome = None

-----------------------------------------------------------------------------

\* reportUsage: the first cause stands.
Report(cause) == outcome' = IF outcome = None THEN cause ELSE outcome

\* What leaves the CLI waiting for an end of the response.
Unended == {"none", "head", "partial"}

\* res.write of an event; one that ends the response is the last the CLI reads.
Say(what) == answer' = IF client = "gone" \/ answer \notin Unended THEN answer ELSE what

\* setSseHeaders, which flushes: the CLI has the status and the headers.
Flushed == IF client = "there" /\ answer = "none" THEN "head" ELSE answer

\* Mutant of Aborted: the reader is left, the request is not aborted.
OnlyLeft(c) == c

\* The provider connection after aborter.abort().
Aborted(c) == IF c \in Open THEN "aborted" ELSE c

\* Mutant of MayAttempt: the loop counts busy retries only.
MayAttemptBusy(n) == mode = "compat" => n <= BusyMax

\* The loop condition.
MayAttempt(n) == mode = "compat" => n <= BusyMax + RetryMax

\* sendFailed, or status 400, and the end of the handler.
Fail(cause) ==
  /\ Report(cause)
  /\ Say("failed")
  /\ at' = "done"

\* Where the latest dial stands once it is made: chat and direct have one
\* aborter for the turn, compat has a new one for each dial.
Dialling == IF noticed /\ mode # "compat" THEN "aborted" ELSE "dialling"

\* The next iteration.  chat translates the body first, which may fail; compat
\* has flushed its headers before the first one.
Attempt(n) ==
  /\ attempt' = n
  /\ IF MayAttempt(n)
     THEN \/ /\ at' = "dial" /\ conn' = Dialling
             /\ answer' = IF n = 1 /\ mode = "compat" THEN Flushed ELSE answer
             /\ UNCHANGED outcome
          \/ mode = "chat" /\ Fail("transform-failed") /\ UNCHANGED conn
     ELSE at' = "done" /\ UNCHANGED <<conn, answer, outcome>>

-----------------------------------------------------------------------------
(* Up to the provider's answer                                             *)

\* The pre-dial hook is done and the handler begins to listen; compat does not
\* look whether the client has left already.
Prepared ==
  /\ at = "prepare"
  /\ IF client = "gone" /\ mode # "compat"
     THEN /\ noticed' = TRUE
          /\ Report("client-disconnected")
          /\ at' = "done"
          /\ UNCHANGED <<attempt, conn, answer>>
     ELSE Attempt(1) /\ UNCHANGED noticed
  /\ UNCHANGED <<turn, repairs, compat, client>>

DialFails ==
  /\ at = "dial"
  /\ Fail("connect-failed")
  /\ conn' = "over"
  /\ UNCHANGED <<turn, attempt, repairs, compat, listener>>

DialRejected ==
  /\ at = "dial" /\ conn = "dialling"
  /\ at' = "error body" /\ conn' = "rejected"
  /\ UNCHANGED <<turn, attempt, repairs, compat, listener, answer, outcome>>

\* A compat turn nobody waits for any more does not read what it has dialled.
\* chat flushes its headers now, direct does for an event stream only.
DialAccepted ==
  /\ at = "dial" /\ conn = "dialling"
  /\ conn' = "streaming"
  /\ committed' = FALSE
  /\ IF noticed THEN Report("success") /\ at' = "done" ELSE at' = "read" /\ UNCHANGED outcome
  /\ answer' \in (CASE mode = "chat"   -> {Flushed}
                    [] mode = "direct" -> {answer, Flushed}
                    [] mode = "compat" -> {answer})
  /\ UNCHANGED <<turn, attempt, repairs, after, listener>>

\* The error body has been read, to its end or as far as it came.
ErrorBodyRead ==
  /\ at = "error body"
  /\ conn' = "over"
  /\ IF ~ noticed /\ MayRepair
     THEN at' = "hook" /\ UNCHANGED <<answer, outcome>>
     ELSE Fail("http-error")
  /\ UNCHANGED <<turn, attempt, repairs, compat, listener>>

HostRepairs ==
  /\ at = "hook"
  /\ repairs' = repairs + 1
  /\ Attempt(attempt + 1)
  /\ UNCHANGED <<turn, compat, listener>>

\* The host declines, throws or exceeds hookTimeoutMs.
HostDeclines ==
  /\ at = "hook"
  /\ Fail("http-error")
  /\ UNCHANGED <<turn, attempt, repairs, conn, compat, listener>>

-----------------------------------------------------------------------------
(* The stream                                                              *)

Reading == at = "read" /\ conn = "streaming"

\* Events that carry output.
ReadOutput ==
  /\ Reading
  /\ Say("partial")
  /\ committed' = TRUE
  /\ UNCHANGED <<turn, at, attempt, repairs, conn, after, listener, outcome>>

\* compat stops at the first event that ends the response and cancels the
\* reader; the others read on until the stream ends.
StopWith(verdict) ==
  IF mode = "compat"
  THEN at' = "cancel" /\ after' = verdict /\ committed' = TRUE
  ELSE UNCHANGED <<at, compat>>

\* response.completed; [DONE] of a chat stream.
ReadCompleted ==
  /\ Reading
  /\ Say("completed")
  /\ StopWith("success")
  /\ UNCHANGED <<turn, attempt, repairs, conn, listener, outcome>>

\* response.failed: a chat stream has no such event.
ReadFailed ==
  /\ Reading /\ mode # "chat"
  /\ Say("failed")
  /\ StopWith("response-failed")
  /\ UNCHANGED <<turn, attempt, repairs, conn, listener, outcome>>

\* Mutant of MayRetryBusy: whatever the client has been given.
AlwaysRetryBusy == attempt < BusyMax

\* Nothing has gone out, and the loop has not been through too often.
MayRetryBusy == ~ committed /\ attempt < BusyMax

\* response.failed with the message of an overloaded provider.
ReadBusy ==
  /\ Reading /\ mode = "compat"
  /\ IF MayRetryBusy
     THEN at' = "cancel" /\ after' = "retry" /\ UNCHANGED <<committed, answer>>
     ELSE Say("busy") /\ StopWith("response-failed")
  /\ UNCHANGED <<turn, attempt, repairs, conn, listener, outcome>>

\* Mutant of Cancelled: the reader is left alone.
CancelForgotten ==
  /\ at = "cancel"
  /\ IF after = "retry" THEN at' = "backoff" /\ UNCHANGED outcome ELSE at' = "done" /\ Report(after)
  /\ UNCHANGED <<turn, attempt, repairs, conn, compat, listener, answer>>

Cancelled ==
  /\ at = "cancel"
  /\ conn' = "over"
  /\ IF after = "retry" THEN at' = "backoff" /\ UNCHANGED outcome ELSE at' = "done" /\ Report(after)
  /\ UNCHANGED <<turn, attempt, repairs, compat, listener, answer>>

\* The busy retry, after a sleep the client need not survive.
BackedOff ==
  /\ at = "backoff"
  /\ Attempt(attempt + 1)
  /\ UNCHANGED <<turn, repairs, compat, listener>>

\* The stream ends: chat and compat complete a response that is not complete.
StreamEnds ==
  /\ Reading
  /\ conn' = "over" /\ at' = "done"
  /\ Report("success")
  /\ IF mode = "direct" THEN UNCHANGED answer ELSE Say("completed")
  /\ UNCHANGED <<turn, attempt, repairs, compat, listener>>

\* The connection breaks, or was aborted.
StreamBreaks ==
  /\ at = "read"
  /\ conn' = "over" /\ at' = "done"
  /\ Report(IF mode = "compat" THEN "success" ELSE "stream-failed")
  /\ Say("failed")
  /\ UNCHANGED <<turn, attempt, repairs, compat, listener>>

-----------------------------------------------------------------------------

\* 'close' of the response.  markClientClosed reports first and aborts then.
ClientLeaves ==
  /\ client = "there"
  /\ client' = "gone"
  /\ IF at \in {"prepare", "done"}
     THEN UNCHANGED <<noticed, outcome, conn>>
     ELSE /\ noticed' = TRUE
          /\ Report("client-disconnected")
          /\ conn' = Aborted(conn)
  /\ UNCHANGED <<turn, at, attempt, repairs, compat, answer>>

Handler ==
  \/ Prepared \/ HostRepairs \/ HostDeclines \/ Cancelled \/ BackedOff

Dialled == DialFails \/ DialRejected \/ DialAccepted

Body ==
  \/ ErrorBodyRead
  \/ ReadOutput \/ ReadCompleted \/ ReadFailed \/ ReadBusy \/ StreamEnds \/ StreamBreaks

Next == Handler \/ Dialled \/ Body \/ ClientLeaves

Spec == Init /\ [][Next]_vars

\* The handler goes on, a hook and a sleep are bounded by a timer, and a dial
\* by headersTimeout.  Nothing bounds the time between two bytes of a body
\* (bodyTimeout 0), except that reading from an aborted connection fails.
FairSpec ==
  /\ Spec
  /\ WF_vars(Handler) /\ WF_vars(Dialled)
  /\ WF_vars(conn = "aborted" /\ (ErrorBodyRead \/ StreamBreaks))

-----------------------------------------------------------------------------
(* Properties                                                              *)

\* No turn ends without its terminal report: the loop that busy retries and
\* repairs share never runs out, and a turn reported as failed has told so.
Accounted ==
  /\ at = "done" => outcome # None
  /\ outcome \in Outcomes \ {"success", "client-disconnected"} =>
       client = "gone" \/ answer \notin Unended

\* Neither the hook nor a busy provider buys the other one attempts.
AttemptsBounded ==
  attempt <= 1 + repairs + (IF mode = "compat" THEN BusyMax - 1 ELSE 0) /\ repairs <= RetryMax

\* A turn that ends with its client leaves no provider connection open, and
\* neither does a client that leaves a chat or direct turn.
UpstreamReleased ==
  /\ at = "done" /\ ~ noticed => conn \notin Open
  /\ noticed /\ mode # "compat" => conn \notin Open

\* A busy provider and a rejection are only retried while the client has been
\* given nothing of an answer: nothing at all in chat and direct, at most the
\* response headers in compat.
NoDialAfterOutput ==
  [][attempt' > attempt => answer \in {"none"} \cup (IF mode = "compat" THEN {"head"} ELSE {})]_vars

\* docs/request-hooks.md: a retry only happens before anything has been
\* written downstream.  A compat turn has flushed its headers by then: no run
\* checks it (README, section 10).
RetryInvisible == [][repairs' > repairs => answer = "none"]_vars

\* A turn whose client leaves ends, even if the provider never sends another
\* byte; but a compat turn that dials once more reads a rejection to its end.
DisconnectSettles ==
  noticed ~> at = "done" \/ (mode = "compat" /\ conn = "rejected")

\* CHANGELOG.md 0.4.5: when the CLI is cancelled in mid-turn, both proxies
\* abort the provider request, so that the connection is released. The code
\* breaks it, so no run checks it: README, section 10.
LeavingReleases == noticed /\ at = "done" => conn \notin Open
=============================================================================
