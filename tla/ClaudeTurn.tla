----------------------------- MODULE ClaudeTurn -----------------------------
(***************************************************************************)
(* One turn of the Claude proxy (lib/proxy/claude.js), with the stage of a *)
(* host that may repair rejected requests (lib/proxy/request-hook.js).     *)
(*                                                                         *)
(* Three parties interleave: the CLI, which may vanish at any moment; the  *)
(* provider, which answers, rejects, breaks off or resets; and the turn's  *)
(* own asynchronous rejection handler, which awaits an error body and a    *)
(* host hook before it dials again.  The terminal report is a usage record *)
(* and an activity 'end', a pair.                                          *)
(***************************************************************************)
EXTENDS ProxyTurn

Causes == {"success", "client-disconnected", "connect-failed", "stream-aborted", "http-error"}

ASSUME RetryAssumption == RetryMax \in Nat /\ None \notin Causes

VARIABLES
  phase,      \* of the handler: setup until the turn is announced, then live
  up,         \* the connection of the latest dial
  rejection,  \* where handleRejectedResponse is
  dials       \* dialAttempt

claudeVars == <<hook, phase, client, answer, up, rejection, dials, repairs, outcome>>

\* An "ok" or "rejected" connection is delivering a response body.
Connected == {"open", "ok", "rejected"}

ClaudeTypeOK ==
  /\ hook \in BOOLEAN
  /\ phase \in {"setup", "refused", "lost", "live", "crashed"}
  /\ client \in {"there", "gone"}
  /\ answer \in {"none", "headers", "ended"}
  /\ up \in Connected \cup {"none", "over"}
  /\ rejection \in {"none", "reading", "asking"}
  /\ dials \in Nat
  /\ repairs \in Nat
  /\ outcome \in Causes \cup {None}

ClaudeInit ==
  /\ hook \in BOOLEAN
  /\ phase = "setup"
  /\ client = "there"
  /\ answer = "none"
  /\ up = "none"
  /\ rejection = "none"
  /\ dials = 0
  /\ repairs = 0
  /\ outcome = None

-----------------------------------------------------------------------------

Gone == client = "gone"

\* Mutant of Settle: the latest cause wins.
SettleAgain(cause) == cause

\* settleTerminal: the first cause is reported, once.
Settle(cause) == IF outcome = None THEN cause ELSE outcome

\* Downstream writes reach nobody once the response is closed.
Written(a) == IF Gone THEN answer ELSE a

\* Mutant of Released: the connection is forgotten, not destroyed.
Forgotten(u) == u

\* The provider connection after destroy().
Released(u) == IF u \in Connected THEN "over" ELSE u

Dial ==
  /\ dials' = dials + 1
  /\ up' = "open"

-----------------------------------------------------------------------------
(* The handler, up to the first dial.                                      *)

\* The body upload breaks off with the client: the handler rejects.
UploadLost ==
  /\ phase = "setup" /\ Gone
  /\ phase' = "lost"
  /\ UNCHANGED <<hook, client, answer, up, rejection, dials, repairs, outcome>>

\* No such provider, no valid hop credential, no base URL, no OAuth token.
Refuse ==
  /\ phase = "setup"
  /\ phase' = "refused"
  /\ answer' = Written("ended")
  /\ UNCHANGED <<hook, client, up, rejection, dials, repairs, outcome>>

\* The route is resolved and the pre-dial hook is done: the turn is announced
\* (activity 'request') and the provider dialled, unless nobody is left.
Launch ==
  /\ phase = "setup"
  /\ phase' = "live"
  /\ IF Gone
     THEN /\ outcome' = Settle("client-disconnected")
          /\ UNCHANGED <<up, dials>>
     ELSE /\ Dial
          /\ UNCHANGED outcome
  /\ UNCHANGED <<hook, client, answer, rejection, repairs>>

-----------------------------------------------------------------------------
(* The client.                                                             *)

\* 'close' of the response: the client died, or its answer is complete.
\* onClientClose settles first and then destroys the provider connection.
ResponseClosed ==
  /\ client = "there"
  /\ client' = "gone"
  /\ IF phase = "live" /\ outcome = None /\ answer # "ended"
     THEN /\ outcome' = Settle("client-disconnected")
          /\ up' = Released(up)
     ELSE UNCHANGED <<outcome, up>>
  /\ UNCHANGED <<hook, phase, answer, rejection, dials, repairs>>

-----------------------------------------------------------------------------
(* The provider.                                                           *)

\* Response headers.  They are passed on at once, except that a rejection is
\* held back when the host may repair it.  writeHead on an answer that has
\* been written already throws in the callback: the process dies.
UpstreamResponds(kind) ==
  /\ phase = "live" /\ up = "open"
  /\ up' = kind
  /\ IF kind = "rejected" /\ hook
     THEN rejection' = "reading" /\ UNCHANGED <<phase, answer>>
     ELSE IF answer = "none"
     THEN answer' = Written("headers") /\ UNCHANGED <<phase, rejection>>
     ELSE phase' = "crashed" /\ UNCHANGED <<answer, rejection>>
  /\ UNCHANGED <<hook, client, dials, repairs, outcome>>

\* The last byte of a response that is piped downstream.
UpstreamEnds ==
  /\ phase = "live" /\ up \in {"ok", "rejected"}
  /\ rejection = "none"
  /\ outcome' = Settle(IF up = "ok" THEN "success" ELSE "http-error")
  /\ answer' = Written("ended")
  /\ up' = "over"
  /\ UNCHANGED <<hook, phase, client, rejection, dials, repairs>>

\* 'error' of the request: no connection, or a reset at any later time.  An
\* answer is completed, or written if there was none.
UpstreamFails ==
  /\ phase = "live" /\ up \in Connected
  /\ outcome' = Settle("connect-failed")
  /\ answer' = Written("ended")
  /\ up' = "over"
  /\ UNCHANGED <<hook, phase, client, rejection, dials, repairs>>

\* The provider closes the connection in the middle of the body: 'aborted'
\* and 'error' of the response only.  A pipe does not end its destination.
UpstreamTruncates ==
  /\ phase = "live" /\ up \in {"ok", "rejected"}
  /\ outcome' = IF rejection = "none" THEN Settle("stream-aborted") ELSE outcome
  /\ up' = "over"
  /\ UNCHANGED <<hook, phase, client, answer, rejection, dials, repairs>>

-----------------------------------------------------------------------------
(* handleRejectedResponse.                                                 *)

\* Mutant of Reject: the error is answered but not reported.
RejectSilently ==
  /\ answer' = Written("ended")
  /\ rejection' = "none"
  /\ UNCHANGED outcome

\* The client gets the rejection; if it is gone its turn is settled already.
Reject ==
  /\ answer' = Written("ended")
  /\ outcome' = IF Gone THEN outcome ELSE Settle("http-error")
  /\ rejection' = "none"

\* The error body has been read, to its end or as far as it came.
RejectionRead ==
  /\ phase = "live" /\ rejection = "reading"
  /\ up' = "over"
  /\ IF ~ Gone /\ MayRepair
     THEN rejection' = "asking" /\ UNCHANGED <<answer, outcome>>
     ELSE Reject
  /\ UNCHANGED <<hook, phase, client, dials, repairs>>

\* The host returns a repaired body.
Repaired ==
  /\ phase = "live" /\ rejection = "asking"
  /\ repairs' = repairs + 1
  /\ Dial
  /\ rejection' = "none"
  /\ UNCHANGED <<hook, phase, client, answer, outcome>>

\* The host declines, throws or exceeds hookTimeoutMs.
Declined ==
  /\ phase = "live" /\ rejection = "asking"
  /\ Reject
  /\ UNCHANGED <<hook, phase, client, up, dials, repairs>>

-----------------------------------------------------------------------------

Setup == UploadLost \/ Refuse \/ Launch

Provider ==
  \/ \E kind \in {"ok", "rejected"} : UpstreamResponds(kind)
  \/ UpstreamEnds \/ UpstreamFails \/ UpstreamTruncates

Host == Repaired \/ Declined

ClaudeNext == Setup \/ ResponseClosed \/ Provider \/ RejectionRead \/ Host

ClaudeSpec == ClaudeInit /\ [][ClaudeNext]_claudeVars

\* A hook is bounded by its timeout, and every provider connection is assumed
\* to answer and end, or to break, at last.  The client owes nothing.
ClaudeFairSpec ==
  ClaudeSpec /\ WF_claudeVars(Setup) /\ WF_claudeVars(Provider) /\ WF_claudeVars(RejectionRead) /\ WF_claudeVars(Host)

-----------------------------------------------------------------------------
(* Properties.                                                             *)

\* The terminal event tells the truth: success means the client was given the
\* whole answer, a disconnect that it left before its end, and no announced
\* turn has its answer completed without having been accounted for.
ToldTruly ==
  /\ outcome = "success" => answer = "ended"
  /\ outcome = "client-disconnected" => Gone /\ answer # "ended"
  /\ phase = "live" /\ answer = "ended" => outcome # None

\* A host that always asks for a retry cannot keep a turn alive.
RepairsBounded == dials <= RetryMax + 1

\* Once the client is gone no provider connection stays open for it, unless
\* the host repaired a rejection: the code dials a repair even for nobody.
ProviderReleased ==
  phase = "live" /\ Gone /\ repairs = 0 => up \notin Connected

\* Every announced turn reports its end, whoever breaks off first.
TurnSettles == (phase = "live") ~> (outcome # None)

\* The comment on dialUpstream: nothing downstream has been written when a
\* repaired request is dialled again.  A connection that is reset while its
\* rejection is being read has answered the client: the code breaks it, so no
\* run checks it (README, section 10).
RepairInvisible == [][dials' > dials => answer = "none"]_claudeVars

\* The comment in the request's error handler: when the upstream socket dies
\* in the middle of a stream the response is ended, so the client of a
\* settled turn is never left waiting. The code
\* breaks it, so no run checks it: README, section 10.
AnswerEnds == (outcome # None) ~> (answer = "ended" \/ Gone)

=============================================================================
