----------------------------- MODULE TurnProofs -----------------------------
(***************************************************************************)
(* Proofs about a turn of the Codex proxy, for every hookRetryMax and      *)
(* every bound on busy retries, and about a turn of the Claude proxy, for  *)
(* every hookRetryMax.                                                     *)
(***************************************************************************)
EXTENDS ClaudeTurn, CodexTurn, TLAPS

Told == client = "gone" \/ answer \notin Unended

\* The counters: each repair is paid from the hook's budget, each busy retry
\* from the loop's, so that the loop always has an iteration left for both.
Budgets ==
  /\ attempt <= 1 + repairs + (IF mode = "compat" THEN BusyMax - 1 ELSE 0)
  /\ at = "hook" => repairs < RetryMax
  /\ at = "backoff" \/ (at = "cancel" /\ after = "retry") => mode = "compat" /\ attempt < BusyMax

\* Nothing of an answer, in this mode.
Blank == {"none"} \cup (IF mode = "compat" THEN {"head"} ELSE {})

\* As long as another dial may follow, the client has been given no output.
Silent ==
  /\ at \in {"prepare", "dial", "error body", "hook", "backoff"} => answer \in Blank
  /\ at = "cancel" /\ after = "retry" => answer \in Blank
  /\ at = "read" /\ mode = "compat" /\ ~ committed => answer \in Blank

\* A handler that waits for no provider has no connection.
Idle == at \in {"prepare", "hook", "backoff"} => conn \notin Open

\* A failure that the cancelled reader leaves to report has been told.
Verdict ==
  /\ at = "cancel" => after \in {"retry", "success", "response-failed"}
  /\ at = "cancel" /\ after = "response-failed" => Told

TurnInv ==
  /\ TypeOK
  /\ Budgets
  /\ Silent
  /\ Idle
  /\ Verdict
  /\ Accounted
  /\ UpstreamReleased

\* A turn starts with its budgets untouched.
LEMMA TurnInit == Init => TurnInv
<1> SUFFICES ASSUME Init PROVE TurnInv
  OBVIOUS
<1> USE CodexAssumption DEF Init
<1>1. TypeOK
  <2>1. attempt \in Nat /\ repairs \in 0..RetryMax
    OBVIOUS
  <2>2. at \in Awaits \cup {"done"} /\ conn \in Open \cup {"none", "aborted", "over"}
    BY DEF Awaits
  <2>3. QED
    BY <2>1, <2>2, Zenon DEF TypeOK
<1>2. Budgets
  BY DEF Budgets
<1>3. Silent
  BY DEF Silent, Blank
<1>4. Idle
  BY DEF Idle, Open
<1>5. Verdict
  BY DEF Verdict
<1>6. Accounted
  BY DEF Accounted, Outcomes
<1>7. UpstreamReleased
  BY DEF UpstreamReleased, Open
<1>8. QED
  BY <1>1, <1>2, <1>3, <1>4, <1>5, <1>6, <1>7 DEF TurnInv

\* What a step does to the counters.
LEMMA Counters ==
  ASSUME [Next]_vars
  PROVE  \/ attempt' = attempt /\ repairs' = repairs
         \/ at = "prepare" /\ attempt' = 1 /\ repairs' = repairs
         \/ at = "hook" /\ attempt' = attempt + 1 /\ repairs' = repairs + 1
         \/ at = "backoff" /\ attempt' = attempt + 1 /\ repairs' = repairs
BY DEF Next, Handler, Dialled, Body, Prepared, HostRepairs, HostDeclines, Cancelled, BackedOff,
   DialFails, DialRejected, DialAccepted, ErrorBodyRead, ReadOutput, ReadCompleted, ReadFailed,
   ReadBusy, StreamEnds, StreamBreaks, ClientLeaves, Attempt, vars

\* The loop has an iteration left for whoever may ask for one.
LEMMA LoopSuffices ==
  ASSUME TurnInv
  PROVE  /\ at = "prepare" => MayAttempt(1)
         /\ at \in {"hook", "backoff"} => MayAttempt(attempt + 1)
<1>1. attempt \in Nat /\ repairs \in Nat /\ repairs <= RetryMax
  BY CodexAssumption DEF TurnInv, TypeOK
<1>2. mode = "compat" => attempt <= repairs + BusyMax
  BY <1>1, CodexAssumption DEF TurnInv, Budgets
<1>3. at = "hook" => repairs < RetryMax
  BY DEF TurnInv, Budgets
<1>4. at = "backoff" => attempt < BusyMax
  BY DEF TurnInv, Budgets
<1>5. QED
  BY <1>1, <1>2, <1>3, <1>4, CodexAssumption DEF MayAttempt

LEMMA CounterStep ==
  ASSUME TurnInv, [Next]_vars, mode' = mode
  PROVE  /\ (attempt \in Nat /\ repairs \in 0..RetryMax)'
         /\ (attempt <= 1 + repairs + (IF mode = "compat" THEN BusyMax - 1 ELSE 0))'
<1>1. attempt \in Nat /\ repairs \in 0..RetryMax
  BY DEF TurnInv, TypeOK
<1>2. attempt <= 1 + repairs + (IF mode = "compat" THEN BusyMax - 1 ELSE 0)
  BY DEF TurnInv, Budgets
<1>3. /\ at = "hook" => repairs < RetryMax
      /\ at = "backoff" => mode = "compat" /\ attempt < BusyMax
  BY DEF TurnInv, Budgets
<1>4. CASE mode = "compat"
  BY <1>1, <1>2, <1>3, <1>4, Counters, CodexAssumption
<1>5. CASE mode # "compat"
  BY <1>1, <1>2, <1>3, <1>5, Counters, CodexAssumption
<1>6. QED
  BY <1>4, <1>5

USE DEF Next, Handler, Dialled, Body, Prepared, HostRepairs, HostDeclines, Cancelled, BackedOff,
        DialFails, DialRejected, DialAccepted, ErrorBodyRead, ReadOutput, ReadCompleted,
        ReadFailed, ReadBusy, StreamEnds, StreamBreaks, ClientLeaves, Reading, MayRepair,
        MayRetryBusy, StopWith, Attempt, MayAttempt, Dialling, Fail, Say, Flushed, Unended, Report,
        Aborted, vars, turn, listener, compat

\* What the handler is left with after each step: types, budgets, silence.
LEMMA TypeStep == TurnInv /\ [Next]_vars => TypeOK'
<1> SUFFICES ASSUME TurnInv, [Next]_vars PROVE TypeOK'
  OBVIOUS
<1>1. (attempt \in Nat /\ repairs \in 0..RetryMax)'
  <2>1. mode' = mode
    OBVIOUS
  <2>2. QED
    BY <2>1, CounterStep
<1>2. (hook \in BOOLEAN /\ committed \in BOOLEAN /\ noticed \in BOOLEAN)'
  BY ZenonT(30) DEF TurnInv, TypeOK
<1>3. (at \in Awaits \cup {"done"})'
  BY DEF TurnInv, TypeOK, Awaits
<1>4. (conn \in Open \cup {"none", "aborted", "over"})'
  BY DEF TurnInv, TypeOK, Open
<1>5. (mode \in {"chat", "direct", "compat"} /\ client \in {"there", "gone"})'
  BY DEF TurnInv, TypeOK
<1>6. (after \in {"retry", "success", "response-failed", None})'
  BY DEF TurnInv, TypeOK
<1>7. (answer \in {"none", "head", "partial", "completed", "failed", "busy"})'
  BY DEF TurnInv, TypeOK
<1>8. (outcome \in Outcomes \cup {None})'
  BY DEF TurnInv, TypeOK, Outcomes, Verdict
<1>9. QED
  BY <1>1, <1>2, <1>3, <1>4, <1>5, <1>6, <1>7, <1>8 DEF TypeOK

LEMMA BudgetStep == TurnInv /\ [Next]_vars => Budgets'
<1> SUFFICES ASSUME TurnInv, [Next]_vars PROVE Budgets'
  OBVIOUS
<1>1. mode' = mode
  OBVIOUS
<1>2. (attempt <= 1 + repairs + (IF mode = "compat" THEN BusyMax - 1 ELSE 0))'
  BY <1>1, CounterStep
<1>3. (at = "hook" => repairs < RetryMax)'
  BY DEF TurnInv, Budgets
<1>4. (at = "backoff" \/ (at = "cancel" /\ after = "retry") => mode = "compat" /\ attempt < BusyMax)'
  BY DEF TurnInv, Budgets
<1>5. QED
  BY <1>2, <1>3, <1>4 DEF Budgets

LEMMA SilenceStep == TurnInv /\ [Next]_vars => Silent' /\ Idle'
<1> SUFFICES ASSUME TurnInv, [Next]_vars PROVE Silent' /\ Idle'
  OBVIOUS
<1>1. Silent'
  <2>1. mode' = mode
    OBVIOUS
  <2>2. (at \in {"prepare", "dial", "error body", "hook", "backoff"} => answer \in Blank)'
    BY DEF TurnInv, TypeOK, Silent, Blank
  <2>3. (at = "cancel" /\ after = "retry" => answer \in Blank)'
    BY DEF TurnInv, TypeOK, Silent, Blank
  <2>4. (at = "read" /\ mode = "compat" /\ ~ committed => answer \in Blank)'
    BY DEF TurnInv, TypeOK, Silent, Blank
  <2>5. QED
    BY <2>2, <2>3, <2>4 DEF Silent
<1>2. Idle'
  BY DEF TurnInv, TypeOK, Idle, Open
<1>3. QED
  BY <1>1, <1>2

\* Who has been told stays told.
LEMMA TellStep == TurnInv /\ [Next]_vars /\ Told => Told'
BY DEF TurnInv, TypeOK, Told

LEMMA VerdictStep == TurnInv /\ [Next]_vars => Verdict'
<1> SUFFICES ASSUME TurnInv, [Next]_vars PROVE Verdict'
  OBVIOUS
<1>1. (at = "cancel" => after \in {"retry", "success", "response-failed"})'
  BY DEF TurnInv, TypeOK, Verdict
<1>2. (at = "cancel" /\ after = "response-failed" => Told)'
  <2>1. CASE at = "cancel" /\ after' = after
    BY <2>1, TellStep DEF TurnInv, Verdict
  <2>2. CASE at # "cancel"
    BY <2>2 DEF TurnInv, TypeOK, Told
  <2>3. QED
    BY <2>1, <2>2
<1>3. QED
  BY <1>1, <1>2 DEF Verdict

\* The handler is done only by reporting.
LEMMA ReportStep == TurnInv /\ [Next]_vars => Accounted'
<1> SUFFICES ASSUME TurnInv, [Next]_vars PROVE Accounted'
  OBVIOUS
<1>1. (at = "done" => outcome # None)'
  <2>1. CASE at \in {"prepare", "hook", "backoff"}
    BY <2>1, LoopSuffices, CodexAssumption DEF TurnInv, Accounted, Outcomes
  <2>2. CASE at \notin {"prepare", "hook", "backoff"}
    BY <2>2, CodexAssumption DEF TurnInv, Accounted, Verdict, Outcomes
  <2>3. QED
    BY <2>1, <2>2
<1>2. (outcome \in Outcomes \ {"success", "client-disconnected"} => Told)'
  <2>1. CASE outcome' = outcome
    BY <2>1, TellStep DEF TurnInv, Accounted, Told
  <2>2. CASE outcome' # outcome
    BY <2>2, CodexAssumption DEF TurnInv, TypeOK, Told, Verdict, Outcomes
  <2>3. QED
    BY <2>1, <2>2
<1>3. QED
  BY <1>1, <1>2 DEF Accounted, Told

LEMMA ReleaseStep == TurnInv /\ [Next]_vars => UpstreamReleased'
<1> SUFFICES ASSUME TurnInv, [Next]_vars PROVE UpstreamReleased'
  OBVIOUS
<1>1. (at = "done" /\ ~ noticed => conn \notin Open)'
  BY DEF TurnInv, TypeOK, UpstreamReleased, Idle, Open
<1>2. (noticed /\ mode # "compat" => conn \notin Open)'
  BY DEF TurnInv, TypeOK, UpstreamReleased, Idle, Open
<1>3. QED
  BY <1>1, <1>2 DEF UpstreamReleased

HIDE DEF Next, Handler, Dialled, Body, Prepared, HostRepairs, HostDeclines, Cancelled, BackedOff,
        DialFails, DialRejected, DialAccepted, ErrorBodyRead, ReadOutput, ReadCompleted,
        ReadFailed, ReadBusy, StreamEnds, StreamBreaks, ClientLeaves, Reading, MayRepair,
        MayRetryBusy, StopWith, Attempt, MayAttempt, Dialling, Fail, Say, Flushed, Unended, Report,
        Aborted, vars, turn, listener, compat

\* Every step of a turn keeps the invariant.
LEMMA TurnStep == TurnInv /\ [Next]_vars => TurnInv'
BY TypeStep, BudgetStep, SilenceStep, VerdictStep, ReportStep, ReleaseStep DEF TurnInv

LEMMA TurnHolds == Spec => []TurnInv
BY TurnInit, TurnStep, PTL DEF Spec

\* Every variable of a turn stays in its range, in all three modes.
THEOREM CodexTypes == Spec => []TypeOK
BY TurnHolds, PTL DEF TurnInv

\* A turn ends with a terminal report, and none fails without telling its
\* client so: busy retries and repairs together never exhaust the loop.
THEOREM CodexAccounted == Spec => []Accounted
BY TurnHolds, PTL DEF TurnInv

\* However the provider and the host alternate, repairs stay within
\* hookRetryMax, and the other retries within COMPAT_BUSY_RETRY_MAX.
THEOREM CodexAttemptsBounded == Spec => []AttemptsBounded
<1>1. TurnInv => AttemptsBounded
  BY DEF TurnInv, Budgets, TypeOK, AttemptsBounded
<1>2. QED
  BY <1>1, TurnHolds, PTL

\* A client that leaves a chat or direct turn leaves no provider connection
\* open, and neither does a turn that ends with its client.
THEOREM CodexReleases == Spec => []UpstreamReleased
BY TurnHolds, PTL DEF TurnInv

\* No dial follows the first event of an answer; in chat and direct it does
\* not follow the response headers either.
THEOREM CodexNoDialAfterOutput == Spec => NoDialAfterOutput
<1>1. TurnInv /\ [Next]_vars => [attempt' > attempt => answer \in Blank]_vars
  <2> SUFFICES ASSUME TurnInv, Next, attempt' > attempt PROVE answer \in Blank
    OBVIOUS
  <2>1. attempt' # attempt
    BY DEF TurnInv, TypeOK
  <2>2. at \in {"prepare", "hook", "backoff"}
    BY <2>1 DEF Next, Handler, Dialled, Body, Prepared, HostRepairs, HostDeclines, Cancelled,
       BackedOff, DialFails, DialRejected, DialAccepted, ErrorBodyRead, ReadOutput,
       ReadCompleted, ReadFailed, ReadBusy, StreamEnds, StreamBreaks, ClientLeaves
  <2>3. QED
    BY <2>2 DEF TurnInv, Silent
<1>2. QED
  BY <1>1, TurnHolds, PTL DEF Spec, NoDialAfterOutput, Blank

-----------------------------------------------------------------------------
(* The turn of the Claude proxy                                            *)

\* Before the turn is announced nothing has been dialled, written or settled.
Unannounced ==
  phase = "setup" =>
    /\ answer = "none" /\ outcome = None /\ up = "none"
    /\ rejection = "none" /\ dials = 0 /\ repairs = 0

\* A closed response and an ended answer both imply that the turn is settled;
\* a settled turn has no connection left, up to a repair.
Converged ==
  phase \in {"live", "crashed"} =>
    /\ Gone => outcome # None
    /\ outcome # None /\ repairs = 0 => up \notin Connected

\* While a dial or a rejection is pending, no headers have been passed on; the
\* host is asked only after the rejected connection is done with.
Pending ==
  /\ up = "open" \/ rejection # "none" => answer # "headers"
  /\ up = "open" => rejection = "none"
  /\ rejection = "asking" => up \notin Connected
  /\ phase = "crashed" => outcome # None

\* Every repair pays for one dial, and only a host with repairs left is asked.
Budget ==
  /\ dials <= repairs + 1
  /\ repairs <= RetryMax
  /\ rejection = "asking" => repairs < RetryMax

ClaudeInv == ClaudeTypeOK /\ Unannounced /\ Converged /\ Pending /\ Budget /\ ToldTruly

\* The strengthened invariant holds initially.
LEMMA ClaudeStarts == ClaudeInit => ClaudeInv
BY RetryAssumption DEF ClaudeInit, ClaudeInv, ClaudeTypeOK, Unannounced, Converged, Pending, Budget,
   ToldTruly, Causes, Connected, Gone

\* The strengthened invariant is preserved by every step.
LEMMA ClaudeStep ==
  ASSUME ClaudeInv, [ClaudeNext]_claudeVars
  PROVE  ClaudeInv'
<1> USE RetryAssumption DEF ClaudeInv, ClaudeTypeOK, Unannounced, Converged, Pending, Budget,
            ToldTruly, Causes, Connected, Settle, Written, Gone
<1>1. CASE UploadLost
  BY <1>1 DEF UploadLost
<1>2. CASE Refuse
  BY <1>2 DEF Refuse
<1>3. CASE Launch
  BY <1>3 DEF Launch, Dial
<1>4. CASE ResponseClosed
  BY <1>4 DEF ResponseClosed, Released
<1>5. ASSUME NEW kind \in {"ok", "rejected"}, UpstreamResponds(kind)
      PROVE  ClaudeInv'
  BY <1>5 DEF UpstreamResponds
<1>6. CASE UpstreamEnds
  BY <1>6 DEF UpstreamEnds
<1>7. CASE UpstreamFails
  BY <1>7 DEF UpstreamFails
<1>8. CASE UpstreamTruncates
  BY <1>8 DEF UpstreamTruncates
<1>9. CASE RejectionRead
  BY <1>9 DEF RejectionRead, Reject, MayRepair
<1>10. CASE Repaired
  BY <1>10 DEF Repaired, Dial
<1>11. CASE Declined
  BY <1>11 DEF Declined, Reject
<1>12. CASE UNCHANGED claudeVars
  BY <1>12 DEF claudeVars
<1>13. QED
  BY <1>1, <1>2, <1>3, <1>4, <1>5, <1>6, <1>7, <1>8, <1>9, <1>10, <1>11, <1>12
     DEF ClaudeNext, Setup, Provider, Host

LEMMA ClaudeAlways == ClaudeSpec => []ClaudeInv
<1>1. ClaudeInv /\ [ClaudeNext]_claudeVars => ClaudeInv'
  BY ClaudeStep
<1>2. QED
  BY <1>1, ClaudeStarts, PTL DEF ClaudeSpec

\* Every variable of the turn stays in its range, for any hookRetryMax.
THEOREM ClaudeTypes == ClaudeSpec => []ClaudeTypeOK
<1>1. ClaudeInv => ClaudeTypeOK
  BY DEF ClaudeInv
<1>2. QED
  BY <1>1, ClaudeAlways, PTL

\* The terminal event of a turn tells the truth about it, whatever order the
\* client's departure, the provider's failure and the host's repair come in.
THEOREM ClaudeToldTruly == ClaudeSpec => []ToldTruly
<1>1. ClaudeInv => ToldTruly
  BY DEF ClaudeInv
<1>2. QED
  BY <1>1, ClaudeAlways, PTL

\* hookRetryMax bounds the dials of a turn, for every value of it.
THEOREM ClaudeDialsBounded == ClaudeSpec => []RepairsBounded
<1>1. ClaudeInv => RepairsBounded
  BY RetryAssumption DEF ClaudeInv, ClaudeTypeOK, Budget, RepairsBounded
<1>2. QED
  BY <1>1, ClaudeAlways, PTL

\* A disconnect releases the provider: no connection of an unrepaired turn
\* stays open once the client is gone.
THEOREM ClaudeReleases == ClaudeSpec => []ProviderReleased
<1>1. ClaudeInv => ProviderReleased
  BY DEF ClaudeInv, Converged, ProviderReleased
<1>2. QED
  BY <1>1, ClaudeAlways, PTL
=============================================================================
