--------------------------- MODULE ChatToResponses ---------------------------
(***************************************************************************)
(* The translation of a chat completions stream into a Responses stream     *)
(* (lib/proxy/codex-transform.js, chatStreamToResponses) and the loop that  *)
(* feeds it (lib/proxy/codex.js).  The provider chooses the chunks; text    *)
(* and arguments are counted in pieces, so that what is lost shows.         *)
(*                                                                         *)
(* A chunk that carries several tool calls acts as as many chunks with one  *)
(* each, and the text beside them is not looked at; one that carries none   *)
(* is told apart by the first of text and finish_reason it has.             *)
(***************************************************************************)
EXTENDS Naturals, Sequences

CONSTANTS
  Index,       \* the index of a tool call within the chat stream
  MaxPieces,   \* bound: pieces of the text, and of the arguments of a call
  NoCall

ASSUME ChatAssumption == MaxPieces \in Nat /\ NoCall \notin Index

VARIABLES
  finished, headerSent,
  text,        \* "none", "open" or "closed": _textStarted, _textItemFinished
  textAcc,
  tools,       \* _toolItems: arguments, output position (0: absent), done
  output,      \* _outputItems
  reader,      \* the loop: "reading", or "over"
  items,       \* the items the events sent so far amount to
  ended,       \* the first event that ends the response
  listed,      \* response.completed's output
  astray       \* history: a piece came when its item was closed, or beside a
               \* call, or the first text when a call had been opened

translator == <<finished, headerSent, text, textAcc, tools, output>>
told == <<items, ended, listed>>
vars == <<translator, reader, told, astray>>

Kinds == {"message", "call"}
Item == [kind : Kinds, call : Index \cup {NoCall}, size : Nat]
SeenItem == [kind : Kinds, call : Index \cup {NoCall}, size : Nat, closed : BOOLEAN, late : Nat]

TypeOK ==
  /\ finished \in BOOLEAN /\ headerSent \in BOOLEAN /\ astray \in BOOLEAN
  /\ text \in {"none", "open", "closed"}
  /\ textAcc \in Nat
  /\ tools \in [Index -> [args : Nat, at : Nat, done : BOOLEAN]]
  /\ \A i \in Index : tools[i].at <= Len(output)
  /\ output \in Seq(Item) /\ listed \in Seq(Item)
  /\ items \in Seq(SeenItem)
  /\ reader \in {"reading", "over"}
  /\ ended \in {"no", "completed", "failed"}

Init ==
  /\ finished = FALSE /\ headerSent = FALSE /\ astray = FALSE
  /\ text = "none" /\ textAcc = 0
  /\ tools = [i \in Index |-> [args |-> 0, at |-> 0, done |-> FALSE]]
  /\ output = <<>> /\ items = <<>> /\ listed = <<>>
  /\ reader = "reading"
  /\ ended = "no"

-----------------------------------------------------------------------------
(* Opening and closing items                                               *)

Present(i) == tools[i].at # 0
OpenCalls == {i \in Index : Present(i) /\ ~ tools[i].done}

\* finishToolItems: the arguments so far are final.
FinishedTools == [i \in Index |-> IF i \in OpenCalls THEN [tools[i] EXCEPT !.done = TRUE] ELSE tools[i]]

\* An item with the size it is listed, or closed, with.
Sized(item, n) == [item EXCEPT !.size = n]
Closed(item, n) == [item EXCEPT !.size = n, !.closed = TRUE]

FinishedCallsIn(out) ==
  [k \in DOMAIN out |->
     IF out[k].call \in OpenCalls THEN Sized(out[k], tools[out[k].call].args) ELSE out[k]]

ClosedCallsIn(seen) ==
  [k \in DOMAIN seen |->
     IF seen[k].call \in OpenCalls THEN Closed(seen[k], tools[seen[k].call].args) ELSE seen[k]]

\* Mutant of FinishedTextIn: the item keeps the text of its announcement.
EmptyTextIn(out) == out

\* finishTextItem updates the stored item where it is the first one.
FinishedTextIn(out) ==
  [k \in DOMAIN out |->
     IF text = "open" /\ k = 1 /\ out[k].kind = "message" THEN Sized(out[k], textAcc) ELSE out[k]]

\* Mutant of ClosedTextIn: a closed message is closed again.
ReclosedTextIn(seen) ==
  [k \in DOMAIN seen |->
     IF text # "none" /\ seen[k].kind = "message" THEN Closed(seen[k], textAcc) ELSE seen[k]]

ClosedTextIn(seen) ==
  [k \in DOMAIN seen |->
     IF text = "open" /\ seen[k].kind = "message" THEN Closed(seen[k], textAcc) ELSE seen[k]]

ClosedText == IF text = "open" THEN "closed" ELSE text

\* outputIndex, from 1
NextPosition == Len(output) + 1

Announced(kind, i) == [kind |-> kind, call |-> i, size |-> 0]
AnnouncedTo(kind, i, n) == [kind |-> kind, call |-> i, size |-> n, closed |-> FALSE, late |-> 0]

\* A delta of n pieces, which may come after the item's output_item.done.
Heard(item, n) ==
  IF item.closed THEN [item EXCEPT !.late = item.late + n] ELSE Sized(item, item.size + n)

Grown(seen, kind, i, n) ==
  [k \in DOMAIN seen |->
     IF seen[k].kind = kind /\ seen[k].call = i THEN Heard(seen[k], n) ELSE seen[k]]

-----------------------------------------------------------------------------
(* pushLine                                                                *)

Pushed == reader = "reading" /\ ~ finished

\* delta.content, the empty string included: whatever calls are open end, and
\* the one message is opened or goes on.
TextChunk(n) ==
  /\ Pushed
  /\ textAcc + n <= MaxPieces
  /\ headerSent' = TRUE
  /\ tools' = FinishedTools
  /\ textAcc' = textAcc + n
  /\ IF text = "none"
     THEN /\ text' = "open"
          /\ output' = Append(FinishedCallsIn(output), Announced("message", NoCall))
          /\ items' = Append(ClosedCallsIn(items), AnnouncedTo("message", NoCall, n))
     ELSE /\ output' = FinishedCallsIn(output)
          /\ items' = Grown(ClosedCallsIn(items), "message", NoCall, n)
          /\ UNCHANGED text
  /\ astray' = (astray \/ (text = "closed" /\ n > 0) \/ (text = "none" /\ output # <<>>))
  /\ UNCHANGED <<finished, reader, ended, listed>>

\* An entry of delta.tool_calls: an open message ends, and the call of that
\* index is opened or goes on, whether it is done or not.  The text of the
\* same chunk is dropped.
ToolChunk(i, n, withText) ==
  LET at == IF Present(i) THEN tools[i].at ELSE NextPosition
      out == FinishedTextIn(output)
      seen == ClosedTextIn(items)
  IN /\ Pushed
     /\ tools[i].args + n <= MaxPieces
     /\ headerSent' = TRUE
     /\ text' = ClosedText
     /\ tools' = [tools EXCEPT ![i] = [args |-> tools[i].args + n, at |-> at, done |-> tools[i].done]]
     /\ IF Present(i)
        THEN output' = out /\ items' = Grown(seen, "call", i, n)
        ELSE /\ output' = Append(out, Announced("call", i))
             /\ items' = Append(seen, AnnouncedTo("call", i, n))
     /\ astray' = (astray \/ withText \/ (tools[i].done /\ n > 0))
     /\ UNCHANGED <<finished, textAcc, reader, ended, listed>>

\* Every open item ends.
CloseAll ==
  /\ tools' = FinishedTools
  /\ text' = ClosedText
  /\ output' = FinishedTextIn(FinishedCallsIn(output))
  /\ items' = ClosedTextIn(ClosedCallsIn(items))

\* finish_reason, or only reasoning: of the reasons, stop and length close.
OtherChunk(reason) ==
  /\ Pushed
  /\ headerSent' = TRUE
  /\ IF reason \in {"stop", "length"} THEN CloseAll ELSE UNCHANGED <<tools, text, output, items>>
  /\ UNCHANGED <<finished, textAcc, reader, ended, listed, astray>>

\* end(), where it has not been called before.
End ==
  IF ~ finished
  THEN /\ finished' = TRUE
       /\ CloseAll
       /\ ended' = "completed"
       /\ listed' = output'
       /\ UNCHANGED <<headerSent, textAcc>>
  ELSE UNCHANGED <<translator, told>>

\* data: [DONE]; the loop goes on reading.
DoneLine == reader = "reading" /\ End /\ UNCHANGED <<reader, astray>>

-----------------------------------------------------------------------------
(* The loop around it                                                      *)

\* The provider closes the stream: what the buffer holds is pushed, and end().
StreamCloses == reader = "reading" /\ reader' = "over" /\ End /\ UNCHANGED astray

\* Reading fails: the loop itself writes response.failed, the translator's
\* end() is not called.
StreamBreaks ==
  /\ reader = "reading" /\ reader' = "over"
  /\ ended' = IF ended = "no" THEN "failed" ELSE ended
  /\ UNCHANGED <<translator, items, listed, astray>>

\* The CLI is gone: the loop returns.
ClientLeaves ==
  /\ reader = "reading" /\ reader' = "over"
  /\ UNCHANGED <<translator, told, astray>>

Next ==
  \/ \E n \in {0, 1} :
       TextChunk(n) \/ \E i \in Index, withText \in BOOLEAN : ToolChunk(i, n, withText)
  \/ \E reason \in {"stop", "length", "other"} : OtherChunk(reason)
  \/ DoneLine
  \/ StreamCloses \/ StreamBreaks \/ ClientLeaves

Spec == Init /\ [][Next]_vars

-----------------------------------------------------------------------------
(* Properties                                                              *)

\* Parallel calls keep their arguments apart, and no piece of the answer is
\* missing from response.completed, as long as the provider sends text before
\* calls, never in one chunk with them, and nothing to what has been closed.
KeepsAll ==
  ended = "completed" /\ ~ astray =>
    /\ \A k \in 1..Len(listed) :
         listed[k].size = IF listed[k].kind = "message" THEN textAcc ELSE tools[listed[k].call].args
    /\ text # "none" => \E k \in 1..Len(listed) : listed[k].kind = "message"
    /\ \A i \in Index : Present(i) => \E k \in 1..Len(listed) : listed[k].call = i

\* Whatever the provider sends, in whatever order, the CLI reads a well-formed
\* stream: an item is closed once, the content it is closed with is final even
\* if deltas for it follow, and a completed response has no open items.
Stream == INSTANCE ResponsesStream WITH items <- items, ended <- ended, listed <- listed
WellFormed == Stream!StreamSpec

\* codex-transform.js: completed.output has to keep every delta of the stream. The code
\* breaks it, so no run checks it: README, section 10.
TextKept ==
  ended = "completed" =>
    \A k \in 1..Len(listed) : listed[k].kind = "message" => listed[k].size = textAcc
=============================================================================
