--------------------------- MODULE ResponsesStream ---------------------------
(***************************************************************************)
(* What the reader of a Responses event stream may rely on, whoever writes  *)
(* the stream: items are announced one after the other, grow, and are       *)
(* closed once, with their content; that content is final, although deltas  *)
(* for the item may still follow (late); a response that completes has      *)
(* closed every item, and lists them.                                       *)
(***************************************************************************)
EXTENDS Naturals, Sequences

VARIABLES
  items,    \* as assembled from the events: kind, size, closed, late
  ended,    \* the first event that ends the response: completed or failed
  listed    \* the items response.completed lists

stream == <<items, ended, listed>>

Start == items = <<>> /\ ended = "no" /\ listed = <<>>

\* Item b is a later state of item a.
Continues(a, b) ==
  /\ b.kind = a.kind
  /\ a.size <= b.size /\ a.late <= b.late
  /\ a.closed => b = [a EXCEPT !.late = b.late]

Extends ==
  /\ Len(items) <= Len(items')
  /\ \A k \in 1..Len(items) : Continues(items[k], items'[k])

Write == ended = "no" /\ Extends /\ UNCHANGED <<ended, listed>>

\* Calls are listed as they were closed, and so is a message that comes first.
Lists ==
  /\ Len(listed') = Len(items')
  /\ \A k \in 1..Len(items') :
       /\ listed'[k].kind = items'[k].kind
       /\ k = 1 \/ items'[k].kind = "call" => listed'[k].size = items'[k].size

Complete ==
  /\ ended = "no"
  /\ Extends
  /\ \A k \in 1..Len(items') : items'[k].closed
  /\ ended' = "completed"
  /\ Lists

Fail == ended = "no" /\ ended' = "failed" /\ UNCHANGED <<items, listed>>

StreamSpec == Start /\ [][Write \/ Complete \/ Fail]_stream
=============================================================================
