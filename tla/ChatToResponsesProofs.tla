------------------------ MODULE ChatToResponsesProofs ------------------------
(***************************************************************************)
(* Proofs about ChatToResponses, for any number of parallel calls and any   *)
(* length of an answer: the translator keeps its types, what the CLI reads  *)
(* is the stream that ResponsesStream specifies, and all of the answer is   *)
(* in the response.                                                         *)
(***************************************************************************)
EXTENDS ChatToResponses, SequenceTheorems, TLAPS

USE ChatAssumption

-----------------------------------------------------------------------------
(* The translator's items and the CLI's                                    *)

\* A message is open with all of the text, or closed; the first one is stored
\* with the text it was closed with.
MessageTracks(k) ==
  items[k].kind = "message" =>
    /\ items[k].call = NoCall
    /\ text # "none"
    /\ items[k].closed <=> text = "closed"
    /\ text = "open" => items[k].size = textAcc
    /\ k = 1 /\ text = "closed" => output[k].size = items[k].size

\* A call is open with all of its arguments, or closed and stored with those it
\* was closed with.
CallTracks(k) ==
  items[k].kind = "call" =>
    /\ items[k].call \in Index
    /\ Present(items[k].call)
    /\ items[k].closed <=> tools[items[k].call].done
    /\ ~ items[k].closed => items[k].size = tools[items[k].call].args
    /\ items[k].closed => output[k].size = items[k].size

Tracks(k) ==
  /\ output[k].kind = items[k].kind
  /\ output[k].call = items[k].call
  /\ MessageTracks(k)
  /\ CallTracks(k)

\* What has not been opened has no piece yet.
Fresh ==
  /\ text = "none" => textAcc = 0
  /\ \A i \in Index : ~ Present(i) => tools[i].args = 0 /\ ~ tools[i].done

\* The translator is finished when the response is completed; it does not fail.
EndsMatch ==
  /\ finished <=> ended = "completed"
  /\ ended = "failed" => reader = "over"

ChatInv ==
  /\ TypeOK
  /\ Len(items) = Len(output)
  /\ \A k \in 1..Len(items) : Tracks(k)
  /\ Fresh
  /\ EndsMatch

-----------------------------------------------------------------------------
(* The helpers, element by element                                         *)

\* A function over the indexes of a sequence is a sequence as long.
LEMMA SameLength ==
  ASSUME NEW S, NEW T, NEW s \in Seq(S), NEW f \in [1..Len(s) -> T]
  PROVE  f \in Seq(T) /\ Len(f) = Len(s)
<1>1. Len(s) \in Nat
  BY LenProperties
<1>2. QED
  BY <1>1

LEMMA Closes ==
  ASSUME NEW a \in SeenItem, NEW n \in Nat
  PROVE  /\ Closed(a, n) \in SeenItem
         /\ Closed(a, n).kind = a.kind /\ Closed(a, n).call = a.call
         /\ Closed(a, n).size = n /\ Closed(a, n).closed
         /\ Closed(a, n).late = a.late
<1>1. Closed(a, n) \in SeenItem
  BY DEF Closed, SeenItem
<1>2. Closed(a, n).kind = a.kind /\ Closed(a, n).call = a.call
  BY DEF Closed, SeenItem
<1>3. Closed(a, n).size = n
  BY DEF Closed, SeenItem
<1>4. Closed(a, n).closed
  BY Zenon DEF Closed, SeenItem
<1>5. Closed(a, n).late = a.late
  BY DEF Closed, SeenItem
<1>6. QED
  BY <1>1, <1>2, <1>3, <1>4, <1>5

LEMMA SameContinues ==
  ASSUME NEW a \in SeenItem
  PROVE  Stream!Continues(a, a)
<1>1. a.size \in Nat /\ a.late \in Nat
  BY DEF SeenItem
<1>2. a = [a EXCEPT !.late = a.late]
  BY DEF SeenItem
<1>3. QED
  BY <1>1, <1>2 DEF Stream!Continues

LEMMA Sizes ==
  ASSUME NEW n \in Nat
  PROVE  /\ \A a \in Item :
              /\ Sized(a, n) \in Item
              /\ Sized(a, n).kind = a.kind /\ Sized(a, n).call = a.call /\ Sized(a, n).size = n
         /\ \A a \in SeenItem :
              /\ Sized(a, n) \in SeenItem
              /\ Sized(a, n).kind = a.kind /\ Sized(a, n).call = a.call
              /\ Sized(a, n).size = n /\ Sized(a, n).closed = a.closed
BY DEF Sized, Item, SeenItem

\* A delta changes the size of an open item and nothing a closed one was
\* closed with.
LEMMA Hears ==
  ASSUME NEW a \in SeenItem, NEW n \in Nat
  PROVE  /\ Heard(a, n) \in SeenItem
         /\ Heard(a, n).kind = a.kind /\ Heard(a, n).call = a.call
         /\ Heard(a, n).closed = a.closed
         /\ Heard(a, n).size = IF a.closed THEN a.size ELSE a.size + n
         /\ Stream!Continues(a, Heard(a, n))
<1>1. a.size \in Nat /\ a.late \in Nat /\ a.size + n \in Nat /\ a.late + n \in Nat
  BY DEF SeenItem
<1>2. CASE a.closed
  <2>1. Heard(a, n) = [a EXCEPT !.late = a.late + n]
    BY <1>2 DEF Heard
  <2>2. /\ Heard(a, n) \in SeenItem
        /\ Heard(a, n).kind = a.kind /\ Heard(a, n).call = a.call
        /\ Heard(a, n).size = a.size /\ Heard(a, n).late = a.late + n
    BY <1>1, <2>1 DEF SeenItem
  <2>3. Heard(a, n).closed = a.closed
    BY <2>1, Zenon DEF SeenItem
  <2>4. Stream!Continues(a, Heard(a, n))
    <3>1. Heard(a, n) = [a EXCEPT !.late = Heard(a, n).late]
      BY <2>1, <2>2
    <3>2. QED
      BY <1>1, <2>2, <3>1 DEF Stream!Continues
  <2>5. QED
    BY <1>2, <2>2, <2>3, <2>4
<1>3. CASE ~ a.closed
  <2>1. Heard(a, n) = Sized(a, a.size + n)
    BY <1>3 DEF Heard
  <2>2. /\ Heard(a, n) \in SeenItem
        /\ Heard(a, n).kind = a.kind /\ Heard(a, n).call = a.call
        /\ Heard(a, n).size = a.size + n /\ Heard(a, n).closed = a.closed
    BY <1>1, <2>1, Sizes
  <2>3. Heard(a, n).late = a.late
    BY <2>1 DEF Sized, SeenItem
  <2>4. Stream!Continues(a, Heard(a, n))
    BY <1>1, <1>3, <2>2, <2>3 DEF Stream!Continues
  <2>5. QED
    BY <1>3, <2>2, <2>4
<1>4. QED
  BY <1>2, <1>3

LEMMA FinishedCalls ==
  ASSUME TypeOK, NEW out \in Seq(Item)
  PROVE  /\ FinishedCallsIn(out) \in Seq(Item)
         /\ Len(FinishedCallsIn(out)) = Len(out)
         /\ \A k \in 1..Len(out) :
              FinishedCallsIn(out)[k] =
                IF out[k].call \in OpenCalls
                  THEN Sized(out[k], tools[out[k].call].args) ELSE out[k]
<1>1. DOMAIN out = 1..Len(out)
  BY LenProperties
<1>2. \A k \in 1..Len(out) : out[k] \in Item
  BY ElementOfSeq
<1>3. \A i \in OpenCalls : tools[i].args \in Nat
  BY DEF TypeOK, OpenCalls
<1>4. FinishedCallsIn(out) \in [1..Len(out) -> Item]
  BY <1>1, <1>2, <1>3, Sizes DEF FinishedCallsIn
<1>5. QED
  BY <1>1, <1>4, SameLength DEF FinishedCallsIn

LEMMA FinishedText ==
  ASSUME TypeOK, NEW out \in Seq(Item)
  PROVE  /\ FinishedTextIn(out) \in Seq(Item)
         /\ Len(FinishedTextIn(out)) = Len(out)
         /\ \A k \in 1..Len(out) :
              FinishedTextIn(out)[k] =
                IF text = "open" /\ k = 1 /\ out[k].kind = "message"
                  THEN Sized(out[k], textAcc) ELSE out[k]
<1>1. DOMAIN out = 1..Len(out)
  BY LenProperties
<1>2. \A k \in 1..Len(out) : out[k] \in Item
  BY ElementOfSeq
<1>3. textAcc \in Nat
  BY DEF TypeOK
<1>4. FinishedTextIn(out) \in [1..Len(out) -> Item]
  BY <1>1, <1>2, <1>3, Sizes DEF FinishedTextIn
<1>5. QED
  BY <1>1, <1>4, SameLength DEF FinishedTextIn

LEMMA ClosedCalls ==
  ASSUME TypeOK, NEW seen \in Seq(SeenItem)
  PROVE  /\ ClosedCallsIn(seen) \in Seq(SeenItem)
         /\ Len(ClosedCallsIn(seen)) = Len(seen)
         /\ \A k \in 1..Len(seen) :
              ClosedCallsIn(seen)[k] =
                IF seen[k].call \in OpenCalls
                  THEN Closed(seen[k], tools[seen[k].call].args)
                  ELSE seen[k]
<1>1. DOMAIN seen = 1..Len(seen)
  BY LenProperties
<1>2. \A k \in 1..Len(seen) : seen[k] \in SeenItem
  BY ElementOfSeq
<1>3. \A i \in OpenCalls : tools[i].args \in Nat
  BY DEF TypeOK, OpenCalls
<1>4. ClosedCallsIn(seen) \in [1..Len(seen) -> SeenItem]
  BY <1>1, <1>2, <1>3, Closes DEF ClosedCallsIn
<1>5. \A k \in 1..Len(seen) :
        ClosedCallsIn(seen)[k] =
          IF seen[k].call \in OpenCalls
            THEN Closed(seen[k], tools[seen[k].call].args) ELSE seen[k]
  BY <1>1, Zenon DEF ClosedCallsIn
<1>6. QED
  BY <1>4, <1>5, SameLength, Zenon

LEMMA ClosedTexts ==
  ASSUME TypeOK, NEW seen \in Seq(SeenItem)
  PROVE  /\ ClosedTextIn(seen) \in Seq(SeenItem)
         /\ Len(ClosedTextIn(seen)) = Len(seen)
         /\ \A k \in 1..Len(seen) :
              ClosedTextIn(seen)[k] =
                IF text = "open" /\ seen[k].kind = "message"
                  THEN Closed(seen[k], textAcc) ELSE seen[k]
<1>1. DOMAIN seen = 1..Len(seen)
  BY LenProperties
<1>2. \A k \in 1..Len(seen) : seen[k] \in SeenItem
  BY ElementOfSeq
<1>3. textAcc \in Nat
  BY DEF TypeOK
<1>4. ClosedTextIn(seen) \in [1..Len(seen) -> SeenItem]
  BY <1>1, <1>2, <1>3, Closes DEF ClosedTextIn
<1>5. \A k \in 1..Len(seen) :
        ClosedTextIn(seen)[k] =
          IF text = "open" /\ seen[k].kind = "message"
            THEN Closed(seen[k], textAcc) ELSE seen[k]
  BY <1>1, Zenon DEF ClosedTextIn
<1>6. ClosedTextIn(seen) \in Seq(SeenItem) /\ Len(ClosedTextIn(seen)) = Len(seen)
  BY <1>4, SameLength
<1>7. QED
  BY <1>5, <1>6

LEMMA Grows ==
  ASSUME NEW seen \in Seq(SeenItem), NEW kind, NEW i, NEW n \in Nat
  PROVE  /\ Grown(seen, kind, i, n) \in Seq(SeenItem)
         /\ Len(Grown(seen, kind, i, n)) = Len(seen)
         /\ \A k \in 1..Len(seen) :
              Grown(seen, kind, i, n)[k] =
                IF seen[k].kind = kind /\ seen[k].call = i THEN Heard(seen[k], n) ELSE seen[k]
<1>1. DOMAIN seen = 1..Len(seen)
  BY LenProperties
<1>2. \A k \in 1..Len(seen) : seen[k] \in SeenItem
  BY ElementOfSeq
<1>3. Grown(seen, kind, i, n) \in [1..Len(seen) -> SeenItem]
  BY <1>1, <1>2, Hears DEF Grown
<1>4. QED
  BY <1>1, <1>3, SameLength DEF Grown

\* What is finished keeps its arguments and its place.
LEMMA Finishing ==
  ASSUME TypeOK
  PROVE  /\ FinishedTools \in [Index -> [args : Nat, at : Nat, done : BOOLEAN]]
         /\ \A i \in Index :
              /\ FinishedTools[i].args = tools[i].args
              /\ FinishedTools[i].at = tools[i].at
              /\ FinishedTools[i].done <=> i \in OpenCalls \/ tools[i].done
<1>1. ASSUME NEW i \in Index
      PROVE  LET t == IF i \in OpenCalls THEN [tools[i] EXCEPT !.done = TRUE] ELSE tools[i]
             IN /\ t \in [args : Nat, at : Nat, done : BOOLEAN]
                /\ t.args = tools[i].args /\ t.at = tools[i].at
                /\ t.done <=> i \in OpenCalls \/ tools[i].done
  <2>1. tools[i] \in [args : Nat, at : Nat, done : BOOLEAN]
    BY DEF TypeOK
  <2>2. QED
    BY <2>1
<1>2. \A i \in Index :
        FinishedTools[i] = IF i \in OpenCalls THEN [tools[i] EXCEPT !.done = TRUE] ELSE tools[i]
  BY Zenon DEF FinishedTools
<1>3. FinishedTools \in [Index -> [args : Nat, at : Nat, done : BOOLEAN]]
  BY <1>1, Zenon DEF FinishedTools
<1>4. QED
  BY <1>1, <1>2, <1>3

-----------------------------------------------------------------------------
(* Closing                                                                 *)

\* The elements of both sequences are items.
LEMMA Elements ==
  ASSUME ChatInv, NEW k \in 1..Len(items)
  PROVE  /\ items[k] \in SeenItem /\ output[k] \in Item
         /\ k \in 1..Len(output)
<1>1. k \in 1..Len(output)
  BY DEF ChatInv
<1>2. items \in Seq(SeenItem) /\ output \in Seq(Item)
  BY DEF ChatInv, TypeOK
<1>3. QED
  BY <1>1, <1>2, ElementOfSeq

\* Once the calls are closed every call is final and stored as it was closed;
\* messages are left alone.
LEMMA CallsClose ==
  ASSUME ChatInv, NEW k \in 1..Len(items)
  PROVE  LET a == ClosedCallsIn(items)[k]
             o == FinishedCallsIn(output)[k]
         IN /\ a \in SeenItem /\ o \in Item
            /\ a.kind = items[k].kind /\ a.call = items[k].call
            /\ o.kind = a.kind /\ o.call = a.call
            /\ a.kind = "message" => a = items[k] /\ o = output[k]
            /\ a.kind = "call" =>
                 /\ a.closed /\ o.size = a.size
                 /\ a.call \in Index /\ FinishedTools[a.call].done /\ FinishedTools[a.call].at # 0
            /\ Stream!Continues(items[k], a)
<1>1. items[k] \in SeenItem /\ output[k] \in Item /\ k \in 1..Len(output)
  BY Elements
<1>2. Tracks(k) /\ TypeOK /\ items \in Seq(SeenItem) /\ output \in Seq(Item)
  BY DEF ChatInv, TypeOK
<1>3. ClosedCallsIn(items)[k] =
        IF items[k].call \in OpenCalls
          THEN Closed(items[k], tools[items[k].call].args) ELSE items[k]
  BY <1>2, ClosedCalls
<1>4. FinishedCallsIn(output)[k] =
        IF output[k].call \in OpenCalls
          THEN Sized(output[k], tools[output[k].call].args) ELSE output[k]
  BY <1>1, <1>2, FinishedCalls
<1>5. output[k].call = items[k].call /\ output[k].kind = items[k].kind
  BY <1>2 DEF Tracks
<1>6. items[k].kind = "message" => items[k].call \notin OpenCalls
  BY <1>2 DEF Tracks, MessageTracks, OpenCalls
<1>7. CASE items[k].call \in OpenCalls
  <2>1. items[k].call \in Index /\ tools[items[k].call].args \in Nat
        /\ tools[items[k].call].at # 0 /\ ~ tools[items[k].call].done
    BY <1>2, <1>7 DEF OpenCalls, TypeOK, Present
  <2>2. items[k].kind = "call" /\ ~ items[k].closed /\ items[k].size = tools[items[k].call].args
    BY <1>1, <1>2, <1>6, <1>7, <2>1 DEF Tracks, CallTracks, SeenItem, Kinds
  <2>3. FinishedTools[items[k].call].done /\ FinishedTools[items[k].call].at # 0
    BY <1>2, <1>7, <2>1, Finishing
  <2> DEFINE a == ClosedCallsIn(items)[k]
             o == FinishedCallsIn(output)[k]
             n == tools[items[k].call].args
  <2>4. a \in SeenItem /\ a.kind = items[k].kind /\ a.call = items[k].call /\ a.size = n /\ a.closed
        /\ a.late = items[k].late
    <3>1. a = Closed(items[k], n)
      BY <1>3, <1>7
    <3>2. n \in Nat /\ items[k] \in SeenItem
      BY <1>1, <2>1
    <3> HIDE DEF a, n
    <3>3. QED
      BY <3>1, <3>2, Closes
  <2>5. o \in Item /\ o.kind = output[k].kind /\ o.call = output[k].call /\ o.size = n
    BY <1>1, <1>4, <1>5, <1>7, <2>1, Sizes
  <2>6. a.kind = "call" /\ Stream!Continues(items[k], a)
    <3>1. items[k].late \in Nat
      BY <1>1 DEF SeenItem
    <3>2. QED
      BY <2>1, <2>2, <2>4, <3>1 DEF Stream!Continues
  <2>7. QED
    BY <1>5, <2>1, <2>3, <2>4, <2>5, <2>6
<1>8. CASE items[k].call \notin OpenCalls
  <2>1. items[k].kind = "call" =>
          /\ items[k].call \in Index /\ tools[items[k].call].at # 0
          /\ tools[items[k].call].done /\ items[k].closed /\ output[k].size = items[k].size
    BY <1>2, <1>8 DEF Tracks, CallTracks, OpenCalls, Present
  <2>2. items[k].kind = "call" =>
          FinishedTools[items[k].call].done /\ FinishedTools[items[k].call].at # 0
    BY <1>2, <2>1, Finishing
  <2>3. Stream!Continues(items[k], items[k])
    BY <1>1, SameContinues
  <2>4. QED
    BY <1>1, <1>3, <1>4, <1>5, <1>8, <2>1, <2>2, <2>3
<1>9. QED
  BY <1>7, <1>8

\* Once the text is closed so is every message, and the first one is stored as
\* it was closed; calls are left alone.
LEMMA TextCloses ==
  ASSUME ChatInv, NEW k \in 1..Len(items),
         NEW seen \in Seq(SeenItem), Len(seen) = Len(items),
         NEW out \in Seq(Item), Len(out) = Len(items),
         seen[k].kind = items[k].kind, seen[k].call = items[k].call,
         out[k].kind = items[k].kind, out[k].call = items[k].call,
         seen[k].kind = "message" => seen[k] = items[k] /\ out[k] = output[k]
  PROVE  LET a == ClosedTextIn(seen)[k]
             o == FinishedTextIn(out)[k]
         IN /\ a \in SeenItem /\ o \in Item
            /\ a.kind = items[k].kind /\ a.call = items[k].call
            /\ o.kind = a.kind /\ o.call = a.call
            /\ a.kind = "message" =>
                 a.closed /\ a.call = NoCall /\ ClosedText = "closed" /\ (k = 1 => o.size = a.size)
            /\ a.kind = "call" => a = seen[k] /\ o = out[k]
            /\ Stream!Continues(seen[k], a)
<1>1. seen[k] \in SeenItem /\ out[k] \in Item
  BY ElementOfSeq
<1>2. Tracks(k) /\ TypeOK /\ textAcc \in Nat /\ text \in {"none", "open", "closed"}
  BY DEF ChatInv, TypeOK
<1>3. ClosedTextIn(seen)[k] =
        IF text = "open" /\ seen[k].kind = "message"
          THEN Closed(seen[k], textAcc) ELSE seen[k]
  BY <1>2, ClosedTexts
<1>4. FinishedTextIn(out)[k] =
        IF text = "open" /\ k = 1 /\ out[k].kind = "message"
          THEN Sized(out[k], textAcc) ELSE out[k]
  BY <1>2, FinishedText
<1>5. CASE seen[k].kind = "message"
  <2>1. items[k].call = NoCall /\ text # "none" /\ (items[k].closed <=> text = "closed")
        /\ (text = "open" => items[k].size = textAcc)
        /\ (k = 1 /\ text = "closed" => output[k].size = items[k].size)
    BY <1>2, <1>5 DEF Tracks, MessageTracks
  <2>2. CASE text = "open"
    <3> DEFINE a == ClosedTextIn(seen)[k]
               o == FinishedTextIn(out)[k]
    <3>1. a \in SeenItem /\ a.kind = seen[k].kind /\ a.call = seen[k].call /\ a.size = textAcc /\ a.closed
          /\ a.late = seen[k].late
      <4>1. a = Closed(seen[k], textAcc)
        BY <1>3, <1>5, <2>2
      <4>2. LET b == Closed(seen[k], textAcc)
            IN b \in SeenItem /\ b.kind = seen[k].kind /\ b.call = seen[k].call
               /\ b.size = textAcc /\ b.closed /\ b.late = seen[k].late
        BY <1>1, <1>2, Closes
      <4>3. QED
        BY <4>1, <4>2, Zenon
    <3>2. o \in Item /\ o.kind = out[k].kind /\ o.call = out[k].call /\ (k = 1 => o.size = textAcc)
      BY <1>1, <1>2, <1>4, <1>5, <2>2, Sizes
    <3>3. Stream!Continues(seen[k], a)
      <4>1. seen[k].late \in Nat
        BY <1>1 DEF SeenItem
      <4>2. QED
        BY <1>2, <1>5, <2>1, <2>2, <3>1, <4>1 DEF Stream!Continues
    <3>4. QED
      BY <1>5, <2>1, <2>2, <3>1, <3>2, <3>3 DEF ClosedText
  <2>3. CASE text = "closed"
    BY <1>1, <1>2, <1>3, <1>4, <1>5, <2>1, <2>3, SameContinues DEF SeenItem, Item, ClosedText
  <2>4. QED
    BY <1>2, <2>1, <2>2, <2>3
<1>6. CASE seen[k].kind # "message"
  <2>1. Stream!Continues(seen[k], seen[k])
    BY <1>1, SameContinues
  <2>2. QED
    BY <1>1, <1>3, <1>4, <1>6, <2>1
<1>7. QED
  BY <1>5, <1>6

\* What the CLI has seen continues through two changes as through one.
LEMMA ContinuesOn ==
  ASSUME NEW a \in SeenItem, NEW b \in SeenItem, NEW c \in SeenItem,
         Stream!Continues(a, b), Stream!Continues(b, c)
  PROVE  Stream!Continues(a, c)
BY DEF Stream!Continues, SeenItem

LEMMA Appended ==
  ASSUME NEW S, NEW s \in Seq(S), NEW e \in S
  PROVE  /\ Append(s, e) \in Seq(S)
         /\ Len(Append(s, e)) = Len(s) + 1
         /\ \A k \in 1..Len(s) : Append(s, e)[k] = s[k]
         /\ Append(s, e)[Len(s) + 1] = e
BY LenProperties

-----------------------------------------------------------------------------
(* The steps                                                               *)

\* The part of the invariant that a chunk disturbs.
Shape ==
  /\ text \in {"none", "open", "closed"} /\ textAcc \in Nat
  /\ tools \in [Index -> [args : Nat, at : Nat, done : BOOLEAN]]
  /\ \A i \in Index : tools[i].at <= Len(output)
  /\ output \in Seq(Item) /\ items \in Seq(SeenItem)
  /\ Len(items) = Len(output)
  /\ \A k \in 1..Len(items) : Tracks(k)
  /\ Fresh

LEMMA ShapeHolds == ChatInv => Shape
BY DEF ChatInv, TypeOK, Shape

\* All calls closed, by a chunk of text or at the end.
LEMMA CallsClosed ==
  ASSUME ChatInv, tools' = FinishedTools, Len(output') >= Len(output)
  PROVE  /\ (tools \in [Index -> [args : Nat, at : Nat, done : BOOLEAN]])'
         /\ (\A i \in Index : tools[i].at <= Len(output))'
         /\ (\A i \in Index : ~ Present(i) => tools[i].args = 0 /\ ~ tools[i].done)'
<1>1. TypeOK /\ Fresh
  BY DEF ChatInv
<1>2. /\ tools' \in [Index -> [args : Nat, at : Nat, done : BOOLEAN]]
      /\ \A i \in Index :
           /\ tools'[i].args = tools[i].args /\ tools'[i].at = tools[i].at
           /\ tools'[i].done <=> i \in OpenCalls \/ tools[i].done
  BY <1>1, Finishing
<1>3. ASSUME NEW i \in Index PROVE tools'[i].at <= Len(output')
  <2>1. tools[i].at \in Nat /\ tools[i].at <= Len(output) /\ tools'[i].at = tools[i].at
    BY <1>1, <1>2 DEF TypeOK
  <2>2. QED
    BY <2>1
<1>4. ASSUME NEW i \in Index, tools'[i].at = 0 PROVE tools'[i].args = 0 /\ ~ tools'[i].done
  BY <1>1, <1>2, <1>4 DEF Fresh, Present, OpenCalls
<1>5. QED
  BY <1>2, <1>3, <1>4 DEF Present

LEMMA TextStep ==
  ASSUME ChatInv, NEW n \in {0, 1}, TextChunk(n)
  PROVE  Shape' /\ Stream!Extends
<1> DEFINE seen == ClosedCallsIn(items)
           out == FinishedCallsIn(output)
<1>1. TypeOK /\ Fresh /\ Len(items) = Len(output) /\ n \in Nat
      /\ items \in Seq(SeenItem) /\ output \in Seq(Item) /\ textAcc \in Nat /\ Len(items) \in Nat
  BY DEF ChatInv, TypeOK
<1>2. /\ seen \in Seq(SeenItem) /\ Len(seen) = Len(items)
      /\ out \in Seq(Item) /\ Len(out) = Len(items)
  BY <1>1, ClosedCalls, FinishedCalls
<1>3. tools' = FinishedTools /\ textAcc' = textAcc + n
  BY DEF TextChunk
<1>4. \A k \in 1..Len(items) :
        /\ seen[k] \in SeenItem /\ out[k] \in Item
        /\ seen[k].kind = items[k].kind /\ seen[k].call = items[k].call
        /\ out[k].kind = seen[k].kind /\ out[k].call = seen[k].call
        /\ seen[k].kind = "message" => seen[k] = items[k] /\ out[k] = output[k]
        /\ seen[k].kind = "call" =>
             /\ seen[k].closed /\ out[k].size = seen[k].size
             /\ seen[k].call \in Index /\ tools'[seen[k].call].done /\ tools'[seen[k].call].at # 0
        /\ Stream!Continues(items[k], seen[k])
  BY <1>3, CallsClose
<1>5. CASE text = "none"
  <2> DEFINE e == AnnouncedTo("message", NoCall, n)
             o == Announced("message", NoCall)
  <2>1. items' = Append(seen, e) /\ output' = Append(out, o) /\ text' = "open" /\ textAcc' = n
    BY <1>1, <1>3, <1>5 DEF TextChunk, Fresh
  <2>2. e \in SeenItem /\ o \in Item
    BY <1>1 DEF AnnouncedTo, Announced, SeenItem, Item, Kinds
  <2>3. /\ items' \in Seq(SeenItem) /\ Len(items') = Len(items) + 1
        /\ output' \in Seq(Item) /\ Len(output') = Len(items) + 1
        /\ \A k \in 1..Len(items) : items'[k] = seen[k] /\ output'[k] = out[k]
        /\ items'[Len(items) + 1] = e /\ output'[Len(items) + 1] = o
    BY <1>2, <2>1, <2>2, Appended
  <2>4. ASSUME NEW k \in 1..Len(items) PROVE Tracks(k)'
    <3>1. items'[k] = seen[k] /\ output'[k] = out[k]
      BY <2>3
    <3>2. Tracks(k)
      BY DEF ChatInv
    <3>3. seen[k].kind # "message"
      BY <1>4, <1>5, <3>2 DEF Tracks, MessageTracks
    <3>4. QED
      BY <1>4, <3>1, <3>3 DEF Tracks, MessageTracks, CallTracks, Present
  <2>5. ASSUME NEW k \in Nat, k = Len(items) + 1 PROVE Tracks(k)'
    BY <2>1, <2>3, <2>5 DEF Tracks, MessageTracks, CallTracks, AnnouncedTo, Announced
  <2>6. (\A k \in 1..Len(items) : Tracks(k))'
    BY <1>1, <2>3, <2>4, <2>5
  <2>7. Stream!Extends
    BY <1>1, <1>4, <2>3 DEF Stream!Extends
  <2>8. QED
    BY <1>1, <1>3, <2>1, <2>3, <2>6, <2>7, CallsClosed DEF Shape, Fresh
<1>6. CASE text # "none"
  <2>1. items' = Grown(seen, "message", NoCall, n) /\ output' = out /\ text' = text
    BY <1>6 DEF TextChunk
  <2>2. /\ items' \in Seq(SeenItem) /\ Len(items') = Len(items)
        /\ output' \in Seq(Item) /\ Len(output') = Len(items)
        /\ \A k \in 1..Len(items) :
             items'[k] = IF seen[k].kind = "message" /\ seen[k].call = NoCall
                           THEN Heard(seen[k], n) ELSE seen[k]
    BY <1>1, <1>2, <2>1, Grows
  <2>3. ASSUME NEW k \in 1..Len(items)
        PROVE  Tracks(k)' /\ Stream!Continues(items[k], items'[k])
    <3>1. Tracks(k) /\ seen[k] \in SeenItem /\ seen[k].size \in Nat
      BY <1>4 DEF ChatInv, SeenItem
    <3>0. PICK h \in SeenItem :
            /\ h = Heard(seen[k], n)
            /\ h.kind = seen[k].kind /\ h.call = seen[k].call
            /\ h.closed = seen[k].closed
            /\ h.size = IF seen[k].closed THEN seen[k].size ELSE seen[k].size + n
            /\ Stream!Continues(seen[k], h)
      BY <1>1, <3>1, Hears
    <3>2. CASE seen[k].kind = "message" /\ ~ seen[k].closed
      <4>1. seen[k] = items[k] /\ out[k] = output[k] /\ items[k].call = NoCall
            /\ text = "open" /\ items[k].size = textAcc
        BY <1>1, <1>4, <3>1, <3>2 DEF Tracks, MessageTracks, TypeOK
      <4>2. items'[k] = h
        BY <2>2, <3>0, <3>2, <4>1
      <4>3. /\ items'[k].kind = items[k].kind /\ items'[k].call = items[k].call
            /\ items'[k].size = textAcc + n /\ items'[k].closed = items[k].closed
        BY <3>0, <3>2, <4>1, <4>2, Zenon
      <4>4. Stream!Continues(items[k], items'[k])
        BY <3>0, <4>1, <4>2, Zenon
      <4>5. Tracks(k)'
        BY <1>3, <2>1, <3>1, <3>2, <4>1, <4>3 DEF Tracks, MessageTracks, CallTracks
      <4>6. QED
        BY <4>4, <4>5
    <3>3. CASE ~ (seen[k].kind = "message" /\ ~ seen[k].closed)
      <4>1. /\ output'[k] = out[k] /\ items'[k] \in SeenItem
            /\ items'[k].kind = seen[k].kind /\ items'[k].call = seen[k].call
            /\ items'[k].closed = seen[k].closed /\ items'[k].size = seen[k].size
            /\ Stream!Continues(seen[k], items'[k])
        <5>1. items'[k] = seen[k] \/ (items'[k] = h /\ seen[k].closed)
          BY <1>1, <2>1, <2>2, <3>1, <3>3, <3>0
        <5>2. Stream!Continues(seen[k], seen[k])
          BY <3>1, SameContinues
        <5>3. output'[k] = out[k]
          BY <2>1
        <5>4. QED
          BY <3>1, <3>0, <5>1, <5>2, <5>3, Zenon
      <4>2. Tracks(k)'
        BY <1>4, <2>1, <3>1, <3>3, <4>1 DEF Tracks, MessageTracks, CallTracks, Present
      <4>3. Stream!Continues(items[k], items'[k])
        BY <1>4, <3>1, <4>1, Elements, ContinuesOn
      <4>4. QED
        BY <4>2, <4>3
    <3>4. QED
      BY <3>2, <3>3
  <2>4. Stream!Extends
    BY <1>1, <2>2, <2>3 DEF Stream!Extends
  <2>5. (\A k \in 1..Len(items) : Tracks(k))'
    BY <2>2, <2>3
  <2>6. text' \in {"none", "open", "closed"} /\ text' # "none"
    BY <1>1, <1>6, <2>1 DEF TypeOK
  <2>7. QED
    BY <1>1, <1>3, <2>2, <2>4, <2>5, <2>6, CallsClosed DEF Shape, Fresh
<1>7. QED
  BY <1>5, <1>6

LEMMA ToolStep ==
  ASSUME ChatInv, NEW i \in Index, NEW n \in {0, 1}, NEW w \in BOOLEAN, ToolChunk(i, n, w)
  PROVE  Shape' /\ Stream!Extends
<1> DEFINE seen == ClosedTextIn(items)
           out == FinishedTextIn(output)
           at == IF Present(i) THEN tools[i].at ELSE NextPosition
<1>1. TypeOK /\ Fresh /\ Len(items) = Len(output) /\ n \in Nat
      /\ items \in Seq(SeenItem) /\ output \in Seq(Item) /\ textAcc \in Nat /\ Len(items) \in Nat
      /\ tools \in [Index -> [args : Nat, at : Nat, done : BOOLEAN]]
  BY DEF ChatInv, TypeOK
<1>2. /\ seen \in Seq(SeenItem) /\ Len(seen) = Len(items)
      /\ out \in Seq(Item) /\ Len(out) = Len(items)
  BY <1>1, ClosedTexts, FinishedText
<1>3. /\ textAcc' = textAcc /\ text' = ClosedText
      /\ tools' = [tools EXCEPT ![i] = [args |-> tools[i].args + n, at |-> at, done |-> tools[i].done]]
  BY DEF ToolChunk
<1>4. ASSUME NEW k \in 1..Len(items)
      PROVE  /\ seen[k] \in SeenItem /\ out[k] \in Item
             /\ seen[k].kind = items[k].kind /\ seen[k].call = items[k].call
             /\ out[k].kind = seen[k].kind /\ out[k].call = seen[k].call
             /\ seen[k].kind = "message" =>
                  seen[k].closed /\ seen[k].call = NoCall /\ text' = "closed"
                  /\ (k = 1 => out[k].size = seen[k].size)
             /\ seen[k].kind = "call" => seen[k] = items[k] /\ out[k] = output[k]
             /\ Stream!Continues(items[k], seen[k])
             /\ Tracks(k)
  <2>1. Tracks(k)
    BY DEF ChatInv
  <2>2. output[k].kind = items[k].kind /\ output[k].call = items[k].call
    BY <2>1 DEF Tracks
  <2>3. LET a == ClosedTextIn(items)[k]
            o == FinishedTextIn(output)[k]
        IN /\ a \in SeenItem /\ o \in Item
           /\ a.kind = items[k].kind /\ a.call = items[k].call
           /\ o.kind = a.kind /\ o.call = a.call
           /\ a.kind = "message" =>
                a.closed /\ a.call = NoCall /\ ClosedText = "closed" /\ (k = 1 => o.size = a.size)
           /\ a.kind = "call" => a = items[k] /\ o = output[k]
           /\ Stream!Continues(items[k], a)
    <3>1. Len(items) = Len(items) /\ items[k].kind = items[k].kind /\ items[k].call = items[k].call
          /\ (items[k].kind = "message" => items[k] = items[k] /\ output[k] = output[k])
      OBVIOUS
    <3>2. Len(output) = Len(items)
      BY <1>1
    <3>3. items \in Seq(SeenItem) /\ output \in Seq(Item)
      BY <1>1
    <3>4. QED
      BY <2>2, <3>1, <3>2, <3>3, TextCloses
  <2>4. QED
    BY <1>3, <2>1, <2>3
<1>5. at \in Nat /\ at # 0 /\ (at <= Len(output) \/ (~ Present(i) /\ at = Len(output) + 1))
  BY <1>1 DEF Present, NextPosition, TypeOK
<1>6. /\ tools' \in [Index -> [args : Nat, at : Nat, done : BOOLEAN]]
      /\ tools'[i].args = tools[i].args + n /\ tools'[i].at = at /\ tools'[i].done = tools[i].done
      /\ \A j \in Index \ {i} : tools'[j] = tools[j]
  <2>1. [args |-> tools[i].args + n, at |-> at, done |-> tools[i].done] \in [args : Nat, at : Nat, done : BOOLEAN]
    BY <1>1, <1>5
  <2>2. QED
    BY <1>1, <1>3, <2>1
<1>7. text' \in {"none", "open", "closed"} /\ (text' = "none" => text = "none")
  BY <1>1, <1>3 DEF TypeOK, ClosedText
<1>8. (\A j \in Index : ~ Present(j) => tools[j].args = 0 /\ ~ tools[j].done)'
  BY <1>1, <1>5, <1>6 DEF Fresh, Present
<1>9. ASSUME Len(output') >= Len(output), at <= Len(output')
      PROVE  \A j \in Index : tools'[j].at <= Len(output')
  <2>1. ASSUME NEW j \in Index \ {i} PROVE tools'[j].at <= Len(output')
    <3>1. tools[j].at \in Nat /\ tools[j].at <= Len(output) /\ tools'[j] = tools[j]
      BY <1>1, <1>6 DEF TypeOK
    <3>2. QED
      BY <1>9, <3>1
  <2>2. QED
    BY <1>6, <1>9, <2>1
<1>10. CASE Present(i)
  <2>1. items' = Grown(seen, "call", i, n) /\ output' = out
    BY <1>10 DEF ToolChunk
  <2>2. /\ items' \in Seq(SeenItem) /\ Len(items') = Len(items)
        /\ output' \in Seq(Item) /\ Len(output') = Len(items)
        /\ \A k \in 1..Len(items) :
             items'[k] = IF seen[k].kind = "call" /\ seen[k].call = i
                           THEN Heard(seen[k], n) ELSE seen[k]
    BY <1>1, <1>2, <2>1, Grows
  <2>3. ASSUME NEW k \in 1..Len(items)
        PROVE  Tracks(k)' /\ Stream!Continues(items[k], items'[k])
    <3>1. seen[k].size \in Nat
      BY <1>4 DEF SeenItem
    <3>0. PICK h \in SeenItem :
            /\ h = Heard(seen[k], n)
            /\ h.kind = seen[k].kind /\ h.call = seen[k].call
            /\ h.closed = seen[k].closed
            /\ h.size = IF seen[k].closed THEN seen[k].size ELSE seen[k].size + n
            /\ Stream!Continues(seen[k], h)
      BY <1>1, <1>4, Hears
    <3>2. CASE seen[k].kind = "call" /\ seen[k].call = i /\ ~ seen[k].closed
      <4>1. seen[k] = items[k] /\ items[k].size = tools[i].args /\ ~ tools[i].done
        BY <1>4, <3>2 DEF Tracks, CallTracks
      <4>2. items'[k] = h
        BY <2>2, <3>0, <3>2
      <4>3. /\ items'[k].kind = items[k].kind /\ items'[k].call = items[k].call
            /\ items'[k].size = tools[i].args + n /\ items'[k].closed = items[k].closed
        BY <3>0, <3>2, <4>1, <4>2, Zenon
      <4>4. Stream!Continues(items[k], items'[k])
        BY <3>0, <4>1, <4>2, Zenon
      <4>5. Tracks(k)'
        BY <1>4, <1>5, <1>6, <2>1, <3>2, <4>1, <4>3 DEF Tracks, MessageTracks, CallTracks, Present
      <4>6. QED
        BY <4>4, <4>5
    <3>3. CASE ~ (seen[k].kind = "call" /\ seen[k].call = i /\ ~ seen[k].closed)
      <4>1. /\ output'[k] = out[k] /\ items'[k] \in SeenItem
            /\ items'[k].kind = seen[k].kind /\ items'[k].call = seen[k].call
            /\ items'[k].closed = seen[k].closed /\ items'[k].size = seen[k].size
            /\ Stream!Continues(seen[k], items'[k])
        <5>1. items'[k] = seen[k] \/ (items'[k] = h /\ seen[k].closed)
          BY <1>1, <1>4, <2>1, <2>2, <3>3, <3>0
        <5>2. Stream!Continues(seen[k], seen[k])
          BY <1>4, SameContinues
        <5>3. output'[k] = out[k]
          BY <2>1
        <5>4. QED
          BY <1>4, <3>0, <5>1, <5>2, <5>3, Zenon
      <4>0. Stream!Continues(items[k], items'[k])
        BY <1>4, <4>1, Elements, ContinuesOn
      <4>2. CASE seen[k].kind = "message"
        BY <1>4, <4>0, <4>1, <4>2 DEF Tracks, MessageTracks, CallTracks
      <4>3. CASE seen[k].kind = "call"
        <5>1. seen[k] = items[k] /\ out[k] = output[k]
              /\ items[k].call \in Index /\ tools[items[k].call].at # 0
              /\ (items[k].closed <=> tools[items[k].call].done)
              /\ (~ items[k].closed => items[k].size = tools[items[k].call].args)
              /\ (items[k].closed => output[k].size = items[k].size)
          BY <1>4, <4>3 DEF Tracks, CallTracks, Present
        <5>2. tools'[items[k].call].at # 0
              /\ tools'[items[k].call].done = tools[items[k].call].done
              /\ (items[k].call # i => tools'[items[k].call].args = tools[items[k].call].args)
          BY <1>5, <1>6, <5>1
        <5>3. QED
          BY <1>4, <3>3, <4>0, <4>1, <4>3, <5>1, <5>2 DEF Tracks, MessageTracks, CallTracks, Present
      <4>4. seen[k].kind \in {"message", "call"}
        BY <1>4 DEF SeenItem, Kinds
      <4>5. QED
        BY <1>4, <4>1, <4>2, <4>3, <4>4
    <3>4. QED
      BY <3>2, <3>3
  <2>4. Stream!Extends
    BY <1>1, <2>2, <2>3 DEF Stream!Extends
  <2>5. (\A k \in 1..Len(items) : Tracks(k))'
    BY <2>2, <2>3
  <2>6. at <= Len(output')
    BY <1>1, <1>5, <1>10, <2>2
  <2>7. \A j \in Index : tools'[j].at <= Len(output')
    BY <1>1, <1>9, <2>2, <2>6
  <2>8. QED
    BY <1>1, <1>3, <1>6, <1>7, <1>8, <2>2, <2>4, <2>5, <2>7 DEF Shape, Fresh
<1>11. CASE ~ Present(i)
  <2> DEFINE e == AnnouncedTo("call", i, n)
             o == Announced("call", i)
  <2>1. items' = Append(seen, e) /\ output' = Append(out, o)
    BY <1>11 DEF ToolChunk
  <2>2. e \in SeenItem /\ o \in Item
    BY <1>1 DEF AnnouncedTo, Announced, SeenItem, Item, Kinds
  <2>3. /\ items' \in Seq(SeenItem) /\ Len(items') = Len(items) + 1
        /\ output' \in Seq(Item) /\ Len(output') = Len(items) + 1
        /\ \A k \in 1..Len(items) : items'[k] = seen[k] /\ output'[k] = out[k]
        /\ items'[Len(items) + 1] = e /\ output'[Len(items) + 1] = o
    BY <1>2, <2>1, <2>2, Appended
  <2>4. ASSUME NEW k \in 1..Len(items) PROVE Tracks(k)'
    <3>1. items'[k] = seen[k] /\ output'[k] = out[k]
      BY <2>3
    <3>2. CASE seen[k].kind = "message"
      BY <1>4, <3>1, <3>2 DEF Tracks, MessageTracks, CallTracks
    <3>3. CASE seen[k].kind = "call"
      <4>1. /\ seen[k] = items[k] /\ out[k] = output[k]
            /\ CallTracks(k) /\ items[k].call \in Index /\ items[k].call # i
        BY <1>4, <1>11, <3>3 DEF Tracks, CallTracks
      <4>2. tools'[items[k].call] = tools[items[k].call]
        BY <1>6, <4>1
      <4>3. QED
        BY <1>4, <3>1, <3>3, <4>1, <4>2 DEF Tracks, MessageTracks, CallTracks, Present
    <3>4. seen[k].kind \in {"message", "call"}
      BY <1>4 DEF SeenItem, Kinds
    <3>5. QED
      BY <3>2, <3>3, <3>4
  <2>5. ASSUME NEW k \in Nat, k = Len(items) + 1 PROVE Tracks(k)'
    <3>1. tools[i].args = 0 /\ ~ tools[i].done
      BY <1>1, <1>11 DEF Fresh
    <3>2. tools'[i].args = n /\ ~ tools'[i].done /\ tools'[i].at # 0
      BY <1>1, <1>5, <1>6, <3>1
    <3>3. QED
      BY <2>3, <2>5, <3>2 DEF Tracks, MessageTracks, CallTracks, AnnouncedTo, Announced, Present
  <2>6. (\A k \in 1..Len(items) : Tracks(k))'
    BY <1>1, <2>3, <2>4, <2>5
  <2>7. Stream!Extends
    BY <1>1, <1>4, <2>3 DEF Stream!Extends
  <2>8. \A j \in Index : tools'[j].at <= Len(output')
    BY <1>1, <1>5, <1>9, <2>3
  <2>9. QED
    BY <1>1, <1>3, <1>6, <1>7, <1>8, <2>3, <2>6, <2>7, <2>8 DEF Shape, Fresh
<1>12. QED
  BY <1>10, <1>11

\* At the end, or at a finish_reason, everything is closed: what is listed is
\* what was closed.
LEMMA CloseStep ==
  ASSUME ChatInv, CloseAll, textAcc' = textAcc
  PROVE  /\ Shape' /\ Stream!Extends
         /\ \A k \in 1..Len(items') :
              /\ items'[k].closed
              /\ output'[k].kind = items'[k].kind
              /\ k = 1 \/ items'[k].kind = "call" => output'[k].size = items'[k].size
<1> DEFINE seen == ClosedCallsIn(items)
           out == FinishedCallsIn(output)
<1>1. TypeOK /\ Fresh /\ Len(items) = Len(output)
      /\ items \in Seq(SeenItem) /\ output \in Seq(Item) /\ textAcc \in Nat /\ Len(items) \in Nat
  BY DEF ChatInv, TypeOK
<1>2. /\ seen \in Seq(SeenItem) /\ Len(seen) = Len(items)
      /\ out \in Seq(Item) /\ Len(out) = Len(items)
  BY <1>1, ClosedCalls, FinishedCalls
<1>3. /\ tools' = FinishedTools /\ text' = ClosedText
      /\ items' = ClosedTextIn(seen) /\ output' = FinishedTextIn(out)
  BY DEF CloseAll
<1>4. /\ items' \in Seq(SeenItem) /\ Len(items') = Len(items)
      /\ output' \in Seq(Item) /\ Len(output') = Len(items)
  BY <1>1, <1>2, <1>3, ClosedTexts, FinishedText
<1>5. ASSUME NEW k \in 1..Len(items)
      PROVE  /\ Tracks(k)' /\ Stream!Continues(items[k], items'[k])
             /\ items'[k].closed /\ output'[k].kind = items'[k].kind
             /\ k = 1 \/ items'[k].kind = "call" => output'[k].size = items'[k].size
  <2>1. /\ seen[k] \in SeenItem /\ out[k] \in Item
        /\ seen[k].kind = items[k].kind /\ seen[k].call = items[k].call
        /\ out[k].kind = seen[k].kind /\ out[k].call = seen[k].call
        /\ seen[k].kind = "message" => seen[k] = items[k] /\ out[k] = output[k]
        /\ seen[k].kind = "call" =>
             /\ seen[k].closed /\ out[k].size = seen[k].size
             /\ seen[k].call \in Index /\ tools'[seen[k].call].done /\ tools'[seen[k].call].at # 0
        /\ Stream!Continues(items[k], seen[k])
    BY <1>3, CallsClose
  <2>2. /\ items'[k] \in SeenItem /\ output'[k] \in Item
        /\ items'[k].kind = items[k].kind /\ items'[k].call = items[k].call
        /\ output'[k].kind = items'[k].kind /\ output'[k].call = items'[k].call
        /\ items'[k].kind = "message" =>
             /\ items'[k].closed /\ items'[k].call = NoCall /\ text' = "closed"
             /\ k = 1 => output'[k].size = items'[k].size
        /\ items'[k].kind = "call" => items'[k] = seen[k] /\ output'[k] = out[k]
        /\ Stream!Continues(seen[k], items'[k])
    BY <1>1, <1>2, <1>3, <2>1, TextCloses
  <2>3. Stream!Continues(items[k], items'[k])
    BY <2>1, <2>2, Elements, ContinuesOn
  <2>4. items'[k].kind \in {"message", "call"}
    BY <2>2 DEF SeenItem, Kinds
  <2>5. Tracks(k)'
    BY <2>1, <2>2, <2>4 DEF Tracks, MessageTracks, CallTracks, Present
  <2>6. QED
    BY <2>1, <2>2, <2>3, <2>4, <2>5
<1>6. (\A k \in 1..Len(items) : Tracks(k))'
  BY <1>4, <1>5
<1>7. Stream!Extends
  BY <1>1, <1>4, <1>5 DEF Stream!Extends
<1>8. text' \in {"none", "open", "closed"} /\ (text' = "none" => text = "none")
  BY <1>1, <1>3 DEF TypeOK, ClosedText
<1>9. Shape'
  BY <1>1, <1>3, <1>4, <1>6, <1>8, CallsClosed DEF Shape, Fresh
<1>10. QED
  BY <1>4, <1>5, <1>7, <1>9

-----------------------------------------------------------------------------
(* The specification                                                       *)

LEMMA ChatInit == Init => ChatInv /\ Stream!Start
<1> SUFFICES ASSUME Init PROVE ChatInv /\ Stream!Start
  OBVIOUS
<1>1. items = <<>> /\ output = <<>> /\ listed = <<>> /\ Len(items) = 0 /\ Len(output) = 0
      /\ ended = "no" /\ text = "none" /\ textAcc = 0 /\ reader = "reading"
  BY DEF Init
<1>2. finished = FALSE /\ headerSent = FALSE /\ astray = FALSE
  BY DEF Init
<1>3. tools = [i \in Index |-> [args |-> 0, at |-> 0, done |-> FALSE]]
  BY DEF Init
<1>4. tools \in [Index -> [args : Nat, at : Nat, done : BOOLEAN]]
      /\ \A i \in Index : tools[i].at = 0 /\ tools[i].args = 0 /\ ~ tools[i].done
  BY <1>3
<1>5. items \in Seq(SeenItem) /\ output \in Seq(Item) /\ listed \in Seq(Item)
  BY <1>1
<1>6. TypeOK
  <2>1. finished \in BOOLEAN /\ headerSent \in BOOLEAN /\ astray \in BOOLEAN
    BY <1>2, Zenon
  <2>2. \A i \in Index : tools[i].at <= Len(output)
    <3>1. Len(output) = 0
      BY <1>1
    <3>2. ASSUME NEW i \in Index PROVE tools[i].at <= 0
      <4>1. tools[i].at = 0
        BY <1>4
      <4>2. QED
        BY <4>1
    <3>3. QED
      BY <3>1, <3>2
  <2>3. QED
    BY <1>1, <1>4, <1>5, <2>1, <2>2 DEF TypeOK
<1>7. Fresh /\ EndsMatch
  BY <1>1, <1>2, <1>4 DEF Fresh, EndsMatch
<1>8. \A k \in 1..Len(items) : Tracks(k)
  BY <1>1
<1>9. QED
  BY <1>1, <1>6, <1>7, <1>8 DEF ChatInv, Stream!Start

\* The invariant from its parts.
LEMMA Assembled ==
  ASSUME Shape', EndsMatch',
         finished' \in BOOLEAN, headerSent' \in BOOLEAN, astray' \in BOOLEAN,
         reader' \in {"reading", "over"}, ended' \in {"no", "completed", "failed"},
         listed' \in Seq(Item)
  PROVE  ChatInv'
BY DEF Shape, ChatInv, TypeOK

\* While chunks are pushed the response has not ended.
LEMMA StillOpen ==
  ASSUME ChatInv, Pushed
  PROVE  ended = "no"
BY DEF ChatInv, TypeOK, EndsMatch, Pushed

LEMMA SameShape ==
  ASSUME ChatInv, UNCHANGED <<text, textAcc, tools, output, items>>
  PROVE  Shape' /\ Stream!Extends
<1>1. Shape
  BY ShapeHolds
<1>2. Shape'
  BY <1>1 DEF Shape, Fresh, Tracks, MessageTracks, CallTracks, Present
<1>3. \A k \in 1..Len(items) : items[k] \in SeenItem
  BY Elements
<1>4. Len(items) \in Nat
  BY <1>1, LenProperties DEF Shape
<1>5. QED
  BY <1>2, <1>3, <1>4 DEF Stream!Extends, Stream!Continues, SeenItem

StreamStep == Stream!Write \/ Stream!Complete \/ Stream!Fail

\* A chunk writes to the stream and ends nothing.
LEMMA ChunkStep ==
  ASSUME ChatInv, Pushed, Shape', Stream!Extends,
         UNCHANGED <<finished, reader, ended, listed>>,
         headerSent' = TRUE, astray' \in BOOLEAN
  PROVE  ChatInv' /\ StreamStep
<1>1. ended = "no"
  BY StillOpen
<1>2. StreamStep
  BY <1>1 DEF StreamStep, Stream!Write
<1>3. TypeOK /\ EndsMatch
  BY DEF ChatInv
<1>4. EndsMatch'
  BY <1>3 DEF EndsMatch
<1>5. finished' \in BOOLEAN /\ headerSent' \in BOOLEAN
  BY <1>3, Zenon DEF TypeOK
<1>6. reader' \in {"reading", "over"} /\ ended' \in {"no", "completed", "failed"} /\ listed' \in Seq(Item)
  BY <1>3 DEF TypeOK
<1>7. QED
  BY <1>2, <1>4, <1>5, <1>6, Assembled

\* end() completes the response, or finds it completed.
LEMMA EndStep ==
  ASSUME ChatInv, End, reader = "reading", reader' \in {"reading", "over"}, UNCHANGED astray
  PROVE  ChatInv' /\ (StreamStep \/ UNCHANGED Stream!stream)
<1>1. TypeOK /\ EndsMatch
  BY DEF ChatInv
<1>2. astray' \in BOOLEAN /\ headerSent \in BOOLEAN /\ finished \in BOOLEAN
  BY <1>1, Zenon DEF TypeOK
<1>3. CASE ~ finished
  <2>1. finished' = TRUE /\ CloseAll /\ ended' = "completed" /\ listed' = output'
        /\ headerSent' = headerSent /\ textAcc' = textAcc
    BY <1>3 DEF End
  <2>2. ended = "no"
    BY <1>3, StillOpen DEF Pushed
  <2>3. /\ Shape' /\ Stream!Extends
        /\ \A k \in 1..Len(items') :
             /\ items'[k].closed
             /\ output'[k].kind = items'[k].kind
             /\ k = 1 \/ items'[k].kind = "call" => output'[k].size = items'[k].size
    BY <2>1, CloseStep
  <2>4. Len(listed') = Len(items') /\ listed' \in Seq(Item)
    BY <2>1, <2>3 DEF Shape
  <2>5. StreamStep
    BY <2>1, <2>2, <2>3, <2>4 DEF StreamStep, Stream!Complete, Stream!Lists
  <2>6. EndsMatch'
    BY <2>1 DEF EndsMatch
  <2>7. ChatInv'
    BY <1>2, <2>1, <2>3, <2>4, <2>6, Assembled
  <2>8. QED
    BY <2>5, <2>7
<1>4. CASE finished
  <2>1. UNCHANGED <<translator, told>>
    BY <1>4 DEF End
  <2>2. Shape'
    BY <2>1, SameShape DEF translator, told
  <2>3. EndsMatch'
    BY <1>1, <1>4, <2>1 DEF EndsMatch, translator, told
  <2>4. headerSent' \in BOOLEAN /\ finished' \in BOOLEAN
    BY <1>2, <2>1 DEF translator
  <2>5. ended' \in {"no", "completed", "failed"} /\ listed' \in Seq(Item)
    BY <1>1, <2>1 DEF told, TypeOK
  <2>6. ChatInv'
    BY <1>2, <2>2, <2>3, <2>4, <2>5, Assembled
  <2>7. UNCHANGED Stream!stream
    BY <2>1 DEF told, Stream!stream
  <2>8. QED
    BY <2>6, <2>7
<1>5. QED
  BY <1>3, <1>4

\* Nothing but the reader, or a failure in place of an end.
LEMMA QuietStep ==
  ASSUME ChatInv, UNCHANGED <<translator, items, listed, astray>>,
         reader' \in {"reading", "over"},
         \/ ended' = ended /\ (reader' = reader \/ reader' = "over")
         \/ ended = "no" /\ ended' = "failed" /\ reader' = "over"
  PROVE  ChatInv' /\ (StreamStep \/ UNCHANGED Stream!stream)
<1>1. TypeOK /\ EndsMatch
  BY DEF ChatInv
<1>2. Shape'
  BY SameShape DEF translator
<1>3. headerSent' \in BOOLEAN /\ finished' \in BOOLEAN /\ astray' \in BOOLEAN
  BY <1>1, Zenon DEF TypeOK, translator
<1>4. ended' \in {"no", "completed", "failed"} /\ listed' \in Seq(Item)
  BY <1>1 DEF TypeOK
<1>5. EndsMatch'
  BY <1>1 DEF EndsMatch, translator
<1>6. StreamStep \/ UNCHANGED Stream!stream
  BY DEF StreamStep, Stream!Fail, Stream!stream
<1>7. QED
  BY <1>2, <1>3, <1>4, <1>5, <1>6, Assembled

\* Every step of the translator and of the loop is a step of the stream.
LEMMA ChatStep ==
  ASSUME ChatInv, [Next]_vars
  PROVE  ChatInv' /\ (StreamStep \/ UNCHANGED Stream!stream)
<1> DEFINE Goal == ChatInv' /\ (StreamStep \/ UNCHANGED Stream!stream)
<1>1. TypeOK
  BY DEF ChatInv
<1>2. ASSUME NEW n \in {0, 1}, TextChunk(n) PROVE Goal
  <2>1. Pushed /\ headerSent' = TRUE /\ UNCHANGED <<finished, reader, ended, listed>>
    BY <1>2 DEF TextChunk
  <2>2. astray' \in BOOLEAN
    BY <1>2, Zenon DEF TextChunk
  <2>3. QED
    BY <1>2, <2>1, <2>2, TextStep, ChunkStep
<1>3. ASSUME NEW i \in Index, NEW n \in {0, 1}, NEW w \in BOOLEAN, ToolChunk(i, n, w) PROVE Goal
  <2>1. Pushed /\ headerSent' = TRUE /\ UNCHANGED <<finished, reader, ended, listed>>
    BY <1>3 DEF ToolChunk
  <2>2. astray' \in BOOLEAN
    BY <1>3, Zenon DEF ToolChunk
  <2>3. QED
    BY <1>3, <2>1, <2>2, ToolStep, ChunkStep
<1>4. ASSUME NEW reason \in {"stop", "length", "other"}, OtherChunk(reason) PROVE Goal
  <2>1. Pushed /\ headerSent' = TRUE /\ UNCHANGED <<finished, textAcc, reader, ended, listed, astray>>
    BY <1>4 DEF OtherChunk
  <2>2. astray' \in BOOLEAN
    BY <1>1, <2>1, Zenon DEF TypeOK
  <2>3. CloseAll \/ UNCHANGED <<tools, text, output, items>>
    BY <1>4, Zenon DEF OtherChunk
  <2>4. Shape' /\ Stream!Extends
    BY <2>1, <2>3, CloseStep, SameShape
  <2>5. QED
    BY <2>1, <2>2, <2>4, ChunkStep
<1>5. CASE DoneLine
  <2>1. reader = "reading" /\ End /\ reader' = reader /\ UNCHANGED astray
    BY <1>5 DEF DoneLine
  <2>2. QED
    BY <2>1, EndStep
<1>6. CASE StreamCloses
  <2>1. reader = "reading" /\ End /\ reader' = "over" /\ UNCHANGED astray
    BY <1>6 DEF StreamCloses
  <2>2. QED
    BY <2>1, EndStep
<1>7. CASE StreamBreaks
  <2>1. /\ reader' = "over" /\ UNCHANGED <<translator, items, listed, astray>>
        /\ ended' = ended \/ (ended = "no" /\ ended' = "failed")
    BY <1>7 DEF StreamBreaks
  <2>2. QED
    BY <2>1, QuietStep
<1>8. CASE ClientLeaves
  <2>1. reader' = "over" /\ ended' = ended /\ UNCHANGED <<translator, items, listed, astray>>
    BY <1>8 DEF ClientLeaves, told
  <2>2. QED
    BY <2>1, QuietStep
<1>9. CASE UNCHANGED vars
  <2>1. reader' = reader /\ ended' = ended /\ UNCHANGED <<translator, items, listed, astray>>
    BY <1>9 DEF vars, told
  <2>2. reader' \in {"reading", "over"}
    BY <1>1, <2>1 DEF TypeOK
  <2>3. QED
    BY <2>1, <2>2, QuietStep
<1>10. QED
  BY <1>2, <1>3, <1>4, <1>5, <1>6, <1>7, <1>8, <1>9 DEF Next

\* The translator's variables stay in their ranges, however many calls run in
\* parallel and however long the answer is.
THEOREM ChatTypes == Spec => []TypeOK
<1>1. ChatInv => TypeOK
  BY DEF ChatInv
<1>2. Init => ChatInv
  BY ChatInit
<1>3. ChatInv /\ [Next]_vars => ChatInv'
  BY ChatStep
<1>4. QED
  BY <1>1, <1>2, <1>3, PTL DEF Spec

\* The translator implements the stream its reader relies on: whatever the
\* provider sends, an item is closed once, what it was closed with is final
\* even where deltas follow, and a response that completes has closed every
\* item and lists it.
THEOREM ChatWellFormed == Spec => WellFormed
<1>1. Init => ChatInv /\ Stream!Start
  BY ChatInit
<1>2. ChatInv /\ [Next]_vars => ChatInv'
  BY ChatStep
<1>3. ChatInv /\ [Next]_vars => [Stream!Write \/ Stream!Complete \/ Stream!Fail]_(Stream!stream)
  BY ChatStep DEF StreamStep
<1>4. QED
  BY <1>1, <1>2, <1>3, PTL DEF Spec, WellFormed, Stream!StreamSpec

-----------------------------------------------------------------------------
(* Nothing of the answer is missing                                        *)

\* The message comes first, and once it is closed it is stored with the whole
\* text; a call that is done is stored with all of its arguments.
Whole(k) ==
  /\ output[k].kind = "message" =>
       /\ k = 1 /\ output[k].call = NoCall /\ text # "none"
       /\ text = "closed" => output[k].size = textAcc
  /\ output[k].kind = "call" =>
       /\ output[k].call \in Index /\ Present(output[k].call)
       /\ tools[output[k].call].done => output[k].size = tools[output[k].call].args

\* What has been opened has its item.
Stored ==
  /\ text # "none" => \E k \in 1..Len(output) : output[k].kind = "message"
  /\ \A i \in Index : Present(i) => \E k \in 1..Len(output) : output[k].call = i

\* What is listed is what is stored, and it is final.
AllFinal == ended = "completed" => listed = output /\ text # "open" /\ OpenCalls = {}

KeepInv ==
  /\ ~ astray => \A k \in 1..Len(output) : Whole(k)
  /\ Stored
  /\ AllFinal

LEMMA CallsFinal ==
  ASSUME TypeOK, NEW k \in 1..Len(output)
  PROVE  LET o == FinishedCallsIn(output)[k]
         IN /\ o.kind = output[k].kind /\ o.call = output[k].call
            /\ Whole(k) /\ o.kind = "message" =>
                 k = 1 /\ o.call = NoCall /\ text # "none" /\ (text = "closed" => o.size = textAcc)
            /\ Whole(k) /\ o.kind = "call" =>
                 /\ o.call \in Index /\ FinishedTools[o.call].at # 0
                 /\ o.size = FinishedTools[o.call].args
<1> DEFINE o == FinishedCallsIn(output)[k]
<1>1. output \in Seq(Item) /\ output[k] \in Item
  BY ElementOfSeq DEF TypeOK
<1>2. o = IF output[k].call \in OpenCalls
            THEN Sized(output[k], tools[output[k].call].args) ELSE output[k]
  BY <1>1, FinishedCalls
<1>3. \A i \in Index : tools[i].args \in Nat /\ FinishedTools[i].args = tools[i].args
                       /\ FinishedTools[i].at = tools[i].at
  BY Finishing DEF TypeOK
<1>4. CASE output[k].call \in OpenCalls
  <2>1. output[k].call \in Index /\ output[k].call # NoCall
    BY <1>4 DEF OpenCalls
  <2>2. o.kind = output[k].kind /\ o.call = output[k].call /\ o.size = tools[output[k].call].args
    BY <1>1, <1>2, <1>3, <1>4, <2>1, Sizes
  <2>3. QED
    BY <1>3, <2>1, <2>2 DEF Whole, Present
<1>5. CASE output[k].call \notin OpenCalls
  <2>1. o = output[k]
    BY <1>2, <1>5
  <2>2. Whole(k) /\ output[k].kind = "call" =>
          output[k].call \in Index /\ tools[output[k].call].at # 0 /\ tools[output[k].call].done
    BY <1>5 DEF Whole, OpenCalls, Present
  <2>3. QED
    BY <1>3, <2>1, <2>2 DEF Whole
<1>6. QED
  BY <1>4, <1>5

LEMMA TextFinal ==
  ASSUME TypeOK, NEW out \in Seq(Item), NEW k \in 1..Len(out)
  PROVE  LET o == FinishedTextIn(out)[k]
         IN /\ o.kind = out[k].kind /\ o.call = out[k].call
            /\ o.kind = "call" => o = out[k]
            /\ o.kind = "message" /\ k = 1 /\ text # "none" /\ (text = "closed" => out[k].size = textAcc) =>
                 o.size = textAcc
<1>1. out[k] \in Item /\ textAcc \in Nat /\ text \in {"none", "open", "closed"}
  BY ElementOfSeq DEF TypeOK
<1>2. FinishedTextIn(out)[k] =
        IF text = "open" /\ k = 1 /\ out[k].kind = "message"
          THEN Sized(out[k], textAcc) ELSE out[k]
  BY FinishedText
<1>3. CASE text = "open" /\ k = 1 /\ out[k].kind = "message"
  BY <1>1, <1>2, <1>3, Sizes
<1>4. CASE ~ (text = "open" /\ k = 1 /\ out[k].kind = "message")
  BY <1>1, <1>2, <1>4
<1>5. QED
  BY <1>3, <1>4

\* An item keeps its kind and call for good, so what has one keeps it.
LEMMA StaysStored ==
  ASSUME Stored, Len(output) \in Nat, Len(output') \in Nat, Len(output) <= Len(output'),
         \A k \in 1..Len(output) : output'[k].kind = output[k].kind /\ output'[k].call = output[k].call
  PROVE  /\ text # "none" => \E k \in 1..Len(output') : output'[k].kind = "message"
         /\ \A i \in Index : Present(i) => \E k \in 1..Len(output') : output'[k].call = i
<1>1. \A k \in 1..Len(output) : k \in 1..Len(output')
  OBVIOUS
<1>2. QED
  BY <1>1, Zenon DEF Stored

LEMMA TextKeeps ==
  ASSUME ChatInv, KeepInv, NEW n \in {0, 1}, TextChunk(n)
  PROVE  KeepInv'
<1> DEFINE out == FinishedCallsIn(output)
           o == Announced("message", NoCall)
<1>1. /\ TypeOK /\ Fresh /\ EndsMatch /\ n \in Nat /\ textAcc \in Nat /\ text \in {"none", "open", "closed"}
      /\ output \in Seq(Item) /\ Len(output) \in Nat
  BY DEF ChatInv, TypeOK
<1>2. out \in Seq(Item) /\ Len(out) = Len(output)
  BY <1>1, FinishedCalls
<1>3. tools' = FinishedTools /\ textAcc' = textAcc + n /\ ended' = ended /\ ended # "completed"
  BY <1>1 DEF TextChunk, Pushed, EndsMatch
<1>4. astray \/ (text = "closed" /\ n > 0) \/ (text = "none" /\ output # <<>>) => astray'
  BY DEF TextChunk
<1>5. \A i \in Index : tools'[i].at = tools[i].at
  BY <1>1, <1>3, Finishing
<1>6. \A k \in 1..Len(output) : out[k].kind = output[k].kind /\ out[k].call = output[k].call
  BY <1>1, CallsFinal
<1>7. AllFinal'
  BY <1>3 DEF AllFinal
<1>8. CASE text = "none"
  <2>1. output' = Append(out, o) /\ text' = "open" /\ o \in Item
    BY <1>8 DEF TextChunk, Announced, Item, Kinds
  <2>2. /\ Len(output') = Len(output) + 1
        /\ \A k \in 1..Len(output) : output'[k] = out[k]
        /\ output'[Len(output) + 1] = o
    BY <1>2, <2>1, Appended
  <2>3. o.kind = "message" /\ o.call = NoCall
    BY DEF Announced
  <2>4. Stored'
    <3>1. \A i \in Index : Present(i) => \E k \in 1..Len(output') : output'[k].call = i
      BY <1>1, <1>6, <2>2, StaysStored DEF KeepInv
    <3>2. Len(output) + 1 \in 1..Len(output')
      BY <1>1, <2>2
    <3>3. \E k \in 1..Len(output') : output'[k].kind = "message"
      BY <2>2, <2>3, <3>2
    <3>4. QED
      BY <1>5, <3>1, <3>3 DEF Stored, Present
  <2>5. ASSUME ~ astray', NEW k \in 1..Len(output') PROVE Whole(k)'
    <3>1. Len(output) = 0
      BY <1>1, <1>4, <1>8, <2>5, LenProperties, EmptySeq
    <3>2. k = 1 /\ output'[k] = o
      BY <2>2, <3>1
    <3>3. QED
      BY <2>1, <2>3, <3>2 DEF Whole
  <2>6. QED
    BY <1>7, <2>4, <2>5 DEF KeepInv
<1>9. CASE text # "none"
  <2>1. output' = out /\ text' = text
    BY <1>9 DEF TextChunk
  <2>2. Stored'
    <3>1. /\ text # "none" => \E k \in 1..Len(output') : output'[k].kind = "message"
          /\ \A i \in Index : Present(i) => \E k \in 1..Len(output') : output'[k].call = i
      BY <1>1, <1>2, <1>6, <2>1, StaysStored DEF KeepInv
    <3>2. QED
      BY <1>5, <2>1, <3>1 DEF Stored, Present
  <2>3. ASSUME ~ astray', NEW k \in 1..Len(output') PROVE Whole(k)'
    <3>1. k \in 1..Len(output) /\ ~ astray
      BY <1>2, <1>4, <2>1, <2>3
    <3>2. Whole(k)
      BY <3>1 DEF KeepInv
    <3>3. text = "closed" => textAcc' = textAcc
      BY <1>1, <1>3, <1>4, <2>3
    <3>4. output'[k].kind = "message" =>
            k = 1 /\ output'[k].call = NoCall /\ text # "none" /\ (text = "closed" => output'[k].size = textAcc)
      BY <1>1, <2>1, <3>1, <3>2, CallsFinal
    <3>5. output'[k].kind = "call" =>
            /\ output'[k].call \in Index /\ tools'[output'[k].call].at # 0
            /\ output'[k].size = tools'[output'[k].call].args
      BY <1>1, <1>3, <2>1, <3>1, <3>2, CallsFinal
    <3>6. QED
      BY <2>1, <3>3, <3>4, <3>5 DEF Whole, Present
  <2>4. QED
    BY <1>7, <2>2, <2>3 DEF KeepInv
<1>10. QED
  BY <1>8, <1>9

LEMMA ToolKeeps ==
  ASSUME ChatInv, KeepInv, NEW i \in Index, NEW n \in {0, 1}, NEW w \in BOOLEAN, ToolChunk(i, n, w)
  PROVE  KeepInv'
<1> DEFINE out == FinishedTextIn(output)
           at == IF Present(i) THEN tools[i].at ELSE NextPosition
           o == Announced("call", i)
<1>1. /\ TypeOK /\ Fresh /\ EndsMatch /\ n \in Nat /\ text \in {"none", "open", "closed"}
      /\ output \in Seq(Item) /\ Len(output) \in Nat
      /\ tools \in [Index -> [args : Nat, at : Nat, done : BOOLEAN]]
  BY DEF ChatInv, TypeOK
<1>2. out \in Seq(Item) /\ Len(out) = Len(output)
  BY <1>1, FinishedText
<1>3. /\ textAcc' = textAcc /\ text' = ClosedText /\ ended' = ended /\ ended # "completed"
      /\ tools' = [tools EXCEPT ![i] = [args |-> tools[i].args + n, at |-> at, done |-> tools[i].done]]
  BY <1>1 DEF ToolChunk, Pushed, EndsMatch
<1>4. astray \/ (tools[i].done /\ n > 0) => astray'
  BY DEF ToolChunk
<1>5. /\ tools'[i].args = tools[i].args + n /\ tools'[i].at = at /\ tools'[i].done = tools[i].done
      /\ \A j \in Index \ {i} : tools'[j] = tools[j]
  BY <1>1, <1>3
<1>6. at # 0 /\ (Present(i) => at = tools[i].at)
  BY <1>1 DEF Present, NextPosition
<1>7. \A k \in 1..Len(output) : out[k].kind = output[k].kind /\ out[k].call = output[k].call
  BY <1>1, TextFinal
<1>8. AllFinal'
  BY <1>3 DEF AllFinal
<1>9. text' # "none" <=> text # "none"
  BY <1>3 DEF ClosedText
\* The items there were.
<1>10. ASSUME ~ astray', NEW k \in 1..Len(output)
       PROVE  /\ out[k].kind = "message" =>
                   /\ k = 1 /\ out[k].call = NoCall /\ text' # "none"
                   /\ text' = "closed" => out[k].size = textAcc'
              /\ out[k].kind = "call" =>
                   /\ out[k].call \in Index /\ tools'[out[k].call].at # 0
                   /\ tools'[out[k].call].done => out[k].size = tools'[out[k].call].args
  <2>1. Whole(k)
    BY <1>4, <1>10 DEF KeepInv
  <2>2. out[k].kind = "message" => k = 1 /\ out[k].call = NoCall /\ text # "none" /\ out[k].size = textAcc
    BY <1>1, <1>7, <2>1, TextFinal DEF Whole
  <2>3. out[k].kind = "call" =>
          /\ out[k].call \in Index /\ tools[out[k].call].at # 0
          /\ tools[out[k].call].done => out[k].size = tools[out[k].call].args
    BY <1>1, <1>7, <2>1, TextFinal DEF Whole, Present
  <2>4. tools[i].done => tools'[i].args = tools[i].args
    BY <1>1, <1>4, <1>5, <1>10
  <2>5. \A j \in Index : tools[j].at # 0 =>
          /\ tools'[j].at # 0 /\ tools'[j].done = tools[j].done
          /\ tools[j].done => tools'[j].args = tools[j].args
    BY <1>5, <1>6, <2>4
  <2>6. QED
    BY <1>3, <1>9, <2>2, <2>3, <2>5
<1>11. CASE Present(i)
  <2>1. output' = out
    BY <1>11 DEF ToolChunk
  <2>2. \A j \in Index : tools'[j].at = tools[j].at
    BY <1>5, <1>6, <1>11
  <2>3. Stored'
    <3>1. /\ text # "none" => \E k \in 1..Len(output') : output'[k].kind = "message"
          /\ \A j \in Index : Present(j) => \E k \in 1..Len(output') : output'[k].call = j
      BY <1>1, <1>2, <1>7, <2>1, StaysStored DEF KeepInv
    <3>2. QED
      BY <1>9, <2>2, <3>1 DEF Stored, Present
  <2>4. ASSUME ~ astray', NEW k \in 1..Len(output') PROVE Whole(k)'
    BY <1>2, <1>10, <2>1, <2>4 DEF Whole, Present
  <2>5. QED
    BY <1>8, <2>3, <2>4 DEF KeepInv
<1>12. CASE ~ Present(i)
  <2>1. output' = Append(out, o) /\ o \in Item
    BY <1>12 DEF ToolChunk, Announced, Item, Kinds
  <2>2. /\ Len(output') = Len(output) + 1
        /\ \A k \in 1..Len(output) : output'[k] = out[k]
        /\ output'[Len(output) + 1] = o
    BY <1>2, <2>1, Appended
  <2>3. o.kind = "call" /\ o.call = i /\ ~ tools'[i].done
    BY <1>1, <1>5, <1>12 DEF Announced, Fresh
  <2>4. Stored'
    <3>1. /\ text # "none" => \E k \in 1..Len(output') : output'[k].kind = "message"
          /\ \A j \in Index : Present(j) => \E k \in 1..Len(output') : output'[k].call = j
      BY <1>1, <1>7, <2>2, StaysStored DEF KeepInv
    <3>2. Len(output) + 1 \in 1..Len(output')
      BY <1>1, <2>2
    <3>3. \E k \in 1..Len(output') : output'[k].call = i
      BY <2>2, <2>3, <3>2
    <3>4. \A j \in Index \ {i} : tools'[j].at = tools[j].at
      BY <1>5
    <3>5. QED
      BY <1>9, <3>1, <3>3, <3>4 DEF Stored, Present
  <2>5. ASSUME ~ astray', NEW k \in 1..Len(output') PROVE Whole(k)'
    <3>1. CASE k \in 1..Len(output)
      BY <1>10, <2>2, <2>5, <3>1 DEF Whole, Present
    <3>2. CASE k = Len(output) + 1
      BY <1>5, <1>6, <2>2, <2>3, <3>2 DEF Whole, Present
    <3>3. QED
      BY <1>1, <2>2, <3>1, <3>2
  <2>6. QED
    BY <1>8, <2>4, <2>5 DEF KeepInv
<1>13. QED
  BY <1>11, <1>12

LEMMA CloseKeeps ==
  ASSUME ChatInv, KeepInv, CloseAll, textAcc' = textAcc, astray' = astray
  PROVE  /\ ~ astray' => \A k \in 1..Len(output') : Whole(k)'
         /\ Stored'
         /\ text' # "open" /\ OpenCalls' = {}
<1> DEFINE out == FinishedCallsIn(output)
<1>1. /\ TypeOK /\ output \in Seq(Item) /\ Len(output) \in Nat
  BY DEF ChatInv, TypeOK
<1>2. out \in Seq(Item) /\ Len(out) = Len(output)
  BY <1>1, FinishedCalls
<1>3. tools' = FinishedTools /\ text' = ClosedText /\ output' = FinishedTextIn(out)
  BY DEF CloseAll
<1>4. Len(output') = Len(output)
  BY <1>1, <1>2, <1>3, FinishedText
<1>5. \A i \in Index : tools'[i].at = tools[i].at /\ (tools'[i].done <=> i \in OpenCalls \/ tools[i].done)
  BY <1>1, <1>3, Finishing
<1>6. text' # "open" /\ (text' # "none" <=> text # "none")
  BY <1>3 DEF ClosedText
<1>7. OpenCalls' = {}
  BY <1>5 DEF OpenCalls, Present
<1>8. \A k \in 1..Len(output) : output'[k].kind = output[k].kind /\ output'[k].call = output[k].call
  <2>1. \A k \in 1..Len(output) : out[k].kind = output[k].kind /\ out[k].call = output[k].call
    BY <1>1, CallsFinal
  <2>2. \A k \in 1..Len(output) : output'[k].kind = out[k].kind /\ output'[k].call = out[k].call
    BY <1>1, <1>2, <1>3, TextFinal
  <2>3. QED
    BY <2>1, <2>2
<1>9. Stored'
  <2>1. /\ text # "none" => \E k \in 1..Len(output') : output'[k].kind = "message"
        /\ \A i \in Index : Present(i) => \E k \in 1..Len(output') : output'[k].call = i
    BY <1>1, <1>4, <1>8, StaysStored DEF KeepInv
  <2>2. QED
    BY <1>5, <1>6, <2>1 DEF Stored, Present
<1>10. ASSUME ~ astray', NEW k \in 1..Len(output') PROVE Whole(k)'
  <2>1. k \in 1..Len(output) /\ k \in 1..Len(out)
    BY <1>2, <1>4
  <2>2. Whole(k)
    BY <1>10, <2>1 DEF KeepInv
  <2>3. /\ out[k].kind = output[k].kind /\ out[k].call = output[k].call
        /\ out[k].kind = "message" =>
             k = 1 /\ out[k].call = NoCall /\ text # "none" /\ (text = "closed" => out[k].size = textAcc)
        /\ out[k].kind = "call" =>
             /\ out[k].call \in Index /\ tools'[out[k].call].at # 0
             /\ out[k].size = tools'[out[k].call].args
    BY <1>1, <1>3, <2>1, <2>2, CallsFinal
  <2>4. /\ output'[k].kind = out[k].kind /\ output'[k].call = out[k].call
        /\ output'[k].kind = "call" => output'[k] = out[k]
        /\ output'[k].kind = "message" /\ k = 1 /\ text # "none" /\ (text = "closed" => out[k].size = textAcc) =>
             output'[k].size = textAcc
    BY <1>1, <1>2, <1>3, <2>1, TextFinal
  <2>5. QED
    BY <1>6, <2>3, <2>4 DEF Whole, Present
<1>11. QED
  BY <1>6, <1>7, <1>9, <1>10

LEMMA EndKeeps ==
  ASSUME ChatInv, KeepInv, End, UNCHANGED astray
  PROVE  KeepInv'
<1>1. CASE finished
  BY <1>1 DEF End, KeepInv, Whole, Stored, AllFinal, Present, OpenCalls, translator, told
<1>2. CASE ~ finished
  <2>1. CloseAll /\ textAcc' = textAcc /\ listed' = output'
    BY <1>2 DEF End
  <2>2. QED
    BY <2>1, CloseKeeps DEF KeepInv, AllFinal
<1>3. QED
  BY <1>1, <1>2

LEMMA QuietKeeps ==
  ASSUME KeepInv, UNCHANGED <<translator, listed, astray>>, ended' = "completed" => ended = "completed"
  PROVE  KeepInv'
BY DEF KeepInv, Whole, Stored, AllFinal, Present, OpenCalls, translator

LEMMA KeepStep ==
  ASSUME ChatInv, KeepInv, [Next]_vars
  PROVE  KeepInv'
<1>1. ASSUME NEW n \in {0, 1}, TextChunk(n) PROVE KeepInv'
  BY <1>1, TextKeeps
<1>2. ASSUME NEW i \in Index, NEW n \in {0, 1}, NEW w \in BOOLEAN, ToolChunk(i, n, w) PROVE KeepInv'
  BY <1>2, ToolKeeps
<1>3. ASSUME NEW reason \in {"stop", "length", "other"}, OtherChunk(reason) PROVE KeepInv'
  <2>1. UNCHANGED <<finished, textAcc, reader, ended, listed, astray>> /\ ended # "completed"
    BY <1>3 DEF OtherChunk, Pushed, ChatInv, EndsMatch
  <2>2. CASE CloseAll
    BY <2>1, <2>2, CloseKeeps DEF KeepInv, AllFinal
  <2>3. CASE UNCHANGED <<tools, text, output, items>>
    BY <2>1, <2>3 DEF KeepInv, Whole, Stored, AllFinal, Present, OpenCalls
  <2>4. QED
    BY <1>3, <2>2, <2>3, Zenon DEF OtherChunk
<1>4. CASE DoneLine
  BY <1>4, EndKeeps DEF DoneLine
<1>5. CASE StreamCloses
  BY <1>5, EndKeeps DEF StreamCloses
<1>6. CASE StreamBreaks
  BY <1>6, QuietKeeps DEF StreamBreaks
<1>7. CASE ClientLeaves
  BY <1>7, QuietKeeps DEF ClientLeaves, told
<1>8. CASE UNCHANGED vars
  BY <1>8, QuietKeeps DEF vars, told
<1>9. QED
  BY <1>1, <1>2, <1>3, <1>4, <1>5, <1>6, <1>7, <1>8 DEF Next

\* A completed response has all of the answer: every piece of its text and of
\* the arguments of every call, however many run in parallel, as long as the
\* provider sends its text before its calls, in chunks of its own, and nothing
\* to what is closed.
THEOREM ChatKeepsAll == Spec => []KeepsAll
<1>1. Init => ChatInv /\ KeepInv
  <2>1. Init => KeepInv
    BY LenProperties, EmptySeq DEF Init, KeepInv, Whole, Stored, AllFinal, Present
  <2>2. QED
    BY <2>1, ChatInit
<1>2. ChatInv /\ KeepInv /\ [Next]_vars => ChatInv' /\ KeepInv'
  BY ChatStep, KeepStep
<1>3. ChatInv /\ KeepInv => KeepsAll
  <2> SUFFICES ASSUME ChatInv, KeepInv, ended = "completed", ~ astray PROVE KeepsAll
    BY DEF KeepsAll
  <2>1. listed = output /\ text \in {"none", "closed"} /\ OpenCalls = {} /\ output \in Seq(Item)
    BY DEF KeepInv, AllFinal, ChatInv, TypeOK
  <2>2. ASSUME NEW k \in 1..Len(output)
        PROVE  output[k].size = IF output[k].kind = "message" THEN textAcc ELSE tools[output[k].call].args
    <3>1. Whole(k)
      BY DEF KeepInv
    <3>2. output[k] \in Item
      BY <2>1, ElementOfSeq
    <3>3. output[k].kind \in {"message", "call"}
      BY <3>2 DEF Item, Kinds
    <3>4. QED
      BY <2>1, <3>1, <3>3 DEF Whole, OpenCalls
  <2>3. QED
    BY <2>1, <2>2 DEF KeepsAll, KeepInv, Stored
<1>4. QED
  BY <1>1, <1>2, <1>3, PTL DEF Spec
=============================================================================
