-------------------------- MODULE ProviderTransport --------------------------
(***************************************************************************)
(* The transport both proxies send provider requests through               *)
(* (lib/proxy/provider-transport.js): one dispatcher per origin, replaced   *)
(* when an HTTP/2 session of it turns out to be dead, one retry of the      *)
(* request that found out, and a close() that waits for the dispatchers     *)
(* taken out of service.                                                    *)
(*                                                                         *)
(* A dispatcher is named by its entry's generation.  A fetch runs without   *)
(* interruption from the choice of the dispatcher to its await, so each     *)
(* action is one such stretch.                                              *)
(***************************************************************************)
EXTENDS Integers

CONSTANTS
  Requests,
  Origins,
  MaxGen,      \* bound: dispatchers made, those that could not be made included
  NoOrigin

Gens == 1..MaxGen
Idle == 0      \* origins.get() gives nothing

ASSUME TransportAssumption ==
  /\ MaxGen \in Nat
  /\ NoOrigin \notin Origins

VARIABLES
  current,     \* origins: the entry in service
  generation,
  owner,       \* the origin an entry was made for, NoOrigin if none was
  retired,     \* entry.retired
  draining,    \* closingDispatchers: close() called and not resolved
  failed,      \* entries a failure has been reported on
  closing,
  waits,       \* the dispatchers close() awaits
  closed,      \* close() has resolved
  pc, used,    \* per request: where its fetch is, and the entry it has
  replayable,  \* the body may be sent again and the signal is not aborted
  delivered    \* how often the provider has accepted the request

pool == <<current, generation, owner, retired, draining>>
shut == <<closing, waits, closed>>
vars == <<pool, failed, shut, pc, used, replayable, delivered>>

Made == {g \in Gens : owner[g] # NoOrigin}
InFlight == {"first", "retry", "streaming"}

TypeOK ==
  /\ current \in [Origins -> Gens \cup {Idle}]
  /\ generation \in 0..MaxGen
  /\ owner \in [Gens -> Origins \cup {NoOrigin}]
  /\ retired \subseteq Gens /\ draining \subseteq Gens /\ failed \subseteq Gens /\ waits \subseteq Gens
  /\ closing \in BOOLEAN /\ closed \in BOOLEAN
  /\ pc \in [Requests -> InFlight \cup {"idle", "done", "failed"}]
  /\ used \in [Requests -> Gens \cup {Idle}]
  /\ replayable \in [Requests -> BOOLEAN]
  /\ delivered \in [Requests -> Nat]

Init ==
  /\ current = [o \in Origins |-> Idle]
  /\ generation = 0
  /\ owner = [g \in Gens |-> NoOrigin]
  /\ retired = {} /\ draining = {} /\ failed = {} /\ waits = {}
  /\ closing = FALSE /\ closed = FALSE
  /\ pc = [r \in Requests |-> "idle"]
  /\ used = [r \in Requests |-> Idle]
  /\ replayable \in [Requests -> BOOLEAN]
  /\ delivered = [r \in Requests |-> 0]

-----------------------------------------------------------------------------
(* Dispatchers                                                             *)

\* Mutant of Retire: the old dispatcher is dropped, nobody closes it.
RetireNothing(gs) == UNCHANGED <<retired, draining>>

\* retire: each entry is closed once.
Retire(gs) ==
  /\ retired' = retired \cup gs
  /\ draining' = draining \cup (gs \ retired)

\* createEntry takes a generation, and may throw after it.
Creates(o) ==
  /\ generation < MaxGen
  /\ generation' = generation + 1
  /\ owner' = [owner EXCEPT ![generation + 1] = o]

CreationThrows ==
  /\ generation < MaxGen
  /\ generation' = generation + 1
  /\ UNCHANGED owner

\* Mutant of Stands: whoever fails replaces whatever is in service.
StandsNever(o, g) == closing

\* The early return of rotate: closing, or another request has replaced it.
Stands(o, g) == closing \/ current[o] \notin {Idle, g}

\* rotate after a failure of entry g; afterwards current is what it returns.
Rotate(o, g) ==
  \/ Stands(o, g) /\ UNCHANGED pool
  \/ /\ ~ Stands(o, g)
     /\ Creates(o)
     /\ current' = [current EXCEPT ![o] = generation + 1]
     /\ Retire({g})
  \/ /\ ~ Stands(o, g)
     /\ CreationThrows
     /\ UNCHANGED <<current, retired, draining>>

\* A dispatcher reports that a session of it went away; those retired and
\* still draining do so too.
GoAway(g) ==
  /\ g \in Made /\ g \notin retired \ draining
  /\ failed' = failed \cup {g}
  /\ IF closing THEN UNCHANGED pool ELSE Rotate(owner[g], g)
  /\ UNCHANGED <<shut, pc, used, replayable, delivered>>

\* The close() of a dispatcher waits for its requests, bodies included.
Drained(g) ==
  /\ g \in draining
  /\ \A r \in Requests : used[r] # g
  /\ draining' = draining \ {g}
  /\ UNCHANGED <<current, generation, owner, retired, failed, shut, pc, used, replayable, delivered>>

-----------------------------------------------------------------------------
(* Requests                                                                *)

\* The request is at phase and holds dispatcher g.
Dial(r, g, phase) ==
  /\ pc' = [pc EXCEPT ![r] = phase]
  /\ used' = [used EXCEPT ![r] = g]

\* Mutant of Throw: a request that failed keeps its dispatcher busy.
ThrowHolding(r) == Dial(r, used[r], "failed")

\* The fetch is rejected.
Throw(r) == Dial(r, Idle, "failed")

\* fetch and currentEntry.
Fetch(r, o) ==
  /\ pc[r] = "idle"
  /\ \/ closing /\ Throw(r) /\ UNCHANGED pool
     \/ /\ ~ closing /\ current[o] # Idle
        /\ Dial(r, current[o], "first")
        /\ UNCHANGED pool
     \/ /\ ~ closing /\ current[o] = Idle
        /\ Creates(o)
        /\ current' = [current EXCEPT ![o] = generation + 1]
        /\ Dial(r, generation + 1, "first")
        /\ UNCHANGED <<retired, draining>>
     \/ /\ ~ closing /\ current[o] = Idle
        /\ CreationThrows
        /\ Throw(r)
        /\ UNCHANGED <<current, retired, draining>>
  /\ UNCHANGED <<failed, shut, replayable, delivered>>

\* The provider accepts the request, and its answer begins.
Answer(r) ==
  /\ pc[r] \in {"first", "retry"}
  /\ pc' = [pc EXCEPT ![r] = "streaming"]
  /\ delivered' = [delivered EXCEPT ![r] = @ + 1]
  /\ UNCHANGED <<pool, failed, shut, used, replayable>>

\* The body ends, or breaks.
BodyEnds(r) ==
  /\ pc[r] = "streaming"
  /\ Dial(r, Idle, "done")
  /\ UNCHANGED <<pool, failed, shut, replayable, delivered>>

Failures == {"invalid-session", "other"}

\* Only a stream that was never opened is surely unknown to the provider.
Seen(r, failure) ==
  \E n \in {0, 1} :
    /\ failure = "invalid-session" => n = 0
    /\ delivered' = [delivered EXCEPT ![r] = delivered[r] + n]

\* Mutant of IsInvalidSession: any failure of the transport will do.
IsAnyFailure(failure) == failure \in Failures

\* isInvalidHttp2Session
IsInvalidSession(failure) == failure = "invalid-session"

\* rotate returned an entry, and replayableRequest.
Retries(r, entry) == entry # Idle /\ replayable[r]

\* The fetch fails, and is repeated at once on what rotate returns.
FirstFails(r, failure) ==
  LET g == used[r]
      o == owner[g]
  IN /\ pc[r] = "first"
     /\ Seen(r, failure)
     /\ IF IsInvalidSession(failure)
        THEN /\ failed' = failed \cup {g}
             /\ Rotate(o, g)
             /\ IF Retries(r, current'[o]) THEN Dial(r, current'[o], "retry") ELSE Throw(r)
        ELSE Throw(r) /\ UNCHANGED <<pool, failed>>
     /\ UNCHANGED <<shut, replayable>>

\* The repetition fails: the next request gets a new dispatcher, this one none.
RetryFails(r, failure) ==
  LET g == used[r]
  IN /\ pc[r] = "retry"
     /\ Seen(r, failure)
     /\ IF IsInvalidSession(failure)
        THEN failed' = failed \cup {g} /\ Rotate(owner[g], g)
        ELSE UNCHANGED <<pool, failed>>
     /\ Throw(r)
     /\ UNCHANGED <<shut, replayable>>

\* The caller aborts the signal; the fetch fails with that later.
Abort(r) ==
  /\ pc[r] \in {"idle", "first", "retry"}
  /\ replayable[r]
  /\ replayable' = [replayable EXCEPT ![r] = FALSE]
  /\ UNCHANGED <<pool, failed, shut, pc, used, delivered>>

-----------------------------------------------------------------------------
(* close                                                                   *)

InService == {g \in Gens : \E o \in Origins : current[o] = g}

Close ==
  /\ ~ closing
  /\ closing' = TRUE
  /\ current' = [o \in Origins |-> Idle]
  /\ Retire(InService)
  /\ waits' = draining'
  /\ UNCHANGED <<generation, owner, failed, closed, pc, used, replayable, delivered>>

\* Promise.allSettled over the dispatchers that were draining.
CloseResolves ==
  /\ closing /\ ~ closed
  /\ waits \cap draining = {}
  /\ closed' = TRUE
  /\ UNCHANGED <<pool, failed, closing, waits, pc, used, replayable, delivered>>

-----------------------------------------------------------------------------

Next ==
  \/ \E r \in Requests :
       \/ \E o \in Origins : Fetch(r, o)
       \/ \E failure \in Failures : FirstFails(r, failure) \/ RetryFails(r, failure)
       \/ Answer(r) \/ BodyEnds(r) \/ Abort(r)
  \/ \E g \in Gens : GoAway(g) \/ Drained(g)
  \/ Close
  \/ CloseResolves

Spec == Init /\ [][Next]_vars

\* headersTimeout bounds the wait for an answer.  Nothing bounds a body
\* (bodyTimeout 0), and no failure is ever certain.
FairSpec ==
  /\ Spec
  /\ \A r \in Requests : WF_vars(Answer(r) \/ FirstFails(r, "other") \/ RetryFails(r, "other"))
  /\ \A g \in Gens : WF_vars(Drained(g))
  /\ WF_vars(CloseResolves)

-----------------------------------------------------------------------------
(* Properties                                                              *)

\* However often dispatchers fail under it, a request is accepted at most once
\* upstream: it is sent again only if the provider cannot have seen it.
DeliveredOnce == \A r \in Requests : delivered[r] <= 1

\* Every dispatcher ever made is in service for its origin or has been closed,
\* whichever of several requests that failed on one of them came first.
NoneLeaks ==
  \A g \in Made : g \in retired \/ current[owner[g]] = g

\* A late failure of a dispatcher already replaced costs the one that replaced
\* it nothing: only a dispatcher that failed itself, or close, is rotated away.
OnlyFailedReplaced ==
  \A o \in Origins : current'[o] # current[o] => current[o] \in failed' \cup {Idle} \/ closing'

OnlyFailedRotated == [][OnlyFailedReplaced]_vars

\* Once close has resolved nothing is open and no request is on its way, though
\* dispatchers were being replaced and drained when it was called.
ClosedIsQuiet ==
  closed => /\ draining = {}
            /\ Made \subseteq retired
            /\ \A r \in Requests : pc[r] \notin InFlight

\* close resolves once the answers that were streaming have ended.
CloseSettles ==
  <>[](\A r \in Requests : pc[r] # "streaming") => (closing ~> closed)

=============================================================================
