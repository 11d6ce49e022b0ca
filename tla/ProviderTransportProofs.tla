----------------------- MODULE ProviderTransportProofs -----------------------
(***************************************************************************)
(* Proofs about the provider transport, for any number of requests, origins *)
(* and dispatchers.                                                         *)
(***************************************************************************)
EXTENDS ProviderTransport, TLAPS

\* Generations are used once, and an entry in service is its origin's own and
\* has not been retired.
Entries ==
  /\ \A g \in Gens : g > generation => owner[g] = NoOrigin
  /\ \A o \in Origins : current[o] # Idle => owner[current[o]] = o /\ current[o] \notin retired
  /\ retired \subseteq Made /\ draining \subseteq retired
  /\ NoneLeaks
  /\ closing => \A o \in Origins : current[o] = Idle

\* A request in flight keeps its dispatcher from having been drained.
Held ==
  \A r \in Requests :
    IF pc[r] \in InFlight THEN used[r] \in Made /\ used[r] \notin retired \ draining ELSE used[r] = Idle

\* What close awaits is all there is to await.
Awaited == /\ closing => draining \subseteq waits
           /\ closed => closing /\ draining = {}

Deliveries ==
  \A r \in Requests : delivered[r] = 0 \/ (delivered[r] = 1 /\ pc[r] \in {"streaming", "done", "failed"})

TransportInv == TypeOK /\ Entries /\ Held /\ Awaited /\ Deliveries

LEMMA TransportInit == Init => TransportInv
<1> USE TransportAssumption
<1> SUFFICES ASSUME Init PROVE TransportInv
  OBVIOUS
<1>1. TypeOK
  <2>1. /\ current \in [Origins -> Gens \cup {Idle}]
        /\ used \in [Requests -> Gens \cup {Idle}]
        /\ owner \in [Gens -> Origins \cup {NoOrigin}]
        /\ delivered \in [Requests -> Nat]
        /\ generation \in 0..MaxGen
    BY DEF Init
  <2>2. /\ pc \in [Requests -> InFlight \cup {"idle", "done", "failed"}]
        /\ retired \subseteq Gens /\ draining \subseteq Gens
        /\ failed \subseteq Gens /\ waits \subseteq Gens
    BY DEF Init
  <2>3. closing \in BOOLEAN /\ closed \in BOOLEAN /\ replayable \in [Requests -> BOOLEAN]
    BY Zenon DEF Init
  <2> QED
    BY <2>1, <2>2, <2>3, Zenon DEF TypeOK
<1>2. Entries
  BY DEF Init, Entries, NoneLeaks, Made, Gens, Idle
<1>3. Held /\ Awaited /\ Deliveries
  BY DEF Init, Held, Awaited, Deliveries, InFlight
<1> QED
  BY <1>1, <1>2, <1>3 DEF TransportInv

-----------------------------------------------------------------------------

PoolType ==
  /\ current \in [Origins -> Gens \cup {Idle}]
  /\ generation \in 0..MaxGen
  /\ owner \in [Gens -> Origins \cup {NoOrigin}]
  /\ retired \subseteq Gens /\ draining \subseteq Gens

\* What a step of the pool leaves as it was for those that hold a dispatcher.
PoolKept ==
  /\ Made \subseteq Made'
  /\ retired \ draining = retired' \ draining'

\* createEntry takes a generation nothing is known about.
LEMMA FreshGeneration ==
  ASSUME TypeOK, Entries, generation < MaxGen
  PROVE  /\ generation + 1 \in Gens
         /\ generation + 1 \notin Made
         /\ generation + 1 \notin retired
         /\ generation + 1 \notin draining
         /\ generation + 1 # Idle
         /\ \A o \in Origins : current[o] # generation + 1
BY TransportAssumption DEF TypeOK, Entries, Made, Gens, Idle

\* A new entry, put in service for an origin where what was is retired.
LEMMA NewEntry ==
  ASSUME TypeOK, Entries, ~ closing, UNCHANGED closing,
         NEW o \in Origins, Creates(o),
         current' = [current EXCEPT ![o] = generation + 1],
         NEW gs, gs = IF current[o] = Idle THEN {} ELSE {current[o]},
         retired' = retired \cup gs,
         draining' = draining \cup (gs \ retired)
  PROVE  PoolType' /\ Entries' /\ PoolKept /\ current'[o] \in Made' \ retired'
<1> USE TransportAssumption
<1>1. generation < MaxGen /\ generation' = generation + 1
      /\ owner' = [owner EXCEPT ![generation + 1] = o]
  BY DEF Creates
<1>2. /\ generation + 1 \in Gens /\ generation + 1 \notin Made
      /\ generation + 1 \notin retired /\ generation + 1 \notin draining /\ generation + 1 # Idle
      /\ \A x \in Origins : current[x] # generation + 1
  BY <1>1, FreshGeneration
<1>3. gs \subseteq Made /\ gs \subseteq Gens /\ generation + 1 \notin gs /\ gs \cap retired = {}
  BY <1>2 DEF TypeOK, Entries, Made, Gens, Idle
<1>4. PoolType'
  <2>1. generation' \in 0..MaxGen
    BY <1>1, <1>2 DEF TypeOK, Gens
  <2>2. current' \in [Origins -> Gens \cup {Idle}]
    BY <1>1, <1>2 DEF TypeOK
  <2>3. owner' \in [Gens -> Origins \cup {NoOrigin}]
    BY <1>1, <1>2 DEF TypeOK
  <2>4. retired' \subseteq Gens /\ draining' \subseteq Gens
    BY <1>3 DEF TypeOK
  <2> QED
    BY <2>1, <2>2, <2>3, <2>4, Zenon DEF PoolType
<1>5. Made' = Made \cup {generation + 1}
  BY <1>1, <1>2 DEF Made, TypeOK
<1>6. \A g \in Gens : g > generation' => owner'[g] = NoOrigin
  BY <1>1, <1>2 DEF Entries, TypeOK, Gens
<1>7. \A x \in Origins : current'[x] # Idle => owner'[current'[x]] = x /\ current'[x] \notin retired'
  <2> SUFFICES ASSUME NEW x \in Origins, current'[x] # Idle
               PROVE  owner'[current'[x]] = x /\ current'[x] \notin retired'
    OBVIOUS
  <2>1. CASE x = o
    BY <2>1, <1>1, <1>2, <1>3 DEF TypeOK
  <2>2. CASE x # o
    <3>1. current'[x] = current[x] /\ current[x] \in Gens /\ owner[current[x]] = x
          /\ current[x] \notin retired /\ current[x] # generation + 1
      BY <2>2, <1>2 DEF TypeOK, Entries
    <3>2. current[x] \notin gs
      BY <2>2, <3>1 DEF Entries
    <3> QED
      BY <3>1, <3>2, <1>1 DEF TypeOK
  <2> QED
    BY <2>1, <2>2
<1>8. retired' \subseteq Made' /\ draining' \subseteq retired'
  BY <1>3, <1>5 DEF Entries
<1>9. NoneLeaks'
  <2> SUFFICES ASSUME NEW g \in Made', g \notin retired'
               PROVE  current'[owner'[g]] = g
    BY DEF NoneLeaks
  <2>1. CASE g = generation + 1
    BY <2>1, <1>1, <1>2 DEF TypeOK
  <2>2. CASE g # generation + 1
    <3>1. g \in Made /\ g \in Gens /\ owner'[g] = owner[g] /\ owner[g] \in Origins /\ current[owner[g]] = g
      BY <2>2, <1>1, <1>5 DEF Entries, NoneLeaks, Made, TypeOK
    <3>2. owner[g] # o
      BY <3>1 DEF Gens, Idle
    <3> QED
      BY <3>1, <3>2 DEF TypeOK
  <2> QED
    BY <2>1, <2>2
<1>10. Entries'
  BY <1>6, <1>7, <1>8, <1>9 DEF Entries
<1>11. PoolKept
  BY <1>3, <1>5 DEF PoolKept
<1>12. current'[o] \in Made' \ retired'
  BY <1>2, <1>3, <1>5 DEF TypeOK
<1> QED
  BY <1>4, <1>10, <1>11, <1>12

\* rotate keeps the pool in order, and never returns a retired entry.
LEMMA RotateSafe ==
  ASSUME TypeOK, Entries, UNCHANGED closing,
         NEW g \in Made, Rotate(owner[g], g)
  PROVE  /\ PoolType' /\ Entries' /\ PoolKept
         /\ closing => UNCHANGED pool
         /\ current'[owner[g]] # Idle => current'[owner[g]] \in Made' \ retired'
         /\ \A o \in Origins : current'[o] # current[o] => current[o] \in {g, Idle}
<1> USE TransportAssumption
<1> DEFINE o == owner[g]
<1>0. o \in Origins /\ g \in Gens
  BY DEF Made, TypeOK
<1>1. CASE UNCHANGED pool
  <2>1. PoolType' /\ Entries' /\ PoolKept
    BY <1>1 DEF pool, PoolType, TypeOK, Entries, NoneLeaks, PoolKept, Made
  <2>2. current'[o] # Idle => current'[o] \in Made' \ retired'
    BY <1>0, <1>1 DEF pool, TypeOK, Entries, Made
  <2> QED
    BY <1>1, <2>1, <2>2 DEF pool
<1>2. CASE ~ Stands(o, g) /\ Creates(o) /\ current' = [current EXCEPT ![o] = generation + 1] /\ Retire({g})
  <2>1. ~ closing /\ current[o] \in {Idle, g}
    BY <1>2 DEF Stands
  <2>2. CASE current[o] = g
    <3>1. g # Idle
      BY <1>0 DEF Gens, Idle
    <3>2. PoolType' /\ Entries' /\ PoolKept /\ current'[o] \in Made' \ retired'
      BY <1>0, <1>2, <2>1, <2>2, <3>1, NewEntry DEF Retire
    <3> QED
      BY <1>0, <1>2, <2>1, <2>2, <3>2 DEF TypeOK
  <2>3. CASE current[o] = Idle
    <3>1. g \in retired
      BY <1>0, <2>3 DEF Entries, NoneLeaks, Gens, Idle
    <3>2. retired' = retired \cup {} /\ draining' = draining \cup ({} \ retired)
      BY <1>2, <3>1 DEF Retire
    <3>3. PoolType' /\ Entries' /\ PoolKept /\ current'[o] \in Made' \ retired'
      BY <1>0, <1>2, <2>1, <2>3, <3>2, NewEntry
    <3> QED
      BY <1>0, <1>2, <2>1, <2>3, <3>3 DEF TypeOK
  <2> QED
    BY <2>1, <2>2, <2>3
<1>3. CASE ~ Stands(o, g) /\ CreationThrows /\ UNCHANGED <<current, retired, draining>>
  <2>1. generation' = generation + 1 /\ generation < MaxGen /\ owner' = owner /\ ~ closing
    BY <1>3 DEF CreationThrows, Stands
  <2>2. PoolType'
    BY <1>3, <2>1 DEF PoolType, TypeOK
  <2>3. Made' = Made /\ (NoneLeaks' <=> NoneLeaks)
    BY <1>3, <2>1 DEF Made, NoneLeaks
  <2>4. Entries' /\ PoolKept
    BY <1>3, <2>1, <2>3 DEF Entries, PoolKept, TypeOK, Gens
  <2>5. current'[o] # Idle => current'[o] \in Made' \ retired'
    BY <1>0, <1>3, <2>3 DEF TypeOK, Entries, Made
  <2> QED
    BY <1>3, <2>1, <2>2, <2>4, <2>5
<1> QED
  BY <1>1, <1>2, <1>3 DEF Rotate, Stands
-----------------------------------------------------------------------------

\* The part of TypeOK about requests.
CallType ==
  /\ pc \in [Requests -> InFlight \cup {"idle", "done", "failed"}]
  /\ used \in [Requests -> Gens \cup {Idle}]
  /\ replayable \in [Requests -> BOOLEAN]
  /\ delivered \in [Requests -> Nat]

\* One request moves, the pool drains nothing: the others still hold theirs.
LEMMA DialSafe ==
  ASSUME TypeOK, Held, PoolKept,
         NEW r \in Requests, NEW g \in Gens \cup {Idle},
         NEW phase \in InFlight \cup {"idle", "done", "failed"},
         Dial(r, g, phase),
         IF phase \in InFlight THEN g \in Made' /\ g \notin retired' \ draining' ELSE g = Idle
  PROVE  /\ Held'
         /\ pc' \in [Requests -> InFlight \cup {"idle", "done", "failed"}]
         /\ used' \in [Requests -> Gens \cup {Idle}]
<1>1. pc' = [pc EXCEPT ![r] = phase] /\ used' = [used EXCEPT ![r] = g]
  BY DEF Dial
<1>2. /\ pc' \in [Requests -> InFlight \cup {"idle", "done", "failed"}]
      /\ used' \in [Requests -> Gens \cup {Idle}]
  BY <1>1 DEF TypeOK
<1>3. ASSUME NEW x \in Requests
      PROVE IF pc'[x] \in InFlight THEN used'[x] \in Made' /\ used'[x] \notin retired' \ draining'
            ELSE used'[x] = Idle
  <2>1. CASE x = r
    BY <2>1, <1>1 DEF TypeOK
  <2>2. CASE x # r
    BY <2>2, <1>1 DEF TypeOK, Held, PoolKept
  <2> QED
    BY <2>1, <2>2
<1> QED
  BY <1>2, <1>3 DEF Held, InFlight

\* Nothing about the shutdown changes while only the pool rotates.
LEMMA ShutKept ==
  ASSUME Awaited, UNCHANGED shut, closing => UNCHANGED pool
  PROVE  Awaited'
BY DEF Awaited, shut, pool

LEMMA TypeParts ==
  ASSUME TypeOK, PoolType', CallType', failed' \subseteq Gens, UNCHANGED shut
  PROVE  TypeOK'
<1>1. waits' \subseteq Gens
  BY DEF TypeOK, shut
<1>2. closing' \in BOOLEAN /\ closed' \in BOOLEAN
  BY Zenon DEF TypeOK, shut
<1> QED
  BY <1>1, <1>2, Zenon DEF TypeOK, PoolType, CallType

LEMMA PoolUnchanged ==
  ASSUME TypeOK, Entries, UNCHANGED pool, UNCHANGED closing
  PROVE  PoolType' /\ Entries' /\ PoolKept /\ (closing => UNCHANGED pool)
BY DEF pool, PoolType, TypeOK, Entries, NoneLeaks, PoolKept, Made

\* A request that takes the dispatcher in service, or makes the first one.
LEMMA FetchStep ==
  ASSUME TransportInv, NEW r \in Requests, NEW o \in Origins, Fetch(r, o)
  PROVE  TransportInv'
<1> USE TransportAssumption
<1>0. /\ TypeOK /\ Entries /\ Held /\ Awaited /\ Deliveries
      /\ pc[r] = "idle" /\ UNCHANGED failed /\ UNCHANGED shut
      /\ UNCHANGED replayable /\ UNCHANGED delivered /\ UNCHANGED closing
  BY DEF TransportInv, Fetch, shut
<1>1. PICK g \in Gens \cup {Idle}, phase \in {"first", "failed"} :
        /\ PoolType' /\ Entries' /\ PoolKept /\ (closing => UNCHANGED pool)
        /\ Dial(r, g, phase)
        /\ IF phase \in InFlight THEN g \in Made' /\ g \notin retired' ELSE g = Idle
  <2>1. CASE closing /\ Throw(r) /\ UNCHANGED pool
    BY <1>0, <2>1, PoolUnchanged DEF Throw, InFlight
  <2>2. CASE ~ closing /\ current[o] # Idle /\ Dial(r, current[o], "first") /\ UNCHANGED pool
    <3>1. current[o] \in Gens /\ current[o] \in Made /\ current[o] \notin retired
      BY <1>0, <2>2 DEF TypeOK, Entries, Made
    <3>2. current[o] \in Made' /\ current[o] \notin retired'
      BY <2>2, <3>1 DEF pool, Made
    <3>3. PoolType' /\ Entries' /\ PoolKept
      BY <1>0, <2>2, PoolUnchanged
    <3>4. IF "first" \in InFlight THEN current[o] \in Made' /\ current[o] \notin retired' ELSE current[o] = Idle
      BY <3>2 DEF InFlight
    <3> current[o] \in Gens \cup {Idle} /\ "first" \in {"first", "failed"}
      BY <3>1
    <3>6. WITNESS current[o] \in Gens \cup {Idle}, "first" \in {"first", "failed"}
    <3> QED
      BY <2>2, <3>3, <3>4
  <2>3. CASE /\ ~ closing /\ current[o] = Idle /\ Creates(o)
             /\ current' = [current EXCEPT ![o] = generation + 1]
             /\ Dial(r, generation + 1, "first")
             /\ UNCHANGED <<retired, draining>>
    <3>1. generation + 1 \in Gens
      BY <1>0, <2>3, FreshGeneration DEF Creates
    <3>2. retired' = retired \cup {} /\ draining' = draining \cup ({} \ retired)
      BY <2>3
    <3>3. PoolType' /\ Entries' /\ PoolKept /\ current'[o] \in Made' \ retired'
      BY <1>0, <2>3, <3>2, NewEntry
    <3>4. current'[o] = generation + 1
      BY <1>0, <2>3 DEF TypeOK
    <3>5. generation + 1 \in Made' /\ generation + 1 \notin retired'
      BY <3>3, <3>4
    <3>6. IF "first" \in InFlight THEN generation + 1 \in Made' /\ generation + 1 \notin retired'
          ELSE generation + 1 = Idle
      BY <3>5 DEF InFlight
    <3> generation + 1 \in Gens \cup {Idle} /\ "first" \in {"first", "failed"}
      BY <3>1
    <3>8. WITNESS generation + 1 \in Gens \cup {Idle}, "first" \in {"first", "failed"}
    <3> QED
      BY <2>3, <3>3, <3>6
  <2>4. CASE /\ ~ closing /\ current[o] = Idle /\ CreationThrows /\ Throw(r)
             /\ UNCHANGED <<current, retired, draining>>
    <3>1. generation' = generation + 1 /\ generation < MaxGen /\ owner' = owner
      BY <2>4 DEF CreationThrows
    <3>2. PoolType'
      BY <1>0, <2>4, <3>1 DEF PoolType, TypeOK
    <3>3. Made' = Made /\ (NoneLeaks' <=> NoneLeaks)
      BY <2>4, <3>1 DEF Made, NoneLeaks
    <3>4. Entries' /\ PoolKept
      BY <1>0, <2>4, <3>1, <3>3 DEF Entries, PoolKept, TypeOK, Gens
    <3> QED
      BY <2>4, <3>2, <3>4 DEF Throw, InFlight
  <2> QED
    BY <2>1, <2>2, <2>3, <2>4 DEF Fetch
<1>2. /\ Held'
      /\ pc' \in [Requests -> InFlight \cup {"idle", "done", "failed"}]
      /\ used' \in [Requests -> Gens \cup {Idle}]
  BY <1>0, <1>1, DialSafe DEF InFlight
<1>3. replayable' \in [Requests -> BOOLEAN] /\ delivered' \in [Requests -> Nat] /\ failed' \subseteq Gens
  BY <1>0 DEF TypeOK
<1>4. TypeOK'
  BY <1>0, <1>1, <1>2, <1>3, TypeParts, Zenon DEF CallType
<1>5. Deliveries'
  <2> SUFFICES ASSUME NEW x \in Requests
               PROVE delivered'[x] = 0 \/ (delivered'[x] = 1 /\ pc'[x] \in {"streaming", "done", "failed"})
    BY DEF Deliveries
  <2>1. CASE x = r
    BY <1>0, <2>1 DEF Deliveries
  <2>2. CASE x # r
    BY <1>0, <1>1, <2>2 DEF Deliveries, Dial, TypeOK
  <2> QED
    BY <2>1, <2>2
<1> QED
  BY <1>0, <1>1, <1>2, <1>4, <1>5, ShutKept DEF TransportInv

\* What both kinds of failure have in common, the provider having seen n more.
LEMMA SeenCount ==
  ASSUME TypeOK, Deliveries, NEW r \in Requests, NEW n \in {0, 1},
         pc[r] \in {"first", "retry"},
         delivered' = [delivered EXCEPT ![r] = delivered[r] + n],
         NEW phase \in {"retry", "failed"}, pc' = [pc EXCEPT ![r] = phase],
         phase = "failed" \/ n = 0
  PROVE  Deliveries' /\ delivered' \in [Requests -> Nat]
<1>0. /\ delivered \in [Requests -> Nat]
      /\ pc \in [Requests -> InFlight \cup {"idle", "done", "failed"}]
  BY Zenon DEF TypeOK
<1>1. delivered[r] = 0
  BY DEF Deliveries
<1>2. delivered' \in [Requests -> Nat]
  BY <1>0, <1>1
<1>3. ASSUME NEW x \in Requests
      PROVE delivered'[x] = 0 \/ (delivered'[x] = 1 /\ pc'[x] \in {"streaming", "done", "failed"})
  <2>1. CASE x = r
    BY <1>0, <1>1, <2>1
  <2>2. CASE x # r
    BY <2>2, <1>0 DEF Deliveries
  <2> QED
    BY <2>1, <2>2
<1> QED
  BY <1>2, <1>3 DEF Deliveries

LEMMA SeenSafe ==
  ASSUME TypeOK, Deliveries, NEW r \in Requests, NEW failure \in Failures, Seen(r, failure),
         pc[r] \in {"first", "retry"},
         NEW phase \in {"retry", "failed"}, pc' = [pc EXCEPT ![r] = phase],
         phase = "failed" \/ failure = "invalid-session"
  PROVE  Deliveries' /\ delivered' \in [Requests -> Nat]
<1>1. PICK n \in {0, 1} : /\ delivered' = [delivered EXCEPT ![r] = delivered[r] + n]
                          /\ (failure = "invalid-session" => n = 0)
  BY DEF Seen
<1>2. phase = "failed" \/ n = 0
  BY <1>1
<1> QED
  BY <1>1, <1>2, SeenCount

\* A first attempt fails, and may be repeated on the dispatcher now in service.
LEMMA FirstFailsStep ==
  ASSUME TransportInv, NEW r \in Requests, NEW failure \in Failures, FirstFails(r, failure)
  PROVE  TransportInv'
<1> USE TransportAssumption
<1> DEFINE g == used[r]
           o == owner[g]
<1>0. /\ TypeOK /\ Entries /\ Held /\ Awaited /\ Deliveries
      /\ pc[r] = "first" /\ UNCHANGED shut /\ UNCHANGED replayable /\ UNCHANGED closing
      /\ Seen(r, failure)
  BY DEF TransportInv, FirstFails, shut
<1>1. g \in Made /\ g \in Gens
  BY <1>0 DEF Held, InFlight, Made
<1>2. CASE /\ IsInvalidSession(failure) /\ failed' = failed \cup {g} /\ Rotate(o, g)
           /\ IF Retries(r, current'[o]) THEN Dial(r, current'[o], "retry") ELSE Throw(r)
  <2>1. PoolType' /\ Entries' /\ PoolKept /\ (closing => UNCHANGED pool)
    BY <1>0, <1>1, <1>2, RotateSafe
  <2>2. current'[o] # Idle => current'[o] \in Made' \ retired'
    BY <1>0, <1>1, <1>2, RotateSafe
  <2>3. failed' \subseteq Gens
    BY <1>0, <1>1, <1>2 DEF TypeOK
  <2>4. Held' /\ pc' \in [Requests -> InFlight \cup {"idle", "done", "failed"}]
        /\ used' \in [Requests -> Gens \cup {Idle}]
    <3>1. CASE Retries(r, current'[o]) /\ Dial(r, current'[o], "retry")
      <4>1. current'[o] \in Made' \ retired' /\ current'[o] \in Gens
        BY <2>2, <3>1 DEF Retries, Made
      <4> QED
        BY <1>0, <2>1, <3>1, <4>1, DialSafe DEF InFlight
    <3>2. CASE Throw(r)
      BY <1>0, <2>1, <3>2, DialSafe DEF Throw, InFlight
    <3> QED
      BY <1>2, <3>1, <3>2
  <2>5. Deliveries' /\ delivered' \in [Requests -> Nat]
    <3>1. failure = "invalid-session"
      BY <1>2 DEF IsInvalidSession
    <3> QED
      BY <1>0, <1>2, <3>1, SeenSafe DEF Dial, Throw
  <2>6. replayable' \in [Requests -> BOOLEAN]
    BY <1>0, Zenon DEF TypeOK
  <2>7. TypeOK'
    BY <1>0, <2>1, <2>3, <2>4, <2>5, <2>6, TypeParts, Zenon DEF CallType
  <2> QED
    BY <1>0, <2>1, <2>4, <2>5, <2>7, ShutKept DEF TransportInv
<1>3. CASE ~ IsInvalidSession(failure) /\ Throw(r) /\ UNCHANGED <<pool, failed>>
  <2>1. PoolType' /\ Entries' /\ PoolKept /\ (closing => UNCHANGED pool)
    BY <1>0, <1>3, PoolUnchanged
  <2>2. failed' \subseteq Gens
    BY <1>0, <1>3 DEF TypeOK
  <2>3. Held' /\ pc' \in [Requests -> InFlight \cup {"idle", "done", "failed"}]
        /\ used' \in [Requests -> Gens \cup {Idle}]
    BY <1>0, <1>3, <2>1, DialSafe DEF Throw, InFlight
  <2>4. Deliveries' /\ delivered' \in [Requests -> Nat]
    BY <1>0, <1>3, SeenSafe DEF Dial, Throw
  <2>5. replayable' \in [Requests -> BOOLEAN]
    BY <1>0, Zenon DEF TypeOK
  <2>6. TypeOK'
    BY <1>0, <2>1, <2>2, <2>3, <2>4, <2>5, TypeParts, Zenon DEF CallType
  <2> QED
    BY <1>0, <2>1, <2>3, <2>4, <2>6, ShutKept DEF TransportInv
<1> QED
  BY <1>2, <1>3 DEF FirstFails

\* The repetition fails.
LEMMA RetryFailsStep ==
  ASSUME TransportInv, NEW r \in Requests, NEW failure \in Failures, RetryFails(r, failure)
  PROVE  TransportInv'
<1> USE TransportAssumption
<1> DEFINE g == used[r]
<1>0. /\ TypeOK /\ Entries /\ Held /\ Awaited /\ Deliveries
      /\ pc[r] = "retry" /\ UNCHANGED shut /\ UNCHANGED replayable /\ UNCHANGED closing
      /\ Seen(r, failure) /\ Throw(r)
  BY DEF TransportInv, RetryFails, shut
<1>1. g \in Made /\ g \in Gens
  BY <1>0 DEF Held, InFlight, Made
<1>2. PoolType' /\ Entries' /\ PoolKept /\ (closing => UNCHANGED pool) /\ failed' \subseteq Gens
  <2>1. CASE failed' = failed \cup {g} /\ Rotate(owner[g], g)
    BY <1>0, <1>1, <2>1, RotateSafe DEF TypeOK
  <2>2. CASE UNCHANGED <<pool, failed>>
    BY <1>0, <2>2, PoolUnchanged DEF TypeOK
  <2> QED
    BY <2>1, <2>2 DEF RetryFails
<1>3. Held' /\ pc' \in [Requests -> InFlight \cup {"idle", "done", "failed"}]
      /\ used' \in [Requests -> Gens \cup {Idle}]
  BY <1>0, <1>2, DialSafe DEF Throw, InFlight
<1>4. Deliveries' /\ delivered' \in [Requests -> Nat]
  BY <1>0, SeenSafe DEF Dial, Throw
<1>5. replayable' \in [Requests -> BOOLEAN]
  BY <1>0, Zenon DEF TypeOK
<1>6. TypeOK'
  BY <1>0, <1>2, <1>3, <1>4, <1>5, TypeParts, Zenon DEF CallType
<1> QED
  BY <1>0, <1>2, <1>3, <1>4, <1>6, ShutKept DEF TransportInv

\* An answer begins, a body ends, a caller aborts: the pool is not touched.
LEMMA AnswerStep ==
  ASSUME TransportInv, NEW r \in Requests, Answer(r)
  PROVE  TransportInv'
<1>0. /\ TypeOK /\ Entries /\ Held /\ Awaited /\ Deliveries
      /\ pc[r] \in {"first", "retry"} /\ pc' = [pc EXCEPT ![r] = "streaming"]
      /\ delivered' = [delivered EXCEPT ![r] = @ + 1]
      /\ UNCHANGED pool /\ UNCHANGED failed /\ UNCHANGED shut /\ UNCHANGED closing
      /\ UNCHANGED used /\ UNCHANGED replayable
  BY DEF TransportInv, Answer, shut
<1>1. /\ delivered \in [Requests -> Nat]
      /\ pc \in [Requests -> InFlight \cup {"idle", "done", "failed"}]
      /\ used \in [Requests -> Gens \cup {Idle}]
  BY <1>0, Zenon DEF TypeOK
<1>2. PoolType' /\ Entries' /\ PoolKept /\ (closing => UNCHANGED pool)
  BY <1>0, PoolUnchanged
<1>3. pc' \in [Requests -> InFlight \cup {"idle", "done", "failed"}]
  BY <1>0, <1>1 DEF InFlight
<1>4. Held'
  BY <1>0, <1>1, <1>2 DEF Held, InFlight, PoolKept
<1>5. delivered' \in [Requests -> Nat] /\ Deliveries'
  <2>1. delivered[r] = 0
    BY <1>0 DEF Deliveries
  <2>2. delivered' = [delivered EXCEPT ![r] = 1]
    BY <1>0, <2>1
  <2> QED
    BY <1>0, <1>1, <2>2 DEF Deliveries
<1>6. replayable' \in [Requests -> BOOLEAN] /\ failed' \subseteq Gens /\ used' \in [Requests -> Gens \cup {Idle}]
  BY <1>0, Zenon DEF TypeOK
<1>7. TypeOK'
  BY <1>0, <1>2, <1>3, <1>5, <1>6, TypeParts, Zenon DEF CallType
<1> QED
  BY <1>0, <1>2, <1>4, <1>5, <1>7, ShutKept DEF TransportInv

LEMMA BodyEndsStep ==
  ASSUME TransportInv, NEW r \in Requests, BodyEnds(r)
  PROVE  TransportInv'
<1>0. /\ TypeOK /\ Entries /\ Held /\ Awaited /\ Deliveries
      /\ pc[r] = "streaming" /\ Dial(r, Idle, "done")
      /\ UNCHANGED pool /\ UNCHANGED failed /\ UNCHANGED shut /\ UNCHANGED closing
      /\ UNCHANGED delivered /\ UNCHANGED replayable
  BY DEF TransportInv, BodyEnds, shut
<1>1. PoolType' /\ Entries' /\ PoolKept /\ (closing => UNCHANGED pool)
  BY <1>0, PoolUnchanged
<1>2. Held' /\ pc' \in [Requests -> InFlight \cup {"idle", "done", "failed"}]
      /\ used' \in [Requests -> Gens \cup {Idle}]
  BY <1>0, <1>1, DialSafe DEF InFlight
<1>3. Deliveries'
  <2>1. pc \in [Requests -> InFlight \cup {"idle", "done", "failed"}]
    BY <1>0, Zenon DEF TypeOK
  <2> QED
    BY <1>0, <2>1 DEF Deliveries, Dial
<1>4. replayable' \in [Requests -> BOOLEAN] /\ failed' \subseteq Gens /\ delivered' \in [Requests -> Nat]
  BY <1>0, Zenon DEF TypeOK
<1>5. TypeOK'
  BY <1>0, <1>1, <1>2, <1>4, TypeParts, Zenon DEF CallType
<1> QED
  BY <1>0, <1>1, <1>2, <1>3, <1>5, ShutKept DEF TransportInv

LEMMA AbortStep ==
  ASSUME TransportInv, NEW r \in Requests, Abort(r)
  PROVE  TransportInv'
<1>0. /\ TypeOK /\ Entries /\ Held /\ Awaited /\ Deliveries
      /\ replayable' = [replayable EXCEPT ![r] = FALSE]
      /\ UNCHANGED pool /\ UNCHANGED failed /\ UNCHANGED shut /\ UNCHANGED closing
      /\ UNCHANGED delivered /\ UNCHANGED pc /\ UNCHANGED used
  BY DEF TransportInv, Abort, shut
<1>1. PoolType' /\ Entries' /\ PoolKept /\ (closing => UNCHANGED pool)
  BY <1>0, PoolUnchanged
<1>2. Held' /\ Deliveries'
  BY <1>0, <1>1 DEF Held, Deliveries, PoolKept
<1>3. replayable' \in [Requests -> BOOLEAN]
  BY <1>0, Zenon DEF TypeOK
<1>4. /\ pc' \in [Requests -> InFlight \cup {"idle", "done", "failed"}]
      /\ used' \in [Requests -> Gens \cup {Idle}]
      /\ failed' \subseteq Gens /\ delivered' \in [Requests -> Nat]
  BY <1>0, Zenon DEF TypeOK
<1>5. TypeOK'
  BY <1>0, <1>1, <1>3, <1>4, TypeParts, Zenon DEF CallType
<1> QED
  BY <1>0, <1>1, <1>2, <1>5, ShutKept DEF TransportInv

\* A dispatcher, in service or on its way out, reports a lost session.
LEMMA GoAwayStep ==
  ASSUME TransportInv, NEW g \in Gens, GoAway(g)
  PROVE  TransportInv'
<1>0. /\ TypeOK /\ Entries /\ Held /\ Awaited /\ Deliveries
      /\ g \in Made /\ failed' = failed \cup {g}
      /\ UNCHANGED shut /\ UNCHANGED closing
      /\ UNCHANGED delivered /\ UNCHANGED pc /\ UNCHANGED used /\ UNCHANGED replayable
  BY DEF TransportInv, GoAway, shut
<1>1. PoolType' /\ Entries' /\ PoolKept /\ (closing => UNCHANGED pool)
  <2>1. CASE UNCHANGED pool
    BY <1>0, <2>1, PoolUnchanged
  <2>2. CASE Rotate(owner[g], g)
    BY <1>0, <2>2, RotateSafe
  <2> QED
    BY <2>1, <2>2 DEF GoAway
<1>2. Held' /\ Deliveries'
  BY <1>0, <1>1 DEF Held, Deliveries, PoolKept
<1>3. replayable' \in [Requests -> BOOLEAN] /\ failed' \subseteq Gens
  BY <1>0, Zenon DEF TypeOK
<1>4. /\ pc' \in [Requests -> InFlight \cup {"idle", "done", "failed"}]
      /\ used' \in [Requests -> Gens \cup {Idle}]
      /\ delivered' \in [Requests -> Nat]
  BY <1>0, Zenon DEF TypeOK
<1>5. TypeOK'
  BY <1>0, <1>1, <1>3, <1>4, TypeParts, Zenon DEF CallType
<1> QED
  BY <1>0, <1>1, <1>2, <1>5, ShutKept DEF TransportInv

\* A dispatcher nobody holds any more is closed.
LEMMA DrainedStep ==
  ASSUME TransportInv, NEW g \in Gens, Drained(g)
  PROVE  TransportInv'
<1>0. /\ TypeOK /\ Entries /\ Held /\ Awaited /\ Deliveries
      /\ \A r \in Requests : used[r] # g
      /\ draining' = draining \ {g}
      /\ UNCHANGED <<current, generation, owner, retired, failed>>
      /\ UNCHANGED shut /\ UNCHANGED <<pc, used, replayable, delivered>>
  BY DEF TransportInv, Drained, shut
<1>1. Made' = Made /\ (NoneLeaks' <=> NoneLeaks)
  BY <1>0 DEF Made, NoneLeaks
<1>2. Entries'
  BY <1>0, <1>1 DEF Entries, shut
<1>3. Held'
  BY <1>0, <1>1 DEF Held
<1>4. Awaited'
  BY <1>0 DEF Awaited, shut
<1>5. Deliveries'
  BY <1>0 DEF Deliveries
<1>6. PoolType' /\ CallType' /\ failed' \subseteq Gens
  BY <1>0 DEF TypeOK, PoolType, CallType
<1> QED
  BY <1>0, <1>2, <1>3, <1>4, <1>5, <1>6, TypeParts DEF TransportInv

\* close retires whatever is in service and awaits everything that drains.
LEMMA CloseStep ==
  ASSUME TransportInv, Close
  PROVE  TransportInv'
<1>0. /\ TypeOK /\ Entries /\ Held /\ Awaited /\ Deliveries
      /\ ~ closing /\ closing' = TRUE
      /\ current' = [o \in Origins |-> Idle]
      /\ retired' = retired \cup InService
      /\ draining' = draining \cup (InService \ retired)
      /\ waits' = draining'
      /\ UNCHANGED <<generation, owner, failed, closed, pc, used, replayable, delivered>>
  BY DEF TransportInv, Close, Retire
<1>1. Made' = Made
  BY <1>0 DEF Made
<1>2. InService \subseteq Made
  BY <1>0, TransportAssumption DEF InService, Entries, Made, Gens, Idle
<1>3. Made \subseteq retired'
  BY <1>0 DEF InService, Entries, NoneLeaks, Made, TypeOK
<1>4. Entries'
  <2>1. \A g \in Gens : g > generation' => owner'[g] = NoOrigin
    BY <1>0 DEF Entries
  <2>2. \A o \in Origins : current'[o] = Idle
    BY <1>0
  <2>3. retired' \subseteq Made' /\ draining' \subseteq retired'
    BY <1>0, <1>1, <1>2 DEF Entries
  <2>4. NoneLeaks'
    BY <1>1, <1>3 DEF NoneLeaks
  <2> QED
    BY <2>1, <2>2, <2>3, <2>4 DEF Entries
<1>5. Held'
  <2>1. retired' \ draining' \subseteq retired \ draining
    BY <1>0
  <2> QED
    BY <1>0, <1>1, <2>1 DEF Held
<1>6. Awaited'
  BY <1>0 DEF Awaited
<1>7. Deliveries'
  BY <1>0 DEF Deliveries
<1>8. /\ current' \in [Origins -> Gens \cup {Idle}]
      /\ retired' \subseteq Gens /\ draining' \subseteq Gens /\ waits' \subseteq Gens
      /\ failed' \subseteq Gens
  BY <1>0, <1>2 DEF TypeOK, Made
<1>9. /\ generation' \in 0..MaxGen
      /\ owner' \in [Gens -> Origins \cup {NoOrigin}]
      /\ pc' \in [Requests -> InFlight \cup {"idle", "done", "failed"}]
      /\ used' \in [Requests -> Gens \cup {Idle}]
      /\ delivered' \in [Requests -> Nat]
  BY <1>0 DEF TypeOK
<1>10. closing' \in BOOLEAN /\ closed' \in BOOLEAN /\ replayable' \in [Requests -> BOOLEAN]
  BY <1>0, Zenon DEF TypeOK
<1>11. TypeOK'
  BY <1>8, <1>9, <1>10, Zenon DEF TypeOK
<1> QED
  BY <1>4, <1>5, <1>6, <1>7, <1>11 DEF TransportInv

LEMMA CloseResolvesStep ==
  ASSUME TransportInv, CloseResolves
  PROVE  TransportInv'
<1>0. /\ TypeOK /\ Entries /\ Held /\ Awaited /\ Deliveries
      /\ closing /\ waits \cap draining = {} /\ closed' = TRUE
      /\ UNCHANGED <<pool, failed, closing, waits, pc, used, replayable, delivered>>
  BY DEF TransportInv, CloseResolves
<1>1. PoolType' /\ Entries' /\ PoolKept
  BY <1>0, PoolUnchanged
<1>2. Held' /\ Deliveries'
  BY <1>0, <1>1 DEF Held, Deliveries, PoolKept
<1>3. Awaited'
  BY <1>0 DEF Awaited, pool
<1>4. closing' \in BOOLEAN /\ closed' \in BOOLEAN /\ replayable' \in [Requests -> BOOLEAN]
  BY <1>0, Zenon DEF TypeOK
<1>5. /\ pc' \in [Requests -> InFlight \cup {"idle", "done", "failed"}]
      /\ used' \in [Requests -> Gens \cup {Idle}]
      /\ failed' \subseteq Gens /\ waits' \subseteq Gens /\ delivered' \in [Requests -> Nat]
  BY <1>0, Zenon DEF TypeOK
<1>6. TypeOK'
  BY <1>1, <1>4, <1>5, Zenon DEF TypeOK, PoolType
<1> QED
  BY <1>1, <1>2, <1>3, <1>6 DEF TransportInv

-----------------------------------------------------------------------------

LEMMA TransportStep == TransportInv /\ [Next]_vars => TransportInv'
<1> SUFFICES ASSUME TransportInv, [Next]_vars PROVE TransportInv'
  OBVIOUS
<1>1. CASE \E r \in Requests : \E o \in Origins : Fetch(r, o)
  BY <1>1, FetchStep
<1>2. CASE \E r \in Requests : \E failure \in Failures : FirstFails(r, failure) \/ RetryFails(r, failure)
  BY <1>2, FirstFailsStep, RetryFailsStep
<1>3. CASE \E r \in Requests : Answer(r) \/ BodyEnds(r) \/ Abort(r)
  BY <1>3, AnswerStep, BodyEndsStep, AbortStep
<1>4. CASE \E g \in Gens : GoAway(g) \/ Drained(g)
  BY <1>4, GoAwayStep, DrainedStep
<1>5. CASE Close
  BY <1>5, CloseStep
<1>6. CASE CloseResolves
  BY <1>6, CloseResolvesStep
<1>7. CASE UNCHANGED vars
  BY <1>7 DEF vars, pool, shut, TransportInv, TypeOK, Entries, NoneLeaks, Made, Held, Awaited, Deliveries
<1> QED
  BY <1>1, <1>2, <1>3, <1>4, <1>5, <1>6, <1>7 DEF Next

LEMMA TransportAlways == Spec => []TransportInv
BY TransportInit, TransportStep, PTL DEF Spec

\* Every reachable state of the transport is of its types.
THEOREM TransportTypes == Spec => []TypeOK
<1>1. TransportInv => TypeOK
  BY DEF TransportInv
<1> QED
  BY <1>1, TransportAlways, PTL

\* No request is accepted twice by its provider.
THEOREM TransportDeliversOnce == Spec => []DeliveredOnce
<1>1. TransportInv => DeliveredOnce
  <2> SUFFICES ASSUME TransportInv, NEW r \in Requests PROVE delivered[r] <= 1
    BY DEF DeliveredOnce
  <2>1. delivered[r] = 0 \/ delivered[r] = 1
    BY DEF TransportInv, Deliveries
  <2> QED
    BY <2>1
<1> QED
  BY <1>1, TransportAlways, PTL

\* No dispatcher is forgotten.
THEOREM TransportKeepsTrack == Spec => []NoneLeaks
<1>1. TransportInv => NoneLeaks
  BY DEF TransportInv, Entries
<1> QED
  BY <1>1, TransportAlways, PTL

\* When close has resolved there is nothing left that runs.
THEOREM TransportClosesQuietly == Spec => []ClosedIsQuiet
<1>1. TransportInv => ClosedIsQuiet
  <2> SUFFICES ASSUME TransportInv, closed PROVE
        /\ draining = {}
        /\ Made \subseteq retired
        /\ \A r \in Requests : pc[r] \notin InFlight
    BY DEF ClosedIsQuiet
  <2>1. draining = {} /\ \A o \in Origins : current[o] = Idle
    BY DEF TransportInv, Awaited, Entries
  <2>2. Made \subseteq retired
    BY <2>1 DEF TransportInv, Entries, NoneLeaks, Made, TypeOK, Gens, Idle
  <2> QED
    BY <2>1, <2>2 DEF TransportInv, Held
<1> QED
  BY <1>1, TransportAlways, PTL

\* What replaces a dispatcher is a failure of that very dispatcher.
THEOREM TransportRotatesFailed == Spec => OnlyFailedRotated
<1>1. TransportInv /\ [Next]_vars => [OnlyFailedReplaced]_vars
  <2> SUFFICES ASSUME TransportInv, Next PROVE OnlyFailedReplaced
    OBVIOUS
  <2>0. TypeOK /\ Entries /\ Held
    BY DEF TransportInv
  <2>1. CASE \E r \in Requests : \E o \in Origins : Fetch(r, o)
    BY <2>0, <2>1 DEF OnlyFailedReplaced, Fetch, pool, TypeOK
  <2>2. ASSUME NEW r \in Requests, NEW failure \in Failures, FirstFails(r, failure) \/ RetryFails(r, failure)
        PROVE  OnlyFailedReplaced
    <3>1. pc[r] \in InFlight /\ UNCHANGED closing
      BY <2>2 DEF FirstFails, RetryFails, InFlight, shut
    <3>2. used[r] \in Made
      BY <2>0, <3>1 DEF Held
    <3>3. CASE UNCHANGED pool
      BY <3>3 DEF OnlyFailedReplaced, pool
    <3>4. CASE Rotate(owner[used[r]], used[r]) /\ failed' = failed \cup {used[r]}
      BY <2>0, <3>1, <3>2, <3>4, RotateSafe DEF OnlyFailedReplaced
    <3> QED
      BY <2>2, <3>3, <3>4 DEF FirstFails, RetryFails
  <2>3. CASE \E r \in Requests : Answer(r) \/ BodyEnds(r) \/ Abort(r)
    BY <2>3 DEF OnlyFailedReplaced, Answer, BodyEnds, Abort, pool
  <2>4. ASSUME NEW g \in Gens, GoAway(g)
        PROVE  OnlyFailedReplaced
    <3>1. CASE UNCHANGED pool
      BY <3>1 DEF OnlyFailedReplaced, pool
    <3>2. CASE Rotate(owner[g], g)
      <4>1. g \in Made /\ UNCHANGED closing /\ failed' = failed \cup {g}
        BY <2>4 DEF GoAway, shut
      <4> QED
        BY <2>0, <3>2, <4>1, RotateSafe DEF OnlyFailedReplaced
    <3> QED
      BY <2>4, <3>1, <3>2 DEF GoAway
  <2>5. CASE (\E g \in Gens : Drained(g)) \/ CloseResolves
    BY <2>5 DEF OnlyFailedReplaced, Drained, CloseResolves, pool
  <2>6. CASE Close
    BY <2>6 DEF OnlyFailedReplaced, Close
  <2> QED
    BY <2>1, <2>2, <2>3, <2>4, <2>5, <2>6 DEF Next
<1> QED
  BY <1>1, TransportAlways, PTL DEF Spec, OnlyFailedRotated
=============================================================================
