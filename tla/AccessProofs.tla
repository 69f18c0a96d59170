---------------------------- MODULE AccessProofs -----------------------------
(***************************************************************************)
(* Who is let in, and what an open page holds: the slots and the satellite *)
(* passes of Listener, the limit of attempts and the sessions of HttpAuth, *)
(* the channels and the tabs of VirtualChannels, for any connections,      *)
(* addresses, windows, limits, lifetimes, tabs, rigs, bookmarks and        *)
(* requests at a time. The three parts share no variable; each has an      *)
(* inductive invariant of its own.                                         *)
(***************************************************************************)
EXTENDS Listener, HttpAuth, VirtualChannels, SequenceFacts, SequenceTheorems,
        FiniteSetTheorems, TLAPS

USE ListenerAssumption DEF ListenerAssumption

(***************************************************************************)
(* The connections of an address, when one joins, leaves or goes on.       *)
(***************************************************************************)
LEMMA MineFinite ==
    ASSUME Clients, NEW a
    PROVE  IsFiniteSet(Mine(a)) /\ Cardinality(Mine(a)) \in Nat
<1>1. Mine(a) \in SUBSET Alive
  BY DEF Mine
<1>2. IsFiniteSet(Mine(a))
  BY <1>1, FS_Subset DEF Clients
<1> QED
  BY <1>2, FS_CardinalityType

LEMMA ClientKinds ==
    ASSUME Clients, NEW h \in Handlers
    PROVE  /\ h \in Alive => client[h] \in Talking
           /\ h \notin Alive => client[h] = Nobody
BY DEF Clients, Alive, Talking, Nobody

LEMMA MineJoins ==
    ASSUME Clients, NEW h \in Handlers, h \notin Alive, NEW talk \in Talking,
           client' = [client EXCEPT ![h] = talk]
    PROVE  /\ IsFiniteSet(Alive') /\ Alive' = Alive \cup {h}
           /\ Cardinality(Mine(talk.from)') = Cardinality(Mine(talk.from)) + 1
           /\ \A a \in Addresses : a # talk.from => Mine(a)' = Mine(a)
<1>1. /\ client'[h] = talk /\ talk.at # "none"
      /\ \A g \in Handlers : g # h => client'[g] = client[g]
  BY DEF Clients, Talking
<1>2. Alive' = Alive \cup {h}
  BY <1>1 DEF Alive
<1>3. IsFiniteSet(Alive')
  BY <1>2, FS_AddElement DEF Clients
<1>4. Alive \subseteq Handlers
  BY DEF Alive
<1>5. Mine(talk.from)' = Mine(talk.from) \cup {h} /\ h \notin Mine(talk.from)
  BY <1>1, <1>2, <1>4 DEF Mine
<1>6. Cardinality(Mine(talk.from) \cup {h}) = Cardinality(Mine(talk.from)) + 1
  BY <1>5, MineFinite, FS_AddElement
<1>7. ASSUME NEW a \in Addresses, a # talk.from PROVE Mine(a)' = Mine(a)
  BY <1>1, <1>2, <1>4, <1>7 DEF Mine
<1> QED
  BY <1>2, <1>3, <1>5, <1>6, <1>7

LEMMA MineLeaves ==
    ASSUME Clients, NEW h \in Alive, NEW from, from = client[h].from,
           client' = [client EXCEPT ![h] = Nobody]
    PROVE  /\ IsFiniteSet(Alive') /\ Alive' = Alive \ {h} /\ client[h] \in Talking
           /\ Cardinality(Mine(from)) >= 1
           /\ Cardinality(Mine(from)') = Cardinality(Mine(from)) - 1
           /\ \A a \in Addresses : a # from => Mine(a)' = Mine(a)
<1>0. h \in Handlers /\ Alive \subseteq Handlers
  BY DEF Alive
<1>1. client'[h] = Nobody /\ \A g \in Handlers : g # h => client'[g] = client[g]
  BY <1>0 DEF Clients
<1>2. Alive' = Alive \ {h}
  BY <1>0, <1>1 DEF Alive, Nobody
<1>3. IsFiniteSet(Alive')
  BY <1>2, FS_RemoveElement DEF Clients
<1>4. Mine(from)' = Mine(from) \ {h} /\ h \in Mine(from)
  BY <1>0, <1>1, <1>2 DEF Mine
<1>5. Cardinality(Mine(from) \ {h}) = Cardinality(Mine(from)) - 1
  BY <1>4, MineFinite, FS_RemoveElement
<1>6. Cardinality(Mine(from)) >= 1
  <2>1. Cardinality(Mine(from)) # 0
    BY <1>4, MineFinite, FS_EmptySet
  <2> QED
    BY <2>1, MineFinite
<1>7. ASSUME NEW a \in Addresses, a # from PROVE Mine(a)' = Mine(a)
  BY <1>0, <1>1, <1>2, <1>7 DEF Mine
<1>8. client[h] \in Talking
  BY <1>0, ClientKinds
<1> QED
  BY <1>2, <1>3, <1>4, <1>5, <1>6, <1>7, <1>8

LEMMA MineStays ==
    ASSUME Clients, NEW h \in Alive, NEW talk \in Talking, talk.from = client[h].from,
           client' = [client EXCEPT ![h] = talk]
    PROVE  /\ Alive' = Alive /\ client'[h] = talk
           /\ \A g \in Handlers : g # h => client'[g] = client[g]
           /\ \A a \in Addresses : Mine(a)' = Mine(a)
<1>0. h \in Handlers /\ Alive \subseteq Handlers
  BY DEF Alive
<1>1. client'[h] = talk /\ talk.at # "none" /\ \A g \in Handlers : g # h => client'[g] = client[g]
  BY <1>0 DEF Clients, Talking
<1>2. Alive' = Alive
  BY <1>0, <1>1 DEF Alive
<1> QED
  BY <1>0, <1>1, <1>2 DEF Mine

(***************************************************************************)
(* The steps.                                                              *)
(***************************************************************************)
LEMMA ListenerStarts == ListenerInit => ListenerInd
<1> SUFFICES ASSUME ListenerInit PROVE ListenerInd
  OBVIOUS
<1>1. Alive = {} /\ \A a : Mine(a) = {}
  BY DEF ListenerInit, Alive, Nobody, Mine
<1>2. Clients
  BY <1>1, FS_EmptySet DEF ListenerInit, Clients
<1>3. Tracker
  BY <1>1, FS_EmptySet DEF ListenerInit, Tracker
<1>4. Forecasts
  BY <1>1 DEF ListenerInit, Forecasts
<1> QED
  BY <1>2, <1>3, <1>4 DEF ListenerInd

LEMMA TickKeeps == ListenerInd /\ Ticks => ListenerInd'
<1> SUFFICES ASSUME ListenerInd, Ticks PROVE ListenerInd'
  OBVIOUS
<1> USE DEF ListenerInd
<1>1. /\ tick' = tick + 1 /\ tick' \in 0..MaxTicks /\ tick \in Nat
      /\ UNCHANGED <<listening, client, slots, forecast, accepts, panics, leaked>>
  BY DEF Ticks, Clients
<1>2. Alive' = Alive /\ \A a : Mine(a)' = Mine(a)
  BY <1>1 DEF Alive, Mine
<1>3. Clients'
  <2>1. Talking \subseteq Talking'
    BY <1>1 DEF Talking
  <2>2. client \in [Handlers -> (Talking \cup {Nobody})']
    BY <2>1 DEF Clients, Nobody
  <2> QED
    BY <1>1, <1>2, <2>2 DEF Clients
<1>4. Tracker'
  BY <1>1, <1>2 DEF Tracker
<1>5. Forecasts'
  <2>1. ASSUME NEW h \in Alive, client[h].at = "predict" PROVE tick' - client[h].since <= Patience
    <3>1. client[h].since \in Nat
      <4>1. h \in Handlers
        BY DEF Alive
      <4> QED
        BY <4>1, ClientKinds DEF Talking
    <3> QED
      BY <1>1, <2>1, <3>1 DEF Ticks
  <2> QED
    BY <1>1, <1>2, <2>1 DEF Forecasts
<1> QED
  BY <1>3, <1>4, <1>5

\* A connection that goes on keeps its slot: what is left to show is about its times.
LEMMA ClientGoesOn ==
    ASSUME ListenerInd, NEW h \in Alive, NEW talk \in Talking, talk.from = client[h].from,
           client' = [client EXCEPT ![h] = talk],
           talk.at = "predict" => tick - talk.since <= Patience,
           talk.at = "passes" => talk.told >= talk.since - PassesKept - Patience,
           UNCHANGED <<listening, slots, counters>>,
           forecast' = forecast \/ (/\ forecast'.began \in 0..tick /\ forecast'.kept \in 0..tick
                                    /\ forecast'.kept - forecast'.began <= Patience)
    PROVE  ListenerInd'
<1> USE DEF ListenerInd
<1>1. UNCHANGED <<listening, slots, tick, accepts, panics, leaked>>
  BY DEF counters
<1>2. /\ Alive' = Alive /\ client'[h] = talk /\ \A g \in Handlers : g # h => client'[g] = client[g]
      /\ \A a \in Addresses : Mine(a)' = Mine(a)
  BY MineStays
<1>3. h \in Handlers /\ Alive \subseteq Handlers /\ Talking' = Talking
  BY <1>1 DEF Alive, Talking
<1>4. Clients'
  <2>1. client' \in [Handlers -> Talking \cup {Nobody}]
    BY <1>3 DEF Clients
  <2> QED
    BY <1>1, <1>2, <1>3, <2>1 DEF Clients, Nobody
<1>5. Tracker'
  BY <1>1, <1>2 DEF Tracker
<1>6. Forecasts'
  <2>1. ASSUME NEW g \in Alive
        PROVE  /\ client'[g].at = "predict" => tick - client'[g].since <= Patience
               /\ client'[g].at = "passes" => client'[g].told >= client'[g].since - PassesKept - Patience
    BY <1>2, <1>3 DEF Forecasts
  <2>2. forecast' # NoPasses =>
          /\ forecast'.began \in 0..tick /\ forecast'.kept \in 0..tick
          /\ forecast'.kept - forecast'.began <= Patience
    BY DEF Forecasts
  <2> QED
    BY <1>1, <1>2, <2>1, <2>2 DEF Forecasts
<1> QED
  BY <1>4, <1>5, <1>6

LEMMA AcceptKeeps ==
    ASSUME ListenerInd, NEW h \in Handlers, NEW a \in Addresses, AcceptClient(h, a)
    PROVE  ListenerInd'
<1> USE DEF ListenerInd
<1> DEFINE talk == [at |-> "read", from |-> a, since |-> 0, told |-> 0]
<1>1. /\ client[h].at = "none" /\ accepts' \in 0..MaxAccepts
      /\ UNCHANGED <<listening, forecast, tick, panics, leaked>>
  BY DEF AcceptClient, Clients
<1>2. h \notin Alive /\ talk \in Talking /\ talk.from = a /\ talk.at = "read" /\ Talking' = Talking
  BY <1>1 DEF Alive, Talking, Clients
<1> HIDE DEF talk
<1>3. CASE slots[a] >= Slots
  <2>1. UNCHANGED <<client, slots>>
    BY <1>3 DEF AcceptClient
  <2>2. Alive' = Alive /\ \A b : Mine(b)' = Mine(b)
    BY <2>1 DEF Alive, Mine
  <2> QED
    BY <1>1, <1>2, <2>1, <2>2 DEF Clients, Tracker, Forecasts, Nobody
<1>4. CASE ~(slots[a] >= Slots)
  <2>1. slots' = [slots EXCEPT ![a] = @ + 1] /\ client' = [client EXCEPT ![h] = talk]
    BY <1>4 DEF AcceptClient, talk
  <2>2. /\ IsFiniteSet(Alive') /\ Alive' = Alive \cup {h}
        /\ Cardinality(Mine(a)') = Cardinality(Mine(a)) + 1
        /\ \A b \in Addresses : b # a => Mine(b)' = Mine(b)
    BY <1>2, <2>1, MineJoins
  <2>3. Clients'
    BY <1>1, <1>2, <2>1, <2>2 DEF Clients, Nobody
  <2>4. Tracker'
    <3>1. slots' \in [Addresses -> 0..Slots]
      BY <1>4, <2>1 DEF Tracker
    <3>2. ASSUME NEW b \in Addresses PROVE slots'[b] = Cardinality(Mine(b)') + leaked[b]
      <4>1. Cardinality(Mine(b)) \in Nat /\ slots[b] = Cardinality(Mine(b)) + leaked[b] /\ leaked[b] \in Nat
        BY MineFinite DEF Tracker
      <4>2. slots'[b] = IF b = a THEN slots[b] + 1 ELSE slots[b]
        BY <2>1 DEF Tracker
      <4> QED
        BY <2>2, <4>1, <4>2
    <3> QED
      BY <1>1, <3>1, <3>2 DEF Tracker
  <2>5. Forecasts'
    <3>1. client'[h] = talk /\ \A g \in Handlers : g # h => client'[g] = client[g]
      BY <2>1 DEF Clients
    <3> QED
      BY <1>1, <1>2, <2>2, <3>1 DEF Forecasts, Alive
  <2> QED
    BY <2>3, <2>4, <2>5
<1> QED
  BY <1>3, <1>4

\* A handler is gone: its slot is given back, or a panic has taken it along.
LEMMA GoneKeeps ==
    ASSUME ListenerInd, NEW h \in Alive, NEW from, from = client[h].from,
           client' = [client EXCEPT ![h] = Nobody],
           UNCHANGED <<listening, forecast, tick, accepts>>,
           \/ slots' = [slots EXCEPT ![from] = IF @ > 0 THEN @ - 1 ELSE 0]
              /\ UNCHANGED <<panics, leaked>>
           \/ panics < MaxPanics /\ panics' = panics + 1 /\ UNCHANGED slots
              /\ leaked' = [leaked EXCEPT ![from] = @ + 1]
    PROVE  ListenerInd'
<1> USE DEF ListenerInd
<1>1. /\ IsFiniteSet(Alive') /\ Alive' = Alive \ {h}
      /\ Cardinality(Mine(from)) >= 1 /\ from \in Addresses
      /\ Cardinality(Mine(from)') = Cardinality(Mine(from)) - 1
      /\ \A b \in Addresses : b # from => Mine(b)' = Mine(b)
  BY MineLeaves DEF Talking
<1>2. Clients'
  <2>1. client' \in [Handlers -> Talking' \cup {Nobody}] /\ Nobody' = Nobody
    BY DEF Clients, Talking, Nobody
  <2> QED
    BY <1>1, <2>1 DEF Clients
<1>3. Forecasts'
  <2>1. h \in Handlers /\ \A g \in Handlers : g # h => client'[g] = client[g]
    BY DEF Clients, Alive
  <2> QED
    BY <1>1, <2>1 DEF Forecasts, Alive
<1>4. Tracker'
  <2>0. ASSUME NEW b \in Addresses
        PROVE  /\ Cardinality(Mine(b)) \in Nat /\ slots[b] = Cardinality(Mine(b)) + leaked[b]
               /\ leaked[b] \in 0..panics /\ slots[b] \in 0..Slots
    BY MineFinite DEF Tracker
  <2>1. CASE slots' = [slots EXCEPT ![from] = IF @ > 0 THEN @ - 1 ELSE 0] /\ UNCHANGED <<panics, leaked>>
    <3>1. ASSUME NEW b \in Addresses
          PROVE  slots'[b] = Cardinality(Mine(b)') + leaked[b] /\ slots'[b] \in 0..Slots
      <4>1. slots'[b] = IF b = from THEN (IF slots[b] > 0 THEN slots[b] - 1 ELSE 0) ELSE slots[b]
        BY <2>1 DEF Tracker
      <4> QED
        BY <1>1, <2>0, <4>1
    <3>2. slots' \in [Addresses -> 0..Slots]
      BY <2>1, <3>1 DEF Tracker
    <3> QED
      BY <2>1, <3>1, <3>2 DEF Tracker
  <2>2. CASE /\ panics < MaxPanics /\ panics' = panics + 1 /\ UNCHANGED slots
             /\ leaked' = [leaked EXCEPT ![from] = @ + 1]
    <3>1. ASSUME NEW b \in Addresses
          PROVE  slots'[b] = Cardinality(Mine(b)') + leaked'[b] /\ leaked'[b] \in 0..panics'
      <4>1. leaked'[b] = IF b = from THEN leaked[b] + 1 ELSE leaked[b]
        BY <2>2 DEF Tracker
      <4>2. panics \in Nat /\ slots'[b] = slots[b]
        BY <2>2 DEF Tracker
      <4>3. leaked'[b] \in 0..panics'
        BY <2>0, <2>2, <4>1, <4>2
      <4>4. CASE b = from
        BY <1>1, <2>0, <4>1, <4>2, <4>4
      <4>5. CASE b # from
        BY <1>1, <2>0, <4>1, <4>2, <4>5
      <4> QED
        BY <4>3, <4>4, <4>5
    <3>2. leaked' \in [Addresses -> 0..panics']
      BY <2>2, <3>1 DEF Tracker
    <3> QED
      BY <2>2, <3>1, <3>2 DEF Tracker
  <2> QED
    BY <2>1, <2>2
<1> QED
  BY <1>2, <1>3, <1>4

HandlerSteps(h) ==
    \/ \E a \in Addresses : AcceptClient(h, a)
    \/ HandlerEnds(h) \/ HandlerPanics(h)
    \/ AnswersItself(h) \/ HandsOver(h) \/ Replied(h) \/ Streams(h)
    \/ AsksPasses(h) \/ Predicted(h)

LEMMA HandlerKeeps == ASSUME ListenerInd, NEW h \in Handlers, HandlerSteps(h) PROVE ListenerInd'
<1> USE DEF ListenerInd
<1>0. /\ client[h].at # "none" => h \in Alive
      /\ h \in Alive => client[h] \in Talking
  BY ClientKinds DEF Alive
<1>1. CASE \E a \in Addresses : AcceptClient(h, a)
  BY <1>1, AcceptKeeps
<1>2. CASE HandlerEnds(h)
  BY <1>0, <1>2, GoneKeeps DEF HandlerEnds, Release, counters
<1>3. CASE HandlerPanics(h)
  BY <1>0, <1>3, GoneKeeps DEF HandlerPanics
<1>4. CASE AnswersItself(h) \/ HandsOver(h) \/ Replied(h) \/ Streams(h)
  <2>1. PICK at \in {"read", "reply", "rig", "meter"} : HandlerGoes(h, at) /\ client[h].at # "none"
    BY <1>4 DEF AnswersItself, HandsOver, Replied, Streams
  <2> DEFINE talk == [client[h] EXCEPT !.at = at]
  <2>2. talk \in Talking /\ talk.from = client[h].from /\ talk.at = at
    BY <1>0, <2>1 DEF Talking
  <2>3. client' = [client EXCEPT ![h] = talk] /\ UNCHANGED <<listening, slots, forecast, counters>>
    BY <2>1 DEF HandlerGoes
  <2> HIDE DEF talk
  <2> QED
    BY <1>0, <2>1, <2>2, <2>3, ClientGoesOn
<1>5. CASE AsksPasses(h)
  <2>1. client[h].at = "read" /\ UNCHANGED <<listening, slots, forecast, counters>>
    BY <1>5 DEF AsksPasses
  <2>2. tick \in Nat /\ tick \in 0..tick
    BY DEF Clients
  <2>3. CASE Fresh
    <3> DEFINE talk == [client[h] EXCEPT !.at = "passes", !.since = tick, !.told = forecast.began]
    <3>1. /\ forecast.began \in 0..tick /\ forecast.kept \in 0..tick
          /\ forecast.kept - forecast.began <= Patience /\ tick - forecast.kept < PassesKept
      BY <2>3 DEF Fresh, Forecasts
    <3>2. /\ talk \in Talking /\ talk.from = client[h].from /\ talk.at = "passes"
          /\ talk.since = tick /\ talk.told = forecast.began
      BY <1>0, <2>1, <2>2, <3>1 DEF Talking
    <3>3. client' = [client EXCEPT ![h] = talk]
      BY <1>5, <2>3 DEF AsksPasses
    <3> HIDE DEF talk
    <3>4. talk.told >= talk.since - PassesKept - Patience
      BY <2>2, <3>1, <3>2
    <3> QED
      BY <1>0, <2>1, <3>2, <3>3, <3>4, ClientGoesOn
  <2>4. CASE ~Fresh
    <3> DEFINE talk == [client[h] EXCEPT !.at = "predict", !.since = tick]
    <3>1. talk \in Talking /\ talk.from = client[h].from /\ talk.at = "predict" /\ talk.since = tick
      BY <1>0, <2>1, <2>2 DEF Talking
    <3>2. client' = [client EXCEPT ![h] = talk]
      BY <1>5, <2>4 DEF AsksPasses
    <3> HIDE DEF talk
    <3>3. tick - talk.since <= Patience
      BY <2>2, <3>1
    <3> QED
      BY <1>0, <2>1, <3>1, <3>2, <3>3, ClientGoesOn
  <2> QED
    BY <2>3, <2>4
<1>6. CASE Predicted(h)
  <2> DEFINE talk == [client[h] EXCEPT !.at = "passes", !.since = tick, !.told = client[h].since]
  <2>1. /\ client[h].at = "predict" /\ UNCHANGED <<listening, slots, counters>>
        /\ forecast' = [began |-> client[h].since, kept |-> tick]
        /\ client' = [client EXCEPT ![h] = talk]
    BY <1>6 DEF Predicted
  <2>2. tick \in Nat /\ tick \in 0..tick /\ client[h].since \in 0..tick /\ tick - client[h].since <= Patience
    BY <1>0, <2>1 DEF Clients, Forecasts, Talking
  <2>3. /\ talk \in Talking /\ talk.from = client[h].from /\ talk.at = "passes"
        /\ talk.since = tick /\ talk.told = client[h].since
    BY <1>0, <2>1, <2>2 DEF Talking
  <2> HIDE DEF talk
  <2>4. forecast'.began \in 0..tick /\ forecast'.kept \in 0..tick /\ forecast'.kept - forecast'.began <= Patience
    BY <2>1, <2>2
  <2>5. talk.told >= talk.since - PassesKept - Patience
    BY <2>2, <2>3
  <2> QED
    BY <1>0, <2>1, <2>3, <2>4, <2>5, ClientGoesOn
<1> QED
  BY <1>1, <1>2, <1>3, <1>4, <1>5, <1>6 DEF HandlerSteps

LEMMA ListenerKeeps == ListenerInd /\ [ListenerNext]_listenerVars => ListenerInd'
<1> SUFFICES ASSUME ListenerInd, [ListenerNext]_listenerVars PROVE ListenerInd'
  OBVIOUS
<1>1. CASE ListenerEnds \/ UNCHANGED listenerVars
  <2>1. UNCHANGED <<client, slots, forecast, tick, accepts, panics, leaked>> /\ listening' \in BOOLEAN
    BY <1>1 DEF ListenerEnds, listenerVars, counters, ListenerInd, Clients
  <2>2. Alive' = Alive /\ Talking' = Talking /\ \A a : Mine(a)' = Mine(a)
    BY <2>1 DEF Alive, Mine, Talking
  <2> QED
    BY <2>1, <2>2 DEF ListenerInd, Clients, Tracker, Forecasts, Nobody
<1>2. ASSUME NEW h \in Handlers, HandlerSteps(h) PROVE ListenerInd'
  BY <1>2, HandlerKeeps
<1> QED
  BY <1>1, <1>2, TickKeeps, Zenon DEF ListenerNext, HandlerSteps

\* No address gets more connections than it may have, and none loses a slot but by a panic;
\* nobody is given passes older than the life of the cache and of one computation.
THEOREM ListenerHolds == ListenerSpec => []ListenerInv
<1>1. ListenerInd => ListenerInv
  <2> SUFFICES ASSUME ListenerInd PROVE ListenerInv
    OBVIOUS
  <2> USE DEF ListenerInd
  <2>1. SlotsCounted
    <3> SUFFICES ASSUME NEW a \in Addresses
                 PROVE  Cardinality(Mine(a)) <= Slots /\ slots[a] = Cardinality(Mine(a)) + leaked[a]
      BY DEF SlotsCounted, Mine
    <3>1. Cardinality(Mine(a)) \in Nat /\ leaked[a] \in Nat /\ slots[a] \in 0..Slots
      BY MineFinite DEF Tracker
    <3> QED
      BY <3>1 DEF Tracker
  <2>2. PassesCurrent
    BY DEF Forecasts, PassesCurrent
  <2>3. ListenerTypeOK
    <3>1. ASSUME NEW h \in Handlers
          PROVE  /\ client[h].at \in {"none", "read", "reply", "predict", "passes", "rig", "meter"}
                 /\ client[h].since \in 0..MaxTicks /\ client[h].told \in 0..MaxTicks
                 /\ h \in Alive => client[h].from \in Addresses
      <4>1. tick \in 0..MaxTicks
        BY DEF Clients
      <4>2. CASE h \in Alive
        BY <4>1, <4>2, ClientKinds DEF Talking
      <4>3. CASE h \notin Alive
        BY <4>1, <4>3, ClientKinds DEF Nobody
      <4> QED
        BY <4>2, <4>3
    <3>2. leaked \in [Addresses -> 0..MaxPanics]
      BY DEF Tracker
    <3> QED
      BY <3>1, <3>2 DEF ListenerTypeOK, Clients, Tracker, Forecasts
  <2> QED
    BY <2>1, <2>2, <2>3 DEF ListenerInv
<1> QED
  BY <1>1, ListenerStarts, ListenerKeeps, PTL DEF ListenerSpec

HIDE ListenerAssumption DEF ListenerAssumption

LEMMA Limits ==
    /\ MaxAttempts \in Nat \ {0} /\ MaxLogins \in Nat \ {0}
    /\ Ttl \in Nat /\ Window \in Nat /\ MaxHour \in Nat
BY HttpAuthAssumption DEF HttpAuthAssumption

USE Limits

(***************************************************************************)
(* The limit: one more failure, counted in its window.                     *)
(***************************************************************************)
LEMMA FailureCounts ==
    ASSUME NEW now \in 0..MaxHour, NEW f \in Seq(0..now),
           NEW a \in [count : 0..MaxAttempts, since : 0..now], Orderly(f, a),
           NEW b \in [count : 0..MaxAttempts, since : 0..now],
           \/ /\ a.count = 0 \/ now - a.since > Window
              /\ b.count = 1 /\ b.since = now
           \/ /\ a.count > 0 /\ now - a.since <= Window
              /\ b.count = a.count + 1 /\ b.since = a.since
    PROVE  Append(f, now) \in Seq(0..now) /\ Orderly(Append(f, now), b)
<1> DEFINE n == Len(f)
           M == MaxAttempts
           g == Append(f, now)
           c == a.count
           s == a.since
           d == b.count
           u == b.since
           Restarts == (c = 0 \/ now - s > Window) /\ d = 1 /\ u = now
           GoesOn   == c > 0 /\ now - s <= Window /\ d = c + 1 /\ u = s
<1>1. /\ n \in Nat /\ now \in Nat /\ now <= MaxHour /\ M \in Nat \ {0} /\ Window \in Nat
      /\ c \in 0..M /\ s \in 0..now /\ d \in 0..M /\ u \in 0..now
  BY LenProperties
<1>2. c <= n /\ (c = 0 => n = 0)
  BY DEF Orderly
<1>3. \A i, j \in 1..n : i <= j => f[i] <= f[j]
  BY DEF Orderly
<1>4. /\ \A i \in 1..n : i > n - c => f[i] \in s..s + Window
      /\ c > 0 => f[n - c + 1] = s
  BY DEF Orderly
<1>5. \A i \in 1..n : i <= n - c - M + 1 => f[i] + Window < s
  BY DEF Orderly
<1>6. \A i, j \in 1..n : j >= i + 2 * M - 1 => f[i] + Window < f[j]
  BY DEF Orderly
<1>7. /\ g \in Seq(0..now) /\ Len(g) = n + 1 /\ g[n + 1] = now
      /\ \A i \in 1..n : g[i] = f[i] /\ f[i] \in 0..now
  <2>1. now \in 0..now
    BY <1>1
  <2> QED
    BY <2>1, AppendProperties, LenProperties
<1>8. Restarts \/ GoesOn
  OBVIOUS
<1> HIDE DEF n, M, g, c, s, d, u
<1>9. \A i \in 1..(n + 1) : g[i] \in 0..now /\ (i \in 1..n \/ i = n + 1)
  BY <1>1, <1>7
<1>10. ASSUME NEW i \in 1..(n + 1), NEW j \in 1..(n + 1), i <= j PROVE g[i] <= g[j]
  <2>1. CASE j \in 1..n
    <3>1. i \in 1..n
      BY <1>1, <1>10, <2>1
    <3> QED
      BY <1>3, <1>7, <1>10, <2>1, <3>1
  <2>2. CASE j = n + 1
    BY <1>1, <1>7, <1>9, <2>2
  <2> QED
    BY <1>9, <2>1, <2>2
<1>11. d <= n + 1 /\ d # 0
  BY <1>1, <1>2, <1>8
<1>12. /\ \A i \in 1..(n + 1) : i > n + 1 - d => g[i] \in u..u + Window
       /\ g[n + 1 - d + 1] = u
  <2>1. CASE Restarts
    <3>1. \A i \in 1..(n + 1) : i > n => i = n + 1
      BY <1>1
    <3>2. n + 1 - d = n /\ n + 1 - d + 1 = n + 1 /\ now \in u..u + Window
      BY <1>1, <2>1
    <3> QED
      BY <1>1, <1>7, <2>1, <3>1, <3>2
  <2>2. CASE GoesOn
    <3>1. n + 1 - d = n - c /\ n - c + 1 \in 1..n
      BY <1>1, <1>2, <2>2
    <3>2. g[n + 1 - d + 1] = u
      BY <1>4, <1>7, <2>2, <3>1
    <3>3. ASSUME NEW i \in 1..(n + 1), i > n + 1 - d PROVE g[i] \in u..u + Window
      <4>1. CASE i \in 1..n
        BY <1>4, <1>7, <2>2, <3>1, <3>3, <4>1
      <4>2. CASE i = n + 1
        BY <1>1, <1>7, <2>2, <4>2
      <4> QED
        BY <1>9, <4>1, <4>2
    <3> QED
      BY <3>2, <3>3
  <2> QED
    BY <1>8, <2>1, <2>2
<1>13. ASSUME NEW i \in 1..(n + 1), i <= n + 1 - d - M + 1 PROVE g[i] + Window < u
  <2>1. CASE GoesOn
    <3>1. i \in 1..n /\ i <= n - c - M + 1
      BY <1>1, <1>13, <2>1
    <3> QED
      BY <1>5, <1>7, <2>1, <3>1
  <2>2. CASE Restarts
    <3>1. i \in 1..n /\ i <= n - M + 1
      BY <1>1, <1>13, <2>2
    <3>2. c # 0 /\ now - s > Window
      BY <1>2, <2>2, <3>1
    <3>3. n - c + 1 \in 1..n /\ i <= n - c + 1
      BY <1>1, <1>2, <3>1, <3>2
    <3>4. f[n - c + 1] = s /\ f[i] <= f[n - c + 1]
      BY <1>1, <1>3, <1>4, <3>1, <3>2, <3>3
    <3>5. f[i] \in 0..now /\ g[i] = f[i]
      BY <1>7, <3>1
    <3> QED
      BY <1>1, <2>2, <3>2, <3>4, <3>5
  <2> QED
    BY <1>8, <2>1, <2>2
<1>14. ASSUME NEW i \in 1..(n + 1), NEW j \in 1..(n + 1), j >= i + 2 * M - 1
       PROVE  g[i] + Window < g[j]
  <2>1. CASE j \in 1..n
    <3>1. i \in 1..n
      BY <1>1, <1>14, <2>1
    <3> QED
      BY <1>6, <1>7, <1>14, <2>1, <3>1
  <2>2. CASE j = n + 1
    <3>1. i <= n + 1 - d - M + 1
      BY <1>1, <1>14, <2>2
    <3>2. g[i] + Window < u
      BY <1>13, <3>1
    <3> QED
      BY <1>1, <1>7, <1>9, <2>2, <3>2
  <2> QED
    BY <1>9, <2>1, <2>2
<1>15. Orderly(g, b)
  <2>1. \A i, j \in 1..(n + 1) : i <= j => g[i] <= g[j]
    BY <1>10
  <2>2. \A i \in 1..(n + 1) : i <= n + 1 - d - M + 1 => g[i] + Window < u
    BY <1>13
  <2>3. \A i, j \in 1..(n + 1) : j >= i + 2 * M - 1 => g[i] + Window < g[j]
    BY <1>14
  <2>4. Len(g) = n + 1
    BY <1>7
  <2>5. d <= Len(g) /\ (d = 0 => Len(g) = 0)
    BY <1>11, <2>4
  <2>6. \A i, j \in 1..Len(g) : i <= j => g[i] <= g[j]
    BY <2>1, <2>4
  <2>7. \A i \in 1..Len(g) : i > Len(g) - d => g[i] \in u..u + Window
    BY <1>1, <1>12, <2>4
  <2>8. d > 0 => g[Len(g) - d + 1] = u
    BY <1>1, <1>12, <2>4
  <2>9. \A i \in 1..Len(g) : i <= Len(g) - d - M + 1 => g[i] + Window < u
    BY <1>1, <2>2, <2>4
  <2>10. \A i, j \in 1..Len(g) : j >= i + 2 * M - 1 => g[i] + Window < g[j]
    BY <1>1, <2>3, <2>4
  <2> QED
    BY <2>5, <2>6, <2>7, <2>8, <2>9, <2>10 DEF Orderly, M, d, u
<1> QED
  BY <1>7, <1>15 DEF g

\* The limiter counts as the lemma asks.
LEMMA CountedFits ==
    ASSUME Clock, Failures, NEW p \in Peers, Allowed(p)
    PROVE  LET a == attempts[p]
               b == Counted(p)
           IN  /\ a \in [count : 0..MaxAttempts, since : 0..hour]
               /\ b \in [count : 0..MaxAttempts, since : 0..hour]
               /\ \/ /\ a.count = 0 \/ hour - a.since > Window
                     /\ b.count = 1 /\ b.since = hour
                  \/ /\ a.count > 0 /\ hour - a.since <= Window
                     /\ b.count = a.count + 1 /\ b.since = a.since
<1> DEFINE a == attempts[p]
           b == Counted(p)
<1>1. a \in [count : 0..MaxAttempts, since : 0..hour] /\ hour \in 0..hour /\ hour \in Nat
  BY DEF Failures, Clock
<1>2. CASE a.count = 0 \/ hour - a.since > Window
  <2>1. b = [count |-> 1, since |-> hour]
    BY <1>2 DEF Counted
  <2> QED
    BY <1>1, <1>2, <2>1
<1>3. CASE ~(a.count = 0 \/ hour - a.since > Window)
  <2>1. b = [a EXCEPT !.count = @ + 1]
    BY <1>3 DEF Counted
  <2>2. a.count < MaxAttempts
    BY <1>3 DEF Allowed
  <2> HIDE DEF a
  <2>3. a.count > 0 /\ hour - a.since <= Window /\ a.count + 1 \in 0..MaxAttempts
    BY <1>1, <1>3, <2>2
  <2> QED
    BY <1>1, <2>1, <2>3 DEF a
<1> QED
  BY <1>2, <1>3

LEMMA LaterTimes == ASSUME Clock, Failures, hour' >= hour, hour' \in Nat PROVE failed \in [Peers -> Seq(0..hour')]
<1>1. ASSUME NEW p \in Peers PROVE failed[p] \in Seq(0..hour')
  <2>1. 0..hour \subseteq 0..hour'
    BY DEF Clock
  <2>2. failed[p] \in Seq(0..hour)
    BY DEF Failures
  <2>3. \A S, T : S \subseteq T => Seq(S) \subseteq Seq(T)
    OBVIOUS
  <2> QED
    BY <2>1, <2>2, <2>3
<1> QED
  BY <1>1 DEF Failures

\* Fewer than twice the attempts of a window fit in any span of its length.
LEMMA FailuresBounded == Clock /\ Failures => AttemptsBounded
<1> SUFFICES ASSUME Clock, Failures, NEW p \in Peers, NEW t \in 0..hour
             PROVE  Cardinality({i \in 1..Len(failed[p]) : failed[p][i] \in t..t + Window})
                        < 2 * MaxAttempts
  BY DEF AttemptsBounded
<1> DEFINE f == failed[p]
           n == Len(failed[p])
           In == {i \in 1..n : f[i] \in t..t + Window}
<1>1. /\ n \in Nat /\ t \in Nat
      /\ \A i \in 1..n : f[i] \in Nat
      /\ \A i, j \in 1..n : i <= j => f[i] <= f[j]
      /\ \A i, j \in 1..n : j >= i + 2 * MaxAttempts - 1 => f[i] + Window < f[j]
  <2>1. f \in Seq(0..hour) /\ hour \in Nat
    BY DEF Failures, Clock
  <2>2. n \in Nat /\ \A i \in 1..n : f[i] \in 0..hour
    BY <2>1, LenProperties
  <2> QED
    BY <2>1, <2>2 DEF Failures, Orderly
<1> SUFFICES Cardinality(In) < 2 * MaxAttempts
  OBVIOUS
<1> HIDE DEF f, n
<1>2. CASE In = {}
  BY <1>2, FS_EmptySet
<1>3. CASE In # {}
  <2>1. In \in SUBSET Nat
    BY <1>1
  <2>2. PICK m \in In : \A i \in In : m <= i
    BY <1>3, <2>1, Least
  <2>3. m \in Nat /\ m + 2 * MaxAttempts - 2 \in Int /\ m \in 1..n
    BY <2>1, <2>2, <1>1
  <2>4. In \subseteq m..(m + 2 * MaxAttempts - 2)
    <3> SUFFICES ASSUME NEW i \in In PROVE i <= m + 2 * MaxAttempts - 2 /\ m <= i /\ i \in Nat
      OBVIOUS
    <3>1. i \in 1..n /\ m \in 1..n /\ f[i] <= t + Window /\ t <= f[m] /\ m <= i
      BY <1>1, <2>2, <2>3
    <3>2. f[i] \in Nat /\ f[m] \in Nat
      BY <1>1, <3>1
    <3>3. ~(i >= m + 2 * MaxAttempts - 1)
      <4> SUFFICES ASSUME i >= m + 2 * MaxAttempts - 1 PROVE FALSE
        OBVIOUS
      <4>1. f[m] + Window < f[i]
        BY <1>1, <3>1
      <4> QED
        BY <1>1, <3>1, <3>2, <4>1
    <3> QED
      BY <1>1, <2>3, <3>1, <3>3
  <2>5. /\ IsFiniteSet(m..(m + 2 * MaxAttempts - 2))
        /\ Cardinality(m..(m + 2 * MaxAttempts - 2)) = 2 * MaxAttempts - 1
    BY <2>3, FS_Interval
  <2>6. IsFiniteSet(In) /\ Cardinality(In) <= 2 * MaxAttempts - 1
    <3> HIDE DEF In
    <3> QED
      BY <2>4, <2>5, FS_Subset
  <2>7. Cardinality(In) \in Nat
    BY <2>6, FS_CardinalityType
  <2> QED
    BY <2>6, <2>7
<1> QED
  BY <1>2, <1>3

(***************************************************************************)
(* The steps.                                                              *)
(***************************************************************************)
LEMMA AuthStarts == AuthInit => AuthInd
<1> SUFFICES ASSUME AuthInit PROVE AuthInd
  OBVIOUS
<1>1. \A S : <<>> \in Seq(S) /\ Len(<<>>) = 0
  BY EmptySeq
<1>2. Clock /\ Created /\ SessionsEnd
  BY <1>1 DEF AuthInit, Clock, Created, SessionsEnd
<1>3. Orderly(<<>>, [count |-> 0, since |-> 0])
  BY <1>1 DEF Orderly
<1>4. Failures
  BY <1>1, <1>3 DEF AuthInit, Failures
<1> QED
  BY <1>2, <1>4 DEF AuthInd

LEMMA TimeKeeps == AuthInd /\ HourPasses => AuthInd'
<1> SUFFICES ASSUME AuthInd, HourPasses PROVE AuthInd'
  OBVIOUS
<1> USE DEF AuthInd
<1>1. /\ hour' = hour + 1 /\ hour' \in 0..MaxHour /\ hour \in Nat
      /\ UNCHANGED <<sessions, jar, attempts, logins, failed, closed, request>>
  BY DEF HourPasses, Clock
<1>2. Clock' /\ Created'
  BY <1>1 DEF Clock, Created
<1>3. Failures'
  <2>1. hour' >= hour /\ hour' \in Nat
    BY <1>1
  <2>2. \A p \in Peers : attempts[p].since <= hour'
    BY <1>1, <2>1 DEF Failures
  <2> QED
    BY <1>1, <2>1, <2>2, LaterTimes DEF Failures
<1>4. SessionsEnd'
  <2>1. ASSUME NEW i \in 1..Len(logins), hour' < logins[i].expires PROVE hour < logins[i].expires
    <3>1. logins[i] \in [role : Roles, expires : 0..MaxHour + Ttl]
      BY LenProperties DEF Created
    <3> QED
      BY <1>1, <2>1, <3>1
  <2> QED
    BY <1>1, <2>1 DEF SessionsEnd
<1> QED
  BY <1>2, <1>3, <1>4

LEMMA LoginKeeps ==
    ASSUME AuthInd, NEW p \in Peers, NEW role \in Roles, LoginAs(p, role)
    PROVE  AuthInd'
<1> USE DEF AuthInd
<1> DEFINE id  == Len(logins) + 1
           new == [role |-> role, expires |-> hour + Ttl]
           s0  == [id |-> id, role |-> role, expires |-> hour + Ttl]
           Entries == [role : Roles, expires : 0..MaxHour + Ttl]
<1>1. /\ id <= MaxLogins
      /\ attempts' = [attempts EXCEPT ![p] = [count |-> 0, since |-> 0]]
      /\ failed' = [failed EXCEPT ![p] = <<>>]
      /\ logins' = Append(logins, new) /\ sessions' = sessions \cup {s0}
      /\ jar' = [jar EXCEPT ![p] = id]
      /\ UNCHANGED <<hour, closed, request>>
  BY DEF LoginAs
<1>2. hour \in Nat /\ hour <= MaxHour
  BY DEF Clock
<1>3. new \in Entries /\ logins \in Seq(Entries) /\ Len(logins) \in Nat
  BY <1>2, LenProperties DEF Created
<1>4. /\ logins' \in Seq(Entries) /\ Len(logins') = id /\ logins'[id] = new
      /\ \A i \in 1..Len(logins) : logins'[i] = logins[i]
  BY <1>1, <1>3, AppendProperties
<1>5. s0 \in Record /\ s0.id = id /\ s0.role = new.role /\ s0.expires = new.expires
  BY <1>1, <1>2, <1>3 DEF Record
<1> HIDE DEF new, s0, Entries
<1>6. Created'
  <2>1. \A q \in Peers : jar'[q] <= Len(logins') /\ jar'[q] \in 0..MaxLogins
    BY <1>1, <1>3, <1>4 DEF Created
  <2>2. jar' \in [Peers -> 0..MaxLogins]
    BY <1>1, <2>1 DEF Created
  <2>3. ASSUME NEW s \in sessions'
        PROVE  /\ s.id \in 1..Len(logins') /\ s.id \notin closed /\ s \in Record
               /\ s.role = logins'[s.id].role /\ s.expires = logins'[s.id].expires
    BY <1>1, <1>3, <1>4, <1>5 DEF Created
  <2>4. closed' \subseteq 1..Len(logins')
    BY <1>1, <1>3, <1>4 DEF Created
  <2> QED
    BY <1>1, <1>4, <2>1, <2>2, <2>3, <2>4 DEF Created, Entries
<1>7. Failures'
  <2>1. Orderly(<<>>, [count |-> 0, since |-> 0])
    BY EmptySeq DEF Orderly
  <2>2. \A q \in Peers : Orderly(failed'[q], attempts'[q]) /\ attempts'[q].since <= hour
    BY <1>1, <1>2, <2>1 DEF Failures
  <2>3. attempts' \in [Peers -> [count : 0..MaxAttempts, since : 0..MaxHour]]
    BY <1>1 DEF Failures
  <2>4. failed' \in [Peers -> Seq(0..hour')]
    BY <1>1, EmptySeq DEF Failures
  <2> QED
    BY <1>1, <2>2, <2>3, <2>4 DEF Failures
<1>8. SessionsEnd'
  <2>1. ASSUME NEW i \in 1..Len(logins'), hour < logins'[i].expires, i \notin closed
        PROVE  \E s \in sessions' : s.id = i
    <3>1. CASE i = id
      BY <1>1, <1>5, <3>1
    <3>2. CASE i # id
      <4>1. i \in 1..Len(logins)
        BY <1>3, <1>4, <3>2
      <4> QED
        BY <1>1, <1>4, <2>1, <4>1 DEF SessionsEnd
    <3> QED
      BY <3>1, <3>2
  <2>2. request.fine /\ request.route = "control" =>
            /\ request.id \in 1..Len(logins') /\ ~request.closed
            /\ logins'[request.id].role = "control" /\ request.at <= logins'[request.id].expires
    BY <1>3, <1>4 DEF SessionsEnd
  <2> QED
    BY <1>1, <1>6, <2>1, <2>2 DEF SessionsEnd, Created
<1> QED
  BY <1>1, <1>6, <1>7, <1>8 DEF Clock

LEMMA WrongKeeps == ASSUME AuthInd, NEW p \in Peers, WrongPassphrase(p) PROVE AuthInd'
<1> USE DEF AuthInd
<1>1. /\ UNCHANGED <<hour, sessions, jar, logins, closed, request>>
      /\ attempts' = [attempts EXCEPT ![p] = Counted(p)]
      /\ failed' = [failed EXCEPT ![p] = Append(@, hour)]
  BY DEF WrongPassphrase
<1>2. Clock' /\ Created' /\ SessionsEnd'
  BY <1>1 DEF Clock, Created, SessionsEnd
<1>3. /\ Append(failed[p], hour) \in Seq(0..hour) /\ Orderly(Append(failed[p], hour), Counted(p))
      /\ Counted(p) \in [count : 0..MaxAttempts, since : 0..hour]
  <2>1. Orderly(failed[p], attempts[p]) /\ failed[p] \in Seq(0..hour) /\ hour \in 0..MaxHour
    BY DEF Failures, Clock
  <2> QED
    BY <2>1, CountedFits, FailureCounts DEF WrongPassphrase
<1>4. Counted(p) \in [count : 0..MaxAttempts, since : 0..MaxHour] /\ Counted(p).since <= hour
  BY <1>3 DEF Clock
<1>5. Failures'
  BY <1>1, <1>3, <1>4 DEF Failures
<1> QED
  BY <1>2, <1>5

\* The limiter is not touched by requests, logout and clean-up.
LEMMA LimiterStays ==
    ASSUME AuthInd, UNCHANGED <<hour, attempts, failed>>
    PROVE  Clock' /\ Failures'
<1> QED
  BY DEF AuthInd, Clock, Failures

LEMMA LogoutKeeps == ASSUME AuthInd, NEW p \in Peers, Logout(p) PROVE AuthInd'
<1> USE DEF AuthInd
<1>1. /\ sessions' = {s \in sessions : s.id # jar[p]}
      /\ closed' = IF jar[p] = 0 THEN closed ELSE closed \cup {jar[p]}
      /\ jar' = [jar EXCEPT ![p] = 0]
      /\ UNCHANGED <<hour, attempts, logins, failed, request>>
  BY DEF Logout
<1>2. jar[p] \in Nat /\ jar[p] <= Len(logins) /\ Len(logins) \in Nat
  BY LenProperties DEF Created
<1>3. Created'
  <2>1. closed' \subseteq 1..Len(logins)
    <3>1. jar[p] # 0 => jar[p] \in 1..Len(logins)
      BY <1>2
    <3> QED
      BY <1>1, <3>1 DEF Created
  <2>2. jar' \in [Peers -> 0..MaxLogins] /\ \A q \in Peers : jar'[q] <= Len(logins)
    BY <1>1, <1>2 DEF Created
  <2>3. \A s \in sessions' : s \in sessions /\ s.id \notin closed'
    BY <1>1 DEF Created
  <2> QED
    BY <1>1, <2>1, <2>2, <2>3 DEF Created
<1>4. SessionsEnd'
  BY <1>1, <1>3 DEF SessionsEnd, Created
<1> QED
  BY <1>1, <1>3, <1>4, LimiterStays

LEMMA RequestKeeps ==
    ASSUME AuthInd, NEW p \in Peers, NEW route \in Routes, Request(p, route)
    PROVE  AuthInd'
<1> USE DEF AuthInd
<1>1. /\ request' = [route |-> route, id |-> jar[p], at |-> hour,
                     fine |-> Allows(route, RoleOf(p)), closed |-> jar[p] \in closed]
      /\ sessions' = IF route = "public" THEN sessions ELSE sessions \ (Shown(p) \ Live(p))
      /\ UNCHANGED <<hour, jar, attempts, logins, failed, closed>>
  BY DEF Request
<1>2. sessions' \subseteq sessions /\ \A s \in sessions \ sessions' : hour > s.expires
  <2>1. \A s \in sessions : hour \in Nat /\ s.expires \in Nat
    BY DEF Clock, Created, Record
  <2> QED
    BY <1>1, <2>1 DEF Shown, Live
<1>3. Created'
  BY <1>1, <1>2 DEF Created
<1>4. ASSUME route = "control", Allows(route, RoleOf(p))
      PROVE  /\ jar[p] \in 1..Len(logins) /\ jar[p] \notin closed
             /\ logins[jar[p]].role = "control" /\ hour <= logins[jar[p]].expires
  <2>1. RoleOf(p) = "control"
    BY <1>4 DEF Allows
  <2>2. Live(p) # {}
    BY <2>1 DEF RoleOf, NoRole
  <2>3. PICK s \in Live(p) : s.role = "control"
    BY <2>1, <2>2 DEF RoleOf
  <2>4. s \in sessions /\ s.id = jar[p] /\ hour <= s.expires
    BY DEF Live, Shown
  <2> QED
    BY <2>3, <2>4 DEF Created
<1>5. SessionsEnd'
  <2>1. ASSUME NEW i \in 1..Len(logins), hour < logins[i].expires, i \notin closed
        PROVE  \E s \in sessions' : s.id = i
    <3>1. PICK s \in sessions : s.id = i
      BY <2>1 DEF SessionsEnd
    <3>2. s.expires = logins[i].expires /\ s.expires \in Nat /\ hour \in Nat
      BY <3>1 DEF Created, Record, Clock
    <3>3. s \in sessions'
      BY <1>2, <2>1, <3>2
    <3> QED
      BY <3>1, <3>3
  <2>2. request'.fine /\ request'.route = "control" =>
            /\ request'.id \in 1..Len(logins) /\ ~request'.closed
            /\ logins[request'.id].role = "control" /\ request'.at <= logins[request'.id].expires
    <3>1. /\ request'.fine = Allows(route, RoleOf(p)) /\ request'.route = route /\ request'.id = jar[p]
          /\ request'.closed = (jar[p] \in closed) /\ request'.at = hour
      BY <1>1
    <3> QED
      BY <1>4, <3>1
  <2> QED
    BY <1>1, <1>3, <2>1, <2>2 DEF SessionsEnd, Created
<1> QED
  BY <1>1, <1>3, <1>5, LimiterStays

LEMMA CleanUpKeeps == AuthInd /\ CleanUp => AuthInd'
<1> SUFFICES ASSUME AuthInd, CleanUp PROVE AuthInd'
  OBVIOUS
<1> USE DEF AuthInd
<1>1. /\ sessions' = {s \in sessions : s.expires > hour}
      /\ UNCHANGED <<hour, jar, attempts, logins, failed, closed, request>>
  BY DEF CleanUp
<1>2. Created'
  BY <1>1 DEF Created
<1>3. SessionsEnd'
  <2>1. ASSUME NEW i \in 1..Len(logins), hour < logins[i].expires, i \notin closed
        PROVE  \E s \in sessions' : s.id = i
    <3>1. PICK s \in sessions : s.id = i
      BY <2>1 DEF SessionsEnd
    <3>2. s.expires = logins[i].expires /\ s.expires \in Nat /\ hour \in Nat
      BY <3>1 DEF Created, Record, Clock
    <3> QED
      BY <1>1, <2>1, <3>1, <3>2
  <2> QED
    BY <1>1, <1>2, <2>1 DEF SessionsEnd, Created
<1> QED
  BY <1>1, <1>2, <1>3, LimiterStays

LEMMA AuthKeeps == AuthInd /\ [AuthNext]_authVars => AuthInd'
<1> SUFFICES ASSUME AuthInd, [AuthNext]_authVars PROVE AuthInd'
  OBVIOUS
<1>1. CASE UNCHANGED authVars
  <2>1. UNCHANGED <<hour, sessions, jar, attempts, logins, failed, closed, request>>
    BY <1>1 DEF authVars
  <2>2. Created' /\ SessionsEnd'
    BY <2>1 DEF AuthInd, Created, SessionsEnd
  <2> QED
    BY <2>1, <2>2, LimiterStays DEF AuthInd
<1> QED
  BY <1>1, TimeKeeps, CleanUpKeeps, WrongKeeps, LogoutKeeps, LoginKeeps, RequestKeeps DEF AuthNext

\* No address gets twice the attempts of a window in any span of its length; what the second
\* passphrase opens is served only to the cookie of such a login before its end; and no
\* session that is logged out or belongs to another login is in the store.
THEOREM AuthHolds == AuthSpec => []AuthInv
<1>1. AuthInd => AuthTypeOK
  <2> SUFFICES ASSUME AuthInd PROVE AuthTypeOK
    OBVIOUS
  <2> USE DEF AuthInd
  <2>1. \A s, t \in sessions : s.id = t.id => s = t
    <3>1. \A s \in Record : s = [id |-> s.id, role |-> s.role, expires |-> s.expires]
      BY DEF Record
    <3>2. \A s, t \in sessions : s.id = t.id => s.role = t.role /\ s.expires = t.expires
      BY DEF Created
    <3>3. sessions \subseteq Record
      BY DEF Created
    <3> HIDE DEF AuthInd
    <3> QED
      BY <3>1, <3>2, <3>3
  <2>2. closed \subseteq 1..MaxLogins /\ Len(logins) <= MaxLogins
    BY LenProperties DEF Created
  <2> QED
    BY <2>1, <2>2 DEF AuthTypeOK, Clock, Created, Failures
<1>2. AuthInd => AuthInv
  BY <1>1, FailuresBounded DEF AuthInd, AuthInv
<1> QED
  BY <1>2, AuthStarts, AuthKeeps, PTL DEF AuthSpec

HIDE Limits

(***************************************************************************)
(* The place of an element of a set of positions among its elements.       *)
(***************************************************************************)
Rank(S, i) == Cardinality({j \in S : j <= i})

LEMMA Ranks ==
    ASSUME NEW n \in Nat, NEW S \in SUBSET (1..n)
    PROVE  /\ Cardinality(S) \in Nat /\ Cardinality(S) <= n
           /\ \A i \in S : Rank(S, i) \in 1..Cardinality(S)
           /\ \A i, k \in S : i < k => Rank(S, i) < Rank(S, k)
           /\ 1 \in S => Rank(S, 1) = 1
<1> DEFINE upto(i) == {j \in S : j <= i}
<1>1. IsFiniteSet(1..n) /\ Cardinality(1..n) = n
  <2>1. IsFiniteSet(1..n) /\ Cardinality(1..n) = IF 1 > n THEN 0 ELSE n - 1 + 1
    BY FS_Interval
  <2>2. (IF 1 > n THEN 0 ELSE n - 1 + 1) = n
    OBVIOUS
  <2> QED
    BY <2>1, <2>2
<1>2. IsFiniteSet(S) /\ Cardinality(S) <= n /\ Cardinality(S) \in Nat
  BY <1>1, FS_Subset, FS_CardinalityType
<1>3. ASSUME NEW i \in S
      PROVE  /\ upto(i) \in SUBSET S /\ IsFiniteSet(upto(i)) /\ i \in upto(i)
             /\ Cardinality(upto(i)) \in 1..Cardinality(S)
  <2>1. upto(i) \in SUBSET S /\ i \in upto(i)
    OBVIOUS
  <2>2. IsFiniteSet(upto(i)) /\ Cardinality(upto(i)) <= Cardinality(S)
    BY <1>2, <2>1, FS_Subset
  <2>3. Cardinality(upto(i)) \in Nat /\ Cardinality(upto(i)) # 0
    BY <2>1, <2>2, FS_CardinalityType, FS_EmptySet
  <2> HIDE DEF upto
  <2>4. Cardinality(upto(i)) \in 1..Cardinality(S)
    BY <1>2, <2>2, <2>3
  <2> QED
    BY <2>1, <2>2, <2>4
<1>4. ASSUME NEW i \in S, NEW k \in S, i < k PROVE Cardinality(upto(i)) < Cardinality(upto(k))
  <2>1. upto(i) \in SUBSET upto(k) /\ k \notin upto(i) /\ k \in upto(k)
    <3>1. \A j \in S : j \in Int
      OBVIOUS
    <3>2. (\A j \in S : j <= i => j <= k) /\ ~ (k <= i) /\ k <= k
      BY <1>4, <3>1
    <3> QED
      BY <3>2
  <2>2. Cardinality(upto(i)) <= Cardinality(upto(k)) /\ Cardinality(upto(i)) # Cardinality(upto(k))
    BY <1>3, <2>1, FS_Subset
  <2>3. Cardinality(upto(i)) \in Nat /\ Cardinality(upto(k)) \in Nat
    BY <1>2, <1>3, FS_CardinalityType
  <2> HIDE DEF upto
  <2> QED
    BY <2>2, <2>3
<1>5. ASSUME 1 \in S PROVE Cardinality(upto(1)) = 1
  <2>1. \A j \in S : j <= 1 <=> j = 1
    OBVIOUS
  <2>2. upto(1) = {1}
    BY <1>5, <2>1
  <2> QED
    BY <2>2, FS_Singleton
<1> QED
  BY <1>2, <1>3, <1>4, <1>5 DEF Rank

LEMMA NthOf ==
    ASSUME NEW n \in Nat, NEW S \in SUBSET (1..n)
    PROVE  /\ \A k \in 1..Cardinality(S) : Nth(S, k) \in S /\ Rank(S, Nth(S, k)) = k
           /\ \A i \in S : Nth(S, Rank(S, i)) = i
<1> DEFINE m == Cardinality(S)
           f == [i \in S |-> Rank(S, i)]
<1>1. /\ m \in Nat /\ \A i \in S : Rank(S, i) \in 1..m
      /\ \A i, k \in S : i < k => Rank(S, i) < Rank(S, k)
  BY Ranks
<1>2. IsFiniteSet(S) /\ IsFiniteSet(1..m) /\ Cardinality(1..m) = m
  <2>1. IsFiniteSet(S)
    <3>1. IsFiniteSet(1..n)
      BY FS_Interval
    <3> QED
      BY <3>1, FS_Subset
  <2>2. IsFiniteSet(1..m) /\ Cardinality(1..m) = IF 1 > m THEN 0 ELSE m - 1 + 1
    BY <1>1, FS_Interval
  <2> HIDE DEF m
  <2>3. (IF 1 > m THEN 0 ELSE m - 1 + 1) = m
    BY <1>1
  <2> QED
    BY <2>1, <2>2, <2>3
<1>3. ASSUME NEW i \in S, NEW k \in S, Rank(S, i) = Rank(S, k) PROVE i = k
  <2>1. i \in Int /\ k \in Int
    OBVIOUS
  <2>2. Rank(S, i) \in Int /\ ~ (i < k) /\ ~ (k < i)
    BY <1>1, <1>3
  <2> QED
    BY <2>1, <2>2
<1> HIDE DEF m
<1>4. f \in [S -> 1..m] /\ \A i, k \in S : f[i] = f[k] => i = k
  BY <1>1, <1>3
<1> HIDE DEF f
<1>5. f \in Injection(S, 1..m)
  BY <1>4 DEF Injection, IsInjective
<1>6. f \in Surjection(S, 1..m)
  BY <1>2, <1>5, FS_Injection DEF m
<1>7. \A k \in 1..m : \E i \in S : f[i] = k
  BY <1>6 DEF Surjection
<1>8. \A k \in 1..m : \E i \in S : Rank(S, i) = k
  BY <1>7 DEF f
<1>9. ASSUME NEW k \in 1..m PROVE Nth(S, k) \in S /\ Rank(S, Nth(S, k)) = k
  BY <1>8 DEF Nth, Rank
<1>10. ASSUME NEW i \in S PROVE Nth(S, Rank(S, i)) = i
  <2>1. Rank(S, i) \in 1..m
    BY <1>1
  <2>2. Nth(S, Rank(S, i)) \in S /\ Rank(S, Nth(S, Rank(S, i))) = Rank(S, i)
    BY <1>9, <2>1
  <2> QED
    BY <1>3, <2>2
<1> QED
  BY <1>9, <1>10 DEF m

(***************************************************************************)
(* The list of a rig: ids that differ, and no permanent channel but first. *)
(***************************************************************************)
Tidy(list) ==
    /\ list \in Seq(Channel)
    /\ \A i, j \in DOMAIN list : list[i].id = list[j].id => i = j
    /\ \A i \in DOMAIN list : list[i].permanent => i = 1
First(list, id) == list # <<>> /\ list[1].id = id
HeldIn(list, s) == \E c \in ToSet(list) : s \in c.sids

LEMMA ListDomain ==
    ASSUME NEW list \in Seq(Channel)
    PROVE  /\ Len(list) \in Nat /\ DOMAIN list = 1..Len(list)
           /\ \A i \in DOMAIN list : list[i] \in Channel
           /\ list # <<>> <=> 1 \in DOMAIN list
           /\ list = <<>> <=> Len(list) = 0
<1>1. Len(list) \in Nat /\ DOMAIN list = 1..Len(list) /\ \A i \in 1..Len(list) : list[i] \in Channel
  BY LenProperties
<1>2. list = <<>> <=> Len(list) = 0
  BY EmptySeq
<1>3. 1 \in 1..Len(list) <=> Len(list) # 0
  BY <1>1
<1> QED
  BY <1>1, <1>2, <1>3

LEMMA Members ==
    ASSUME NEW list, Tidy(list)
    PROVE  /\ ToSet(list) \subseteq Channel
           /\ \A c, d \in ToSet(list) : c.id = d.id => c = d
           /\ IdsOf(list) = {c.id : c \in ToSet(list)}
           /\ IdsOf(list) \subseteq Ids
           /\ \A id \in IdsOf(list) : Entry(list, id) \in ToSet(list) /\ Entry(list, id).id = id
           /\ \A c \in ToSet(list) : c.id \in IdsOf(list) /\ Entry(list, c.id) = c
           /\ \A id : First(list, id) => id \in IdsOf(list)
<1>1. /\ list \in Seq(Channel)
      /\ \A i, j \in DOMAIN list : list[i].id = list[j].id => i = j
  BY DEF Tidy
<1>2. ToSet(list) = {list[i] : i \in DOMAIN list}
  BY DEF ToSet
<1>3. \A i \in DOMAIN list : list[i] \in Channel
  BY <1>1, ListDomain
<1>4. ToSet(list) \subseteq Channel
  BY <1>2, <1>3
<1>5. \A c, d \in ToSet(list) : c.id = d.id => c = d
  BY <1>1, <1>2
<1>6. IdsOf(list) = {c.id : c \in ToSet(list)}
  BY <1>2 DEF IdsOf
<1>7. IdsOf(list) \subseteq Ids
  BY <1>4, <1>6 DEF Channel
<1>8. ASSUME NEW id \in IdsOf(list) PROVE Entry(list, id) \in ToSet(list) /\ Entry(list, id).id = id
  <2>1. PICK i \in DOMAIN list : list[i].id = id
    BY DEF IdsOf
  <2> DEFINE k == CHOOSE k \in DOMAIN list : list[k].id = id
  <2>2. k \in DOMAIN list /\ list[k].id = id
    BY <2>1
  <2> QED
    BY <1>2, <2>2 DEF Entry
<1>9. ASSUME NEW c \in ToSet(list) PROVE c.id \in IdsOf(list) /\ Entry(list, c.id) = c
  BY <1>5, <1>6, <1>8
<1>10. ASSUME NEW id, First(list, id) PROVE id \in IdsOf(list)
  BY <1>1, <1>10, ListDomain DEF First, IdsOf
<1> QED
  BY <1>4, <1>5, <1>6, <1>7, <1>8, <1>9, <1>10

(***************************************************************************)
(* Some channels go.                                                       *)
(***************************************************************************)
LEMMA WithoutSome ==
    ASSUME NEW list, Tidy(list), NEW gone, NEW w, w = Without(list, gone)
    PROVE  /\ Tidy(w) /\ Len(w) <= Len(list)
           /\ ToSet(w) = {c \in ToSet(list) : c.id \notin gone}
           /\ \A id : First(list, id) /\ id \notin gone => First(w, id)
<1> DEFINE n == Len(list)
           S == Staying(list, gone)
           m == Cardinality(S)
<1>1. /\ n \in Nat /\ DOMAIN list = 1..n /\ list \in Seq(Channel)
      /\ \A i \in 1..n : list[i] \in Channel
  BY ListDomain DEF Tidy
<1>2. S \in SUBSET (1..n) /\ \A i \in 1..n : i \in S <=> list[i].id \notin gone
  BY <1>1 DEF Staying
<1> HIDE DEF n, S
<1>3. /\ m \in Nat /\ m <= n
      /\ \A i \in S : Rank(S, i) \in 1..m
      /\ 1 \in S => Rank(S, 1) = 1
  BY <1>1, <1>2, Ranks
<1>4. /\ \A k \in 1..m : Nth(S, k) \in S /\ Rank(S, Nth(S, k)) = k
      /\ \A i \in S : Nth(S, Rank(S, i)) = i
  BY <1>1, <1>2, NthOf
<1>5. w = [k \in 1..m |-> list[Nth(S, k)]]
  BY DEF Without, m, S
<1> HIDE DEF m
<1>6. \A k \in 1..m : Nth(S, k) \in 1..n /\ w[k] = list[Nth(S, k)] /\ list[Nth(S, k)].id \notin gone
  BY <1>2, <1>4, <1>5
<1>7. w \in [1..m -> Channel]
  BY <1>1, <1>5, <1>6
<1>8. w \in Seq(Channel) /\ Len(w) = m /\ DOMAIN w = 1..m
  BY <1>3, <1>7, FunctionSeq
<1>9. \A i \in S : Rank(S, i) \in 1..m /\ w[Rank(S, i)] = list[i]
  BY <1>3, <1>4, <1>6
<1>10. ASSUME NEW i \in 1..m, NEW j \in 1..m, w[i].id = w[j].id PROVE i = j
  <2>1. Nth(S, i) = Nth(S, j)
    BY <1>1, <1>6, <1>10 DEF Tidy
  <2> QED
    BY <1>4, <2>1
<1>11. ASSUME NEW k \in 1..m, w[k].permanent PROVE k = 1
  <2>1. Nth(S, k) = 1
    BY <1>1, <1>6, <1>11 DEF Tidy
  <2> QED
    BY <1>3, <1>4, <2>1
<1>12. Tidy(w)
  BY <1>8, <1>10, <1>11 DEF Tidy
<1>13. ASSUME NEW k \in 1..m PROVE w[k] \in ToSet(list) /\ w[k].id \notin gone
  BY <1>1, <1>6 DEF ToSet
<1>14. ASSUME NEW i \in 1..n, list[i].id \notin gone PROVE \E k \in 1..m : w[k] = list[i]
  BY <1>2, <1>9, <1>14
<1>15. ToSet(w) = {c \in ToSet(list) : c.id \notin gone}
  <2>1. ToSet(w) = {w[k] : k \in 1..m} /\ ToSet(list) = {list[i] : i \in 1..n}
    BY <1>1, <1>8 DEF ToSet
  <2> QED
    BY <1>13, <1>14, <2>1
<1>16. ASSUME NEW id, First(list, id), id \notin gone PROVE First(w, id)
  <2>1. 1 \in 1..n /\ list[1].id = id
    BY <1>1, <1>16, ListDomain DEF First
  <2>2. 1 \in S
    BY <1>2, <1>16, <2>1
  <2>3. 1 \in 1..m /\ w[1] = list[1]
    BY <1>3, <1>9, <2>2
  <2>4. w # <<>>
    BY <1>8, <2>3, ListDomain
  <2> QED
    BY <2>1, <2>3, <2>4 DEF First
<1> QED
  BY <1>3, <1>8, <1>12, <1>15, <1>16 DEF n

(***************************************************************************)
(* Channels change in place.                                               *)
(***************************************************************************)
LEMMA InPlace ==
    ASSUME NEW list, Tidy(list), NEW new, DOMAIN new = DOMAIN list,
           new = [i \in DOMAIN list |-> new[i]],
           \A i \in DOMAIN list : /\ new[i] \in Channel /\ new[i].id = list[i].id
                                  /\ new[i].permanent = list[i].permanent
    PROVE  /\ Tidy(new) /\ Len(new) = Len(list) /\ IdsOf(new) = IdsOf(list)
           /\ \A id : First(list, id) <=> First(new, id)
<1>1. /\ Len(list) \in Nat /\ DOMAIN list = 1..Len(list) /\ list \in Seq(Channel)
      /\ list # <<>> <=> 1 \in DOMAIN list
  BY ListDomain DEF Tidy
<1>2. new \in [1..Len(list) -> Channel]
  BY <1>1
<1>3. new \in Seq(Channel) /\ Len(new) = Len(list)
  BY <1>1, <1>2, FunctionSeq
<1>4. Tidy(new)
  <2>1. \A i, j \in DOMAIN new : new[i].id = new[j].id => i = j
    BY DEF Tidy
  <2>2. \A i \in DOMAIN new : new[i].permanent => i = 1
    BY Zenon DEF Tidy
  <2> QED
    BY <1>3, <2>1, <2>2 DEF Tidy
<1>5. IdsOf(new) = IdsOf(list)
  BY DEF IdsOf
<1>6. new # <<>> <=> 1 \in DOMAIN list
  BY <1>3, ListDomain
<1>7. ASSUME NEW id PROVE First(list, id) <=> First(new, id)
  BY <1>1, <1>6 DEF First
<1> QED
  BY <1>3, <1>4, <1>5, <1>7

(***************************************************************************)
(* Channels that are added.                                                *)
(***************************************************************************)
LEMMA Added ==
    ASSUME NEW list, Tidy(list), NEW more, more \in Seq(Channel), NEW new, new = list \o more,
           \A i, j \in DOMAIN more : more[i].id = more[j].id => i = j,
           \A i \in DOMAIN more : more[i].id \notin IdsOf(list) /\ ~more[i].permanent
    PROVE  /\ Tidy(new) /\ Len(new) = Len(list) + Len(more)
           /\ ToSet(new) = ToSet(list) \cup ToSet(more)
           /\ IdsOf(new) = IdsOf(list) \cup IdsOf(more)
           /\ \A id : First(list, id) => First(new, id)
<1> DEFINE n == Len(list)
           m == Len(more)
<1>1. /\ n \in Nat /\ DOMAIN list = 1..n /\ list \in Seq(Channel)
      /\ m \in Nat /\ DOMAIN more = 1..m
  BY ListDomain DEF Tidy
<1>2. /\ new \in Seq(Channel) /\ Len(new) = n + m
      /\ \A i \in 1..(n + m) : new[i] = IF i <= n THEN list[i] ELSE more[i - n]
  BY <1>1, ConcatProperties
<1>3. DOMAIN new = 1..(n + m)
  BY <1>2, ListDomain
<1> HIDE DEF n, m
<1>4. /\ \A i \in 1..n : i \in 1..(n + m) /\ new[i] = list[i]
      /\ \A i \in 1..m : i + n \in 1..(n + m) /\ new[i + n] = more[i]
      /\ \A i \in 1..(n + m) : i \in 1..n \/ (i - n \in 1..m /\ new[i] = more[i - n] /\ ~(i \in 1..n))
  BY <1>1, <1>2
<1>5. \A i \in 1..n : list[i].id \in IdsOf(list)
  BY <1>1 DEF IdsOf
<1>6. ASSUME NEW i \in 1..(n + m), NEW j \in 1..(n + m), new[i].id = new[j].id PROVE i = j
  <2>1. CASE i \in 1..n /\ j \in 1..n
    BY <1>1, <1>4, <1>6, <2>1, ZenonT(30) DEF Tidy
  <2>2. CASE i \in 1..n /\ j \notin 1..n
    <3>1. j - n \in 1..m /\ new[j].id = more[j - n].id /\ new[i].id = list[i].id
      BY <1>4, <2>2
    <3>2. more[j - n].id \notin IdsOf(list)
      BY <1>1, <3>1
    <3> QED
      BY <1>5, <1>6, <2>2, <3>1, <3>2
  <2>3. CASE i \notin 1..n /\ j \in 1..n
    <3>1. i - n \in 1..m /\ new[i].id = more[i - n].id /\ new[j].id = list[j].id
      BY <1>4, <2>3
    <3>2. more[i - n].id \notin IdsOf(list)
      BY <1>1, <3>1
    <3> QED
      BY <1>5, <1>6, <2>3, <3>1, <3>2
  <2>4. CASE i \notin 1..n /\ j \notin 1..n
    <3>1. i - n \in 1..m /\ j - n \in 1..m /\ more[i - n].id = more[j - n].id
      BY <1>4, <1>6, <2>4
    <3>2. i - n = j - n
      BY <1>1, <3>1
    <3> QED
      BY <1>1, <3>2
  <2> QED
    BY <2>1, <2>2, <2>3, <2>4
<1>7. ASSUME NEW i \in 1..(n + m), new[i].permanent PROVE i = 1
  <2>1. CASE i \in 1..n
    BY <1>1, <1>4, <1>7, <2>1 DEF Tidy
  <2>2. CASE i \notin 1..n
    BY <1>1, <1>4, <1>7, <2>2
  <2> QED
    BY <2>1, <2>2
<1>8. Tidy(new)
  BY <1>2, <1>3, <1>6, <1>7 DEF Tidy
<1>9. ToSet(new) = ToSet(list) \cup ToSet(more)
  <2>1. /\ ToSet(new) = {new[i] : i \in 1..(n + m)}
        /\ ToSet(list) = {list[i] : i \in 1..n} /\ ToSet(more) = {more[i] : i \in 1..m}
    BY <1>1, <1>3 DEF ToSet
  <2>2. ASSUME NEW i \in 1..(n + m) PROVE new[i] \in ToSet(list) \cup ToSet(more)
    <3>1. CASE i \in 1..n
      BY <1>4, <2>1, <3>1
    <3>2. CASE i \notin 1..n
      <4>1. i - n \in 1..m /\ new[i] = more[i - n]
        BY <1>4, <3>2
      <4> QED
        BY <2>1, <4>1
    <3> QED
      BY <3>1, <3>2
  <2>3. (\A i \in 1..n : list[i] \in ToSet(new)) /\ \A i \in 1..m : more[i] \in ToSet(new)
    BY <1>4, <2>1, ZenonT(30)
  <2>4. ToSet(new) \subseteq ToSet(list) \cup ToSet(more)
    BY ONLY <2>1, <2>2
  <2>5. ToSet(list) \subseteq ToSet(new) /\ ToSet(more) \subseteq ToSet(new)
    BY ONLY <2>1, <2>3
  <2> QED
    BY ONLY <2>4, <2>5
<1>10. IdsOf(new) = {c.id : c \in ToSet(new)} /\ IdsOf(list) = {c.id : c \in ToSet(list)}
       /\ IdsOf(more) = {c.id : c \in ToSet(more)}
  BY DEF IdsOf, ToSet
<1>11. IdsOf(new) = IdsOf(list) \cup IdsOf(more)
  BY <1>9, <1>10
<1>12. ASSUME NEW id, First(list, id) PROVE First(new, id)
  <2>1. 1 \in 1..n /\ list[1].id = id
    BY <1>1, <1>12, ListDomain DEF First
  <2>2. 1 \in DOMAIN new /\ new[1] = list[1]
    BY <1>3, <1>4, <2>1
  <2> QED
    BY <1>2, <2>1, <2>2, ListDomain DEF First
<1> QED
  BY <1>2, <1>8, <1>9, <1>11, <1>12 DEF n, m

(***************************************************************************)
(* A channel that a change of the list leaves as it is for the server: it  *)
(* stays listed or not, and if it is not first it stays on its frequency.  *)
(***************************************************************************)
Keeps(id, old, new) ==
    /\ id \in IdsOf(old) <=> id \in IdsOf(new)
    /\ First(old, id) => First(new, id)
    /\ id \in IdsOf(old) => First(new, id) \/ Entry(new, id).freq = Entry(old, id).freq
Owned(list) == \A c \in ToSet(list) : ~Orphan(c)

\* A list with other members of the same ids and frequencies.
LEMMA KeptBy ==
    ASSUME NEW old, NEW new, Tidy(old), Tidy(new), NEW gone,
           \A d \in ToSet(new) : d.id \notin gone /\ \E c \in ToSet(old) : c.id = d.id /\ c.freq = d.freq,
           \A c \in ToSet(old) : c.id \notin gone => \E d \in ToSet(new) : d.id = c.id,
           \A id : First(old, id) /\ id \notin gone => First(new, id)
    PROVE  /\ IdsOf(new) = IdsOf(old) \ gone
           /\ \A id : id \notin gone => Keeps(id, old, new)
<1>1. /\ IdsOf(old) = {c.id : c \in ToSet(old)} /\ IdsOf(new) = {c.id : c \in ToSet(new)}
      /\ \A c \in ToSet(old) : Entry(old, c.id) = c
      /\ \A c \in ToSet(new) : Entry(new, c.id) = c
  BY Members
<1>2. IdsOf(new) = IdsOf(old) \ gone
  BY <1>1
<1>3. ASSUME NEW id, id \notin gone, id \in IdsOf(old)
      PROVE  Entry(new, id).freq = Entry(old, id).freq
  <2>1. PICK d \in ToSet(new) : d.id = id
    BY <1>1, <1>2, <1>3
  <2>2. PICK c \in ToSet(old) : c.id = id /\ c.freq = d.freq
    BY <2>1
  <2> QED
    BY <1>1, <2>1, <2>2
<1> QED
  BY <1>2, <1>3 DEF Keeps

LEMMA DeletedList ==
    ASSUME NEW list, Tidy(list), NEW id \in IdsOf(list), NEW new, new = Without(list, {id})
    PROVE  /\ Tidy(new) /\ Len(new) <= Len(list) /\ IdsOf(new) = IdsOf(list) \ {id}
           /\ Owned(list) => Owned(new)
           /\ \A s : HeldIn(new, s) => HeldIn(list, s)
           /\ \A i : i # id => Keeps(i, list, new)
<1>1. /\ Tidy(new) /\ Len(new) <= Len(list)
      /\ ToSet(new) = {c \in ToSet(list) : c.id \notin {id}}
      /\ \A i : First(list, i) /\ i \notin {id} => First(new, i)
  BY WithoutSome
<1>2. IdsOf(new) = IdsOf(list) \ {id} /\ \A i : i \notin {id} => Keeps(i, list, new)
  BY <1>1, KeptBy
<1> QED
  BY <1>1, <1>2 DEF Owned, HeldIn

LEMMA LeftList ==
    ASSUME NEW list, Tidy(list), NEW s, NEW left, left = Left(list, s)
    PROVE  /\ Tidy(left) /\ Len(left) = Len(list)
           /\ \A id : First(list, id) <=> First(left, id)
           /\ ToSet(left) = {[c EXCEPT !.sids = @ \ {s}] : c \in ToSet(list)}
<1>1. \A i \in DOMAIN list : list[i] \in Channel
  BY ListDomain DEF Tidy
<1>2. left = [i \in DOMAIN list |-> [list[i] EXCEPT !.sids = @ \ {s}]]
  BY DEF Left
<1>3. ASSUME NEW c \in Channel
      PROVE  /\ [c EXCEPT !.sids = @ \ {s}] \in Channel /\ [c EXCEPT !.sids = @ \ {s}].id = c.id
             /\ [c EXCEPT !.sids = @ \ {s}].permanent = c.permanent
  BY DEF Channel
<1>4. DOMAIN left = DOMAIN list /\ left = [i \in DOMAIN list |-> left[i]]
  BY <1>2
<1>5. \A i \in DOMAIN list : /\ left[i] \in Channel /\ left[i].id = list[i].id
                             /\ left[i].permanent = list[i].permanent
  <2> SUFFICES ASSUME NEW i \in DOMAIN list
               PROVE  /\ left[i] \in Channel /\ left[i].id = list[i].id
                      /\ left[i].permanent = list[i].permanent
    OBVIOUS
  <2>1. left[i] = [list[i] EXCEPT !.sids = @ \ {s}] /\ list[i] \in Channel
    BY <1>1, <1>2
  <2> HIDE <1>2
  <2> QED
    BY <1>3, <2>1, Zenon
<1>6. Tidy(left) /\ Len(left) = Len(list) /\ \A id : First(list, id) <=> First(left, id)
  BY <1>4, <1>5, InPlace
<1>7. ToSet(left) = {[c EXCEPT !.sids = @ \ {s}] : c \in ToSet(list)}
  <2> DEFINE sid(c) == [c EXCEPT !.sids = @ \ {s}]
  <2>1. left = [i \in DOMAIN list |-> sid(list[i])]
    BY <1>2
  <2>2. ToSet(left) = {left[i] : i \in DOMAIN list} /\ ToSet(list) = {list[i] : i \in DOMAIN list}
    BY <2>1 DEF ToSet
  <2> HIDE DEF sid
  <2>3. ToSet(left) = {sid(c) : c \in ToSet(list)}
    BY <2>1, <2>2
  <2> QED
    BY <2>3 DEF sid
<1> QED
  BY <1>6, <1>7

LEMMA ReleasedList ==
    ASSUME NEW list, Tidy(list), NEW s, NEW gone, gone = Abandoned(list, s),
           NEW new, new = Released(list, s)
    PROVE  /\ Tidy(new) /\ Len(new) <= Len(list) /\ gone \subseteq IdsOf(list)
           /\ IdsOf(new) = IdsOf(list) \ gone
           /\ Owned(new) /\ ~HeldIn(new, s)
           /\ \A u : HeldIn(new, u) => HeldIn(list, u)
           /\ \A i : i \notin gone => Keeps(i, list, new)
<1> DEFINE left == Left(list, s)
           sid(c) == [c EXCEPT !.sids = @ \ {s}]
<1>1. /\ Tidy(left) /\ Len(left) = Len(list)
      /\ \A id : First(list, id) <=> First(left, id)
      /\ ToSet(left) = {sid(c) : c \in ToSet(list)}
  BY LeftList
<1>2. gone = {c.id : c \in {x \in ToSet(left) : Orphan(x)}} /\ new = Without(left, gone)
  BY DEF Abandoned, Released
<1> HIDE DEF left
<1>3. /\ Tidy(new) /\ Len(new) <= Len(list)
      /\ ToSet(new) = {c \in ToSet(left) : c.id \notin gone}
      /\ \A i : First(list, i) /\ i \notin gone => First(new, i)
  BY <1>1, <1>2, WithoutSome
<1>4. ToSet(list) \subseteq Channel /\ IdsOf(list) = {c.id : c \in ToSet(list)}
  BY Members
<1>5. \A c \in ToSet(list) : /\ sid(c).id = c.id /\ sid(c).freq = c.freq
                             /\ sid(c).sids = c.sids \ {s}
  BY <1>4 DEF Channel
<1> HIDE DEF sid
<1>6. gone \subseteq IdsOf(list)
  BY <1>1, <1>2, <1>4, <1>5
<1>7. Owned(new)
  BY <1>2, <1>3 DEF Owned
<1>8. \A d \in ToSet(new) : \E c \in ToSet(list) : d.id = c.id /\ d.freq = c.freq /\ d.sids = c.sids \ {s}
  BY <1>1, <1>3, <1>5
<1>9. ~HeldIn(new, s) /\ \A u : HeldIn(new, u) => HeldIn(list, u)
  BY <1>8 DEF HeldIn
<1>10. \A c \in ToSet(list) : c.id \notin gone => \E d \in ToSet(new) : d.id = c.id
  BY <1>1, <1>3, <1>5
<1>11. IdsOf(new) = IdsOf(list) \ gone /\ \A i : i \notin gone => Keeps(i, list, new)
  <2>1. \A d \in ToSet(new) : d.id \notin gone /\ \E c \in ToSet(list) : c.id = d.id /\ c.freq = d.freq
    BY <1>3, <1>8
  <2>2. Tidy(new) /\ \A i : First(list, i) /\ i \notin gone => First(new, i)
    BY <1>3
  <2> QED
    BY ONLY <1>10, <2>1, <2>2, Tidy(list), KeptBy
<1> QED
  BY <1>3, <1>6, <1>7, <1>9, <1>11

LEMMA EditedList ==
    ASSUME NEW list, Tidy(list), NEW id \in IdsOf(list), NEW ch \in Channel, ch.id = id,
           ch.permanent = Entry(list, id).permanent, NEW new, new = Edit(list, id, ch)
    PROVE  /\ Tidy(new) /\ Len(new) = Len(list) /\ IdsOf(new) = IdsOf(list)
           /\ \A i : First(list, i) <=> First(new, i)
           /\ ToSet(new) \subseteq ToSet(list) \cup {ch}
           /\ Entry(new, id) = ch
           /\ \A i \in IdsOf(list) : i # id => Entry(new, i) = Entry(list, i)
<1>1. /\ \A i \in DOMAIN list : list[i] \in Channel /\ list[i] \in ToSet(list)
      /\ \A c \in ToSet(list) : Entry(list, c.id) = c
      /\ IdsOf(list) = {c.id : c \in ToSet(list)}
      /\ ToSet(list) = {list[i] : i \in DOMAIN list}
  <2>1. \A i \in DOMAIN list : list[i] \in Channel
    BY ListDomain DEF Tidy
  <2> QED
    BY <2>1, Members DEF ToSet
<1>2. new = [i \in DOMAIN list |-> IF list[i].id = id THEN ch ELSE list[i]]
  BY DEF Edit
<1>3. DOMAIN new = DOMAIN list /\ new = [i \in DOMAIN list |-> new[i]]
  BY <1>2
<1>4. ASSUME NEW i \in DOMAIN list
      PROVE  /\ new[i] \in Channel /\ new[i].id = list[i].id
             /\ new[i].permanent = list[i].permanent
  <2>1. CASE list[i].id = id
    <3>1. new[i] = ch /\ list[i] = Entry(list, id)
      BY <1>1, <1>2, <2>1
    <3> QED
      BY <2>1, <3>1, Zenon
  <2>2. CASE list[i].id # id
    <3>1. new[i] = list[i] /\ list[i] \in Channel
      BY <1>1, <1>2, <2>2
    <3> QED
      BY ONLY <3>1, Zenon
  <2> QED
    BY <2>1, <2>2
<1>5. /\ Tidy(new) /\ Len(new) = Len(list) /\ IdsOf(new) = IdsOf(list)
      /\ \A i : First(list, i) <=> First(new, i)
  BY <1>3, <1>4, InPlace
<1>6. ToSet(new) = {new[i] : i \in DOMAIN list}
  BY <1>3 DEF ToSet
<1>7. ToSet(new) \subseteq ToSet(list) \cup {ch}
  BY <1>1, <1>2, <1>6
<1>8. \A c \in ToSet(new) : Entry(new, c.id) = c
  BY <1>5, Members
<1>9. Entry(new, id) = ch
  <2>1. PICK i \in DOMAIN list : list[i].id = id
    BY DEF IdsOf
  <2>2. new[i] = ch /\ new[i] \in ToSet(new)
    BY <1>2, <1>6, <2>1
  <2> QED
    BY <1>8, <2>2
<1>10. ASSUME NEW k \in IdsOf(list), k # id PROVE Entry(new, k) = Entry(list, k)
  <2>1. PICK i \in DOMAIN list : list[i].id = k
    BY DEF IdsOf
  <2>2. new[i] = list[i] /\ new[i] \in ToSet(new)
    BY <1>2, <1>6, <1>10, <2>1
  <2>3. Entry(new, k) = list[i] /\ Entry(list, k) = list[i]
    BY <1>1, <1>8, <2>1, <2>2
  <2> QED
    BY <2>3
<1> QED
  BY <1>5, <1>7, <1>9, <1>10

(***************************************************************************)
(* The synchronisation with the schedule.                                  *)
(***************************************************************************)
Wanted == [Bookmarks -> Freqs \cup {None}]

LEMMA SetSeq ==
    ASSUME NEW S, IsFiniteSet(S)
    PROVE  /\ Cardinality(S) \in Nat /\ SetToSeq(S) \in Seq(S) /\ Len(SetToSeq(S)) = Cardinality(S)
<1>1. Cardinality(S) \in Nat /\ ExistsBijection(1..Cardinality(S), S)
  BY FS_CardinalityType
<1>2. \E f \in [1..Cardinality(S) -> S] : IsInjective(f)
  BY <1>1 DEF ExistsBijection, Bijection, Injection
<1>3. SetToSeq(S) \in [1..Cardinality(S) -> S]
  BY <1>2 DEF SetToSeq
<1> QED
  BY <1>1, <1>3, FunctionSeq

LEMMA TunedList ==
    ASSUME VirtualChannelsAssumption, NEW list, Tidy(list), NEW want \in Wanted,
           NEW tuned, tuned = Tuned(list, want)
    PROVE  /\ Tidy(tuned) /\ Len(tuned) = Len(list) /\ IdsOf(tuned) = IdsOf(list)
           /\ \A id : First(list, id) <=> First(tuned, id)
           /\ \A d \in ToSet(tuned) : \E c \in ToSet(list) :
                 /\ d.id = c.id /\ d.sids = c.sids /\ d.bm = c.bm /\ (Orphan(d) <=> Orphan(c))
                 /\ d = c \/ d.bm # None
<1> DEFINE new(c) == IF c.bm # None /\ want[c.bm] # None THEN [c EXCEPT !.freq = want[c.bm]] ELSE c
<1>1. \A i \in DOMAIN list : list[i] \in Channel
  BY ListDomain DEF Tidy
<1>2. tuned = [i \in DOMAIN list |-> new(list[i])]
  BY DEF Tuned
<1>3. ASSUME NEW c \in Channel
      PROVE  /\ new(c) \in Channel /\ new(c).id = c.id /\ new(c).sids = c.sids /\ new(c).bm = c.bm
             /\ new(c).permanent = c.permanent
             /\ new(c) = c \/ c.bm # None
  <2>1. CASE c.bm # None /\ want[c.bm] # None
    <3>1. c.bm \in Bookmarks
      BY <2>1 DEF Channel
    <3>2. want[c.bm] \in Freqs
      BY <2>1, <3>1 DEF Wanted
    <3>3. new(c) = [c EXCEPT !.freq = want[c.bm]]
      BY <2>1
    <3> HIDE DEF new
    <3> QED
      BY <2>1, <3>2, <3>3 DEF Channel
  <2>2. CASE ~ (c.bm # None /\ want[c.bm] # None)
    <3>1. new(c) = c
      BY <2>2
    <3> HIDE DEF new
    <3> QED
      BY <3>1, Zenon
  <2> QED
    BY <2>1, <2>2, Zenon
<1> HIDE DEF new
<1>4. DOMAIN tuned = DOMAIN list /\ tuned = [i \in DOMAIN list |-> tuned[i]]
  BY <1>2
<1>5. \A i \in DOMAIN list : /\ tuned[i] \in Channel /\ tuned[i].id = list[i].id
                             /\ tuned[i].permanent = list[i].permanent
  <2> SUFFICES ASSUME NEW i \in DOMAIN list
               PROVE  /\ tuned[i] \in Channel /\ tuned[i].id = list[i].id
                      /\ tuned[i].permanent = list[i].permanent
    OBVIOUS
  <2>1. tuned[i] = new(list[i]) /\ list[i] \in Channel
    BY <1>1, <1>2
  <2> QED
    BY <1>3, <2>1, Zenon
<1>6. /\ Tidy(tuned) /\ Len(tuned) = Len(list) /\ IdsOf(tuned) = IdsOf(list)
      /\ \A id : First(list, id) <=> First(tuned, id)
  BY <1>4, <1>5, InPlace
<1>7. ToSet(tuned) = {new(c) : c \in ToSet(list)}
  <2>1. ToSet(tuned) = {tuned[i] : i \in DOMAIN list} /\ ToSet(list) = {list[i] : i \in DOMAIN list}
    BY <1>2 DEF ToSet
  <2> QED
    BY <1>2, <2>1
<1>8. ToSet(list) \subseteq Channel
  BY Members
<1>9. ASSUME NEW c \in ToSet(list) PROVE Orphan(new(c)) <=> Orphan(c)
  <2>1. /\ new(c).permanent = c.permanent /\ new(c).bm = c.bm /\ new(c).sids = c.sids
    BY <1>3, <1>8
  <2> QED
    BY <2>1, Zenon DEF Orphan
<1>10. ASSUME NEW d \in ToSet(tuned)
       PROVE  \E c \in ToSet(list) :
                 /\ d.id = c.id /\ d.sids = c.sids /\ d.bm = c.bm /\ (Orphan(d) <=> Orphan(c))
                 /\ d = c \/ d.bm # None
  <2>1. PICK c \in ToSet(list) : d = new(c)
    BY <1>7
  <2>2. /\ d.id = c.id /\ d.sids = c.sids /\ d.bm = c.bm
        /\ d = c \/ d.bm # None
    BY <1>3, <1>8, <2>1
  <2>3. Orphan(d) <=> Orphan(c)
    BY <1>9, <2>1
  <2> QED
    BY <2>2, <2>3
<1> QED
  BY <1>6, <1>10

\* The channels of the bookmarks that have none.
Bookmarked(more, want, n) ==
    [k \in 1..Len(more) |->
       [id |-> n + k - 1, freq |-> want[more[k]], permanent |-> FALSE, bm |-> more[k],
        sids |-> {}]]

LEMMA BookmarkedList ==
    ASSUME VirtualChannelsAssumption, NEW want \in Wanted,
           NEW more \in Seq({b \in Bookmarks : want[b] # None}),
           NEW n \in Nat \ {0}, n + Len(more) <= MaxIds + 1, NEW new, new = Bookmarked(more, want, n)
    PROVE  /\ new \in Seq(Channel) /\ Len(new) = Len(more) /\ Len(more) \in Nat
           /\ \A i, j \in DOMAIN new : new[i].id = new[j].id => i = j
           /\ \A i \in DOMAIN new : new[i].id >= n /\ ~new[i].permanent
           /\ IdsOf(new) = n..(n + Len(more) - 1)
           /\ \A c \in ToSet(new) : c.bm # None /\ c.sids = {}
<1> DEFINE m == Len(more)
<1>1. /\ m \in Nat /\ \A k \in 1..m : more[k] \in Bookmarks /\ want[more[k]] # None
      /\ MaxIds \in Nat /\ None \notin Bookmarks
  BY LenProperties DEF VirtualChannelsAssumption
<1>2. new = [k \in 1..m |-> [id |-> n + k - 1, freq |-> want[more[k]], permanent |-> FALSE,
                             bm |-> more[k], sids |-> {}]]
  BY DEF Bookmarked
<1>3. n + m <= MaxIds + 1
  OBVIOUS
<1> HIDE DEF m
<1>4. ASSUME NEW k \in 1..m
      PROVE  /\ new[k] \in Channel /\ new[k].id = n + k - 1 /\ new[k].permanent = FALSE
             /\ new[k].bm # None /\ new[k].sids = {}
  <2>1. n + k - 1 \in Ids
    BY <1>1, <1>3 DEF Ids
  <2>2. want[more[k]] \in Freqs /\ more[k] \in Bookmarks
    BY <1>1 DEF Wanted
  <2>3. new[k] = [id |-> n + k - 1, freq |-> want[more[k]], permanent |-> FALSE,
                  bm |-> more[k], sids |-> {}]
    BY <1>2
  <2>4. more[k] # None
    BY <1>1, <2>2
  <2> QED
    BY <2>1, <2>2, <2>3, <2>4 DEF Channel
<1>5. new \in [1..m -> Channel]
  <2>1. new = [k \in 1..m |-> new[k]]
    BY <1>2
  <2> QED
    BY <1>4, <2>1
<1>6. new \in Seq(Channel) /\ Len(new) = m /\ DOMAIN new = 1..m
  BY <1>1, <1>5, FunctionSeq
<1>7. \A i, j \in 1..m : n + i - 1 = n + j - 1 => i = j
  BY <1>1
<1>8. ASSUME NEW i \in 1..m, NEW j \in 1..m, new[i].id = new[j].id PROVE i = j
  <2>1. n + i - 1 = n + j - 1
    BY ONLY <1>4, <1>8
  <2> QED
    BY <1>7, <2>1
<1>9. \A i \in 1..m : n + i - 1 >= n /\ n + i - 1 \in n..(n + m - 1)
  BY <1>1
<1>10. \A i \in 1..m : new[i].id >= n /\ ~new[i].permanent
  BY <1>4, <1>9
<1>11. IdsOf(new) = n..(n + m - 1)
  <2> DEFINE at(i) == n + i - 1
  <2>0. IdsOf(new) = {new[i].id : i \in 1..m} /\ \A i \in 1..m : new[i].id = at(i)
    BY <1>4, <1>6 DEF IdsOf
  <2>1. IdsOf(new) = {at(i) : i \in 1..m}
    <3> HIDE DEF at
    <3> QED
      BY ONLY <2>0
  <2>2. \A x \in n..(n + m - 1) : x - n + 1 \in 1..m /\ n + (x - n + 1) - 1 = x
    BY <1>1
  <2> QED
    BY <1>9, <2>1, <2>2
<1>12. \A c \in ToSet(new) : c.bm # None /\ c.sids = {}
  BY <1>4, <1>6 DEF ToSet
<1> QED
  BY <1>1, <1>6, <1>8, <1>10, <1>11, <1>12 DEF m

\* A list without some channels of bookmarks and with m new ones.
SyncedAs(list, n, new, gone, m) ==
    /\ Tidy(new) /\ Len(new) <= MaxChannels /\ Owned(new)
    /\ IdsOf(new) = (IdsOf(list) \ gone) \cup (n..(n + m - 1))
    /\ \A s : HeldIn(new, s) => HeldIn(list, s)
    /\ \A id : First(list, id) /\ id \notin gone => First(new, id)
    /\ \A c \in ToSet(list) : c.bm = None => c.id \notin gone
    /\ \A id \in IdsOf(list) \ gone :
          Entry(new, id) = Entry(list, id) \/ Entry(new, id).bm # None

LEMMA SyncedList ==
    ASSUME VirtualChannelsAssumption, NEW list, Tidy(list), Owned(list), Len(list) <= MaxChannels,
           NEW want \in Wanted, NEW n \in Nat \ {0}, n + Cardinality(Bookmarks) <= MaxIds + 1,
           \A i \in IdsOf(list) : i < n, NEW new, new = Synced(list, want, n)
    PROVE  \E gone \in SUBSET IdsOf(list), m \in 0..Cardinality(Bookmarks) :
             SyncedAs(list, n, new, gone, m)
<1> DEFINE gone == Unwanted(list, want)
           left == Without(list, gone)
           kept == Tuned(left, want)
           room == IF Len(kept) < MaxChannels THEN MaxChannels - Len(kept) ELSE 0
           todo == SetToSeq(Missing(kept, want))
           take == IF Len(todo) < room THEN Len(todo) ELSE room
           more == SubSeq(todo, 1, take)
           m    == Len(more)
           tail == Bookmarked(more, want, n)
<1>1. new = kept \o tail
  BY DEF Synced, Bookmarked
<1>2. /\ gone = {c.id : c \in {x \in ToSet(list) : x.bm # None /\ want[x.bm] = None /\ x.sids = {}}}
  BY DEF Unwanted
<1> HIDE DEF gone
<1>3. /\ Tidy(left) /\ Len(left) <= Len(list)
      /\ ToSet(left) = {c \in ToSet(list) : c.id \notin gone}
      /\ \A id : First(list, id) /\ id \notin gone => First(left, id)
  BY WithoutSome
<1> HIDE DEF left
<1>4. /\ Tidy(kept) /\ Len(kept) = Len(left) /\ IdsOf(kept) = IdsOf(left)
      /\ \A id : First(left, id) <=> First(kept, id)
  BY <1>3, TunedList
<1>24. ASSUME NEW d \in ToSet(kept)
       PROVE  \E c \in ToSet(list) :
                 /\ c.id \notin gone /\ c \in ToSet(left) /\ d.id = c.id /\ d.sids = c.sids
                 /\ Orphan(d) => Orphan(c)
                 /\ d = c \/ d.bm # None
  <2>1. \A x \in ToSet(kept) : \E c \in ToSet(left) :
            /\ x.id = c.id /\ x.sids = c.sids /\ x.bm = c.bm /\ (Orphan(x) <=> Orphan(c))
            /\ x = c \/ x.bm # None
    BY <1>3, TunedList
  <2>2. PICK c \in ToSet(left) :
            /\ d.id = c.id /\ d.sids = c.sids /\ d.bm = c.bm /\ (Orphan(d) <=> Orphan(c))
            /\ d = c \/ d.bm # None
    BY <2>1
  <2>3. c \in ToSet(list) /\ c.id \notin gone
    BY <1>3
  <2>4. d.id = c.id /\ d.sids = c.sids /\ (d = c \/ d.bm # None)
    BY ONLY <2>2
  <2>5. Orphan(d) => Orphan(c)
    BY ONLY <2>2
  <2> QED
    BY ONLY <2>3, <2>4, <2>5
<1>5. /\ Len(list) \in Nat /\ Len(kept) \in Nat /\ MaxChannels \in Nat /\ MaxIds \in Nat
      /\ IsFiniteSet(Bookmarks)
  BY <1>4, ListDomain DEF Tidy, VirtualChannelsAssumption
<1>6. /\ Missing(kept, want) \in SUBSET {b \in Bookmarks : want[b] # None}
      /\ Missing(kept, want) \in SUBSET Bookmarks
  BY DEF Missing
<1>7. /\ IsFiniteSet(Missing(kept, want)) /\ Cardinality(Missing(kept, want)) \in Nat
      /\ Cardinality(Missing(kept, want)) <= Cardinality(Bookmarks) /\ Cardinality(Bookmarks) \in Nat
      /\ todo \in Seq(Missing(kept, want)) /\ Len(todo) = Cardinality(Missing(kept, want))
  BY <1>5, <1>6, FS_Subset, FS_CardinalityType, SetSeq
<1> HIDE DEF kept, todo
<1>8. room \in Nat /\ Len(kept) + room <= MaxChannels
  BY <1>3, <1>4, <1>5
<1> HIDE DEF room
<1>9. take \in 0..Len(todo) /\ take <= room /\ Len(todo) \in Nat
  BY <1>7, <1>8
<1> HIDE DEF take
<1>10. more \in Seq(Missing(kept, want)) /\ m = take
  <2>1. \A i \in 1..take : i \in 1..Len(todo) /\ todo[i] \in Missing(kept, want)
    BY <1>7, <1>9, LenProperties
  <2>2. more = [i \in 1..take |-> todo[i]]
    BY <1>7, <1>9
  <2>3. more \in [1..take -> Missing(kept, want)]
    BY <2>1, <2>2
  <2>4. take \in Nat
    BY <1>9
  <2> QED
    BY <2>3, <2>4, FunctionSeq
<1>11. more \in Seq({b \in Bookmarks : want[b] # None})
  BY <1>6, <1>10, LenProperties, FunctionSeq
<1> HIDE DEF more
<1>12. m \in 0..Cardinality(Bookmarks) /\ n + m <= MaxIds + 1 /\ Len(kept) + m <= MaxChannels /\ m \in Nat
  BY <1>5, <1>7, <1>8, <1>9, <1>10
<1>13. /\ tail \in Seq(Channel) /\ Len(tail) = m
       /\ \A i, j \in DOMAIN tail : tail[i].id = tail[j].id => i = j
       /\ \A i \in DOMAIN tail : tail[i].id >= n /\ ~tail[i].permanent
       /\ IdsOf(tail) = n..(n + m - 1)
       /\ \A c \in ToSet(tail) : c.bm # None /\ c.sids = {}
  BY <1>11, <1>12, BookmarkedList, SMTT(20)
<1> HIDE DEF tail, m
<1>14. /\ IdsOf(list) = {c.id : c \in ToSet(list)} /\ IdsOf(left) = {c.id : c \in ToSet(left)}
       /\ IdsOf(list) \subseteq Ids
       /\ \A c \in ToSet(list) : Entry(list, c.id) = c
       /\ \A c, d \in ToSet(list) : c.id = d.id => c = d
       /\ \A c \in ToSet(left) : Entry(left, c.id) = c
       /\ \A c \in ToSet(kept) : c.id \in IdsOf(kept) /\ Entry(kept, c.id) = c
       /\ IdsOf(kept) = {c.id : c \in ToSet(kept)}
  BY <1>3, <1>4, Members
<1>15. IdsOf(kept) = IdsOf(list) \ gone /\ gone \subseteq IdsOf(list)
  <2>1. gone \subseteq IdsOf(list)
    BY <1>2, <1>14
  <2>2. IdsOf(left) = IdsOf(list) \ gone
    BY <1>3, <1>14
  <2> QED
    BY <1>4, <2>1, <2>2
<1>16. \A i \in DOMAIN tail : tail[i].id \notin IdsOf(kept) /\ ~tail[i].permanent
  <2>1. \A i \in IdsOf(kept) : i \in Nat /\ i < n
    BY <1>14, <1>15 DEF Ids
  <2>2. \A i \in DOMAIN tail : tail[i].id \in n..(n + m - 1)
    BY <1>13 DEF IdsOf
  <2>3. \A x \in n..(n + m - 1) : ~ (x < n)
    BY <1>12
  <2> QED
    BY <1>13, <2>1, <2>2, <2>3
<1>17. /\ Tidy(new) /\ Len(new) = Len(kept) + Len(tail)
       /\ ToSet(new) = ToSet(kept) \cup ToSet(tail)
       /\ IdsOf(new) = IdsOf(kept) \cup IdsOf(tail)
       /\ \A id : First(kept, id) => First(new, id)
  BY <1>1, <1>4, <1>13, <1>16, Added
<1>18. Owned(new)
  <2>1. \A c \in ToSet(tail) : ~Orphan(c)
    BY <1>13 DEF Orphan
  <2>2. \A c \in ToSet(kept) : ~Orphan(c)
    BY <1>24 DEF Owned
  <2> QED
    BY <1>17, <2>1, <2>2 DEF Owned
<1>19. ASSUME NEW s, HeldIn(new, s) PROVE HeldIn(list, s)
  <2>1. PICK c \in ToSet(new) : s \in c.sids
    BY <1>19 DEF HeldIn
  <2>2. c \in ToSet(kept)
    BY <1>13, <1>17, <2>1
  <2>3. PICK d \in ToSet(list) : d.sids = c.sids
    BY <1>24, <2>2
  <2> QED
    BY <2>1, <2>3 DEF HeldIn
<1>20. ASSUME NEW c \in ToSet(list), c.bm = None PROVE c.id \notin gone
  BY <1>2, <1>14, <1>20
<1>21. ASSUME NEW id \in IdsOf(list) \ gone
       PROVE  Entry(new, id) = Entry(list, id) \/ Entry(new, id).bm # None
  <2>1. PICK d \in ToSet(kept) : d.id = id
    BY <1>14, <1>15
  <2>2. Entry(new, id) = d
    BY <1>17, <2>1, Members
  <2>3. PICK c \in ToSet(list) : d.id = c.id /\ (d = c \/ d.bm # None)
    BY <1>24, <2>1
  <2>4. Entry(list, id) = c
    BY <1>14, <2>1, <2>3
  <2> QED
    BY <2>2, <2>3, <2>4
<1>22. \A id : First(list, id) /\ id \notin gone => First(new, id)
  BY <1>3, <1>4, <1>17
<1>23. Len(new) <= MaxChannels
  BY <1>12, <1>13, <1>17
<1>25. IdsOf(new) = (IdsOf(list) \ gone) \cup (n..(n + m - 1))
  BY <1>13, <1>15, <1>17
<1>26. SyncedAs(list, n, new, gone, m)
  BY <1>17, <1>18, <1>19, <1>20, <1>21, <1>22, <1>23, <1>25 DEF SyncedAs
<1> QED
  BY <1>12, <1>15, <1>26

LEMMA AppendedList ==
    ASSUME NEW list, Tidy(list), NEW ch \in Channel, ~ch.permanent, ch.id \notin IdsOf(list),
           NEW new, new = Append(list, ch)
    PROVE  /\ Tidy(new) /\ Len(new) = Len(list) + 1 /\ Len(list) \in Nat
           /\ ToSet(new) = ToSet(list) \cup {ch}
           /\ IdsOf(new) = IdsOf(list) \cup {ch.id}
           /\ Entry(new, ch.id) = ch
           /\ \A i : i # ch.id => Keeps(i, list, new)
<1> DEFINE n == Len(list)
<1>1. /\ list \in Seq(Channel) /\ n \in Nat /\ DOMAIN list = 1..n
      /\ \A i, j \in DOMAIN list : list[i].id = list[j].id => i = j
      /\ \A i \in DOMAIN list : list[i].permanent => i = 1
      /\ \A i \in DOMAIN list : list[i].id \in IdsOf(list)
  BY ListDomain DEF Tidy, IdsOf
<1>2. /\ new \in Seq(Channel) /\ Len(new) = n + 1 /\ DOMAIN new = DOMAIN list \cup {n + 1}
      /\ n + 1 \notin DOMAIN list /\ new[n + 1] = ch /\ \A i \in DOMAIN list : new[i] = list[i]
  BY <1>1, AppendAt
<1>3. Tidy(new)
  <2>1. ASSUME NEW i \in DOMAIN new, NEW j \in DOMAIN new, new[i].id = new[j].id PROVE i = j
    BY <1>1, <1>2, <2>1
  <2>2. ASSUME NEW i \in DOMAIN new, new[i].permanent PROVE i = 1
    BY <1>1, <1>2, <2>2, Zenon
  <2> QED
    BY <1>2, <2>1, <2>2 DEF Tidy
<1>4. ToSet(new) = ToSet(list) \cup {ch}
  BY <1>2 DEF ToSet
<1>5. /\ IdsOf(list) = {c.id : c \in ToSet(list)} /\ IdsOf(new) = {c.id : c \in ToSet(new)}
      /\ \A c \in ToSet(list) : Entry(list, c.id) = c
      /\ \A c \in ToSet(new) : Entry(new, c.id) = c
  BY <1>3, Members
<1>6. IdsOf(new) = IdsOf(list) \cup {ch.id}
  BY <1>4, <1>5
<1>7. Entry(new, ch.id) = ch
  BY <1>4, <1>5
<1>8. ASSUME NEW i, i # ch.id PROVE Keeps(i, list, new)
  <2>1. First(list, i) => First(new, i)
    <3>1. First(list, i) => 1 \in DOMAIN list /\ list[1].id = i
      BY <1>1, ListDomain DEF First
    <3>2. 1 \in DOMAIN new => new # <<>>
      BY <1>2, ListDomain
    <3> QED
      BY <1>2, <3>1, <3>2 DEF First
  <2>2. i \in IdsOf(list) => Entry(new, i) = Entry(list, i)
    BY <1>4, <1>5
  <2> QED
    BY <1>6, <1>8, <2>1, <2>2 DEF Keeps
<1> QED
  BY <1>1, <1>2, <1>3, <1>4, <1>6, <1>7, <1>8

(***************************************************************************)
(* The inductive invariant of the channels.                                *)
(***************************************************************************)
\* The lists: no id twice, in one list or two, none that is still to be given.
Lists ==
    /\ channels \in [Rigs -> Seq(Channel)]
    /\ \A r \in Rigs : /\ Tidy(channels[r]) /\ Owned(channels[r])
                       /\ Len(channels[r]) <= MaxChannels
                       /\ \A i \in IdsOf(channels[r]) : i < nextId
    /\ \A r, q \in Rigs : \A i \in Ids :
          i \in IdsOf(channels[r]) /\ i \in IdsOf(channels[q]) => r = q

\* What a thread may be about, step by step.
OpOf(t, o) ==
    /\ o \in Op
    /\ t \in Sessions <=> o.kind = "drop"
    /\ o.kind = "drop" => /\ o.sid = t /\ o.step \in {"release", "rm", "unreg"}
                          /\ o.step = "release" => o.rig \in Rigs
                          /\ o.step # "rm" => o.owes = {}
    /\ o.kind = "alloc" => /\ o.step \in {"map", "send"} /\ o.sid \in Sessions /\ o.rig \in Rigs
                           /\ o.freq \in Freqs /\ o.id \in Ids /\ o.owes = {o.id}
    /\ o.kind = "sub" => /\ o.step \in {"rm", "find", "map", "own", "tune"}
                         /\ o.sid \in Sessions /\ o.rig \in Rigs /\ o.id \in Ids
                         /\ o.step = "tune" => o.freq \in Freqs
                         /\ o.step # "rm" => o.owes = {}
    /\ o.kind = "delete" => /\ o.step \in {"evict", "rm"} /\ o.rig \in Rigs /\ o.id \in Ids
    /\ o.kind = "destroyed" => o.step = "evict" /\ o.rig \in Rigs /\ o.id \in Ids /\ o.owes = {}
    /\ o.kind = "set" => /\ o.step = "send" /\ o.id \in Ids /\ o.freq \in Freqs
                         /\ o.owes = {o.id}

Formed ==
    /\ ops \in [Threads -> Op \cup {None}]
    /\ \A t \in Threads : ops[t] # None => OpOf(t, ops[t])
    /\ \A s \in Sessions : ops[s] # None => phase[s] = "gone"

\* A command that is owed, and what it will say.
Owes(t, i) == ops[t] # None /\ i \in ops[t].owes
Tunes(t) == ops[t].kind \in {"alloc", "set"}
Listed(i) == \E r \in Rigs : i \in IdsOf(channels[r])
Says(i, f, heard) ==
    \A r \in Rigs : i \in IdsOf(channels[r]) =>
       First(channels[r], i) \/ (heard /\ Entry(channels[r], i).freq = f)

\* At most one thread owes a command about a channel; it tunes the channel as it
\* is listed, or removes one that is not listed any more. When nobody does, the
\* server has been told.
Told(i) ==
    /\ \A t, u \in Threads : Owes(t, i) /\ Owes(u, i) => t = u
    /\ \A t \in Threads : Owes(t, i) /\ Tunes(t) =>
          Listed(i) /\ Says(i, ops[t].freq, ops[t].kind = "alloc" \/ dsp[i] # None)
    /\ \A t \in Threads : Owes(t, i) /\ ~Tunes(t) => ~Listed(i)
    /\ (\A t \in Threads : ~Owes(t, i)) =>
          Says(i, dsp[i], TRUE) /\ (~Listed(i) => dsp[i] = None)
Sending ==
    /\ \A t \in Threads : \A i \in Ids : Owes(t, i) => i < nextId
    /\ \A i \in Ids \ crossed : Told(i)

\* Where a session's channels are, and what it left behind.
Mapping(t, s, r) == ops[t] # None /\ ops[t].step = "map" /\ ops[t].sid = s /\ ops[t].rig = r
Releasing(s, r) == ops[s] # None /\ ops[s].step = "release" /\ ops[s].rig = r
Traced(s) ==
    /\ \A r \in Rigs : HeldIn(channels[r], s) =>
          \/ smap[s] # None /\ smap[s].rig = r
          \/ \E t \in Workers : Mapping(t, s, r)
          \/ Releasing(s, r)
    /\ phase[s] # "live" => smap[s] = None
    /\ phase[s] \in {"new", "connecting", "lost"} =>
          /\ \A r \in Rigs : ~HeldIn(channels[r], s)
          /\ \A t \in Threads : ops[t] # None => ops[t].sid # s
    /\ phase[s] = "new" => control[s] = None
    /\ phase[s] \in {"connecting", "lost"} => control[s] = TRUE
    /\ phase[s] = "gone" /\ ops[s] = None => control[s] = None
Tracked == \A s \in Sessions : ~Strayed(s) => Traced(s)

\* The counter of open streams.
Streaming == {s \in Sessions : phase[s] \in {"connecting", "live", "lost"}}
OpenStreams ==
    /\ IsFiniteSet(Streaming) /\ clients = Cardinality(Streaming)
    /\ \A s \in Sessions : phase[s] # "new" => stream[s] \in Rigs

\* The types of what these parts leave open.
Plain ==
    /\ smap \in [Sessions -> Place \cup {None}]
    /\ dsp \in [Ids -> Freqs \cup {None}]
    /\ control \in [Sessions -> BOOLEAN \cup {None}]
    /\ rigOf \in [Sessions -> Rigs \cup {None}]
    /\ stream \in [Sessions -> Rigs \cup {None}]
    /\ phase \in [Sessions -> {"new", "connecting", "live", "gone", "lost"}]
    /\ dial \in [Rigs -> Freqs]
    /\ desired \in [Rigs -> [Bookmarks -> Freqs \cup {None}]]
    /\ nextId \in 1..(MaxIds + 1)
    /\ <<requests, changes>> \in Nat \X Nat
    /\ crossed \subseteq Ids /\ strayed \subseteq Sessions \X {"late", "lost"}

ChannelsInd == Plain /\ Lists /\ Formed /\ Sending /\ Tracked /\ OpenStreams

-----------------------------------------------------------------------------
(***************************************************************************)
(* A list changes.                                                         *)
(***************************************************************************)
LEMMA ListStep ==
    ASSUME Lists, NEW r \in Rigs, NEW new, Tidy(new), Owned(new), Len(new) <= MaxChannels,
           channels' = [channels EXCEPT ![r] = new],
           nextId \in Nat, nextId' \in Nat, nextId <= nextId',
           \A i \in IdsOf(new) : i \in IdsOf(channels[r]) \/ (nextId <= i /\ i < nextId')
    PROVE  /\ Lists' /\ channels'[r] = new
           /\ \A q \in Rigs : q # r => channels'[q] = channels[q]
<1>1. channels'[r] = new /\ \A q \in Rigs : q # r => channels'[q] = channels[q]
  BY DEF Lists
<1>2. channels' \in [Rigs -> Seq(Channel)]
  BY DEF Lists, Tidy
<1>3. ASSUME NEW q \in Rigs, NEW i \in IdsOf(channels[q]) PROVE i \in Nat /\ i < nextId /\ i < nextId'
  <2>1. i \in Ids /\ i < nextId
    BY Members DEF Lists
  <2> QED
    BY <2>1 DEF Ids
<1>4. ASSUME NEW q \in Rigs
      PROVE  /\ Tidy(channels'[q]) /\ Owned(channels'[q]) /\ Len(channels'[q]) <= MaxChannels
             /\ \A i \in IdsOf(channels'[q]) : i < nextId'
  <2>1. CASE q = r
    BY <1>1, <1>3, <2>1
  <2>2. CASE q # r
    BY <1>1, <1>3, <2>2 DEF Lists
  <2> QED
    BY <2>1, <2>2
<1>5. ASSUME NEW q \in Rigs, q # r, NEW i \in Ids, i \in IdsOf(new), i \in IdsOf(channels[q]) PROVE FALSE
  <2>1. i < nextId /\ i \in Nat
    BY <1>3, <1>5
  <2>2. i \in IdsOf(channels[r])
    BY <1>5, <2>1
  <2> QED
    BY <1>5, <2>2 DEF Lists
<1>6. ASSUME NEW q \in Rigs, NEW p \in Rigs, NEW i \in Ids,
             i \in IdsOf(channels'[p]), i \in IdsOf(channels'[q])
      PROVE  p = q
  <2>1. CASE p = r \/ q = r
    BY <1>1, <1>5, <1>6, <2>1
  <2>2. CASE p # r /\ q # r
    BY <1>1, <1>6, <2>2 DEF Lists
  <2> QED
    BY <2>1, <2>2
<1> QED
  BY <1>1, <1>2, <1>4, <1>6 DEF Lists

LEMMA ListEdit ==
    ASSUME Lists, NEW r \in Rigs, NEW new, Tidy(new), Owned(new), Len(new) <= MaxChannels,
           channels' = [channels EXCEPT ![r] = new], nextId \in Nat, nextId' = nextId,
           \A i \in IdsOf(new) : i \in IdsOf(channels[r])
    PROVE  /\ Lists' /\ channels'[r] = new
           /\ \A q \in Rigs : q # r => channels'[q] = channels[q]
<1>1. nextId' \in Nat /\ nextId <= nextId'
  OBVIOUS
<1> QED
  BY <1>1, ListStep

LEMMA ListsStay ==
    ASSUME Lists, channels' = channels, nextId' = nextId
    PROVE  Lists'
BY DEF Lists

\* A channel that no other rig lists.
LEMMA OneRig ==
    ASSUME Lists, NEW r \in Rigs, NEW i \in IdsOf(channels[r])
    PROVE  i \in Ids /\ \A q \in Rigs : q # r => i \notin IdsOf(channels[q])
<1>1. i \in Ids
  BY Members DEF Lists
<1> QED
  BY <1>1 DEF Lists

LEMMA KeepsItself == \A i, list : Keeps(i, list, list)
BY DEF Keeps

LEMMA OtherRigs ==
    ASSUME NEW r \in Rigs, \A q \in Rigs : q # r => channels'[q] = channels[q],
           NEW i, Keeps(i, channels[r], channels'[r])
    PROVE  \A q \in Rigs : Keeps(i, channels[q], channels'[q])
<1> SUFFICES ASSUME NEW q \in Rigs PROVE Keeps(i, channels[q], channels'[q])
  OBVIOUS
<1>1. CASE q = r
  BY <1>1
<1>2. CASE q # r
  BY <1>2, KeepsItself
<1> QED
  BY <1>1, <1>2

(***************************************************************************)
(* Commands.                                                               *)
(***************************************************************************)
LEMMA SaysKept ==
    ASSUME NEW i, \A r \in Rigs : Keeps(i, channels[r], channels'[r]),
           NEW f, NEW heard, Says(i, f, heard)
    PROVE  \A r \in Rigs : i \in IdsOf(channels'[r]) =>
              First(channels'[r], i) \/ (heard /\ Entry(channels'[r], i).freq = f)
BY DEF Keeps, Says

LEMMA ListedKept ==
    ASSUME NEW i, \A r \in Rigs : Keeps(i, channels[r], channels'[r])
    PROVE  Listed(i)' <=> Listed(i)
BY DEF Keeps, Listed

SameDuty(u, i) ==
    /\ Owes(u, i)' <=> Owes(u, i)
    /\ Owes(u, i) => ops'[u].kind = ops[u].kind /\ ops'[u].freq = ops[u].freq

LEMMA ToldKept ==
    ASSUME NEW i \in Ids, Told(i), dsp'[i] = dsp[i],
           \A r \in Rigs : Keeps(i, channels[r], channels'[r]),
           \A u \in Threads : SameDuty(u, i)
    PROVE  Told(i)'
<1>1. \A t \in Threads : (Owes(t, i)' <=> Owes(t, i)) /\ (Owes(t, i) => (Tunes(t)' <=> Tunes(t)))
  BY DEF SameDuty, Tunes
<1>2. Listed(i)' <=> Listed(i)
  BY ListedKept
<1>3. \A t, u \in Threads : Owes(t, i)' /\ Owes(u, i)' => t = u
  BY <1>1 DEF Told
<1>4. ASSUME NEW t \in Threads, Owes(t, i)', Tunes(t)'
      PROVE  Listed(i)' /\ Says(i, ops[t].freq, ops[t].kind = "alloc" \/ dsp[i] # None)'
  <2>1. Listed(i) /\ Says(i, ops[t].freq, ops[t].kind = "alloc" \/ dsp[i] # None)
    BY <1>1, <1>4 DEF Told
  <2>2. ops'[t].kind = ops[t].kind /\ ops'[t].freq = ops[t].freq
    BY <1>1, <1>4 DEF SameDuty
  <2> DEFINE heard == ops[t].kind = "alloc" \/ dsp[i] # None
  <2>3. \A r \in Rigs : i \in IdsOf(channels'[r]) =>
           First(channels'[r], i) \/ (heard /\ Entry(channels'[r], i).freq = ops[t].freq)
    BY <2>1, SaysKept
  <2>4. \A r \in Rigs : i \in IdsOf(channels'[r]) =>
           First(channels'[r], i)
           \/ ((ops'[t].kind = "alloc" \/ dsp'[i] # None) /\ Entry(channels'[r], i).freq = ops'[t].freq)
    BY <2>2, <2>3
  <2> QED
    BY <1>2, <2>1, <2>4 DEF Says
<1>5. \A t \in Threads : Owes(t, i)' /\ ~Tunes(t)' => ~Listed(i)'
  BY <1>1, <1>2 DEF Told
<1>6. ASSUME \A t \in Threads : ~Owes(t, i)'
      PROVE  Says(i, dsp[i], TRUE)' /\ (~Listed(i)' => dsp'[i] = None)
  <2>1. Says(i, dsp[i], TRUE) /\ (~Listed(i) => dsp[i] = None)
    BY <1>1, <1>6 DEF Told
  <2>2. \A r \in Rigs : i \in IdsOf(channels'[r]) =>
           First(channels'[r], i) \/ (TRUE /\ Entry(channels'[r], i).freq = dsp[i])
    BY <2>1, SaysKept
  <2> QED
    BY <1>2, <2>1, <2>2 DEF Says
<1> QED
  BY <1>3, <1>4, <1>5, <1>6 DEF Told

\* Nothing that the commands depend on has changed.
LEMMA SendingStays ==
    ASSUME Sending, channels' = channels, dsp' = dsp, crossed' = crossed, nextId' = nextId,
           \A t \in Threads : \A i \in Ids : SameDuty(t, i)
    PROVE  Sending'
<1>1. ASSUME NEW i \in Ids \ crossed PROVE Told(i)'
  BY KeepsItself, ToldKept DEF Sending
<1> QED
  BY <1>1 DEF Sending, SameDuty

LEMMA SameOps ==
    ASSUME NEW t, ops'[t] = ops[t] PROVE \A i \in Ids : SameDuty(t, i)
BY DEF SameDuty, Owes

(***************************************************************************)
(* Sessions.                                                               *)
(***************************************************************************)
LEMMA StrayedGrows ==
    ASSUME NEW S, Stray(S), NEW s \in Sessions, ~Strayed(s)'
    PROVE  ~Strayed(s) /\ <<s, "late">> \notin S /\ <<s, "lost">> \notin S
BY DEF Stray, Strayed

LEMMA StrayedStays ==
    ASSUME strayed' = strayed PROVE \A s \in Sessions : Strayed(s)' <=> Strayed(s)
BY DEF Strayed

LEMMA TracedKept ==
    ASSUME NEW s \in Sessions, Traced(s),
           phase'[s] = phase[s], smap'[s] = smap[s],
           control'[s] = control[s] \/ phase[s] = "live",
           \A r \in Rigs : HeldIn(channels'[r], s) => HeldIn(channels[r], s),
           \A t \in Workers, r \in Rigs : Mapping(t, s, r) => Mapping(t, s, r)',
           \A r \in Rigs : Releasing(s, r) => Releasing(s, r)',
           \A t \in Threads : ops'[t] # None /\ ops'[t].sid = s =>
              phase[s] \in {"live", "gone"} \/ (ops[t] # None /\ ops[t].sid = s),
           ops'[s] = None => ops[s] = None
    PROVE  Traced(s)'
<1>1. \A r \in Rigs : HeldIn(channels'[r], s) =>
          \/ smap'[s] # None /\ smap'[s].rig = r
          \/ \E t \in Workers : Mapping(t, s, r)'
          \/ Releasing(s, r)'
  BY DEF Traced
<1>2. phase'[s] # "live" => smap'[s] = None
  BY DEF Traced
<1>3. phase'[s] \in {"new", "connecting", "lost"} =>
          /\ \A r \in Rigs : ~HeldIn(channels'[r], s)
          /\ \A t \in Threads : ops'[t] # None => ops'[t].sid # s
  BY DEF Traced
<1>4. /\ phase'[s] = "new" => control'[s] = None
      /\ phase'[s] \in {"connecting", "lost"} => control'[s] = TRUE
      /\ phase'[s] = "gone" /\ ops'[s] = None => control'[s] = None
  BY Zenon DEF Traced
<1> QED
  BY <1>1, <1>2, <1>3, <1>4 DEF Traced

LEMMA TrackedStays ==
    ASSUME Tracked, channels' = channels, smap' = smap, control' = control, phase' = phase,
           ops' = ops, strayed' = strayed
    PROVE  Tracked'
<1> SUFFICES ASSUME NEW s \in Sessions, ~Strayed(s)' PROVE Traced(s)'
  BY DEF Tracked
<1>1. Traced(s)
  BY StrayedStays DEF Tracked
<1> QED
  BY <1>1, TracedKept DEF Mapping, Releasing

(***************************************************************************)
(* The operation of a thread.                                              *)
(***************************************************************************)
LEMMA OpChange ==
    ASSUME Formed, NEW t \in Threads, NEW new, ops' = [ops EXCEPT ![t] = new],
           new # None => OpOf(t, new),
           \A s \in Sessions : phase[s] = "gone" => phase'[s] = "gone",
           t \in Sessions /\ new # None => phase'[t] = "gone"
    PROVE  /\ Formed' /\ ops'[t] = new
           /\ \A u \in Threads : u # t => ops'[u] = ops[u]
           /\ \A u \in Threads : u # t => \A i \in Ids : SameDuty(u, i)
<1>1. ops'[t] = new /\ \A u \in Threads : u # t => ops'[u] = ops[u]
  BY DEF Formed
<1>2. new \in Op \cup {None}
  BY DEF OpOf
<1>3. ops' \in [Threads -> Op \cup {None}]
  BY <1>2 DEF Formed
<1>4. \A u \in Threads : ops'[u] # None => OpOf(u, ops'[u])
  BY <1>1 DEF Formed
<1>5. \A s \in Sessions : ops'[s] # None => phase'[s] = "gone"
  BY <1>1 DEF Formed
<1>6. Formed'
  BY <1>3, <1>4, <1>5 DEF Formed
<1>7. \A u \in Threads : u # t => \A i \in Ids : SameDuty(u, i)
  BY <1>1 DEF SameDuty, Owes
<1> QED
  BY <1>1, <1>6, <1>7

LEMMA FormedStays ==
    ASSUME Formed, ops' = ops, \A s \in Sessions : phase[s] = "gone" => phase'[s] = "gone"
    PROVE  Formed' /\ \A u \in Threads : \A i \in Ids : SameDuty(u, i)
BY DEF Formed, SameDuty, Owes

LEMMA AtOp ==
    ASSUME Formed, NEW t \in Threads, NEW step, At(t, step)
    PROVE  /\ ops[t] # None /\ OpOf(t, ops[t]) /\ ops[t].step = step
           /\ step = "find" => ops[t].kind = "sub"
           /\ step = "own" => ops[t].kind = "sub"
           /\ step = "tune" => ops[t].kind = "sub"
           /\ step = "map" => ops[t].kind \in {"sub", "alloc"}
           /\ step = "send" => ops[t].kind \in {"set", "alloc"}
           /\ step = "evict" => ops[t].kind \in {"delete", "destroyed"}
           /\ step = "rm" => ops[t].kind \in {"delete", "sub", "drop"}
           /\ step \in {"release", "unreg"} => ops[t].kind = "drop"
           /\ t \in Sessions <=> ops[t].kind = "drop"
<1>1. ops[t] # None /\ OpOf(t, ops[t]) /\ ops[t].step = step
  BY DEF At, Formed
<1>2. ops[t].kind \in {"alloc", "sub", "drop", "delete", "destroyed", "set"}
  BY <1>1 DEF OpOf, Op
<1> QED
  BY <1>1, <1>2 DEF OpOf

\* Nothing that the sessions' places depend on has changed, but one thread that
\* was not about to map or release anything, and is about the same session.
LEMMA PhasesStay ==
    ASSUME phase' = phase
    PROVE  \A s \in Sessions : phase[s] = "gone" => phase'[s] = "gone"
OBVIOUS

LEMMA OpenStreamsStay ==
    ASSUME OpenStreams, phase' = phase, clients' = clients, stream' = stream
    PROVE  OpenStreams'
BY DEF OpenStreams, Streaming

-----------------------------------------------------------------------------
(***************************************************************************)
(* The steps of a stream.                                                  *)
(***************************************************************************)
LEMMA ConnectKeeps ==
    ASSUME VirtualChannelsAssumption, ChannelsInd, NEW s \in Sessions, NEW r \in Rigs, Connect(s, r)
    PROVE  ChannelsInd'
<1> USE DEF ChannelsInd
<1>1. /\ phase[s] = "new" /\ phase' = [phase EXCEPT ![s] = "connecting"]
      /\ stream' = [stream EXCEPT ![s] = r] /\ control' = [control EXCEPT ![s] = TRUE]
      /\ clients' = clients + 1
      /\ channels' = channels /\ smap' = smap /\ dsp' = dsp /\ rigOf' = rigOf /\ ops' = ops
      /\ dial' = dial /\ desired' = desired /\ nextId' = nextId /\ requests' = requests
      /\ changes' = changes /\ crossed' = crossed /\ strayed' = strayed
  BY DEF Connect, env, bounds
<1>2. /\ phase'[s] = "connecting" /\ control'[s] = TRUE /\ stream'[s] = r
      /\ \A u \in Sessions : u # s => /\ phase'[u] = phase[u] /\ control'[u] = control[u]
                                      /\ stream'[u] = stream[u]
  BY <1>1 DEF Plain
<1>3. Plain'
  BY <1>1 DEF Plain
<1>4. Lists'
  BY <1>1, ListsStay
<1>5. Formed' /\ \A u \in Threads : \A i \in Ids : SameDuty(u, i)
  <2>1. \A u \in Sessions : phase[u] = "gone" => phase'[u] = "gone"
    BY <1>1, <1>2
  <2> QED
    BY <1>1, <2>1, FormedStays
<1>6. Sending'
  BY <1>1, <1>5, SendingStays
<1>7. ASSUME NEW u \in Sessions, ~Strayed(u)' PROVE Traced(u)'
  <2>1. Traced(u)
    BY <1>1, <1>7, StrayedStays DEF Tracked
  <2>2. CASE u = s
    <3>1. /\ smap'[s] = None /\ \A q \in Rigs : ~HeldIn(channels'[q], s)
          /\ \A t \in Threads : ops'[t] # None => ops'[t].sid # s
      BY <1>1, <2>1, <2>2 DEF Traced
    <3>2. phase'[s] = "connecting" /\ control'[s] = TRUE
      BY <1>2
    <3>3. Traced(s)'
      BY ONLY <3>1, <3>2 DEF Traced
    <3> QED
      BY ONLY <2>2, <3>3
  <2>3. CASE u # s
    BY <1>1, <1>2, <2>1, <2>3, TracedKept DEF Mapping, Releasing
  <2> QED
    BY <2>2, <2>3
<1>8. OpenStreams'
  <2>1. Streaming' = Streaming \cup {s} /\ s \notin Streaming
    BY <1>1, <1>2 DEF Streaming
  <2>2. IsFiniteSet(Streaming \cup {s}) /\ Cardinality(Streaming \cup {s}) = Cardinality(Streaming) + 1
    BY <2>1, FS_AddElement DEF OpenStreams
  <2>3. \A u \in Sessions : phase'[u] # "new" => stream'[u] \in Rigs
    BY <1>2 DEF OpenStreams
  <2> QED
    BY <1>1, <2>1, <2>2, <2>3 DEF OpenStreams
<1> QED
  BY <1>3, <1>4, <1>5, <1>6, <1>7, <1>8 DEF Tracked

LEMMA ConnectLostKeeps ==
    ASSUME VirtualChannelsAssumption, ChannelsInd, NEW s \in Sessions, ConnectLost(s)
    PROVE  ChannelsInd'
<1> USE DEF ChannelsInd
<1>1. /\ phase[s] = "connecting" /\ phase' = [phase EXCEPT ![s] = "lost"]
      /\ stream' = stream /\ control' = control /\ clients' = clients
      /\ channels' = channels /\ smap' = smap /\ dsp' = dsp /\ rigOf' = rigOf /\ ops' = ops
      /\ dial' = dial /\ desired' = desired /\ nextId' = nextId /\ requests' = requests
      /\ changes' = changes /\ crossed' = crossed /\ strayed' = strayed
  BY DEF ConnectLost, reg, env, bounds
<1>2. phase'[s] = "lost" /\ \A u \in Sessions : u # s => phase'[u] = phase[u]
  BY <1>1 DEF Plain
<1>3. Plain'
  BY <1>1 DEF Plain
<1>4. Lists'
  BY <1>1, ListsStay
<1>5. Formed' /\ \A u \in Threads : \A i \in Ids : SameDuty(u, i)
  <2>1. \A u \in Sessions : phase[u] = "gone" => phase'[u] = "gone"
    BY <1>1, <1>2
  <2> QED
    BY <1>1, <2>1, FormedStays
<1>6. Sending'
  BY <1>1, <1>5, SendingStays
<1>7. ASSUME NEW u \in Sessions, ~Strayed(u)' PROVE Traced(u)'
  <2>1. Traced(u)
    BY <1>1, <1>7, StrayedStays DEF Tracked
  <2>2. CASE u = s
    <3>1. /\ smap'[s] = None /\ \A q \in Rigs : ~HeldIn(channels'[q], s)
          /\ \A t \in Threads : ops'[t] # None => ops'[t].sid # s
          /\ control'[s] = TRUE /\ phase'[s] = "lost"
      BY <1>1, <1>2, <2>1, <2>2 DEF Traced
    <3>2. Traced(s)'
      BY ONLY <3>1 DEF Traced
    <3> QED
      BY ONLY <2>2, <3>2
  <2>3. CASE u # s
    BY <1>1, <1>2, <2>1, <2>3, TracedKept DEF Mapping, Releasing
  <2> QED
    BY <2>2, <2>3
<1>8. OpenStreams'
  <2>1. Streaming' = Streaming
    BY <1>1, <1>2 DEF Streaming
  <2>2. \A u \in Sessions : phase'[u] # "new" => stream'[u] \in Rigs
    BY <1>1, <1>2 DEF OpenStreams
  <2> QED
    BY <1>1, <2>1, <2>2 DEF OpenStreams
<1> QED
  BY <1>3, <1>4, <1>5, <1>6, <1>7, <1>8 DEF Tracked

LEMMA DropKeeps ==
    ASSUME VirtualChannelsAssumption, ChannelsInd, NEW s \in Sessions, Drop(s)
    PROVE  ChannelsInd'
<1> USE DEF ChannelsInd
<1> DEFINE new == IF smap[s] = None
                  THEN [kind |-> "drop", step |-> "unreg", sid |-> s, rig |-> None, id |-> None,
                        freq |-> None, owes |-> {}, evicted |-> {}]
                  ELSE [kind |-> "drop", step |-> "release", sid |-> s, rig |-> smap[s].rig,
                        id |-> None, freq |-> None, owes |-> {}, evicted |-> {}]
<1>1. /\ phase[s] = "live" /\ ops[s] = None /\ phase' = [phase EXCEPT ![s] = "gone"]
      /\ smap' = [smap EXCEPT ![s] = None] /\ clients' = clients - 1
      /\ stream' = stream /\ control' = control
      /\ channels' = channels /\ dsp' = dsp /\ rigOf' = rigOf
      /\ dial' = dial /\ desired' = desired /\ nextId' = nextId /\ requests' = requests
      /\ changes' = changes /\ crossed' = crossed /\ strayed' = strayed
  BY DEF Drop, Idle, env, bounds
<1>2. /\ phase'[s] = "gone" /\ smap'[s] = None
      /\ \A u \in Sessions : u # s => phase'[u] = phase[u] /\ smap'[u] = smap[u]
  BY <1>1 DEF Plain
<1>3. Plain'
  BY <1>1 DEF Plain
<1>4. Lists'
  BY <1>1, ListsStay
<1>5. ops' = [ops EXCEPT ![s] = new] /\ s \in Threads
  BY DEF Drop, Begin, Threads
<1>6. OpOf(s, new) /\ new.sid = s /\ new.owes = {}
      /\ (smap[s] # None => new.step = "release" /\ new.rig = smap[s].rig)
  <2>1. CASE smap[s] = None
    <3>1. new = [kind |-> "drop", step |-> "unreg", sid |-> s, rig |-> None, id |-> None,
                        freq |-> None, owes |-> {}, evicted |-> {}]
      BY <2>1
    <3> HIDE DEF new
    <3> QED
      BY <2>1, <3>1 DEF OpOf, Op
  <2>2. CASE smap[s] # None
    <3>1. new = [kind |-> "drop", step |-> "release", sid |-> s, rig |-> smap[s].rig,
                        id |-> None, freq |-> None, owes |-> {}, evicted |-> {}]
      BY <2>2
    <3>2. smap[s].rig \in Rigs
      BY <2>2 DEF Plain, Place
    <3> HIDE DEF new
    <3> QED
      BY <2>2, <3>1, <3>2 DEF OpOf, Op
  <2> QED
    BY <2>1, <2>2
<1> HIDE DEF new
<1>7. /\ Formed' /\ ops'[s] = new
      /\ \A u \in Threads : u # s => ops'[u] = ops[u]
      /\ \A u \in Threads : u # s => \A i \in Ids : SameDuty(u, i)
  <2>1. \A u \in Sessions : phase[u] = "gone" => phase'[u] = "gone"
    BY <1>1, <1>2
  <2> QED
    BY <1>2, <1>5, <1>6, <2>1, OpChange
<1>8. Sending'
  <2>1. \A i \in Ids : SameDuty(s, i)
    BY <1>1, <1>6, <1>7 DEF SameDuty, Owes
  <2> QED
    BY <1>1, <1>7, <2>1, SendingStays
<1>9. ASSUME NEW u \in Sessions, ~Strayed(u)' PROVE Traced(u)'
  <2>1. Traced(u)
    BY <1>1, <1>9, StrayedStays DEF Tracked
  <2>4. ops'[u] = None => ops[u] = None
    BY <1>1, <1>7 DEF Threads
  <2>5. \A t \in Workers : t \in Threads /\ t # s /\ ops'[t] = ops[t]
    BY <1>7 DEF Threads, VirtualChannelsAssumption
  <2>2. CASE u = s
    <3>1. ASSUME NEW r \in Rigs, HeldIn(channels'[r], s)
          PROVE  (\E t \in Workers : Mapping(t, s, r)') \/ Releasing(s, r)'
      <4>1. \/ smap[s] # None /\ smap[s].rig = r
            \/ \E t \in Workers : Mapping(t, s, r)
        BY <1>1, <2>1, <2>2, <3>1 DEF Traced, Releasing
      <4>2. new # None
        BY <1>6 DEF OpOf, VirtualChannelsAssumption
      <4>3. CASE smap[s] # None /\ smap[s].rig = r
        <5>1. Releasing(s, r)'
          BY <1>6, <1>7, <4>2, <4>3 DEF Releasing
        <5> QED
          BY <5>1
      <4>4. CASE \E t \in Workers : Mapping(t, s, r)
        BY <2>5, <4>4 DEF Mapping
      <4> QED
        BY <4>1, <4>3, <4>4
    <3>2. ops'[s] # None
      BY <1>6, <1>7 DEF OpOf, VirtualChannelsAssumption
    <3> QED
      BY <1>2, <2>2, <3>1, <3>2 DEF Traced
  <2>3. CASE u # s
    <3>1. ops'[u] = ops[u]
      BY <1>7, <2>3 DEF Threads
    <3>2. \A t \in Threads : ops'[t] # None /\ ops'[t].sid = u => ops[t] # None /\ ops[t].sid = u
      BY <1>6, <1>7, <2>3
    <3> QED
      BY <1>1, <1>2, <2>1, <2>3, <2>5, <3>1, <3>2, TracedKept DEF Mapping, Releasing
  <2> QED
    BY <2>2, <2>3
<1>10. OpenStreams'
  <2>1. Streaming' = Streaming \ {s} /\ s \in Streaming
    BY <1>1, <1>2 DEF Streaming
  <2>2. IsFiniteSet(Streaming \ {s}) /\ Cardinality(Streaming \ {s}) = Cardinality(Streaming) - 1
    BY <2>1, FS_RemoveElement DEF OpenStreams
  <2>3. \A u \in Sessions : phase'[u] # "new" => stream'[u] \in Rigs
    BY <1>1, <1>2 DEF OpenStreams
  <2> QED
    BY <1>1, <2>1, <2>2, <2>3 DEF OpenStreams
<1> QED
  BY <1>3, <1>4, <1>7, <1>8, <1>9, <1>10 DEF Tracked

LEMMA LateMeans ==
    ASSUME NEW s \in Sessions, NEW S, Stray(Late(s) \cup S)
    PROVE  \A u \in Sessions : ~Strayed(u)' =>
              /\ ~Strayed(u) /\ <<u, "lost">> \notin S
              /\ u = s => phase[s] = "live"
BY DEF Stray, Strayed, Late

LEMMA StrayedIn ==
    ASSUME NEW S, S \subseteq Sessions \X {"late", "lost"}, Stray(S), Plain
    PROVE  strayed' \subseteq Sessions \X {"late", "lost"}
BY DEF Stray, Plain

LEMMA LateIn ==
    ASSUME NEW s \in Sessions PROVE Late(s) \subseteq Sessions \X {"late", "lost"}
BY DEF Late

LEMMA LateOnly ==
    ASSUME NEW s \in Sessions, Stray(Late(s))
    PROVE  \A u \in Sessions : ~Strayed(u)' => ~Strayed(u) /\ (u = s => phase[s] = "live")
BY DEF Stray, Strayed, Late

LEMMA UnregisterKeeps ==
    ASSUME VirtualChannelsAssumption, ChannelsInd, NEW s \in Sessions, Unregister(s)
    PROVE  ChannelsInd'
<1> USE DEF ChannelsInd
<1>1. /\ At(s, "unreg") /\ s \in Threads
      /\ control' = [control EXCEPT ![s] = None] /\ rigOf' = [rigOf EXCEPT ![s] = None]
      /\ ops' = [ops EXCEPT ![s] = None]
      /\ channels' = channels /\ smap' = smap /\ dsp' = dsp
      /\ stream' = stream /\ phase' = phase /\ clients' = clients
      /\ dial' = dial /\ desired' = desired /\ nextId' = nextId /\ requests' = requests
      /\ changes' = changes /\ crossed' = crossed /\ strayed' = strayed
  BY DEF Unregister, Done, tab, env, bounds, Threads
<1>2. /\ ops[s] # None /\ ops[s].step = "unreg" /\ ops[s].owes = {} /\ phase[s] = "gone"
  BY <1>1, AtOp DEF OpOf, Formed
<1>3. /\ Formed' /\ ops'[s] = None
      /\ \A u \in Threads : u # s => ops'[u] = ops[u]
      /\ \A u \in Threads : u # s => \A i \in Ids : SameDuty(u, i)
  BY <1>1, PhasesStay, OpChange
<1>4. Plain'
  BY <1>1 DEF Plain
<1>5. Lists' /\ OpenStreams'
  BY <1>1, ListsStay, OpenStreamsStay
<1>6. Sending'
  <2>1. \A i \in Ids : SameDuty(s, i)
    BY <1>2, <1>3 DEF SameDuty, Owes
  <2> QED
    BY <1>1, <1>3, <2>1, SendingStays
<1>7. control'[s] = None /\ \A u \in Sessions : u # s => control'[u] = control[u]
  BY <1>1 DEF Plain
<1>8. ASSUME NEW u \in Sessions, ~Strayed(u)' PROVE Traced(u)'
  <2>1. Traced(u)
    BY <1>1, <1>8, StrayedStays DEF Tracked
  <2>2. \A t \in Workers : t \in Threads /\ ops'[t] = ops[t]
    BY <1>3 DEF Threads, VirtualChannelsAssumption
  <2>3. CASE u = s
    <3>1. ~ \E r \in Rigs : Releasing(s, r)
      BY <1>2 DEF Releasing
    <3>2. \A r \in Rigs : HeldIn(channels[r], s) =>
            (smap[s] # None /\ smap[s].rig = r) \/ \E t \in Workers : Mapping(t, s, r)
      BY <2>1, <2>3, <3>1 DEF Traced
    <3>3. \A r \in Rigs : HeldIn(channels'[r], s) =>
            (smap'[s] # None /\ smap'[s].rig = r) \/ \E t \in Workers : Mapping(t, s, r)'
      BY <1>1, <2>2, <3>2 DEF Mapping
    <3>4. phase'[s] = "gone" /\ smap'[s] = None
      BY <1>1, <1>2, <2>1, <2>3 DEF Traced
    <3>5. Traced(s)'
      BY ONLY <1>7, <3>3, <3>4 DEF Traced
    <3> QED
      BY ONLY <3>5, <2>3
  <2>4. CASE u # s
    <3>1. ops'[u] = ops[u]
      BY <1>3, <2>4 DEF Threads
    <3>2. \A t \in Threads : ops'[t] # None => ops'[t] = ops[t]
      BY <1>3
    <3> QED
      BY <1>1, <1>7, <2>1, <2>2, <2>4, <3>1, <3>2, TracedKept DEF Mapping, Releasing
  <2> QED
    BY <2>3, <2>4
<1> QED
  BY <1>3, <1>4, <1>5, <1>6, <1>8 DEF Tracked

LEMMA SelectKeeps ==
    ASSUME VirtualChannelsAssumption, ChannelsInd, NEW s \in Sessions, NEW r \in Rigs, Select(s, r)
    PROVE  ChannelsInd'
<1> USE DEF ChannelsInd
<1>1. /\ requests > 0 /\ requests' = requests - 1 /\ Stray(Late(s))
      /\ rigOf' = [rigOf EXCEPT ![s] = r]
      /\ channels' = channels /\ smap' = smap /\ dsp' = dsp /\ control' = control
      /\ stream' = stream /\ phase' = phase /\ clients' = clients
      /\ dial' = dial /\ desired' = desired /\ nextId' = nextId
      /\ changes' = changes /\ crossed' = crossed /\ ops' = ops
  BY DEF Select, Requested, tab, env
<1>2. Formed' /\ \A u \in Threads : \A i \in Ids : SameDuty(u, i)
  BY <1>1, PhasesStay, FormedStays
<1>3. Plain'
  <2>1. strayed' \subseteq Sessions \X {"late", "lost"}
    BY <1>1, LateIn, StrayedIn
  <2>2. <<requests', changes'>> \in Nat \X Nat
    BY <1>1 DEF Plain
  <2> QED
    BY <1>1, <2>1, <2>2 DEF Plain
<1>4. Lists' /\ OpenStreams' /\ Sending'
  BY <1>1, <1>2, ListsStay, OpenStreamsStay, SendingStays
<1>5. ASSUME NEW u \in Sessions, ~Strayed(u)' PROVE Traced(u)'
  <2>1. Traced(u)
    BY <1>1, <1>5, LateOnly DEF Tracked
  <2> QED
    BY <1>1, <2>1, TracedKept DEF Mapping, Releasing
<1> QED
  BY <1>2, <1>3, <1>4, <1>5 DEF Tracked

LEMMA ControlPutKeeps ==
    ASSUME VirtualChannelsAssumption, ChannelsInd, NEW s \in Sessions, NEW b \in BOOLEAN,
           ControlPut(s, b)
    PROVE  ChannelsInd'
<1> USE DEF ChannelsInd
<1>1. /\ requests > 0 /\ requests' = requests - 1 /\ Stray(Late(s))
      /\ control' = [control EXCEPT ![s] = b]
      /\ channels' = channels /\ smap' = smap /\ dsp' = dsp /\ rigOf' = rigOf
      /\ stream' = stream /\ phase' = phase /\ clients' = clients
      /\ dial' = dial /\ desired' = desired /\ nextId' = nextId
      /\ changes' = changes /\ crossed' = crossed /\ ops' = ops
  BY DEF ControlPut, Requested, tab, env
<1>2. Formed' /\ \A u \in Threads : \A i \in Ids : SameDuty(u, i)
  BY <1>1, PhasesStay, FormedStays
<1>3. Plain'
  <2>1. strayed' \subseteq Sessions \X {"late", "lost"}
    BY <1>1, LateIn, StrayedIn
  <2>2. <<requests', changes'>> \in Nat \X Nat
    BY <1>1 DEF Plain
  <2>3. control' \in [Sessions -> BOOLEAN \cup {None}]
    BY <1>1 DEF Plain
  <2> QED
    BY <1>1, <2>1, <2>2, <2>3 DEF Plain
<1>4. Lists' /\ OpenStreams' /\ Sending'
  BY <1>1, <1>2, ListsStay, OpenStreamsStay, SendingStays
<1>5. ASSUME NEW u \in Sessions, ~Strayed(u)' PROVE Traced(u)'
  <2>1. Traced(u) /\ (u = s => phase[s] = "live")
    BY <1>1, <1>5, LateOnly DEF Tracked
  <2>2. CASE u = s
    BY <1>1, <2>1, <2>2 DEF Traced, Mapping, Releasing
  <2>3. CASE u # s
    <3>1. control'[u] = control[u]
      BY <1>1, <2>3 DEF Plain
    <3> QED
      BY <1>1, <2>1, <3>1, TracedKept DEF Mapping, Releasing
  <2> QED
    BY <2>2, <2>3
<1> QED
  BY <1>2, <1>3, <1>4, <1>5 DEF Tracked

LEMMA WorldKeeps ==
    ASSUME VirtualChannelsAssumption, ChannelsInd, NEW r \in Rigs,
           \/ \E f \in Freqs : TurnDial(r, f)
           \/ \E b \in Bookmarks, f \in Freqs \cup {None} : ScheduleMoves(r, b, f)
    PROVE  ChannelsInd'
<1> USE DEF ChannelsInd
<1>1. /\ channels' = channels /\ smap' = smap /\ dsp' = dsp /\ rigOf' = rigOf
      /\ stream' = stream /\ phase' = phase /\ clients' = clients /\ control' = control
      /\ nextId' = nextId /\ requests' = requests /\ crossed' = crossed /\ ops' = ops
      /\ strayed' = strayed
  BY DEF TurnDial, ScheduleMoves, reg, tab
<1>2. dial' \in [Rigs -> Freqs] /\ desired' \in [Rigs -> [Bookmarks -> Freqs \cup {None}]]
  <2>1. CASE \E f \in Freqs : TurnDial(r, f)
    BY <2>1 DEF TurnDial, Plain
  <2>2. CASE \E b \in Bookmarks, f \in Freqs \cup {None} : ScheduleMoves(r, b, f)
    <3>1. PICK b \in Bookmarks, f \in Freqs \cup {None} :
             dial' = dial /\ desired' = [desired EXCEPT ![r] = [desired[r] EXCEPT ![b] = f]]
      BY <2>2 DEF ScheduleMoves
    <3>2. desired[r] \in [Bookmarks -> Freqs \cup {None}]
      BY DEF Plain
    <3>3. [desired[r] EXCEPT ![b] = f] \in [Bookmarks -> Freqs \cup {None}]
      BY <3>2
    <3> QED
      BY <3>1, <3>3 DEF Plain
  <2> QED
    BY <2>1, <2>2
<1>3. changes' \in Nat
  BY DEF TurnDial, ScheduleMoves, Plain
<1>4. Formed' /\ \A u \in Threads : \A i \in Ids : SameDuty(u, i)
  BY <1>1, PhasesStay, FormedStays
<1>5. Plain'
  BY <1>1, <1>2, <1>3 DEF Plain
<1>6. Lists' /\ OpenStreams' /\ Sending' /\ Tracked'
  BY <1>1, <1>4, ListsStay, OpenStreamsStay, SendingStays, TrackedStays
<1> QED
  BY <1>4, <1>5, <1>6

-----------------------------------------------------------------------------
(***************************************************************************)
(* The steps of a request that leave the lists alone.                      *)
(***************************************************************************)
LEMMA TracedByOp ==
    ASSUME VirtualChannelsAssumption, NEW s \in Sessions, Traced(s), NEW t \in Threads,
           phase'[s] = phase[s], smap'[s] = smap[s],
           control'[s] = control[s] \/ phase[s] = "live",
           \A r \in Rigs : HeldIn(channels'[r], s) => HeldIn(channels[r], s),
           \A u \in Threads : u # t => ops'[u] = ops[u],
           \A r \in Rigs : Mapping(t, s, r) => Mapping(t, s, r)',
           ops'[t] # None /\ ops'[t].sid = s =>
              phase[s] \in {"live", "gone"} \/ (ops[t] # None /\ ops[t].sid = s),
           t = s => /\ \A r \in Rigs : Releasing(s, r) => Releasing(s, r)'
                    /\ ops'[s] = None => ops[s] = None
    PROVE  Traced(s)'
<1>1. s \in Threads /\ Workers \subseteq Threads
  BY DEF Threads
<1>2. \A u \in Workers, r \in Rigs : Mapping(u, s, r) => Mapping(u, s, r)'
  <2> SUFFICES ASSUME NEW u \in Workers, NEW r \in Rigs, Mapping(u, s, r) PROVE Mapping(u, s, r)'
    OBVIOUS
  <2>1. CASE u = t
    BY <2>1
  <2>2. CASE u # t
    BY <1>1, <2>2 DEF Mapping
  <2> QED
    BY <2>1, <2>2
<1>3. (\A r \in Rigs : Releasing(s, r) => Releasing(s, r)') /\ (ops'[s] = None => ops[s] = None)
  <2>1. CASE t = s
    BY <2>1
  <2>2. CASE t # s
    BY <1>1, <2>2 DEF Releasing
  <2> QED
    BY <2>1, <2>2
<1>4. \A u \in Threads : ops'[u] # None /\ ops'[u].sid = s =>
              phase[s] \in {"live", "gone"} \/ (ops[u] # None /\ ops[u].sid = s)
  <2> SUFFICES ASSUME NEW u \in Threads, ops'[u] # None, ops'[u].sid = s
               PROVE  phase[s] \in {"live", "gone"} \/ (ops[u] # None /\ ops[u].sid = s)
    OBVIOUS
  <2>1. CASE u = t
    BY <2>1
  <2>2. CASE u # t
    BY <2>2
  <2> QED
    BY <2>1, <2>2
<1> QED
  BY <1>2, <1>3, <1>4, TracedKept

LEMMA TuneRigKeeps ==
    ASSUME VirtualChannelsAssumption, ChannelsInd, NEW t \in Threads, TuneRig(t)
    PROVE  ChannelsInd'
<1> USE DEF ChannelsInd
<1> DEFINE o == ops[t]
<1>1. /\ At(t, "tune") /\ dial' = [dial EXCEPT ![o.rig] = o.freq]
      /\ ops' = [ops EXCEPT ![t] = None]
      /\ channels' = channels /\ smap' = smap /\ dsp' = dsp /\ control' = control /\ rigOf' = rigOf
      /\ stream' = stream /\ phase' = phase /\ clients' = clients
      /\ desired' = desired /\ nextId' = nextId /\ requests' = requests
      /\ changes' = changes /\ crossed' = crossed /\ strayed' = strayed
  BY DEF TuneRig, Done, reg, tab, bounds
<1>2. /\ o # None /\ o.step = "tune" /\ o.owes = {} /\ o.freq \in Freqs /\ t \notin Sessions
  BY <1>1, AtOp DEF OpOf
<1>3. /\ Formed' /\ ops'[t] = None
      /\ \A u \in Threads : u # t => ops'[u] = ops[u]
      /\ \A u \in Threads : u # t => \A i \in Ids : SameDuty(u, i)
  BY <1>1, <1>2, PhasesStay, OpChange
<1>4. Plain'
  <2>1. dial' \in [Rigs -> Freqs]
    BY <1>1, <1>2 DEF Plain
  <2> QED
    BY <1>1, <2>1 DEF Plain
<1>5. Lists' /\ OpenStreams'
  BY <1>1, ListsStay, OpenStreamsStay
<1>6. Sending'
  <2>1. \A i \in Ids : SameDuty(t, i)
    BY <1>2, <1>3 DEF SameDuty, Owes
  <2> QED
    BY <1>1, <1>3, <2>1, SendingStays
<1>7. ASSUME NEW u \in Sessions, ~Strayed(u)' PROVE Traced(u)'
  <2>1. Traced(u)
    BY <1>1, <1>7, StrayedStays DEF Tracked
  <2> QED
    BY <1>1, <1>2, <1>3, <2>1, TracedByOp DEF Mapping
<1> QED
  BY <1>3, <1>4, <1>5, <1>6, <1>7 DEF Tracked

LEMMA MapKeeps ==
    ASSUME VirtualChannelsAssumption, ChannelsInd, NEW t \in Threads, Map(t)
    PROVE  ChannelsInd'
<1> USE DEF ChannelsInd
<1>o. PICK o : o = ops[t]
  OBVIOUS
<1>s. PICK s : s = o.sid
  OBVIOUS
<1> DEFINE next == IF o.kind = "alloc" THEN "send" ELSE "own"
           new  == [o EXCEPT !.step = next]
           away == IF smap[s] # None /\ smap[s].rig # o.rig THEN Lost({s}) ELSE {}
<1>1. /\ At(t, "map") /\ smap' = [smap EXCEPT ![s] = [rig |-> o.rig, id |-> o.id]]
      /\ ops' = [ops EXCEPT ![t] = new] /\ Stray(Late(s) \cup away)
      /\ channels' = channels /\ dial' = dial /\ dsp' = dsp /\ control' = control /\ rigOf' = rigOf
      /\ stream' = stream /\ phase' = phase /\ clients' = clients
      /\ desired' = desired /\ nextId' = nextId /\ requests' = requests
      /\ changes' = changes /\ crossed' = crossed
  BY <1>o, <1>s DEF Map, Goto, env, tab, bounds
<1>2. /\ o # None /\ o.step = "map" /\ t \notin Sessions /\ OpOf(t, o) /\ o.kind \in {"sub", "alloc"}
      /\ s \in Sessions /\ o.rig \in Rigs /\ o.id \in Ids /\ o \in Op
  BY <1>1, <1>o, <1>s, AtOp DEF OpOf
<1>3. /\ OpOf(t, new) /\ new.sid = s /\ new.owes = o.owes /\ new.kind = o.kind
      /\ new.freq = o.freq /\ new.step # "map" /\ new # None
  <2>1. /\ new.sid = s /\ new.owes = o.owes /\ new.kind = o.kind /\ new.rig = o.rig
        /\ new.freq = o.freq /\ new.step = next /\ new.id = o.id /\ new \in Op
    BY <1>2, <1>s DEF Op
  <2>2. new # None
    BY <2>1 DEF VirtualChannelsAssumption
  <2> HIDE DEF new
  <2> QED
    BY <1>2, <1>s, <2>1, <2>2 DEF OpOf
<1>4. away \subseteq Sessions \X {"late", "lost"}
  BY <1>2 DEF Lost
<1>5. [rig |-> o.rig, id |-> o.id] \in Place /\ [rig |-> o.rig, id |-> o.id] # None
  BY <1>2 DEF Place, VirtualChannelsAssumption
<1>6. \A u \in Sessions : ~Strayed(u)' =>
         /\ ~Strayed(u)
         /\ u = s => phase[s] = "live" /\ ~(smap[s] # None /\ smap[s].rig # o.rig)
  <2>1. \A u \in Sessions : ~Strayed(u)' =>
          ~Strayed(u) /\ <<u, "lost">> \notin away /\ (u = s => phase[s] = "live")
    BY <1>1, <1>2, LateMeans
  <2>2. smap[s] # None /\ smap[s].rig # o.rig => <<s, "lost">> \in away
    BY DEF Lost
  <2> HIDE DEF away
  <2> QED
    BY <2>1, <2>2
<1> HIDE DEF new, away
<1>7. /\ Formed' /\ ops'[t] = new
      /\ \A u \in Threads : u # t => ops'[u] = ops[u]
      /\ \A u \in Threads : u # t => \A i \in Ids : SameDuty(u, i)
  BY <1>1, <1>2, <1>3, PhasesStay, OpChange
<1>8. Plain'
  <2>1. strayed' \subseteq Sessions \X {"late", "lost"}
    BY <1>1, <1>2, <1>4, LateIn, StrayedIn
  <2>2. smap' \in [Sessions -> Place \cup {None}]
    BY <1>1, <1>5 DEF Plain
  <2> QED
    BY <1>1, <2>1, <2>2 DEF Plain
<1>9. Lists' /\ OpenStreams'
  BY <1>1, ListsStay, OpenStreamsStay
<1>10. Sending'
  <2>1. \A i \in Ids : SameDuty(t, i)
    BY <1>2, <1>3, <1>7, <1>o DEF SameDuty, Owes
  <2> QED
    BY <1>1, <1>7, <2>1, SendingStays
<1>11. ASSUME NEW u \in Sessions, ~Strayed(u)' PROVE Traced(u)'
  <2>1. Traced(u) /\ (u = s => phase[s] = "live" /\ ~(smap[s] # None /\ smap[s].rig # o.rig))
    BY <1>6, <1>11 DEF Tracked
  <2>2. CASE u = s
    <3>1. smap'[s] = [rig |-> o.rig, id |-> o.id] /\ smap'[s].rig = o.rig /\ smap'[s] # None
      BY <1>1, <1>2, <1>5 DEF Plain
    <3>2. s \in Threads /\ \A v \in Workers : v \in Threads
      BY <1>2 DEF Threads
    <3>3. ASSUME NEW r \in Rigs, HeldIn(channels'[r], s)
          PROVE  smap'[s].rig = r \/ (\E v \in Workers : Mapping(v, s, r)') \/ Releasing(s, r)'
      <4>1. \/ smap[s] # None /\ smap[s].rig = r
            \/ \E v \in Workers : Mapping(v, s, r)
            \/ Releasing(s, r)
        BY <1>1, <2>1, <2>2, <3>3 DEF Traced
      <4>2. CASE smap[s] # None /\ smap[s].rig = r
        BY <2>1, <2>2, <3>1, <4>2
      <4>3. CASE Releasing(s, r)
        BY <1>2, <1>7, <3>2, <4>3 DEF Releasing
      <4>4. CASE \E v \in Workers : Mapping(v, s, r)
        <5>1. PICK v \in Workers : Mapping(v, s, r)
          BY <4>4
        <5>2. CASE v = t
          BY <3>1, <5>1, <5>2, <1>o DEF Mapping
        <5>3. CASE v # t
          BY <1>7, <3>2, <5>1, <5>3 DEF Mapping
        <5> QED
          BY <5>2, <5>3
      <4> QED
        BY <4>1, <4>2, <4>3, <4>4
    <3>4. phase'[s] = "live"
      BY <1>1, <2>1, <2>2
    <3>5. Traced(s)'
      BY ONLY <3>1, <3>3, <3>4 DEF Traced
    <3> QED
      BY ONLY <3>5, <2>2
  <2>3. CASE u # s
    <3>1. smap'[u] = smap[u]
      BY <1>1, <2>3 DEF Plain
    <3>2. \A r \in Rigs : ~Mapping(t, u, r)
      BY <2>3, <1>o, <1>s DEF Mapping
    <3>3. ops'[t].sid # u /\ t # u
      BY <1>2, <1>3, <1>7, <2>3
    <3> QED
      BY <1>1, <1>7, <2>1, <3>1, <3>2, <3>3, TracedByOp
  <2> QED
    BY <2>2, <2>3
<1> QED
  BY <1>7, <1>8, <1>9, <1>10, <1>11 DEF Tracked

LEMMA OwnKeeps ==
    ASSUME VirtualChannelsAssumption, ChannelsInd, NEW t \in Threads, Own(t)
    PROVE  ChannelsInd'
<1> USE DEF ChannelsInd
<1>o. PICK o : o = ops[t]
  OBVIOUS
<1>s. PICK s : s = o.sid
  OBVIOUS
<1>n. PICK new : new = IF o.id \in IdsOf(channels[o.rig])
                       THEN [o EXCEPT !.step = "tune", !.freq = Entry(channels[o.rig], o.id).freq]
                       ELSE None
  OBVIOUS
<1>1. /\ At(t, "own") /\ control' = [control EXCEPT ![s] = FALSE]
      /\ Stray(Late(s))
      /\ channels' = channels /\ dial' = dial /\ dsp' = dsp /\ smap' = smap /\ rigOf' = rigOf
      /\ stream' = stream /\ phase' = phase /\ clients' = clients
      /\ desired' = desired /\ nextId' = nextId /\ requests' = requests
      /\ changes' = changes /\ crossed' = crossed
  BY <1>o, <1>s DEF Own, env, tab, bounds
<1>2. ops' = [ops EXCEPT ![t] = new]
  BY <1>o, <1>n DEF Own, Done
<1>3. /\ o # None /\ o.step = "own" /\ t \notin Sessions /\ OpOf(t, o) /\ o.kind = "sub"
      /\ s \in Sessions /\ o.rig \in Rigs /\ o.id \in Ids /\ o \in Op /\ o.owes = {}
  BY <1>1, <1>o, <1>s, AtOp DEF OpOf
<1>4. new # None => /\ OpOf(t, new) /\ new.sid = s /\ new.owes = {}
  <2>1. CASE o.id \in IdsOf(channels[o.rig])
    <3>1. Entry(channels[o.rig], o.id).freq \in Freqs
      <4>1. Entry(channels[o.rig], o.id) \in Channel
        BY <1>3, <2>1, Members DEF Lists
      <4> QED
        BY <4>1 DEF Channel
    <3>2. PICK f \in Freqs : f = Entry(channels[o.rig], o.id).freq
      BY <3>1
    <3>3. new = [o EXCEPT !.step = "tune", !.freq = f]
      BY <1>n, <2>1, <3>2
    <3>4. /\ new.sid = s /\ new.owes = {} /\ new.kind = "sub" /\ new.rig = o.rig
          /\ new.freq = f /\ new.step = "tune" /\ new.id = o.id /\ new \in Op
      BY <1>3, <1>s, <3>3 DEF Op
    <3> QED
      BY <1>3, <3>4 DEF OpOf
  <2>2. CASE o.id \notin IdsOf(channels[o.rig])
    BY <1>n, <2>2
  <2> QED
    BY <2>1, <2>2
<1>5. /\ Formed' /\ ops'[t] = new
      /\ \A u \in Threads : u # t => ops'[u] = ops[u]
      /\ \A u \in Threads : u # t => \A i \in Ids : SameDuty(u, i)
  BY <1>1, <1>2, <1>3, <1>4, PhasesStay, OpChange
<1>6. Plain'
  <2>1. strayed' \subseteq Sessions \X {"late", "lost"}
    BY <1>1, <1>3, LateIn, StrayedIn
  <2>2. control' \in [Sessions -> BOOLEAN \cup {None}]
    BY <1>1 DEF Plain
  <2> QED
    BY <1>1, <2>1, <2>2 DEF Plain
<1>7. Lists' /\ OpenStreams'
  BY <1>1, ListsStay, OpenStreamsStay
<1>8. Sending'
  <2>1. \A i \in Ids : SameDuty(t, i)
    BY <1>3, <1>4, <1>5, <1>o DEF SameDuty, Owes
  <2> QED
    BY <1>1, <1>5, <2>1, SendingStays
<1>9. ASSUME NEW u \in Sessions, ~Strayed(u)' PROVE Traced(u)'
  <2>1. Traced(u) /\ (u = s => phase[s] = "live")
    BY <1>1, <1>3, <1>9, LateOnly DEF Tracked
  <2>2. control'[u] = control[u] \/ phase[u] = "live"
    <3>1. CASE u = s
      BY <2>1, <3>1
    <3>2. CASE u # s
      BY <1>1, <3>2 DEF Plain
    <3> QED
      BY <3>1, <3>2
  <2>3. \A r \in Rigs : ~Mapping(t, u, r)
    BY <1>3, <1>o DEF Mapping
  <2>4. ops'[t] # None /\ ops'[t].sid = u => ops[t] # None /\ ops[t].sid = u
    BY <1>3, <1>4, <1>5, <1>o, <1>s
  <2> QED
    BY <1>1, <1>3, <1>5, <2>1, <2>2, <2>3, <2>4, TracedByOp
<1> QED
  BY <1>5, <1>6, <1>7, <1>8, <1>9 DEF Tracked

LEMMA EvictKeeps ==
    ASSUME VirtualChannelsAssumption, ChannelsInd, NEW t \in Threads, Evict(t)
    PROVE  ChannelsInd'
<1> USE DEF ChannelsInd
<1>o. PICK o : o = ops[t]
  OBVIOUS
<1> DEFINE other(s) == smap[s] # None /\ smap[s] # [rig |-> o.rig, id |-> o.id]
           another(s) == smap[s] # None /\ Holds(s)
<1>e. PICK out : out = IF o.kind = "delete" THEN o.evicted ELSE {s \in o.evicted : ~other(s)}
  OBVIOUS
<1>n. PICK new : new = IF o.kind = "delete" THEN [o EXCEPT !.step = "rm"] ELSE None
  OBVIOUS
<1>1. /\ At(t, "evict") /\ smap' = [s \in Sessions |-> IF s \in out THEN None ELSE smap[s]]
      /\ Stray(Lost({s \in out : other(s) \/ another(s)}))
      /\ channels' = channels /\ dial' = dial /\ dsp' = dsp /\ control' = control /\ rigOf' = rigOf
      /\ stream' = stream /\ phase' = phase /\ clients' = clients
      /\ desired' = desired /\ nextId' = nextId /\ requests' = requests
      /\ changes' = changes /\ crossed' = crossed
  BY <1>o, <1>e DEF Evict, env, tab, bounds
<1>2. ops' = [ops EXCEPT ![t] = new]
  BY <1>o, <1>n DEF Evict, Done, Goto
<1>3. /\ o # None /\ o.step = "evict" /\ t \notin Sessions /\ OpOf(t, o)
      /\ o.kind \in {"delete", "destroyed"} /\ o.rig \in Rigs /\ o.id \in Ids /\ o \in Op
      /\ o.kind = "destroyed" => o.owes = {}
  BY <1>1, <1>o, AtOp DEF OpOf
<1>4. /\ new # None => /\ OpOf(t, new) /\ new.sid = o.sid /\ new.owes = o.owes
                       /\ new.kind = o.kind /\ new.freq = o.freq
      /\ o.kind = "delete" => new # None
      /\ o.kind # "delete" => new = None
  <2>1. CASE o.kind = "delete"
    <3>1. new = [o EXCEPT !.step = "rm"]
      BY <1>n, <2>1
    <3>2. /\ new.sid = o.sid /\ new.owes = o.owes /\ new.kind = "delete" /\ new.rig = o.rig
          /\ new.step = "rm" /\ new.id = o.id /\ new \in Op /\ new.freq = o.freq
      BY <1>3, <2>1, <3>1 DEF Op
    <3>3. new # None
      BY <3>2 DEF VirtualChannelsAssumption
    <3> QED
      BY <1>3, <2>1, <3>2, <3>3 DEF OpOf
  <2>2. CASE o.kind # "delete"
    BY <1>n, <2>2
  <2> QED
    BY <2>1, <2>2
<1>5. /\ Formed' /\ ops'[t] = new
      /\ \A u \in Threads : u # t => ops'[u] = ops[u]
      /\ \A u \in Threads : u # t => \A i \in Ids : SameDuty(u, i)
  BY <1>1, <1>2, <1>3, <1>4, PhasesStay, OpChange
<1>6. out \subseteq Sessions
  BY <1>e, <1>3 DEF Op
<1>7. Plain'
  <2>1. strayed' \subseteq Sessions \X {"late", "lost"}
    BY <1>1, <1>6, StrayedIn DEF Lost
  <2>2. smap' \in [Sessions -> Place \cup {None}]
    BY <1>1 DEF Plain
  <2> QED
    BY <1>1, <2>1, <2>2 DEF Plain
<1>8. Lists' /\ OpenStreams'
  BY <1>1, ListsStay, OpenStreamsStay
<1>9. Sending'
  <2>1. \A i \in Ids : SameDuty(t, i)
    <3>1. CASE o.kind = "delete"
      BY <1>3, <1>4, <1>5, <1>o, <3>1 DEF SameDuty, Owes
    <3>2. CASE o.kind # "delete"
      BY <1>3, <1>4, <1>5, <1>o, <3>2 DEF SameDuty, Owes
    <3> QED
      BY <3>1, <3>2
  <2> QED
    BY <1>1, <1>5, <2>1, SendingStays
<1>10. ASSUME NEW u \in Sessions, ~Strayed(u)' PROVE Traced(u)'
  <2>1. Traced(u) /\ <<u, "lost">> \notin Lost({s \in out : other(s) \/ another(s)})
    BY <1>1, <1>10, StrayedGrows DEF Tracked
  <2>2. u \in out => ~other(u) /\ ~another(u)
    BY <2>1 DEF Lost
  <2> HIDE DEF other
  <2>3. u \in out => smap[u] = None \/ ~Holds(u)
    BY <2>2
  <2>4. \A r \in Rigs : ~Mapping(t, u, r)
    BY <1>3, <1>o DEF Mapping
  <2>5. ops'[t] # None /\ ops'[t].sid = u => ops[t] # None /\ ops[t].sid = u
    BY <1>3, <1>4, <1>5, <1>o
  <2>6. CASE u \notin out \/ smap[u] = None
    <3>1. smap'[u] = smap[u]
      BY <1>1, <2>6
    <3> QED
      BY <1>1, <1>3, <1>5, <2>1, <2>4, <2>5, <3>1, TracedByOp
  <2>7. CASE u \in out /\ smap[u] # None
    <3>1. phase[u] = "live" /\ smap'[u] = None /\ phase'[u] = "live"
      BY <1>1, <2>1, <2>7 DEF Traced
    <3>2. \A r \in Rigs : ~HeldIn(channels'[r], u)
      BY <1>1, <2>3, <2>7 DEF Holds, HeldIn
    <3> QED
      BY ONLY <3>1, <3>2 DEF Traced
  <2> QED
    BY <2>6, <2>7
<1> QED
  BY <1>5, <1>7, <1>8, <1>9, <1>10 DEF Tracked

-----------------------------------------------------------------------------
(***************************************************************************)
(* The steps that send commands.                                           *)
(***************************************************************************)
LEMMA NobodyOwes ==
    ASSUME NEW i \in Ids, \A u \in Threads : ~Owes(u, i)', Says(i, dsp[i], TRUE)',
           ~Listed(i)' => dsp'[i] = None
    PROVE  Told(i)'
BY DEF Told

LEMMA OneRemoves ==
    ASSUME NEW i \in Ids, NEW t \in Threads, \A u \in Threads : u # t => ~Owes(u, i)',
           Owes(t, i)', ~Tunes(t)', ~Listed(i)'
    PROVE  Told(i)'
BY DEF Told

LEMMA NotListed == ASSUME NEW i, ~Listed(i) PROVE \A f, heard : Says(i, f, heard)
BY DEF Listed, Says

LEMMA OneTunes ==
    ASSUME NEW i, NEW t \in Threads, \A u \in Threads : u # t => ~Owes(u, i)', Owes(t, i)', Tunes(t)',
           Listed(i)', Says(i, ops[t].freq, ops[t].kind = "alloc" \/ dsp[i] # None)'
    PROVE  Told(i)'
<1>1. \A u \in Threads : Owes(u, i)' => u = t
  OBVIOUS
<1>2. \A u, v \in Threads : Owes(u, i)' /\ Owes(v, i)' => u = v
  BY <1>1
<1>3. \A u \in Threads : Owes(u, i)' /\ Tunes(u)' =>
         Listed(i)' /\ Says(i, ops[u].freq, ops[u].kind = "alloc" \/ dsp[i] # None)'
  BY <1>1
<1>4. \A u \in Threads : Owes(u, i)' /\ ~Tunes(u)' => ~Listed(i)'
  BY <1>1
<1>5. ~ \A u \in Threads : ~Owes(u, i)'
  OBVIOUS
<1> QED
  BY ONLY <1>2, <1>3, <1>4, <1>5 DEF Told

LEMMA SendRemovesKeeps ==
    ASSUME VirtualChannelsAssumption, ChannelsInd, NEW t \in Threads, SendRemoves(t)
    PROVE  ChannelsInd'
<1> USE DEF ChannelsInd
<1>o. PICK o : o = ops[t]
  OBVIOUS
<1>n. PICK new : new = IF o.kind = "delete" THEN None
                       ELSE IF o.kind = "sub" THEN [o EXCEPT !.step = "find", !.owes = {}]
                       ELSE [o EXCEPT !.step = "unreg", !.owes = {}]
  OBVIOUS
<1>1. /\ At(t, "rm") /\ dsp' = [i \in Ids |-> IF i \in o.owes THEN None ELSE dsp[i]]
      /\ channels' = channels /\ dial' = dial /\ smap' = smap /\ control' = control /\ rigOf' = rigOf
      /\ stream' = stream /\ phase' = phase /\ clients' = clients /\ strayed' = strayed
      /\ desired' = desired /\ nextId' = nextId /\ requests' = requests
      /\ changes' = changes /\ crossed' = crossed
  BY <1>o DEF SendRemoves, env, tab, bounds
<1>2. /\ o # None /\ o.step = "rm" /\ OpOf(t, o)
      /\ o.kind \in {"delete", "sub", "drop"} /\ o \in Op
      /\ t \in Sessions <=> o.kind = "drop"
  BY <1>1, <1>o, AtOp DEF OpOf
<1>3. ops' = [ops EXCEPT ![t] = new]
  <2>1. CASE o.kind = "delete"
    BY <1>o, <1>n, <2>1 DEF SendRemoves, Done
  <2>2. CASE o.kind = "sub"
    <3>1. ops' = [ops EXCEPT ![t].step = "find", ![t].owes = {}]
      BY <1>o, <2>2 DEF SendRemoves
    <3> QED
      BY <1>1, <1>o, <1>n, <2>2, <3>1 DEF Formed
  <2>3. CASE o.kind = "drop"
    <3>1. ops' = [ops EXCEPT ![t].step = "unreg", ![t].owes = {}]
      BY <1>o, <2>3 DEF SendRemoves
    <3> QED
      BY <1>1, <1>o, <1>n, <2>3, <3>1 DEF Formed
  <2> QED
    BY <1>2, <2>1, <2>2, <2>3
<1>4. /\ new # None => /\ OpOf(t, new) /\ new.sid = o.sid /\ new.owes = {}
      /\ t \in Sessions => new # None
  <2>1. CASE o.kind = "delete"
    BY <1>2, <1>n, <2>1
  <2>2. CASE o.kind = "sub"
    <3>1. new = [o EXCEPT !.step = "find", !.owes = {}]
      BY <1>n, <2>2
    <3>2. /\ new.sid = o.sid /\ new.owes = {} /\ new.kind = "sub" /\ new.rig = o.rig
          /\ new.step = "find" /\ new.id = o.id /\ new \in Op /\ new.freq = o.freq
      BY <1>2, <2>2, <3>1 DEF Op
    <3> QED
      BY <1>2, <2>2, <3>2 DEF OpOf
  <2>3. CASE o.kind = "drop"
    <3>1. new = [o EXCEPT !.step = "unreg", !.owes = {}]
      BY <1>n, <2>3
    <3>2. /\ new.sid = o.sid /\ new.owes = {} /\ new.kind = "drop" /\ new.rig = o.rig
          /\ new.step = "unreg" /\ new.id = o.id /\ new \in Op /\ new.freq = o.freq
      BY <1>2, <2>3, <3>1 DEF Op
    <3>3. new # None
      BY <3>2 DEF VirtualChannelsAssumption
    <3> QED
      BY <1>2, <2>3, <3>2, <3>3 DEF OpOf
  <2> QED
    BY <1>2, <2>1, <2>2, <2>3
<1>5. /\ Formed' /\ ops'[t] = new
      /\ \A u \in Threads : u # t => ops'[u] = ops[u]
      /\ \A u \in Threads : u # t => \A i \in Ids : SameDuty(u, i)
  <2>1. t \in Sessions => phase'[t] = "gone"
    BY <1>1, <1>2, <1>o DEF Formed
  <2> QED
    BY <1>1, <1>3, <1>4, <2>1, PhasesStay, OpChange
<1>6. Plain'
  BY <1>1 DEF Plain
<1>7. Lists' /\ OpenStreams'
  BY <1>1, ListsStay, OpenStreamsStay
<1>8. \A i \in Ids : ~Owes(t, i)'
  BY <1>4, <1>5 DEF Owes
<1>9. Sending'
  <2>1. ASSUME NEW i \in Ids \ crossed PROVE Told(i)'
    <3>1. Told(i)
      BY DEF Sending
    <3>2. CASE i \in o.owes
      <4>1. Owes(t, i) /\ ~Tunes(t)
        BY <1>2, <1>o, <3>2 DEF Owes, Tunes
      <4>2. ~Listed(i)
        BY <3>1, <4>1 DEF Told
      <4>3. \A u \in Threads : ~Owes(u, i)'
        <5>1. \A u \in Threads : u # t => ~Owes(u, i)
          BY <3>1, <4>1 DEF Told
        <5> QED
          BY <1>5, <1>8, <5>1 DEF SameDuty
      <4>4. ~Listed(i)' /\ dsp'[i] = None
        BY <1>1, <3>2, <4>2 DEF Listed
      <4>5. Says(i, dsp[i], TRUE)'
        BY <4>4 DEF Listed, Says
      <4> QED
        BY <4>3, <4>4, <4>5, NobodyOwes
    <3>3. CASE i \notin o.owes
      <4>1. SameDuty(t, i)
        BY <1>8, <1>o, <3>3 DEF SameDuty, Owes
      <4>2. dsp'[i] = dsp[i] /\ \A u \in Threads : SameDuty(u, i)
        BY <1>1, <1>5, <3>3, <4>1
      <4>3. \A r \in Rigs : Keeps(i, channels[r], channels'[r])
        BY <1>1, KeepsItself
      <4> QED
        BY <3>1, <4>2, <4>3, ToldKept
    <3> QED
      BY <3>2, <3>3
  <2>2. \A u \in Threads : \A i \in Ids : Owes(u, i)' => i < nextId'
    BY <1>1, <1>5, <1>8 DEF Sending, SameDuty
  <2> QED
    BY <1>1, <2>1, <2>2 DEF Sending
<1>10. ASSUME NEW u \in Sessions, ~Strayed(u)' PROVE Traced(u)'
  <2>1. Traced(u)
    BY <1>1, <1>10, StrayedStays DEF Tracked
  <2>2. \A r \in Rigs : ~Mapping(t, u, r)
    BY <1>2, <1>o DEF Mapping
  <2>3. ops'[t] # None /\ ops'[t].sid = u => ops[t] # None /\ ops[t].sid = u
    BY <1>2, <1>4, <1>5, <1>o
  <2>4. t = u => (\A r \in Rigs : Releasing(u, r) => Releasing(u, r)') /\ (ops'[u] = None => ops[u] = None)
    BY <1>2, <1>4, <1>5, <1>o DEF Releasing
  <2> QED
    BY <1>1, <1>5, <2>1, <2>2, <2>3, <2>4, TracedByOp
<1> QED
  BY <1>5, <1>6, <1>7, <1>9, <1>10 DEF Tracked

LEMMA SendTuneKeeps ==
    ASSUME VirtualChannelsAssumption, ChannelsInd, NEW t \in Threads, SendTune(t)
    PROVE  ChannelsInd'
<1> USE DEF ChannelsInd
<1>o. PICK o : o = ops[t]
  OBVIOUS
<1>1. /\ At(t, "send") /\ ops' = [ops EXCEPT ![t] = None]
      /\ dsp' = IF o.kind = "alloc" \/ dsp[o.id] # None THEN [dsp EXCEPT ![o.id] = o.freq] ELSE dsp
      /\ channels' = channels /\ dial' = dial /\ smap' = smap /\ control' = control /\ rigOf' = rigOf
      /\ stream' = stream /\ phase' = phase /\ clients' = clients /\ strayed' = strayed
      /\ desired' = desired /\ nextId' = nextId /\ requests' = requests
      /\ changes' = changes /\ crossed' = crossed
  BY <1>o DEF SendTune, Done, env, tab, bounds
<1>2. /\ o # None /\ o.step = "send" /\ OpOf(t, o) /\ o.kind \in {"set", "alloc"}
      /\ t \notin Sessions /\ o.id \in Ids /\ o.freq \in Freqs /\ o.owes = {o.id}
  BY <1>1, <1>o, AtOp DEF OpOf
<1>3. /\ Formed' /\ ops'[t] = None
      /\ \A u \in Threads : u # t => ops'[u] = ops[u]
      /\ \A u \in Threads : u # t => \A i \in Ids : SameDuty(u, i)
  BY <1>1, <1>2, PhasesStay, OpChange
<1>4. Plain'
  <2>1. dsp' \in [Ids -> Freqs \cup {None}]
    <3>1. CASE o.kind = "alloc" \/ dsp[o.id] # None
      BY <1>1, <1>2, <3>1 DEF Plain
    <3>2. CASE ~(o.kind = "alloc" \/ dsp[o.id] # None)
      BY <1>1, <3>2 DEF Plain
    <3> QED
      BY <3>1, <3>2
  <2> QED
    BY <1>1, <2>1 DEF Plain
<1>5. Lists' /\ OpenStreams'
  BY <1>1, ListsStay, OpenStreamsStay
<1>6. \A i \in Ids : ~Owes(t, i)' /\ (Owes(t, i) <=> i = o.id)
  BY <1>2, <1>3, <1>o DEF Owes
<1>7. Sending'
  <2>1. ASSUME NEW i \in Ids \ crossed PROVE Told(i)'
    <3>1. Told(i)
      BY DEF Sending
    <3>2. CASE i = o.id
      <4>1. Owes(t, i) /\ Tunes(t)
        BY <1>2, <1>6, <1>o, <3>2 DEF Tunes
      <4>2. Listed(i) /\ Says(i, o.freq, o.kind = "alloc" \/ dsp[i] # None)
        BY <1>o, <3>1, <4>1 DEF Told
      <4>3. \A u \in Threads : ~Owes(u, i)'
        <5>1. \A u \in Threads : u # t => ~Owes(u, i)
          BY <3>1, <4>1 DEF Told
        <5> QED
          BY <1>3, <1>6, <5>1 DEF SameDuty
      <4>4. Listed(i)'
        BY <1>1, <4>2 DEF Listed
      <4>5. Says(i, dsp[i], TRUE)'
        <5>1. CASE o.kind = "alloc" \/ dsp[i] # None
          <6>1. dsp'[i] = o.freq
            BY <1>1, <1>2, <3>2, <5>1 DEF Plain
          <6> QED
            BY <1>1, <4>2, <6>1 DEF Says
        <5>2. CASE ~(o.kind = "alloc" \/ dsp[i] # None)
          BY <1>1, <4>2, <5>2 DEF Says
        <5> QED
          BY <5>1, <5>2
      <4> QED
        BY <4>3, <4>4, <4>5, NobodyOwes
    <3>3. CASE i # o.id
      <4>1. SameDuty(t, i)
        BY <1>6, <3>3 DEF SameDuty
      <4>2. dsp'[i] = dsp[i] /\ \A u \in Threads : SameDuty(u, i)
        BY <1>1, <1>3, <3>3, <4>1 DEF Plain
      <4>3. \A r \in Rigs : Keeps(i, channels[r], channels'[r])
        BY <1>1, KeepsItself
      <4> QED
        BY <3>1, <4>2, <4>3, ToldKept
    <3> QED
      BY <3>2, <3>3
  <2>2. \A u \in Threads : \A i \in Ids : Owes(u, i)' => i < nextId'
    BY <1>1, <1>3, <1>6 DEF Sending, SameDuty
  <2> QED
    BY <1>1, <2>1, <2>2 DEF Sending
<1>8. ASSUME NEW u \in Sessions, ~Strayed(u)' PROVE Traced(u)'
  <2>1. Traced(u)
    BY <1>1, <1>8, StrayedStays DEF Tracked
  <2>2. \A r \in Rigs : ~Mapping(t, u, r)
    BY <1>2, <1>o DEF Mapping
  <2> QED
    BY <1>1, <1>2, <1>3, <2>1, <2>2, TracedByOp
<1> QED
  BY <1>3, <1>4, <1>5, <1>7, <1>8 DEF Tracked

-----------------------------------------------------------------------------
(***************************************************************************)
(* The steps that change a list.                                           *)
(***************************************************************************)
LEMMA CrossMeans ==
    ASSUME NEW ids, Cross(ids), Formed, Plain
    PROVE  /\ crossed' \subseteq Ids /\ crossed \subseteq crossed'
           /\ \A i \in ids : i \notin crossed' => \A u \in Threads : ~Owes(u, i)
<1>1. \A u \in Threads : ops[u] # None => ops[u].owes \subseteq Ids
  BY DEF Formed, Op
<1>2. Owed \subseteq Ids /\ \A u \in Threads : \A i \in ids : Owes(u, i) => i \in Owed
  BY <1>1 DEF Owed, Owes
<1> QED
  BY <1>2 DEF Cross, Plain

LEMMA HeldStays ==
    ASSUME NEW r \in Rigs, \A q \in Rigs : q # r => channels'[q] = channels[q],
           NEW u, HeldIn(channels'[r], u) => HeldIn(channels[r], u)
    PROVE  \A q \in Rigs : HeldIn(channels'[q], u) => HeldIn(channels[q], u)
<1> SUFFICES ASSUME NEW q \in Rigs, HeldIn(channels'[q], u) PROVE HeldIn(channels[q], u)
  OBVIOUS
<1>1. CASE q = r
  BY <1>1
<1>2. CASE q # r
  BY <1>2
<1> QED
  BY <1>1, <1>2

LEMMA Beginning ==
    ASSUME NEW t \in Threads, Formed, NEW kind, NEW step, NEW s, NEW r, NEW id, NEW f,
           NEW owes, NEW evicted, Begin(t, kind, step, s, r, id, f, owes, evicted),
           kind \in {"alloc", "sub", "drop", "delete", "destroyed", "set"},
           step \in {"map", "send", "rm", "find", "own", "tune", "evict", "release", "unreg"},
           s \in Sessions \cup {None}, r \in Rigs \cup {None}, id \in Ids \cup {None},
           f \in Freqs \cup {None}, owes \in SUBSET Ids, evicted \in SUBSET Sessions,
           VirtualChannelsAssumption
    PROVE  \E new \in Op :
              /\ ops' = [ops EXCEPT ![t] = new] /\ new # None
              /\ new.kind = kind /\ new.step = step /\ new.sid = s /\ new.rig = r /\ new.id = id
              /\ new.freq = f /\ new.owes = owes /\ new.evicted = evicted
<1> DEFINE new == [kind |-> kind, step |-> step, sid |-> s, rig |-> r, id |-> id,
                   freq |-> f, owes |-> owes, evicted |-> evicted]
<1>1. new \in Op
  BY DEF Op
<1>2. new # None
  BY <1>1 DEF VirtualChannelsAssumption
<1>3. ops' = [ops EXCEPT ![t] = new]
  BY DEF Begin
<1> QED
  BY <1>1, <1>2, <1>3

LEMMA FindKeeps ==
    ASSUME VirtualChannelsAssumption, ChannelsInd, NEW t \in Threads, Find(t)
    PROVE  ChannelsInd'
<1> USE DEF ChannelsInd
<1>o. PICK o : o = ops[t]
  OBVIOUS
<1>s. PICK s : s = o.sid
  OBVIOUS
<1>l. PICK list : list = channels[o.rig]
  OBVIOUS
<1>c. PICK ch : ch = [Entry(list, o.id) EXCEPT !.sids = @ \cup {s}]
  OBVIOUS
<1>n. PICK new : new = IF o.id \in IdsOf(list) THEN [o EXCEPT !.step = "map"] ELSE None
  OBVIOUS
<1>1. /\ At(t, "find")
      /\ dsp' = dsp /\ dial' = dial /\ smap' = smap /\ control' = control /\ rigOf' = rigOf
      /\ stream' = stream /\ phase' = phase /\ clients' = clients
      /\ desired' = desired /\ nextId' = nextId /\ requests' = requests
      /\ changes' = changes /\ crossed' = crossed
  BY DEF Find, env, tab, bounds
<1>2. /\ o # None /\ o.step = "find" /\ OpOf(t, o) /\ o.kind = "sub" /\ o.owes = {}
      /\ t \notin Sessions /\ o.id \in Ids /\ s \in Sessions /\ o.rig \in Rigs /\ o \in Op
  BY <1>1, <1>o, <1>s, AtOp DEF OpOf
<1>3. ops' = [ops EXCEPT ![t] = new]
  BY <1>o, <1>l, <1>n DEF Find, Goto, Done
<1>4. new # None => /\ OpOf(t, new) /\ new.sid = s /\ new.owes = {} /\ new.rig = o.rig
                    /\ new.step = "map"
  <2>1. CASE o.id \in IdsOf(list)
    <3>1. new = [o EXCEPT !.step = "map"]
      BY <1>n, <2>1
    <3>2. /\ new.sid = s /\ new.owes = {} /\ new.kind = "sub" /\ new.rig = o.rig
          /\ new.step = "map" /\ new.id = o.id /\ new \in Op /\ new.freq = o.freq
      BY <1>2, <1>s, <3>1 DEF Op
    <3> QED
      BY <1>2, <3>2 DEF OpOf
  <2>2. CASE o.id \notin IdsOf(list)
    BY <1>n, <2>2
  <2> QED
    BY <2>1, <2>2
<1>5. /\ Formed' /\ ops'[t] = new
      /\ \A u \in Threads : u # t => ops'[u] = ops[u]
      /\ \A u \in Threads : u # t => \A i \in Ids : SameDuty(u, i)
  BY <1>1, <1>2, <1>3, <1>4, PhasesStay, OpChange
<1>6. OpenStreams'
  BY <1>1, OpenStreamsStay
<1>7. \A i \in Ids : SameDuty(t, i)
  BY <1>2, <1>4, <1>5, <1>o DEF SameDuty, Owes
<1>8. \A r \in Rigs : ~Mapping(t, s, r)
  BY <1>2, <1>o DEF Mapping
<1>9. \A u \in Sessions : ops'[t] # None /\ ops'[t].sid = u => ops[t] # None /\ ops[t].sid = u
  BY <1>2, <1>4, <1>5, <1>o, <1>s
<1>10. \A u \in Sessions, r \in Rigs : ~Mapping(t, u, r)
  BY <1>2, <1>o DEF Mapping
<1>11. CASE o.id \notin IdsOf(list)
  <2>1. channels' = channels /\ strayed' = strayed
    BY <1>11, <1>o, <1>l DEF Find
  <2>2. Plain' /\ Lists' /\ Sending'
    BY <1>1, <1>5, <1>7, <2>1, ListsStay, SendingStays DEF Plain
  <2>3. ASSUME NEW u \in Sessions, ~Strayed(u)' PROVE Traced(u)'
    <3>1. Traced(u)
      BY <2>1, <2>3, StrayedStays DEF Tracked
    <3> QED
      BY <1>1, <1>2, <1>5, <1>9, <1>10, <2>1, <3>1, TracedByOp
  <2> QED
    BY <1>5, <1>6, <2>2, <2>3 DEF Tracked
<1>12. CASE o.id \in IdsOf(list)
  <2>1. channels' = [channels EXCEPT ![o.rig] = Edit(list, o.id, ch)] /\ Stray(Late(s))
    BY <1>12, <1>o, <1>l, <1>c, <1>s DEF Find
  <2>2. /\ Tidy(list) /\ Owned(list) /\ Len(list) <= MaxChannels
    BY <1>2, <1>l DEF Lists
  <2>3. Entry(list, o.id) \in Channel /\ Entry(list, o.id).id = o.id /\ Entry(list, o.id) \in ToSet(list)
    BY <1>12, <2>2, Members
  <2>4. /\ ch \in Channel /\ ch.id = o.id /\ ch.freq = Entry(list, o.id).freq
        /\ ch.sids = Entry(list, o.id).sids \cup {s}
    BY <1>2, <1>c, <2>3 DEF Channel
  <2>5. ch.permanent = Entry(list, o.id).permanent /\ s \in ch.sids
    BY <1>2, <1>c, <2>3 DEF Channel
  <2>6. PICK edited : edited = Edit(list, o.id, ch)
    OBVIOUS
  <2>7. /\ Tidy(edited) /\ Len(edited) = Len(list) /\ IdsOf(edited) = IdsOf(list)
        /\ \A i : First(list, i) <=> First(edited, i)
        /\ ToSet(edited) \subseteq ToSet(list) \cup {ch}
        /\ Entry(edited, o.id) = ch
        /\ \A i \in IdsOf(list) : i # o.id => Entry(edited, i) = Entry(list, i)
    BY <1>12, <2>2, <2>4, <2>5, <2>6, EditedList
  <2>8. Owned(edited)
    <3>1. ~Orphan(ch)
      BY <2>5 DEF Orphan
    <3> QED
      BY <2>2, <2>7, <3>1 DEF Owned
  <2>9. nextId \in Nat
    BY DEF Plain
  <2>10. /\ Lists' /\ channels'[o.rig] = edited
         /\ \A q \in Rigs : q # o.rig => channels'[q] = channels[q]
    <3>1. Len(edited) <= MaxChannels
      BY <2>2, <2>7
    <3>2. \A i \in IdsOf(edited) : i \in IdsOf(channels[o.rig])
      BY <1>l, <2>7
    <3>3. channels' = [channels EXCEPT ![o.rig] = edited] /\ nextId' = nextId /\ o.rig \in Rigs
      BY <1>1, <1>2, <2>1, <2>6
    <3> QED
      BY ONLY Lists, <2>7, <2>8, <2>9, <3>1, <3>2, <3>3, ListEdit
  <2>11. \A i \in Ids : \A q \in Rigs : Keeps(i, channels[q], channels'[q])
    <3>1. \A i : Keeps(i, list, edited)
      BY <2>4, <2>7 DEF Keeps
    <3> QED
      BY <1>2, <1>l, <2>10, <3>1, OtherRigs
  <2>12. Sending'
    <3>1. ASSUME NEW i \in Ids \ crossed PROVE Told(i)'
      BY <1>1, <1>5, <1>7, <2>11, ToldKept DEF Sending
    <3> QED
      BY <1>1, <1>5, <1>7, <3>1 DEF Sending, SameDuty
  <2>13. Plain'
    <3>1. strayed' \subseteq Sessions \X {"late", "lost"}
      BY <1>2, <2>1, LateIn, StrayedIn
    <3> QED
      BY <1>1, <3>1 DEF Plain
  <2>14. ASSUME NEW u \in Sessions, ~Strayed(u)' PROVE Traced(u)'
    <3>1. Traced(u) /\ (u = s => phase[s] = "live")
      BY <1>2, <2>1, <2>14, LateOnly DEF Tracked
    <3>2. CASE u # s
      <4>1. HeldIn(edited, u) => HeldIn(list, u)
        BY <2>3, <2>4, <2>7, <3>2 DEF HeldIn
      <4>2. \A q \in Rigs : HeldIn(channels'[q], u) => HeldIn(channels[q], u)
        BY <1>2, <1>l, <2>10, <4>1, HeldStays
      <4> QED
        BY <1>1, <1>2, <1>5, <1>9, <1>10, <3>1, <4>2, TracedByOp
    <3>3. CASE u = s
      <4>1. new # None /\ ops'[t] = new
        BY <1>2, <1>5, <1>n, <1>12 DEF OpOf, Op, VirtualChannelsAssumption
      <4>2. Mapping(t, s, o.rig)' /\ t \in Workers
        BY <1>2, <1>4, <4>1 DEF Mapping, Threads
      <4>3. ASSUME NEW r \in Rigs, HeldIn(channels'[r], s)
            PROVE  \/ smap'[s] # None /\ smap'[s].rig = r
                   \/ \E v \in Workers : Mapping(v, s, r)'
                   \/ Releasing(s, r)'
        <5>1. CASE r = o.rig
          BY <4>2, <5>1
        <5>2. CASE r # o.rig
          <6>1. HeldIn(channels[r], s)
            BY <2>10, <4>3, <5>2
          <6>2. \/ smap[s] # None /\ smap[s].rig = r
                \/ \E v \in Workers : Mapping(v, s, r)
                \/ Releasing(s, r)
            BY <3>1, <3>3, <6>1 DEF Traced
          <6>3. s \in Threads /\ s # t /\ \A v \in Workers : v \in Threads
            BY <1>2 DEF Threads
          <6>4. CASE \E v \in Workers : Mapping(v, s, r)
            <7>1. PICK v \in Workers : Mapping(v, s, r)
              BY <6>4
            <7>2. v # t
              BY <1>8, <7>1
            <7> QED
              BY <1>5, <6>3, <7>1, <7>2 DEF Mapping
          <6>5. CASE Releasing(s, r)
            BY <1>5, <6>3, <6>5 DEF Releasing
          <6> QED
            BY <1>1, <6>2, <6>4, <6>5
        <5> QED
          BY <5>1, <5>2
      <4>4. phase'[s] = "live"
        BY <1>1, <3>1, <3>3
      <4>5. Traced(s)'
        BY ONLY <4>3, <4>4 DEF Traced
      <4> QED
        BY ONLY <3>3, <4>5
    <3> QED
      BY <3>2, <3>3
  <2> QED
    BY <1>5, <1>6, <2>10, <2>12, <2>13, <2>14 DEF Tracked
<1> QED
  BY <1>11, <1>12

\* Channels leave the list of a rig, and a thread begins or goes on to send their
\* removal: nobody else can tell the server about them but across.
LEMMA RemovedTold ==
    ASSUME Lists, Formed, Plain, Sending, NEW r \in Rigs, NEW gone \in SUBSET IdsOf(channels[r]),
           NEW t \in Threads, Cross(gone), dsp' = dsp, nextId' = nextId,
           \A q \in Rigs : q # r => channels'[q] = channels[q],
           IdsOf(channels'[r]) = IdsOf(channels[r]) \ gone,
           \A i : i \notin gone => Keeps(i, channels[r], channels'[r]),
           \A u \in Threads : u # t => \A i \in Ids : SameDuty(u, i),
           \A i \in Ids : ~Owes(t, i) /\ (Owes(t, i)' <=> i \in gone) /\ (i \in gone => ~Tunes(t)')
    PROVE  Sending' /\ crossed' \subseteq Ids
<1>1. /\ crossed' \subseteq Ids /\ crossed \subseteq crossed'
      /\ \A i \in gone : i \notin crossed' => \A u \in Threads : ~Owes(u, i)
  BY CrossMeans
<1>2. ASSUME NEW i \in Ids \ crossed' PROVE Told(i)'
  <2>1. CASE i \in gone
    <3>1. \A u \in Threads : u # t => ~Owes(u, i)'
      BY <1>1, <1>2, <2>1 DEF SameDuty
    <3>2. ~Listed(i)'
      <4>1. \A q \in Rigs : i \notin IdsOf(channels'[q])
        BY <2>1, OneRig
      <4> QED
        BY <4>1 DEF Listed
    <3> QED
      BY <2>1, <3>1, <3>2, OneRemoves
  <2>2. CASE i \notin gone
    <3>1. SameDuty(t, i)
      BY <2>2 DEF SameDuty
    <3>2. \A q \in Rigs : Keeps(i, channels[q], channels'[q])
      BY <2>2, OtherRigs
    <3>3. Told(i)
      BY <1>1 DEF Sending
    <3> QED
      BY <3>1, <3>2, <3>3, ToldKept
  <2> QED
    BY <2>1, <2>2
<1>3. ASSUME NEW u \in Threads, NEW i \in Ids, Owes(u, i)' PROVE i < nextId'
  <2>1. CASE u = t
    BY <1>3, <2>1 DEF Lists
  <2>2. CASE u # t
    BY <1>3, <2>2 DEF Sending, SameDuty
  <2> QED
    BY <2>1, <2>2
<1> QED
  BY <1>1, <1>2, <1>3 DEF Sending

LEMMA DeleteKeeps ==
    ASSUME VirtualChannelsAssumption, ChannelsInd, NEW t \in Workers, NEW r \in Rigs, NEW id \in Ids,
           Delete(t, r, id)
    PROVE  ChannelsInd'
<1> USE DEF ChannelsInd
<1>c. PICK c : c = Entry(channels[r], id)
  OBVIOUS
<1>l. PICK list : list = Without(channels[r], {id})
  OBVIOUS
<1>1. /\ ops[t] = None /\ requests > 0 /\ requests' = requests - 1 /\ nextId' = nextId
      /\ changes' = changes /\ id \in IdsOf(channels[r])
      /\ channels' = [channels EXCEPT ![r] = list]
      /\ Begin(t, "delete", "evict", None, r, id, None, {id}, c.sids) /\ Cross({id})
      /\ dsp' = dsp /\ dial' = dial /\ smap' = smap /\ control' = control /\ rigOf' = rigOf
      /\ stream' = stream /\ phase' = phase /\ clients' = clients
      /\ desired' = desired /\ strayed' = strayed
  BY <1>c, <1>l DEF Delete, Idle, Requested, env, tab
<1>2. t \in Threads /\ t \notin Sessions
  BY DEF Threads, VirtualChannelsAssumption
<1>3. c.sids \in SUBSET Sessions
  <2>1. c \in Channel
    BY <1>1, <1>c, Members DEF Lists
  <2> QED
    BY <2>1 DEF Channel
<1>4. PICK new \in Op :
         /\ ops' = [ops EXCEPT ![t] = new] /\ new # None
         /\ new.kind = "delete" /\ new.step = "evict" /\ new.sid = None /\ new.rig = r /\ new.id = id
         /\ new.freq = None /\ new.owes = {id} /\ new.evicted = c.sids
  BY <1>1, <1>2, <1>3, Beginning
<1>5. /\ Formed' /\ ops'[t] = new
      /\ \A u \in Threads : u # t => ops'[u] = ops[u]
      /\ \A u \in Threads : u # t => \A i \in Ids : SameDuty(u, i)
  <2>1. OpOf(t, new)
    BY <1>2, <1>4 DEF OpOf
  <2> QED
    BY <1>1, <1>2, <1>4, <2>1, PhasesStay, OpChange
<1>6. /\ Tidy(list) /\ Len(list) <= Len(channels[r]) /\ IdsOf(list) = IdsOf(channels[r]) \ {id}
      /\ Owned(list)
      /\ \A s : HeldIn(list, s) => HeldIn(channels[r], s)
      /\ \A i : i # id => Keeps(i, channels[r], list)
  BY <1>1, <1>l, DeletedList DEF Lists
<1>7. /\ Lists' /\ channels'[r] = list
      /\ \A q \in Rigs : q # r => channels'[q] = channels[q]
  <2>1. Len(list) <= MaxChannels
    <3>1. /\ Len(list) \in Nat /\ Len(channels[r]) \in Nat /\ MaxChannels \in Nat
          /\ Len(channels[r]) <= MaxChannels
      BY <1>6, ListDomain DEF Tidy, Lists, VirtualChannelsAssumption
    <3> QED
      BY <1>6, <3>1
  <2>2. nextId \in Nat
    BY DEF Plain
  <2> QED
    BY <1>1, <1>6, <2>1, <2>2, ListEdit
<1>8. Sending' /\ crossed' \subseteq Ids
  <2>1. \A i \in Ids : ~Owes(t, i) /\ (Owes(t, i)' <=> i \in {id}) /\ (i \in {id} => ~Tunes(t)')
    BY <1>1, <1>4, <1>5 DEF Owes, Tunes
  <2>2. {id} \in SUBSET IdsOf(channels[r])
    BY <1>1
  <2>3. \A i : i \notin {id} => Keeps(i, channels[r], channels'[r])
    BY <1>6, <1>7
  <2> QED
    BY <1>1, <1>2, <1>5, <1>6, <1>7, <2>1, <2>2, <2>3, RemovedTold
<1>9. Plain' /\ OpenStreams'
  <2>1. <<requests', changes'>> \in Nat \X Nat
    BY <1>1 DEF Plain
  <2>2. Plain'
    BY <1>1, <1>8, <2>1 DEF Plain
  <2> QED
    BY <1>1, <2>2, OpenStreamsStay
<1>10. ASSUME NEW u \in Sessions, ~Strayed(u)' PROVE Traced(u)'
  <2>1. Traced(u)
    BY <1>1, <1>10, StrayedStays DEF Tracked
  <2>2. \A q \in Rigs : HeldIn(channels'[q], u) => HeldIn(channels[q], u)
    BY <1>6, <1>7, HeldStays
  <2>3. \A q \in Rigs : ~Mapping(t, u, q)
    BY <1>1 DEF Mapping
  <2>4. ops'[t].sid # u
    BY <1>4, <1>5 DEF VirtualChannelsAssumption
  <2> QED
    BY <1>1, <1>2, <1>5, <2>1, <2>2, <2>3, <2>4, TracedByOp
<1> QED
  BY <1>5, <1>7, <1>8, <1>9, <1>10 DEF Tracked

LEMMA DestroyedKeeps ==
    ASSUME VirtualChannelsAssumption, ChannelsInd, NEW t \in Workers, NEW r \in Rigs, NEW id \in Ids,
           Destroyed(t, r, id)
    PROVE  ChannelsInd'
<1> USE DEF ChannelsInd
<1>c. PICK c : c = Entry(channels[r], id)
  OBVIOUS
<1>l. PICK list : list = Without(channels[r], {id})
  OBVIOUS
<1>1. /\ ops[t] = None /\ requests > 0 /\ requests' = requests - 1 /\ nextId' = nextId
      /\ changes' = changes /\ id \in IdsOf(channels[r])
      /\ channels' = [channels EXCEPT ![r] = list] /\ dsp' = [dsp EXCEPT ![id] = None]
      /\ Begin(t, "destroyed", "evict", None, r, id, None, {}, c.sids) /\ Cross({id})
      /\ dial' = dial /\ smap' = smap /\ control' = control /\ rigOf' = rigOf
      /\ stream' = stream /\ phase' = phase /\ clients' = clients
      /\ desired' = desired /\ strayed' = strayed
  BY <1>c, <1>l DEF Destroyed, Idle, Requested, env, tab
<1>2. t \in Threads /\ t \notin Sessions
  BY DEF Threads, VirtualChannelsAssumption
<1>3. c.sids \in SUBSET Sessions
  <2>1. c \in Channel
    BY <1>1, <1>c, Members DEF Lists
  <2> QED
    BY <2>1 DEF Channel
<1>4. PICK new \in Op :
         /\ ops' = [ops EXCEPT ![t] = new] /\ new # None
         /\ new.kind = "destroyed" /\ new.step = "evict" /\ new.sid = None /\ new.rig = r
         /\ new.id = id /\ new.freq = None /\ new.owes = {} /\ new.evicted = c.sids
  BY <1>1, <1>2, <1>3, Beginning
<1>5. /\ Formed' /\ ops'[t] = new
      /\ \A u \in Threads : u # t => ops'[u] = ops[u]
      /\ \A u \in Threads : u # t => \A i \in Ids : SameDuty(u, i)
  <2>1. OpOf(t, new)
    BY <1>2, <1>4 DEF OpOf
  <2> QED
    BY <1>1, <1>2, <1>4, <2>1, PhasesStay, OpChange
<1>6. /\ Tidy(list) /\ Len(list) <= Len(channels[r]) /\ IdsOf(list) = IdsOf(channels[r]) \ {id}
      /\ Owned(list)
      /\ \A s : HeldIn(list, s) => HeldIn(channels[r], s)
      /\ \A i : i # id => Keeps(i, channels[r], list)
  BY <1>1, <1>l, DeletedList DEF Lists
<1>7. /\ Lists' /\ channels'[r] = list
      /\ \A q \in Rigs : q # r => channels'[q] = channels[q]
  <2>1. Len(list) <= MaxChannels
    <3>1. /\ Len(list) \in Nat /\ Len(channels[r]) \in Nat /\ MaxChannels \in Nat
          /\ Len(channels[r]) <= MaxChannels
      BY <1>6, ListDomain DEF Tidy, Lists, VirtualChannelsAssumption
    <3> QED
      BY <1>6, <3>1
  <2>2. nextId \in Nat
    BY DEF Plain
  <2> QED
    BY <1>1, <1>6, <2>1, <2>2, ListEdit
<1>8. /\ crossed' \subseteq Ids /\ crossed \subseteq crossed'
      /\ id \notin crossed' => \A u \in Threads : ~Owes(u, id)
  BY <1>1, CrossMeans
<1>9. \A u \in Threads : \A i \in Ids : SameDuty(u, i)
  <2>1. \A i \in Ids : SameDuty(t, i)
    BY <1>1, <1>4, <1>5 DEF SameDuty, Owes
  <2> QED
    BY <1>5, <2>1
<1>10. Sending'
  <2>1. ASSUME NEW i \in Ids \ crossed' PROVE Told(i)'
    <3>1. CASE i = id
      <4>1. ~Listed(i)'
        <5>1. \A q \in Rigs : i \notin IdsOf(channels'[q])
          BY <1>1, <1>6, <1>7, <3>1, OneRig
        <5> QED
          BY <5>1 DEF Listed
      <4>2. Says(i, dsp[i], TRUE)'
        BY <4>1 DEF Listed, Says
      <4>3. \A u \in Threads : ~Owes(u, i)'
        BY <1>8, <1>9, <2>1, <3>1 DEF SameDuty
      <4>4. dsp'[i] = None
        BY <1>1, <3>1 DEF Plain
      <4> QED
        BY <4>1, <4>2, <4>3, <4>4, NobodyOwes
    <3>2. CASE i # id
      <4>1. dsp'[i] = dsp[i]
        BY <1>1, <3>2 DEF Plain
      <4>2. \A q \in Rigs : Keeps(i, channels[q], channels'[q])
        BY <1>6, <1>7, <3>2, OtherRigs
      <4>3. Told(i)
        BY <1>8 DEF Sending
      <4> QED
        BY <1>9, <4>1, <4>2, <4>3, ToldKept
    <3> QED
      BY <3>1, <3>2
  <2> QED
    BY <1>1, <1>9, <2>1 DEF Sending, SameDuty
<1>11. Plain' /\ OpenStreams'
  <2>1. <<requests', changes'>> \in Nat \X Nat
    BY <1>1 DEF Plain
  <2>2. dsp' \in [Ids -> Freqs \cup {None}]
    BY <1>1 DEF Plain
  <2>3. Plain'
    BY <1>1, <1>8, <2>1, <2>2 DEF Plain
  <2> QED
    BY <1>1, <2>3, OpenStreamsStay
<1>12. ASSUME NEW u \in Sessions, ~Strayed(u)' PROVE Traced(u)'
  <2>1. Traced(u)
    BY <1>1, <1>12, StrayedStays DEF Tracked
  <2>2. \A q \in Rigs : HeldIn(channels'[q], u) => HeldIn(channels[q], u)
    BY <1>6, <1>7, HeldStays
  <2>3. \A q \in Rigs : ~Mapping(t, u, q)
    BY <1>1 DEF Mapping
  <2>4. ops'[t].sid # u
    BY <1>4, <1>5 DEF VirtualChannelsAssumption
  <2> QED
    BY <1>1, <1>2, <1>5, <2>1, <2>2, <2>3, <2>4, TracedByOp
<1> QED
  BY <1>5, <1>7, <1>10, <1>11, <1>12 DEF Tracked

LEMMA SetChannelKeeps ==
    ASSUME VirtualChannelsAssumption, ChannelsInd, NEW t \in Workers, NEW r \in Rigs, NEW id \in Ids,
           NEW f \in Freqs, SetChannel(t, r, id, f)
    PROVE  ChannelsInd'
<1> USE DEF ChannelsInd
<1>c. PICK c : c = Entry(channels[r], id)
  OBVIOUS
<1>h. PICK ch : ch = [c EXCEPT !.freq = f]
  OBVIOUS
<1>l. PICK list : list = Edit(channels[r], id, ch)
  OBVIOUS
<1>1. /\ ops[t] = None /\ requests > 0 /\ requests' = requests - 1 /\ nextId' = nextId
      /\ changes' = changes /\ id \in IdsOf(channels[r])
      /\ channels' = [channels EXCEPT ![r] = list]
      /\ Begin(t, "set", "send", None, r, id, f, {id}, {}) /\ Cross({id})
      /\ dsp' = dsp /\ dial' = dial /\ smap' = smap /\ control' = control /\ rigOf' = rigOf
      /\ stream' = stream /\ phase' = phase /\ clients' = clients
      /\ desired' = desired /\ strayed' = strayed
  BY <1>c, <1>h, <1>l DEF SetChannel, Idle, Requested, env, tab
<1>2. t \in Threads /\ t \notin Sessions
  BY DEF Threads, VirtualChannelsAssumption
<1>3. c \in Channel /\ c.id = id /\ c \in ToSet(channels[r]) /\ Tidy(channels[r])
  BY <1>1, <1>c, Members DEF Lists
<1>4. PICK new \in Op :
         /\ ops' = [ops EXCEPT ![t] = new] /\ new # None
         /\ new.kind = "set" /\ new.step = "send" /\ new.sid = None /\ new.rig = r /\ new.id = id
         /\ new.freq = f /\ new.owes = {id} /\ new.evicted = {}
  BY <1>1, <1>2, Beginning
<1>5. /\ Formed' /\ ops'[t] = new
      /\ \A u \in Threads : u # t => ops'[u] = ops[u]
      /\ \A u \in Threads : u # t => \A i \in Ids : SameDuty(u, i)
  <2>1. OpOf(t, new)
    BY <1>2, <1>4 DEF OpOf
  <2> QED
    BY <1>1, <1>2, <1>4, <2>1, PhasesStay, OpChange
<1>6. /\ ch \in Channel /\ ch.id = id /\ ch.freq = f /\ ch.sids = c.sids /\ ch.bm = c.bm
  BY <1>3, <1>h DEF Channel
<1>7. ch.permanent = c.permanent
  BY <1>3, <1>h DEF Channel
<1>8. /\ Tidy(list) /\ Len(list) = Len(channels[r]) /\ IdsOf(list) = IdsOf(channels[r])
      /\ \A i : First(channels[r], i) <=> First(list, i)
      /\ ToSet(list) \subseteq ToSet(channels[r]) \cup {ch}
      /\ Entry(list, id) = ch
      /\ \A i \in IdsOf(channels[r]) : i # id => Entry(list, i) = Entry(channels[r], i)
  BY <1>1, <1>3, <1>6, <1>7, <1>c, <1>l, EditedList
<1>9. Owned(list)
  <2>1. ~Orphan(c)
    BY <1>3 DEF Lists, Owned
  <2>2. ~Orphan(ch)
    BY <1>6, <1>7, <2>1, Zenon DEF Orphan
  <2> QED
    BY <1>8, <2>2 DEF Owned, Lists
<1>10. /\ Lists' /\ channels'[r] = list
       /\ \A q \in Rigs : q # r => channels'[q] = channels[q]
  <2>1. Len(list) <= MaxChannels /\ nextId \in Nat
    BY <1>8 DEF Lists, Plain
  <2> QED
    BY <1>1, <1>8, <1>9, <2>1, ListEdit
<1>11. /\ crossed' \subseteq Ids /\ crossed \subseteq crossed'
       /\ id \notin crossed' => \A u \in Threads : ~Owes(u, id)
  BY <1>1, CrossMeans
<1>12. \A i \in Ids : ~Owes(t, i) /\ (Owes(t, i)' <=> i = id)
  BY <1>1, <1>4, <1>5 DEF Owes
<1>13. Sending'
  <2>1. ASSUME NEW i \in Ids \ crossed' PROVE Told(i)'
    <3>1. Told(i)
      BY <1>11 DEF Sending
    <3>2. CASE i = id
      <4>1. \A u \in Threads : u # t => ~Owes(u, i)'
        BY <1>5, <1>11, <2>1, <3>2 DEF SameDuty
      <4>2. Says(i, dsp[i], TRUE)
        BY <1>11, <2>1, <3>1, <3>2 DEF Told
      <4>3. Listed(i)'
        BY <1>1, <1>8, <1>10, <3>2 DEF Listed
      <4>4. \A q \in Rigs : q # r => i \notin IdsOf(channels'[q])
        BY <1>1, <1>10, <3>2, OneRig
      <4>5. First(channels[r], i) \/ dsp[i] = c.freq
        BY <1>1, <1>c, <3>2, <4>2 DEF Says
      <4>6. First(channels'[r], i) \/ dsp'[i] # None
        <5>1. c.freq # None
          BY <1>3 DEF Channel, VirtualChannelsAssumption
        <5> QED
          BY <1>1, <1>8, <1>10, <4>5, <5>1
      <4>7. Entry(channels'[r], i).freq = f
        BY <1>6, <1>8, <1>10, <3>2
      <4>8. Says(i, ops[t].freq, ops[t].kind = "alloc" \/ dsp[i] # None)'
        BY <1>4, <1>5, <4>4, <4>6, <4>7 DEF Says
      <4>9. Tunes(t)'
        BY <1>4, <1>5 DEF Tunes
      <4>10. Owes(t, i)'
        BY <1>12, <3>2
      <4> QED
        BY <1>2, <4>1, <4>3, <4>8, <4>9, <4>10, OneTunes
    <3>3. CASE i # id
      <4>1. \A u \in Threads : SameDuty(u, i)
        BY <1>5, <1>12, <3>3 DEF SameDuty
      <4>2. Keeps(i, channels[r], channels'[r])
        BY <1>8, <1>10, <3>3 DEF Keeps
      <4>3. \A q \in Rigs : Keeps(i, channels[q], channels'[q])
        BY <1>10, <4>2, OtherRigs
      <4> QED
        BY <1>1, <3>1, <4>1, <4>3, ToldKept
    <3> QED
      BY <3>2, <3>3
  <2>2. ASSUME NEW u \in Threads, NEW i \in Ids, Owes(u, i)' PROVE i < nextId'
    <3>1. CASE u = t
      BY <1>1, <1>12, <2>2, <3>1 DEF Lists
    <3>2. CASE u # t
      BY <1>1, <1>5, <2>2, <3>2 DEF Sending, SameDuty
    <3> QED
      BY <3>1, <3>2
  <2> QED
    BY <2>1, <2>2 DEF Sending
<1>14. Plain' /\ OpenStreams'
  <2>1. <<requests', changes'>> \in Nat \X Nat
    BY <1>1 DEF Plain
  <2>2. Plain'
    BY <1>1, <1>11, <2>1 DEF Plain
  <2> QED
    BY <1>1, <2>2, OpenStreamsStay
<1>15. ASSUME NEW u \in Sessions, ~Strayed(u)' PROVE Traced(u)'
  <2>1. Traced(u)
    BY <1>1, <1>15, StrayedStays DEF Tracked
  <2>2. HeldIn(list, u) => HeldIn(channels[r], u)
    BY <1>3, <1>6, <1>8 DEF HeldIn
  <2>3. \A q \in Rigs : HeldIn(channels'[q], u) => HeldIn(channels[q], u)
    BY <1>10, <2>2, HeldStays
  <2>4. \A q \in Rigs : ~Mapping(t, u, q)
    BY <1>1 DEF Mapping
  <2>5. ops'[t].sid # u
    BY <1>4, <1>5 DEF VirtualChannelsAssumption
  <2> QED
    BY <1>1, <1>2, <1>5, <2>1, <2>3, <2>4, <2>5, TracedByOp
<1> QED
  BY <1>5, <1>10, <1>13, <1>14, <1>15 DEF Tracked

LEMMA AllocateKeeps ==
    ASSUME VirtualChannelsAssumption, ChannelsInd, NEW t \in Workers, NEW s \in Sessions,
           NEW r \in Rigs, NEW f \in Freqs, Allocate(t, s, r, f)
    PROVE  ChannelsInd'
<1> USE DEF ChannelsInd
<1>i. PICK id : id = nextId
  OBVIOUS
<1>h. PICK ch : ch = [id |-> id, freq |-> f, permanent |-> FALSE, bm |-> None, sids |-> {s}]
  OBVIOUS
<1>l. PICK list : list = Append(channels[r], ch)
  OBVIOUS
<1>1. /\ ops[t] = None /\ requests > 0 /\ requests' = requests - 1 /\ nextId' = nextId + 1
      /\ changes' = changes /\ phase[s] \in {"live", "gone"}
      /\ Len(channels[r]) < MaxChannels /\ nextId <= MaxIds
      /\ channels' = [channels EXCEPT ![r] = list]
      /\ Begin(t, "alloc", "map", s, r, id, f, {id}, {}) /\ Stray(Late(s))
      /\ dsp' = dsp /\ dial' = dial /\ smap' = smap /\ control' = control /\ rigOf' = rigOf
      /\ stream' = stream /\ phase' = phase /\ clients' = clients
      /\ desired' = desired /\ crossed' = crossed
  BY <1>i, <1>h, <1>l DEF Allocate, Idle, env, tab
<1>2. t \in Threads /\ t \notin Sessions
  BY DEF Threads, VirtualChannelsAssumption
<1>3. /\ id \in Ids /\ id \in Nat /\ nextId \in Nat /\ MaxIds \in Nat /\ MaxChannels \in Nat
      /\ Tidy(channels[r]) /\ Owned(channels[r])
  BY <1>1, <1>i DEF Ids, Plain, Lists, VirtualChannelsAssumption
<1>4. PICK new \in Op :
         /\ ops' = [ops EXCEPT ![t] = new] /\ new # None
         /\ new.kind = "alloc" /\ new.step = "map" /\ new.sid = s /\ new.rig = r /\ new.id = id
         /\ new.freq = f /\ new.owes = {id} /\ new.evicted = {}
  BY <1>1, <1>2, <1>3, Beginning
<1>5. /\ Formed' /\ ops'[t] = new
      /\ \A u \in Threads : u # t => ops'[u] = ops[u]
      /\ \A u \in Threads : u # t => \A i \in Ids : SameDuty(u, i)
  <2>1. OpOf(t, new)
    BY <1>2, <1>3, <1>4 DEF OpOf
  <2> QED
    BY <1>1, <1>2, <1>4, <2>1, PhasesStay, OpChange
<1>6. /\ ch \in Channel /\ ch.id = id /\ ch.freq = f /\ ch.sids = {s} /\ ~ch.permanent
  BY <1>3, <1>h DEF Channel
<1>7. \A q \in Rigs : id \notin IdsOf(channels[q])
  BY <1>3, <1>i DEF Lists
<1>8. /\ Tidy(list) /\ Len(list) = Len(channels[r]) + 1 /\ Len(channels[r]) \in Nat
      /\ ToSet(list) = ToSet(channels[r]) \cup {ch}
      /\ IdsOf(list) = IdsOf(channels[r]) \cup {id}
      /\ Entry(list, id) = ch
      /\ \A i : i # id => Keeps(i, channels[r], list)
  <2>1. ch.id \notin IdsOf(channels[r]) /\ Tidy(channels[r]) /\ ch \in Channel /\ ~ch.permanent
    BY <1>3, <1>6, <1>7
  <2>2. /\ Tidy(list) /\ Len(list) = Len(channels[r]) + 1 /\ Len(channels[r]) \in Nat
        /\ ToSet(list) = ToSet(channels[r]) \cup {ch}
        /\ IdsOf(list) = IdsOf(channels[r]) \cup {ch.id}
        /\ Entry(list, ch.id) = ch
        /\ \A i : i # ch.id => Keeps(i, channels[r], list)
    BY ONLY <1>l, <2>1, AppendedList, ZenonT(30)
  <2> QED
    BY <1>6, <2>2
<1>9. Owned(list)
  <2>1. ~Orphan(ch)
    BY <1>6 DEF Orphan
  <2> QED
    BY <1>3, <1>8, <2>1 DEF Owned
<1>10. /\ Lists' /\ channels'[r] = list
       /\ \A q \in Rigs : q # r => channels'[q] = channels[q]
  <2>1. Len(list) <= MaxChannels
    BY <1>1, <1>3, <1>8
  <2>2. nextId' \in Nat /\ nextId <= nextId' /\ nextId <= id /\ id < nextId'
    BY <1>1, <1>3, <1>i
  <2>3. \A i \in IdsOf(list) : i \in IdsOf(channels[r]) \/ (nextId <= i /\ i < nextId')
    BY <1>8, <2>2
  <2> QED
    BY <1>1, <1>3, <1>8, <1>9, <2>1, <2>2, <2>3, ListStep
<1>11. \A i \in Ids : ~Owes(t, i) /\ (Owes(t, i)' <=> i = id)
  BY <1>1, <1>4, <1>5 DEF Owes
<1>12. \A u \in Threads : ~Owes(u, id)
  BY <1>3, <1>i DEF Sending
<1>13. Sending'
  <2>1. ASSUME NEW i \in Ids \ crossed PROVE Told(i)'
    <3>1. Told(i)
      BY DEF Sending
    <3>2. CASE i = id
      <4>1. \A u \in Threads : u # t => ~Owes(u, i)'
        BY <1>5, <1>12, <3>2 DEF SameDuty
      <4>2. Listed(i)'
        BY <1>8, <1>10, <3>2 DEF Listed
      <4>3. \A q \in Rigs : q # r => i \notin IdsOf(channels'[q])
        BY <1>7, <1>10, <3>2
      <4>4. Entry(channels'[r], i).freq = f
        BY <1>6, <1>8, <1>10, <3>2
      <4>5. Says(i, ops[t].freq, ops[t].kind = "alloc" \/ dsp[i] # None)'
        BY <1>4, <1>5, <4>3, <4>4 DEF Says
      <4>6. Tunes(t)'
        BY <1>4, <1>5 DEF Tunes
      <4>7. Owes(t, i)'
        BY <1>11, <3>2
      <4> QED
        BY <1>2, <4>1, <4>2, <4>5, <4>6, <4>7, OneTunes
    <3>3. CASE i # id
      <4>1. \A u \in Threads : SameDuty(u, i)
        BY <1>5, <1>11, <3>3 DEF SameDuty
      <4>2. \A q \in Rigs : Keeps(i, channels[q], channels'[q])
        BY <1>8, <1>10, <3>3, OtherRigs
      <4> QED
        BY <1>1, <3>1, <4>1, <4>2, ToldKept
    <3> QED
      BY <3>2, <3>3
  <2>2. ASSUME NEW u \in Threads, NEW i \in Ids, Owes(u, i)' PROVE i < nextId'
    <3>0. id < nextId' /\ nextId' = nextId + 1 /\ i \in Nat
      BY <1>1, <1>3, <1>i DEF Ids
    <3>1. CASE u = t
      BY <1>11, <2>2, <3>0, <3>1
    <3>2. CASE u # t
      <4>1. i < nextId
        BY <1>5, <2>2, <3>2 DEF Sending, SameDuty
      <4> QED
        BY <1>3, <3>0, <4>1
    <3> QED
      BY <3>1, <3>2
  <2> QED
    BY <1>1, <2>1, <2>2 DEF Sending
<1>14. Plain' /\ OpenStreams'
  <2>1. <<requests', changes'>> \in Nat \X Nat
    BY <1>1 DEF Plain
  <2>2. strayed' \subseteq Sessions \X {"late", "lost"}
    BY <1>1, LateIn, StrayedIn
  <2>3. nextId' \in 1..(MaxIds + 1)
    BY <1>1, <1>3
  <2>4. Plain'
    BY <1>1, <2>1, <2>2, <2>3 DEF Plain
  <2> QED
    BY <1>1, <2>4, OpenStreamsStay
<1>15. ASSUME NEW u \in Sessions, ~Strayed(u)' PROVE Traced(u)'
  <2>1. Traced(u) /\ (u = s => phase[s] = "live")
    BY <1>1, <1>15, LateOnly DEF Tracked
  <2>2. \A q \in Rigs : ~Mapping(t, u, q)
    BY <1>1 DEF Mapping
  <2>3. CASE u # s
    <3>1. HeldIn(list, u) => HeldIn(channels[r], u)
      BY <1>6, <1>8, <2>3 DEF HeldIn
    <3>2. \A q \in Rigs : HeldIn(channels'[q], u) => HeldIn(channels[q], u)
      BY <1>10, <3>1, HeldStays
    <3>3. ops'[t].sid # u
      BY <1>4, <1>5, <2>3
    <3> QED
      BY <1>1, <1>2, <1>5, <2>1, <2>2, <3>2, <3>3, TracedByOp
  <2>4. CASE u = s
    <3>1. Mapping(t, s, r)'
      BY <1>4, <1>5 DEF Mapping
    <3>2. s \in Threads /\ s # t /\ \A v \in Workers : v \in Threads
      BY <1>2 DEF Threads
    <3>3. ASSUME NEW q \in Rigs, HeldIn(channels'[q], s)
          PROVE  \/ smap'[s] # None /\ smap'[s].rig = q
                 \/ \E v \in Workers : Mapping(v, s, q)'
                 \/ Releasing(s, q)'
      <4>1. CASE q = r
        BY <3>1, <4>1
      <4>2. CASE q # r
        <5>1. \/ smap[s] # None /\ smap[s].rig = q
              \/ \E v \in Workers : Mapping(v, s, q)
              \/ Releasing(s, q)
          BY <1>10, <2>1, <2>4, <3>3, <4>2 DEF Traced
        <5>2. CASE \E v \in Workers : Mapping(v, s, q)
          <6>1. PICK v \in Workers : Mapping(v, s, q)
            BY <5>2
          <6>2. v # t
            BY <2>2, <2>4, <6>1
          <6> QED
            BY <1>5, <3>2, <6>1, <6>2 DEF Mapping
        <5>3. CASE Releasing(s, q)
          BY <1>5, <3>2, <5>3 DEF Releasing
        <5> QED
          BY <1>1, <5>1, <5>2, <5>3
      <4> QED
        BY <4>1, <4>2
    <3>4. phase'[s] = "live"
      BY <1>1, <2>1, <2>4
    <3>5. Traced(s)'
      BY ONLY <3>3, <3>4 DEF Traced
    <3> QED
      BY ONLY <2>4, <3>5
  <2> QED
    BY <2>3, <2>4
<1> QED
  BY <1>5, <1>10, <1>13, <1>14, <1>15 DEF Tracked

LEMMA SubscribeKeeps ==
    ASSUME VirtualChannelsAssumption, ChannelsInd, NEW t \in Workers, NEW s \in Sessions,
           NEW r \in Rigs, NEW id \in Ids, Subscribe(t, s, r, id)
    PROVE  ChannelsInd'
<1> USE DEF ChannelsInd
<1>g. PICK gone : gone = Abandoned(channels[r], s)
  OBVIOUS
<1>l. PICK list : list = Released(channels[r], s)
  OBVIOUS
<1>p. PICK step \in {"find", "rm"} : step = IF gone = {} THEN "find" ELSE "rm"
  OBVIOUS
<1>1. /\ ops[t] = None /\ requests > 0 /\ requests' = requests - 1 /\ nextId' = nextId
      /\ changes' = changes /\ phase[s] \in {"live", "gone"}
      /\ channels' = [channels EXCEPT ![r] = list]
      /\ Begin(t, "sub", step, s, r, id, None, gone, {}) /\ Cross(gone) /\ Stray(Late(s))
      /\ dsp' = dsp /\ dial' = dial /\ smap' = smap /\ control' = control /\ rigOf' = rigOf
      /\ stream' = stream /\ phase' = phase /\ clients' = clients
      /\ desired' = desired
  BY <1>g, <1>l, <1>p DEF Subscribe, Idle, Requested, env, tab
<1>2. t \in Threads /\ t \notin Sessions
  BY DEF Threads, VirtualChannelsAssumption
<1>3. /\ Tidy(list) /\ Len(list) <= Len(channels[r]) /\ gone \subseteq IdsOf(channels[r])
      /\ IdsOf(list) = IdsOf(channels[r]) \ gone
      /\ Owned(list) /\ ~HeldIn(list, s)
      /\ \A u : HeldIn(list, u) => HeldIn(channels[r], u)
      /\ \A i : i \notin gone => Keeps(i, channels[r], list)
  <2>1. Tidy(channels[r])
    BY DEF Lists
  <2> QED
    BY ONLY <1>g, <1>l, <2>1, ReleasedList
<1>4. gone \in SUBSET Ids
  BY <1>3, Members DEF Lists
<1>5. PICK new \in Op :
         /\ ops' = [ops EXCEPT ![t] = new] /\ new # None
         /\ new.kind = "sub" /\ new.step = step /\ new.sid = s /\ new.rig = r /\ new.id = id
         /\ new.freq = None /\ new.owes = gone /\ new.evicted = {}
  BY <1>1, <1>2, <1>4, Beginning
<1>6. /\ Formed' /\ ops'[t] = new
      /\ \A u \in Threads : u # t => ops'[u] = ops[u]
      /\ \A u \in Threads : u # t => \A i \in Ids : SameDuty(u, i)
  <2>1. OpOf(t, new)
    BY <1>2, <1>5, <1>p DEF OpOf
  <2> QED
    BY <1>1, <1>2, <1>5, <2>1, PhasesStay, OpChange
<1>7. /\ Lists' /\ channels'[r] = list
      /\ \A q \in Rigs : q # r => channels'[q] = channels[q]
  <2>1. Len(list) <= MaxChannels
    <3>1. /\ Len(list) \in Nat /\ Len(channels[r]) \in Nat /\ MaxChannels \in Nat
          /\ Len(channels[r]) <= MaxChannels
      BY <1>3, ListDomain DEF Tidy, Lists, VirtualChannelsAssumption
    <3> QED
      BY <1>3, <3>1
  <2>2. nextId \in Nat
    BY DEF Plain
  <2> QED
    BY <1>1, <1>3, <2>1, <2>2, ListEdit
<1>8. Sending' /\ crossed' \subseteq Ids
  <2>1. \A i \in Ids : ~Owes(t, i) /\ (Owes(t, i)' <=> i \in gone) /\ (i \in gone => ~Tunes(t)')
    BY <1>1, <1>5, <1>6 DEF Owes, Tunes
  <2>2. gone \in SUBSET IdsOf(channels[r])
    BY <1>3
  <2>3. \A i : i \notin gone => Keeps(i, channels[r], channels'[r])
    BY <1>3, <1>7
  <2> QED
    BY <1>1, <1>2, <1>3, <1>6, <1>7, <2>1, <2>2, <2>3, RemovedTold
<1>9. Plain' /\ OpenStreams'
  <2>1. <<requests', changes'>> \in Nat \X Nat
    BY <1>1 DEF Plain
  <2>2. strayed' \subseteq Sessions \X {"late", "lost"}
    BY <1>1, LateIn, StrayedIn
  <2>3. Plain'
    BY <1>1, <1>8, <2>1, <2>2 DEF Plain
  <2> QED
    BY <1>1, <2>3, OpenStreamsStay
<1>10. ASSUME NEW u \in Sessions, ~Strayed(u)' PROVE Traced(u)'
  <2>1. Traced(u)
    BY <1>1, <1>10, LateOnly DEF Tracked
  <2>2. \A q \in Rigs : HeldIn(channels'[q], u) => HeldIn(channels[q], u)
    BY <1>3, <1>7, HeldStays
  <2>3. \A q \in Rigs : ~Mapping(t, u, q)
    BY <1>1 DEF Mapping
  <2>4. ops'[t].sid = u => phase[u] \in {"live", "gone"}
    BY <1>1, <1>5, <1>6
  <2> QED
    BY <1>1, <1>2, <1>6, <2>1, <2>2, <2>3, <2>4, TracedByOp
<1> QED
  BY <1>6, <1>7, <1>8, <1>9, <1>10 DEF Tracked

LEMMA DropReleaseKeeps ==
    ASSUME VirtualChannelsAssumption, ChannelsInd, NEW s \in Sessions, DropRelease(s)
    PROVE  ChannelsInd'
<1> USE DEF ChannelsInd
<1>o. PICK o : o = ops[s]
  OBVIOUS
<1>r. PICK r : r = o.rig
  OBVIOUS
<1>g. PICK gone : gone = Abandoned(channels[r], s)
  OBVIOUS
<1>l. PICK list : list = Released(channels[r], s)
  OBVIOUS
<1>p. PICK step \in {"unreg", "rm"} : step = IF gone = {} THEN "unreg" ELSE "rm"
  OBVIOUS
<1>n. PICK new : new = [o EXCEPT !.step = step, !.owes = gone]
  OBVIOUS
<1>1. /\ At(s, "release") /\ s \in Threads
      /\ channels' = [channels EXCEPT ![r] = list]
      /\ ops' = [ops EXCEPT ![s].step = step, ![s].owes = gone] /\ Cross(gone)
      /\ dsp' = dsp /\ dial' = dial /\ smap' = smap /\ control' = control /\ rigOf' = rigOf
      /\ stream' = stream /\ phase' = phase /\ clients' = clients /\ nextId' = nextId
      /\ desired' = desired /\ requests' = requests /\ changes' = changes /\ strayed' = strayed
  BY <1>o, <1>r, <1>g, <1>l, <1>p DEF DropRelease, env, tab, bounds, Threads
<1>2. /\ o # None /\ o.step = "release" /\ OpOf(s, o) /\ o.kind = "drop" /\ o \in Op
      /\ o.owes = {} /\ r \in Rigs /\ o.sid = s /\ phase[s] = "gone"
  BY <1>1, <1>o, <1>r, AtOp DEF OpOf, Formed
<1>3. /\ Tidy(list) /\ Len(list) <= Len(channels[r]) /\ gone \subseteq IdsOf(channels[r])
      /\ IdsOf(list) = IdsOf(channels[r]) \ gone
      /\ Owned(list) /\ ~HeldIn(list, s)
      /\ \A u : HeldIn(list, u) => HeldIn(channels[r], u)
      /\ \A i : i \notin gone => Keeps(i, channels[r], list)
  <2>1. Tidy(channels[r])
    BY <1>2 DEF Lists
  <2> QED
    BY ONLY <1>g, <1>l, <2>1, ReleasedList
<1>4. gone \in SUBSET Ids
  BY <1>2, <1>3, Members DEF Lists
<1>5. /\ new \in Op /\ new.kind = "drop" /\ new.step = step /\ new.sid = s /\ new.owes = gone
      /\ new # None
  <2>1. /\ new \in Op /\ new.kind = o.kind /\ new.step = step /\ new.sid = o.sid
        /\ new.owes = gone
    BY <1>2, <1>4, <1>n DEF Op
  <2> QED
    BY <1>2, <2>1 DEF VirtualChannelsAssumption
<1>6. /\ Formed' /\ ops'[s] = new
      /\ \A u \in Threads : u # s => ops'[u] = ops[u]
      /\ \A u \in Threads : u # s => \A i \in Ids : SameDuty(u, i)
  <2>1. OpOf(s, new)
    BY <1>p, <1>5 DEF OpOf
  <2>2. ops' = [ops EXCEPT ![s] = new]
    BY <1>1, <1>o, <1>n DEF Formed
  <2>3. /\ \A u \in Sessions : phase[u] = "gone" => phase'[u] = "gone"
        /\ phase'[s] = "gone" /\ s \in Threads
    BY <1>1, <1>2
  <2>4. Formed
    OBVIOUS
  <2> QED
    BY ONLY <2>1, <2>2, <2>3, <2>4, OpChange
<1>7. /\ Lists' /\ channels'[r] = list
      /\ \A q \in Rigs : q # r => channels'[q] = channels[q]
  <2>1. Len(list) <= MaxChannels
    <3>1. /\ Len(list) \in Nat /\ Len(channels[r]) \in Nat /\ MaxChannels \in Nat
          /\ Len(channels[r]) <= MaxChannels
      BY <1>2, <1>3, ListDomain DEF Tidy, Lists, VirtualChannelsAssumption
    <3> QED
      BY <1>3, <3>1
  <2>2. nextId \in Nat
    BY DEF Plain
  <2> QED
    BY <1>1, <1>2, <1>3, <2>1, <2>2, ListEdit
<1>8. Sending' /\ crossed' \subseteq Ids
  <2>1. \A i \in Ids : ~Owes(s, i) /\ (Owes(s, i)' <=> i \in gone) /\ (i \in gone => ~Tunes(s)')
    BY <1>o, <1>2, <1>5, <1>6 DEF Owes, Tunes
  <2>2. gone \in SUBSET IdsOf(channels[r])
    BY <1>3
  <2>3. \A i : i \notin gone => Keeps(i, channels[r], channels'[r])
    BY <1>3, <1>7
  <2> QED
    BY <1>1, <1>2, <1>3, <1>6, <1>7, <2>1, <2>2, <2>3, RemovedTold
<1>9. Plain' /\ OpenStreams'
  <2>1. Plain'
    BY <1>1, <1>8 DEF Plain
  <2> QED
    BY <1>1, <2>1, OpenStreamsStay
<1>10. ASSUME NEW u \in Sessions, ~Strayed(u)' PROVE Traced(u)'
  <2>1. Traced(u)
    BY <1>1, <1>10, StrayedStays DEF Tracked
  <2>2. \A q \in Rigs : HeldIn(channels'[q], u) => HeldIn(channels[q], u)
    BY <1>2, <1>3, <1>7, HeldStays
  <2>3. \A q \in Rigs : ~Mapping(s, u, q)
    BY <1>o, <1>2 DEF Mapping
  <2>4. CASE u # s
    <3>1. ops'[s].sid # u
      BY <1>5, <1>6, <2>4
    <3> QED
      BY <1>1, <1>6, <2>1, <2>2, <2>3, <2>4, <3>1, TracedByOp
  <2>5. CASE u = s
    <3>1. smap'[s] = None /\ smap[s] = None
      BY <1>1, <1>2, <2>1, <2>5 DEF Traced
    <3>2. ASSUME NEW q \in Rigs, HeldIn(channels'[q], s)
          PROVE  \E v \in Workers : Mapping(v, s, q)'
      <4>1. q # r
        BY <1>3, <1>7, <3>2
      <4>2. ~Releasing(s, q)
        BY <1>o, <1>r, <4>1 DEF Releasing
      <4>3. PICK v \in Workers : Mapping(v, s, q)
        BY <2>1, <2>2, <2>5, <3>1, <3>2, <4>2 DEF Traced
      <4>4. v \in Threads /\ v # s
        BY DEF Threads, VirtualChannelsAssumption
      <4> QED
        BY <1>6, <4>3, <4>4 DEF Mapping
    <3>3. phase'[s] = "gone" /\ ops'[s] # None
      BY <1>1, <1>2, <1>5, <1>6
    <3>4. Traced(s)'
      BY ONLY <3>1, <3>2, <3>3 DEF Traced
    <3> QED
      BY ONLY <2>5, <3>4
  <2> QED
    BY <2>4, <2>5
<1> QED
  BY <1>6, <1>7, <1>8, <1>9, <1>10 DEF Tracked

(***************************************************************************)
(* A state of the rig arrives: the primary channel, the synchronisation.   *)
(***************************************************************************)
LEMMA KeepsTwice ==
    ASSUME NEW i, NEW a, NEW b, NEW c, Keeps(i, a, b), Keeps(i, b, c)
    PROVE  Keeps(i, a, c)
BY DEF Keeps

LEMMA PrimaryList ==
    ASSUME VirtualChannelsAssumption, NEW id \in Ids, NEW f \in Freqs, NEW new,
           new = <<[id |-> id, freq |-> f, permanent |-> TRUE, bm |-> None, sids |-> {}]>>
    PROVE  /\ Tidy(new) /\ Owned(new) /\ Len(new) = 1 /\ IdsOf(new) = {id} /\ First(new, id)
           /\ \A c \in ToSet(new) : c.bm = None /\ c.id = id
           /\ \A s : ~HeldIn(new, s)
<1>0. PICK ch : ch = [id |-> id, freq |-> f, permanent |-> TRUE, bm |-> None, sids |-> {}]
  OBVIOUS
<1>1. ch \in Channel /\ ch.id = id /\ ch.bm = None /\ ch.sids = {}
  BY <1>0 DEF Channel
<1>2. ch.permanent
  BY <1>0
<1>3. new \in Seq(Channel) /\ Len(new) = 1 /\ DOMAIN new = {1} /\ new[1] = ch
  <2>1. new = <<ch>>
    BY <1>0
  <2> QED
    BY ONLY <1>1, <2>1
<1>4. ToSet(new) = {ch} /\ IdsOf(new) = {id}
  <2>1. ToSet(new) = {new[i] : i \in {1}}
    BY <1>3 DEF ToSet
  <2>2. IdsOf(new) = {new[i].id : i \in {1}}
    BY ONLY <1>3 DEF IdsOf
  <2>3. new[1] = ch /\ new[1].id = id
    BY <1>1, <1>3
  <2>4. ToSet(new) = {new[1]} /\ IdsOf(new) = {new[1].id}
    BY ONLY <2>1, <2>2
  <2> QED
    BY ONLY <2>3, <2>4
<1>5. Tidy(new)
  BY <1>3 DEF Tidy
<1>6. Owned(new)
  BY <1>2, <1>4 DEF Owned, Orphan
<1>7. \A s : ~HeldIn(new, s)
  BY <1>1, <1>4 DEF HeldIn
<1>8. First(new, id)
  BY <1>1, <1>3 DEF First
<1> QED
  BY <1>1, <1>3, <1>4, <1>5, <1>6, <1>7, <1>8

LEMMA MirroredList ==
    ASSUME NEW list, Tidy(list), list # <<>>, NEW f \in Freqs, NEW new, new = Mirrored(list, f)
    PROVE  /\ Tidy(new) /\ Len(new) = Len(list) /\ IdsOf(new) = IdsOf(list)
           /\ Owned(list) => Owned(new)
           /\ \A s : HeldIn(new, s) => HeldIn(list, s)
           /\ \A i : Keeps(i, list, new)
<1>1. /\ list \in Seq(Channel) /\ 1 \in DOMAIN list
      /\ \A i \in DOMAIN list : list[i] \in Channel
      /\ \A i, j \in DOMAIN list : list[i].id = list[j].id => i = j
  BY ListDomain DEF Tidy
<1> DEFINE ch == [list[1] EXCEPT !.freq = f]
<1>2. new = [list EXCEPT ![1] = ch]
  BY <1>1 DEF Mirrored
<1>3. /\ ch \in Channel /\ ch.id = list[1].id /\ ch.sids = list[1].sids /\ ch.bm = list[1].bm
  BY <1>1 DEF Channel
<1>4. ch.permanent = list[1].permanent
  BY <1>1 DEF Channel
<1> HIDE DEF ch
<1>5. /\ DOMAIN new = DOMAIN list /\ new = [i \in DOMAIN list |-> new[i]] /\ new[1] = ch
      /\ \A i \in DOMAIN list : i # 1 => new[i] = list[i]
  BY <1>1, <1>2
<1>6. \A i \in DOMAIN list : /\ new[i] \in Channel /\ new[i].id = list[i].id
                             /\ new[i].permanent = list[i].permanent
  <2> SUFFICES ASSUME NEW i \in DOMAIN list
               PROVE  /\ new[i] \in Channel /\ new[i].id = list[i].id
                      /\ new[i].permanent = list[i].permanent
    OBVIOUS
  <2>1. CASE i = 1
    BY <1>3, <1>4, <1>5, <2>1
  <2>2. CASE i # 1
    BY <1>1, <1>5, <2>2
  <2> QED
    BY <2>1, <2>2
<1>7. /\ Tidy(new) /\ Len(new) = Len(list) /\ IdsOf(new) = IdsOf(list)
      /\ \A id : First(list, id) <=> First(new, id)
  BY <1>5, <1>6, InPlace
<1>8. ToSet(new) \subseteq ToSet(list) \cup {ch} /\ list[1] \in ToSet(list)
  BY <1>1, <1>5 DEF ToSet
<1>9. Owned(list) => Owned(new)
  <2>1. ASSUME Owned(list) PROVE ~Orphan(ch)
    <3>1. ~Orphan(list[1])
      BY <1>8, <2>1 DEF Owned
    <3> QED
      BY <1>3, <1>4, <3>1, Zenon DEF Orphan
  <2> QED
    BY <1>8, <2>1 DEF Owned
<1>10. \A s : HeldIn(new, s) => HeldIn(list, s)
  BY <1>3, <1>8 DEF HeldIn
<1>11. ASSUME NEW i, i \in IdsOf(list), ~First(new, i) PROVE Entry(new, i) = Entry(list, i)
  <2>1. Entry(list, i) \in ToSet(list) /\ Entry(list, i).id = i
    BY <1>11, Members
  <2>2. PICK k \in DOMAIN list : list[k] = Entry(list, i)
    BY <2>1 DEF ToSet
  <2>3. k # 1
    BY <1>1, <1>7, <1>11, <2>1, <2>2 DEF First
  <2>4. new[k] = Entry(list, i) /\ new[k] \in ToSet(new)
    BY <1>5, <2>2, <2>3 DEF ToSet
  <2> QED
    BY <1>7, <2>1, <2>4, Members
<1>12. \A i : Keeps(i, list, new)
  BY <1>7, <1>11 DEF Keeps
<1> QED
  BY <1>7, <1>9, <1>10, <1>12

LEMMA CommandedIs ==
    ASSUME NEW old, NEW new, Tidy(new), Plain, NEW said, said = Commanded(old, new)
    PROVE  /\ said \in [Ids -> Freqs \cup {None}]
           /\ \A i \in Ids :
                 /\ i \in IdsOf(old) /\ i \notin IdsOf(new) => said[i] = None
                 /\ i \notin IdsOf(old) /\ i \notin IdsOf(new) => said[i] = dsp[i]
                 /\ i \notin IdsOf(old) /\ i \in IdsOf(new) => said[i] = Entry(new, i).freq
                 /\ i \in IdsOf(old) /\ i \in IdsOf(new) =>
                       said[i] = IF Entry(new, i).bm # None
                                    /\ Entry(new, i).freq # Entry(old, i).freq /\ dsp[i] # None
                                 THEN Entry(new, i).freq ELSE dsp[i]
<1>1. \A i \in IdsOf(new) : Entry(new, i).freq \in Freqs
  BY Members DEF Channel
<1>2. \A i \in Ids : dsp[i] \in Freqs \cup {None}
  BY DEF Plain
<1>3. said \in [Ids -> Freqs \cup {None}]
  BY <1>1, <1>2 DEF Commanded
<1>4. \A i \in Ids : said[i] =
       IF i \in IdsOf(old) \ IdsOf(new) THEN None
       ELSE IF i \notin IdsOf(new) THEN dsp[i]
       ELSE IF i \notin IdsOf(old) THEN Entry(new, i).freq
       ELSE IF Entry(new, i).bm # None /\ Entry(new, i).freq # Entry(old, i).freq
                /\ dsp[i] # None
            THEN Entry(new, i).freq ELSE dsp[i]
  BY DEF Commanded
<1> QED
  BY <1>3, <1>4

LEMMA Untouched ==
    ASSUME NEW old, NEW new, Tidy(old), Tidy(new), NEW i, i \notin Touched(old, new)
    PROVE  /\ i \in IdsOf(old) <=> i \in IdsOf(new)
           /\ i \in IdsOf(old) => Entry(new, i) = Entry(old, i)
<1>1. \A c \in ToSet(old) : c.id = i => c \in ToSet(new)
  BY DEF Touched
<1>2. \A c \in ToSet(new) : c.id = i => c \in ToSet(old)
  BY DEF Touched
<1>3. /\ \A id \in IdsOf(old) : Entry(old, id) \in ToSet(old) /\ Entry(old, id).id = id
      /\ \A id \in IdsOf(new) : Entry(new, id) \in ToSet(new) /\ Entry(new, id).id = id
      /\ \A c \in ToSet(new) : c.id \in IdsOf(new) /\ Entry(new, c.id) = c
      /\ \A c \in ToSet(old) : c.id \in IdsOf(old)
  BY Members
<1> QED
  BY <1>1, <1>2, <1>3

LEMMA TouchedIn ==
    ASSUME NEW old, NEW new, Tidy(old), Tidy(new)
    PROVE  Touched(old, new) \subseteq IdsOf(old) \cup IdsOf(new)
BY Members DEF Touched

\* The synchronisation of a list that has its primary channel.
LEMMA Resynced ==
    ASSUME VirtualChannelsAssumption, ChannelsInd, NEW r \in Rigs, NEW first, NEW n \in Nat \ {0},
           Tidy(first), Owned(first), Len(first) <= MaxChannels, nextId <= n,
           \A i \in IdsOf(first) : i < n, n + Cardinality(Bookmarks) <= MaxIds + 1,
           IdsOf(first) = IdsOf(channels[r]) \cup (nextId..(n - 1)),
           \A c \in ToSet(first) : c.id >= nextId => c.bm = None /\ First(first, c.id),
           \A i : i < nextId => Keeps(i, channels[r], first),
           \A s : HeldIn(first, s) => HeldIn(channels[r], s),
           NEW list, list = Synced(first, Want(r), n),
           channels' = [channels EXCEPT ![r] = list], dsp' = Commanded(first, list),
           nextId' = nextId + Cardinality(IdsOf(list) \ IdsOf(channels[r])),
           Cross(Touched(first, list)), ops' = ops
    PROVE  /\ Lists' /\ Sending'
           /\ dsp' \in [Ids -> Freqs \cup {None}] /\ nextId' \in 1..(MaxIds + 1) /\ crossed' \subseteq Ids
           /\ \A s : \A q \in Rigs : HeldIn(channels'[q], s) => HeldIn(channels[q], s)
<1> USE DEF ChannelsInd
<1>1. Want(r) \in Wanted
  BY DEF Want, Wanted, Plain
<1>0. PICK gone \in SUBSET IdsOf(first), m \in 0..Cardinality(Bookmarks) :
         SyncedAs(first, n, list, gone, m)
  <2>1. PICK want \in Wanted : want = Want(r)
    BY <1>1
  <2>2. /\ VirtualChannelsAssumption /\ Tidy(first) /\ Owned(first) /\ Len(first) <= MaxChannels
        /\ n \in Nat \ {0} /\ n + Cardinality(Bookmarks) <= MaxIds + 1
        /\ \A i \in IdsOf(first) : i < n
    OBVIOUS
  <2>3. list = Synced(first, want, n)
    BY <2>1
  <2> QED
    BY ONLY <2>1, <2>2, <2>3, SyncedList
<1>2. /\ Tidy(list) /\ Len(list) <= MaxChannels /\ Owned(list)
      /\ IdsOf(list) = (IdsOf(first) \ gone) \cup (n..(n + m - 1))
      /\ \A s : HeldIn(list, s) => HeldIn(first, s)
      /\ \A id : First(first, id) /\ id \notin gone => First(list, id)
      /\ \A c \in ToSet(first) : c.bm = None => c.id \notin gone
      /\ \A id \in IdsOf(first) \ gone :
            Entry(list, id) = Entry(first, id) \/ Entry(list, id).bm # None
  BY <1>0 DEF SyncedAs
<1>3. /\ Cardinality(Bookmarks) \in Nat /\ m \in Nat /\ m <= Cardinality(Bookmarks)
      /\ MaxIds \in Nat /\ nextId \in Nat /\ nextId >= 1 /\ n \in Nat
  BY FS_CardinalityType DEF VirtualChannelsAssumption, Plain
<1>4. /\ \A i \in IdsOf(channels[r]) : i \in Nat /\ i < nextId
      /\ \A i \in IdsOf(first) : i \in Nat /\ i \in Ids
      /\ \A i \in Ids : i \in Nat
  <2>1. IdsOf(channels[r]) \subseteq Ids /\ IdsOf(first) \subseteq Ids
    BY Members DEF Lists
  <2> QED
    BY <2>1 DEF Lists, Ids
<1>5. \A i \in IdsOf(first) : i >= nextId => i \notin gone /\ First(first, i) /\ First(list, i)
  <2>1. \A i \in IdsOf(first) : Entry(first, i) \in ToSet(first) /\ Entry(first, i).id = i
    BY Members
  <2> QED
    BY <1>2, <2>1
<1>6. IdsOf(list) \ IdsOf(channels[r]) = nextId..(n + m - 1)
  <2>1. ASSUME NEW i \in IdsOf(list), i \notin IdsOf(channels[r]) PROVE i \in nextId..(n + m - 1)
    <3>1. CASE i \in IdsOf(first)
      <4>1. i \in nextId..(n - 1)
        BY <2>1, <3>1
      <4> QED
        BY <1>3, <4>1
    <3>2. CASE i \in n..(n + m - 1)
      BY <1>3, <3>2
    <3> QED
      BY <1>2, <3>1, <3>2
  <2>2. ASSUME NEW i \in nextId..(n + m - 1) PROVE i \in IdsOf(list) /\ i \notin IdsOf(channels[r])
    <3>1. i \notin IdsOf(channels[r])
      BY <1>3, <1>4
    <3>2. CASE i <= n - 1
      <4>1. i \in IdsOf(first) /\ i >= nextId
        BY <1>3, <3>2
      <4> QED
        BY <1>2, <1>5, <3>1, <4>1
    <3>3. CASE ~(i <= n - 1)
      <4>1. i \in n..(n + m - 1)
        BY <1>3, <3>3
      <4> QED
        BY <1>2, <3>1, <4>1
    <3> QED
      BY <3>2, <3>3
  <2> QED
    BY <2>1, <2>2
<1>7. nextId' = n + m /\ nextId' \in Nat /\ nextId <= nextId' /\ nextId' \in 1..(MaxIds + 1)
  <2>1. Cardinality(nextId..(n + m - 1)) =
          IF nextId > n + m - 1 THEN 0 ELSE (n + m - 1) - nextId + 1
    BY <1>3, FS_Interval
  <2>2. Cardinality(nextId..(n + m - 1)) = (n + m) - nextId
    BY <1>3, <2>1
  <2>3. nextId' = nextId + ((n + m) - nextId)
    BY <1>6, <2>2
  <2>4. nextId' = n + m
    BY <1>3, <2>3
  <2> QED
    BY <1>3, <2>4
<1>8. /\ Lists' /\ channels'[r] = list
      /\ \A q \in Rigs : q # r => channels'[q] = channels[q]
  <2>1. \A i \in IdsOf(list) : i \in IdsOf(channels[r]) \/ (nextId <= i /\ i < nextId')
    <3> SUFFICES ASSUME NEW i \in IdsOf(list), i \notin IdsOf(channels[r])
                 PROVE  nextId <= i /\ i < nextId'
      OBVIOUS
    <3>1. i \in nextId..(n + m - 1)
      BY <1>6
    <3> QED
      BY <1>3, <1>7, <3>1
  <2>2. Lists
    OBVIOUS
  <2> QED
    BY ONLY <1>2, <1>3, <1>7, <2>1, <2>2, r \in Rigs, channels' = [channels EXCEPT ![r] = list], ListStep
<1>9. /\ dsp' \in [Ids -> Freqs \cup {None}]
      /\ \A i \in Ids :
            /\ i \in IdsOf(first) /\ i \notin IdsOf(list) => dsp'[i] = None
            /\ i \notin IdsOf(first) /\ i \notin IdsOf(list) => dsp'[i] = dsp[i]
            /\ i \notin IdsOf(first) /\ i \in IdsOf(list) => dsp'[i] = Entry(list, i).freq
            /\ i \in IdsOf(first) /\ i \in IdsOf(list) =>
                  dsp'[i] = IF Entry(list, i).bm # None
                               /\ Entry(list, i).freq # Entry(first, i).freq /\ dsp[i] # None
                            THEN Entry(list, i).freq ELSE dsp[i]
  BY <1>2, CommandedIs
<1>10. /\ crossed' \subseteq Ids /\ crossed \subseteq crossed'
       /\ \A i \in Touched(first, list) : i \notin crossed' => \A u \in Threads : ~Owes(u, i)
  BY CrossMeans
<1>11. \A u \in Threads : \A i \in Ids : SameDuty(u, i)
  BY SameOps
<1>12. \A s : \A q \in Rigs : HeldIn(channels'[q], s) => HeldIn(channels[q], s)
  BY <1>2, <1>8, HeldStays
\* No other rig lists what this one lists now or listed.
<1>13. ASSUME NEW i \in Ids, i \in IdsOf(first) \cup IdsOf(list), NEW q \in Rigs, q # r
       PROVE  i \notin IdsOf(channels'[q])
  <2>1. CASE i \in IdsOf(channels[r])
    BY <1>8, <1>13, <2>1, OneRig
  <2>2. CASE i \notin IdsOf(channels[r])
    <3>1. CASE i \in IdsOf(first)
      <4>1. i \in nextId..(n - 1)
        BY <2>2, <3>1
      <4>2. ~(i < nextId)
        BY <1>3, <1>4, <4>1
      <4> QED
        BY <1>8, <1>13, <4>2 DEF Lists
    <3>2. CASE i \in IdsOf(list)
      <4>1. i \in nextId..(n + m - 1)
        BY <1>6, <2>2, <3>2
      <4>2. ~(i < nextId)
        BY <1>3, <1>4, <4>1
      <4> QED
        BY <1>8, <1>13, <4>2 DEF Lists
    <3> QED
      BY <1>13, <3>1, <3>2
  <2> QED
    BY <2>1, <2>2
<1>14. \A i \in IdsOf(first) : i \in IdsOf(list) => i \notin gone
  <2> SUFFICES ASSUME NEW i \in IdsOf(first), i \in gone, i \in IdsOf(list) PROVE FALSE
    OBVIOUS
  <2>1. i \in n..(n + m - 1) /\ i < n
    BY <1>2
  <2> QED
    BY <1>3, <1>4, <2>1
\* A channel that the synchronisation has touched: nobody else owes a command.
<1>15. ASSUME NEW i \in Ids \ crossed', i \in Touched(first, list) PROVE Told(i)'
  <2>1. \A u \in Threads : ~Owes(u, i) /\ ~Owes(u, i)'
    BY <1>10, <1>11, <1>15 DEF SameDuty
  <2>2. i \in IdsOf(first) \cup IdsOf(list)
    BY <1>2, <1>15, TouchedIn
  <2>3. \A q \in Rigs : q # r => i \notin IdsOf(channels'[q])
    BY <1>13, <2>2
  <2>4. CASE i \notin IdsOf(list)
    <3>1. dsp'[i] = None
      BY <1>9, <2>2, <2>4
    <3>2. \A q \in Rigs : i \notin IdsOf(channels'[q])
      BY <1>8, <2>3, <2>4
    <3>3. Says(i, dsp[i], TRUE)'
      BY <3>2 DEF Says
    <3> QED
      BY <2>1, <3>1, <3>3, NobodyOwes
  <2>5. CASE i \in IdsOf(list)
    <3>1. Listed(i)'
      BY <1>8, <2>5 DEF Listed
    <3>2. First(list, i) \/ Entry(list, i).freq = dsp'[i]
      <4>1. CASE i \notin IdsOf(first)
        BY <1>9, <2>5, <4>1
      <4>2. CASE i \in IdsOf(first) /\ i >= nextId
        BY <1>5, <4>2
      <4>3. CASE i \in IdsOf(first) /\ ~(i >= nextId)
        <5>1. i < nextId /\ i \in IdsOf(channels[r])
          <6>1. i < nextId /\ ~(i \in nextId..(n - 1))
            BY <1>3, <1>4, <4>3
          <6> QED
            BY <4>3, <6>1
        <5>2. Told(i)
          BY <1>10 DEF Sending
        <5>3. First(channels[r], i) \/ Entry(channels[r], i).freq = dsp[i]
          BY <2>1, <5>1, <5>2 DEF Told, Says
        <5>4. First(first, i) \/ Entry(first, i).freq = dsp[i]
          BY <5>1, <5>3 DEF Keeps
        <5>5. i \notin gone
          BY <1>14, <2>5, <4>3
        <5>6. CASE First(first, i)
          BY <1>2, <5>5, <5>6
        <5>7. CASE Entry(first, i).freq = dsp[i]
          <6>1. dsp[i] # None
            <7>1. Entry(first, i) \in Channel
              BY <4>3, Members
            <7> QED
              BY <5>7, <7>1 DEF Channel, VirtualChannelsAssumption
          <6>2. Entry(list, i) = Entry(first, i) \/ Entry(list, i).bm # None
            BY <1>2, <4>3, <5>5
          <6>3. dsp'[i] = IF Entry(list, i).bm # None
                             /\ Entry(list, i).freq # Entry(first, i).freq /\ dsp[i] # None
                          THEN Entry(list, i).freq ELSE dsp[i]
            BY <1>9, <2>5, <4>3
          <6> QED
            BY <5>7, <6>1, <6>2, <6>3
        <5> QED
          BY <5>4, <5>6, <5>7
      <4> QED
        BY <4>1, <4>2, <4>3
    <3>3. Says(i, dsp[i], TRUE)'
      BY <1>8, <2>3, <3>2 DEF Says
    <3> QED
      BY <2>1, <3>1, <3>3, NobodyOwes
  <2> QED
    BY <2>4, <2>5
\* The others stay as they are, but a primary channel nobody knew.
<1>16. ASSUME NEW i \in Ids \ crossed', i \notin Touched(first, list) PROVE Told(i)'
  <2>1. /\ i \in IdsOf(first) <=> i \in IdsOf(list)
        /\ i \in IdsOf(first) => Entry(list, i) = Entry(first, i)
    BY <1>2, <1>16, Untouched
  <2>2. dsp'[i] = dsp[i]
    BY <1>9, <2>1
  <2>3. CASE i < nextId
    <3>1. Keeps(i, first, list)
      <4>1. First(first, i) => i \in IdsOf(first)
        BY Members
      <4>2. First(first, i) => First(list, i)
        BY <1>2, <1>14, <2>1, <4>1
      <4> QED
        BY <2>1, <4>2 DEF Keeps
    <3>2. Keeps(i, channels[r], channels'[r])
      BY <1>8, <2>3, <3>1, KeepsTwice
    <3>3. \A q \in Rigs : Keeps(i, channels[q], channels'[q])
      BY <1>8, <3>2, OtherRigs
    <3>4. Told(i)
      BY <1>10 DEF Sending
    <3> QED
      BY <1>11, <2>2, <3>3, <3>4, ToldKept
  <2>4. CASE ~(i < nextId)
    <3>1. \A u \in Threads : ~Owes(u, i)'
      BY <1>11, <2>4 DEF SameDuty, Sending
    <3>2. \A q \in Rigs : i \notin IdsOf(channels[q])
      BY <2>4 DEF Lists
    <3>3. CASE i \in IdsOf(list)
      <4>1. Listed(i)'
        BY <1>8, <3>3 DEF Listed
      <4>2. First(list, i)
        BY <1>3, <1>4, <1>5, <2>1, <2>4, <3>3
      <4>3. Says(i, dsp[i], TRUE)'
        BY <1>8, <3>2, <4>2 DEF Says
      <4> QED
        BY <3>1, <4>1, <4>3, NobodyOwes
    <3>4. CASE i \notin IdsOf(list)
      <4>1. \A q \in Rigs : Keeps(i, channels[q], channels'[q])
        <5>1. Keeps(i, channels[r], channels'[r])
          <6>1. ~First(channels[r], i)
            BY <3>2, Members DEF Lists
          <6> QED
            BY <1>8, <3>2, <3>4, <6>1 DEF Keeps
        <5> QED
          BY <1>8, <5>1, OtherRigs
      <4>2. Told(i)
        BY <1>10 DEF Sending
      <4> QED
        BY <1>11, <2>2, <4>1, <4>2, ToldKept
    <3> QED
      BY <3>3, <3>4
  <2> QED
    BY <2>3, <2>4
<1>17. ASSUME NEW u \in Threads, NEW i \in Ids, Owes(u, i)' PROVE i < nextId'
  <2>1. i < nextId
    BY <1>11, <1>17 DEF Sending, SameDuty
  <2> QED
    BY <1>3, <1>4, <1>7, <2>1
<1>18. Sending'
  BY <1>15, <1>16, <1>17 DEF Sending
<1> QED
  BY <1>7, <1>8, <1>9, <1>10, <1>12, <1>18

LEMMA OpenKeeps ==
    ASSUME VirtualChannelsAssumption, ChannelsInd, NEW s \in Sessions, Open(s)
    PROVE  ChannelsInd'
<1> USE DEF ChannelsInd
<1>r. PICK r : r = stream[s]
  OBVIOUS
<1>f. PICK first : first = WithPrimary(channels[r], dial[r])
  OBVIOUS
<1>n. PICK n : n = nextId + (Len(first) - Len(channels[r]))
  OBVIOUS
<1>l. PICK list : list = Synced(first, Want(r), n)
  OBVIOUS
<1>1. /\ phase[s] = "connecting" /\ nextId + Cardinality(Bookmarks) <= MaxIds
      /\ phase' = [phase EXCEPT ![s] = "live"] /\ rigOf' = [rigOf EXCEPT ![s] = r]
      /\ channels' = [channels EXCEPT ![r] = list] /\ dsp' = Commanded(first, list)
      /\ nextId' = nextId + Cardinality(IdsOf(list) \ IdsOf(channels[r]))
      /\ Cross(Touched(first, list))
      /\ smap' = smap /\ control' = control /\ stream' = stream /\ clients' = clients
      /\ dial' = dial /\ desired' = desired /\ ops' = ops /\ requests' = requests
      /\ changes' = changes /\ strayed' = strayed
  BY <1>r, <1>f, <1>n, <1>l DEF Open, env
<1>2. /\ r \in Rigs /\ dial[r] \in Freqs
      /\ Tidy(channels[r]) /\ Owned(channels[r]) /\ Len(channels[r]) <= MaxChannels
      /\ \A i \in IdsOf(channels[r]) : i < nextId
  BY <1>1, <1>r DEF OpenStreams, Plain, Lists
<1>3. /\ nextId \in Nat /\ nextId >= 1 /\ MaxIds \in Nat /\ MaxChannels \in Nat /\ MaxChannels >= 1
      /\ Cardinality(Bookmarks) \in Nat /\ nextId \in Ids /\ \A i \in Ids : i \in Nat
  BY <1>1, FS_CardinalityType DEF Plain, VirtualChannelsAssumption, Ids
<1>4. /\ n \in Nat \ {0} /\ nextId <= n /\ n + Cardinality(Bookmarks) <= MaxIds + 1
      /\ Tidy(first) /\ Owned(first) /\ Len(first) <= MaxChannels
      /\ \A i \in IdsOf(first) : i < n
      /\ IdsOf(first) = IdsOf(channels[r]) \cup (nextId..(n - 1))
      /\ \A c \in ToSet(first) : c.id >= nextId => c.bm = None /\ First(first, c.id)
      /\ \A i : i < nextId => Keeps(i, channels[r], first)
      /\ \A u : HeldIn(first, u) => HeldIn(channels[r], u)
  <2>1. CASE channels[r] = <<>>
    <3>2. first = <<[id |-> nextId, freq |-> dial[r], permanent |-> TRUE, bm |-> None, sids |-> {}]>>
      BY <1>f, <2>1 DEF WithPrimary
    <3>3. /\ Tidy(first) /\ Owned(first) /\ Len(first) = 1 /\ IdsOf(first) = {nextId}
          /\ First(first, nextId) /\ \A c \in ToSet(first) : c.bm = None /\ c.id = nextId
          /\ \A u : ~HeldIn(first, u)
      BY <1>2, <1>3, <3>2, PrimaryList
    <3>4. n = nextId + 1 /\ IdsOf(channels[r]) = {}
      BY <1>n, <1>3, <2>1, <3>3 DEF IdsOf
    <3>5. nextId..(n - 1) = {nextId}
      BY <1>3, <3>4
    <3>6. IdsOf(first) = IdsOf(channels[r]) \cup (nextId..(n - 1))
      BY <3>3, <3>4, <3>5
    <3>7. \A i : i < nextId => Keeps(i, channels[r], first)
      <4>1. \A i : ~First(channels[r], i)
        BY <2>1 DEF First
      <4>2. ~(nextId < nextId)
        BY <1>3
      <4> QED
        BY <3>3, <3>4, <4>1, <4>2 DEF Keeps
    <3>8. \A i \in IdsOf(first) : i < n
      BY <1>3, <3>3, <3>4
    <3>9. n \in Nat \ {0} /\ nextId <= n /\ n + Cardinality(Bookmarks) <= MaxIds + 1
      BY <1>1, <1>3, <3>4
    <3>10. Len(first) <= MaxChannels
      BY <1>3, <3>3
    <3>11. \A c \in ToSet(first) : c.id >= nextId => c.bm = None /\ First(first, c.id)
      BY <3>3
    <3> QED
      BY <3>3, <3>6, <3>7, <3>8, <3>9, <3>10, <3>11
  <2>2. CASE channels[r] # <<>>
    <3>1. first = channels[r]
      BY <1>f, <2>2 DEF WithPrimary
    <3>2. n = nextId
      <4>1. Len(channels[r]) \in Nat
        BY <1>2, ListDomain DEF Tidy
      <4> QED
        BY <1>n, <1>3, <3>1, <4>1
    <3>3. nextId..(n - 1) = {}
      BY <1>3, <3>2
    <3>4. \A c \in ToSet(first) : ~(c.id >= nextId)
      <4>1. \A c \in ToSet(first) : c.id < nextId /\ c.id \in Nat
        BY <1>2, <1>3, <3>1, Members
      <4> QED
        BY <1>3, <4>1
    <3>5. n \in Nat \ {0} /\ nextId <= n /\ n + Cardinality(Bookmarks) <= MaxIds + 1
      BY <1>1, <1>3, <3>2
    <3>6. \A i : Keeps(i, channels[r], first)
      BY <3>1, KeepsItself
    <3> QED
      BY <1>2, <3>1, <3>2, <3>3, <3>4, <3>5, <3>6
  <2> QED
    BY <2>1, <2>2
<1>5. /\ Lists' /\ Sending'
      /\ dsp' \in [Ids -> Freqs \cup {None}] /\ nextId' \in 1..(MaxIds + 1) /\ crossed' \subseteq Ids
      /\ \A u : \A q \in Rigs : HeldIn(channels'[q], u) => HeldIn(channels[q], u)
  <2>1. ChannelsInd
    OBVIOUS
  <2> QED
    BY ONLY VirtualChannelsAssumption, <1>1, <1>2, <1>4, <1>l, <2>1, Resynced
<1>6. /\ phase'[s] = "live" /\ \A u \in Sessions : u # s => phase'[u] = phase[u]
  BY <1>1 DEF Plain
<1>7. Plain'
  <2>1. phase' \in [Sessions -> {"new", "connecting", "live", "gone", "lost"}]
    BY <1>1 DEF Plain
  <2>2. rigOf' \in [Sessions -> Rigs \cup {None}]
    BY <1>1, <1>2 DEF Plain
  <2> QED
    BY <1>1, <1>5, <2>1, <2>2 DEF Plain
<1>8. Formed'
  <2>1. \A u \in Sessions : phase[u] = "gone" => phase'[u] = "gone"
    BY <1>1, <1>6
  <2> QED
    BY <1>1, <2>1, FormedStays
<1>9. OpenStreams'
  <2>1. Streaming' = Streaming
    BY <1>1, <1>6 DEF Streaming
  <2>2. \A u \in Sessions : stream'[u] = stream[u] /\ (phase'[u] # "new" => phase[u] # "new")
    BY <1>1, <1>6
  <2> QED
    BY <1>1, <2>1, <2>2 DEF OpenStreams
<1>10. ASSUME NEW u \in Sessions, ~Strayed(u)' PROVE Traced(u)'
  <2>1. Traced(u)
    BY <1>1, <1>10, StrayedStays DEF Tracked
  <2>2. CASE u = s
    <3>1. \A q \in Rigs : ~HeldIn(channels'[q], s)
      BY <1>1, <1>5, <2>1, <2>2 DEF Traced
    <3>2. phase'[s] = "live"
      BY <1>6
    <3>3. Traced(s)'
      BY ONLY <3>1, <3>2 DEF Traced
    <3> QED
      BY ONLY <2>2, <3>3
  <2>3. CASE u # s
    <3>1. phase'[u] = phase[u]
      BY <1>6, <2>3
    <3> QED
      BY <1>1, <1>5, <2>1, <3>1, TracedKept DEF Mapping, Releasing
  <2> QED
    BY <2>2, <2>3
<1> QED
  BY <1>5, <1>7, <1>8, <1>9, <1>10 DEF Tracked

LEMMA StateUpdateKeeps ==
    ASSUME VirtualChannelsAssumption, ChannelsInd, NEW s \in Sessions, StateUpdate(s)
    PROVE  ChannelsInd'
<1> USE DEF ChannelsInd
<1>r. PICK r : r = rigOf[s]
  OBVIOUS
<1>f. PICK first : first = Mirrored(channels[r], dial[stream[s]])
  OBVIOUS
<1>l. PICK list : list = Synced(first, Want(r), nextId)
  OBVIOUS
<1>1. /\ phase[s] = "live" /\ r # None /\ nextId + Cardinality(Bookmarks) <= MaxIds + 1
      /\ channels[r] # <<>>
      /\ channels' = [channels EXCEPT ![r] = list] /\ dsp' = Commanded(first, list)
      /\ nextId' = nextId + Cardinality(IdsOf(list) \ IdsOf(first))
      /\ Cross(Touched(first, list))
      /\ smap' = smap /\ control' = control /\ rigOf' = rigOf /\ stream' = stream
      /\ phase' = phase /\ clients' = clients
      /\ dial' = dial /\ desired' = desired /\ ops' = ops /\ requests' = requests
      /\ changes' = changes /\ strayed' = strayed
  BY <1>r, <1>f, <1>l DEF StateUpdate, env, tab
<1>2. /\ r \in Rigs /\ dial[stream[s]] \in Freqs
      /\ Tidy(channels[r]) /\ Owned(channels[r]) /\ Len(channels[r]) <= MaxChannels
      /\ \A i \in IdsOf(channels[r]) : i < nextId
  <2>1. r \in Rigs /\ stream[s] \in Rigs
    BY <1>1, <1>r DEF OpenStreams, Plain
  <2> QED
    BY <2>1 DEF Plain, Lists
<1>3. /\ nextId \in Nat \ {0} /\ nextId <= nextId /\ \A i \in Ids : i \in Nat
  BY DEF Plain, Ids
<1>4. /\ Tidy(first) /\ Owned(first) /\ Len(first) <= MaxChannels
      /\ IdsOf(first) = IdsOf(channels[r])
      /\ \A i \in IdsOf(first) : i < nextId
      /\ \A i : i < nextId => Keeps(i, channels[r], first)
      /\ \A u : HeldIn(first, u) => HeldIn(channels[r], u)
  BY <1>1, <1>2, <1>f, MirroredList
<1>5. /\ IdsOf(first) = IdsOf(channels[r]) \cup (nextId..(nextId - 1))
      /\ \A c \in ToSet(first) : c.id >= nextId => c.bm = None /\ First(first, c.id)
  <2>1. nextId..(nextId - 1) = {}
    BY <1>3
  <2>2. \A c \in ToSet(first) : ~(c.id >= nextId)
    <3>1. \A c \in ToSet(first) : c.id < nextId /\ c.id \in Nat
      BY <1>3, <1>4, Members
    <3> QED
      BY <1>3, <3>1
  <2> QED
    BY <1>4, <2>1, <2>2
<1>6. /\ Lists' /\ Sending'
      /\ dsp' \in [Ids -> Freqs \cup {None}] /\ nextId' \in 1..(MaxIds + 1) /\ crossed' \subseteq Ids
      /\ \A u : \A q \in Rigs : HeldIn(channels'[q], u) => HeldIn(channels[q], u)
  <2>1. ChannelsInd /\ nextId' = nextId + Cardinality(IdsOf(list) \ IdsOf(channels[r]))
    BY <1>1, <1>4
  <2> QED
    BY ONLY VirtualChannelsAssumption, <1>1, <1>2, <1>3, <1>4, <1>5, <1>l, <2>1, Resynced
<1>7. Plain'
  BY <1>1, <1>6 DEF Plain
<1>8. Formed' /\ OpenStreams'
  BY <1>1, PhasesStay, FormedStays, OpenStreamsStay
<1>9. ASSUME NEW u \in Sessions, ~Strayed(u)' PROVE Traced(u)'
  <2>1. Traced(u)
    BY <1>1, <1>9, StrayedStays DEF Tracked
  <2> QED
    BY <1>1, <1>6, <2>1, TracedKept DEF Mapping, Releasing
<1> QED
  BY <1>6, <1>7, <1>8, <1>9 DEF Tracked

(***************************************************************************)
(* The invariant holds at first, is kept, and says what is checked.        *)
(***************************************************************************)
LEMMA ChannelsInit == ASSUME VirtualChannelsAssumption, Init PROVE ChannelsInd
<1>0. /\ MaxChannels \in Nat \ {0} /\ MaxIds \in Nat /\ Budgets \subseteq Nat \X Nat
  BY DEF VirtualChannelsAssumption
<1>1. /\ \A r \in Rigs : channels[r] = <<>>
      /\ \A t \in Threads : ops[t] = None
      /\ \A i \in Ids : dsp[i] = None
      /\ \A s \in Sessions : /\ smap[s] = None /\ control[s] = None /\ phase[s] = "new"
  BY DEF Init
<1>2. IdsOf(<<>>) = {} /\ \A s : ~HeldIn(<<>>, s)
  BY DEF IdsOf, HeldIn, ToSet
<1>3. Tidy(<<>>) /\ Owned(<<>>) /\ Len(<<>>) = 0
  BY DEF Tidy, Owned, ToSet
<1>4. Plain
  <2>1. PICK b \in Budgets : requests = b[1] /\ changes = b[2]
    BY DEF Init
  <2>2. <<requests, changes>> \in Nat \X Nat
    BY <1>0, <2>1
  <2>3. nextId \in 1..(MaxIds + 1)
    BY <1>0 DEF Init
  <2> QED
    BY <2>2, <2>3 DEF Plain, Init
<1>5. Lists
  <2>1. channels \in [Rigs -> Seq(Channel)]
    BY DEF Init
  <2> QED
    BY <1>0, <1>1, <1>2, <1>3, <2>1 DEF Lists
<1>6. Formed
  BY <1>1 DEF Formed, Init, Threads
<1>7. Sending
  <2>1. \A t \in Threads : \A i \in Ids : ~Owes(t, i)
    BY <1>1 DEF Owes
  <2>2. \A i \in Ids : ~Listed(i)
    BY <1>1, <1>2 DEF Listed
  <2>3. ASSUME NEW i \in Ids PROVE Told(i)
    <3>1. Says(i, dsp[i], TRUE)
      BY <2>2, NotListed
    <3> QED
      BY <1>1, <2>1, <2>2, <3>1 DEF Told
  <2> QED
    BY <2>1, <2>3 DEF Sending
<1>8. Tracked
  <2>1. ASSUME NEW s \in Sessions PROVE Traced(s)
    <3>1. \A r \in Rigs : ~HeldIn(channels[r], s)
      BY <1>1, <1>2
    <3> QED
      BY <1>1, <3>1 DEF Traced
  <2> QED
    BY <2>1 DEF Tracked
<1>9. OpenStreams
  <2>1. Streaming = {}
    BY <1>1 DEF Streaming
  <2>2. IsFiniteSet(Streaming) /\ Cardinality(Streaming) = 0
    BY <2>1, FS_EmptySet
  <2>3. clients = 0
    BY DEF Init
  <2> QED
    BY <1>1, <2>2, <2>3 DEF OpenStreams
<1> QED
  BY <1>4, <1>5, <1>6, <1>7, <1>8, <1>9 DEF ChannelsInd

LEMMA ChannelsNext ==
    ASSUME VirtualChannelsAssumption, ChannelsInd, [Next]_vars
    PROVE  ChannelsInd'
<1>1. ASSUME NEW s \in Sessions,
             \/ \E r \in Rigs : Connect(s, r) \/ Select(s, r)
             \/ ConnectLost(s) \/ Drop(s) \/ Stream(s)
             \/ \E b \in BOOLEAN : ControlPut(s, b)
      PROVE  ChannelsInd'
  <2>1. ASSUME NEW r \in Rigs, Connect(s, r) \/ Select(s, r) PROVE ChannelsInd'
    BY <2>1, ConnectKeeps, SelectKeeps
  <2>2. ASSUME ConnectLost(s) \/ Drop(s) PROVE ChannelsInd'
    BY <2>2, ConnectLostKeeps, DropKeeps
  <2>3. ASSUME Stream(s) PROVE ChannelsInd'
    BY <2>3, OpenKeeps, StateUpdateKeeps DEF Stream
  <2>4. ASSUME NEW b \in BOOLEAN, ControlPut(s, b) PROVE ChannelsInd'
    BY <2>4, ControlPutKeeps
  <2> QED
    BY <1>1, <2>1, <2>2, <2>3, <2>4
<1>2. ASSUME NEW t \in Workers, NEW r \in Rigs,
             \/ \E s \in Sessions : \/ \E f \in Freqs : Allocate(t, s, r, f)
                                    \/ \E id \in Ids : Subscribe(t, s, r, id)
             \/ \E id \in Ids : \/ Delete(t, r, id) \/ Destroyed(t, r, id)
                                \/ \E f \in Freqs : SetChannel(t, r, id, f)
      PROVE  ChannelsInd'
  <2>1. ASSUME NEW s \in Sessions, NEW f \in Freqs, Allocate(t, s, r, f) PROVE ChannelsInd'
    BY <2>1, AllocateKeeps
  <2>2. ASSUME NEW s \in Sessions, NEW id \in Ids, Subscribe(t, s, r, id) PROVE ChannelsInd'
    BY <2>2, SubscribeKeeps
  <2>3. ASSUME NEW id \in Ids, Delete(t, r, id) \/ Destroyed(t, r, id) PROVE ChannelsInd'
    BY <2>3, DeleteKeeps, DestroyedKeeps
  <2>4. ASSUME NEW id \in Ids, NEW f \in Freqs, SetChannel(t, r, id, f) PROVE ChannelsInd'
    BY <2>4, SetChannelKeeps
  <2> QED
    BY <1>2, <2>1, <2>2, <2>3, <2>4
<1>3. ASSUME NEW t \in Threads, Step(t) PROVE ChannelsInd'
  <2>1. ASSUME Find(t) \/ Map(t) \/ Own(t) \/ TuneRig(t) PROVE ChannelsInd'
    BY <2>1, FindKeeps, MapKeeps, OwnKeeps, TuneRigKeeps
  <2>2. ASSUME Evict(t) \/ SendRemoves(t) \/ SendTune(t) PROVE ChannelsInd'
    BY <2>2, EvictKeeps, SendRemovesKeeps, SendTuneKeeps
  <2>3. ASSUME t \in Sessions, DropRelease(t) \/ Unregister(t) PROVE ChannelsInd'
    BY <2>3, DropReleaseKeeps, UnregisterKeeps
  <2> QED
    BY <1>3, <2>1, <2>2, <2>3 DEF Step
<1>4. ASSUME NEW r \in Rigs,
             \/ \E f \in Freqs : TurnDial(r, f)
             \/ \E b \in Bookmarks, f \in Freqs \cup {None} : ScheduleMoves(r, b, f)
      PROVE  ChannelsInd'
  BY <1>4, WorldKeeps
<1>5. CASE UNCHANGED vars
  <2>1. /\ channels' = channels /\ smap' = smap /\ dsp' = dsp /\ control' = control
        /\ rigOf' = rigOf /\ stream' = stream /\ phase' = phase /\ clients' = clients
        /\ dial' = dial /\ desired' = desired /\ ops' = ops /\ nextId' = nextId
        /\ requests' = requests /\ changes' = changes /\ crossed' = crossed
        /\ strayed' = strayed
    BY <1>5 DEF vars, reg, tab, env, bounds
  <2>2. Plain' /\ Lists' /\ Tracked' /\ OpenStreams'
    BY <2>1, ListsStay, TrackedStays, OpenStreamsStay DEF ChannelsInd, Plain
  <2>3. Formed' /\ \A u \in Threads : \A i \in Ids : SameDuty(u, i)
    BY <2>1, FormedStays DEF ChannelsInd
  <2>4. Sending'
    BY <2>1, <2>3, SendingStays DEF ChannelsInd
  <2> QED
    BY <2>2, <2>3, <2>4 DEF ChannelsInd
<1> QED
  BY <1>1, <1>2, <1>3, <1>4, <1>5 DEF Next

LEMMA AsManyIds ==
    ASSUME NEW list, Tidy(list)
    PROVE  Cardinality(IdsOf(list)) = Len(list)
<1> DEFINE n == Len(list)
           f == [i \in 1..n |-> list[i].id]
<1>1. n \in Nat /\ DOMAIN list = 1..n
  BY ListDomain DEF Tidy
<1>2. f \in [1..n -> IdsOf(list)]
  BY <1>1 DEF IdsOf
<1>3. \A i, j \in 1..n : f[i] = f[j] => i = j
  BY <1>1 DEF Tidy
<1>4. \A x \in IdsOf(list) : \E i \in 1..n : f[i] = x
  BY <1>1 DEF IdsOf
<1> HIDE DEF f
<1>5. f \in Injection(1..n, IdsOf(list))
  BY <1>2, <1>3 DEF Injection, IsInjective
<1>6. f \in Surjection(1..n, IdsOf(list))
  BY <1>2, <1>4 DEF Surjection
<1>7. ExistsBijection(1..n, IdsOf(list))
  BY <1>5, <1>6 DEF ExistsBijection, Bijection
<1> QED
  BY <1>1, <1>7, FS_CountingElements

LEMMA ChannelsSafe ==
    ASSUME VirtualChannelsAssumption, ChannelsInd
    PROVE  ChannelsInv
<1> USE DEF ChannelsInd
<1>1. TypeOK
  <2>1. clients \in Nat
    BY FS_CardinalityType DEF OpenStreams
  <2> QED
    BY <2>1 DEF TypeOK, Plain, Lists, Formed
<1>2. UserChannelsOwned
  BY DEF UserChannelsOwned, Lists, Owned
<1>3. WithinCap
  BY AsManyIds DEF WithinCap, Lists
<1>4. PrimaryLeads
  BY DEF PrimaryLeads, Lists, Tidy
<1>5. HeldWhereMapped
  <2> SUFFICES ASSUME NEW s \in Sessions, NEW r \in Rigs, ~Strayed(s),
                      \E c \in ToSet(channels[r]) : s \in c.sids, Idle(s)
               PROVE  \/ smap[s] # None /\ smap[s].rig = r
                      \/ \E t \in Workers : At(t, "map") /\ ops[t].sid = s /\ ops[t].rig = r
    BY DEF HeldWhereMapped
  <2>1. Traced(s) /\ HeldIn(channels[r], s)
    BY DEF Tracked, HeldIn
  <2>2. ~Releasing(s, r)
    BY DEF Releasing, Idle
  <2>3. \A t \in Workers : Mapping(t, s, r) => At(t, "map") /\ ops[t].sid = s /\ ops[t].rig = r
    BY DEF Mapping, At
  <2> QED
    BY <2>1, <2>2, <2>3 DEF Traced
<1>6. GoneHoldsNothing
  <2> SUFFICES ASSUME NEW s \in Sessions, phase[s] = "gone", ~Served(s), ~Strayed(s),
                      NEW r \in Rigs, HeldIn(channels[r], s)
               PROVE  FALSE
    BY DEF GoneHoldsNothing, Holds, HeldIn
  <2>1. Traced(s) /\ smap[s] = None
    BY DEF Tracked, Traced
  <2>2. \A t \in Threads : ops[t] # None => ops[t].sid # s
    BY DEF Served, Idle
  <2>3. s \in Threads /\ Workers \subseteq Threads
    BY DEF Threads
  <2>4. ops[s] = None
    BY <2>2, <2>3 DEF Formed, OpOf
  <2>5. ~Releasing(s, r) /\ ~ \E t \in Workers : Mapping(t, s, r)
    BY <2>2, <2>3, <2>4 DEF Releasing, Mapping
  <2> QED
    BY <2>1, <2>5 DEF Traced
<1>7. ServerMatches
  <2> SUFFICES ASSUME Quiet, NEW i \in Ids \ crossed
               PROVE  /\ (\A r \in Rigs : i \notin IdsOf(channels[r])) => dsp[i] = None
                      /\ \A r \in Rigs : i \in IdsOf(channels[r]) =>
                            channels[r][1].id = i \/ dsp[i] = Entry(channels[r], i).freq
    BY DEF ServerMatches
  <2>1. \A t \in Threads : ~Owes(t, i)
    BY DEF Quiet, Idle, Owes
  <2>2. Says(i, dsp[i], TRUE) /\ (~Listed(i) => dsp[i] = None)
    BY <2>1 DEF Sending, Told
  <2> QED
    BY <2>2 DEF Says, Listed, First
<1>8. NobodyMeansAllowed
  <2> SUFFICES ASSUME \A s \in Sessions : phase[s] # "live" /\ Idle(s), strayed = {},
                      NEW s \in Sessions, control[s] # None
               PROVE  control[s]
    BY DEF NobodyMeansAllowed, SchedulerAllowed, Connected
  <2>1. Traced(s)
    BY DEF Tracked, Strayed
  <2>2. phase[s] \in {"new", "connecting", "gone", "lost"} /\ ops[s] = None
    BY DEF Plain, Idle
  <2>3. phase[s] = "new" \/ phase[s] = "gone" => control[s] = None
    BY <2>1, <2>2, Zenon DEF Traced
  <2>4. phase[s] \in {"connecting", "lost"} => control[s] = TRUE
    BY <2>1, Zenon DEF Traced
  <2>5. phase[s] = "new" \/ phase[s] = "gone" \/ phase[s] \in {"connecting", "lost"}
    BY <2>2
  <2> QED
    BY <2>3, <2>4, <2>5, Zenon
<1> QED
  BY <1>1, <1>2, <1>3, <1>4, <1>5, <1>6, <1>7, <1>8 DEF ChannelsInv

\* Whatever the tabs, the routes, the drops and the server do, and in whichever
\* order their critical sections run: no channel of a user outlives its last
\* listener, a tab that did not stray leaves nothing behind, and the server has
\* been asked for what the lists say (vchan.rs, ClientChannelManager).
THEOREM ChannelsHold == Spec => []ChannelsInv
<1> USE VirtualChannelsAssumption
<1>1. Init => ChannelsInd
  BY ChannelsInit
<1>2. ChannelsInd /\ [Next]_vars => ChannelsInd'
  BY ChannelsNext
<1>3. ChannelsInd => ChannelsInv
  BY ChannelsSafe
<1> QED
  BY <1>1, <1>2, <1>3, PTL DEF Spec
=============================================================================
