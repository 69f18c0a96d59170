------------------------------ MODULE Listener ------------------------------
(* The JSON listener of the server (listener.rs): its accept loop with the  *)
(* slots an address has, what a handler answers without a rig, the cached   *)
(* satellite passes, and the meter stream a connection can become. What a   *)
(* handler does with a command for a rig is module CommandQueue.            *)
EXTENDS Integers, FiniteSets

CONSTANTS Handlers,    \* connections
          Addresses,   \* where they come from
          Slots,       \* connections an address may have (10)
          PassesKept,  \* ticks a prediction is served again (60 s)
          Patience,    \* ticks a prediction may take (30 s)
          NoPasses,    \* nothing predicted yet
          MaxTicks, MaxAccepts, MaxPanics \* bounds

ASSUME ListenerAssumption ==
    /\ {Slots, MaxAccepts} \subseteq Nat \ {0}
    /\ {PassesKept, Patience, MaxTicks, MaxPanics} \subseteq Nat

VARIABLES
    listening,  \* the accept loop runs
    client,     \* [at, from, since, told] of each connection: times of its passes
    slots,      \* the tracker: connections counted for each address
    forecast,   \* the cache: [began, kept] or NoPasses
    tick, accepts, panics, \* bounded counters
    leaked      \* history: handlers of each address that have panicked

listenerVars == <<listening, client, slots, forecast, tick, accepts, panics, leaked>>

Alive == {h \in Handlers : client[h].at # "none"}
Nobody == [at |-> "none", since |-> 0, told |-> 0]

ListenerTypeOK ==
    /\ listening \in BOOLEAN
    /\ \A h \in Handlers :
          /\ client[h].at \in {"none", "read", "reply", "predict", "passes", "rig", "meter"}
          /\ client[h].since \in 0..MaxTicks /\ client[h].told \in 0..MaxTicks
          /\ h \in Alive => client[h].from \in Addresses
    /\ slots \in [Addresses -> 0..Slots]
    /\ forecast # NoPasses => {forecast.began, forecast.kept} \subseteq 0..tick
    /\ tick \in 0..MaxTicks /\ accepts \in 0..MaxAccepts /\ panics \in 0..MaxPanics
    /\ leaked \in [Addresses -> 0..MaxPanics]

ListenerInit ==
    /\ listening = TRUE
    /\ client = [h \in Handlers |-> Nobody]
    /\ slots = [a \in Addresses |-> 0]
    /\ forecast = NoPasses
    /\ tick = 0 /\ accepts = 0 /\ panics = 0
    /\ leaked = [a \in Addresses |-> 0]

counters == <<tick, accepts, panics, leaked>>

\* The timeout of a prediction fires in time.
Ticks ==
    /\ tick < MaxTicks
    /\ \A h \in Alive : client[h].at = "predict" => tick - client[h].since < Patience
    /\ tick' = tick + 1
    /\ UNCHANGED <<listening, client, slots, forecast, accepts, panics, leaked>>

-----------------------------------------------------------------------------
(* The accept loop and the end of a handler.                                *)

\* Mutant: an address may take one slot too many.
AcceptClient_OffByOne(h, a) ==
    /\ listening /\ client[h].at = "none" /\ accepts < MaxAccepts
    /\ accepts' = accepts + 1
    /\ IF slots[a] > Slots THEN UNCHANGED <<client, slots>>
       ELSE /\ slots' = [slots EXCEPT ![a] = @ + 1]
            /\ client' = [client EXCEPT ![h] = [at |-> "read", from |-> a, since |-> 0, told |-> 0]]
    /\ UNCHANGED <<listening, forecast, tick, panics, leaked>>

\* try_acquire: without a free slot the connection is dropped.
AcceptClient(h, a) ==
    /\ listening /\ client[h].at = "none" /\ accepts < MaxAccepts
    /\ accepts' = accepts + 1
    /\ IF slots[a] >= Slots THEN UNCHANGED <<client, slots>>
       ELSE /\ slots' = [slots EXCEPT ![a] = @ + 1]
            /\ client' = [client EXCEPT ![h] = [at |-> "read", from |-> a, since |-> 0, told |-> 0]]
    /\ UNCHANGED <<listening, forecast, tick, panics, leaked>>

\* The loop ends with the shutdown, and with the first accept that fails.
ListenerEnds ==
    /\ listening /\ listening' = FALSE
    /\ UNCHANGED <<client, slots, forecast, counters>>

\* release, in the task of the handler that has returned
Release(h) ==
    /\ slots' = [slots EXCEPT ![client[h].from] = IF @ > 0 THEN @ - 1 ELSE 0]
    /\ client' = [client EXCEPT ![h] = Nobody]
    /\ UNCHANGED <<listening, forecast, counters>>

\* The client leaves, sends a line that is too long or no UTF-8, is silent for too long or
\* does not take its answer in time; in the select the handler sees the shutdown.
HandlerEnds(h) ==
    /\ client[h].at \in {"read", "reply", "passes", "rig", "meter"} /\ Release(h)

\* A panic, as when the preview of a line that is no JSON would split a character, takes the
\* task away before it has given back the slot.
HandlerPanics(h) ==
    /\ client[h].at = "read" /\ panics < MaxPanics
    /\ panics' = panics + 1
    /\ leaked' = [leaked EXCEPT ![client[h].from] = @ + 1]
    /\ client' = [client EXCEPT ![h] = Nobody]
    /\ UNCHANGED <<listening, slots, forecast, tick, accepts>>

-----------------------------------------------------------------------------
(* Lines.                                                                   *)

HandlerGoes(h, at) ==
    /\ client' = [client EXCEPT ![h].at = at]
    /\ UNCHANGED <<listening, slots, forecast, counters>>

\* No JSON, no valid token, an unknown rig, a list of the rigs or a snapshot from the watch
\* channel: answered at once. An empty line is skipped.
AnswersItself(h) == client[h].at = "read" /\ HandlerGoes(h, "reply")
HandsOver(h) == client[h].at = "read" /\ HandlerGoes(h, "rig")
Replied(h) == client[h].at \in {"reply", "passes", "rig"} /\ HandlerGoes(h, "read")

\* SubscribeMeter: the handler reads no more lines. A client that has left is noticed when
\* the next sample cannot be written.
Streams(h) == client[h].at = "read" /\ HandlerGoes(h, "meter")

Fresh == forecast # NoPasses /\ tick - forecast.kept < PassesKept

\* GetSatPasses: the lock is not held while a prediction is computed.
AsksPasses(h) ==
    /\ client[h].at = "read"
    /\ client' = [client EXCEPT ![h] =
          IF Fresh THEN [@ EXCEPT !.at = "passes", !.since = tick, !.told = forecast.began]
          ELSE [@ EXCEPT !.at = "predict", !.since = tick]]
    /\ UNCHANGED <<listening, slots, forecast, counters>>

\* Computed, or given up after its timeout: kept and served in either case.
Predicted(h) ==
    /\ client[h].at = "predict"
    /\ forecast' = [began |-> client[h].since, kept |-> tick]
    /\ client' = [client EXCEPT ![h] =
          [@ EXCEPT !.at = "passes", !.since = tick, !.told = client[h].since]]
    /\ UNCHANGED <<listening, slots, counters>>

ListenerNext ==
    \/ Ticks \/ ListenerEnds
    \/ \E h \in Handlers :
          \/ \E a \in Addresses : AcceptClient(h, a)
          \/ HandlerEnds(h) \/ HandlerPanics(h)
          \/ AnswersItself(h) \/ HandsOver(h) \/ Replied(h) \/ Streams(h)
          \/ AsksPasses(h) \/ Predicted(h)

ListenerSpec == ListenerInit /\ [][ListenerNext]_listenerVars

-----------------------------------------------------------------------------
(* Properties.                                                              *)

\* An address never has more connections than it may, and the tracker counts exactly the
\* handlers it has, and those that a panic has ended.
SlotsCounted ==
    \A a \in Addresses :
        LET mine == Cardinality({h \in Alive : client[h].from = a}) IN
        /\ mine <= Slots
        /\ slots[a] = mine + leaked[a]

\* However the predictions of several clients overlap, nobody is given passes that were
\* computed from data older than the life of the cache and of one computation.
PassesCurrent ==
    /\ \A h \in Alive :
          client[h].at = "passes" => client[h].told >= client[h].since - PassesKept - Patience
    /\ forecast # NoPasses => forecast.kept - forecast.began <= Patience

\* What holds of the listener at every moment.
ListenerInv == ListenerTypeOK /\ SlotsCounted /\ PassesCurrent
-----------------------------------------------------------------------------
(* The inductive invariant behind it (ListenerProofs).                      *)

Mine(a) == {h \in Alive : client[h].from = a}

\* A connection knows where it comes from, and its times are not in the future.
Talking == [at : {"read", "reply", "predict", "passes", "rig", "meter"}, from : Addresses,
            since : 0..tick, told : 0..tick]
Clients ==
    /\ client \in [Handlers -> Talking \cup {Nobody}] /\ IsFiniteSet(Alive)
    /\ tick \in 0..MaxTicks /\ listening \in BOOLEAN /\ accepts \in 0..MaxAccepts

Tracker ==
    /\ slots \in [Addresses -> 0..Slots] /\ panics \in 0..MaxPanics
    /\ leaked \in [Addresses -> 0..panics]
    /\ \A a \in Addresses : slots[a] = Cardinality(Mine(a)) + leaked[a]

\* A prediction under way is younger than its timeout, and so was the kept one.
Forecasts ==
    /\ \A h \in Alive :
          /\ client[h].at = "predict" => tick - client[h].since <= Patience
          /\ client[h].at = "passes" => client[h].told >= client[h].since - PassesKept - Patience
    /\ forecast # NoPasses =>
          /\ forecast.began \in 0..tick /\ forecast.kept \in 0..tick
          /\ forecast.kept - forecast.began <= Patience

ListenerInd == Clients /\ Tracker /\ Forecasts
=============================================================================
