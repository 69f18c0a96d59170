--------------------------- MODULE VirtualChannels ---------------------------
(* The registry of virtual channels of the http frontend (vchan.rs,        *)
(* ClientChannelManager) together with the event streams that own its      *)
(* channels: /events and its drop callback (api/sse.rs), the channel       *)
(* routes (api/vchan.rs), the selection of a rig per tab (api/rig.rs) and   *)
(* the table that says who holds the control of the rig                    *)
(* (SchedulerControlManager, scheduler.rs).                                *)
(*                                                                         *)
(* Every lock of the manager is taken and released on its own, so a        *)
(* request is a thread whose steps are its critical sections: another      *)
(* request runs between the change of the channel list, the change of the  *)
(* session table and the audio command it owes to the server.              *)
EXTENDS Naturals, Sequences, FiniteSets, SequencesExt

CONSTANTS Rigs, Sessions, Bookmarks, Freqs,
          Workers,       \* requests that may be served at the same time
          MaxChannels,    \* ClientChannelManager::max_channels
          MaxIds,         \* bound: channels ever created
          Budgets,        \* bounds, one pair per behaviour: requests of the tabs,
                          \* changes of the dials and of the schedule
          None

Ids == 1..MaxIds
Threads == Workers \cup Sessions     \* a drop callback is a thread as well
Channel == [id : Ids, freq : Freqs, permanent : BOOLEAN,
            bm : Bookmarks \cup {None}, sids : SUBSET Sessions]
Op == [kind : {"alloc", "sub", "drop", "delete", "destroyed", "set"},
       step : {"map", "send", "rm", "find", "own", "tune", "evict", "release",
               "unreg"},
       sid : Sessions \cup {None}, rig : Rigs \cup {None},
       id : Ids \cup {None}, freq : Freqs \cup {None},
       owes : SUBSET Ids,             \* commands still to be sent
       evicted : SUBSET Sessions]
Place == [rig : Rigs, id : Ids]       \* what the session table says

ASSUME VirtualChannelsAssumption ==
    /\ MaxChannels \in Nat \ {0} /\ MaxIds \in Nat
    /\ Budgets \subseteq Nat \X Nat
    /\ IsFiniteSet(Bookmarks)
    /\ None \notin Rigs \cup Sessions \cup Bookmarks \cup Freqs
    /\ None \notin Op /\ None \notin Place
    /\ Workers \cap Sessions = {}

VARIABLES
    channels,   \* rigs: per rig, the ordered list of channels
    smap,       \* sessions: the channel a session is mapped to, or None
    dsp,        \* what the audio commands sent so far ask of the server
    control,    \* SchedulerControlManager: released or not, None if unknown
    rigOf,      \* SessionRigManager: the rig selected by a session
    stream,     \* the rig whose state the stream of a session follows
    phase,      \* "new", "connecting", "live", "gone", "lost"
    clients,    \* the counter of open event streams
    dial,       \* the frequency each rig is really on
    desired,    \* the schedule of each rig: the frequency of its active bookmarks
    ops,        \* the request each thread is serving
    nextId, requests, changes,   \* the latter two: what is left
    crossed,    \* history: channels two requests worked on at once
    strayed     \* history: sessions that acted late or lost their mapping

reg == <<channels, smap, dsp, control, rigOf>>
tab == <<stream, phase, clients>>
env == <<dial, desired>>
bounds == <<nextId, requests, changes>>
vars == <<reg, tab, env, ops, bounds, crossed, strayed>>

TypeOK ==
    /\ channels \in [Rigs -> Seq(Channel)]
    /\ smap \in [Sessions -> Place \cup {None}]
    /\ dsp \in [Ids -> Freqs \cup {None}]
    /\ control \in [Sessions -> BOOLEAN \cup {None}]
    /\ rigOf \in [Sessions -> Rigs \cup {None}]
    /\ stream \in [Sessions -> Rigs \cup {None}]
    /\ phase \in [Sessions -> {"new", "connecting", "live", "gone", "lost"}]
    /\ clients \in Nat
    /\ dial \in [Rigs -> Freqs]
    /\ desired \in [Rigs -> [Bookmarks -> Freqs \cup {None}]]
    /\ ops \in [Threads -> Op \cup {None}]
    /\ nextId \in 1..(MaxIds + 1)
    /\ <<requests, changes>> \in Nat \X Nat
    /\ crossed \subseteq Ids /\ strayed \subseteq Sessions \X {"late", "lost"}

-----------------------------------------------------------------------------
(* The channel lists.                                                      *)

IdsOf(list) == {list[i].id : i \in DOMAIN list}
Registered == UNION {IdsOf(channels[r]) : r \in Rigs}
Entry(list, id) == list[CHOOSE i \in DOMAIN list : list[i].id = id]
Edit(list, id, ch) == [i \in DOMAIN list |-> IF list[i].id = id THEN ch ELSE list[i]]

\* What is left of a list without some channels, in its order.
Nth(places, k) == CHOOSE i \in places : Cardinality({j \in places : j <= i}) = k
Staying(list, gone) == {i \in DOMAIN list : list[i].id \notin gone}
Without(list, gone) ==
    [k \in 1..Cardinality(Staying(list, gone)) |-> list[Nth(Staying(list, gone), k)]]

\* A channel nobody keeps: neither the primary one nor the scheduler's.
Orphan(c) == ~c.permanent /\ c.bm = None /\ c.sids = {}

\* Mutant: the sweep is forgotten.
Released_NoSweep(list, s) == [i \in DOMAIN list |-> [list[i] EXCEPT !.sids = @ \ {s}]]

\* release_session_on_rig: the session leaves every channel of the rig, and
\* the channels that are left without an owner go.
Left(list, s) == [i \in DOMAIN list |-> [list[i] EXCEPT !.sids = @ \ {s}]]
Abandoned(list, s) == {c.id : c \in {x \in ToSet(Left(list, s)) : Orphan(x)}}
Released(list, s) == Without(Left(list, s), Abandoned(list, s))

\* init_rig: the primary channel of a rig that has no channel yet.
WithPrimary(list, f) ==
    IF list = <<>> THEN <<[id |-> nextId, freq |-> f, permanent |-> TRUE,
                           bm |-> None, sids |-> {}]>>
                   ELSE list

\* update_primary: the first channel follows the state that arrived.
Mirrored(list, f) ==
    IF list = <<>> THEN list ELSE [list EXCEPT ![1].freq = f]

\* sync_scheduler_channels: channels of bookmarks that are no longer wanted go
\* unless a session listens; the others are tuned as the bookmark says; the
\* missing ones are added while there is room.
Unwanted(list, want) ==
    {c.id : c \in {x \in ToSet(list) :
                     x.bm # None /\ want[x.bm] = None /\ x.sids = {}}}
Tuned(list, want) ==
    [i \in DOMAIN list |->
       IF list[i].bm # None /\ want[list[i].bm] # None
       THEN [list[i] EXCEPT !.freq = want[list[i].bm]] ELSE list[i]]
Missing(list, want) ==
    {b \in Bookmarks : want[b] # None /\ \A c \in ToSet(list) : c.bm # b}
Synced(list, want, n) ==
    LET kept == Tuned(Without(list, Unwanted(list, want)), want)
        room == IF Len(kept) < MaxChannels THEN MaxChannels - Len(kept) ELSE 0
        todo == SetToSeq(Missing(kept, want))
        more == SubSeq(todo, 1, IF Len(todo) < room THEN Len(todo) ELSE room)
    IN  kept \o [k \in 1..Len(more) |->
                   [id |-> n + k - 1, freq |-> want[more[k]],
                    permanent |-> FALSE, bm |-> more[k], sids |-> {}]]

\* The commands a synchronisation sends, under the lock, one per change.
Commanded(old, new) ==
    [i \in Ids |->
       IF i \in IdsOf(old) \ IdsOf(new) THEN None
       ELSE IF i \notin IdsOf(new) THEN dsp[i]
       ELSE IF i \notin IdsOf(old) THEN Entry(new, i).freq
       ELSE IF Entry(new, i).bm # None /\ Entry(new, i).freq # Entry(old, i).freq
                /\ dsp[i] # None
            THEN Entry(new, i).freq ELSE dsp[i]]
Touched(old, new) == 
    {c.id : c \in (ToSet(old) \ ToSet(new)) \cup (ToSet(new) \ ToSet(old))}

-----------------------------------------------------------------------------
(* Who holds the control: scheduler_allowed and the summary it rests on.   *)

Connected == {s \in Sessions : control[s] # None}
SchedulerAllowed == \A s \in Connected : control[s]
Want(r) == IF SchedulerAllowed THEN desired[r] ELSE [b \in Bookmarks |-> None]

-----------------------------------------------------------------------------
(* Threads.                                                                *)

Idle(t) == ops[t] = None
At(t, step) == ops[t] # None /\ ops[t].step = step
Begin(t, kind, step, s, r, id, f, owes, evicted) ==
    ops' = [ops EXCEPT ![t] =
              [kind |-> kind, step |-> step, sid |-> s, rig |-> r, id |-> id,
               freq |-> f, owes |-> owes, evicted |-> evicted]]
Goto(t, step) == ops' = [ops EXCEPT ![t].step = step]
Done(t) == ops' = [ops EXCEPT ![t] = None]

Requested == requests > 0 /\ requests' = requests - 1 /\ UNCHANGED <<nextId, changes>>
Owed == UNION {ops[t].owes : t \in {u \in Threads : ops[u] # None}}
Cross(ids) == crossed' = crossed \cup (ids \cap Owed)

\* A session strays when the table loses what it holds: it acts after
\* its stream has gone, it holds channels of two rigs, or
\* another request takes its mapping to a channel that is still there, or
\* to a channel that is not while it holds another.
Late(s) == IF phase[s] = "live" THEN {} ELSE {<<s, "late">>}
Lost(S) == S \X {"lost"}
Holds(s) == \E r \in Rigs : \E c \in ToSet(channels[r]) : s \in c.sids
Strayed(s) == \E how \in {"late", "lost"} : <<s, how>> \in strayed
Stray(S) == strayed' = strayed \cup S

Init ==
    /\ channels = [r \in Rigs |-> <<>>]
    /\ smap = [s \in Sessions |-> None]
    /\ dsp = [i \in Ids |-> None]
    /\ control = [s \in Sessions |-> None]
    /\ rigOf = [s \in Sessions |-> None]
    /\ stream = [s \in Sessions |-> None]
    /\ phase = [s \in Sessions |-> "new"]
    /\ clients = 0
    /\ dial \in [Rigs -> Freqs]
    /\ desired = [r \in Rigs |-> [b \in Bookmarks |-> None]]
    /\ ops = [t \in Threads |-> None]
    /\ nextId = 1
    /\ \E b \in Budgets : requests = b[1] /\ changes = b[2]
    /\ crossed = {} /\ strayed = {}

-----------------------------------------------------------------------------
(* The event stream of a session (api/sse.rs).                             *)

\* The head of the handler: the counter and the table of the control.
Connect(s, r) ==
    /\ phase[s] = "new"
    /\ phase' = [phase EXCEPT ![s] = "connecting"]
    /\ stream' = [stream EXCEPT ![s] = r]
    /\ clients' = clients + 1
    /\ control' = [control EXCEPT ![s] = TRUE]
    /\ UNCHANGED <<channels, smap, dsp, rigOf, env, ops, bounds, crossed, strayed>>

\* The client goes while the handler waits for a first state: the future is
\* dropped before the stream that would clean up exists. Nobody ever learns the
\* id of this session.
ConnectLost(s) ==
    /\ phase[s] = "connecting"
    /\ phase' = [phase EXCEPT ![s] = "lost"]
    /\ UNCHANGED <<reg, stream, clients, env, ops, bounds, crossed, strayed>>

\* The first state has arrived: the session is registered with its rig, the
\* primary channel exists from now on, the scheduler's channels are brought up
\* to date, and the stream starts.
Open(s) ==
    LET r == stream[s]
        first == WithPrimary(channels[r], dial[r])
        made == Len(first) - Len(channels[r])
        list == Synced(first, Want(r), nextId + made)
    IN
    /\ phase[s] = "connecting"
    /\ nextId + Cardinality(Bookmarks) <= MaxIds
    /\ phase' = [phase EXCEPT ![s] = "live"]
    /\ rigOf' = [rigOf EXCEPT ![s] = r]
    /\ channels' = [channels EXCEPT ![r] = list]
    /\ dsp' = Commanded(first, list)
    /\ nextId' = nextId + Cardinality(IdsOf(list) \ IdsOf(channels[r]))
    /\ Cross(Touched(first, list))
    /\ UNCHANGED <<smap, control, stream, clients, env, ops, requests, changes,
                   strayed>>

\* A state of the stream's rig arrives: the primary channel of the rig the
\* session has SELECTED takes the frequency of the rig the stream FOLLOWS.
StateUpdate(s) ==
    LET r == rigOf[s]
        first == Mirrored(channels[r], dial[stream[s]])
        list == Synced(first, Want(r), nextId)
    IN
    /\ phase[s] = "live" /\ r # None
    /\ nextId + Cardinality(Bookmarks) <= MaxIds + 1
    /\ channels[r] # <<>>
    /\ channels' = [channels EXCEPT ![r] = list]
    /\ dsp' = Commanded(first, list)
    /\ nextId' = nextId + Cardinality(IdsOf(list) \ IdsOf(first))
    /\ Cross(Touched(first, list))
    /\ UNCHANGED <<smap, control, rigOf, tab, env, ops, requests, changes, strayed>>

\* The drop callback, up to the removal of the session's mapping ...
Drop(s) ==
    /\ phase[s] = "live" /\ Idle(s)
    /\ phase' = [phase EXCEPT ![s] = "gone"]
    /\ clients' = clients - 1
    /\ smap' = [smap EXCEPT ![s] = None]
    /\ IF smap[s] = None
       THEN Begin(s, "drop", "unreg", s, None, None, None, {}, {})
       ELSE Begin(s, "drop", "release", s, smap[s].rig, None, None, {}, {})
    /\ UNCHANGED <<channels, dsp, control, rigOf, stream, env, bounds, crossed, strayed>>

\* ... the release of its channels on the rig of that mapping ...
DropRelease(s) ==
    LET r == ops[s].rig  gone == Abandoned(channels[r], s) IN
    /\ At(s, "release")
    /\ channels' = [channels EXCEPT ![r] = Released(@, s)]
    /\ ops' = [ops EXCEPT ![s].step = IF gone = {} THEN "unreg" ELSE "rm",
                          ![s].owes = gone]
    /\ Cross(gone)
    /\ UNCHANGED <<smap, dsp, control, rigOf, tab, env, bounds, strayed>>

\* ... and, after the commands, its place in the two other tables.
Unregister(s) ==
    /\ At(s, "unreg")
    /\ control' = [control EXCEPT ![s] = None]
    /\ rigOf' = [rigOf EXCEPT ![s] = None]
    /\ Done(s)
    /\ UNCHANGED <<channels, smap, dsp, tab, env, bounds, crossed, strayed>>

\* select_rig: the session looks at another rig; its stream stays as it is.
Select(s, r) ==
    /\ Requested /\ phase[s] \in {"live", "gone"}
    /\ rigOf' = [rigOf EXCEPT ![s] = r]
    /\ Stray(Late(s))
    /\ UNCHANGED <<channels, smap, dsp, control, tab, env, ops, crossed>>

\* put_scheduler_control: the session takes the control or releases it.
ControlPut(s, released) ==
    /\ Requested /\ phase[s] \in {"live", "gone"}
    /\ control' = [control EXCEPT ![s] = released]
    /\ Stray(Late(s))
    /\ UNCHANGED <<channels, smap, dsp, rigOf, tab, env, ops, crossed>>

-----------------------------------------------------------------------------
(* The channel routes (api/vchan.rs).                                      *)

\* allocate, the channel list: the channel is listed with its first owner.
Allocate(t, s, r, f) ==
    /\ Idle(t) /\ requests > 0 /\ phase[s] \in {"live", "gone"}
    /\ Len(channels[r]) < MaxChannels
    /\ nextId <= MaxIds
    /\ channels' = [channels EXCEPT ![r] = Append(@,
          [id |-> nextId, freq |-> f, permanent |-> FALSE, bm |-> None,
           sids |-> {s}])]
    /\ Begin(t, "alloc", "map", s, r, nextId, f, {nextId}, {})
    /\ nextId' = nextId + 1 /\ requests' = requests - 1
    /\ Stray(Late(s))
    /\ UNCHANGED <<smap, dsp, control, rigOf, tab, env, changes, crossed>>

\* subscribe_session, first the release of what the session held on the rig ...
Subscribe(t, s, r, id) ==
    LET gone == Abandoned(channels[r], s) IN
    /\ Idle(t) /\ Requested /\ phase[s] \in {"live", "gone"}
    /\ channels' = [channels EXCEPT ![r] = Released(@, s)]
    /\ Begin(t, "sub", IF gone = {} THEN "find" ELSE "rm", s, r, id, None, gone, {})
    /\ Cross(gone)
    /\ Stray(Late(s))
    /\ UNCHANGED <<smap, dsp, control, rigOf, tab, env>>

\* ... then the channel, if it is still there, or the answer 404.
Find(t) ==
    LET o == ops[t]  list == channels[o.rig] IN
    /\ At(t, "find")
    /\ IF o.id \in IdsOf(list)
       THEN /\ channels' = [channels EXCEPT ![o.rig] =
                  Edit(list, o.id, [Entry(list, o.id) EXCEPT !.sids = @ \cup {o.sid}])]
            /\ Goto(t, "map")
            /\ Stray(Late(o.sid))
       ELSE Done(t) /\ UNCHANGED <<channels, strayed>>
    /\ UNCHANGED <<smap, dsp, control, rigOf, tab, env, bounds, crossed>>

\* The session table, after the lock of the lists was given up.
Map(t) ==
    LET o == ops[t] IN
    /\ At(t, "map")
    /\ smap' = [smap EXCEPT ![o.sid] = [rig |-> o.rig, id |-> o.id]]
    /\ Goto(t, IF o.kind = "alloc" THEN "send" ELSE "own")
    /\ Stray(Late(o.sid) \cup
             (IF smap[o.sid] # None /\ smap[o.sid].rig # o.rig THEN Lost({o.sid}) ELSE {}))
    /\ UNCHANGED <<channels, dsp, control, rigOf, tab, env, bounds, crossed>>

\* subscribe_channel: the session takes the control, the channel is looked up
\* once more (or the answer is 500) ...
Own(t) ==
    LET o == ops[t]  list == channels[o.rig] IN
    /\ At(t, "own")
    /\ control' = [control EXCEPT ![o.sid] = FALSE]
    /\ Stray(Late(o.sid))
    /\ IF o.id \in IdsOf(list)
       THEN ops' = [ops EXCEPT ![t].step = "tune", ![t].freq = Entry(list, o.id).freq]
       ELSE Done(t)
    /\ UNCHANGED <<channels, smap, dsp, rigOf, tab, env, bounds, crossed>>

\* ... and the rig is tuned to what was read (apply_selected_channel).
TuneRig(t) ==
    /\ At(t, "tune")
    /\ dial' = [dial EXCEPT ![ops[t].rig] = ops[t].freq]
    /\ Done(t)
    /\ UNCHANGED <<reg, tab, desired, bounds, crossed, strayed>>

\* delete_channel: any session may delete a channel that is not kept.
Delete(t, r, id) ==
    LET c == Entry(channels[r], id) IN
    /\ Idle(t) /\ Requested
    /\ id \in IdsOf(channels[r]) /\ ~c.permanent /\ c.bm = None
    /\ channels' = [channels EXCEPT ![r] = Without(@, {id})]
    /\ Begin(t, "delete", "evict", None, r, id, None, {id}, c.sids)
    /\ Cross({id})
    /\ UNCHANGED <<smap, dsp, control, rigOf, tab, env, strayed>>

\* remove_by_uuid: the server says it has destroyed the channel.
Destroyed(t, r, id) ==
    /\ Idle(t) /\ Requested
    /\ id \in IdsOf(channels[r]) /\ dsp[id] # None
    /\ channels' = [channels EXCEPT ![r] = Without(@, {id})]
    /\ dsp' = [dsp EXCEPT ![id] = None]
    /\ Begin(t, "destroyed", "evict", None, r, id, None, {},
             Entry(channels[r], id).sids)
    /\ Cross({id})
    /\ UNCHANGED <<smap, control, rigOf, tab, env, strayed>>

\* The mappings of the sessions that listened: delete_channel drops them
\* whatever they say by now, remove_by_uuid only if they still name the channel.
Evict(t) ==
    LET o == ops[t]
        other(s) == smap[s] # None /\ smap[s] # [rig |-> o.rig, id |-> o.id]
        another(s) == smap[s] # None /\ Holds(s)
        out == IF o.kind = "delete" THEN o.evicted
               ELSE {s \in o.evicted : ~other(s)}
    IN
    /\ At(t, "evict")
    /\ smap' = [s \in Sessions |-> IF s \in out THEN None ELSE smap[s]]
    /\ IF o.kind = "delete" THEN Goto(t, "rm") ELSE Done(t)
    /\ Stray(Lost({s \in out : other(s) \/ another(s)}))
    /\ UNCHANGED <<channels, dsp, control, rigOf, tab, env, bounds, crossed>>

\* The Remove commands of a release or a deletion, outside every lock.
SendRemoves(t) ==
    LET o == ops[t] IN
    /\ At(t, "rm")
    /\ dsp' = [i \in Ids |-> IF i \in o.owes THEN None ELSE dsp[i]]
    /\ CASE o.kind = "delete" -> Done(t)
         [] o.kind = "sub" -> ops' = [ops EXCEPT ![t].step = "find", ![t].owes = {}]
         [] o.kind = "drop" -> ops' = [ops EXCEPT ![t].step = "unreg", ![t].owes = {}]
    /\ UNCHANGED <<channels, smap, control, rigOf, tab, env, bounds, crossed, strayed>>

\* set_channel_freq, set_channel_mode and set_channel_bandwidth, which differ
\* in the field only: the list first ...
SetChannel(t, r, id, f) ==
    LET list == channels[r] IN
    /\ Idle(t) /\ Requested
    /\ id \in IdsOf(list)
    /\ channels' = [channels EXCEPT ![r] =
                      Edit(list, id, [Entry(list, id) EXCEPT !.freq = f])]
    /\ Begin(t, "set", "send", None, r, id, f, {id}, {})
    /\ Cross({id})
    /\ UNCHANGED <<smap, dsp, control, rigOf, tab, env, strayed>>

\* ... the command of a change or of an allocation afterwards.
SendTune(t) ==
    LET o == ops[t] IN
    /\ At(t, "send")
    /\ dsp' = IF o.kind = "alloc" \/ dsp[o.id] # None
              THEN [dsp EXCEPT ![o.id] = o.freq] ELSE dsp
    /\ Done(t)
    /\ UNCHANGED <<channels, smap, control, rigOf, tab, env, bounds, crossed, strayed>>

-----------------------------------------------------------------------------
(* The world: somebody turns the dial, the schedule moves on.              *)

TurnDial(r, f) ==
    /\ changes > 0 /\ changes' = changes - 1
    /\ f # dial[r] /\ dial' = [dial EXCEPT ![r] = f]
    /\ UNCHANGED <<reg, tab, desired, ops, nextId, requests, crossed, strayed>>

ScheduleMoves(r, b, f) ==
    /\ changes > 0 /\ changes' = changes - 1
    /\ f # desired[r][b] /\ desired' = [desired EXCEPT ![r][b] = f]
    /\ UNCHANGED <<reg, tab, dial, ops, nextId, requests, crossed, strayed>>

Step(t) ==
    Find(t) \/ Map(t) \/ Own(t) \/ TuneRig(t) \/ Evict(t) \/ SendRemoves(t)
    \/ SendTune(t) \/ (t \in Sessions /\ (DropRelease(t) \/ Unregister(t)))

Stream(s) == Open(s) \/ StateUpdate(s)

Next ==
    \/ \E s \in Sessions : \/ \E r \in Rigs : Connect(s, r) \/ Select(s, r)
                           \/ ConnectLost(s) \/ Drop(s) \/ Stream(s)
                           \/ \E b \in BOOLEAN : ControlPut(s, b)
    \/ \E t \in Workers, r \in Rigs :
          \/ \E s \in Sessions : \/ \E f \in Freqs : Allocate(t, s, r, f)
                                 \/ \E id \in Ids : Subscribe(t, s, r, id)
          \/ \E id \in Ids : \/ Delete(t, r, id) \/ Destroyed(t, r, id)
                             \/ \E f \in Freqs : SetChannel(t, r, id, f)
    \/ \E t \in Threads : Step(t)
    \/ \E r \in Rigs, f \in Freqs : TurnDial(r, f)
    \/ \E r \in Rigs, b \in Bookmarks, f \in Freqs \cup {None} : ScheduleMoves(r, b, f)

Spec == Init /\ [][Next]_vars

-----------------------------------------------------------------------------
(* Properties.                                                             *)

Quiet == \A t \in Threads : Idle(t)
Served(s) == \E t \in Threads : ~Idle(t) /\ ops[t].sid = s

\* A channel somebody allocated never outlives its last listener, whichever
\* interleaving of allocations, subscriptions, drops and deletions took place:
\* the sweep of release_session_on_rig (vchan.rs) leaves nobody's channel behind.
UserChannelsOwned ==
    \A r \in Rigs : \A c \in ToSet(channels[r]) : ~Orphan(c)

\* The list of a rig never grows past the cap, scheduler's channels, primary
\* channel and tabs together, and never holds one channel twice.
WithinCap ==
    \A r \in Rigs : /\ Len(channels[r]) <= MaxChannels
                    /\ Cardinality(IdsOf(channels[r])) = Len(channels[r])

\* The primary channel, once a rig has one, leads the list: no removal of other
\* channels shifts it, update_primary hits no other channel.
PrimaryLeads ==
    \A r \in Rigs : \A i \in DOMAIN channels[r] : channels[r][i].permanent => i = 1

\* A tab that is gone holds no channel once its drop callback has run, unless
\* it strayed: the mapping under which release_session looks for its channels
\* had been lost to another request (vchan.rs, release_session).
GoneHoldsNothing ==
    \A s \in Sessions :
       (phase[s] = "gone" /\ ~Served(s) /\ ~Strayed(s)) => ~Holds(s)

\* What GoneHoldsNothing rests on: as long as a tab is open and did not stray,
\* everything it holds or is about to hold is on the rig of its mapping.
HeldWhereMapped ==
    \A s \in Sessions : \A r \in Rigs :
       (~Strayed(s) /\ (\E c \in ToSet(channels[r]) : s \in c.sids) /\ Idle(s)) =>
          \/ smap[s] # None /\ smap[s].rig = r
          \/ \E t \in Workers : At(t, "map") /\ ops[t].sid = s /\ ops[t].rig = r

\* When no request is running, the server has been asked for exactly the
\* registered channels, each on its frequency: every path that changes the list
\* sends the command it owes. Channels on which two requests worked at the same
\* time are excepted: their commands may leave in the other order; so is the
\* first channel of a list, which has no channel on the server when it is the
\* primary one and is retuned without a command when it is not (update_primary).
ServerMatches ==
    Quiet => \A i \in Ids \ crossed :
       LET at == {r \in Rigs : i \in IdsOf(channels[r])} IN
       IF at = {} THEN dsp[i] = None
       ELSE \A r \in at : \/ channels[r][1].id = i
                          \/ dsp[i] = Entry(channels[r], i).freq

\* With no tab open the scheduler may tune the rig (scheduler.rs, its first
\* paragraph), unless a request of a closed tab was served late.
NobodyMeansAllowed ==
    ((\A s \in Sessions : phase[s] # "live" /\ Idle(s)) /\ strayed = {})
       => SchedulerAllowed

\* What every route and every drop keeps true of the lists, the mappings and the
\* counters together.
ChannelsInv ==
    /\ TypeOK /\ UserChannelsOwned /\ WithinCap /\ PrimaryLeads /\ HeldWhereMapped
    /\ GoneHoldsNothing /\ ServerMatches /\ NobodyMeansAllowed

\* As documented (vchan.rs, first paragraph): a channel is freed when the
\* session that allocated it disconnects. Requests that arrive after that are
\* left aside.
FreedOnDisconnect ==
    \A s \in Sessions :
       (phase[s] = "gone" /\ Quiet /\ <<s, "late">> \notin strayed) => ~Holds(s)
=============================================================================
