--------------------------- MODULE ClientHistories ---------------------------
(* The histories of decoded messages that the client keeps for web pages:   *)
(* http-frontend audio.rs and api/decoder.rs, and the sink of the replay in *)
(* the client's main.rs.                                                    *)
(*                                                                          *)
(* Messages of every rig arrive by one broadcast. The collector, a task of  *)
(* its own, stores them a moment later. What a server replays after each    *)
(* connection goes past the broadcast straight into the histories. A page   *)
(* opens the stream and fetches the history with two requests.              *)
EXTENDS Integers, Sequences, FiniteSets, FiniteSetsExt, SequencesExt

CONSTANTS Stations,     \* the rigs
          Keeps,        \* per rig: how long decodes are kept while it is selected
          Ships,        \* vessels that send AIS
          WefaxKept,    \* images kept
          Anyone,       \* model value: no rig is named
          MaxDecodes,   \* bound: messages decoded
          MaxAge,       \* bound: time that passes
          MaxLinks      \* bound: connections to servers

ASSUME ClientHistoryAssumption ==
    /\ Keeps \in [Stations -> Nat] /\ Anyone \notin Stations
    /\ {WefaxKept, MaxDecodes, MaxAge, MaxLinks} \subseteq Nat /\ WefaxKept > 0

VARIABLES
    age,        \* the time
    picked,     \* active_rig_id
    decoded,    \* what the servers have decoded: the message's number is its time
    linked,     \* per rig: whether its audio connection is up
    replay,     \* per rig: what the server has still to replay, the oldest first
    feed,       \* numbers of the messages broadcast to collector and pages
    collected,  \* how many of them the collector has stored
    held,       \* per kind: [n, at, of], of the rig or Anyone
    page,       \* a page: [stream, history, upto]: where its stream starts, what it was
                \* answered, how far the collector was then; -1 and {} before
    stored,     \* history: per message, when it was collected (-1: not) and the rigs
                \* selected since then
    wiped,      \* history: messages removed by a clear or, an image, by a newer one
    links       \* bounded counter

clientHistoryVars == <<age, picked, decoded, linked, replay, feed, collected, held, page,
                       stored, wiped, links>>

\* AIS and its like are pruned by time, FT4 and its like too but not taken from a replay,
\* images are counted.
DecodeKinds == {"ais", "ft4", "wefax"}
Message == [kind : DecodeKinds, rig : Stations, ship : Ships]
HeldEntry == [n : 1..MaxDecodes, at : 0..MaxAge, of : Stations \cup {Anyone}]
Unopened == [stream |-> -1, history |-> {}, upto |-> -1]
Holds(k) == {e.n : e \in ToSet(held[k])}

ClientHistoryTypeOK ==
    /\ age \in 0..MaxAge /\ picked \in Stations
    /\ ToSet(decoded) \subseteq Message /\ Len(decoded) <= MaxDecodes
    /\ linked \in [Stations -> BOOLEAN] /\ links \in 0..MaxLinks
    /\ replay \in [Stations -> SUBSET (1..Len(decoded))]
    /\ ToSet(feed) \subseteq 1..Len(decoded) /\ collected \in 0..Len(feed)
    /\ \A k \in DecodeKinds : ToSet(held[k]) \subseteq HeldEntry
    /\ Len(held["wefax"]) <= WefaxKept
    /\ page.stream \in -1..MaxDecodes /\ page.upto \in -1..MaxDecodes
    /\ wiped \subseteq 1..MaxDecodes

ClientHistoryInit ==
    /\ age = 0 /\ picked \in Stations /\ decoded = <<>>
    /\ linked = [s \in Stations |-> FALSE] /\ replay = [s \in Stations |-> {}]
    /\ feed = <<>> /\ collected = 0 /\ held = [k \in DecodeKinds |-> <<>>]
    /\ page = Unopened /\ wiped = {} /\ links = 0
    /\ stored = [n \in 1..MaxDecodes |-> [at |-> -1, under |-> {}]]

\* A server decodes. A client that is connected and past its replay is sent the message.
Decoded(k, s, v) ==
    /\ Len(decoded) < MaxDecodes
    /\ decoded' = Append(decoded, [kind |-> k, rig |-> s, ship |-> v])
    /\ feed' = IF linked[s] /\ replay[s] = {} THEN Append(feed, Len(decoded) + 1) ELSE feed
    /\ UNCHANGED <<age, picked, linked, replay, collected, held, page, stored, wiped, links>>

Link(s) ==
    /\ ~linked[s] /\ links < MaxLinks /\ links' = links + 1
    /\ linked' = [linked EXCEPT ![s] = TRUE]
    /\ replay' = [replay EXCEPT ![s] = {n \in 1..Len(decoded) : decoded[n].rig = s}]
    /\ UNCHANGED <<age, picked, decoded, feed, collected, held, page, stored, wiped>>

Unlink(s) ==
    /\ linked[s]
    /\ linked' = [linked EXCEPT ![s] = FALSE] /\ replay' = [replay EXCEPT ![s] = {}]
    /\ UNCHANGED <<age, picked, decoded, feed, collected, held, page, stored, wiped, links>>

\* The sink: an AIS message (and its like) is stored as new and without its rig, nothing
\* is pruned; FT4, FT2 and images are left out.
Sunk(s) ==
    LET n == Min(replay[s])
        k == decoded[n].kind
    IN  /\ replay[s] # {}
        /\ replay' = [replay EXCEPT ![s] = @ \ {n}]
        /\ held' = IF k = "ais"
                   THEN [held EXCEPT ![k] = Append(@, [n |-> n, at |-> age, of |-> Anyone])]
                   ELSE held
        /\ UNCHANGED <<age, picked, decoded, linked, feed, collected, page, stored, wiped, links>>

Expired(e) == age - e.at > Keeps[picked]

\* prune_*: the retention is that of the rig selected now, whose message it may be.
Pruned(entries) ==
    IF \E i \in DOMAIN entries : ~Expired(entries[i])
    THEN SubSeq(entries, Min({i \in DOMAIN entries : ~Expired(entries[i])}), Len(entries))
    ELSE <<>>

Kept(k, entries) ==
    IF k # "wefax" THEN Pruned(entries)
    ELSE SubSeq(entries, 1 + Max({0, Len(entries) - WefaxKept}), Len(entries))

\* Mutant: the rig's clock of one message empties the others' too.
Collect_DropsOld ==
    LET n == feed[collected + 1]
        k == decoded[n].kind
        e == [n |-> n, at |-> age, of |-> decoded[n].rig]
    IN  /\ collected < Len(feed) /\ collected' = collected + 1
        /\ held' = [held EXCEPT ![k] = Kept(k, Append(SelectSeq(@, LAMBDA f : f.of # e.of), e))]
        /\ wiped' = wiped \cup (IF k = "wefax" THEN Holds(k) \ {f.n : f \in ToSet(held'[k])} ELSE {})
        /\ stored' = [stored EXCEPT ![n] = [at |-> age, under |-> {picked}]]
        /\ UNCHANGED <<age, picked, decoded, linked, replay, feed, page, links>>

\* record_*: stored under its rig, then pruned or, an image, counted.
Collect ==
    LET n == feed[collected + 1]
        k == decoded[n].kind
        e == [n |-> n, at |-> age, of |-> decoded[n].rig]
    IN  /\ collected < Len(feed) /\ collected' = collected + 1
        /\ held' = [held EXCEPT ![k] = Kept(k, Append(@, e))]
        /\ wiped' = wiped \cup (IF k = "wefax" THEN Holds(k) \ {f.n : f \in ToSet(held'[k])} ELSE {})
        /\ stored' = [stored EXCEPT ![n] = [at |-> age, under |-> {picked}]]
        /\ UNCHANGED <<age, picked, decoded, linked, replay, feed, page, links>>

\* clear_*_decode empties the history of every rig, whichever the page names.
ClearDecodes(k) ==
    /\ held[k] # <<>>
    /\ held' = [held EXCEPT ![k] = <<>>] /\ wiped' = wiped \cup Holds(k)
    /\ UNCHANGED <<age, picked, decoded, linked, replay, feed, collected, page, stored, links>>

SelectRig(s) ==
    /\ picked # s /\ picked' = s
    /\ stored' = [n \in 1..MaxDecodes |->
           IF stored[n].at = -1 THEN stored[n] ELSE [stored[n] EXCEPT !.under = @ \cup {s}]]
    /\ UNCHANGED <<age, decoded, linked, replay, feed, collected, held, page, wiped, links>>

Ages ==
    /\ age < MaxAge /\ age' = age + 1
    /\ UNCHANGED <<picked, decoded, linked, replay, feed, collected, held, page, stored, wiped, links>>

\* snapshot_ais_history: of each vessel the entry that was stored last.
LatestOf(entries, mine) ==
    {i \in mine : \A j \in mine :
        j > i => decoded[entries[j].n].ship # decoded[entries[i].n].ship}

\* The answer to /decode/history for one rig or for Anyone.
Snapshot(now, s) ==
    UNION {LET mine == {i \in DOMAIN now[k] : s = Anyone \/ now[k][i].of = s}
           IN  {now[k][i].n : i \in IF k = "ais" THEN LatestOf(now[k], mine) ELSE mine} :
           k \in DecodeKinds}

FetchHistory ==
    /\ page.upto = -1
    /\ held' = [k \in DecodeKinds |-> IF k = "wefax" THEN held[k] ELSE Pruned(held[k])]
    /\ page' = [page EXCEPT !.history = Snapshot(held', Anyone), !.upto = collected]
    /\ UNCHANGED <<age, picked, decoded, linked, replay, feed, collected, stored, wiped, links>>

OpenDecodes ==
    /\ page.stream = -1 /\ page' = [page EXCEPT !.stream = Len(feed)]
    /\ UNCHANGED <<age, picked, decoded, linked, replay, feed, collected, held, stored, wiped, links>>

ClientHistoryNext ==
    \/ \E k \in DecodeKinds, s \in Stations, v \in Ships : Decoded(k, s, v)
    \/ \E s \in Stations : Link(s) \/ Unlink(s) \/ Sunk(s) \/ SelectRig(s)
    \/ \E k \in DecodeKinds : ClearDecodes(k)
    \/ Collect \/ Ages \/ FetchHistory \/ OpenDecodes

ClientHistorySpec == ClientHistoryInit /\ [][ClientHistoryNext]_clientHistoryVars
------------------------------------------------------------------------------
\* Whether message n may be missing from the histories: cleared or pushed out, or older
\* than the retention of some rig that was selected since it was collected.
MayBeGone(n) ==
    \/ n \in wiped
    \/ decoded[n].kind # "wefax" /\ \E s \in stored[n].under : age - stored[n].at > Keeps[s]

\* The messages the collector has stored are there until they may be gone.
CollectedStay ==
    \A i \in 1..collected : feed[i] \in Holds(decoded[feed[i]].kind) \/ MayBeGone(feed[i])

\* A page with stream and history lacks, of what was broadcast, only what may be gone, the
\* older reports of a vessel, and what was broadcast before its stream was opened and
\* collected after its history was taken.
PageMisses ==
    page.stream # -1 /\ page.upto # -1 =>
        \A i \in 1..page.stream : LET n == feed[i] IN
            \/ n \in page.history \/ i > page.upto \/ MayBeGone(n)
            \/ decoded[n].kind = "ais" /\ \E m \in page.history :
                   decoded[m].kind = "ais" /\ decoded[m].ship = decoded[n].ship

\* Of each vessel the history shows the newest report that is held.
NewestShown ==
    \A i \in LatestOf(held["ais"], DOMAIN held["ais"]) : \A e \in ToSet(held["ais"]) :
        decoded[e.n].ship = decoded[held["ais"][i].n].ship => e.n <= held["ais"][i].n

\* The histories of the client: well-typed, complete but for what was cleared, pushed out
\* or aged, shown completely to a page that opens its stream first, and with the newest
\* report of each vessel as long as nothing was replayed.
ClientHistoryInv ==
    /\ ClientHistoryTypeOK /\ CollectedStay /\ PageMisses
    /\ (\A e \in ToSet(held["ais"]) : e.of # Anyone) => NewestShown
=============================================================================
