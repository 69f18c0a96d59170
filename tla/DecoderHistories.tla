-------------------------- MODULE DecoderHistories --------------------------
(* The histories of the decoders of a rig (audio.rs): recorded by eleven    *)
(* tasks, pruned by every reader, cleared by the rig task, replayed to      *)
(* clients of the audio port, and saved to disk every minute                *)
(* (history_store.rs).                                                      *)
(*                                                                          *)
(* Each history has a lock of its own. The count of all entries has none:   *)
(* it grows by an atomic addition and shrinks in a loop of                  *)
(* compare-and-exchange, both under the lock of the history that changed.   *)
(*                                                                          *)
(* The framing before the tasks (HdlcFraming), the tasks (DecoderTasks) and *)
(* the histories share no variable: DecodingInv says all of them.           *)
EXTENDS DecoderTasks, HdlcFraming

CONSTANTS Replayed,     \* the histories, in the order of the replay
          Saved,        \* those of the store, in the order of the flush
          Retention,    \* how long an entry is kept
          Room,         \* MAX_HISTORY_ENTRIES
          MaxEntries,   \* bound: messages ever decoded
          MaxClock,     \* bound: time that passes
          MaxClears,    \* bound: resets of decoders
          MaxRestarts   \* bound: restarts of the server

Histories == ToSet(Replayed)

ASSUME HistoryAssumption ==
    /\ Replayed \in Seq(Histories) /\ Replayed # <<>> /\ IsInjective(Replayed)
    /\ Saved \in Seq(Histories) /\ IsInjective(Saved)
    /\ Room \in Nat \ {0}
    /\ {Retention, MaxEntries, MaxClock, MaxClears, MaxRestarts} \subseteq Nat

VARIABLES
    clock,
    hist,      \* per history: entries [n, at], the oldest first
    count,     \* total_count
    owed,      \* per history: what the holder of its lock has yet to take off count
    sending,   \* per history: the entry that is recorded and not sent to clients
    db, file,  \* the store in memory and on disk
    flush,     \* 0, or which of Saved the running flush saves next
    client,    \* a client that connects: [at, next, got], next: which of Replayed is copied next
    total, resets, restarts,  \* bounded counters
    loaded,    \* history: the server has started with entries from the store
    skipped,   \* history: entries sent while the client was replayed the others
    marks      \* history: what was there, and what was cleared, [live, dead] before
               \* the last complete flush, the running one, and now

historyVars == <<clock, hist, count, owed, sending, db, file, flush, client, total, resets,
                 restarts, loaded, skipped, marks>>
storeVars == <<db, file, flush, restarts, loaded>>

Entry == [n : 1..MaxEntries, at : 0..MaxClock]
Nothing == [delta |-> 0, seen |-> -1]   \* nothing owed, and count not read yet
Gone == [at |-> "gone", next |-> 1, got |-> {}]
Numbers(entries) == {e.n : e \in ToSet(entries)}
SumOver(f) == Cardinality(UNION {{k} \X (1..f[k]) : k \in Histories})
Unlocked(k) == owed[k] = Nothing

\* A message is recorded at the end, so that what is too old comes first.
OldestFirst(entries) ==
    \A i, j \in DOMAIN entries : i < j => entries[i].n < entries[j].n /\ entries[i].at <= entries[j].at

HistoryTypeOK ==
    /\ clock \in 0..MaxClock /\ total \in 0..MaxEntries
    /\ \A k \in Histories :
          ToSet(hist[k]) \subseteq Entry /\ Len(hist[k]) <= Room /\ OldestFirst(hist[k])
    /\ count \in 0..MaxEntries
    /\ owed \in [Histories -> [delta : 0..MaxEntries, seen : -1..MaxEntries]]
    /\ sending \in [Histories -> 0..MaxEntries]
    /\ \A k \in ToSet(Saved) :
          ToSet(db[k]) \cup ToSet(file[k]) \subseteq Entry /\ OldestFirst(db[k]) /\ OldestFirst(file[k])
    /\ flush \in 0..(Len(Saved) + 1)
    /\ client.at \in {"gone", "replay", "subscribe", "live"}

HistoryInit ==
    LET empty == [k \in ToSet(Saved) |-> <<>>]  none == [live |-> {}, dead |-> {}] IN
    /\ clock = 0 /\ total = 0 /\ count = 0 /\ resets = 0 /\ restarts = 0
    /\ hist = [k \in Histories |-> <<>>] /\ owed = [k \in Histories |-> Nothing]
    /\ sending = [k \in Histories |-> 0]
    /\ db = empty /\ file = empty /\ flush = 0 /\ client = Gone
    /\ loaded = FALSE /\ skipped = {}
    /\ marks = [done |-> none, begun |-> none, now |-> none]

-----------------------------------------------------------------------------
(* The histories and their count.                                           *)

\* prune_*: what is too old goes, from the front.
Pruned(entries) ==
    LET fresh == {i \in DOMAIN entries : entries[i].at >= clock - Retention} IN
    IF fresh = {} THEN <<>> ELSE SubSeq(entries, Min(fresh), Len(entries))

\* enforce_capacity
Trimmed(entries) ==
    IF Len(entries) > Room THEN SubSeq(entries, Len(entries) - Room + 1, Len(entries))
    ELSE entries

\* A change under the lock of a history; adjust_total_count adds at once what the
\* history has grown by, and starts its loop for what it has shrunk by.
Put(k, entries) ==
    LET grown == Len(entries) - Len(hist[k]) IN
    /\ Unlocked(k)
    /\ hist' = [hist EXCEPT ![k] = entries]
    /\ count' = IF grown > 0 THEN count + grown ELSE count
    /\ owed' = IF grown < 0 THEN [owed EXCEPT ![k].delta = -grown] ELSE owed

\* Mutant: the count is stored without a look at what it has become.
TakeOff_Blind(k) ==
    /\ ~Unlocked(k)
    /\ IF owed[k].seen # -1
       THEN /\ count' = IF owed[k].seen > owed[k].delta THEN owed[k].seen - owed[k].delta ELSE 0
            /\ owed' = [owed EXCEPT ![k] = Nothing]
       ELSE owed' = [owed EXCEPT ![k].seen = count] /\ count' = count
    /\ UNCHANGED <<clock, hist, sending, client, total, resets, skipped, marks, storeVars>>

\* One round of the loop: the count is read, or exchanged if it is still the same.
TakeOff(k) ==
    /\ ~Unlocked(k)
    /\ IF owed[k].seen = count
       THEN /\ count' = IF count > owed[k].delta THEN count - owed[k].delta ELSE 0
            /\ owed' = [owed EXCEPT ![k] = Nothing]
       ELSE owed' = [owed EXCEPT ![k].seen = count] /\ count' = count
    /\ UNCHANGED <<clock, hist, sending, client, total, resets, skipped, marks, storeVars>>

\* record_*: a message enters its history ...
Record(k) ==
    LET e == [n |-> total + 1, at |-> clock] IN
    /\ sending[k] = 0 /\ total < MaxEntries /\ total' = total + 1
    /\ Put(k, Trimmed(Pruned(Append(hist[k], e))))
    /\ sending' = [sending EXCEPT ![k] = total + 1]
    /\ marks' = [marks EXCEPT !.now.live = @ \cup {total + 1}]
    /\ UNCHANGED <<clock, client, resets, skipped, storeVars>>

\* ... and is then sent to the clients that have subscribed.
Send(k) ==
    /\ sending[k] # 0 /\ Unlocked(k) /\ sending' = [sending EXCEPT ![k] = 0]
    /\ client' = IF client.at = "live" THEN [client EXCEPT !.got = @ \cup {sending[k]}] ELSE client
    /\ skipped' = IF client.at \in {"replay", "subscribe"} THEN skipped \cup {sending[k]}
                  ELSE skipped
    /\ UNCHANGED <<clock, hist, count, owed, total, resets, marks, storeVars>>

\* clear_*: a reset of the decoder.
Clear(k) ==
    /\ resets < MaxClears /\ resets' = resets + 1
    /\ Put(k, <<>>)
    /\ marks' = [marks EXCEPT !.now.dead = @ \cup Numbers(hist[k])]
    /\ UNCHANGED <<clock, sending, client, total, skipped, storeVars>>

Passes ==
    /\ clock < MaxClock /\ clock' = clock + 1
    /\ UNCHANGED <<hist, count, owed, sending, client, total, resets, skipped, marks, storeVars>>

-----------------------------------------------------------------------------
(* A client of the audio port (handle_audio_client).                        *)

Connect ==
    /\ client.at = "gone" /\ client' = [at |-> "replay", next |-> 1, got |-> {}]
    /\ skipped' = {}
    /\ UNCHANGED <<clock, hist, count, owed, sending, total, resets, marks, storeVars>>

ReplayStep(got) ==
    client' = [at |-> IF client.next = Len(Replayed) THEN "subscribe" ELSE "replay",
               next |-> client.next + 1, got |-> client.got \cup got]

\* Mutant: nothing is replayed when nothing is counted.
Replay_IfCounted ==
    /\ client.at = "replay"
    /\ LET k == Replayed[client.next]  entries == Pruned(hist[k]) IN
       /\ Put(k, entries)
       /\ ReplayStep(IF count = 0 THEN {} ELSE Numbers(entries))
    /\ UNCHANGED <<clock, sending, total, resets, skipped, marks, storeVars>>

\* snapshot_*: one history after the other is pruned and copied.
Replay ==
    /\ client.at = "replay"
    /\ LET k == Replayed[client.next]  entries == Pruned(hist[k]) IN
       Put(k, entries) /\ ReplayStep(Numbers(entries))
    /\ UNCHANGED <<clock, sending, total, resets, skipped, marks, storeVars>>

\* The copies are written, and only then new messages are subscribed to.
Subscribe ==
    /\ client.at = "subscribe" /\ client' = [client EXCEPT !.at = "live"]
    /\ UNCHANGED <<clock, hist, count, owed, sending, total, resets, skipped, marks, storeVars>>

Leave ==
    /\ client.at # "gone" /\ client' = Gone /\ skipped' = {}
    /\ UNCHANGED <<clock, hist, count, owed, sending, total, resets, marks, storeVars>>

-----------------------------------------------------------------------------
(* The store.                                                               *)

FlushBegins ==
    /\ flush = 0 /\ flush' = 1
    /\ marks' = [marks EXCEPT !.begun = marks.now]
    /\ UNCHANGED <<clock, hist, count, owed, sending, client, total, resets, skipped, db,
                   file, restarts, loaded>>

\* save_key: a copy of one history is written to the store in memory.
SaveOne ==
    /\ flush \in DOMAIN Saved /\ flush' = flush + 1
    /\ LET k == Saved[flush] IN Unlocked(k) /\ db' = [db EXCEPT ![k] = hist[k]]
    /\ UNCHANGED <<clock, hist, count, owed, sending, client, total, resets, skipped, marks,
                   file, restarts, loaded>>

\* dump: the store is written to disk as a whole.
Dump ==
    /\ flush = Len(Saved) + 1 /\ flush' = 0 /\ file' = db
    /\ marks' = [marks EXCEPT !.done = marks.begun]
    /\ UNCHANGED <<clock, hist, count, owed, sending, client, total, resets, skipped, db,
                   restarts, loaded>>

\* The server stops at any moment and starts again: load_all fills the histories
\* behind the back of the count, with what is not too old.
Restart ==
    /\ restarts < MaxRestarts /\ restarts' = restarts + 1
    /\ hist' = [k \in Histories |-> IF k \in ToSet(Saved) THEN Pruned(file[k]) ELSE <<>>]
    /\ count' = 0 /\ owed' = [k \in Histories |-> Nothing]
    /\ sending' = [k \in Histories |-> 0] /\ client' = Gone /\ skipped' = {}
    /\ db' = file /\ flush' = 0
    /\ loaded' = (loaded \/ \E k \in Histories : hist'[k] # <<>>)
    /\ marks' = [marks EXCEPT !.now.dead = @ \ UNION {Numbers(hist'[k]) : k \in Histories}]
    /\ UNCHANGED <<clock, file, total, resets>>

HistoryNext ==
    \/ \E k \in Histories : TakeOff(k) \/ Record(k) \/ Send(k) \/ Clear(k)
    \/ Passes \/ Connect \/ Replay \/ Subscribe \/ Leave
    \/ FlushBegins \/ SaveOne \/ Dump \/ Restart

HistorySpec == HistoryInit /\ [][HistoryNext]_historyVars

-----------------------------------------------------------------------------
(* Properties.                                                              *)

\* However the tasks interleave, the count is the number of entries, but for what
\* is still owed: no update is lost. After a start from the store it is too low,
\* by no more than what was loaded, and never wraps ("prevent underflow wrapping the
\* counter to usize::MAX", audio.rs).
CountAccurate ==
    LET entries == SumOver([k \in Histories |-> Len(hist[k])])
        debts == SumOver([k \in Histories |-> owed[k].delta]) IN
    IF loaded THEN count <= entries + debts ELSE count = entries + debts

\* What a complete flush has seen outlives the server, and what was cleared before it
\* never comes back, whatever was recorded and cleared while it ran and wherever the
\* server stopped (history_store.rs: flush_all, load_all).
StoreFaithful ==
    /\ \A k \in ToSet(Saved) :
          Numbers(hist[k]) \cap marks.done.live \subseteq Numbers(file[k])
    /\ \A k \in Histories : Numbers(hist[k]) \cap marks.done.dead = {}
    /\ \A k \in ToSet(Saved) : Numbers(file[k]) \cap marks.done.dead = {}

\* A connected client has every entry of the histories: all that was recorded before
\* it connected and all that came afterwards, except what was sent while the
\* histories were being copied for it.
ClientHasAll ==
    client.at = "live" =>
        \A k \in Histories :
            Numbers(hist[k]) \subseteq client.got \cup skipped \cup {sending[k]}

\* The count, the store and the clients agree with the histories at every moment.
HistoryInv == HistoryTypeOK /\ CountAccurate /\ StoreFaithful /\ ClientHasAll

\* What the server decodes is framed as it was sent, belongs to the channel the decoder listened
\* to, and is kept, counted and replayed as it was recorded.
DecodingInv == HdlcInv /\ TaskInv /\ HistoryInv
=============================================================================
