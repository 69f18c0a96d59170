------------------------------ MODULE AudioLink ------------------------------
(* Virtual channels on their way from the http frontend to the server: the  *)
(* queue of the rig (VChanAudioCmd), the task that owns the connection      *)
(* (audio_client.rs), and the two tasks per connection of the audio server  *)
(* (handle_audio_client of audio.rs), over a network that breaks.           *)
(*                                                                          *)
(* A channel is its frequency and the decoders that run on it; mode and     *)
(* bandwidth travel like the frequency and audio frames like the rest of    *)
(* the down direction. Connections are numbered; several may be alive at    *)
(* the server, since its end learns late that the client is gone. The       *)
(* server's list of channels is the one of SdrChannels, one step per call.  *)
EXTENDS Naturals, Sequences, FiniteSets, SequencesExt, FiniteSetsExt

CONSTANTS Ids,         \* channels (UUIDs, never used twice)
          HiddenIds,   \* those of the background decoder
          Freqs, Decs, \* frequencies; sets of decoder kinds
          None,        \* no channel, no decoders
          Capacity,    \* of the queue (256)
          First,       \* the settings a channel is asked for with
          MaxChanges,  \* bound: channels changed or given up
          MaxBreaks    \* bound: breaks, replaced tasks of the client, refusals

Links == 1..(MaxBreaks + 1)
Settings == [freq : Freqs, dec : Decs]

ASSUME AudioAssumption ==
    /\ IsFiniteSet(Ids) /\ HiddenIds \subseteq Ids
    /\ None \notin Settings \cup Decs
    /\ First \in [Ids -> Settings]
    /\ {Capacity, MaxChanges, MaxBreaks} \subseteq Nat

VARIABLES
    table,   \* what the frontends believe: settings of every channel
    ever,    \* channels ever asked for
    queue,   \* commands for the client's task
    subs,    \* active_subs
    resub,   \* resubscribed
    streams, \* keys of vchan_audio
    conn,    \* the connection the client uses, 0 for none
    made,    \* connections made so far
    net,     \* state of each connection
    up,      \* messages under way to the server on it
    reads, rx, \* are the server's two tasks for it alive
    cmds,    \* VChanCmd, from the one to the other
    tasks,   \* what runs for a connection and a channel: {} is the encoder alone
    hid,     \* hidden_channels
    dsp,     \* channels of the rig: the frequency they listen on
    changes, breaks,
    hurt     \* history: channels that met one of the losses named below

clientSide == <<table, ever, queue, subs, resub, streams, conn, made>>
serverSide == <<reads, rx, cmds, tasks, hid, dsp>>
audioVars == <<clientSide, net, up, serverSide, changes, breaks, hurt>>

Msg(op, id, s) == [op |-> op, id |-> id, set |-> s]
Messages == {Msg(op, id, s) : op \in {"sub", "freq"}, id \in Ids, s \in Settings}
            \cup {Msg("remove", id, None) : id \in Ids}
NoTasks == [id \in Ids |-> None]
Wanted == {id \in Ids : table[id] # None}

AudioTypeOK ==
    /\ {table, subs} \subseteq [Ids -> Settings \cup {None}] /\ ever \subseteq Ids
    /\ queue \in Seq(Messages) /\ Len(queue) <= Capacity
    /\ resub \subseteq Ids /\ streams \subseteq Ids
    /\ made \in 0..(MaxBreaks + 1) /\ conn \in {0, made}
    /\ net \in [Links -> {"none", "open", "cut", "closed"}]
    /\ up \in [Links -> Seq(Messages)]
    /\ {reads, rx} \subseteq [Links -> BOOLEAN] /\ \A k \in Links : rx[k] => net[k] # "none"
    /\ cmds \in [Links -> Seq(Messages)]
    /\ tasks \in [Links -> [Ids -> Decs \cup {None}]] /\ hid \in [Links -> SUBSET HiddenIds]
    /\ dsp \in [Ids -> Freqs \cup {None}]
    /\ breaks \in 0..MaxBreaks /\ changes \in 0..MaxChanges
    /\ hurt \subseteq Ids

AudioInit ==
    /\ table = [id \in Ids |-> None] /\ ever = {} /\ queue = <<>>
    /\ subs = table /\ resub = {} /\ streams = {} /\ conn = 0 /\ made = 0
    /\ net = [k \in Links |-> "none"]
    /\ up = [k \in Links |-> <<>>] /\ cmds = up
    /\ reads = [k \in Links |-> FALSE] /\ rx = reads
    /\ tasks = [k \in Links |-> NoTasks] /\ hid = [k \in Links |-> {}]
    /\ dsp = [id \in Ids |-> None]
    /\ changes = 0 /\ breaks = 0 /\ hurt = {}

-----------------------------------------------------------------------------
(* The frontends: try_send, which drops a command when the queue is full.   *)

Push(c) ==
    IF Len(queue) < Capacity THEN queue' = Append(queue, c) /\ UNCHANGED hurt
    ELSE UNCHANGED queue /\ hurt' = hurt \cup {c.id}

Want(id) ==
    /\ id \notin ever /\ ever' = ever \cup {id}
    /\ table' = [table EXCEPT ![id] = First[id]] /\ Push(Msg("sub", id, First[id]))
    /\ UNCHANGED <<subs, resub, streams, conn, made, net, up, serverSide, changes, breaks>>

\* SetFreq for a new frequency, another Subscribe for new decoders; background
\* channels are replaced instead of changed.
Change(id, s) ==
    /\ id \in Wanted \ HiddenIds /\ changes < MaxChanges /\ changes' = changes + 1
    /\ (s.freq = table[id].freq) # (s.dec = table[id].dec)
    /\ table' = [table EXCEPT ![id] = s]
    /\ Push(Msg(IF s.dec = table[id].dec THEN "freq" ELSE "sub", id, s))
    /\ UNCHANGED <<ever, subs, resub, streams, conn, made, net, up, serverSide, breaks>>

Forget(id) ==
    /\ id \in Wanted /\ changes < MaxChanges /\ changes' = changes + 1
    /\ table' = [table EXCEPT ![id] = None] /\ Push(Msg("remove", id, None))
    /\ UNCHANGED <<ever, subs, resub, streams, conn, made, net, up, serverSide, breaks>>

-----------------------------------------------------------------------------
(* The client's task (run_single_rig_audio_client).                         *)

Resubscriptions ==
    LET ids == SetToSeq({id \in Ids : subs[id] # None})
    IN  [i \in DOMAIN ids |-> Msg("sub", ids[i], subs[ids[i]])]

\* Mutant: the connection starts without the channels it had.
Dial_Empty ==
    /\ conn = 0 /\ made' = made + 1 /\ conn' = made + 1
    /\ net' = [net EXCEPT ![made + 1] = "open"] /\ resub' = {}
    /\ reads' = [reads EXCEPT ![made + 1] = TRUE] /\ rx' = [rx EXCEPT ![made + 1] = TRUE]
    /\ UNCHANGED <<table, ever, queue, subs, streams, up, cmds, tasks, hid, dsp,
                   changes, breaks, hurt>>

\* Another connection, with a SUB for every channel the task remembers.
Dial ==
    /\ conn = 0 /\ made' = made + 1 /\ conn' = made + 1
    /\ net' = [net EXCEPT ![made + 1] = "open"]
    /\ up' = [up EXCEPT ![made + 1] = Resubscriptions]
    /\ resub' = {id \in Ids : subs[id] # None}
    /\ reads' = [reads EXCEPT ![made + 1] = TRUE] /\ rx' = [rx EXCEPT ![made + 1] = TRUE]
    /\ UNCHANGED <<table, ever, queue, subs, streams, cmds, tasks, hid, dsp,
                   changes, breaks, hurt>>

\* What a command leaves in active_subs; a Remove only once it is written.
Remembered(c, written) ==
    CASE c.op = "sub" -> [subs EXCEPT ![c.id] = c.set]
      [] c.op = "freq" /\ subs[c.id] # None -> [subs EXCEPT ![c.id].freq = c.set.freq]
      [] c.op = "remove" /\ written -> [subs EXCEPT ![c.id] = None]
      [] OTHER -> subs

Taken == conn # 0 /\ queue # <<>> /\ queue' = Tail(queue)

\* The first Subscribe of a channel the connection began with writes nothing:
\* what it changes since is not sent.
Swallow ==
    LET c == Head(queue) IN
    /\ Taken /\ c.op = "sub" /\ c.id \in resub
    /\ resub' = resub \ {c.id} /\ subs' = Remembered(c, FALSE)
    /\ hurt' = IF subs[c.id] # c.set THEN hurt \cup {c.id} ELSE hurt
    /\ UNCHANGED <<table, ever, streams, conn, made, net, up, serverSide, changes, breaks>>

Written == Taken /\ ~(Head(queue).op = "sub" /\ Head(queue).id \in resub)

\* A change of frequency and a Remove are not repeated by another connection.
LostWith(msgs) == {msgs[i].id : i \in {j \in DOMAIN msgs : msgs[j].op # "sub"}}

\* Mutant: a Remove leaves the channel among those to be resubscribed.
Take_KeepsSub ==
    LET c == Head(queue) IN
    /\ Written
    /\ subs' = Remembered(c, FALSE)
    /\ streams' = IF c.op = "remove" THEN streams \ {c.id} ELSE streams
    /\ IF net[conn] = "open" THEN up' = [up EXCEPT ![conn] = Append(@, c)] /\ UNCHANGED hurt
       ELSE UNCHANGED up /\ hurt' = hurt \cup LostWith(<<c>>)
    /\ UNCHANGED <<table, ever, resub, conn, made, net, serverSide, changes, breaks>>

\* A command is written; on a broken connection nobody will read it.
Take ==
    LET c == Head(queue) IN
    /\ Written
    /\ subs' = Remembered(c, TRUE)
    /\ streams' = IF c.op = "remove" THEN streams \ {c.id} ELSE streams
    /\ IF net[conn] = "open" THEN up' = [up EXCEPT ![conn] = Append(@, c)] /\ UNCHANGED hurt
       ELSE UNCHANGED up /\ hurt' = hurt \cup LostWith(<<c>>)
    /\ UNCHANGED <<table, ever, resub, conn, made, net, serverSide, changes, breaks>>

\* The write fails: the command is gone, a channel that was to be removed stays
\* among those resubscribed.
TakeFails ==
    LET c == Head(queue) IN
    /\ Written /\ net[conn] = "cut"
    /\ subs' = Remembered(c, FALSE) /\ conn' = 0 /\ resub' = {}
    /\ hurt' = hurt \cup LostWith(<<c>>)
    /\ UNCHANGED <<table, ever, streams, made, net, up, serverSide, changes, breaks>>

\* The receiving half ends.
LinkLost ==
    /\ conn # 0 /\ net[conn] = "cut" /\ conn' = 0 /\ resub' = {}
    /\ UNCHANGED <<table, ever, queue, subs, streams, made, net, up, serverSide,
                   changes, breaks, hurt>>

\* run_multi_rig_audio_manager: a rig whose audio moved to another port gets a new
\* task, with an empty memory and a new queue.
Respawn ==
    /\ breaks < MaxBreaks /\ breaks' = breaks + 1
    /\ net' = [k \in Links |-> IF k = conn /\ net[k] = "open" THEN "closed" ELSE net[k]]
    /\ queue' = <<>> /\ subs' = [id \in Ids |-> None] /\ resub' = {} /\ conn' = 0
    /\ hurt' = hurt \cup {id \in Ids : subs[id] # None} \cup {queue[i].id : i \in DOMAIN queue}
    /\ UNCHANGED <<table, ever, streams, made, up, serverSide, changes>>

\* The network: what was under way arrives up to some point.
Cut(n) ==
    /\ conn # 0 /\ net[conn] = "open" /\ breaks < MaxBreaks /\ breaks' = breaks + 1
    /\ n <= Len(up[conn])
    /\ net' = [net EXCEPT ![conn] = "cut"]
    /\ up' = [up EXCEPT ![conn] = SubSeq(@, 1, n)]
    /\ hurt' = hurt \cup LostWith(SubSeq(up[conn], n + 1, Len(up[conn])))
    /\ UNCHANGED <<clientSide, serverSide, changes>>

-----------------------------------------------------------------------------
(* The server (handle_audio_client): a task that reads and one that writes. *)

\* A message of a connection the client has replaced meanwhile may undo what the
\* newer one said.
Late(k, ids) == hurt' = IF k = made THEN hurt ELSE hurt \cup ids

\* A channel that goes ends every task that listens to it.
Destroyed(ids) ==
    /\ dsp' = [id \in Ids |-> IF id \in ids THEN None ELSE dsp[id]]
    /\ tasks' = [k \in Links |-> [id \in Ids |-> IF id \in ids THEN None ELSE tasks[k][id]]]

Arrives(k, op) ==
    /\ reads[k] /\ up[k] # <<>> /\ Head(up[k]).op = op
    /\ up' = [up EXCEPT ![k] = Tail(@)]

\* VCHAN_SUB: a channel that exists is not retuned; the other task is told.
ServeSub(k) ==
    LET c == Head(up[k]) IN
    /\ Arrives(k, "sub")
    /\ dsp' = IF dsp[c.id] = None THEN [dsp EXCEPT ![c.id] = c.set.freq] ELSE dsp
    /\ cmds' = IF rx[k] THEN [cmds EXCEPT ![k] = Append(@, c)] ELSE cmds
    /\ Late(k, {c.id})
    /\ UNCHANGED <<clientSide, net, reads, rx, tasks, hid, changes, breaks>>

\* There is no room for another channel, or the captured span does not hold it.
RefuseSub(k) ==
    /\ Arrives(k, "sub") /\ breaks < MaxBreaks /\ breaks' = breaks + 1
    /\ dsp[Head(up[k]).id] = None
    /\ hurt' = hurt \cup {Head(up[k]).id}
    /\ UNCHANGED <<clientSide, net, serverSide, changes>>

ServeFreq(k) ==
    LET c == Head(up[k]) IN
    /\ Arrives(k, "freq")
    /\ dsp' = IF dsp[c.id] # None THEN [dsp EXCEPT ![c.id] = c.set.freq] ELSE dsp
    /\ Late(k, {c.id})
    /\ UNCHANGED <<clientSide, net, reads, rx, cmds, tasks, hid, changes, breaks>>

\* VCHAN_REMOVE: the other task is told to unsubscribe, then the channel goes.
ServeRemove(k) ==
    LET c == Head(up[k]) IN
    /\ Arrives(k, "remove")
    /\ cmds' = IF rx[k] THEN [cmds EXCEPT ![k] = Append(@, c)] ELSE cmds
    /\ hid' = [hid EXCEPT ![k] = @ \ {c.id}]
    /\ Destroyed({c.id}) /\ Late(k, {c.id})
    /\ UNCHANGED <<clientSide, net, reads, rx, changes, breaks>>

\* Mutant: the decoders a channel already has are left as they are.
RxSubscribe_Once(k) ==
    /\ rx[k] /\ cmds[k] # <<>> /\ Head(cmds[k]).op = "sub"
    /\ LET c == Head(cmds[k]) IN
       /\ hid' = [hid EXCEPT ![k] = IF c.id \in HiddenIds THEN @ \cup {c.id} ELSE @ \ {c.id}]
       /\ tasks' = IF dsp[c.id] # None /\ tasks[k][c.id] = None
                   THEN [tasks EXCEPT ![k][c.id] = c.set.dec] ELSE tasks
       /\ streams' = IF net[k] = "open" THEN streams \cup {c.id} ELSE streams
    /\ cmds' = [cmds EXCEPT ![k] = Tail(@)]
    /\ UNCHANGED <<table, ever, queue, subs, resub, conn, made, net, up, reads, rx, dsp,
                   changes, breaks, hurt>>

\* VChanCmd::Subscribe: new tasks replace those of the channel; they end at once
\* when it is gone already. The client, told
\* in any case, opens a stream.
RxSubscribe(k) ==
    /\ rx[k] /\ cmds[k] # <<>> /\ Head(cmds[k]).op = "sub"
    /\ LET c == Head(cmds[k]) IN
       /\ hid' = [hid EXCEPT ![k] = IF c.id \in HiddenIds THEN @ \cup {c.id} ELSE @ \ {c.id}]
       /\ tasks' = [tasks EXCEPT ![k][c.id] = IF dsp[c.id] = None THEN None ELSE c.set.dec]
       /\ streams' = IF net[k] = "open" THEN streams \cup {c.id} ELSE streams
    /\ cmds' = [cmds EXCEPT ![k] = Tail(@)]
    /\ UNCHANGED <<table, ever, queue, subs, resub, conn, made, net, up, reads, rx, dsp,
                   changes, breaks, hurt>>

RxUnsubscribe(k) ==
    /\ rx[k] /\ cmds[k] # <<>> /\ Head(cmds[k]).op = "remove"
    /\ LET id == Head(cmds[k]).id IN
       /\ hid' = [hid EXCEPT ![k] = @ \ {id}] /\ tasks' = [tasks EXCEPT ![k][id] = None]
    /\ cmds' = [cmds EXCEPT ![k] = Tail(@)]
    /\ UNCHANGED <<clientSide, net, up, reads, rx, dsp, changes, breaks, hurt>>

\* A write fails: the writing task ends its tasks and removes the hidden channels of
\* its list, those a newer connection has taken over included.
RxFails(k) ==
    /\ rx[k] /\ net[k] \in {"cut", "closed"} /\ rx' = [rx EXCEPT ![k] = FALSE]
    /\ dsp' = [id \in Ids |-> IF id \in hid[k] THEN None ELSE dsp[id]]
    /\ tasks' = [j \in Links |-> [id \in Ids |-> IF j = k \/ id \in hid[k] THEN None
                                                 ELSE tasks[j][id]]]
    /\ cmds' = [cmds EXCEPT ![k] = <<>>]
    /\ Late(k, hid[k])
    /\ UNCHANGED <<clientSide, net, up, reads, hid, changes, breaks>>

\* The reading task ends and aborts the other: encoders end as nobody takes their
\* frames, decoders go on and hidden channels stay.
Eof(k) ==
    /\ reads[k] /\ up[k] = <<>> /\ net[k] \in {"cut", "closed"}
    /\ reads' = [reads EXCEPT ![k] = FALSE] /\ rx' = [rx EXCEPT ![k] = FALSE]
    /\ cmds' = [cmds EXCEPT ![k] = <<>>]
    /\ tasks' = [tasks EXCEPT ![k] = [id \in Ids |-> IF @[id] = {} THEN None ELSE @[id]]]
    /\ UNCHANGED <<clientSide, net, up, hid, dsp, changes, breaks, hurt>>

ClientStep == Dial \/ LinkLost \/ Swallow \/ Take \/ TakeFails
ServerStep(k) == ServeSub(k) \/ ServeFreq(k) \/ ServeRemove(k) \/ RxSubscribe(k) \/ RxUnsubscribe(k)

AudioNext ==
    \/ \E id \in Ids : Want(id) \/ Forget(id) \/ \E s \in Settings : Change(id, s)
    \/ ClientStep \/ Respawn
    \/ \E n \in 0..(Capacity + Cardinality(Ids)) : Cut(n)
    \/ \E k \in Links : ServerStep(k) \/ RefuseSub(k) \/ RxFails(k) \/ Eof(k)

\* The client's task connects again after at most ten seconds and is scheduled, as
\* are the tasks of a connection at the server.
AudioFairness == WF_audioVars(ClientStep) /\ \A k \in Links : WF_audioVars(ServerStep(k))

AudioSpec == AudioInit /\ [][AudioNext]_audioVars /\ AudioFairness

-----------------------------------------------------------------------------
(* Properties.                                                              *)

\* Nothing is under way, and of older connections nothing is left.
Quiet ==
    /\ conn # 0 /\ net[conn] = "open"
    /\ queue = <<>> /\ up[conn] = <<>> /\ cmds[conn] = <<>>
    /\ \A k \in 1..(conn - 1) : ~reads[k] /\ ~rx[k]

\* Once everything has arrived the server has the channels of the frontends, on
\* their frequency and with their decoders, and the client a stream for each: a
\* break in between is repaired by the SUBs of the next connection, whatever they
\* raced with. Excepted are channels whose command was dropped by a full queue, lost
\* as a FREQ or REMOVE, swallowed, forgotten by a new task or refused, and those an
\* old connection still had messages or a cleanup for.
ServedAsTable ==
    Quiet => \A id \in Ids \ hurt :
        IF table[id] = None THEN dsp[id] = None
        ELSE /\ dsp[id] = table[id].freq /\ tasks[conn][id] = table[id].dec
             /\ id \in streams

\* The server keeps a channel nobody wants, and decoders for it, only where a Remove
\* is under way or was lost: whatever was written last about a channel wins.
NoStrayChannel ==
    \A id \in ever \ (Wanted \cup hurt) :
        dsp[id] # None =>
            \/ \E i \in DOMAIN queue : queue[i] = Msg("remove", id, None)
            \/ \E k \in Links : \E i \in DOMAIN up[k] : up[k][i] = Msg("remove", id, None)

\* Client, wire and server agree on what exists.
AudioInv == AudioTypeOK /\ NoStrayChannel /\ ServedAsTable

\* A channel somebody wants is served in the end, through every break the client can
\* repair ("Re-subscribe active virtual channels on reconnect", audio_client.rs).
InTheEndServed ==
    \A id \in Ids :
        (id \in Wanted \ hurt) ~>
            ((dsp[id] # None /\ id \in streams) \/ id \notin Wanted \/ id \in hurt)

=============================================================================
