----------------------------- MODULE RemoteLink -----------------------------
(***************************************************************************)
(* The connection of trx-client to one trx-server (remote_client.rs) with  *)
(* the handler that serves it (listener.rs).  One task of the client sends *)
(* a line and reads a line, for a poll of all rigs or for a command of a   *)
(* frontend.  Lines carry no number: an answer belongs to a request only   *)
(* by its place in the stream.  Rigs are known to the client by the short  *)
(* names of its configuration.                                             *)
(***************************************************************************)
EXTENDS Naturals, Sequences, SequencesExt

CONSTANTS Rigs,         \* rigs of the server
          Default,      \* the default rig of the server
          Names,        \* short names of the configuration for this server
          RigIds,       \* the rig_id configured for a name, or Wildcard
          DefaultName,  \* the name that is selected at the start
          Selectable,   \* names that clients of http-json put into their lines
          MaxRequests,  \* bound: commands of all frontends
          MaxFaults     \* bound: lost connections, restarts and reads that time out

Wildcard  == "wildcard"    \* no rig_id configured: the server's default
NoRig     == "no rig"
Elsewhere == "elsewhere"   \* a short name of another server

ASSUME LinkAssumption ==
    /\ Default \in Rigs
    /\ RigIds \in [Names -> Rigs \cup {Wildcard}] /\ IsInjective(RigIds)
    /\ Selectable \cup {DefaultName} \subseteq Names \cup {Elsewhere}
    /\ NoRig \notin Rigs /\ Wildcard \notin Rigs /\ Elsewhere \notin Names
    /\ MaxRequests \in Nat /\ MaxFaults \in Nat

Requests == 1..MaxRequests
Poll     == 0              \* the "request" of a GetRigs line
MaxConsecutivePollFailures == 3

VARIABLES link,      \* the TCP connection: down, up, or broken and not yet noticed
          toServer,  \* lines sent and not handled: a request and its rig_id
          toClient,  \* lines the client has not read
          at,        \* the client: down, prime, idle, poll, command or stopped
          streak,    \* poll_failure_streak
          late,      \* history: a read of this connection was given up
          backlog,   \* requests of the frontends on their way to the task
          doing,     \* the request of the command in progress
          selected,  \* selected_rig_id, shared with the frontends
          resolved,  \* short_name_to_rig_id
          chan,      \* rig_states: what the watch channel of a name shows
          global,    \* what the global watch channel shows
          open,      \* rigs the server lists
          served,    \* how many commands a rig has run: the age of its state
          orphans,   \* requests a rig still holds and nobody waits for
          asked,     \* history: what the frontend asked for
          ran,       \* history: the rigs that ran a request
          told,      \* history: how a request was answered
          faults     \* the faults so far

wire   == <<link, toServer, toClient>>
client == <<at, streak, late, doing>>
views  == <<selected, resolved, chan, global>>
server == <<open, served, orphans, ran>>
vars   == <<wire, client, backlog, views, server, asked, told, faults>>

\* A snapshot of some rigs holds the age of the state of each.
NoSnapshot == [r \in {} |-> 0]
Only(r, ages) == [x \in {r} |-> ages[x]]

Init ==
    /\ link = "down" /\ toServer = <<>> /\ toClient = <<>>
    /\ at = "down" /\ streak = 0 /\ late = FALSE /\ doing = Poll
    /\ backlog = <<>>
    /\ selected = DefaultName
    /\ resolved = [n \in Names |-> NoRig]
    /\ chan = [n \in Names |-> NoSnapshot] /\ global = NoSnapshot
    /\ open = {} /\ served = [r \in Rigs |-> 0] /\ orphans = {}
    /\ asked = <<>>
    /\ ran = [i \in Requests |-> <<>>]
    /\ told = [i \in Requests |-> [kind |-> "none", of |-> Poll, late |-> FALSE]]
    /\ faults = 0

Fault == faults < MaxFaults /\ faults' = faults + 1

-----------------------------------------------------------------------------
(* The frontends.                                                          *)

\* The http frontend and the rigctl listeners put the short name into
\* rig_id_override.  http-json makes the rig_id of its envelope, if there is one,
\* the selected rig and sends the request without an override.
Submit(n, override) ==
    /\ Len(asked) < MaxRequests /\ at /= "stopped"
    /\ n \in (IF override THEN Names ELSE Selectable \cup {selected})
    /\ selected' = IF override THEN selected ELSE n
    /\ asked' = Append(asked,
         [name |-> n, override |-> override,
          known |-> override /\ resolved[n] /= NoRig])
    /\ backlog' = Append(backlog, Len(asked'))
    /\ UNCHANGED <<wire, client, resolved, chan, global, server, told, faults>>

\* Any other line of http-json that names a rig.
Select(n) ==
    /\ at /= "stopped" /\ selected' = n /\ n /= selected
    /\ UNCHANGED <<wire, client, backlog, resolved, chan, global, server, asked,
                   told, faults>>

\* The dispatcher of main.rs sends a request without override to the server of
\* the rig that is selected when the request gets there.
RoutedElsewhere(k) ==
    /\ ~asked[backlog[k]].override /\ selected = Elsewhere
    /\ backlog' = RemoveAt(backlog, k)
    /\ told' = [told EXCEPT ![backlog[k]].kind = "elsewhere"]
    /\ UNCHANGED <<wire, client, views, server, asked, faults>>

-----------------------------------------------------------------------------
(* The client task.                                                        *)

\* Lines written to a connection that is already lost go nowhere.
Send(line) ==
    toServer' = IF link = "up" THEN Append(toServer, line) ELSE toServer

\* What the server has been sent and not handled may still run.
Left(lines) == {l \in ToSet(lines) : l.id /= Poll}

\* run_remote_client connects, handle_connection primes the rig list at once.
Connect ==
    /\ at = "down" /\ at' = "prime"
    /\ link' = "up" /\ toServer' = <<[id |-> Poll, rig |-> Default]>>
    /\ UNCHANGED <<toClient, streak, late, doing, backlog, views, server, asked, told, faults>>

\* A new connection starts with an empty reader and a new streak.
Disconnect ==
    /\ at' = "down" /\ link' = "down"
    /\ toServer' = <<>> /\ toClient' = <<>>
    /\ orphans' = orphans \cup Left(toServer)
    /\ streak' = 0 /\ late' = FALSE

PollTick ==
    /\ at = "idle" /\ at' = "poll"
    /\ Send([id |-> Poll, rig |-> Default])
    /\ UNCHANGED <<link, toClient, streak, late, doing, backlog, views, server,
                   asked, told, faults>>

\* build_envelope: the name, or the selected one, becomes a rig_id if a listing
\* has resolved it; without a rig_id the server takes its default.
NameOf(i) == IF asked[i].override THEN asked[i].name ELSE selected
WireRig(i) ==
    IF NameOf(i) \in Names /\ resolved[NameOf(i)] /= NoRig
    THEN resolved[NameOf(i)] ELSE Default

\* Mutant: the client shows the effect of a command before the server answers.
TakeCommand_Optimistic ==
    /\ at = "idle" /\ backlog /= <<>>
    /\ at' = "command" /\ doing' = Head(backlog) /\ backlog' = Tail(backlog)
    /\ Send([id |-> Head(backlog), rig |-> WireRig(Head(backlog))])
    /\ chan' = [chan EXCEPT ![asked[Head(backlog)].name] =
                   [r \in DOMAIN @ |-> @[r] + 1]]
    /\ UNCHANGED <<link, toClient, streak, late, selected, resolved, global, server,
                   asked, told, faults>>

TakeCommand ==
    /\ at = "idle" /\ backlog /= <<>>
    /\ at' = "command" /\ doing' = Head(backlog) /\ backlog' = Tail(backlog)
    /\ Send([id |-> Head(backlog), rig |-> WireRig(Head(backlog))])
    /\ UNCHANGED <<link, toClient, streak, late, views, server, asked, told, faults>>

\* refresh_remote_snapshot: which rigs a listing may give to a name.  The wildcard
\* gets one that no other name has: which of them depends, by choose_default_rig,
\* on what the rigs can do and on whether they are initialized by now.
Configured == Range(RigIds) \ {Wildcard}
Candidates(n, listed) ==
    IF RigIds[n] /= Wildcard THEN {RigIds[n]} \cap listed ELSE listed \ Configured

Refresh(snaps) ==
    \E got \in [Names -> Rigs \cup {NoRig}] :
        /\ \A n \in Names : IF Candidates(n, DOMAIN snaps) = {} THEN got[n] = NoRig
                            ELSE got[n] \in Candidates(n, DOMAIN snaps)
        /\ \E n \in Names : got[n] /= NoRig
        /\ resolved' = [n \in Names |-> IF got[n] = NoRig THEN resolved[n] ELSE got[n]]
        /\ chan' = [n \in Names |->
                      IF got[n] = NoRig THEN NoSnapshot ELSE Only(got[n], snaps)]
        /\ global' = IF selected \in Names /\ got[selected] /= NoRig
                     THEN Only(got[selected], snaps) ELSE global

Listing(line) ==
    line.kind = "rigs" /\ \E n \in Names : Candidates(n, DOMAIN line.snaps) /= {}

PollRefreshes ==
    /\ at \in {"prime", "poll"} /\ toClient /= <<>> /\ Listing(Head(toClient))
    /\ Refresh(Head(toClient).snaps)
    /\ toClient' = Tail(toClient)
    /\ at' = "idle" /\ streak' = 0
    /\ UNCHANGED <<link, toServer, late, doing, backlog, selected, server, asked,
                   told, faults>>

\* Mutant: no failure of a poll gives the connection up.
PollFailed_Keeps(hopeless, unread, nowLate) ==
    /\ at' = "idle" /\ toClient' = unread /\ late' = nowLate
    /\ UNCHANGED <<link, toServer, orphans, streak>>

\* A failed priming is only logged.  A failed poll counts, and the connection is
\* given up at the third in a row, or when the text of the error speaks of a
\* timeout or a closed connection, the server's own error texts included.
PollFailed(hopeless, unread, nowLate) ==
    IF at = "poll" /\ (hopeless \/ streak + 1 >= MaxConsecutivePollFailures)
    THEN Disconnect
    ELSE /\ at' = "idle" /\ toClient' = unread /\ late' = nowLate
         /\ streak' = IF at = "poll" THEN streak + 1 ELSE streak
         /\ UNCHANGED <<link, toServer, orphans>>

PollRejects ==
    /\ at \in {"prime", "poll"} /\ toClient /= <<>> /\ ~Listing(Head(toClient))
    /\ PollFailed(Head(toClient).kind = "expired", Tail(toClient), late)
    /\ UNCHANGED <<doing, backlog, views, open, served, ran, asked, told, faults>>

\* A write or a read fails; on a connection that is late by a line, a write may
\* fail with lines still unread.
Failing == link = "broken" /\ (toClient = <<>> \/ late)

\* "read failed" keeps the connection, "connection closed by remote" drops it.
PollLost ==
    /\ at \in {"prime", "poll"} /\ Failing
    /\ \E closed \in BOOLEAN :
        (closed => toClient = <<>>) /\ PollFailed(closed, toClient, late)
    /\ UNCHANGED <<doing, backlog, views, open, served, ran, asked, told, faults>>

\* Only a priming survives its timeout: its answer is read by somebody else.
PollTimesOut ==
    /\ at \in {"prime", "poll"} /\ toClient = <<>> /\ link = "up" /\ Fault
    /\ PollFailed(TRUE, toClient, TRUE)
    /\ UNCHANGED <<doing, backlog, views, open, served, ran, asked, told>>

\* send_command: whatever line comes next is the answer.  Of an error the history
\* does not keep whose it was.
Answer(kind, of) ==
    /\ at' = "idle" /\ doing' = Poll
    /\ told' = [told EXCEPT ![doing] = [kind |-> kind, of |-> of, late |-> late /\ kind = "ok"]]

\* The snapshot goes to the channel of the overriding name or of the name that
\* is selected by now, if there is one, and to the global channel.
CommandSucceeds ==
    /\ at = "command" /\ toClient /= <<>> /\ Head(toClient).kind = "state"
    /\ Answer("ok", Head(toClient).of)
    /\ toClient' = Tail(toClient)
    /\ global' = Head(toClient).snaps
    /\ chan' = [n \in Names |-> IF n = NameOf(doing) /\ chan[n] /= NoSnapshot
                                THEN Head(toClient).snaps ELSE chan[n]]
    /\ UNCHANGED <<link, toServer, streak, late, backlog, selected, resolved,
                   server, asked, faults>>

CommandFails ==
    /\ at = "command" /\ toClient /= <<>> /\ Head(toClient).kind /= "state"
    /\ Answer("error", Poll)
    /\ toClient' = Tail(toClient)
    /\ UNCHANGED <<link, toServer, streak, late, backlog, views, server, asked, faults>>

\* Mutant: a command whose connection was lost is sent again on the next one.
CommandLost_Retries ==
    /\ at = "command" /\ Failing
    /\ at' = "idle" /\ doing' = Poll /\ backlog' = <<doing>> \o backlog
    /\ UNCHANGED <<wire, streak, late, views, server, asked, told, faults>>

CommandLost ==
    /\ at = "command" /\ Failing
    /\ Answer("error", Poll)
    /\ UNCHANGED <<wire, streak, late, backlog, views, server, asked, faults>>

\* The connection stays, and with it the answer that is still to come.
CommandTimesOut ==
    /\ at = "command" /\ toClient = <<>> /\ link = "up" /\ Fault
    /\ Answer("error", Poll) /\ late' = TRUE
    /\ UNCHANGED <<wire, streak, backlog, views, server, asked>>

\* Mutant: requests that are still queued keep their responders.
Shutdown_Forgets ==
    /\ at \in {"idle", "down"} /\ at' = "stopped"
    /\ link' = "down" /\ toServer' = <<>> /\ toClient' = <<>>
    /\ orphans' = orphans \cup Left(toServer)
    /\ backlog' = <<>>
    /\ UNCHANGED <<streak, late, doing, views, open, served, ran, asked, told, faults>>

\* The shutdown signal is seen in the select and between connections; requests
\* that are still queued are dropped with their responders.
Shutdown ==
    /\ at \in {"idle", "down"} /\ at' = "stopped"
    /\ link' = "down" /\ toServer' = <<>> /\ toClient' = <<>>
    /\ orphans' = orphans \cup Left(toServer)
    /\ backlog' = <<>>
    /\ told' = [i \in Requests |-> IF i \in ToSet(backlog)
                    THEN [told[i] EXCEPT !.kind = "dropped"] ELSE told[i]]
    /\ UNCHANGED <<streak, late, doing, views, open, served, ran, asked, faults>>

-----------------------------------------------------------------------------
(* The server: one handler reads the lines of the connection in order.     *)

Reply(kind, of, snaps) ==
    /\ toServer' = Tail(toServer)
    /\ toClient' = Append(toClient, [kind |-> kind, of |-> of, snaps |-> snaps])

\* A command runs; age is the state of the rig afterwards.
Run(r, id) ==
    /\ r \in open
    /\ served' = [served EXCEPT ![r] = @ + 1]
    /\ ran' = [ran EXCEPT ![id] = Append(@, r)]

\* GetRigs lists the rigs that have got past the opening of their radio.
ServeListing ==
    /\ toServer /= <<>> /\ Head(toServer).id = Poll
    /\ Reply("rigs", Poll, [r \in open |-> served[r]])
    /\ UNCHANGED <<link, client, backlog, views, server, asked, told, faults>>

ServeCommand ==
    /\ toServer /= <<>> /\ Head(toServer).id /= Poll
    /\ Run(Head(toServer).rig, Head(toServer).id)
    /\ Reply("state", Head(toServer).id, Only(Head(toServer).rig, served'))
    /\ UNCHANGED <<link, client, backlog, views, open, orphans, asked, told, faults>>

\* An error of the rig task, or no room in the channel of the rig.
ServeRefusal ==
    /\ toServer /= <<>> /\ Head(toServer).id /= Poll
    /\ Reply("refused", Head(toServer).id, NoSnapshot)
    /\ UNCHANGED <<link, client, backlog, views, server, asked, told, faults>>

\* "Request timed out waiting for rig response": the rig keeps the request.
ServeTimeout ==
    /\ toServer /= <<>> /\ Head(toServer).id /= Poll
    /\ Reply("expired", Head(toServer).id, NoSnapshot)
    /\ orphans' = orphans \cup {Head(toServer)}
    /\ UNCHANGED <<link, client, backlog, views, open, served, ran, asked, told, faults>>

RunOrphan(l) ==
    /\ l \in orphans /\ orphans' = orphans \ {l}
    /\ Run(l.rig, l.id)
    /\ UNCHANGED <<wire, client, backlog, views, open, asked, told, faults>>

RigOpens(r) ==
    /\ r \in Rigs \ open /\ open' = open \cup {r}
    /\ UNCHANGED <<wire, client, backlog, views, served, orphans, ran, asked, told, faults>>

\* The network drops the connection: some of the answers still arrive.
Break ==
    /\ link' = IF link = "up" THEN "broken" ELSE link
    /\ toServer' = <<>>
    /\ \E n \in 0..Len(toClient) : toClient' = SubSeq(toClient, 1, n)

LinkBreaks ==
    /\ link = "up" /\ Fault /\ Break
    /\ orphans' = orphans \cup Left(toServer)
    /\ UNCHANGED <<client, backlog, views, open, served, ran, asked, told>>

ServerRestarts ==
    /\ Fault /\ Break
    /\ open' = {} /\ orphans' = {}
    /\ UNCHANGED <<client, backlog, views, served, ran, asked, told>>

-----------------------------------------------------------------------------
Frontends ==
    \/ \E n \in Names \cup {Elsewhere}, override \in BOOLEAN : Submit(n, override)
    \/ \E n \in Selectable : Select(n)
    \/ \E k \in DOMAIN backlog : RoutedElsewhere(k)
PollEnds ==
    PollRefreshes \/ PollRejects \/ PollLost \/ PollTimesOut
CommandEnds ==
    CommandSucceeds \/ CommandFails \/ CommandLost \/ CommandTimesOut
Client == Connect \/ PollTick \/ TakeCommand \/ PollEnds \/ CommandEnds
Serve == ServeListing \/ ServeCommand \/ ServeRefusal \/ ServeTimeout
Server ==
    \/ Serve \/ LinkBreaks \/ ServerRestarts
    \/ \E l \in orphans : RunOrphan(l)
    \/ \E r \in Rigs : RigOpens(r)

Next == Frontends \/ Client \/ Shutdown \/ Server
Spec == Init /\ [][Next]_vars

\* select! picks at random among its ready branches, so that a command or a poll
\* that is ready again and again is taken; the task runs on, the handler serves
\* what it reads, and a rig that is not open gets opened.  Faults are not fair.
Fairness ==
    /\ WF_vars(Connect) /\ WF_vars(PollEnds) /\ WF_vars(CommandEnds) /\ WF_vars(Serve)
    /\ SF_vars(PollTick) /\ SF_vars(TakeCommand)
    /\ \A r \in Rigs : WF_vars(RigOpens(r))
FairSpec == Spec /\ Fairness

-----------------------------------------------------------------------------
(* Properties.                                                             *)

ServerLine == [id : Requests \cup {Poll}, rig : Rigs]

\* Types, and what the control of the two tasks keeps true: only a connection
\* that has given up a read can carry more than one line for the client.
TypeOK ==
    /\ link \in {"down", "up", "broken"}
    /\ at \in {"down", "prime", "idle", "poll", "command", "stopped"}
    /\ \A i \in DOMAIN toServer : toServer[i] \in ServerLine
    /\ \A i \in DOMAIN toClient :
          /\ DOMAIN toClient[i] = {"kind", "of", "snaps"}
          /\ DOMAIN toClient[i].snaps \subseteq Rigs
    /\ streak \in 0..(MaxConsecutivePollFailures - 1) /\ late \in BOOLEAN
    /\ doing \in Requests \cup {Poll} /\ (doing /= Poll <=> at = "command")
    /\ ToSet(backlog) \subseteq DOMAIN asked /\ IsInjective(backlog)
    /\ selected \in Names \cup {Elsewhere}
    /\ resolved \in [Names -> Rigs \cup {NoRig}]
    /\ \A n \in Names : DOMAIN chan[n] \subseteq Rigs
    /\ open \subseteq Rigs /\ orphans \subseteq ServerLine
    /\ ~late => Len(toServer) + Len(toClient) <= 1

\* The client never runs a request twice: not after a failed read, not after a
\* reconnect, not when the server answers that the rig has timed out.
AtMostOnce == \A i \in Requests : Len(ran[i]) <= 1

\* A frontend that is told ok is told the result of its own request, and the
\* request has run, as long as no read of the connection has been given up.
OwnAnswer ==
    \A i \in Requests : told[i].kind = "ok" /\ ~told[i].late =>
        told[i].of = i /\ Len(ran[i]) = 1

\* What the watch channel of a name shows is the rig that commands for the name
\* go to.
Right(n) == chan[n] = NoSnapshot \/ DOMAIN chan[n] = {resolved[n]}
ChannelsRight == \A n \in Names : Right(n)

\* That holds through reconnects, restarts and a wildcard that moves to another
\* rig, as long as no command was answered after a read had been given up, and
\* none that was addressed to the selected rig.
ChannelsRightUnlessMixed ==
    (\A i \in Requests : told[i].kind = "ok" =>
        ~told[i].late /\ i \in DOMAIN asked /\ asked[i].override)
        => ChannelsRight

\* A request that named its rig when a listing had already resolved the name
\* runs on that rig, also after the server has restarted without it.
KnownNameRoutes ==
    \A i \in DOMAIN asked :
        asked[i].override /\ asked[i].known /\ RigIds[asked[i].name] /= Wildcard =>
            \A k \in DOMAIN ran[i] : ran[i][k] = RigIds[asked[i].name]

\* Whatever was lost on the way, the two tasks agree on what is under way, and no
\* request runs twice.
LinkInv ==
    /\ TypeOK /\ AtMostOnce /\ OwnAnswer /\ ChannelsRightUnlessMixed /\ KnownNameRoutes

\* As long as a channel shows the same rig it never goes back to an older state,
\* with answers read late and over reconnects.
NeverBackInTime ==
    [][\A n \in Names : DOMAIN chan'[n] = DOMAIN chan[n] =>
        \A r \in DOMAIN chan[n] : chan'[n][r] >= chan[n][r]]_vars

\* Every request of a frontend is answered, whatever happens to the connection.
RequestAnswered ==
    \A i \in Requests : i \in DOMAIN asked ~> told[i].kind /= "none"

\* Once there are no more commands and faults, every name shows the state of the
\* rig its commands go to, also a wildcard that has moved and also on a connection
\* where answers are one line behind; the global channel shows the selected rig.
Current(n) == resolved[n] /= NoRig /\ chan[n] = Only(resolved[n], served)
CatchesUp ==
    <>[](\/ at = "stopped"
         \/ /\ \A n \in Names : Current(n)
            /\ \A n \in Names : selected = n => global = chan[n])

-----------------------------------------------------------------------------
(* The inductive invariant behind LinkInv and NeverBackInTime               *)
(* (RemoteLinkProofs).                                                      *)

Shapes ==
    /\ toServer \in Seq(ServerLine) /\ toClient \in Seq(Range(toClient))
    /\ \A k \in DOMAIN toClient :
          /\ toClient[k].kind \in {"rigs", "state", "refused", "expired"}
          /\ \A r \in DOMAIN toClient[k].snaps : toClient[k].snaps[r] \in Nat
    /\ backlog \in Seq(Requests) /\ Len(asked) <= MaxRequests
    /\ asked \in Seq([name : Names \cup {Elsewhere}, override : BOOLEAN, known : BOOLEAN])
    /\ \A i \in DOMAIN asked : asked[i].override => asked[i].name \in Names
    /\ ran \in [Requests -> Seq(Rigs)] /\ served \in [Rigs -> Nat]
    /\ \A n \in Names : \A r \in DOMAIN chan[n] : chan[n][r] \in Nat
    /\ told \in [Requests -> [kind : {"none", "ok", "error", "elsewhere", "dropped"},
                             of : Requests \cup {Poll}, late : BOOLEAN]]

\* A connection that is down or lost carries nothing to the server, and one on which no
\* read has been given up carries only what the client waits for.
Control ==
    /\ at \in {"down", "stopped"} => link = "down" /\ toServer = <<>> /\ toClient = <<>>
    /\ at = "down" => ~late
    /\ link /= "up" => toServer = <<>>
    /\ ~late /\ at = "idle" => toServer = <<>> /\ toClient = <<>>
    /\ ~late /\ at = "command" =>
          /\ \A k \in DOMAIN toServer : toServer[k].id = doing
          /\ \A k \in DOMAIN toClient : toClient[k].kind = "state" => toClient[k].of = doing

\* A request is on its way, or is held by a rig, or has run once.
InLines(i) == \E k \in DOMAIN toServer : toServer[k].id = i
Held(i) == \E l \in orphans : l.id = i
Apart ==
    /\ \A j, k \in DOMAIN toServer : toServer[j].id = toServer[k].id /\ toServer[j].id /= Poll => j = k
    /\ \A l, m \in orphans : l.id = m.id => l = m
    /\ \A i \in Requests : InLines(i) => i \in DOMAIN asked /\ ran[i] = <<>> /\ ~Held(i)
    /\ \A l \in orphans : l.id \in DOMAIN asked /\ ran[l.id] = <<>>
    /\ \A i \in Requests : Len(ran[i]) <= 1 /\ (ran[i] /= <<>> => i \in DOMAIN asked)

\* Until then it waits with the client, and is not answered before the client has sent it.
Waiting ==
    /\ \A i \in ToSet(backlog) :
          i /= doing /\ told[i].kind = "none" /\ ran[i] = <<>> /\ ~InLines(i) /\ ~Held(i)
    /\ doing /= Poll => doing \in DOMAIN asked /\ told[doing].kind = "none"
    /\ \A i \in Requests \ DOMAIN asked : told[i].kind = "none"

\* An answer that tells of success comes from a rig that has run the request.
Answers ==
    \A k \in DOMAIN toClient : toClient[k].kind = "state" =>
        toClient[k].of \in Requests /\ Len(ran[toClient[k].of]) = 1

\* What is under way for a request that named its rig goes to that rig.
Addressed ==
    ~late /\ at = "command" /\ asked[doing].override =>
        /\ \A k \in DOMAIN toServer : toServer[k].rig = WireRig(doing)
        /\ \A k \in DOMAIN toClient : toClient[k].kind = "state" =>
              DOMAIN toClient[k].snaps = {WireRig(doing)}

\* A name that a listing has resolved stays resolved, and to the rig of the configuration.
Resolved ==
    /\ \A n \in Names : resolved[n] /= NoRig /\ RigIds[n] /= Wildcard => resolved[n] = RigIds[n]
    /\ \A i \in DOMAIN asked : asked[i].known => asked[i].override /\ resolved[asked[i].name] /= NoRig

Aims(i) == i \in DOMAIN asked /\ asked[i].known /\ RigIds[asked[i].name] /= Wildcard
Aimed ==
    /\ \A k \in DOMAIN toServer : Aims(toServer[k].id) => toServer[k].rig = RigIds[asked[toServer[k].id].name]
    /\ \A l \in orphans : Aims(l.id) => l.rig = RigIds[asked[l.id].name]

\* Nothing that is on its way to a channel is older than what the channel shows.
LineAges ==
    \A k \in DOMAIN toClient : \A r \in DOMAIN toClient[k].snaps :
        /\ toClient[k].snaps[r] <= served[r]
        /\ \A j \in DOMAIN toClient :
              j <= k /\ r \in DOMAIN toClient[j].snaps => toClient[j].snaps[r] <= toClient[k].snaps[r]
ChannelAges ==
    \A n \in Names : \A r \in DOMAIN chan[n] :
        /\ chan[n][r] <= served[r]
        /\ \A k \in DOMAIN toClient :
              r \in DOMAIN toClient[k].snaps => chan[n][r] <= toClient[k].snaps[r]

LinkInd ==
    /\ TypeOK /\ Shapes /\ Control /\ Apart /\ Waiting /\ Answers /\ Addressed
    /\ Resolved /\ Aimed /\ LineAges /\ ChannelAges
    /\ OwnAnswer /\ ChannelsRightUnlessMixed /\ KnownNameRoutes

=============================================================================
