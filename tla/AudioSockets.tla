----------------------------- MODULE AudioSockets -----------------------------
(* The audio sockets of web pages (http-frontend audio.rs, audio_ws): a     *)
(* page asks for the audio of a virtual channel, of a rig or of the         *)
(* selected rig, is upgraded, waits for the parameters of the stream, then  *)
(* gets packets and sends those of its microphone. The client's audio tasks *)
(* (audio_client.rs) make and remove what the sockets wait for. All of them *)
(* share the receiver of the microphone packets behind a lock; a task takes *)
(* part while it believes its rig to be the selected one, which it checks   *)
(* only when something else has woken it.                                   *)
EXTENDS Integers, Sequences, FiniteSets, SequencesExt

CONSTANTS Sockets,      \* requests for /audio
          Sources,      \* what a request names: virtual channels and rigs
          Channels,     \* those that are virtual channels
          Radios,       \* the rigs with an audio task
          Everything,   \* model value: no channel and no rig is named
          Waits,        \* how long a request waits for its source
          MicRoom,      \* microphone packets that fit the queue
          MaxMoves      \* bound: moves of pages and of the audio client

ASSUME AudioSocketAssumption ==
    /\ IsFiniteSet(Sockets) /\ Channels \subseteq Sources /\ Everything \notin Sources
    /\ {Waits, MicRoom, MaxMoves} \subseteq Nat /\ MicRoom > 0

VARIABLES
    socket,     \* per request: [at, of, waited]
    offered,    \* the sources that have a broadcaster
    hears,      \* per request: the broadcaster it is subscribed to is still there
    informed,   \* whether the parameters of the stream are known: the last ones stay
    mic,        \* the queue of microphone packets: the rig selected when each was put
    chosen,     \* selected_rig_id
    joined,     \* the radios whose audio connection is up
    line,       \* the tasks in line for the receiver; the first one waits for a packet
    missent,    \* history: packets that went to a rig not selected when they
                \* were put nor when they were taken
    switches,   \* history: changes of the selected rig
    clients,    \* audio.clients, as the status of the frontend shows it
    strayed,    \* history: sockets that ended before their stream began
    moves       \* bounded counter

pumpVars == <<chosen, joined, line, missent, switches>>
socketVars == <<socket, offered, hears, informed, mic, pumpVars, clients, strayed, moves>>
worldVars == <<offered, informed, pumpVars>>

Absent == [at |-> "absent", of |-> Everything, waited |-> 0]
Rest == Sources \ Channels
Running == {c \in Sockets : socket[c].at \in {"informing", "streaming", "pushing"}}

SocketTypeOK ==
    /\ socket \in [Sockets -> [at : {"absent", "waiting", "informing", "streaming", "pushing"},
                               of : Sources \cup {Everything}, waited : 0..Waits]]
    /\ offered \subseteq Sources /\ hears \in [Sockets -> BOOLEAN]
    /\ informed \in BOOLEAN /\ chosen \in Radios /\ joined \subseteq Radios
    /\ ToSet(line) \subseteq joined /\ IsInjective(line) /\ missent \in Nat /\ switches \in Nat
    /\ ToSet(mic) \subseteq Radios /\ Len(mic) <= MicRoom /\ clients \in Nat /\ strayed \in Nat /\ moves \in 0..MaxMoves

SocketInit ==
    /\ socket = [c \in Sockets |-> Absent] /\ hears = [c \in Sockets |-> FALSE]
    /\ offered = {} /\ informed = FALSE /\ mic = <<>>
    /\ chosen \in Radios /\ joined = {} /\ line = <<>> /\ missent = 0 /\ switches = 0
    /\ clients = 0 /\ strayed = 0 /\ moves = 0

Move == moves < MaxMoves /\ moves' = moves + 1

\* GET /audio. Without a channel or a rig the common broadcaster serves at once.
AskAudio(c, s) ==
    /\ Move /\ socket[c] = Absent
    /\ IF s = Everything
       THEN /\ socket' = [socket EXCEPT ![c] = [at |-> "informing", of |-> s, waited |-> 0]]
            /\ hears' = [hears EXCEPT ![c] = TRUE] /\ clients' = clients + 1
       ELSE /\ socket' = [socket EXCEPT ![c] = [at |-> "waiting", of |-> s, waited |-> 0]]
            /\ UNCHANGED <<hears, clients>>
    /\ UNCHANGED <<worldVars, mic, strayed>>

\* The loop that looks every 50 or 100 ms for the broadcaster; past its deadline, 404.
\* It looks once more before it gives up, and never takes another rig's.
LookForSource(c) ==
    LET s == socket[c].of IN
    /\ socket[c].at = "waiting"
    /\ \/ /\ s \in offered
          /\ socket' = [socket EXCEPT ![c].at = "informing", ![c].waited = 0]
          /\ hears' = [hears EXCEPT ![c] = TRUE] /\ clients' = clients + 1
       \/ /\ s \notin offered /\ socket[c].waited < Waits
          /\ socket' = [socket EXCEPT ![c].waited = @ + 1] /\ UNCHANGED <<hears, clients>>
       \/ /\ s \notin offered /\ socket[c].waited = Waits
          /\ socket' = [socket EXCEPT ![c] = Absent] /\ UNCHANGED <<hears, clients>>
    /\ UNCHANGED <<worldVars, mic, strayed, moves>>

Informed(c) ==
    /\ socket[c].at = "informing" /\ informed
    /\ socket' = [socket EXCEPT ![c].at = "streaming"]
    /\ UNCHANGED <<worldVars, hears, mic, clients, strayed, moves>>

\* The parameters cannot be sent, the page has left: a return that counts nobody down.
InformingFails(c) ==
    /\ Move /\ socket[c].at = "informing" /\ informed
    /\ socket' = [socket EXCEPT ![c] = Absent] /\ hears' = [hears EXCEPT ![c] = FALSE]
    /\ strayed' = strayed + 1
    /\ UNCHANGED <<worldVars, mic, clients>>

\* Mutant: a socket that ends is not counted down.
SocketEnds_Counted(c) ==
    /\ socket[c].at = "streaming"
    /\ \/ Move
       \/ ~hears[c] /\ UNCHANGED moves
    /\ socket' = [socket EXCEPT ![c] = Absent] /\ hears' = [hears EXCEPT ![c] = FALSE]
    /\ UNCHANGED <<worldVars, mic, clients, strayed>>

\* The page closes, a send fails, or the broadcaster is gone.
SocketEnds(c) ==
    /\ socket[c].at = "streaming"
    /\ \/ Move
       \/ ~hears[c] /\ UNCHANGED moves
    /\ socket' = [socket EXCEPT ![c] = Absent] /\ hears' = [hears EXCEPT ![c] = FALSE]
    /\ clients' = clients - 1
    /\ UNCHANGED <<worldVars, mic, strayed>>

\* A packet of the page's microphone: with a full queue the socket stays in this send, and
\* neither plays nor notices that the page has left.
MicPacket(c) ==
    /\ Move /\ socket[c].at = "streaming"
    /\ IF Len(mic) < MicRoom THEN mic' = Append(mic, chosen) /\ UNCHANGED socket
       ELSE socket' = [socket EXCEPT ![c].at = "pushing"] /\ UNCHANGED mic
    /\ UNCHANGED <<worldVars, hears, clients, strayed>>

\* A task goes round its loop: it leaves the line and joins the end if it is selected now.
LeftBy(r, tasks) ==
    IF r \in ToSet(tasks) THEN RemoveAt(tasks, CHOOSE i \in DOMAIN tasks : tasks[i] = r) ELSE tasks
Round(r, tasks) == IF chosen = r THEN Append(LeftBy(r, tasks), r) ELSE LeftBy(r, tasks)

\* The task at the head takes a packet and sends it to its rig; a waiting socket puts its
\* own.
TakeMic ==
    LET r == Head(line) IN
    /\ line # <<>> /\ mic # <<>>
    /\ \/ /\ \E c \in Sockets : /\ socket[c].at = "pushing"
                                /\ socket' = [socket EXCEPT ![c].at = "streaming"]
          /\ mic' = Append(Tail(mic), chosen)
       \/ /\ \A c \in Sockets : socket[c].at # "pushing"
          /\ mic' = Tail(mic) /\ UNCHANGED socket
    /\ line' = Round(r, line) 
    /\ missent' = missent + (IF r \in {chosen, Head(mic)} THEN 0 ELSE 1)
    /\ UNCHANGED <<offered, informed, chosen, joined, switches, hears, clients, strayed, moves>>

\* A command for one of its channels wakes a task.
Woken(r) ==
    /\ Move /\ r \in joined /\ line' = Round(r, line)
    /\ UNCHANGED <<socket, offered, hears, informed, mic, chosen, joined, missent, switches,
                   clients, strayed>>

\* A page selects another rig: no task is told.
Switch(r) ==
    /\ Move /\ chosen # r /\ chosen' = r /\ switches' = switches + 1
    /\ UNCHANGED <<socket, offered, hears, informed, mic, joined, line, missent, clients, strayed>>

\* The audio connection of a rig: its task goes into its loop, or out of it.
Joins(r) ==
    /\ Move /\ r \notin joined
    /\ joined' = joined \cup {r} /\ line' = Round(r, line) /\ informed' = TRUE
    /\ UNCHANGED <<socket, offered, hears, mic, chosen, missent, switches, clients, strayed>>

Parts(r) ==
    /\ Move /\ r \in joined
    /\ joined' = joined \ {r} /\ line' = LeftBy(r, line)
    /\ UNCHANGED <<socket, offered, hears, informed, mic, chosen, missent, switches, clients, strayed>>

\* Broadcasters of channels come and go; a rig's stays once it is there.
SourceComes(s) ==
    /\ Move /\ s \notin offered /\ offered' = offered \cup {s}
    /\ UNCHANGED <<socket, hears, informed, mic, pumpVars, clients, strayed>>

ChannelGoes(s) ==
    /\ Move /\ s \in offered \cap Channels /\ offered' = offered \ {s}
    /\ hears' = [c \in Sockets |-> hears[c] /\ socket[c].of # s]
    /\ UNCHANGED <<socket, informed, mic, pumpVars, clients, strayed>>

SocketNext ==
    \/ \E c \in Sockets :
          \/ \E s \in Sources \cup {Everything} : AskAudio(c, s)
          \/ LookForSource(c) \/ Informed(c) \/ InformingFails(c) \/ SocketEnds(c) \/ MicPacket(c)
    \/ \E s \in Sources : SourceComes(s) \/ ChannelGoes(s)
    \/ \E r \in Radios : Woken(r) \/ Switch(r) \/ Joins(r) \/ Parts(r)
    \/ TakeMic

SocketSpec == SocketInit /\ [][SocketNext]_socketVars
------------------------------------------------------------------------------
\* The count the status shows is that of the sockets that are open, and of those that
\* ended before their stream began: it never falls below the open ones and is right while
\* no page left too early.
CountedRight == clients = Cardinality(Running) + strayed

\* A socket is stopped by its microphone only while the queue is full, and a page never
\* hears another source than the one it named.
StoppedByMicOnly == \A c \in Sockets : socket[c].at = "pushing" => Len(mic) = MicRoom
NamedOnly ==
    \A c \in Running : socket[c].of \in Rest => hears[c] /\ socket[c].of \in offered

\* "Only the selected rig should consume TX frames from the mic" (audio_client.rs:597). The
\* code does not keep this: a task that already waits for a packet when another rig is
\* selected takes the next one. AudioSocketsMic.cfg shows it.
MicToSelected == missent = 0

\* What is true instead: each switch sends at most one packet to a rig selected before,
\* however often tasks are woken, connections come and go and the queue is full.
OnePerSwitch == missent <= switches

\* The sockets: counted right, stopped by nothing but a full queue, on their own source,
\* their microphone misrouted once per switch at most.
SocketInv == SocketTypeOK /\ CountedRight /\ StoppedByMicOnly /\ NamedOnly /\ OnePerSwitch
=============================================================================
