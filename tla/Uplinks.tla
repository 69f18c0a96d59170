------------------------------- MODULE Uplinks -------------------------------
(* The two reporters of trx-reporting, subscribed to the broadcast of       *)
(* decoded messages: PSK Reporter (pskreporter.rs), which collects spots    *)
(* and sends a datagram every five minutes, and the APRS-IS gateway         *)
(* (aprsfi.rs), which forwards packets over a connection it keeps renewing. *)
(*                                                                          *)
(* A decoded message is its place in `msgs`; the broadcast keeps the last   *)
(* Backlogged of them for each subscriber. PSK Reporter takes a message as soon  *)
(* as it is there or waits for its timers; the gateway lets them wait       *)
(* while it connects, logs in and sleeps. The two share nothing but the     *)
(* broadcast, so that one of them is enabled at a time.                     *)
EXTENDS Integers, Sequences, FiniteSets, FiniteSetsExt

CONSTANTS Senders,      \* callsigns of spots
          Backlogged,   \* capacity of the broadcast
          FlushEvery,   \* ticks between two datagrams (300 s)
          Stale,        \* age at which a packet is no longer forwarded (120 s)
          Introduced,   \* datagrams that carry templates in any case (3)
          TemplatesEvery, \* ticks until the templates are sent again (3600 s)
          LoginLines,   \* lines read for the answer to the login (10)
          MaxBackoff,   \* longest pause between two connections (60 s)
          MaxMessages, MaxNow  \* bounds: messages, ticks

ASSUME UplinkAssumption ==
    /\ {Backlogged, FlushEvery, LoginLines, MaxBackoff} \subseteq Nat \ {0}
    /\ {Stale, Introduced, TemplatesEvery, MaxMessages, MaxNow} \subseteq Nat

VARIABLES
    enabled,   \* the subscriber the configuration enables
    now,       \* ticks since the start
    msgs,      \* history: the messages published
    waiting,   \* numbers of the messages it has not received
    psk,       \* [at, pending, flush, sequence, packets, template]
    datagrams, \* history: what PSK Reporter has sent
    igate,     \* [at, lines, backoff]
    gated,     \* history: [n, at] of the packets forwarded, in order
    fate       \* history: numbers of spots accepted, unsent and packets cut off, unwanted

uplinkVars == <<enabled, now, msgs, waiting, psk, datagrams, igate, gated, fate>>

\* What a decoder publishes: a spot of a sender, a packet to be forwarded, or a packet
\* that has a broken checksum or has been through APRS-IS already.
Kinds == [to : {"psk"}, call : Senders] \cup [to : {"igate"}, good : BOOLEAN]
Numbered == 1..MaxMessages
Subscribers == {"psk", "igate"}
Never == 0 - 1

UplinkTypeOK ==
    /\ now \in 0..MaxNow
    /\ Len(msgs) <= MaxMessages
    /\ \A n \in 1..Len(msgs) : msgs[n].what \in Kinds /\ msgs[n].born \in 0..now
    /\ enabled \in Subscribers
    /\ waiting \in Seq(Numbered) /\ Len(waiting) <= Backlogged
    /\ psk.at \in {"runs", "stopped"} /\ psk.pending \subseteq Numbered
    /\ psk.flush \in Nat /\ psk.sequence \in 1..MaxMessages + 1
    /\ psk.packets = Len(datagrams) /\ psk.template \in Never..now
    /\ igate.at \in {"connect", "login", "logresp", "forward", "sleep", "stopped"}
    /\ igate.lines \in 0..LoginLines - 1 /\ igate.backoff \in 1..MaxBackoff

UplinkInit ==
    /\ now = 0 /\ msgs = <<>>
    /\ enabled \in Subscribers /\ waiting = <<>>
    /\ psk = [at |-> "runs", pending |-> {}, flush |-> FlushEvery, sequence |-> 1,
              packets |-> 0, template |-> Never]
    /\ datagrams = <<>>
    /\ igate = [at |-> "connect", lines |-> 0, backoff |-> 1]
    /\ gated = <<>>
    /\ fate = [accepted |-> {}, unsent |-> {}, cut |-> {}, unwanted |-> {}]

\* The timers of PSK Reporter fire in time.
Elapse ==
    /\ now < MaxNow /\ (enabled = "psk" /\ psk.at = "runs" => now < psk.flush)
    /\ now' = now + 1
    /\ UNCHANGED <<msgs, waiting, psk, datagrams, igate, gated, fate>>

\* A decoder publishes; one that is behind loses its oldest message.
Behind == IF Len(waiting) = Backlogged THEN Tail(waiting) ELSE waiting
Broadcast(k) ==
    /\ Len(msgs) < MaxMessages
    /\ msgs' = Append(msgs, [what |-> k, born |-> now])
    /\ waiting' = Append(Behind, Len(msgs) + 1)
    /\ UNCHANGED <<now, psk, datagrams, igate, gated, fate>>

Receive == waiting # <<>> /\ waiting' = Tail(waiting)
Age(n) == now - msgs[n].born

-----------------------------------------------------------------------------
(* PSK Reporter.                                                            *)

\* decoded_to_spot, and the spot of the same sender that it replaces. One that has waited
\* longer than a flush takes is not reported.
SpotComes ==
    LET n == Head(waiting)
        same == {p \in psk.pending : msgs[p].what.call = msgs[n].what.call} IN
    /\ psk.at = "runs" /\ Receive
    /\ IF msgs[n].what.to = "psk" /\ Age(n) <= FlushEvery
       THEN /\ psk' = [psk EXCEPT !.pending = (@ \ same) \cup {n}]
            /\ fate' = [fate EXCEPT !.accepted = @ \cup {n}]
       ELSE UNCHANGED <<psk, fate>>
    /\ UNCHANGED <<now, msgs, datagrams, igate, gated>>

WithTemplates ==
    \/ psk.packets < Introduced \/ psk.template = Never
    \/ now - psk.template >= TemplatesEvery

\* Mutant: the sequence number counts packets.
SendSpots_CountsPackets ==
    /\ datagrams' = Append(datagrams, [sequence |-> psk.sequence, spots |-> psk.pending,
                                       templates |-> WithTemplates, sent |-> now])
    /\ psk' = [psk EXCEPT !.sequence = @ + 1, !.packets = @ + 1, !.pending = {},
                          !.template = IF WithTemplates THEN now ELSE @,
                          !.flush = @ + FlushEvery]
    /\ UNCHANGED fate

\* send_spots that succeeds
SendSpots ==
    /\ datagrams' = Append(datagrams, [sequence |-> psk.sequence, spots |-> psk.pending,
                                       templates |-> WithTemplates, sent |-> now])
    /\ psk' = [psk EXCEPT !.sequence = @ + Cardinality(psk.pending), !.packets = @ + 1,
                          !.pending = {}, !.template = IF WithTemplates THEN now ELSE @,
                          !.flush = @ + FlushEvery]
    /\ UNCHANGED fate

\* The spots are drained before they are sent: a datagram that fails takes them along.
SendFailed ==
    /\ fate' = [fate EXCEPT !.unsent = @ \cup psk.pending]
    /\ psk' = [psk EXCEPT !.pending = {}, !.flush = @ + FlushEvery]
    /\ UNCHANGED datagrams

FlushTick ==
    /\ psk.at = "runs" /\ now >= psk.flush
    /\ IF psk.pending # {} THEN SendSpots \/ SendFailed
       ELSE psk' = [psk EXCEPT !.flush = @ + FlushEvery] /\ UNCHANGED <<datagrams, fate>>
    /\ UNCHANGED <<now, msgs, waiting, igate, gated>>

\* The rig or the decoders are gone: what is pending is never sent.
PskStops ==
    /\ psk.at = "runs" /\ Len(msgs) = MaxMessages
    /\ psk' = [psk EXCEPT !.at = "stopped"]
    /\ UNCHANGED <<now, msgs, waiting, datagrams, igate, gated, fate>>

-----------------------------------------------------------------------------
(* The APRS-IS gateway.                                                     *)

GateMoves(a) == igate' = [igate EXCEPT !.at = a] /\ UNCHANGED <<now, msgs, waiting, psk, datagrams>>

ConnectGate == igate.at = "connect" /\ GateMoves("login") /\ UNCHANGED <<gated, fate>>
LoginWritten ==
    /\ igate.at = "login"
    /\ igate' = [igate EXCEPT !.at = "logresp", !.lines = 0]
    /\ UNCHANGED <<now, msgs, waiting, psk, datagrams, gated, fate>>

\* A line that is not the answer to the login: a few of them are read.
OtherLine ==
    /\ igate.at = "logresp"
    /\ igate' = IF igate.lines = LoginLines - 1 THEN [igate EXCEPT !.at = "sleep"]
                ELSE [igate EXCEPT !.lines = @ + 1]
    /\ UNCHANGED <<now, msgs, waiting, psk, datagrams, gated, fate>>

\* The answer, verified or not, is good enough.
LogRespLine ==
    /\ igate.at = "logresp"
    /\ igate' = [igate EXCEPT !.at = "forward", !.backoff = 1]
    /\ UNCHANGED <<now, msgs, waiting, psk, datagrams, gated, fate>>

\* Connecting, writing or reading fails; a line of the feed that is no UTF-8 is one of
\* the failures, and so is a keepalive or a beacon that cannot be written.
GateFails ==
    /\ igate.at \in {"connect", "login", "logresp", "forward"}
    /\ GateMoves("sleep") /\ UNCHANGED <<gated, fate>>

Slept ==
    /\ igate.at = "sleep"
    /\ igate' = [igate EXCEPT !.at = "connect", !.backoff = Min({@ * 2, MaxBackoff})]
    /\ UNCHANGED <<now, msgs, waiting, psk, datagrams, gated, fate>>

\* A message is received in the forward loop only: a packet is passed on, dropped for
\* what it is or for its age, or lost with the connection.
PacketComes ==
    LET n == Head(waiting)
        wanted == msgs[n].what.to = "igate" /\ msgs[n].what.good /\ Age(n) <= Stale IN
    /\ igate.at = "forward" /\ Receive
    /\ \/ /\ wanted /\ gated' = Append(gated, [n |-> n, at |-> now])
          /\ UNCHANGED <<igate, fate>>
       \/ /\ wanted
          /\ fate' = [fate EXCEPT !.cut = @ \cup {n}]
          /\ igate' = [igate EXCEPT !.at = "sleep"]
          /\ UNCHANGED gated
       \/ /\ ~wanted
          /\ fate' = [fate EXCEPT !.unwanted = @ \cup {n}]
          /\ UNCHANGED <<igate, gated>>
    /\ UNCHANGED <<now, msgs, psk, datagrams>>

\* The decoders are gone, which only the forward loop notices.
GateStops ==
    /\ igate.at = "forward" /\ Len(msgs) = MaxMessages /\ waiting = <<>>
    /\ GateMoves("stopped") /\ UNCHANGED <<gated, fate>>

UplinkNext ==
    /\ UNCHANGED enabled
    /\ \/ Elapse \/ \E k \in Kinds : Broadcast(k)
       \/ enabled = "psk" /\ (SpotComes \/ FlushTick \/ PskStops)
       \/ enabled = "igate" /\ (ConnectGate \/ LoginWritten \/ OtherLine \/ LogRespLine)
       \/ enabled = "igate" /\ (GateFails \/ Slept \/ PacketComes \/ GateStops)

UplinkSpec == UplinkInit /\ [][UplinkNext]_uplinkVars

-----------------------------------------------------------------------------
(* Properties.                                                              *)

\* The sequence number of a datagram is the number of spots reported before it, by which
\* the collector notices lost ones; no spot is reported twice, none older than two
\* flushes, and never two of one sender in a datagram. A datagram without templates
\* follows one with them.
DatagramsAddUp ==
    \A i \in 1..Len(datagrams) :
        LET d == datagrams[i] IN
        /\ d.sequence = 1 + Cardinality(UNION {datagrams[j].spots : j \in 1..i - 1})
        /\ \A j \in 1..i - 1 : datagrams[j].spots \cap d.spots = {}
        /\ \A n \in d.spots : d.sent - msgs[n].born <= 2 * FlushEvery
        /\ \A m, n \in d.spots : msgs[m].what.call = msgs[n].what.call => m = n
        /\ \/ d.templates
           \/ \E j \in 1..i - 1 : datagrams[j].templates /\ d.sent - datagrams[j].sent < TemplatesEvery

\* A spot that was accepted is pending, reported, lost with a failed datagram, or a later
\* one of the same sender has taken its place.
SpotsAccountedFor ==
    \A n \in fate.accepted :
        \/ n \in psk.pending \cup fate.unsent
        \/ \E i \in 1..Len(datagrams) : n \in datagrams[i].spots
        \/ \E m \in fate.accepted : m > n /\ msgs[m].what.call = msgs[n].what.call

\* Packets are forwarded in order and once, none that is stale or unfit; those that come
\* while the connection is being renewed are still there unless the broadcast is full.
PacketsGatedInOrder ==
    /\ \A i \in 1..Len(gated) :
          /\ msgs[gated[i].n].what \in [to : {"igate"}, good : {TRUE}]
          /\ gated[i].at - msgs[gated[i].n].born <= Stale
          /\ i > 1 => gated[i - 1].n < gated[i].n
          /\ gated[i].n \notin fate.cut
    /\ enabled = "igate" /\ Len(msgs) <= Backlogged =>
          \A n \in 1..Len(msgs) :
              \/ \E i \in 1..Len(waiting) : waiting[i] = n
              \/ \E i \in 1..Len(gated) : gated[i].n = n
              \/ n \in fate.cut \cup fate.unwanted

\* What holds of the two reporters at every moment.
UplinkInv == UplinkTypeOK /\ DatagramsAddUp /\ SpotsAccountedFor /\ PacketsGatedInOrder
=============================================================================
