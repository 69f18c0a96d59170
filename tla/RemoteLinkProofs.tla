-------------------------- MODULE RemoteLinkProofs ---------------------------
(***************************************************************************)
(* Proofs about the client: its link to a server (RemoteLink) for any      *)
(* rigs, any configuration of names, any number of commands and any number *)
(* of lost connections, the histories it keeps of decoded messages         *)
(* (ClientHistories), and the audio sockets of its pages (AudioSockets).   *)
(* The parts share no variable.                                            *)
(***************************************************************************)
EXTENDS RemoteLink, ClientHistories, AudioSockets, SequenceFacts, FiniteSetTheorems, TLAPS

USE LinkAssumption DEF LinkAssumption

(***************************************************************************)
(* The types of the state, by who changes it.                              *)
(***************************************************************************)
LineOK(text) ==
    /\ text.kind \in {"rigs", "state", "refused", "expired"} /\ DOMAIN text = {"kind", "of", "snaps"}
    /\ DOMAIN text.snaps \subseteq Rigs /\ \A r \in DOMAIN text.snaps : text.snaps[r] \in Nat

WireOK ==
    /\ toServer \in Seq(ServerLine) /\ toClient \in Seq(Range(toClient))
    /\ \A k \in DOMAIN toClient : LineOK(toClient[k])

ClientOK ==
    /\ link \in {"down", "up", "broken"}
    /\ at \in {"down", "prime", "idle", "poll", "command", "stopped"}
    /\ streak \in 0..(MaxConsecutivePollFailures - 1) /\ late \in BOOLEAN
    /\ doing \in Requests \cup {Poll} /\ (doing /= Poll <=> at = "command")

Alone == ~late => Len(toServer) + Len(toClient) <= 1

AskedOK ==
    /\ backlog \in Seq(Requests) /\ ToSet(backlog) \subseteq DOMAIN asked /\ IsInjective(backlog)
    /\ asked \in Seq([name : Names \cup {Elsewhere}, override : BOOLEAN, known : BOOLEAN])
    /\ Len(asked) <= MaxRequests /\ \A i \in DOMAIN asked : asked[i].override => asked[i].name \in Names

ToldOK ==
    told \in [Requests -> [kind : {"none", "ok", "error", "elsewhere", "dropped"},
                           of : Requests \cup {Poll}, late : BOOLEAN]]

ViewsOK ==
    /\ selected \in Names \cup {Elsewhere} /\ resolved \in [Names -> Rigs \cup {NoRig}]
    /\ \A n \in Names : DOMAIN chan[n] \subseteq Rigs /\ \A r \in DOMAIN chan[n] : chan[n][r] \in Nat

ServerOK ==
    /\ open \subseteq Rigs /\ orphans \subseteq ServerLine
    /\ ran \in [Requests -> Seq(Rigs)] /\ served \in [Rigs -> Nat]

LEMMA StateParts ==
    TypeOK /\ Shapes <=> WireOK /\ ClientOK /\ Alone /\ AskedOK /\ ToldOK /\ ViewsOK /\ ServerOK
<1>1. toServer \in Seq(ServerLine) => \A i \in DOMAIN toServer : toServer[i] \in ServerLine
  BY LenProperties
<1>2. ASSUME TypeOK, Shapes
      PROVE  WireOK /\ ClientOK /\ Alone /\ AskedOK /\ ToldOK /\ ViewsOK /\ ServerOK
  <2>1. WireOK
    <3>1. toServer \in Seq(ServerLine) /\ toClient \in Seq(Range(toClient))
      BY <1>2 DEF Shapes
    <3>2. ASSUME NEW k \in DOMAIN toClient PROVE LineOK(toClient[k])
      BY <1>2 DEF TypeOK, Shapes, LineOK
    <3> QED
      BY <3>1, <3>2 DEF WireOK
  <2>2. ClientOK /\ Alone
    BY <1>2 DEF TypeOK, ClientOK, Alone
  <2>3. AskedOK /\ ToldOK
    BY <1>2 DEF TypeOK, Shapes, AskedOK, ToldOK
  <2>4. ViewsOK /\ ServerOK
    BY <1>2 DEF TypeOK, Shapes, ViewsOK, ServerOK
  <2> QED
    BY <2>1, <2>2, <2>3, <2>4
<1>3. ASSUME WireOK, ClientOK, Alone, AskedOK, ToldOK, ViewsOK, ServerOK
      PROVE  TypeOK /\ Shapes
  <2>1. Shapes
    <3>1. /\ toServer \in Seq(ServerLine) /\ toClient \in Seq(Range(toClient))
          /\ \A k \in DOMAIN toClient :
                /\ toClient[k].kind \in {"rigs", "state", "refused", "expired"}
                /\ \A r \in DOMAIN toClient[k].snaps : toClient[k].snaps[r] \in Nat
      BY <1>3 DEF WireOK, LineOK
    <3>2. /\ backlog \in Seq(Requests) /\ Len(asked) <= MaxRequests
          /\ asked \in Seq([name : Names \cup {Elsewhere}, override : BOOLEAN, known : BOOLEAN])
          /\ \A i \in DOMAIN asked : asked[i].override => asked[i].name \in Names
      BY <1>3 DEF AskedOK
    <3>3. /\ ran \in [Requests -> Seq(Rigs)] /\ served \in [Rigs -> Nat]
          /\ \A n \in Names : \A r \in DOMAIN chan[n] : chan[n][r] \in Nat
      BY <1>3 DEF ServerOK, ViewsOK
    <3> QED
      BY <1>3, <3>1, <3>2, <3>3 DEF Shapes, ToldOK
  <2>2. TypeOK
    BY <1>1, <1>3 DEF TypeOK, WireOK, LineOK, ClientOK, Alone, AskedOK, ViewsOK, ServerOK
  <2> QED
    BY <2>1, <2>2
<1> QED
  BY <1>2, <1>3

LEMMA StateAfter ==
    WireOK' /\ ClientOK' /\ Alone' /\ AskedOK' /\ ToldOK' /\ ViewsOK' /\ ServerOK' => TypeOK' /\ Shapes'
BY StateParts, PTL

\* The invariant without the types.
Others ==
    /\ Control /\ Apart /\ Waiting /\ Answers /\ Addressed /\ Resolved /\ Aimed /\ LineAges
    /\ ChannelAges /\ OwnAnswer /\ ChannelsRightUnlessMixed /\ KnownNameRoutes
Types == WireOK /\ ClientOK /\ Alone /\ AskedOK /\ ToldOK /\ ViewsOK /\ ServerOK

LEMMA BothParts == (LinkInd <=> Types /\ Others) /\ (Types' /\ Others' => LinkInd')
<1>1. LinkInd <=> Types /\ Others
  BY StateParts DEF LinkInd, Types, Others
<1> QED
  BY <1>1, PTL

\* Requests are numbers, and none of them is the number of a poll.
LEMMA Numbers ==
    ASSUME AskedOK
    PROVE  /\ DOMAIN asked = 1..Len(asked) /\ Len(asked) \in Nat /\ DOMAIN asked \subseteq Requests
           /\ Poll \notin Requests /\ ToSet(backlog) \subseteq Requests
<1>1. DOMAIN asked = 1..Len(asked) /\ Len(asked) \in Nat
  BY LenProperties DEF AskedOK
<1>2. DOMAIN asked \subseteq Requests /\ Poll \notin Requests
  BY <1>1 DEF AskedOK, Requests, Poll
<1> QED
  BY <1>1, <1>2 DEF AskedOK

(***************************************************************************)
(* Lines that are lost or read, on either side.                            *)
(***************************************************************************)
Fewer ==
    /\ Stretch(toClient', toClient)
    /\ \/ toServer' = toServer /\ orphans' \subseteq orphans
       \/ toServer' = <<>> /\ orphans' \subseteq orphans \cup Left(toServer)
    /\ UNCHANGED <<asked, ran, served>>

LEMMA FewerKeeps ==
    ASSUME Types, Others, Fewer
    PROVE  /\ WireOK' /\ orphans' \subseteq ServerLine
           /\ Len(toServer') + Len(toClient') <= Len(toServer) + Len(toClient)
           /\ \A k \in DOMAIN toServer' : toServer' = toServer
           /\ \A k \in DOMAIN toClient' : \E j \in DOMAIN toClient : toClient'[k] = toClient[j]
           /\ \A i \in Requests : InLines(i)' \/ Held(i)' => InLines(i) \/ Held(i)
           /\ Apart' /\ Answers' /\ Aimed' /\ LineAges'
           /\ chan' = chan => ChannelAges'
<1> USE DEF Types, Others
<1>1. PICK d \in Nat : \A k \in DOMAIN toClient' : k + d \in DOMAIN toClient /\ toClient'[k] = toClient[k + d]
  BY DEF Fewer, Stretch
<1>2. /\ toClient' \in Seq(Range(toClient')) /\ Len(toClient') <= Len(toClient)
      /\ UNCHANGED <<asked, ran, served>>
  BY DEF Fewer, Stretch
<1>3. toServer' = toServer \/ toServer' = <<>>
  BY DEF Fewer
<1>4. DOMAIN <<>> = {} /\ Len(<<>>) = 0 /\ \A S : <<>> \in Seq(S)
  BY EmptySeq
<1>5. \A k \in DOMAIN toServer' : toServer' = toServer
  BY <1>3, <1>4
<1>6. \A k \in DOMAIN toClient' : \E j \in DOMAIN toClient : toClient'[k] = toClient[j]
  BY <1>1
<1>7. WireOK'
  <2>1. toServer' \in Seq(ServerLine)
    BY <1>3, <1>4 DEF WireOK, ServerLine
  <2>2. \A k \in DOMAIN toClient' : LineOK(toClient'[k])
    BY <1>6 DEF WireOK
  <2> QED
    BY <1>2, <2>1, <2>2 DEF WireOK, LineOK, ServerLine
<1>8. Len(toServer') + Len(toClient') <= Len(toServer) + Len(toClient)
  <2>1. Len(toServer) \in Nat /\ Len(toClient) \in Nat /\ Len(toClient') \in Nat
    BY <1>2, LenProperties DEF WireOK
  <2> QED
    BY <1>2, <1>3, <1>4, <2>1
\* The lines the server has been sent and will not handle are with a rig.
<1>9. ASSUME NEW l \in orphans'
      PROVE  l \in orphans \/ (toServer' = <<>> /\ \E k \in DOMAIN toServer : l = toServer[k] /\ l.id /= Poll)
  <2>1. Left(toServer) = {m \in {toServer[k] : k \in DOMAIN toServer} : m.id /= Poll}
    BY DEF Left, ToSet
  <2> QED
    BY <2>1 DEF Fewer
<1>10. \A k \in DOMAIN toServer : toServer[k] \in ServerLine
  BY LenProperties DEF WireOK
<1>11. orphans' \subseteq ServerLine
  BY <1>9, <1>10 DEF ServerOK
<1>12. ASSUME NEW i \in Requests, InLines(i)' \/ Held(i)' PROVE InLines(i) \/ Held(i)
  BY <1>3, <1>4, <1>9, <1>12 DEF InLines, Held
<1>13. Apart'
  <2>1. \A j, k \in DOMAIN toServer' : toServer'[j].id = toServer'[k].id /\ toServer'[j].id /= Poll => j = k
    BY <1>5 DEF Apart
  <2>2. \A l, m \in orphans' : l.id = m.id => l = m
    <3> SUFFICES ASSUME NEW l \in orphans', NEW m \in orphans', l.id = m.id PROVE l = m
      OBVIOUS
    <3>1. \A o \in orphans : \A k \in DOMAIN toServer : toServer[k].id /= Poll => o.id /= toServer[k].id
      BY <1>10 DEF Apart, InLines, Held, ServerLine
    <3> QED
      BY <1>9, <3>1 DEF Apart
  <2>3. ASSUME NEW i \in Requests, InLines(i)' PROVE i \in DOMAIN asked /\ ran[i] = <<>> /\ ~Held(i)'
    <3>1. toServer' = toServer /\ InLines(i)
      BY <1>5, <2>3 DEF InLines
    <3>2. toServer' # <<>>
      BY <1>4, <2>3 DEF InLines
    <3>3. Held(i)' => Held(i)
      BY <1>9, <3>2 DEF Held
    <3> QED
      BY <3>1, <3>3 DEF Apart
  <2>4. ASSUME NEW l \in orphans' PROVE l.id \in DOMAIN asked /\ ran[l.id] = <<>>
    <3>1. CASE l \in orphans
      BY <3>1 DEF Apart
    <3>2. CASE l \notin orphans
      BY <1>9, <1>10, <3>2 DEF Apart, InLines, ServerLine
    <3> QED
      BY <3>1, <3>2
  <2>5. \A i \in Requests : Len(ran[i]) <= 1 /\ (ran[i] /= <<>> => i \in DOMAIN asked)
    BY DEF Apart
  <2> QED
    BY <1>2, <2>1, <2>2, <2>3, <2>4, <2>5 DEF Apart
<1>14. Answers'
  BY <1>2, <1>6 DEF Answers
<1>15. Aimed'
  BY <1>2, <1>5, <1>9 DEF Aimed, Aims
<1>16. DOMAIN toClient \subseteq Nat /\ DOMAIN toClient' \subseteq Nat
  BY <1>2, LenProperties DEF WireOK
<1>17. LineAges'
  <2> SUFFICES ASSUME NEW k \in DOMAIN toClient', NEW r \in DOMAIN toClient'[k].snaps
               PROVE  /\ toClient'[k].snaps[r] <= served[r]
                      /\ \A j \in DOMAIN toClient' : j <= k /\ r \in DOMAIN toClient'[j].snaps =>
                            toClient'[j].snaps[r] <= toClient'[k].snaps[r]
    BY <1>2 DEF LineAges
  <2>1. k + d \in DOMAIN toClient /\ toClient'[k] = toClient[k + d]
    BY <1>1
  <2>2. ASSUME NEW j \in DOMAIN toClient', j <= k
        PROVE  j + d \in DOMAIN toClient /\ toClient'[j] = toClient[j + d] /\ j + d <= k + d
    BY <1>1, <1>16, <2>2
  <2> QED
    BY <2>1, <2>2 DEF LineAges
<1>18. ASSUME chan' = chan PROVE ChannelAges'
  BY <1>2, <1>6, <1>18 DEF ChannelAges
<1> QED
  BY <1>5, <1>6, <1>7, <1>8, <1>11, <1>12, <1>13, <1>14, <1>15, <1>17, <1>18

(***************************************************************************)
(* The server.                                                             *)
(***************************************************************************)
\* A command that runs makes the state of its rig newer, and has run once.
LEMMA RunOnce ==
    ASSUME Types, Others, NEW r \in Rigs, NEW i \in Requests, ran[i] = <<>>, Run(r, i)
    PROVE  /\ served' \in [Rigs -> Nat] /\ \A x \in Rigs : served[x] <= served'[x]
           /\ ran' \in [Requests -> Seq(Rigs)] /\ ran'[i] = <<r>> /\ Len(ran'[i]) = 1
           /\ \A k \in DOMAIN ran'[i] : ran'[i][k] = r
           /\ \A x \in Requests \ {i} : ran'[x] = ran[x]
<1> USE DEF Types, Others, ServerOK
<1>1. served' = [served EXCEPT ![r] = @ + 1] /\ ran' = [ran EXCEPT ![i] = Append(@, r)]
  BY DEF Run
<1>2. ran'[i] = <<r>> /\ \A x \in Requests \ {i} : ran'[x] = ran[x]
  BY <1>1
<1>3. <<r>> \in Seq(Rigs) /\ Len(<<r>>) = 1 /\ \A k \in DOMAIN <<r>> : <<r>>[k] = r
  OBVIOUS
<1>4. ran' \in [Requests -> Seq(Rigs)]
  BY <1>1, <1>2, <1>3
<1>5. served' \in [Rigs -> Nat] /\ \A x \in Rigs : served[x] <= served'[x]
  BY <1>1
<1> QED
  BY <1>2, <1>3, <1>4, <1>5

\* What the server does with a line: it may run it, or leave it with the rig.
Ran(l) ==
    /\ l.id \in Requests /\ ran'[l.id] = <<l.rig>> /\ Len(ran'[l.id]) = 1
    /\ \A k \in DOMAIN ran'[l.id] : ran'[l.id][k] = l.rig
    /\ \A x \in Requests \ {l.id} : ran'[x] = ran[x]
Handles(l, text) ==
    /\ toServer # <<>> /\ l = Head(toServer)
    /\ toServer' = Tail(toServer) /\ toClient' = Append(toClient, text)
    /\ LineOK(text) /\ \A r \in DOMAIN text.snaps : text.snaps[r] = served'[r]
    /\ \/ ran' = ran /\ orphans' = orphans /\ text.kind # "state"
       \/ ran' = ran /\ orphans' = orphans \cup {l} /\ l.id # Poll /\ text.kind # "state"
       \/ /\ Ran(l) /\ orphans' = orphans
          /\ text.of = l.id /\ DOMAIN text.snaps = {l.rig}

LEMMA HeadLine ==
    ASSUME Types, Others, toServer # <<>>
    PROVE  /\ 1 \in DOMAIN toServer /\ Head(toServer) = toServer[1] /\ Head(toServer) \in ServerLine
           /\ Head(toServer).id # Poll =>
                 /\ Head(toServer).id \in Requests /\ Head(toServer).id \in DOMAIN asked
                 /\ ran[Head(toServer).id] = <<>> /\ ~Held(Head(toServer).id)
<1>1. 1 \in DOMAIN toServer /\ Head(toServer) = toServer[1]
  BY Stretches DEF Types, WireOK
<1>2. Head(toServer) \in ServerLine
  BY <1>1, LenProperties DEF Types, WireOK
<1> QED
  BY <1>1, <1>2 DEF Others, Apart, InLines, ServerLine

LEMMA ServeHandles ==
    ASSUME Types, Others, Serve
    PROVE  /\ \E text : Handles(Head(toServer), text)
           /\ ran' \in [Requests -> Seq(Rigs)] /\ served' \in [Rigs -> Nat]
           /\ \A r \in Rigs : served[r] <= served'[r]
           /\ UNCHANGED <<link, at, streak, late, doing, backlog, selected, resolved, chan, global,
                          open, asked, told, faults>>
<1> DEFINE l == Head(toServer)
           Line(kind, of, snaps) == [kind |-> kind, of |-> of, snaps |-> snaps]
<1> USE DEF Types
<1>1. UNCHANGED <<link, at, streak, late, doing, backlog, selected, resolved, chan, global, open, asked,
                  told, faults>>
  BY DEF Serve, ServeListing, ServeCommand, ServeRefusal, ServeTimeout, client, views, server
<1>2. toServer # <<>> /\ toServer' = Tail(toServer)
  BY DEF Serve, ServeListing, ServeCommand, ServeRefusal, ServeTimeout, Reply
<1>3. l \in ServerLine /\ l.rig \in Rigs /\ (l.id # Poll => l.id \in Requests /\ ran[l.id] = <<>>)
  BY <1>2, HeadLine DEF ServerLine
<1>4. served \in [Rigs -> Nat] /\ ran \in [Requests -> Seq(Rigs)] /\ open \subseteq Rigs
  BY DEF ServerOK
<1>5. CASE ServeListing
  <2> DEFINE text == Line("rigs", Poll, [r \in open |-> served[r]])
  <2>1. toClient' = Append(toClient, text) /\ UNCHANGED <<ran, orphans, served>>
    BY <1>5 DEF ServeListing, Reply, server
  <2>2. LineOK(text) /\ \A r \in DOMAIN text.snaps : text.snaps[r] = served[r]
    BY <1>4 DEF LineOK
  <2>3. Handles(l, text)
    BY <1>2, <2>1, <2>2 DEF Handles
  <2> QED
    BY <1>1, <1>4, <2>1, <2>3
<1>6. CASE ServeRefusal
  <2> DEFINE text == Line("refused", l.id, NoSnapshot)
  <2>1. toClient' = Append(toClient, text) /\ UNCHANGED <<ran, orphans, served>>
    BY <1>6 DEF ServeRefusal, Reply, server
  <2>2. LineOK(text) /\ DOMAIN text.snaps = {}
    BY DEF LineOK, NoSnapshot
  <2>3. Handles(l, text)
    BY <1>2, <2>1, <2>2 DEF Handles
  <2> QED
    BY <1>1, <1>4, <2>1, <2>3
<1>7. CASE ServeTimeout
  <2> DEFINE text == Line("expired", l.id, NoSnapshot)
  <2>1. toClient' = Append(toClient, text) /\ orphans' = orphans \cup {l} /\ UNCHANGED <<ran, served>> /\ l.id # Poll
    BY <1>7 DEF ServeTimeout, Reply
  <2>2. LineOK(text) /\ DOMAIN text.snaps = {}
    BY DEF LineOK, NoSnapshot
  <2>3. Handles(l, text)
    BY <1>2, <2>1, <2>2 DEF Handles
  <2> QED
    BY <1>1, <1>4, <2>1, <2>3
<1>8. CASE ServeCommand
  <2> DEFINE text == Line("state", l.id, Only(l.rig, served'))
  <2>1. toClient' = Append(toClient, text) /\ orphans' = orphans /\ l.id # Poll /\ Run(l.rig, l.id)
    BY <1>8 DEF ServeCommand, Reply
  <2>2. /\ served' \in [Rigs -> Nat] /\ \A x \in Rigs : served[x] <= served'[x]
        /\ ran' \in [Requests -> Seq(Rigs)] /\ Ran(l)
    BY <1>3, <2>1, RunOnce DEF Ran
  <2>3. LineOK(text) /\ DOMAIN text.snaps = {l.rig} /\ text.snaps[l.rig] = served'[l.rig] /\ text.of = l.id
    BY <1>3, <2>2 DEF LineOK, Only
  <2>4. Handles(l, text)
    BY <1>2, <2>1, <2>2, <2>3 DEF Handles
  <2> QED
    BY <1>1, <2>2, <2>4
<1> QED
  BY <1>5, <1>6, <1>7, <1>8 DEF Serve

LEMMA ServeKeeps == ASSUME Types, Others, Serve PROVE Types' /\ Others'
<1> USE DEF Types, Others
<1>1. /\ ran' \in [Requests -> Seq(Rigs)] /\ served' \in [Rigs -> Nat]
      /\ \A r \in Rigs : served[r] <= served'[r]
      /\ UNCHANGED <<link, at, streak, late, doing, backlog, selected, resolved, chan, global,
                     open, asked, told, faults>>
  BY ServeHandles
<1> DEFINE l == Head(toServer)
           n == Len(toClient)
<1>2. PICK text : Handles(l, text)
  BY ServeHandles
<1>3. /\ 1 \in DOMAIN toServer /\ l = toServer[1] /\ l \in ServerLine /\ toServer # <<>>
      /\ l.id # Poll => /\ l.id \in Requests /\ l.id \in DOMAIN asked
                        /\ ran[l.id] = <<>> /\ ~Held(l.id)
  BY <1>2, HeadLine DEF Handles
<1>4. /\ toServer' = Tail(toServer) /\ Len(toServer') = Len(toServer) - 1
      /\ toServer' \in Seq(ServerLine)
      /\ \A k \in DOMAIN toServer' : k + 1 \in DOMAIN toServer /\ toServer'[k] = toServer[k + 1]
  BY <1>2, <1>3, Stretches, HeadTailProperties DEF Handles, WireOK
<1>5. /\ n \in Nat /\ DOMAIN toClient = 1..n
      /\ Len(toClient') = n + 1 /\ DOMAIN toClient' = 1..(n + 1)
      /\ \A k \in 1..n : toClient'[k] = toClient[k] /\ toClient'[n + 1] = text
      /\ toClient'[n + 1] = text /\ toClient' \in Seq(Range(toClient'))
  <2>1. toClient \in Seq(Range(toClient) \cup {text}) /\ n \in Nat /\ DOMAIN toClient = 1..n
    BY LenProperties DEF WireOK, Range
  <2>2. toClient' = Append(toClient, text)
    BY <1>2 DEF Handles
  <2>3. /\ toClient' \in Seq(Range(toClient) \cup {text}) /\ Len(toClient') = n + 1
        /\ toClient'[n + 1] = text /\ \A k \in 1..n : toClient'[k] = toClient[k]
    BY <2>1, <2>2, AppendProperties
  <2> QED
    BY <2>1, <2>3, LenProperties, SelfSeq
<1> HIDE DEF l, n
<1>6. LineOK(text) /\ \A r \in DOMAIN text.snaps : r \in Rigs /\ text.snaps[r] = served'[r]
  BY <1>2 DEF Handles, LineOK
<1>7. Types'
  <2>1. WireOK'
    <3>1. ASSUME NEW k \in DOMAIN toClient' PROVE LineOK(toClient'[k])
      BY <1>5, <1>6 DEF WireOK
    <3> QED
      BY <1>4, <1>5, <3>1 DEF WireOK, LineOK, ServerLine
  <2>2. ClientOK' /\ AskedOK' /\ ToldOK' /\ ViewsOK'
    BY <1>1 DEF ClientOK, AskedOK, ToldOK, ViewsOK
  <2>3. Alone'
    <3>1. Len(toServer) \in Nat
      BY LenProperties DEF WireOK
    <3> QED
      BY <1>1, <1>4, <1>5, <3>1 DEF Alone, n
  <2>4. ServerOK'
    <3>1. orphans' \subseteq ServerLine
      BY <1>2, <1>3 DEF Handles, ServerOK
    <3> QED
      BY <1>1, <3>1 DEF ServerOK, ServerLine
  <2> QED
    BY <2>1, <2>2, <2>3, <2>4
\* Of the requests only the one of the line is touched.
<1>8. /\ \A i \in Requests : ran'[i] = ran[i] \/ (i = l.id /\ Ran(l) /\ orphans' = orphans)
      /\ \A i \in Requests : Len(ran[i]) = 1 => ran'[i] = ran[i]
  <2>1. \A i \in Requests : ran'[i] = ran[i] \/ (i = l.id /\ Ran(l) /\ orphans' = orphans)
    BY <1>2 DEF Handles, Ran
  <2>2. l.id \in Requests => Len(ran[l.id]) = 0
    BY <1>3, EmptySeq DEF Poll, Requests
  <2> QED
    BY <2>1, <2>2
<1>9. link = "up" /\ at \notin {"down", "stopped"} /\ ~(~late /\ at = "idle")
  BY <1>3 DEF Control, ClientOK
<1>10. Control'
  <2>1. ASSUME ~late, at = "command" PROVE \A k \in DOMAIN toServer' : toServer'[k].id = doing
    BY <1>4, <2>1 DEF Control
  <2>2. ASSUME ~late, at = "command", NEW k \in DOMAIN toClient', toClient'[k].kind = "state"
        PROVE  toClient'[k].of = doing
    <3>1. CASE k \in 1..n
      BY <1>5, <2>2, <3>1 DEF Control
    <3>2. CASE k = n + 1
      <4>1. text.kind = "state" => text.of = l.id
        BY <1>2 DEF Handles
      <4>2. l.id = doing
        BY <1>3, <2>2 DEF Control
      <4> QED
        BY <1>5, <2>2, <3>2, <4>1, <4>2
    <3> QED
      BY <1>5, <3>1, <3>2
  <2> QED
    BY <1>1, <1>9, <2>1, <2>2 DEF Control
<1>11. ASSUME NEW i \in Requests
       PROVE  /\ InLines(i)' => InLines(i) /\ i # l.id
              /\ InLines(l.id)
  <2>1. \A k \in DOMAIN toServer' : k + 1 # 1
    BY <1>4, LenProperties
  <2>2. i # Poll
    BY DEF Requests, Poll
  <2> QED
    BY <1>3, <1>4, <2>1, <2>2 DEF InLines, Apart
<1>13. ASSUME NEW i \in Requests, Held(i)' PROVE Held(i) \/ (i = l.id /\ ran' = ran)
  BY <1>2, <1>13 DEF Handles, Held
<1>14. Apart'
  <2>1. \A j, k \in DOMAIN toServer' : toServer'[j].id = toServer'[k].id /\ toServer'[j].id /= Poll => j = k
    <3> SUFFICES ASSUME NEW j \in DOMAIN toServer', NEW k \in DOMAIN toServer',
                        toServer'[j].id = toServer'[k].id, toServer'[j].id /= Poll
                 PROVE  j = k
      OBVIOUS
    <3>1. j + 1 = k + 1
      BY <1>4 DEF Apart
    <3> QED
      BY <1>4, <3>1, LenProperties
  <2>2. \A o, m \in orphans' : o.id = m.id => o = m
    <3>1. l.id # Poll => \A o \in orphans : o.id # l.id
      BY <1>3 DEF Held
    <3> QED
      BY <1>2, <3>1 DEF Handles, Apart
  <2>3. ASSUME NEW i \in Requests, InLines(i)' PROVE i \in DOMAIN asked /\ ran'[i] = <<>> /\ ~Held(i)'
    BY <1>8, <1>11, <1>13, <2>3 DEF Apart
  <2>4. ASSUME NEW o \in orphans' PROVE o.id \in DOMAIN asked /\ ran'[o.id] = <<>>
    <3>1. CASE o \in orphans
      <4>1. o.id \in DOMAIN asked /\ ran[o.id] = <<>> /\ o.id \in Requests /\ Held(o.id)
        BY <3>1, Numbers DEF Apart, Held
      <4>2. l.id # Poll => o.id # l.id
        BY <1>3, <4>1
      <4>3. o.id # l.id \/ ran' = ran
        BY <1>2, <4>1, <4>2 DEF Handles, Ran, Poll, Requests
      <4> QED
        BY <1>8, <4>1, <4>3
    <3>2. CASE o \notin orphans
      BY <1>2, <1>3, <3>2 DEF Handles
    <3> QED
      BY <3>1, <3>2
  <2>5. ASSUME NEW i \in Requests PROVE Len(ran'[i]) <= 1 /\ (ran'[i] /= <<>> => i \in DOMAIN asked)
    <3>1. CASE ran'[i] = ran[i]
      BY <3>1 DEF Apart
    <3>2. CASE i = l.id /\ Ran(l)
      BY <1>3, <3>2 DEF Ran, Requests, Poll
    <3> QED
      BY <1>8, <3>1, <3>2
  <2> QED
    BY <1>1, <2>1, <2>2, <2>3, <2>4, <2>5 DEF Apart
<1>15. Waiting'
  <2>1. ASSUME NEW i \in ToSet(backlog)
        PROVE  ran'[i] = <<>> /\ ~InLines(i)' /\ ~Held(i)'
    <3>1. i \in Requests /\ ~InLines(i) /\ ~Held(i) /\ ran[i] = <<>>
      BY <2>1, Numbers DEF Waiting
    <3>2. i # l.id
      BY <1>11, <3>1
    <3> QED
      BY <1>8, <1>11, <1>13, <3>1, <3>2
  <2> QED
    BY <1>1, <2>1 DEF Waiting
<1>16. Answers'
  <2> SUFFICES ASSUME NEW k \in DOMAIN toClient', toClient'[k].kind = "state"
               PROVE  toClient'[k].of \in Requests /\ Len(ran'[toClient'[k].of]) = 1
    BY DEF Answers
  <2>1. CASE k \in 1..n
    BY <1>5, <1>8, <2>1 DEF Answers
  <2>2. CASE k = n + 1
    BY <1>2, <1>5, <2>2 DEF Handles, Ran
  <2> QED
    BY <1>5, <2>1, <2>2
<1>17. Addressed'
  <2> SUFFICES ASSUME ~late, at = "command", asked[doing].override
               PROVE  /\ \A k \in DOMAIN toServer' : toServer'[k].rig = WireRig(doing)
                      /\ \A k \in DOMAIN toClient' : toClient'[k].kind = "state" =>
                            DOMAIN toClient'[k].snaps = {WireRig(doing)}
    BY <1>1 DEF Addressed, WireRig, NameOf
  <2>1. \A k \in DOMAIN toServer' : toServer'[k].rig = WireRig(doing)
    BY <1>4 DEF Addressed
  <2>2. ASSUME NEW k \in DOMAIN toClient', toClient'[k].kind = "state"
        PROVE  DOMAIN toClient'[k].snaps = {WireRig(doing)}
    <3>1. CASE k \in 1..n
      BY <1>5, <2>2, <3>1 DEF Addressed
    <3>2. CASE k = n + 1
      <4>1. DOMAIN text.snaps = {l.rig}
        BY <1>2, <1>5, <2>2, <3>2 DEF Handles
      <4>2. l.rig = WireRig(doing)
        BY <1>3 DEF Addressed
      <4> QED
        BY <1>5, <3>2, <4>1, <4>2
    <3> QED
      BY <1>5, <3>1, <3>2
  <2> QED
    BY <2>1, <2>2
<1>18. Resolved' /\ ChannelsRightUnlessMixed'
  BY <1>1 DEF Resolved, ChannelsRightUnlessMixed, ChannelsRight, Right
<1>19. Aimed'
  <2>1. \A k \in DOMAIN toServer' : Aims(toServer'[k].id) =>
            toServer'[k].rig = RigIds[asked[toServer'[k].id].name]
    BY <1>4 DEF Aimed
  <2>2. \A o \in orphans' : Aims(o.id) => o.rig = RigIds[asked[o.id].name]
    BY <1>2, <1>3 DEF Aimed, Handles
  <2> QED
    BY <1>1, <2>1, <2>2 DEF Aimed, Aims
<1>20. LineAges' /\ ChannelAges'
  <2>1. ASSUME NEW k \in 1..n, NEW r \in DOMAIN toClient[k].snaps
        PROVE  toClient[k].snaps[r] <= served'[r] /\ r \in Rigs /\ toClient[k].snaps[r] \in Nat
    <3>1. r \in Rigs /\ toClient[k].snaps[r] \in Nat /\ toClient[k].snaps[r] <= served[r]
      BY <1>5 DEF WireOK, LineOK, LineAges
    <3> QED
      BY <1>1, <3>1 DEF ServerOK
  <2>2. ASSUME NEW m \in Names, NEW r \in DOMAIN chan[m]
        PROVE  chan[m][r] <= served'[r]
    <3>1. r \in Rigs /\ chan[m][r] \in Nat /\ chan[m][r] <= served[r]
      BY DEF ViewsOK, ChannelAges
    <3> QED
      BY <1>1, <3>1 DEF ServerOK
  <2>3. LineAges'
    <3> SUFFICES ASSUME NEW k \in DOMAIN toClient', NEW r \in DOMAIN toClient'[k].snaps
                 PROVE  /\ toClient'[k].snaps[r] <= served'[r]
                        /\ \A j \in DOMAIN toClient' : j <= k /\ r \in DOMAIN toClient'[j].snaps =>
                              toClient'[j].snaps[r] <= toClient'[k].snaps[r]
      BY DEF LineAges
    <3>1. CASE k \in 1..n
      <4>1. \A j \in DOMAIN toClient' : j <= k => j \in 1..n
        BY <1>5, <3>1
      <4> QED
        BY <1>5, <2>1, <3>1, <4>1 DEF LineAges
    <3>2. CASE k = n + 1
      <4>1. toClient'[k].snaps[r] = served'[r] /\ served'[r] \in Nat
        BY <1>1, <1>5, <1>6, <3>2
      <4> QED
        BY <1>5, <2>1, <3>2, <4>1
    <3> QED
      BY <1>5, <3>1, <3>2
  <2>4. ASSUME NEW m \in Names, NEW r \in DOMAIN chan[m], NEW k \in DOMAIN toClient',
               r \in DOMAIN toClient'[k].snaps
        PROVE  chan[m][r] <= toClient'[k].snaps[r]
    <3>1. CASE k \in 1..n
      BY <1>5, <2>4, <3>1 DEF ChannelAges
    <3>2. CASE k = n + 1
      BY <1>5, <1>6, <2>2, <2>4, <3>2
    <3> QED
      BY <1>5, <3>1, <3>2
  <2> QED
    BY <1>1, <2>2, <2>3, <2>4 DEF ChannelAges
<1>21. OwnAnswer'
  BY <1>1, <1>8 DEF OwnAnswer
<1>22. KnownNameRoutes'
  <2> SUFFICES ASSUME NEW i \in DOMAIN asked, asked[i].override, asked[i].known,
                      RigIds[asked[i].name] /= Wildcard, NEW k \in DOMAIN ran'[i]
               PROVE  ran'[i][k] = RigIds[asked[i].name]
    BY <1>1 DEF KnownNameRoutes
  <2>1. i \in Requests
    BY Numbers
  <2>2. CASE ran'[i] = ran[i]
    BY <2>2 DEF KnownNameRoutes
  <2>3. CASE i = l.id /\ Ran(l)
    BY <1>3, <2>3 DEF Ran, Aimed, Aims
  <2> QED
    BY <1>8, <2>1, <2>2, <2>3
<1> QED
  BY <1>7, <1>10, <1>14, <1>15, <1>16, <1>17, <1>18, <1>19, <1>20, <1>21, <1>22

LEMMA OrphanKeeps == ASSUME Types, Others, NEW l \in orphans, RunOrphan(l) PROVE Types' /\ Others'
<1> USE DEF Types, Others
<1>1. /\ orphans' = orphans \ {l} /\ Run(l.rig, l.id)
      /\ UNCHANGED <<link, toServer, toClient, at, streak, late, doing, backlog, selected, resolved, chan,
                     global, open, asked, told, faults>>
  BY DEF RunOrphan, wire, client, views
<1>2. l.id \in Requests /\ l.rig \in Rigs /\ ran[l.id] = <<>> /\ l.id \in DOMAIN asked /\ Held(l.id)
  BY Numbers DEF ServerOK, ServerLine, Apart, Held
<1>3. /\ served' \in [Rigs -> Nat] /\ \A x \in Rigs : served[x] <= served'[x]
      /\ ran' \in [Requests -> Seq(Rigs)] /\ ran'[l.id] = <<l.rig>> /\ Len(ran'[l.id]) = 1
      /\ \A k \in DOMAIN ran'[l.id] : ran'[l.id][k] = l.rig
      /\ \A x \in Requests \ {l.id} : ran'[x] = ran[x]
  BY <1>1, <1>2, RunOnce
<1>4. ASSUME NEW i \in Requests PROVE (InLines(i)' <=> InLines(i)) /\ (Held(i)' => Held(i) /\ i # l.id)
  BY <1>1, <1>2 DEF InLines, Held, Apart
<1>5. Types'
  <2>1. WireOK'
    BY <1>1 DEF WireOK, LineOK, ServerLine
  <2>2. ClientOK' /\ AskedOK' /\ ToldOK' /\ ViewsOK' /\ Alone'
    BY <1>1 DEF ClientOK, AskedOK, ToldOK, ViewsOK, Alone
  <2>3. ServerOK'
    BY <1>1, <1>3 DEF ServerOK, ServerLine
  <2> QED
    BY <2>1, <2>2, <2>3
<1>6. Control' /\ Addressed' /\ Resolved' /\ ChannelsRightUnlessMixed'
  <2>1. Control'
    BY <1>1 DEF Control
  <2>2. Addressed'
    BY <1>1 DEF Addressed, WireRig, NameOf
  <2>3. Resolved' /\ ChannelsRightUnlessMixed'
    BY <1>1 DEF Resolved, ChannelsRightUnlessMixed, ChannelsRight, Right
  <2> QED
    BY <2>1, <2>2, <2>3
<1>7. Apart'
  <2>1. \A j, k \in DOMAIN toServer : toServer[j].id = toServer[k].id /\ toServer[j].id /= Poll => j = k
    BY DEF Apart
  <2>2. \A o, m \in orphans' : o.id = m.id => o = m
    BY <1>1 DEF Apart
  <2>3. ASSUME NEW i \in Requests, InLines(i) PROVE i \in DOMAIN asked /\ ran'[i] = <<>> /\ ~Held(i)'
    BY <1>2, <1>3, <1>4, <2>3 DEF Apart
  <2>4. ASSUME NEW o \in orphans' PROVE o.id \in DOMAIN asked /\ ran'[o.id] = <<>>
    <3>1. o \in orphans /\ o.id # l.id /\ o.id \in Requests
      BY <1>1, Numbers DEF Apart
    <3> QED
      BY <1>3, <3>1 DEF Apart
  <2>5. ASSUME NEW i \in Requests PROVE Len(ran'[i]) <= 1 /\ (ran'[i] /= <<>> => i \in DOMAIN asked)
    <3>1. CASE i = l.id
      <4>1. Len(ran'[i]) = 1
        BY <1>3, <3>1
      <4> QED
        BY <1>2, <3>1, <4>1
    <3>2. CASE i # l.id
      <4>1. ran'[i] = ran[i]
        BY <1>3, <3>2
      <4> QED
        BY <4>1 DEF Apart
    <3> QED
      BY <3>1, <3>2
  <2> QED
    BY <1>1, <1>4, <2>1, <2>2, <2>3, <2>4, <2>5 DEF Apart
<1>8. Waiting'
  <2>1. ASSUME NEW i \in ToSet(backlog) PROVE ran'[i] = <<>> /\ ~InLines(i)' /\ ~Held(i)'
    BY <1>2, <1>3, <1>4, <2>1, Numbers DEF Waiting
  <2> QED
    BY <1>1, <2>1 DEF Waiting
<1>9. \A i \in Requests : Len(ran[i]) = 1 => ran'[i] = ran[i]
  BY <1>2, <1>3
<1>10. Answers' /\ OwnAnswer'
  BY <1>1, <1>9 DEF Answers, OwnAnswer
<1>11. Aimed'
  BY <1>1 DEF Aimed, Aims
<1>12. LineAges' /\ ChannelAges'
  <2>1. LineAges'
    <3> SUFFICES ASSUME NEW k \in DOMAIN toClient, NEW r \in DOMAIN toClient[k].snaps
                 PROVE  toClient[k].snaps[r] <= served'[r]
      BY <1>1 DEF LineAges
    <3>1. r \in Rigs /\ toClient[k].snaps[r] \in Nat /\ toClient[k].snaps[r] <= served[r]
      BY DEF WireOK, LineOK, LineAges
    <3> QED
      BY <1>3, <3>1 DEF ServerOK
  <2>2. ChannelAges'
    <3> SUFFICES ASSUME NEW m \in Names, NEW r \in DOMAIN chan[m] PROVE chan[m][r] <= served'[r]
      BY <1>1 DEF ChannelAges
    <3>1. r \in Rigs /\ chan[m][r] \in Nat /\ chan[m][r] <= served[r]
      BY DEF ViewsOK, ChannelAges
    <3> QED
      BY <1>3, <3>1 DEF ServerOK
  <2> QED
    BY <2>1, <2>2
<1>13. KnownNameRoutes'
  <2> SUFFICES ASSUME NEW i \in DOMAIN asked, asked[i].override, asked[i].known,
                      RigIds[asked[i].name] /= Wildcard, NEW k \in DOMAIN ran'[i]
               PROVE  ran'[i][k] = RigIds[asked[i].name]
    BY <1>1 DEF KnownNameRoutes
  <2>1. i \in Requests
    BY Numbers
  <2>2. CASE i # l.id
    <3>1. ran'[i] = ran[i]
      BY <1>3, <2>1, <2>2
    <3> QED
      BY <3>1 DEF KnownNameRoutes
  <2>3. CASE i = l.id
    BY <1>3, <2>3 DEF Aimed, Aims
  <2> QED
    BY <2>2, <2>3
<1> QED
  BY <1>5, <1>6, <1>7, <1>8, <1>10, <1>11, <1>12, <1>13

\* A connection that breaks, or a server that starts again, takes lines with it.
LEMMA BreakKeeps == ASSUME Types, Others, LinkBreaks \/ ServerRestarts PROVE Types' /\ Others'
<1> USE DEF Types, Others
<1>1. /\ link' = (IF link = "up" THEN "broken" ELSE link) /\ toServer' = <<>>
      /\ \E n \in 0..Len(toClient) : toClient' = SubSeq(toClient, 1, n)
      /\ orphans' \subseteq orphans \cup Left(toServer) /\ open' \subseteq open
      /\ UNCHANGED <<at, streak, late, doing, backlog, selected, resolved, chan, global, served, ran,
                     asked, told>>
  BY DEF LinkBreaks, ServerRestarts, Break, client, views
<1>2. Stretch(toClient', toClient)
  BY <1>1, Stretches DEF WireOK
<1>3. Fewer
  BY <1>1, <1>2 DEF Fewer
<1>4. /\ WireOK' /\ orphans' \subseteq ServerLine
      /\ Len(toServer') + Len(toClient') <= Len(toServer) + Len(toClient)
      /\ \A k \in DOMAIN toServer' : toServer' = toServer
      /\ \A k \in DOMAIN toClient' : \E j \in DOMAIN toClient : toClient'[k] = toClient[j]
      /\ \A i \in Requests : InLines(i)' \/ Held(i)' => InLines(i) \/ Held(i)
      /\ Apart' /\ Answers' /\ Aimed' /\ LineAges' /\ ChannelAges'
  BY <1>1, <1>3, FewerKeeps
<1>5. Types'
  <2>1. ClientOK'
    BY <1>1 DEF ClientOK
  <2>2. AskedOK' /\ ToldOK' /\ ViewsOK'
    BY <1>1 DEF AskedOK, ToldOK, ViewsOK
  <2>3. Alone'
    <3>1. Len(toServer) \in Nat /\ Len(toClient) \in Nat /\ Len(toServer') \in Nat /\ Len(toClient') \in Nat
      BY <1>4, LenProperties DEF WireOK
    <3> QED
      BY <1>1, <1>4, <3>1 DEF Alone
  <2>4. ServerOK'
    BY <1>1, <1>4 DEF ServerOK, ServerLine
  <2> QED
    BY <1>4, <2>1, <2>2, <2>3, <2>4
<1>6. toClient = <<>> => toClient' = <<>>
  BY <1>2, EmptySeq, LenProperties DEF Stretch
<1>7. DOMAIN toServer' = {}
  BY <1>1
<1>8. Control'
  BY <1>1, <1>4, <1>6, <1>7 DEF Control, ClientOK
<1>9. Waiting'
  BY <1>1, <1>4, Numbers DEF Waiting
<1>10. Addressed'
  BY <1>1, <1>4, <1>7 DEF Addressed, WireRig, NameOf
<1>11. Resolved' /\ OwnAnswer' /\ KnownNameRoutes' /\ ChannelsRightUnlessMixed'
  BY <1>1 DEF Resolved, OwnAnswer, KnownNameRoutes, ChannelsRightUnlessMixed, ChannelsRight, Right
<1> QED
  BY <1>4, <1>5, <1>8, <1>9, <1>10, <1>11

(***************************************************************************)
(* The client: what ends a poll or a command.                              *)
(***************************************************************************)
\* It goes on with the connection, or gives it up.
Ends ==
    /\ at \in {"prime", "poll", "command"} /\ doing' = Poll /\ Fewer
    /\ streak' \in 0..(MaxConsecutivePollFailures - 1) /\ late' \in BOOLEAN
    /\ \/ /\ at' = "idle" /\ link' = link /\ toServer' = toServer /\ (late => late')
          /\ ~late' => toServer' = <<>> /\ toClient' = <<>>
       \/ at' = "down" /\ link' = "down" /\ toServer' = <<>> /\ toClient' = <<>> /\ ~late'
    /\ \A i \in Requests \ {doing} : told'[i] = told[i]
    /\ UNCHANGED <<backlog, selected, open>>

LEMMA EndsKeeps ==
    ASSUME Types, Others, Ends
    PROVE  /\ WireOK' /\ ClientOK' /\ Alone' /\ AskedOK' /\ ServerOK'
           /\ Control' /\ Apart' /\ Waiting' /\ Answers' /\ Addressed' /\ Aimed' /\ LineAges'
           /\ KnownNameRoutes'
           /\ chan' = chan => ChannelAges'
<1> USE DEF Types, Others, Ends
<1>1. /\ WireOK' /\ orphans' \subseteq ServerLine
      /\ Len(toServer') + Len(toClient') <= Len(toServer) + Len(toClient)
      /\ \A k \in DOMAIN toServer' : toServer' = toServer
      /\ \A k \in DOMAIN toClient' : \E j \in DOMAIN toClient : toClient'[k] = toClient[j]
      /\ \A i \in Requests : InLines(i)' \/ Held(i)' => InLines(i) \/ Held(i)
      /\ Apart' /\ Answers' /\ Aimed' /\ LineAges'
      /\ chan' = chan => ChannelAges'
  BY FewerKeeps
<1>2. UNCHANGED <<asked, ran, served>>
  BY DEF Fewer
<1>3. at' \in {"idle", "down"} /\ at' # "command"
  OBVIOUS
<1>4. ClientOK'
  BY <1>3 DEF ClientOK
<1>5. Alone'
  BY EmptySeq DEF Alone
<1>6. AskedOK' /\ KnownNameRoutes'
  BY <1>2 DEF AskedOK, KnownNameRoutes
<1>7. ServerOK'
  BY <1>1, <1>2 DEF ServerOK, ServerLine
<1>8. Control'
  <2>1. link' /= "up" => toServer' = <<>>
    BY DEF Control
  <2> QED
    BY <1>3, <2>1 DEF Control
<1>9. Waiting'
  <2>1. ASSUME NEW i \in ToSet(backlog)
        PROVE  i /= Poll /\ told'[i].kind = "none" /\ ran[i] = <<>> /\ ~InLines(i)' /\ ~Held(i)'
    <3>1. i \in Requests /\ i /= doing /\ i /= Poll
      BY <2>1, Numbers DEF Waiting
    <3> QED
      BY <1>1, <2>1, <3>1 DEF Waiting
  <2>2. ASSUME NEW i \in Requests \ DOMAIN asked PROVE told'[i].kind = "none"
    <3>1. i # doing
      BY <2>2, Numbers DEF Waiting
    <3> QED
      BY <2>2, <3>1 DEF Waiting
  <2> QED
    BY <1>2, <2>1, <2>2 DEF Waiting
<1>10. Addressed'
  BY <1>3 DEF Addressed
<1> QED
  BY <1>1, <1>4, <1>5, <1>6, <1>7, <1>8, <1>9, <1>10

\* One line at most is under way while no read has been given up.
LEMMA AloneLine ==
    ASSUME Types, ~late, toClient # <<>>
    PROVE  toServer = <<>> /\ Tail(toClient) = <<>>
<1> USE DEF Types
<1>1. Len(toServer) \in Nat /\ Len(toClient) \in Nat /\ Len(toClient) # 0
  BY LenProperties, EmptySeq DEF WireOK
<1>2. Len(toServer) = 0 /\ Len(toClient) = 1
  <2>1. Len(toServer) + Len(toClient) <= 1
    BY DEF Alone
  <2>2. \A a, b \in Nat : a + b <= 1 /\ b # 0 => a = 0 /\ b = 1
    OBVIOUS
  <2> QED
    BY <1>1, <2>1, <2>2
<1>3. Tail(toClient) \in Seq(Range(toClient)) /\ Len(Tail(toClient)) = 0
  BY <1>2, HeadTailProperties DEF WireOK
<1> QED
  BY <1>2, <1>3, EmptySeq DEF WireOK

LEMMA FailedEnds ==
    ASSUME Types, Others, at \in {"prime", "poll"}, NEW hopeless, NEW unread, NEW nowLate \in BOOLEAN,
           PollFailed(hopeless, unread, nowLate), Stretch(unread, toClient),
           late => nowLate, ~nowLate => toServer = <<>> /\ unread = <<>>,
           UNCHANGED <<doing, backlog, views, open, served, ran, asked, told>>
    PROVE  Ends /\ UNCHANGED <<told, chan, resolved, selected, asked, ran>>
<1> USE DEF Types
<1>1. doing = Poll
  BY DEF ClientOK
<1>2. UNCHANGED <<doing, backlog, selected, resolved, chan, global, open, served, ran, asked, told>>
  BY DEF views
<1>3. CASE Disconnect
  <2>1. Fewer
    BY <1>2, <1>3, Stretches DEF Disconnect, Fewer, WireOK
  <2> QED
    <3>1. streak' \in 0..(MaxConsecutivePollFailures - 1)
      BY <1>3 DEF Disconnect, MaxConsecutivePollFailures
    <3>2. at' = "down" /\ link' = "down" /\ toServer' = <<>> /\ toClient' = <<>> /\ late' = FALSE
      BY <1>3 DEF Disconnect
    <3>3. doing' = Poll /\ UNCHANGED <<backlog, selected, open, told>>
      BY <1>1, <1>2
    <3> QED
      BY <1>2, <2>1, <3>1, <3>2, <3>3 DEF Ends
<1>4. CASE /\ ~(at = "poll" /\ (hopeless \/ streak + 1 >= MaxConsecutivePollFailures))
           /\ at' = "idle" /\ toClient' = unread /\ late' = nowLate
           /\ streak' = (IF at = "poll" THEN streak + 1 ELSE streak)
           /\ UNCHANGED <<link, toServer, orphans>>
  <2>1. Fewer
    BY <1>2, <1>4 DEF Fewer
  <2>2. streak' \in 0..(MaxConsecutivePollFailures - 1)
    BY <1>4 DEF ClientOK, MaxConsecutivePollFailures
  <2> QED
    BY <1>1, <1>2, <1>4, <2>1, <2>2 DEF Ends
<1> QED
  BY <1>3, <1>4 DEF PollFailed

LEMMA AnswerEnds ==
    ASSUME Types, Others, at = "command", NEW kind, NEW of, Answer(kind, of), late' \in BOOLEAN,
           Stretch(toClient', toClient), late => late', ~late' => toServer = <<>> /\ toClient' = <<>>,
           UNCHANGED <<link, toServer, streak, backlog, selected, server, asked>>
    PROVE  Ends
<1> USE DEF Types
<1>1. UNCHANGED <<open, served, orphans, ran>>
  BY DEF server
<1>2. /\ at' = "idle" /\ doing' = Poll
      /\ \A i \in Requests \ {doing} : told'[i] = told[i]
  BY DEF Answer, ToldOK
<1>3. Fewer
  BY <1>1 DEF Fewer
<1> QED
  BY <1>1, <1>2, <1>3 DEF Ends, ClientOK

\* A command whose answer tells of no success says nothing about the rig.
LEMMA ErrorTold ==
    ASSUME Types, Others, at = "command", Answer("error", Poll), UNCHANGED <<selected, resolved, chan, asked, ran>>
    PROVE  /\ ToldOK' /\ ViewsOK' /\ Resolved' /\ OwnAnswer' /\ ChannelsRightUnlessMixed'
<1> USE DEF Types, Others
<1>1. doing \in Requests
  BY DEF ClientOK
<1>2. told' = [told EXCEPT ![doing] = [kind |-> "error", of |-> Poll, late |-> FALSE]]
  BY DEF Answer
<1>3. ToldOK'
  BY <1>1, <1>2 DEF ToldOK
<1>4. \A i \in Requests : told'[i].kind = "ok" => told'[i] = told[i]
  BY <1>1, <1>2 DEF ToldOK
<1>5. OwnAnswer'
  BY <1>4 DEF OwnAnswer
<1>6. told[doing].kind # "ok" /\ \A i \in Requests \ {doing} : told'[i] = told[i]
  BY <1>1, <1>2 DEF ToldOK, Waiting, Poll, Requests
<1>7. ChannelsRightUnlessMixed'
  BY <1>6 DEF ChannelsRightUnlessMixed, ChannelsRight, Right
<1>8. ViewsOK' /\ Resolved'
  BY DEF ViewsOK, Resolved
<1> QED
  BY <1>3, <1>5, <1>7, <1>8

LEMMA LateReads ==
    ASSUME Types, Others, ~late, at \in {"prime", "poll", "command"}
    PROVE  /\ Failing => toServer = <<>> /\ toClient = <<>>
           /\ toClient # <<>> => toServer = <<>> /\ Tail(toClient) = <<>>
BY AloneLine DEF Failing, Others, Control

LEMMA PollsKeep ==
    ASSUME Types, Others, PollRejects \/ PollLost \/ PollTimesOut
    PROVE  Types' /\ Others'
<1> USE DEF Types, Others
<1>0. late \in BOOLEAN
  BY DEF ClientOK
<1>1. Ends /\ UNCHANGED <<told, chan, resolved, selected, asked, ran>>
  <2>1. CASE PollRejects
    <3> DEFINE hopeless == Head(toClient).kind = "expired"
    <3>1. /\ at \in {"prime", "poll"} /\ toClient # <<>> /\ PollFailed(hopeless, Tail(toClient), late)
          /\ UNCHANGED <<doing, backlog, views, open, served, ran, asked, told>>
      BY <2>1 DEF PollRejects
    <3>2. Stretch(Tail(toClient), toClient)
      BY <3>1, Stretches DEF WireOK
    <3>3. ~late => toServer = <<>> /\ Tail(toClient) = <<>>
      BY <3>1, LateReads
    <3> HIDE DEF hopeless
    <3> QED
      BY <1>0, <3>1, <3>2, <3>3, FailedEnds
  <2>2. CASE PollLost
    <3>1. PICK closed \in BOOLEAN : PollFailed(closed, toClient, late)
      BY <2>2 DEF PollLost
    <3>2. /\ at \in {"prime", "poll"} /\ Failing
          /\ UNCHANGED <<doing, backlog, views, open, served, ran, asked, told>>
      BY <2>2 DEF PollLost
    <3>3. Stretch(toClient, toClient) /\ (~late => toServer = <<>> /\ toClient = <<>>)
      BY <3>2, Stretches, LateReads DEF WireOK
    <3> QED
      BY <1>0, <3>1, <3>2, <3>3, FailedEnds
  <2>3. CASE PollTimesOut
    <3>1. /\ at \in {"prime", "poll"} /\ PollFailed(TRUE, toClient, TRUE)
          /\ UNCHANGED <<doing, backlog, views, open, served, ran, asked, told>>
      BY <2>3 DEF PollTimesOut
    <3>2. Stretch(toClient, toClient)
      BY Stretches DEF WireOK
    <3> QED
      BY <3>1, <3>2, FailedEnds
  <2> QED
    BY <2>1, <2>2, <2>3
<1>2. /\ WireOK' /\ ClientOK' /\ Alone' /\ AskedOK' /\ ServerOK'
      /\ Control' /\ Apart' /\ Waiting' /\ Answers' /\ Addressed' /\ Aimed' /\ LineAges'
      /\ KnownNameRoutes' /\ ChannelAges'
  BY <1>1, EndsKeeps
<1>3. ToldOK' /\ ViewsOK' /\ Resolved' /\ OwnAnswer' /\ ChannelsRightUnlessMixed'
  BY <1>1 DEF ToldOK, ViewsOK, Resolved, OwnAnswer, ChannelsRightUnlessMixed, ChannelsRight, Right
<1> QED
  BY <1>2, <1>3

LEMMA CommandsFail ==
    ASSUME Types, Others, CommandFails \/ CommandLost \/ CommandTimesOut
    PROVE  Types' /\ Others'
<1> USE DEF Types, Others
<1>0. late \in BOOLEAN
  BY DEF ClientOK
<1>1. /\ at = "command" /\ Answer("error", Poll) /\ UNCHANGED <<selected, resolved, chan, asked, ran>>
      /\ UNCHANGED <<link, toServer, streak, backlog, selected, server, asked>>
  BY DEF CommandFails, CommandLost, CommandTimesOut, wire, views, server
<1>2. late' \in BOOLEAN /\ (late => late') /\ Stretch(toClient', toClient)
      /\ (~late' => toServer = <<>> /\ toClient' = <<>>)
  <2>1. CASE CommandFails
    <3>1. toClient # <<>> /\ toClient' = Tail(toClient) /\ late' = late
      BY <2>1 DEF CommandFails
    <3> QED
      BY <1>0, <1>1, <3>1, Stretches, LateReads DEF WireOK
  <2>2. CASE CommandLost
    <3>1. Failing /\ toClient' = toClient /\ late' = late
      BY <2>2 DEF CommandLost, wire
    <3> QED
      BY <1>0, <1>1, <3>1, Stretches, LateReads DEF WireOK
  <2>3. CASE CommandTimesOut
    <3>1. toClient' = toClient /\ late' = TRUE
      BY <2>3 DEF CommandTimesOut, wire
    <3> QED
      BY <3>1, Stretches DEF WireOK
  <2> QED
    BY <2>1, <2>2, <2>3
<1>3. Ends
  BY <1>1, <1>2, AnswerEnds
<1>4. /\ WireOK' /\ ClientOK' /\ Alone' /\ AskedOK' /\ ServerOK'
      /\ Control' /\ Apart' /\ Waiting' /\ Answers' /\ Addressed' /\ Aimed' /\ LineAges'
      /\ KnownNameRoutes' /\ ChannelAges'
  BY <1>1, <1>3, EndsKeeps
<1>5. ToldOK' /\ ViewsOK' /\ Resolved' /\ OwnAnswer' /\ ChannelsRightUnlessMixed'
  BY <1>1, ErrorTold
<1> QED
  BY <1>4, <1>5

\* A listing gives each name the state of the rig that it resolves the name to.
LEMMA RefreshesKeep == ASSUME Types, Others, PollRefreshes PROVE Types' /\ Others'
<1> USE DEF Types, Others
<1> DEFINE snaps == Head(toClient).snaps
<1>1. /\ at \in {"prime", "poll"} /\ toClient # <<>> /\ Refresh(snaps)
      /\ toClient' = Tail(toClient) /\ at' = "idle" /\ streak' = 0
      /\ UNCHANGED <<link, toServer, late, doing, backlog, selected, open, served, orphans, ran, asked, told>>
  BY DEF PollRefreshes, server
<1>2. /\ 1 \in DOMAIN toClient /\ Head(toClient) = toClient[1]
      /\ \A k \in DOMAIN toClient' : k + 1 \in DOMAIN toClient /\ toClient'[k] = toClient[k + 1]
      /\ Stretch(toClient', toClient) /\ DOMAIN toClient \subseteq Nat /\ DOMAIN toClient' \subseteq Nat
  <2>1. /\ 1 \in DOMAIN toClient /\ Head(toClient) = toClient[1] /\ Stretch(toClient', toClient)
        /\ \A k \in DOMAIN toClient' : k + 1 \in DOMAIN toClient /\ toClient'[k] = toClient[k + 1]
    BY <1>1, Stretches DEF WireOK
  <2>2. toClient' \in Seq(Range(toClient'))
    BY <2>1 DEF Stretch
  <2> QED
    BY <2>1, <2>2, LenProperties DEF WireOK
<1>3. /\ DOMAIN snaps \subseteq Rigs
      /\ \A r \in DOMAIN snaps : snaps[r] \in Nat /\ snaps[r] <= served[r]
      /\ \A r \in DOMAIN snaps : \A k \in DOMAIN toClient' : r \in DOMAIN toClient'[k].snaps =>
            snaps[r] <= toClient'[k].snaps[r]
  <2>1. LineOK(toClient[1])
    BY <1>2 DEF WireOK
  <2>2. \A k \in DOMAIN toClient' : 1 <= k + 1
    BY <1>2
  <2> QED
    BY <1>2, <2>1, <2>2 DEF LineOK, LineAges
<1> HIDE DEF snaps
<1>4. PICK got \in [Names -> Rigs \cup {NoRig}] :
        /\ \A n \in Names : IF Candidates(n, DOMAIN snaps) = {} THEN got[n] = NoRig
                            ELSE got[n] \in Candidates(n, DOMAIN snaps)
        /\ resolved' = [n \in Names |-> IF got[n] = NoRig THEN resolved[n] ELSE got[n]]
        /\ chan' = [n \in Names |-> IF got[n] = NoRig THEN NoSnapshot ELSE Only(got[n], snaps)]
  BY <1>1 DEF Refresh
<1>5. ASSUME NEW n \in Names
      PROVE  \/ resolved'[n] = resolved[n] /\ chan'[n] = NoSnapshot
             \/ /\ resolved'[n] \in DOMAIN snaps /\ (RigIds[n] # Wildcard => resolved'[n] = RigIds[n])
                /\ DOMAIN chan'[n] = {resolved'[n]} /\ chan'[n][resolved'[n]] = snaps[resolved'[n]]
  <2>1. CASE got[n] = NoRig
    BY <1>4, <2>1
  <2>2. CASE got[n] # NoRig
    <3>1. got[n] \in Candidates(n, DOMAIN snaps)
      BY <1>4, <2>2
    <3>2. got[n] \in DOMAIN snaps /\ (RigIds[n] # Wildcard => got[n] = RigIds[n])
      BY <3>1 DEF Candidates
    <3>3. resolved'[n] = got[n] /\ chan'[n] = Only(got[n], snaps)
      BY <1>4, <2>2
    <3> QED
      BY <3>2, <3>3 DEF Only
  <2> QED
    BY <2>1, <2>2
<1>6. DOMAIN NoSnapshot = {}
  BY DEF NoSnapshot
<1>7. resolved' \in [Names -> Rigs \cup {NoRig}]
  BY <1>4 DEF ViewsOK
<1>8. ViewsOK'
  BY <1>1, <1>3, <1>5, <1>6, <1>7 DEF ViewsOK
<1>9. ChannelAges'
  <2> SUFFICES ASSUME NEW n \in Names, NEW r \in DOMAIN chan'[n]
               PROVE  /\ chan'[n][r] <= served[r]
                      /\ \A k \in DOMAIN toClient' : r \in DOMAIN toClient'[k].snaps =>
                            chan'[n][r] <= toClient'[k].snaps[r]
    BY <1>1 DEF ChannelAges
  <2>1. r \in DOMAIN snaps /\ chan'[n][r] = snaps[r]
    BY <1>5, <1>6
  <2> QED
    BY <1>3, <2>1
<1>10. ChannelsRightUnlessMixed'
  BY <1>5 DEF ChannelsRightUnlessMixed, ChannelsRight, Right
<1>11. Resolved'
  <2>1. ASSUME NEW n \in Names, resolved'[n] /= NoRig, RigIds[n] /= Wildcard PROVE resolved'[n] = RigIds[n]
    BY <1>5, <2>1 DEF Resolved
  <2>2. ASSUME NEW n \in Names, resolved[n] /= NoRig PROVE resolved'[n] /= NoRig
    BY <1>3, <1>5, <2>2
  <2>3. ASSUME NEW i \in DOMAIN asked, asked[i].known
        PROVE  asked[i].override /\ resolved'[asked[i].name] /= NoRig
    BY <2>2, <2>3 DEF Resolved, AskedOK
  <2> QED
    BY <1>1, <2>1, <2>3 DEF Resolved
<1>12. ToldOK' /\ OwnAnswer'
  BY <1>1 DEF ToldOK, OwnAnswer
<1>13. Ends
  <2>1. Fewer
    BY <1>1, <1>2 DEF Fewer
  <2>2. ~late => toServer = <<>> /\ toClient' = <<>>
    BY <1>1, LateReads
  <2>3. doing' = Poll /\ late' \in BOOLEAN
    BY <1>1 DEF ClientOK
  <2> QED
    BY <1>1, <2>1, <2>2, <2>3 DEF Ends, MaxConsecutivePollFailures
<1>14. /\ WireOK' /\ ClientOK' /\ Alone' /\ AskedOK' /\ ServerOK'
       /\ Control' /\ Apart' /\ Waiting' /\ Answers' /\ Addressed' /\ Aimed' /\ LineAges'
       /\ KnownNameRoutes'
  BY <1>13, EndsKeeps
<1> QED
  BY <1>8, <1>9, <1>10, <1>11, <1>12, <1>14

\* A command that succeeds shows the state that its answer brings, of the rig it was for.
LEMMA SucceedsKeeps == ASSUME Types, Others, CommandSucceeds PROVE Types' /\ Others'
<1> USE DEF Types, Others
<1> DEFINE text == Head(toClient)
<1>1. /\ at = "command" /\ toClient # <<>> /\ text.kind = "state" /\ Answer("ok", text.of)
      /\ toClient' = Tail(toClient)
      /\ chan' = [n \in Names |-> IF n = NameOf(doing) /\ chan[n] /= NoSnapshot THEN text.snaps ELSE chan[n]]
      /\ UNCHANGED <<link, toServer, streak, late, backlog, selected, resolved, server, asked>>
  BY DEF CommandSucceeds
<1>2. /\ 1 \in DOMAIN toClient /\ text = toClient[1]
      /\ \A k \in DOMAIN toClient' : k + 1 \in DOMAIN toClient /\ toClient'[k] = toClient[k + 1]
      /\ Stretch(toClient', toClient) /\ DOMAIN toClient' \subseteq Nat
  <2>1. /\ 1 \in DOMAIN toClient /\ text = toClient[1] /\ Stretch(toClient', toClient)
        /\ \A k \in DOMAIN toClient' : k + 1 \in DOMAIN toClient /\ toClient'[k] = toClient[k + 1]
    BY <1>1, Stretches DEF WireOK
  <2>2. toClient' \in Seq(Range(toClient'))
    BY <2>1 DEF Stretch
  <2> QED
    BY <2>1, <2>2, LenProperties DEF WireOK
<1>3. /\ DOMAIN text.snaps \subseteq Rigs
      /\ \A r \in DOMAIN text.snaps : text.snaps[r] \in Nat /\ text.snaps[r] <= served[r]
      /\ \A r \in DOMAIN text.snaps : \A k \in DOMAIN toClient' : r \in DOMAIN toClient'[k].snaps =>
            text.snaps[r] <= toClient'[k].snaps[r]
  <2>1. LineOK(toClient[1])
    BY <1>2 DEF WireOK
  <2>2. \A k \in DOMAIN toClient' : 1 <= k + 1
    BY <1>2
  <2> QED
    BY <1>2, <2>1, <2>2 DEF LineOK, LineAges
<1>4. /\ text.of \in Requests /\ Len(ran[text.of]) = 1
      /\ ~late => text.of = doing
      /\ ~late /\ asked[doing].override => DOMAIN text.snaps = {WireRig(doing)}
  BY <1>1, <1>2 DEF Answers, Control, Addressed
<1> HIDE DEF text
<1>5. doing \in Requests /\ doing \in DOMAIN asked /\ told[doing].kind = "none" /\ late \in BOOLEAN
  BY <1>1 DEF ClientOK, Waiting, Requests, Poll
<1>6. /\ at' = "idle" /\ doing' = Poll
      /\ told' = [told EXCEPT ![doing] = [kind |-> "ok", of |-> text.of, late |-> late /\ "ok" = "ok"]]
  BY <1>1 DEF Answer
<1>7. /\ told'[doing].kind = "ok" /\ told'[doing].of = text.of /\ (told'[doing].late <=> late)
      /\ \A i \in Requests \ {doing} : told'[i] = told[i]
  BY <1>5, <1>6 DEF ToldOK
<1>8. ToldOK'
  <2>1. [kind |-> "ok", of |-> text.of, late |-> late /\ "ok" = "ok"] \in
            [kind : {"none", "ok", "error", "elsewhere", "dropped"}, of : Requests \cup {Poll}, late : BOOLEAN]
    BY <1>4, <1>5
  <2> QED
    BY <1>5, <1>6, <2>1 DEF ToldOK
<1>9. UNCHANGED <<open, served, orphans, ran>>
  BY <1>1 DEF server
<1>10. Ends
  BY <1>1, <1>2, <1>5, LateReads, AnswerEnds
<1>11. /\ WireOK' /\ ClientOK' /\ Alone' /\ AskedOK' /\ ServerOK'
       /\ Control' /\ Apart' /\ Waiting' /\ Answers' /\ Addressed' /\ Aimed' /\ LineAges'
       /\ KnownNameRoutes'
  BY <1>10, EndsKeeps
<1>12. OwnAnswer'
  <2> SUFFICES ASSUME NEW i \in Requests, told'[i].kind = "ok", ~told'[i].late
               PROVE  told'[i].of = i /\ Len(ran[i]) = 1
    BY <1>9 DEF OwnAnswer
  <2>1. CASE i = doing
    BY <1>4, <1>7, <2>1
  <2>2. CASE i # doing
    BY <1>7, <2>2 DEF OwnAnswer
  <2> QED
    BY <2>1, <2>2
<1>13. \A n \in Names : chan'[n] = chan[n] \/ (n = NameOf(doing) /\ chan[n] # NoSnapshot /\ chan'[n] = text.snaps)
  BY <1>1
<1>14. ViewsOK'
  BY <1>1, <1>3, <1>13 DEF ViewsOK
<1>15. ChannelAges'
  <2> SUFFICES ASSUME NEW n \in Names, NEW r \in DOMAIN chan'[n]
               PROVE  /\ chan'[n][r] <= served[r]
                      /\ \A k \in DOMAIN toClient' : r \in DOMAIN toClient'[k].snaps =>
                            chan'[n][r] <= toClient'[k].snaps[r]
    BY <1>9 DEF ChannelAges
  <2>1. CASE chan'[n] = chan[n]
    BY <1>2, <2>1 DEF ChannelAges
  <2>2. CASE chan'[n] = text.snaps
    BY <1>3, <2>2
  <2> QED
    BY <1>13, <2>1, <2>2
<1>16. ChannelsRightUnlessMixed'
  <2> SUFFICES ASSUME \A i \in Requests : told'[i].kind = "ok" =>
                          ~told'[i].late /\ i \in DOMAIN asked /\ asked[i].override,
                      NEW n \in Names
               PROVE  chan'[n] = NoSnapshot \/ DOMAIN chan'[n] = {resolved[n]}
    BY <1>1 DEF ChannelsRightUnlessMixed, ChannelsRight, Right
  <2>1. ~late /\ asked[doing].override
    BY <1>5, <1>7
  <2>2. \A i \in Requests : told[i].kind = "ok" => told'[i] = told[i]
    BY <1>5, <1>7
  <2>3. chan[n] = NoSnapshot \/ DOMAIN chan[n] = {resolved[n]}
    BY <2>2 DEF ChannelsRightUnlessMixed, ChannelsRight, Right
  <2>4. CASE chan'[n] = chan[n]
    BY <2>3, <2>4
  <2>5. CASE n = NameOf(doing) /\ chan[n] # NoSnapshot /\ chan'[n] = text.snaps
    <3>1. resolved[n] \in Rigs /\ resolved[n] # NoRig
      BY <2>3, <2>5 DEF ViewsOK
    <3>2. WireRig(doing) = resolved[n]
      BY <2>5, <3>1 DEF WireRig
    <3> QED
      BY <1>4, <2>1, <2>5, <3>2
  <2> QED
    BY <1>13, <2>4, <2>5
<1>17. Resolved'
  BY <1>1 DEF Resolved
<1> QED
  BY <1>8, <1>11, <1>12, <1>14, <1>15, <1>16, <1>17

(***************************************************************************)
(* The client: what it sends.                                              *)
(***************************************************************************)
\* A line that is added for a request that is nowhere on the way yet.
Adds(text) ==
    /\ toServer' = Append(toServer, text) /\ text \in ServerLine
    /\ text.id # Poll => /\ text.id \in DOMAIN asked /\ ran[text.id] = <<>>
                         /\ ~InLines(text.id) /\ ~Held(text.id)
    /\ Aims(text.id) => text.rig = RigIds[asked[text.id].name]

LEMMA SendKeeps ==
    ASSUME Types, Others, NEW text, Adds(text) \/ toServer' = toServer,
           UNCHANGED <<toClient, asked, ran, served, orphans, chan>>
    PROVE  /\ WireOK' /\ Apart' /\ Answers' /\ Aimed' /\ LineAges' /\ ChannelAges'
           /\ \A i \in Requests : (InLines(i)' => InLines(i) \/ (Adds(text) /\ i = text.id)) /\ (Held(i)' => Held(i))
           /\ \A k \in DOMAIN toServer' : (k \in DOMAIN toServer /\ toServer'[k] = toServer[k])
                                        \/ (Adds(text) /\ toServer'[k] = text)
           /\ Len(toServer') <= Len(toServer) + 1 /\ Len(toServer') \in Nat
<1> USE DEF Types, Others
<1> DEFINE n == Len(toServer)
<1>1. n \in Nat /\ DOMAIN toServer = 1..n /\ toServer \in Seq(ServerLine)
  BY LenProperties DEF WireOK
<1>2. CASE toServer' = toServer
  <2>1. WireOK'
    BY <1>2 DEF WireOK, LineOK, ServerLine
  <2>2. Apart' /\ Answers' /\ Aimed'
    BY <1>2 DEF Apart, InLines, Held, Answers, Aimed, Aims
  <2>3. LineAges' /\ ChannelAges'
    BY <1>2 DEF LineAges, ChannelAges
  <2>4. \A i \in Requests : (InLines(i)' => InLines(i)) /\ (Held(i)' => Held(i))
    BY <1>2 DEF InLines, Held
  <2> QED
    BY <1>1, <1>2, <2>1, <2>2, <2>3, <2>4
<1>3. CASE Adds(text)
  <2>1. toServer' = Append(toServer, text) /\ text \in ServerLine /\ toServer \in Seq(ServerLine)
    BY <1>1, <1>3 DEF Adds
  <2>2. /\ toServer' \in Seq(ServerLine) /\ Len(toServer') = Len(toServer) + 1
        /\ DOMAIN toServer' = DOMAIN toServer \cup {Len(toServer) + 1} /\ Len(toServer) + 1 \notin DOMAIN toServer
        /\ toServer'[Len(toServer) + 1] = text /\ \A k \in DOMAIN toServer : toServer'[k] = toServer[k]
    <3> HIDE DEF n
    <3> QED
      BY <2>1, AppendAt
  <2>3. /\ toServer' \in Seq(ServerLine) /\ Len(toServer') = n + 1
        /\ \A k \in DOMAIN toServer' : \/ k \in DOMAIN toServer /\ toServer'[k] = toServer[k]
                                       \/ k = n + 1 /\ toServer'[k] = text
        /\ n + 1 \notin DOMAIN toServer
    BY <2>2
  <2> HIDE DEF n
  <2>4. \A i \in Requests : (InLines(i)' => InLines(i) \/ i = text.id) /\ (Held(i)' => Held(i))
    BY <2>3 DEF InLines, Held
  <2>5. WireOK'
    BY <2>3 DEF WireOK, LineOK, ServerLine
  <2>6. Apart'
    <3>1. \A j, k \in DOMAIN toServer' : toServer'[j].id = toServer'[k].id /\ toServer'[j].id /= Poll => j = k
      <4>1. text.id /= Poll => \A k \in DOMAIN toServer : toServer[k].id /= text.id
        BY <1>3 DEF Adds, InLines
      <4> QED
        BY <2>3, <4>1 DEF Apart
    <3>2. ASSUME NEW i \in Requests, InLines(i)' PROVE i \in DOMAIN asked /\ ran[i] = <<>> /\ ~Held(i)'
      <4>1. i # Poll
        BY DEF Requests, Poll
      <4>2. CASE InLines(i)
        BY <2>4, <4>2 DEF Apart
      <4>3. CASE i = text.id
        BY <1>3, <2>4, <4>1, <4>3 DEF Adds
      <4> QED
        BY <2>4, <3>2, <4>2, <4>3
    <3> QED
      BY <3>1, <3>2 DEF Apart
  <2>7. Answers' /\ LineAges' /\ ChannelAges'
    BY DEF Answers, LineAges, ChannelAges
  <2>8. Aimed'
    BY <1>3, <2>3 DEF Aimed, Aims, Adds
  <2> QED
    BY <1>1, <1>3, <2>3, <2>4, <2>5, <2>6, <2>7, <2>8 DEF n
<1> QED
  BY <1>2, <1>3

LEMMA DefaultLine ==
    ASSUME Types
    PROVE  [id |-> Poll, rig |-> Default] \in ServerLine /\ ~Aims([id |-> Poll, rig |-> Default].id)
<1>1. Poll \notin DOMAIN asked
  BY Numbers DEF Types
<1> QED
  BY <1>1 DEF ServerLine, Aims

LEMMA PollsSend == ASSUME Types, Others, Connect \/ PollTick PROVE Types' /\ Others'
<1> USE DEF Types, Others
<1> DEFINE text == [id |-> Poll, rig |-> Default]
<1>1. /\ at \in {"down", "idle"} /\ at' \in {"prime", "poll"} /\ doing = Poll /\ link' \in {"down", "up", "broken"}
      /\ UNCHANGED <<toClient, streak, late, doing, backlog, selected, resolved, chan, global, open, served,
                     orphans, ran, asked, told, faults>>
      /\ ~late => toServer = <<>> /\ toClient = <<>>
  BY DEF Connect, PollTick, views, server, Control, ClientOK
<1>2. Adds(text) \/ toServer' = toServer
  <2>1. toServer' = Append(toServer, text) \/ toServer' = toServer
    <3>1. CASE Connect
      BY <3>1 DEF Connect, Control
    <3>2. CASE PollTick
      BY <3>2 DEF PollTick, Send
    <3> QED
      BY <3>1, <3>2
  <2> QED
    BY <2>1, DefaultLine DEF Adds
<1>3. link' /= "up" => toServer' = <<>>
  BY DEF Connect, PollTick, Send, Control
<1> HIDE DEF text
<1>4. /\ WireOK' /\ Apart' /\ Answers' /\ Aimed' /\ LineAges' /\ ChannelAges'
      /\ \A i \in Requests : (InLines(i)' => InLines(i) \/ (Adds(text) /\ i = text.id)) /\ (Held(i)' => Held(i))
      /\ Len(toServer') <= Len(toServer) + 1 /\ Len(toServer') \in Nat
  BY <1>1, <1>2, SendKeeps
<1>5. ClientOK' /\ AskedOK' /\ ToldOK' /\ ViewsOK' /\ ServerOK'
  <2>1. ClientOK' /\ AskedOK' /\ ToldOK'
    BY <1>1 DEF ClientOK, AskedOK, ToldOK
  <2>2. ViewsOK' /\ ServerOK'
    BY <1>1 DEF ViewsOK, ServerOK, ServerLine
  <2> QED
    BY <2>1, <2>2
<1>6. Alone'
  <2>1. Len(<<>>) = 0
    BY EmptySeq
  <2> QED
    BY <1>1, <1>4, <2>1 DEF Alone
<1>7. Control' /\ Addressed'
  BY <1>1, <1>3 DEF Control, Addressed
<1>8. Waiting'
  <2>1. ASSUME NEW i \in ToSet(backlog) PROVE ~InLines(i)' /\ ~Held(i)'
    <3>1. i \in Requests /\ i # text.id
      BY <2>1, Numbers DEF text
    <3> QED
      BY <1>4, <2>1, <3>1 DEF Waiting
  <2> QED
    BY <1>1, <2>1 DEF Waiting
<1>9. Resolved' /\ OwnAnswer' /\ KnownNameRoutes' /\ ChannelsRightUnlessMixed'
  BY <1>1 DEF Resolved, OwnAnswer, KnownNameRoutes, ChannelsRightUnlessMixed, ChannelsRight, Right
<1> QED
  BY <1>4, <1>5, <1>6, <1>7, <1>8, <1>9

LEMMA TakeKeeps == ASSUME Types, Others, TakeCommand PROVE Types' /\ Others'
<1> USE DEF Types, Others
<1> DEFINE i    == Head(backlog)
           text == [id |-> i, rig |-> WireRig(i)]
<1>1. /\ at = "idle" /\ backlog # <<>> /\ at' = "command" /\ doing' = i /\ backlog' = Tail(backlog)
      /\ toServer' = (IF link = "up" THEN Append(toServer, text) ELSE toServer)
      /\ UNCHANGED <<link, toClient, streak, late, selected, resolved, chan, global, open, served, orphans,
                     ran, asked, told, faults>>
      /\ ~late => toServer = <<>> /\ toClient = <<>>
  BY DEF TakeCommand, Send, views, server, Control
<1>2. /\ i \in Requests /\ i \in ToSet(backlog) /\ i # Poll /\ i \in DOMAIN asked
      /\ backlog' \in Seq(Requests) /\ ToSet(backlog') = ToSet(backlog) \ {i} /\ IsInjective(backlog')
  BY <1>1, TailSet, Numbers DEF AskedOK
<1>3. told[i].kind = "none" /\ ran[i] = <<>> /\ ~InLines(i) /\ ~Held(i)
  BY <1>2 DEF Waiting
<1>4. WireRig(i) \in Rigs
  BY DEF WireRig, ViewsOK
<1>5. Aims(i) => WireRig(i) = RigIds[asked[i].name]
  <2> SUFFICES ASSUME Aims(i) PROVE WireRig(i) = RigIds[asked[i].name]
    OBVIOUS
  <2>1. asked[i].override /\ asked[i].name \in Names /\ resolved[asked[i].name] /= NoRig
    BY <1>2 DEF Aims, Resolved, AskedOK
  <2>2. resolved[asked[i].name] = RigIds[asked[i].name]
    BY <2>1 DEF Resolved, Aims
  <2> QED
    BY <2>1, <2>2 DEF WireRig, NameOf
<1>6. text.id = i /\ text.rig = WireRig(i) /\ text \in ServerLine
  BY <1>2, <1>4 DEF ServerLine
<1> HIDE DEF text, i
<1>7. Adds(text) \/ toServer' = toServer
  BY <1>1, <1>2, <1>3, <1>5, <1>6 DEF Adds
<1>8. /\ WireOK' /\ Apart' /\ Answers' /\ Aimed' /\ LineAges' /\ ChannelAges'
      /\ \A x \in Requests : (InLines(x)' => InLines(x) \/ (Adds(text) /\ x = text.id)) /\ (Held(x)' => Held(x))
      /\ \A k \in DOMAIN toServer' : (k \in DOMAIN toServer /\ toServer'[k] = toServer[k])
                                   \/ (Adds(text) /\ toServer'[k] = text)
      /\ Len(toServer') <= Len(toServer) + 1 /\ Len(toServer') \in Nat
  BY <1>1, <1>7, SendKeeps
<1>9. ClientOK' /\ AskedOK' /\ ToldOK' /\ ViewsOK' /\ ServerOK'
  <2>1. ClientOK'
    BY <1>1, <1>2 DEF ClientOK
  <2>2. AskedOK'
    BY <1>1, <1>2 DEF AskedOK
  <2>3. ToldOK' /\ ViewsOK'
    BY <1>1 DEF ToldOK, ViewsOK
  <2>4. ServerOK'
    BY <1>1 DEF ServerOK, ServerLine
  <2> QED
    BY <2>1, <2>2, <2>3, <2>4
<1>10. Alone'
  <2>1. Len(<<>>) = 0
    BY EmptySeq
  <2> QED
    BY <1>1, <1>8, <2>1 DEF Alone
<1>11. ~late => (\A k \in DOMAIN toServer' : toServer'[k] = text) /\ DOMAIN toClient' = {}
  <2>1. DOMAIN <<>> = {}
    BY EmptySeq
  <2> QED
    BY <1>1, <1>8, <2>1
<1>12. Control'
  <2>1. link' /= "up" => toServer' = <<>>
    BY <1>1 DEF Control
  <2> QED
    BY <1>1, <1>6, <1>11, <2>1 DEF Control
<1>13. Addressed'
  BY <1>1, <1>6, <1>11 DEF Addressed, WireRig, NameOf
<1>14. Waiting'
  <2>1. ASSUME NEW x \in ToSet(backlog')
        PROVE  /\ x /= doing' /\ told[x].kind = "none" /\ ran[x] = <<>> /\ ~InLines(x)' /\ ~Held(x)'
    <3>1. x \in ToSet(backlog) /\ x # i /\ x \in Requests
      BY <1>2, <2>1, Numbers
    <3> QED
      BY <1>1, <1>6, <1>8, <3>1 DEF Waiting
  <2> QED
    BY <1>1, <1>2, <1>3, <2>1 DEF Waiting
<1>15. Resolved' /\ OwnAnswer' /\ KnownNameRoutes' /\ ChannelsRightUnlessMixed'
  BY <1>1 DEF Resolved, OwnAnswer, KnownNameRoutes, ChannelsRightUnlessMixed, ChannelsRight, Right
<1> QED
  BY <1>8, <1>9, <1>10, <1>12, <1>13, <1>14, <1>15

(***************************************************************************)
(* The frontends, and what changes nothing on the way of a request.        *)
(***************************************************************************)
Outside ==
    /\ AskedOK' /\ ToldOK' /\ selected' \in Names \cup {Elsewhere} /\ open' \subseteq Rigs
    /\ \A i \in DOMAIN asked : i \in DOMAIN asked' /\ asked'[i] = asked[i]
    /\ \A i \in DOMAIN asked' \ DOMAIN asked :
          asked'[i].known => asked'[i].override /\ resolved[asked'[i].name] /= NoRig
    /\ ToSet(backlog') \subseteq ToSet(backlog) \cup (DOMAIN asked' \ DOMAIN asked)
    /\ \A i \in Requests : \/ told'[i] = told[i]
                           \/ i \in ToSet(backlog) \ ToSet(backlog') /\ told'[i].kind # "ok"
    /\ UNCHANGED <<link, toServer, toClient, at, streak, late, doing, resolved, chan, served, orphans, ran>>

LEMMA OutsideKeeps == ASSUME Types, Others, Outside PROVE Types' /\ Others'
<1> USE DEF Types, Others
<1>1. /\ AskedOK' /\ ToldOK' /\ selected' \in Names \cup {Elsewhere} /\ open' \subseteq Rigs
      /\ UNCHANGED <<link, toServer, toClient, at, streak, late, doing, resolved, chan, served, orphans, ran>>
  BY DEF Outside
<1>2. /\ \A i \in DOMAIN asked : i \in DOMAIN asked' /\ asked'[i] = asked[i]
      /\ \A i \in DOMAIN asked' \ DOMAIN asked :
            asked'[i].known => asked'[i].override /\ resolved[asked'[i].name] /= NoRig
      /\ ToSet(backlog') \subseteq ToSet(backlog) \cup (DOMAIN asked' \ DOMAIN asked)
      /\ \A i \in Requests : \/ told'[i] = told[i]
                             \/ i \in ToSet(backlog) \ ToSet(backlog') /\ told'[i].kind # "ok"
  BY DEF Outside
<1>3. DOMAIN asked' \subseteq Requests /\ DOMAIN asked \subseteq Requests /\ Poll \notin Requests
  <2>1. DOMAIN asked' = 1..Len(asked') /\ Len(asked') \in Nat /\ Len(asked') <= MaxRequests
    BY <1>1, LenProperties DEF AskedOK
  <2> QED
    BY <2>1, Numbers DEF Requests
\* A request that is asked for now is nowhere yet.
<1>4. ASSUME NEW i \in Requests, i \notin DOMAIN asked
      PROVE  /\ told'[i] = told[i] /\ told[i].kind = "none" /\ ran[i] = <<>> /\ i # doing
             /\ ~InLines(i) /\ ~Held(i)
  BY <1>2, <1>3, <1>4 DEF Waiting, Apart, Held, AskedOK
<1>5. \A i \in Requests : told'[i].kind = "ok" => told'[i] = told[i] /\ i \in DOMAIN asked /\ asked'[i] = asked[i]
  BY <1>2, <1>4
<1>6. Types'
  <2>1. WireOK' /\ Alone'
    BY <1>1 DEF WireOK, LineOK, Alone, ServerLine
  <2>2. ClientOK'
    BY <1>1 DEF ClientOK
  <2>3. ViewsOK' /\ ServerOK'
    BY <1>1 DEF ViewsOK, ServerOK, ServerLine
  <2> QED
    BY <1>1, <2>1, <2>2, <2>3
<1>7. \A i : (InLines(i)' <=> InLines(i)) /\ (Held(i)' <=> Held(i))
  BY <1>1 DEF InLines, Held
<1>8. Control' /\ Answers' /\ LineAges' /\ ChannelAges'
  <2>1. Control'
    BY <1>1 DEF Control
  <2>2. Answers'
    BY <1>1 DEF Answers
  <2>3. LineAges' /\ ChannelAges'
    BY <1>1 DEF LineAges, ChannelAges
  <2> QED
    BY <2>1, <2>2, <2>3
<1>9. Apart'
  BY <1>1, <1>2, <1>7 DEF Apart
<1>10. Waiting'
  <2>1. ASSUME NEW i \in ToSet(backlog')
        PROVE  /\ i /= doing' /\ told'[i].kind = "none" /\ ran'[i] = <<>> /\ ~InLines(i)' /\ ~Held(i)'
    <3>1. i \in Requests
      BY <1>1, <1>3, <2>1 DEF AskedOK
    <3>2. CASE i \in ToSet(backlog)
      BY <1>1, <1>2, <1>7, <2>1, <3>1, <3>2 DEF Waiting
    <3>3. CASE i \notin ToSet(backlog)
      BY <1>1, <1>2, <1>4, <1>7, <2>1, <3>1, <3>3
    <3> QED
      BY <3>2, <3>3
  <2>2. ASSUME doing /= Poll PROVE doing \in DOMAIN asked' /\ told'[doing].kind = "none"
    BY <1>2, <1>3, <2>2 DEF Waiting
  <2>3. \A i \in Requests \ DOMAIN asked' : told'[i].kind = "none"
    BY <1>2, <1>4
  <2> QED
    BY <1>1, <2>1, <2>2, <2>3 DEF Waiting
<1>11. Addressed'
  <2> SUFFICES ASSUME ~late, at = "command", asked'[doing].override
               PROVE  /\ \A k \in DOMAIN toServer : toServer[k].rig = WireRig(doing)'
                      /\ \A k \in DOMAIN toClient : toClient[k].kind = "state" =>
                            DOMAIN toClient[k].snaps = {WireRig(doing)'}
    BY <1>1 DEF Addressed
  <2>1. asked'[doing] = asked[doing] /\ asked[doing].override
    BY <1>2 DEF ClientOK, Waiting
  <2>2. WireRig(doing)' = WireRig(doing)
    BY <1>1, <2>1 DEF WireRig, NameOf
  <2> QED
    BY <2>1, <2>2 DEF Addressed
<1>12. Resolved'
  BY <1>1, <1>2 DEF Resolved
<1>13. Aimed'
  <2>1. ASSUME NEW i \in DOMAIN asked PROVE Aims(i)' => Aims(i) /\ asked'[i] = asked[i]
    BY <1>2 DEF Aims
  <2>2. ASSUME NEW k \in DOMAIN toServer, Aims(toServer[k].id)' PROVE toServer[k].id \in DOMAIN asked
    <3>1. toServer[k].id \in Requests
      BY <1>1, <1>3, <2>2 DEF Aims
    <3> QED
      BY <3>1 DEF Apart, InLines
  <2>3. \A l \in orphans : l.id \in DOMAIN asked
    BY DEF Apart
  <2> QED
    BY <1>1, <2>1, <2>2, <2>3 DEF Aimed
<1>14. OwnAnswer'
  BY <1>1, <1>5 DEF OwnAnswer
<1>15. ChannelsRightUnlessMixed'
  <2> SUFFICES ASSUME \A i \in Requests : told'[i].kind = "ok" =>
                          ~told'[i].late /\ i \in DOMAIN asked' /\ asked'[i].override
               PROVE  ChannelsRight'
    BY DEF ChannelsRightUnlessMixed
  <2>1. ASSUME NEW i \in Requests, told[i].kind = "ok"
        PROVE  ~told[i].late /\ i \in DOMAIN asked /\ asked[i].override
    <3>1. told'[i] = told[i]
      BY <1>2, <2>1 DEF Waiting
    <3> QED
      BY <1>5, <2>1, <3>1
  <2>2. ChannelsRight
    BY <2>1 DEF ChannelsRightUnlessMixed
  <2> QED
    BY <1>1, <2>2 DEF ChannelsRight, Right
<1>16. KnownNameRoutes'
  <2> SUFFICES ASSUME NEW i \in DOMAIN asked', asked'[i].override, asked'[i].known,
                      RigIds[asked'[i].name] /= Wildcard, NEW k \in DOMAIN ran[i]
               PROVE  ran[i][k] = RigIds[asked'[i].name]
    BY <1>1 DEF KnownNameRoutes
  <2>1. DOMAIN <<>> = {}
    BY EmptySeq
  <2>2. i \in DOMAIN asked
    BY <1>3, <1>4, <2>1
  <2> QED
    BY <1>2, <2>2 DEF KnownNameRoutes
<1> QED
  BY <1>6, <1>8, <1>9, <1>10, <1>11, <1>12, <1>13, <1>14, <1>15, <1>16

LEMMA SubmitKeeps ==
    ASSUME Types, Others, NEW n \in Names \cup {Elsewhere}, NEW override \in BOOLEAN, Submit(n, override)
    PROVE  Types' /\ Others'
<1> USE DEF Types, Others
<1> DEFINE entry == [name |-> n, override |-> override, known |-> override /\ resolved[n] /= NoRig]
           new   == Len(asked) + 1
           Entry == [name : Names \cup {Elsewhere}, override : BOOLEAN, known : BOOLEAN]
<1>1. /\ Len(asked) < MaxRequests /\ (override => n \in Names)
      /\ n \in (IF override THEN Names ELSE Selectable \cup {selected})
      /\ selected' = (IF override THEN selected ELSE n)
      /\ asked' = Append(asked, entry) /\ backlog' = Append(backlog, Len(asked'))
      /\ UNCHANGED <<link, toServer, toClient, at, streak, late, doing, resolved, chan, global, open, served,
                     orphans, ran, told>>
  BY DEF Submit, wire, client, server
<1>2. entry \in Entry
  OBVIOUS
<1> HIDE DEF entry
<1>3. /\ asked' \in Seq(Entry) /\ Len(asked') = new /\ DOMAIN asked' = DOMAIN asked \cup {new}
      /\ new \notin DOMAIN asked /\ asked'[new] = entry /\ \A i \in DOMAIN asked : asked'[i] = asked[i]
  <2>1. asked \in Seq(Entry)
    BY DEF AskedOK
  <2> HIDE DEF Entry
  <2> QED
    BY <1>1, <1>2, <2>1, AppendAt
<1>4. new \in Requests /\ new \notin ToSet(backlog)
  <2>1. Len(asked) \in Nat /\ DOMAIN asked = 1..Len(asked) /\ MaxRequests \in Nat
    BY Numbers
  <2> QED
    BY <1>1, <1>3, <2>1 DEF Requests, AskedOK
<1>5. backlog' \in Seq(Requests) /\ ToSet(backlog') = ToSet(backlog) \cup {new} /\ IsInjective(backlog')
  <2>1. backlog' = Append(backlog, new)
    BY <1>1, <1>3
  <2> HIDE DEF new
  <2> QED
    BY <1>4, <2>1, AppendSet DEF AskedOK
<1>6. AskedOK'
  <2>1. \A i \in DOMAIN asked' : asked'[i].override => asked'[i].name \in Names
    BY <1>1, <1>3 DEF AskedOK, entry
  <2>2. Len(asked') <= MaxRequests
    BY <1>3, <1>4 DEF Requests
  <2> QED
    BY <1>3, <1>5, <2>1, <2>2 DEF AskedOK
<1>7. selected' \in Names \cup {Elsewhere}
  BY <1>1 DEF ViewsOK
<1>8. ToldOK'
  BY <1>1 DEF ToldOK
<1>9. asked'[new].known => asked'[new].override /\ resolved[asked'[new].name] /= NoRig
  BY <1>3 DEF entry
<1> HIDE DEF new
<1>10. Outside
  BY <1>1, <1>3, <1>5, <1>6, <1>7, <1>8, <1>9 DEF Outside, ServerOK
<1> QED
  BY <1>10, OutsideKeeps

\* The selection changes, or a rig is opened, or nothing happens.
LEMMA QuietKeeps ==
    ASSUME Types, Others, (\E n \in Selectable : Select(n)) \/ (\E r \in Rigs : RigOpens(r)) \/ UNCHANGED vars
    PROVE  Types' /\ Others'
<1> USE DEF Types, Others
<1>1. /\ selected' \in Names \cup {Elsewhere} /\ open' \subseteq Rigs
      /\ UNCHANGED <<link, toServer, toClient, at, streak, late, doing, backlog, resolved, chan, served,
                     orphans, ran, asked, told>>
  <2>1. CASE \E n \in Selectable : Select(n)
    BY <2>1 DEF Select, wire, client, server, ServerOK
  <2>2. CASE \E r \in Rigs : RigOpens(r)
    BY <2>2 DEF RigOpens, wire, client, views, ServerOK, ViewsOK
  <2>3. CASE UNCHANGED vars
    BY <2>3 DEF vars, wire, client, views, server, ServerOK, ViewsOK
  <2> QED
    BY <2>1, <2>2, <2>3
<1>2. AskedOK' /\ ToldOK'
  BY <1>1 DEF AskedOK, ToldOK
<1>3. Outside
  BY <1>1, <1>2 DEF Outside
<1> QED
  BY <1>3, OutsideKeeps

LEMMA ElsewhereKeeps ==
    ASSUME Types, Others, NEW k \in DOMAIN backlog, RoutedElsewhere(k)
    PROVE  Types' /\ Others'
<1> USE DEF Types, Others
<1> DEFINE i == backlog[k]
<1>1. /\ backlog' = RemoveAt(backlog, k) /\ told' = [told EXCEPT ![i].kind = "elsewhere"]
      /\ UNCHANGED <<link, toServer, toClient, at, streak, late, doing, selected, resolved, chan, open, served,
                     orphans, ran, asked>>
  BY DEF RoutedElsewhere, wire, client, views, server
<1>2. /\ backlog' \in Seq(Requests) /\ i \in Requests /\ ToSet(backlog') = ToSet(backlog) \ {i}
      /\ IsInjective(backlog') /\ i \in ToSet(backlog)
  <2>1. backlog \in Seq(Requests) /\ IsInjective(backlog)
    BY DEF AskedOK
  <2>2. i \in ToSet(backlog)
    BY DEF ToSet
  <2> QED
    BY <1>1, <2>1, <2>2, RemoveAtSet
<1> HIDE DEF i
<1>3. ToldOK' /\ told'[i].kind = "elsewhere" /\ \A x \in Requests \ {i} : told'[x] = told[x]
  BY <1>1, <1>2 DEF ToldOK
<1>4. AskedOK'
  BY <1>1, <1>2 DEF AskedOK
<1>5. Outside
  BY <1>1, <1>2, <1>3, <1>4 DEF Outside, ViewsOK, ServerOK
<1> QED
  BY <1>5, OutsideKeeps

LEMMA ShutdownKeeps == ASSUME Types, Others, Shutdown PROVE Types' /\ Others'
<1> USE DEF Types, Others
<1>1. /\ at \in {"idle", "down"} /\ at' = "stopped" /\ link' = "down" /\ toServer' = <<>> /\ toClient' = <<>>
      /\ orphans' = orphans \cup Left(toServer) /\ backlog' = <<>>
      /\ told' = [i \in Requests |-> IF i \in ToSet(backlog) THEN [told[i] EXCEPT !.kind = "dropped"]
                                     ELSE told[i]]
      /\ UNCHANGED <<streak, late, doing, selected, resolved, chan, open, served, ran, asked>>
  BY DEF Shutdown, views
<1>2. doing = Poll
  BY <1>1 DEF ClientOK
<1>3. Stretch(<<>>, toClient) /\ <<>> \in Seq(Requests) /\ Len(<<>>) = 0 /\ DOMAIN <<>> = {}
  BY Stretches, EmptySeq DEF WireOK
<1>4. Fewer
  BY <1>1, <1>3 DEF Fewer
<1>5. /\ WireOK' /\ orphans' \subseteq ServerLine /\ Apart' /\ Answers' /\ Aimed' /\ LineAges' /\ ChannelAges'
  BY <1>1, <1>4, FewerKeeps
<1>6. ToldOK'
  BY <1>1 DEF ToldOK
<1>7. ToSet(<<>>) = {} /\ IsInjective(<<>>)
  BY <1>3 DEF ToSet, IsInjective
<1>8. AskedOK'
  BY <1>1, <1>3, <1>7 DEF AskedOK
<1>9. \A i \in Requests : told'[i].kind = "ok" => told'[i] = told[i]
  BY <1>1 DEF ToldOK
<1>10. Types'
  <2>1. ClientOK' /\ Alone'
    BY <1>1, <1>2, <1>3 DEF ClientOK, Alone
  <2>2. ViewsOK' /\ ServerOK'
    BY <1>1, <1>5 DEF ViewsOK, ServerOK, ServerLine
  <2> QED
    BY <1>5, <1>6, <1>8, <2>1, <2>2
<1>11. Control' /\ Addressed'
  BY <1>1, <1>3 DEF Control, Addressed
<1>12. Waiting'
  <2>1. \A i \in Requests \ DOMAIN asked : told'[i].kind = "none"
    BY <1>1 DEF Waiting, AskedOK
  <2> QED
    BY <1>1, <1>2, <1>7, <2>1 DEF Waiting
<1>13. Resolved' /\ KnownNameRoutes'
  BY <1>1 DEF Resolved, KnownNameRoutes
<1>14. OwnAnswer'
  BY <1>1, <1>9 DEF OwnAnswer
<1>15. ChannelsRightUnlessMixed'
  <2> SUFFICES ASSUME \A i \in Requests : told'[i].kind = "ok" =>
                          ~told'[i].late /\ i \in DOMAIN asked /\ asked[i].override
               PROVE  ChannelsRight'
    BY <1>1 DEF ChannelsRightUnlessMixed
  <2>1. \A i \in Requests : told[i].kind = "ok" => told'[i] = told[i]
    BY <1>1 DEF Waiting
  <2>2. ChannelsRight
    BY <2>1 DEF ChannelsRightUnlessMixed
  <2> QED
    BY <1>1, <2>2 DEF ChannelsRight, Right
<1> QED
  BY <1>5, <1>10, <1>11, <1>12, <1>13, <1>14, <1>15

(***************************************************************************)
(* The invariant.                                                          *)
(***************************************************************************)
LEMMA StartsSo == Init => LinkInd
<1> SUFFICES ASSUME Init PROVE Types /\ Others
  BY BothParts
<1> USE DEF Init
<1>1. DOMAIN <<>> = {} /\ Len(<<>>) = 0 /\ \A S : <<>> \in Seq(S)
  BY EmptySeq
<1>2. ToSet(<<>>) = {} /\ IsInjective(<<>>) /\ Range(<<>>) = {}
  BY <1>1 DEF ToSet, IsInjective, Range
<1>3. DOMAIN NoSnapshot = {}
  BY DEF NoSnapshot
<1>4. WireOK /\ Alone
  BY <1>1 DEF WireOK, Alone
<1>5. ClientOK
  <2>1. 0 \in 0..(MaxConsecutivePollFailures - 1)
    BY DEF MaxConsecutivePollFailures
  <2> QED
    BY <2>1 DEF ClientOK
<1>6. AskedOK /\ ToldOK
  BY <1>1, <1>2 DEF AskedOK, ToldOK
<1>7. ViewsOK
  BY <1>3 DEF ViewsOK
<1>8. ServerOK
  BY <1>1 DEF ServerOK
<1>9. Control /\ Answers /\ Addressed /\ LineAges
  BY <1>1 DEF Control, Answers, Addressed, LineAges
<1>10. Apart
  BY <1>1 DEF Apart, InLines
<1>11. Waiting
  BY <1>1, <1>2 DEF Waiting
<1>12. Resolved /\ Aimed /\ KnownNameRoutes
  BY <1>1 DEF Resolved, Aimed, KnownNameRoutes
<1>13. ChannelAges
  BY <1>3 DEF ChannelAges
<1>14. OwnAnswer /\ ChannelsRightUnlessMixed
  BY DEF OwnAnswer, ChannelsRightUnlessMixed, ChannelsRight, Right
<1> QED
  BY <1>4, <1>5, <1>6, <1>7, <1>8, <1>9, <1>10, <1>11, <1>12, <1>13, <1>14 DEF Types, Others

LEMMA StaysSo == LinkInd /\ [Next]_vars => LinkInd'
<1> SUFFICES ASSUME LinkInd, [Next]_vars PROVE LinkInd'
  OBVIOUS
<1> SUFFICES Types' /\ Others'
  BY BothParts
<1>1. Types /\ Others
  BY BothParts
<1>2. CASE Frontends
  <2>1. CASE \E n \in Names \cup {Elsewhere}, override \in BOOLEAN : Submit(n, override)
    BY <1>1, <2>1, SubmitKeeps
  <2>2. CASE \E n \in Selectable : Select(n)
    BY <1>1, <2>2, QuietKeeps
  <2>3. CASE \E k \in DOMAIN backlog : RoutedElsewhere(k)
    BY <1>1, <2>3, ElsewhereKeeps
  <2> QED
    BY <1>2, <2>1, <2>2, <2>3 DEF Frontends
<1>3. CASE Client
  <2>1. CASE Connect \/ PollTick
    BY <1>1, <2>1, PollsSend
  <2>2. CASE TakeCommand
    BY <1>1, <2>2, TakeKeeps
  <2>3. CASE PollEnds
    BY <1>1, <2>3, RefreshesKeep, PollsKeep DEF PollEnds
  <2>4. CASE CommandEnds
    BY <1>1, <2>4, SucceedsKeeps, CommandsFail DEF CommandEnds
  <2> QED
    BY <1>3, <2>1, <2>2, <2>3, <2>4 DEF Client
<1>4. CASE Shutdown
  BY <1>1, <1>4, ShutdownKeeps
<1>5. CASE Server
  <2>1. CASE Serve
    BY <1>1, <2>1, ServeKeeps
  <2>2. CASE LinkBreaks \/ ServerRestarts
    BY <1>1, <2>2, BreakKeeps
  <2>3. CASE \E l \in orphans : RunOrphan(l)
    BY <1>1, <2>3, OrphanKeeps
  <2>4. CASE \E r \in Rigs : RigOpens(r)
    BY <1>1, <2>4, QuietKeeps
  <2> QED
    BY <1>5, <2>1, <2>2, <2>3, <2>4 DEF Server
<1>6. CASE UNCHANGED vars
  BY <1>1, <1>6, QuietKeeps
<1> QED
  BY <1>2, <1>3, <1>4, <1>5, <1>6 DEF Next

\* Whatever is lost, late or restarted, the lines on the wire, the requests the rigs
\* hold and the client's own state agree.
THEOREM LinkInductive == Spec => []LinkInd
BY StartsSo, StaysSo, PTL DEF Spec

\* The client and the server agree on what is under way: no request runs twice, a
\* frontend that is told ok on a connection without a late answer is told of its own
\* request, a name's channel shows the rig its commands go to unless late or selected
\* answers were mixed in, and a request for a known name runs on the configured rig.
THEOREM LinkHolds == Spec => []LinkInv
<1>1. LinkInd => LinkInv
  <2> SUFFICES ASSUME LinkInd PROVE LinkInv
    OBVIOUS
  <2>1. AtMostOnce
    BY DEF LinkInd, Apart, AtMostOnce
  <2> QED
    BY <2>1 DEF LinkInd, LinkInv
<1> QED
  BY <1>1, LinkInductive, PTL

(***************************************************************************)
(* The channels never go back in time.                                     *)
(***************************************************************************)
Forward(n) == DOMAIN chan'[n] = DOMAIN chan[n] => \A r \in DOMAIN chan[n] : chan'[n][r] >= chan[n][r]

\* Only a listing and the answer of a command reach a channel.
LEMMA OtherSteps ==
    ASSUME [Next]_vars, ~PollRefreshes, ~CommandSucceeds
    PROVE  chan' = chan
<1>1. CASE Frontends
  BY <1>1 DEF Frontends, Submit, Select, RoutedElsewhere, views
<1>2. CASE Client
  BY <1>2 DEF Client, Connect, PollTick, TakeCommand, PollEnds, PollRejects, PollLost, PollTimesOut,
              CommandEnds, CommandFails, CommandLost, CommandTimesOut, views
<1>3. CASE Shutdown
  BY <1>3 DEF Shutdown, views
<1>4. CASE Server
  BY <1>4 DEF Server, Serve, ServeListing, ServeCommand, ServeRefusal, ServeTimeout, LinkBreaks,
              ServerRestarts, RunOrphan, RigOpens, views
<1>5. CASE UNCHANGED vars
  BY <1>5 DEF vars, views
<1> QED
  BY <1>1, <1>2, <1>3, <1>4, <1>5 DEF Next

LEMMA GoesForward ==
    ASSUME LinkInd, [Next]_vars, NEW n \in Names
    PROVE  Forward(n)
<1> SUFFICES ASSUME DOMAIN chan'[n] = DOMAIN chan[n], NEW r \in DOMAIN chan[n]
             PROVE  chan'[n][r] >= chan[n][r]
  BY DEF Forward
<1> DEFINE snaps == Head(toClient).snaps
<1>1. Types /\ Others
  BY BothParts
<1>2. chan[n][r] \in Nat
  BY <1>1 DEF Types, ViewsOK
<1>3. ASSUME toClient # <<>>, r \in DOMAIN snaps PROVE snaps[r] \in Nat /\ chan[n][r] <= snaps[r]
  <2>1. 1 \in DOMAIN toClient /\ Head(toClient) = toClient[1]
    BY <1>1, <1>3, Stretches DEF Types, WireOK
  <2> QED
    BY <1>1, <1>3, <2>1 DEF Types, WireOK, LineOK, Others, ChannelAges
<1>4. CASE PollRefreshes
  <2>1. toClient # <<>> /\ Refresh(snaps)
    BY <1>4 DEF PollRefreshes
  <2> HIDE DEF snaps
  <2>2. PICK got \in [Names -> Rigs \cup {NoRig}] :
            /\ \A m \in Names : IF Candidates(m, DOMAIN snaps) = {} THEN got[m] = NoRig
                                ELSE got[m] \in Candidates(m, DOMAIN snaps)
            /\ chan' = [m \in Names |-> IF got[m] = NoRig THEN NoSnapshot ELSE Only(got[m], snaps)]
    BY <2>1 DEF Refresh
  <2>3. chan'[n] = Only(got[n], snaps) /\ got[n] # NoRig
    <3>1. DOMAIN NoSnapshot = {}
      BY DEF NoSnapshot
    <3> QED
      BY <2>2, <3>1
  <2>4. got[n] \in DOMAIN snaps
    BY <2>2, <2>3 DEF Candidates
  <2>5. r = got[n] /\ chan'[n][r] = snaps[r]
    BY <2>3 DEF Only
  <2> QED
    BY <1>2, <1>3, <2>1, <2>4, <2>5
<1>5. CASE CommandSucceeds
  <2>1. /\ toClient # <<>>
        /\ chan'[n] = (IF n = NameOf(doing) /\ chan[n] /= NoSnapshot THEN snaps ELSE chan[n])
    BY <1>5 DEF CommandSucceeds
  <2> QED
    BY <1>2, <1>3, <2>1
<1>6. CASE ~PollRefreshes /\ ~CommandSucceeds
  BY <1>2, <1>6, OtherSteps
<1> QED
  BY <1>4, <1>5, <1>6

\* A channel that goes on showing the same rig never shows an older state of it, not
\* after an answer that was read late and not over a reconnect.
THEOREM NeverGoesBack == Spec => NeverBackInTime
<1>1. LinkInd /\ [Next]_vars =>
          [\A n \in Names : DOMAIN chan'[n] = DOMAIN chan[n] =>
              \A r \in DOMAIN chan[n] : chan'[n][r] >= chan[n][r]]_vars
  BY GoesForward DEF Forward
<1> QED
  BY <1>1, LinkInductive, PTL DEF Spec, NeverBackInTime

HIDE LinkAssumption DEF LinkAssumption

(***************************************************************************)
(* The histories of the client.  What leaves a history leaves it from the  *)
(* front, too old for the rig that is selected, and that rig is among      *)
(* those selected since every message was collected.                       *)
(***************************************************************************)
Taken == {feed[i] : i \in 1..collected}

\* A history: its messages are of its kind; those it has of the collector are in order.
Row(k, entries, known, taken) ==
    /\ entries \in Seq(HeldEntry)
    /\ \A i \in DOMAIN entries :
          /\ entries[i].n \in 1..Len(known) /\ known[entries[i].n].kind = k
          /\ entries[i].of # Anyone => entries[i].n \in taken
    /\ \A i, j \in DOMAIN entries :
          i < j /\ entries[i].of # Anyone /\ entries[j].of # Anyone => entries[i].n < entries[j].n

CollectorTyped ==
    /\ age \in 0..MaxAge /\ picked \in Stations
    /\ decoded \in Seq(Message) /\ Len(decoded) <= MaxDecodes
    /\ linked \in [Stations -> BOOLEAN] /\ links \in 0..MaxLinks
    /\ replay \in [Stations -> SUBSET (1..Len(decoded))] /\ wiped \subseteq 1..MaxDecodes

Fed ==
    /\ feed \in Seq(1..Len(decoded)) /\ Len(feed) <= Len(decoded) /\ collected \in 0..Len(feed)
    /\ \A i, j \in 1..Len(feed) : i < j => feed[i] < feed[j]

Filed ==
    /\ held \in [DecodeKinds -> Seq(HeldEntry)] /\ Len(held["wefax"]) <= WefaxKept
    /\ \A k \in DecodeKinds : Row(k, held[k], decoded, Taken)

\* A message that was collected: since when, and where it is.
InPlace(n) ==
    /\ stored[n].at \in 0..MaxAge /\ picked \in stored[n].under
    /\ \/ MayBeGone(n)
       \/ \E j \in DOMAIN held[decoded[n].kind] :
             /\ held[decoded[n].kind][j].n = n
             /\ decoded[n].kind # "wefax" => held[decoded[n].kind][j].at = stored[n].at

SinceCollected ==
    /\ stored \in [1..MaxDecodes -> [at : -1..MaxAge, under : SUBSET Stations]]
    /\ \A n \in Taken : InPlace(n)

\* What a page was answered: every message collected by then, or why not.
Answered(n) ==
    \/ n \in page.history \/ MayBeGone(n)
    \/ decoded[n].kind = "ais" /\ \E m \in page.history :
           decoded[m].kind = "ais" /\ decoded[m].ship = decoded[n].ship

PageShown ==
    /\ page \in [stream : -1..MaxDecodes, history : SUBSET (1..MaxDecodes), upto : -1..MaxDecodes]
    /\ page.history \subseteq 1..Len(decoded) /\ page.upto <= collected
    /\ \A i \in 1..page.upto : Answered(feed[i])

CollectorInd == CollectorTyped /\ Fed /\ Filed /\ SinceCollected /\ PageShown

\* What every step leaves as it was of the messages that are there.
Grown ==
    /\ Len(decoded') \in Nat /\ Len(decoded) <= Len(decoded')
    /\ \A n \in 1..Len(decoded) : decoded'[n] = decoded[n]
    /\ Len(feed') \in Nat /\ Len(feed) <= Len(feed') /\ \A i \in 1..Len(feed) : feed'[i] = feed[i]
    /\ collected' \in Nat /\ collected <= collected' /\ age <= age' /\ age' \in Nat /\ wiped \subseteq wiped'

\* What it does of a message that was collected.
Marked(n) ==
    /\ stored'[n].at = stored[n].at /\ stored[n].under \subseteq stored'[n].under
    /\ picked' \in stored'[n].under

-----------------------------------------------------------------------------
LEMMA TakenKnown ==
    ASSUME CollectorTyped, Fed
    PROVE  /\ Taken \subseteq 1..Len(decoded) /\ 1..Len(decoded) \subseteq 1..MaxDecodes
           /\ Len(decoded) \in Nat /\ Len(feed) \in Nat /\ collected \in Nat
<1>1. Len(decoded) \in Nat /\ Len(feed) \in Nat /\ DOMAIN feed = 1..Len(feed)
      /\ \A i \in 1..Len(feed) : feed[i] \in 1..Len(decoded)
  BY LenProperties DEF CollectorTyped, Fed
<1>2. collected \in Nat /\ collected <= Len(feed)
  BY <1>1 DEF Fed
<1>3. Taken \subseteq 1..Len(decoded)
  BY <1>1, <1>2 DEF Taken
<1>4. MaxDecodes \in Nat
  BY ClientHistoryAssumption DEF ClientHistoryAssumption
<1> QED
  BY <1>1, <1>2, <1>3, <1>4 DEF CollectorTyped

LEMMA GoneStays ==
    ASSUME CollectorTyped, SinceCollected, Grown, NEW n \in 1..Len(decoded), 1..Len(decoded) \subseteq 1..MaxDecodes,
           stored'[n].at = stored[n].at, stored[n].under \subseteq stored'[n].under, MayBeGone(n)
    PROVE  MayBeGone(n)'
<1>1. decoded'[n] = decoded[n] /\ wiped \subseteq wiped' /\ age <= age' /\ age' \in Nat /\ age \in Nat
  BY ClientHistoryAssumption DEF Grown, CollectorTyped, ClientHistoryAssumption
<1>2. CASE n \in wiped
  BY <1>1, <1>2 DEF MayBeGone
<1>3. CASE decoded[n].kind # "wefax" /\ \E s \in stored[n].under : age - stored[n].at > Keeps[s]
  <2>1. PICK s \in stored[n].under : age - stored[n].at > Keeps[s]
    BY <1>3
  <2>2. stored[n].at \in Int /\ s \in Stations /\ Keeps[s] \in Nat
    BY ClientHistoryAssumption DEF SinceCollected, ClientHistoryAssumption
  <2>3. age' - stored'[n].at > Keeps[s]
    BY <1>1, <2>1, <2>2
  <2> QED
    BY <1>1, <1>3, <2>1, <2>3 DEF MayBeGone
<1> QED
  BY <1>2, <1>3 DEF MayBeGone

\* A message stays in place: its entry is there, was wiped, or is too old for the rig.
LEMMA StaysInPlace ==
    ASSUME CollectorTyped, Fed, Filed, SinceCollected, Grown, NEW n \in Taken, Marked(n),
           \A j \in DOMAIN held[decoded[n].kind] :
              LET e == held[decoded[n].kind][j] IN
              e.n = n => \/ \E i \in DOMAIN held'[decoded[n].kind] : held'[decoded[n].kind][i] = e
                         \/ n \in wiped'
                         \/ decoded[n].kind = "wefax"
                            /\ \E i \in DOMAIN held'[decoded[n].kind] : held'[decoded[n].kind][i].n = n
                         \/ decoded[n].kind # "wefax" /\ Expired(e)
    PROVE  InPlace(n)'
<1>1. n \in 1..Len(decoded) /\ 1..Len(decoded) \subseteq 1..MaxDecodes /\ decoded'[n] = decoded[n]
  BY TakenKnown DEF Grown
<1>2. stored'[n].at \in 0..MaxAge /\ picked' \in stored'[n].under
  BY DEF SinceCollected, InPlace, Marked
<1>3. CASE MayBeGone(n)
  BY <1>1, <1>2, <1>3, GoneStays DEF InPlace, Marked
<1>4. CASE ~MayBeGone(n)
  <2> DEFINE k == decoded[n].kind
  <2>1. PICK j \in DOMAIN held[k] : held[k][j].n = n /\ (k # "wefax" => held[k][j].at = stored[n].at)
    BY <1>4 DEF SinceCollected, InPlace
  <2>2. CASE \E i \in DOMAIN held'[k] : held'[k][i] = held[k][j]
    BY <1>1, <1>2, <2>1, <2>2 DEF InPlace, Marked
  <2>3. CASE n \in wiped'
    BY <1>2, <2>3 DEF InPlace, MayBeGone
  <2>4. CASE k = "wefax" /\ \E i \in DOMAIN held'[k] : held'[k][i].n = n
    BY <1>1, <1>2, <2>4 DEF InPlace
  <2>5. CASE k # "wefax" /\ Expired(held[k][j])
    <3>1. age - stored[n].at > Keeps[picked] /\ picked \in stored[n].under
      BY <2>1, <2>5 DEF Expired, SinceCollected, InPlace
    <3>2. MayBeGone(n)
      BY <2>5, <3>1 DEF MayBeGone
    <3> QED
      BY <1>4, <3>2
  <2> QED
    BY <2>1, <2>2, <2>3, <2>4, <2>5
<1> QED
  BY <1>3, <1>4

\* What a page was answered stays an answer.
LEMMA AnswerStays ==
    ASSUME CollectorTyped, Fed, SinceCollected, PageShown, Grown, \A n \in Taken : Marked(n),
           page'.history = page.history, page'.upto = page.upto
    PROVE  /\ page'.history \subseteq 1..Len(decoded') /\ page'.upto <= collected'
           /\ \A i \in 1..page'.upto : Answered(feed[i])' /\ feed'[i] = feed[i]
<1>1. /\ Taken \subseteq 1..Len(decoded) /\ 1..Len(decoded) \subseteq 1..MaxDecodes
      /\ Len(decoded) \in Nat /\ Len(feed) \in Nat /\ collected \in Nat
  BY TakenKnown
<1>2. page.upto \in Int /\ page.upto <= collected /\ collected <= Len(feed) /\ collected' \in Int
  BY <1>1 DEF PageShown, Fed, Grown
<1>3. page'.history \subseteq 1..Len(decoded') /\ page'.upto <= collected'
  BY <1>1, <1>2 DEF PageShown, Grown
<1>4. ASSUME NEW i \in 1..page'.upto PROVE Answered(feed[i])' /\ feed'[i] = feed[i]
  <2>1. i \in 1..page.upto /\ i \in 1..collected /\ i \in 1..Len(feed)
    BY <1>1, <1>2, <1>4
  <2>2. feed[i] \in Taken /\ feed'[i] = feed[i]
    BY <2>1 DEF Taken, Grown
  <2> DEFINE n == feed[i]
  <2>3. n \in 1..Len(decoded) /\ decoded'[n] = decoded[n] /\ Marked(n)
    BY <1>1, <2>2 DEF Grown
  <2>4. MayBeGone(n) => MayBeGone(n)'
    BY <1>1, <2>2, <2>3, GoneStays DEF Marked
  <2>5. \A m \in page.history : decoded'[m] = decoded[m]
    BY DEF PageShown, Grown
  <2>6. Answered(n)
    BY <2>1 DEF PageShown
  <2>7. CASE n \in page.history
    BY <2>2, <2>7 DEF Answered
  <2>8. CASE MayBeGone(n)
    BY <2>2, <2>4, <2>8 DEF Answered
  <2>9. CASE decoded[n].kind = "ais" /\ \E m \in page.history :
                decoded[m].kind = "ais" /\ decoded[m].ship = decoded[n].ship
    BY <2>2, <2>3, <2>5, <2>9 DEF Answered
  <2> QED
    BY <2>2, <2>6, <2>7, <2>8, <2>9 DEF Answered
<1> QED
  BY <1>3, <1>4

-----------------------------------------------------------------------------
(* What is cut off at the front of a history.                               *)
Cut(rest, entries, d) ==
    /\ d \in 0..Len(entries) /\ rest \in Seq(HeldEntry) /\ Len(rest) = Len(entries) - d
    /\ \A i \in 1..Len(rest) : rest[i] = entries[i + d]

LEMMA Cuts ==
    ASSUME NEW entries \in Seq(HeldEntry), NEW d \in 0..Len(entries)
    PROVE  Cut(SubSeq(entries, d + 1, Len(entries)), entries, d)
<1>1. Len(entries) \in Nat /\ \A i \in 1..Len(entries) : entries[i] \in HeldEntry
  BY LenProperties
<1>2. \A i \in (d + 1)..Len(entries) : entries[i] \in HeldEntry
  BY <1>1
<1> DEFINE rest == SubSeq(entries, d + 1, Len(entries))
<1>3. /\ rest \in Seq(HeldEntry) /\ Len(rest) = IF d + 1 <= Len(entries) THEN Len(entries) - (d + 1) + 1 ELSE 0
      /\ \A i \in 1..Len(entries) - (d + 1) + 1 : rest[i] = entries[d + 1 + i - 1]
  BY <1>1, <1>2, SubSeqProperties
<1> HIDE DEF rest
<1>4. Len(rest) = Len(entries) - d
  BY <1>1, <1>3
<1>5. \A i \in 1..Len(rest) : rest[i] = entries[i + d]
  <2> SUFFICES ASSUME NEW i \in 1..Len(rest) PROVE rest[i] = entries[i + d]
    OBVIOUS
  <2>1. i \in 1..Len(entries) - (d + 1) + 1 /\ d + 1 + i - 1 = i + d
    BY <1>1, <1>4
  <2> QED
    BY <1>3, <2>1
<1> QED
  BY <1>3, <1>4, <1>5 DEF Cut, rest

\* What is pruned from a history is too old.
LEMMA PrunedCut ==
    ASSUME NEW entries \in Seq(HeldEntry)
    PROVE  \E d \in 0..Len(entries) : /\ Cut(Pruned(entries), entries, d)
                                      /\ \A i \in 1..d : Expired(entries[i])
<1> DEFINE S == {i \in DOMAIN entries : ~Expired(entries[i])}
<1>1. Len(entries) \in Nat /\ DOMAIN entries = 1..Len(entries)
  BY LenProperties
<1>2. CASE S = {}
  <2>1. Pruned(entries) = <<>> /\ \A i \in 1..Len(entries) : Expired(entries[i])
    BY <1>1, <1>2 DEF Pruned
  <2>2. Cut(<<>>, entries, Len(entries))
    BY <1>1, EmptySeq DEF Cut
  <2> QED
    BY <1>1, <2>1, <2>2
<1>3. CASE S # {}
  <2>1. S \in SUBSET Nat
    BY <1>1
  <2>2. \E m \in S : \A i \in S : m <= i
    BY <1>3, <2>1, Least
  <2> HIDE DEF S
  <2>3. Min(S) \in S /\ \A i \in S : Min(S) <= i
    BY <2>2 DEF Min
  <2> DEFINE d == Min(S) - 1
  <2>4. Min(S) \in 1..Len(entries)
    BY <1>1, <2>3 DEF S
  <2>5. d \in 0..Len(entries) /\ d + 1 = Min(S)
    BY <1>1, <2>4
  <2>6. \A i \in 1..d : i \in DOMAIN entries /\ ~(Min(S) <= i)
    BY <1>1, <2>4
  <2>7. \A i \in 1..d : Expired(entries[i])
    BY <2>3, <2>6 DEF S
  <2>8. Pruned(entries) = SubSeq(entries, d + 1, Len(entries))
    BY <1>3, <2>5 DEF Pruned, S
  <2> QED
    BY <2>5, <2>7, <2>8, Cuts
<1> QED
  BY <1>2, <1>3

\* Of the images the last ones are kept.
LEMMA CountedCut ==
    ASSUME NEW entries \in Seq(HeldEntry)
    PROVE  \E d \in 0..Len(entries) :
              /\ Cut(Kept("wefax", entries), entries, d)
              /\ Len(Kept("wefax", entries)) <= WefaxKept
              /\ Len(entries) > 0 => d < Len(entries)
<1>1. Len(entries) \in Nat /\ WefaxKept \in Nat /\ WefaxKept > 0
  BY LenProperties, ClientHistoryAssumption DEF ClientHistoryAssumption
<1> DEFINE over == Len(entries) - WefaxKept
           d == IF over > 0 THEN over ELSE 0
<1>2. Max({0, over}) = d
  <2>1. d \in {0, over} /\ \A y \in {0, over} : d >= y
    BY <1>1
  <2>2. \A x \in {0, over} : (\A y \in {0, over} : x >= y) => x = d
    BY <1>1
  <2> HIDE DEF d, over
  <2> QED
    BY <2>1, <2>2 DEF Max
<1>3. d \in 0..Len(entries) /\ Len(entries) - d <= WefaxKept /\ (Len(entries) > 0 => d < Len(entries))
  BY <1>1
<1>4. Kept("wefax", entries) = SubSeq(entries, 1 + d, Len(entries))
  BY <1>2 DEF Kept
<1> HIDE DEF d
<1>5. 1 + d = d + 1
  BY <1>3
<1>6. Cut(Kept("wefax", entries), entries, d)
  BY <1>3, <1>4, <1>5, Cuts
<1> QED
  BY <1>3, <1>6 DEF Cut

LEMMA CutRow ==
    ASSUME NEW k, NEW entries, NEW known, NEW taken, Row(k, entries, known, taken),
           NEW rest, NEW d, Cut(rest, entries, d)
    PROVE  /\ Row(k, rest, known, taken) /\ Len(rest) <= Len(entries)
           /\ \A j \in DOMAIN entries : j <= d \/ \E i \in DOMAIN rest : rest[i] = entries[j]
           /\ \A i \in DOMAIN rest : i + d \in DOMAIN entries /\ rest[i] = entries[i + d]
<1>1. /\ entries \in Seq(HeldEntry) /\ Len(entries) \in Nat /\ DOMAIN entries = 1..Len(entries)
      /\ rest \in Seq(HeldEntry) /\ Len(rest) \in Nat /\ DOMAIN rest = 1..Len(rest)
      /\ d \in 0..Len(entries) /\ Len(rest) = Len(entries) - d
  BY LenProperties DEF Row, Cut
<1>2. \A i \in DOMAIN rest : i + d \in DOMAIN entries /\ rest[i] = entries[i + d]
  BY <1>1 DEF Cut
<1>3. ASSUME NEW j \in DOMAIN entries, ~(j <= d) PROVE \E i \in DOMAIN rest : rest[i] = entries[j]
  <2>1. j - d \in DOMAIN rest /\ (j - d) + d = j
    BY <1>1, <1>3
  <2> QED
    BY <1>2, <2>1
<1>4. \A i, j \in DOMAIN rest : i < j => i + d < j + d
  BY <1>1
<1>5. Row(k, rest, known, taken)
  <2>1. ASSUME NEW i \in DOMAIN rest
        PROVE  /\ rest[i].n \in 1..Len(known) /\ known[rest[i].n].kind = k
               /\ rest[i].of # Anyone => rest[i].n \in taken
    BY <1>2 DEF Row
  <2>2. ASSUME NEW i \in DOMAIN rest, NEW j \in DOMAIN rest,
               i < j, rest[i].of # Anyone, rest[j].of # Anyone
        PROVE  rest[i].n < rest[j].n
    BY <1>2, <1>4, <2>2 DEF Row
  <2> QED
    BY <1>1, <2>1, <2>2 DEF Row
<1> QED
  BY <1>1, <1>2, <1>3, <1>5

LEMMA AppendRow ==
    ASSUME NEW k, NEW entries, NEW known, NEW taken, Row(k, entries, known, taken),
           NEW e \in HeldEntry, e.n \in 1..Len(known), known[e.n].kind = k,
           e.of # Anyone => /\ e.n \in taken
                            /\ \A i \in DOMAIN entries : entries[i].of # Anyone => entries[i].n < e.n
    PROVE  /\ Row(k, Append(entries, e), known, taken) /\ Len(Append(entries, e)) = Len(entries) + 1
           /\ DOMAIN Append(entries, e) = 1..(Len(entries) + 1) /\ DOMAIN entries = 1..Len(entries)
           /\ Append(entries, e)[Len(entries) + 1] = e /\ Len(entries) \in Nat
           /\ \A i \in DOMAIN entries : Append(entries, e)[i] = entries[i]
<1> DEFINE app == Append(entries, e)
<1>1. entries \in Seq(HeldEntry) /\ Len(entries) \in Nat /\ DOMAIN entries = 1..Len(entries)
  BY LenProperties DEF Row
<1>2. /\ app \in Seq(HeldEntry) /\ Len(app) = Len(entries) + 1
      /\ DOMAIN app = DOMAIN entries \cup {Len(entries) + 1}
      /\ app[Len(entries) + 1] = e /\ \A i \in DOMAIN entries : app[i] = entries[i]
  BY <1>1, AppendAt
<1> HIDE DEF app
<1>3. ASSUME NEW i \in DOMAIN app
      PROVE  /\ app[i].n \in 1..Len(known) /\ known[app[i].n].kind = k
             /\ app[i].of # Anyone => app[i].n \in taken
  BY <1>2 DEF Row
<1>4. ASSUME NEW i \in DOMAIN app, NEW j \in DOMAIN app,
             i < j, app[i].of # Anyone, app[j].of # Anyone
      PROVE  app[i].n < app[j].n
  <2>1. i \in DOMAIN entries
    BY <1>1, <1>2, <1>4
  <2>2. CASE j \in DOMAIN entries
    BY <1>2, <1>4, <2>1, <2>2 DEF Row
  <2>3. CASE j = Len(entries) + 1
    BY <1>2, <1>4, <2>1, <2>3 DEF Row
  <2> QED
    BY <1>2, <2>2, <2>3
<1>5. Row(k, app, known, taken)
  BY <1>2, <1>3, <1>4 DEF Row
<1> QED
  BY <1>1, <1>2, <1>5 DEF app

\* A history while more is decoded and collected.
LEMMA RowStays ==
    ASSUME NEW k, NEW entries, NEW known, NEW taken, Row(k, entries, known, taken),
           NEW later, NEW more, taken \subseteq more, Len(known) \in Nat, Len(later) \in Nat,
           Len(known) <= Len(later), \A n \in 1..Len(known) : later[n] = known[n]
    PROVE  Row(k, entries, later, more)
<1>1. 1..Len(known) \subseteq 1..Len(later)
  OBVIOUS
<1>2. ASSUME NEW i \in DOMAIN entries
      PROVE  /\ entries[i].n \in 1..Len(later) /\ later[entries[i].n].kind = k
             /\ entries[i].of # Anyone => entries[i].n \in more
  BY <1>1 DEF Row
<1> QED
  BY <1>2 DEF Row

-----------------------------------------------------------------------------
\* A step that collects nothing.
LEMMA Keeping ==
    ASSUME CollectorInd, Grown, collected' = collected, \A n \in Taken : Marked(n),
           stored' \in [1..MaxDecodes -> [at : -1..MaxAge, under : SUBSET Stations]],
           held' \in [DecodeKinds -> Seq(HeldEntry)], Len(held'["wefax"]) <= WefaxKept,
           \A k \in DecodeKinds : Row(k, held'[k], decoded, Taken),
           \A k \in DecodeKinds : \A j \in DOMAIN held[k] :
              \/ \E i \in DOMAIN held'[k] : held'[k][i] = held[k][j]
              \/ held[k][j].n \in wiped'
              \/ k # "wefax" /\ Expired(held[k][j])
    PROVE  Taken' = Taken /\ Filed' /\ SinceCollected'
<1>1. CollectorTyped /\ Fed /\ Filed /\ SinceCollected
  BY DEF CollectorInd
<1>2. /\ Taken \subseteq 1..Len(decoded) /\ 1..Len(decoded) \subseteq 1..MaxDecodes
      /\ Len(decoded) \in Nat /\ Len(feed) \in Nat /\ collected \in Nat
  BY <1>1, TakenKnown
<1>3. Taken' = Taken
  <2>1. \A i \in 1..collected : feed'[i] = feed[i]
    BY <1>1, <1>2 DEF Fed, Grown
  <2> QED
    BY <2>1 DEF Taken
<1>4. Filed'
  <2>1. ASSUME NEW k \in DecodeKinds PROVE Row(k, held'[k], decoded', Taken')
    BY <1>2, <1>3, RowStays DEF Grown
  <2> QED
    BY <2>1 DEF Filed
<1>5. ASSUME NEW n \in Taken PROVE InPlace(n)'
  <2>1. decoded[n].kind \in DecodeKinds
    <3>1. decoded[n] \in Message
      BY <1>1, <1>2, LenProperties DEF CollectorTyped
    <3> QED
      BY <3>1 DEF Message
  <2>2. Marked(n)
    OBVIOUS
  <2>3. \A j \in DOMAIN held[decoded[n].kind] :
              LET e == held[decoded[n].kind][j] IN
              e.n = n => \/ \E i \in DOMAIN held'[decoded[n].kind] : held'[decoded[n].kind][i] = e
                         \/ n \in wiped'
                         \/ decoded[n].kind # "wefax" /\ Expired(e)
    BY <2>1
  <2> QED
    BY <1>1, <2>2, <2>3, StaysInPlace
<1> QED
  BY <1>3, <1>4, <1>5 DEF SinceCollected

LEMMA PageStays ==
    ASSUME CollectorInd, Grown, \A n \in Taken : Marked(n), 1..Len(decoded') \subseteq 1..MaxDecodes,
           \/ page' = page
           \/ \E m \in -1..MaxDecodes : page' = [page EXCEPT !.stream = m]
    PROVE  PageShown'
<1>1. CollectorTyped /\ Fed /\ SinceCollected /\ PageShown
  BY DEF CollectorInd
<1>2. page \in [stream : -1..MaxDecodes, history : SUBSET (1..MaxDecodes), upto : -1..MaxDecodes]
  BY <1>1 DEF PageShown
<1>3. /\ page'.history = page.history /\ page'.upto = page.upto
      /\ page' \in [stream : -1..MaxDecodes, history : SUBSET (1..MaxDecodes), upto : -1..MaxDecodes]
  BY <1>2
<1>4. /\ page'.history \subseteq 1..Len(decoded') /\ page'.upto <= collected'
      /\ \A i \in 1..page'.upto : Answered(feed[i])' /\ feed'[i] = feed[i]
  BY <1>1, <1>3, AnswerStays
<1>5. \A i \in 1..page'.upto : Answered(feed[i])'
  BY <1>4
<1> QED
  BY <1>3, <1>4, <1>5 DEF PageShown

\* What every state says of the numbers.
LEMMA CollectorBasics ==
    ASSUME CollectorInd
    PROVE  /\ CollectorTyped /\ Fed /\ Filed /\ SinceCollected /\ PageShown
           /\ Taken \subseteq 1..Len(decoded) /\ 1..Len(decoded) \subseteq 1..MaxDecodes
           /\ Len(decoded) \in Nat /\ Len(feed) \in Nat /\ collected \in Nat /\ age \in Nat
           /\ MaxAge \in Nat /\ MaxDecodes \in Nat /\ MaxLinks \in Nat /\ WefaxKept \in Nat
           /\ \A n \in Taken : stored[n].at \in 0..MaxAge /\ picked \in stored[n].under
<1>1. CollectorTyped /\ Fed /\ Filed /\ SinceCollected /\ PageShown
  BY DEF CollectorInd
<1>2. MaxAge \in Nat /\ MaxDecodes \in Nat /\ MaxLinks \in Nat /\ WefaxKept \in Nat
  BY ClientHistoryAssumption DEF ClientHistoryAssumption
<1>3. \A n \in Taken : stored[n].at \in 0..MaxAge /\ picked \in stored[n].under
  BY <1>1 DEF SinceCollected, InPlace
<1>4. age \in Nat
  BY <1>1, <1>2 DEF CollectorTyped
<1> QED
  BY <1>1, <1>2, <1>3, <1>4, TakenKnown

\* What stays when a step touches neither the messages nor their time.
LEMMA GrownSame ==
    ASSUME CollectorInd, UNCHANGED <<decoded, feed, collected>>, age' \in Nat, age <= age', wiped \subseteq wiped'
    PROVE  Grown
BY CollectorBasics DEF Grown

LEMMA HeldSame ==
    ASSUME CollectorInd, held' = held
    PROVE  /\ held' \in [DecodeKinds -> Seq(HeldEntry)] /\ Len(held'["wefax"]) <= WefaxKept
           /\ \A k \in DecodeKinds : Row(k, held'[k], decoded, Taken)
           /\ \A k \in DecodeKinds : \A j \in DOMAIN held[k] :
                 \E i \in DOMAIN held'[k] : held'[k][i] = held[k][j]
<1>1. Filed
  BY DEF CollectorInd
<1> QED
  BY <1>1 DEF Filed

LEMMA MarkedSame ==
    ASSUME CollectorInd, UNCHANGED <<picked, stored>>
    PROVE  /\ \A n \in Taken : Marked(n)
           /\ stored' \in [1..MaxDecodes -> [at : -1..MaxAge, under : SUBSET Stations]]
<1>1. \A n \in Taken : picked \in stored[n].under
  BY CollectorBasics
<1>2. \A n \in Taken : Marked(n)
  BY <1>1 DEF Marked
<1>3. SinceCollected
  BY DEF CollectorInd
<1> QED
  BY <1>2, <1>3 DEF SinceCollected

LEMMA FedSame == CollectorInd /\ UNCHANGED <<decoded, feed, collected>> => Fed'
BY DEF CollectorInd, Fed

-----------------------------------------------------------------------------
(* One lemma for each action.                                               *)

LEMMA DecodedKeeps ==
    ASSUME CollectorInd, NEW k \in DecodeKinds, NEW s \in Stations, NEW v \in Ships, Decoded(k, s, v)
    PROVE  CollectorInd'
<1> DEFINE msg == [kind |-> k, rig |-> s, ship |-> v]
           new == Len(decoded) + 1
<1>1. /\ CollectorTyped /\ Fed /\ Len(decoded) \in Nat /\ Len(feed) \in Nat /\ collected \in Nat /\ age \in Nat
      /\ MaxDecodes \in Nat
  BY CollectorBasics
<1>2. /\ Len(decoded) < MaxDecodes /\ decoded' = Append(decoded, msg)
      /\ feed' = Append(feed, new) \/ feed' = feed
      /\ UNCHANGED <<age, picked, linked, replay, collected, held, page, stored, wiped, links>>
  BY DEF Decoded
<1>3. msg \in Message
  BY DEF Message
<1> HIDE DEF msg
<1>4. decoded \in Seq(Message)
  BY <1>1 DEF CollectorTyped
<1>5. /\ decoded' \in Seq(Message) /\ Len(decoded') = Len(decoded) + 1
      /\ \A n \in 1..Len(decoded) : decoded'[n] = decoded[n]
  <2>1. DOMAIN decoded = 1..Len(decoded)
    BY <1>4, LenProperties
  <2> QED
    BY <1>2, <1>3, <1>4, <2>1, AppendAt
<1>6. 1..Len(decoded) \subseteq 1..Len(decoded') /\ 1..Len(decoded') \subseteq 1..MaxDecodes
      /\ Len(decoded') \in Nat /\ new \in 1..Len(decoded')
  BY <1>1, <1>2, <1>5
<1>7. feed \in Seq(1..Len(decoded)) /\ feed \in Seq(1..Len(decoded')) /\ DOMAIN feed = 1..Len(feed)
      /\ \A i \in 1..Len(feed) : feed[i] \in 1..Len(decoded)
  <2>1. feed \in Seq(1..Len(decoded))
    BY <1>1 DEF Fed
  <2>2. DOMAIN feed = 1..Len(feed) /\ feed \in [1..Len(feed) -> 1..Len(decoded)]
    BY <2>1, LenProperties
  <2>3. feed \in [1..Len(feed) -> 1..Len(decoded')]
    BY <1>6, <2>2
  <2>4. feed \in Seq(1..Len(decoded'))
    BY <1>1, <2>3, SeqDef
  <2> QED
    BY <2>1, <2>2, <2>4
<1>8. /\ feed' \in Seq(1..Len(decoded')) /\ Len(feed') \in Len(feed)..Len(feed) + 1
      /\ \A i \in 1..Len(feed) : feed'[i] = feed[i]
      /\ \A i \in 1..Len(feed') : i \in 1..Len(feed) \/ (i = Len(feed) + 1 /\ feed'[i] = new)
  <2>1. CASE feed' = feed
    <3>1. Len(feed') = Len(feed) /\ Len(feed) \in Len(feed)..Len(feed) + 1
      BY <1>1, <2>1
    <3> QED
      BY <1>7, <2>1, <3>1
  <2>2. CASE feed' = Append(feed, new)
    <3>1. /\ feed' \in Seq(1..Len(decoded')) /\ Len(feed') = Len(feed) + 1 /\ feed'[Len(feed) + 1] = new
          /\ \A i \in 1..Len(feed) : feed'[i] = feed[i]
      BY <1>6, <1>7, <2>2, AppendAt
    <3>2. Len(feed') \in Len(feed)..Len(feed) + 1
      BY <1>1, <3>1
    <3>3. \A i \in 1..Len(feed') : i \in 1..Len(feed) \/ i = Len(feed) + 1
      BY <1>1, <3>1
    <3> QED
      BY <3>1, <3>2, <3>3
  <2> QED
    BY <1>2, <2>1, <2>2
<1>9. Len(feed') \in Nat /\ Len(feed) <= Len(feed') /\ Len(feed') <= Len(decoded')
  BY <1>1, <1>5, <1>8 DEF Fed
<1>10. Grown
  BY <1>1, <1>2, <1>5, <1>8, <1>9 DEF Grown
<1>11. Fed'
  <2>1. \A i, j \in 1..Len(feed') : i < j => feed'[i] < feed'[j]
    <3> SUFFICES ASSUME NEW i \in 1..Len(feed'), NEW j \in 1..Len(feed'), i < j PROVE feed'[i] < feed'[j]
      OBVIOUS
    <3>1. i \in 1..Len(feed)
      BY <1>1, <1>8, <1>9
    <3>2. CASE j \in 1..Len(feed)
      BY <1>1, <1>8, <3>1, <3>2 DEF Fed
    <3>3. CASE j = Len(feed) + 1 /\ feed'[j] = new
      <4>1. feed'[i] = feed[i] /\ feed[i] \in 1..Len(decoded)
        BY <1>7, <1>8, <3>1
      <4> QED
        BY <1>1, <3>3, <4>1
    <3> QED
      BY <1>8, <3>2, <3>3
  <2>2. collected' \in 0..Len(feed')
    BY <1>1, <1>2, <1>9 DEF Fed
  <2> QED
    BY <1>8, <1>9, <2>1, <2>2 DEF Fed
<1>12. CollectorTyped'
  <2>1. replay' \in [Stations -> SUBSET (1..Len(decoded'))]
    BY <1>1, <1>2, <1>6 DEF CollectorTyped
  <2>2. Len(decoded') <= MaxDecodes
    BY <1>1, <1>2, <1>5
  <2> QED
    BY <1>1, <1>2, <1>5, <2>1, <2>2 DEF CollectorTyped
<1>13. /\ \A n \in Taken : Marked(n)
       /\ stored' \in [1..MaxDecodes -> [at : -1..MaxAge, under : SUBSET Stations]]
  BY <1>2, MarkedSame
<1>14. /\ held' \in [DecodeKinds -> Seq(HeldEntry)] /\ Len(held'["wefax"]) <= WefaxKept
       /\ \A q \in DecodeKinds : Row(q, held'[q], decoded, Taken)
       /\ \A q \in DecodeKinds : \A j \in DOMAIN held[q] :
             \E i \in DOMAIN held'[q] : held'[q][i] = held[q][j]
  BY <1>2, HeldSame
<1>15. Filed' /\ SinceCollected'
  BY <1>2, <1>10, <1>13, <1>14, Keeping
<1>16. PageShown'
  BY <1>2, <1>6, <1>10, <1>13, PageStays
<1> QED
  BY <1>11, <1>12, <1>15, <1>16 DEF CollectorInd

\* A step that leaves the messages, their places and their time alone.
LEMMA AsideKeeps ==
    ASSUME CollectorInd, UNCHANGED <<age, picked, decoded, feed, collected, held, stored, wiped>>,
           linked' \in [Stations -> BOOLEAN], links' \in 0..MaxLinks,
           replay' \in [Stations -> SUBSET (1..Len(decoded))],
           \/ page' = page
           \/ \E m \in -1..MaxDecodes : page' = [page EXCEPT !.stream = m]
    PROVE  CollectorInd'
<1>1. CollectorTyped /\ age \in Nat /\ 1..Len(decoded) \subseteq 1..MaxDecodes
  BY CollectorBasics
<1>2. Grown /\ Fed'
  BY <1>1, GrownSame, FedSame
<1>3. CollectorTyped'
  BY <1>1 DEF CollectorTyped
<1>4. /\ \A n \in Taken : Marked(n)
      /\ stored' \in [1..MaxDecodes -> [at : -1..MaxAge, under : SUBSET Stations]]
  BY MarkedSame
<1>5. Filed' /\ SinceCollected'
  BY <1>2, <1>4, HeldSame, Keeping
<1>6. 1..Len(decoded') \subseteq 1..MaxDecodes
  BY <1>1
<1>7. PageShown'
  BY <1>2, <1>4, <1>6, PageStays
<1> QED
  BY <1>2, <1>3, <1>5, <1>7 DEF CollectorInd

LEMMA LinkKeeps ==
    ASSUME CollectorInd, NEW s \in Stations, Link(s) \/ Unlink(s)
    PROVE  CollectorInd'
<1>1. CollectorTyped /\ MaxLinks \in Nat
  BY CollectorBasics
<1>2. /\ linked' \in [Stations -> BOOLEAN] /\ links' \in 0..MaxLinks
      /\ replay' \in [Stations -> SUBSET (1..Len(decoded))]
  <2>1. CASE Link(s)
    BY <1>1, <2>1 DEF Link, CollectorTyped
  <2>2. CASE Unlink(s)
    BY <1>1, <2>2 DEF Unlink, CollectorTyped
  <2> QED
    BY <2>1, <2>2
<1>3. UNCHANGED <<age, picked, decoded, feed, collected, held, stored, wiped, page>>
  BY DEF Link, Unlink
<1> QED
  BY <1>2, <1>3, AsideKeeps

LEMMA OpenDecodesKeeps == CollectorInd /\ OpenDecodes => CollectorInd'
<1> SUFFICES ASSUME CollectorInd, OpenDecodes PROVE CollectorInd'
  OBVIOUS
<1>1. CollectorTyped /\ Fed /\ Len(feed) \in Nat /\ Len(decoded) \in Nat /\ MaxDecodes \in Nat
  BY CollectorBasics
<1>2. Len(feed) \in -1..MaxDecodes
  BY <1>1 DEF Fed, CollectorTyped
<1>3. /\ UNCHANGED <<age, picked, decoded, feed, collected, held, stored, wiped, linked, links, replay>>
      /\ page' = [page EXCEPT !.stream = Len(feed)]
  BY DEF OpenDecodes
<1> QED
  BY <1>1, <1>2, <1>3, AsideKeeps DEF CollectorTyped

LEMMA AgesKeeps == CollectorInd /\ Ages => CollectorInd'
<1> SUFFICES ASSUME CollectorInd, Ages PROVE CollectorInd'
  OBVIOUS
<1>1. CollectorTyped /\ age \in Nat /\ MaxAge \in Nat /\ 1..Len(decoded) \subseteq 1..MaxDecodes
  BY CollectorBasics
<1>2. /\ age < MaxAge /\ age' = age + 1
      /\ UNCHANGED <<picked, decoded, linked, replay, feed, collected, held, page, stored, wiped, links>>
  BY DEF Ages
<1>3. age' \in 0..MaxAge /\ age' \in Nat /\ age <= age'
  BY <1>1, <1>2
<1>4. Grown /\ Fed'
  BY <1>2, <1>3, GrownSame, FedSame
<1>5. CollectorTyped'
  BY <1>1, <1>2, <1>3 DEF CollectorTyped
<1>6. /\ \A n \in Taken : Marked(n)
      /\ stored' \in [1..MaxDecodes -> [at : -1..MaxAge, under : SUBSET Stations]]
  BY <1>2, MarkedSame
<1>7. Filed' /\ SinceCollected'
  BY <1>2, <1>4, <1>6, HeldSame, Keeping
<1>8. PageShown'
  BY <1>1, <1>2, <1>4, <1>6, PageStays
<1> QED
  BY <1>4, <1>5, <1>7, <1>8 DEF CollectorInd

LEMMA SelectRigKeeps ==
    ASSUME CollectorInd, NEW s \in Stations, SelectRig(s)
    PROVE  CollectorInd'
<1>1. /\ CollectorTyped /\ SinceCollected /\ age \in Nat /\ 1..Len(decoded) \subseteq 1..MaxDecodes
      /\ Taken \subseteq 1..Len(decoded)
      /\ \A n \in Taken : stored[n].at \in 0..MaxAge /\ picked \in stored[n].under
  BY CollectorBasics
<1>2. /\ picked' = s
      /\ stored' = [n \in 1..MaxDecodes |->
             IF stored[n].at = -1 THEN stored[n] ELSE [stored[n] EXCEPT !.under = @ \cup {s}]]
      /\ UNCHANGED <<age, decoded, linked, replay, feed, collected, held, page, wiped, links>>
  BY DEF SelectRig
<1>3. Grown /\ Fed'
  BY <1>1, <1>2, GrownSame, FedSame
<1>4. CollectorTyped'
  BY <1>1, <1>2 DEF CollectorTyped
<1>5. stored' \in [1..MaxDecodes -> [at : -1..MaxAge, under : SUBSET Stations]]
  <2>1. ASSUME NEW n \in 1..MaxDecodes PROVE stored'[n] \in [at : -1..MaxAge, under : SUBSET Stations]
    <3>1. stored[n] \in [at : -1..MaxAge, under : SUBSET Stations]
      BY <1>1 DEF SinceCollected
    <3> QED
      BY <1>2, <3>1
  <2> QED
    BY <1>2, <2>1
<1>6. ASSUME NEW n \in Taken PROVE Marked(n)
  <2>1. n \in 1..MaxDecodes /\ stored[n].at # -1 /\ stored[n] \in [at : -1..MaxAge, under : SUBSET Stations]
    BY <1>1 DEF SinceCollected
  <2>2. stored'[n] = [stored[n] EXCEPT !.under = @ \cup {s}]
    BY <1>2, <2>1
  <2>3. stored'[n].at = stored[n].at /\ stored'[n].under = stored[n].under \cup {s}
    BY <2>1, <2>2
  <2> QED
    BY <1>2, <2>3 DEF Marked
<1>7. Filed' /\ SinceCollected'
  BY <1>2, <1>3, <1>5, <1>6, HeldSame, Keeping
<1>8. PageShown'
  BY <1>1, <1>2, <1>3, <1>6, PageStays
<1> QED
  BY <1>3, <1>4, <1>7, <1>8 DEF CollectorInd

LEMMA SunkKeeps ==
    ASSUME CollectorInd, NEW s \in Stations, Sunk(s)
    PROVE  CollectorInd'
<1> DEFINE n == Min(replay[s])
           e == [n |-> n, at |-> age, of |-> Anyone]
<1>1. /\ CollectorTyped /\ Filed /\ age \in Nat /\ 1..Len(decoded) \subseteq 1..MaxDecodes
      /\ Len(decoded) \in Nat /\ Taken \subseteq 1..Len(decoded)
  BY CollectorBasics
<1>2. /\ replay[s] # {} /\ replay' = [replay EXCEPT ![s] = @ \ {n}]
      /\ held' = IF decoded[n].kind = "ais" THEN [held EXCEPT !["ais"] = Append(@, e)] ELSE held
      /\ UNCHANGED <<age, picked, decoded, linked, feed, collected, page, stored, wiped, links>>
  BY DEF Sunk
<1>3. n \in replay[s] /\ n \in 1..Len(decoded)
  <2>1. replay[s] \in SUBSET Nat /\ replay[s] \subseteq 1..Len(decoded)
    BY <1>1 DEF CollectorTyped
  <2>2. \E m \in replay[s] : \A i \in replay[s] : m <= i
    BY <1>2, <2>1, Least
  <2> QED
    BY <2>1, <2>2 DEF Min
<1> HIDE DEF n
<1>4. Grown /\ Fed'
  BY <1>1, <1>2, GrownSame, FedSame
<1>5. CollectorTyped'
  BY <1>1, <1>2 DEF CollectorTyped
<1>6. /\ \A m \in Taken : Marked(m)
      /\ stored' \in [1..MaxDecodes -> [at : -1..MaxAge, under : SUBSET Stations]]
  BY <1>2, MarkedSame
<1>7. /\ held' \in [DecodeKinds -> Seq(HeldEntry)] /\ Len(held'["wefax"]) <= WefaxKept
      /\ \A k \in DecodeKinds : Row(k, held'[k], decoded, Taken)
      /\ \A k \in DecodeKinds : \A j \in DOMAIN held[k] :
            \E i \in DOMAIN held'[k] : held'[k][i] = held[k][j]
  <2>1. CASE decoded[n].kind # "ais"
    BY <1>2, <2>1, HeldSame
  <2>2. CASE decoded[n].kind = "ais"
    <3>1. e \in HeldEntry /\ e.n = n /\ e.of = Anyone
      BY <1>1, <1>3 DEF HeldEntry, CollectorTyped
    <3>2. "ais" \in DecodeKinds /\ Row("ais", held["ais"], decoded, Taken)
      BY <1>1 DEF Filed, DecodeKinds
    <3> DEFINE app == Append(held["ais"], e)
    <3>0. e.n \in 1..Len(decoded) /\ decoded[e.n].kind = "ais"
      BY <1>3, <2>2, <3>1
    <3> HIDE DEF e
    <3>3. /\ Row("ais", app, decoded, Taken)
          /\ DOMAIN app = 1..(Len(held["ais"]) + 1) /\ DOMAIN held["ais"] = 1..Len(held["ais"])
          /\ Len(held["ais"]) \in Nat /\ \A i \in DOMAIN held["ais"] : app[i] = held["ais"][i]
      BY <3>0, <3>1, <3>2, AppendRow
    <3>4. held' = [held EXCEPT !["ais"] = app] /\ app \in Seq(HeldEntry)
      BY <1>2, <2>2, <3>3 DEF Row
    <3> HIDE DEF app
    <3>5. held'["ais"] = app /\ \A k \in DecodeKinds : k # "ais" => held'[k] = held[k]
      BY <1>1, <3>2, <3>4 DEF Filed
    <3>6. \A k \in DecodeKinds : Row(k, held'[k], decoded, Taken)
      BY <1>1, <3>3, <3>5 DEF Filed
    <3>7. ASSUME NEW k \in DecodeKinds, NEW j \in DOMAIN held[k]
          PROVE  \E i \in DOMAIN held'[k] : held'[k][i] = held[k][j]
      <4>1. CASE k = "ais"
        <5>1. j \in DOMAIN app
          BY <3>3, <4>1
        <5> QED
          BY <3>3, <3>5, <4>1, <5>1
      <4>2. CASE k # "ais"
        BY <3>5, <4>2
      <4> QED
        BY <4>1, <4>2
    <3>8. held' \in [DecodeKinds -> Seq(HeldEntry)]
      BY <1>1, <3>4 DEF Filed
    <3>9. Len(held'["wefax"]) <= WefaxKept
      BY <1>1, <3>5 DEF Filed, DecodeKinds
    <3> QED
      BY <3>6, <3>7, <3>8, <3>9
  <2> QED
    BY <2>1, <2>2
<1>8. Filed' /\ SinceCollected'
  BY <1>2, <1>4, <1>6, <1>7, Keeping
<1>9. PageShown'
  BY <1>1, <1>2, <1>4, <1>6, PageStays
<1> QED
  BY <1>4, <1>5, <1>8, <1>9 DEF CollectorInd

LEMMA ClearDecodesKeeps ==
    ASSUME CollectorInd, NEW k \in DecodeKinds, ClearDecodes(k)
    PROVE  CollectorInd'
<1>1. /\ CollectorTyped /\ Filed /\ age \in Nat /\ 1..Len(decoded) \subseteq 1..MaxDecodes
      /\ WefaxKept \in Nat
  BY CollectorBasics
<1>2. /\ held' = [held EXCEPT ![k] = <<>>] /\ wiped' = wiped \cup Holds(k)
      /\ UNCHANGED <<age, picked, decoded, linked, replay, feed, collected, page, stored, links>>
  BY DEF ClearDecodes
<1>3. Grown /\ Fed'
  BY <1>1, <1>2, GrownSame, FedSame
<1>4. Row(k, held[k], decoded, Taken)
  BY <1>1 DEF Filed
<1>5. \A j \in DOMAIN held[k] : held[k][j].n \in Holds(k) /\ held[k][j].n \in 1..MaxDecodes
  BY <1>1, <1>4 DEF Holds, ToSet, Row
<1>6. Holds(k) \subseteq 1..MaxDecodes
  BY <1>5 DEF Holds, ToSet
<1>7. CollectorTyped'
  BY <1>1, <1>2, <1>6 DEF CollectorTyped
<1>8. /\ \A n \in Taken : Marked(n)
      /\ stored' \in [1..MaxDecodes -> [at : -1..MaxAge, under : SUBSET Stations]]
  BY <1>2, MarkedSame
<1>9. <<>> \in Seq(HeldEntry) /\ Len(<<>>) = 0 /\ DOMAIN <<>> = {}
  BY EmptySeq
<1>10. held'[k] = <<>> /\ \A q \in DecodeKinds : q # k => held'[q] = held[q]
  BY <1>1, <1>2 DEF Filed
<1>11. Row(k, <<>>, decoded, Taken)
  BY <1>9 DEF Row
<1>12. /\ held' \in [DecodeKinds -> Seq(HeldEntry)] /\ Len(held'["wefax"]) <= WefaxKept
       /\ \A q \in DecodeKinds : Row(q, held'[q], decoded, Taken)
  <2>1. \A q \in DecodeKinds : Row(q, held'[q], decoded, Taken)
    BY <1>1, <1>10, <1>11 DEF Filed
  <2>2. Len(held'["wefax"]) <= WefaxKept
    BY <1>1, <1>9, <1>10 DEF Filed, DecodeKinds
  <2> QED
    BY <1>1, <1>2, <1>9, <2>1, <2>2 DEF Filed
<1>13. \A q \in DecodeKinds : \A j \in DOMAIN held[q] :
           \/ \E i \in DOMAIN held'[q] : held'[q][i] = held[q][j]
           \/ held[q][j].n \in wiped'
  BY <1>2, <1>5, <1>10
<1>14. Filed' /\ SinceCollected'
  BY <1>2, <1>3, <1>8, <1>12, <1>13, Keeping
<1>15. PageShown'
  BY <1>1, <1>2, <1>3, <1>8, PageStays
<1> QED
  BY <1>3, <1>7, <1>14, <1>15 DEF CollectorInd

\* What the collector keeps of a history with its new message.
LEMMA KeepsTheNew ==
    ASSUME NEW k \in DecodeKinds, NEW entries \in Seq(HeldEntry), Len(entries) > 0,
           ~Expired(entries[Len(entries)])
    PROVE  \E d \in 0..Len(entries) :
              /\ Cut(Kept(k, entries), entries, d) /\ d < Len(entries)
              /\ k = "wefax" => Len(Kept(k, entries)) <= WefaxKept
              /\ k # "wefax" => \A i \in 1..d : Expired(entries[i])
<1>1. CASE k = "wefax"
  BY <1>1, CountedCut
<1>2. CASE k # "wefax"
  <2>1. Kept(k, entries) = Pruned(entries) /\ Len(entries) \in Nat
    BY <1>2, LenProperties DEF Kept
  <2>2. PICK d \in 0..Len(entries) : /\ Cut(Pruned(entries), entries, d)
                                     /\ \A i \in 1..d : Expired(entries[i])
    BY PrunedCut
  <2>3. d # Len(entries)
    <3>1. SUFFICES ASSUME d = Len(entries) PROVE FALSE
      OBVIOUS
    <3>2. Len(entries) \in 1..d
      BY <2>1, <3>1
    <3> QED
      BY <2>2, <3>2
  <2>4. d < Len(entries)
    BY <2>1, <2>3
  <2> QED
    BY <1>2, <2>1, <2>2, <2>4
<1> QED
  BY <1>1, <1>2

LEMMA CollectKeeps == CollectorInd /\ Collect => CollectorInd'
<1> SUFFICES ASSUME CollectorInd, Collect PROVE CollectorInd'
  OBVIOUS
<1> DEFINE n == feed[collected + 1]
           k == decoded[n].kind
           e == [n |-> n, at |-> age, of |-> decoded[n].rig]
           app == Append(held[k], e)
           rest == Kept(k, app)
           more == Taken \cup {n}
<1>1. /\ CollectorTyped /\ Fed /\ Filed /\ SinceCollected /\ PageShown
      /\ Taken \subseteq 1..Len(decoded) /\ 1..Len(decoded) \subseteq 1..MaxDecodes
      /\ Len(decoded) \in Nat /\ Len(feed) \in Nat /\ collected \in Nat /\ age \in Nat
      /\ \A m \in Taken : picked \in stored[m].under
  BY CollectorBasics
<1>2. /\ collected < Len(feed) /\ collected' = collected + 1
      /\ held' = [held EXCEPT ![k] = Kept(k, Append(@, e))]
      /\ wiped' = wiped \cup (IF k = "wefax" THEN Holds(k) \ {f.n : f \in ToSet(held'[k])} ELSE {})
      /\ stored' = [stored EXCEPT ![n] = [at |-> age, under |-> {picked}]]
      /\ UNCHANGED <<age, picked, decoded, linked, replay, feed, page, links>>
  BY DEF Collect
<1>3. collected + 1 \in 1..Len(feed) /\ n \in 1..Len(decoded)
  <2>1. collected + 1 \in 1..Len(feed)
    BY <1>1, <1>2
  <2> QED
    BY <1>1, <2>1, LenProperties DEF Fed
<1>4. \A m \in Taken : m < n
  <2> SUFFICES ASSUME NEW i \in 1..collected PROVE feed[i] < n
    BY DEF Taken
  <2>1. i \in 1..Len(feed) /\ i < collected + 1
    BY <1>1, <1>2
  <2> QED
    BY <1>1, <1>3, <2>1 DEF Fed
<1>5. n \notin Taken /\ n \in Int
  BY <1>3, <1>4
<1>6. Taken' = more
  <2>1. 1..collected' = 1..collected \cup {collected + 1}
    BY <1>1, <1>2
  <2> QED
    BY <1>2, <2>1 DEF Taken
<1>7. decoded[n] \in Message /\ k \in DecodeKinds /\ decoded[n].rig \in Stations
  <2>1. decoded[n] \in Message
    BY <1>1, <1>3, LenProperties DEF CollectorTyped
  <2> QED
    BY <2>1 DEF Message
<1>8. e \in HeldEntry /\ e.n = n /\ e.at = age /\ e.of # Anyone
  <2>1. n \in 1..MaxDecodes /\ age \in 0..MaxAge /\ decoded[n].rig # Anyone
    BY <1>1, <1>3, <1>7, ClientHistoryAssumption DEF CollectorTyped, ClientHistoryAssumption
  <2> QED
    BY <1>7, <2>1 DEF HeldEntry
<1>9. e.n \in 1..Len(decoded) /\ decoded[e.n].kind = k /\ e.n \in more
  BY <1>3, <1>8
<1>10. held[k] \in Seq(HeldEntry) /\ Row(k, held[k], decoded, Taken)
  BY <1>1, <1>7 DEF Filed
<1>11. \A q \in DecodeKinds : Row(q, held[q], decoded, more)
  <2> SUFFICES ASSUME NEW q \in DecodeKinds PROVE Row(q, held[q], decoded, more)
    OBVIOUS
  <2>1. Row(q, held[q], decoded, Taken) /\ Taken \subseteq more
    BY <1>1 DEF Filed
  <2>2. Len(decoded) \in Nat /\ Len(decoded) <= Len(decoded)
    BY <1>1
  <2> HIDE DEF more
  <2> QED
    BY <2>1, <2>2, RowStays
<1>12. \A i \in DOMAIN held[k] : held[k][i].of # Anyone => held[k][i].n < e.n
  <2>1. \A i \in DOMAIN held[k] : held[k][i].of # Anyone => held[k][i].n \in Taken
    BY <1>10 DEF Row
  <2>2. e.n = n
    BY <1>8
  <2>3. \A i \in DOMAIN held[k] : held[k][i].of # Anyone => held[k][i].n < n
    BY <1>4, <2>1
  <2> QED
    BY <2>2, <2>3
<1>13. held' = [held EXCEPT ![k] = rest]
  BY <1>2
<1> HIDE DEF e, more
<1>14. Row(k, held[k], decoded, more)
  BY <1>7, <1>11
<1>15. /\ Row(k, app, decoded, more) /\ Len(app) = Len(held[k]) + 1
       /\ DOMAIN app = 1..(Len(held[k]) + 1) /\ DOMAIN held[k] = 1..Len(held[k])
       /\ app[Len(held[k]) + 1] = e /\ Len(held[k]) \in Nat
       /\ \A i \in DOMAIN held[k] : app[i] = held[k][i]
  <2> HIDE DEF k, n
  <2> QED
    BY <1>8, <1>9, <1>12, <1>14, AppendRow
<1> HIDE DEF k, app, rest
<1>16. app \in Seq(HeldEntry) /\ Len(app) > 0 /\ app[Len(app)] = e
  BY <1>15 DEF Row
<1>17. ~Expired(e)
  <2>1. Keeps[picked] \in Nat
    BY <1>1, ClientHistoryAssumption DEF CollectorTyped, ClientHistoryAssumption
  <2> QED
    BY <1>1, <1>8, <2>1 DEF Expired
<1>18. PICK d \in 0..Len(app) :
              /\ Cut(rest, app, d) /\ d < Len(app)
              /\ k = "wefax" => Len(rest) <= WefaxKept
              /\ k # "wefax" => \A i \in 1..d : Expired(app[i])
  <2>1. ~Expired(app[Len(app)])
    BY <1>16, <1>17
  <2> QED
    BY <1>7, <1>16, <2>1, KeepsTheNew DEF rest
<1>19. /\ Row(k, rest, decoded, more)
       /\ \A j \in DOMAIN app : j <= d \/ \E i \in DOMAIN rest : rest[i] = app[j]
  BY <1>15, <1>18, CutRow
<1>20. held'[k] = rest /\ \A q \in DecodeKinds : q # k => held'[q] = held[q]
  BY <1>1, <1>7, <1>13 DEF Filed
<1>21. Filed'
  <2>1. ASSUME NEW q \in DecodeKinds PROVE Row(q, held'[q], decoded', Taken')
    BY <1>2, <1>6, <1>11, <1>19, <1>20
  <2>2. held' \in [DecodeKinds -> Seq(HeldEntry)]
    BY <1>1, <1>13, <1>19 DEF Filed, Row
  <2>3. Len(held'["wefax"]) <= WefaxKept
    <3>1. CASE k = "wefax"
      BY <1>18, <1>20, <3>1
    <3>2. CASE k # "wefax"
      BY <1>1, <1>20, <3>2 DEF Filed, DecodeKinds
    <3> QED
      BY <3>1, <3>2
  <2> QED
    BY <2>1, <2>2, <2>3 DEF Filed
<1>22. Holds(k) \subseteq 1..MaxDecodes
  BY <1>1, <1>10 DEF Holds, ToSet, Row
<1>23. wiped \subseteq wiped' /\ wiped' \subseteq 1..MaxDecodes
  BY <1>1, <1>2, <1>22 DEF CollectorTyped, k
<1>24. Grown
  BY <1>1, <1>2, <1>23 DEF Grown
<1>25. CollectorTyped'
  BY <1>1, <1>2, <1>23 DEF CollectorTyped
<1>26. Fed'
  <2>1. collected' \in 0..Len(feed)
    BY <1>1, <1>2
  <2> QED
    BY <1>1, <1>2, <2>1 DEF Fed
<1>27. stored' \in [1..MaxDecodes -> [at : -1..MaxAge, under : SUBSET Stations]]
  <2>1. [at |-> age, under |-> {picked}] \in [at : -1..MaxAge, under : SUBSET Stations]
    BY <1>1 DEF CollectorTyped
  <2> QED
    BY <1>1, <1>2, <2>1 DEF SinceCollected
<1>28. ASSUME NEW m \in Taken PROVE Marked(m)
  <2>1. stored'[m] = stored[m]
    BY <1>1, <1>2, <1>5 DEF SinceCollected
  <2> QED
    BY <1>1, <1>2, <2>1 DEF Marked
<1>29. ASSUME NEW m \in Taken PROVE InPlace(m)'
  <2>1. decoded[m].kind \in DecodeKinds
    <3>1. decoded[m] \in Message
      BY <1>1, LenProperties DEF CollectorTyped
    <3> QED
      BY <3>1 DEF Message
  <2>2. ASSUME NEW j \in DOMAIN held[decoded[m].kind], held[decoded[m].kind][j].n = m
        PROVE  LET f == held[decoded[m].kind][j] IN
               \/ \E i \in DOMAIN held'[decoded[m].kind] : held'[decoded[m].kind][i] = f
               \/ m \in wiped'
               \/ decoded[m].kind = "wefax"
                  /\ \E i \in DOMAIN held'[decoded[m].kind] : held'[decoded[m].kind][i].n = m
               \/ decoded[m].kind # "wefax" /\ Expired(f)
    <3>1. CASE decoded[m].kind # k
      BY <1>20, <2>1, <2>2, <3>1
    <3>2. CASE decoded[m].kind = k
      <4>1. j \in DOMAIN app /\ app[j] = held[k][j] /\ j \in Nat /\ j > 0
        BY <1>15, <2>2, <3>2
      <4>2. CASE ~(j <= d)
        BY <1>19, <1>20, <3>2, <4>1, <4>2
      <4>3. CASE j <= d
        <5>1. j \in 1..d
          BY <4>1, <4>3
        <5>2. CASE k # "wefax"
          BY <1>18, <3>2, <4>1, <5>1, <5>2
        <5>3. CASE k = "wefax"
          <6>1. m \in Holds(k)
            BY <2>2, <3>2 DEF Holds, ToSet
          <6>2. CASE m \in {f.n : f \in ToSet(held'[k])}
            BY <3>2, <5>3, <6>2 DEF ToSet
          <6>3. CASE m \notin {f.n : f \in ToSet(held'[k])}
            <7>1. wiped' = wiped \cup (Holds(k) \ {f.n : f \in ToSet(held'[k])})
              BY <1>2, <5>3 DEF k
            <7> QED
              BY <6>1, <6>3, <7>1
          <6> QED
            BY <6>2, <6>3
        <5> QED
          BY <5>2, <5>3
      <4> QED
        BY <4>2, <4>3
    <3> QED
      BY <3>1, <3>2
  <2>3. Marked(m)
    BY <1>28
  <2> QED
    BY <1>1, <1>24, <2>2, <2>3, StaysInPlace
<1>30. ASSUME NEW m, m = n PROVE InPlace(m)'
  <2>1. stored'[n] = [at |-> age, under |-> {picked}]
    BY <1>1, <1>2, <1>3 DEF SinceCollected
  <2>2. stored'[n].at = age /\ stored'[n].under = {picked} /\ age \in 0..MaxAge
    BY <1>1, <2>1 DEF CollectorTyped
  <2>3. Len(app) \in DOMAIN app /\ ~(Len(app) <= d)
    BY <1>15, <1>18
  <2>4. \E i \in DOMAIN held'[k] : held'[k][i] = e
    BY <1>16, <1>19, <1>20, <2>3
  <2>5. decoded'[n].kind = k
    BY <1>2 DEF k
  <2>6. \E i \in DOMAIN held'[k] : held'[k][i].n = n /\ held'[k][i].at = stored'[n].at
    BY <1>8, <2>2, <2>4
  <2> HIDE DEF n
  <2>7. picked' \in stored'[n].under /\ stored'[n].at \in 0..MaxAge
    BY <1>2, <2>2
  <2> QED
    BY <1>30, <2>5, <2>6, <2>7 DEF InPlace
<1>31. SinceCollected'
  <2>1. ASSUME NEW m \in Taken' PROVE InPlace(m)'
    <3>1. CASE m \in Taken
      BY <1>29, <3>1
    <3>2. CASE m = n
      BY <1>30, <3>2
    <3> QED
      BY <1>6, <3>1, <3>2 DEF more
  <2> QED
    BY <1>27, <2>1 DEF SinceCollected
<1>32. PageShown'
  BY <1>1, <1>2, <1>24, <1>28, PageStays
<1> QED
  BY <1>21, <1>25, <1>26, <1>31, <1>32 DEF CollectorInd

-----------------------------------------------------------------------------
\* Of the vessel of an entry there is one that was stored last.
LEMMA LatestIs ==
    ASSUME NEW entries \in Seq(HeldEntry), NEW j \in DOMAIN entries
    PROVE  \E i \in LatestOf(entries, DOMAIN entries) :
              decoded[entries[i].n].ship = decoded[entries[j].n].ship
<1>1. Len(entries) \in Nat /\ DOMAIN entries = 1..Len(entries)
  BY LenProperties
<1> DEFINE Same == {i \in DOMAIN entries : decoded[entries[i].n].ship = decoded[entries[j].n].ship}
           Back == {Len(entries) - i : i \in Same}
<1>2. Back \in SUBSET Nat /\ Back # {}
  BY <1>1
<1>3. PICK m \in Back : \A b \in Back : m <= b
  BY <1>2, Least
<1>4. PICK i \in Same : m = Len(entries) - i
  BY <1>3
<1>5. ASSUME NEW h \in DOMAIN entries, h > i
      PROVE  decoded[entries[h].n].ship # decoded[entries[i].n].ship
  <2> SUFFICES ASSUME decoded[entries[h].n].ship = decoded[entries[i].n].ship PROVE FALSE
    OBVIOUS
  <2>1. h \in Same
    BY <1>4
  <2>2. m <= Len(entries) - h
    BY <1>3, <2>1
  <2> QED
    BY <1>1, <1>4, <1>5, <2>2
<1>6. i \in LatestOf(entries, DOMAIN entries)
  BY <1>4, <1>5 DEF LatestOf
<1> QED
  BY <1>4, <1>6

\* The answer for Anyone.
LEMMA Snapshots ==
    ASSUME NEW now, \A k \in DecodeKinds : Row(k, now[k], decoded, Taken)
    PROVE  /\ Snapshot(now, Anyone) \subseteq 1..Len(decoded)
           /\ \A k \in DecodeKinds : \A j \in DOMAIN now[k] :
                 IF k = "ais"
                 THEN \E m \in Snapshot(now, Anyone) :
                         decoded[m].kind = "ais" /\ decoded[m].ship = decoded[now[k][j].n].ship
                 ELSE now[k][j].n \in Snapshot(now, Anyone)
<1> DEFINE part(k) == {now[k][i].n : i \in IF k = "ais" THEN LatestOf(now[k], DOMAIN now[k]) ELSE DOMAIN now[k]}
<1>1. \A k \in DecodeKinds : {i \in DOMAIN now[k] : Anyone = Anyone \/ now[k][i].of = Anyone} = DOMAIN now[k]
  OBVIOUS
<1>2. Snapshot(now, Anyone) = UNION {part(k) : k \in DecodeKinds}
  BY <1>1, ZenonT(40) DEF Snapshot
<1>3. ASSUME NEW k \in DecodeKinds PROVE part(k) \subseteq Snapshot(now, Anyone)
  <2> HIDE DEF part
  <2> QED
    BY <1>2
<1>4. ASSUME NEW k \in DecodeKinds PROVE part(k) \subseteq 1..Len(decoded)
  <2>1. \A i \in DOMAIN now[k] : now[k][i].n \in 1..Len(decoded)
    BY DEF Row
  <2>2. LatestOf(now[k], DOMAIN now[k]) \subseteq DOMAIN now[k]
    BY DEF LatestOf
  <2> QED
    BY <2>1, <2>2
<1>5. Snapshot(now, Anyone) \subseteq 1..Len(decoded)
  <2> HIDE DEF part
  <2> QED
    BY <1>2, <1>4
<1>6. ASSUME NEW k \in DecodeKinds, NEW j \in DOMAIN now[k], k # "ais"
      PROVE  now[k][j].n \in Snapshot(now, Anyone)
  <2>1. now[k][j].n \in part(k)
    BY <1>6
  <2> QED
    BY <1>3, <2>1
<1>7. ASSUME NEW j \in DOMAIN now["ais"]
      PROVE  \E m \in Snapshot(now, Anyone) :
                decoded[m].kind = "ais" /\ decoded[m].ship = decoded[now["ais"][j].n].ship
  <2>1. "ais" \in DecodeKinds
    BY DEF DecodeKinds
  <2>2. Row("ais", now["ais"], decoded, Taken)
    BY <2>1
  <2>3. now["ais"] \in Seq(HeldEntry)
    BY <2>2 DEF Row
  <2>4. PICK i \in LatestOf(now["ais"], DOMAIN now["ais"]) :
              decoded[now["ais"][i].n].ship = decoded[now["ais"][j].n].ship
    BY <2>3, LatestIs
  <2>5. i \in DOMAIN now["ais"]
    BY DEF LatestOf
  <2>6. now["ais"][i].n \in part("ais") /\ decoded[now["ais"][i].n].kind = "ais"
    BY <2>2, <2>5 DEF Row
  <2>7. now["ais"][i].n \in Snapshot(now, Anyone)
    BY <1>3, <2>1, <2>6
  <2> QED
    BY <2>4, <2>6, <2>7
<1> QED
  BY <1>5, <1>6, <1>7

LEMMA FetchHistoryKeeps == CollectorInd /\ FetchHistory => CollectorInd'
<1> SUFFICES ASSUME CollectorInd, FetchHistory PROVE CollectorInd'
  OBVIOUS
<1>1. /\ CollectorTyped /\ Fed /\ Filed /\ SinceCollected /\ PageShown
      /\ Taken \subseteq 1..Len(decoded) /\ 1..Len(decoded) \subseteq 1..MaxDecodes
      /\ Len(decoded) \in Nat /\ Len(feed) \in Nat /\ collected \in Nat /\ age \in Nat
      /\ MaxDecodes \in Nat
  BY CollectorBasics
<1>2. /\ held' = [q \in DecodeKinds |-> IF q = "wefax" THEN held[q] ELSE Pruned(held[q])]
      /\ page' = [page EXCEPT !.history = Snapshot(held', Anyone), !.upto = collected]
      /\ UNCHANGED <<age, picked, decoded, linked, replay, feed, collected, stored, wiped, links>>
  BY DEF FetchHistory
<1>3. Grown /\ Fed'
  BY <1>1, <1>2, GrownSame, FedSame
<1>4. CollectorTyped'
  BY <1>1, <1>2 DEF CollectorTyped
<1>5. /\ \A n \in Taken : Marked(n)
      /\ stored' \in [1..MaxDecodes -> [at : -1..MaxAge, under : SUBSET Stations]]
  BY <1>2, MarkedSame
<1>6. ASSUME NEW q \in DecodeKinds
      PROVE  /\ Row(q, held'[q], decoded, Taken)
             /\ \A j \in DOMAIN held[q] :
                   \/ \E i \in DOMAIN held'[q] : held'[q][i] = held[q][j]
                   \/ q # "wefax" /\ Expired(held[q][j])
  <2>1. Row(q, held[q], decoded, Taken) /\ held[q] \in Seq(HeldEntry)
    BY <1>1 DEF Filed
  <2>2. CASE q = "wefax"
    <3>1. held'[q] = held[q]
      BY <1>2, <2>2
    <3> QED
      BY <2>1, <3>1
  <2>3. CASE q # "wefax"
    <3>1. held'[q] = Pruned(held[q])
      BY <1>2, <2>3
    <3>2. PICK d \in 0..Len(held[q]) : /\ Cut(Pruned(held[q]), held[q], d)
                                       /\ \A i \in 1..d : Expired(held[q][i])
      BY <2>1, PrunedCut
    <3>3. /\ Row(q, Pruned(held[q]), decoded, Taken)
          /\ \A j \in DOMAIN held[q] : j <= d \/ \E i \in DOMAIN Pruned(held[q]) : Pruned(held[q])[i] = held[q][j]
      BY <2>1, <3>2, CutRow
    <3>4. Len(held[q]) \in Nat /\ DOMAIN held[q] = 1..Len(held[q])
      BY <2>1, LenProperties
    <3>5. \A j \in DOMAIN held[q] : j <= d => j \in 1..d
      BY <3>4
    <3> QED
      BY <2>3, <3>1, <3>2, <3>3, <3>5
  <2> QED
    BY <2>2, <2>3
<1>7. held' \in [DecodeKinds -> Seq(HeldEntry)] /\ Len(held'["wefax"]) <= WefaxKept
  <2>1. \A q \in DecodeKinds : held'[q] \in Seq(HeldEntry)
    BY <1>6 DEF Row
  <2>2. held'["wefax"] = held["wefax"]
    BY <1>2 DEF DecodeKinds
  <2> QED
    BY <1>1, <1>2, <2>1, <2>2 DEF Filed
<1>8. Taken' = Taken /\ Filed' /\ SinceCollected'
  <2>1. \A q \in DecodeKinds : Row(q, held'[q], decoded, Taken)
    BY <1>6
  <2>2. \A q \in DecodeKinds : \A j \in DOMAIN held[q] :
              \/ \E i \in DOMAIN held'[q] : held'[q][i] = held[q][j]
              \/ held[q][j].n \in wiped'
              \/ q # "wefax" /\ Expired(held[q][j])
    BY <1>6
  <2> QED
    BY <1>2, <1>3, <1>5, <1>7, <2>1, <2>2, Keeping
<1>9. PageShown'
  <2> DEFINE answer == Snapshot(held', Anyone)
  <2>1. /\ answer \subseteq 1..Len(decoded)
        /\ \A k \in DecodeKinds : \A j \in DOMAIN held'[k] :
              IF k = "ais"
              THEN \E m \in answer :
                      decoded[m].kind = "ais" /\ decoded[m].ship = decoded[held'[k][j].n].ship
              ELSE held'[k][j].n \in answer
    BY <1>6, Snapshots
  <2> HIDE DEF answer
  <2>2. page \in [stream : -1..MaxDecodes, history : SUBSET (1..MaxDecodes), upto : -1..MaxDecodes]
    BY <1>1 DEF PageShown
  <2>3. collected \in -1..MaxDecodes
    BY <1>1 DEF Fed, CollectorTyped
  <2>4. page' = [page EXCEPT !.history = answer, !.upto = collected]
    BY <1>2 DEF answer
  <2>5. /\ page' \in [stream : -1..MaxDecodes, history : SUBSET (1..MaxDecodes), upto : -1..MaxDecodes]
        /\ page'.history = answer /\ page'.upto = collected
    BY <1>1, <2>1, <2>2, <2>3, <2>4
  <2>6. ASSUME NEW i \in 1..collected PROVE Answered(feed[i])'
    <3>0. PICK n : n = feed[i]
      OBVIOUS
    <3>1. n \in Taken /\ n \in 1..Len(decoded) /\ feed'[i] = n /\ decoded' = decoded
      BY <1>1, <1>2, <3>0 DEF Taken
    <3>2. n \in Taken'
      BY <1>8, <3>1
    <3>3. InPlace(n)'
      BY <1>8, <3>2 DEF SinceCollected
    <3>4. CASE MayBeGone(n)'
      BY <3>1, <3>4 DEF Answered
    <3>5. CASE \E j \in DOMAIN held'[decoded[n].kind] : held'[decoded[n].kind][j].n = n
      <4>1. decoded[n].kind \in DecodeKinds
        <5>1. decoded[n] \in Message
          BY <1>1, <3>1, LenProperties DEF CollectorTyped
        <5> QED
          BY <5>1 DEF Message
      <4>2. \/ n \in answer
            \/ decoded[n].kind = "ais" /\ \E m \in answer :
                  decoded[m].kind = "ais" /\ decoded[m].ship = decoded[n].ship
        BY <2>1, <3>5, <4>1
      <4> QED
        BY <2>5, <3>1, <4>2 DEF Answered
    <3> QED
      BY <3>1, <3>3, <3>4, <3>5 DEF InPlace
  <2>7. page'.history \subseteq 1..Len(decoded') /\ page'.upto <= collected'
    <3>1. page'.history = answer /\ page'.upto = collected /\ decoded' = decoded /\ collected' = collected
      BY <1>2, <2>5
    <3> QED
      BY <1>1, <2>1, <3>1
  <2>8. \A i \in 1..page'.upto : Answered(feed[i])'
    BY <2>5, <2>6
  <2> QED
    BY <2>5, <2>7, <2>8 DEF PageShown
<1> QED
  BY <1>3, <1>4, <1>8, <1>9 DEF CollectorInd

-----------------------------------------------------------------------------
LEMMA CollectorStarts == ClientHistoryInit => CollectorInd
<1> SUFFICES ASSUME ClientHistoryInit PROVE CollectorInd
  OBVIOUS
<1>1. MaxAge \in Nat /\ MaxDecodes \in Nat /\ MaxLinks \in Nat /\ WefaxKept \in Nat
  BY ClientHistoryAssumption DEF ClientHistoryAssumption
<1>2. /\ age = 0 /\ picked \in Stations /\ decoded = <<>>
      /\ linked = [s \in Stations |-> FALSE] /\ replay = [s \in Stations |-> {}]
      /\ feed = <<>> /\ collected = 0 /\ held = [k \in DecodeKinds |-> <<>>]
      /\ page = Unopened /\ wiped = {} /\ links = 0
      /\ stored = [n \in 1..MaxDecodes |-> [at |-> -1, under |-> {}]]
  BY DEF ClientHistoryInit
<1>3. Len(<<>>) = 0 /\ <<>> \in Seq(Message) /\ <<>> \in Seq(1..0) /\ <<>> \in Seq(HeldEntry) /\ DOMAIN <<>> = {}
  BY EmptySeq
<1>4. CollectorTyped
  BY <1>1, <1>2, <1>3 DEF CollectorTyped
<1>5. Fed
  BY <1>2, <1>3 DEF Fed
<1>6. Taken = {}
  BY <1>2 DEF Taken
<1>7. Filed
  <2>1. \A k \in DecodeKinds : held[k] = <<>>
    BY <1>2
  <2>2. \A k \in DecodeKinds : Row(k, held[k], decoded, Taken)
    BY <1>3, <2>1 DEF Row
  <2>3. held["wefax"] = <<>>
    BY <2>1 DEF DecodeKinds
  <2> QED
    BY <1>1, <1>2, <1>3, <2>2, <2>3 DEF Filed
<1>8. SinceCollected
  <2>1. [at |-> -1, under |-> {}] \in [at : -1..MaxAge, under : SUBSET Stations]
    BY <1>1
  <2> QED
    BY <1>2, <1>6, <2>1 DEF SinceCollected
<1>9. PageShown
  <2>1. page.history = {} /\ page.upto = -1 /\ page.stream = -1
        /\ page \in [stream : -1..MaxDecodes, history : SUBSET (1..MaxDecodes), upto : -1..MaxDecodes]
    BY <1>1, <1>2 DEF Unopened
  <2> QED
    BY <1>2, <2>1 DEF PageShown
<1> QED
  BY <1>4, <1>5, <1>7, <1>8, <1>9 DEF CollectorInd

LEMMA CollectorKeeps == CollectorInd /\ [ClientHistoryNext]_clientHistoryVars => CollectorInd'
<1> SUFFICES ASSUME CollectorInd, [ClientHistoryNext]_clientHistoryVars PROVE CollectorInd'
  OBVIOUS
<1>1. ASSUME NEW k \in DecodeKinds, NEW s \in Stations, NEW v \in Ships, Decoded(k, s, v)
      PROVE  CollectorInd'
  BY <1>1, DecodedKeeps
<1>2. ASSUME NEW s \in Stations, Link(s) \/ Unlink(s) PROVE CollectorInd'
  BY <1>2, LinkKeeps
<1>3. ASSUME NEW s \in Stations, Sunk(s) PROVE CollectorInd'
  BY <1>3, SunkKeeps
<1>4. ASSUME NEW s \in Stations, SelectRig(s) PROVE CollectorInd'
  BY <1>4, SelectRigKeeps
<1>5. ASSUME NEW k \in DecodeKinds, ClearDecodes(k) PROVE CollectorInd'
  BY <1>5, ClearDecodesKeeps
<1>6. CASE Collect
  BY <1>6, CollectKeeps
<1>7. CASE Ages
  BY <1>7, AgesKeeps
<1>8. CASE FetchHistory
  BY <1>8, FetchHistoryKeeps
<1>9. CASE OpenDecodes
  BY <1>9, OpenDecodesKeeps
<1>10. CASE UNCHANGED clientHistoryVars
  <2>1. CollectorTyped
    BY DEF CollectorInd
  <2> QED
    BY <1>10, <2>1, AsideKeeps DEF clientHistoryVars, CollectorTyped
<1> QED
  BY <1>1, <1>2, <1>3, <1>4, <1>5, <1>6, <1>7, <1>8, <1>9, <1>10 DEF ClientHistoryNext

LEMMA CollectorImplies == CollectorInd => ClientHistoryInv
<1> SUFFICES ASSUME CollectorInd PROVE ClientHistoryInv
  OBVIOUS
<1>1. /\ CollectorTyped /\ Fed /\ Filed /\ SinceCollected /\ PageShown
      /\ Len(decoded) \in Nat /\ Len(feed) \in Nat /\ collected \in Nat
  BY CollectorBasics
<1>2. ClientHistoryTypeOK
  <2>1. ToSet(decoded) \subseteq Message
    BY <1>1, LenProperties DEF CollectorTyped, ToSet
  <2>2. ToSet(feed) \subseteq 1..Len(decoded)
    BY <1>1, LenProperties DEF Fed, ToSet
  <2>3. \A k \in DecodeKinds : ToSet(held[k]) \subseteq HeldEntry
    <3> SUFFICES ASSUME NEW k \in DecodeKinds PROVE ToSet(held[k]) \subseteq HeldEntry
      OBVIOUS
    <3>1. held[k] \in Seq(HeldEntry)
      BY <1>1 DEF Filed
    <3> QED
      BY <3>1, LenProperties DEF ToSet
  <2>4. page.stream \in -1..MaxDecodes /\ page.upto \in -1..MaxDecodes
    BY <1>1 DEF PageShown
  <2> QED
    BY <1>1, <2>1, <2>2, <2>3, <2>4 DEF ClientHistoryTypeOK, CollectorTyped, Fed, Filed
<1>3. CollectedStay
  <2> SUFFICES ASSUME NEW i \in 1..collected
               PROVE  feed[i] \in Holds(decoded[feed[i]].kind) \/ MayBeGone(feed[i])
    BY DEF CollectedStay
  <2>1. InPlace(feed[i])
    BY <1>1 DEF SinceCollected, Taken
  <2> QED
    BY <2>1 DEF InPlace, Holds, ToSet
<1>4. PageMisses
  <2> SUFFICES ASSUME page.upto # -1, NEW i \in 1..page.stream
               PROVE  \/ feed[i] \in page.history \/ i > page.upto \/ MayBeGone(feed[i])
                      \/ decoded[feed[i]].kind = "ais" /\ \E m \in page.history :
                           decoded[m].kind = "ais" /\ decoded[m].ship = decoded[feed[i]].ship
    BY DEF PageMisses
  <2>1. page.upto \in Int /\ page.stream \in Int
    BY <1>1 DEF PageShown
  <2>2. i > page.upto \/ i \in 1..page.upto
    BY <2>1
  <2>3. i \in 1..page.upto => Answered(feed[i])
    BY <1>1 DEF PageShown
  <2> QED
    BY <2>2, <2>3 DEF Answered
<1>5. ASSUME \A e \in ToSet(held["ais"]) : e.of # Anyone PROVE NewestShown
  <2> DEFINE row == held["ais"]
  <2>1. Row("ais", row, decoded, Taken)
    BY <1>1 DEF Filed, DecodeKinds
  <2>2. Len(row) \in Nat /\ DOMAIN row = 1..Len(row) /\ \A i \in DOMAIN row : row[i] \in HeldEntry
    BY <2>1, LenProperties DEF Row
  <2>3. \A i \in DOMAIN row : row[i].of # Anyone /\ row[i].n \in Int
    BY <1>5, <2>1, <2>2 DEF ToSet, Row
  <2>4. ASSUME NEW i \in LatestOf(row, DOMAIN row), NEW j \in DOMAIN row,
               decoded[row[j].n].ship = decoded[row[i].n].ship
        PROVE  row[j].n <= row[i].n
    <3>1. i \in DOMAIN row /\ ~(j > i)
      BY <2>4 DEF LatestOf
    <3>2. j < i \/ j = i
      BY <2>2, <3>1
    <3>3. j < i => row[j].n < row[i].n
      BY <2>1, <2>3, <3>1 DEF Row
    <3> QED
      BY <2>3, <3>1, <3>2, <3>3
  <2> QED
    BY <2>4 DEF NewestShown, ToSet
<1> QED
  BY <1>2, <1>3, <1>4, <1>5 DEF ClientHistoryInv

\* What the client collects stays until it was cleared, pushed out or is older than the retention
\* of a rig selected since; a page that opens its stream first misses nothing else, and of each
\* vessel it is shown the newest report while nothing was replayed.
THEOREM CollectorHolds == ClientHistorySpec => []ClientHistoryInv
<1>1. ClientHistoryInit => CollectorInd
  BY CollectorStarts
<1>2. CollectorInd /\ [ClientHistoryNext]_clientHistoryVars => CollectorInd'
  BY CollectorKeeps
<1>3. CollectorInd => ClientHistoryInv
  BY CollectorImplies
<1> QED
  BY <1>1, <1>2, <1>3, PTL DEF ClientHistorySpec

(***************************************************************************)
(* The audio sockets.  A packet for the wrong rig is taken by a task that  *)
(* is still in line since its rig was selected; it leaves the line with    *)
(* it, and each change of the selection leaves one such task at most.      *)
(***************************************************************************)
Stale == {r \in ToSet(line) : r # chosen}

SocketTyped ==
    /\ socket \in [Sockets -> [at : {"absent", "waiting", "informing", "streaming", "pushing"},
                               of : Sources \cup {Everything}, waited : 0..Waits]]
    /\ offered \subseteq Sources /\ hears \in [Sockets -> BOOLEAN]
    /\ informed \in BOOLEAN /\ chosen \in Radios /\ joined \subseteq Radios
    /\ strayed \in Nat /\ moves \in 0..MaxMoves

Queued ==
    /\ mic \in Seq(Radios) /\ Len(mic) <= MicRoom
    /\ \A c \in Sockets : socket[c].at = "pushing" => Len(mic) = MicRoom

InLine ==
    /\ line \in Seq(Radios) /\ IsInjective(line) /\ ToSet(line) \subseteq joined
    /\ IsFiniteSet(Stale) /\ missent \in Nat /\ switches \in Nat
    /\ missent + Cardinality(Stale) <= switches

\* Whoever waits for a source has named one; whoever plays a rig's is on it.
OnItsSource ==
    \A c \in Sockets :
        /\ socket[c].at = "waiting" => socket[c].of \in Sources
        /\ c \in Running /\ socket[c].of \in Rest => hears[c] /\ socket[c].of \in offered

Counted == clients = Cardinality(Running) + strayed

SocketInd == SocketTyped /\ Queued /\ InLine /\ OnItsSource /\ Counted

LEMMA SocketStarts == SocketInit => SocketInd
<1> SUFFICES ASSUME SocketInit PROVE SocketInd
  OBVIOUS
<1> USE AudioSocketAssumption DEF AudioSocketAssumption, SocketInit
<1>1. SocketTyped
  <2>1. Absent \in [at : {"absent", "waiting", "informing", "streaming", "pushing"},
                    of : Sources \cup {Everything}, waited : 0..Waits]
    BY DEF Absent
  <2>2. socket \in [Sockets -> [at : {"absent", "waiting", "informing", "streaming", "pushing"},
                               of : Sources \cup {Everything}, waited : 0..Waits]]
        /\ hears \in [Sockets -> BOOLEAN]
    BY <2>1
  <2>3. 0 \in 0..MaxMoves /\ MaxMoves \in Nat
    OBVIOUS
  <2>4. offered \subseteq Sources /\ informed \in BOOLEAN /\ chosen \in Radios /\ joined \subseteq Radios
        /\ strayed \in Nat /\ moves \in 0..MaxMoves
    BY <2>3
  <2> QED
    BY <2>2, <2>4 DEF SocketTyped
<1>2. <<>> \in Seq(Radios) /\ Len(<<>>) = 0 /\ ToSet(<<>>) = {} /\ IsInjective(<<>>)
  BY EmptySeq DEF ToSet, IsInjective
<1>3. Queued
  BY <1>2 DEF Queued, Absent
<1>4. Stale = {}
  BY <1>2 DEF Stale
<1>5. InLine
  BY <1>2, <1>4, FS_EmptySet DEF InLine
<1>6. Running = {}
  BY DEF Running, Absent
<1>7. OnItsSource
  BY <1>6 DEF OnItsSource, Absent
<1>8. Counted
  BY <1>6, FS_EmptySet DEF Counted
<1> QED
  BY <1>1, <1>3, <1>5, <1>7, <1>8 DEF SocketInd

-----------------------------------------------------------------------------
(* The line of the tasks.                                                   *)

LEMMA Leaving ==
    ASSUME NEW tasks \in Seq(Radios), IsInjective(tasks), NEW r \in Radios
    PROVE  /\ LeftBy(r, tasks) \in Seq(Radios) /\ IsInjective(LeftBy(r, tasks))
           /\ ToSet(LeftBy(r, tasks)) = ToSet(tasks) \ {r}
<1>1. CASE r \in ToSet(tasks)
  <2> DEFINE k == CHOOSE i \in DOMAIN tasks : tasks[i] = r
  <2>1. k \in DOMAIN tasks /\ tasks[k] = r
    BY <1>1 DEF ToSet
  <2>2. LeftBy(r, tasks) = RemoveAt(tasks, k)
    BY <1>1 DEF LeftBy
  <2> HIDE DEF k
  <2> QED
    BY <2>1, <2>2, RemoveAtSet
<1>2. CASE r \notin ToSet(tasks)
  BY <1>2 DEF LeftBy
<1> QED
  BY <1>1, <1>2

LEMMA Rounds ==
    ASSUME NEW tasks \in Seq(Radios), IsInjective(tasks), NEW r \in Radios
    PROVE  /\ Round(r, tasks) \in Seq(Radios) /\ IsInjective(Round(r, tasks))
           /\ ToSet(Round(r, tasks)) = (ToSet(tasks) \ {r}) \cup (IF chosen = r THEN {r} ELSE {})
<1> DEFINE left == LeftBy(r, tasks)
<1>1. left \in Seq(Radios) /\ IsInjective(left) /\ ToSet(left) = ToSet(tasks) \ {r}
  BY Leaving
<1>2. Round(r, tasks) = IF chosen = r THEN Append(left, r) ELSE left
  BY DEF Round
<1> HIDE DEF left
<1> QED
  BY <1>1, <1>2, AppendSet

\* A line in which nobody is stale who was not before.
LEMMA LineKeeps ==
    ASSUME InLine, line' \in Seq(Radios), IsInjective(line'), ToSet(line') \subseteq joined',
           Stale' \subseteq Stale, UNCHANGED <<missent, switches>>
    PROVE  InLine'
<1>1. IsFiniteSet(Stale') /\ Cardinality(Stale') <= Cardinality(Stale) /\ Cardinality(Stale) \in Nat
      /\ Cardinality(Stale') \in Nat
  BY FS_Subset, FS_CardinalityType DEF InLine
<1> QED
  BY <1>1 DEF InLine

LEMMA RoundKeeps ==
    ASSUME InLine, NEW r \in joined', joined \subseteq joined', joined' \subseteq Radios,
           line' = Round(r, line), chosen' = chosen, UNCHANGED <<missent, switches>>
    PROVE  InLine'
<1>1. /\ line' \in Seq(Radios) /\ IsInjective(line')
      /\ ToSet(line') = (ToSet(line) \ {r}) \cup (IF chosen = r THEN {r} ELSE {})
  BY Rounds DEF InLine
<1>2. ToSet(line') \subseteq joined'
  BY <1>1 DEF InLine
<1>3. Stale' \subseteq Stale
  BY <1>1 DEF Stale
<1> QED
  BY <1>1, <1>2, <1>3, LineKeeps

\* Sockets that are counted.
LEMMA RunningFinite == IsFiniteSet(Running) /\ Cardinality(Running) \in Nat
<1>1. Running \subseteq Sockets
  BY DEF Running
<1> QED
  BY <1>1, AudioSocketAssumption, FS_Subset, FS_CardinalityType DEF AudioSocketAssumption

\* What a step changes of one socket.
SocketStates == [at : {"absent", "waiting", "informing", "streaming", "pushing"},
                 of : Sources \cup {Everything}, waited : 0..Waits]

\* A socket that was not counted begins, one that was counted ends.
LEMMA OneMore ==
    ASSUME NEW c \in Sockets, c \notin Running, Running' = Running \cup {c}
    PROVE  Cardinality(Running') = Cardinality(Running) + 1
BY RunningFinite, FS_AddElement

LEMMA OneLess ==
    ASSUME NEW c \in Sockets, c \in Running, Running' = Running \ {c}
    PROVE  Cardinality(Running') = Cardinality(Running) - 1
BY RunningFinite, FS_RemoveElement

\* Sockets that play what they played before.
LEMMA ListenAlike ==
    ASSUME OnItsSource, Running' = Running, UNCHANGED <<hears, offered>>,
           \A c \in Sockets : /\ socket'[c].of = socket[c].of
                              /\ (socket'[c].at = "waiting" => socket[c].at = "waiting")
    PROVE  OnItsSource'
<1> SUFFICES ASSUME NEW c \in Sockets
             PROVE  /\ socket'[c].at = "waiting" => socket'[c].of \in Sources
                    /\ c \in Running /\ socket'[c].of \in Rest => hears'[c] /\ socket'[c].of \in offered'
  BY DEF OnItsSource
<1>1. socket'[c].of = socket[c].of /\ (socket'[c].at = "waiting" => socket[c].at = "waiting")
  OBVIOUS
<1>2. /\ socket[c].at = "waiting" => socket[c].of \in Sources
      /\ c \in Running /\ socket[c].of \in Rest => hears[c] /\ socket[c].of \in offered
  BY DEF OnItsSource
<1> QED
  BY <1>1, <1>2

\* A socket that plays or is stopped and has named the same.
SameSource ==
    /\ socket' \in [Sockets -> SocketStates]
    /\ \A c \in Sockets : /\ socket'[c].of = socket[c].of
                         /\ (socket'[c].at = "waiting" => socket[c].at = "waiting")

LEMMA PlaysOn ==
    ASSUME SocketTyped, NEW d \in Sockets, NEW a \in {"streaming", "pushing"},
           socket' = [socket EXCEPT ![d].at = a]
    PROVE  SameSource
<1>1. socket \in [Sockets -> SocketStates] /\ socket[d] \in SocketStates
  BY DEF SocketTyped, SocketStates
<1>2. [socket[d] EXCEPT !.at = a] \in SocketStates /\ [socket[d] EXCEPT !.at = a].of = socket[d].of
      /\ [socket[d] EXCEPT !.at = a].at = a
  BY <1>1 DEF SocketStates
<1>3. socket' = [socket EXCEPT ![d] = [socket[d] EXCEPT !.at = a]]
  BY <1>1
<1>4. socket' \in [Sockets -> SocketStates]
  BY <1>1, <1>2, <1>3
<1>5. ASSUME NEW c \in Sockets
      PROVE  /\ socket'[c].of = socket[c].of
             /\ (socket'[c].at = "waiting" => socket[c].at = "waiting")
  BY <1>1, <1>2, <1>3
<1> QED
  BY <1>4, <1>5 DEF SameSource

LEMMA LineStays == InLine /\ UNCHANGED pumpVars => InLine'
<1> SUFFICES ASSUME InLine, UNCHANGED pumpVars PROVE InLine'
  OBVIOUS
<1>1. line' = line /\ Stale' = Stale /\ joined' = joined /\ missent' = missent /\ switches' = switches
  BY DEF pumpVars, Stale
<1> QED
  BY <1>1 DEF InLine

LEMMA OneMove == SocketTyped /\ Move => moves' \in 0..MaxMoves
BY AudioSocketAssumption DEF AudioSocketAssumption, SocketTyped, Move

-----------------------------------------------------------------------------
(* One lemma for each action.                                               *)

LEMMA AskAudioKeeps ==
    ASSUME SocketInd, NEW c \in Sockets, NEW s \in Sources \cup {Everything}, AskAudio(c, s)
    PROVE  SocketInd'
<1> USE DEF SocketInd
<1>1. socket[c].at = "absent" /\ c \notin Running
  BY DEF AskAudio, Absent, Running
<1>2. UNCHANGED <<offered, informed, pumpVars, mic, strayed>> /\ 0 \in 0..Waits
  BY AudioSocketAssumption DEF AskAudio, worldVars, AudioSocketAssumption
<1>3. InLine'
  BY <1>2, LineStays
<1>4. /\ \/ socket' = [socket EXCEPT ![c] = [at |-> "informing", of |-> s, waited |-> 0]]
            /\ s = Everything /\ hears' = [hears EXCEPT ![c] = TRUE] /\ clients' = clients + 1
         \/ socket' = [socket EXCEPT ![c] = [at |-> "waiting", of |-> s, waited |-> 0]]
            /\ s # Everything /\ hears' = hears /\ clients' = clients
  BY DEF AskAudio
<1>5. SocketTyped'
  <2>1. moves' \in 0..MaxMoves
    BY OneMove DEF AskAudio
  <2>2. /\ [at |-> "informing", of |-> s, waited |-> 0] \in SocketStates
        /\ [at |-> "waiting", of |-> s, waited |-> 0] \in SocketStates
    BY <1>2 DEF SocketStates
  <2>3. socket' \in [Sockets -> SocketStates] /\ hears' \in [Sockets -> BOOLEAN]
    <3>1. socket \in [Sockets -> SocketStates] /\ hears \in [Sockets -> BOOLEAN]
      BY DEF SocketTyped, SocketStates
    <3> QED
      BY <1>4, <2>2, <3>1
  <2> QED
    BY <1>2, <2>1, <2>3 DEF SocketTyped, SocketStates, pumpVars
<1>6. Queued'
  BY <1>2, <1>4 DEF Queued, SocketTyped
<1>7. OnItsSource'
  BY <1>1, <1>2, <1>4, AudioSocketAssumption
  DEF AudioSocketAssumption, OnItsSource, Running, SocketTyped, Rest
<1>8. Counted'
  <2>1. CASE s = Everything
    <3>1. Running' = Running \cup {c}
      BY <1>4, <2>1 DEF Running, SocketTyped
    <3>2. /\ Cardinality(Running') = Cardinality(Running) + 1 /\ Cardinality(Running) \in Nat
          /\ clients' = clients + 1 /\ strayed' = strayed /\ strayed \in Nat
      BY <1>1, <1>2, <1>4, <2>1, <3>1, OneMore, RunningFinite DEF SocketTyped
    <3> QED
      BY <3>2 DEF Counted
  <2>2. CASE s # Everything
    <3>1. Running' = Running
      BY <1>1, <1>4, <2>2 DEF Running, SocketTyped
    <3> QED
      BY <1>2, <1>4, <2>2, <3>1 DEF Counted
  <2> QED
    BY <2>1, <2>2
<1> QED
  BY <1>3, <1>5, <1>6, <1>7, <1>8

LEMMA LookForSourceKeeps ==
    ASSUME SocketInd, NEW c \in Sockets, LookForSource(c)
    PROVE  SocketInd'
<1> USE DEF SocketInd
<1>1. socket[c].at = "waiting" /\ c \notin Running /\ socket[c].of \in Sources
      /\ socket[c].waited \in 0..Waits
  BY DEF LookForSource, Running, OnItsSource, SocketTyped
<1>2. UNCHANGED <<offered, informed, pumpVars, mic, strayed, moves>> /\ Waits \in Nat
  BY AudioSocketAssumption DEF LookForSource, worldVars, AudioSocketAssumption
<1>3. InLine'
  BY <1>2, LineStays
<1>a. CASE socket[c].of \in offered
  <2>1. /\ socket' = [socket EXCEPT ![c].at = "informing", ![c].waited = 0]
        /\ hears' = [hears EXCEPT ![c] = TRUE] /\ clients' = clients + 1
    BY <1>a DEF LookForSource
  <2>2. SocketTyped'
    <3>0. socket \in [Sockets -> SocketStates] /\ socket[c] \in SocketStates
          /\ hears \in [Sockets -> BOOLEAN] /\ 0 \in 0..Waits
      BY <1>2 DEF SocketTyped, SocketStates
    <3>1. [socket[c] EXCEPT !.at = "informing", !.waited = 0] \in SocketStates
      BY <3>0 DEF SocketStates
    <3>2. socket' = [socket EXCEPT ![c] = [socket[c] EXCEPT !.at = "informing", !.waited = 0]]
      BY <2>1 DEF SocketTyped
    <3>3. socket' \in [Sockets -> SocketStates] /\ hears' \in [Sockets -> BOOLEAN]
      BY <2>1, <3>0, <3>1, <3>2
    <3> QED
      BY <1>2, <3>3 DEF SocketTyped, SocketStates, pumpVars
  <2>3. Queued'
    BY <1>2, <2>1 DEF Queued, SocketTyped
  <2>4. OnItsSource'
    BY <1>1, <1>2, <1>a, <2>1 DEF OnItsSource, Running, SocketTyped
  <2>5. Running' = Running \cup {c}
    BY <2>1 DEF Running, SocketTyped
  <2>6. Counted'
    <3>1. /\ Cardinality(Running') = Cardinality(Running) + 1 /\ Cardinality(Running) \in Nat
          /\ clients' = clients + 1 /\ strayed' = strayed /\ strayed \in Nat
      BY <1>1, <1>2, <2>1, <2>5, OneMore, RunningFinite DEF SocketTyped
    <3> QED
      BY <3>1 DEF Counted
  <2> QED
    BY <1>3, <2>2, <2>3, <2>4, <2>6
<1>b. CASE socket[c].of \notin offered
  <2>1. /\ hears' = hears /\ clients' = clients
        /\ \/ socket' = [socket EXCEPT ![c].waited = @ + 1] /\ socket[c].waited < Waits
           \/ socket' = [socket EXCEPT ![c] = Absent]
    BY <1>b DEF LookForSource
  <2>2. SocketTyped'
    <3>1. CASE socket' = [socket EXCEPT ![c].waited = @ + 1] /\ socket[c].waited < Waits
      <4>1. socket[c].waited + 1 \in 0..Waits
        BY <1>1, <1>2, <3>1
      <4> QED
        BY <1>2, <2>1, <3>1, <4>1 DEF SocketTyped, pumpVars
    <3>2. CASE socket' = [socket EXCEPT ![c] = Absent]
      <4>1. Absent \in SocketStates /\ socket \in [Sockets -> SocketStates]
        BY <1>2 DEF Absent, SocketStates, SocketTyped
      <4>2. socket' \in [Sockets -> SocketStates] /\ UNCHANGED pumpVars
        BY <1>2, <3>2, <4>1
      <4> QED
        BY <1>2, <2>1, <4>2 DEF SocketTyped, pumpVars, SocketStates
    <3> QED
      BY <2>1, <3>1, <3>2
  <2>3. Queued'
    BY <1>2, <2>1 DEF Queued, SocketTyped, Absent
  <2>4. Running' = Running
    BY <1>1, <2>1 DEF Running, SocketTyped, Absent
  <2>5. OnItsSource'
    BY <1>1, <1>2, <2>1, <2>4 DEF OnItsSource, SocketTyped, Absent, Running
  <2>6. Counted'
    BY <1>2, <2>1, <2>4 DEF Counted
  <2> QED
    BY <1>3, <2>2, <2>3, <2>5, <2>6
<1> QED
  BY <1>a, <1>b

LEMMA InformedKeeps ==
    ASSUME SocketInd, NEW c \in Sockets, Informed(c)
    PROVE  SocketInd'
<1> USE DEF SocketInd
<1>1. /\ socket[c].at = "informing" /\ socket' = [socket EXCEPT ![c].at = "streaming"]
      /\ UNCHANGED <<offered, informed, pumpVars, hears, mic, clients, strayed, moves>>
  BY DEF Informed, worldVars
<1>2. InLine'
  BY <1>1, LineStays
<1>3. SocketTyped'
  BY <1>1 DEF SocketTyped, pumpVars
<1>4. Queued'
  BY <1>1 DEF Queued, SocketTyped
<1>5. Running' = Running
  BY <1>1 DEF Running, SocketTyped
<1>6. OnItsSource'
  BY <1>1, <1>5 DEF OnItsSource, SocketTyped, Running
<1> QED
  BY <1>1, <1>2, <1>3, <1>4, <1>5, <1>6 DEF Counted

\* A counted socket that is absent after the step.
LEMMA EndingKeeps ==
    ASSUME SocketInd, NEW c \in Running, socket' = [socket EXCEPT ![c] = Absent],
           hears' = [hears EXCEPT ![c] = FALSE], UNCHANGED <<offered, informed, pumpVars, mic>>,
           moves' \in 0..MaxMoves, strayed' \in Nat,
           clients' - strayed' = clients - strayed - 1, clients' \in Int
    PROVE  SocketInd'
<1> USE DEF SocketInd
<1>1. c \in Sockets /\ Waits \in Nat
  BY AudioSocketAssumption DEF AudioSocketAssumption, Running
<1>2. InLine'
  BY LineStays
<1>3. Absent \in SocketStates
  BY <1>1 DEF Absent, SocketStates
<1>4. SocketTyped'
  BY <1>1, <1>3 DEF SocketTyped, pumpVars, SocketStates
<1>5. Queued'
  BY <1>1 DEF Queued, SocketTyped, Absent
<1>6. Running' = Running \ {c}
  BY <1>1 DEF Running, SocketTyped, Absent
<1>7. OnItsSource'
  BY <1>1, <1>6 DEF OnItsSource, SocketTyped, Absent, Running
<1>8. Counted'
  <2>1. /\ Cardinality(Running') = Cardinality(Running) - 1 /\ Cardinality(Running) \in Nat
        /\ strayed \in Nat /\ clients = Cardinality(Running) + strayed
    BY <1>1, <1>6, OneLess, RunningFinite DEF SocketTyped, Counted
  <2> QED
    BY <2>1 DEF Counted
<1> QED
  BY <1>2, <1>4, <1>5, <1>7, <1>8

LEMMA InformingFailsKeeps ==
    ASSUME SocketInd, NEW c \in Sockets, InformingFails(c)
    PROVE  SocketInd'
<1>1. /\ c \in Running /\ moves' \in 0..MaxMoves /\ strayed' = strayed + 1 /\ clients' = clients
      /\ strayed \in Nat /\ clients \in Nat
  BY OneMove, RunningFinite DEF InformingFails, Running, SocketInd, SocketTyped, Counted
<1>2. strayed' \in Nat /\ clients' - strayed' = clients - strayed - 1 /\ clients' \in Int
  BY <1>1
<1> QED
  BY <1>1, <1>2, EndingKeeps DEF InformingFails, worldVars

LEMMA SocketEndsKeeps ==
    ASSUME SocketInd, NEW c \in Sockets, SocketEnds(c)
    PROVE  SocketInd'
<1>1. /\ c \in Running /\ moves' \in 0..MaxMoves /\ strayed' = strayed /\ clients' = clients - 1
      /\ strayed \in Nat /\ clients \in Nat
  BY OneMove, RunningFinite DEF SocketEnds, Running, SocketInd, SocketTyped, Counted
<1>2. strayed' \in Nat /\ clients' - strayed' = clients - strayed - 1 /\ clients' \in Int
  BY <1>1
<1> QED
  BY <1>1, <1>2, EndingKeeps DEF SocketEnds, worldVars

LEMMA MicPacketKeeps ==
    ASSUME SocketInd, NEW c \in Sockets, MicPacket(c)
    PROVE  SocketInd'
<1> USE DEF SocketInd
<1>1. /\ socket[c].at = "streaming"
      /\ UNCHANGED <<offered, informed, pumpVars, hears, clients, strayed>>
      /\ \/ Len(mic) < MicRoom /\ mic' = Append(mic, chosen) /\ socket' = socket
         \/ /\ Len(mic) >= MicRoom /\ mic' = mic
            /\ socket' = [socket EXCEPT ![c].at = "pushing"]
  BY AudioSocketAssumption DEF MicPacket, worldVars, Queued, AudioSocketAssumption
<1>2. InLine'
  BY <1>1, LineStays
<1>3. moves' \in 0..MaxMoves
  BY OneMove DEF MicPacket
<1>0. SameSource
  <2>1. CASE socket' = socket
    BY <2>1 DEF SameSource, SocketTyped, SocketStates
  <2>2. CASE socket' = [socket EXCEPT ![c].at = "pushing"]
    BY <2>2, PlaysOn
  <2> QED
    BY <1>1, <2>1, <2>2
<1>4. SocketTyped'
  BY <1>0, <1>1, <1>3 DEF SocketTyped, SocketStates, SameSource, pumpVars
<1>5. Queued'
  <2>1. CASE Len(mic) < MicRoom /\ mic' = Append(mic, chosen) /\ socket' = socket
    <3>1. Len(mic') = Len(mic) + 1 /\ mic' \in Seq(Radios) /\ Len(mic) \in Nat /\ MicRoom \in Nat
      BY <2>1, AudioSocketAssumption DEF Queued, SocketTyped, AudioSocketAssumption
    <3>2. \A d \in Sockets : socket[d].at # "pushing"
      BY <2>1, <3>1 DEF Queued
    <3> QED
      BY <2>1, <3>1, <3>2 DEF Queued
  <2>2. CASE Len(mic) >= MicRoom /\ mic' = mic /\ socket' = [socket EXCEPT ![c].at = "pushing"]
    <3>1. Len(mic) = MicRoom
      BY <2>2, AudioSocketAssumption DEF Queued, AudioSocketAssumption
    <3> QED
      BY <2>2, <3>1 DEF Queued
  <2> QED
    BY <1>1, <2>1, <2>2
<1>6. Running' = Running
  BY <1>1 DEF Running, SocketTyped
<1>7. OnItsSource'
  BY <1>0, <1>1, <1>6, ListenAlike DEF SameSource
<1> QED
  BY <1>1, <1>2, <1>4, <1>5, <1>6, <1>7 DEF Counted

-----------------------------------------------------------------------------
LEMMA TakeMicKeeps ==
    ASSUME SocketInd, TakeMic
    PROVE  SocketInd'
<1> USE DEF SocketInd
<1> DEFINE r == Head(line)
<1>1. /\ line # <<>> /\ mic # <<>> /\ line' = Round(r, line)
      /\ missent' = missent + (IF r \in {chosen, Head(mic)} THEN 0 ELSE 1)
      /\ UNCHANGED <<offered, informed, chosen, joined, switches, hears, clients, strayed, moves>>
  BY DEF TakeMic
<1>2. r \in Radios /\ r \in ToSet(line) /\ line \in Seq(Radios) /\ IsInjective(line)
  BY <1>1 DEF InLine, ToSet
<1>3. \/ \E c \in Sockets : /\ socket[c].at = "pushing" /\ mic' = Append(Tail(mic), chosen)
                            /\ socket' = [socket EXCEPT ![c].at = "streaming"]
      \/ /\ \A c \in Sockets : socket[c].at # "pushing"
         /\ mic' = Tail(mic) /\ socket' = socket
  BY DEF TakeMic
<1> HIDE DEF r
<1>4. Tail(mic) \in Seq(Radios) /\ Len(Tail(mic)) = Len(mic) - 1 /\ Len(mic) \in Nat /\ Len(mic) > 0
  <2>1. mic \in Seq(Radios) /\ mic # <<>>
    BY <1>1 DEF Queued
  <2>2. Len(mic) \in Nat /\ Len(mic) # 0
    BY <2>1, EmptySeq, LenProperties
  <2>3. Tail(mic) \in Seq(Radios) /\ Len(Tail(mic)) = Len(mic) - 1
    BY <2>1, HeadTailProperties
  <2> QED
    BY <2>2, <2>3
<1>0. SameSource
  <2>1. CASE socket' = socket
    BY <2>1 DEF SameSource, SocketTyped, SocketStates
  <2>2. ASSUME NEW c \in Sockets, socket' = [socket EXCEPT ![c].at = "streaming"] PROVE SameSource
    BY <2>2, PlaysOn
  <2> QED
    BY <1>3, <2>1, <2>2
<1>5. SocketTyped'
  BY <1>0, <1>1 DEF SocketTyped, SocketStates, SameSource
<1>6. Queued'
  <2>1. Len(mic') <= Len(mic) /\ mic' \in Seq(Radios)
    <3>1. chosen \in Radios
      BY DEF SocketTyped
    <3>2. Append(Tail(mic), chosen) \in Seq(Radios) /\ Len(Append(Tail(mic), chosen)) = Len(mic)
      BY <1>4, <3>1, AppendProperties
    <3> QED
      BY <1>3, <1>4, <3>2
  <2>2. ASSUME NEW c \in Sockets, socket'[c].at = "pushing" PROVE Len(mic') = MicRoom
    <3>1. PICK d \in Sockets : /\ socket[d].at = "pushing" /\ mic' = Append(Tail(mic), chosen)
                               /\ socket' = [socket EXCEPT ![d].at = "streaming"]
      BY <1>3, <2>2
    <3>2. Len(mic') = Len(mic)
      BY <1>4, <3>1 DEF SocketTyped
    <3> QED
      BY <3>1, <3>2 DEF Queued
  <2>3. Len(mic') \in Nat /\ MicRoom \in Nat /\ Len(mic) <= MicRoom
    BY <2>1, AudioSocketAssumption DEF Queued, AudioSocketAssumption
  <2>4. Len(mic') <= MicRoom
    BY <1>4, <2>1, <2>3
  <2> QED
    BY <2>1, <2>2, <2>4 DEF Queued
<1>7. Running' = Running
  BY <1>3 DEF Running, SocketTyped
<1>8. OnItsSource'
  BY <1>0, <1>1, <1>7, ListenAlike DEF SameSource
<1>9. InLine'
  <2>1. /\ line' \in Seq(Radios) /\ IsInjective(line')
        /\ ToSet(line') = (ToSet(line) \ {r}) \cup (IF chosen = r THEN {r} ELSE {})
    BY <1>1, <1>2, Rounds
  <2>2. ToSet(line') \subseteq joined'
    BY <1>1, <1>2, <2>1 DEF InLine
  <2>3. CASE chosen = r
    <3>1. Stale' \subseteq Stale /\ missent' = missent
      BY <1>1, <2>1, <2>3 DEF Stale, InLine
    <3> QED
      BY <1>1, <2>1, <2>2, <3>1, LineKeeps
  <2>4. CASE chosen # r
    <3>1. Stale' = Stale \ {r} /\ r \in Stale
      BY <1>1, <1>2, <2>1, <2>4 DEF Stale
    <3>2. IsFiniteSet(Stale') /\ Cardinality(Stale') = Cardinality(Stale) - 1
          /\ Cardinality(Stale) \in Nat
      BY <3>1, FS_RemoveElement, FS_CardinalityType DEF InLine
    <3>3. missent' \in Nat /\ missent' <= missent + 1
      BY <1>1 DEF InLine
    <3>4. missent' + Cardinality(Stale') <= switches'
      BY <1>1, <3>2, <3>3 DEF InLine
    <3> QED
      BY <1>1, <2>1, <2>2, <3>2, <3>3, <3>4 DEF InLine
  <2> QED
    BY <2>3, <2>4
<1> QED
  BY <1>1, <1>5, <1>6, <1>7, <1>8, <1>9 DEF Counted

\* The sockets take no part in what the tasks do.
LEMMA SocketsStay ==
    ASSUME SocketInd, InLine', UNCHANGED <<socket, offered, hears, mic, clients, strayed>>,
           informed' \in BOOLEAN, chosen' \in Radios, joined' \subseteq Radios, moves' \in 0..MaxMoves
    PROVE  SocketInd'
<1> USE DEF SocketInd
<1>1. SocketTyped'
  BY DEF SocketTyped
<1>2. Queued'
  BY DEF Queued
<1>3. Running' = Running
  BY DEF Running
<1>4. OnItsSource'
  BY <1>3 DEF OnItsSource
<1> QED
  BY <1>1, <1>2, <1>3, <1>4 DEF Counted

LEMMA WokenKeeps ==
    ASSUME SocketInd, NEW r \in Radios, Woken(r)
    PROVE  SocketInd'
<1>1. InLine /\ r \in joined' /\ joined \subseteq joined' /\ joined' \subseteq Radios
  BY DEF SocketInd, Woken, SocketTyped
<1>2. InLine'
  BY <1>1, RoundKeeps DEF Woken
<1>3. moves' \in 0..MaxMoves
  BY OneMove DEF SocketInd, Woken
<1> QED
  BY <1>2, <1>3, SocketsStay DEF SocketInd, Woken, SocketTyped

LEMMA SwitchKeeps ==
    ASSUME SocketInd, NEW r \in Radios, Switch(r)
    PROVE  SocketInd'
<1>1. moves' \in 0..MaxMoves
  BY OneMove DEF SocketInd, Switch
<1>2. InLine /\ line' = line /\ joined' = joined /\ missent' = missent /\ switches' = switches + 1
  BY DEF SocketInd, Switch
<1>3. InLine'
  <2>1. Stale' \subseteq Stale \cup {chosen}
    BY <1>2 DEF Stale
  <2>2. /\ IsFiniteSet(Stale \cup {chosen})
        /\ Cardinality(Stale \cup {chosen}) <= Cardinality(Stale) + 1
        /\ Cardinality(Stale) \in Nat /\ Cardinality(Stale \cup {chosen}) \in Nat
    <3>1. IsFiniteSet(Stale) /\ Cardinality(Stale) \in Nat
      BY <1>2, FS_CardinalityType DEF InLine
    <3>2. /\ IsFiniteSet(Stale \cup {chosen})
          /\ \/ Cardinality(Stale \cup {chosen}) = Cardinality(Stale)
             \/ Cardinality(Stale \cup {chosen}) = Cardinality(Stale) + 1
      BY <3>1, FS_AddElement
    <3> QED
      BY <3>1, <3>2
  <2>3. /\ IsFiniteSet(Stale') /\ Cardinality(Stale') <= Cardinality(Stale \cup {chosen})
        /\ Cardinality(Stale') \in Nat
    BY <2>1, <2>2, FS_Subset, FS_CardinalityType
  <2>4. switches' \in Nat /\ missent' + Cardinality(Stale') <= switches'
    BY <1>2, <2>2, <2>3 DEF InLine
  <2> QED
    BY <1>2, <2>3, <2>4 DEF InLine
<1> QED
  BY <1>1, <1>3, SocketsStay DEF SocketInd, Switch, SocketTyped

LEMMA JoinsKeeps ==
    ASSUME SocketInd, NEW r \in Radios, Joins(r)
    PROVE  SocketInd'
<1>1. InLine /\ r \in joined' /\ joined \subseteq joined' /\ joined' \subseteq Radios
  BY DEF SocketInd, Joins, SocketTyped
<1>2. InLine'
  BY <1>1, RoundKeeps DEF Joins
<1>3. moves' \in 0..MaxMoves
  BY OneMove DEF SocketInd, Joins
<1> QED
  BY <1>1, <1>2, <1>3, SocketsStay DEF SocketInd, Joins, SocketTyped

LEMMA PartsKeeps ==
    ASSUME SocketInd, NEW r \in Radios, Parts(r)
    PROVE  SocketInd'
<1>1. InLine /\ joined' = joined \ {r} /\ line' = LeftBy(r, line) /\ joined' \subseteq Radios
      /\ UNCHANGED <<chosen, missent, switches>>
  BY DEF SocketInd, Parts, SocketTyped
<1>2. line' \in Seq(Radios) /\ IsInjective(line') /\ ToSet(line') = ToSet(line) \ {r}
  BY <1>1, Leaving DEF InLine
<1>3. ToSet(line') \subseteq joined' /\ Stale' \subseteq Stale
  BY <1>1, <1>2 DEF InLine, Stale
<1>4. InLine'
  BY <1>1, <1>2, <1>3, LineKeeps
<1>5. moves' \in 0..MaxMoves
  BY OneMove DEF SocketInd, Parts
<1> QED
  BY <1>1, <1>4, <1>5, SocketsStay DEF SocketInd, Parts, SocketTyped

LEMMA SourceComesKeeps ==
    ASSUME SocketInd, NEW s \in Sources, SourceComes(s)
    PROVE  SocketInd'
<1> USE DEF SocketInd
<1>1. /\ offered' = offered \cup {s}
      /\ UNCHANGED <<socket, hears, informed, mic, pumpVars, clients, strayed>>
      /\ moves' \in 0..MaxMoves
  BY OneMove DEF SourceComes
<1>2. InLine' /\ Running' = Running
  BY <1>1, LineStays DEF Running
<1>3. SocketTyped' /\ Queued'
  BY <1>1 DEF SocketTyped, Queued, pumpVars
<1>4. OnItsSource'
  BY <1>1, <1>2 DEF OnItsSource
<1> QED
  BY <1>1, <1>2, <1>3, <1>4 DEF Counted

LEMMA ChannelGoesKeeps ==
    ASSUME SocketInd, NEW s \in Sources, ChannelGoes(s)
    PROVE  SocketInd'
<1> USE DEF SocketInd
<1>1. /\ s \in Channels /\ offered' = offered \ {s}
      /\ hears' = [c \in Sockets |-> hears[c] /\ socket[c].of # s]
      /\ UNCHANGED <<socket, informed, mic, pumpVars, clients, strayed>>
      /\ moves' \in 0..MaxMoves
  BY OneMove DEF ChannelGoes
<1>2. InLine' /\ Running' = Running
  BY <1>1, LineStays DEF Running
<1>3. SocketTyped' /\ Queued'
  BY <1>1 DEF SocketTyped, Queued, pumpVars
<1>4. OnItsSource'
  <2>1. ASSUME NEW c \in Running, socket[c].of \in Rest
        PROVE  hears'[c] /\ socket[c].of \in offered'
    <3>1. c \in Sockets /\ hears[c] /\ socket[c].of \in offered /\ socket[c].of # s
      BY <1>1, <2>1 DEF OnItsSource, Rest, Running
    <3> QED
      BY <1>1, <3>1
  <2> QED
    BY <1>1, <1>2, <2>1 DEF OnItsSource
<1> QED
  BY <1>1, <1>2, <1>3, <1>4 DEF Counted

-----------------------------------------------------------------------------
LEMMA SocketKeeps == SocketInd /\ [SocketNext]_socketVars => SocketInd'
<1> SUFFICES ASSUME SocketInd, [SocketNext]_socketVars PROVE SocketInd'
  OBVIOUS
<1>1. ASSUME NEW c \in Sockets, NEW s \in Sources \cup {Everything}, AskAudio(c, s) PROVE SocketInd'
  BY <1>1, AskAudioKeeps
<1>2. ASSUME NEW c \in Sockets, LookForSource(c) PROVE SocketInd'
  BY <1>2, LookForSourceKeeps
<1>3. ASSUME NEW c \in Sockets, Informed(c) PROVE SocketInd'
  BY <1>3, InformedKeeps
<1>4. ASSUME NEW c \in Sockets, InformingFails(c) PROVE SocketInd'
  BY <1>4, InformingFailsKeeps
<1>5. ASSUME NEW c \in Sockets, SocketEnds(c) PROVE SocketInd'
  BY <1>5, SocketEndsKeeps
<1>6. ASSUME NEW c \in Sockets, MicPacket(c) PROVE SocketInd'
  BY <1>6, MicPacketKeeps
<1>7. ASSUME NEW s \in Sources, SourceComes(s) PROVE SocketInd'
  BY <1>7, SourceComesKeeps
<1>8. ASSUME NEW s \in Sources, ChannelGoes(s) PROVE SocketInd'
  BY <1>8, ChannelGoesKeeps
<1>9. ASSUME NEW r \in Radios, Woken(r) PROVE SocketInd'
  BY <1>9, WokenKeeps
<1>10. ASSUME NEW r \in Radios, Switch(r) PROVE SocketInd'
  BY <1>10, SwitchKeeps
<1>11. ASSUME NEW r \in Radios, Joins(r) PROVE SocketInd'
  BY <1>11, JoinsKeeps
<1>12. ASSUME NEW r \in Radios, Parts(r) PROVE SocketInd'
  BY <1>12, PartsKeeps
<1>13. CASE TakeMic
  BY <1>13, TakeMicKeeps
<1>14. CASE UNCHANGED socketVars
  <2>1. InLine'
    BY <1>14, LineStays DEF SocketInd, socketVars
  <2> QED
    BY <1>14, <2>1, SocketsStay DEF SocketInd, socketVars, pumpVars, SocketTyped
<1> QED
  BY <1>1, <1>2, <1>3, <1>4, <1>5, <1>6, <1>7, <1>8, <1>9, <1>10, <1>11, <1>12, <1>13, <1>14
  DEF SocketNext

LEMMA SocketImplies == SocketInd => SocketInv
<1> SUFFICES ASSUME SocketInd PROVE SocketInv
  OBVIOUS
<1> USE DEF SocketInd
<1>1. clients \in Nat /\ Cardinality(Running) \in Nat
  BY RunningFinite DEF Counted, SocketTyped
<1>2. ToSet(mic) \subseteq Radios
  BY DEF Queued, ToSet
<1>3. SocketTypeOK
  BY <1>1, <1>2 DEF SocketTypeOK, SocketTyped, InLine, Queued
<1>4. OnePerSwitch
  BY FS_CardinalityType DEF InLine, OnePerSwitch
<1>5. NamedOnly
  BY DEF NamedOnly, OnItsSource, Running
<1> QED
  BY <1>3, <1>4, <1>5 DEF SocketInv, CountedRight, Counted, StoppedByMicOnly, Queued

\* The count the status shows is that of the open sockets and of those that strayed, a socket
\* is stopped by its microphone only while the queue is full, it hears the source it named,
\* and each change of the selected rig sends one packet at most to the rig selected before.
THEOREM SocketsHold == SocketSpec => []SocketInv
<1>1. SocketInit => SocketInd
  BY SocketStarts
<1>2. SocketInd /\ [SocketNext]_socketVars => SocketInd'
  BY SocketKeeps
<1>3. SocketInd => SocketInv
  BY SocketImplies
<1> QED
  BY <1>1, <1>2, <1>3, PTL DEF SocketSpec
=============================================================================
