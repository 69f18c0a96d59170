------------------------- MODULE CommandQueueProofs -------------------------
(***************************************************************************)
(* The accounts of CommandQueue for any connections, any number of         *)
(* requests and any size of the channel, and that the queue and its        *)
(* batches implement RequestService. Below the queue, the sessions with    *)
(* the radio on its serial line (CatSession), with which it shares no      *)
(* variable.                                                               *)
(***************************************************************************)
EXTENDS CommandQueue, CatSession, SequenceFacts, SequenceTheorems, FiniteSetTheorems, TLAPS

USE QueueAssumption DEF QueueAssumption

(***************************************************************************)
(* Sequences and sets of requests.                                         *)
(***************************************************************************)
\* Vec::swap_remove takes out the one element and keeps all others.
LEMMA SwapRemoveSet ==
    ASSUME NEW S, NEW seq \in Seq(S), NEW k \in 1..Len(seq), IsInjective(seq)
    PROVE  /\ SwapRemove(seq, k) \in Seq(S) /\ Len(SwapRemove(seq, k)) = Len(seq) - 1
           /\ seq[k] \in S /\ seq[k] \in ToSet(seq)
           /\ ToSet(SwapRemove(seq, k)) = ToSet(seq) \ {seq[k]}
           /\ IsInjective(SwapRemove(seq, k))
<1> DEFINE rest == SwapRemove(seq, k)
           n    == Len(seq)
<1>1. n \in Nat \ {0} /\ n - 1 \in Nat /\ k \in 1..n /\ DOMAIN seq = 1..n
  BY LenProperties
<1>2. seq \in [1..n -> S]
  BY LenProperties
<1>3. rest = [j \in 1..(n - 1) |-> IF j = k THEN seq[n] ELSE seq[j]]
  BY DEF SwapRemove
<1> HIDE DEF rest, n
<1>4. 1..(n - 1) \subseteq 1..n /\ n \in 1..n /\ n \notin 1..(n - 1)
  BY <1>1
<1>5. 1..n \subseteq 1..(n - 1) \cup {n}
  BY <1>1
<1>6. rest \in [1..(n - 1) -> S]
  BY <1>2, <1>3, <1>4
<1>7. rest \in Seq(S) /\ Len(rest) = n - 1 /\ DOMAIN rest = 1..(n - 1)
  BY <1>1, <1>6, FunctionSeq
<1>8. IsInjective(seq) => \A i, j \in 1..n : seq[i] = seq[j] => i = j
  BY <1>1 DEF IsInjective
<1>9. ASSUME NEW i \in 1..(n - 1)
      PROVE  rest[i] = IF i = k THEN seq[n] ELSE seq[i]
  BY <1>3
<1>10. ToSet(rest) \subseteq ToSet(seq) \ {seq[k]}
  <2> SUFFICES ASSUME NEW i \in 1..(n - 1) PROVE rest[i] \in ToSet(seq) /\ rest[i] # seq[k]
    BY <1>7 DEF ToSet
  <2>1. CASE i = k
    BY <2>1, <1>1, <1>4, <1>8, <1>9 DEF ToSet
  <2>2. CASE i # k
    BY <2>2, <1>1, <1>4, <1>8, <1>9 DEF ToSet
  <2> QED
    BY <2>1, <2>2
<1>11. ToSet(seq) \ {seq[k]} \subseteq ToSet(rest)
  <2> SUFFICES ASSUME NEW i \in 1..n, i # k PROVE seq[i] \in ToSet(rest)
    BY <1>1 DEF ToSet
  <2>1. CASE i = n
    <3>1. k \in 1..(n - 1)
      BY <2>1, <1>1, <1>5
    <3>2. rest[k] = seq[n]
      BY <3>1, <1>9
    <3> QED
      BY <2>1, <3>1, <3>2, <1>7 DEF ToSet
  <2>2. CASE i # n
    <3>1. i \in 1..(n - 1)
      BY <2>2, <1>5
    <3>2. rest[i] = seq[i]
      BY <3>1, <1>9
    <3> QED
      BY <3>1, <3>2, <1>7 DEF ToSet
  <2> QED
    BY <2>1, <2>2
<1>12. IsInjective(rest)
  <2> SUFFICES ASSUME NEW i \in 1..(n - 1), NEW j \in 1..(n - 1), rest[i] = rest[j] PROVE i = j
    BY <1>7 DEF IsInjective
  <2>1. rest[i] = (IF i = k THEN seq[n] ELSE seq[i]) /\ rest[j] = (IF j = k THEN seq[n] ELSE seq[j])
    BY <1>9
  <2> QED
    BY <2>1, <1>4, <1>8
<1>13. seq[k] \in S /\ seq[k] \in ToSet(seq)
  BY <1>1, <1>2 DEF ToSet
<1> QED
  BY <1>7, <1>10, <1>11, <1>12, <1>13 DEF rest, n

\* An element of a sequence without repetitions is there once.
LEMMA TimesDistinct ==
    ASSUME NEW seq, IsInjective(seq), NEW r
    PROVE  Times(seq, r) = IF r \in ToSet(seq) THEN 1 ELSE 0
<1> DEFINE at == {i \in DOMAIN seq : seq[i] = r}
<1>1. CASE r \in ToSet(seq)
  <2>1. PICK k \in DOMAIN seq : seq[k] = r
    BY <1>1 DEF ToSet
  <2>2. at = {k}
    BY <2>1 DEF IsInjective
  <2> QED
    BY <1>1, <2>2, FS_Singleton DEF Times
<1>2. CASE r \notin ToSet(seq)
  <2>1. at = {}
    BY <1>2 DEF ToSet
  <2> QED
    BY <1>2, <2>1, FS_EmptySet DEF Times
<1> QED
  BY <1>1, <1>2

\* What the task holds, it holds in one place.
LEMMA InTaskHeld ==
    ASSUME Places, NEW r
    PROVE  InTask(r) = IF r \in Held THEN 1 ELSE 0
<1>1. Times(queue, r) = (IF r \in ToSet(queue) THEN 1 ELSE 0)
  BY TimesDistinct DEF Places
<1>2. Times(batch, r) = (IF r \in ToSet(batch) THEN 1 ELSE 0)
  BY TimesDistinct DEF Places
<1> QED
  BY <1>1, <1>2 DEF InTask, Held, Places

\* What has run, has run once.
LEMMA RunsOnce ==
    ASSUME RunsApart, NEW r
    PROVE  /\ Cardinality(RunsOf(r)) = IF r \in Ran THEN 1 ELSE 0
           /\ r \notin Ran => RunsOf(r) = {}
<1>1. CASE r \in Ran
  <2>1. PICK k \in DOMAIN ran : r \in ran[k].reqs
    BY <1>1 DEF Ran
  <2>2. RunsOf(r) = {k}
    BY <2>1 DEF RunsOf, RunsApart
  <2> QED
    BY <1>1, <2>2, FS_Singleton
<1>2. CASE r \notin Ran
  <2>1. RunsOf(r) = {}
    BY <1>2 DEF Ran, RunsOf
  <2> QED
    BY <1>2, <2>1, FS_EmptySet
<1> QED
  BY <1>1, <1>2

(***************************************************************************)
(* The numbers of the requests of a connection.                            *)
(***************************************************************************)
\* Every connection has got a finite number of answers.
LEMMA CountType ==
    ASSUME IsFiniteSet(told), NEW c
    PROVE  Count(c) \in Nat
<1>1. {t \in told : t[1].conn = c} \in SUBSET told
  OBVIOUS
<1>2. IsFiniteSet({t \in told : t[1].conn = c})
  BY <1>1, FS_Subset
<1> QED
  BY <1>2, FS_CardinalityType DEF Count

\* An answer to a request counts for its connection, and for no other one.
LEMMA CountAnswer ==
    ASSUME Numbered, NEW c \in Conns, Busy(c), NEW answer,
           told' = told \cup {<<current[c], answer>>}
    PROVE  /\ Count(c)' = Count(c) + 1
           /\ \A d : d # c => Count(d)' = Count(d)
<1> DEFINE Of(d) == {t \in told : t[1].conn = d}
           new   == <<current[c], answer>>
<1>1. /\ current[c].conn = c /\ current[c].n = Count(c) + 1
      /\ \A t \in told : t[1].n <= Count(t[1].conn)
      /\ IsFiniteSet(told) /\ Count(c) \in Nat
  BY CountType DEF Numbered
<1>2. IsFiniteSet(Of(c))
  <2>1. Of(c) \in SUBSET told
    OBVIOUS
  <2> QED
    BY <1>1, <2>1, FS_Subset
<1>3. new \notin Of(c)
  <2> SUFFICES ASSUME new \in told PROVE FALSE
    OBVIOUS
  <2>1. new[1].n <= Count(new[1].conn) /\ new[1] = current[c]
    BY <1>1
  <2> QED
    BY <1>1, <2>1
<1>4. {t \in told' : t[1].conn = c} = Of(c) \cup {new}
  BY <1>1
<1>5. Cardinality(Of(c) \cup {new}) = Cardinality(Of(c)) + 1
  BY <1>2, <1>3, FS_AddElement
<1>6. ASSUME NEW d, d # c PROVE {t \in told' : t[1].conn = d} = Of(d)
  BY <1>1, <1>6
<1> QED
  BY <1>4, <1>5, <1>6 DEF Count
(***************************************************************************)
(* The invariant holds at the start.                                       *)
(***************************************************************************)
LEMMA InitInv == Init => IndInv
<1> SUFFICES ASSUME Init PROVE IndInv
  OBVIOUS
<1>1. ToSet(queue) = {} /\ ToSet(batch) = {} /\ ToSet(accepted) = {} /\ Ran = {} /\ Held = {}
  BY DEF Init, ToSet, Held, Ran
<1>2. TypeOK
  <2>1. \A S : <<>> \in Seq(S) /\ Len(<<>>) = 0
    BY EmptySeq
  <2>2. /\ queue \in Seq(Request) /\ Len(queue) <= Capacity /\ batch \in Seq(Request)
        /\ accepted \in Seq(Request) /\ ran \in Seq([reqs : SUBSET Request, result : {"ok", "err"}])
        /\ idx \in Nat /\ idx <= Len(batch) + 1
    BY <2>1 DEF Init
  <2>3. /\ handler \in [Conns -> {"idle", "sending", "waiting", "closed"}]
        /\ current \in [Conns -> Request \cup {NoRequest}]
        /\ reply \in [Conns -> {"empty", "ok", "err", "dropped"}]
    BY DEF Init
  <2>4. running \subseteq Request /\ told \subseteq Request \X {"ok", "err", "refused", "timeout", "dropped"}
    BY DEF Init
  <2>5. task \in {"select", "drain", "process", "sweep", "running", "stopped"} /\ shutdown \in BOOLEAN
    BY Zenon DEF Init
  <2> QED
    BY <2>2, <2>3, <2>4, <2>5 DEF TypeOK
<1>3. Places /\ RunsApart /\ Accounted /\ Shapes
  BY <1>1 DEF Init, Places, IsInjective, RunsApart, Accounted, Shapes
<1>4. Numbered /\ AcceptedBefore /\ Replies
  BY <1>1, FS_EmptySet DEF Init, Numbered, Busy, AcceptedBefore, Replies
<1>5. RefusedNotAccepted /\ ToldOwnResult
  BY DEF Init, RefusedNotAccepted, ToldOwnResult
<1> QED
  BY <1>2, <1>3, <1>4, <1>5 DEF IndInv

(***************************************************************************)
(* The steps of the task that move requests about.                         *)
(***************************************************************************)
Moves == TakeFirst \/ TakeMore \/ TakeNoMore \/ Start \/ Collect \/ Collected \/ BatchDone

Holdings == /\ queue \in Seq(Request) /\ Len(queue) <= Capacity
            /\ batch \in Seq(Request) /\ running \subseteq Request
            /\ task \in {"select", "drain", "process", "sweep", "running", "stopped"}
            /\ idx \in Nat /\ idx <= Len(batch) + 1

\* They lose nothing, take nothing twice and stay within the shapes.
LEMMA MovesKeep ==
    ASSUME Holdings, Places, Shapes, Moves
    PROVE  Holdings' /\ Places' /\ Shapes' /\ Held' = Held
<1> USE DEF Holdings
<1>1. CASE TakeFirst
  <2> USE <1>1 DEF TakeFirst
  <2>1. /\ Head(queue) \in Request /\ Head(queue) \in ToSet(queue)
        /\ Tail(queue) \in Seq(Request) /\ Len(Tail(queue)) = Len(queue) - 1
        /\ ToSet(Tail(queue)) = ToSet(queue) \ {Head(queue)} /\ IsInjective(Tail(queue))
    BY TailSet DEF Places
  <2>2. batch = <<>> /\ running = {} /\ idx = 0 /\ Len(batch) = 0 /\ ToSet(batch) = {}
    BY DEF Shapes, ToSet
  <2>3. batch' \in Seq(Request) /\ Len(batch') = 1 /\ ToSet(batch') = {Head(queue)} /\ IsInjective(batch')
    BY <2>1 DEF ToSet, IsInjective
  <2>4. Len(queue) \in Nat
    BY LenProperties
  <2>5. Holdings'
    BY <2>1, <2>2, <2>3, <2>4
  <2>6. Places' /\ Held' = Held
    BY <2>1, <2>2, <2>3 DEF Places, Held
  <2>7. Shapes'
    BY <2>2 DEF Shapes
  <2> QED
    BY <2>5, <2>6, <2>7
<1>2. CASE TakeMore
  <2> USE <1>2 DEF TakeMore
  <2>1. /\ Head(queue) \in Request /\ Head(queue) \in ToSet(queue)
        /\ Tail(queue) \in Seq(Request) /\ Len(Tail(queue)) = Len(queue) - 1
        /\ ToSet(Tail(queue)) = ToSet(queue) \ {Head(queue)} /\ IsInjective(Tail(queue))
    BY TailSet DEF Places
  <2>2. /\ batch' \in Seq(Request) /\ Len(batch') = Len(batch) + 1
        /\ ToSet(batch') = ToSet(batch) \cup {Head(queue)} /\ IsInjective(batch')
    BY <2>1, AppendSet DEF Places
  <2>3. Len(queue) \in Nat /\ Len(batch) \in Nat
    BY LenProperties
  <2>4. Holdings'
    BY <2>1, <2>2, <2>3
  <2>5. Places' /\ Held' = Held
    BY <2>1, <2>2 DEF Places, Held
  <2>6. Shapes'
    BY DEF Shapes
  <2> QED
    BY <2>4, <2>5, <2>6
<1>3. CASE TakeNoMore \/ BatchDone
  <2>1. UNCHANGED <<queue, batch, running, idx>>
    BY <1>3 DEF TakeNoMore, BatchDone
  <2>2. Places' /\ Held' = Held
    BY <2>1 DEF Places, IsInjective, Held
  <2>3. Shapes' /\ Holdings'
    BY <1>3 DEF TakeNoMore, BatchDone, Shapes
  <2> QED
    BY <2>2, <2>3
<1>4. CASE Start
  <2> USE <1>4 DEF Start
  <2>1. /\ Head(batch) \in Request /\ Head(batch) \in ToSet(batch)
        /\ Tail(batch) \in Seq(Request) /\ Len(Tail(batch)) = Len(batch) - 1
        /\ ToSet(Tail(batch)) = ToSet(batch) \ {Head(batch)} /\ IsInjective(Tail(batch))
    BY TailSet DEF Places
  <2>2. running = {} /\ idx = 0
    BY DEF Shapes
  <2>3. Len(batch') \in Nat
    BY <2>1, LenProperties
  <2>4. Holdings'
    BY <2>1, <2>2, <2>3
  <2>5. Places' /\ Held' = Held
    BY <2>1, <2>2 DEF Places, Held
  <2>6. Shapes'
    BY <2>2 DEF Shapes
  <2> QED
    BY <2>4, <2>5, <2>6
<1>5. CASE Collect
  <2>1. idx >= 1 /\ task = "sweep" /\ idx \in 1..Len(batch)
    BY <1>5, LenProperties DEF Collect, Shapes
  <2>2. CASE batch[idx].kind = "spectrum"
    <3>1. /\ running' = running \cup {batch[idx]} /\ batch' = SwapRemove(batch, idx)
          /\ UNCHANGED <<idx, queue, task>>
      BY <1>5, <2>2 DEF Collect
    <3>2. /\ batch' \in Seq(Request) /\ Len(batch') = Len(batch) - 1
          /\ batch[idx] \in Request /\ batch[idx] \in ToSet(batch)
          /\ ToSet(batch') = ToSet(batch) \ {batch[idx]} /\ IsInjective(batch')
      BY <2>1, <3>1, SwapRemoveSet DEF Places
    <3>3. Holdings'
      BY <2>1, <3>1, <3>2
    <3>4. Places' /\ Held' = Held
      BY <3>1, <3>2 DEF Places, Held
    <3>5. Shapes'
      BY <2>1, <2>2, <3>1 DEF Shapes
    <3> QED
      BY <3>3, <3>4, <3>5
  <2>3. CASE batch[idx].kind # "spectrum"
    <3>1. idx' = idx + 1 /\ UNCHANGED <<batch, running, queue, task>>
      BY <1>5, <2>3 DEF Collect
    <3>2. Places' /\ Held' = Held
      BY <3>1 DEF Places, IsInjective, Held
    <3>3. Holdings'
      BY <2>1, <3>1, LenProperties
    <3>4. Shapes'
      BY <2>1, <3>1 DEF Shapes
    <3> QED
      BY <3>2, <3>3, <3>4
  <2> QED
    BY <2>2, <2>3
<1>6. CASE Collected
  <2>1. UNCHANGED <<queue, batch, running>> /\ task' = "running" /\ idx' = 0 /\ task = "sweep"
    BY <1>6 DEF Collected
  <2>2. Places' /\ Held' = Held
    BY <2>1 DEF Places, IsInjective, Held
  <2>3. Holdings'
    BY <2>1, LenProperties
  <2>4. Shapes'
    BY <2>1 DEF Shapes
  <2> QED
    BY <2>2, <2>3, <2>4
<1> QED
  BY <1>1, <1>2, <1>3, <1>4, <1>5, <1>6 DEF Moves
(***************************************************************************)
(* The actions keep the invariant, one after the other.                    *)
(***************************************************************************)
GivenAnswers == {"ok", "err", "refused", "timeout", "dropped"}

\* A handler is done with its request, for the reason its answer gives.
Responds(c, answer) ==
    /\ Busy(c) /\ Respond(c, answer)
    /\ handler[c] = "sending" <=> answer = "refused"
    /\ answer \in {"ok", "err", "dropped"} => answer = reply[c]

HandlerActs(c) ==
    \/ Enqueue(c) \/ Close(c)
    \/ \E k \in Kinds : Receive(c, k)
    \/ \E answer \in GivenAnswers : Responds(c, answer)

LEMMA NextCases ==
    ASSUME Next
    PROVE  \/ Moves \/ Stop \/ Shutdown
           \/ \E x \in Outcomes : Finish(x)
           \/ \E c \in Conns : HandlerActs(c)
<1> "refused" \in GivenAnswers /\ "dropped" \in GivenAnswers /\ "timeout" \in GivenAnswers
  BY DEF GivenAnswers
<1>1. ASSUME NEW c \in Conns, SendFails(c) \/ SendTimeout(c) PROVE Responds(c, "refused")
  BY <1>1 DEF SendFails, SendTimeout, Responds, Busy
<1>2. ASSUME NEW c \in Conns, Answer(c) PROVE \E answer \in GivenAnswers : Responds(c, answer)
  BY <1>2 DEF Answer, Responds, Busy, GivenAnswers
<1>3. ASSUME NEW c \in Conns, SenderDropped(c) PROVE Responds(c, "dropped")
  BY <1>3 DEF SenderDropped, Responds, Busy
<1>4. ASSUME NEW c \in Conns, RequestTimeout(c) PROVE Responds(c, "timeout")
  BY <1>4 DEF RequestTimeout, Responds, Busy
<1>5. ASSUME NEW c \in Conns,
             HandlerStep(c) \/ SendTimeout(c) \/ RequestTimeout(c) \/ Close(c)
                \/ \E k \in Kinds : Receive(c, k)
      PROVE  HandlerActs(c)
  BY <1>1, <1>2, <1>3, <1>4, <1>5, Zenon DEF HandlerStep, HandlerActs
<1>6. CASE TaskStep \/ Shutdown
  BY <1>6, Zenon DEF TaskStep, Moves
<1> QED
  BY <1>5, <1>6, Zenon DEF Next

\* The next request of a connection that is not waiting: the channel has never
\* taken it, and it was never answered.
LEMMA NextIsFresh ==
    ASSUME IndInv, NEW c \in Conns, handler[c] \notin {"waiting", "closed"},
           NEW r \in Request, r.conn = c, r.n = Count(c) + 1
    PROVE  /\ r \notin ToSet(accepted) /\ r \notin Held \cup Ran
           /\ \A t \in told : t[1] # r
<1>1. Count(c) \in Nat
  BY CountType DEF IndInv, Numbered
<1>2. r \notin ToSet(accepted)
  BY <1>1 DEF IndInv, AcceptedBefore
<1>3. \A t \in told : t[1] # r
  BY <1>1 DEF IndInv, Numbered
<1> QED
  BY <1>2, <1>3 DEF IndInv, Accounted

LEMMA SendingIsFresh ==
    ASSUME IndInv, NEW c \in Conns, handler[c] = "sending"
    PROVE  /\ current[c] \in Request /\ current[c].conn = c
           /\ current[c] \notin ToSet(accepted) /\ current[c] \notin Held \cup Ran
           /\ \A t \in told : t[1] # current[c]
<1>1. current[c] \in Request /\ current[c].conn = c /\ current[c].n = Count(c) + 1
  BY DEF IndInv, Numbered, Busy
<1> QED
  BY <1>1, NextIsFresh

LEMMA MovesInv == IndInv /\ Moves => IndInv'
<1> SUFFICES ASSUME IndInv, Moves PROVE IndInv'
  OBVIOUS
<1> USE DEF IndInv
<1>1. Holdings' /\ Places' /\ Shapes' /\ Held' = Held
  BY MovesKeep DEF TypeOK, Holdings
<1>2. /\ UNCHANGED <<handler, current, reply, shutdown, accepted, ran, told>>
      /\ task # "stopped" /\ task' # "stopped"
  BY DEF Moves, TakeFirst, TakeMore, TakeNoMore, Start, Collect, Collected, BatchDone, connVars, history
<1>3. TypeOK'
  BY <1>1, <1>2 DEF TypeOK, Holdings
<1>4. Ran' = Ran /\ ToSet(accepted)' = ToSet(accepted) /\ \A c : Count(c)' = Count(c)
  BY <1>2 DEF Ran, Count
<1>5. RunsApart' /\ Accounted' /\ Replies'
  BY <1>1, <1>2, <1>4 DEF RunsApart, Accounted, Replies
<1>6. Numbered' /\ AcceptedBefore'
  BY <1>2, <1>4 DEF Numbered, AcceptedBefore, Busy
<1>7. RefusedNotAccepted' /\ ToldOwnResult'
  BY <1>2, <1>4 DEF RefusedNotAccepted, ToldOwnResult, RunsOf
<1> QED
  BY <1>1, <1>3, <1>5, <1>6, <1>7

LEMMA ShutdownInv == IndInv /\ (Shutdown \/ UNCHANGED vars) => IndInv'
<1> SUFFICES ASSUME IndInv, Shutdown \/ UNCHANGED vars PROVE IndInv'
  OBVIOUS
<1> USE DEF IndInv
<1>1. /\ UNCHANGED <<handler, current, reply, queue, batch, running, idx, task, accepted, ran, told>>
      /\ shutdown' \in BOOLEAN
  BY Zenon DEF Shutdown, vars, connVars, taskVars, history, TypeOK
<1>2. TypeOK'
  BY <1>1, Zenon DEF TypeOK
<1>3. Held' = Held /\ Ran' = Ran /\ ToSet(accepted)' = ToSet(accepted) /\ \A c : Count(c)' = Count(c)
  BY <1>1 DEF Held, Ran, Count
<1>4. Places' /\ Shapes' /\ RunsApart' /\ Accounted' /\ Replies'
  BY <1>1, <1>3 DEF Places, IsInjective, Shapes, RunsApart, Accounted, Replies
<1>5. Numbered' /\ AcceptedBefore' /\ RefusedNotAccepted' /\ ToldOwnResult'
  BY <1>1, <1>3 DEF Numbered, AcceptedBefore, Busy, RefusedNotAccepted, ToldOwnResult, RunsOf
<1> QED
  BY <1>2, <1>4, <1>5
\* A run ends: its requests move from the task to the history of runs.
LEMMA FinishInv == ASSUME IndInv, NEW x \in Outcomes, Finish(x) PROVE IndInv'
<1> USE DEF IndInv
<1> DEFINE entry == [reqs |-> running, result |-> x]
           last  == Len(ran) + 1
<1>1. /\ task = "running" /\ task' = "process" /\ running' = {} /\ ran' = Append(ran, entry)
      /\ UNCHANGED <<handler, current, queue, batch, idx, shutdown, accepted, told>>
      /\ reply' = [c \in Conns |-> IF handler[c] = "waiting" /\ current[c] \in running
                                   THEN x ELSE reply[c]]
  BY DEF Finish
<1>2. x \in {"ok", "err"} /\ entry \in [reqs : SUBSET Request, result : {"ok", "err"}]
  BY DEF TypeOK
<1>3. /\ ran' \in Seq([reqs : SUBSET Request, result : {"ok", "err"}])
      /\ Len(ran) \in Nat /\ DOMAIN ran = 1..Len(ran) /\ DOMAIN ran' = 1..last
      /\ ran'[last] = entry /\ \A i \in DOMAIN ran : ran'[i] = ran[i]
  BY <1>1, <1>2, AppendProperties, LenProperties DEF TypeOK
<1>4. DOMAIN ran' = DOMAIN ran \cup {last} /\ last \notin DOMAIN ran
  BY <1>3
<1>5. TypeOK'
  BY <1>1, <1>2, <1>3 DEF TypeOK
<1>6. Held' = Held \ running /\ running \subseteq Held
  BY <1>1 DEF Held, Places
<1>7. /\ ran'[last].reqs = running /\ ran'[last].result = x
      /\ \A i \in DOMAIN ran : ran'[i].reqs = ran[i].reqs /\ ran'[i].result = ran[i].result
  BY <1>3
<1> HIDE DEF last, entry
<1>8. Ran' = Ran \cup running
  <2>1. \A r : r \in Ran' <=> \E i \in DOMAIN ran' : r \in ran'[i].reqs
    BY DEF Ran
  <2>2. \A r : r \in Ran <=> \E i \in DOMAIN ran : r \in ran[i].reqs
    BY DEF Ran
  <2> QED
    BY <2>1, <2>2, <1>4, <1>7
<1>9. Places' /\ Shapes'
  BY <1>1 DEF Places, IsInjective, Shapes
<1>10. RunsApart'
  <2>1. \A i \in DOMAIN ran : ran[i].reqs \cap Held' = {} /\ ran[i].reqs \cap running = {}
    BY <1>6 DEF RunsApart
  <2>2. running \cap Held' = {}
    BY <1>6
  <2> QED
    BY <2>1, <2>2, <1>4, <1>7 DEF RunsApart
<1>11. Accounted'
  BY <1>1, <1>6, <1>8 DEF Accounted
<1>12. Numbered' /\ AcceptedBefore' /\ RefusedNotAccepted'
  BY <1>1 DEF Numbered, AcceptedBefore, Busy, Count, RefusedNotAccepted
<1>13. Replies'
  <2>0. ASSUME NEW c \in Conns, handler[c] # "waiting" PROVE reply'[c] = "empty"
    BY <2>0, <1>1 DEF Replies
  <2> SUFFICES ASSUME NEW c \in Conns, handler[c] = "waiting"
               PROVE  /\ reply'[c] = "empty" => current[c] \in Held'
                      /\ reply'[c] \in {"ok", "err"} =>
                            \E i \in DOMAIN ran' :
                                current[c] \in ran'[i].reqs /\ ran'[i].result = reply'[c]
                      /\ reply'[c] # "dropped"
    BY <2>0, <1>1 DEF Replies
  <2>1. CASE current[c] \in running
    <3>1. reply'[c] = x /\ current[c] \in ran'[last].reqs /\ ran'[last].result = x
      BY <1>1, <1>7, <2>1
    <3> QED
      BY <3>1, <1>2, <1>4
  <2>2. CASE current[c] \notin running
    <3>1. reply'[c] = reply[c]
      BY <1>1, <2>2
    <3> QED
      BY <3>1, <2>2, <1>1, <1>4, <1>6, <1>7 DEF Replies
  <2> QED
    BY <2>1, <2>2
<1>14. ToldOwnResult'
  <2>1. ASSUME NEW r, NEW i \in RunsOf(r) PROVE i \in RunsOf(r)' /\ ran'[i] = ran[i]
    BY <2>1, <1>3, <1>4, <1>7 DEF RunsOf
  <2> QED
    BY <2>1, <1>1 DEF ToldOwnResult
<1> QED
  BY <1>5, <1>9, <1>10, <1>11, <1>12, <1>13, <1>14

\* The task stops: what is in the channel is dropped, and its handlers learn it.
LEMMA StopInv == IndInv /\ Stop => IndInv'
<1> SUFFICES ASSUME IndInv, Stop PROVE IndInv'
  OBVIOUS
<1> USE DEF IndInv
<1>1. /\ task = "select" /\ task' = "stopped" /\ queue' = <<>>
      /\ UNCHANGED <<handler, current, batch, running, idx, shutdown, accepted, ran, told>>
      /\ reply' = [c \in Conns |-> IF \E i \in DOMAIN queue : queue[i] = current[c]
                                   THEN "dropped" ELSE reply[c]]
  BY DEF Stop, history
<1>2. batch = <<>> /\ running = {} /\ ToSet(queue)' = {} /\ ToSet(batch) = {}
  BY <1>1 DEF Shapes, ToSet
<1>3. Held = ToSet(queue) /\ Held' = {} /\ Ran' = Ran
  BY <1>1, <1>2 DEF Held, Ran
<1>4. TypeOK'
  <2>1. queue' \in Seq(Request) /\ Len(queue') <= Capacity
    BY <1>1, EmptySeq
  <2> QED
    BY <2>1, <1>1 DEF TypeOK
<1>5. Places' /\ Shapes' /\ RunsApart' /\ Accounted'
  BY <1>1, <1>2, <1>3 DEF Places, IsInjective, Shapes, RunsApart, Accounted
<1>6. Numbered' /\ AcceptedBefore' /\ RefusedNotAccepted' /\ ToldOwnResult'
  BY <1>1 DEF Numbered, AcceptedBefore, Busy, Count, RefusedNotAccepted, ToldOwnResult, RunsOf
<1>7. Replies'
  <2>0. ASSUME NEW c \in Conns, handler[c] # "waiting" PROVE reply'[c] = "empty"
    <3>1. current[c] \notin ToSet(queue)
      <4>1. CASE handler[c] = "sending"
        BY <4>1, <1>3, SendingIsFresh
      <4>2. CASE handler[c] # "sending"
        <5>1. current[c].n = 0 /\ ToSet(queue) \subseteq Request
          BY <2>0, <4>2 DEF Numbered, Busy, NoRequest, TypeOK, ToSet
        <5> QED
          BY <5>1 DEF Request
      <4> QED
        BY <4>1, <4>2
    <3> QED
      BY <2>0, <3>1, <1>1 DEF Replies, ToSet
  <2> SUFFICES ASSUME NEW c \in Conns, handler[c] = "waiting"
               PROVE  /\ reply'[c] # "empty"
                      /\ reply'[c] \in {"ok", "err"} =>
                            \E i \in DOMAIN ran :
                                current[c] \in ran[i].reqs /\ ran[i].result = reply'[c]
                      /\ reply'[c] = "dropped" => current[c] \notin Ran
    BY <2>0, <1>1, <1>3 DEF Replies
  <2>1. CASE current[c] \in ToSet(queue)
    <3>1. reply'[c] = "dropped"
      BY <2>1, <1>1 DEF ToSet
    <3>2. current[c] \notin Ran
      BY <2>1, <1>3 DEF RunsApart, Ran
    <3> QED
      BY <3>1, <3>2
  <2>2. CASE current[c] \notin ToSet(queue)
    <3>1. reply'[c] = reply[c]
      BY <2>2, <1>1 DEF ToSet
    <3> QED
      BY <3>1, <2>2, <1>1, <1>3 DEF Replies
  <2> QED
    BY <2>1, <2>2
<1> QED
  BY <1>4, <1>5, <1>6, <1>7
\* What depends on the task and its history alone is kept when these stay.
LEMMA TaskStays ==
    ASSUME Places, Shapes, RunsApart, Accounted,
           UNCHANGED <<queue, batch, running, idx, task, ran, accepted>>
    PROVE  /\ Held' = Held /\ Ran' = Ran /\ ToSet(accepted)' = ToSet(accepted)
           /\ Places' /\ Shapes' /\ RunsApart' /\ Accounted'
<1>1. Held' = Held /\ Ran' = Ran /\ ToSet(accepted)' = ToSet(accepted)
  BY DEF Held, Ran
<1> QED
  BY <1>1 DEF Places, IsInjective, Shapes, RunsApart, Accounted

\* What the channel has taken was sent by one of the connections.
LEMMA AcceptedConn ==
    ASSUME TypeOK, NEW r \in ToSet(accepted)
    PROVE  r \in Request /\ r.conn \in Conns
<1>1. r \in Request
  BY DEF TypeOK, ToSet
<1> QED
  BY <1>1 DEF Request

\* A new request gets a number no other request of the connection has.
LEMMA ReceiveInv == ASSUME IndInv, NEW c \in Conns, NEW k \in Kinds, Receive(c, k) PROVE IndInv'
<1> USE DEF IndInv
<1> DEFINE new == [conn |-> c, n |-> Count(c) + 1, kind |-> k]
<1>1. /\ handler[c] = "idle" /\ Count(c) < MaxRequests
      /\ handler' = [handler EXCEPT ![c] = "sending"]
      /\ current' = [current EXCEPT ![c] = new]
      /\ reply' = [reply EXCEPT ![c] = "empty"]
      /\ UNCHANGED <<queue, batch, running, idx, task, ran, accepted, shutdown, told>>
  BY DEF Receive, taskVars, history
<1>2. Count(c) \in Nat /\ \A d : Count(d)' = Count(d)
  BY <1>1, CountType DEF Numbered, Count
<1>3. new \in Request
  BY <1>1, <1>2 DEF Request
<1>4. TypeOK'
  BY <1>1, <1>3 DEF TypeOK
<1>5. /\ Held' = Held /\ Ran' = Ran /\ ToSet(accepted)' = ToSet(accepted)
      /\ Places' /\ Shapes' /\ RunsApart' /\ Accounted'
  BY <1>1, TaskStays
<1>6. /\ handler'[c] = "sending" /\ current'[c] = new /\ reply'[c] = "empty"
      /\ \A d \in Conns : d # c => handler'[d] = handler[d] /\ current'[d] = current[d]
                                    /\ reply'[d] = reply[d]
  BY <1>1 DEF TypeOK
<1> HIDE DEF new
<1>7. Numbered'
  <2>1. new.conn = c /\ new.n = Count(c) + 1
    BY DEF new
  <2>2. Busy(c)' /\ \A d \in Conns : d # c => (Busy(d)' <=> Busy(d))
    BY <1>6 DEF Busy
  <2> QED
    BY <1>1, <1>2, <1>3, <1>6, <2>1, <2>2 DEF Numbered
<1>8. AcceptedBefore'
  BY <1>1, <1>2, <1>5, <1>6, AcceptedConn DEF AcceptedBefore
<1>9. Replies'
  BY <1>1, <1>5, <1>6 DEF Replies
<1>10. RefusedNotAccepted' /\ ToldOwnResult'
  BY <1>1, <1>5 DEF RefusedNotAccepted, ToldOwnResult, RunsOf
<1> QED
  BY <1>4, <1>5, <1>7, <1>8, <1>9, <1>10

\* The channel takes a request it has never taken before.
LEMMA EnqueueInv == ASSUME IndInv, NEW c \in Conns, Enqueue(c) PROVE IndInv'
<1> USE DEF IndInv
<1>1. /\ handler[c] = "sending" /\ task # "stopped" /\ Len(queue) < Capacity
      /\ queue' = Append(queue, current[c]) /\ accepted' = Append(accepted, current[c])
      /\ handler' = [handler EXCEPT ![c] = "waiting"]
      /\ UNCHANGED <<current, reply, batch, running, idx, task, shutdown, ran, told>>
  BY DEF Enqueue
<1>2. /\ current[c] \in Request /\ current[c].conn = c
      /\ current[c] \notin ToSet(accepted) /\ current[c] \notin Held \cup Ran
      /\ \A t \in told : t[1] # current[c]
  BY <1>1, SendingIsFresh
<1>3. /\ queue' \in Seq(Request) /\ Len(queue') = Len(queue) + 1
      /\ ToSet(queue') = ToSet(queue) \cup {current[c]} /\ IsInjective(queue')
  BY <1>1, <1>2, AppendSet DEF TypeOK, Places, Held
<1>4. accepted' \in Seq(Request) /\ ToSet(accepted') = ToSet(accepted) \cup {current[c]}
  BY <1>1, <1>2, AppendSet DEF TypeOK
<1>5. TypeOK'
  <2>1. Len(queue') <= Capacity
    BY <1>1, <1>3, LenProperties DEF TypeOK
  <2> QED
    BY <1>1, <1>3, <1>4, <2>1 DEF TypeOK
<1>6. Held' = Held \cup {current[c]} /\ Ran' = Ran
  BY <1>1, <1>3 DEF Held, Ran
<1>7. Places'
  BY <1>1, <1>2, <1>3 DEF Places, IsInjective, Held
<1>8. Shapes'
  BY <1>1 DEF Shapes
<1>9. RunsApart'
  BY <1>1, <1>2, <1>6 DEF RunsApart, Ran
<1>10. Accounted'
  BY <1>1, <1>4, <1>6 DEF Accounted
<1>11. /\ handler'[c] = "waiting" /\ \A d \in Conns : d # c => handler'[d] = handler[d]
  BY <1>1 DEF TypeOK
<1>12. Numbered'
  BY <1>1, <1>11 DEF Numbered, Busy, Count
<1>13. AcceptedBefore'
  BY <1>1, <1>2, <1>4, <1>11, AcceptedConn DEF AcceptedBefore, Count
<1>14. Replies'
  BY <1>1, <1>6, <1>11 DEF Replies
<1>15. RefusedNotAccepted' /\ ToldOwnResult'
  BY <1>1, <1>2, <1>4 DEF RefusedNotAccepted, ToldOwnResult, RunsOf
<1> QED
  BY <1>5, <1>7, <1>8, <1>9, <1>10, <1>12, <1>13, <1>14, <1>15
\* A handler is done with its request, which from now on is one of the answered.
LEMMA RespondsInv ==
    ASSUME IndInv, NEW c \in Conns, NEW answer \in GivenAnswers, Responds(c, answer)
    PROVE  IndInv'
<1> USE DEF IndInv
<1>1. /\ Busy(c) /\ told' = told \cup {<<current[c], answer>>}
      /\ handler' = [handler EXCEPT ![c] = "idle"]
      /\ current' = [current EXCEPT ![c] = NoRequest]
      /\ reply' = [reply EXCEPT ![c] = "empty"]
      /\ UNCHANGED <<queue, batch, running, idx, task, ran, accepted, shutdown>>
  BY DEF Responds, Respond, taskVars
<1>2. current[c] \in Request /\ current[c].conn = c /\ current[c].n = Count(c) + 1 /\ Count(c) \in Nat
  BY <1>1, CountType DEF Numbered
<1>3. Count(c)' = Count(c) + 1 /\ \A d : d # c => Count(d)' = Count(d)
  BY <1>1, CountAnswer
<1>4. TypeOK'
  BY <1>1, <1>2 DEF TypeOK, GivenAnswers
<1>5. /\ Held' = Held /\ Ran' = Ran /\ ToSet(accepted)' = ToSet(accepted)
      /\ Places' /\ Shapes' /\ RunsApart' /\ Accounted'
  BY <1>1, TaskStays
<1>6. /\ handler'[c] = "idle" /\ current'[c] = NoRequest /\ reply'[c] = "empty"
      /\ \A d \in Conns : d # c => handler'[d] = handler[d] /\ current'[d] = current[d]
                                    /\ reply'[d] = reply[d]
  BY <1>1 DEF TypeOK
<1>7. Numbered'
  <2>1. IsFiniteSet(told')
    BY <1>1, FS_AddElement DEF Numbered
  <2>2. \A t \in told' : t[1].n <= Count(t[1].conn)'
    <3> SUFFICES ASSUME NEW t \in told' PROVE t[1].n <= Count(t[1].conn)'
      OBVIOUS
    <3>1. CASE t = <<current[c], answer>>
      BY <3>1, <1>2, <1>3
    <3>2. CASE t \in told /\ t[1].conn = c
      <4>1. t[1].n <= Count(c) /\ t[1].n \in Nat
        BY <3>2 DEF Numbered, TypeOK, Request
      <4> QED
        BY <4>1, <3>2, <1>2, <1>3
    <3>3. CASE t \in told /\ t[1].conn # c
      BY <3>3, <1>3 DEF Numbered
    <3> QED
      BY <3>1, <3>2, <3>3, <1>1
  <2>3. ~Busy(c)' /\ \A d \in Conns : d # c => (Busy(d)' <=> Busy(d))
    BY <1>6 DEF Busy
  <2> QED
    BY <1>3, <1>6, <2>1, <2>2, <2>3 DEF Numbered
<1>8. AcceptedBefore'
  <2>1. ASSUME NEW r \in ToSet(accepted)
        PROVE  \/ r.n <= Count(r.conn)' \/ handler'[r.conn] = "closed"
               \/ handler'[r.conn] = "waiting" /\ r = current'[r.conn]
    <3>1. r \in Request /\ r.conn \in Conns /\ r.n \in Nat
      BY <2>1, AcceptedConn DEF Request
    <3>2. \/ r.n <= Count(r.conn) \/ handler[r.conn] = "closed"
          \/ handler[r.conn] = "waiting" /\ r = current[r.conn]
      BY <2>1 DEF AcceptedBefore
    <3>3. CASE r.conn = c
      BY <3>1, <3>2, <3>3, <1>1, <1>2, <1>3 DEF Busy
    <3>4. CASE r.conn # c
      BY <3>1, <3>2, <3>4, <1>3, <1>6
    <3> QED
      BY <3>3, <3>4
  <2> QED
    BY <2>1, <1>5, <1>6 DEF AcceptedBefore
<1>9. Replies'
  BY <1>1, <1>5, <1>6 DEF Replies
<1>10. RefusedNotAccepted'
  <2>1. answer = "refused" => current[c] \notin ToSet(accepted)
    BY SendingIsFresh DEF Responds
  <2> QED
    BY <1>1, <1>5, <2>1 DEF RefusedNotAccepted
<1>11. ToldOwnResult'
  <2>1. answer \in {"ok", "err"} => \E i \in RunsOf(current[c]) : ran[i].result = answer
    <3> SUFFICES ASSUME answer \in {"ok", "err"}
                 PROVE  \E i \in RunsOf(current[c]) : ran[i].result = answer
      OBVIOUS
    <3>1. handler[c] = "waiting" /\ reply[c] = answer
      BY <1>1 DEF Responds, Busy
    <3> QED
      BY <3>1 DEF Replies, RunsOf
  <2> QED
    BY <1>1, <2>1 DEF ToldOwnResult, RunsOf
<1> QED
  BY <1>4, <1>5, <1>7, <1>8, <1>9, <1>10, <1>11

LEMMA CloseInv == ASSUME IndInv, NEW c \in Conns, Close(c) PROVE IndInv'
<1> USE DEF IndInv
<1>1. /\ handler' = [handler EXCEPT ![c] = "closed"]
      /\ current' = [current EXCEPT ![c] = NoRequest]
      /\ reply' = [reply EXCEPT ![c] = "empty"]
      /\ UNCHANGED <<queue, batch, running, idx, task, ran, accepted, shutdown, told>>
  BY DEF Close, taskVars, history
<1>2. TypeOK'
  BY <1>1 DEF TypeOK
<1>3. /\ Held' = Held /\ Ran' = Ran /\ ToSet(accepted)' = ToSet(accepted)
      /\ Places' /\ Shapes' /\ RunsApart' /\ Accounted'
  BY <1>1, TaskStays
<1>4. /\ handler'[c] = "closed" /\ current'[c] = NoRequest /\ reply'[c] = "empty"
      /\ \A d \in Conns : d # c => handler'[d] = handler[d] /\ current'[d] = current[d]
                                    /\ reply'[d] = reply[d]
  BY <1>1 DEF TypeOK
<1>5. \A d : Count(d)' = Count(d)
  BY <1>1 DEF Count
<1>6. Numbered'
  <2>1. ~Busy(c)' /\ \A d \in Conns : d # c => (Busy(d)' <=> Busy(d))
    BY <1>4 DEF Busy
  <2> QED
    BY <1>1, <1>4, <1>5, <2>1 DEF Numbered
<1>7. AcceptedBefore'
  BY <1>1, <1>3, <1>4, <1>5, AcceptedConn DEF AcceptedBefore
<1>8. Replies'
  BY <1>1, <1>3, <1>4 DEF Replies
<1>9. RefusedNotAccepted' /\ ToldOwnResult'
  BY <1>1, <1>3 DEF RefusedNotAccepted, ToldOwnResult, RunsOf
<1> QED
  BY <1>2, <1>3, <1>6, <1>7, <1>8, <1>9

LEMMA InductiveStep == IndInv /\ [Next]_vars => IndInv'
<1> SUFFICES ASSUME IndInv, [Next]_vars PROVE IndInv'
  OBVIOUS
<1>1. ASSUME NEW c \in Conns, HandlerActs(c) PROVE IndInv'
  BY <1>1, ReceiveInv, EnqueueInv, RespondsInv, CloseInv, Zenon DEF HandlerActs
<1>2. CASE Next
  BY <1>1, <1>2, NextCases, MovesInv, StopInv, ShutdownInv, FinishInv, Zenon
<1> QED
  BY <1>2, ShutdownInv

THEOREM Inductive == Spec => []IndInv
BY InitInv, InductiveStep, PTL DEF Spec

(***************************************************************************)
(* What the task holds is waited for, or was given up.                     *)
(***************************************************************************)
\* The task takes nothing by itself: only a connection adds to what it holds.
LEMMA HeldShrinks ==
    ASSUME IndInv, Moves \/ Stop \/ Shutdown \/ (\E x \in Outcomes : Finish(x)) \/ UNCHANGED vars
    PROVE  Held' \subseteq Held /\ UNCHANGED <<handler, current, told>>
<1>1. CASE Moves
  <2>1. Held' = Held
    BY <1>1, MovesKeep DEF IndInv, TypeOK, Holdings
  <2> QED
    BY <1>1, <2>1 DEF Moves, TakeFirst, TakeMore, TakeNoMore, Start, Collect, Collected, BatchDone,
                      connVars, history
<1>2. CASE Stop
  <2>1. /\ UNCHANGED <<batch, running, handler, current, told>> /\ queue' = <<>>
    BY <1>2 DEF Stop, history
  <2>2. ToSet(queue)' = {}
    BY <2>1 DEF ToSet
  <2> QED
    BY <2>1, <2>2 DEF Held
<1>3. CASE Shutdown \/ UNCHANGED vars
  <2>1. UNCHANGED <<queue, batch, running, handler, current, told>>
    BY <1>3, Zenon DEF Shutdown, vars, connVars, taskVars, history
  <2> QED
    BY <2>1 DEF Held
<1>4. CASE \E x \in Outcomes : Finish(x)
  <2>1. running' = {} /\ UNCHANGED <<queue, batch, handler, current, told>>
    BY <1>4 DEF Finish
  <2> QED
    BY <2>1 DEF Held
<1> QED
  BY <1>1, <1>2, <1>3, <1>4

LEMMA AwaitedStep == IndInv /\ HeldIsAwaited /\ [Next]_vars => HeldIsAwaited'
<1> SUFFICES ASSUME IndInv, HeldIsAwaited, [Next]_vars PROVE HeldIsAwaited'
  OBVIOUS
<1>0. \A r \in Held : r \in Request /\ r.conn \in Conns
  <2>1. Held \subseteq Request
    BY DEF IndInv, TypeOK, Held, ToSet
  <2> QED
    BY <2>1 DEF Request
<1>1. CASE Moves \/ Stop \/ Shutdown \/ (\E x \in Outcomes : Finish(x)) \/ UNCHANGED vars
  BY <1>1, HeldShrinks DEF HeldIsAwaited
<1>2. ASSUME NEW c \in Conns, HandlerActs(c) PROVE HeldIsAwaited'
  <2>1. CASE Enqueue(c)
    <3>1. /\ handler[c] = "sending" /\ queue' = Append(queue, current[c])
          /\ handler' = [handler EXCEPT ![c] = "waiting"]
          /\ UNCHANGED <<current, batch, running, told>>
      BY <2>1 DEF Enqueue
    <3>2. current[c] \in Request /\ current[c].conn = c /\ current[c] \notin Held
      BY <3>1, SendingIsFresh
    <3>3. Held' = Held \cup {current[c]}
      <4>1. queue \in Seq(Request)
        BY DEF IndInv, TypeOK
      <4>2. ToSet(queue') = ToSet(queue) \cup {current[c]}
        BY <3>1, <3>2, <4>1, AppendSet DEF IndInv, Places, Held
      <4> QED
        BY <3>1, <4>2 DEF Held
    <3>4. handler'[c] = "waiting" /\ \A d \in Conns : d # c => handler'[d] = handler[d]
      BY <3>1 DEF IndInv, TypeOK
    <3> QED
      BY <1>0, <3>1, <3>2, <3>3, <3>4 DEF HeldIsAwaited
  <2>2. CASE Close(c)
    <3>1. /\ UNCHANGED <<queue, batch, running, told>>
          /\ handler' = [handler EXCEPT ![c] = "closed"]
          /\ current' = [current EXCEPT ![c] = NoRequest]
      BY <2>2 DEF Close, taskVars, history
    <3>2. /\ handler'[c] = "closed"
          /\ \A d \in Conns : d # c => handler'[d] = handler[d] /\ current'[d] = current[d]
      BY <3>1 DEF IndInv, TypeOK
    <3> QED
      BY <1>0, <3>1, <3>2 DEF HeldIsAwaited, Held
  <2>3. ASSUME NEW k \in Kinds, Receive(c, k) PROVE HeldIsAwaited'
    <3>1. /\ handler[c] = "idle" /\ UNCHANGED <<queue, batch, running, told>>
          /\ \E r : current' = [current EXCEPT ![c] = r]
          /\ handler' = [handler EXCEPT ![c] = "sending"]
      BY <2>3 DEF Receive, taskVars, history
    <3>2. \A d \in Conns : d # c => handler'[d] = handler[d] /\ current'[d] = current[d]
      BY <3>1 DEF IndInv, TypeOK
    <3> QED
      BY <1>0, <3>1, <3>2 DEF HeldIsAwaited, Held
  <2>4. ASSUME NEW answer \in GivenAnswers, Responds(c, answer) PROVE HeldIsAwaited'
    <3>1. /\ Busy(c) /\ told' = told \cup {<<current[c], answer>>}
          /\ handler' = [handler EXCEPT ![c] = "idle"]
          /\ current' = [current EXCEPT ![c] = NoRequest]
          /\ UNCHANGED <<queue, batch, running>>
      BY <2>4 DEF Responds, Respond, taskVars
    <3>2. \A d \in Conns : d # c => handler'[d] = handler[d] /\ current'[d] = current[d]
      BY <3>1 DEF IndInv, TypeOK
    \* What was answered with anything but a timeout is not held.
    <3>3. answer # "timeout" => current[c] \notin Held
      <4>1. CASE answer \in {"ok", "err"}
        <5>1. handler[c] = "waiting" /\ reply[c] = answer
          BY <2>4, <3>1, <4>1 DEF Responds, Busy
        <5> QED
          BY <4>1, <5>1 DEF IndInv, Replies, RunsApart
      <4>2. CASE answer = "refused"
        BY <2>4, <4>2, SendingIsFresh DEF Responds
      <4>3. CASE answer = "dropped"
        BY <2>4, <4>3 DEF Responds, IndInv, Replies
      <4> QED
        BY <4>1, <4>2, <4>3 DEF GivenAnswers
    <3>4. ASSUME NEW r \in Held, r.conn = c
          PROVE  handler'[c] = "closed" \/ <<r, "timeout">> \in told'
      <4>1. handler[c] # "closed"
        BY <3>1 DEF Busy
      <4> QED
        BY <3>1, <3>3, <3>4, <4>1 DEF HeldIsAwaited
    <3> QED
      BY <1>0, <3>1, <3>2, <3>4 DEF HeldIsAwaited, Held
  <2> QED
    BY <1>2, <2>1, <2>2, <2>3, <2>4, Zenon DEF HandlerActs
<1> QED
  BY <1>1, <1>2, NextCases, Zenon

LEMMA AwaitedStarts == Init => HeldIsAwaited
BY DEF Init, HeldIsAwaited, Held, ToSet

(***************************************************************************)
(* What the runs check on a small instance, for all of them.               *)
(***************************************************************************)
\* Nothing is lost or duplicated between channel, batch, sweep and run; what was
\* refused never runs; ok and err are the result of the own request; nobody who
\* waits is forgotten, and nothing is held that nobody waits for or has given up.
THEOREM QueueAccounts == Spec => []QueueInv
<1>1. IndInv => NoneLostNoneTwice
  <2> SUFFICES ASSUME IndInv, NEW r \in ToSet(accepted)
               PROVE  LET n == InTask(r) + Cardinality(RunsOf(r))
                      IN IF task = "stopped" THEN n \in 0..1 ELSE n = 1
    BY DEF NoneLostNoneTwice
  <2>1. InTask(r) = IF r \in Held THEN 1 ELSE 0
    BY InTaskHeld DEF IndInv
  <2>2. Cardinality(RunsOf(r)) = IF r \in Ran THEN 1 ELSE 0
    BY RunsOnce DEF IndInv
  <2>3. ~(r \in Held /\ r \in Ran)
    BY DEF IndInv, RunsApart, Ran
  <2>4. task # "stopped" => r \in Held \cup Ran
    BY DEF IndInv, Accounted
  <2> QED
    BY <2>1, <2>2, <2>3, <2>4
<1>2. IndInv => RefusedNeverRuns
  <2> SUFFICES ASSUME IndInv, NEW r \in Request, <<r, "refused">> \in told
               PROVE  RunsOf(r) = {} /\ InTask(r) = 0
    BY DEF RefusedNeverRuns
  <2>1. r \notin Held /\ r \notin Ran
    BY DEF IndInv, RefusedNotAccepted, Accounted
  <2> QED
    BY <2>1, InTaskHeld, RunsOnce DEF IndInv
<1>3. IndInv => NobodyForgotten
  <2> SUFFICES ASSUME IndInv, NEW c \in Conns, handler[c] = "waiting", reply[c] = "empty"
               PROVE  InTask(current[c]) = 1
    BY DEF NobodyForgotten
  <2>1. current[c] \in Held
    BY DEF IndInv, Replies
  <2> QED
    BY <2>1, InTaskHeld DEF IndInv
<1>4. IndInv /\ HeldIsAwaited => QueueInv
  BY <1>1, <1>2, <1>3 DEF IndInv, QueueInv
<1> QED
  BY <1>4, Inductive, AwaitedStarts, AwaitedStep, PTL DEF Spec

(***************************************************************************)
(* The order of the commands.                                              *)
(***************************************************************************)
\* As long as nothing was coalesced the requests that have run, the one that runs, the
\* batch and the channel are what was accepted, in its order.
Started == Len(ran) + (IF running = {} THEN 0 ELSE 1)
InLine ==
    /\ Started + Len(batch) + Len(queue) <= Len(accepted)
    /\ task # "stopped" => Started + Len(batch) + Len(queue) = Len(accepted)
    /\ \A i \in DOMAIN ran : ran[i].reqs = {accepted[i]}
    /\ running # {} => running = {accepted[Len(ran) + 1]}
    /\ \A i \in DOMAIN batch : batch[i] = accepted[Started + i]
    /\ \A i \in DOMAIN queue : queue[i] = accepted[Started + Len(batch) + i]
OrderInd == IsFiniteSet(running) /\ (Uncoalesced => InLine)

LEMMA LineLengths ==
    ASSUME TypeOK
    PROVE  /\ Len(ran) \in Nat /\ Len(batch) \in Nat /\ Len(queue) \in Nat /\ Len(accepted) \in Nat
           /\ DOMAIN ran = 1..Len(ran) /\ DOMAIN batch = 1..Len(batch)
           /\ DOMAIN queue = 1..Len(queue) /\ DOMAIN accepted = 1..Len(accepted)
BY LenProperties DEF TypeOK

\* What has started has been accepted.
LEMMA StartedAccepted ==
    ASSUME TypeOK, Started + Len(batch) + Len(queue) <= Len(accepted)
    PROVE  /\ DOMAIN ran \subseteq DOMAIN accepted
           /\ running # {} => Len(ran) + 1 \in DOMAIN accepted
<1> DEFINE r == Len(ran)  a == Len(accepted)
<1>1. /\ r \in Nat /\ a \in Nat /\ Len(batch) \in Nat /\ Len(queue) \in Nat
      /\ DOMAIN ran = 1..r /\ DOMAIN accepted = 1..a
  BY LineLengths
<1>2. Started = r \/ (Started = r + 1)
  <2>1. CASE running = {}
    <3>1. Started = r + 0
      BY <2>1 DEF Started
    <3> HIDE DEF r, Started
    <3> QED  BY ONLY <3>1, <1>1
  <2>2. CASE running # {}
    BY <2>2 DEF Started
  <2> QED  BY <2>1, <2>2
<1>3. running # {} => Started = r + 1
  BY DEF Started
<1> HIDE DEF r, a
<1>4. Started + Len(batch) + Len(queue) <= a
  BY DEF a
<1>5. r <= a
  BY ONLY <1>1, <1>2, <1>4
<1>6. running # {} => r + 1 <= a
  BY ONLY <1>1, <1>3, <1>4
<1>7. 1..r \subseteq 1..a
  BY ONLY <1>1, <1>5
<1>8. running # {} => r + 1 \in 1..a
  BY ONLY <1>1, <1>6
<1> QED
  BY <1>1, <1>7, <1>8 DEF r

\* A set that is not empty and has at most one element.
LEMMA AtMostOne ==
    ASSUME NEW S, IsFiniteSet(S), NEW a, a \notin S
    PROVE  /\ IsFiniteSet(S \cup {a})
           /\ S # {} => ~(Cardinality(S \cup {a}) <= 1)
           /\ Cardinality({a}) = 1 /\ IsFiniteSet({a})
<1>1. IsFiniteSet(S \cup {a}) /\ Cardinality(S \cup {a}) = Cardinality(S) + 1
  BY FS_AddElement
<1>2. Cardinality(S) \in Nat /\ (Cardinality(S) = 0 <=> S = {})
  BY FS_CardinalityType, FS_EmptySet
<1>3. Cardinality({a}) = 1 /\ IsFiniteSet({a})
  BY FS_Singleton
<1> QED
  BY <1>1, <1>2, <1>3

LEMMA OrderStarts == Init => OrderInd
<1> SUFFICES ASSUME Init PROVE OrderInd
  OBVIOUS
<1>1. IsFiniteSet(running)
  BY FS_EmptySet DEF Init
<1>2. InLine
  BY DEF Init, InLine, Started
<1> QED
  BY <1>1, <1>2 DEF OrderInd

\* The task takes the oldest request of the channel.
LEMMA OrderTaken ==
    ASSUME IndInv, TypeOK', OrderInd, TakeFirst \/ TakeMore
    PROVE  OrderInd'
<1>1. UNCHANGED <<running, ran, accepted>> /\ task # "stopped" /\ queue # <<>> /\ queue' = Tail(queue)
  BY DEF TakeFirst, TakeMore, history
<1>2. batch \in Seq(Request) /\ queue \in Seq(Request) /\ (TakeFirst => batch = <<>>)
  BY DEF IndInv, TypeOK, Shapes, TakeFirst
<1>3. /\ Head(queue) = queue[1] /\ Len(queue') = Len(queue) - 1 /\ queue[1] \in Request
      /\ \A i \in 1..Len(queue') : queue'[i] = queue[i + 1]
  BY <1>1, <1>2, HeadTailProperties, LenProperties
<1>4. batch' = Append(batch, queue[1])
  <2>1. CASE TakeFirst
    <3>1. batch' = <<queue[1]>> /\ batch = <<>>
      BY <2>1, <1>2, <1>3 DEF TakeFirst
    <3> QED  BY ONLY <3>1
  <2>2. CASE TakeMore
    BY <2>2, <1>3 DEF TakeMore
  <2> QED  BY <2>1, <2>2
<1>5. /\ Len(batch') = Len(batch) + 1 /\ batch'[Len(batch) + 1] = queue[1]
      /\ \A i \in 1..Len(batch) : batch'[i] = batch[i]
  BY <1>2, <1>3, <1>4, AppendAt, LenProperties
<1>6. ASSUME Uncoalesced' PROVE InLine'
  <2>1. InLine
    BY <1>1, <1>6 DEF OrderInd, Uncoalesced
  <2>2. Started' = Started /\ Started \in Nat
    BY <1>1, LineLengths DEF Started, IndInv
  <2> DEFINE s == Started
  <2>3. s \in Nat
    BY <2>2
  <2>4. /\ \A i \in DOMAIN batch : batch[i] = accepted[s + i]
        /\ \A i \in DOMAIN queue : queue[i] = accepted[s + Len(batch) + i]
    BY <2>1 DEF InLine
  <2> HIDE DEF s
  <2>5. /\ Len(batch) \in Nat /\ Len(queue) \in Nat /\ DOMAIN batch = 1..Len(batch) /\ DOMAIN queue = 1..Len(queue)
        /\ DOMAIN batch' = 1..Len(batch') /\ DOMAIN queue' = 1..Len(queue') /\ 1 \in DOMAIN queue
    BY <1>1, <1>2, LineLengths, LenProperties, EmptySeq DEF IndInv, TypeOK
  <2>6. \A i \in DOMAIN batch' : batch'[i] = accepted[s + i]
    <3> TAKE i \in DOMAIN batch'
    <3>1. CASE i = Len(batch) + 1
      <4>1. s + Len(batch) + 1 = s + i
        BY ONLY <3>1, <2>3, <2>5
      <4> QED  BY ONLY <3>1, <4>1, <1>5, <2>4, <2>5
    <3>2. CASE i \in 1..Len(batch)
      BY ONLY <3>2, <1>5, <2>4, <2>5
    <3> QED  BY ONLY <3>1, <3>2, <1>5, <2>5
  <2>7. \A i \in DOMAIN queue' : queue'[i] = accepted[s + Len(batch') + i]
    <3> TAKE i \in DOMAIN queue'
    <3>1. i \in Nat /\ i \in 1..Len(queue') /\ i + 1 \in DOMAIN queue
      BY ONLY <1>3, <2>5
    <3>2. s + Len(batch) + (i + 1) = s + Len(batch') + i
      BY ONLY <3>1, <1>5, <2>3, <2>5
    <3> QED  BY ONLY <3>1, <3>2, <1>3, <2>4
  <2> QED
    BY <1>1, <1>3, <1>5, <2>1, <2>2, <2>5, <2>6, <2>7 DEF InLine, s
<1> QED
  BY <1>1, <1>6 DEF OrderInd

\* It starts the oldest of the batch, and what it collects is coalesced.
LEMMA OrderStarted ==
    ASSUME IndInv, TypeOK', OrderInd, Start \/ Collect
    PROVE  OrderInd'
<1>1. CASE Start
  <2>1. /\ UNCHANGED <<queue, ran, accepted>> /\ task' # "stopped" /\ task # "stopped" /\ batch # <<>>
        /\ running' = {Head(batch)} /\ batch' = Tail(batch) /\ running = {}
    BY <1>1 DEF Start, history, IndInv, Shapes
  <2>2. batch \in Seq(Request)
    BY DEF IndInv, TypeOK
  <2>3. /\ Head(batch) = batch[1] /\ Len(batch') = Len(batch) - 1
        /\ \A i \in 1..Len(batch') : batch'[i] = batch[i + 1]
    BY <2>1, <2>2, HeadTailProperties, LenProperties
  <2>4. IsFiniteSet(running') /\ Cardinality(running) = 0
    BY <2>1, FS_Singleton, FS_EmptySet
  <2>5. ASSUME Uncoalesced' PROVE InLine'
    <3>1. InLine
      BY <2>1, <2>4, <2>5 DEF OrderInd, Uncoalesced
    <3>2. Started' = Started + 1 /\ Started = Len(ran)
      BY <2>1 DEF Started
    <3>3. running' = {accepted[Len(ran) + 1]}
      BY <2>1, <2>3, <3>1, <3>2, LineLengths DEF InLine, IndInv
    <3> DEFINE s == Started
    <3>4. /\ s \in Nat /\ Len(batch) \in Nat /\ Len(queue) \in Nat
          /\ DOMAIN batch = 1..Len(batch) /\ DOMAIN queue = 1..Len(queue) /\ DOMAIN batch' = 1..Len(batch')
      BY <2>1, <2>2, <3>2, LineLengths, LenProperties DEF IndInv, TypeOK
    <3>5. /\ \A i \in DOMAIN batch : batch[i] = accepted[s + i]
          /\ \A i \in DOMAIN queue : queue[i] = accepted[s + Len(batch) + i]
      BY <3>1 DEF InLine
    <3> HIDE DEF s
    <3>6. \A i \in DOMAIN batch' : batch'[i] = accepted[s + 1 + i]
      <4> TAKE i \in DOMAIN batch'
      <4>1. i \in Nat /\ i \in 1..Len(batch') /\ i + 1 \in DOMAIN batch
        BY ONLY <2>3, <3>4
      <4>2. s + (i + 1) = s + 1 + i
        BY ONLY <4>1, <3>4
      <4> QED  BY ONLY <4>1, <4>2, <2>3, <3>5
    <3>7. \A i \in DOMAIN queue : queue[i] = accepted[s + 1 + Len(batch') + i]
      <4> TAKE i \in DOMAIN queue
      <4>1. s + Len(batch) + i = s + 1 + Len(batch') + i
        BY ONLY <2>3, <3>4
      <4> QED  BY ONLY <4>1, <3>5
    <3>8. Len(batch') = Len(batch) - 1 /\ UNCHANGED <<queue, ran, accepted>> /\ running' # {} /\ Started' = s + 1
      BY <2>1, <2>3, <3>2 DEF s
    <3>9. /\ s + Len(batch) + Len(queue) <= Len(accepted)
          /\ s + Len(batch) + Len(queue) = Len(accepted)
      BY <2>1, <3>1 DEF InLine, s
    <3>10. \A i \in DOMAIN ran : ran[i].reqs = {accepted[i]}
      BY <3>1 DEF InLine
    <3> QED
      BY <3>3, <3>4, <3>6, <3>7, <3>8, <3>9, <3>10 DEF InLine
  <2> QED
    BY <2>4, <2>5 DEF OrderInd
<1>2. CASE Collect
  <2>1. UNCHANGED <<queue, ran, accepted, task>> /\ task = "sweep" /\ running # {} /\ idx \in DOMAIN batch
    BY <1>2, LineLengths DEF Collect, history, IndInv, Shapes, TypeOK
  <2>2. CASE batch[idx].kind = "spectrum"
    <3>1. running' = running \cup {batch[idx]} /\ batch[idx] \notin running
      BY <1>2, <2>1, <2>2 DEF Collect, IndInv, Places, ToSet
    <3> QED
      BY <3>1, <2>1, AtMostOne DEF OrderInd, Uncoalesced
  <2>3. CASE batch[idx].kind # "spectrum"
    BY <1>2, <2>1, <2>3 DEF Collect, OrderInd, Uncoalesced, InLine, Started
  <2> QED
    BY <2>2, <2>3
<1> QED
  BY <1>1, <1>2

\* A run that ends becomes the newest of those that have ended.
LEMMA OrderFinished ==
    ASSUME IndInv, TypeOK', OrderInd, NEW x \in Outcomes, Finish(x)
    PROVE  OrderInd'
<1>1. /\ UNCHANGED <<queue, batch, accepted>> /\ running # {} /\ running' = {} /\ task # "stopped" /\ task' # "stopped"
      /\ ran' = Append(ran, [reqs |-> running, result |-> x])
  BY DEF Finish, IndInv, Shapes
<1>2. /\ Len(ran') = Len(ran) + 1 /\ ran'[Len(ran) + 1].reqs = running
      /\ \A i \in DOMAIN ran : ran'[i] = ran[i] /\ i \in DOMAIN ran'
      /\ Len(ran) + 1 \in DOMAIN ran' /\ DOMAIN ran' = DOMAIN ran \cup {Len(ran) + 1}
  <2>1. [reqs |-> running, result |-> x] \in [reqs : SUBSET Request, result : {"ok", "err"}]
    BY DEF IndInv, TypeOK
  <2> QED
    BY <1>1, <2>1, AppendAt DEF IndInv, TypeOK
<1>3. IsFiniteSet(running')
  BY <1>1, FS_EmptySet
<1>4. ASSUME Uncoalesced' PROVE InLine'
  <2>1. Cardinality(running) = 1 /\ \A i \in DOMAIN ran : Cardinality(ran[i].reqs) = 1
    BY <1>2, <1>4 DEF Uncoalesced
  <2>2. InLine
    BY <2>1 DEF OrderInd, Uncoalesced
  <2>3. Started' = Started /\ Started = Len(ran) + 1
    BY <1>1, <1>2 DEF Started
  <2>4. \A i \in DOMAIN ran' : ran'[i].reqs = {accepted[i]}
    BY <1>1, <1>2, <2>2, <2>3 DEF InLine
  <2>5. /\ \A i \in DOMAIN batch' : batch'[i] = accepted'[Started' + i]
        /\ \A i \in DOMAIN queue' : queue'[i] = accepted'[Started' + Len(batch') + i]
    BY <1>1, <2>2, <2>3 DEF InLine
  <2> QED
    BY <1>1, <2>2, <2>3, <2>4, <2>5 DEF InLine
<1> QED
  BY <1>3, <1>4 DEF OrderInd

\* What the channel takes is the newest that is accepted; a task that stops drops it.
LEMMA OrderAccepted ==
    ASSUME IndInv, TypeOK', OrderInd, Stop \/ \E c \in Conns : Enqueue(c)
    PROVE  OrderInd'
<1>1. UNCHANGED <<batch, running, ran>>
  BY DEF Stop, Enqueue, history
<1>2. CASE Stop
  <2>1. queue' = <<>> /\ UNCHANGED accepted /\ task' = "stopped"
    BY <1>2 DEF Stop, history
  <2>2. Len(queue) \in Nat /\ Len(batch) \in Nat /\ Started \in Nat /\ Len(accepted) \in Nat
    BY LineLengths DEF IndInv, Started
  <2>3. Len(queue') = 0 /\ DOMAIN queue' = {} /\ Started' = Started
    <3>1. Started' = Started
      BY <1>1 DEF Started
    <3> QED  BY ONLY <2>1, <3>1
  <2>4. ASSUME Uncoalesced' PROVE InLine'
    <3>1. InLine
      BY <1>1, <2>4 DEF OrderInd, Uncoalesced
    <3>2. Started + Len(batch) + Len(queue) <= Len(accepted)
      BY <3>1 DEF InLine
    <3>3. Started' + Len(batch') + Len(queue') <= Len(accepted')
      <4>1. Len(batch') = Len(batch) /\ Len(accepted') = Len(accepted)
        BY <1>1, <2>1
      <4> HIDE DEF Started
      <4> QED  BY ONLY <2>2, <2>3, <3>2, <4>1
    <3> QED
      BY <1>1, <2>1, <2>3, <3>1, <3>3 DEF InLine
  <2> QED
    BY <1>1, <2>4 DEF OrderInd
<1>3. ASSUME NEW c \in Conns, Enqueue(c) PROVE OrderInd'
  <2>1. /\ queue' = Append(queue, current[c]) /\ accepted' = Append(accepted, current[c])
        /\ task # "stopped" /\ UNCHANGED task /\ current[c] \in Request
    BY <1>3 DEF Enqueue, IndInv, Numbered, Busy
  <2>2. /\ Len(queue') = Len(queue) + 1 /\ queue'[Len(queue) + 1] = current[c]
        /\ \A i \in DOMAIN queue : queue'[i] = queue[i]
        /\ DOMAIN queue' = DOMAIN queue \cup {Len(queue) + 1}
    <3>1. queue \in Seq(Request)
      BY DEF IndInv, TypeOK
    <3> QED  BY ONLY <2>1, <3>1, AppendAt
  <2>3. /\ Len(accepted') = Len(accepted) + 1 /\ accepted'[Len(accepted) + 1] = current[c]
        /\ \A i \in DOMAIN accepted : accepted'[i] = accepted[i]
    <3>1. accepted \in Seq(Request)
      BY DEF IndInv, TypeOK
    <3> QED  BY ONLY <2>1, <3>1, AppendAt
  <2>4. ASSUME Uncoalesced' PROVE InLine'
    <3>1. InLine /\ Started' = Started /\ Started \in Nat
      BY <1>1, <2>4, LineLengths DEF OrderInd, Uncoalesced, Started, IndInv
    <3>2. Started + Len(batch) + Len(queue) = Len(accepted)
      BY <2>1, <3>1 DEF InLine
    <3>0. /\ DOMAIN ran \subseteq DOMAIN accepted
          /\ running # {} => Len(ran) + 1 \in DOMAIN accepted
      BY <3>2, StartedAccepted DEF IndInv
    <3>3. \A i \in DOMAIN ran' : ran'[i].reqs = {accepted'[i]}
      <4> TAKE i \in DOMAIN ran'
      <4>1. i \in DOMAIN ran /\ ran[i].reqs = {accepted[i]}
        BY <1>1, <3>1 DEF InLine
      <4>2. i \in DOMAIN accepted
        BY <4>1, <3>0
      <4> QED
        BY <1>1, <2>3, <4>1, <4>2
    <3>4. running' # {} => running' = {accepted'[Len(ran') + 1]}
      <4> SUFFICES ASSUME running # {} PROVE running = {accepted'[Len(ran) + 1]}
        BY <1>1
      <4>1. Len(ran) + 1 \in DOMAIN accepted
        BY <3>0
      <4> QED
        BY <2>3, <3>1, <4>1 DEF InLine
    <3>5. \A i \in DOMAIN batch' : batch'[i] = accepted'[Started' + i]
      <4> TAKE i \in DOMAIN batch'
      <4>1. i \in DOMAIN batch /\ Started + i \in DOMAIN accepted
        BY <1>1, <3>1, <3>2, LineLengths DEF IndInv
      <4>2. batch'[i] = batch[i] /\ batch[i] = accepted[Started + i]
        BY <1>1, <3>1, <4>1 DEF InLine
      <4>3. accepted'[Started + i] = accepted[Started + i]
        BY <2>3, <4>1
      <4>4. Started' + i = Started + i
        BY <3>1
      <4> HIDE DEF Started
      <4> QED
        BY <4>2, <4>3, <4>4
    <3>6. \A i \in DOMAIN queue' : queue'[i] = accepted'[Started' + Len(batch') + i]
      <4> TAKE i \in DOMAIN queue'
      <4>1. CASE i = Len(queue) + 1
        BY <4>1, <1>1, <2>2, <2>3, <3>1, <3>2, LineLengths DEF IndInv
      <4>2. CASE i \in DOMAIN queue
        <5>1. Started + Len(batch) + i \in DOMAIN accepted
          BY <4>2, <3>1, <3>2, LineLengths DEF IndInv
        <5> QED
          BY <4>2, <5>1, <1>1, <2>2, <2>3, <3>1 DEF InLine
      <4> QED
        BY <2>2, <4>1, <4>2
    <3>7. Started' + Len(batch') + Len(queue') = Len(accepted') /\ Len(accepted') \in Nat
      <4>1. Started' = Started /\ Len(batch') = Len(batch)
        BY <1>1, <3>1
      <4>2. Len(queue) \in Nat /\ Len(batch) \in Nat /\ Len(accepted) \in Nat /\ Started \in Nat
        BY <3>1, LineLengths DEF IndInv
      <4> QED  BY ONLY <2>2, <2>3, <3>2, <4>1, <4>2
    <3>8. Started' + Len(batch') + Len(queue') <= Len(accepted')
      BY ONLY <3>7
    <3> QED
      BY <3>3, <3>4, <3>5, <3>6, <3>7, <3>8 DEF InLine
  <2> QED
    BY <1>1, <2>4 DEF OrderInd
<1> QED
  BY <1>2, <1>3

LEMMA OrderElsewhere ==
    ASSUME OrderInd, UNCHANGED <<queue, batch, running, ran, accepted>>,
           task' = "stopped" => task = "stopped", task = "stopped" => task' = "stopped"
    PROVE  OrderInd'
BY DEF OrderInd, Uncoalesced, InLine, Started

LEMMA OrderSteps == IndInv /\ TypeOK' /\ OrderInd /\ [Next]_vars => OrderInd'
<1> SUFFICES ASSUME IndInv, TypeOK', OrderInd, [Next]_vars PROVE OrderInd'
  OBVIOUS
<1>1. CASE TakeNoMore \/ Collected \/ BatchDone \/ Shutdown \/ UNCHANGED vars
  <2>1. /\ UNCHANGED <<queue, batch, running, ran, accepted>>
        /\ task' = "stopped" => task = "stopped"
        /\ task = "stopped" => task' = "stopped"
    BY <1>1 DEF TakeNoMore, Collected, BatchDone, Shutdown, vars, taskVars, history
  <2> QED
    BY <2>1, OrderElsewhere
<1>2. ASSUME NEW c \in Conns,
             Close(c) \/ (\E k \in Kinds : Receive(c, k)) \/ (\E answer \in GivenAnswers : Responds(c, answer))
      PROVE  OrderInd'
  <2>1. UNCHANGED <<queue, batch, running, ran, accepted, task>>
    BY <1>2 DEF Close, Receive, Responds, Respond, taskVars, history
  <2> QED
    BY <2>1, OrderElsewhere
<1>3. CASE Next
  BY <1>1, <1>2, <1>3, NextCases, OrderTaken, OrderStarted, OrderFinished, OrderAccepted, Zenon
     DEF Moves, HandlerActs
<1> QED
  BY <1>1, <1>3

\* As long as no run has answered two requests, commands run in the order in which the
\* channel accepted them, across batches, sweeps and the shutdown.
THEOREM OrderKept == Spec => []OrderedUnlessCoalesced
<1>1. IndInv /\ OrderInd => OrderedUnlessCoalesced
  <2> SUFFICES ASSUME IndInv, InLine, NEW i \in DOMAIN ran, NEW r \in ran[i].reqs
               PROVE  \E k \in DOMAIN accepted :
                         /\ accepted[k] = r
                         /\ \A j \in 1..(k - 1) : IsCommand(accepted[j]) => RunBefore(accepted[j], i)
    BY DEF OrderInd, OrderedUnlessCoalesced, CommandsInOrder
  <2>1. i \in DOMAIN accepted /\ accepted[i] = r
    BY StartedAccepted DEF InLine, IndInv
  <2>2. \A j \in 1..(i - 1) : RunBefore(accepted[j], i)
    BY LineLengths DEF InLine, IndInv, RunBefore
  <2> QED
    BY <2>1, <2>2
<1>2. IndInv => TypeOK
  BY DEF IndInv
<1> QED
  BY <1>1, <1>2, Inductive, OrderStarts, OrderSteps, PTL DEF Spec

(***************************************************************************)
(* The queue and its batches implement RequestService: every step is one   *)
(* of its steps or changes nothing it knows of.                            *)
(***************************************************************************)
\* What the service calls run, has run.
LEMMA ServiceHasRun == ASSUME TypeOK, NEW r PROVE Service!HasRun(r) <=> r \in Ran
<1>1. \A i \in DOMAIN ran : ran[i].result \in {"ok", "err"}
  <2> DEFINE E == [reqs : SUBSET Request, result : {"ok", "err"}]
  <2>1. ran \in Seq(E)
    BY DEF TypeOK
  <2> HIDE DEF E
  <2>2. \A i \in DOMAIN ran : ran[i] \in E
    BY <2>1
  <2> QED
    BY <2>2 DEF E
<1>2. ASSUME NEW x
      PROVE  <<r, x>> \in Results <=> \E i \in DOMAIN ran : r \in ran[i].reqs /\ x = ran[i].result
  <2>1. \A i : <<r, x>> \in ran[i].reqs \X {ran[i].result} <=> r \in ran[i].reqs /\ x = ran[i].result
    OBVIOUS
  <2>2. <<r, x>> \in Results <=> \E i \in DOMAIN ran : <<r, x>> \in ran[i].reqs \X {ran[i].result}
    BY DEF Results
  <2> QED
    BY <2>1, <2>2
<1> QED
  BY <1>1, <1>2 DEF Service!HasRun, Service!Results, Ran

\* A run adds the results of its requests and no other.
LEMMA FinishResults ==
    ASSUME TypeOK, NEW x \in Outcomes, Finish(x)
    PROVE  Results' = Results \cup (running \X {x})
<1> DEFINE entry == [reqs |-> running, result |-> x]
           last  == Len(ran) + 1
<1>1. /\ ran' = Append(ran, entry) /\ entry \in [reqs : SUBSET Request, result : {"ok", "err"}]
      /\ ran \in Seq([reqs : SUBSET Request, result : {"ok", "err"}])
  BY DEF Finish, TypeOK
<1>2. /\ DOMAIN ran' = DOMAIN ran \cup {last}
      /\ ran'[last] = entry /\ \A i \in DOMAIN ran : ran'[i] = ran[i]
  BY <1>1, AppendProperties, LenProperties
<1>3. \A p : p \in Results' <=> \E i \in DOMAIN ran' : p \in ran'[i].reqs \X {ran'[i].result}
  BY DEF Results
<1>4. \A p : p \in Results <=> \E i \in DOMAIN ran : p \in ran[i].reqs \X {ran[i].result}
  BY DEF Results
<1>5. ran'[last].reqs = running /\ ran'[last].result = x
  BY <1>2
<1> HIDE DEF entry, last
<1> QED
  BY <1>2, <1>3, <1>4, <1>5

LEMMA ServiceInit == Init => Service!Init
BY DEF Init, Service!Init, Held, Results, ToSet

LEMMA ServiceStep == IndInv /\ [Next]_vars => [Service!Next]_(Service!vars)
<1> SUFFICES ASSUME IndInv, [Next]_vars PROVE [Service!Next]_(Service!vars)
  OBVIOUS
<1> USE DEF IndInv
<1>0. NoRequest \notin Request
  BY DEF NoRequest, Request
<1>1. CASE Moves
  <2>1. Held' = Held
    BY <1>1, MovesKeep DEF TypeOK, Holdings
  <2>2. UNCHANGED <<current, ran, told>>
    BY <1>1 DEF Moves, TakeFirst, TakeMore, TakeNoMore, Start, Collect, Collected, BatchDone, connVars, history
  <2> QED
    BY <2>1, <2>2 DEF Service!vars, Results
<1>2. CASE Shutdown \/ UNCHANGED vars
  <2>1. UNCHANGED <<queue, batch, running, current, ran, told>>
    BY <1>2, Zenon DEF Shutdown, vars, connVars, taskVars, history
  <2> QED
    BY <2>1 DEF Service!vars, Results, Held
<1>3. CASE Stop
  <2>1. UNCHANGED <<batch, running, current, ran, told>> /\ queue' = <<>> /\ task = "select"
    BY <1>3 DEF Stop, history
  <2>2. Held' = {}
    BY <2>1 DEF Held, Shapes, ToSet
  <2> QED
    BY <2>1, <2>2 DEF Service!Next, Service!Stop, Results
<1>4. ASSUME NEW x \in Outcomes, Finish(x) PROVE Service!Next
  <2>1. /\ task = "running" /\ running' = {}
        /\ UNCHANGED <<queue, batch, current, told>>
    BY <1>4 DEF Finish
  <2>2. Results' = Results \cup (running \X {x}) /\ x \in Service!Results
    BY <1>4, FinishResults DEF Service!Results
  <2>3. Held' = Held \ running /\ running \in SUBSET Held
    BY <2>1 DEF Held, Places
  <2>4. running # {} /\ (\/ \E r \in running : running = {r}
                         \/ \A r \in running : r.kind = "spectrum")
    BY <2>1 DEF Shapes
  <2>5. Service!Run(running, x)
    BY <2>1, <2>2, <2>3, <2>4 DEF Service!Run
  <2> QED
    BY <2>2, <2>3, <2>5 DEF Service!Next
<1>5. ASSUME NEW c \in Conns, HandlerActs(c) PROVE Service!Next
  <2>1. CASE Enqueue(c)
    <3>1. /\ current[c] \in Request /\ current[c] \notin Held \cup Ran
      BY <2>1, SendingIsFresh DEF Enqueue
    <3>2. Held' = Held \cup {current[c]}
      <4>1. queue \in Seq(Request) /\ queue' = Append(queue, current[c]) /\ UNCHANGED <<batch, running>>
        BY <2>1 DEF Enqueue, TypeOK
      <4>2. ToSet(queue') = ToSet(queue) \cup {current[c]}
        BY <3>1, <4>1, AppendSet
      <4> QED
        BY <4>1, <4>2 DEF Held
    <3>3. Service!Accept(c)
      BY <1>0, <2>1, <3>1, <3>2, ServiceHasRun DEF Enqueue, Service!Accept, Results
    <3> QED
      BY <3>3 DEF Service!Next
  <2>2. CASE Close(c)
    <3>1. UNCHANGED <<queue, batch, running, ran, told>> /\ current' = [current EXCEPT ![c] = NoRequest]
      BY <2>2 DEF Close, taskVars, history
    <3>2. Service!Hangup(c)
      BY <3>1 DEF Service!Hangup, Held, Results
    <3> QED
      BY <3>2 DEF Service!Next
  <2>3. ASSUME NEW k \in Kinds, Receive(c, k) PROVE Service!Next
    <3> DEFINE r == [conn |-> c, n |-> Count(c) + 1, kind |-> k]
    <3>1. /\ UNCHANGED <<queue, batch, running, ran, told>> /\ current' = [current EXCEPT ![c] = r]
          /\ handler[c] = "idle" /\ Count(c) < MaxRequests
      BY <2>3 DEF Receive, taskVars, history
    <3>2. current[c] = NoRequest
      BY <3>1 DEF Numbered, Busy
    <3>3. Count(c) \in Nat
      BY CountType DEF Numbered
    <3>4. r \in Request /\ r.conn = c /\ r.n = Count(c) + 1
      <4>1. Count(c) + 1 \in 1..MaxRequests
        BY <3>1, <3>3
      <4> QED
        BY <4>1 DEF Request
    <3> HIDE DEF r
    <3>5. r \notin Held \cup Ran /\ \A t \in told : t[1] # r
      BY <3>1, <3>4, NextIsFresh
    <3>6. Service!Ask(c, r)
      BY <3>1, <3>2, <3>4, <3>5, ServiceHasRun DEF Service!Ask, Service!WasTold, Held, Results
    <3> QED
      BY <3>4, <3>6 DEF Service!Next
  <2>4. ASSUME NEW answer \in GivenAnswers, Responds(c, answer) PROVE Service!Next
    <3>1. /\ Busy(c) /\ told' = told \cup {<<current[c], answer>>}
          /\ current' = [current EXCEPT ![c] = NoRequest]
          /\ UNCHANGED <<queue, batch, running, ran>>
      BY <2>4 DEF Responds, Respond, taskVars
    <3>2. current[c] \in Request /\ Service!Tell(c, answer)
      BY <1>0, <3>1 DEF Service!Tell, Numbered, Held, Results
    <3>3. CASE answer \in {"ok", "err"}
      <4>1. handler[c] = "waiting" /\ reply[c] = answer
        BY <2>4, <3>1, <3>3 DEF Responds, Busy
      <4>2. PICK i \in DOMAIN ran : current[c] \in ran[i].reqs /\ ran[i].result = answer
        BY <3>3, <4>1 DEF Replies
      <4>3. <<current[c], answer>> \in Results
        BY <4>2 DEF Results
      <4> QED
        BY <3>2, <3>3, <4>3 DEF Service!Next, Service!Answer, Service!Results
    <3>4. CASE answer = "refused"
      <4>1. current[c] \notin Held \cup Ran
        BY <2>4, <3>4, SendingIsFresh DEF Responds
      <4> QED
        BY <3>2, <3>4, <4>1, ServiceHasRun DEF Service!Next, Service!Refuse
    <3>5. CASE answer = "timeout"
      BY <3>2, <3>5 DEF Service!Next, Service!GiveUp
    <3>6. CASE answer = "dropped"
      <4>1. current[c] \notin Held \cup Ran
        BY <2>4, <3>6 DEF Responds, Replies
      <4> QED
        BY <3>2, <3>6, <4>1, ServiceHasRun DEF Service!Next, Service!Drop
    <3> QED
      BY <3>3, <3>4, <3>5, <3>6 DEF GivenAnswers
  <2> QED
    BY <1>5, <2>1, <2>2, <2>3, <2>4, Zenon DEF HandlerActs
<1> QED
  BY <1>1, <1>2, <1>3, <1>4, <1>5, NextCases, Zenon

\* What a connection is told, it is told as if no queue and no batch stood between.
THEOREM Implements == Spec => ImplementsService
<1>1. IndInv /\ [Next]_vars => [Service!Next]_(Service!vars)
  BY ServiceStep
<1> QED
  BY <1>1, ServiceInit, Inductive, PTL DEF Spec, ImplementsService, Service!Spec

(***************************************************************************)
(* The CAT sessions.  What a call reads is what comes off a line that still *)
(* holds answers of older calls; what is remembered of the VFOs is right,   *)
(* but for what the call under way is about to remember.                    *)
(***************************************************************************)
CatOps == {"status", "dial", "toggle", "meter", "lock", "off", "on", "mode", "ptt"}
Radios == [on : BOOLEAN, side : Vfos, dial : [Vfos -> Tunings], mode : [Vfos -> Modulations],
           ptt : BOOLEAN]
Caches == [side : Vfos \cup {"unknown"}, dial : [Vfos -> Tunings \cup {Unread, Odd}],
           mode : [Vfos -> Modulations \cup {Unread, Odd}]]

CatTypes ==
    /\ backend \in {"ft817", "ft450d"} /\ radio \in Radios /\ cache \in Caches
    /\ coming \in Seq(Token) /\ inbox \in Seq(Token)
    /\ result \in [ok : BOOLEAN, op : CatOps \cup {"none"}, own : BOOLEAN, strange : BOOLEAN,
                   n : 0..MaxCalls]
    /\ mishaps \in 0..MaxMishaps /\ strange \in BOOLEAN /\ wrong \subseteq Vfos

\* The call under way and the place where it waits fit together.
InCall ==
    /\ cat = [op |-> cat.op, arg |-> cat.arg, at |-> cat.at, dial |-> cat.dial]
    /\ N <= MaxCalls /\ cat.op \in CatOps
    /\ cat.at \in {"written", "status", "meter", "lock", "askdial", "askmode", "unlock", "unlocked"}
    /\ cat.op = "dial" => cat.arg \in Tunings
    /\ cat.op = "mode" => cat.arg \in Modulations
    /\ cat.op = "ptt" => cat.arg \in BOOLEAN
    /\ backend = "ft450d" => cat.op # "toggle" /\ cat.at \notin {"status", "lock", "unlock", "unlocked"}
    /\ backend = "ft817" => cat.at \notin {"askdial", "askmode"}
    /\ cat.at \in {"status", "askdial", "askmode"} => cat.op = "status"
    /\ cat.at = "meter" => cat.op = "meter"
    /\ cat.at = "lock" => cat.op = "lock"
    /\ cat.at \in {"unlock", "unlocked"} => cat.op \in {"mode", "ptt"}
    /\ cat.at = "written" => cat.op \notin {"status", "meter"}

\* What the port holds and what the radio has still to send, in the order in which it is read.
Line == inbox \o coming

LineOK ==
    \A i \in 1..Len(Line) :
        /\ Line[i].n <= N /\ (cat = NoCat => Line[i].n # N)
        /\ Line[i].what = "dial" => Line[i].value \in Tunings
        /\ Line[i].what = "mode" => Line[i].value \in Modulations
        /\ backend = "ft817" /\ Line[i].what = "dial" =>
              i < Len(Line) /\ Line[i + 1].what = "mode" /\ Line[i + 1].n = Line[i].n

\* The call's own answer tells what the radio has.
Answered ==
    /\ cat.at = "status" =>
          \A i \in 1..Len(Line) : Line[i].n = N =>
              \/ Line[i].what = "dial" /\ Line[i].value = radio.dial[radio.side]
              \/ /\ Line[i].what = "mode" /\ Line[i].value = radio.mode[radio.side]
                 /\ i > 1
    /\ cat.at = "askdial" =>
          \A i \in 1..Len(Line) : Line[i].n = N /\ Line[i].what = "dial" => Line[i].value = radio.dial["A"]
    /\ cat.at = "askmode" =>
          /\ cat.dial.value \in Tunings
          /\ cat.dial.n = N => cat.dial.value = radio.dial["A"]
          /\ ~strange => cat.dial.n = N

\* Unless an older answer came after the buffer was cleared, it holds the call's own.
Clean == cat.at \in {"status", "askdial", "askmode"} \/ (cat.at = "meter" /\ backend = "ft450d")
NoStranger == Clean /\ ~strange => \A i \in 1..Len(inbox) : inbox[i].n = N

\* The VFO that is remembered as selected, A before there is one, and the radio's behind each.
Named == IF cache.side = "unknown" THEN "A" ELSE cache.side
Behind(v) ==
    IF backend = "ft450d" THEN v ELSE IF v = Named THEN radio.side ELSE Opposite(radio.side)

DialAt(v, w) == cache.dial[v] # Unread => cache.dial[v] = radio.dial[w]
ModeAt(v, w) == backend = "ft817" /\ cache.mode[v] # Unread => cache.mode[v] = radio.mode[w]
Matches(v) == DialAt(v, Behind(v)) /\ ModeAt(v, Behind(v))

\* A call that has been written and not remembered yet.
Setting == cat.at = "written" /\ cat.op \in {"dial", "mode", "toggle"}
Memory ==
    \A v \in Vfos \ wrong :
        /\ ~Setting => Matches(v)
        /\ Setting /\ cat.op \in {"dial", "mode"} /\ v # Named => Matches(v)
        /\ Setting /\ cat.op = "dial" /\ v = Named =>
              radio.dial[Behind(v)] = cat.arg /\ ModeAt(v, Behind(v))
        /\ Setting /\ cat.op = "mode" /\ v = Named =>
              DialAt(v, Behind(v)) /\ (backend = "ft817" => radio.mode[Behind(v)] = cat.arg)
        /\ Setting /\ cat.op = "toggle" =>
              DialAt(v, Opposite(Behind(v))) /\ ModeAt(v, Opposite(Behind(v)))

\* Before a VFO is named nothing but the mode of A can be remembered; the FT-450D has one VFO.
Names ==
    /\ cache.side = "unknown" => (\A v \in Vfos : cache.dial[v] = Unread) /\ cache.mode["B"] = Unread
    /\ backend = "ft450d" => cache.side # "B" /\ cache.dial["B"] = Unread

CatInd ==
    /\ CatTypes /\ (cat = NoCat \/ InCall) /\ LineOK /\ Answered /\ NoStranger /\ Memory /\ Names
    /\ OwnStatus

(***************************************************************************)
(* What the definitions say.                                                *)
(***************************************************************************)
LEMMA CatBounds ==
    /\ MaxCalls \in Nat /\ MaxMishaps \in Nat /\ Unread \notin Tunings /\ Odd # Unread
    /\ <<>> \in Seq(Token) /\ Len(<<>>) = 0
BY CatAssumption, EmptySeq DEF CatAssumption

LEMMA Others ==
    /\ Opposite("A") = "B" /\ Opposite("B") = "A" /\ Opposite("unknown") = "A"
    /\ \A v \in Vfos : Opposite(v) \in Vfos /\ Opposite(v) # v /\ Opposite(Opposite(v)) = v
BY DEF Opposite, Vfos

LEMMA CatIdle ==
    /\ NoCat.at = "idle" /\ NoCat.op = "none"
    /\ cat = NoCat => ~Setting /\ ~Clean
    /\ InCall => cat # NoCat
BY DEF NoCat, Setting, Clean, InCall

LEMMA NamedIs ==
    ASSUME CatTypes, Names
    PROVE  /\ Named \in Vfos /\ Here = {Named} /\ (backend = "ft450d" => Named = "A")
           /\ (CHOOSE v \in Here : TRUE) = Named
           /\ \A v \in Vfos : Behind(v) \in Vfos
           /\ \A d : d # Unread => Sided(d) = Named
<1>1. cache.side \in Vfos \cup {"unknown"} /\ radio.side \in Vfos /\ backend \in {"ft817", "ft450d"}
  BY DEF CatTypes, Caches, Radios
<1>2. Named \in Vfos /\ Here = {Named} /\ (backend = "ft450d" => Named = "A")
  BY <1>1 DEF Named, Here, Vfos, Names
<1>3. \A v \in Vfos : Behind(v) \in Vfos
  BY <1>1, Others DEF Behind
<1>4. ASSUME NEW d, d # Unread PROVE Sided(d) = Named
  BY <1>1, <1>4 DEF Sided, Named, Names, Vfos
<1> QED
  BY <1>2, <1>3, <1>4

LEMMA CatImplies == CatInd => CatInv
<1> SUFFICES ASSUME CatInd PROVE CatInv
  OBVIOUS
<1>1. ToSet(coming) \subseteq Token /\ ToSet(inbox) \subseteq Token
  BY LenProperties DEF CatInd, CatTypes, ToSet
<1>2. CatTypeOK
  BY <1>1 DEF CatInd, CatTypes, CatTypeOK, Radios, Caches
<1>3. NamedFirst
  BY DEF CatInd, Names, NamedFirst
<1>4. RemembersRight
  <2> SUFFICES ASSUME cat = NoCat, NEW v \in Vfos \ wrong, cache.dial[v] # Unread
               PROVE  /\ cache.dial[v] = radio.dial[StandsBehind(v)]
                      /\ backend = "ft817" /\ cache.mode[v] # Unread =>
                            cache.mode[v] = radio.mode[StandsBehind(v)]
    BY DEF RemembersRight
  <2>1. Matches(v)
    BY CatIdle DEF CatInd, Memory
  <2>2. cache.side # "unknown"
    BY DEF CatInd, Names
  <2>3. StandsBehind(v) = Behind(v)
    BY <2>2 DEF StandsBehind, Behind, Named
  <2> QED
    BY <2>1, <2>3 DEF Matches, DialAt, ModeAt
<1> QED
  BY <1>2, <1>3, <1>4 DEF CatInv, CatInd

LEMMA CatStarts == CatInit => CatInd
<1> SUFFICES ASSUME CatInit PROVE CatInd
  OBVIOUS
<1>1. radio \in Radios
  BY DEF CatInit, Radios
<1>2. cache \in Caches /\ cache.side = "unknown" /\ \A v \in Vfos : cache.dial[v] = Unread /\ cache.mode[v] = Unread
  BY DEF CatInit, Caches
<1>3. /\ result \in [ok : BOOLEAN, op : CatOps \cup {"none"}, own : BOOLEAN, strange : BOOLEAN,
                     n : 0..MaxCalls]
      /\ result.op = "none"
  BY CatBounds DEF CatInit, NothingYet
<1>4. CatTypes
  <2>1. /\ backend \in {"ft817", "ft450d"} /\ coming \in Seq(Token) /\ inbox \in Seq(Token)
        /\ wrong \subseteq Vfos
    BY CatBounds DEF CatInit
  <2>2. mishaps \in 0..MaxMishaps
    BY CatBounds DEF CatInit
  <2>3. strange \in BOOLEAN
    BY Zenon DEF CatInit
  <2> QED
    BY <1>1, <1>2, <1>3, <2>1, <2>2, <2>3 DEF CatTypes
<1>5. inbox = <<>> /\ coming = <<>> /\ Line = <<>> /\ Len(Line) = 0
  BY CatBounds DEF CatInit, Line
<1>6. LineOK
  BY <1>5 DEF LineOK
<1>7. cat = NoCat /\ cat.at = "idle"
  BY CatIdle DEF CatInit
<1>8. Answered /\ NoStranger
  BY <1>7 DEF Answered, NoStranger, Clean
<1>9. Memory
  BY <1>2, <1>7 DEF Memory, Setting, Matches, DialAt, ModeAt
<1>10. Names /\ OwnStatus
  BY <1>2, <1>3 DEF Names, OwnStatus, Vfos
<1> QED
  BY <1>4, <1>6, <1>7, <1>8, <1>9, <1>10 DEF CatInd

(***************************************************************************)
(* The line: its front is taken or thrown away, answers join its end.       *)
(***************************************************************************)
LEMMA LineIs ==
    ASSUME CatTypes
    PROVE  /\ Len(inbox) \in Nat /\ Len(coming) \in Nat /\ Line \in Seq(Token)
           /\ Len(Line) = Len(inbox) + Len(coming)
           /\ \A i \in 1..Len(inbox) : i \in 1..Len(Line) /\ Line[i] = inbox[i] /\ inbox[i] \in Token
           /\ \A i \in 1..Len(Line) : Line[i] \in Token
<1>1. inbox \in Seq(Token) /\ coming \in Seq(Token)
  BY DEF CatTypes
<1>2. Len(inbox) \in Nat /\ Len(coming) \in Nat /\ \A i \in 1..Len(inbox) : inbox[i] \in Token
  BY <1>1, LenProperties
<1>3. /\ Line \in Seq(Token) /\ Len(Line) = Len(inbox) + Len(coming)
      /\ \A i \in 1..(Len(inbox) + Len(coming)) :
            Line[i] = IF i <= Len(inbox) THEN inbox[i] ELSE coming[i - Len(inbox)]
  BY <1>1, ConcatProperties DEF Line
<1>4. \A i \in 1..Len(Line) : Line[i] \in Token
  BY <1>3, LenProperties
<1>5. \A i \in 1..Len(inbox) : i \in 1..(Len(inbox) + Len(coming)) /\ Line[i] = inbox[i]
  BY <1>2, <1>3
<1> QED
  BY <1>2, <1>3, <1>4, <1>5

\* k tokens leave in front, more come at the end.
Moved(k, more) ==
    /\ inbox' \in Seq(Token) /\ Len(inbox') = Len(inbox) - k
    /\ \A i \in 1..Len(inbox') : inbox'[i] = inbox[i + k]
    /\ coming' = coming \o more

LEMMA LineMoves ==
    ASSUME CatTypes, NEW k \in 0..Len(inbox), NEW more \in Seq(Token), Moved(k, more)
    PROVE  /\ coming' \in Seq(Token) /\ inbox' \in Seq(Token)
           /\ Len(Line) - k \in Nat /\ Len(more) \in Nat
           /\ Len(Line') = Len(Line) - k + Len(more)
           /\ \A i \in 1..Len(Line) - k : Line'[i] = Line[i + k] /\ i + k \in 1..Len(Line)
           /\ \A i \in 1..Len(Line') : i \in 1..Len(Line) - k \/ i - (Len(Line) - k) \in 1..Len(more)
           /\ \A i \in 1..Len(more) : Line'[Len(Line) - k + i] = more[i]
<1> DEFINE a == Len(inbox)
           b == Len(coming)
           c == Len(more)
           m == Len(Line) - k
<1>1. a \in Nat /\ b \in Nat /\ c \in Nat /\ Len(Line) = a + b /\ k \in 0..a
      /\ inbox \in Seq(Token) /\ coming \in Seq(Token) /\ m \in Nat /\ m = a + b - k
  BY LineIs, LenProperties DEF CatTypes
<1>2. /\ \A i \in 1..(a + b) : i <= a => Line[i] = inbox[i]
      /\ \A i \in 1..(a + b) : ~(i <= a) => Line[i] = coming[i - a]
  BY <1>1, ConcatProperties DEF Line
<1>3. /\ coming' \in Seq(Token) /\ Len(coming') = b + c
      /\ \A i \in 1..(b + c) : i <= b => coming'[i] = coming[i]
      /\ \A i \in 1..(b + c) : ~(i <= b) => coming'[i] = more[i - b]
  BY <1>1, ConcatProperties DEF Moved
<1>4. inbox' \in Seq(Token) /\ Len(inbox') = a - k /\ \A i \in 1..(a - k) : inbox'[i] = inbox[i + k]
  BY DEF Moved
<1>5. /\ Len(Line') = a - k + (b + c)
      /\ \A i \in 1..(a - k + (b + c)) : i <= a - k => Line'[i] = inbox'[i]
      /\ \A i \in 1..(a - k + (b + c)) : ~(i <= a - k) => Line'[i] = coming'[i - (a - k)]
  <2> DEFINE x == inbox'
             y == coming'
             z == x \o y
  <2>1. x \in Seq(Token) /\ y \in Seq(Token) /\ Len(x) = a - k /\ Len(y) = b + c /\ Line' = z
    BY <1>3, <1>4 DEF Line
  <2>2. /\ Len(z) = Len(x) + Len(y)
        /\ \A i \in 1..Len(x) + Len(y) : z[i] = IF i <= Len(x) THEN x[i] ELSE y[i - Len(x)]
    <3>1. x \in Seq(Token) /\ y \in Seq(Token)
      BY <2>1
    <3> HIDE DEF x, y
    <3> QED
      BY <3>1, ConcatProperties
  <2> HIDE DEF z
  <2> QED
    BY <2>1, <2>2
<1> HIDE DEF a, b, c, m
<1>6. ASSUME NEW i \in 1..m PROVE Line'[i] = Line[i + k] /\ i + k \in 1..(a + b)
  <2>1. i + k \in 1..(a + b) /\ i \in 1..(a - k + (b + c))
    BY <1>1
  <2>2. CASE i <= a - k
    <3>1. i \in 1..(a - k) /\ i + k <= a
      BY <2>2, <1>1
    <3>2. Line'[i] = inbox'[i] /\ inbox'[i] = inbox[i + k] /\ Line[i + k] = inbox[i + k]
      BY <2>1, <2>2, <3>1, <1>2, <1>4, <1>5
    <3> QED
      BY <2>1, <3>2
  <2>3. CASE ~(i <= a - k)
    <3>1. i - (a - k) \in 1..(b + c) /\ i - (a - k) <= b /\ ~(i + k <= a) /\ i + k - a = i - (a - k)
      BY <2>3, <1>1
    <3>2. Line'[i] = coming'[i - (a - k)]
      BY <2>1, <2>3, <1>5
    <3>3. coming'[i - (a - k)] = coming[i - (a - k)]
      BY <3>1, <1>3
    <3>4. Line[i + k] = coming[i + k - a]
      <4> DEFINE j == i + k
      <4>1. j \in 1..(a + b) /\ ~(j <= a) /\ j - a = i + k - a
        BY <1>1, <2>1, <3>1
      <4> HIDE DEF j
      <4>2. Line[j] = coming[j - a]
        BY <4>1, <1>2
      <4> QED
        BY <4>1, <4>2 DEF j
    <3> QED
      BY <2>1, <3>1, <3>2, <3>3, <3>4
  <2> QED
    BY <2>2, <2>3
<1>7. ASSUME NEW i \in 1..c PROVE Line'[m + i] = more[i]
  <2> DEFINE j == m + i
             h == b + i
  <2>1. /\ j \in 1..(a - k + (b + c)) /\ ~(j <= a - k) /\ j - (a - k) = h
        /\ h \in 1..(b + c) /\ ~(h <= b) /\ h - b = i
    BY <1>1
  <2> HIDE DEF j, h
  <2>2. Line'[j] = coming'[h]
    BY <2>1, <1>5
  <2>3. coming'[h] = more[i]
    BY <2>1, <1>3
  <2> QED
    BY <2>2, <2>3 DEF j
<1>8. Len(Line') = m + c
  BY <1>1, <1>5
<1>9. \A i \in 1..m + c : i \in 1..m \/ i - m \in 1..c
  BY <1>1
<1> QED
  BY <1>1, <1>3, <1>4, <1>6, <1>7, <1>8, <1>9 DEF c, m

\* What may join the line: answers of the call under way, a mode behind every dial of the FT-817.
Proper(more) ==
    \A i \in 1..Len(more) :
        /\ more[i].n = N
        /\ more[i].what = "dial" => more[i].value \in Tunings
        /\ more[i].what = "mode" => more[i].value \in Modulations
        /\ backend = "ft817" /\ more[i].what = "dial" => i < Len(more) /\ more[i + 1].what = "mode"

LEMMA NoMore == <<>> \in Seq(Token) /\ Proper(<<>>)
<1>1. <<>> \in Seq(Token) /\ 1..Len(<<>>) = {}
  BY CatBounds
<1> QED
  BY <1>1 DEF Proper

LEMMA LineKeeps ==
    ASSUME CatTypes, LineOK, backend' = backend, result'.n \in 0..MaxCalls,
           NEW k \in 0..Len(inbox), NEW more \in Seq(Token), Moved(k, more), Proper(more),
           \/ result'.n = result.n /\ cat' # NoCat
           \/ result'.n = N /\ more = <<>>
    PROVE  LineOK'
<1> DEFINE l == Line'
           m == Len(Line) - k
           c == Len(more)
<1>1. /\ m \in Nat /\ c \in Nat /\ Len(l) = m + c
      /\ \A i \in 1..m : l[i] = Line[i + k] /\ i + k \in 1..Len(Line)
      /\ \A i \in 1..m + c : i \in 1..m \/ i - m \in 1..c
      /\ \A i \in 1..c : l[m + i] = more[i]
  BY LineMoves
<1>2. /\ N \in Nat /\ N' \in Nat /\ N <= N' /\ (cat' = NoCat => N < N') /\ (c # 0 => cat' # NoCat)
      /\ \A i \in 1..Len(Line) : Line[i].n \in Nat
  <2>1. \A i \in 1..Len(Line) : Line[i].n \in Nat
    <3>1. ASSUME NEW e \in Token PROVE e.n \in Nat
      BY CatBounds DEF Token
    <3> QED
      BY <3>1, LineIs
  <2>2. N \in Nat /\ N' = result'.n + 1 /\ result'.n \in Nat /\ result.n \in Nat
    BY CatBounds DEF CatTypes, N
  <2>3. result'.n = result.n => N' = N
    BY DEF N
  <2>4. result'.n = N => N' = N + 1 /\ N < N'
    BY <2>2
  <2> QED
    BY <2>1, <2>2, <2>3, <2>4, CatBounds DEF N
<1>3. k \in Nat /\ Len(Line) \in Nat /\ m + k = Len(Line)
  BY LineIs
<1> HIDE DEF l, m, c
<1>4. ASSUME NEW i \in 1..m
      PROVE  /\ l[i].n <= N' /\ (cat' = NoCat => l[i].n # N')
             /\ l[i].what = "dial" => l[i].value \in Tunings
             /\ l[i].what = "mode" => l[i].value \in Modulations
             /\ backend' = "ft817" /\ l[i].what = "dial" =>
                   i < m + c /\ l[i + 1].what = "mode" /\ l[i + 1].n = l[i].n
  <2>1. l[i] = Line[i + k] /\ i + k \in 1..Len(Line)
    BY <1>1
  <2>2. /\ l[i].n <= N /\ l[i].n \in Nat
        /\ l[i].what = "dial" => l[i].value \in Tunings
        /\ l[i].what = "mode" => l[i].value \in Modulations
        /\ backend = "ft817" /\ l[i].what = "dial" =>
              /\ i + k < Len(Line) /\ Line[i + k + 1].what = "mode"
              /\ Line[i + k + 1].n = l[i].n
    BY <2>1, <1>2 DEF LineOK
  <2>3. l[i].n <= N' /\ (cat' = NoCat => l[i].n # N')
    BY <2>2, <1>2
  <2>4. ASSUME backend = "ft817", l[i].what = "dial"
        PROVE  i < m + c /\ l[i + 1].what = "mode" /\ l[i + 1].n = l[i].n
    <3>1. i + 1 \in 1..m /\ i + 1 + k = i + k + 1 /\ i < m + c
      BY <1>1, <1>3, <2>2, <2>4
    <3>2. l[i + 1] = Line[i + k + 1]
      BY <3>1, <1>1
    <3> QED
      BY <2>2, <2>4, <3>1, <3>2
  <2> QED
    BY <2>2, <2>3, <2>4
<1>5. ASSUME NEW i \in 1..m + c, i - m \in 1..c
      PROVE  /\ l[i].n <= N' /\ (cat' = NoCat => l[i].n # N')
             /\ l[i].what = "dial" => l[i].value \in Tunings
             /\ l[i].what = "mode" => l[i].value \in Modulations
             /\ backend' = "ft817" /\ l[i].what = "dial" =>
                   i < m + c /\ l[i + 1].what = "mode" /\ l[i + 1].n = l[i].n
  <2>1. m + (i - m) = i /\ c # 0 /\ i \in Nat
    BY <1>1, <1>5
  <2>2. l[i] = more[i - m]
    BY <2>1, <1>1, <1>5
  <2>3. /\ l[i].n = N
        /\ l[i].what = "dial" => l[i].value \in Tunings
        /\ l[i].what = "mode" => l[i].value \in Modulations
        /\ backend = "ft817" /\ l[i].what = "dial" =>
              i - m < c /\ more[i - m + 1].what = "mode"
    BY <2>2, <1>5 DEF Proper, c
  <2>4. ASSUME backend = "ft817", l[i].what = "dial"
        PROVE  i < m + c /\ l[i + 1].what = "mode" /\ l[i + 1].n = l[i].n
    <3>1. i - m + 1 \in 1..c /\ m + (i - m + 1) = i + 1 /\ i < m + c
      BY <1>1, <1>5, <2>1, <2>3, <2>4
    <3>2. l[i + 1] = more[i - m + 1] /\ more[i - m + 1].n = N
      BY <3>1, <1>1 DEF Proper, c
    <3> QED
      BY <2>3, <2>4, <3>1, <3>2
  <2> QED
    BY <2>1, <2>3, <2>4, <1>2
<1>6. \A i \in 1..m + c :
          /\ l[i].n <= N' /\ (cat' = NoCat => l[i].n # N')
          /\ l[i].what = "dial" => l[i].value \in Tunings
          /\ l[i].what = "mode" => l[i].value \in Modulations
          /\ backend' = "ft817" /\ l[i].what = "dial" =>
                i < m + c /\ l[i + 1].what = "mode" /\ l[i + 1].n = l[i].n
  BY <1>1, <1>4, <1>5
<1> QED
  BY <1>1, <1>6 DEF LineOK, l

(***************************************************************************)
(* A frame: what it does to the radio and puts on the line.                 *)
(***************************************************************************)
FrameOK(f) ==
    /\ f.op \in CatOps \cup {"unlock", "askdial", "askmode"}
    /\ f.op = "dial" => f.arg \in Tunings
    /\ f.op = "mode" => f.arg \in Modulations
    /\ f.op = "ptt" => f.arg \in BOOLEAN
    /\ backend = "ft817" => f.op \notin {"askdial", "askmode"}
    /\ backend = "ft450d" => f.op \notin {"status", "toggle", "unlock"}

LEMMA AnswersProper ==
    ASSUME CatTypes, N <= MaxCalls, NEW f, FrameOK(f)
    PROVE  Answers(f) \in Seq(Token) /\ Proper(Answers(f))
<1>1. N \in 1..MaxCalls
  BY CatBounds DEF CatTypes, N
<1>2. /\ radio.dial[radio.side] \in Tunings /\ radio.mode[radio.side] \in Modulations
      /\ radio.dial["A"] \in Tunings
  BY DEF CatTypes, Radios, Vfos
<1>3. \A w \in {"dial", "mode", "meter", "ack"}, d \in Tunings \cup Modulations \cup {Unread} :
          Say(w, d) \in Token /\ Say(w, d).n = N /\ Say(w, d).what = w /\ Say(w, d).value = d
  BY <1>1 DEF Say, Token
<1>4. <<>> \in Seq(Token) /\ Proper(<<>>)
  BY CatBounds DEF Proper
<1>5. ASSUME NEW w \in {"dial", "mode", "meter", "ack"}, NEW d \in Tunings \cup Modulations \cup {Unread},
             w = "dial" => d \in Tunings /\ backend = "ft450d", w = "mode" => d \in Modulations
      PROVE  <<Say(w, d)>> \in Seq(Token) /\ Proper(<<Say(w, d)>>)
  <2> DEFINE s == <<Say(w, d)>>
  <2>1. s \in Seq(Token) /\ Len(s) = 1 /\ s[1] = Say(w, d)
    BY <1>3
  <2> HIDE DEF s
  <2>2. \A i \in 1..Len(s) : i = 1
    BY <2>1
  <2>3. backend = "ft450d" => backend # "ft817"
    OBVIOUS
  <2>4. Proper(s)
    BY <2>1, <2>2, <2>3, <1>3, <1>5 DEF Proper
  <2> QED
    BY <2>1, <2>4 DEF s
<1>6. ASSUME NEW d \in Tunings, NEW e \in Modulations
      PROVE  <<Say("dial", d), Say("mode", e)>> \in Seq(Token) /\ Proper(<<Say("dial", d), Say("mode", e)>>)
  <2> DEFINE s == <<Say("dial", d), Say("mode", e)>>
  <2>1. s \in Seq(Token) /\ Len(s) = 2 /\ s[1] = Say("dial", d) /\ s[2] = Say("mode", e)
    BY <1>3
  <2> HIDE DEF s
  <2>2. \A i \in 1..Len(s) : i = 1 \/ i = 2
    BY <2>1
  <2>3. s[1].n = N /\ s[1].what = "dial" /\ s[1].value = d /\ s[2].n = N /\ s[2].what = "mode" /\ s[2].value = e
    BY <2>1, <1>3
  <2>4. Proper(s)
    BY <2>1, <2>2, <2>3 DEF Proper
  <2> QED
    BY <2>1, <2>4 DEF s
<1>7. CASE f.op = "status"
  <2>1. Answers(f) = <<Say("dial", radio.dial[radio.side]), Say("mode", radio.mode[radio.side])>>
    BY <1>7 DEF Answers
  <2> QED
    BY <2>1, <1>2, <1>6
<1>8. CASE f.op = "meter" \/ (f.op \in {"lock", "unlock"} /\ backend = "ft817")
  <2>1. Answers(f) = <<Say("meter", Unread)>> \/ Answers(f) = <<Say("ack", Unread)>>
    BY <1>8 DEF Answers
  <2> QED
    BY <2>1, <1>5
<1>9. CASE f.op = "askdial"
  <2>1. Answers(f) = <<Say("dial", radio.dial["A"])>> /\ backend = "ft450d"
    BY <1>9 DEF Answers, FrameOK, CatTypes
  <2> QED
    BY <2>1, <1>2, <1>5
<1>10. CASE f.op = "askmode"
  <2>1. Answers(f) = <<Say("mode", radio.mode[radio.side])>>
    BY <1>10 DEF Answers
  <2> QED
    BY <2>1, <1>2, <1>5
<1>11. CASE /\ f.op \notin {"status", "meter", "askdial", "askmode"}
            /\ ~(f.op \in {"lock", "unlock"} /\ backend = "ft817")
  <2>1. Answers(f) = <<>>
    BY <1>11 DEF Answers
  <2> QED
    BY <2>1, <1>4
<1> QED
  BY <1>7, <1>8, <1>9, <1>10, <1>11

\* The radio has done what the frame says, or its memory is known to be wrong.
Heard(f) ==
    \/ /\ radio'.side = Obeyed(f).side /\ radio'.dial = Obeyed(f).dial
       /\ radio'.mode = Obeyed(f).mode
    \/ /\ radio'.side = radio.side /\ radio'.dial = radio.dial /\ radio'.mode = radio.mode
       /\ Concerned(f) \subseteq wrong'

LEMMA ObeyedIs ==
    ASSUME CatTypes, NEW f, FrameOK(f)
    PROVE  /\ Obeyed(f) \in Radios
           /\ f.op # "toggle" => Obeyed(f).side = radio.side
           /\ f.op = "toggle" => Obeyed(f).side = Opposite(radio.side)
           /\ f.op # "dial" => Obeyed(f).dial = radio.dial
           /\ f.op = "dial" => Obeyed(f).dial =
                 [radio.dial EXCEPT ![IF backend = "ft817" THEN radio.side ELSE "A"] = f.arg]
           /\ f.op # "mode" => Obeyed(f).mode = radio.mode
           /\ f.op = "mode" => Obeyed(f).mode = [radio.mode EXCEPT ![radio.side] = f.arg]
<1>1. radio \in Radios /\ radio.side \in Vfos /\ "A" \in Vfos
  BY DEF CatTypes, Radios, Vfos
<1>2. CASE f.op = "dial"
  <2>1. Obeyed(f) = [radio EXCEPT !.dial[IF backend = "ft817" THEN radio.side ELSE "A"] = f.arg]
    BY <1>2 DEF Obeyed
  <2> QED
    BY <1>1, <1>2, <2>1 DEF Radios, FrameOK
<1>3. CASE f.op = "mode"
  <2>1. Obeyed(f) = [radio EXCEPT !.mode[radio.side] = f.arg]
    BY <1>3 DEF Obeyed
  <2> QED
    BY <1>1, <1>3, <2>1 DEF Radios, FrameOK
<1>4. CASE f.op = "ptt"
  <2>1. Obeyed(f) = [radio EXCEPT !.ptt = f.arg] /\ f.arg \in BOOLEAN
    BY <1>4 DEF Obeyed, FrameOK
  <2> QED
    BY <1>1, <1>4, <2>1 DEF Radios
<1>5. CASE f.op = "toggle"
  <2>1. Obeyed(f) = [radio EXCEPT !.side = Opposite(radio.side)]
    BY <1>5 DEF Obeyed
  <2> QED
    BY <1>1, <1>5, <2>1, Others DEF Radios
<1>6. CASE f.op = "off"
  <2>1. Obeyed(f) = [radio EXCEPT !.on = FALSE]
    BY <1>6 DEF Obeyed
  <2> QED
    BY <1>1, <1>6, <2>1 DEF Radios
<1>7. CASE f.op \notin {"dial", "mode", "ptt", "toggle", "off"}
  <2>1. Obeyed(f) = radio
    BY <1>7 DEF Obeyed
  <2> QED
    BY <1>1, <1>7, <2>1
<1> QED
  BY <1>2, <1>3, <1>4, <1>5, <1>6, <1>7

LEMMA FrameHeard ==
    ASSUME CatTypes, NEW f, FrameOK(f), Frame(f),
           wrong' = wrong \cup (IF radio' = radio /\ Obeyed(f) # radio THEN Concerned(f) ELSE {})
    PROVE  /\ radio' \in Radios /\ Heard(f) /\ mishaps' \in 0..MaxMishaps
           /\ wrong \subseteq wrong' /\ wrong' \subseteq Vfos
           /\ coming' = coming \/ coming' = coming \o Answers(f)
<1>1. Concerned(f) \subseteq Vfos
  BY DEF Concerned, Here, Vfos, CatTypes, Caches
<1>2. wrong \subseteq wrong' /\ wrong' \subseteq Vfos
  BY <1>1 DEF CatTypes
<1>3. mishaps' \in 0..MaxMishaps /\ (coming' = coming \/ coming' = coming \o Answers(f))
  BY CatBounds DEF Frame, Mishap, CatTypes
<1>4. CASE radio.on /\ radio' = Obeyed(f)
  BY <1>2, <1>3, <1>4, ObeyedIs DEF Heard
<1>5. CASE radio' = radio
  <2>1. radio \in Radios
    BY DEF CatTypes
  <2>2. Obeyed(f) = radio \/ Concerned(f) \subseteq wrong'
    BY <1>5
  <2> QED
    BY <1>2, <1>3, <1>5, <2>1, <2>2 DEF Heard
<1>6. CASE ~radio.on /\ radio' = [radio EXCEPT !.on = (f.op = "on")]
  <2>1. CASE f.op = "on"
    <3>1. radio' = [radio EXCEPT !.on = TRUE] /\ Obeyed(f) = radio
      BY <1>6, <2>1 DEF Obeyed
    <3>2. /\ radio' \in Radios /\ radio'.side = radio.side /\ radio'.dial = radio.dial
          /\ radio'.mode = radio.mode
      BY <3>1 DEF CatTypes, Radios
    <3> QED
      BY <1>2, <1>3, <3>1, <3>2 DEF Heard
  <2>2. CASE f.op # "on"
    <3>1. radio' = [radio EXCEPT !.on = FALSE]
      BY <1>6, <2>2
    <3>2. radio.on = FALSE /\ radio \in Radios
      BY <1>6 DEF CatTypes, Radios
    <3>3. radio' = radio
      BY <3>1, <3>2 DEF Radios
    <3> QED
      BY <3>3, <1>5
  <2> QED
    BY <2>1, <2>2
<1> QED
  BY <1>4, <1>5, <1>6 DEF Frame

\* The memory over a frame that goes out while nothing waits to be remembered.
LEMMA FrameRemembered ==
    ASSUME CatTypes, Names, Memory, ~Setting, NEW f, FrameOK(f), Heard(f), radio' \in Radios,
           wrong \subseteq wrong', UNCHANGED <<backend, cache>>,
           f.op \in {"dial", "mode", "toggle"} => Setting' /\ cat'.op = f.op /\ cat'.arg = f.arg,
           f.op \notin {"dial", "mode", "toggle"} => ~Setting'
    PROVE  Memory'
<1>1. /\ Named' = Named /\ Named \in Vfos /\ Here = {Named} /\ (backend = "ft450d" => Named = "A")
      /\ \A v \in Vfos : Behind(v) \in Vfos
  BY NamedIs DEF Named
<1>2. /\ radio.side \in Vfos /\ backend \in {"ft817", "ft450d"} /\ radio.dial \in [Vfos -> Tunings]
      /\ radio.mode \in [Vfos -> Modulations] /\ Vfos = {"A", "B"}
  BY DEF CatTypes, Radios, Vfos
<1>3. \A v \in Vfos \ wrong' : Matches(v)
  BY DEF Memory
<1>4. radio'.side = radio.side => \A v \in Vfos : Behind(v)' = Behind(v)
  BY <1>1 DEF Behind
<1>5. CASE f.op \notin {"dial", "mode", "toggle"}
  <2>1. radio'.side = radio.side /\ radio'.dial = radio.dial /\ radio'.mode = radio.mode
    BY <1>5, ObeyedIs DEF Heard
  <2>2. \A v \in Vfos \ wrong' : Matches(v)'
    BY <2>1, <1>3, <1>4 DEF Matches, DialAt, ModeAt
  <2> QED
    BY <1>5, <2>2 DEF Memory
<1>6. CASE f.op = "dial"
  <2>1. Setting' /\ cat'.op = "dial" /\ cat'.arg = f.arg /\ Concerned(f) = {Named} /\ f.arg \in Tunings
    BY <1>1, <1>6 DEF Concerned, FrameOK
  <2>2. radio'.side = radio.side /\ radio'.mode = radio.mode
    BY <1>6, ObeyedIs DEF Heard
  <2>3. ASSUME NEW v \in Vfos \ wrong'
        PROVE  /\ v # Named => Matches(v)'
               /\ v = Named => radio'.dial[Behind(v)'] = f.arg /\ ModeAt(v, Behind(v))'
    <3>1. Behind(v)' = Behind(v) /\ Behind(v) \in Vfos /\ Matches(v)
      BY <1>1, <1>3, <1>4, <2>2
    <3>2. ModeAt(v, Behind(v))'
      BY <2>2, <3>1 DEF Matches, ModeAt
    <3>3. CASE radio'.dial = radio.dial /\ Named \in wrong'
      BY <2>2, <3>1, <3>2, <3>3 DEF Matches, DialAt
    <3>4. CASE radio'.dial = [radio.dial EXCEPT ![IF backend = "ft817" THEN radio.side ELSE "A"] = f.arg]
      <4>1. CASE v = Named
        <5>1. Behind(v) = IF backend = "ft817" THEN radio.side ELSE "A"
          BY <4>1, <1>1, <1>2 DEF Behind
        <5> QED
          BY <3>1, <3>2, <3>4, <4>1, <5>1, <1>2
      <4>2. CASE v # Named
        <5>1. Behind(v) # IF backend = "ft817" THEN radio.side ELSE "A"
          BY <4>2, <1>1, <1>2, Others DEF Behind
        <5>2. radio'.dial[Behind(v)] = radio.dial[Behind(v)]
          BY <3>1, <3>4, <5>1, <1>2
        <5> QED
          BY <2>2, <3>1, <3>2, <4>2, <5>2 DEF Matches, DialAt
      <4> QED
        BY <4>1, <4>2
    <3> QED
      BY <3>3, <3>4, <1>6, <2>1, ObeyedIs DEF Heard
  <2> QED
    BY <2>1, <2>3, <1>1 DEF Memory
<1>7. CASE f.op = "mode"
  <2>1. Setting' /\ cat'.op = "mode" /\ cat'.arg = f.arg /\ Concerned(f) = {Named} /\ f.arg \in Modulations
    BY <1>1, <1>7 DEF Concerned, FrameOK
  <2>2. radio'.side = radio.side /\ radio'.dial = radio.dial
    BY <1>7, ObeyedIs DEF Heard
  <2>3. ASSUME NEW v \in Vfos \ wrong'
        PROVE  /\ v # Named => Matches(v)'
               /\ v = Named => DialAt(v, Behind(v))' /\ (backend = "ft817" => radio'.mode[Behind(v)'] = f.arg)
    <3>1. Behind(v)' = Behind(v) /\ Behind(v) \in Vfos /\ Matches(v)
      BY <1>1, <1>3, <1>4, <2>2
    <3>2. DialAt(v, Behind(v))'
      BY <2>2, <3>1 DEF Matches, DialAt
    <3>3. CASE radio'.mode = radio.mode /\ Named \in wrong'
      BY <2>2, <3>1, <3>2, <3>3 DEF Matches, ModeAt
    <3>4. CASE radio'.mode = [radio.mode EXCEPT ![radio.side] = f.arg]
      <4>1. CASE v = Named
        <5>1. backend = "ft817" => Behind(v) = radio.side
          BY <4>1, <1>1, <1>2 DEF Behind
        <5> QED
          BY <3>1, <3>2, <3>4, <4>1, <5>1, <1>2
      <4>2. CASE v # Named
        <5>1. backend = "ft817" => Behind(v) # radio.side
          BY <4>2, <1>1, <1>2, Others DEF Behind
        <5>2. backend = "ft817" => radio'.mode[Behind(v)] = radio.mode[Behind(v)]
          BY <3>1, <3>4, <5>1, <1>2
        <5> QED
          BY <2>2, <3>1, <3>2, <4>2, <5>2 DEF Matches, ModeAt
      <4> QED
        BY <4>1, <4>2
    <3> QED
      BY <3>3, <3>4, <1>7, <2>1, ObeyedIs DEF Heard
  <2> QED
    BY <2>1, <2>3, <1>1 DEF Memory
<1>8. CASE f.op = "toggle"
  <2>1. /\ Setting' /\ cat'.op = "toggle" /\ Concerned(f) = Vfos /\ backend = "ft817"
        /\ radio'.dial = radio.dial /\ radio'.mode = radio.mode
    BY <1>2, <1>8, ObeyedIs DEF Concerned, FrameOK, Heard
  <2>2. CASE Vfos \subseteq wrong'
    BY <2>2 DEF Memory
  <2>3. CASE radio'.side = Opposite(radio.side)
    <3> SUFFICES ASSUME NEW v \in Vfos \ wrong'
                 PROVE  DialAt(v, Opposite(Behind(v)))' /\ ModeAt(v, Opposite(Behind(v)))'
      BY <2>1 DEF Memory
    <3>1. Opposite(Behind(v)') = Behind(v)
      BY <1>1, <1>2, <2>1, <2>3, Others DEF Behind
    <3> QED
      BY <1>3, <2>1, <3>1 DEF Matches, DialAt, ModeAt
  <2> QED
    BY <2>1, <2>2, <2>3, <1>8, ObeyedIs DEF Heard
<1> QED
  BY <1>5, <1>6, <1>7, <1>8

(***************************************************************************)
(* A frame is written, by a call that starts or goes on.                    *)
(***************************************************************************)
LEMMA LineFront ==
    ASSUME CatTypes
    PROVE  /\ inbox' = inbox /\ coming' = coming => Moved(0, <<>>)
           /\ inbox' = <<>> /\ coming' = coming => Moved(Len(inbox), <<>>)
           /\ \A k \in 1..Len(inbox) : inbox' = Taken(k) /\ coming' = coming => Moved(k, <<>>)
           /\ \A more : coming' = coming \o more =>
                 /\ inbox' = inbox => Moved(0, more)
                 /\ inbox' = <<>> => Moved(Len(inbox), more)
           /\ 0 \in 0..Len(inbox) /\ Len(inbox) \in 0..Len(inbox)
<1>1. inbox \in Seq(Token) /\ coming \in Seq(Token) /\ Len(inbox) \in Nat /\ coming \o <<>> = coming
  BY LineIs, ConcatEmptySeq DEF CatTypes
<1>2. ASSUME NEW k \in 1..Len(inbox), inbox' = Taken(k), coming' = coming PROVE Moved(k, <<>>)
  <2> DEFINE rest == SubSeq(inbox, k + 1, Len(inbox))
  <2>1. /\ rest \in Seq(Token)
        /\ Len(rest) = IF k + 1 <= Len(inbox) THEN Len(inbox) - (k + 1) + 1 ELSE 0
        /\ \A i \in 1..Len(inbox) - (k + 1) + 1 : rest[i] = inbox[k + 1 + i - 1]
    <3>1. k + 1 \in Int /\ Len(inbox) \in Int /\ \A i \in k + 1..Len(inbox) : inbox[i] \in Token
      BY <1>1, LineIs
    <3> QED
      BY <3>1, SubSeqProperties
  <2>2. inbox' = rest
    BY <1>2 DEF Taken
  <2> HIDE DEF rest
  <2>3. Len(rest) = Len(inbox) - k /\ Len(inbox) - (k + 1) + 1 = Len(inbox) - k
    BY <1>1, <2>1
  <2>4. \A i \in 1..Len(inbox) - k : rest[i] = inbox[i + k]
    <3> TAKE i \in 1..Len(inbox) - k
    <3>1. k + 1 + i - 1 = i + k
      BY <1>1
    <3> QED
      BY <2>1, <2>3, <3>1
  <2> QED
    BY <1>1, <1>2, <2>1, <2>2, <2>3, <2>4 DEF Moved
<1>3. ASSUME NEW more, coming' = coming \o more
      PROVE  (inbox' = inbox => Moved(0, more)) /\ (inbox' = <<>> => Moved(Len(inbox), more))
  <2>1. /\ Len(inbox) - 0 = Len(inbox) /\ \A i \in 1..Len(inbox) : i + 0 = i
        /\ Len(inbox) - Len(inbox) = 0 /\ Len(<<>>) = 0 /\ <<>> \in Seq(Token)
    BY <1>1, CatBounds
  <2>2. inbox' = inbox => Moved(0, more)
    BY <1>1, <1>3, <2>1 DEF Moved
  <2>3. ASSUME inbox' = <<>> PROVE Moved(Len(inbox), more)
    <3>1. 1..Len(inbox') = {}
      BY <2>1, <2>3
    <3> QED
      BY <1>3, <2>1, <2>3, <3>1 DEF Moved
  <2> QED
    BY <2>2, <2>3
<1>4. /\ inbox' = inbox /\ coming' = coming => Moved(0, <<>>)
      /\ inbox' = <<>> /\ coming' = coming => Moved(Len(inbox), <<>>)
  BY <1>1, <1>3
<1> QED
  BY <1>1, <1>2, <1>3, <1>4

LEMMA Written ==
    ASSUME CatInd, NEW f, FrameOK(f), NEW op \in CatOps, NEW arg, NEW dial, NEW rest,
           Write(f, op, arg, dial, rest), rest = inbox \/ Clears(f), N <= MaxCalls,
           UNCHANGED <<backend, cache, result>>
    PROVE  /\ CatTypes' /\ LineOK' /\ Names' /\ OwnStatus' /\ N' = N /\ cat' # NoCat
           /\ cat' = [op |-> op, arg |-> arg, dial |-> dial, at |-> IF Awaits(f) > 0 THEN f.op ELSE "written"]
           /\ Heard(f) /\ wrong \subseteq wrong'
           /\ (inbox' = <<>> /\ Clears(f)) \/ (inbox' = inbox /\ ~Clears(f))
           /\ strange' = (strange /\ (op = cat.op \/ ~Clears(f)))
           /\ \E more \in {<<>>, Answers(f)} :
                 /\ more \in Seq(Token) /\ Proper(more)
                 /\ Moved(IF Clears(f) THEN Len(inbox) ELSE 0, more)
<1>1. CatTypes /\ LineOK /\ Names /\ OwnStatus
  BY DEF CatInd
<1>2. /\ Frame(f)
      /\ cat' = [op |-> op, arg |-> arg, dial |-> dial, at |-> IF Awaits(f) > 0 THEN f.op ELSE "written"]
      /\ inbox' = IF Clears(f) THEN <<>> ELSE rest
      /\ strange' = (strange /\ (op = cat.op \/ ~Clears(f)))
      /\ wrong' = wrong \cup (IF radio' = radio /\ Obeyed(f) # radio THEN Concerned(f) ELSE {})
  BY DEF Write
<1>3. /\ radio' \in Radios /\ Heard(f) /\ mishaps' \in 0..MaxMishaps
      /\ wrong \subseteq wrong' /\ wrong' \subseteq Vfos
      /\ coming' = coming \/ coming' = coming \o Answers(f)
  BY <1>1, <1>2, FrameHeard
<1>4. (inbox' = <<>> /\ Clears(f)) \/ (inbox' = inbox /\ ~Clears(f))
  BY <1>2
<1>5. cat' # NoCat
  <2>1. cat'.op = op
    BY <1>2
  <2> QED
    BY <2>1, CatIdle DEF CatOps
<1>6. N' = N
  BY DEF N
<1>7. coming \o <<>> = coming
  BY <1>1, ConcatEmptySeq DEF CatTypes
<1>8. PICK more \in {<<>>, Answers(f)} : coming' = coming \o more
  BY <1>3, <1>7
<1>9. more \in Seq(Token) /\ Proper(more)
  <2>1. Answers(f) \in Seq(Token) /\ Proper(Answers(f))
    BY <1>1, AnswersProper
  <2> QED
    BY <1>8, <2>1, NoMore
<1> DEFINE k == IF Clears(f) THEN Len(inbox) ELSE 0
<1>10. Moved(k, more) /\ k \in 0..Len(inbox)
  BY <1>1, <1>4, <1>8, LineFront
<1>11. result'.n = result.n /\ result'.n \in 0..MaxCalls
  BY <1>1 DEF CatTypes
<1> HIDE DEF k
<1>12. LineOK'
  BY <1>1, <1>5, <1>9, <1>10, <1>11, LineKeeps
<1>13. coming' \in Seq(Token) /\ inbox' \in Seq(Token)
  BY <1>1, <1>9, <1>10, LineMoves
<1>14. strange' \in BOOLEAN
  BY <1>2, Zenon DEF CatInd, CatTypes
<1>15. CatTypes'
  BY <1>1, <1>3, <1>13, <1>14 DEF CatTypes
<1>16. Names' /\ OwnStatus'
  BY <1>1 DEF Names, OwnStatus
<1> QED
  BY <1>2, <1>3, <1>4, <1>5, <1>6, <1>9, <1>10, <1>12, <1>15, <1>16 DEF k

LEMMA CallsKeeps ==
    ASSUME CatInd, NEW op \in CatOps, NEW arg, Calls(op, arg),
           op = "dial" => arg \in Tunings, op = "mode" => arg \in Modulations, op = "ptt" => arg \in BOOLEAN
    PROVE  CatInd'
<1> DEFINE f == FirstFrame(op, arg)
<1>1. /\ cat = NoCat /\ N <= MaxCalls /\ ~(op = "toggle" /\ backend = "ft450d")
      /\ Write(f, op, arg, NoDial, inbox) /\ UNCHANGED <<backend, cache, result>>
  BY DEF Calls
<1>2. CatTypes /\ backend \in {"ft817", "ft450d"} /\ Names /\ Memory /\ ~Setting /\ cat.op = "none" /\ LineOK
  BY <1>1, CatIdle DEF CatInd, CatTypes
<1>3. /\ f.op = IF op \in {"mode", "ptt"} /\ backend = "ft817" THEN "unlock"
                ELSE IF op = "status" /\ backend = "ft450d" THEN "askdial" ELSE op
      /\ f.op = op => f.arg = arg
  BY <1>2 DEF FirstFrame
<1>4. FrameOK(f)
  BY <1>1, <1>2, <1>3 DEF FrameOK, CatOps
<1> HIDE DEF f
<1>5. /\ CatTypes' /\ LineOK' /\ Names' /\ OwnStatus' /\ N' = N /\ cat' # NoCat
      /\ cat' = [op |-> op, arg |-> arg, dial |-> NoDial, at |-> IF Awaits(f) > 0 THEN f.op ELSE "written"]
      /\ Heard(f) /\ wrong \subseteq wrong'
      /\ (inbox' = <<>> /\ Clears(f)) \/ (inbox' = inbox /\ ~Clears(f))
      /\ strange' = (strange /\ (op = cat.op \/ ~Clears(f)))
      /\ \E more \in {<<>>, Answers(f)} :
            /\ more \in Seq(Token) /\ Proper(more) /\ Moved(IF Clears(f) THEN Len(inbox) ELSE 0, more)
  BY <1>1, <1>4, Written
<1>6. cat'.op = op /\ cat'.arg = arg /\ cat'.at = IF Awaits(f) > 0 THEN f.op ELSE "written"
  BY <1>5
<1>7. Awaits(f) > 0 <=> \/ f.op \in {"status", "meter", "askdial", "askmode"}
                        \/ f.op \in {"lock", "unlock"} /\ backend = "ft817"
  BY DEF Awaits
<1>8. InCall'
  BY <1>1, <1>2, <1>3, <1>4, <1>5, <1>6, <1>7 DEF InCall, CatOps, FrameOK
<1>9. Memory'
  <2>1. /\ f.op \in {"dial", "mode", "toggle"} => Setting' /\ cat'.op = f.op /\ cat'.arg = f.arg
        /\ f.op \notin {"dial", "mode", "toggle"} => ~Setting'
    BY <1>2, <1>3, <1>6, <1>7 DEF Setting
  <2>2. radio' \in Radios
    BY <1>5 DEF CatTypes
  <2> QED
    BY <1>1, <1>2, <1>4, <1>5, <2>1, <2>2, FrameRemembered
<1>10. Clean' => inbox' = <<>> /\ Len(inbox') = 0
  BY <1>1, <1>5, <1>6, CatBounds DEF Clean, Clears
<1>11. NoStranger'
  BY <1>10 DEF NoStranger
<1>12. ASSUME cat'.at \in {"status", "askdial"}
       PROVE  /\ radio'.side = radio.side /\ radio'.dial = radio.dial /\ radio'.mode = radio.mode
              /\ cat'.at = f.op
              /\ \A i \in 1..Len(Line') : Line'[i].n = N =>
                    /\ cat'.at = "status" =>
                          \/ Line'[i].what = "dial" /\ Line'[i].value = radio.dial[radio.side]
                          \/ Line'[i].what = "mode" /\ Line'[i].value = radio.mode[radio.side] /\ i > 1
                    /\ cat'.at = "askdial" => Line'[i].value = radio.dial["A"]
  <2>1. cat'.at = f.op /\ f.op \in {"status", "askdial"} /\ Clears(f)
    BY <1>6, <1>12 DEF Clears
  <2>2. radio'.side = radio.side /\ radio'.dial = radio.dial /\ radio'.mode = radio.mode
    BY <1>2, <1>4, <1>5, <2>1, ObeyedIs DEF Heard
  <2>3. PICK more \in {<<>>, Answers(f)} : more \in Seq(Token) /\ Moved(Len(inbox), more)
    BY <1>5, <2>1
  <2> DEFINE m == Len(Line) - Len(inbox)
  <2>4. /\ m \in Nat /\ Len(more) \in Nat
        /\ \A i \in 1..m : Line'[i] = Line[i + Len(inbox)] /\ i + Len(inbox) \in 1..Len(Line)
        /\ \A i \in 1..Len(Line') : i \in 1..m \/ i - m \in 1..Len(more)
        /\ \A i \in 1..Len(more) : Line'[m + i] = more[i]
    <3>1. Len(inbox) \in 0..Len(inbox)
      BY <1>2, LineFront
    <3> QED
      BY <1>2, <2>3, <3>1, LineMoves
  <2> HIDE DEF m
  <2>5. ASSUME NEW i \in 1..m PROVE Line'[i].n # N
    BY <1>1, <2>4, <2>5 DEF CatInd, LineOK
  <2>6. /\ f.op = "status" => /\ Len(Answers(f)) = 2
                              /\ Answers(f)[1].what = "dial" /\ Answers(f)[1].value = radio.dial[radio.side]
                              /\ Answers(f)[2].what = "mode" /\ Answers(f)[2].value = radio.mode[radio.side]
        /\ f.op = "askdial" => Len(Answers(f)) = 1 /\ Answers(f)[1].value = radio.dial["A"]
    BY DEF Answers, Say
  <2>7. ASSUME NEW j \in 1..Len(more)
        PROVE  /\ f.op = "status" => \/ more[j].what = "dial" /\ more[j].value = radio.dial[radio.side]
                                     \/ more[j].what = "mode" /\ more[j].value = radio.mode[radio.side] /\ j > 1
               /\ f.op = "askdial" => more[j].value = radio.dial["A"]
    <3>1. more = Answers(f)
      BY <2>3, <2>7, CatBounds
    <3>2. /\ f.op = "status" => j \in 1..2
          /\ f.op = "askdial" => j \in 1..1
      <4>1. j \in 1..Len(Answers(f))
        BY <2>7, <3>1
      <4> HIDE DEF Answers
      <4> QED
        BY <2>6, <4>1
    <3>3. /\ f.op = "status" => j = 1 \/ j = 2
          /\ f.op = "askdial" => j = 1
      BY <3>2
    <3> QED
      BY <2>6, <3>1, <3>2, <3>3
  <2>8. ASSUME NEW i \in 1..Len(Line'), Line'[i].n = N
        PROVE  /\ cat'.at = "status" =>
                      \/ Line'[i].what = "dial" /\ Line'[i].value = radio.dial[radio.side]
                      \/ Line'[i].what = "mode" /\ Line'[i].value = radio.mode[radio.side] /\ i > 1
               /\ cat'.at = "askdial" => Line'[i].value = radio.dial["A"]
    <3>1. i - m \in 1..Len(more) /\ m \in Nat
      BY <2>4, <2>5, <2>8
    <3>2. i \in Int /\ m + (i - m) = i /\ (i - m > 1 => i > 1)
      BY <3>1
    <3>3. Line'[i] = more[i - m]
      BY <2>4, <3>1, <3>2
    <3> QED
      BY <2>1, <2>7, <3>1, <3>2, <3>3
  <2> QED
    BY <2>1, <2>2, <2>8
<1>13. cat'.at # "askmode"
  BY <1>3, <1>6 DEF CatOps
<1>14. Answered'
  BY <1>5, <1>12, <1>13 DEF Answered
<1> QED
  BY <1>5, <1>8, <1>9, <1>11, <1>14 DEF CatInd

LEMMA SentKeeps == CatInd /\ SentTwice => CatInd'
<1> SUFFICES ASSUME CatInd, SentTwice PROVE CatInd'
  OBVIOUS
<1> DEFINE f == [op |-> cat.op, arg |-> cat.arg]
<1>1. /\ cat.at = "unlocked" /\ Write(f, cat.op, cat.arg, NoDial, inbox)
      /\ UNCHANGED <<backend, cache, result>>
  BY DEF SentTwice
<1>2. CatTypes /\ backend = "ft817" /\ InCall /\ Names /\ Memory /\ ~Setting /\ N <= MaxCalls /\ cat.op \in {"mode", "ptt"}
  BY <1>1, CatIdle DEF CatInd, CatTypes, InCall, Setting
<1>3. f.op = cat.op /\ f.arg = cat.arg /\ FrameOK(f) /\ cat.op \in CatOps
  BY <1>2 DEF FrameOK, InCall, CatOps
<1> HIDE DEF f
<1>4. /\ CatTypes' /\ LineOK' /\ Names' /\ OwnStatus' /\ N' = N
      /\ cat' = [op |-> cat.op, arg |-> cat.arg, dial |-> NoDial, at |-> IF Awaits(f) > 0 THEN f.op ELSE "written"]
      /\ Heard(f) /\ wrong \subseteq wrong'
  <2>1. inbox = inbox \/ Clears(f)
    OBVIOUS
  <2> QED
    BY <1>1, <1>2, <1>3, <2>1, Written
<1>5. cat'.op = cat.op /\ cat'.arg = cat.arg /\ cat'.at = "written"
  <2>1. Awaits(f) = 0
    BY <1>2, <1>3 DEF Awaits
  <2> QED
    BY <1>4, <2>1
<1>6. InCall'
  BY <1>1, <1>2, <1>4, <1>5 DEF InCall
<1>7. Memory'
  <2>1. /\ f.op \in {"dial", "mode", "toggle"} => Setting' /\ cat'.op = f.op /\ cat'.arg = f.arg
        /\ f.op \notin {"dial", "mode", "toggle"} => ~Setting'
    BY <1>2, <1>3, <1>5 DEF Setting
  <2>2. radio' \in Radios
    BY <1>4 DEF CatTypes
  <2> QED
    BY <1>1, <1>2, <1>3, <1>4, <2>1, <2>2, FrameRemembered
<1>8. NoStranger' /\ Answered'
  BY <1>2, <1>5 DEF NoStranger, Answered, Clean
<1> QED
  BY <1>4, <1>6, <1>7, <1>8 DEF CatInd

(***************************************************************************)
(* A call ends.                                                             *)
(***************************************************************************)
LEMMA CatEnds ==
    ASSUME CatInd, InCall, NEW ok \in BOOLEAN, NEW own \in BOOLEAN, End(ok, own),
           NEW k \in 0..Len(inbox), Moved(k, <<>>), UNCHANGED <<backend, radio, strange>>,
           mishaps' \in 0..MaxMishaps, cache' \in Caches, wrong' \subseteq Vfos, Names',
           \A v \in Vfos \ wrong' : Matches(v)',
           cat.op = "status" /\ ok => own \/ strange,
           cat.op = "meter" /\ ok /\ backend = "ft450d" => own \/ strange
    PROVE  CatInd'
<1>1. CatTypes /\ LineOK /\ N \in 0..MaxCalls /\ cat.op \in CatOps
  BY CatBounds DEF CatInd, InCall, CatTypes, N
<1>2. cat' = NoCat /\ result' = [ok |-> ok, op |-> cat.op, own |-> own, strange |-> strange, n |-> N]
  BY DEF End
<1>3. /\ result' \in [ok : BOOLEAN, op : CatOps \cup {"none"}, own : BOOLEAN, strange : BOOLEAN,
                      n : 0..MaxCalls]
      /\ result'.n = N /\ result'.ok = ok /\ result'.op = cat.op /\ result'.own = own
      /\ result'.strange = strange
  <2>1. strange \in BOOLEAN
    BY <1>1 DEF CatTypes
  <2> QED
    BY <1>1, <1>2, <2>1
<1>4. LineOK'
  <2>1. result'.n \in 0..MaxCalls
    BY <1>1, <1>3
  <2> QED
    BY <1>1, <1>3, <2>1, NoMore, LineKeeps
<1>5. coming' \in Seq(Token) /\ inbox' \in Seq(Token)
  BY <1>1, CatBounds, LineMoves
<1>6. CatTypes'
  BY <1>1, <1>3, <1>5 DEF CatTypes
<1>7. OwnStatus'
  BY <1>3 DEF OwnStatus
<1>8. cat'.at = "idle" /\ ~Setting' /\ ~Clean'
  BY <1>2, CatIdle DEF Setting, Clean
<1>9. Memory' /\ Answered' /\ NoStranger'
  BY <1>8 DEF Memory, Answered, NoStranger
<1> QED
  BY <1>2, <1>4, <1>6, <1>7, <1>9 DEF CatInd

\* Nothing is remembered by the end of a call that was not written.
LEMMA Unchanging ==
    ASSUME CatInd, ~Setting, UNCHANGED <<backend, radio, cache, wrong>>
    PROVE  /\ cache' \in Caches /\ wrong' \subseteq Vfos /\ Names'
           /\ \A v \in Vfos \ wrong' : Matches(v)'
<1>1. \A v \in Vfos \ wrong : Matches(v)
  BY DEF CatInd, Memory
<1>2. \A v \in Vfos : Behind(v)' = Behind(v)
  BY DEF Behind, Named
<1>3. \A v \in Vfos \ wrong' : Matches(v)'
  BY <1>1, <1>2 DEF Matches, DialAt, ModeAt
<1>4. Names'
  BY DEF CatInd, Names
<1> QED
  BY <1>3, <1>4 DEF CatInd, CatTypes

\* What a status brings, and what is right of it.
LEMMA Remembering ==
    ASSUME CatInd, ~Setting, UNCHANGED <<backend, radio>>,
           NEW freq \in Tunings \cup {Odd}, NEW mode \in Modulations \cup {Odd}, NEW own \in BOOLEAN,
           Remember(freq, mode, own), freq # Unread,
           backend = "ft450d" => freq \in Tunings,
           own => /\ freq = radio.dial[IF backend = "ft817" THEN radio.side ELSE "A"]
                  /\ backend = "ft817" => mode = radio.mode[radio.side]
    PROVE  /\ cache' \in Caches /\ wrong' \subseteq Vfos /\ Names'
           /\ \A v \in Vfos \ wrong' : Matches(v)'
<1>1. CatTypes /\ Names /\ Memory
  BY DEF CatInd
<1>2. /\ Named \in Vfos /\ (backend = "ft450d" => Named = "A") /\ Sided(freq) = Named
      /\ \A v \in Vfos : Behind(v) \in Vfos
  BY <1>1, NamedIs
<1>3. /\ cache' = [side |-> Named, dial |-> [cache.dial EXCEPT ![Named] = freq],
                   mode |-> [cache.mode EXCEPT ![Named] = mode]]
      /\ wrong' = IF own THEN wrong \ {Named} ELSE wrong \cup {Named}
  BY <1>2 DEF Remember
<1>4. /\ cache \in Caches /\ radio \in Radios /\ backend \in {"ft817", "ft450d"} /\ wrong \subseteq Vfos
      /\ Vfos = {"A", "B"}
  BY <1>1 DEF CatTypes, Vfos
<1>5. cache'.side = Named /\ cache' \in Caches /\ wrong' \subseteq Vfos
  BY <1>2, <1>3, <1>4 DEF Caches
<1>6. /\ cache'.dial[Named] = freq /\ cache'.mode[Named] = mode
      /\ \A v \in Vfos : v # Named => cache'.dial[v] = cache.dial[v] /\ cache'.mode[v] = cache.mode[v]
  BY <1>2, <1>3, <1>4 DEF Caches
<1>7. Named' = Named
  BY <1>2, <1>5 DEF Named, Vfos
<1>8. \A v \in Vfos : Behind(v)' = Behind(v)
  BY <1>7 DEF Behind
<1>9. Names'
  BY <1>1, <1>2, <1>4, <1>5, <1>6 DEF Names
<1>10. ASSUME NEW v \in Vfos \ wrong' PROVE Matches(v)'
  <2>1. CASE v = Named
    <3>1. own
      BY <1>3, <2>1
    <3>2. Behind(v) = IF backend = "ft817" THEN radio.side ELSE "A"
      BY <1>2, <1>4, <2>1 DEF Behind
    <3> QED
      BY <1>6, <1>8, <2>1, <3>1, <3>2 DEF Matches, DialAt, ModeAt
  <2>2. CASE v # Named
    <3>1. v \notin wrong
      BY <1>3, <2>2
    <3>2. Matches(v)
      BY <1>1, <3>1 DEF Memory
    <3> QED
      BY <1>6, <1>8, <2>2, <3>2 DEF Matches, DialAt, ModeAt
  <2> QED
    BY <2>1, <2>2
<1> QED
  BY <1>5, <1>9, <1>10

LEMMA StatusKeeps == CatInd /\ StatusRead => CatInd'
<1> SUFFICES ASSUME CatInd, StatusRead PROVE CatInd'
  OBVIOUS
<1> DEFINE own == inbox[1].n = N /\ inbox[1].what = "dial"
<1>1. /\ cat.at = "status" /\ Len(inbox) >= 2 /\ inbox' = Taken(2) /\ coming' = coming
      /\ UNCHANGED <<backend, radio, coming, mishaps, strange>>
  BY DEF StatusRead
<1>2. /\ CatTypes /\ InCall /\ cat.op = "status" /\ backend = "ft817" /\ ~Setting /\ LineOK /\ Answered
      /\ NoStranger /\ Clean
  BY <1>1, CatIdle DEF CatInd, InCall, CatTypes, Setting, Clean
<1>3. /\ Len(inbox) \in Nat /\ 1 \in 1..Len(inbox) /\ 2 \in 1..Len(inbox) /\ 2 \in 0..Len(inbox)
      /\ Moved(2, <<>>)
  BY <1>1, <1>2, LineIs, LineFront
<1>4. /\ 1 \in 1..Len(Line) /\ 2 \in 1..Len(Line) /\ Line[1] = inbox[1] /\ Line[2] = inbox[2]
      /\ inbox[1] \in Token /\ inbox[2] \in Token
  BY <1>2, <1>3, LineIs
<1>5. inbox[1].what = "dial" =>
          /\ inbox[1].value \in Tunings
          /\ inbox[2].what = "mode" /\ inbox[2].n = inbox[1].n /\ inbox[2].value \in Modulations
  <2> SUFFICES ASSUME inbox[1].what = "dial"
               PROVE  /\ inbox[1].value \in Tunings
                      /\ inbox[2].what = "mode" /\ inbox[2].n = inbox[1].n /\ inbox[2].value \in Modulations
    OBVIOUS
  <2>1. Line[1].value \in Tunings /\ Line[1 + 1].what = "mode" /\ Line[1 + 1].n = Line[1].n
    BY <1>2, <1>4 DEF LineOK
  <2>2. Line[2].what = "mode" => Line[2].value \in Modulations
    BY <1>2, <1>4 DEF LineOK
  <2> QED
    BY <1>4, <2>1, <2>2
<1>6. inbox[1].n = N => inbox[1].what = "dial" /\ inbox[1].value = radio.dial[radio.side]
  BY <1>1, <1>2, <1>4 DEF Answered
<1>7. inbox[2].n = N /\ inbox[2].what = "mode" => inbox[2].value = radio.mode[radio.side]
  BY <1>1, <1>2, <1>4 DEF Answered
<1>8. own \in BOOLEAN /\ (own \/ strange)
  BY <1>2, <1>3, <1>6 DEF NoStranger
<1>9. mishaps' \in 0..MaxMishaps
  BY <1>1, <1>2 DEF CatTypes
<1>10. CASE inbox[1].what = "dial"
  <2>1. End(TRUE, own) /\ Remember(inbox[1].value, inbox[2].value, own)
    BY <1>10 DEF StatusRead
  <2>2. own => inbox[1].value = radio.dial[radio.side] /\ inbox[2].value = radio.mode[radio.side]
    BY <1>5, <1>6, <1>7, <1>10
  <2>3. inbox[1].value # Unread
    BY <1>5, <1>10, CatBounds
  <2> HIDE DEF own
  <2>4. /\ cache' \in Caches /\ wrong' \subseteq Vfos /\ Names' /\ \A v \in Vfos \ wrong' : Matches(v)'
    BY <1>1, <1>2, <1>5, <1>8, <1>10, <2>1, <2>2, <2>3, Remembering
  <2> QED
    BY <1>1, <1>2, <1>3, <1>8, <1>9, <2>1, <2>4, CatEnds
<1>11. CASE inbox[1].what # "dial" /\ End(FALSE, own) /\ Forgotten
  <2>1. /\ cache' \in Caches /\ wrong' \subseteq Vfos /\ Names' /\ \A v \in Vfos \ wrong' : Matches(v)'
    BY <1>1, <1>2, <1>11, Unchanging DEF Forgotten
  <2> HIDE DEF own
  <2> QED
    BY <1>1, <1>2, <1>3, <1>8, <1>9, <1>11, <2>1, CatEnds
<1>12. CASE inbox[1].what # "dial" /\ End(TRUE, own) /\ Remember(Odd, Odd, FALSE) /\ Odd # Unread
  <2>1. /\ cache' \in Caches /\ wrong' \subseteq Vfos /\ Names' /\ \A v \in Vfos \ wrong' : Matches(v)'
    BY <1>1, <1>2, <1>12, Remembering
  <2> HIDE DEF own
  <2> QED
    BY <1>1, <1>2, <1>3, <1>8, <1>9, <1>12, <2>1, CatEnds
<1> QED
  BY <1>10, <1>11, <1>12, CatBounds DEF StatusRead

LEMMA ByteKeeps == CatInd /\ ByteRead => CatInd'
<1> SUFFICES ASSUME CatInd, ByteRead PROVE CatInd'
  OBVIOUS
<1> DEFINE ok == backend = "ft817" \/ Head(inbox).what # "dial"
           own == Head(inbox).n = N
<1>1. /\ cat.at \in {"meter", "lock"} /\ inbox # <<>> /\ inbox' = Taken(1) /\ End(ok, own)
      /\ UNCHANGED <<backend, radio, cache, coming, mishaps, strange, wrong>>
  BY DEF ByteRead
<1>2. CatTypes /\ InCall /\ cat.op = cat.at /\ ~Setting /\ NoStranger
  BY <1>1, CatIdle DEF CatInd, InCall, Setting
<1>3. /\ Len(inbox) \in Nat /\ 1 \in 1..Len(inbox) /\ 1 \in 0..Len(inbox)
      /\ Head(inbox) = inbox[1] /\ Moved(1, <<>>)
  <2>1. inbox \in Seq(Token)
    BY <1>2 DEF CatTypes
  <2>2. Len(inbox) \in Nat \ {0} /\ Head(inbox) = inbox[1]
    BY <1>1, <2>1, EmptySeq
  <2>3. 1 \in 1..Len(inbox) /\ 1 \in 0..Len(inbox)
    BY <2>2
  <2> QED
    BY <1>1, <1>2, <2>2, <2>3, LineFront
<1>4. ok \in BOOLEAN /\ own \in BOOLEAN
  OBVIOUS
<1>5. backend = "ft450d" /\ cat.op = "meter" => own \/ strange
  <2> SUFFICES ASSUME backend = "ft450d", cat.op = "meter", ~strange PROVE own
    OBVIOUS
  <2>1. Clean
    BY <1>2 DEF Clean
  <2> QED
    BY <1>2, <1>3, <2>1 DEF NoStranger
<1>6. /\ cache' \in Caches /\ wrong' \subseteq Vfos /\ Names' /\ \A v \in Vfos \ wrong' : Matches(v)'
  BY <1>1, <1>2, Unchanging
<1>7. mishaps' \in 0..MaxMishaps /\ cat.op # "status"
  BY <1>1, <1>2 DEF CatTypes
<1> HIDE DEF ok, own
<1> QED
  BY <1>1, <1>2, <1>3, <1>4, <1>5, <1>6, <1>7, CatEnds

LEMMA DialReadKeeps == CatInd /\ DialRead => CatInd'
<1> SUFFICES ASSUME CatInd, DialRead PROVE CatInd'
  OBVIOUS
<1>1. cat.at = "askdial" /\ inbox # <<>> /\ UNCHANGED <<backend, cache>>
  BY DEF DialRead
<1>2. /\ CatTypes /\ InCall /\ cat.op = "status" /\ backend = "ft450d" /\ ~Setting /\ LineOK /\ Answered
      /\ NoStranger /\ Clean /\ Names /\ Memory /\ N <= MaxCalls
  BY <1>1, CatIdle DEF CatInd, InCall, CatTypes, Setting, Clean
<1>3. /\ Len(inbox) \in Nat /\ 1 \in 1..Len(inbox) /\ 1 \in 0..Len(inbox) /\ Head(inbox) = inbox[1]
  <2>1. inbox \in Seq(Token)
    BY <1>2 DEF CatTypes
  <2>2. Len(inbox) \in Nat \ {0} /\ Head(inbox) = inbox[1]
    BY <1>1, <2>1, EmptySeq
  <2> QED
    BY <2>2
<1>4. 1 \in 1..Len(Line) /\ Line[1] = inbox[1]
  BY <1>2, <1>3, LineIs
<1>5. CASE Head(inbox).what # "dial"
  <2>1. End(FALSE, FALSE) /\ inbox' = Taken(1) /\ UNCHANGED <<radio, coming, mishaps, strange, wrong>>
    BY <1>5 DEF DialRead
  <2>2. /\ cache' \in Caches /\ wrong' \subseteq Vfos /\ Names' /\ \A v \in Vfos \ wrong' : Matches(v)'
    BY <1>1, <1>2, <2>1, Unchanging
  <2>3. mishaps' \in 0..MaxMishaps /\ Moved(1, <<>>)
    BY <1>2, <1>3, <2>1, LineFront DEF CatTypes
  <2>4. FALSE \in BOOLEAN
    OBVIOUS
  <2> QED
    BY <1>1, <1>2, <1>3, <2>1, <2>2, <2>3, <2>4, CatEnds
<1>6. CASE Head(inbox).what = "dial"
  <2> DEFINE f == [op |-> "askmode", arg |-> Unread]
             d == [value |-> Head(inbox).value, n |-> Head(inbox).n]
  <2>1. Write(f, "status", Unread, d, Taken(1)) /\ UNCHANGED <<backend, cache, result>>
    BY <1>1, <1>6 DEF DialRead
  <2>2. f.op = "askmode" /\ FrameOK(f) /\ Clears(f) /\ Awaits(f) = 1
    BY <1>2 DEF FrameOK, Clears, Awaits
  <2>3. "status" \in CatOps /\ d.value = inbox[1].value /\ d.n = inbox[1].n
    BY <1>3 DEF CatOps
  <2>4. inbox[1].value \in Tunings /\ (inbox[1].n = N => inbox[1].value = radio.dial["A"])
    BY <1>1, <1>2, <1>3, <1>4, <1>6 DEF LineOK, Answered
  <2>5. ~strange => inbox[1].n = N
    BY <1>2, <1>3 DEF NoStranger
  <2> HIDE DEF f, d
  <2>6. /\ CatTypes' /\ LineOK' /\ Names' /\ OwnStatus' /\ N' = N /\ cat' # NoCat
        /\ cat' = [op |-> "status", arg |-> Unread, dial |-> d, at |-> IF Awaits(f) > 0 THEN f.op ELSE "written"]
        /\ Heard(f) /\ wrong \subseteq wrong' /\ (inbox' = <<>> \/ ~Clears(f))
        /\ strange' = (strange /\ ("status" = cat.op \/ ~Clears(f)))
    BY <1>2, <2>1, <2>2, <2>3, Written
  <2>7. cat'.op = "status" /\ cat'.at = "askmode" /\ cat'.dial = d
    BY <2>2, <2>6
  <2>8. InCall'
    BY <1>2, <2>1, <2>6, <2>7 DEF InCall, CatOps
  <2>9. Memory'
    <3>1. /\ f.op \in {"dial", "mode", "toggle"} => Setting' /\ cat'.op = f.op /\ cat'.arg = f.arg
          /\ f.op \notin {"dial", "mode", "toggle"} => ~Setting'
      BY <2>2, <2>7 DEF Setting
    <3>2. radio' \in Radios
      BY <2>6 DEF CatTypes
    <3> QED
      BY <1>2, <2>1, <2>2, <2>6, <3>1, <3>2, FrameRemembered
  <2>10. radio'.dial = radio.dial
    BY <1>2, <2>2, <2>6, ObeyedIs DEF Heard
  <2>11. inbox' = <<>> /\ Len(inbox') = 0
    BY <2>2, <2>6, CatBounds
  <2>12. NoStranger'
    BY <2>11 DEF NoStranger
  <2>13. ~strange' => inbox[1].n = N
    BY <1>2, <2>2, <2>5, <2>6
  <2>14. Answered'
    BY <2>3, <2>4, <2>6, <2>7, <2>10, <2>13 DEF Answered
  <2> QED
    BY <2>6, <2>8, <2>9, <2>12, <2>14 DEF CatInd
<1> QED
  BY <1>5, <1>6

LEMMA ModeReadKeeps == CatInd /\ ModeRead => CatInd'
<1> SUFFICES ASSUME CatInd, ModeRead PROVE CatInd'
  OBVIOUS
<1> DEFINE own == cat.dial.n = N /\ Head(inbox).n = N
<1>1. /\ cat.at = "askmode" /\ inbox # <<>> /\ inbox' = Taken(1)
      /\ UNCHANGED <<backend, radio, coming, mishaps, strange>>
  BY DEF ModeRead
<1>2. /\ CatTypes /\ InCall /\ cat.op = "status" /\ backend = "ft450d" /\ ~Setting /\ LineOK /\ Answered
      /\ NoStranger /\ Clean
  BY <1>1, CatIdle DEF CatInd, InCall, CatTypes, Setting, Clean
<1>3. /\ Len(inbox) \in Nat /\ 1 \in 1..Len(inbox) /\ 1 \in 0..Len(inbox) /\ Head(inbox) = inbox[1]
      /\ Moved(1, <<>>)
  <2>1. inbox \in Seq(Token)
    BY <1>2 DEF CatTypes
  <2>2. Len(inbox) \in Nat \ {0} /\ Head(inbox) = inbox[1]
    BY <1>1, <2>1, EmptySeq
  <2>3. 1 \in 1..Len(inbox) /\ 1 \in 0..Len(inbox)
    BY <2>2
  <2> QED
    BY <1>1, <1>2, <2>2, <2>3, LineFront
<1>4. 1 \in 1..Len(Line) /\ Line[1] = inbox[1]
  BY <1>2, <1>3, LineIs
<1>5. own \in BOOLEAN /\ (own \/ strange)
  BY <1>1, <1>2, <1>3 DEF NoStranger, Answered
<1>6. mishaps' \in 0..MaxMishaps
  BY <1>1, <1>2 DEF CatTypes
<1>7. CASE Head(inbox).what = "mode"
  <2>1. End(TRUE, own) /\ Remember(cat.dial.value, Head(inbox).value, own)
    BY <1>7 DEF ModeRead
  <2>2. cat.dial.value \in Tunings /\ Head(inbox).value \in Modulations /\ cat.dial.value # Unread
    BY <1>1, <1>2, <1>3, <1>4, <1>7, CatBounds DEF Answered, LineOK
  <2>3. own => cat.dial.value = radio.dial["A"]
    BY <1>1, <1>2 DEF Answered
  <2> HIDE DEF own
  <2>4. /\ cache' \in Caches /\ wrong' \subseteq Vfos /\ Names' /\ \A v \in Vfos \ wrong' : Matches(v)'
    BY <1>1, <1>2, <1>5, <2>1, <2>2, <2>3, Remembering
  <2> QED
    BY <1>1, <1>2, <1>3, <1>5, <1>6, <2>1, <2>4, CatEnds
<1>8. CASE Head(inbox).what # "mode"
  <2>1. End(FALSE, own) /\ Forgotten
    BY <1>8 DEF ModeRead
  <2>2. /\ cache' \in Caches /\ wrong' \subseteq Vfos /\ Names' /\ \A v \in Vfos \ wrong' : Matches(v)'
    BY <1>1, <1>2, <2>1, Unchanging DEF Forgotten
  <2> HIDE DEF own
  <2> QED
    BY <1>1, <1>2, <1>3, <1>5, <1>6, <2>1, <2>2, CatEnds
<1> QED
  BY <1>7, <1>8

LEMMA TimesOutKeeps == CatInd /\ ReadTimesOut => CatInd'
<1> SUFFICES ASSUME CatInd, ReadTimesOut PROVE CatInd'
  OBVIOUS
<1> DEFINE ok == cat.op = "lock"
<1>1. /\ cat.at \in {"status", "meter", "lock", "askdial", "askmode"} /\ inbox' = <<>>
      /\ End(ok, FALSE) /\ Mishap /\ UNCHANGED <<backend, radio, cache, coming, strange, wrong>>
  BY DEF ReadTimesOut
<1>2. CatTypes /\ InCall /\ ~Setting
  BY <1>1, CatIdle DEF CatInd, Setting
<1>3. Len(inbox) \in 0..Len(inbox) /\ Moved(Len(inbox), <<>>)
  BY <1>1, <1>2, LineFront
<1>4. mishaps' \in 0..MaxMishaps
  BY <1>1, <1>2, CatBounds DEF Mishap, CatTypes
<1>5. /\ cache' \in Caches /\ wrong' \subseteq Vfos /\ Names' /\ \A v \in Vfos \ wrong' : Matches(v)'
  BY <1>1, <1>2, Unchanging
<1>6. ok \in BOOLEAN /\ FALSE \in BOOLEAN /\ (cat.op = "status" => ~ok) /\ (cat.op = "meter" => ~ok)
  OBVIOUS
<1> HIDE DEF ok
<1> QED
  BY <1>1, <1>2, <1>3, <1>4, <1>5, <1>6, CatEnds

LEMMA DroppedKeeps == CatInd /\ CallDropped => CatInd'
<1> SUFFICES ASSUME CatInd, CallDropped PROVE CatInd'
  OBVIOUS
<1>1. /\ cat # NoCat /\ Mishap /\ End(FALSE, FALSE) /\ UNCHANGED <<backend, radio, cache, coming, strange>>
      /\ (inbox' = inbox \/ inbox' = <<>>)
      /\ wrong' = wrong \cup (IF cat.at = "written" THEN Concerned(cat) ELSE {})
  BY DEF CallDropped
<1>2. CatTypes /\ InCall /\ Names /\ Memory
  BY <1>1 DEF CatInd
<1>3. mishaps' \in 0..MaxMishaps
  BY <1>1, <1>2, CatBounds DEF Mishap, CatTypes
<1>4. \E k \in 0..Len(inbox) : Moved(k, <<>>)
  BY <1>1, <1>2, LineFront
<1>5. Here = {Named} /\ Named \in Vfos
  BY <1>2, NamedIs
<1>6. Concerned(cat) \subseteq Vfos /\ wrong' \subseteq Vfos /\ cache' \in Caches /\ Names'
  BY <1>1, <1>2, <1>5 DEF Concerned, CatTypes, Names
<1>7. \A v \in Vfos \ wrong' : Matches(v)
  <2> SUFFICES ASSUME NEW v \in Vfos \ wrong' PROVE Matches(v)
    OBVIOUS
  <2>1. v \in Vfos \ wrong
    BY <1>1
  <2>2. CASE ~Setting
    BY <1>2, <2>1, <2>2 DEF Memory
  <2>3. CASE Setting /\ cat.op \in {"dial", "mode"}
    <3>1. v # Named
      BY <1>1, <1>5, <2>3 DEF Setting, Concerned
    <3> QED
      BY <1>2, <2>1, <2>3, <3>1 DEF Memory
  <2>4. CASE Setting /\ cat.op = "toggle"
    BY <1>1, <2>4 DEF Setting, Concerned
  <2> QED
    BY <2>2, <2>3, <2>4 DEF Setting
<1>8. \A v \in Vfos : Behind(v)' = Behind(v)
  BY <1>1 DEF Behind, Named
<1>9. \A v \in Vfos \ wrong' : Matches(v)'
  BY <1>1, <1>7, <1>8 DEF Matches, DialAt, ModeAt
<1>10. FALSE \in BOOLEAN
  OBVIOUS
<1> QED
  BY <1>1, <1>2, <1>3, <1>4, <1>6, <1>9, <1>10, CatEnds

\* What is remembered after a write is what the frame has done.
LEMMA WrittenKeeps == CatInd /\ CallWritten => CatInd'
<1> SUFFICES ASSUME CatInd, CallWritten PROVE CatInd'
  OBVIOUS
<1>1. /\ cat.at = "written" /\ End(TRUE, TRUE) /\ UNCHANGED <<backend, radio, coming, mishaps, strange>>
      /\ (inbox' = inbox \/ inbox' = <<>>)
      /\ wrong' = wrong \cup (IF cat.op = "toggle" /\ cache.side = "unknown" THEN {"A"} ELSE {})
  BY DEF CallWritten
<1>2. CatTypes /\ InCall /\ Names /\ Memory
  BY <1>1, CatIdle DEF CatInd
<1>3. /\ cache \in Caches /\ radio \in Radios /\ backend \in {"ft817", "ft450d"} /\ wrong \subseteq Vfos
      /\ wrong' \subseteq Vfos /\ Vfos = {"A", "B"} /\ mishaps' \in 0..MaxMishaps
  BY <1>1, <1>2 DEF CatTypes, Vfos
<1>4. /\ Named \in Vfos /\ (backend = "ft450d" => Named = "A") /\ (CHOOSE v \in Here : TRUE) = Named
      /\ \A v \in Vfos : Behind(v) \in Vfos
      /\ \A d : d # Unread => Sided(d) = Named
  BY <1>2, NamedIs
<1>5. \E k \in 0..Len(inbox) : Moved(k, <<>>)
  BY <1>1, <1>2, LineFront
<1>6. cache' \in Caches /\ Names' /\ \A v \in Vfos \ wrong' : Matches(v)'
  <2>1. CASE cat.op = "dial"
    <3>1. Setting /\ cat.arg \in Tunings /\ Sided(cat.arg) = Named /\ wrong' = wrong
      BY <1>1, <1>2, <1>4, <2>1, CatBounds DEF Setting, InCall
    <3>2. cache' = [cache EXCEPT !.side = Named, !.dial[Named] = cat.arg]
      BY <2>1, <3>1 DEF CallWritten
    <3>3. /\ cache' \in Caches /\ cache'.side = Named /\ cache'.dial[Named] = cat.arg
          /\ cache'.mode = cache.mode /\ \A v \in Vfos : v # Named => cache'.dial[v] = cache.dial[v]
      BY <1>3, <1>4, <3>1, <3>2 DEF Caches
    <3>4. Named' = Named /\ Names'
      BY <1>1, <1>2, <1>3, <1>4, <3>3 DEF Named, Names
    <3>5. \A v \in Vfos : Behind(v)' = Behind(v)
      BY <1>1, <3>4 DEF Behind
    <3>6. ASSUME NEW v \in Vfos \ wrong' PROVE Matches(v)'
      <4>1. CASE v = Named
        <5>1. radio.dial[Behind(v)] = cat.arg /\ ModeAt(v, Behind(v))
          BY <1>2, <2>1, <3>1, <4>1 DEF Memory
        <5> QED
          BY <1>1, <3>3, <3>5, <4>1, <5>1 DEF Matches, DialAt, ModeAt
      <4>2. CASE v # Named
        <5>1. Matches(v)
          BY <1>2, <2>1, <3>1, <4>2 DEF Memory
        <5> QED
          BY <1>1, <3>3, <3>5, <4>2, <5>1 DEF Matches, DialAt, ModeAt
      <4> QED
        BY <4>1, <4>2
    <3> QED
      BY <3>3, <3>4, <3>6
  <2>2. CASE cat.op = "mode"
    <3>1. Setting /\ cat.arg \in Modulations /\ wrong' = wrong
      BY <1>1, <1>2, <2>2 DEF Setting, InCall
    <3>2. cache' = [cache EXCEPT !.mode[Named] = cat.arg]
      BY <1>4, <2>2 DEF CallWritten
    <3>3. /\ cache' \in Caches /\ cache'.side = cache.side /\ cache'.mode[Named] = cat.arg
          /\ cache'.dial = cache.dial /\ \A v \in Vfos : v # Named => cache'.mode[v] = cache.mode[v]
      BY <1>3, <1>4, <3>1, <3>2 DEF Caches
    <3>4. Named' = Named /\ Names'
      <4>1. cache.side = "unknown" => Named = "A"
        BY DEF Named
      <4> QED
        BY <1>1, <1>2, <1>3, <3>3, <4>1 DEF Named, Names
    <3>5. \A v \in Vfos : Behind(v)' = Behind(v)
      BY <1>1, <3>4 DEF Behind
    <3>6. ASSUME NEW v \in Vfos \ wrong' PROVE Matches(v)'
      <4>1. CASE v = Named
        <5>1. DialAt(v, Behind(v)) /\ (backend = "ft817" => radio.mode[Behind(v)] = cat.arg)
          BY <1>2, <2>2, <3>1, <4>1 DEF Memory
        <5> QED
          BY <1>1, <3>3, <3>5, <4>1, <5>1 DEF Matches, DialAt, ModeAt
      <4>2. CASE v # Named
        <5>1. Matches(v)
          BY <1>2, <2>2, <3>1, <4>2 DEF Memory
        <5> QED
          BY <1>1, <3>3, <3>5, <4>2, <5>1 DEF Matches, DialAt, ModeAt
      <4> QED
        BY <4>1, <4>2
    <3> QED
      BY <3>3, <3>4, <3>6
  <2>3. CASE cat.op = "toggle"
    <3>1. Setting /\ backend = "ft817"
      BY <1>1, <1>2, <1>3, <2>3 DEF Setting, InCall
    <3>2. cache' = [cache EXCEPT !.side = Opposite(cache.side)]
      BY <2>3 DEF CallWritten
    <3>3. /\ cache' \in Caches /\ cache'.side = Opposite(cache.side) /\ cache'.side \in Vfos
          /\ cache'.dial = cache.dial /\ cache'.mode = cache.mode
      BY <1>3, <3>2, Others DEF Caches
    <3>4. Names'
      BY <1>1, <3>1, <3>3 DEF Names, Vfos
    <3>5. ASSUME NEW v \in Vfos \ wrong' PROVE Matches(v)'
      <4>1. DialAt(v, Opposite(Behind(v))) /\ ModeAt(v, Opposite(Behind(v)))
        BY <1>1, <1>2, <2>3, <3>1 DEF Memory
      <4>2. CASE cache.side = "unknown"
        <5>1. v = "B" /\ cache.dial[v] = Unread /\ cache.mode[v] = Unread
          BY <1>1, <1>2, <1>3, <2>3, <4>2 DEF Names
        <5> QED
          BY <3>3, <5>1 DEF Matches, DialAt, ModeAt
      <4>3. CASE cache.side # "unknown"
        <5>1. cache.side \in Vfos /\ Named = cache.side /\ Named' = Opposite(cache.side)
              /\ radio.side \in Vfos
          BY <1>3, <3>3, <4>3 DEF Named, Caches, Radios, Vfos
        <5>2. Behind(v)' = Opposite(Behind(v))
          BY <1>1, <1>3, <3>1, <5>1, Others DEF Behind
        <5> QED
          BY <1>1, <3>3, <4>1, <5>2 DEF Matches, DialAt, ModeAt
      <4> QED
        BY <4>2, <4>3
    <3> QED
      BY <3>3, <3>4, <3>5
  <2>4. CASE cat.op \notin {"dial", "mode", "toggle"}
    <3>1. ~Setting /\ UNCHANGED <<cache, wrong>>
      BY <1>1, <2>4 DEF Setting, CallWritten
    <3> QED
      BY <1>1, <3>1, Unchanging
  <2> QED
    BY <2>1, <2>2, <2>3, <2>4
<1>7. TRUE \in BOOLEAN
  OBVIOUS
<1> QED
  BY <1>1, <1>2, <1>3, <1>5, <1>6, <1>7, CatEnds

(***************************************************************************)
(* What leaves the call as it is.                                           *)
(***************************************************************************)
LEMMA UnlockKeeps == CatInd /\ AfterUnlock => CatInd'
<1> SUFFICES ASSUME CatInd, AfterUnlock PROVE CatInd'
  OBVIOUS
<1>1. /\ cat.at = "unlock" /\ inbox' = <<>> /\ cat' = [cat EXCEPT !.at = "unlocked"]
      /\ (Mishap \/ UNCHANGED mishaps)
      /\ UNCHANGED <<backend, radio, cache, coming, result, strange, wrong>>
  BY DEF AfterUnlock
<1>2. CatTypes /\ InCall /\ Names /\ Memory /\ LineOK /\ OwnStatus /\ ~Setting
  BY <1>1, CatIdle DEF CatInd, Setting
<1>3. cat' = [op |-> cat.op, arg |-> cat.arg, at |-> "unlocked", dial |-> cat.dial]
  BY <1>1, <1>2 DEF InCall
<1>4. cat'.op = cat.op /\ cat'.arg = cat.arg /\ cat'.at = "unlocked" /\ cat'.dial = cat.dial /\ N' = N
  BY <1>1, <1>3 DEF N
<1>5. InCall'
  BY <1>1, <1>2, <1>3, <1>4 DEF InCall
<1>6. Moved(Len(inbox), <<>>) /\ Len(inbox) \in 0..Len(inbox) /\ Proper(<<>>) /\ cat' # NoCat
  <2>1. cat' # NoCat
    BY <1>4, CatIdle
  <2> QED
    BY <1>1, <1>2, <2>1, LineFront, NoMore
<1>7. LineOK' /\ inbox' \in Seq(Token) /\ coming' \in Seq(Token)
  <2>1. result'.n = result.n /\ result'.n \in 0..MaxCalls
    BY <1>1, <1>2 DEF CatTypes
  <2>2. <<>> \in Seq(Token)
    BY CatBounds
  <2> QED
    BY <1>1, <1>2, <1>6, <2>1, <2>2, LineKeeps, LineMoves
<1>8. mishaps' \in 0..MaxMishaps
  BY <1>1, <1>2, CatBounds DEF Mishap, CatTypes
<1>9. CatTypes'
  BY <1>1, <1>2, <1>7, <1>8 DEF CatTypes
<1>10. /\ cache' \in Caches /\ wrong' \subseteq Vfos /\ Names' /\ \A v \in Vfos \ wrong' : Matches(v)'
  BY <1>1, <1>2, Unchanging
<1>11. ~Setting' /\ ~Clean'
  BY <1>4 DEF Setting, Clean
<1>12. Memory' /\ NoStranger' /\ Answered' /\ OwnStatus'
  BY <1>1, <1>2, <1>4, <1>10, <1>11 DEF Memory, NoStranger, Answered, OwnStatus
<1> QED
  BY <1>5, <1>7, <1>9, <1>10, <1>12 DEF CatInd

LEMMA ArrivalKeeps == CatInd /\ Arrives => CatInd'
<1> SUFFICES ASSUME CatInd, Arrives PROVE CatInd'
  OBVIOUS
<1>1. /\ coming # <<>> /\ coming' = Tail(coming) /\ inbox' = Append(inbox, Head(coming))
      /\ strange' = (strange \/ Head(coming).n # N)
      /\ UNCHANGED <<backend, radio, cache, cat, result, mishaps, wrong>>
  BY DEF Arrives
<1>2. /\ CatTypes /\ inbox \in Seq(Token) /\ coming \in Seq(Token) /\ Len(inbox) \in Nat
      /\ Len(coming) \in Nat \ {0} /\ N' = N
  BY <1>1, EmptySeq, LenProperties DEF CatInd, CatTypes, N
<1> DEFINE a == Len(inbox)
           b == Len(coming)
           h == Head(coming)
<1>3. /\ h \in Token /\ h = coming[1]
      /\ coming' \in Seq(Token) /\ Len(coming') = b - 1
      /\ \A i \in 1..b - 1 : coming'[i] = coming[i + 1]
  BY <1>1, <1>2, HeadTailProperties
<1>4. /\ inbox' \in Seq(Token) /\ Len(inbox') = a + 1 /\ inbox'[a + 1] = h
      /\ \A i \in 1..a : inbox'[i] = inbox[i]
  <2>1. /\ inbox' \in Seq(Token) /\ Len(inbox') = a + 1 /\ DOMAIN inbox = 1..a /\ inbox'[a + 1] = h
        /\ \A i \in DOMAIN inbox : inbox'[i] = inbox[i]
    BY <1>1, <1>2, <1>3, AppendAt, LenProperties
  <2> QED
    BY <2>1
<1> HIDE DEF a, b, h
<1>5. Line' = Line
  <2>1. /\ Line \in Seq(Token) /\ Len(Line) = a + b
        /\ \A i \in 1..a + b : Line[i] = IF i <= a THEN inbox[i] ELSE coming[i - a]
    BY <1>2, ConcatProperties DEF Line, a, b
  <2>2. /\ Line' \in Seq(Token) /\ Len(Line') = a + 1 + (b - 1)
        /\ \A i \in 1..a + 1 + (b - 1) : Line'[i] = IF i <= a + 1 THEN inbox'[i] ELSE coming'[i - (a + 1)]
    <3> DEFINE x == inbox'
               y == coming'
               z == x \o y
    <3>1. x \in Seq(Token) /\ y \in Seq(Token) /\ Len(x) = a + 1 /\ Len(y) = b - 1 /\ Line' = z
      BY <1>3, <1>4 DEF Line
    <3>2. /\ z \in Seq(Token) /\ Len(z) = Len(x) + Len(y)
          /\ \A i \in 1..Len(x) + Len(y) : z[i] = IF i <= Len(x) THEN x[i] ELSE y[i - Len(x)]
      <4> HIDE DEF x, y
      <4> QED
        BY <3>1, ConcatProperties
    <3> HIDE DEF z
    <3> QED
      BY <3>1, <3>2
  <2>3. a \in Nat /\ b \in Nat \ {0} /\ a + 1 + (b - 1) = a + b
    BY <1>2 DEF a, b
  <2>4. ASSUME NEW i \in 1..a + b PROVE Line'[i] = Line[i]
    <3>1. CASE i <= a
      <4>1. i \in 1..a /\ i <= a + 1
        BY <2>3, <3>1
      <4> QED
        BY <1>4, <2>1, <2>2, <2>3, <3>1, <4>1
    <3>2. CASE i = a + 1
      <4>1. ~(i <= a) /\ i <= a + 1 /\ i - a = 1
        BY <2>3, <3>2
      <4>2. Line[i] = coming[1]
        BY <2>1, <4>1
      <4>3. Line'[i] = inbox'[i]
        BY <2>2, <2>3, <4>1
      <4> QED
        BY <1>3, <1>4, <3>2, <4>2, <4>3
    <3>3. CASE i > a + 1
      <4>1. ~(i <= a) /\ ~(i <= a + 1) /\ i - (a + 1) \in 1..b - 1 /\ i - (a + 1) + 1 = i - a
        BY <2>3, <3>3
      <4>2. Line[i] = coming[i - a]
        BY <2>1, <4>1
      <4>3. Line'[i] = coming'[i - (a + 1)]
        BY <2>2, <2>3, <4>1
      <4> QED
        BY <1>3, <4>1, <4>2, <4>3
    <3> QED
      BY <2>3, <3>1, <3>2, <3>3
  <2>5. Len(Line') = Len(Line) /\ \A i \in 1..Len(Line') : Line'[i] = Line[i]
    BY <2>1, <2>2, <2>3, <2>4
  <2> QED
    BY <2>1, <2>2, <2>5, SeqEqual
<1>6. strange' \in BOOLEAN
  BY <1>1, Zenon DEF CatInd, CatTypes
<1>7. CatTypes'
  BY <1>1, <1>2, <1>3, <1>4, <1>6 DEF CatTypes
<1>8. LineOK'
  BY <1>1, <1>2, <1>5 DEF CatInd, LineOK
<1>9. ~strange' => ~strange /\ h.n = N
  BY <1>1 DEF h
<1>10. Answered'
  BY <1>1, <1>2, <1>5, <1>9 DEF CatInd, Answered
<1>11. NoStranger'
  <2> SUFFICES ASSUME Clean', ~strange', NEW i \in 1..Len(inbox') PROVE inbox'[i].n = N
    BY <1>2 DEF NoStranger
  <2>1. Clean
    BY <1>1 DEF Clean
  <2>2. \A j \in 1..a : inbox[j].n = N
    BY <1>9, <2>1 DEF CatInd, NoStranger, a
  <2>3. i \in 1..a \/ i = a + 1
    BY <1>2, <1>4 DEF a
  <2> QED
    BY <1>4, <1>9, <2>2, <2>3
<1>12. (cat = NoCat \/ InCall)'
  BY <1>1, <1>2 DEF CatInd, InCall
<1>13. Named' = Named /\ \A v \in Vfos : Behind(v)' = Behind(v)
  BY <1>1 DEF Named, Behind
<1>14. \A v \in Vfos : /\ Matches(v)' = Matches(v)
                      /\ \A w : DialAt(v, w)' = DialAt(v, w) /\ ModeAt(v, w)' = ModeAt(v, w)
  BY <1>1, <1>13 DEF Matches, DialAt, ModeAt
<1>15. Memory'
  BY <1>1, <1>13, <1>14 DEF CatInd, Memory, Setting
<1>16. Names' /\ OwnStatus'
  BY <1>1 DEF CatInd, Names, OwnStatus
<1> QED
  BY <1>7, <1>8, <1>10, <1>11, <1>12, <1>15, <1>16 DEF CatInd

\* The operator: what the panel changes is known to be wrong in the memory.
LEMMA PanelKeeps == CatInd /\ AtThePanel => CatInd'
<1> SUFFICES ASSUME CatInd, AtThePanel PROVE CatInd'
  OBVIOUS
<1>1. /\ Mishap /\ cat = NoCat /\ UNCHANGED <<backend, cache, cat, coming, inbox, result, strange>>
      /\ \/ \E d \in Tunings : radio' = [radio EXCEPT !.dial[radio.side] = d] /\ wrong' = wrong \cup Here
         \/ radio' = [radio EXCEPT !.side = Opposite(radio.side)] /\ wrong' = Vfos
         \/ radio' = [radio EXCEPT !.on = ~radio.on] /\ wrong' = wrong
  BY DEF AtThePanel
<1>2. /\ CatTypes /\ Names /\ Memory /\ LineOK /\ OwnStatus /\ ~Setting /\ ~Clean /\ cat.at = "idle"
      /\ radio \in Radios /\ backend \in {"ft817", "ft450d"} /\ wrong \subseteq Vfos
  BY <1>1, CatIdle DEF CatInd, CatTypes
<1>3. /\ Named \in Vfos /\ Here = {Named} /\ (backend = "ft450d" => Named = "A")
      /\ \A v \in Vfos : Behind(v) \in Vfos
  BY <1>2, NamedIs
<1>4. \A v \in Vfos \ wrong : Matches(v)
  BY <1>2 DEF Memory
<1>5. radio' \in Radios /\ wrong' \subseteq Vfos /\ \A v \in Vfos \ wrong' : Matches(v)'
  <2>1. ASSUME NEW d \in Tunings, radio' = [radio EXCEPT !.dial[radio.side] = d], wrong' = wrong \cup Here
        PROVE  radio' \in Radios /\ wrong' \subseteq Vfos /\ \A v \in Vfos \ wrong' : Matches(v)'
    <3>1. /\ radio' \in Radios /\ radio'.side = radio.side /\ radio'.mode = radio.mode
          /\ radio.side \in Vfos
          /\ \A v \in Vfos : v # radio.side => radio'.dial[v] = radio.dial[v]
      BY <1>2, <2>1 DEF Radios
    <3>2. \A v \in Vfos : Behind(v)' = Behind(v)
      BY <1>1, <3>1 DEF Behind, Named
    <3>3. ASSUME NEW v \in Vfos \ wrong' PROVE Matches(v)'
      <4>1. v # Named /\ Matches(v)
        BY <1>3, <1>4, <2>1
      <4>2. CASE backend = "ft817"
        <5>1. Behind(v) # radio.side /\ Behind(v) \in Vfos
          BY <1>3, <3>1, <4>1, <4>2, Others DEF Behind
        <5> QED
          BY <1>1, <3>1, <3>2, <4>1, <5>1 DEF Matches, DialAt, ModeAt
      <4>3. CASE backend = "ft450d"
        <5>1. v = "B" /\ cache.dial[v] = Unread
          BY <1>2, <1>3, <4>1, <4>3 DEF Names, Vfos
        <5> QED
          BY <1>1, <4>3, <5>1 DEF Matches, DialAt, ModeAt
      <4> QED
        BY <1>2, <4>2, <4>3
    <3> QED
      BY <1>2, <1>3, <2>1, <3>1, <3>3
  <2>2. ASSUME radio' = [radio EXCEPT !.side = Opposite(radio.side)], wrong' = Vfos
        PROVE  radio' \in Radios /\ wrong' \subseteq Vfos /\ \A v \in Vfos \ wrong' : Matches(v)'
    BY <1>2, <2>2, Others DEF Radios
  <2>3. ASSUME radio' = [radio EXCEPT !.on = ~radio.on], wrong' = wrong
        PROVE  radio' \in Radios /\ wrong' \subseteq Vfos /\ \A v \in Vfos \ wrong' : Matches(v)'
    <3>1. /\ radio' \in Radios /\ radio'.side = radio.side /\ radio'.mode = radio.mode
          /\ radio'.dial = radio.dial
      BY <1>2, <2>3 DEF Radios
    <3>2. \A v \in Vfos : Behind(v)' = Behind(v)
      BY <1>1, <3>1 DEF Behind, Named
    <3> QED
      BY <1>1, <1>2, <1>4, <2>3, <3>1, <3>2 DEF Matches, DialAt, ModeAt
  <2> QED
    BY <1>1, <2>1, <2>2, <2>3
<1>6. mishaps' \in 0..MaxMishaps
  BY <1>1, <1>2, CatBounds DEF Mishap, CatTypes
<1>7. CatTypes'
  BY <1>1, <1>2, <1>5, <1>6 DEF CatTypes
<1>8. Line' = Line /\ N' = N
  BY <1>1 DEF Line, N
<1>9. LineOK'
  BY <1>1, <1>2, <1>8 DEF LineOK
<1>10. ~Setting' /\ ~Clean' /\ cat'.at = "idle" /\ cat' = NoCat
  BY <1>1, <1>2 DEF Setting, Clean
<1>11. Memory' /\ NoStranger' /\ Answered'
  BY <1>5, <1>10 DEF Memory, NoStranger, Answered
<1>12. Names' /\ OwnStatus'
  BY <1>1, <1>2 DEF Names, OwnStatus
<1> QED
  BY <1>7, <1>9, <1>10, <1>11, <1>12 DEF CatInd

LEMMA CatRests == CatInd /\ UNCHANGED catVars => CatInd'
<1> SUFFICES ASSUME CatInd, UNCHANGED catVars PROVE CatInd'
  OBVIOUS
<1>1. UNCHANGED <<backend, radio, cache, cat, coming, inbox, result, mishaps, strange, wrong>>
  BY DEF catVars
<1>2. Line' = Line /\ N' = N /\ Named' = Named
  BY <1>1 DEF Line, N, Named
<1>3. CatTypes' /\ (cat = NoCat \/ InCall)' /\ Names' /\ OwnStatus'
  BY <1>1, <1>2 DEF CatInd, CatTypes, InCall, Names, OwnStatus
<1>4. LineOK' /\ Answered' /\ NoStranger'
  BY <1>1, <1>2 DEF CatInd, LineOK, Answered, NoStranger, Clean
<1>5. \A v \in Vfos : Behind(v)' = Behind(v)
  BY <1>1, <1>2 DEF Behind
<1>6. \A v \in Vfos : /\ Matches(v)' = Matches(v)
                     /\ \A w : DialAt(v, w)' = DialAt(v, w) /\ ModeAt(v, w)' = ModeAt(v, w)
  BY <1>1, <1>5 DEF Matches, DialAt, ModeAt
<1>7. Memory'
  BY <1>1, <1>2, <1>5, <1>6 DEF CatInd, Memory, Setting
<1> QED
  BY <1>3, <1>4, <1>7 DEF CatInd

LEMMA CatKeeps == CatInd /\ [CatNext]_catVars => CatInd'
<1> SUFFICES ASSUME CatInd, [CatNext]_catVars PROVE CatInd'
  OBVIOUS
<1>1. ASSUME NEW op \in PlainCalls \ {"dial"}, Calls(op, Unread) PROVE CatInd'
  <2>1. op \in CatOps /\ op \notin {"dial", "mode", "ptt"}
    BY DEF PlainCalls, CatOps
  <2> QED
    BY <1>1, <2>1, CallsKeeps
<1>2. ASSUME NEW d \in Tunings, Calls("dial", d) PROVE CatInd'
  <2>1. "dial" \in CatOps
    BY DEF CatOps
  <2> QED
    BY <1>2, <2>1, CallsKeeps
<1>3. ASSUME NEW d \in Modulations, Calls("mode", d) PROVE CatInd'
  <2>1. "mode" \in CatOps
    BY DEF CatOps
  <2> QED
    BY <1>3, <2>1, CallsKeeps
<1>4. ASSUME NEW p \in BOOLEAN, Calls("ptt", p) PROVE CatInd'
  <2>1. "ptt" \in CatOps
    BY DEF CatOps
  <2> QED
    BY <1>4, <2>1, CallsKeeps
<1> QED
  BY <1>1, <1>2, <1>3, <1>4, ArrivalKeeps, StatusKeeps, ByteKeeps, DialReadKeeps, ModeReadKeeps, UnlockKeeps,
     SentKeeps, WrittenKeeps, TimesOutKeeps, DroppedKeeps, PanelKeeps, CatRests DEF CatNext

\* A status, and a meter reading of the FT-450D, is made of the answer to its own question
\* unless an older answer came after the buffer was cleared; between two calls what is
\* remembered of either VFO is what the radio has, but for the VFOs that a mishap has parted
\* from it and that have not been read since: for any tunings and modes, any number of
\* calls and any number of frames missed, calls dropped and turns at the panel.
THEOREM CatHolds == CatSpec => []CatInv
<1>1. CatInit => CatInd
  BY CatStarts
<1>2. CatInd /\ [CatNext]_catVars => CatInd'
  BY CatKeeps
<1>3. CatInd => CatInv
  BY CatImplies
<1> QED
  BY <1>1, <1>2, <1>3, PTL DEF CatSpec

=============================================================================
