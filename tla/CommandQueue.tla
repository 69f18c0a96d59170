---------------------------- MODULE CommandQueue ----------------------------
(***************************************************************************)
(* The path of a command through trx-server: the connection handlers of    *)
(* listener.rs send requests into the bounded channel of a rig, and the    *)
(* rig task (rig_task.rs) takes them out in batches, runs each one and     *)
(* answers over the oneshot channel the request carries.  A handler that   *)
(* gives up leaves its request behind: the rig task runs it all the same.  *)
(***************************************************************************)
EXTENDS Naturals, Sequences, FiniteSets, SequencesExt

CONSTANTS Conns,        \* connections of the listener
          MaxRequests,  \* bound: requests one connection sends
          MaxArrivals,  \* bound: requests of all connections, answered and under way
          Capacity,     \* rig_task_channel_buffer, the size of the channel
          Outcomes      \* how a run may end: "ok", or "err" for an error or a timeout

ASSUME QueueAssumption ==
    /\ MaxRequests \in Nat \ {0} /\ Capacity \in Nat \ {0} /\ MaxArrivals \in Nat
    /\ Outcomes \subseteq {"ok", "err"}

\* A GetSpectrum shares its run with the other ones of its batch; every other
\* command runs alone.
Kinds   == {"command", "spectrum"}
Request == [conn : Conns, n : 1..MaxRequests, kind : Kinds]
NoRequest == [conn |-> "none", n |-> 0, kind |-> "none"]

VARIABLES handler,   \* the handler of a connection: idle, sending, waiting or closed
          current,   \* the request the handler is sending or waits for
          reply,     \* the oneshot channel of the current request
          queue,     \* the channel of the rig
          batch,     \* requests taken out and not started
          running,   \* requests answered by the run in progress
          idx,       \* where the search for GetSpectrum requests stands, or 0
          task,      \* the rig task: select, drain, process, sweep, running or stopped
          shutdown,  \* the shutdown signal
          accepted,  \* history: requests in the order the channel took them
          ran,       \* history: requests in the order they ran, with the result
          told       \* history: what every handler wrote back for a request

connVars == <<handler, current, reply>>
taskVars == <<queue, batch, running, idx, task>>
history  == <<accepted, ran, told>>
vars     == <<connVars, taskVars, shutdown, history>>

Init ==
    /\ handler = [c \in Conns |-> "idle"]
    /\ current = [c \in Conns |-> NoRequest]
    /\ reply = [c \in Conns |-> "empty"]
    /\ queue = <<>> /\ batch = <<>> /\ running = {} /\ idx = 0 /\ task = "select"
    /\ shutdown = FALSE
    /\ accepted = <<>> /\ ran = <<>> /\ told = {}

-----------------------------------------------------------------------------
(* The handler of a connection.                                            *)

Count(c) == Cardinality({t \in told : t[1].conn = c})

Arrivals == Cardinality(told) + Cardinality({c \in Conns : handler[c] \in {"sending", "waiting"}})

\* A line with a command for the rig task arrives on an idle connection.
Receive(c, k) ==
    /\ handler[c] = "idle" /\ Count(c) < MaxRequests /\ Arrivals < MaxArrivals
    /\ handler' = [handler EXCEPT ![c] = "sending"]
    /\ current' = [current EXCEPT ![c] = [conn |-> c, n |-> Count(c) + 1, kind |-> k]]
    /\ reply' = [reply EXCEPT ![c] = "empty"]
    /\ UNCHANGED <<taskVars, shutdown, history>>

\* rig_tx.send(req) completes: there is room and the receiver is there.
Enqueue(c) ==
    /\ handler[c] = "sending" /\ task # "stopped" /\ Len(queue) < Capacity
    /\ queue' = Append(queue, current[c])
    /\ accepted' = Append(accepted, current[c])
    /\ handler' = [handler EXCEPT ![c] = "waiting"]
    /\ UNCHANGED <<current, reply, batch, running, idx, task, shutdown, ran, told>>

\* The handler writes a response line and goes back to reading.
Respond(c, answer) ==
    /\ told' = told \cup {<<current[c], answer>>}
    /\ handler' = [handler EXCEPT ![c] = "idle"]
    /\ current' = [current EXCEPT ![c] = NoRequest]
    /\ reply' = [reply EXCEPT ![c] = "empty"]
    /\ UNCHANGED <<taskVars, shutdown, accepted, ran>>

\* io_timeout expires on a full channel: the send future is dropped.
SendTimeout(c) ==
    handler[c] = "sending" /\ Len(queue) = Capacity /\ Respond(c, "refused")

\* The receiver is gone: rig_tx.send returns an error.
SendFails(c) == handler[c] = "sending" /\ task = "stopped" /\ Respond(c, "refused")

\* The answer of the rig task arrives in time.
Answer(c) ==
    /\ handler[c] = "waiting" /\ reply[c] \in {"ok", "err"}
    /\ Respond(c, reply[c])

\* request_timeout expires: the handler drops its end of the oneshot channel.
RequestTimeout(c) == handler[c] = "waiting" /\ Respond(c, "timeout")

\* The rig task dropped the request with its end of the oneshot channel.
SenderDropped(c) ==
    handler[c] = "waiting" /\ reply[c] = "dropped" /\ Respond(c, "dropped")

\* The connection ends: the client went away or was silent for io_timeout, or the
\* shutdown is noticed while the handler reads or waits.  There is no response.
Close(c) ==
    /\ handler[c] = "idle" \/ (shutdown /\ handler[c] = "waiting")
    /\ handler' = [handler EXCEPT ![c] = "closed"]
    /\ current' = [current EXCEPT ![c] = NoRequest]
    /\ reply' = [reply EXCEPT ![c] = "empty"]
    /\ UNCHANGED <<taskVars, shutdown, history>>

-----------------------------------------------------------------------------
(* The rig task.                                                           *)

\* rx.recv() wins the select: the first request of a batch.
TakeFirst ==
    /\ task = "select" /\ queue # <<>>
    /\ batch' = <<Head(queue)>> /\ queue' = Tail(queue)
    /\ task' = "drain"
    /\ UNCHANGED <<connVars, running, idx, shutdown, history>>

\* rx.try_recv() finds another request.
TakeMore ==
    /\ task = "drain" /\ queue # <<>>
    /\ batch' = Append(batch, Head(queue)) /\ queue' = Tail(queue)
    /\ UNCHANGED <<connVars, running, idx, task, shutdown, history>>

\* rx.try_recv() finds the channel empty.
TakeNoMore ==
    /\ task = "drain" /\ queue = <<>>
    /\ task' = "process"
    /\ UNCHANGED <<connVars, queue, batch, running, idx, shutdown, history>>

\* Mutant: the element is overwritten and the vector not shortened.
SwapRemove_Keeps(b, i) == [j \in 1 .. Len(b) |-> IF j = i THEN b[Len(b)] ELSE b[j]]

\* Vec::swap_remove: the last element takes the place of the removed one.
SwapRemove(b, i) == [j \in 1 .. (Len(b) - 1) |-> IF j = i THEN b[Len(b)] ELSE b[j]]

\* Mutant: the batch is a stack.
Start_Last ==
    /\ task = "process" /\ batch # <<>>
    /\ running' = {Last(batch)} /\ batch' = Front(batch)
    /\ IF Last(batch).kind = "spectrum" THEN task' = "sweep" /\ idx' = 1
                                        ELSE task' = "running" /\ UNCHANGED idx
    /\ UNCHANGED <<connVars, queue, shutdown, history>>

\* batch.remove(0): a command runs alone, a GetSpectrum looks for others first.
Start ==
    /\ task = "process" /\ batch # <<>>
    /\ running' = {Head(batch)} /\ batch' = Tail(batch)
    /\ IF Head(batch).kind = "spectrum" THEN task' = "sweep" /\ idx' = 1
                                        ELSE task' = "running" /\ UNCHANGED idx
    /\ UNCHANGED <<connVars, queue, shutdown, history>>

\* Mutant: only the first responder of a coalesced run is kept.
Collect_OneResponder ==
    /\ task = "sweep" /\ idx <= Len(batch)
    /\ IF batch[idx].kind = "spectrum"
       THEN batch' = SwapRemove(batch, idx) /\ UNCHANGED <<running, idx>>
       ELSE idx' = idx + 1 /\ UNCHANGED <<batch, running>>
    /\ UNCHANGED <<connVars, queue, task, shutdown, history>>

\* One turn of the loop that moves every GetSpectrum of the batch to the run that
\* starts: what takes the place of a removed request is looked at next.
Collect ==
    /\ task = "sweep" /\ idx <= Len(batch)
    /\ IF batch[idx].kind = "spectrum"
       THEN /\ running' = running \cup {batch[idx]}
            /\ batch' = SwapRemove(batch, idx)
            /\ UNCHANGED idx
       ELSE idx' = idx + 1 /\ UNCHANGED <<batch, running>>
    /\ UNCHANGED <<connVars, queue, task, shutdown, history>>

\* The loop has reached the end of the batch.
Collected ==
    /\ task = "sweep" /\ idx > Len(batch)
    /\ task' = "running" /\ idx' = 0
    /\ UNCHANGED <<connVars, queue, batch, running, shutdown, history>>

\* Mutant: whoever waits gets the result.
Finish_Everyone(result) ==
    /\ task = "running"
    /\ reply' = [c \in Conns |-> IF handler[c] = "waiting" THEN result ELSE reply[c]]
    /\ ran' = Append(ran, [reqs |-> running, result |-> result])
    /\ running' = {} /\ task' = "process"
    /\ UNCHANGED <<handler, current, queue, batch, idx, shutdown, accepted, told>>

\* process_command returns, or command_exec_timeout expires ("err"): every
\* responder gets a copy.  A handler that has given up no longer listens.
Finish(result) ==
    /\ task = "running"
    /\ reply' = [c \in Conns |->
                   IF handler[c] = "waiting" /\ current[c] \in running
                   THEN result ELSE reply[c]]
    /\ ran' = Append(ran, [reqs |-> running, result |-> result])
    /\ running' = {} /\ task' = "process"
    /\ UNCHANGED <<handler, current, queue, batch, idx, shutdown, accepted, told>>

BatchDone ==
    /\ task = "process" /\ batch = <<>>
    /\ task' = "select"
    /\ UNCHANGED <<connVars, queue, batch, running, idx, shutdown, history>>

\* Mutant: the receiver outlives the loop, with the requests it holds.
Stop_KeepsReceiver ==
    /\ task = "select" /\ shutdown
    /\ task' = "stopped"
    /\ UNCHANGED <<connVars, queue, batch, running, idx, shutdown, history>>

\* The shutdown signal is seen only in the select, between two batches.  The
\* receiver is dropped with the requests it holds.
Stop ==
    /\ task = "select" /\ shutdown
    /\ task' = "stopped" /\ queue' = <<>>
    /\ reply' = [c \in Conns |->
                   IF \E i \in DOMAIN queue : queue[i] = current[c]
                   THEN "dropped" ELSE reply[c]]
    /\ UNCHANGED <<handler, current, batch, running, idx, shutdown, history>>

Shutdown ==
    /\ ~shutdown /\ shutdown' = TRUE
    /\ UNCHANGED <<connVars, taskVars, history>>

-----------------------------------------------------------------------------
TaskStep == \/ TakeFirst \/ TakeMore \/ TakeNoMore \/ Start \/ Collect \/ Collected
            \/ (\E x \in Outcomes : Finish(x)) \/ BatchDone \/ Stop

\* What a handler does without any timeout of its own.
HandlerStep(c) == \/ Enqueue(c) \/ SendFails(c) \/ Answer(c) \/ SenderDropped(c)

Next ==
    \/ TaskStep \/ Shutdown
    \/ \E c \in Conns : \/ HandlerStep(c) \/ SendTimeout(c) \/ RequestTimeout(c)
                        \/ Close(c) \/ \E k \in Kinds : Receive(c, k)

\* The runtime keeps polling the rig task and the handlers.  No timeout of a
\* handler is assumed to fire.
Fairness ==
    /\ WF_vars(TaskStep)
    /\ \A c \in Conns : WF_vars(HandlerStep(c))

Spec == Init /\ [][Next]_vars /\ Fairness

-----------------------------------------------------------------------------
(* Properties.                                                             *)

TypeOK ==
    /\ handler \in [Conns -> {"idle", "sending", "waiting", "closed"}]
    /\ current \in [Conns -> Request \cup {NoRequest}]
    /\ reply \in [Conns -> {"empty", "ok", "err", "dropped"}]
    /\ queue \in Seq(Request) /\ Len(queue) <= Capacity
    /\ batch \in Seq(Request) /\ running \subseteq Request
    /\ task \in {"select", "drain", "process", "sweep", "running", "stopped"}
    /\ idx \in Nat /\ idx <= Len(batch) + 1
    /\ shutdown \in BOOLEAN
    /\ accepted \in Seq(Request)
    /\ ran \in Seq([reqs : SUBSET Request, result : {"ok", "err"}])
    /\ told \subseteq Request \X {"ok", "err", "refused", "timeout", "dropped"}

Times(seq, r) == Cardinality({i \in DOMAIN seq : seq[i] = r})
RunsOf(r) == {i \in DOMAIN ran : r \in ran[i].reqs}
InTask(r) == Times(queue, r) + Times(batch, r) + (IF r \in running THEN 1 ELSE 0)

\* Batching, sweeping and swap_remove neither lose nor duplicate a request: until
\* the task stops, what the channel took is in exactly one place, or has run
\* exactly once (rig_task.rs, the drain and the swap_remove loop).
NoneLostNoneTwice ==
    \A r \in ToSet(accepted) :
        LET n == InTask(r) + Cardinality(RunsOf(r))
        IN IF task = "stopped" THEN n \in 0..1 ELSE n = 1

\* A request whose connection was told that the queue is full or the task is
\* gone has not run and is not about to, however late the channel gets room.
RefusedNeverRuns ==
    \A r \in Request : <<r, "refused">> \in told => RunsOf(r) = {} /\ InTask(r) = 0

\* A connection is told ok or err only with the result of the run of its own
\* request, coalesced or not, also when an earlier request of the connection is
\* answered late.
ToldOwnResult ==
    \A t \in told : t[2] \in {"ok", "err"} =>
        \E i \in RunsOf(t[1]) : ran[i].result = t[2]

\* The requests the task still holds.
Held == ToSet(queue) \cup ToSet(batch) \cup running

IsCommand(r) == r.kind = "command"
RunBefore(r, i) == \E h \in 1..(i - 1) : r \in ran[h].reqs

\* Commands run in the order in which the channel accepted them: "Process each
\* request in FIFO order" (rig_task.rs), "processing sequentially in FIFO order"
\* (docs/Architecture.md). When one runs, all that were accepted before it have run.
CommandsInOrder ==
    \A i \in DOMAIN ran : \A r \in ran[i].reqs : IsCommand(r) =>
        \E k \in DOMAIN accepted :
            /\ accepted[k] = r
            /\ \A j \in 1..(k - 1) : IsCommand(accepted[j]) => RunBefore(accepted[j], i)

\* Commands do keep that order as long as no run has coalesced two GetSpectrum
\* requests: one GetSpectrum among commands moves none of them.
Uncoalesced == (\A i \in DOMAIN ran : Cardinality(ran[i].reqs) = 1) /\ Cardinality(running) <= 1
OrderedUnlessCoalesced == Uncoalesced => CommandsInOrder

\* A connection that waits, waits for a request that the task still holds or has
\* answered: nobody is left waiting for its own timeout.
NobodyForgotten ==
    \A c \in Conns : handler[c] = "waiting" /\ reply[c] = "empty" =>
        InTask(current[c]) = 1

\* Whatever channel, batch and run hold, a connection waits for it, or has given it
\* up: by the request timeout, or with the connection.  Without a timeout a
\* connection has at most one request in the task, which is what keeps the drain
\* (try_recv with no limit) from being fed for ever by the connections it serves.
HeldIsAwaited ==
    \A r \in Held :
        \/ handler[r.conn] = "waiting" /\ current[r.conn] = r
        \/ handler[r.conn] = "closed" \/ <<r, "timeout">> \in told

\* The accounts of channel, batch, runs and answers agree.
QueueInv ==
    /\ TypeOK /\ NoneLostNoneTwice /\ RefusedNeverRuns /\ ToldOwnResult
    /\ NobodyForgotten /\ HeldIsAwaited

\* Every request the channel accepts runs, or the task stops, also when requests
\* go on arriving while it waits: connections whose earlier request was answered,
\* or timed out and is still held, feed the drain and the channel behind it, as
\* long as the bounds on the arrivals allow.
AcceptedRuns ==
    \A c \in Conns, n \in 1..MaxRequests :
        LET Nth(r) == r.conn = c /\ r.n = n
        IN (\E i \in DOMAIN accepted : Nth(accepted[i]))
           ~> (task = "stopped" \/ \E i \in DOMAIN ran : \E r \in ran[i].reqs : Nth(r))

\* Every handler that sends or waits gets back to its connection, without the
\* help of a timeout, with the task running or stopped.
HandlerReturns ==
    \A c \in Conns : handler[c] \in {"sending", "waiting"} ~>
                        handler[c] \in {"idle", "closed"}

\* The requests that have run, and their results.
Ran     == UNION {ran[i].reqs : i \in DOMAIN ran}
Results == UNION {ran[i].reqs \X {ran[i].result} : i \in DOMAIN ran}

\* The queue and its batches implement the service of module RequestService.
Service == INSTANCE RequestService WITH
    asked   <- current,
    pending <- Held,
    results <- Results,
    told    <- told
ImplementsService == Service!Spec
-----------------------------------------------------------------------------
(* The inductive invariant behind the safety properties (CommandQueueProofs). *)

Busy(c) == handler[c] \in {"sending", "waiting"}

\* Channel, batch and run in progress hold different requests, each once.
Places ==
    /\ IsInjective(queue) /\ IsInjective(batch)
    /\ ToSet(queue) \cap ToSet(batch) = {}
    /\ running \cap (ToSet(queue) \cup ToSet(batch)) = {}

RunsApart ==
    \A i \in DOMAIN ran :
        /\ ran[i].reqs \cap Held = {}
        /\ \A j \in DOMAIN ran : ran[i].reqs \cap ran[j].reqs # {} => i = j

Accounted ==
    /\ Held \cup Ran \subseteq ToSet(accepted)
    /\ task # "stopped" => ToSet(accepted) \subseteq Held \cup Ran

\* What the place of the task says about what it holds.
Shapes ==
    /\ task \in {"select", "stopped"} => batch = <<>>
    /\ task = "stopped" => queue = <<>>
    /\ task \notin {"sweep", "running"} => running = {}
    /\ task \in {"sweep", "running"} => running # {}
    /\ IF task = "sweep" THEN idx >= 1 /\ \A r \in running : r.kind = "spectrum" ELSE idx = 0
    /\ task = "running" => \/ \E r \in running : running = {r}
                          \/ \A r \in running : r.kind = "spectrum"

\* The requests of a connection are numbered by the answers it got before.
Numbered ==
    /\ IsFiniteSet(told)
    /\ \A t \in told : t[1].n <= Count(t[1].conn)
    /\ \A c \in Conns :
          IF Busy(c) THEN current[c] \in Request /\ current[c].conn = c /\ current[c].n = Count(c) + 1
          ELSE current[c] = NoRequest

AcceptedBefore ==
    /\ \A r \in ToSet(accepted) :
          \/ r.n <= Count(r.conn) \/ handler[r.conn] = "closed"
          \/ handler[r.conn] = "waiting" /\ r = current[r.conn]
    /\ \A c \in Conns : handler[c] = "waiting" => current[c] \in ToSet(accepted)

\* What the oneshot channel says: nothing before the channel has taken the request.
Replies ==
    \A c \in Conns :
        /\ handler[c] # "waiting" => reply[c] = "empty"
        /\ handler[c] = "waiting" /\ reply[c] = "empty" => current[c] \in Held
        /\ reply[c] \in {"ok", "err"} =>
              \E i \in DOMAIN ran : current[c] \in ran[i].reqs /\ ran[i].result = reply[c]
        /\ reply[c] = "dropped" => task = "stopped" /\ current[c] \notin Held \cup Ran

RefusedNotAccepted == \A r \in Request : <<r, "refused">> \in told => r \notin ToSet(accepted)

IndInv ==
    /\ TypeOK /\ Places /\ RunsApart /\ Accounted /\ Shapes
    /\ Numbered /\ AcceptedBefore /\ Replies /\ RefusedNotAccepted /\ ToldOwnResult

=============================================================================
