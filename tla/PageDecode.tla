----------------------------- MODULE PageDecode ------------------------------
(* How a page of the web application fills its lists of decodes (app.js):   *)
(* with every connection to the stream of decodes it fetches the history,   *)
(* in a worker or else by itself, restores it group by group, and keeps     *)
(* what the stream brings until then. Every connection has variables of its *)
(* own, which outlive it.                                                   *)
(*                                                                          *)
(* A history has one group of each kind; an entry of a list only tells the  *)
(* connection it came with, and whether from its history or live.           *)
EXTENDS Integers, Sequences, SequencesExt

CONSTANTS PageKinds,        \* the kinds of decodes, in their order
          Cleared,      \* those whose list a connection empties first
          Late,         \* those whose list may be loaded after the page
          MaxConnections, MaxLive, MaxTroubles   \* bounds

ASSUME PageDecodeAssumption ==
    /\ Cleared \cup Late \subseteq ToSet(PageKinds)
    /\ {MaxConnections, MaxLive, MaxTroubles} \subseteq Nat

VARIABLES
    conns,      \* per connection: its variables and timers, and how many live messages it heard
    eventSource,   \* the last connection whose stream is not closed, or 0
    decodeHistoryWorker,    \* the connection whose worker runs, or 0
    decodeHistoryReplayActive,
    overlay,    \* whether the page is covered until the history is there
    retries,    \* timers that connect again
    lists,      \* what the lists show, as one sequence
    _pendingDecodeHistory, _pendingDecodeLive,  \* what waits for a list to be loaded
    lateLoaded, \* whether the late lists are
    live,       \* bounded counter of live messages
    troubles    \* bounded counter

pageDecodeVars == <<conns, eventSource, decodeHistoryWorker, decodeHistoryReplayActive, overlay,
                    retries, lists, _pendingDecodeHistory, _pendingDecodeLive, lateLoaded, live,
                    troubles>>
screen == <<decodeHistoryReplayActive, overlay>>
shownDecodes == <<lists, _pendingDecodeHistory, _pendingDecodeLive>>

PageDecodeInit ==
    /\ conns = <<>> /\ eventSource = 0 /\ decodeHistoryWorker = 0
    /\ decodeHistoryReplayActive = FALSE /\ overlay = FALSE /\ retries = 0
    /\ lists = <<>> /\ _pendingDecodeHistory = <<>> /\ _pendingDecodeLive = <<>>
    /\ lateLoaded \in BOOLEAN /\ live = 0 /\ troubles = 0

DecodeEntry(kind, conn, how) == [kind |-> kind, conn |-> conn, how |-> how]
DecodeEntries == [kind : ToSet(PageKinds), conn : 1..MaxConnections, how : {"history", "live"}]

PageDecodeTypeOK ==
    /\ \A c \in DOMAIN conns :
        /\ {conns[c].settled, conns[c].done, conns[c].timer, conns[c].pumps, conns[c].cut} \subseteq BOOLEAN
        /\ conns[c].fallback \in {"no", "asked", "over"} /\ conns[c].at \in {"trying", "open", "closed"}
        /\ Len(conns[c].queue) <= Len(PageKinds) /\ Len(conns[c].buffer) <= MaxLive
    /\ {eventSource, decodeHistoryWorker} \subseteq 0..Len(conns)
    /\ ToSet(lists) \cup ToSet(_pendingDecodeHistory) \cup ToSet(_pendingDecodeLive) \subseteq DecodeEntries

Trouble == troubles < MaxTroubles /\ troubles' = troubles + 1

-----------------------------------------------------------------------------
(* The lists.                                                               *)

TooEarly(e) == e.kind \in Late /\ ~lateLoaded
Shows(e) == ~TooEarly(e)

\* dispatchDecodeMessage: into the list, or into its buffer.
Dispatch(entries) ==
    /\ lists' = lists \o SelectSeq(entries, Shows)
    /\ _pendingDecodeLive' = _pendingDecodeLive \o SelectSeq(entries, TooEarly)
    /\ UNCHANGED _pendingDecodeHistory

\* _trxDrainPendingDecode: the history, then what came live.
ListLoads ==
    /\ ~lateLoaded /\ lateLoaded' = TRUE
    /\ lists' = lists \o _pendingDecodeHistory \o _pendingDecodeLive
    /\ _pendingDecodeHistory' = <<>> /\ _pendingDecodeLive' = <<>>
    /\ UNCHANGED <<conns, eventSource, decodeHistoryWorker, screen, retries, live, troubles>>

-----------------------------------------------------------------------------
(* Connections.                                                             *)

\* flushLiveBuffer with the variables of c as in v: any worker ends, the page is uncovered.
Flush(c, v) ==
    /\ conns' = [conns EXCEPT ![c] = [v EXCEPT !.settled = TRUE, !.buffer = <<>>]]
    /\ decodeHistoryWorker' = 0 /\ decodeHistoryReplayActive' = FALSE /\ overlay' = FALSE
    /\ Dispatch(v.buffer)


\* terminateDecodeHistoryWorker and maybeFinishHistoryReplay.
MaybeFinish(c, v) ==
    IF ~v.settled /\ v.done /\ v.queue = <<>> THEN Flush(c, [v EXCEPT !.timer = FALSE])
    ELSE conns' = [conns EXCEPT ![c] = v] /\ decodeHistoryWorker' = 0 /\ UNCHANGED <<screen, shownDecodes>>

\* connectDecode, for a login or for a retry. What covers the page is not taken away by
\* what the last connection left. Without workers the history is fetched by the page.
ConnectDecode(byRetry, workers) ==
    LET c == Len(conns) + 1 IN
    /\ c <= MaxConnections
    /\ retries' = IF byRetry THEN retries - 1 ELSE retries
    /\ conns' = Append([k \in DOMAIN conns |-> IF k = eventSource THEN [conns[k] EXCEPT !.at = "closed"]
                                               ELSE conns[k]],
                       [settled |-> FALSE, done |-> FALSE, fallback |-> IF workers THEN "no" ELSE "asked",
                        queue |-> <<>>, buffer |-> <<>>, timer |-> TRUE, pumps |-> FALSE,
                        at |-> "trying", cut |-> FALSE, groups |-> 0, heard |-> 0])
    /\ eventSource' = c /\ decodeHistoryWorker' = IF workers THEN c ELSE 0
    /\ decodeHistoryReplayActive' = FALSE /\ overlay' = TRUE
    /\ lists' = SelectSeq(lists, LAMBDA e : e.kind \notin Cleared)
    /\ _pendingDecodeHistory' = <<>> /\ _pendingDecodeLive' = <<>>
    /\ UNCHANGED <<lateLoaded, live, troubles>>

\* disconnect, at a logout.
Disconnect ==
    /\ eventSource # 0 /\ eventSource' = 0 /\ overlay' = FALSE
    /\ conns' = [conns EXCEPT ![eventSource].at = "closed"]
    /\ UNCHANGED <<decodeHistoryWorker, decodeHistoryReplayActive, retries, shownDecodes, lateLoaded,
                   live, troubles>>

-----------------------------------------------------------------------------
(* The history. Messages of a worker count as long as it is the last one.   *)

Works(c) == decodeHistoryWorker = c /\ ~conns[c].settled

\* The first group of a worker comes with the announcement of how many messages there are.
WorkerGroup(c) ==
    /\ Works(c) /\ conns[c].groups < Len(PageKinds)
    /\ conns' = [conns EXCEPT ![c].groups = @ + 1, ![c].pumps = TRUE,
                              ![c].queue = Append(@, PageKinds[conns[c].groups + 1])]
    /\ IF conns[c].groups = 0 THEN decodeHistoryReplayActive' = TRUE /\ overlay' = TRUE
       ELSE UNCHANGED screen
    /\ UNCHANGED <<eventSource, decodeHistoryWorker, retries, shownDecodes, lateLoaded, live, troubles>>

WorkerDone(c) ==
    /\ Works(c) /\ conns[c].groups = Len(PageKinds)
    /\ MaybeFinish(c, [conns[c] EXCEPT !.done = TRUE, !.timer = FALSE])
    /\ UNCHANGED <<eventSource, retries, lateLoaded, live, troubles>>

\* The worker cannot fetch or decode the history: the page does it.
WorkerFails(c) ==
    /\ Works(c) /\ conns[c].groups = 0 /\ Trouble
    /\ decodeHistoryWorker' = 0 /\ conns' = [conns EXCEPT ![c].fallback = "asked"]
    /\ UNCHANGED <<eventSource, screen, retries, shownDecodes, lateLoaded, live>>

\* The history comes in one piece, whatever has become of the connection.
FallbackAnswers(c) ==
    /\ conns[c].fallback = "asked"
    /\ conns' = [conns EXCEPT ![c].fallback = "over", ![c].timer = FALSE, ![c].done = TRUE,
                              ![c].queue = @ \o PageKinds, ![c].pumps = TRUE]
    /\ decodeHistoryReplayActive' = TRUE /\ overlay' = TRUE
    /\ UNCHANGED <<eventSource, decodeHistoryWorker, retries, shownDecodes, lateLoaded, live, troubles>>

FallbackFails(c) ==
    /\ conns[c].fallback = "asked" /\ Trouble
    /\ Flush(c, [conns[c] EXCEPT !.fallback = "over", !.timer = FALSE, !.cut = TRUE])
    /\ UNCHANGED <<eventSource, retries, lateLoaded, live>>

\* pumpDecodeHistoryGroupQueue: some groups, for as long as a frame allows. With the last of
\* them the replay may be over.
Pump(c, n) ==
    LET v == [conns[c] EXCEPT !.queue = SubSeq(@, n + 1, Len(@)), !.pumps = n < Len(conns[c].queue)]
        restored == [i \in 1..n |-> DecodeEntry(conns[c].queue[i], c, "history")]
        over == ~v.settled /\ v.done /\ v.queue = <<>>
        then == IF over THEN v.buffer ELSE <<>> IN
    /\ conns[c].pumps /\ n \in 1..Len(conns[c].queue)
    /\ conns' = [conns EXCEPT ![c] = IF over THEN [v EXCEPT !.settled = TRUE, !.timer = FALSE, !.buffer = <<>>]
                                     ELSE v]
    /\ lists' = lists \o SelectSeq(restored \o then, Shows)
    /\ _pendingDecodeHistory' = _pendingDecodeHistory \o SelectSeq(restored, TooEarly)
    /\ _pendingDecodeLive' = _pendingDecodeLive \o SelectSeq(then, TooEarly)
    /\ overlay' = ~over
    /\ decodeHistoryReplayActive' = (decodeHistoryReplayActive /\ ~over)
    /\ decodeHistoryWorker' = IF over THEN 0 ELSE decodeHistoryWorker
    /\ UNCHANGED <<eventSource, retries, lateLoaded, live, troubles>>

\* The history has not come within twenty seconds.
Timeout(c) ==
    /\ conns[c].timer
    /\ IF conns[c].settled
       THEN conns' = [conns EXCEPT ![c].timer = FALSE]
            /\ UNCHANGED <<decodeHistoryWorker, screen, shownDecodes>>
       ELSE Flush(c, [conns[c] EXCEPT !.timer = FALSE, !.cut = TRUE])
    /\ UNCHANGED <<eventSource, retries, lateLoaded, live, troubles>>

-----------------------------------------------------------------------------
(* The stream.                                                              *)

SourceOpens(c) ==
    /\ conns[c].at = "trying" /\ conns' = [conns EXCEPT ![c].at = "open"]
    /\ UNCHANGED <<eventSource, decodeHistoryWorker, screen, retries, shownDecodes, lateLoaded, live,
                   troubles>>

LiveDecoded(c, kind) ==
    LET e == DecodeEntry(kind, c, "live") IN
    /\ conns[c].at = "open" /\ live < MaxLive /\ live' = live + 1
    /\ conns' = [conns EXCEPT ![c].heard = @ + 1,
                              ![c].buffer = IF conns[c].settled THEN @ ELSE Append(@, e)]
    /\ IF conns[c].settled THEN Dispatch(<<e>>) ELSE UNCHANGED shownDecodes
    /\ UNCHANGED <<eventSource, decodeHistoryWorker, screen, retries, lateLoaded, troubles>>

\* The stream fails: what is there is shown, and a timer connects again.
SourceFails(c) ==
    /\ conns[c].at # "closed" /\ Trouble /\ retries' = retries + 1
    /\ LET v == [conns[c] EXCEPT !.at = "closed", !.cut = @ \/ ~conns[c].settled] IN
       IF conns[c].settled
       THEN conns' = [conns EXCEPT ![c] = v] /\ decodeHistoryWorker' = 0 /\ UNCHANGED <<screen, shownDecodes>>
       ELSE Flush(c, v)
    /\ UNCHANGED <<eventSource, lateLoaded, live>>

PageDecodeNext ==
    \/ ListLoads \/ Disconnect
    \/ \E workers \in BOOLEAN : \/ ConnectDecode(FALSE, workers)
                                \/ retries > 0 /\ ConnectDecode(TRUE, workers)
    \/ \E c \in DOMAIN conns :
        \/ WorkerGroup(c) \/ WorkerDone(c) \/ WorkerFails(c) \/ FallbackAnswers(c) \/ FallbackFails(c)
        \/ Timeout(c) \/ SourceOpens(c) \/ SourceFails(c)
        \/ \E n \in 1..Len(PageKinds) : Pump(c, n)
        \/ \E k \in ToSet(PageKinds) : LiveDecoded(c, k)

PageDecodeSpec == PageDecodeInit /\ [][PageDecodeNext]_pageDecodeVars
-----------------------------------------------------------------------------
Of(c, how) == {i \in DOMAIN lists : lists[i].conn = c /\ lists[i].how = how}

\* "Buffer live messages until history fetch settles so history always appears before any
\* live updates" (app.js): so it does, unless the fetch was cut by the timeout, by an error
\* or by another connection.
HistoryFirst ==
    \A c \in DOMAIN conns : ~conns[c].cut =>
        \A h \in Of(c, "history"), l \in Of(c, "live") :
            lists[h].kind = lists[l].kind => h < l

\* No connection keeps its messages back for ever: as long as it has not settled, either its
\* timeout is set or its groups are being restored.
NobodyWaits ==
    \A c \in DOMAIN conns : ~conns[c].settled =>
        conns[c].timer \/ (conns[c].done /\ conns[c].queue # <<>> /\ conns[c].pumps)

\* The page is not left covered: when nothing of any connection is under way any more, it is
\* shown, unless a history was cut.
CurtainFalls ==
    (\A c \in DOMAIN conns : conns[c].settled /\ ~conns[c].pumps /\ conns[c].fallback # "asked"
                             /\ ~conns[c].cut) =>
        ~overlay /\ ~decodeHistoryReplayActive

\* What the last connection has brought, shown or waiting.
Brought(how) ==
    LET c == Len(conns) IN
    SelectSeq(lists \o _pendingDecodeHistory \o _pendingDecodeLive \o conns[c].buffer,
              LAMBDA e : e.conn = c /\ e.how = how)

\* Whatever worker, fall-back, timers, errors and lists that load late do, no group of the
\* history is restored twice, none is missing once a replay that was not cut has ended, and
\* every live message is kept, once. (A message that is in the history and comes live too
\* is two messages here.)
NothingLostNorDoubled ==
    conns # <<>> =>
        LET last == conns[Len(conns)]
            history == Brought("history") IN
        /\ \A i, j \in DOMAIN history : history[i].kind = history[j].kind => i = j
        /\ last.settled /\ ~last.cut => Len(history) = Len(PageKinds)
        /\ Len(Brought("live")) = last.heard

=============================================================================
