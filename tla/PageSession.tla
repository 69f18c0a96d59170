----------------------------- MODULE PageSession -----------------------------
(* The session of a page of the web application (app.js): who is logged in, *)
(* the rig of the tab, and the event streams that follow both, with their   *)
(* timers for connecting again. Handlers interleave wherever the code       *)
(* awaits an answer.                                                        *)
(*                                                                          *)
(* What the streams bring is left out but for whose state is on display.    *)
(* The stream of decodes is one of all rigs.                                *)
EXTENDS Integers, FiniteSets

CONSTANTS Tabs,         \* rigs the tab can select
          Sdrs,         \* those with a spectrum
          Nothing,      \* no rig
          MaxEvents     \* bound: what the user, the server and the network do by themselves

ASSUME PageSessionAssumption == Sdrs \subseteq Tabs /\ Nothing \notin Tabs /\ MaxEvents \in Nat

VARIABLES
    guests,     \* whether the client lets guests listen
    session,    \* whether the client knows a session of the page
    authRole,   \* "none", "rx" or "control"
    gate,       \* what covers the page: "off", the "form", or the form with the "guest" button
    asks,       \* requests about the login whose answer is awaited: subset of {"logout", "check"}
    lastActiveRigId,
    selecting,  \* rigs whose /select_rig is awaited
    es,         \* the stream of states: [at, rig]; at: "none", "trying", "open", "closed"
    esHeartbeat,    \* whether the interval that watches the stream is set
    reconnectTimer,
    spectrumSource, meterSource,    \* [at, rig, retry]
    decodeSource,   \* "none", "trying", "open", "closed"
    decodeRetries,  \* timers that call connectDecode
    fetches,    \* rigs whose status has been asked for
    rendered,   \* the rig whose state was rendered last
    told,       \* history: the stream has brought the state of its rig
    overtaken,  \* history: a status was rendered after the stream's first state
    refused,    \* history: a selection the client refused, with no later one
    loose,      \* history: what a logout or an expired session left behind
    events      \* bounded counter

loginVars == <<guests, session, authRole, gate, asks>>
streamVars == <<es, esHeartbeat, reconnectTimer, spectrumSource, meterSource, fetches, told>>
decodeVars == <<decodeSource, decodeRetries>>
pageSessionVars == <<loginVars, lastActiveRigId, selecting, streamVars, decodeVars, rendered,
                     overtaken, refused, loose, events>>

Off == [at |-> "none", rig |-> Nothing]
Silent == [at |-> "none", rig |-> Nothing, retry |-> FALSE]
Ats == {"none", "trying", "open", "closed"}

PageSessionInit ==
    /\ guests \in BOOLEAN /\ session = FALSE /\ authRole = "none" /\ asks = {}
    /\ gate = (IF guests THEN "guest" ELSE "form")
    /\ lastActiveRigId \in Tabs /\ selecting = {}
    /\ es = Off /\ esHeartbeat = FALSE /\ reconnectTimer = FALSE
    /\ spectrumSource = Silent /\ meterSource = Silent
    /\ decodeSource = "none" /\ decodeRetries = 0
    /\ fetches = {} /\ rendered = Nothing
    /\ told = FALSE /\ overtaken = FALSE /\ refused = FALSE /\ loose = FALSE /\ events = 0

PageSessionTypeOK ==
    /\ authRole \in {"none", "rx", "control"} /\ gate \in {"off", "form", "guest"}
    /\ asks \subseteq {"logout", "check"}
    /\ selecting \cup fetches \subseteq Tabs /\ rendered \in Tabs \cup {Nothing}
    /\ {es.at, spectrumSource.at, meterSource.at, decodeSource} \subseteq Ats
    /\ decodeRetries \in 0..(MaxEvents + 1) /\ events \in 0..MaxEvents

Event == events < MaxEvents /\ events' = events + 1
MayListen == session \/ guests

-----------------------------------------------------------------------------
(* The streams.                                                             *)

\* startMeterStreaming after stopMeterStreaming; the same for the spectrum.
Restarted == [at |-> "trying", rig |-> lastActiveRigId, retry |-> FALSE]
Started(source) ==
    IF source.at = "none" THEN [source EXCEPT !.at = "trying", !.rig = lastActiveRigId] ELSE source

\* connect: the old stream is closed, a status is asked for beside the new one.
Connects ==
    /\ es' = [at |-> "trying", rig |-> lastActiveRigId] /\ esHeartbeat' = TRUE
    /\ meterSource' = Restarted
    /\ fetches' = fetches \cup {lastActiveRigId} /\ told' = FALSE

\* The client answers for a rig the page may hear.
EsOpens ==
    /\ es.at = "trying" /\ MayListen
    /\ es' = [es EXCEPT !.at = "open"] /\ fetches' = fetches \cup {lastActiveRigId}
    /\ UNCHANGED <<loginVars, lastActiveRigId, selecting, esHeartbeat, reconnectTimer,
                   spectrumSource, meterSource, told, decodeVars, rendered, overtaken, refused,
                   loose, events>>

\* render: an SDR has a spectrum, another rig has none.
Rendered(r) ==
    /\ rendered' = r
    /\ spectrumSource' = IF r \in Sdrs THEN Started(spectrumSource) ELSE Silent

\* The first state of the stream, or a later one.
EsBrings ==
    /\ es.at = "open" /\ Rendered(es.rig) /\ told' = TRUE
    /\ UNCHANGED <<loginVars, lastActiveRigId, selecting, es, esHeartbeat, reconnectTimer,
                   meterSource, fetches, decodeVars, overtaken, refused, loose, events>>

\* pollFreshSnapshot: the answer is rendered whatever has been selected since.
StatusComes(r) ==
    /\ fetches' = fetches \ {r}
    /\ IF MayListen
       THEN Rendered(r) /\ overtaken' = (overtaken \/ (told /\ r # es.rig))
       ELSE UNCHANGED <<rendered, spectrumSource, overtaken>>
    /\ UNCHANGED <<loginVars, lastActiveRigId, selecting, es, esHeartbeat, reconnectTimer,
                   meterSource, told, decodeVars, refused, loose, events>>

\* The stream is refused: closed for good, and tried again by the page's own timer.
EsRefused ==
    /\ es.at = "trying" /\ (~MayListen \/ Event)
    /\ MayListen \/ UNCHANGED events
    /\ es' = [es EXCEPT !.at = "closed"] /\ reconnectTimer' = TRUE
    /\ fetches' = fetches \cup {lastActiveRigId}
    /\ UNCHANGED <<loginVars, lastActiveRigId, selecting, esHeartbeat, spectrumSource,
                   meterSource, told, decodeVars, rendered, overtaken, refused, loose>>

\* The connection is lost: the browser tries again.
EsDrops ==
    /\ es.at = "open" /\ Event
    /\ es' = [es EXCEPT !.at = "trying"]
    /\ UNCHANGED <<loginVars, lastActiveRigId, selecting, esHeartbeat, reconnectTimer,
                   spectrumSource, meterSource, fetches, told, decodeVars, rendered, overtaken,
                   refused, loose>>

\* Nothing for fifteen seconds. An open stream is pinged, unless the client hangs.
Heartbeat ==
    /\ esHeartbeat /\ ~reconnectTimer
    /\ IF es.at = "open" THEN Event ELSE UNCHANGED events
    /\ es' = [es EXCEPT !.at = "closed"] /\ reconnectTimer' = TRUE
    /\ fetches' = fetches \cup {lastActiveRigId}
    /\ UNCHANGED <<loginVars, lastActiveRigId, selecting, esHeartbeat, spectrumSource,
                   meterSource, told, decodeVars, rendered, overtaken, refused, loose>>

Reconnects ==
    /\ reconnectTimer /\ reconnectTimer' = FALSE /\ Connects
    /\ UNCHANGED <<loginVars, lastActiveRigId, selecting, spectrumSource, decodeVars, rendered,
                   overtaken, refused, loose, events>>

\* What becomes of the spectrum and of the meter: open, or an error and a timer.
StreamMoves(source, next, other, otherNext) ==
    /\ otherNext = other
    /\ \/ source.at = "trying" /\ MayListen /\ UNCHANGED events
          /\ next = [source EXCEPT !.at = "open"]
       \/ source.at = "trying" /\ ~MayListen /\ UNCHANGED events
          /\ next = [source EXCEPT !.at = "none", !.rig = Nothing, !.retry = TRUE]
       \/ source.at = "open" /\ Event
          /\ next = [source EXCEPT !.at = "none", !.rig = Nothing, !.retry = TRUE]
       \/ source.retry /\ UNCHANGED events /\ next = [Started(source) EXCEPT !.retry = FALSE]
    /\ UNCHANGED <<loginVars, lastActiveRigId, selecting, es, esHeartbeat, reconnectTimer,
                   fetches, told, decodeVars, rendered, overtaken, refused, loose>>
SpectrumMoves == StreamMoves(spectrumSource, spectrumSource', meterSource, meterSource')
MeterMoves == StreamMoves(meterSource, meterSource', spectrumSource, spectrumSource')

\* The stream of decodes: any error closes it, and a timer connects again.
DecodeOpens ==
    /\ decodeSource = "trying" /\ MayListen /\ decodeSource' = "open"
    /\ UNCHANGED <<loginVars, lastActiveRigId, selecting, streamVars, decodeRetries, rendered,
                   overtaken, refused, loose, events>>
DecodeFails ==
    /\ decodeSource \in {"trying", "open"} /\ (decodeSource = "open" \/ MayListen => Event)
    /\ decodeSource = "open" \/ MayListen \/ UNCHANGED events
    /\ decodeSource' = "closed" /\ decodeRetries' = decodeRetries + 1
    /\ UNCHANGED <<loginVars, lastActiveRigId, selecting, streamVars, rendered, overtaken,
                   refused, loose>>
DecodeRetry ==
    /\ decodeRetries > 0 /\ decodeRetries' = decodeRetries - 1 /\ decodeSource' = "trying"
    /\ UNCHANGED <<loginVars, lastActiveRigId, selecting, streamVars, rendered, overtaken,
                   refused, loose, events>>

-----------------------------------------------------------------------------
(* The user and the session.                                                *)

\* The login form, or the button of a guest.
LogIn(role) ==
    /\ gate # "off" /\ Event /\ (role = "rx" => gate = "guest")
    /\ authRole' = role /\ gate' = "off"
    /\ session' = IF role = "control" THEN TRUE ELSE session
    /\ Connects /\ decodeSource' = "trying"
    /\ refused' = FALSE
    /\ UNCHANGED <<guests, asks, lastActiveRigId, selecting, reconnectTimer, spectrumSource,
                   decodeRetries, rendered, overtaken, loose>>

LogOut ==
    /\ authRole # "none" /\ gate = "off" /\ "logout" \notin asks /\ Event
    /\ asks' = asks \cup {"logout"} /\ session' = FALSE
    /\ UNCHANGED <<guests, authRole, gate, lastActiveRigId, selecting, streamVars, decodeVars,
                   rendered, overtaken, refused, loose>>

\* Mutant: the timer of the stream of states is left.
LoggedOut_KeepsTimer ==
    /\ "logout" \in asks /\ asks' = (asks \ {"logout"}) \cup {"check"}
    /\ authRole' = "none"
    /\ es' = Off /\ esHeartbeat' = FALSE
    /\ spectrumSource' = Silent /\ meterSource' = Silent /\ decodeSource' = "none"
    /\ loose' = (selecting # {} \/ decodeRetries > 0 \/ fetches # {})
    /\ UNCHANGED <<guests, session, gate, lastActiveRigId, selecting, reconnectTimer,
                   decodeRetries, fetches, told, rendered, overtaken, refused, events>>

\* authLogout goes on: disconnect closes the streams and clears their timers, but for those
\* of connectDecode.
LoggedOut ==
    /\ "logout" \in asks /\ asks' = (asks \ {"logout"}) \cup {"check"}
    /\ authRole' = "none"
    /\ es' = Off /\ esHeartbeat' = FALSE /\ reconnectTimer' = FALSE
    /\ spectrumSource' = Silent /\ meterSource' = Silent /\ decodeSource' = "none"
    /\ loose' = (selecting # {} \/ decodeRetries > 0 \/ fetches # {})
    /\ UNCHANGED <<guests, session, gate, lastActiveRigId, selecting, decodeRetries, fetches,
                   told, rendered, overtaken, refused, events>>

\* Then the gate is shown, whoever has logged in meanwhile.
Checked ==
    /\ "check" \in asks /\ asks' = asks \ {"check"}
    /\ gate' = IF guests /\ ~session THEN "guest" ELSE "form"
    /\ UNCHANGED <<guests, session, authRole, lastActiveRigId, selecting, streamVars, decodeVars,
                   rendered, overtaken, refused, loose, events>>

\* The login button of a page nobody is logged in to.
ShowGate ==
    /\ authRole = "none" /\ gate # "form" /\ gate' = "form"
    /\ UNCHANGED <<guests, session, authRole, asks, lastActiveRigId, selecting, streamVars,
                   decodeVars, rendered, overtaken, refused, loose, events>>

\* The session ends at the client.
SessionEnds ==
    /\ session /\ Event /\ session' = FALSE
    /\ UNCHANGED <<guests, authRole, gate, asks, lastActiveRigId, selecting, streamVars,
                   decodeVars, rendered, overtaken, refused, loose>>

\* postPath: 401. One stream is closed, the others and all timers go on.
Unauthorized ==
    /\ authRole' = "none" /\ gate' = "form" /\ loose' = TRUE
    /\ es' = IF es.at = "none" THEN es ELSE [es EXCEPT !.at = "closed"]
    /\ UNCHANGED <<guests, session, asks, esHeartbeat, reconnectTimer, spectrumSource,
                   meterSource, fetches, told>>

PostRefused ==
    /\ authRole # "none" /\ ~MayListen /\ Event /\ Unauthorized
    /\ UNCHANGED <<lastActiveRigId, selecting, decodeVars, rendered, overtaken, refused>>

\* switchRigFromSelect.
SwitchRig(r) ==
    /\ authRole = "control" /\ gate = "off" /\ r # lastActiveRigId /\ Event
    /\ lastActiveRigId' = r /\ selecting' = selecting \cup {r}
    /\ UNCHANGED <<loginVars, streamVars, decodeVars, rendered, overtaken, refused, loose>>

\* The client has taken it: every stream moves to the rig of the tab.
Selected(r) ==
    /\ selecting' = selecting \ {r} /\ session
    /\ Connects /\ spectrumSource' = Restarted /\ refused' = FALSE
    /\ overtaken' = FALSE
    /\ UNCHANGED <<loginVars, lastActiveRigId, reconnectTimer, decodeVars, rendered, loose, events>>

\* The client refuses it, or does not answer: the stream of states stays as it is.
NotSelected(r) ==
    /\ selecting' = selecting \ {r} /\ spectrumSource' = Restarted /\ meterSource' = Restarted
    /\ refused' = TRUE
    /\ IF ~MayListen
       THEN /\ authRole' = "none" /\ gate' = "form" /\ loose' = TRUE
            /\ es' = IF es.at = "none" THEN es ELSE [es EXCEPT !.at = "closed"]
            /\ UNCHANGED events
       ELSE Event /\ UNCHANGED <<authRole, gate, loose, es>>
    /\ UNCHANGED <<guests, session, asks, lastActiveRigId, esHeartbeat, reconnectTimer, fetches,
                   told, decodeVars, rendered, overtaken>>

PageSessionNext ==
    \/ EsOpens \/ EsBrings \/ EsRefused \/ EsDrops \/ Heartbeat \/ Reconnects
    \/ SpectrumMoves \/ MeterMoves \/ DecodeOpens \/ DecodeFails \/ DecodeRetry
    \/ LogIn("rx") \/ LogIn("control") \/ LogOut \/ LoggedOut \/ Checked \/ ShowGate
    \/ SessionEnds \/ PostRefused
    \/ \E r \in fetches : StatusComes(r)
    \/ \E r \in Tabs : SwitchRig(r)
    \/ \E r \in selecting : Selected(r) \/ NotSelected(r)

PageSessionSpec == PageSessionInit /\ [][PageSessionNext]_pageSessionVars
-----------------------------------------------------------------------------
Streaming(at) == at \in {"trying", "open"}

\* A page somebody is logged in to gets its state again whatever happens to the stream: the
\* heartbeat watches it.
LoggedInIsWatched == authRole # "none" => esHeartbeat

\* After a logout nothing goes on and nothing is going to connect, unless a selection, a
\* status or a retry of the decodes was under way, or the session had ended before.
LoggedOutIsQuiet ==
    authRole = "none" /\ ~loose =>
        /\ ~Streaming(es.at) /\ ~reconnectTimer /\ ~esHeartbeat /\ ~Streaming(decodeSource)
        /\ spectrumSource = Silent /\ meterSource = Silent

\* The streams show the rig of the tab: once its selection has gone on they are all of that
\* rig, and the state on display is, unless the answer to a status asked for another rig
\* came after the first state of the stream. A refused selection mixes two rigs.
StreamsFollowTab ==
    selecting = {} /\ ~refused =>
        /\ Streaming(es.at) => es.rig = lastActiveRigId
        /\ Streaming(meterSource.at) => meterSource.rig = lastActiveRigId
        /\ Streaming(spectrumSource.at) => spectrumSource.rig = lastActiveRigId
        /\ es.at = "open" /\ told /\ ~overtaken => rendered = lastActiveRigId

PageSessionInv == PageSessionTypeOK /\ LoggedInIsWatched /\ LoggedOutIsQuiet /\ StreamsFollowTab
=============================================================================
