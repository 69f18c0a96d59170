------------------------------ MODULE PageAudio ------------------------------
(* The audio of a page of the web application (app.js): the socket it       *)
(* receives on and transmits over, the microphone, and the transmitter it   *)
(* keys with requests of their own. Handlers of the browser interleave      *)
(* wherever the code awaits, and requests arrive in any order.              *)
(*                                                                          *)
(* Decoding and playing of what is heard are left out.                      *)
EXTENDS Integers, FiniteSets

CONSTANTS PageRigs,     \* rigs the page can select
          ActiveRig,    \* the rig of requests that name none
          MaxSockets, MaxPrompts, MaxUpsets   \* bounds

ASSUME PageAudioAssumption ==
    /\ ActiveRig \in PageRigs
    /\ {MaxSockets, MaxPrompts, MaxUpsets} \subseteq Nat

VARIABLES
    tabRig,    \* the rig of the tab
    sockets,    \* state of each socket: "opening", "open", "closing", "closed"
    audioWs,    \* the number of the last socket, or 0
    rx,         \* [active, info]: rxActive, and whether there is stream information
    tx,         \* [active, timer, encoder]: txActive, the safety timeout, txEncoder
    mics,       \* microphone streams that are open
    txStream,   \* the last of them, or 0
    feeding,    \* microphone streams a processor takes audio from
    txProcessor,    \* the stream of the last processor, or 0
    prompts,    \* [shown, asked]: requests for the microphone, and a bounded counter
    posts,      \* requests under way: [n, ptt, rig, mic, at]
    ready,      \* requests whose await has not gone on yet
    selection,  \* whether the request of a selection is under way
    gone,       \* the page has been left
    keyed,      \* per rig: whether it transmits
    newest,     \* per rig: the last request that has arrived
    sent,       \* bounded counter of requests
    sentTo,     \* history: rigs keyed since the last release
    unreleased, \* history: rigs whose release failed, was overtaken, or went elsewhere
    doubled,    \* history: a microphone was granted while there was another
    upsets      \* bounded counter: selections and lost requests

pageAudioVars == <<tabRig, sockets, audioWs, rx, tx, mics, txStream, feeding,
                   txProcessor, prompts, posts, ready, selection, gone, keyed, newest, sent,
                   sentTo, unreleased, doubled, upsets>>
socketState == <<sockets, audioWs, rx>>
micState == <<mics, txStream, doubled, feeding, txProcessor>>
radioState == <<keyed, newest, upsets>>
postState == <<posts, sent, sentTo, unreleased>>

PageAudioInit ==
    /\ tabRig \in PageRigs
    /\ sockets = <<>> /\ audioWs = 0 /\ rx = [active |-> FALSE, info |-> FALSE]
    /\ tx = [active |-> FALSE, timer |-> FALSE, encoder |-> FALSE]
    /\ mics = {} /\ txStream = 0 /\ feeding = {} /\ txProcessor = 0 /\ doubled = FALSE
    /\ prompts = [shown |-> 0, asked |-> 0] /\ posts = {} /\ ready = {}
    /\ selection = FALSE /\ gone = FALSE
    /\ keyed = [r \in PageRigs |-> FALSE] /\ newest = [r \in PageRigs |-> 0]
    /\ sent = 0 /\ sentTo = {} /\ unreleased = {} /\ upsets = 0

PageAudioTypeOK ==
    /\ tabRig \in PageRigs
    /\ \A k \in DOMAIN sockets : sockets[k] \in {"opening", "open", "closing", "closed"}
    /\ audioWs \in 0..MaxSockets /\ rx \in [active : BOOLEAN, info : BOOLEAN]
    /\ tx \in [active : BOOLEAN, timer : BOOLEAN, encoder : BOOLEAN]
    /\ mics \cup {txStream, txProcessor} \cup feeding \subseteq 0..MaxPrompts
    /\ \A p \in posts \cup ready : p.rig \in PageRigs /\ p.ptt \in BOOLEAN
    /\ keyed \in [PageRigs -> BOOLEAN] /\ sentTo \cup unreleased \subseteq PageRigs

Here == ~gone
Upset == upsets < MaxUpsets /\ upsets' = upsets + 1

-----------------------------------------------------------------------------
(* Requests.                                                                *)

\* postPath: the request names the rig of the tab at the time it is sent.
Post(ptt, mic) ==
    /\ sent' = sent + 1
    /\ posts' = posts \cup {[n |-> sent + 1, ptt |-> ptt, rig |-> tabRig, mic |-> mic]}

\* A request arrives, perhaps after a later one.
Arrives(p) ==
    /\ posts' = posts \ {p} /\ ready' = IF gone THEN ready ELSE ready \cup {p}
    /\ keyed' = [keyed EXCEPT ![p.rig] = p.ptt]
    /\ newest' = [newest EXCEPT ![p.rig] = IF p.n > @ THEN p.n ELSE @]
    /\ unreleased' = IF p.n < newest[p.rig] THEN unreleased \cup {p.rig} ELSE unreleased
    /\ UNCHANGED <<tabRig, socketState, tx, micState, prompts, selection, gone, sent,
                   sentTo, upsets>>

\* It is refused or does not arrive: the page only logs that.
PostFails(p) ==
    /\ Upset
    /\ posts' = posts \ {p} /\ ready' = IF gone THEN ready ELSE ready \cup {p}
    /\ unreleased' = IF p.ptt THEN unreleased ELSE unreleased \cup {p.rig}
    /\ UNCHANGED <<tabRig, socketState, tx, micState, prompts, selection, gone, keyed,
                   newest, sent, sentTo>>

-----------------------------------------------------------------------------
(* Transmitting.                                                            *)

\* stopTxAudio, up to its await.
StopTx ==
    IF tx.active
    THEN /\ tx' = [tx EXCEPT !.active = FALSE, !.timer = FALSE]
         /\ Post(FALSE, 0)
         /\ unreleased' = unreleased \cup (sentTo \ {tabRig}) /\ sentTo' = {}
    ELSE UNCHANGED <<tx, postState>>

\* stopTxAudio, after it: whatever stream, processor and encoder there are now.
StopGoesOn(p) ==
    /\ Here /\ ~p.ptt /\ ready' = ready \ {p}
    /\ mics' = mics \ {txStream} /\ txStream' = 0
    /\ feeding' = feeding \ {txProcessor} /\ txProcessor' = 0
    /\ tx' = [tx EXCEPT !.encoder = FALSE]
    /\ UNCHANGED <<tabRig, socketState, doubled, prompts, postState, selection, gone,
                   radioState>>

\* startTxAudio: a click on the button.
ClickTx ==
    /\ Here
    /\ IF tx.active THEN StopTx /\ UNCHANGED prompts
       ELSE /\ audioWs # 0 /\ sockets[audioWs] = "open" /\ rx.info /\ prompts.asked < MaxPrompts
            /\ prompts' = [shown |-> prompts.shown + 1, asked |-> prompts.asked + 1]
            /\ UNCHANGED <<tx, postState>>
    /\ UNCHANGED <<tabRig, socketState, micState, ready, selection, gone, radioState>>

\* The user allows the microphone: the safety timeout is set, and the rig is keyed.
MicGranted ==
    /\ Here /\ prompts.shown > 0
    /\ LET mic == prompts.asked - prompts.shown + 1 IN
       /\ mics' = mics \cup {mic} /\ txStream' = mic
       /\ Post(TRUE, mic)
    /\ doubled' = (doubled \/ txStream # 0)
    /\ prompts' = [prompts EXCEPT !.shown = @ - 1]
    /\ tx' = [tx EXCEPT !.active = TRUE, !.timer = TRUE]
    /\ sentTo' = sentTo \cup {tabRig}
    /\ UNCHANGED <<tabRig, socketState, feeding, txProcessor, ready, selection, gone,
                   unreleased, radioState>>

MicDenied ==
    /\ Here /\ prompts.shown > 0
    /\ prompts' = [prompts EXCEPT !.shown = @ - 1]
    /\ UNCHANGED <<tabRig, socketState, tx, micState, postState, ready, selection, gone,
                   radioState>>

\* startTxAudio, after its await: without stream information it ends with an error.
StartGoesOn(p) ==
    /\ Here /\ p.ptt /\ ready' = ready \ {p}
    /\ IF rx.info THEN /\ tx' = [tx EXCEPT !.encoder = TRUE]
                       /\ txProcessor' = p.mic /\ feeding' = feeding \cup {p.mic}
       ELSE UNCHANGED <<tx, txProcessor, feeding>>
    /\ UNCHANGED <<tabRig, socketState, mics, txStream, doubled, prompts, postState, selection,
                   gone, radioState>>

\* Every block of audio a processor takes sets the safety timeout again.
SafetyTimeout ==
    /\ Here /\ tx.timer /\ (feeding = {} \/ ~tx.encoder) /\ StopTx
    /\ UNCHANGED <<tabRig, socketState, micState, prompts, ready, selection, gone,
                   radioState>>

-----------------------------------------------------------------------------
(* Receiving.                                                               *)

\* startRxAudio and stopRxAudio, on the sockets s.
OpenWs(s) ==
    /\ Cardinality(DOMAIN s) < MaxSockets
    /\ sockets' = [k \in DOMAIN s \cup {Cardinality(DOMAIN s) + 1} |->
                    IF k \in DOMAIN s THEN s[k] ELSE "opening"]
    /\ audioWs' = Cardinality(DOMAIN s) + 1
CloseWs ==
    IF audioWs # 0 /\ sockets[audioWs] \in {"opening", "open"}
    THEN [sockets EXCEPT ![audioWs] = "closing"] ELSE sockets

Quieted == [active |-> FALSE, info |-> FALSE]

\* Closing the audio context ends the processors.
ClickRx ==
    /\ Here
    /\ IF rx.active
       THEN /\ sockets' = CloseWs /\ audioWs' = 0 /\ rx' = Quieted /\ feeding' = {}
       ELSE OpenWs(sockets) /\ UNCHANGED <<rx, feeding>>
    /\ UNCHANGED <<tabRig, tx, mics, txStream, doubled, txProcessor, prompts, postState, ready,
                   selection, gone, radioState>>

\* A socket opens and brings the stream information: configureRxStream.
WsOpens(k) ==
    /\ Here /\ sockets[k] = "opening"
    /\ sockets' = [sockets EXCEPT ![k] = "open"] /\ rx' = [active |-> TRUE, info |-> TRUE]
    /\ UNCHANGED <<tabRig, audioWs, tx, micState, prompts, postState, ready, selection,
                   gone, radioState>>

\* Mutant: the close event ends the transmission of the page alone.
WsCloses_Silent(k) ==
    /\ Here /\ sockets[k] # "closed"
    /\ sockets' = [sockets EXCEPT ![k] = "closed"] /\ rx' = Quieted
    /\ tx' = [tx EXCEPT !.active = FALSE, !.timer = FALSE]
    /\ UNCHANGED <<tabRig, audioWs, micState, prompts, postState, ready, selection, gone,
                   radioState>>

\* The close event of any socket, closed by the page a while ago or by the other end.
WsCloses(k) ==
    /\ Here /\ sockets[k] # "closed"
    /\ sockets' = [sockets EXCEPT ![k] = "closed"] /\ rx' = Quieted
    /\ StopTx
    /\ UNCHANGED <<tabRig, audioWs, micState, prompts, ready, selection, gone, radioState>>

\* switchRigFromSelect: from here on requests name the new rig.
SwitchTab(r) ==
    /\ Here /\ r # tabRig /\ Upset
    /\ tabRig' = r /\ selection' = TRUE
    /\ UNCHANGED <<socketState, tx, micState, prompts, postState, ready, gone, keyed, newest>>

\* After its request, successful or not, audio moves to the new rig.
SwitchGoesOn ==
    /\ Here /\ selection /\ selection' = FALSE
    /\ IF rx.active THEN OpenWs(CloseWs) /\ rx' = Quieted /\ feeding' = {}
       ELSE UNCHANGED <<socketState, feeding>>
    /\ UNCHANGED <<tabRig, tx, mics, txStream, doubled, txProcessor, prompts, postState, ready,
                   gone, radioState>>

\* beforeunload: the beacon names no rig. The sockets and the microphone go with the page.
Leave ==
    /\ Here /\ gone' = TRUE
    /\ IF tx.active
       THEN /\ sent' = sent + 1
            /\ posts' = posts \cup {[n |-> sent + 1, ptt |-> FALSE, rig |-> ActiveRig, mic |-> 0]}
       ELSE UNCHANGED <<sent, posts>>
    /\ sockets' = [k \in DOMAIN sockets |-> "closed"] /\ audioWs' = 0 /\ rx' = Quieted
    /\ tx' = [active |-> FALSE, timer |-> FALSE, encoder |-> FALSE]
    /\ mics' = {} /\ txStream' = 0 /\ feeding' = {} /\ txProcessor' = 0
    /\ prompts' = [prompts EXCEPT !.shown = 0] /\ ready' = {}
    /\ selection' = FALSE
    /\ UNCHANGED <<tabRig, doubled, sentTo, unreleased, radioState>>

PageAudioNext ==
    \/ ClickTx \/ MicGranted \/ MicDenied \/ SafetyTimeout \/ ClickRx \/ SwitchGoesOn \/ Leave
    \/ \E p \in posts : Arrives(p) \/ PostFails(p)
    \/ \E p \in ready : StartGoesOn(p) \/ StopGoesOn(p)
    \/ \E k \in DOMAIN sockets : WsOpens(k) \/ WsCloses(k)
    \/ \E r \in PageRigs : SwitchTab(r)

PageAudioSpec == PageAudioInit /\ [][PageAudioNext]_pageAudioVars
-----------------------------------------------------------------------------
\* Once the page has stopped transmitting and its requests have arrived, no rig is left
\* transmitting, whatever closed the socket, denied the microphone or was clicked while a
\* request was under way: only where the release failed, was overtaken, or went to a rig
\* selected in between.
StoppedIsReleased ==
    Here /\ ~tx.active /\ posts = {} => \A r \in PageRigs \ unreleased : ~keyed[r]

\* A transmission is always watched by the safety timeout.
Watched == tx.active => tx.timer

\* At rest no microphone is left open, unless one was granted while another was in use.
MicsAreClosed ==
    Here /\ ~tx.active /\ posts = {} /\ ready = {} /\ prompts.shown = 0 /\ ~doubled => mics = {}

\* A page that does not transmit does not hold a transmitter or a microphone, and one that
\* does is watched.
PageAudioInv == PageAudioTypeOK /\ StoppedIsReleased /\ Watched /\ MicsAreClosed

\* "Release PTT on page unload to prevent stuck transmit" (app.js): nothing that the page
\* keyed goes on transmitting once it is left and its requests have arrived.
LeavingReleases == gone /\ posts = {} => \A r \in PageRigs \ unreleased : ~keyed[r]
-----------------------------------------------------------------------------
(* The inductive invariant behind PageAudioInv (PageAudioProofs).           *)

Posted == [n : 0..sent, ptt : BOOLEAN, rig : PageRigs, mic : 0..MaxPrompts]

PageState ==
    /\ PageAudioTypeOK /\ gone \in BOOLEAN /\ doubled \in BOOLEAN
    /\ IsFiniteSet(DOMAIN sockets)
    /\ prompts \in [shown : 0..MaxPrompts, asked : 0..MaxPrompts] /\ prompts.shown <= prompts.asked
    /\ sent \in Nat /\ newest \in [PageRigs -> 0..sent]
    /\ posts \subseteq Posted /\ ready \subseteq Posted

\* A release of r is under way that is newer than the request n.
ReleasedAfter(r, n) == \E q \in posts : q.rig = r /\ ~q.ptt /\ q.n > n

\* What keys a rig is followed by its release, or the page still knows that it keyed it.
Releasing ==
    Here =>
      /\ ~tx.active => sentTo = {}
      /\ \A r \in PageRigs \ unreleased :
            /\ keyed[r] => r \in sentTo \/ ReleasedAfter(r, newest[r])
            /\ \A p \in posts : p.ptt /\ p.rig = r =>
                  r \in sentTo \/ newest[r] > p.n \/ ReleasedAfter(r, p.n)

\* One microphone at a time, and while it is open the page transmits, or a release whose
\* handler will close it.
OneMic ==
    Here /\ ~doubled =>
      /\ mics = IF txStream = 0 THEN {} ELSE {txStream}
      /\ txStream # 0 => tx.active \/ \E p \in posts \cup ready : ~p.ptt

PageAudioInd == PageState /\ Watched /\ Releasing /\ OneMic
=============================================================================
