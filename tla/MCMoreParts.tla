-------------------------------- MODULE MCMoreParts -------------------------
(* Twelve components that share nothing, checked in one run: the initial    *)
(* state chooses the one that moves, and the others rest.                   *)
EXTENDS Uplinks, Listener, HttpAuth, Recorder, ClientHistories, AudioSockets, RigctlSessions,
        WefaxReception, BackgroundDecode, PageAudio, PageSession, PageTuning, TLC

MCKeeps == [s \in Stations |-> IF s = "a" THEN 0 ELSE 2]

\* Of failed commands, failed writes and files taken away from their recording, one comes at
\* a time.
MCRecorderFaults ==
    Cardinality({t \in DOMAIN tasks : tasks[t].faulty \/ tasks[t].at = "failed"
                    \/ (tasks[t].at \in {"runs", "done"} /\ \A f \in files : f.by # t)})
        + (IF missed THEN 1 ELSE 0)

\* Of two sockets, two prompts for the microphone and a lost request or selection, four.
MCPageEvents == Len(sockets) + prompts.asked + upsets

VARIABLE part

vars == <<part, uplinkVars, listenerVars, authVars, recorderVars, clientHistoryVars,
          socketVars, rigctlVars, wefaxVars, backgroundVars,
          pageAudioVars, pageSessionVars, pageTuningVars>>

\* A part that does not move.
Rests(p, variables) == part # p => UNCHANGED variables

Init ==
    /\ part \in {"uplinks", "listener", "auth", "recorder", "collector", "sockets", "rigctl",
                 "wefax", "background", "audio", "session", "tuning"}
    /\ UplinkInit /\ (part = "uplinks" \/ enabled = "psk")
    /\ ListenerInit
    /\ AuthInit
    /\ RecorderInit
    /\ ClientHistoryInit /\ (part = "collector" \/ picked = "a")
    /\ SocketInit /\ (part = "sockets" \/ chosen = "r1")
    /\ RigctlInit
    /\ WefaxInit
    /\ BackgroundInit /\ (part = "background" \/ dial = [m \in Marks |-> 1])
    /\ PageAudioInit /\ tabRig = ActiveRig
    /\ PageSessionInit /\ (part = "session" \/ (guests /\ lastActiveRigId = "sdr"))
    /\ PageTuningInit /\ (part = "tuning" \/ freq = 2)

Next ==
    /\ UNCHANGED part
    /\ Rests("uplinks", uplinkVars) /\ Rests("listener", listenerVars)
    /\ Rests("auth", authVars) /\ Rests("recorder", recorderVars)
    /\ Rests("collector", clientHistoryVars) /\ Rests("sockets", socketVars)
    /\ Rests("rigctl", rigctlVars) /\ Rests("wefax", wefaxVars)
    /\ Rests("background", backgroundVars)
    /\ Rests("audio", pageAudioVars) /\ Rests("session", pageSessionVars)
    /\ Rests("tuning", pageTuningVars)
    /\ \/ part = "uplinks" /\ UplinkNext
       \/ part = "listener" /\ ListenerNext
       \/ part = "auth" /\ AuthNext
       \/ part = "recorder" /\ RecorderNext /\ MCRecorderFaults' <= 1
       \/ part = "collector" /\ ClientHistoryNext
       \/ part = "sockets" /\ SocketNext
       \/ part = "rigctl" /\ RigctlNext /\ lines' + trouble' <= 3
       \/ part = "wefax" /\ WefaxNext
       \/ part = "background" /\ BackgroundNext
       \/ part = "audio" /\ PageAudioNext /\ MCPageEvents' <= 4
       \/ part = "session" /\ PageSessionNext
       \/ part = "tuning" /\ PageTuningNext

Spec == Init /\ [][Next]_vars
=============================================================================
