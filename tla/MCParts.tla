---------------------------------- MODULE MCParts ---------------------------
(* Nine components that share nothing, checked in one run: the initial      *)
(* state chooses the one that moves, and the others rest.                   *)
EXTENDS SdrChannels, DecoderHistories, CatSession, Station, SoundCard, PageDecode,
        Configuration, TLC

MCFreqs == {0, 4}
MCReplayed == <<"ft8", "ft4">>
MCSaved == <<"ft8">>
\* Of a client, a reset, a restart and time that passes, at most two come together.
MCBusy == clock + resets + restarts + (IF client.at = "gone" THEN 0 ELSE 1)
MCDial == [A |-> "lo", B |-> "hi"]
MCMode == [A |-> "u", B |-> "l"]

MCRig(id, sdr, rx, tx, psk, aprsfi) ==
    [id |-> id, sdr |-> sdr, rx |-> rx, tx |-> tx, psk |-> psk, aprsfi |-> aprsfi]
MCLayouts ==
    {<<MCRig("a", TRUE, TRUE, FALSE, TRUE, FALSE), MCRig("b", FALSE, FALSE, TRUE, FALSE, FALSE)>>,
     <<MCRig("a", FALSE, FALSE, TRUE, TRUE, TRUE), MCRig("a", TRUE, FALSE, FALSE, FALSE, FALSE)>>,
     <<MCRig("a", TRUE, TRUE, TRUE, TRUE, TRUE)>>}

MCPayloads == {<<>>, <<1, 1, 1>>, <<1, 1, 1, 1, 1, 1>>, <<0, 1, 1, 1, 1, 1>>}
MCNoises == {<<>>, <<0, 1, 1, 1, 1, 1, 1, 1>>}
MCShortest == [ais |-> 1, aprs |-> 2]

MCKinds == <<"ais", "ft4">>

\* Of two connections, a live message and a trouble, three.
MCDecodeEvents == Len(conns) + live + troubles

\* What is answered to the questions, what is written by hand, and the remotes.
MCAnswers(access, located, at, url, http, rigctl) ==
    [server |-> [rig |-> RigBy(IF access = "sdr" THEN "soapysdr" ELSE "ft817", access),
                 located |-> located, listenAt |-> at],
     client |-> [url |-> url, token |-> "none", http |-> http, rigctl |-> rigctl]]
MCAnswered ==
    {MCAnswers("sdr", FALSE, "ok", "odd", TRUE, FALSE), MCAnswers("tcp", FALSE, "odd", "ok", TRUE, FALSE),
     MCAnswers("serial", TRUE, "ok", "ok", TRUE, TRUE)}
MCEntry(id, enable, model, audio, access) ==
    [id |-> id, enable |-> enable, model |-> model, audio |-> audio, access |-> access]
MCFleets ==
    {<<>>,
     <<MCEntry(<<>>, TRUE, "ft817", 1, "serial"), MCEntry(<<>>, TRUE, "ft817", 2, "serial")>>,
     <<MCEntry(<<"ft817", 1>>, TRUE, "ft817", 1, "serial"), MCEntry(<<>>, TRUE, "ft817", 0, "serial")>>,
     <<MCEntry(<<"a">>, TRUE, "ft817", 1, "serial"), MCEntry(<<"b">>, TRUE, "ft817", 1, "tcp")>>,
     <<MCEntry(<<"a">>, TRUE, "ft817", 1, "serial"), MCEntry(<<"a">>, TRUE, "ft817", 2, "tcp")>>,
     <<MCEntry(<<"a">>, FALSE, "ft817", 1, "usb")>>}
MCRemote(name, url, fine) == [name |-> name, url |-> url, fine |-> fine]
MCRemotes ==
    {<<>>, <<MCRemote("hf", "ok", TRUE), MCRemote("vhf", "ok", TRUE)>>,
     <<MCRemote("hf", "odd", TRUE)>>, <<MCRemote("hf", "ok", FALSE)>>}

Symmetry == Permutations(Conns)

VARIABLE part

vars == <<part, sdrVars, decoderVars, historyVars, catVars, stationVars, cardVars, hdlcVars,
          pageDecodeVars, configVars>>

\* A part that does not move.
Rests(p, variables) == part # p => UNCHANGED variables

Init ==
    /\ part \in {"sdr", "tasks", "histories", "cat", "station", "card", "hdlc", "decode", "config"}
    /\ SdrInit /\ (part = "sdr" \/ rig.freq = 0)
    /\ DecoderInit /\ (part = "tasks" \/ (kind = Aprs /\ ~state.on))
    /\ HistoryInit
    /\ CatInit /\ radio.dial = MCDial /\ radio.mode = MCMode
    /\ (part = "cat" \/ (radio.side = "A" /\ backend = "ft817"))
    /\ StationInit /\ (part = "station" \/ (Len(layout) = 1 /\ callsign))
    /\ CardInit /\ (part = "card" \/ (in.at = "find" /\ listeners))
    /\ HdlcInit /\ (part = "hdlc" \/ (demod = "ais" /\ noise = <<>> /\ sent = <<<<>>>>))
    /\ PageDecodeInit /\ (part = "decode" \/ ~lateLoaded)
    /\ ConfigInit

Next ==
    /\ UNCHANGED part
    /\ Rests("sdr", sdrVars) /\ Rests("tasks", decoderVars)
    /\ Rests("histories", historyVars) /\ Rests("cat", catVars)
    /\ Rests("station", stationVars) /\ Rests("card", cardVars)
    /\ Rests("hdlc", hdlcVars) /\ Rests("decode", pageDecodeVars)
    /\ Rests("config", configVars)
    /\ \/ part = "sdr" /\ SdrNext
       \/ part = "tasks" /\ DecoderNext
       \/ part = "histories" /\ HistoryNext /\ MCBusy' <= 2
       \/ part = "cat" /\ CatNext
       \/ part = "station" /\ StationNext
       \/ part = "card" /\ CardNext
       \/ part = "hdlc" /\ HdlcNext
       \/ part = "decode" /\ PageDecodeNext /\ MCDecodeEvents' <= 3
       \/ part = "config" /\ ConfigNext /\ edits' + writes' <= 2

Spec == Init /\ [][Next]_vars
=============================================================================
