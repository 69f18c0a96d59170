------------------------------ MODULE MCLinks -------------------------------
(* What is promised in the end on the two links of the client to a server,  *)
(* which share nothing: the initial state chooses the link that moves, and  *)
(* the other rests. Commands go to one name, which moves between two rigs;  *)
(* audio has a channel of the schedule and one of the background decoder,   *)
(* and changes and breaks of which at most two come together.               *)
EXTENDS RemoteLink, AudioLink

CONSTANTS r1, r2

MCRigIds == "any" :> Wildcard
MCIds == {"u", "h"}
MCFirst == [id \in MCIds |-> [freq |-> 1, dec |-> {"ft8"}]]

VARIABLE part

linkVars == <<part, vars, audioVars>>

LinksInit == part \in {"remote", "audio"} /\ Init /\ AudioInit

LinksNext ==
    /\ UNCHANGED part
    /\ \/ part = "remote" /\ Next /\ UNCHANGED audioVars
       \/ part = "audio" /\ AudioNext /\ changes' + breaks' <= 2 /\ UNCHANGED vars

\* The fairness of RemoteLink and of AudioLink, each for the part that moves.
OfRemote(A) == part = "remote" /\ A
OfAudio(A) == part = "audio" /\ A

LinksFairness ==
    /\ WF_vars(OfRemote(Connect)) /\ WF_vars(OfRemote(PollEnds))
    /\ WF_vars(OfRemote(CommandEnds)) /\ WF_vars(OfRemote(Serve))
    /\ SF_vars(OfRemote(PollTick)) /\ SF_vars(OfRemote(TakeCommand))
    /\ \A r \in Rigs : WF_vars(OfRemote(RigOpens(r)))
    /\ WF_audioVars(OfAudio(ClientStep))
    /\ \A k \in Links : WF_audioVars(OfAudio(ServerStep(k)))

LinksSpec == LinksInit /\ [][LinksNext]_linkVars /\ LinksFairness

-----------------------------------------------------------------------------
\* CatchesUp of RemoteLink, where that link moves: the client's picture of a rig follows
\* the rig again after every break (remote_client.rs).
LinkCatchesUp == part = "remote" => CatchesUp
=============================================================================
