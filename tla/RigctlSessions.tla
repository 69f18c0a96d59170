---------------------------- MODULE RigctlSessions ----------------------------
(* The rigctl frontend (trx-frontend-rigctl server.rs): every connection is *)
(* served by a task of its own, line by line; a line becomes up to three    *)
(* requests to the rig, each awaited for fifteen seconds. A request that    *)
(* was given up stays in the queue and is carried out all the same.         *)
(*                                                                          *)
(* The rig behind the queue is external: it takes frequencies that are a    *)
(* multiple of its step, toggles between two VFOs, and may refuse.          *)
EXTENDS Integers, Sequences, FiniteSets, SequencesExt

CONSTANTS Programs,     \* connections
          Dialled,      \* frequencies a program asks for
          Grid,         \* the rig's tuning step (10 Hz)
          MaxLines,     \* bound: lines sent
          MaxTrouble    \* bound: refusals and timeouts

ASSUME RigctlAssumption ==
    Dialled \subseteq Nat /\ Grid \in Nat \ {0} /\ {MaxLines, MaxTrouble} \subseteq Nat

VARIABLES
    program,    \* per connection: [at, line, step, got], the request it awaits in got
    requests,   \* the queue of the rig: [who, n, cmd]
    trx,        \* the rig: [vfo, freq, ptt]
    issued,     \* number of requests so far
    connected,  \* rigctl_clients
    lines,      \* bounded counters
    trouble,
    since,      \* history: per connection, the states of the rig since its last request
    said        \* history: the last line answered, its answer and those states

rigctlVars == <<program, requests, trx, issued, connected, lines, trouble, since, said>>

Other(v) == IF v = "VFOA" THEN "VFOB" ELSE "VFOA"
Trx == [vfo : {"VFOA", "VFOB"}, freq : Nat, ptt : BOOLEAN]
Lines == [op : {"f"}, arg : {0}] \cup [op : {"F"}, arg : Dialled]
         \cup [op : {"V"}, arg : {"VFOA", "VFOB"}] \cup [op : {"T"}, arg : BOOLEAN]
NoLine == [op |-> "none", arg |-> 0]
Hangup == [at |-> "closed", line |-> NoLine, step |-> 0, req |-> 0, got |-> <<>>]
NothingSaid == [line |-> NoLine, ok |-> FALSE, states |-> {}]

RigctlTypeOK ==
    /\ \A p \in Programs : /\ program[p].at \in {"closed", "reading", "waiting"}
                           /\ program[p].line \in Lines \cup {NoLine}
                           /\ program[p].step \in 0..3 /\ program[p].req \in 0..issued
                           /\ Len(program[p].got) <= 1
    /\ \A r \in ToSet(requests) : r.who \in Programs /\ r.n \in 1..issued
    /\ trx \in Trx /\ lines \in 0..MaxLines /\ trouble \in 0..MaxTrouble

RigctlInit ==
    /\ program = [p \in Programs |-> Hangup] /\ requests = <<>>
    /\ trx = [vfo |-> "VFOA", freq |-> 0, ptt |-> FALSE]
    /\ issued = 0 /\ connected = 0 /\ lines = 0 /\ trouble = 0
    /\ since = [p \in Programs |-> {}] /\ said = NothingSaid

AcceptProgram(p) ==
    /\ program[p].at = "closed" /\ lines < MaxLines
    /\ program' = [program EXCEPT ![p].at = "reading"] /\ connected' = connected + 1
    /\ UNCHANGED <<requests, trx, issued, lines, trouble, since, said>>

\* q, end of file or a read that fails: only between two lines.
Quits(p) ==
    /\ program[p].at = "reading"
    /\ program' = [program EXCEPT ![p] = Hangup] /\ connected' = connected - 1
    /\ UNCHANGED <<requests, trx, issued, lines, trouble, since, said>>

Issue(p, line, step, cmd) ==
    /\ issued' = issued + 1
    /\ requests' = Append(requests, [who |-> p, n |-> issued + 1, cmd |-> cmd])
    /\ program' = [program EXCEPT ![p] = [at |-> "waiting", line |-> line, step |-> step,
                                         req |-> issued + 1, got |-> <<>>]]

Look == [op |-> "GetSnapshot", arg |-> 0]
FirstRequest(line) ==
    CASE line.op = "F" -> [op |-> "SetFreq", arg |-> line.arg]
      [] line.op = "T" -> [op |-> "SetPtt", arg |-> line.arg]
      [] OTHER -> Look

\* process_command up to its first request.
Line(p, line) ==
    /\ program[p].at = "reading" /\ lines < MaxLines /\ lines' = lines + 1
    /\ Issue(p, line, 1, FirstRequest(line))
    /\ since' = [since EXCEPT ![p] = {trx}]
    /\ UNCHANGED <<trx, connected, trouble, said>>

Carried(cmd) ==
    CASE cmd.op = "SetFreq" -> [trx EXCEPT !.freq = cmd.arg]
      [] cmd.op = "SetPtt" -> [trx EXCEPT !.ptt = cmd.arg]
      [] cmd.op = "ToggleVfo" -> [trx EXCEPT !.vfo = Other(@)]
      [] OTHER -> trx

OffGrid(cmd) == cmd.op = "SetFreq" /\ cmd.arg % Grid # 0

Delivered(r, reply) ==
    IF program[r.who].at = "waiting" /\ program[r.who].req = r.n
    THEN program' = [program EXCEPT ![r.who].got = <<reply>>] ELSE UNCHANGED program

\* The rig carries out or refuses the next request; whoever gave it up hears nothing.
CarryOut ==
    LET r == Head(requests) IN
    /\ requests # <<>> /\ requests' = Tail(requests)
    /\ \/ /\ ~OffGrid(r.cmd) /\ trx' = Carried(r.cmd)
          /\ since' = [p \in Programs |-> since[p] \cup {trx'}]
          /\ Delivered(r, [ok |-> TRUE, why |-> "", vfo |-> trx'.vfo]) /\ UNCHANGED trouble
       \/ /\ OffGrid(r.cmd) /\ Delivered(r, [ok |-> FALSE, why |-> "grid", vfo |-> trx.vfo])
          /\ UNCHANGED <<trx, since, trouble>>
       \/ /\ trouble < MaxTrouble /\ trouble' = trouble + 1
          /\ Delivered(r, [ok |-> FALSE, why |-> "other", vfo |-> trx.vfo])
          /\ UNCHANGED <<trx, since>>
    /\ UNCHANGED <<issued, connected, lines, said>>

Rounded(f) == ((f + Grid \div 2) \div Grid) * Grid

Reply(p, ok) ==
    /\ program' = [program EXCEPT ![p] = [Hangup EXCEPT !.at = "reading"]]
    /\ said' = [line |-> program[p].line, ok |-> ok, states |-> since[p]]
    /\ since' = [since EXCEPT ![p] = {}] /\ UNCHANGED <<requests, issued>>

\* A frequency off the grid is rounded and sent again; a VFO is read, toggled if it is the
\* other one, and read again.
Further(s) ==
    LET a == s.got[1] IN
    CASE s.line.op = "F" /\ s.step = 1 /\ ~a.ok /\ a.why = "grid" ->
             {[op |-> "SetFreq", arg |-> Rounded(s.line.arg)]}
      [] s.line.op = "V" /\ s.step = 1 /\ a.ok /\ a.vfo # s.line.arg ->
             {[op |-> "ToggleVfo", arg |-> 0]}
      [] s.line.op = "V" /\ s.step = 2 /\ a.ok -> {Look}
      [] OTHER -> {}

\* Mutant: what is read after the toggle is not looked at.
Confirmed_Trusts(s) == s.got[1].ok
Confirmed(s) == s.got[1].ok /\ (s.line.op = "V" => s.got[1].vfo = s.line.arg)

\* The answer comes: the next request of the line, or the answer to it.
Continue(p) ==
    LET s == program[p] IN
    /\ s.at = "waiting" /\ s.got # <<>>
    /\ \/ \E cmd \in Further(s) :
             /\ Issue(p, s.line, s.step + 1, cmd)
             /\ since' = [since EXCEPT ![p] = {trx}] /\ UNCHANGED said
       \/ Further(s) = {} /\ Reply(p, Confirmed(s))
    /\ UNCHANGED <<trx, connected, lines, trouble>>

\* Fifteen seconds without an answer: RPRT -1, and the request goes on.
GivesUp(p) ==
    /\ program[p].at = "waiting" /\ program[p].got = <<>>
    /\ trouble < MaxTrouble /\ trouble' = trouble + 1
    /\ Reply(p, FALSE)
    /\ UNCHANGED <<trx, connected, lines>>

RigctlNext ==
    \/ \E p \in Programs : \/ AcceptProgram(p) \/ Quits(p) \/ Continue(p) \/ GivesUp(p)
                           \/ \E line \in Lines : Line(p, line)
    \/ CarryOut

RigctlSpec == RigctlInit /\ [][RigctlNext]_rigctlVars
------------------------------------------------------------------------------
\* What a program was told to be done was so at some moment since its last request: the VFO
\* although other programs toggle too, the frequency but for the rounding, PTT.
DoneWasSo ==
    said.ok =>
        \E t \in said.states :
            CASE said.line.op = "V" -> t.vfo = said.line.arg
              [] said.line.op = "F" -> t.freq \in {said.line.arg, Rounded(said.line.arg)}
              [] said.line.op = "T" -> t.ptt = said.line.arg
              [] OTHER -> TRUE

\* Every open connection is counted, and no other.
ProgramsCounted == connected = Cardinality({p \in Programs : program[p].at # "closed"})

\* The rig refuses what is off its grid and takes what is rounded to it: not a property of
\* the frontend, but what its answers to "F" rest on.
OnGrid == trx.freq % Grid = 0

\* The rigctl frontend: what it confirms was done, and the number of its clients.
RigctlInv == RigctlTypeOK /\ DoneWasSo /\ ProgramsCounted
=============================================================================
