------------------------------ MODULE CatSession ------------------------------
(* The CAT sessions of the FT-817 and FT-450D backends                      *)
(* (trx-backend-ft817 and trx-backend-ft450d, lib.rs): one caller, a serial *)
(* line that may answer late or miss a frame, an operator at the panel, and *)
(* calls that the rig task drops at any await. What the backend remembers   *)
(* of the two VFOs must stay what the radio has.                            *)
(*                                                                          *)
(* The five bytes of an FT-817 status are two tokens, its frequency and its *)
(* mode; an answer of the FT-450D, up to its semicolon, is one.             *)
EXTENDS Integers, Sequences, FiniteSets, SequencesExt

CONSTANTS Tunings,        \* frequencies
          Modulations,  \* modes
          Unread,       \* model value: nothing is remembered
          Odd,          \* model value: what bytes of two answers decode to
          MaxCalls,     \* bound: calls of the rig task
          MaxMishaps    \* bound: frames missed, calls dropped, turns at the panel

ASSUME CatAssumption == {MaxCalls, MaxMishaps} \subseteq Nat /\ Unread \notin Tunings \cup {Odd}

VARIABLES
    backend,    \* "ft817" or "ft450d"
    radio,      \* the radio: [on, side, dial, mode, ptt], the latter two per VFO
    cache,      \* vfo_side and what is remembered: [side, dial, mode]
    cat,        \* the call under way: [op, arg, at, n, dial]
    coming,     \* tokens the radio has still to send: [what, value, n]
    inbox,      \* tokens in the input buffer of the port
    result,     \* history: the last call that ended, whether it read its own answer,
                \* and whether an older call's token came after it cleared the buffer
    mishaps,    \* bounded counter
    strange,    \* history: the same of the call under way
    wrong       \* history: the VFOs remembered whose memory a mishap, or a toggle before
                \* any VFO had a name, has parted from the radio, until they are read again

catVars == <<backend, radio, cache, cat, coming, inbox, result, mishaps, strange, wrong>>

Vfos == {"A", "B"}
Opposite(v) == CASE v = "A" -> "B" [] v = "B" -> "A" [] OTHER -> "A"
NoDial == [value |-> Unread, n |-> 0]
NoCat == [op |-> "none", arg |-> Unread, at |-> "idle", dial |-> NoDial]
NothingYet == [ok |-> FALSE, op |-> "none", own |-> TRUE, strange |-> FALSE, n |-> 0]
Token == [what : {"dial", "mode", "meter", "ack"}, value : Tunings \cup Modulations \cup {Unread},
          n : 1..MaxCalls]

CatTypeOK ==
    /\ backend \in {"ft817", "ft450d"}
    /\ radio.side \in Vfos /\ radio.dial \in [Vfos -> Tunings] /\ radio.mode \in [Vfos -> Modulations]
    /\ cache.side \in Vfos \cup {"unknown"}
    /\ cache.dial \in [Vfos -> Tunings \cup {Unread, Odd}]
    /\ cache.mode \in [Vfos -> Modulations \cup {Unread, Odd}]
    /\ ToSet(coming) \subseteq Token /\ ToSet(inbox) \subseteq Token
    /\ result.n \in 0..MaxCalls /\ mishaps \in 0..MaxMishaps

CatInit ==
    /\ backend \in {"ft817", "ft450d"}
    /\ radio \in [on : {TRUE}, side : Vfos, dial : [Vfos -> Tunings], mode : [Vfos -> Modulations],
                  ptt : {FALSE}]
    /\ cache = [side |-> "unknown", dial |-> [v \in Vfos |-> Unread],
                mode |-> [v \in Vfos |-> Unread]]
    /\ cat = NoCat /\ coming = <<>> /\ inbox = <<>> /\ result = NothingYet
    /\ mishaps = 0 /\ strange = FALSE /\ wrong = {}

Mishap == mishaps < MaxMishaps /\ mishaps' = mishaps + 1
N == result.n + 1

\* What a frame does to a radio that hears it, and what it answers.
Obeyed(f) ==
    CASE f.op = "dial" -> [radio EXCEPT !.dial[IF backend = "ft817" THEN radio.side ELSE "A"] = f.arg]
      [] f.op = "mode" -> [radio EXCEPT !.mode[radio.side] = f.arg]
      [] f.op = "ptt" -> [radio EXCEPT !.ptt = f.arg]
      [] f.op = "toggle" -> [radio EXCEPT !.side = Opposite(@)]
      [] f.op = "off" -> [radio EXCEPT !.on = FALSE]
      [] OTHER -> radio

Say(what, value) == [what |-> what, value |-> value, n |-> N]
Answers(f) ==
    CASE f.op = "status" -> <<Say("dial", radio.dial[radio.side]), Say("mode", radio.mode[radio.side])>>
      [] f.op = "meter" -> <<Say("meter", Unread)>>
      [] f.op \in {"lock", "unlock"} /\ backend = "ft817" -> <<Say("ack", Unread)>>
      [] f.op = "askdial" -> <<Say("dial", radio.dial["A"])>>
      [] f.op = "askmode" -> <<Say("mode", radio.mode[radio.side])>>
      [] OTHER -> <<>>

\* write_frame: a radio that is off hears what switches it on, and nothing else.
Frame(f) ==
    \/ /\ radio.on /\ radio' = Obeyed(f) /\ coming' = coming \o Answers(f) /\ UNCHANGED mishaps
    \/ /\ ~radio.on /\ radio' = [radio EXCEPT !.on = (f.op = "on")]
       /\ UNCHANGED <<coming, mishaps>>
    \/ Mishap /\ UNCHANGED <<radio, coming>>

\* The VFOs remembered that a change behind the back of the memory concerns.
Here == IF cache.side = "unknown" THEN {"A"} ELSE {cache.side}
Concerned(f) ==
    CASE f.op \in {"dial", "mode"} -> Here
      [] f.op = "toggle" -> Vfos
      [] OTHER -> {}

PlainCalls == {"status", "dial", "toggle", "meter", "lock", "off", "on"}

FirstFrame(op, arg) ==
    CASE op \in {"mode", "ptt"} /\ backend = "ft817" -> [op |-> "unlock", arg |-> Unread]
      [] op = "status" /\ backend = "ft450d" -> [op |-> "askdial", arg |-> Unread]
      [] OTHER -> [op |-> op, arg |-> arg]

\* Mutant: a status is asked for over what is left in the buffer.
Clears_Meter(f) == f.op = "meter" /\ backend = "ft450d"

\* Whether the buffer is cleared before the frame is written.
Clears(f) ==
    \/ f.op \in {"status", "askdial", "askmode"}
    \/ f.op = "meter" /\ backend = "ft450d"

Awaits(f) ==
    CASE f.op = "status" -> 2
      [] f.op \in {"meter", "askdial", "askmode"} -> 1
      [] f.op \in {"lock", "unlock"} /\ backend = "ft817" -> 1
      [] OTHER -> 0

\* The frame goes out; one that is missed is remembered as if it had been heard.
Write(f, op, arg, dial, rest) ==
    /\ Frame(f)
    /\ cat' = [op |-> op, arg |-> arg, dial |-> dial,
               at |-> IF Awaits(f) > 0 THEN f.op ELSE "written"]
    /\ inbox' = IF Clears(f) THEN <<>> ELSE rest
    /\ strange' = (strange /\ (op = cat.op \/ ~Clears(f)))
    /\ wrong' = wrong \cup (IF radio' = radio /\ Obeyed(f) # radio THEN Concerned(f) ELSE {})

\* A call of the rig task, up to its first await. The FT-450D cannot toggle.
Calls(op, arg) ==
    /\ cat = NoCat /\ N <= MaxCalls
    /\ ~(op = "toggle" /\ backend = "ft450d")
    /\ Write(FirstFrame(op, arg), op, arg, NoDial, inbox)
    /\ UNCHANGED <<backend, cache, result>>

Arrives ==
    /\ coming # <<>> /\ coming' = Tail(coming) /\ inbox' = Append(inbox, Head(coming))
    /\ strange' = (strange \/ Head(coming).n # N)
    /\ UNCHANGED <<backend, radio, cache, cat, result, mishaps, wrong>>

End(ok, own) ==
    /\ cat' = NoCat
    /\ result' = [ok |-> ok, op |-> cat.op, own |-> own, strange |-> strange, n |-> N]

\* update_vfo_freq: a side that is unknown becomes A, or B when only B is remembered with
\* just this frequency.
Sided(freq) ==
    IF cache.side # "unknown" THEN cache.side
    ELSE IF /\ backend = "ft450d" /\ cache.dial["B"] = freq /\ cache.dial["A"] = Unread
         THEN "B" ELSE "A"

\* get_status remembers what it has read; with its own answer the memory is right again.
Remember(freq, mode, own) ==
    LET v == Sided(freq) IN
    /\ cache' = [side |-> v, dial |-> [cache.dial EXCEPT ![v] = freq],
                 mode |-> [cache.mode EXCEPT ![v] = mode]]
    /\ wrong' = IF own THEN wrong \ {v} ELSE wrong \cup {v}

Forgotten == UNCHANGED <<cache, wrong>>
Taken(k) == SubSeq(inbox, k + 1, Len(inbox))

\* read_status of the FT-817. Bytes of two answers are refused or make some frequency.
StatusRead ==
    LET own == inbox[1].n = N /\ inbox[1].what = "dial" IN
    /\ cat.at = "status" /\ Len(inbox) >= 2 /\ inbox' = Taken(2)
    /\ IF inbox[1].what = "dial"
       THEN End(TRUE, own) /\ Remember(inbox[1].value, inbox[2].value, own)
       ELSE \/ End(FALSE, own) /\ Forgotten
            \/ End(TRUE, own) /\ Remember(Odd, Odd, FALSE)
    /\ UNCHANGED <<backend, radio, coming, mishaps, strange>>

\* read_meter and lock: any byte will do; the FT-450D wants digits that fit.
ByteRead ==
    /\ cat.at \in {"meter", "lock"} /\ inbox # <<>> /\ inbox' = Taken(1)
    /\ End(backend = "ft817" \/ Head(inbox).what # "dial", Head(inbox).n = N)
    /\ UNCHANGED <<backend, radio, cache, coming, mishaps, strange, wrong>>

\* read_freq and read_mode of the FT-450D: the answer must have the right prefix.
DialRead ==
    /\ cat.at = "askdial" /\ inbox # <<>>
    /\ IF Head(inbox).what = "dial"
       THEN /\ Write([op |-> "askmode", arg |-> Unread], "status", Unread,
                     [value |-> Head(inbox).value, n |-> Head(inbox).n], Taken(1))
            /\ UNCHANGED result
       ELSE /\ End(FALSE, FALSE) /\ inbox' = Taken(1)
            /\ UNCHANGED <<radio, coming, mishaps, strange, wrong>>
    /\ UNCHANGED <<backend, cache>>

ModeRead ==
    LET own == cat.dial.n = N /\ Head(inbox).n = N IN
    /\ cat.at = "askmode" /\ inbox # <<>> /\ inbox' = Taken(1)
    /\ IF Head(inbox).what = "mode"
       THEN End(TRUE, own) /\ Remember(cat.dial.value, Head(inbox).value, own)
       ELSE End(FALSE, own) /\ Forgotten
    /\ UNCHANGED <<backend, radio, coming, mishaps, strange>>

\* set_mode and set_ptt go on after their unlock, answered or not, and clear the buffer.
AfterUnlock ==
    /\ cat.at = "unlock"
    /\ (inbox = <<>> /\ Mishap) \/ (inbox # <<>> /\ UNCHANGED mishaps)
    /\ inbox' = <<>> /\ cat' = [cat EXCEPT !.at = "unlocked"]
    /\ UNCHANGED <<backend, radio, cache, coming, result, strange, wrong>>

\* The frame is sent twice, so that one of the two may be missed.
SentTwice ==
    /\ cat.at = "unlocked"
    /\ Write([op |-> cat.op, arg |-> cat.arg], cat.op, cat.arg, NoDial, inbox)
    /\ UNCHANGED <<backend, cache, result>>

\* Mutant: the side is left to the next reading.
CallWritten_KeepsSide ==
    /\ cat.at = "written" /\ End(TRUE, TRUE)
    /\ CASE cat.op = "dial" ->
              cache' = [cache EXCEPT !.side = Sided(cat.arg), !.dial[Sided(cat.arg)] = cat.arg]
         [] cat.op = "mode" ->
              cache' = [cache EXCEPT !.mode[CHOOSE v \in Here : TRUE] = cat.arg]
         [] OTHER -> UNCHANGED cache
    /\ inbox' = IF cat.op = "on" THEN <<>> ELSE inbox
    /\ wrong' = wrong \cup (IF cat.op = "toggle" /\ cache.side = "unknown" THEN {"A"} ELSE {})
    /\ UNCHANGED <<backend, radio, coming, mishaps, strange>>

\* What is remembered after the write. A mode that was set before any VFO had a name is
\* remembered of A, and so is the other VFO after a toggle.
CallWritten ==
    /\ cat.at = "written" /\ End(TRUE, TRUE)
    /\ CASE cat.op = "dial" ->
              cache' = [cache EXCEPT !.side = Sided(cat.arg), !.dial[Sided(cat.arg)] = cat.arg]
         [] cat.op = "mode" ->
              cache' = [cache EXCEPT !.mode[CHOOSE v \in Here : TRUE] = cat.arg]
         [] cat.op = "toggle" -> cache' = [cache EXCEPT !.side = Opposite(@)]
         [] OTHER -> UNCHANGED cache
    /\ inbox' = IF cat.op = "on" THEN <<>> ELSE inbox
    /\ wrong' = wrong \cup (IF cat.op = "toggle" /\ cache.side = "unknown" THEN {"A"} ELSE {})
    /\ UNCHANGED <<backend, radio, coming, mishaps, strange>>

\* 800 ms without an answer. What was read of it is lost.
ReadTimesOut ==
    /\ cat.at \in {"status", "meter", "lock", "askdial", "askmode"}
    /\ Len(inbox) < (IF cat.at = "status" THEN 2 ELSE 1)
    /\ inbox' = <<>> /\ End(cat.op = "lock", FALSE) /\ Mishap
    /\ UNCHANGED <<backend, radio, cache, coming, strange, wrong>>

\* The rig task drops the call: after a write the memory stays behind the radio.
CallDropped ==
    /\ cat # NoCat /\ Mishap /\ End(FALSE, FALSE)
    /\ inbox' = IF cat.at \in {"written", "unlocked"} THEN inbox ELSE <<>>
    /\ wrong' = wrong \cup (IF cat.at = "written" THEN Concerned(cat) ELSE {})
    /\ UNCHANGED <<backend, radio, cache, coming, strange>>

\* The operator turns the dial, selects the other VFO or switches the radio off or on.
AtThePanel ==
    /\ Mishap /\ cat = NoCat
    /\ \/ /\ \E d \in Tunings : radio' = [radio EXCEPT !.dial[radio.side] = d]
          /\ wrong' = wrong \cup Here
       \/ radio' = [radio EXCEPT !.side = Opposite(@)] /\ wrong' = Vfos
       \/ radio' = [radio EXCEPT !.on = ~@] /\ UNCHANGED wrong
    /\ radio' # radio
    /\ UNCHANGED <<backend, cache, cat, coming, inbox, result, strange>>

CatNext ==
    \/ \E op \in PlainCalls \ {"dial"} : Calls(op, Unread)
    \/ \E d \in Tunings : Calls("dial", d)
    \/ \E d \in Modulations : Calls("mode", d)
    \/ \E p \in BOOLEAN : Calls("ptt", p)
    \/ Arrives \/ StatusRead \/ ByteRead \/ DialRead \/ ModeRead \/ AfterUnlock \/ SentTwice
    \/ CallWritten \/ ReadTimesOut \/ CallDropped \/ AtThePanel

CatSpec == CatInit /\ [][CatNext]_catVars
------------------------------------------------------------------------------
\* A status that is reported was read from its own answer, whatever older calls have left
\* behind, unless an older answer came after the buffer was cleared; a meter reading of the
\* FT-450D too, while the FT-817 takes whatever byte is left for its meter.
OwnStatus ==
    /\ result.op = "status" /\ result.ok => (result.own \/ result.strange)
    /\ result.op = "meter" /\ result.ok /\ backend = "ft450d" => (result.own \/ result.strange)

\* The VFO of the radio that stands behind a remembered one: the labels may be swapped, as
\* the session calls the first one it meets A. The FT-450D always asks for VFO A.
StandsBehind(v) ==
    IF backend = "ft450d" THEN v ELSE IF v = cache.side THEN radio.side ELSE Opposite(radio.side)

\* Between two calls the memory of both VFOs is what the radio has, through toggles,
\* settings and readings in any order; after a mishap it is so again for a VFO that has
\* been read.
RemembersRight ==
    cat = NoCat =>
        \A v \in Vfos \ wrong : cache.dial[v] # Unread =>
            /\ cache.dial[v] = radio.dial[StandsBehind(v)]
            /\ backend = "ft817" /\ cache.mode[v] # Unread =>
                  cache.mode[v] = radio.mode[StandsBehind(v)]

\* A frequency is never remembered of a VFO that has no name yet.
NamedFirst == cache.side = "unknown" => \A v \in Vfos : cache.dial[v] = Unread

\* The session: types, answers that are its own, and a memory that is right again once a
\* VFO has been read.
CatInv == CatTypeOK /\ OwnStatus /\ RemembersRight /\ NamedFirst
=============================================================================
