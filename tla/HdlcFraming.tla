----------------------------- MODULE HdlcFraming -----------------------------
(* The framing of the AIS and APRS decoders (trx-ais and trx-aprs, lib.rs): *)
(* the symbols of the slicer, one after the other, through NRZI, the count  *)
(* of ones, flags, aborts and stuffed bits to frames of whole bytes.        *)
(*                                                                          *)
(* The station is the environment: noise, then frames with one flag between *)
(* two of them. The receiver may slip a symbol, and the energy gate of APRS *)
(* may forget everything. Bytes have ByteBits bits; the checksum, which     *)
(* refuses frames of noise, is left out.                                    *)
EXTENDS Integers, Sequences, FiniteSets, SequencesExt

CONSTANTS Payloads,   \* frames with their checksum: sequences of bits
          Noises,     \* what is heard before the first flag
          ByteBits,   \* bits of a byte
          Shortest,   \* per decoder: the bytes of its shortest frame
          MaxFrames,  \* bound: frames of a transmission
          MaxSlips    \* bound: symbols lost, and quiet moments

\* A frame is whole bytes, and a byte is more than the zero a flag begins with.
ASSUME HdlcAssumption ==
    /\ Payloads \cup Noises \subseteq Seq({0, 1}) /\ ByteBits \in Nat \ {0, 1}
    /\ \A p \in Payloads : Len(p) % ByteBits = 0
    /\ Shortest \in [{"ais", "aprs"} -> Nat] /\ {MaxFrames, MaxSlips} \subseteq Nat

VARIABLES
    demod,      \* "ais" or "aprs"
    noise, sent,   \* what is transmitted: noise, and the frames
    due,     \* the next bit: [part, number, at, run, level], run: ones in a row so far
    prev_raw_bit, ones, in_frame, frame_bits,
    frames,     \* frames found: [bits, of], of the frames the last symbol belongs to
    slips,      \* bounded counter
    disturbed   \* history: the frames that a slip or a quiet moment has hit

hdlcVars == <<demod, noise, sent, due, prev_raw_bit, ones, in_frame, frame_bits, frames, slips,
              disturbed>>

-----------------------------------------------------------------------------
(* The station: noise, then flag 1, frame 1, flag 2, frame 2, ... and a last *)
(* flag.                                                                    *)

Flag == <<0, 1, 1, 1, 1, 1, 1, 0>>

\* A zero is stuffed after five ones.
Bit ==
    CASE due.part = "noise" -> noise[due.at]
      [] due.part = "flag" -> Flag[due.at]
      [] due.part = "frame" /\ due.run = 5 -> 0
      [] OTHER -> sent[due.number][due.at]

\* A flag belongs to the frames on both of its sides.
Belongs(place) ==
    CASE place.part = "flag" -> {place.number - 1, place.number}
      [] place.part = "frame" -> {place.number}
      [] OTHER -> {}

FlagFrom(n, level) == [part |-> "flag", number |-> n, at |-> 1, run |-> 0, level |-> level]

\* The flag follows when the frame and its last stuffed zero are through.
FrameFrom(n, at, run, level) ==
    IF at > Len(sent[n]) /\ run # 5 THEN FlagFrom(n + 1, level)
    ELSE [part |-> "frame", number |-> n, at |-> at, run |-> run, level |-> level]

\* NRZI: a zero is a change of the level.
Keyed(bit) == IF bit = 1 THEN due.level ELSE 1 - due.level

Transmits ==
    LET level == Keyed(Bit)  on == [due EXCEPT !.at = @ + 1, !.level = level]  n == due.number IN
    /\ due.part # "over"
    /\ due' =
        CASE due.part = "noise" -> IF due.at = Len(noise) THEN FlagFrom(1, level) ELSE on
          [] due.part = "flag" /\ due.at < 8 -> on
          [] due.part = "flag" /\ due.at = 8 ->
                IF n \in DOMAIN sent THEN FrameFrom(n, 1, 0, level)
                ELSE [on EXCEPT !.part = "over"]
          [] due.part = "frame" /\ due.run = 5 -> FrameFrom(n, due.at, 0, level)
          [] OTHER -> FrameFrom(n, due.at + 1, IF Bit = 1 THEN due.run + 1 ELSE 0, level)

ResetState == prev_raw_bit = 0 /\ ones = 0 /\ in_frame = FALSE /\ frame_bits = <<>>

HdlcInit ==
    /\ demod \in {"ais", "aprs"} /\ noise \in Noises
    /\ sent \in UNION {[1..n -> Payloads] : n \in 1..MaxFrames}
    /\ due = IF noise = <<>> THEN FlagFrom(1, 0)
                ELSE [part |-> "noise", number |-> 1, at |-> 1, run |-> 0, level |-> 0]
    /\ ResetState /\ frames = <<>> /\ slips = 0 /\ disturbed = {}

HdlcTypeOK ==
    /\ demod \in {"ais", "aprs"} /\ prev_raw_bit \in {0, 1} /\ ones \in Nat
    /\ in_frame \in BOOLEAN /\ frame_bits \in Seq({0, 1}) /\ slips \in 0..MaxSlips
    /\ due.number \in 1..Len(sent) + 1 /\ due.level \in {0, 1} /\ due.run \in 0..5
    /\ \A f \in ToSet(frames) : f.bits \in Seq({0, 1})

-----------------------------------------------------------------------------
(* The decoder.                                                             *)

Ones(n) == [i \in 1..n |-> 1]

\* bits_to_frame and bits_to_bytes: whole bytes, and enough of them.
WholeBytes(bits) == SubSeq(bits, 1, Len(bits) - (Len(bits) % ByteBits))
FrameOf(bits, numbers) ==
    IF Len(bits) \div ByteBits < Shortest[demod] THEN <<>>
    ELSE <<[bits |-> WholeBytes(bits), of |-> numbers]>>

\* Mutant: after a frame the decoder waits for a flag of its own.
Flagged_Closes(numbers) ==
    /\ frames' = IF in_frame THEN frames \o FrameOf(frame_bits, numbers) ELSE frames
    /\ frame_bits' = <<>> /\ in_frame' = ~in_frame

\* A flag ends a frame, if there is one, and begins the next.
Flagged(numbers) ==
    /\ frames' = IF in_frame THEN frames \o FrameOf(frame_bits, numbers) ELSE frames
    /\ frame_bits' = <<>> /\ in_frame' = TRUE

Aborted == in_frame' = FALSE /\ frame_bits' = <<>> /\ UNCHANGED frames

Collected(bits) ==
    /\ frame_bits' = IF in_frame THEN frame_bits \o bits ELSE frame_bits
    /\ UNCHANGED <<in_frame, frames>>

\* process_symbol and process_bit: ones are counted, a zero says what they were.
Symbol(level, numbers) ==
    /\ prev_raw_bit' = level
    /\ IF level = prev_raw_bit
       THEN ones' = ones + 1 /\ UNCHANGED <<in_frame, frame_bits, frames>>
       ELSE /\ ones' = 0
            /\ CASE ones >= 7 -> Aborted
                 [] ones = 6 -> Flagged(numbers)
                 [] ones = 5 -> Collected(Ones(5))
                 [] OTHER -> Collected(Append(Ones(ones), 0))

Hears ==
    /\ Transmits /\ Symbol(Keyed(Bit), Belongs(due))
    /\ UNCHANGED <<demod, noise, sent, slips, disturbed>>

\* The clock slips by a symbol; the next one is then compared with the one before.
Slips ==
    /\ slips < MaxSlips /\ slips' = slips + 1
    /\ Transmits /\ disturbed' = disturbed \cup Belongs(due) \cup Belongs(due')
    /\ UNCHANGED <<demod, noise, sent, prev_raw_bit, ones, in_frame, frame_bits, frames>>

\* The energy gate of the APRS decoder: reset_state.
Quiet ==
    /\ demod = "aprs" /\ slips < MaxSlips /\ slips' = slips + 1
    /\ prev_raw_bit' = 0 /\ ones' = 0 /\ in_frame' = FALSE /\ frame_bits' = <<>>
    /\ disturbed' = disturbed \cup Belongs(due)
    /\ UNCHANGED <<demod, noise, sent, due, frames>>

HdlcNext == Hears \/ Slips \/ Quiet

HdlcSpec == HdlcInit /\ [][HdlcNext]_hdlcVars
-----------------------------------------------------------------------------
\* The frame and the flags on its sides are through.
Passed(i) ==
    \/ due.part = "over" \/ due.number > i + 1
    \/ due.part = "frame" /\ due.number = i + 1

FoundFor(i) == {n \in DOMAIN frames : {i, i + 1} \subseteq frames[n].of}

\* Whatever noise, slips and resets come before and after, a frame that is itself heard
\* from flag to flag is found exactly once and bit for bit, unless it is shorter than the
\* decoder's shortest; a flag shared by two frames serves both.
FramesExact ==
    \A i \in DOMAIN sent :
        Passed(i) /\ i \notin disturbed =>
            IF Len(sent[i]) \div ByteBits >= Shortest[demod]
            THEN \E n \in DOMAIN frames : FoundFor(i) = {n} /\ frames[n].bits = sent[i]
            ELSE FoundFor(i) = {}

\* The framing: types, and frames found as they were sent.
HdlcInv == HdlcTypeOK /\ FramesExact
=============================================================================
