----------------------------- MODULE LineCodec -----------------------------
(***************************************************************************)
(* The framing of a connection's bytes into lines: LineCodec               *)
(* (aprsr-server/src/codec.rs) driven by a FramedRead of tokio-util, which *)
(* calls the decoder until it asks for more, reads, and at the end of the  *)
(* stream calls decode_eof until nothing is left.                          *)
(*                                                                         *)
(* Of a byte it matters whether it is the newline, the carriage return,    *)
(* part of a text, or makes a line invalid UTF-8.  One step is one turn of *)
(* the loop in `decode`.                                                   *)
(***************************************************************************)
EXTENDS Integers, Sequences, FiniteSets, SequencesExt

CONSTANTS
  MaxLength,    \* max_length
  MaxRead,      \* bound: bytes one read returns
  MaxBytes      \* bound: bytes the peer sends

Byte == {"text", "CR", "LF", "bad"}

ASSUME LineCodecConstants ==
  MaxLength \in Nat /\ MaxRead \in Nat \ {0} /\ MaxBytes \in Nat

VARIABLES
  buffer,       \* the BytesMut of FramedRead
  discarding,   \* inside the tail of an over-long line
  scanned,      \* next_index: how much of the buffer holds no newline
  phase,        \* "read", "decode", "decode_eof", "ended"
  sent,         \* history: all bytes read
  out           \* history: the lines returned

codecVars == <<buffer, discarding, scanned>>
vars == <<codecVars, phase, sent, out>>

-----------------------------------------------------------------------------

(* A line as returned: its bytes, or the reason it has none.               *)
Oversized == <<"Oversized">>
NotUtf8 == <<"NotUtf8">>

(* decode_line and strip_carriage_return                                   *)
Decoded(line) ==
  IF \E i \in DOMAIN line : line[i] = "bad" THEN NotUtf8
  ELSE IF line # <<>> /\ Last(line) = "CR" THEN Front(line) ELSE line

Window == scanned + 1 .. (IF Len(buffer) > MaxLength THEN MaxLength + 1 ELSE Len(buffer))

Newlines == {i \in Window : buffer[i] = "LF"}

Newline == CHOOSE i \in Newlines : \A j \in Newlines : i <= j

Init ==
  /\ buffer = <<>>
  /\ discarding = FALSE
  /\ scanned = 0
  /\ phase = "read"
  /\ sent = <<>>
  /\ out = <<>>

(* FramedRead: more bytes, or the end of the stream.                       *)
Read ==
  /\ phase = "read"
  /\ \E n \in 1 .. MaxRead : \E bytes \in [1 .. n -> Byte] :
       /\ Len(sent) + n <= MaxBytes
       /\ buffer' = buffer \o bytes
       /\ sent' = sent \o bytes
  /\ phase' = "decode"
  /\ UNCHANGED <<discarding, scanned, out>>

Close ==
  /\ phase = "read"
  /\ phase' = "decode_eof"
  /\ UNCHANGED <<codecVars, sent, out>>

-----------------------------------------------------------------------------
(* decode: the arms of its match.                                          *)

Decoding == phase \in {"decode", "decode_eof"}

(* A decoder that returned None waits for bytes, or has seen the last.     *)
AskForMore == phase' = IF phase = "decode" THEN "read" ELSE "ended"

EndDiscard ==
  /\ Decoding /\ discarding /\ Newlines # {}
  /\ buffer' = SubSeq(buffer, Newline + 1, Len(buffer))
  /\ discarding' = FALSE
  /\ scanned' = 0
  /\ UNCHANGED <<phase, sent, out>>

DiscardNothing ==    \* mutant: the bytes are not consumed
  /\ Decoding /\ discarding /\ Newlines = {}
  /\ scanned' = 0
  /\ IF buffer = <<>> THEN AskForMore ELSE UNCHANGED phase
  /\ UNCHANGED <<buffer, discarding, sent, out>>

Discard ==
  /\ Decoding /\ discarding /\ Newlines = {}
  /\ buffer' = SubSeq(buffer, MaxLength + 2, Len(buffer))
  /\ scanned' = 0
  /\ IF buffer' = <<>> THEN AskForMore ELSE UNCHANGED phase
  /\ UNCHANGED <<discarding, sent, out>>

CompleteUnreset ==    \* mutant: the next line is scanned from where this was
  /\ Decoding /\ ~ discarding /\ Newlines # {}
  /\ buffer' = SubSeq(buffer, Newline + 1, Len(buffer))
  /\ out' = Append(out, Decoded(SubSeq(buffer, 1, Newline - 1)))
  /\ UNCHANGED <<discarding, scanned, phase, sent>>

Complete ==
  /\ Decoding /\ ~ discarding /\ Newlines # {}
  /\ buffer' = SubSeq(buffer, Newline + 1, Len(buffer))
  /\ scanned' = 0
  /\ out' = Append(out, Decoded(SubSeq(buffer, 1, Newline - 1)))
  /\ UNCHANGED <<discarding, phase, sent>>

OverlongByTwo == Len(buffer) > MaxLength + 1    \* mutant
Overlong == Len(buffer) > MaxLength

Oversize ==
  /\ Decoding /\ ~ discarding /\ Newlines = {} /\ Overlong
  /\ discarding' = TRUE
  /\ out' = Append(out, Oversized)
  /\ UNCHANGED <<buffer, scanned, phase, sent>>

(* None: decode_eof still takes a last line without its newline.           *)
WaitForMore ==
  /\ phase = "decode" /\ ~ discarding /\ Newlines = {} /\ ~ Overlong
  /\ scanned' = Len(buffer)
  /\ AskForMore
  /\ UNCHANGED <<buffer, discarding, sent, out>>

LastLine ==
  /\ phase = "decode_eof" /\ ~ discarding /\ Newlines = {} /\ ~ Overlong
  /\ buffer' = <<>>
  /\ scanned' = 0
  /\ IF buffer = <<>> THEN AskForMore /\ UNCHANGED out
     ELSE out' = Append(out, Decoded(buffer)) /\ UNCHANGED phase
  /\ UNCHANGED <<discarding, sent>>

Decode ==
  EndDiscard \/ Discard \/ Complete \/ Oversize \/ WaitForMore \/ LastLine

Next == Read \/ Close \/ Decode

(* The codec is called as long as it has something to do; nobody has to    *)
(* send.                                                                   *)
Spec == Init /\ [][Next]_vars /\ WF_vars(Decode)

-----------------------------------------------------------------------------
(* What a stream of bytes says, however it was cut into reads.             *)

Ends(bytes) == {i \in DOMAIN bytes : bytes[i] = "LF"}

Start(bytes, end) ==
  LET before == {i \in Ends(bytes) : i < end} IN
  IF before = {} THEN 1 ELSE 1 + CHOOSE i \in before : \A j \in before : j <= i

LineTo(bytes, end) == SubSeq(bytes, Start(bytes, end), end - 1)

ItemOf(line) == IF Len(line) > MaxLength THEN Oversized ELSE Decoded(line)

Unended(bytes) == LineTo(bytes, Len(bytes) + 1)

(* The how manieth line it is that ends, or would end, at a byte.          *)
Rank(bytes, end) == Cardinality({i \in Ends(bytes) : i <= end})

(* How many lines there are when the stream is closed, or is not yet.      *)
Lines(bytes, closed) ==
  Cardinality(Ends(bytes))
    + (IF Len(Unended(bytes)) > MaxLength \/ (closed /\ Unended(bytes) # <<>>)
       THEN 1 ELSE 0)

(* The lines are the first of those that the bytes say.                    *)
AsSent(lines, bytes, closed) ==
  /\ Len(lines) <= Lines(bytes, closed)
  /\ \A end \in Ends(bytes) :
       Rank(bytes, end) <= Len(lines) => lines[Rank(bytes, end)] = ItemOf(LineTo(bytes, end))
  /\ Len(lines) > Cardinality(Ends(bytes)) => Last(lines) = ItemOf(Unended(bytes))

-----------------------------------------------------------------------------

TypeOK ==
  /\ buffer \in Seq(Byte)
  /\ discarding \in BOOLEAN
  /\ scanned \in 0 .. MaxLength
  /\ phase \in {"read", "decode", "decode_eof", "ended"}
  /\ sent \in Seq(Byte)
  /\ out \in Seq(Seq(Byte) \cup {Oversized, NotUtf8})

(* The lines returned are those of the stream, in order, whatever the      *)
(* boundaries of the reads were: at any time the first of them, and all of *)
(* them when the codec asks for more.  An over-long line is one Oversized  *)
(* and takes nothing of the next line with it.                             *)
FramedAsSent ==
  /\ AsSent(out, sent, phase \in {"decode_eof", "ended"})
  /\ phase \in {"read", "ended"} => Len(out) = Lines(sent, phase = "ended")

(* A line without end takes no memory: between reads the buffer holds no   *)
(* more than a line, and nothing at all of an over-long one.               *)
BufferIsBounded ==
  phase = "read" => /\ Len(buffer) <= MaxLength
                    /\ discarding => buffer = <<>>

(* What the two rest on.  The buffer is what was read and not consumed,    *)
(* its scanned part without a newline, and between reads it is all         *)
(* scanned.  A line starts behind a newline, and the lines that end before *)
(* it are returned; it is that of the buffer unless it is returned itself: *)
(* as over-long, its rest being discarded, or as the last of the stream.   *)
Consumed == Len(sent) - Len(buffer)

BufferIsRest ==
  /\ Consumed \in 0 .. Len(sent)
  /\ \A i \in 1 .. Len(buffer) : buffer[i] = sent[Consumed + i]
  /\ scanned <= Len(buffer)
  /\ \A i \in 1 .. scanned : buffer[i] # "LF"
  /\ phase = "read" => IF discarding THEN buffer = <<>> ELSE scanned = Len(buffer)
  /\ phase = "ended" => buffer = <<>>

NoNewline(first, last) == \A i \in first .. last : sent[i] # "LF"

StartsBehind(s) ==
  /\ s \in 0 .. Consumed /\ (s > 0 => sent[s] = "LF")
  /\ \A end \in Ends(sent) : end <= s => out[Rank(sent, end)] = ItemOf(LineTo(sent, end))

ReturnedFrom(s) ==
  /\ StartsBehind(s) /\ NoNewline(s + 1, Consumed)
  /\ Len(out) = Rank(sent, s) + 1

InLine == StartsBehind(Consumed) /\ Len(out) = Rank(sent, Consumed)

InOverlong ==
  \E s \in 0 .. Consumed :
    /\ ReturnedFrom(s) /\ out[Len(out)] = Oversized
    /\ s + MaxLength < Len(sent) /\ NoNewline(s + 1, s + MaxLength + 1)

InLast ==
  /\ phase \in {"decode_eof", "ended"} /\ buffer = <<>>
  /\ \E s \in 0 .. Consumed - 1 :
       ReturnedFrom(s) /\ out[Len(out)] = ItemOf(SubSeq(sent, s + 1, Len(sent)))

LineCodecInv ==
  /\ TypeOK /\ BufferIsRest
  /\ IF discarding THEN InOverlong ELSE InLine \/ InLast

(* Every call of the decoder returns: its loop never spins.                *)
DecodeReturns == Decoding ~> ~ Decoding
=============================================================================
