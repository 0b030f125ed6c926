----------------------------- MODULE FrameCodec -----------------------------
(***************************************************************************)
(* One direction of a call's stream, octet by octet: encode and decode of  *)
(* uat-core (codec.rs) with write_message and read_message of uat-node     *)
(* (frame_io.rs) around them.  The stream keeps octets, not frames: the    *)
(* reader gets them in pieces of any size, a read may be dropped between   *)
(* two pieces by the select! it stands in, a write may be given up half-   *)
(* way when its time is over, and the connection may be lost or closed     *)
(* with octets still under way.                                            *)
(*                                                                         *)
(* The widths of the two length fields are the code's; an octet has Base   *)
(* values instead of 256 and the two maxima are small.  A message is the   *)
(* JSON document of its header and a body.  Which documents parse, and as  *)
(* what, is a constant: serde_json is external.                            *)
(***************************************************************************)
EXTENDS SequencesExt, Naturals

CONSTANTS
  Base,         \* values of an octet
  MAX_FRAME, MAX_HDR_LEN,
  KindOf,       \* documents that parse: "Submit", "Body" (Input, Completed), "Plain"
  Bodies,       \* bodies a message may have
  MaxSent       \* bound: messages sent

LenSize == 4
HdrSize == 2
Word    == Base * Base   \* values of a u16; a u32 has Word * Word

ASSUME FrameCodecAssumption ==
  /\ Base \in Nat \ {0, 1}
  /\ MAX_FRAME \in 0 .. Word * Word - 1 /\ MAX_HDR_LEN \in 0 .. Word - 1
  /\ DOMAIN KindOf \subseteq Seq(0 .. Base - 1)
  /\ \A doc \in DOMAIN KindOf : KindOf[doc] \in {"Submit", "Body", "Plain"}
  /\ << >> \in Bodies /\ Bodies \subseteq Seq(0 .. Base - 1)
  /\ MaxSent \in Nat

Octets  == Seq(0 .. Base - 1)
Message == {m \in [doc : DOMAIN KindOf, body : Bodies] :
              KindOf[m.doc] = "Plain" => m.body = << >>}

VARIABLES
  sent,     \* messages written in full
  stream,   \* octets written and not yet taken by the reader
  ended,    \* the writer has finished the stream, or was dropped
  lost,     \* the connection is lost, or closed by either end
  got,      \* what the current read has of its frame
  read,     \* messages returned by read_message
  result,   \* "reading", or the error that ended the reading
  torn,     \* a read was dropped with part of a frame
  allowed   \* what the SubmitAuthorizer answers

vars == <<sent, stream, ended, lost, got, read, result, torn, allowed>>

CodecError == {"FrameTooLarge", "Truncated", "BadLength", "MalformedHeader", "SubmitDenied"}
ReadError  == CodecError \cup {"UnexpectedEnd", "Read"}

-----------------------------------------------------------------------------
(* to_be_bytes of the two length fields.                                   *)
U16(n) == <<(n \div Base) % Base, n % Base>>
U32(n) == U16(n \div Word) \o U16(n % Word)

Payload(m) == HdrSize + Len(m.doc) + Len(m.body)

Frame(m) == U32(Payload(m)) \o U16(Len(m.doc)) \o m.doc \o m.body

MutEncodes(m) ==  \* mutant: the header is bounded by the width of its field
  Len(m.doc) < Word /\ Payload(m) <= MAX_FRAME

(* encode returns HeaderTooLarge or EncodeTooLarge otherwise.              *)
Encodes(m) == Len(m.doc) <= MAX_HDR_LEN /\ Payload(m) <= MAX_FRAME

(* from_be_bytes.                                                          *)
FrameLen(buf) == (buf[1] * Base + buf[2]) * Word + (buf[3] * Base + buf[4])
HdrLen(buf)   == buf[5] * Base + buf[6]

MutDocOf(buf) ==  \* mutant: the header starts behind the frame length
  SubSeq(buf, LenSize + 1, LenSize + HdrLen(buf))

(* The two parts decode_parts splits a frame into.  Octets behind the      *)
(* frame are not looked at.                                                *)
DocOf(buf) == SubSeq(buf, LenSize + HdrSize + 1, LenSize + HdrSize + HdrLen(buf))

BodyOf(buf) == SubSeq(buf, LenSize + HdrSize + HdrLen(buf) + 1, LenSize + FrameLen(buf))

MutOverruns(buf) ==  \* mutant: a header may not fill its frame
  FrameLen(buf) <= HdrSize + HdrLen(buf)

Overruns(buf) == FrameLen(buf) < HdrSize + HdrLen(buf)

(* decode_parts and finish_body: the first test that fails decides.        *)
DecodeError(buf) ==
  IF Len(buf) < LenSize                                      THEN "Truncated"
  ELSE IF FrameLen(buf) > MAX_FRAME                          THEN "FrameTooLarge"
  ELSE IF Len(buf) < LenSize + FrameLen(buf)                 THEN "Truncated"
  ELSE IF FrameLen(buf) < HdrSize                            THEN "BadLength"
  ELSE IF HdrLen(buf) > MAX_HDR_LEN                          THEN "FrameTooLarge"
  ELSE IF Overruns(buf)                                      THEN "BadLength"
  ELSE IF DocOf(buf) \notin DOMAIN KindOf                    THEN "MalformedHeader"
  ELSE IF KindOf[DocOf(buf)] = "Submit" /\ ~allowed          THEN "SubmitDenied"
  ELSE IF KindOf[DocOf(buf)] = "Plain" /\ BodyOf(buf) # << >> THEN "BadLength"
  ELSE "none"

-----------------------------------------------------------------------------
Init ==
  /\ sent = << >> /\ stream = << >> /\ ended = FALSE /\ lost = FALSE
  /\ got = << >> /\ read = << >> /\ result = "reading"
  /\ torn = FALSE /\ allowed \in BOOLEAN

(* The writer: write_message, and what ends its stream.                    *)
Writes(m) ==
  /\ ~ended /\ ~lost /\ Len(sent) < MaxSent /\ Encodes(m)
  /\ sent' = Append(sent, m)
  /\ stream' = stream \o Frame(m)
  /\ UNCHANGED <<ended, lost, got, read, result, torn, allowed>>

(* A message that encode refuses ends the call, and with it the stream.    *)
Refuses(m) ==
  /\ ~ended /\ ~lost /\ ~Encodes(m)
  /\ ended' = TRUE
  /\ UNCHANGED <<sent, stream, lost, got, read, result, torn, allowed>>

(* write_all is dropped when its time is over, and the stream with it.     *)
GivesUp(m) ==
  /\ ~ended /\ ~lost /\ Len(sent) < MaxSent /\ Encodes(m)
  /\ \E n \in 0 .. Len(Frame(m)) - 1 : stream' = stream \o SubSeq(Frame(m), 1, n)
  /\ ended' = TRUE
  /\ UNCHANGED <<sent, lost, got, read, result, torn, allowed>>

Finishes ==
  /\ ~ended /\ ~lost
  /\ ended' = TRUE
  /\ UNCHANGED <<sent, stream, lost, got, read, result, torn, allowed>>

(* The network fails, or an end closes the connection: nothing is written  *)
(* any more, and what was written may never arrive.                        *)
Loses ==
  /\ ~lost
  /\ lost' = TRUE
  /\ UNCHANGED <<sent, stream, ended, got, read, result, torn, allowed>>

-----------------------------------------------------------------------------
(* The reader: read_frame takes the length field, rejects it or makes room *)
(* for what it says, and takes that; decode follows without a pause.       *)
MutTooLong ==  \* mutant: room is made for any length
  FALSE

TooLong == Len(got) = LenSize /\ FrameLen(got) > MAX_FRAME

MutNeed ==  \* mutant: one octet more than the length says
  IF Len(got) < LenSize THEN LenSize ELSE LenSize + FrameLen(got) + 1

Need == IF Len(got) < LenSize THEN LenSize ELSE LenSize + FrameLen(got)

Waits    == result = "reading" /\ ~TooLong /\ Len(got) < Need
HasFrame == result = "reading" /\ ~TooLong /\ Len(got) = Need

Takes ==
  /\ Waits
  /\ \E n \in 1 .. Need - Len(got) :
       /\ n <= Len(stream)
       /\ got' = got \o SubSeq(stream, 1, n)
       /\ stream' = SubSeq(stream, n + 1, Len(stream))
  /\ UNCHANGED <<sent, ended, lost, read, result, torn, allowed>>

RejectsLength ==
  /\ result = "reading" /\ TooLong
  /\ result' = "FrameTooLarge"
  /\ UNCHANGED <<sent, stream, ended, lost, got, read, torn, allowed>>

Returns ==
  /\ HasFrame /\ DecodeError(got) = "none"
  /\ read' = Append(read, [doc |-> DocOf(got), body |-> BodyOf(got)])
  /\ got' = << >>
  /\ UNCHANGED <<sent, stream, ended, lost, result, torn, allowed>>

RejectsFrame ==
  /\ HasFrame /\ DecodeError(got) # "none"
  /\ result' = DecodeError(got)
  /\ UNCHANGED <<sent, stream, ended, lost, got, read, torn, allowed>>

(* map_read_exact: a stream that finished early, or anything else.         *)
StreamEnds ==
  /\ Waits /\ ended /\ stream = << >>
  /\ result' = "UnexpectedEnd"
  /\ UNCHANGED <<sent, stream, ended, lost, got, read, torn, allowed>>

ReadFails ==
  /\ Waits /\ lost
  /\ result' = "Read"
  /\ UNCHANGED <<sent, stream, ended, lost, got, read, torn, allowed>>

ReaderStep ==
  Takes \/ RejectsLength \/ Returns \/ RejectsFrame \/ StreamEnds \/ ReadFails

(* Another branch of the select! wins, and the read future goes with what  *)
(* it has taken.  The next read_message starts over.                       *)
DropsRead ==
  /\ Waits /\ got # << >>
  /\ got' = << >> /\ torn' = TRUE
  /\ UNCHANGED <<sent, stream, ended, lost, read, result, allowed>>

Next ==
  \/ \E m \in Message : Writes(m) \/ Refuses(m) \/ GivesUp(m)
  \/ Finishes
  \/ Loses
  \/ ReaderStep
  \/ DropsRead

Spec == Init /\ [][Next]_vars /\ WF_vars(ReaderStep)

-----------------------------------------------------------------------------
(* The reader never holds more than the largest frame, whatever length it  *)
(* finds on the stream (F1, F2).                                           *)
TypeOK ==
  /\ sent \in Seq(Message) /\ Len(sent) <= MaxSent
  /\ stream \in Octets /\ ended \in BOOLEAN /\ lost \in BOOLEAN
  /\ got \in Octets /\ Len(got) <= LenSize + MAX_FRAME
  /\ read \in Seq([doc : DOMAIN KindOf, body : Octets])
  /\ result \in ReadError \cup {"reading"}
  /\ torn \in BOOLEAN /\ allowed \in BOOLEAN

(* What read_message returned is what write_message was given, in order,   *)
(* however the octets were split on the way, as long as no read was        *)
(* dropped half-way (call.rs:347 may drop one).                            *)
InSync == ~torn => IsPrefix(read, sent)

(* A reader that dropped nothing finds no fault with what a conforming     *)
(* writer wrote.  It reports a stream that ended early only when there is  *)
(* no whole frame left on it, whatever piece a given-up write left behind  *)
(* and whenever the end came; it may leave whole frames unread only when   *)
(* the connection is gone (a close may overtake them), or at a Submit that *)
(* is not allowed.                                                         *)
FailsForCause ==
  result # "reading" /\ ~torn =>
    \/ result = "UnexpectedEnd" /\ ended /\ read = sent
    \/ result = "Read" /\ lost
    \/ /\ result = "SubmitDenied" /\ ~allowed
       /\ KindOf[sent[Len(read) + 1].doc] = "Submit"

(* encode and decode draw the same line: of the messages whose lengths can *)
(* be written in their fields, one is refused where it is written exactly  *)
(* when its frame would be rejected where it is read.                      *)
Fits(m) == Len(m.doc) < Word /\ Payload(m) < Word * Word

SameBounds ==
  \A m \in Message : Fits(m) =>
    (Encodes(m) <=> DecodeError(Frame(m)) \in {"none", "SubmitDenied"})

(* No frame is left on the stream waiting for octets that do not belong to *)
(* it: what was written in full is read, or the reading has failed.        *)
SentIsRead ==
  \A n \in 1 .. MaxSent :
    Len(sent) >= n ~> Len(read) >= n \/ torn \/ result # "reading"

=============================================================================
