-------------------------- MODULE FrameCodecProofs --------------------------
(***************************************************************************)
(* A frame is decoded to the message it was encoded from, and a stream of  *)
(* frames is split where they were joined: machine-checked for octets of   *)
(* any number of values, any maxima that their fields can hold, and any    *)
(* documents and bodies.                                                   *)
(***************************************************************************)
EXTENDS FrameCodec, SequenceTheorems, TLAPS

-----------------------------------------------------------------------------
(* Length fields.                                                          *)

LEMMA Numbers ==
  /\ Base \in Nat \ {0} /\ Word \in Nat \ {0} /\ Word * Word \in Nat \ {0}
  /\ MAX_FRAME \in Nat /\ MAX_HDR_LEN \in Nat
  /\ MAX_FRAME < Word * Word /\ MAX_HDR_LEN < Word
<1>1. Base \in Nat \ {0} /\ Word \in Nat \ {0}
  BY FrameCodecAssumption DEF Word
<1>2. Word * Word \in Nat \ {0}
  <2>. HIDE DEF Word
  <2> QED BY <1>1
<1> QED BY <1>1, <1>2, FrameCodecAssumption

(* The two digits of a number in base d.                                   *)
LEMMA Digits ==
  ASSUME NEW d \in Nat \ {0}, NEW n \in 0 .. d * d - 1
  PROVE  /\ n \div d \in 0 .. d - 1 /\ n % d \in 0 .. d - 1
         /\ (n \div d) * d + (n % d) = n
<1>. DEFINE q == n \div d
            r == n % d
<1>1. r \in 0 .. d - 1 /\ q \in Nat
  OBVIOUS
<1>2. q * d + r = n
  OBVIOUS
<1>3. n < d * d
  OBVIOUS
<1>4. q < d
  <2>. HIDE DEF q, r
  <2>. SUFFICES ASSUME q >= d PROVE FALSE
    BY <1>1
  <2>1. PICK k \in Nat : q = d + k
    BY <1>1
  <2>2. q * d = d * d + k * d /\ k * d \in Nat
    BY <2>1
  <2> QED BY <1>1, <1>2, <1>3, <2>2
<1> QED BY <1>1, <1>2, <1>4

-----------------------------------------------------------------------------
(* Sequences of octets.                                                    *)

LEMMA Joined ==
  ASSUME NEW s \in Octets, NEW t \in Octets
  PROVE  /\ s \o t \in Octets /\ Len(s \o t) = Len(s) + Len(t)
         /\ Len(s) \in Nat /\ Len(t) \in Nat
         /\ \A i \in 1 .. Len(s) : (s \o t)[i] = s[i]
         /\ \A i \in 1 .. Len(t) : (s \o t)[Len(s) + i] = t[i]
<1>1. s \in Seq(0 .. Base - 1) /\ t \in Seq(0 .. Base - 1)
  BY DEF Octets
<1>2. Len(s) \in Nat /\ Len(t) \in Nat
  BY <1>1, LenProperties
<1>3. s \o t \in Octets /\ Len(s \o t) = Len(s) + Len(t)
  BY <1>1, ConcatProperties DEF Octets
<1>4. ASSUME NEW i \in 1 .. Len(s) PROVE (s \o t)[i] = s[i]
  BY <1>1, <1>2, ConcatProperties
<1>5. ASSUME NEW i \in 1 .. Len(t) PROVE (s \o t)[Len(s) + i] = t[i]
  BY <1>1, <1>2, ConcatProperties
<1> QED BY <1>2, <1>3, <1>4, <1>5

(* A part of a sequence, of which every element is known.                  *)
LEMMA CutOut ==
  ASSUME NEW s \in Octets, NEW t \in Octets, NEW k \in Nat, k + Len(t) <= Len(s),
         \A i \in 1 .. Len(t) : s[k + i] = t[i]
  PROVE  SubSeq(s, k + 1, k + Len(t)) = t
<1>1. /\ s \in Seq(0 .. Base - 1) /\ t \in Seq(0 .. Base - 1)
      /\ Len(s) \in Nat /\ Len(t) \in Nat
  BY LenProperties DEF Octets
<1>. DEFINE c == SubSeq(s, k + 1, k + Len(t))
<1>2. ASSUME NEW i \in k + 1 .. k + Len(t) PROVE s[i] \in 0 .. Base - 1
  <2>1. i \in 1 .. Len(s)
    BY <1>1
  <2> QED BY <1>1, <2>1, ElementOfSeq
<1>3. /\ c \in Seq(0 .. Base - 1)
      /\ Len(c) = IF k + 1 <= k + Len(t) THEN k + Len(t) - (k + 1) + 1 ELSE 0
      /\ \A i \in 1 .. (k + Len(t)) - (k + 1) + 1 : c[i] = s[(k + 1) + i - 1]
  BY <1>1, <1>2, SubSeqProperties
<1>. HIDE DEF c
<1>4. Len(c) = Len(t)
  BY <1>1, <1>3
<1>5. ASSUME NEW i \in 1 .. Len(t) PROVE c[i] = t[i]
  <2>1. i \in 1 .. (k + Len(t)) - (k + 1) + 1 /\ (k + 1) + i - 1 = k + i
    BY <1>1
  <2> QED BY <1>3, <2>1
<1>6. c = t
  BY <1>1, <1>3, <1>4, <1>5, SeqEqual
<1> QED BY <1>6 DEF c

LEMMA U16Facts ==
  /\ \A n \in Nat : U16(n) \in Octets /\ Len(U16(n)) = HdrSize
  /\ \A n \in 0 .. Word - 1 : U16(n)[1] * Base + U16(n)[2] = n
<1>1. ASSUME NEW n \in Nat
      PROVE  U16(n) \in Octets /\ Len(U16(n)) = HdrSize
  <2>1. n \div Base \in Nat
    BY Numbers
  <2>2. n % Base \in 0 .. Base - 1 /\ (n \div Base) % Base \in 0 .. Base - 1
    BY <2>1, Numbers
  <2> QED BY <2>2 DEF U16, Octets, HdrSize
<1>2. ASSUME NEW n \in 0 .. Word - 1
      PROVE  U16(n)[1] * Base + U16(n)[2] = n
  <2>1. /\ n \div Base \in 0 .. Base - 1 /\ n % Base \in 0 .. Base - 1
        /\ (n \div Base) * Base + (n % Base) = n
    BY Numbers, Digits DEF Word
  <2>2. (n \div Base) % Base = n \div Base
    BY <2>1, Numbers
  <2> QED BY <2>1, <2>2 DEF U16
<1> QED BY <1>1, <1>2

LEMMA U32Facts ==
  /\ \A n \in Nat : U32(n) \in Octets /\ Len(U32(n)) = LenSize
  /\ \A n \in 0 .. Word * Word - 1 : FrameLen(U32(n)) = n
<1>1. ASSUME NEW n \in Nat
      PROVE  n \div Word \in Nat /\ n % Word \in 0 .. Word - 1 /\ n % Word \in Nat
  BY Numbers
<1>2. ASSUME NEW n \in Nat
      PROVE  /\ U32(n) \in Octets /\ Len(U32(n)) = LenSize
             /\ U32(n)[1] = U16(n \div Word)[1] /\ U32(n)[2] = U16(n \div Word)[2]
             /\ U32(n)[3] = U16(n % Word)[1] /\ U32(n)[4] = U16(n % Word)[2]
  <2>. DEFINE hi == U16(n \div Word)
              lo == U16(n % Word)
  <2>1. hi \in Octets /\ lo \in Octets /\ Len(hi) = 2 /\ Len(lo) = 2
    BY <1>1, U16Facts DEF HdrSize
  <2>2. U32(n) = hi \o lo
    BY DEF U32
  <2>. HIDE DEF hi, lo
  <2>3. /\ hi \o lo \in Octets /\ Len(hi \o lo) = Len(hi) + Len(lo)
        /\ \A i \in 1 .. Len(hi) : (hi \o lo)[i] = hi[i]
        /\ \A i \in 1 .. Len(lo) : (hi \o lo)[Len(hi) + i] = lo[i]
    BY <2>1, Joined
  <2>4. /\ (hi \o lo)[1] = hi[1] /\ (hi \o lo)[2] = hi[2]
        /\ (hi \o lo)[2 + 1] = lo[1] /\ (hi \o lo)[2 + 2] = lo[2]
    BY <2>1, <2>3
  <2>5. U32(n) \in Octets /\ Len(U32(n)) = LenSize
    BY <2>1, <2>2, <2>3 DEF LenSize
  <2>6. /\ U32(n)[1] = hi[1] /\ U32(n)[2] = hi[2]
        /\ U32(n)[3] = lo[1] /\ U32(n)[4] = lo[2]
    <3>1. 2 + 1 = 3 /\ 2 + 2 = 4
      OBVIOUS
    <3> QED BY <2>2, <2>4, <3>1
  <2> QED BY <2>5, <2>6 DEF hi, lo
<1>3. ASSUME NEW n \in 0 .. Word * Word - 1
      PROVE  FrameLen(U32(n)) = n
  <2>1. /\ n \div Word \in 0 .. Word - 1 /\ n % Word \in 0 .. Word - 1
        /\ (n \div Word) * Word + (n % Word) = n
    BY Numbers, Digits
  <2>2. /\ U32(n)[1] * Base + U32(n)[2] = n \div Word
        /\ U32(n)[3] * Base + U32(n)[4] = n % Word
    BY <1>2, <2>1, U16Facts
  <2> QED BY <2>1, <2>2 DEF FrameLen
<1> QED BY <1>2, <1>3

-----------------------------------------------------------------------------
(* Frames.                                                                 *)

LEMMA Parts ==
  ASSUME NEW m \in Message
  PROVE  /\ m.doc \in Octets /\ m.body \in Octets /\ m.doc \in DOMAIN KindOf
         /\ Len(m.doc) \in Nat /\ Len(m.body) \in Nat /\ Payload(m) \in Nat
         /\ Payload(m) = 2 + Len(m.doc) + Len(m.body)
         /\ KindOf[m.doc] = "Plain" => m.body = << >>
         /\ m = [doc |-> m.doc, body |-> m.body]
<1>1. m.doc \in DOMAIN KindOf /\ m.body \in Bodies
  BY DEF Message
<1>2. m.doc \in Octets /\ m.body \in Octets
  BY <1>1, FrameCodecAssumption DEF Octets
<1>3. Len(m.doc) \in Nat /\ Len(m.body) \in Nat
  BY <1>2, LenProperties DEF Octets
<1> QED BY <1>1, <1>2, <1>3 DEF Message, Payload, HdrSize

(* Where the four parts of a frame stand.                                  *)
LEMMA FrameShape ==
  ASSUME NEW m \in Message
  PROVE  /\ Frame(m) \in Octets /\ Len(Frame(m)) = LenSize + Payload(m)
         /\ \A i \in 1 .. 4 : Frame(m)[i] = U32(Payload(m))[i]
         /\ Frame(m)[5] = U16(Len(m.doc))[1] /\ Frame(m)[6] = U16(Len(m.doc))[2]
         /\ \A i \in 1 .. Len(m.doc) : Frame(m)[6 + i] = m.doc[i]
         /\ \A i \in 1 .. Len(m.body) : Frame(m)[6 + Len(m.doc) + i] = m.body[i]
<1>. DEFINE doc == m.doc
            body == m.body
            size == U32(Payload(m))
            hdr  == U16(Len(doc))
<1>0. /\ doc \in Octets /\ body \in Octets /\ Len(doc) \in Nat /\ Len(body) \in Nat
      /\ Payload(m) \in Nat /\ Payload(m) = 2 + Len(doc) + Len(body)
  BY Parts
<1>1. size \in Octets /\ hdr \in Octets /\ Len(size) = 4 /\ Len(hdr) = 2
  BY <1>0, U16Facts, U32Facts DEF LenSize, HdrSize
<1>2. Frame(m) = ((size \o hdr) \o doc) \o body
  BY DEF Frame
<1>. HIDE DEF size, hdr, doc, body
<1>3. /\ size \o hdr \in Octets /\ Len(size \o hdr) = Len(size) + Len(hdr)
      /\ \A i \in 1 .. Len(size) : (size \o hdr)[i] = size[i]
      /\ \A i \in 1 .. Len(hdr) : (size \o hdr)[Len(size) + i] = hdr[i]
  BY <1>1, Joined
<1>7. /\ Len(size \o hdr) = 6
      /\ (size \o hdr)[4 + 1] = hdr[1] /\ (size \o hdr)[4 + 2] = hdr[2]
  BY <1>1, <1>3
<1>. DEFINE front == (size \o hdr) \o doc
<1>4. /\ front \in Octets /\ Len(front) = Len(size \o hdr) + Len(doc)
      /\ \A i \in 1 .. Len(size \o hdr) : front[i] = (size \o hdr)[i]
      /\ \A i \in 1 .. Len(doc) : front[Len(size \o hdr) + i] = doc[i]
  BY <1>0, <1>3, Joined
<1>. HIDE DEF front
<1>5. /\ front \o body \in Octets /\ Len(front \o body) = Len(front) + Len(body)
      /\ \A i \in 1 .. Len(front) : (front \o body)[i] = front[i]
      /\ \A i \in 1 .. Len(body) : (front \o body)[Len(front) + i] = body[i]
  BY <1>0, <1>4, Joined
<1>8. Len(front) = 6 + Len(doc)
  BY <1>4, <1>7
<1>6. Frame(m) = front \o body
  BY <1>2 DEF front
<1>. DEFINE F == front \o body
<1>9. F \in Octets /\ Len(F) = 4 + Payload(m)
  <2>1. F \in Octets /\ Len(F) = 6 + Len(doc) + Len(body)
    BY <1>5, <1>8
  <2>. HIDE DEF F
  <2> QED BY <1>0, <2>1
<1>10. \A i \in 1 .. 6 + Len(doc) : F[i] = front[i]
  BY <1>5, <1>8
<1>16. \A i \in 1 .. Len(body) : F[6 + Len(doc) + i] = body[i]
  BY <1>5, <1>8
<1>. HIDE DEF F
<1>11. \A i \in 1 .. Len(doc) : front[6 + i] = doc[i]
  BY <1>4, <1>7
<1>12. ASSUME NEW i \in 1 .. 6 PROVE F[i] = (size \o hdr)[i]
  <2>1. i \in 1 .. 6 + Len(doc) /\ i \in 1 .. Len(size \o hdr)
    BY <1>0, <1>7
  <2> QED BY <1>4, <1>10, <2>1
<1>13. ASSUME NEW i \in 1 .. 4 PROVE F[i] = size[i]
  <2>1. i \in 1 .. 6 /\ i \in 1 .. Len(size)
    BY <1>1
  <2> QED BY <1>3, <1>12, <2>1
<1>14. F[5] = hdr[1] /\ F[6] = hdr[2]
  BY <1>7, <1>12
<1>15. ASSUME NEW i \in 1 .. Len(doc) PROVE F[6 + i] = doc[i]
  <2>1. 6 + i \in 1 .. 6 + Len(doc)
    BY <1>0
  <2> QED BY <1>10, <1>11, <2>1
<1> QED BY <1>6, <1>9, <1>13, <1>14, <1>15, <1>16 DEF size, hdr, doc, body, LenSize, F

(* encode writes no length that does not fit in its field.                 *)
LEMMA EncodedFits ==
  ASSUME NEW m \in Message, Encodes(m)
  PROVE  Fits(m)
<1>1. Len(m.doc) \in Nat /\ Payload(m) \in Nat
  BY Parts
<1> QED BY <1>1, Numbers DEF Encodes, Fits

(* What decode_parts finds in a frame is what encode put there.            *)
LEMMA FrameFields ==
  ASSUME NEW m \in Message, Fits(m)
  PROVE  /\ FrameLen(Frame(m)) = Payload(m) /\ HdrLen(Frame(m)) = Len(m.doc)
         /\ DocOf(Frame(m)) = m.doc /\ BodyOf(Frame(m)) = m.body
<1>. DEFINE doc == m.doc
            body == m.body
<1>0. /\ doc \in Octets /\ body \in Octets
      /\ Len(doc) \in Nat /\ Len(body) \in Nat /\ Payload(m) \in Nat
      /\ Payload(m) = 2 + Len(doc) + Len(body)
  BY Parts
<1>9. Fits(m) <=> Len(doc) < Word /\ Payload(m) < Word * Word
  BY DEF Fits
<1>. HIDE DEF doc, body
<1>1. Payload(m) \in 0 .. Word * Word - 1 /\ Len(doc) \in 0 .. Word - 1
  BY <1>0, <1>9, Numbers
<1>2. FrameLen(Frame(m)) = Payload(m)
  <2>1. FrameLen(Frame(m)) = FrameLen(U32(Payload(m)))
    BY FrameShape DEF FrameLen
  <2> QED BY <1>1, <2>1, U32Facts
<1>3. HdrLen(Frame(m)) = Len(doc)
  BY <1>1, FrameShape, U16Facts DEF HdrLen, doc
<1>. DEFINE F == Frame(m)
<1>4. /\ F \in Octets /\ Len(F) = LenSize + Payload(m)
      /\ \A i \in 1 .. Len(doc) : F[6 + i] = doc[i]
      /\ \A i \in 1 .. Len(body) : F[6 + Len(doc) + i] = body[i]
  BY FrameShape DEF doc, body
<1>5. DocOf(F) = SubSeq(F, 7, 6 + Len(doc))
  BY <1>3 DEF DocOf, LenSize, HdrSize
<1>6. BodyOf(F) = SubSeq(F, 6 + Len(doc) + 1, 6 + Len(doc) + Len(body))
  BY <1>0, <1>2, <1>3 DEF BodyOf, LenSize, HdrSize
<1>. HIDE DEF F
<1>7. SubSeq(F, 7, 6 + Len(doc)) = doc
  <2>1. 6 \in Nat /\ 6 + Len(doc) <= Len(F) /\ 6 + 1 = 7
    BY <1>0, <1>4 DEF LenSize
  <2>2. SubSeq(F, 6 + 1, 6 + Len(doc)) = doc
    BY <1>0, <1>4, <2>1, CutOut
  <2> QED BY <2>1, <2>2
<1>8. SubSeq(F, 6 + Len(doc) + 1, 6 + Len(doc) + Len(body)) = body
  <2>1. 6 + Len(doc) \in Nat /\ 6 + Len(doc) + Len(body) <= Len(F)
    BY <1>0, <1>4 DEF LenSize
  <2> QED BY <1>0, <1>4, <2>1, CutOut
<1> QED BY <1>2, <1>3, <1>5, <1>6, <1>7, <1>8 DEF F, doc, body

(* A frame that encode writes decodes to its message, unless it is a       *)
(* Submit that is not allowed; decode rejects what encode refuses.         *)
LEMMA FrameDecodes ==
  ASSUME NEW m \in Message, Fits(m)
  PROVE  /\ Encodes(m) => \/ DecodeError(Frame(m)) = "none"
                          \/ /\ DecodeError(Frame(m)) = "SubmitDenied"
                             /\ KindOf[m.doc] = "Submit" /\ ~allowed
         /\ ~Encodes(m) => DecodeError(Frame(m)) = "FrameTooLarge"
<1>. DEFINE F == Frame(m)
            doc == m.doc
            body == m.body
            p == Payload(m)
<1>1. /\ Len(doc) \in Nat /\ Len(body) \in Nat /\ p \in Nat
      /\ p = 2 + Len(doc) + Len(body)
      /\ doc \in DOMAIN KindOf /\ (KindOf[doc] = "Plain" => body = << >>)
  BY Parts
<1>2. /\ FrameLen(F) = p /\ HdrLen(F) = Len(doc) /\ DocOf(F) = doc /\ BodyOf(F) = body
      /\ Len(F) = 4 + p
  BY FrameFields, FrameShape DEF LenSize
<1>3. Encodes(m) <=> Len(doc) <= MAX_HDR_LEN /\ p <= MAX_FRAME
  BY DEF Encodes
<1>. HIDE DEF F, doc, body, p
<1>4. CASE p > MAX_FRAME
  <2>1. DecodeError(F) = "FrameTooLarge"
    BY <1>1, <1>2, <1>4 DEF DecodeError, LenSize
  <2>2. ~Encodes(m)
    BY <1>1, <1>3, <1>4, Numbers
  <2> QED BY <2>1, <2>2 DEF F
<1>5. CASE p <= MAX_FRAME
  <2>1. /\ ~(Len(F) < LenSize) /\ ~(FrameLen(F) > MAX_FRAME)
        /\ ~(Len(F) < LenSize + FrameLen(F)) /\ ~(FrameLen(F) < HdrSize)
    BY <1>1, <1>2, <1>5, Numbers DEF LenSize, HdrSize
  <2>2. ~Overruns(F)
    BY <1>1, <1>2 DEF Overruns, HdrSize
  <2>3. DocOf(F) \in DOMAIN KindOf /\ ~(KindOf[DocOf(F)] = "Plain" /\ BodyOf(F) # << >>)
    BY <1>1, <1>2
  <2>4. DecodeError(F) = IF Len(doc) > MAX_HDR_LEN THEN "FrameTooLarge"
                         ELSE IF KindOf[doc] = "Submit" /\ ~allowed THEN "SubmitDenied"
                         ELSE "none"
    <3>. HIDE <1>1
    <3> QED BY <1>2, <2>1, <2>2, <2>3 DEF DecodeError
  <2>5. Encodes(m) <=> ~(Len(doc) > MAX_HDR_LEN)
    BY <1>1, <1>3, <1>5, Numbers
  <2> QED BY <2>4, <2>5 DEF F, doc
<1> QED BY <1>1, <1>4, <1>5, Numbers

(* What read_message makes of a frame is the message.                      *)
LEMMA FrameIsMessage ==
  ASSUME NEW m \in Message, Fits(m)
  PROVE  [doc |-> DocOf(Frame(m)), body |-> BodyOf(Frame(m))] = m
  BY FrameFields, Parts

-----------------------------------------------------------------------------
(* A stream of frames.                                                     *)

(* The octets of the frames of messages, and behind them a tail: what is   *)
(* left of the octets after each frame.                                    *)
Carries(octets, msgs, tail) ==
  \E rest \in [0 .. Len(msgs) -> Octets] :
    /\ rest[0] = octets /\ rest[Len(msgs)] = tail
    /\ \A i \in 1 .. Len(msgs) : rest[i - 1] = Frame(msgs[i]) \o rest[i]

(* Part of a frame, left by a write that was given up.                     *)
Partial(octets) ==
  \E m \in Message : Encodes(m) /\ \E n \in 0 .. Len(Frame(m)) - 1 : octets = SubSeq(Frame(m), 1, n)

LEMMA EmptyOctets ==
  /\ << >> \in Octets
  /\ \A s \in Octets : s \o << >> = s /\ << >> \o s = s
  BY EmptySeq, ConcatEmptySeq DEF Octets

(* Named, so that the provers instantiate it only where it is needed.      *)
Associates(s, t, u) == (s \o t) \o u = s \o (t \o u)

LEMMA Associative == \A s, t, u \in Octets : Associates(s, t, u)
  BY ConcatAssociative DEF Octets, Associates

LEMMA CarriesNothing ==
  ASSUME NEW octets, NEW tail, Carries(octets, << >>, tail)
  PROVE  octets = tail
  BY DEF Carries

LEMMA NothingCarried == Carries(<< >>, << >>, << >>)
<1>. DEFINE rest == [i \in 0 .. 0 |-> << >>]
<1>1. rest \in [0 .. 0 -> Octets] /\ rest[0] = << >>
  BY EmptyOctets
<1>2. Len(<< >>) = 0 /\ 1 .. 0 = {}
  OBVIOUS
<1>. HIDE DEF rest
<1>3. /\ rest \in [0 .. Len(<< >>) -> Octets] /\ rest[Len(<< >>)] = << >>
      /\ \A i \in 1 .. Len(<< >>) : rest[i - 1] = Frame((<< >>)[i]) \o rest[i]
  BY <1>1, <1>2
<1> QED BY <1>1, <1>3 DEF Carries

(* The first frame can be taken off.                                       *)
LEMMA CarriesFirst ==
  ASSUME NEW octets \in Octets, NEW tail \in Octets, NEW msgs \in Seq(Message),
         msgs # << >>, Carries(octets, msgs, tail)
  PROVE  \E r \in Octets : octets = Frame(Head(msgs)) \o r /\ Carries(r, Tail(msgs), tail)
<1>1. PICK rest \in [0 .. Len(msgs) -> Octets] :
        /\ rest[0] = octets /\ rest[Len(msgs)] = tail
        /\ \A i \in 1 .. Len(msgs) : rest[i - 1] = Frame(msgs[i]) \o rest[i]
  BY DEF Carries
<1>2. /\ Len(msgs) \in Nat \ {0} /\ Head(msgs) = msgs[1] /\ Len(Tail(msgs)) = Len(msgs) - 1
      /\ \A i \in 1 .. Len(msgs) - 1 : Tail(msgs)[i] = msgs[i + 1]
  BY HeadTailProperties, EmptySeq
<1>. DEFINE n == Len(msgs)
            later == [i \in 0 .. n - 1 |-> rest[i + 1]]
<1>. HIDE DEF n
<1>3. rest[1] \in Octets /\ octets = Frame(msgs[1]) \o rest[1]
  <2>1. 1 \in 1 .. n /\ 1 \in 0 .. n /\ 1 - 1 = 0
    BY <1>2 DEF n
  <2> QED BY <1>1, <2>1 DEF n
<1>4. later \in [0 .. n - 1 -> Octets] /\ later[0] = rest[1] /\ later[n - 1] = tail
  <2>1. n \in Nat \ {0} /\ rest \in [0 .. n -> Octets] /\ rest[n] = tail
    BY <1>1, <1>2 DEF n
  <2>2. \A i \in 0 .. n - 1 : rest[i + 1] \in Octets
    BY <2>1
  <2>3. 0 \in 0 .. n - 1 /\ n - 1 \in 0 .. n - 1 /\ (n - 1) + 1 = n /\ 0 + 1 = 1
    BY <2>1
  <2> QED BY <2>1, <2>2, <2>3
<1>5. ASSUME NEW i \in 1 .. n - 1
      PROVE  later[i - 1] = Frame(Tail(msgs)[i]) \o later[i]
  <2>1. /\ i - 1 \in 0 .. n - 1 /\ i \in 0 .. n - 1 /\ i + 1 \in 1 .. n
        /\ (i - 1) + 1 = i /\ (i + 1) - 1 = i
    BY <1>2 DEF n
  <2>2. rest[i] = Frame(msgs[i + 1]) \o rest[i + 1] /\ Tail(msgs)[i] = msgs[i + 1]
    BY <1>1, <1>2, <2>1 DEF n
  <2> QED BY <2>1, <2>2
<1>6. Len(Tail(msgs)) = n - 1
  BY <1>2 DEF n
<1>. HIDE DEF later
<1>7. Carries(rest[1], Tail(msgs), tail)
  BY <1>4, <1>5, <1>6 DEF Carries
<1> QED BY <1>2, <1>3, <1>7

(* What is written behind the frames stands behind the tail.               *)
LEMMA CarriesMore ==
  ASSUME NEW octets \in Octets, NEW tail \in Octets, NEW msgs \in Seq(Message),
         NEW more \in Octets, Carries(octets, msgs, tail)
  PROVE  Carries(octets \o more, msgs, tail \o more)
<1>1. PICK rest \in [0 .. Len(msgs) -> Octets] :
        /\ rest[0] = octets /\ rest[Len(msgs)] = tail
        /\ \A i \in 1 .. Len(msgs) : rest[i - 1] = Frame(msgs[i]) \o rest[i]
  BY DEF Carries
<1>. DEFINE n == Len(msgs)
            longer == [i \in 0 .. n |-> rest[i] \o more]
<1>2. n \in Nat /\ \A i \in 1 .. n : msgs[i] \in Message
  BY ElementOfSeq, LenProperties
<1>. HIDE DEF n
<1>3. rest \in [0 .. n -> Octets] /\ 0 \in 0 .. n /\ n \in 0 .. n
  BY <1>1, <1>2 DEF n
<1>4. longer \in [0 .. n -> Octets] /\ longer[0] = octets \o more /\ longer[n] = tail \o more
  <2>1. ASSUME NEW i \in 0 .. n PROVE rest[i] \o more \in Octets
    BY <1>3, Joined
  <2> QED BY <1>1, <1>3, <2>1 DEF n
<1>5. ASSUME NEW i \in 1 .. n PROVE longer[i - 1] = Frame(msgs[i]) \o longer[i]
  <2>1. i - 1 \in 0 .. n /\ i \in 0 .. n
    BY <1>2
  <2>2. rest[i] \in Octets /\ Frame(msgs[i]) \in Octets
    BY <1>2, <1>3, <2>1, FrameShape
  <2>3. rest[i - 1] = Frame(msgs[i]) \o rest[i]
    BY <1>1 DEF n
  <2>4. (Frame(msgs[i]) \o rest[i]) \o more = Frame(msgs[i]) \o (rest[i] \o more)
    <3>1. Associates(Frame(msgs[i]), rest[i], more)
      BY <2>2, Associative
    <3> QED BY <3>1 DEF Associates
  <2> QED BY <2>1, <2>3, <2>4
<1>. HIDE DEF longer
<1> QED BY <1>4, <1>5 DEF Carries, n

(* A tail that is a frame is the frame of one more message.                *)
LEMMA CarriesLast ==
  ASSUME NEW octets \in Octets, NEW msgs \in Seq(Message), NEW m \in Message,
         Carries(octets, msgs, Frame(m))
  PROVE  Carries(octets, Append(msgs, m), << >>)
<1>1. PICK rest \in [0 .. Len(msgs) -> Octets] :
        /\ rest[0] = octets /\ rest[Len(msgs)] = Frame(m)
        /\ \A i \in 1 .. Len(msgs) : rest[i - 1] = Frame(msgs[i]) \o rest[i]
  BY DEF Carries
<1>. DEFINE n == Len(msgs)
            longer == [i \in 0 .. n + 1 |-> IF i = n + 1 THEN << >> ELSE rest[i]]
            msgs1 == Append(msgs, m)
<1>2. /\ n \in Nat /\ Len(msgs1) = n + 1 /\ msgs1[n + 1] = m
      /\ \A i \in 1 .. n : msgs1[i] = msgs[i]
  BY AppendProperties, LenProperties
<1>. HIDE DEF n, msgs1
<1>3. rest \in [0 .. n -> Octets] /\ rest[n] = Frame(m) /\ rest[0] = octets
  BY <1>1 DEF n
<1>4. longer \in [0 .. n + 1 -> Octets] /\ longer[0] = octets /\ longer[n + 1] = << >>
  <2>1. ASSUME NEW i \in 0 .. n + 1, i # n + 1 PROVE rest[i] \in Octets
    BY <1>2, <1>3
  <2> QED BY <1>2, <1>3, <2>1, EmptyOctets
<1>5. ASSUME NEW i \in 1 .. n + 1 PROVE longer[i - 1] = Frame(msgs1[i]) \o longer[i]
  <2>1. i - 1 \in 0 .. n + 1 /\ i \in 0 .. n + 1 /\ i - 1 # n + 1
    BY <1>2
  <2>2. longer[i - 1] = rest[i - 1]
    BY <2>1
  <2>3. CASE i = n + 1
    <3>1. i - 1 = n /\ longer[i] = << >>
      BY <1>2, <2>1, <2>3
    <3>2. Frame(m) \o << >> = Frame(m)
      BY EmptyOctets, FrameShape
    <3> QED BY <1>2, <1>3, <2>2, <2>3, <3>1, <3>2
  <2>4. CASE i # n + 1
    <3>1. i \in 1 .. n /\ longer[i] = rest[i]
      BY <1>2, <2>1, <2>4
    <3> QED BY <1>1, <1>2, <2>2, <3>1 DEF n
  <2> QED BY <2>3, <2>4
<1>. HIDE DEF longer
<1>6. Carries(octets, msgs1, << >>)
  BY <1>2, <1>4, <1>5 DEF Carries
<1> QED BY <1>6 DEF msgs1

-----------------------------------------------------------------------------
(* The invariant.                                                          *)

(* The reader has made room for no more than the length it accepted.       *)
RoomInv ==
  Len(got) > LenSize => FrameLen(got) <= MAX_FRAME /\ Len(got) <= LenSize + FrameLen(got)

(* What is written and not read: what the reader has taken and the stream  *)
(* holds are frames, from the first octet of one on.                       *)
Sync(unread, tail) ==
  /\ read \in Seq(Message) /\ sent = read \o unread
  /\ \A i \in 1 .. Len(unread) : Encodes(unread[i])
  /\ Carries(got \o stream, unread, tail)
  /\ tail = << >> \/ (ended /\ Partial(tail))

SyncInv == ~torn => \E unread \in Seq(Message), tail \in Octets : Sync(unread, tail)

(* Why reading has ended; the refused Submit is there to be read.          *)
StopInv ==
  result # "reading" /\ ~torn =>
    \/ result = "UnexpectedEnd" /\ ended /\ read = sent
    \/ result = "Read" /\ lost
    \/ /\ result = "SubmitDenied" /\ ~allowed
       /\ Len(read) < Len(sent) /\ KindOf[sent[Len(read) + 1].doc] = "Submit"

Typed == TypeOK /\ RoomInv
Inv   == Typed /\ SyncInv /\ StopInv

-----------------------------------------------------------------------------
(* Types.                                                                  *)

LEMMA Lengths == \A s \in Octets : Len(s) \in Nat /\ \A i \in 1 .. Len(s) : s[i] \in 0 .. Base - 1
  BY LenProperties, ElementOfSeq DEF Octets

LEMMA FieldTypes ==
  ASSUME NEW s \in Octets
  PROVE  /\ Len(s) >= LenSize => FrameLen(s) \in Nat
         /\ Len(s) >= LenSize + HdrSize => HdrLen(s) \in Nat
<1>1. /\ Len(s) \in Nat /\ Base \in Nat /\ Word \in Nat
      /\ \A i \in 1 .. Len(s) : s[i] \in Nat
  BY Lengths, Numbers
<1>2. ASSUME Len(s) >= 4 PROVE FrameLen(s) \in Nat
  <2>1. s[1] \in Nat /\ s[2] \in Nat /\ s[3] \in Nat /\ s[4] \in Nat
    BY <1>1, <1>2
  <2>4. \A x, y \in Nat : x * Base + y \in Nat
    BY <1>1
  <2>2. s[1] * Base + s[2] \in Nat /\ s[3] * Base + s[4] \in Nat
    BY <2>1, <2>4
  <2>3. \A x, y \in Nat : x * Word + y \in Nat
    BY <1>1
  <2> QED BY <2>2, <2>3 DEF FrameLen
<1>3. ASSUME Len(s) >= 6 PROVE HdrLen(s) \in Nat
  <2>1. s[5] \in Nat /\ s[6] \in Nat
    BY <1>1, <1>3
  <2> QED BY <1>1, <2>1 DEF HdrLen
<1> QED BY <1>2, <1>3 DEF LenSize, HdrSize

(* The length field is in the first octets.                                *)
LEMMA SameLength ==
  ASSUME NEW s, NEW t, \A i \in 1 .. 4 : s[i] = t[i]
  PROVE  FrameLen(s) = FrameLen(t)
<1>1. s[1] = t[1] /\ s[2] = t[2] /\ s[3] = t[3] /\ s[4] = t[4]
  OBVIOUS
<1> QED BY <1>1 DEF FrameLen

(* A stream is split where a read stops.                                   *)
LEMMA Split ==
  ASSUME NEW s \in Octets, NEW n \in 0 .. Len(s)
  PROVE  /\ SubSeq(s, 1, n) \in Octets /\ SubSeq(s, n + 1, Len(s)) \in Octets
         /\ Len(SubSeq(s, 1, n)) = n /\ \A i \in 1 .. n : SubSeq(s, 1, n)[i] = s[i]
         /\ SubSeq(s, 1, n) \o SubSeq(s, n + 1, Len(s)) = s
<1>1. s \in Seq(0 .. Base - 1) /\ Len(s) \in Nat
  BY Lengths DEF Octets
<1>2. ASSUME NEW i \in 1 .. Len(s) PROVE s[i] \in 0 .. Base - 1
  BY Lengths
<1>3. /\ SubSeq(s, 1, n) \in Seq(0 .. Base - 1)
      /\ Len(SubSeq(s, 1, n)) = IF 1 <= n THEN n - 1 + 1 ELSE 0
      /\ \A i \in 1 .. n - 1 + 1 : SubSeq(s, 1, n)[i] = s[1 + i - 1]
  BY <1>1, <1>2, SubSeqProperties
<1>4. SubSeq(s, n + 1, Len(s)) \in Seq(0 .. Base - 1)
  BY <1>1, <1>2, SubSeqProperties
<1>5. SubSeq(s, 1, n) \o SubSeq(s, n + 1, Len(s)) = SubSeq(s, 1, Len(s))
  <2>1. 1 \in 1 .. Len(s) + 1 /\ n \in 1 - 1 .. Len(s) /\ Len(s) \in n .. Len(s)
    BY <1>1
  <2> QED BY <1>1, <2>1, ConcatAdjacentSubSeq
<1>6. SubSeq(s, 1, Len(s)) = s
  BY <1>1, SubSeqFull
<1>7. Len(SubSeq(s, 1, n)) = n
  BY <1>1, <1>3
<1>8. ASSUME NEW i \in 1 .. n PROVE SubSeq(s, 1, n)[i] = s[i]
  BY <1>1, <1>3
<1> QED BY <1>3, <1>4, <1>5, <1>6, <1>7, <1>8 DEF Octets

LEMMA TypeFacts ==
  ASSUME Typed
  PROVE  /\ got \in Octets /\ stream \in Octets /\ sent \in Seq(Message)
         /\ Len(got) \in Nat /\ Len(stream) \in Nat /\ MAX_FRAME \in Nat
         /\ Len(got) >= LenSize => FrameLen(got) \in Nat
         /\ Need \in Nat /\ (Len(got) < LenSize => Need = LenSize)
         /\ Len(got) >= LenSize => Need = LenSize + FrameLen(got)
<1>1. got \in Octets /\ stream \in Octets /\ sent \in Seq(Message)
  BY DEF Typed, TypeOK
<1>2. Len(got) \in Nat /\ Len(stream) \in Nat /\ MAX_FRAME \in Nat
  BY <1>1, Lengths, Numbers
<1>3. Len(got) >= LenSize => FrameLen(got) \in Nat
  BY <1>1, FieldTypes
<1>4. /\ Need \in Nat /\ (Len(got) < LenSize => Need = LenSize)
      /\ Len(got) >= LenSize => Need = LenSize + FrameLen(got)
  BY <1>2, <1>3 DEF Need, LenSize
<1> QED BY <1>1, <1>2, <1>3, <1>4

(* What a step of read_exact takes.                                        *)
LEMMA TakesShape ==
  ASSUME Typed, Takes
  PROVE  \E part \in Octets :
           /\ got' = got \o part /\ stream' \in Octets /\ stream = part \o stream'
           /\ Len(part) \in Nat /\ Len(got) + Len(part) <= Need
<1>1. PICK n \in 1 .. Need - Len(got) :
        /\ n <= Len(stream)
        /\ got' = got \o SubSeq(stream, 1, n)
        /\ stream' = SubSeq(stream, n + 1, Len(stream))
  BY DEF Takes
<1>2. n \in 0 .. Len(stream) /\ Len(got) + n <= Need /\ stream \in Octets
  BY <1>1, TypeFacts
<1>3. /\ SubSeq(stream, 1, n) \in Octets /\ SubSeq(stream, n + 1, Len(stream)) \in Octets
      /\ Len(SubSeq(stream, 1, n)) = n
      /\ SubSeq(stream, 1, n) \o SubSeq(stream, n + 1, Len(stream)) = stream
  BY <1>2, Split
<1>. DEFINE part == SubSeq(stream, 1, n)
<1>4. part \in Octets /\ Len(part) = n /\ got' = got \o part
  BY <1>1, <1>3
<1>5. stream' \in Octets /\ stream = part \o stream'
  BY <1>1, <1>3
<1>. HIDE DEF part
<1>6. Len(part) \in Nat /\ Len(got) + Len(part) <= Need
  BY <1>2, <1>4, Lengths
<1> QED BY <1>4, <1>5, <1>6

LEMMA TakesTypes ==
  ASSUME Typed, Takes
  PROVE  Typed'
<1>1. PICK part \in Octets :
           /\ got' = got \o part /\ stream' \in Octets /\ stream = part \o stream'
           /\ Len(part) \in Nat /\ Len(got) + Len(part) <= Need
  BY TakesShape
<1>. DEFINE g == got'
<1>2. /\ g \in Octets /\ Len(g) = Len(got) + Len(part) /\ Len(g) \in Nat
      /\ \A i \in 1 .. Len(got) : g[i] = got[i]
  BY <1>1, TypeFacts, Joined
<1>3. ~TooLong
  BY DEF Takes, Waits
<1>. HIDE DEF g
<1>4. Len(g) <= LenSize + MAX_FRAME /\
      (Len(g) > LenSize => FrameLen(g) <= MAX_FRAME /\ Len(g) <= LenSize + FrameLen(g))
  <2>1. CASE Len(got) < LenSize
    <3>1. Len(g) <= LenSize
      BY <1>1, <1>2, <2>1, TypeFacts
    <3> QED BY <1>2, <3>1, TypeFacts DEF LenSize
  <2>2. CASE Len(got) >= LenSize
    <3>0. Len(got) \in Nat /\ FrameLen(got) \in Nat /\ MAX_FRAME \in Nat
      BY <2>2, TypeFacts
    <3>1. FrameLen(got) <= MAX_FRAME
      <4>1. Len(got) = LenSize => FrameLen(got) <= MAX_FRAME
        BY <1>3, <3>0 DEF TooLong
      <4>2. Len(got) > LenSize => FrameLen(got) <= MAX_FRAME
        BY DEF Typed, RoomInv
      <4>3. \A k \in Nat : k >= LenSize => k = LenSize \/ k > LenSize
        BY DEF LenSize
      <4> QED BY <2>2, <3>0, <4>1, <4>2, <4>3
    <3>2. \A i \in 1 .. 4 : g[i] = got[i]
      BY <1>2, <2>2, TypeFacts DEF LenSize
    <3>3. FrameLen(g) = FrameLen(got)
      BY <3>2, SameLength
    <3>4. Len(g) <= LenSize + FrameLen(got)
      BY <1>1, <1>2, <2>2, TypeFacts
    <3> QED BY <1>2, <2>2, <3>1, <3>3, <3>4, TypeFacts DEF LenSize
  <2> QED BY <2>1, <2>2, TypeFacts DEF LenSize
<1>5. g = got' /\ g \in Octets
  BY <1>2 DEF g
<1> QED BY <1>1, <1>4, <1>5 DEF Typed, TypeOK, RoomInv, Takes

(* A message that is returned has a document that parses.                  *)
LEMMA ReturnsTypes ==
  ASSUME Typed, Returns
  PROVE  Typed'
<1>1. /\ HasFrame /\ DecodeError(got) = "none"
      /\ read' = Append(read, [doc |-> DocOf(got), body |-> BodyOf(got)])
      /\ got' = << >> /\ UNCHANGED <<sent, stream, ended, lost, result, torn, allowed>>
  BY DEF Returns
<1>2. Len(got) >= LenSize /\ Len(got) = LenSize + FrameLen(got)
  <2>1. Len(got) = Need
    BY <1>1 DEF HasFrame
  <2> QED BY <2>1, TypeFacts DEF LenSize
<1>3. /\ ~(FrameLen(got) < HdrSize) /\ ~Overruns(got) /\ DocOf(got) \in DOMAIN KindOf
  BY <1>1 DEF DecodeError
<1>4. /\ FrameLen(got) \in Nat /\ HdrLen(got) \in Nat
      /\ FrameLen(got) >= HdrSize + HdrLen(got)
  <2>1. FrameLen(got) \in Nat /\ Len(got) >= LenSize + HdrSize
    BY <1>2, <1>3, TypeFacts DEF LenSize, HdrSize
  <2>2. HdrLen(got) \in Nat
    BY <2>1, FieldTypes, TypeFacts
  <2> QED BY <1>3, <2>1, <2>2 DEF Overruns, HdrSize
<1>5. BodyOf(got) \in Octets
  <2>. DEFINE a == LenSize + HdrSize + HdrLen(got) + 1
              z == LenSize + FrameLen(got)
  <2>1. a \in Int /\ z \in Int /\ 1 <= a /\ z = Len(got)
    BY <1>2, <1>4 DEF LenSize, HdrSize
  <2>2. BodyOf(got) = SubSeq(got, a, z)
    BY DEF BodyOf
  <2>. HIDE DEF a, z
  <2>3. \A i \in a .. z : got[i] \in 0 .. Base - 1
    BY <2>1, Lengths, TypeFacts
  <2> QED BY <2>1, <2>2, <2>3, SubSeqProperties DEF Octets
<1>6. read' \in Seq([doc : DOMAIN KindOf, body : Octets])
  BY <1>1, <1>3, <1>5, AppendProperties DEF Typed, TypeOK
<1>7. got' \in Octets /\ Len(got') = 0 /\ Len(got') <= LenSize + MAX_FRAME /\ ~(Len(got') > LenSize)
  BY <1>1, EmptyOctets, Numbers DEF LenSize
<1> QED BY <1>1, <1>6, <1>7 DEF Typed, TypeOK, RoomInv

LEMMA TypesStep ==
  ASSUME Typed, Next
  PROVE  Typed'
<1>1. ASSUME NEW m \in Message, Writes(m) PROVE Typed'
  <2>1. sent' \in Seq(Message) /\ Len(sent') = Len(sent) + 1
    BY <1>1, AppendProperties, TypeFacts DEF Writes
  <2>2. stream' \in Octets
    BY <1>1, FrameShape, Joined, TypeFacts DEF Writes
  <2>3. Len(sent') <= MaxSent
    BY <1>1, <2>1, FrameCodecAssumption, TypeFacts, LenProperties DEF Writes
  <2> QED BY <1>1, <2>1, <2>2, <2>3 DEF Writes, Typed, TypeOK, RoomInv
<1>2. ASSUME NEW m \in Message, Refuses(m) PROVE Typed'
  BY <1>2 DEF Refuses, Typed, TypeOK, RoomInv
<1>3. ASSUME NEW m \in Message, GivesUp(m) PROVE Typed'
  <2>1. PICK n \in 0 .. Len(Frame(m)) - 1 : stream' = stream \o SubSeq(Frame(m), 1, n)
    BY <1>3 DEF GivesUp
  <2>2. Frame(m) \in Octets /\ n \in 0 .. Len(Frame(m))
    BY <2>1, FrameShape, Lengths
  <2>3. stream' \in Octets
    BY <2>1, <2>2, Split, Joined, TypeFacts
  <2> QED BY <1>3, <2>3 DEF GivesUp, Typed, TypeOK, RoomInv
<1>4. CASE Finishes \/ Loses
  BY <1>4 DEF Finishes, Loses, Typed, TypeOK, RoomInv
<1>5. CASE RejectsLength
  BY <1>5 DEF RejectsLength, Typed, TypeOK, RoomInv, ReadError, CodecError
<1>6. CASE RejectsFrame
  <2>1. DecodeError(got) \in CodecError \cup {"none"}
    BY DEF DecodeError, CodecError
  <2> QED BY <1>6, <2>1 DEF RejectsFrame, Typed, TypeOK, RoomInv, ReadError
<1>7. CASE StreamEnds \/ ReadFails
  BY <1>7 DEF StreamEnds, ReadFails, Typed, TypeOK, RoomInv, ReadError
<1>8. CASE DropsRead
  <2>1. got' \in Octets /\ Len(got') = 0 /\ Len(got') <= LenSize + MAX_FRAME /\ ~(Len(got') > LenSize)
    BY <1>8, EmptyOctets, Numbers DEF LenSize, DropsRead
  <2> QED BY <1>8, <2>1 DEF DropsRead, Typed, TypeOK, RoomInv
<1> QED BY <1>1, <1>2, <1>3, <1>4, <1>5, <1>6, <1>7, <1>8, TakesTypes, ReturnsTypes
        DEF Next, ReaderStep

-----------------------------------------------------------------------------
(* The reader stands at a frame.                                           *)

LEMMA Cancel ==
  ASSUME NEW s \in Octets, NEW t \in Octets, NEW u \in Octets, NEW v \in Octets,
         s \o t = u \o v, Len(s) = Len(u)
  PROVE  s = u /\ t = v
<1>1. /\ \A i \in 1 .. Len(s) : (s \o t)[i] = s[i]
      /\ \A i \in 1 .. Len(u) : (u \o v)[i] = u[i]
  BY Joined
<1>2. \A i \in 1 .. Len(s) : s[i] = u[i]
  BY <1>1
<1>3. s = u
  BY <1>2, SeqEqual DEF Octets
<1> QED BY <1>3, ConcatSimplifications DEF Octets

(* A reader that knows the length has it from a frame that was encoded:    *)
(* the next one that was written, or one that is not whole.                *)
LEMMA AtFrame ==
  ASSUME Typed, NEW unread \in Seq(Message), NEW tail \in Octets, Sync(unread, tail),
         Len(got) >= LenSize
  PROVE  \E m \in Message :
           /\ Encodes(m) /\ FrameLen(got) = Payload(m)
           /\ \/ /\ unread # << >> /\ m = Head(unread)
                 /\ \E r \in Octets : /\ got \o stream = Frame(m) \o r
                                      /\ Carries(r, Tail(unread), tail)
              \/ unread = << >> /\ Len(got) < Len(Frame(m))
<1>. DEFINE flow == got \o stream
<1>1. /\ flow \in Octets /\ Len(flow) = Len(got) + Len(stream)
      /\ \A i \in 1 .. Len(got) : flow[i] = got[i]
  BY TypeFacts, Joined
<1>2. Carries(flow, unread, tail) /\ (tail = << >> \/ Partial(tail))
      /\ \A i \in 1 .. Len(unread) : Encodes(unread[i])
  BY DEF Sync
<1>. HIDE DEF flow
<1>3. Len(got) \in Nat /\ Len(stream) \in Nat /\ Len(got) >= 4
  BY TypeFacts DEF LenSize
<1>4. \A i \in 1 .. 4 : got[i] = flow[i]
  BY <1>1, <1>3
<1>5. CASE unread = << >>
  <2>1. flow = tail
    BY <1>2, <1>5, CarriesNothing
  <2>2. tail # << >>
    BY <1>1, <1>3, <2>1
  <2>3. PICK m \in Message : Encodes(m) /\ \E n \in 0 .. Len(Frame(m)) - 1 : flow = SubSeq(Frame(m), 1, n)
    BY <1>2, <2>1, <2>2 DEF Partial
  <2>4. PICK n \in 0 .. Len(Frame(m)) - 1 : flow = SubSeq(Frame(m), 1, n)
    BY <2>3
  <2>5. Frame(m) \in Octets /\ Len(Frame(m)) \in Nat
    BY FrameShape, Lengths
  <2>6. n \in 0 .. Len(Frame(m)) /\ n < Len(Frame(m))
    BY <2>4, <2>5
  <2>7. Len(flow) = n /\ \A i \in 1 .. n : flow[i] = Frame(m)[i]
    BY <2>4, <2>5, <2>6, Split
  <2>8. 4 <= n /\ Len(got) < Len(Frame(m))
    BY <1>1, <1>3, <2>5, <2>6, <2>7
  <2>9. \A i \in 1 .. 4 : got[i] = Frame(m)[i]
    BY <1>4, <2>6, <2>7, <2>8
  <2>10. FrameLen(got) = Payload(m)
    BY <2>3, <2>9, SameLength, FrameFields, EncodedFits
  <2> QED BY <1>5, <2>3, <2>8, <2>10
<1>6. CASE unread # << >>
  <2>. DEFINE m == Head(unread)
  <2>1. m \in Message /\ m = unread[1] /\ Len(unread) \in Nat \ {0}
    BY <1>6, HeadTailProperties, EmptySeq
  <2>2. Encodes(m)
    BY <1>2, <2>1
  <2>3. PICK r \in Octets : flow = Frame(m) \o r /\ Carries(r, Tail(unread), tail)
    BY <1>1, <1>2, <1>6, CarriesFirst
  <2>. HIDE DEF m
  <2>4. Frame(m) \in Octets /\ Len(Frame(m)) \in Nat /\ Len(Frame(m)) >= 4
    <3>1. Len(Frame(m)) = LenSize + Payload(m) /\ Frame(m) \in Octets /\ Payload(m) \in Nat
      BY <2>1, FrameShape, Parts
    <3> QED BY <3>1 DEF LenSize
  <2>5. \A i \in 1 .. Len(Frame(m)) : flow[i] = Frame(m)[i]
    BY <2>3, <2>4, Joined
  <2>6. \A i \in 1 .. 4 : got[i] = Frame(m)[i]
    BY <1>4, <2>4, <2>5
  <2>7. FrameLen(got) = Payload(m)
    BY <2>1, <2>2, <2>6, SameLength, FrameFields, EncodedFits
  <2> QED BY <1>6, <2>1, <2>2, <2>3, <2>7 DEF m, flow
<1> QED BY <1>5, <1>6

(* It makes room for every frame it meets.                                 *)
LEMMA NeverTooLong ==
  ASSUME Typed, NEW unread \in Seq(Message), NEW tail \in Octets, Sync(unread, tail)
  PROVE  ~TooLong
<1>. SUFFICES ASSUME TooLong PROVE FALSE
  OBVIOUS
<1>1. Len(got) >= LenSize /\ FrameLen(got) > MAX_FRAME /\ MAX_FRAME \in Nat
  BY TypeFacts DEF TooLong, LenSize
<1>2. PICK m \in Message : Encodes(m) /\ FrameLen(got) = Payload(m)
  BY <1>1, AtFrame
<1>3. Payload(m) <= MAX_FRAME /\ Payload(m) \in Nat
  BY <1>2, Parts DEF Encodes
<1> QED BY <1>1, <1>2, <1>3

(* As many octets as the length says are the frame.                        *)
LEMMA HasItsFrame ==
  ASSUME Typed, NEW unread \in Seq(Message), NEW tail \in Octets, Sync(unread, tail),
         Len(got) >= Need
  PROVE  /\ unread # << >> /\ Head(unread) \in Message /\ Encodes(Head(unread))
         /\ Len(got) = Need =>
              got = Frame(Head(unread)) /\ Carries(stream, Tail(unread), tail)
<1>1. Len(got) >= LenSize /\ Need = LenSize + FrameLen(got)
  <2>1. Len(got) \in Nat /\ Need \in Nat /\ (Len(got) < LenSize => Need = LenSize)
    BY TypeFacts
  <2>2. \A k \in Nat : k < LenSize => ~(k >= LenSize)
    BY DEF LenSize
  <2>3. \A k \in Nat : k < LenSize \/ k >= LenSize
    BY DEF LenSize
  <2> QED BY <2>1, <2>2, <2>3, TypeFacts
<1>2. PICK m \in Message :
           /\ Encodes(m) /\ FrameLen(got) = Payload(m)
           /\ \/ /\ unread # << >> /\ m = Head(unread)
                 /\ \E r \in Octets : /\ got \o stream = Frame(m) \o r
                                      /\ Carries(r, Tail(unread), tail)
              \/ Len(got) < Len(Frame(m))
  BY <1>1, AtFrame
<1>3. Need = Len(Frame(m)) /\ Frame(m) \in Octets /\ Len(Frame(m)) \in Nat
  BY <1>1, <1>2, FrameShape, Lengths
<1>4. ~(Len(got) < Len(Frame(m)))
  <2>1. Len(got) \in Nat /\ Len(got) >= Need
    BY TypeFacts
  <2>2. \A k, l \in Nat : k >= l => ~(k < l)
    OBVIOUS
  <2> QED BY <1>3, <2>1, <2>2
<1>5. PICK r \in Octets : got \o stream = Frame(m) \o r /\ Carries(r, Tail(unread), tail)
  BY <1>2, <1>4
<1>6. Len(got) = Need => got = Frame(m) /\ stream = r
  BY <1>3, <1>5, TypeFacts, Cancel
<1> QED BY <1>2, <1>4, <1>5, <1>6

-----------------------------------------------------------------------------
(* The invariant is kept.                                                  *)

(* One more message is written behind all others.                          *)
LEMMA WritesSync ==
  ASSUME Typed, NEW unread \in Seq(Message), NEW tail \in Octets, Sync(unread, tail),
         NEW m \in Message, Writes(m)
  PROVE  Sync(Append(unread, m), << >>)'
<1>. DEFINE flow == got \o stream
            F == Frame(m)
<1>1. /\ Encodes(m) /\ sent' = Append(sent, m) /\ stream' = stream \o F
      /\ ~ended /\ got' = got /\ read' = read
  BY DEF Writes
<1>2. /\ read \in Seq(Message) /\ sent = read \o unread
      /\ \A i \in 1 .. Len(unread) : Encodes(unread[i])
      /\ Carries(flow, unread, << >>)
  BY <1>1 DEF Sync
<1>3. F \in Octets /\ got \in Octets /\ stream \in Octets /\ flow \in Octets
  BY FrameShape, TypeFacts, Joined
<1>4. got' \o stream' = flow \o F
  <2>1. Associates(got, stream, F)
    BY <1>3, Associative
  <2> QED BY <1>1, <2>1 DEF Associates
<1>. HIDE DEF flow
<1>5. Carries(flow \o F, Append(unread, m), << >>)
  <2>1. << >> \in Octets /\ << >> \o F = F /\ flow \o F \in Octets
    BY <1>3, EmptyOctets, Joined
  <2>2. Carries(flow \o F, unread, << >> \o F)
    BY <1>2, <1>3, <2>1, CarriesMore
  <2> QED BY <2>1, <2>2, CarriesLast
<1>6. Append(sent, m) = read \o Append(unread, m)
  <2>1. /\ sent \in Seq(Message) /\ << m >> \in Seq(Message)
        /\ Append(sent, m) = sent \o << m >> /\ Append(unread, m) = unread \o << m >>
    BY TypeFacts, AppendIsConcat
  <2>2. (read \o unread) \o << m >> = read \o (unread \o << m >>)
    BY <1>2, <2>1, ConcatAssociative
  <2> QED BY <1>2, <2>1, <2>2
<1>7. ASSUME NEW i \in 1 .. Len(Append(unread, m)) PROVE Encodes(Append(unread, m)[i])
  <2>1. /\ Len(unread) \in Nat /\ Len(Append(unread, m)) = Len(unread) + 1
        /\ \A j \in 1 .. Len(unread) : Append(unread, m)[j] = unread[j]
        /\ Append(unread, m)[Len(unread) + 1] = m
    BY AppendProperties, LenProperties
  <2>2. i \in 1 .. Len(unread) \/ i = Len(unread) + 1
    BY <2>1
  <2> QED BY <1>1, <1>2, <2>1, <2>2
<1> QED BY <1>1, <1>2, <1>4, <1>5, <1>6, <1>7 DEF Sync

(* Part of a frame is written, and the stream ends behind it.              *)
LEMMA GivesUpSync ==
  ASSUME Typed, NEW unread \in Seq(Message), NEW tail \in Octets, Sync(unread, tail),
         NEW m \in Message, GivesUp(m)
  PROVE  \E part \in Octets : Sync(unread, part)'
<1>. DEFINE flow == got \o stream
<1>1. /\ Encodes(m) /\ ~ended /\ ended' = TRUE
      /\ UNCHANGED <<sent, got, read>>
  BY DEF GivesUp
<1>2. PICK n \in 0 .. Len(Frame(m)) - 1 : stream' = stream \o SubSeq(Frame(m), 1, n)
  BY DEF GivesUp
<1>. DEFINE part == SubSeq(Frame(m), 1, n)
<1>3. Frame(m) \in Octets /\ n \in 0 .. Len(Frame(m))
  BY <1>2, FrameShape, Lengths
<1>4. part \in Octets /\ Partial(part)
  BY <1>1, <1>2, <1>3, Split DEF Partial
<1>5. /\ read \in Seq(Message) /\ sent = read \o unread
      /\ \A i \in 1 .. Len(unread) : Encodes(unread[i])
      /\ Carries(flow, unread, << >>)
  BY <1>1 DEF Sync
<1>. HIDE DEF part
<1>6. stream' = stream \o part
  BY <1>2 DEF part
<1>7. got' \o stream' = flow \o part /\ flow \in Octets
  <2>1. got \in Octets /\ stream \in Octets /\ flow \in Octets
    BY TypeFacts, Joined
  <2>2. (got \o stream) \o part = got \o (stream \o part)
    <3>1. Associates(got, stream, part)
      BY <1>4, <2>1, Associative
    <3> QED BY <3>1 DEF Associates
  <2> QED BY <1>1, <1>6, <2>1, <2>2
<1>. HIDE DEF flow
<1>8. Carries(flow \o part, unread, part)
  <2>1. << >> \in Octets /\ << >> \o part = part
    BY <1>4, EmptyOctets
  <2>2. Carries(flow \o part, unread, << >> \o part)
    BY <1>4, <1>5, <1>7, <2>1, CarriesMore
  <2> QED BY <2>1, <2>2
<1> QED BY <1>1, <1>4, <1>5, <1>7, <1>8 DEF Sync

(* Octets move from the stream to the reader.                              *)
LEMMA TakesSync ==
  ASSUME Typed, NEW unread \in Seq(Message), NEW tail \in Octets, Sync(unread, tail), Takes
  PROVE  Sync(unread, tail)'
<1>1. PICK part \in Octets :
           got' = got \o part /\ stream' \in Octets /\ stream = part \o stream'
  BY TakesShape
<1>2. got' \o stream' = got \o stream
  <2>1. got \in Octets
    BY TypeFacts
  <2>2. Associates(got, part, stream')
    BY <1>1, <2>1, Associative
  <2> QED BY <1>1, <2>2 DEF Associates
<1>3. UNCHANGED <<sent, ended, read>>
  BY DEF Takes
<1> QED BY <1>2, <1>3 DEF Sync

(* The first message that was not read is read.                            *)
LEMMA ReturnsSync ==
  ASSUME Typed, NEW unread \in Seq(Message), NEW tail \in Octets, Sync(unread, tail), Returns
  PROVE  Tail(unread) \in Seq(Message) /\ Sync(Tail(unread), tail)'
<1>1. /\ Len(got) = Need /\ read' = Append(read, [doc |-> DocOf(got), body |-> BodyOf(got)])
      /\ got' = << >> /\ UNCHANGED <<sent, stream, ended>>
  BY DEF Returns, HasFrame
<1>. DEFINE m == Head(unread)
<1>2. /\ unread # << >> /\ m \in Message /\ Encodes(m)
      /\ got = Frame(m) /\ Carries(stream, Tail(unread), tail)
  <2>1. Len(got) >= Need
    BY <1>1, TypeFacts
  <2> QED BY <1>1, <2>1, HasItsFrame
<1>3. [doc |-> DocOf(got), body |-> BodyOf(got)] = m
  BY <1>2, EncodedFits, FrameIsMessage
<1>4. /\ Tail(unread) \in Seq(Message) /\ m = unread[1] /\ Len(unread) \in Nat \ {0}
      /\ Len(Tail(unread)) = Len(unread) - 1
      /\ \A i \in 1 .. Len(Tail(unread)) : Tail(unread)[i] = unread[i + 1]
  BY <1>2, HeadTailProperties, EmptySeq
<1>5. /\ read \in Seq(Message) /\ sent = read \o unread /\ (tail = << >> \/ (ended /\ Partial(tail)))
      /\ \A i \in 1 .. Len(unread) : Encodes(unread[i])
  BY DEF Sync
<1>6. << >> \o stream = stream
  BY TypeFacts, EmptyOctets
<1>. HIDE DEF m
<1>7. Append(read, m) \in Seq(Message) /\ read \o unread = Append(read, m) \o Tail(unread)
  <2>1. << m >> \in Seq(Message) /\ << m >> \o Tail(unread) \in Seq(Message)
    BY <1>2, <1>4, ConcatProperties
  <2>2. Len(<< m >> \o Tail(unread)) = Len(unread)
        /\ \A i \in 1 .. Len(unread) : (<< m >> \o Tail(unread))[i] = unread[i]
    <3>1. Len(<< m >>) = 1 /\ << m >>[1] = m
      OBVIOUS
    <3>2. /\ Len(<< m >> \o Tail(unread)) = 1 + Len(Tail(unread))
          /\ \A i \in 1 .. 1 + Len(Tail(unread)) :
               (<< m >> \o Tail(unread))[i] = IF i <= 1 THEN << m >>[i] ELSE Tail(unread)[i - 1]
      BY <1>4, <2>1, <3>1, ConcatProperties
    <3>3. ASSUME NEW i \in 1 .. Len(unread) PROVE (<< m >> \o Tail(unread))[i] = unread[i]
      <4>1. i \in 1 .. 1 + Len(Tail(unread)) /\ (i = 1 \/ i - 1 \in 1 .. Len(Tail(unread)))
            /\ (i - 1) + 1 = i /\ (i <= 1 <=> i = 1)
        BY <1>4
      <4> QED BY <1>4, <3>1, <3>2, <4>1
    <3> QED BY <1>4, <3>2, <3>3
  <2>3. << m >> \o Tail(unread) = unread
    BY <2>1, <2>2, SeqEqual
  <2>4. Append(read, m) = read \o << m >> /\ Append(read, m) \in Seq(Message)
    BY <1>2, <1>5, AppendIsConcat, AppendProperties
  <2>5. (read \o << m >>) \o Tail(unread) = read \o (<< m >> \o Tail(unread))
    BY <1>4, <1>5, <2>1, ConcatAssociative
  <2> QED BY <2>3, <2>4, <2>5
<1>8. ASSUME NEW i \in 1 .. Len(Tail(unread)) PROVE Encodes(Tail(unread)[i])
  <2>1. i + 1 \in 1 .. Len(unread)
    BY <1>4
  <2> QED BY <1>4, <1>5, <2>1
<1> QED BY <1>1, <1>2, <1>3, <1>4, <1>5, <1>6, <1>7, <1>8 DEF Sync

LEMMA SyncStep ==
  ASSUME Typed, SyncInv, Next
  PROVE  SyncInv'
<1>. SUFFICES ASSUME ~torn'
              PROVE  (\E unread \in Seq(Message), tail \in Octets : Sync(unread, tail))'
  BY DEF SyncInv
<1>1. ~torn
  BY DEF Next, ReaderStep, Writes, Refuses, GivesUp, Finishes, Takes, RejectsLength, Returns,
         RejectsFrame, StreamEnds, ReadFails, Loses, DropsRead
<1>2. PICK unread \in Seq(Message), tail \in Octets : Sync(unread, tail)
  BY <1>1 DEF SyncInv
<1>3. ASSUME NEW m \in Message, Writes(m)
      PROVE  (\E u \in Seq(Message), t \in Octets : Sync(u, t))'
  BY <1>2, <1>3, WritesSync, AppendProperties, EmptyOctets
<1>4. ASSUME NEW m \in Message, GivesUp(m)
      PROVE  (\E u \in Seq(Message), t \in Octets : Sync(u, t))'
  BY <1>2, <1>4, GivesUpSync
<1>5. CASE Takes
  BY <1>2, <1>5, TakesSync
<1>6. CASE Returns
  BY <1>2, <1>6, ReturnsSync
<1>7. CASE UNCHANGED <<sent, stream, got, read>> /\ (ended => ended')
  BY <1>2, <1>7 DEF Sync
<1>8. Next => \/ UNCHANGED <<sent, stream, got, read>> /\ (ended => ended')
              \/ \E m \in Message : Writes(m) \/ GivesUp(m)
              \/ Takes \/ Returns \/ torn'
  BY DEF Next, ReaderStep, Refuses, Finishes, RejectsLength, RejectsFrame, StreamEnds, ReadFails,
         Loses, DropsRead
<1> QED BY <1>3, <1>4, <1>5, <1>6, <1>7, <1>8

LEMMA StopStep ==
  ASSUME Typed, Typed', SyncInv, StopInv, Next
  PROVE  StopInv'
<1>. SUFFICES ASSUME result' # "reading", ~torn'
              PROVE  (\/ result = "UnexpectedEnd" /\ ended /\ read = sent
                      \/ result = "Read" /\ lost
                      \/ /\ result = "SubmitDenied" /\ ~allowed
                         /\ Len(read) < Len(sent) /\ KindOf[sent[Len(read) + 1].doc] = "Submit")'
  BY DEF StopInv
<1>1. ~torn
  BY DEF Next, ReaderStep, Writes, Refuses, GivesUp, Finishes, Takes, RejectsLength, Returns,
         RejectsFrame, StreamEnds, ReadFails, Loses, DropsRead
<1>2. PICK unread \in Seq(Message), tail \in Octets : Sync(unread, tail)
  BY <1>1 DEF SyncInv
<1>3. /\ read \in Seq(Message) /\ sent = read \o unread /\ sent \in Seq(Message)
      /\ Len(read) \in Nat /\ Len(unread) \in Nat /\ Len(sent) = Len(read) + Len(unread)
      /\ unread # << >> => Len(unread) > 0 /\ sent[Len(read) + 1] = Head(unread)
  <2>1. read \in Seq(Message) /\ sent = read \o unread
    BY <1>2 DEF Sync
  <2>2. /\ Len(read) \in Nat /\ Len(unread) \in Nat /\ Len(sent) = Len(read) + Len(unread)
        /\ \A i \in 1 .. Len(read) + Len(unread) :
             sent[i] = IF i <= Len(read) THEN read[i] ELSE unread[i - Len(read)]
    BY <2>1, ConcatProperties, LenProperties
  <2>3. ASSUME unread # << >> PROVE Len(unread) > 0 /\ sent[Len(read) + 1] = Head(unread)
    <3>1. Len(unread) \in Nat \ {0} /\ Head(unread) = unread[1]
      BY <2>3, EmptySeq, HeadTailProperties
    <3>2. Len(read) + 1 \in 1 .. Len(read) + Len(unread) /\ ~(Len(read) + 1 <= Len(read))
          /\ (Len(read) + 1) - Len(read) = 1
      BY <2>2, <3>1
    <3> QED BY <2>2, <3>1, <3>2
  <2> QED BY <2>1, <2>2, <2>3, TypeFacts
<1>4. ASSUME NEW m \in Message, Writes(m) PROVE StopInv'
  <2>1. /\ sent' = Append(sent, m) /\ ~ended /\ ~lost /\ UNCHANGED <<ended, read, result, allowed>>
    BY <1>4 DEF Writes
  <2>2. /\ result = "SubmitDenied" /\ ~allowed
        /\ Len(read) < Len(sent) /\ KindOf[sent[Len(read) + 1].doc] = "Submit"
    BY <1>1, <2>1 DEF StopInv
  <2>3. /\ Len(sent') = Len(sent) + 1 /\ Len(sent) \in Nat
        /\ \A i \in 1 .. Len(sent) : sent'[i] = sent[i]
    BY <1>3, <2>1, AppendProperties, LenProperties
  <2>4. Len(read) < Len(sent') /\ Len(read) + 1 \in 1 .. Len(sent)
    BY <1>3, <2>2, <2>3
  <2> QED BY <2>1, <2>2, <2>3, <2>4 DEF StopInv
<1>5. CASE UNCHANGED <<sent, read, result, allowed>> /\ (ended => ended') /\ (lost => lost')
  BY <1>1, <1>5 DEF StopInv
<1>6. CASE RejectsLength
  BY <1>2, <1>6, NeverTooLong DEF RejectsLength
<1>7. CASE RejectsFrame
  <2>1. /\ Len(got) = Need /\ DecodeError(got) # "none" /\ result' = DecodeError(got)
        /\ UNCHANGED <<sent, read, allowed>>
    BY <1>7 DEF RejectsFrame, HasFrame
  <2>2. Len(got) >= Need
    BY <2>1, TypeFacts
  <2>3. /\ unread # << >> /\ Head(unread) \in Message /\ Encodes(Head(unread))
        /\ got = Frame(Head(unread))
    BY <1>2, <2>1, <2>2, HasItsFrame
  <2>4. result' = "SubmitDenied" /\ KindOf[Head(unread).doc] = "Submit" /\ ~allowed
    BY <2>1, <2>3, EncodedFits, FrameDecodes
  <2>5. Len(read) < Len(sent)
    BY <1>3, <2>3
  <2> QED BY <1>3, <2>1, <2>3, <2>4, <2>5
<1>8. CASE StreamEnds
  <2>1. /\ Len(got) < Need /\ ended /\ result' = "UnexpectedEnd" /\ stream = << >>
        /\ UNCHANGED <<sent, read, ended>>
    BY <1>8 DEF StreamEnds, Waits
  <2>2. unread = << >>
    <3>. SUFFICES ASSUME unread # << >> PROVE FALSE
      OBVIOUS
    <3>1. Carries(got, unread, tail) /\ got \in Octets
      BY <1>2, <2>1, EmptyOctets, TypeFacts DEF Sync
    <3>2. PICK r \in Octets : got = Frame(Head(unread)) \o r
      BY <3>1, CarriesFirst
    <3>3. Head(unread) \in Message
      BY HeadTailProperties
    <3>4. /\ Frame(Head(unread)) \in Octets /\ Len(Frame(Head(unread))) = LenSize + Payload(Head(unread))
          /\ Payload(Head(unread)) \in Nat
      BY <3>3, FrameShape, Parts
    <3>5. Len(got) = Len(Frame(Head(unread))) + Len(r) /\ Len(r) \in Nat
      BY <3>2, <3>4, Joined
    <3>6. Len(got) >= LenSize /\ ~(Len(got) < Len(Frame(Head(unread))))
      <4>. DEFINE k == Len(r)
                  q == Payload(Head(unread))
      <4>1. Len(got) = (LenSize + q) + k /\ k \in Nat /\ q \in Nat
        BY <3>4, <3>5
      <4>2. Len(Frame(Head(unread))) = LenSize + q
        BY <3>4
      <4>. HIDE DEF k, q
      <4> QED BY <4>1, <4>2 DEF LenSize
    <3>7. PICK m \in Message :
            /\ FrameLen(got) = Payload(m)
            /\ m = Head(unread)
      BY <1>2, <3>6, AtFrame
    <3>8. Need = Len(Frame(Head(unread)))
      BY <3>4, <3>6, <3>7, TypeFacts
    <3> QED BY <2>1, <3>6, <3>8
  <2>3. read = sent
    BY <1>3, <2>2, ConcatEmptySeq
  <2> QED BY <2>1, <2>3
<1>9. CASE DropsRead
  BY <1>9 DEF DropsRead
<1>10. CASE ReadFails
  BY <1>10 DEF ReadFails
<1> QED BY <1>4, <1>5, <1>6, <1>7, <1>8, <1>9, <1>10
        DEF Next, ReaderStep, Refuses, GivesUp, Finishes, Loses, Takes, Returns, StopInv, Waits, HasFrame

(* Both ends start with nothing written and nothing read.                  *)
LEMMA InitInv == Init => Inv
<1>. SUFFICES ASSUME Init PROVE Inv
  OBVIOUS
<1>1. /\ sent = << >> /\ stream = << >> /\ ended = FALSE /\ lost = FALSE
      /\ got = << >> /\ read = << >> /\ result = "reading"
      /\ torn = FALSE /\ allowed \in BOOLEAN
  BY DEF Init
<1>2. << >> \in Octets /\ << >> \o << >> = << >>
  BY EmptyOctets
<1>3. Len(<< >>) = 0 /\ 1 .. 0 = {}
  OBVIOUS
<1>4. MaxSent \in Nat /\ MAX_FRAME \in Nat
  BY FrameCodecAssumption, Numbers
<1>5. Typed
  <2>1. Len(sent) <= MaxSent /\ Len(got) <= LenSize + MAX_FRAME /\ ~(Len(got) > LenSize)
    BY <1>1, <1>3, <1>4 DEF LenSize
  <2> QED BY <1>1, <1>2, <2>1, EmptySeq DEF Typed, TypeOK, RoomInv
<1>6. << >> \in Seq(Message) /\ sent = read \o << >>
  BY <1>1, <1>2, EmptySeq
<1>7. Carries(got \o stream, << >>, << >>)
  BY <1>1, <1>2, NothingCarried
<1>8. Sync(<< >>, << >>)
  BY <1>1, <1>3, <1>6, <1>7 DEF Sync
<1>9. SyncInv
  BY <1>2, <1>6, <1>8 DEF SyncInv
<1>10. StopInv
  BY <1>1 DEF StopInv
<1> QED BY <1>5, <1>9, <1>10 DEF Inv

LEMMA StepInv == Inv /\ [Next]_vars => Inv'
<1>1. CASE Inv /\ Next
  BY <1>1, TypesStep, SyncStep, StopStep DEF Inv
<1>2. CASE Inv /\ UNCHANGED vars
  <2>1. UNCHANGED <<sent, stream, ended, lost, got, read, result, torn, allowed>>
    BY <1>2 DEF vars
  <2>2. Typed'
    BY <1>2, <2>1 DEF Inv, Typed, TypeOK, RoomInv
  <2>3. SyncInv'
    BY <1>2, <2>1 DEF Inv, SyncInv, Sync
  <2>4. StopInv'
    BY <1>2, <2>1 DEF Inv, StopInv
  <2> QED BY <2>2, <2>3, <2>4 DEF Inv
<1> QED BY <1>1, <1>2

LEMMA Invariance == Spec => []Inv
<1> QED BY InitInv, StepInv, PTL DEF Spec

-----------------------------------------------------------------------------
(* The theorems.                                                           *)

(* read_frame never holds more than the largest frame, whatever the length *)
(* field says, and returns only messages whose document parsed.            *)
THEOREM TypeCorrect == Spec => []TypeOK
<1>1. Inv => TypeOK
  BY DEF Inv, Typed
<1> QED BY Invariance, <1>1, PTL

(* read_message returns what write_message was given, in order, wherever   *)
(* the stream cuts the frames, as long as no read was dropped half-way.    *)
THEOREM ReadsWhatWasSent == Spec => []InSync
<1>1. Inv => InSync
  <2>. SUFFICES ASSUME Inv, ~torn PROVE IsPrefix(read, sent)
    BY DEF InSync
  <2>1. PICK unread \in Seq(Message), tail \in Octets : Sync(unread, tail)
    BY DEF Inv, SyncInv
  <2>2. read \in Seq(Message) /\ sent = read \o unread
    BY <2>1 DEF Sync
  <2>3. Len(read) \in Nat /\ Len(unread) \in Nat /\ Len(sent) = Len(read) + Len(unread)
    BY <2>2, ConcatProperties, LenProperties
  <2>4. SubSeq(read, 1, Len(read)) = read
    BY <2>2, SubSeqFull
  <2>5. SubSeq(sent, 1, Len(read)) = read
    <3>1. SubSeq(read \o unread, 1, Len(read)) = SubSeq(read, 1, Len(read))
      BY <2>2, <2>3, SubSeqOfConcat1
    <3> QED BY <2>2, <2>4, <3>1
  <2>6. Len(read) <= Len(sent)
    BY <2>3
  <2> QED BY <2>4, <2>5, <2>6 DEF IsPrefix
<1> QED BY Invariance, <1>1, PTL

(* A reader that dropped nothing stops where the stream ends, with every   *)
(* whole message read, or with the connection, or at a Submit that is not  *)
(* allowed: decode finds no other error in what encode wrote, and no piece *)
(* a given-up write leaves is taken for the end of a whole frame.          *)
THEOREM StopsForCause == Spec => []FailsForCause
<1>1. Inv => FailsForCause
  BY DEF Inv, StopInv, FailsForCause
<1> QED BY Invariance, <1>1, PTL

(* encode refuses a message exactly when decode would reject its frame.    *)
THEOREM EncodeAgreesWithDecode == Spec => []SameBounds
<1>1. SameBounds
  <2>. SUFFICES ASSUME NEW m \in Message, Fits(m)
                PROVE  Encodes(m) <=> DecodeError(Frame(m)) \in {"none", "SubmitDenied"}
    BY DEF SameBounds
  <2>1. /\ Encodes(m) => DecodeError(Frame(m)) \in {"none", "SubmitDenied"}
        /\ ~Encodes(m) => DecodeError(Frame(m)) = "FrameTooLarge"
    BY FrameDecodes
  <2> QED BY <2>1
<1> QED BY <1>1, PTL

(* What encode writes, decode_parts splits into the message it was given,  *)
(* and no check of decode but the authorizer's refuses it.                 *)
THEOREM RoundTrip ==
  ASSUME NEW m \in Message, Encodes(m)
  PROVE  /\ [doc |-> DocOf(Frame(m)), body |-> BodyOf(Frame(m))] = m
         /\ \/ DecodeError(Frame(m)) = "none"
            \/ /\ DecodeError(Frame(m)) = "SubmitDenied"
               /\ KindOf[m.doc] = "Submit" /\ ~allowed
  BY EncodedFits, FrameIsMessage, FrameDecodes

=============================================================================
