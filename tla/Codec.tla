-------------------------------- MODULE Codec --------------------------------
(***************************************************************************)
(* What the codecs of the library make of a stream that is cut anywhere:   *)
(* one frame from a sender to a reader (WriteHeader, ReadHeader, and       *)
(* CipherWriter and CipherReader of src/msutil/cipher.go), and the bytes   *)
(* of a text in the UTF8Reader (src/msutil/utf8.go).                       *)
(***************************************************************************)
EXTENDS HeaderCodec, Cipher, Utf8

CONSTANTS
  Lengths,     \* lengths of a payload
  MaxPayload,  \* bound: payloads of more bytes are not sent, only announced
  TextBytes    \* bytes of a text: the ends of every range UTF-8 tells apart

ASSUME CodecConstants ==
  /\ Lengths \subseteq Nat
  /\ MaxPayload \in Nat
  /\ TextBytes \subseteq 0..255

ASSUME LengthBounds ==
  /\ Len7 <= 125 /\ Len16 <= 65535
  /\ \A n \in Lengths : n <= 2147483647

Mask == <<17, 34, 51, 68>>

Headers ==
  [fin : BOOLEAN, rsv : 0..7, op : 0..15, masked : {TRUE}, mask : {Mask},
   length : Lengths]
  \cup
  [fin : BOOLEAN, rsv : 0..7, op : 0..15, masked : {FALSE}, mask : {NoMask},
   length : Lengths]

NoHeader == [masked |-> FALSE, length |-> 0]

VARIABLES
  hdr,    \* the frame's header
  pc,     \* "write", "payload", "read", "unmask", "text", "stopped"
  wire,   \* the header and the payload in the stream
  sent,   \* CipherWriter.pos, the bytes of payload that have been written
  given,  \* the bytes of the header that ReadHeader was given
  got,    \* what ReadHeader returned, and the payload read after it
  text    \* the UTF8Reader's state and codep, and the bytes since the last
          \* whole sequence

vars == <<hdr, pc, wire, sent, given, got, text>>

Unread == [err |-> "none"]

Init ==
  /\ \/ hdr \in Headers /\ pc = "write"
     \/ hdr = NoHeader /\ pc = "text"
  /\ wire = [header |-> <<>>, payload |-> <<>>]
  /\ sent = 0
  /\ given = <<>>
  /\ got = [header |-> Unread, payload |-> <<>>]
  /\ text = [state |-> Utf8Accept, codep |-> 0, bytes |-> <<>>]

(* A payload of n plain bytes. *)
Plain(n) == [i \in 1..n |-> {}]

Sent == hdr.length <= MaxPayload

WriteFrameHeader ==
  /\ pc = "write"
  /\ wire' = [wire EXCEPT !.header = WriteHeader(hdr)]
  /\ pc' = IF Sent /\ hdr.length > 0 THEN "payload" ELSE "read"
  /\ UNCHANGED <<hdr, sent, given, got, text>>

(* CipherWriter.Write of up to k bytes, of which the destination takes n; or
   the payload of an unmasked frame. *)
WritePayload ==
  /\ pc = "payload"
  /\ \E k \in 1..(hdr.length - sent) : \E n \in 1..k :
       LET p == IF hdr.masked THEN Cipher(Plain(k), hdr.mask, sent) ELSE Plain(k)
       IN  /\ wire' = [wire EXCEPT !.payload = @ \o SubSeq(p, 1, n)]
           /\ sent' = sent + n
  /\ pc' = IF sent' = hdr.length THEN "read" ELSE "payload"
  /\ UNCHANGED <<hdr, given, got, text>>

(* The stream may end anywhere in the header. *)
ReadFrameHeader ==
  /\ pc = "read"
  /\ \E k \in 0..Len(wire.header) : given' = SubSeq(wire.header, 1, k)
  /\ got' = [got EXCEPT !.header = ReadHeader(given')]
  /\ pc' = IF got'.header.err = "nil" /\ Sent THEN "unmask" ELSE "stopped"
  /\ UNCHANGED <<hdr, wire, sent, text>>

(* The header with the eight bytes of its length n turned into those of
   -1 - n. *)
Negative(w) == [i \in 1..Len(w) |-> IF i \in 3..10 THEN 255 - w[i] ELSE w[i]]

(* Another peer sends a length that is negative. *)
ReadLongHeader ==
  /\ pc = "read"
  /\ hdr.length > Len16
  /\ given' = Negative(wire.header)
  /\ got' = [got EXCEPT !.header = ReadHeader(given')]
  /\ pc' = "stopped"
  /\ UNCHANGED <<hdr, wire, sent, text>>

(* CipherReader.Read of k bytes, or a Read of an unmasked frame. *)
ReadPayload ==
  /\ pc = "unmask"
  /\ Len(got.payload) < got.header.h.length
  /\ \E k \in 1..(got.header.h.length - Len(got.payload)) :
       LET pos == Len(got.payload)
           p == SubSeq(wire.payload, pos + 1, pos + k)
       IN  got' = [got EXCEPT !.payload =
                     @ \o IF got.header.h.masked
                          THEN Cipher(p, got.header.h.mask, pos) ELSE p]
  /\ UNCHANGED <<hdr, pc, wire, sent, given, text>>

(* A byte in UTF8Reader.Read, which stops at the first that cannot be. *)
ReadByte ==
  /\ pc = "text"
  /\ text.state # Utf8Reject
  /\ \E b \in TextBytes :
       LET d == Decode(text.state, text.codep, b)
       IN  text' = [state |-> d.state, codep |-> d.codep,
                    bytes |-> Append(IF text.state = Utf8Accept THEN <<>>
                                     ELSE text.bytes, b)]
  /\ UNCHANGED <<hdr, pc, wire, sent, given, got>>

Next ==
  \/ WriteFrameHeader \/ WritePayload
  \/ ReadFrameHeader \/ ReadLongHeader \/ ReadPayload
  \/ ReadByte

Spec == Init /\ [][Next]_vars

-----------------------------------------------------------------------------
(* Properties. *)

(* What ReadHeader owes for the bytes b, when header h was written as w: the
   header when b is all of w; an end of file when b is cut short; and for
   anything else, which is a negative length, the error about its sign. *)
ReadRight(read, b, w, h) ==
  /\ b = w => read = [err |-> "nil", h |-> h, rest |-> <<>>]
  /\ Len(b) < Len(w) => read.err \in {"EOF", "ErrUnexpectedEOF"}
  /\ b # w /\ Len(b) >= Len(w) => read.err = "ErrHeaderLengthMSB"

(* A header that arrives whole is read, and as it was written, wherever the
   length needs two or eight bytes more; one in which the stream ends is an
   end of file, and one of a negative length ErrHeaderLengthMSB ("the most
   significant bit must be 0"); the payload is read back however it was cut into
   writes and reads, by a mask whose phase goes on from one to the next, and
   nothing of a masked frame is plain on the wire. *)
FramesSurvive ==
  /\ pc \in {"unmask", "stopped"} => ReadRight(got.header, given, wire.header, hdr)
  /\ pc = "unmask" => got.payload = Plain(Len(got.payload))
  /\ pc = "read" => Len(wire.header) = HeaderSize(hdr.masked, hdr.length)
  /\ hdr.masked => \A i \in 1..Len(wire.payload) : wire.payload[i] # {}

(* The well-formed sequences, by the ranges of their bytes. *)
Cont == 128..191
WellFormed ==
  { << 0..127 >>,
    << 194..223, Cont >>,
    << {224}, 160..191, Cont >>,
    << (225..236) \cup {238, 239}, Cont, Cont >>,
    << {237}, 128..159, Cont >>,
    << {240}, 144..191, Cont, Cont >>,
    << 241..243, Cont, Cont, Cont >>,
    << {244}, 128..143, Cont, Cont >> }

Matches(bytes, ranges) ==
  /\ Len(bytes) <= Len(ranges)
  /\ \A i \in 1..Len(bytes) : bytes[i] \in ranges[i]

(* The bytes that a code point takes. *)
Width(c) == IF c < 128 THEN 1 ELSE IF c < 2048 THEN 2 ELSE IF c < 65536 THEN 3 ELSE 4

(* The UTF8Reader rejects a text at its first byte with which it cannot
   become well-formed and not before, accepts it where it is, and has then
   decoded a code point that is no surrogate and could not be shorter. *)
TextJudged ==
  text.bytes # <<>> =>
    LET after == {r \in WellFormed : Matches(text.bytes, r)}
    IN  /\ text.state = Utf8Reject <=> after = {}
        /\ text.state = Utf8Accept <=> \E r \in after : Len(r) = Len(text.bytes)
        /\ text.state = Utf8Accept =>
             /\ text.codep <= 1114111 /\ text.codep \notin 55296..57343
             /\ Len(text.bytes) = Width(text.codep)

=============================================================================
