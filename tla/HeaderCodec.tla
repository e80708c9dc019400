------------------------------ MODULE HeaderCodec ------------------------------
(***************************************************************************)
(* WriteHeader (src/write.go) and ReadHeader (src/read.go): the bytes of a *)
(* frame header.  Lengths that are written are below 2^31, so that of the  *)
(* eight bytes of a long length the first four are zero; those that are    *)
(* read may be anything, and may be those of a negative number.            *)
(***************************************************************************)
EXTENDS FrameHeader, SequencesExt

(* binary.BigEndian.PutUint16 and PutUint64. *)
PutUint16(n) == <<n \div 256, n % 256>>
PutUint64(n) == <<0, 0, 0, 0, n \div 16777216>>
                  \o <<(n \div 65536) % 256, (n \div 256) % 256, n % 256>>

(* Uint16 and Uint64. *)
Uint16(b) == b[2] + 256 * b[1]
Uint64(b) ==
  b[8] + 256 * (b[7] + 256 * (b[6] + 256 * (b[5]
    + 256 * (b[4] + 256 * (b[3] + 256 * (b[2] + 256 * b[1]))))))

(* The bytes with every bit turned over. *)
Complement(b) == [i \in 1..8 |-> 255 - b[i]]

(* The conversion of a Uint64 to int64. *)
Int64(b) == IF b[1] < 128 THEN Uint64(b) ELSE -1 - Uint64(Complement(b))

LengthBytes(n) ==
  CASE n <= Len7 -> <<n>>
    [] n > Len7 /\ n <= Len16 -> <<126>> \o PutUint16(n)
    [] n > Len16 -> <<127>> \o PutUint64(n)

(* WriteHeader. *)
WriteHeader(h) ==
  LET first == (IF h.fin THEN 128 ELSE 0) + h.rsv * 16 + h.op
      len == LengthBytes(h.length)
  IN  <<first, len[1] + (IF h.masked THEN 128 ELSE 0)>>
        \o Tail(len) \o (IF h.masked THEN h.mask ELSE <<>>)

NoMask == <<0, 0, 0, 0>>

(* The mark of the length in the second byte, and the bytes behind it. *)
LengthOf(bytes) == bytes[2] % 128

Extra(bytes) ==
  (IF bytes[2] >= 128 THEN 4 ELSE 0)
    + (CASE LengthOf(bytes) = 126 -> 2 [] LengthOf(bytes) = 127 -> 8 [] OTHER -> 0)

\* Mutant: the sign of a long length is not looked at.
ReadErrorUnsigned(bytes) ==
  LET n == Len(bytes) IN
  CASE n = 0 -> "EOF"
    [] n = 1 -> "ErrUnexpectedEOF"
    [] n = 2 /\ Extra(bytes) > 0 -> "EOF"
    [] n > 2 /\ n < 2 + Extra(bytes) -> "ErrUnexpectedEOF"
    [] OTHER -> "nil"

ReadError(bytes) ==
  LET n == Len(bytes) IN
  CASE n = 0 -> "EOF"
    [] n = 1 -> "ErrUnexpectedEOF"
    [] n = 2 /\ Extra(bytes) > 0 -> "EOF"
    [] n > 2 /\ n < 2 + Extra(bytes) -> "ErrUnexpectedEOF"
    [] n >= 2 + Extra(bytes) /\ LengthOf(bytes) = 127 /\ bytes[3] >= 128 ->
         "ErrHeaderLengthMSB"
    [] OTHER -> "nil"

(* ReadHeader: the error, the header, and what is left of bytes. *)
ReadHeader(bytes) ==
  IF ReadError(bytes) # "nil" THEN [err |-> ReadError(bytes), rest |-> <<>>]
  ELSE [err |-> "nil",
        h |-> [fin |-> bytes[1] >= 128,
               rsv |-> (bytes[1] % 128) \div 16,
               op |-> bytes[1] % 16,
               masked |-> bytes[2] >= 128,
               mask |-> IF bytes[2] >= 128
                        THEN SubSeq(bytes, Extra(bytes) - 1, Extra(bytes) + 2)
                        ELSE NoMask,
               length |-> CASE LengthOf(bytes) = 126 -> Uint16(SubSeq(bytes, 3, 4))
                            [] LengthOf(bytes) = 127 -> Int64(SubSeq(bytes, 3, 10))
                            [] OTHER -> LengthOf(bytes)],
        rest |-> SubSeq(bytes, 3 + Extra(bytes), Len(bytes))]
=============================================================================
