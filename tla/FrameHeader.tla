----------------------------- MODULE FrameHeader -----------------------------
(***************************************************************************)
(* Sizes of a WebSocket frame header.                                      *)
(*                                                                         *)
(* A payload of at most Len7 bytes has its length in the second header     *)
(* byte, one of at most Len16 bytes in two more bytes, a longer one in     *)
(* eight more; a client adds the four bytes of the mask.  In the program   *)
(* Len7 is 125 and Len16 is 65535; they are constants so that TLC can      *)
(* cross both boundaries with buffers of a few bytes.                      *)
(***************************************************************************)
EXTENDS Integers

CONSTANTS Len7, Len16

ASSUME HeaderLengths ==
  /\ Len7 \in Nat
  /\ Len16 \in Nat
  /\ Len7 < Len16

MinHeaderSize == 2

(* The four bytes of Header.Mask, present when the sender is a client. *)
MaskSize(masked) == IF masked THEN 4 ELSE 0

(* The bytes a header takes when the payload has n bytes. *)
HeaderSize(masked, n) ==
  MaskSize(masked) + (IF n <= Len7 THEN 2 ELSE IF n <= Len16 THEN 4 ELSE 10)

\* Mutant: the bound of the two byte header is taken from the four byte one.
ReserveLate(client, size) ==
  LET mask == MaskSize(client)
  IN  mask + (IF size <= Len7 + mask + 4 THEN 2
              ELSE IF size <= Len16 + mask + 4 THEN 4 ELSE 10)

(* The bytes a Writer keeps free for the header in front of a buffer whose
   raw size, the reserved bytes included, is size. *)
Reserve(client, size) ==
  LET mask == MaskSize(client)
  IN  mask + (IF size <= Len7 + mask + 2 THEN 2
              ELSE IF size <= Len16 + mask + 4 THEN 4 ELSE 10)

(* The raw size NewWriterSize asks for to hold a payload of n bytes. *)
SizeFor(client, n) == n + HeaderSize(client, n)
=============================================================================
