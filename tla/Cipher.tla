-------------------------------- MODULE Cipher --------------------------------
(***************************************************************************)
(* ms.Cipher (src/cipher.go), the masking of payloads.                     *)
(*                                                                         *)
(* A byte is the set of mask bytes that it has been combined with: x ^ m   *)
(* puts m into the set of x, or takes it out, and the byte is plain when   *)
(* the set is empty.  The mask's four bytes are taken to be different.     *)
(***************************************************************************)
EXTENDS Integers, Sequences

Xor(x, y) == (x \ y) \cup (y \ x)

\* Mutant: the bytes before the position instead of those up to the next word.
RemainBefore == <<0, 1, 2, 3>>

(* remain, by position in the mask. *)
Remain == <<0, 3, 2, 1>>

(* A payload of eight bytes or more has a head up to the next start of the
   mask and a tail that are masked byte by byte, and words of eight bytes
   between them, on which the mask lies twice.  i counts from one. *)
Cipher(payload, mask, offset) ==
  LET n == Len(payload)
      mpos == offset % 4
      ln == Remain[mpos + 1]
      rn == (n - ln) % 8
      key(i) == IF n < 8 THEN (offset + i - 1) % 4
                ELSE IF i <= ln \/ i > n - rn THEN (mpos + i - 1) % 4
                ELSE ((i - 1 - ln) % 8) % 4
  IN  [i \in 1..n |-> Xor(payload[i], {mask[key(i) + 1]})]
=============================================================================
