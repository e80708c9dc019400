--------------------------------- MODULE Utf8 ---------------------------------
(***************************************************************************)
(* The decoder of src/msutil/utf8.go: an automaton over classes of bytes.  *)
(***************************************************************************)
EXTENDS Integers, Sequences

Utf8Accept == 0
Utf8Reject == 12

\* Mutant: the surrogates are not told apart.
ClassSurrogate(b) ==
  CASE b \in 0..127 -> 0
    [] b \in 128..143 -> 1
    [] b \in 144..159 -> 9
    [] b \in 160..191 -> 7
    [] b \in {192, 193} \cup (245..255) -> 8
    [] b \in 194..223 -> 2
    [] b = 224 -> 10
    [] b \in 225..239 -> 3
    [] b = 240 -> 11
    [] b \in 241..243 -> 6
    [] b = 244 -> 5

(* The first part of utf8d. *)
Class(b) ==
  CASE b \in 0..127 -> 0
    [] b \in 128..143 -> 1
    [] b \in 144..159 -> 9
    [] b \in 160..191 -> 7
    [] b \in {192, 193} \cup (245..255) -> 8
    [] b \in 194..223 -> 2
    [] b = 224 -> 10
    [] b \in (225..239) \ {237} -> 3
    [] b = 237 -> 4
    [] b = 240 -> 11
    [] b \in 241..243 -> 6
    [] b = 244 -> 5

(* The second part: a row of twelve classes for every state. *)
Transitions ==
  << 0, 12, 24, 36, 60, 96, 84, 12, 12, 12, 48, 72,
     12, 12, 12, 12, 12, 12, 12, 12, 12, 12, 12, 12,
     12, 0, 12, 12, 12, 12, 12, 0, 12, 0, 12, 12,
     12, 24, 12, 12, 12, 12, 12, 24, 12, 24, 12, 12,
     12, 12, 12, 12, 12, 12, 12, 24, 12, 12, 12, 12,
     12, 24, 12, 12, 12, 12, 12, 12, 12, 24, 12, 12,
     12, 12, 12, 12, 12, 12, 12, 36, 12, 36, 12, 12,
     12, 36, 12, 12, 12, 12, 12, 36, 12, 36, 12, 12,
     12, 36, 12, 12, 12, 12, 12, 12, 12, 12, 12, 12 >>

(* 0xff >> t, by class, and one. *)
Shifted == << 256, 128, 64, 32, 16, 8, 4, 2, 1, 1, 1, 1 >>

(* decode. *)
Decode(state, codep, b) ==
  LET t == Class(b)
  IN  [codep |-> IF state # Utf8Accept THEN codep * 64 + (b % 64)
                 ELSE b % Shifted[t + 1],
       state |-> Transitions[state + t + 1]]
=============================================================================
