------------------------------ MODULE CodecProofs ------------------------------
(***************************************************************************)
(* Theorems about Codec, for frames of any length and texts of any bytes.  *)
(***************************************************************************)
EXTENDS Codec, SequenceTheorems, TLAPS

-----------------------------------------------------------------------------
(* The table of utf8d, row by row. *)

Classes == 0..11

Octets == 0..255

LEMMA RowAccept ==
  /\ Transitions[1] = 0 /\ Transitions[2] = 12 /\ Transitions[3] = 24
  /\ Transitions[4] = 36 /\ Transitions[5] = 60 /\ Transitions[6] = 96
  /\ Transitions[7] = 84 /\ Transitions[8] = 12 /\ Transitions[9] = 12
  /\ Transitions[10] = 12 /\ Transitions[11] = 48 /\ Transitions[12] = 72
BY DEF Transitions

LEMMA RowsWithin ==
  \A t \in Classes :
    /\ Transitions[24 + t + 1] = IF t \in {1, 7, 9} THEN 0 ELSE 12
    /\ Transitions[36 + t + 1] = IF t \in {1, 7, 9} THEN 24 ELSE 12
    /\ Transitions[48 + t + 1] = IF t = 7 THEN 24 ELSE 12
    /\ Transitions[60 + t + 1] = IF t \in {1, 9} THEN 24 ELSE 12
    /\ Transitions[72 + t + 1] = IF t \in {7, 9} THEN 36 ELSE 12
    /\ Transitions[84 + t + 1] = IF t \in {1, 7, 9} THEN 36 ELSE 12
    /\ Transitions[96 + t + 1] = IF t = 1 THEN 36 ELSE 12
<1> TAKE t \in Classes
<1>1. Transitions[24 + t + 1] = IF t \in {1, 7, 9} THEN 0 ELSE 12
  BY DEF Transitions, Classes
<1>2. Transitions[36 + t + 1] = IF t \in {1, 7, 9} THEN 24 ELSE 12
  BY DEF Transitions, Classes
<1>3. Transitions[48 + t + 1] = IF t = 7 THEN 24 ELSE 12
  BY DEF Transitions, Classes
<1>4. Transitions[60 + t + 1] = IF t \in {1, 9} THEN 24 ELSE 12
  BY DEF Transitions, Classes
<1>5. Transitions[72 + t + 1] = IF t \in {7, 9} THEN 36 ELSE 12
  BY DEF Transitions, Classes
<1>6. Transitions[84 + t + 1] = IF t \in {1, 7, 9} THEN 36 ELSE 12
  BY DEF Transitions, Classes
<1>7. Transitions[96 + t + 1] = IF t = 1 THEN 36 ELSE 12
  BY DEF Transitions, Classes
<1> QED
  BY <1>1, <1>2, <1>3, <1>4, <1>5, <1>6, <1>7

(* The class of every byte, by comparisons. *)
LEMMA ClassOf ==
  ASSUME NEW b \in Octets
  PROVE  /\ b < 128 => Class(b) = 0
         /\ 128 <= b /\ b < 144 => Class(b) = 1
         /\ 144 <= b /\ b < 160 => Class(b) = 9
         /\ 160 <= b /\ b < 192 => Class(b) = 7
         /\ 192 <= b /\ b < 194 => Class(b) = 8
         /\ 194 <= b /\ b < 224 => Class(b) = 2
         /\ b = 224 => Class(b) = 10
         /\ 225 <= b /\ b < 240 /\ b # 237 => Class(b) = 3
         /\ b = 237 => Class(b) = 4
         /\ b = 240 => Class(b) = 11
         /\ 241 <= b /\ b < 244 => Class(b) = 6
         /\ b = 244 => Class(b) = 5
         /\ 245 <= b => Class(b) = 8
<1> USE DEF Octets
<1>1. b < 128 => Class(b) = 0
  BY DEF Class
<1>2. 128 <= b /\ b < 144 => Class(b) = 1
  BY DEF Class
<1>3. 144 <= b /\ b < 160 => Class(b) = 9
  BY DEF Class
<1>4. 160 <= b /\ b < 192 => Class(b) = 7
  BY DEF Class
<1>5. 192 <= b /\ b < 194 => Class(b) = 8
  BY DEF Class
<1>6. 194 <= b /\ b < 224 => Class(b) = 2
  BY DEF Class
<1>7. b = 224 => Class(b) = 10
  BY DEF Class
<1>8. 225 <= b /\ b < 240 /\ b # 237 => Class(b) = 3
  BY DEF Class
<1>9. b = 237 => Class(b) = 4
  BY DEF Class
<1>10. b = 240 => Class(b) = 11
  BY DEF Class
<1>11. 241 <= b /\ b < 244 => Class(b) = 6
  BY DEF Class
<1>12. b = 244 => Class(b) = 5
  BY DEF Class
<1>13. 245 <= b => Class(b) = 8
  BY DEF Class
<1> QED
  BY <1>1, <1>2, <1>3, <1>4, <1>5, <1>6, <1>7, <1>8, <1>9, <1>10, <1>11,
     <1>12, <1>13

LEMMA ClassTyped ==
  ASSUME NEW b \in Octets
  PROVE  Class(b) \in Classes
BY ClassOf DEF Classes, Octets

(* The bytes that may begin a sequence, the state behind them, and the bits of
   the code point that they have. *)
Begins(a) == a < 128 \/ (194 <= a /\ a < 245)

StateBehind(a) ==
  IF a < 128 THEN 0 ELSE IF a < 224 THEN 24 ELSE IF a = 224 THEN 48
  ELSE IF a = 237 THEN 60 ELSE IF a < 240 THEN 36 ELSE IF a = 240 THEN 72
  ELSE IF a < 244 THEN 84 ELSE 96

LeadBits(a) ==
  IF a < 128 THEN a ELSE IF a < 224 THEN a - 192 ELSE IF a < 240 THEN a - 224
  ELSE a - 240

LEMMA DecodeFirst ==
  ASSUME NEW a \in Octets, NEW c, NEW d, d = Decode(Utf8Accept, c, a)
  PROVE  /\ d.state = IF Begins(a) THEN StateBehind(a) ELSE Utf8Reject
         /\ Begins(a) => d.codep = LeadBits(a)
<1> USE DEF Octets
<1> DEFINE t == Class(a)
<1>1. /\ d.state = Transitions[0 + t + 1]
      /\ d.codep = a % Shifted[t + 1]
  BY DEF Decode, Utf8Accept
<1>2. t \in Classes
  BY ClassTyped
<1>3. d.state = Transitions[t + 1]
  BY <1>1, <1>2 DEF Classes
<1>4. d.state = IF Begins(a) THEN StateBehind(a) ELSE Utf8Reject
  BY <1>3, ClassOf, RowAccept DEF Begins, StateBehind, Utf8Reject
<1>5. Begins(a) => d.codep = LeadBits(a)
  BY <1>1, ClassOf DEF Begins, LeadBits, Shifted
<1> QED
  BY <1>4, <1>5

(* The bytes that may follow in a state, and the state behind them. *)
Inside == {24, 36, 48, 60, 72, 84, 96}

Follows(s, b) ==
  /\ 128 <= b /\ b < 192
  /\ s = 48 => 160 <= b
  /\ s = 60 => b < 160
  /\ s = 72 => 144 <= b
  /\ s = 96 => b < 144

Onward(s) == IF s = 24 THEN 0 ELSE IF s \in {36, 48, 60} THEN 24 ELSE 36

GoesOn(d, s, c, b) ==
  /\ d.state = IF Follows(s, b) THEN Onward(s) ELSE Utf8Reject
  /\ Follows(s, b) => d.codep = c * 64 + (b - 128)

LEMMA DecodeNext ==
  ASSUME NEW s \in Inside, NEW b \in Octets, NEW c \in Nat, NEW d,
         d = Decode(s, c, b)
  PROVE  GoesOn(d, s, c, b)
<1> USE DEF GoesOn
<1> USE DEF Octets
<1> DEFINE t == Class(b)
<1>1. /\ d.state = Transitions[s + t + 1]
      /\ d.codep = c * 64 + (b % 64)
  BY DEF Decode, Utf8Accept, Inside
<1>2. t \in Classes
  BY ClassTyped
<1>3. t \in {1, 7, 9} <=> 128 <= b /\ b < 192
  BY ClassOf
<1>4. 128 <= b /\ b < 192 =>
        /\ t = 7 <=> 160 <= b
        /\ t = 1 <=> b < 144
        /\ t = 9 <=> 144 <= b /\ b < 160
  BY ClassOf
<1> HIDE DEF t
<1>5. d.state = IF Follows(s, b) THEN Onward(s) ELSE Utf8Reject
  <2>1. CASE s \in {24, 36, 84}
    BY <2>1, <1>1, <1>2, <1>3, RowsWithin DEF Follows, Onward, Utf8Reject
  <2>2. CASE s = 48
    BY <2>2, <1>1, <1>2, <1>3, <1>4, RowsWithin DEF Follows, Onward, Utf8Reject
  <2>3. CASE s = 60
    BY <2>3, <1>1, <1>2, <1>3, <1>4, RowsWithin DEF Follows, Onward, Utf8Reject
  <2>4. CASE s = 72
    BY <2>4, <1>1, <1>2, <1>3, <1>4, RowsWithin DEF Follows, Onward, Utf8Reject
  <2>5. CASE s = 96
    BY <2>5, <1>1, <1>2, <1>3, <1>4, RowsWithin DEF Follows, Onward, Utf8Reject
  <2> QED
    BY <2>1, <2>2, <2>3, <2>4, <2>5 DEF Inside
<1>6. 128 <= b /\ b < 192 => b % 64 = b - 128
  OBVIOUS
<1> QED
  BY <1>1, <1>5, <1>6 DEF Follows

-----------------------------------------------------------------------------
(* The sequences of well-formed UTF-8, by comparisons. *)

Tail1(b) == 128 <= b /\ b < 192

Second(a, b) ==
  /\ Tail1(b)
  /\ a = 224 => 160 <= b
  /\ a = 237 => b < 160
  /\ a = 240 => 144 <= b
  /\ a = 244 => b < 144

Need(a) == IF a < 128 THEN 1 ELSE IF a < 224 THEN 2 ELSE IF a < 240 THEN 3 ELSE 4

(* n bytes, a the first, x, y and z the others, begin a sequence or are one. *)
OpensAs(n, a, x, y, z) ==
  /\ n \in 1..4
  /\ Begins(a)
  /\ n >= 2 => 194 <= a /\ Second(a, x)
  /\ n >= 3 => 224 <= a /\ Tail1(y)
  /\ n = 4 => 240 <= a /\ Tail1(z)

StateAs(n, a) ==
  IF n = 1 THEN StateBehind(a) ELSE IF n = Need(a) THEN 0
  ELSE IF n + 1 = Need(a) THEN 24 ELSE 36

CodeAs(n, a, x, y, z) ==
  IF n = 1 THEN LeadBits(a)
  ELSE IF n = 2 THEN LeadBits(a) * 64 + (x - 128)
  ELSE IF n = 3 THEN (LeadBits(a) * 64 + (x - 128)) * 64 + (y - 128)
  ELSE ((LeadBits(a) * 64 + (x - 128)) * 64 + (y - 128)) * 64 + (z - 128)

LEMMA BitsTyped ==
  ASSUME NEW a \in Octets, Begins(a)
  PROVE  LeadBits(a) \in Nat
BY DEF LeadBits, Begins, Octets

LEMMA InsideAfter ==
  ASSUME NEW n \in 1..3, NEW a \in Octets, NEW x \in Octets, NEW y \in Octets,
         NEW z, OpensAs(n, a, x, y, z), StateAs(n, a) # 0
  PROVE  /\ n < Need(a)
         /\ StateAs(n, a) \in Inside
         /\ CodeAs(n, a, x, y, z) \in Nat
<1> USE DEF Octets
<1>1. CASE n = 1
  BY <1>1, BitsTyped
     DEF OpensAs, StateAs, StateBehind, CodeAs, Need, Inside, Begins
<1>2. CASE n = 2
  BY <1>2, BitsTyped DEF OpensAs, StateAs, CodeAs, Need, Inside, Second, Tail1
<1>3. CASE n = 3
  BY <1>3, BitsTyped DEF OpensAs, StateAs, CodeAs, Need, Inside, Second, Tail1
<1> QED
  BY <1>1, <1>2, <1>3

LEMMA OneMore ==
  ASSUME NEW n \in 1..3, NEW a \in Octets, NEW x \in Octets, NEW y \in Octets,
         NEW b \in Octets, NEW z,
         NEW x2 \in Octets, NEW y2 \in Octets,
         OpensAs(n, a, x, y, z), StateAs(n, a) # 0,
         x2 = IF n = 1 THEN b ELSE x,
         n >= 2 => y2 = IF n = 2 THEN b ELSE y
  PROVE  /\ OpensAs(n + 1, a, x2, y2, b) <=> Follows(StateAs(n, a), b)
         /\ Follows(StateAs(n, a), b) =>
              /\ StateAs(n + 1, a) = Onward(StateAs(n, a))
              /\ CodeAs(n + 1, a, x2, y2, b)
                   = CodeAs(n, a, x, y, z) * 64 + (b - 128)
<1> USE DEF Octets
<1>1. n < Need(a)
  BY InsideAfter, Zenon
<1>2. OpensAs(n + 1, a, x2, y2, b) <=> Follows(StateAs(n, a), b)
  <2>1. CASE n = 1
    BY <2>1, <1>1
       DEF OpensAs, StateAs, StateBehind, Follows, Second, Tail1, Need, Begins
  <2>2. CASE n = 2
    <3>1. StateAs(n, a) \in {24, 36}
      BY <1>1, <2>2 DEF StateAs, Need
    <3> QED
      BY <3>1, <2>2, <1>1 DEF OpensAs, Follows, Tail1, Need
  <2>3. CASE n = 3
    <3>1. StateAs(n, a) = 24
      BY <1>1, <2>3 DEF StateAs, Need
    <3> QED
      BY <3>1, <2>3, <1>1 DEF OpensAs, Follows, Tail1, Need
  <2> QED
    BY <2>1, <2>2, <2>3
<1>3. StateAs(n + 1, a) = Onward(StateAs(n, a))
  BY <1>1 DEF OpensAs, StateAs, StateBehind, Onward, Need, Begins
<1>4. CodeAs(n + 1, a, x2, y2, b) = CodeAs(n, a, x, y, z) * 64 + (b - 128)
  BY DEF CodeAs
<1> QED
  BY <1>2, <1>3, <1>4

Opens(s) == OpensAs(Len(s), s[1], s[2], s[3], s[4])
StateAt(s) == StateAs(Len(s), s[1])
CodeAt(s) == CodeAs(Len(s), s[1], s[2], s[3], s[4])

(* What the automaton knows of the bytes since the last whole sequence. *)
Knows(state, codep, s) ==
  IF Opens(s) THEN state = StateAt(s) /\ codep = CodeAt(s) ELSE state = Utf8Reject

(* The first four bytes of a sequence, or any where it has none. *)
LEMMA FourBytes ==
  ASSUME NEW s \in Seq(Octets), Len(s) >= 1
  PROVE  \E a, x, y, z \in Octets :
           /\ a = s[1]
           /\ Len(s) >= 2 => x = s[2]
           /\ Len(s) >= 3 => y = s[3]
           /\ Len(s) >= 4 => z = s[4]
<1>1. s[1] \in Octets
  OBVIOUS
<1>2. PICK x \in Octets : Len(s) >= 2 => x = s[2]
  <2>1. Len(s) >= 2 => s[2] \in Octets
    OBVIOUS
  <2> QED
    BY <1>1, <2>1
<1>3. PICK y \in Octets : Len(s) >= 3 => y = s[3]
  <2>1. Len(s) >= 3 => s[3] \in Octets
    OBVIOUS
  <2> QED
    BY <1>1, <2>1
<1>4. PICK z \in Octets : Len(s) >= 4 => z = s[4]
  <2>1. Len(s) >= 4 => s[4] \in Octets
    OBVIOUS
  <2> QED
    BY <1>1, <2>1
<1> QED
  BY <1>1, <1>2, <1>3, <1>4

LEMMA KnowsFirst ==
  ASSUME NEW b \in Octets, NEW c, NEW d, d = Decode(Utf8Accept, c, b)
  PROVE  Knows(d.state, d.codep, <<b>>)
<1>1. Opens(<<b>>) <=> Begins(b)
  BY DEF Opens, OpensAs
<1>2. StateAt(<<b>>) = StateBehind(b)
  BY DEF StateAt, StateAs
<1>3. CodeAt(<<b>>) = LeadBits(b)
  BY DEF CodeAt, CodeAs
<1> QED
  BY <1>1, <1>2, <1>3, DecodeFirst DEF Knows

LEMMA KnowsNext ==
  ASSUME NEW s \in Seq(Octets), NEW st, NEW c, NEW b \in Octets, NEW d,
         Opens(s), st # Utf8Accept, Knows(st, c, s),
         d = Decode(st, c, b)
  PROVE  Knows(d.state, d.codep, Append(s, b))
<1>1. Len(s) \in 1..4 /\ st # 0
  BY DEF Opens, OpensAs, Utf8Accept
<1>2. PICK n \in 1..4 : n = Len(s)
  BY <1>1
<1>3. PICK a \in Octets, x \in Octets, y \in Octets, z \in Octets :
        /\ a = s[1]
        /\ n >= 2 => x = s[2]
        /\ n >= 3 => y = s[3]
        /\ n >= 4 => z = s[4]
  BY <1>1, <1>2, FourBytes
<1>4. OpensAs(n, a, x, y, z)
  BY <1>2, <1>3 DEF Opens, OpensAs
<1>5. st = StateAt(s) /\ c = CodeAt(s)
  BY DEF Knows
<1>6. st = StateAs(n, a)
  BY <1>2, <1>3, <1>5 DEF StateAt
<1>7. n \in 1..3
  BY <1>1, <1>4, <1>6 DEF OpensAs, StateAs, Need, Octets
<1>8. c = CodeAs(n, a, x, y, z)
  BY <1>2, <1>3, <1>5, <1>7 DEF CodeAt, CodeAs
<1>9. PICK x2 \in Octets : x2 = IF n = 1 THEN b ELSE x
  BY <1>7
<1>10. PICK y2 \in Octets : y2 = IF n = 2 THEN b ELSE y
  BY <1>7
<1>11. PICK t : t = Append(s, b)
  OBVIOUS
<1>12. /\ Len(t) = n + 1 /\ t[1] = a /\ t[n + 1] = b
       /\ n >= 2 => t[2] = x
       /\ n >= 3 => t[3] = y
  BY <1>2, <1>3, <1>7, <1>11
<1>13. t[2] = x2 /\ (n >= 2 => t[3] = y2) /\ (n = 3 => t[4] = b)
  BY <1>7, <1>9, <1>10, <1>12
<1>14. Opens(t) <=> OpensAs(n + 1, a, x2, y2, b)
  <2>1. Opens(t) <=> OpensAs(n + 1, a, t[2], t[3], t[4])
    BY <1>12 DEF Opens
  <2> QED
    BY <1>7, <1>13, <2>1 DEF OpensAs
<1>15. StateAt(t) = StateAs(n + 1, a)
  BY <1>12 DEF StateAt
<1>16. CodeAt(t) = CodeAs(n + 1, a, x2, y2, b)
  <2>1. CodeAt(t) = CodeAs(n + 1, a, t[2], t[3], t[4])
    BY <1>12 DEF CodeAt
  <2> QED
    BY <1>7, <1>13, <2>1 DEF CodeAs
<1>17. StateAs(n, a) # 0
  BY <1>1, <1>6
<1>18. st \in Inside /\ c \in Nat
  BY <1>4, <1>6, <1>7, <1>8, <1>17, InsideAfter, Zenon
<1>19. /\ d.state = IF Follows(st, b) THEN Onward(st) ELSE Utf8Reject
       /\ Follows(st, b) => d.codep = c * 64 + (b - 128)
  <2>1. GoesOn(d, st, c, b)
    BY <1>18, DecodeNext, Zenon
  <2> QED
    BY <2>1, Zenon DEF GoesOn
<1>20. /\ OpensAs(n + 1, a, x2, y2, b) <=> Follows(st, b)
       /\ Follows(st, b) => (/\ StateAs(n + 1, a) = Onward(st)
                             /\ CodeAs(n + 1, a, x2, y2, b) = c * 64 + (b - 128))
  <2>1. /\ OpensAs(n + 1, a, x2, y2, b) <=> Follows(StateAs(n, a), b)
        /\ Follows(StateAs(n, a), b) =>
             (/\ StateAs(n + 1, a) = Onward(StateAs(n, a))
              /\ CodeAs(n + 1, a, x2, y2, b)
                    = CodeAs(n, a, x, y, z) * 64 + (b - 128))
    BY <1>4, <1>7, <1>9, <1>10, <1>17, OneMore
  <2> QED
    BY <2>1, <1>6, <1>8
<1> QED
  BY <1>11, <1>14, <1>15, <1>16, <1>19, <1>20 DEF Knows

(* The ranges of WellFormed, named by their rows. *)
Lead1 == 0..127
Lead2 == 194..223
Lead3 == {224}
Lead4 == (225..236) \cup {238, 239}
Lead5 == {237}
Lead6 == {240}
Lead7 == 241..243
Lead8 == {244}
Next3 == 160..191
Next5 == 128..159
Next6 == 144..191
Next8 == 128..143

LEMMA WellFormedRows ==
  WellFormed =
    { <<Lead1>>,
      <<Lead2, Cont>>,
      <<Lead3, Next3, Cont>>,
      <<Lead4, Cont, Cont>>,
      <<Lead5, Next5, Cont>>,
      <<Lead6, Next6, Cont, Cont>>,
      <<Lead7, Cont, Cont, Cont>>,
      <<Lead8, Next8, Cont, Cont>> }
BY DEF WellFormed, Lead1, Lead2, Lead3, Lead4, Lead5, Lead6, Lead7, Lead8,
       Next3, Next5, Next6, Next8

LEMMA Ranges ==
  ASSUME NEW v \in Octets
  PROVE  /\ v \in Lead1 <=> v < 128
         /\ v \in Lead2 <=> 194 <= v /\ v < 224
         /\ v \in Lead3 <=> v = 224
         /\ v \in Lead4 <=> 225 <= v /\ v < 240 /\ v # 237
         /\ v \in Lead5 <=> v = 237
         /\ v \in Lead6 <=> v = 240
         /\ v \in Lead7 <=> 241 <= v /\ v < 244
         /\ v \in Lead8 <=> v = 244
         /\ v \in Next3 <=> 160 <= v /\ v < 192
         /\ v \in Next5 <=> 128 <= v /\ v < 160
         /\ v \in Next6 <=> 144 <= v /\ v < 192
         /\ v \in Next8 <=> 128 <= v /\ v < 144
         /\ v \in Cont <=> Tail1(v)
<1>1. v \in Lead1 <=> v < 128
  BY DEF Lead1, Octets
<1>2. v \in Lead2 <=> 194 <= v /\ v < 224
  BY DEF Lead2, Octets
<1>3. v \in Lead3 <=> v = 224
  BY DEF Lead3, Octets
<1>4. v \in Lead4 <=> 225 <= v /\ v < 240 /\ v # 237
  BY DEF Lead4, Octets
<1>5. v \in Lead5 <=> v = 237
  BY DEF Lead5, Octets
<1>6. v \in Lead6 <=> v = 240
  BY DEF Lead6, Octets
<1>7. v \in Lead7 <=> 241 <= v /\ v < 244
  BY DEF Lead7, Octets
<1>8. v \in Lead8 <=> v = 244
  BY DEF Lead8, Octets
<1>9. v \in Next3 <=> 160 <= v /\ v < 192
  BY DEF Next3, Octets
<1>10. v \in Next5 <=> 128 <= v /\ v < 160
  BY DEF Next5, Octets
<1>11. v \in Next6 <=> 144 <= v /\ v < 192
  BY DEF Next6, Octets
<1>12. v \in Next8 <=> 128 <= v /\ v < 144
  BY DEF Next8, Octets
<1>13. v \in Cont <=> Tail1(v)
  BY DEF Cont, Octets, Tail1
<1> QED
  BY <1>1, <1>2, <1>3, <1>4, <1>5, <1>6,
     <1>7, <1>8, <1>9, <1>10, <1>11, <1>12, <1>13

(* The rows of WellFormed, by comparisons of n bytes a, x, y and z. *)
Row1(n, a, x, y, z) ==
  /\ n <= 1
  /\ a < 128

Row2(n, a, x, y, z) ==
  /\ n <= 2
  /\ 194 <= a /\ a < 224
  /\ n >= 2 => Tail1(x)

Row3(n, a, x, y, z) ==
  /\ n <= 3
  /\ a = 224
  /\ n >= 2 => 160 <= x /\ x < 192
  /\ n >= 3 => Tail1(y)

Row4(n, a, x, y, z) ==
  /\ n <= 3
  /\ 225 <= a /\ a < 240 /\ a # 237
  /\ n >= 2 => Tail1(x)
  /\ n >= 3 => Tail1(y)

Row5(n, a, x, y, z) ==
  /\ n <= 3
  /\ a = 237
  /\ n >= 2 => 128 <= x /\ x < 160
  /\ n >= 3 => Tail1(y)

Row6(n, a, x, y, z) ==
  /\ n <= 4
  /\ a = 240
  /\ n >= 2 => 144 <= x /\ x < 192
  /\ n >= 3 => Tail1(y)
  /\ n >= 4 => Tail1(z)

Row7(n, a, x, y, z) ==
  /\ n <= 4
  /\ 241 <= a /\ a < 244
  /\ n >= 2 => Tail1(x)
  /\ n >= 3 => Tail1(y)
  /\ n >= 4 => Tail1(z)

Row8(n, a, x, y, z) ==
  /\ n <= 4
  /\ a = 244
  /\ n >= 2 => 128 <= x /\ x < 144
  /\ n >= 3 => Tail1(y)
  /\ n >= 4 => Tail1(z)

(* What each row says of the bytes of s. *)
RowsAre(s, n, a, x, y, z) ==
  /\ Matches(s, <<Lead1>>) <=> Row1(n, a, x, y, z)
  /\ Matches(s, <<Lead2, Cont>>) <=> Row2(n, a, x, y, z)
  /\ Matches(s, <<Lead3, Next3, Cont>>) <=> Row3(n, a, x, y, z)
  /\ Matches(s, <<Lead4, Cont, Cont>>) <=> Row4(n, a, x, y, z)
  /\ Matches(s, <<Lead5, Next5, Cont>>) <=> Row5(n, a, x, y, z)
  /\ Matches(s, <<Lead6, Next6, Cont, Cont>>) <=> Row6(n, a, x, y, z)
  /\ Matches(s, <<Lead7, Cont, Cont, Cont>>) <=> Row7(n, a, x, y, z)
  /\ Matches(s, <<Lead8, Next8, Cont, Cont>>) <=> Row8(n, a, x, y, z)

LEMMA RowsOf ==
  ASSUME NEW s \in Seq(Octets), NEW n \in Nat \ {0}, n = Len(s),
         NEW a \in Octets, NEW x \in Octets, NEW y \in Octets, NEW z \in Octets,
         a = s[1], n >= 2 => x = s[2], n >= 3 => y = s[3], n >= 4 => z = s[4]
  PROVE  RowsAre(s, n, a, x, y, z)
<1> USE DEF RowsAre
<1>1. Matches(s, <<Lead1>>) <=> Row1(n, a, x, y, z)
  <2>1. Matches(s, <<Lead1>>) <=>
          /\ n <= 1
          /\ a \in Lead1
    BY DEF Matches
  <2> QED
    BY <2>1, Ranges DEF Row1
<1>2. Matches(s, <<Lead2, Cont>>) <=> Row2(n, a, x, y, z)
  <2>1. Matches(s, <<Lead2, Cont>>) <=>
          /\ n <= 2
          /\ a \in Lead2
          /\ n >= 2 => x \in Cont
    BY DEF Matches
  <2> QED
    BY <2>1, Ranges DEF Row2
<1>3. Matches(s, <<Lead3, Next3, Cont>>) <=> Row3(n, a, x, y, z)
  <2>1. Matches(s, <<Lead3, Next3, Cont>>) <=>
          /\ n <= 3
          /\ a \in Lead3
          /\ n >= 2 => x \in Next3
          /\ n >= 3 => y \in Cont
    BY DEF Matches
  <2> QED
    BY <2>1, Ranges DEF Row3
<1>4. Matches(s, <<Lead4, Cont, Cont>>) <=> Row4(n, a, x, y, z)
  <2>1. Matches(s, <<Lead4, Cont, Cont>>) <=>
          /\ n <= 3
          /\ a \in Lead4
          /\ n >= 2 => x \in Cont
          /\ n >= 3 => y \in Cont
    BY DEF Matches
  <2> QED
    BY <2>1, Ranges DEF Row4
<1>5. Matches(s, <<Lead5, Next5, Cont>>) <=> Row5(n, a, x, y, z)
  <2>1. Matches(s, <<Lead5, Next5, Cont>>) <=>
          /\ n <= 3
          /\ a \in Lead5
          /\ n >= 2 => x \in Next5
          /\ n >= 3 => y \in Cont
    BY DEF Matches
  <2> QED
    BY <2>1, Ranges DEF Row5
<1>6. Matches(s, <<Lead6, Next6, Cont, Cont>>) <=> Row6(n, a, x, y, z)
  <2>1. Matches(s, <<Lead6, Next6, Cont, Cont>>) <=>
          /\ n <= 4
          /\ a \in Lead6
          /\ n >= 2 => x \in Next6
          /\ n >= 3 => y \in Cont
          /\ n >= 4 => z \in Cont
    BY DEF Matches
  <2> QED
    BY <2>1, Ranges DEF Row6
<1>7. Matches(s, <<Lead7, Cont, Cont, Cont>>) <=> Row7(n, a, x, y, z)
  <2>1. Matches(s, <<Lead7, Cont, Cont, Cont>>) <=>
          /\ n <= 4
          /\ a \in Lead7
          /\ n >= 2 => x \in Cont
          /\ n >= 3 => y \in Cont
          /\ n >= 4 => z \in Cont
    BY DEF Matches
  <2> QED
    BY <2>1, Ranges DEF Row7
<1>8. Matches(s, <<Lead8, Next8, Cont, Cont>>) <=> Row8(n, a, x, y, z)
  <2>1. Matches(s, <<Lead8, Next8, Cont, Cont>>) <=>
          /\ n <= 4
          /\ a \in Lead8
          /\ n >= 2 => x \in Next8
          /\ n >= 3 => y \in Cont
          /\ n >= 4 => z \in Cont
    BY DEF Matches
  <2> QED
    BY <2>1, Ranges DEF Row8
<1> QED
  BY <1>1, <1>2, <1>3, <1>4, <1>5, <1>6, <1>7, <1>8

AnyRow(n, a, x, y, z) ==
  \/ Row1(n, a, x, y, z)
  \/ Row2(n, a, x, y, z)
  \/ Row3(n, a, x, y, z)
  \/ Row4(n, a, x, y, z)
  \/ Row5(n, a, x, y, z)
  \/ Row6(n, a, x, y, z)
  \/ Row7(n, a, x, y, z)
  \/ Row8(n, a, x, y, z)

WholeRow(n, a, x, y, z) ==
  \/ n = 1 /\ Row1(n, a, x, y, z)
  \/ n = 2 /\ Row2(n, a, x, y, z)
  \/ n = 3 /\ Row3(n, a, x, y, z)
  \/ n = 3 /\ Row4(n, a, x, y, z)
  \/ n = 3 /\ Row5(n, a, x, y, z)
  \/ n = 4 /\ Row6(n, a, x, y, z)
  \/ n = 4 /\ Row7(n, a, x, y, z)
  \/ n = 4 /\ Row8(n, a, x, y, z)

LEMMA RowsAreOpen ==
  ASSUME NEW n \in Nat \ {0}, NEW a \in Octets, NEW x \in Octets,
         NEW y \in Octets, NEW z \in Octets
  PROVE  /\ AnyRow(n, a, x, y, z) <=> OpensAs(n, a, x, y, z)
         /\ WholeRow(n, a, x, y, z) <=> OpensAs(n, a, x, y, z) /\ n = Need(a)
<1> USE DEF Octets
<1>1. AnyRow(n, a, x, y, z) <=> OpensAs(n, a, x, y, z)
  BY DEF AnyRow, OpensAs, Begins, Second, Tail1,
         Row1, Row2, Row3, Row4, Row5, Row6, Row7, Row8
<1>2. WholeRow(n, a, x, y, z) <=> OpensAs(n, a, x, y, z) /\ n = Need(a)
  BY DEF WholeRow, OpensAs, Begins, Second, Tail1, Need,
         Row1, Row2, Row3, Row4, Row5, Row6, Row7, Row8
<1> QED
  BY <1>1, <1>2

(* The comparisons say what the ranges say. *)
LEMMA OpenIsWellFormed ==
  ASSUME NEW s \in Seq(Octets), s # <<>>
  PROVE  /\ Opens(s) <=> \E r \in WellFormed : Matches(s, r)
         /\ Opens(s) /\ Len(s) = Need(s[1]) <=>
              \E r \in WellFormed : Matches(s, r) /\ Len(r) = Len(s)
<1>1. PICK n \in Nat \ {0} : n = Len(s)
  OBVIOUS
<1>2. PICK a \in Octets, x \in Octets, y \in Octets, z \in Octets :
        /\ a = s[1]
        /\ n >= 2 => x = s[2]
        /\ n >= 3 => y = s[3]
        /\ n >= 4 => z = s[4]
  BY <1>1, FourBytes
<1>3. Opens(s) <=> OpensAs(n, a, x, y, z)
  BY <1>1, <1>2, SMTT(30) DEF Opens, OpensAs
<1>4. /\ Matches(s, <<Lead1>>) <=> Row1(n, a, x, y, z)
      /\ Matches(s, <<Lead2, Cont>>) <=> Row2(n, a, x, y, z)
      /\ Matches(s, <<Lead3, Next3, Cont>>) <=> Row3(n, a, x, y, z)
      /\ Matches(s, <<Lead4, Cont, Cont>>) <=> Row4(n, a, x, y, z)
      /\ Matches(s, <<Lead5, Next5, Cont>>) <=> Row5(n, a, x, y, z)
      /\ Matches(s, <<Lead6, Next6, Cont, Cont>>) <=> Row6(n, a, x, y, z)
      /\ Matches(s, <<Lead7, Cont, Cont, Cont>>) <=> Row7(n, a, x, y, z)
      /\ Matches(s, <<Lead8, Next8, Cont, Cont>>) <=> Row8(n, a, x, y, z)
  <2>1. RowsAre(s, n, a, x, y, z)
    BY <1>1, <1>2, RowsOf, Zenon
  <2> QED
    BY <2>1, Zenon DEF RowsAre
<1>5. (\E r \in WellFormed : Matches(s, r)) <=> AnyRow(n, a, x, y, z)
  <2>1. (\E r \in WellFormed : Matches(s, r)) <=>
          \/ Matches(s, <<Lead1>>)
          \/ Matches(s, <<Lead2, Cont>>)
          \/ Matches(s, <<Lead3, Next3, Cont>>)
          \/ Matches(s, <<Lead4, Cont, Cont>>)
          \/ Matches(s, <<Lead5, Next5, Cont>>)
          \/ Matches(s, <<Lead6, Next6, Cont, Cont>>)
          \/ Matches(s, <<Lead7, Cont, Cont, Cont>>)
          \/ Matches(s, <<Lead8, Next8, Cont, Cont>>)
    BY WellFormedRows, Zenon
  <2> QED
    BY <2>1, <1>4, Zenon DEF AnyRow
<1>6. (\E r \in WellFormed : Matches(s, r) /\ Len(r) = n) <=> WholeRow(n, a, x, y, z)
  <2>1. (\E r \in WellFormed : Matches(s, r) /\ Len(r) = n) <=>
          \/ Len(<<Lead1>>) = n /\ Matches(s, <<Lead1>>)
          \/ Len(<<Lead2, Cont>>) = n /\ Matches(s, <<Lead2, Cont>>)
          \/ Len(<<Lead3, Next3, Cont>>) = n /\ Matches(s, <<Lead3, Next3, Cont>>)
          \/ Len(<<Lead4, Cont, Cont>>) = n /\ Matches(s, <<Lead4, Cont, Cont>>)
          \/ Len(<<Lead5, Next5, Cont>>) = n /\ Matches(s, <<Lead5, Next5, Cont>>)
          \/ Len(<<Lead6, Next6, Cont, Cont>>) = n /\ Matches(s, <<Lead6, Next6, Cont, Cont>>)
          \/ Len(<<Lead7, Cont, Cont, Cont>>) = n /\ Matches(s, <<Lead7, Cont, Cont, Cont>>)
          \/ Len(<<Lead8, Next8, Cont, Cont>>) = n /\ Matches(s, <<Lead8, Next8, Cont, Cont>>)
    BY WellFormedRows, Zenon
  <2>2. Len(<<Lead1>>) = 1
    OBVIOUS
  <2>3. Len(<<Lead2, Cont>>) = 2
    OBVIOUS
  <2>4. Len(<<Lead3, Next3, Cont>>) = 3
    OBVIOUS
  <2>5. Len(<<Lead4, Cont, Cont>>) = 3
    OBVIOUS
  <2>6. Len(<<Lead5, Next5, Cont>>) = 3
    OBVIOUS
  <2>7. Len(<<Lead6, Next6, Cont, Cont>>) = 4
    OBVIOUS
  <2>8. Len(<<Lead7, Cont, Cont, Cont>>) = 4
    OBVIOUS
  <2>9. Len(<<Lead8, Next8, Cont, Cont>>) = 4
    OBVIOUS
  <2>10. (\E r \in WellFormed : Matches(s, r) /\ Len(r) = n) <=>
          \/ n = 1 /\ Matches(s, <<Lead1>>)
          \/ n = 2 /\ Matches(s, <<Lead2, Cont>>)
          \/ n = 3 /\ Matches(s, <<Lead3, Next3, Cont>>)
          \/ n = 3 /\ Matches(s, <<Lead4, Cont, Cont>>)
          \/ n = 3 /\ Matches(s, <<Lead5, Next5, Cont>>)
          \/ n = 4 /\ Matches(s, <<Lead6, Next6, Cont, Cont>>)
          \/ n = 4 /\ Matches(s, <<Lead7, Cont, Cont, Cont>>)
          \/ n = 4 /\ Matches(s, <<Lead8, Next8, Cont, Cont>>)
    BY <2>1, <2>2, <2>3, <2>4, <2>5, <2>6, <2>7, <2>8, <2>9
  <2> QED
    BY <2>10, <1>4, Zenon DEF WholeRow
<1> QED
  BY <1>1, <1>2, <1>3, <1>5, <1>6, RowsAreOpen

-----------------------------------------------------------------------------
(* The text. *)

TextInv ==
  /\ text.bytes \in Seq(Octets)
  /\ text.bytes = <<>> => text.state = Utf8Accept
  /\ text.bytes # <<>> => Knows(text.state, text.codep, text.bytes)

LEMMA TextInvStep == TextInv /\ [Next]_vars => TextInv'
<1> SUFFICES ASSUME TextInv, [Next]_vars PROVE TextInv'
  OBVIOUS
<1>1. CASE UNCHANGED text
  BY <1>1 DEF TextInv
<1>2. CASE ReadByte
  <2>1. PICK b \in TextBytes :
          text' = [state |-> Decode(text.state, text.codep, b).state,
                   codep |-> Decode(text.state, text.codep, b).codep,
                   bytes |-> Append(IF text.state = Utf8Accept THEN <<>>
                                    ELSE text.bytes, b)]
    BY <1>2, Zenon DEF ReadByte
  <2>2. b \in Octets
    BY CodecConstants DEF Octets
  <2>3. CASE text.state = Utf8Accept
    <3>1. text'.bytes = <<b>>
      BY <2>1, <2>3
    <3>2. Knows(text'.state, text'.codep, <<b>>)
      BY <2>1, <2>2, <2>3, KnowsFirst
    <3> QED
      BY <2>2, <3>1, <3>2 DEF TextInv
  <2>4. CASE text.state # Utf8Accept
    <3>1. text.bytes # <<>> /\ text.bytes \in Seq(Octets)
      BY <2>4 DEF TextInv
    <3>2. Opens(text.bytes)
      BY <1>2, <3>1 DEF TextInv, Knows, ReadByte
    <3>3. text'.bytes = Append(text.bytes, b)
      BY <2>1, <2>4
    <3>4. Knows(text'.state, text'.codep, Append(text.bytes, b))
      BY <2>1, <2>2, <2>4, <3>1, <3>2, KnowsNext DEF TextInv
    <3> QED
      BY <2>2, <3>1, <3>3, <3>4 DEF TextInv
  <2> QED
    BY <2>3, <2>4
<1> QED
  BY <1>1, <1>2 DEF Next, vars, WriteFrameHeader, WritePayload,
     ReadFrameHeader, ReadLongHeader, ReadPayload

(* A code point that takes k bytes. *)
CodeFits(c, k) == c <= 1114111 /\ c \notin 55296..57343 /\ k = Width(c)

LEMMA FitsIn ==
  ASSUME NEW c \in Nat
  PROVE  /\ c < 128 => CodeFits(c, 1)
         /\ 128 <= c /\ c < 2048 => CodeFits(c, 2)
         /\ 2048 <= c /\ c < 65536 /\ ~(55296 <= c /\ c < 57344) => CodeFits(c, 3)
         /\ 65536 <= c /\ c < 1114112 => CodeFits(c, 4)
<1>1. c < 128 => CodeFits(c, 1)
  BY SMTT(30) DEF CodeFits, Width
<1>2. 128 <= c /\ c < 2048 => CodeFits(c, 2)
  BY SMTT(30) DEF CodeFits, Width
<1>3. 2048 <= c /\ c < 65536 /\ ~(55296 <= c /\ c < 57344) => CodeFits(c, 3)
  <2> SUFFICES ASSUME 2048 <= c, c < 65536, ~(55296 <= c /\ c < 57344)
               PROVE  CodeFits(c, 3)
    BY SMT
  <2>1. c <= 1114111
    BY SMT
  <2>2. c \notin 55296..57343
    <3> SUFFICES ASSUME c \in 55296..57343 PROVE 55296 <= c /\ c < 57344
      BY SMT
    <3> QED
      BY SMT
  <2>3. Width(c) = 3
    BY SMT DEF Width
  <2> QED
    BY <2>1, <2>2, <2>3, SMT DEF CodeFits
<1>4. 65536 <= c /\ c < 1114112 => CodeFits(c, 4)
  BY SMTT(30) DEF CodeFits, Width
<1> QED
  BY <1>1, <1>2, <1>3, <1>4, SMT

LEMMA WholeCodes ==
  ASSUME NEW n \in Nat, NEW a \in Octets, NEW x \in Octets, NEW y \in Octets,
         NEW z \in Octets, OpensAs(n, a, x, y, z), n = Need(a),
         NEW c, c = CodeAs(n, a, x, y, z)
  PROVE  CodeFits(c, n)
<1> USE DEF Octets, OpensAs, Begins, Second, Tail1, LeadBits, CodeAs, Need
<1>1. CASE n = 1
  <2>1. c \in Nat /\ c < 128
    BY <1>1
  <2> QED
    BY <1>1, <2>1, FitsIn, SMT
<1>2. CASE n = 2
  <2>1. c \in Nat /\ 128 <= c /\ c < 2048
    BY <1>2
  <2> QED
    BY <1>2, <2>1, FitsIn, SMT
<1>3. CASE n = 3
  <2>1. c \in Nat /\ 2048 <= c /\ c < 65536 /\ ~(55296 <= c /\ c < 57344)
    BY <1>3, SMT
  <2> QED
    BY <1>3, <2>1, FitsIn, SMT
<1>4. CASE n = 4
  <2>1. c \in Nat /\ 65536 <= c /\ c < 1114112
    BY <1>4, SMT
  <2> QED
    BY <1>4, <2>1, FitsIn, SMT
<1> QED
  BY <1>1, <1>2, <1>3, <1>4

(* Whatever the bytes of a text, the UTF8Reader rejects it at its first byte
   with which it cannot become well-formed and not before, accepts it where it
   is, and has then decoded a code point that is no surrogate, is not beyond
   the last, and could not be shorter. *)
THEOREM ReaderJudgesText == Spec => []TextJudged
<1>1. Init => TextInv
  BY SMTT(30) DEF Init, TextInv
<1>2. TextInv => TextJudged
  <2> SUFFICES ASSUME TextInv, text.bytes # <<>> PROVE TextJudged
    BY SMTT(30) DEF TextJudged
  <2> DEFINE s == text.bytes
             after == {r \in WellFormed : Matches(s, r)}
  <2>1. s \in Seq(Octets) /\ s # <<>> /\ Knows(text.state, text.codep, s)
    BY DEF TextInv
  <2>2. /\ Opens(s) <=> \E r \in WellFormed : Matches(s, r)
        /\ Opens(s) /\ Len(s) = Need(s[1]) <=>
              \E r \in WellFormed : Matches(s, r) /\ Len(r) = Len(s)
    BY <2>1, OpenIsWellFormed
  <2>3. /\ Opens(s) => text.state = StateAt(s) /\ text.codep = CodeAt(s)
        /\ ~Opens(s) => text.state = Utf8Reject
    BY <2>1 DEF Knows
  <2>4. ASSUME Opens(s)
        PROVE  /\ StateAt(s) # Utf8Reject
               /\ StateAt(s) = Utf8Accept <=> Len(s) = Need(s[1])
               /\ Len(s) = Need(s[1]) =>
                    CodeFits(CodeAt(s), Len(s))
    <3>1. PICK n \in Nat \ {0} : n = Len(s)
      BY <2>1
    <3>2. PICK a \in Octets, x \in Octets, y \in Octets, z \in Octets :
            /\ a = s[1]
            /\ n >= 2 => x = s[2]
            /\ n >= 3 => y = s[3]
            /\ n >= 4 => z = s[4]
      BY <2>1, <3>1, FourBytes, SMTT(30)
    <3>3. OpensAs(n, a, x, y, z)
      BY <2>4, <3>1, <3>2 DEF Opens, OpensAs
    <3>4. StateAt(s) = StateAs(n, a)
      BY <3>1, <3>2 DEF StateAt
    <3>5. /\ StateAs(n, a) # 12
          /\ StateAs(n, a) = 0 <=> n = Need(a)
      BY <3>3 DEF StateAs, StateBehind, Need, OpensAs, Begins, Octets
    <3>6. CodeAt(s) = CodeAs(n, a, x, y, z)
      BY <3>1, <3>2, <3>3 DEF CodeAt, CodeAs, OpensAs
    <3>7. n = Need(a) => CodeFits(CodeAt(s), n)
      BY <3>3, <3>6, WholeCodes
    <3> QED
      BY <3>1, <3>2, <3>4, <3>5, <3>7 DEF Utf8Accept, Utf8Reject
  <2>5. text.state = Utf8Reject <=> after = {}
    BY <2>2, <2>3, <2>4
  <2>6. text.state = Utf8Accept <=> Opens(s) /\ Len(s) = Need(s[1])
    BY <2>3, <2>4 DEF Utf8Accept, Utf8Reject
  <2>7. text.state = Utf8Accept <=> \E r \in after : Len(r) = Len(s)
    BY <2>2, <2>6
  <2>8. text.state = Utf8Accept =>
          CodeFits(text.codep, Len(s))
    BY <2>3, <2>4, <2>6
  <2> QED
    BY <2>5, <2>7, <2>8, SMTT(30) DEF TextJudged, CodeFits
<1> QED
  BY <1>1, <1>2, TextInvStep, PTL DEF Spec

-----------------------------------------------------------------------------
(* The cipher masks a byte by its position in the payload alone, however the
   payload is cut into calls and the calls into heads, words and tails. *)
Key(offset, i) == (offset + i - 1) % 4

LEMMA KeyAtOffset ==
  ASSUME NEW offset \in Nat, NEW i \in Nat \ {0}
  PROVE  ((offset % 4) + i - 1) % 4 = Key(offset, i)
BY DEF Key

LEMMA KeyInWords ==
  ASSUME NEW offset \in Nat, NEW i \in Nat \ {0}, NEW ln \in Nat,
         ln = Remain[(offset % 4) + 1], i > ln
  PROVE  ((i - 1 - ln) % 8) % 4 = Key(offset, i)
<1>1. CASE offset % 4 = 0
  BY <1>1 DEF Remain, Key
<1>2. CASE offset % 4 = 1
  BY <1>2 DEF Remain, Key
<1>3. CASE offset % 4 = 2
  BY <1>3 DEF Remain, Key
<1>4. CASE offset % 4 = 3
  BY <1>4 DEF Remain, Key
<1>5. offset % 4 \in 0..3
  OBVIOUS
<1> QED
  BY <1>1, <1>2, <1>3, <1>4, <1>5

Keyed(payload, mask, offset) ==
  [i \in 1..Len(payload) |-> Xor(payload[i], {mask[Key(offset, i) + 1]})]

LEMMA CipherByPosition ==
  ASSUME NEW S, NEW payload \in Seq(S), NEW mask, NEW offset \in Nat
  PROVE  Cipher(payload, mask, offset) = Keyed(payload, mask, offset)
<1> DEFINE n == Len(payload)
           mpos == offset % 4
           ln == Remain[mpos + 1]
           rn == (n - ln) % 8
           key(i) == IF n < 8 THEN (offset + i - 1) % 4
                     ELSE IF i <= ln \/ i > n - rn THEN (mpos + i - 1) % 4
                     ELSE ((i - 1 - ln) % 8) % 4
<1>1. Cipher(payload, mask, offset)
        = [i \in 1..n |-> Xor(payload[i], {mask[key(i) + 1]})]
  BY DEF Cipher
<1>2. ln \in Nat
  BY DEF Remain
<1>3. ASSUME NEW i \in 1..n PROVE key(i) = Key(offset, i)
  <2>1. i \in Nat \ {0}
    OBVIOUS
  <2>2. n < 8 => key(i) = Key(offset, i)
    BY DEF Key
  <2>3. ASSUME ~(n < 8), i <= ln \/ i > n - rn PROVE key(i) = Key(offset, i)
    <3>1. key(i) = ((offset % 4) + i - 1) % 4
      BY <2>3, Zenon
    <3>2. ((offset % 4) + i - 1) % 4 = Key(offset, i)
      BY <2>1, KeyAtOffset
    <3> QED
      BY <3>1, <3>2, Zenon
  <2>4. ASSUME ~(n < 8), ~(i <= ln \/ i > n - rn) PROVE key(i) = Key(offset, i)
    <3>1. key(i) = ((i - 1 - ln) % 8) % 4
      BY <2>4, Zenon
    <3>2. i > ln
      <4>1. PICK k \in Nat : k = ln
        BY <1>2
      <4>2. ~(i <= k)
        BY <2>4, <4>1, Zenon
      <4>3. i > k
        BY <2>1, <4>2
      <4> QED
        BY <4>1, <4>3, Zenon
    <3>3. ((i - 1 - ln) % 8) % 4 = Key(offset, i)
      <4>1. PICK k \in Nat : k = ln
        BY <1>2
      <4>2. k = Remain[(offset % 4) + 1] /\ i > k
        BY <3>2, <4>1, Zenon
      <4>3. ((i - 1 - k) % 8) % 4 = Key(offset, i)
        BY <2>1, <4>2, KeyInWords
      <4> QED
        BY <4>1, <4>3, Zenon
    <3> QED
      BY <3>1, <3>3, Zenon
  <2> QED
    BY <2>2, <2>3, <2>4, Zenon
<1> HIDE DEF key
<1> QED
  BY <1>1, <1>3 DEF Keyed

-----------------------------------------------------------------------------
(* The bytes of a header. *)

LengthSize(n) == IF n <= Len7 THEN 0 ELSE IF n <= Len16 THEN 2 ELSE 8

First(h) == (IF h.fin THEN 128 ELSE 0) + h.rsv * 16 + h.op
LengthMark(n) == IF n <= Len7 THEN n ELSE IF n <= Len16 THEN 126 ELSE 127
MaskBit(h) == IF h.masked THEN 128 ELSE 0

LEMMA HeaderFields ==
  ASSUME NEW h \in Headers
  PROVE  /\ h = [fin |-> h.fin, rsv |-> h.rsv, op |-> h.op, masked |-> h.masked,
                 mask |-> h.mask, length |-> h.length]
         /\ h.fin \in BOOLEAN /\ h.rsv \in 0..7 /\ h.op \in 0..15
         /\ h.masked \in BOOLEAN /\ h.length \in Lengths
         /\ h.mask = IF h.masked THEN Mask ELSE NoMask
BY DEF Headers

(* The bytes of a long length, behind its mark. *)
Long(n, l) ==
  /\ l[2] = 0 /\ l[3] = 0 /\ l[4] = 0 /\ l[5] = 0
  /\ l[6] = n \div 16777216
  /\ l[7] = (n \div 65536) % 256 /\ l[8] = (n \div 256) % 256
  /\ l[9] = n % 256

LEMMA LengthTail ==
  ASSUME NEW n \in Nat
  PROVE  /\ LengthBytes(n) \in Seq(Nat)
         /\ Len(LengthBytes(n)) = 1 + LengthSize(n)
         /\ LengthBytes(n)[1] = LengthMark(n)
         /\ LengthSize(n) = 2 =>
              /\ LengthBytes(n)[2] = n \div 256
              /\ LengthBytes(n)[3] = n % 256
         /\ LengthSize(n) = 8 => Long(n, LengthBytes(n))
<1>1. CASE n <= Len7
  <2>1. LengthBytes(n) = <<n>>
    BY <1>1, HeaderLengths, SMT DEF LengthBytes
  <2> QED
    BY <1>1, <2>1, SMT DEF LengthSize, LengthMark
<1>2. CASE n > Len7 /\ n <= Len16
  <2>1. LengthBytes(n) = <<126>> \o <<n \div 256, n % 256>>
    BY <1>2, HeaderLengths, SMT DEF LengthBytes, PutUint16
  <2> QED
    BY <1>2, <2>1, HeaderLengths, SMT DEF LengthSize, LengthMark
<1>3. CASE n > Len16
  <2> DEFINE d == n \div 16777216
             c == (n \div 65536) % 256
             b == (n \div 256) % 256
             a == n % 256
  <2>1. LengthBytes(n) = <<127>> \o (<<0, 0, 0, 0, d>> \o <<c, b, a>>)
    BY <1>3, HeaderLengths, SMT DEF LengthBytes, PutUint64
  <2>2. a \in Nat /\ b \in Nat /\ c \in Nat /\ d \in Nat
    BY SMT
  <2>3. LengthSize(n) = 8 /\ LengthMark(n) = 127
    BY <1>3, HeaderLengths, SMT DEF LengthSize, LengthMark
  <2> HIDE DEF a, b, c, d
  <2>4. /\ LengthBytes(n) \in Seq(Nat) /\ Len(LengthBytes(n)) = 9
        /\ LengthBytes(n)[1] = 127
        /\ LengthBytes(n)[2] = 0 /\ LengthBytes(n)[3] = 0
        /\ LengthBytes(n)[4] = 0 /\ LengthBytes(n)[5] = 0
        /\ LengthBytes(n)[6] = d
        /\ LengthBytes(n)[7] = c /\ LengthBytes(n)[8] = b
        /\ LengthBytes(n)[9] = a
    BY <2>1, <2>2, SMT
  <2> QED
    BY <2>3, <2>4, SMT DEF a, b, c, d, Long
<1> QED
  BY <1>1, <1>2, <1>3, HeaderLengths, SMT

(* w is f and g, then the e numbers behind the first of l, then m. *)
Splice(w, f, g, l, e, m) ==
  /\ w \in Seq(Nat)
  /\ Len(w) = 2 + e + Len(m)
  /\ w[1] = f /\ w[2] = g
  /\ \A i \in 1..e : w[2 + i] = l[1 + i]
  /\ \A i \in 1..Len(m) : w[2 + e + i] = m[i]

LEMMA Spliced ==
  ASSUME NEW f \in Nat, NEW g \in Nat, NEW l \in Seq(Nat), NEW m \in Seq(Nat),
         NEW e \in Nat, Len(l) = 1 + e
  PROVE  Splice(<<f, g>> \o Tail(l) \o m, f, g, l, e, m)
<1>0. PICK w : w = <<f, g>> \o Tail(l) \o m
  OBVIOUS
<1>1. PICK t : t = Tail(l)
  OBVIOUS
<1>2. t \in Seq(Nat) /\ Len(t) = e /\ \A i \in 1..e : t[i] = l[1 + i]
  <2>1. l # <<>>
    OBVIOUS
  <2>2. /\ t \in Seq(Nat) /\ Len(t) = Len(l) - 1
        /\ \A i \in 1..Len(t) : t[i] = l[i + 1]
    BY <1>1, <2>1, HeadTailProperties
  <2> QED
    BY <2>2
<1>3. PICK u : u = <<f, g>>
  OBVIOUS
<1>4. u \in Seq(Nat) /\ Len(u) = 2 /\ u[1] = f /\ u[2] = g
  BY <1>3
<1>5. PICK v : v = u \o t
  OBVIOUS
<1>6. /\ v \in Seq(Nat) /\ Len(v) = 2 + e
      /\ \A i \in 1..(2 + e) : v[i] = IF i <= 2 THEN u[i] ELSE t[i - 2]
  <2>1. /\ v \in Seq(Nat)
        /\ Len(v) = Len(u) + Len(t)
        /\ \A i \in 1..Len(u) + Len(t) :
             v[i] = IF i <= Len(u) THEN u[i] ELSE t[i - Len(u)]
    <3>1. /\ u \o t \in Seq(Nat)
          /\ Len(u \o t) = Len(u) + Len(t)
          /\ \A i \in 1..Len(u) + Len(t) :
               (u \o t)[i] = IF i <= Len(u) THEN u[i] ELSE t[i - Len(u)]
      BY <1>2, <1>4, ConcatProperties
    <3> QED
      BY <1>5, <3>1
  <2> QED
    BY <1>2, <1>4, <2>1
<1>7. /\ w \in Seq(Nat) /\ Len(w) = 2 + e + Len(m)
      /\ \A i \in 1..(2 + e + Len(m)) :
           w[i] = IF i <= 2 + e THEN v[i] ELSE m[i - (2 + e)]
  <2>1. w = v \o m
    BY <1>0, <1>1, <1>3, <1>5, Zenon
  <2>2. /\ w \in Seq(Nat)
        /\ Len(w) = Len(v) + Len(m)
        /\ \A i \in 1..Len(v) + Len(m) :
             w[i] = IF i <= Len(v) THEN v[i] ELSE m[i - Len(v)]
    <3>1. /\ v \o m \in Seq(Nat)
          /\ Len(v \o m) = Len(v) + Len(m)
          /\ \A i \in 1..Len(v) + Len(m) :
               (v \o m)[i] = IF i <= Len(v) THEN v[i] ELSE m[i - Len(v)]
      BY <1>6, ConcatProperties
    <3> QED
      BY <2>1, <3>1
  <2> QED
    BY <1>6, <2>2
<1>8. w[1] = f /\ w[2] = g
  <2>1. 1 \in 1..(2 + e) /\ 2 \in 1..(2 + e) /\ 1 <= 2 /\ 2 <= 2
    OBVIOUS
  <2>2. v[1] = f /\ v[2] = g
    BY <1>4, <1>6, <2>1, Zenon
  <2>3. /\ 1 \in 1..(2 + e + Len(m)) /\ 2 \in 1..(2 + e + Len(m))
        /\ 1 <= 2 + e /\ 2 <= 2 + e
    OBVIOUS
  <2> QED
    BY <1>7, <2>2, <2>3, Zenon
<1>9. ASSUME NEW i \in 1..e PROVE w[2 + i] = l[1 + i]
  <2>1. w[2 + i] = v[2 + i]
    <3>1. 2 + i \in 1..(2 + e + Len(m)) /\ 2 + i <= 2 + e
      OBVIOUS
    <3> QED
      BY <1>7, <3>1, Zenon
  <2>2. v[2 + i] = t[i]
    <3>1. 2 + i \in 1..(2 + e) /\ ~(2 + i <= 2) /\ (2 + i) - 2 = i
      OBVIOUS
    <3>2. v[2 + i] = t[(2 + i) - 2]
      BY <1>6, <3>1, Zenon
    <3> QED
      BY <3>1, <3>2, Zenon
  <2> QED
    BY <1>2, <2>1, <2>2
<1>10. ASSUME NEW i \in 1..Len(m) PROVE w[2 + e + i] = m[i]
  <2>1. /\ 2 + e + i \in 1..(2 + e + Len(m)) /\ ~(2 + e + i <= 2 + e)
        /\ (2 + e + i) - (2 + e) = i
    OBVIOUS
  <2>2. w[2 + e + i] = m[(2 + e + i) - (2 + e)]
    BY <1>7, <2>1, Zenon
  <2> QED
    BY <2>1, <2>2, Zenon
<1> QED
  BY <1>0, <1>7, <1>8, <1>9, <1>10 DEF Splice

MaskBytes(h) == IF h.masked THEN 4 ELSE 0

(* The bytes w of the header h. *)
Laid(h, w, n, e, k) ==
  /\ w \in Seq(Nat)
  /\ Len(w) = 2 + e + k
  /\ w[1] = First(h) /\ w[2] = LengthMark(n) + MaskBit(h)
  /\ \A i \in 1..e : w[2 + i] = LengthBytes(n)[1 + i]
  /\ h.masked => \A i \in 1..4 : w[2 + e + i] = Mask[i]

LEMMA HeaderBytes ==
  ASSUME NEW h \in Headers, NEW w, w = WriteHeader(h),
         NEW n, n = h.length, NEW e, e = LengthSize(n), NEW k, k = MaskBytes(h)
  PROVE  Laid(h, w, n, e, k)
<1> USE DEF Laid
<1>1. /\ h.rsv \in 0..7 /\ h.op \in 0..15 /\ h.masked \in BOOLEAN
      /\ h.mask = IF h.masked THEN Mask ELSE NoMask
      /\ n \in Lengths
  BY HeaderFields
<1>2. n \in Nat
  BY <1>1, CodecConstants
<1>3. First(h) \in Nat
  BY <1>1 DEF First
<1>4. LengthMark(n) + MaskBit(h) \in Nat
  BY <1>2 DEF LengthMark, MaskBit
<1>5. PICK l \in Seq(Nat) : l = LengthBytes(n)
  BY <1>2, LengthTail
<1>6. e \in Nat /\ Len(l) = 1 + e /\ l[1] = LengthMark(n)
  BY <1>2, <1>5, LengthTail DEF LengthSize
<1>7. PICK m \in Seq(Nat) : m = IF h.masked THEN h.mask ELSE <<>>
  <2>1. Mask \in Seq(Nat) /\ <<>> \in Seq(Nat)
    BY DEF Mask
  <2> QED
    BY <1>1, <2>1
<1>8. Len(m) = k /\ (h.masked => m = Mask /\ Len(m) = 4)
  BY <1>1, <1>7 DEF MaskBytes, Mask
<1>9. w = <<First(h), LengthMark(n) + MaskBit(h)>> \o Tail(l) \o m
  BY <1>5, <1>6, <1>7 DEF WriteHeader, First, MaskBit
<1>10. /\ w \in Seq(Nat)
       /\ Len(w) = 2 + e + Len(m)
       /\ w[1] = First(h) /\ w[2] = LengthMark(n) + MaskBit(h)
       /\ \A i \in 1..e : w[2 + i] = l[1 + i]
       /\ \A i \in 1..Len(m) : w[2 + e + i] = m[i]
  <2>1. Splice(w, First(h), LengthMark(n) + MaskBit(h), l, e, m)
    BY <1>3, <1>4, <1>6, <1>9, Spliced
  <2> QED
    BY <2>1 DEF Splice
<1> QED
  BY <1>5, <1>8, <1>10

LEMMA Bits ==
  ASSUME NEW t \in {0, 128}, NEW r \in 0..7, NEW o \in 0..15
  PROVE  /\ t + r * 16 + o >= 128 <=> t = 128
         /\ ((t + r * 16 + o) % 128) \div 16 = r
         /\ (t + r * 16 + o) % 16 = o
<1>1. (t + r * 16 + o) % 128 = r * 16 + o
  OBVIOUS
<1>2. (r * 16 + o) \div 16 = r
  OBVIOUS
<1>3. (t + r * 16 + o) % 16 = o
  OBVIOUS
<1> QED
  BY <1>1, <1>2, <1>3

LEMMA FirstBits ==
  ASSUME NEW h \in Headers, NEW f, f = First(h)
  PROVE  /\ f >= 128 <=> h.fin
         /\ (f % 128) \div 16 = h.rsv
         /\ f % 16 = h.op
<1>1. h.rsv \in 0..7 /\ h.op \in 0..15 /\ h.fin \in BOOLEAN
  BY HeaderFields
<1>2. f = (IF h.fin THEN 128 ELSE 0) + h.rsv * 16 + h.op
  BY DEF First
<1>3. PICK t \in {0, 128} : t = IF h.fin THEN 128 ELSE 0
  OBVIOUS
<1>4. /\ f >= 128 <=> t = 128
      /\ (f % 128) \div 16 = h.rsv
      /\ f % 16 = h.op
  <2>1. PICK r \in 0..7, o \in 0..15 : r = h.rsv /\ o = h.op
    BY <1>1
  <2>2. f = t + r * 16 + o
    BY <1>2, <1>3, <2>1
  <2>3. (f >= 128 <=> t = 128) /\ (f % 128) \div 16 = r /\ f % 16 = o
    BY <2>2, Bits
  <2> QED
    BY <2>1, <2>3
<1> QED
  BY <1>1, <1>3, <1>4

LEMMA SecondBits ==
  ASSUME NEW h \in Headers, NEW n \in Nat, NEW b, b[2] = LengthMark(n) + MaskBit(h)
  PROVE  /\ LengthOf(b) = LengthMark(n)
         /\ b[2] >= 128 <=> h.masked
         /\ Extra(b) = LengthSize(n) + MaskBytes(h)
<1>1. h.masked \in BOOLEAN
  BY HeaderFields
<1>2. LengthMark(n) \in 0..127
  BY LengthBounds, HeaderLengths, SMT DEF LengthMark
<1>3. /\ LengthMark(n) = 126 <=> LengthSize(n) = 2
      /\ LengthMark(n) = 127 <=> LengthSize(n) = 8
      /\ LengthSize(n) \in {0, 2, 8}
  BY LengthBounds, HeaderLengths, SMT DEF LengthMark, LengthSize
<1>4. LengthOf(b) = LengthMark(n) /\ (b[2] >= 128 <=> h.masked)
  BY <1>1, <1>2 DEF LengthOf, MaskBit
<1> QED
  BY <1>1, <1>3, <1>4 DEF Extra, MaskBytes

LEMMA ExtraTyped == ASSUME NEW b PROVE Extra(b) \in 0..12
BY DEF Extra

LEMMA ReadTorn ==
  ASSUME NEW b \in Seq(Nat), Len(b) < 2 \/ Len(b) < 2 + Extra(b)
  PROVE  ReadHeader(b).err \in {"EOF", "ErrUnexpectedEOF"}
<1>1. Len(b) \in Nat /\ Extra(b) \in 0..12
  BY ExtraTyped
<1>2. PICK n \in Nat, x \in 0..12 : n = Len(b) /\ x = Extra(b)
  BY <1>1
<1>4. ReadError(b) = CASE n = 0 -> "EOF"
                       [] n = 1 -> "ErrUnexpectedEOF"
                       [] n = 2 /\ x > 0 -> "EOF"
                       [] n > 2 /\ n < 2 + x -> "ErrUnexpectedEOF"
                       [] n >= 2 + x /\ LengthOf(b) = 127 /\ b[3] >= 128 ->
                            "ErrHeaderLengthMSB"
                       [] OTHER -> "nil"
  BY <1>2, Zenon DEF ReadError
<1>5. n < 2 \/ n < 2 + x
  BY <1>2, Zenon
<1>6. ~(n >= 2 + x) /\ (n = 0 \/ n = 1 \/ (n = 2 /\ x > 0) \/ (n > 2 /\ n < 2 + x))
  BY <1>5
<1>7. ReadError(b) = "EOF" \/ ReadError(b) = "ErrUnexpectedEOF"
  BY <1>4, <1>6, Zenon
<1> QED
  BY <1>7 DEF ReadHeader

LEMMA ReadNegative ==
  ASSUME NEW b \in Seq(Int), Len(b) >= 2 + Extra(b), LengthOf(b) = 127,
         Len(b) >= 10, b[3] >= 128
  PROVE  ReadHeader(b).err = "ErrHeaderLengthMSB"
<1>1. Extra(b) >= 8 /\ Extra(b) \in Nat
  BY DEF Extra
<1>2. ReadError(b) = "ErrHeaderLengthMSB"
  BY <1>1 DEF ReadError
<1> QED
  BY <1>2 DEF ReadHeader

LEMMA ReadWhole ==
  ASSUME NEW b \in Seq(Nat), Len(b) >= 2, Len(b) >= 2 + Extra(b),
         LengthOf(b) = 127 => b[3] < 128
  PROVE  ReadError(b) = "nil"
<1>1. Extra(b) \in 0..12 /\ Len(b) \in Nat
  BY ExtraTyped
<1>2. /\ Len(b) # 0 /\ Len(b) # 1 /\ ~(Len(b) = 2 /\ Extra(b) > 0)
      /\ ~(Len(b) > 2 /\ Len(b) < 2 + Extra(b))
  <2>1. PICK n \in Nat : n = Len(b)
    BY <1>1
  <2>2. PICK x \in 0..12 : x = Extra(b)
    BY <1>1
  <2>3. n >= 2 /\ n >= 2 + x
    BY <2>1, <2>2
  <2>4. n # 0 /\ n # 1 /\ ~(n = 2 /\ x > 0) /\ ~(n > 2 /\ n < 2 + x)
    BY <2>3
  <2> QED
    BY <2>1, <2>2, <2>4, Zenon
<1>3. ~(LengthOf(b) = 127 /\ b[3] >= 128)
  <2>1. LengthOf(b) = 127 => Extra(b) >= 8
    BY DEF Extra
  <2>2. LengthOf(b) = 127 => Len(b) >= 3
    <3>1. Len(b) >= 2 + Extra(b)
      OBVIOUS
    <3> QED
      BY <1>1, <2>1, <3>1
  <2>3. Len(b) >= 3 => b[3] \in Nat
    BY <1>1
  <2> QED
    BY <2>2, <2>3
<1> QED
  BY <1>2, <1>3, Zenon DEF ReadError

LEMMA DigitsTwo ==
  ASSUME NEW n \in Nat
  PROVE  (n % 256) + 256 * (n \div 256) = n
OBVIOUS

LEMMA DigitsFour ==
  ASSUME NEW n \in Nat
  PROVE  (n % 256) + 256 * ((n \div 256) % 256)
           + (65536 * ((n \div 65536) % 256) + 16777216 * (n \div 16777216)) = n
<1>1. PICK q \in Nat, a \in 0..255 : q = n \div 256 /\ a = n % 256 /\ n = 256 * q + a
  BY SMT
<1>2. PICK r \in Nat, b \in 0..255 : r = q \div 256 /\ b = q % 256 /\ q = 256 * r + b
  BY SMT
<1>3. PICK d \in Nat, c \in 0..255 : d = r \div 256 /\ c = r % 256 /\ r = 256 * d + c
  BY SMT
<1>4. n \div 65536 = r
  <2>1. n = 65536 * r + (256 * b + a) /\ 256 * b + a < 65536
    BY <1>1, <1>2, SMT
  <2> QED
    BY <2>1, SMT
<1>5. n \div 16777216 = d
  <2>1. /\ n = 16777216 * d + (65536 * c + 256 * b + a)
        /\ 65536 * c + 256 * b + a < 16777216
    BY <1>1, <1>2, <1>3, SMT
  <2> QED
    BY <2>1, SMT
<1> QED
  <2>1. a + 256 * b + (65536 * c + 16777216 * d) = n
    BY <1>1, <1>2, <1>3, SMT
  <2>2. /\ n % 256 = a /\ (n \div 256) % 256 = b
        /\ (n \div 65536) % 256 = c /\ n \div 16777216 = d
    BY <1>1, <1>2, <1>3, <1>4, <1>5, SMT
  <2> QED
    BY <2>1, <2>2, SMT

(* s is the bytes of w from m on, c of them. *)
Part(s, w, m, c) ==
  /\ s \in Seq(Nat) /\ Len(s) = c
  /\ \A i \in 1..c : s[i] = w[(m + i) - 1]

LEMMA PartOf ==
  ASSUME NEW w \in Seq(Nat), NEW m \in Nat \ {0}, NEW n \in Nat,
         m <= n, n <= Len(w)
  PROVE  Part(SubSeq(w, m, n), w, m, (n - m) + 1)
<1>1. \A i \in m..n : w[i] \in Nat
  OBVIOUS
<1>2. PICK s : s = SubSeq(w, m, n)
  OBVIOUS
<1>3. /\ SubSeq(w, m, n) \in Seq(Nat)
      /\ Len(SubSeq(w, m, n)) = IF m <= n THEN n - m + 1 ELSE 0
      /\ \A i \in 1 .. n - m + 1 : SubSeq(w, m, n)[i] = w[m + i - 1]
  BY <1>1, SubSeqProperties
<1>4. /\ s \in Seq(Nat) /\ Len(s) = (n - m) + 1
      /\ \A i \in 1..((n - m) + 1) : s[i] = w[(m + i) - 1]
  BY <1>2, <1>3
<1> QED
  BY <1>2, <1>4 DEF Part

LEMMA ByteOf ==
  ASSUME NEW s \in Seq(Nat), NEW i \in 1..Len(s)
  PROVE  s[i] \in Nat
OBVIOUS

(* A number whose upper four bytes are zero is not negative. *)
LEMMA LowBytes ==
  ASSUME NEW s \in Seq(Nat), Len(s) = 8,
         s[1] = 0, s[2] = 0, s[3] = 0, s[4] = 0
  PROVE  Int64(s) = s[8] + 256 * s[7] + (65536 * s[6] + 16777216 * s[5])
<1>1. PICK a \in Nat, b \in Nat, c \in Nat, d \in Nat :
        a = s[5] /\ b = s[6] /\ c = s[7] /\ d = s[8]
  <2>1. \A i \in 1..8 : s[i] \in Nat
    BY ByteOf
  <2>2. s[5] \in Nat /\ s[6] \in Nat /\ s[7] \in Nat /\ s[8] \in Nat
    BY <2>1
  <2> QED
    BY <2>2, Zenon
<1>2. Int64(s) = Uint64(s)
  BY SMT DEF Int64
<1>3. Uint64(s) = d + 256 * (c + 256 * (b + 256 * (a
                    + 256 * (0 + 256 * (0 + 256 * (0 + 256 * 0))))))
  BY <1>1 DEF Uint64
<1>4. Uint64(s) = d + 256 * c + (65536 * b + 16777216 * a)
  BY <1>3, SMT
<1> QED
  BY <1>1, <1>2, <1>4, SMT

LEMMA LengthBack ==
  ASSUME NEW h \in Headers, NEW w, w = WriteHeader(h), NEW n \in Nat, n = h.length
  PROVE  /\ LengthSize(n) = 2 => Uint16(SubSeq(w, 3, 4)) = n
         /\ LengthSize(n) = 8 => Int64(SubSeq(w, 3, 10)) = n /\ w[3] = 0
<1>1. /\ w \in Seq(Nat)
      /\ Len(w) = 2 + LengthSize(n) + MaskBytes(h)
      /\ \A i \in 1..LengthSize(n) : w[2 + i] = LengthBytes(n)[1 + i]
  BY HeaderBytes DEF Laid
<1>2. MaskBytes(h) \in Nat
  BY DEF MaskBytes
<1>3. ASSUME LengthSize(n) = 2 PROVE Uint16(SubSeq(w, 3, 4)) = n
  <2>1. w[3] = n \div 256 /\ w[4] = n % 256
    <3>1. \A i \in 1..2 : w[2 + i] = LengthBytes(n)[1 + i]
      BY <1>1, <1>3
    <3>2. w[2 + 1] = LengthBytes(n)[1 + 1] /\ w[2 + 2] = LengthBytes(n)[1 + 2]
      BY <3>1
    <3>3. LengthBytes(n)[2] = n \div 256 /\ LengthBytes(n)[3] = n % 256
      BY <1>3, LengthTail
    <3> QED
      BY <3>2, <3>3
  <2>2. 4 <= Len(w)
    BY <1>1, <1>2, <1>3
  <2>3. PICK s : s = SubSeq(w, 3, 4)
    OBVIOUS
  <2>4. Part(s, w, 3, (4 - 3) + 1)
    BY <1>1, <2>2, <2>3, PartOf
  <2>5. s \in Seq(Nat) /\ Len(s) = 2 /\ s[1] = w[3] /\ s[2] = w[4]
    BY <2>4 DEF Part
  <2>6. Uint16(s) = (n % 256) + 256 * (n \div 256)
    BY <2>1, <2>5 DEF Uint16
  <2> QED
    BY <2>3, <2>6, DigitsTwo
<1>4. ASSUME LengthSize(n) = 8 PROVE Int64(SubSeq(w, 3, 10)) = n /\ w[3] = 0
  <2> DEFINE l == LengthBytes(n)
  <2>1. /\ w[3] = l[2] /\ w[4] = l[3] /\ w[5] = l[4] /\ w[6] = l[5]
        /\ w[7] = l[6] /\ w[8] = l[7] /\ w[9] = l[8] /\ w[10] = l[9]
    <3>1. \A i \in 1..8 : w[2 + i] = l[1 + i]
      BY <1>1, <1>4
    <3> HIDE DEF l
    <3>2. w[2 + 1] = l[1 + 1] /\ w[2 + 5] = l[1 + 5] /\ w[2 + 6] = l[1 + 6]
      BY <3>1
    <3>3. w[2 + 7] = l[1 + 7] /\ w[2 + 8] = l[1 + 8]
      BY <3>1
    <3>4. w[2 + 2] = l[1 + 2] /\ w[2 + 3] = l[1 + 3] /\ w[2 + 4] = l[1 + 4]
      BY <3>1
    <3> QED
      BY <3>2, <3>3, <3>4
  <2>2. Long(n, l)
    BY <1>4, LengthTail
  <2>3. 10 <= Len(w)
    BY <1>1, <1>2, <1>4
  <2>4. PICK s : s = SubSeq(w, 3, 10)
    OBVIOUS
  <2>5. Part(s, w, 3, (10 - 3) + 1)
    BY <1>1, <2>3, <2>4, PartOf
  <2>6. /\ s \in Seq(Nat) /\ Len(s) = 8
        /\ s[1] = w[3] /\ s[2] = w[4] /\ s[3] = w[5] /\ s[4] = w[6]
        /\ s[5] = w[7] /\ s[6] = w[8] /\ s[7] = w[9] /\ s[8] = w[10]
    BY <2>5 DEF Part
  <2> HIDE DEF l
  <2>7. /\ w[3] = 0 /\ s[1] = 0 /\ s[2] = 0 /\ s[3] = 0 /\ s[4] = 0
        /\ s[5] = n \div 16777216 /\ s[6] = (n \div 65536) % 256
        /\ s[7] = (n \div 256) % 256 /\ s[8] = n % 256
    BY <2>1, <2>2, <2>6, SMT DEF Long
  <2>8. Int64(s) = s[8] + 256 * s[7] + (65536 * s[6] + 16777216 * s[5])
    <3>1. s \in Seq(Nat) /\ Len(s) = 8
      BY <2>6
    <3>2. s[1] = 0 /\ s[2] = 0 /\ s[3] = 0 /\ s[4] = 0
      BY <2>7, SMT
    <3> QED
      BY <3>1, <3>2, LowBytes, SMT
  <2>9. Int64(s) = n
    <3>1. s[8] + 256 * s[7] + (65536 * s[6] + 16777216 * s[5])
            = (n % 256) + 256 * ((n \div 256) % 256)
                + (65536 * ((n \div 65536) % 256) + 16777216 * (n \div 16777216))
      BY <2>7, SMT
    <3> QED
      BY <2>8, <3>1, DigitsFour, SMT
  <2> QED
    BY <2>4, <2>7, <2>9
<1> QED
  BY <1>3, <1>4

-----------------------------------------------------------------------------
(* The payload. *)

(* n bytes of a payload on the wire, the first of them at position from: the
   key of its position on each, if the frame is masked. *)
OnWire(masked, from, n) ==
  [i \in 1..n |-> IF masked THEN {Mask[Key(from, i) + 1]} ELSE {}]

(* The inductive invariant of the frame's half: what is in the stream is the
   header as it was written and sent bytes of payload, each under the key of
   its position in the whole payload, and what has been read is either
   nothing or the header as it was and plain bytes. *)
FrameInv ==
  \/ /\ pc = "text"
     /\ hdr = NoHeader
     /\ given = <<>>
     /\ wire = [header |-> <<>>, payload |-> <<>>]
     /\ got = [header |-> Unread, payload |-> <<>>]
  \/ /\ pc \in {"write", "payload", "read", "unmask", "stopped"}
     /\ hdr \in Headers
     /\ sent \in 0..hdr.length
     /\ wire = [header |-> IF pc = "write" THEN <<>> ELSE WriteHeader(hdr),
                payload |-> OnWire(hdr.masked, 0, sent)]
     /\ pc = "write" => sent = 0
     /\ pc \in {"write", "payload", "read"} =>
          got = [header |-> Unread, payload |-> <<>>]
     /\ pc \in {"payload", "unmask"} => Sent
     /\ pc \in {"read", "unmask"} /\ Sent => sent = hdr.length
     /\ pc = "unmask" => got.header.err = "nil"
     /\ got.header.err = "nil" => got.header.h = hdr /\ got.header.rest = <<>>
     /\ pc \in {"unmask", "stopped"} =>
          ReadRight(got.header, given, WriteHeader(hdr), hdr)
     /\ \E n \in 0..hdr.length :
          got = [header |-> got.header, payload |-> Plain(n)]

LEMMA OnWireTyped ==
  ASSUME NEW masked \in BOOLEAN, NEW from \in Nat, NEW n \in Nat
  PROVE  /\ OnWire(masked, from, n) \in Seq(SUBSET Nat)
         /\ Len(OnWire(masked, from, n)) = n
<1>1. \A i \in 1..n : Key(from, i) \in 0..3
  BY DEF Key
<1>2. \A j \in 0..3 : Mask[j + 1] \in Nat
  BY DEF Mask
<1>3. OnWire(masked, from, n) \in [1..n -> SUBSET Nat]
  BY <1>1, <1>2 DEF OnWire
<1> QED
  BY <1>3

LEMMA PlainOnWire ==
  ASSUME NEW from \in Nat, NEW n \in Nat
  PROVE  OnWire(FALSE, from, n) = Plain(n)
BY DEF OnWire, Plain

LEMMA KeyOnward ==
  ASSUME NEW from \in Nat, NEW a \in Nat, NEW i \in Nat \ {0}
  PROVE  Key(from + a, i) = Key(from, a + i)
<1>1. ((from + a) + i) - 1 = (from + (a + i)) - 1
  OBVIOUS
<1> QED
  BY <1>1 DEF Key

Cuts(masked, from, k, a, n) ==
  SubSeq(OnWire(masked, from, k), a + 1, a + n) = OnWire(masked, from + a, n)

LEMMA CutOnWire ==
  ASSUME NEW masked \in BOOLEAN, NEW from \in Nat, NEW k \in Nat,
         NEW a \in Nat, NEW n \in Nat \ {0}, a + n <= k
  PROVE  Cuts(masked, from, k, a, n)
<1>1. PICK w : w = OnWire(masked, from, k)
  OBVIOUS
<1>2. w \in Seq(SUBSET Nat) /\ Len(w) = k
  BY <1>1, OnWireTyped
<1>3. PICK s : s = SubSeq(w, a + 1, a + n)
  OBVIOUS
<1>4. s = [i \in 1..n |-> w[a + i]]
  BY <1>2, <1>3
<1>5. ASSUME NEW i \in 1..n
      PROVE  w[a + i] = IF masked THEN {Mask[Key(from + a, i) + 1]} ELSE {}
  <2>1. a + i \in 1..k /\ i \in Nat \ {0}
    OBVIOUS
  <2>2. w[a + i] = IF masked THEN {Mask[Key(from, a + i) + 1]} ELSE {}
    BY <1>1, <2>1 DEF OnWire
  <2>3. Key(from + a, i) = Key(from, a + i)
    BY <2>1, KeyOnward
  <2> QED
    BY <2>2, <2>3
<1>6. s = [i \in 1..n |-> IF masked THEN {Mask[Key(from + a, i) + 1]} ELSE {}]
  BY <1>4, <1>5
<1> QED
  BY <1>1, <1>3, <1>6 DEF OnWire, Cuts

LEMMA JoinOnWire ==
  ASSUME NEW masked \in BOOLEAN, NEW from \in Nat, NEW a \in Nat, NEW n \in Nat
  PROVE  OnWire(masked, from, a) \o OnWire(masked, from + a, n)
           = OnWire(masked, from, a + n)
<1>1. PICK u, v : u = OnWire(masked, from, a) /\ v = OnWire(masked, from + a, n)
  OBVIOUS
<1>2. u \in Seq(SUBSET Nat) /\ Len(u) = a
  BY <1>1, OnWireTyped
<1>3. v \in Seq(SUBSET Nat) /\ Len(v) = n
  BY <1>1, OnWireTyped
<1>4. PICK w : w = OnWire(masked, from, a + n)
  OBVIOUS
<1>5. w \in Seq(SUBSET Nat) /\ Len(w) = a + n
  <2>1. a + n \in Nat
    OBVIOUS
  <2> QED
    BY <1>4, <2>1, OnWireTyped
<1>6. /\ u \o v \in Seq(SUBSET Nat)
      /\ Len(u \o v) = Len(u) + Len(v)
      /\ \A i \in 1..Len(u) + Len(v) :
           (u \o v)[i] = IF i <= Len(u) THEN u[i] ELSE v[i - Len(u)]
  BY <1>2, <1>3, ConcatProperties
<1>7. ASSUME NEW i \in 1..(a + n) PROVE (u \o v)[i] = w[i]
  <2>1. w[i] = IF masked THEN {Mask[Key(from, i) + 1]} ELSE {}
    BY <1>4, Zenon DEF OnWire
  <2>2. CASE i <= a
    <3>1. i \in 1..a
      BY <2>2
    <3>2. u[i] = IF masked THEN {Mask[Key(from, i) + 1]} ELSE {}
      BY <1>1, <3>1, Zenon DEF OnWire
    <3> QED
      BY <1>2, <1>3, <1>6, <2>1, <2>2, <3>2
  <2>3. CASE i > a
    <3>1. PICK j \in 1..n : i = a + j
      BY <2>3
    <3>2. v[j] = IF masked THEN {Mask[Key(from + a, j) + 1]} ELSE {}
      BY <1>1, <3>1, Zenon DEF OnWire
    <3>3. Key(from + a, j) = Key(from, i)
      <4>1. j \in Nat \ {0}
        OBVIOUS
      <4>2. Key(from + a, j) = Key(from, a + j)
        BY <4>1, KeyOnward
      <4> QED
        BY <3>1, <4>2, Zenon
    <3>4. i - a = j /\ ~(i <= a)
      BY <3>1, <2>3
    <3>5. (u \o v)[i] = v[j]
      BY <1>2, <1>3, <1>6, <3>4
    <3> QED
      BY <2>1, <3>2, <3>3, <3>5, Zenon
  <2>4. i <= a \/ i > a
    OBVIOUS
  <2> QED
    BY <2>2, <2>3, <2>4, Zenon
<1>8. u \o v = w
  <2>1. Len(u \o v) = Len(w)
    BY <1>2, <1>3, <1>5, <1>6
  <2>2. \A i \in 1..Len(u \o v) : (u \o v)[i] = w[i]
    BY <1>5, <1>7, <2>1
  <2> QED
    BY <1>5, <1>6, <2>1, <2>2, SeqEqual
<1> QED
  BY <1>1, <1>4, <1>8, Zenon

LEMMA Ciphered ==
  ASSUME NEW from \in Nat, NEW n \in Nat
  PROVE  /\ Cipher(Plain(n), Mask, from) = OnWire(TRUE, from, n)
         /\ Cipher(OnWire(TRUE, from, n), Mask, from) = Plain(n)
<1>1. Cipher(Plain(n), Mask, from) = OnWire(TRUE, from, n)
  <2>1. PICK p : p = Plain(n)
    OBVIOUS
  <2>2. p \in Seq(SUBSET Nat) /\ Len(p) = n
    <3>1. p = OnWire(FALSE, from, n)
      BY <2>1, PlainOnWire
    <3> QED
      BY <3>1, OnWireTyped
  <2>3. Cipher(p, Mask, from)
          = [i \in 1..n |-> Xor(p[i], {Mask[Key(from, i) + 1]})]
    <3>1. Cipher(p, Mask, from) = Keyed(p, Mask, from)
      BY <2>2, CipherByPosition
    <3> QED
      BY <2>2, <3>1, Zenon DEF Keyed
  <2>4. ASSUME NEW i \in 1..n
        PROVE  Xor(p[i], {Mask[Key(from, i) + 1]}) = {Mask[Key(from, i) + 1]}
    <3>1. p[i] = {}
      BY <2>1 DEF Plain
    <3> QED
      BY <3>1 DEF Xor
  <2> QED
    BY <2>1, <2>3, <2>4 DEF OnWire
<1>2. Cipher(OnWire(TRUE, from, n), Mask, from) = Plain(n)
  <2>1. PICK p : p = OnWire(TRUE, from, n)
    OBVIOUS
  <2>2. p \in Seq(SUBSET Nat) /\ Len(p) = n
    BY <2>1, OnWireTyped
  <2>3. Cipher(p, Mask, from)
          = [i \in 1..n |-> Xor(p[i], {Mask[Key(from, i) + 1]})]
    <3>1. Cipher(p, Mask, from) = Keyed(p, Mask, from)
      BY <2>2, CipherByPosition
    <3> QED
      BY <2>2, <3>1, Zenon DEF Keyed
  <2>4. ASSUME NEW i \in 1..n
        PROVE  Xor(p[i], {Mask[Key(from, i) + 1]}) = {}
    <3>1. p[i] = {Mask[Key(from, i) + 1]}
      BY <2>1, Zenon DEF OnWire
    <3> QED
      BY <3>1 DEF Xor
  <2> QED
    BY <2>1, <2>3, <2>4 DEF Plain
<1> QED
  BY <1>1, <1>2

-----------------------------------------------------------------------------
(* A header that was written is read back. *)

BackAs(read, h) == read = [err |-> "nil", h |-> h, rest |-> <<>>]

LEMMA MaskBack ==
  ASSUME NEW h \in Headers, h.masked, NEW e \in Nat, e = LengthSize(h.length)
  PROVE  SubSeq(WriteHeader(h), (e + 4) - 1, (e + 4) + 2) = Mask
<1>1. PICK w : w = WriteHeader(h)
  OBVIOUS
<1>2. 4 = MaskBytes(h)
  BY DEF MaskBytes
<1>3. /\ w \in Seq(Nat) /\ Len(w) = 2 + e + 4
      /\ \A i \in 1..4 : w[2 + e + i] = Mask[i]
  <2>1. PICK n : n = h.length /\ e = LengthSize(n)
    OBVIOUS
  <2>2. Laid(h, w, n, e, 4)
    BY <1>1, <1>2, <2>1, HeaderBytes, Zenon
  <2> QED
    BY <2>2 DEF Laid
<1>4. PICK s : s = SubSeq(w, (e + 4) - 1, (e + 4) + 2)
  OBVIOUS
<1>5. Part(s, w, (e + 4) - 1, (((e + 4) + 2) - ((e + 4) - 1)) + 1)
  <2>1. /\ (e + 4) - 1 \in Nat \ {0} /\ (e + 4) + 2 \in Nat
        /\ (e + 4) - 1 <= (e + 4) + 2 /\ (e + 4) + 2 <= Len(w)
    <3>1. Len(w) = 2 + e + 4
      BY <1>3
    <3> QED
      BY <3>1
  <2> QED
    BY <1>3, <1>4, <2>1, PartOf
<1>6. s \in Seq(Nat) /\ Len(s) = 4 /\ \A i \in 1..4 : s[i] = w[2 + e + i]
  <2>1. (((e + 4) + 2) - ((e + 4) - 1)) + 1 = 4
    OBVIOUS
  <2>2. /\ s \in Seq(Nat) /\ Len(s) = 4
        /\ \A i \in 1..4 : s[i] = w[(((e + 4) - 1) + i) - 1]
    BY <1>5, <2>1 DEF Part
  <2>3. \A i \in 1..4 : (((e + 4) - 1) + i) - 1 = 2 + e + i
    OBVIOUS
  <2> QED
    BY <2>2, <2>3
<1>7. Mask \in Seq(Nat) /\ Len(Mask) = 4
  BY DEF Mask
<1>8. \A i \in 1..Len(s) : s[i] = Mask[i]
  BY <1>3, <1>6
<1>9. s = Mask
  <2>1. Len(s) = Len(Mask)
    BY <1>6, <1>7
  <2> QED
    BY <1>6, <1>7, <1>8, <2>1, SeqEqual, Zenon
<1> QED
  BY <1>1, <1>4, <1>9, Zenon

LEMMA HeaderShape ==
  ASSUME NEW h \in Headers, NEW w, w = WriteHeader(h), NEW n, n = h.length
  PROVE  /\ n \in Nat /\ w \in Seq(Nat) /\ Len(w) >= 2
         /\ Len(w) = 2 + Extra(w)
         /\ LengthOf(w) = LengthMark(n)
         /\ w[2] >= 128 <=> h.masked
         /\ Extra(w) = LengthSize(n) + MaskBytes(h)
<1>1. n \in Nat
  BY HeaderFields, CodecConstants
<1>2. /\ w \in Seq(Nat) /\ Len(w) = 2 + LengthSize(n) + MaskBytes(h)
      /\ w[2] = LengthMark(n) + MaskBit(h)
  BY HeaderBytes DEF Laid
<1>3. /\ LengthOf(w) = LengthMark(n)
      /\ w[2] >= 128 <=> h.masked
      /\ Extra(w) = LengthSize(n) + MaskBytes(h)
  BY <1>1, <1>2, SecondBits
<1>4. LengthSize(n) \in {0, 2, 8} /\ MaskBytes(h) \in {0, 4}
  BY DEF LengthSize, MaskBytes
<1> QED
  BY <1>1, <1>2, <1>3, <1>4

LEMMA ShapeOfMark ==
  ASSUME NEW n \in Nat
  PROVE  /\ LengthMark(n) = 126 <=> LengthSize(n) = 2
         /\ LengthMark(n) = 127 <=> LengthSize(n) = 8
         /\ LengthSize(n) \in {0, 2, 8}
         /\ LengthSize(n) = 0 => LengthMark(n) = n
BY LengthBounds, HeaderLengths, SMT DEF LengthMark, LengthSize

LEMMA ReadBack ==
  ASSUME NEW h \in Headers
  PROVE  BackAs(ReadHeader(WriteHeader(h)), h)
<1>1. PICK w, n, e : w = WriteHeader(h) /\ n = h.length /\ e = LengthSize(n)
  OBVIOUS
<1>2. /\ n \in Nat /\ w \in Seq(Nat) /\ Len(w) >= 2 /\ Len(w) = 2 + Extra(w)
      /\ LengthOf(w) = LengthMark(n) /\ (w[2] >= 128 <=> h.masked)
      /\ Extra(w) = e + MaskBytes(h)
  BY <1>1, HeaderShape
<1>3. /\ LengthMark(n) = 126 <=> e = 2
      /\ LengthMark(n) = 127 <=> e = 8
      /\ e \in {0, 2, 8}
      /\ e = 0 => LengthMark(n) = n
  BY <1>1, <1>2, ShapeOfMark
<1>4. h.fin \in BOOLEAN /\ h.masked \in BOOLEAN
      /\ h.mask = IF h.masked THEN Mask ELSE NoMask
  BY HeaderFields
<1>5. ReadError(w) = "nil"
  <2>1. e = 8 => w[3] = 0
    BY <1>1, <1>2, LengthBack
  <2>2. LengthOf(w) = 127 => w[3] < 128
    BY <1>2, <1>3, <2>1
  <2>3. Len(w) >= 2 + Extra(w)
    BY <1>2, ExtraTyped
  <2> QED
    BY <1>2, <2>2, <2>3, ReadWhole
<1>6. (w[1] >= 128) = h.fin /\ (w[1] % 128) \div 16 = h.rsv /\ w[1] % 16 = h.op
  <2>1. w[1] = First(h)
    BY <1>1, HeaderBytes DEF Laid
  <2>2. /\ w[1] >= 128 <=> h.fin
        /\ (w[1] % 128) \div 16 = h.rsv /\ w[1] % 16 = h.op
    BY <2>1, FirstBits
  <2>3. (w[1] >= 128) = h.fin
    BY <1>4, <2>2
  <2> QED
    BY <2>2, <2>3
<1>7. (w[2] >= 128) = h.masked
  BY <1>2, <1>4
<1>8. (IF w[2] >= 128 THEN SubSeq(w, Extra(w) - 1, Extra(w) + 2) ELSE NoMask)
        = h.mask
  <2>1. CASE h.masked
    <3>1. Extra(w) = e + 4
      BY <1>2, <2>1 DEF MaskBytes
    <3>2. SubSeq(w, (e + 4) - 1, (e + 4) + 2) = Mask
      <4>1. e \in Nat
        BY <1>3
      <4> QED
        BY <1>1, <2>1, <4>1, MaskBack
    <3> QED
      BY <1>2, <1>4, <2>1, <3>1, <3>2, Zenon
  <2>2. CASE ~h.masked
    BY <1>2, <1>4, <2>2, Zenon
  <2> QED
    BY <2>1, <2>2, Zenon
<1>9. (CASE LengthOf(w) = 126 -> Uint16(SubSeq(w, 3, 4))
         [] LengthOf(w) = 127 -> Int64(SubSeq(w, 3, 10))
         [] OTHER -> LengthOf(w)) = n
  <2>1. (e = 2 => Uint16(SubSeq(w, 3, 4)) = n)
        /\ (e = 8 => Int64(SubSeq(w, 3, 10)) = n)
    BY <1>1, <1>2, LengthBack
  <2>2. CASE e = 2
    <3>1. LengthOf(w) = 126
      BY <1>2, <1>3, <2>2
    <3>2. LengthOf(w) # 127
      BY <3>1
    <3> QED
      BY <2>1, <2>2, <3>1, <3>2, Zenon
  <2>3. CASE e = 8
    <3>1. LengthOf(w) = 127
      BY <1>2, <1>3, <2>3
    <3>2. LengthOf(w) # 126
      BY <3>1
    <3> QED
      BY <2>1, <2>3, <3>1, <3>2, Zenon
  <2>4. CASE e = 0
    <3>1. LengthOf(w) # 126 /\ LengthOf(w) # 127 /\ LengthOf(w) = n
      BY <1>2, <1>3, <2>4
    <3> QED
      BY <3>1, Zenon
  <2> QED
    BY <1>3, <2>2, <2>3, <2>4, Zenon
<1>10. SubSeq(w, 3 + Extra(w), Len(w)) = <<>>
  <2>1. PICK x \in 0..12 : x = Extra(w)
    BY ExtraTyped
  <2>2. Len(w) = 2 + x
    BY <1>2, <2>1
  <2>3. SubSeq(w, 3 + x, 2 + x) = <<>>
    BY <1>2, <2>2
  <2> QED
    BY <2>1, <2>2, <2>3, Zenon
<1>11. ReadHeader(w) = [err |-> "nil", h |-> h, rest |-> <<>>]
  <2>1. ReadHeader(w) =
          [err |-> "nil",
           h |-> [fin |-> h.fin, rsv |-> h.rsv, op |-> h.op,
                  masked |-> h.masked, mask |-> h.mask, length |-> h.length],
           rest |-> <<>>]
    <3>1. PICK f, r, o, m, k, l, t :
            /\ f = (w[1] >= 128) /\ r = (w[1] % 128) \div 16 /\ o = w[1] % 16
            /\ m = (w[2] >= 128)
            /\ k = IF w[2] >= 128 THEN SubSeq(w, Extra(w) - 1, Extra(w) + 2) ELSE NoMask
            /\ l = CASE LengthOf(w) = 126 -> Uint16(SubSeq(w, 3, 4))
                      [] LengthOf(w) = 127 -> Int64(SubSeq(w, 3, 10))
                      [] OTHER -> LengthOf(w)
            /\ t = SubSeq(w, 3 + Extra(w), Len(w))
      OBVIOUS
    <3>2. ReadHeader(w) =
            [err |-> "nil",
             h |-> [fin |-> f, rsv |-> r, op |-> o, masked |-> m, mask |-> k, length |-> l],
             rest |-> t]
      BY <1>5, <3>1, Zenon DEF ReadHeader
    <3>3. /\ f = h.fin /\ r = h.rsv /\ o = h.op /\ m = h.masked
          /\ k = h.mask /\ l = h.length /\ t = <<>>
      BY <1>1, <1>6, <1>7, <1>8, <1>9, <1>10, <3>1, Zenon
    <3> QED
      BY <3>2, <3>3, Zenon
  <2>2. h = [fin |-> h.fin, rsv |-> h.rsv, op |-> h.op, masked |-> h.masked,
             mask |-> h.mask, length |-> h.length]
    BY HeaderFields
  <2> QED
    BY <2>1, <2>2, Zenon
<1> QED
  BY <1>1, <1>11 DEF BackAs

LEMMA TornHeader ==
  ASSUME NEW h \in Headers, NEW w, w = WriteHeader(h),
         NEW k \in 0..Len(w), k < Len(w)
  PROVE  /\ ReadHeader(SubSeq(w, 1, k)).err \in {"EOF", "ErrUnexpectedEOF"}
         /\ Len(SubSeq(w, 1, k)) = k
<1>1. w \in Seq(Nat) /\ Len(w) \in Nat /\ Len(w) = 2 + Extra(w)
  BY HeaderShape
<1>2. PICK b : b = SubSeq(w, 1, k)
  OBVIOUS
<1>3. b \in Seq(Nat) /\ Len(b) = k /\ (k >= 2 => b[2] = w[2])
  BY <1>1, <1>2
<1>4. k >= 2 => Extra(b) = Extra(w)
  BY <1>3 DEF Extra, LengthOf
<1>5. k < 2 \/ k < 2 + Extra(b)
  <2>1. k >= 2 => k < 2 + Extra(b)
    BY <1>1, <1>4
  <2> QED
    BY <2>1
<1>6. ReadHeader(b).err \in {"EOF", "ErrUnexpectedEOF"}
  BY <1>3, <1>5, ReadTorn
<1> QED
  BY <1>2, <1>3, <1>6

LEMMA NegativeLength ==
  ASSUME NEW h \in Headers, h.length > Len16, NEW w, w = WriteHeader(h)
  PROVE  /\ ReadHeader(Negative(w)).err = "ErrHeaderLengthMSB"
         /\ Len(Negative(w)) = Len(w) /\ Negative(w) # w
<1>1. PICK n : n = h.length
  OBVIOUS
<1>2. /\ n \in Nat /\ w \in Seq(Nat) /\ Len(w) = 2 + Extra(w)
      /\ LengthOf(w) = LengthMark(n)
      /\ Extra(w) = LengthSize(n) + MaskBytes(h)
  BY <1>1, HeaderShape
<1>3. LengthSize(n) = 8 /\ LengthMark(n) = 127
  BY <1>1, <1>2, HeaderLengths, SMT DEF LengthSize, LengthMark
<1>4. Len(w) >= 10 /\ w[3] = 0
  <2>1. w[3] = 0
    BY <1>1, <1>2, <1>3, LengthBack
  <2> QED
    BY <1>2, <1>3, <2>1 DEF MaskBytes
<1>5. PICK b : b = Negative(w)
  OBVIOUS
<1>6. b \in Seq(Int) /\ Len(b) = Len(w) /\ b[2] = w[2] /\ b[3] = 255
  <2>1. b = [i \in 1..Len(w) |-> IF i \in 3..10 THEN 255 - w[i] ELSE w[i]]
    BY <1>5 DEF Negative
  <2>2. Len(w) \in Nat /\ \A i \in 1..Len(w) : w[i] \in Nat
    BY <1>2
  <2>3. b \in Seq(Int) /\ Len(b) = Len(w)
    BY <2>1, <2>2
  <2>4. b[2] = w[2]
    BY <1>4, <2>1, <2>2
  <2>5. b[3] = 255 - w[3]
    BY <1>4, <2>1, <2>2
  <2> QED
    BY <1>4, <2>3, <2>4, <2>5
<1>7. Extra(b) = Extra(w) /\ LengthOf(b) = 127
  BY <1>2, <1>3, <1>6 DEF Extra, LengthOf
<1>8. Len(b) >= 2 + Extra(b) /\ Len(b) >= 10 /\ b[3] >= 128
  <2>1. PICK k \in Nat, x \in 0..12 : k = Len(b) /\ x = Extra(b)
    BY <1>6, ExtraTyped, LenProperties
  <2>2. k = 2 + x /\ k >= 10
    BY <1>2, <1>4, <1>6, <1>7, <2>1, Zenon
  <2> QED
    BY <1>6, <2>1, <2>2
<1>9. ReadHeader(b).err = "ErrHeaderLengthMSB"
  BY <1>6, <1>7, <1>8, ReadNegative
<1>10. b # w
  BY <1>4, <1>6
<1> QED
  BY <1>5, <1>6, <1>9, <1>10

LEMMA WholeHeader ==
  ASSUME NEW h \in Headers, NEW k, k = Len(WriteHeader(h))
  PROVE  SubSeq(WriteHeader(h), 1, k) = WriteHeader(h)
<1>1. PICK w : w = WriteHeader(h)
  OBVIOUS
<1>2. w \in Seq(Nat)
  BY <1>1, HeaderShape
<1>3. SubSeq(w, 1, Len(w)) = w
  BY <1>2
<1> QED
  BY <1>1, <1>3, Zenon

-----------------------------------------------------------------------------
(* The invariant is kept. *)

LEMMA FrameInvInit == Init => FrameInv
<1> SUFFICES ASSUME Init PROVE FrameInv
  OBVIOUS
<1>1. CASE hdr = NoHeader /\ pc = "text"
  BY <1>1 DEF Init, FrameInv
<1>2. CASE hdr \in Headers /\ pc = "write"
  <2>1. hdr.length \in Nat
    BY <1>2, HeaderFields, CodecConstants
  <2>2. OnWire(hdr.masked, 0, 0) = <<>> /\ Plain(0) = <<>>
    BY DEF OnWire, Plain
  <2>3. /\ wire = [header |-> <<>>, payload |-> <<>>] /\ sent = 0
        /\ got = [header |-> Unread, payload |-> <<>>]
    BY DEF Init
  <2>4. got.header.err # "nil"
    BY <2>3 DEF Unread
  <2>5. sent \in 0..hdr.length /\ 0 \in 0..hdr.length
    BY <2>1, <2>3
  <2>6. got = [header |-> got.header, payload |-> Plain(0)]
    BY <2>2, <2>3
  <2> QED
    BY <1>2, <2>2, <2>3, <2>4, <2>5, <2>6 DEF FrameInv
<1> QED
  BY <1>1, <1>2 DEF Init

LEMMA WriteFrameHeaderKeeps ==
  FrameInv /\ WriteFrameHeader => FrameInv'
<1> SUFFICES ASSUME FrameInv, WriteFrameHeader PROVE FrameInv'
  OBVIOUS
<1>1. /\ hdr \in Headers /\ sent = 0 /\ sent \in 0..hdr.length
      /\ wire = [header |-> <<>>, payload |-> OnWire(hdr.masked, 0, sent)]
      /\ got = [header |-> Unread, payload |-> <<>>]
      /\ \E n \in 0..hdr.length :
           got = [header |-> got.header, payload |-> Plain(n)]
  BY DEF FrameInv, WriteFrameHeader
<1>2. /\ wire' = [wire EXCEPT !.header = WriteHeader(hdr)]
      /\ pc' = IF Sent /\ hdr.length > 0 THEN "payload" ELSE "read"
      /\ UNCHANGED <<hdr, sent, given, got, text>>
  BY DEF WriteFrameHeader
<1>3. hdr.length \in Nat
  BY <1>1, HeaderFields, CodecConstants
<1>4. wire' = [header |-> WriteHeader(hdr), payload |-> OnWire(hdr.masked, 0, sent)]
  BY <1>1, <1>2
<1>5. pc' \in {"payload", "read"} /\ (pc' = "payload" => Sent)
  BY <1>2
<1>6. pc' = "read" /\ Sent => sent = hdr.length
  BY <1>1, <1>2, <1>3
<1>7. got'.header.err # "nil"
  BY <1>1, <1>2 DEF Unread
<1>8. Sent' = Sent
  BY <1>2 DEF Sent
<1> QED
  BY <1>1, <1>2, <1>4, <1>5, <1>6, <1>7, <1>8 DEF FrameInv

LEMMA PayloadOnWire ==
  ASSUME NEW h \in Headers, NEW pos \in Nat, NEW k \in Nat \ {0},
         NEW n \in 1..k
  PROVE  SubSeq(IF h.masked THEN Cipher(Plain(k), h.mask, pos) ELSE Plain(k), 1, n)
           = OnWire(h.masked, pos, n)
<1>1. h.masked \in BOOLEAN /\ (h.masked => h.mask = Mask)
  BY HeaderFields
<1>2. (IF h.masked THEN Cipher(Plain(k), h.mask, pos) ELSE Plain(k))
        = OnWire(h.masked, pos, k)
  <2>1. CASE h.masked
    <3>1. Cipher(Plain(k), Mask, pos) = OnWire(TRUE, pos, k)
      BY Ciphered
    <3>2. h.masked = TRUE
      BY <1>1, <2>1
    <3> QED
      BY <1>1, <3>1, <3>2, Zenon
  <2>2. CASE ~h.masked
    <3>1. OnWire(FALSE, pos, k) = Plain(k)
      BY PlainOnWire
    <3>2. h.masked = FALSE
      BY <1>1, <2>2
    <3> QED
      BY <3>1, <3>2, Zenon
  <2> QED
    BY <2>1, <2>2, Zenon
<1>3. SubSeq(OnWire(h.masked, pos, k), 1, n) = OnWire(h.masked, pos, n)
  <2>1. n \in Nat \ {0} /\ 0 \in Nat /\ k \in Nat
        /\ 0 + n <= k /\ 0 + n = n /\ 0 + 1 = 1 /\ pos + 0 = pos
    OBVIOUS
  <2>2. Cuts(h.masked, pos, k, 0, n)
    BY <1>1, <2>1, CutOnWire
  <2> QED
    BY <2>1, <2>2, Zenon DEF Cuts
<1> QED
  BY <1>2, <1>3, Zenon

LEMMA WritePayloadKeeps ==
  FrameInv /\ WritePayload => FrameInv'
<1> SUFFICES ASSUME FrameInv, WritePayload PROVE FrameInv'
  OBVIOUS
<1>1. /\ hdr \in Headers /\ sent \in 0..hdr.length /\ Sent
      /\ wire = [header |-> WriteHeader(hdr), payload |-> OnWire(hdr.masked, 0, sent)]
      /\ got = [header |-> Unread, payload |-> <<>>]
      /\ \E n \in 0..hdr.length :
           got = [header |-> got.header, payload |-> Plain(n)]
  BY DEF FrameInv, WritePayload
<1>2. PICK k \in 1..(hdr.length - sent) : \E n \in 1..k :
        /\ wire' = [wire EXCEPT !.payload =
             @ \o SubSeq(IF hdr.masked THEN Cipher(Plain(k), hdr.mask, sent)
                         ELSE Plain(k), 1, n)]
        /\ sent' = sent + n
  BY DEF WritePayload
<1>n. PICK n \in 1..k :
        /\ wire' = [wire EXCEPT !.payload =
             @ \o SubSeq(IF hdr.masked THEN Cipher(Plain(k), hdr.mask, sent)
                         ELSE Plain(k), 1, n)]
        /\ sent' = sent + n
  BY <1>2
<1>3. /\ pc' = IF sent' = hdr.length THEN "read" ELSE "payload"
      /\ UNCHANGED <<hdr, got, text>>
  BY DEF WritePayload
<1>4. hdr.length \in Nat /\ hdr.masked \in BOOLEAN
  BY <1>1, HeaderFields, CodecConstants
<1>5. /\ sent \in Nat /\ k \in Nat \ {0} /\ n \in Nat /\ sent' \in 0..hdr.length
      /\ 0 + sent = sent
  <2>1. PICK len \in Nat, pos \in Nat : len = hdr.length /\ pos = sent /\ pos <= len
    BY <1>1, <1>4
  <2>2. k \in 1..(len - pos) /\ n \in 1..k /\ sent' = pos + n
    BY <1>n, <2>1, Zenon
  <2> QED
    BY <2>1, <2>2
<1>6. SubSeq(IF hdr.masked THEN Cipher(Plain(k), hdr.mask, sent) ELSE Plain(k), 1, n)
        = OnWire(hdr.masked, sent, n)
  BY <1>1, <1>2, <1>n, <1>5, PayloadOnWire, SMTT(30)
<1>7. OnWire(hdr.masked, 0, sent) \o OnWire(hdr.masked, 0 + sent, n)
        = OnWire(hdr.masked, 0, sent + n)
  <2>1. 0 \in Nat
    OBVIOUS
  <2>2. PICK m \in BOOLEAN, a \in Nat : m = hdr.masked /\ a = sent
    BY <1>4, <1>5
  <2>3. OnWire(m, 0, a) \o OnWire(m, 0 + a, n) = OnWire(m, 0, a + n)
    <3>1. n \in Nat
      BY <1>5
    <3> QED
      BY <2>1, <3>1, JoinOnWire, Zenon
  <2> QED
    BY <2>2, <2>3, Zenon
<1>8. wire' = [header |-> WriteHeader(hdr), payload |-> OnWire(hdr.masked, 0, sent')]
  <2>1. 0 + sent = sent
    BY <1>5, Zenon
  <2>2. OnWire(hdr.masked, 0, sent) \o OnWire(hdr.masked, sent, n)
          = OnWire(hdr.masked, 0, sent')
    BY <1>n, <1>7, <2>1, Zenon
  <2>3. wire' = [wire EXCEPT !.payload = @ \o OnWire(hdr.masked, sent, n)]
    BY <1>n, <1>6, Zenon
  <2> QED
    BY <1>1, <2>2, <2>3
<1>9. got'.header.err # "nil"
  BY <1>1, <1>3 DEF Unread
<1>10. Sent' = Sent
  BY <1>3 DEF Sent
<1> QED
  BY <1>1, <1>3, <1>5, <1>8, <1>9, <1>10 DEF FrameInv

LEMMA ReadFrameHeaderKeeps ==
  FrameInv /\ ReadFrameHeader => FrameInv'
<1> SUFFICES ASSUME FrameInv, ReadFrameHeader PROVE FrameInv'
  OBVIOUS
<1>1. /\ hdr \in Headers /\ sent \in 0..hdr.length
      /\ Sent => sent = hdr.length
      /\ wire = [header |-> WriteHeader(hdr), payload |-> OnWire(hdr.masked, 0, sent)]
      /\ got = [header |-> Unread, payload |-> <<>>]
      /\ \E n \in 0..hdr.length :
           got = [header |-> got.header, payload |-> Plain(n)]
  BY DEF FrameInv, ReadFrameHeader
<1>2. PICK k \in 0..Len(wire.header) :
        /\ given' = SubSeq(wire.header, 1, k)
        /\ got' = [got EXCEPT !.header = ReadHeader(SubSeq(wire.header, 1, k))]
  BY Zenon DEF ReadFrameHeader
<1>3. /\ pc' = IF got'.header.err = "nil" /\ Sent THEN "unmask" ELSE "stopped"
      /\ UNCHANGED <<hdr, wire, sent, text>>
  BY DEF ReadFrameHeader
<1>4. wire.header = WriteHeader(hdr)
  BY <1>1
<1>5. got' = [header |-> ReadHeader(SubSeq(WriteHeader(hdr), 1, k)),
              payload |-> <<>>]
  BY <1>1, <1>2, <1>4
<1>6. /\ ReadRight(got'.header, given', WriteHeader(hdr), hdr)
      /\ got'.header.err = "nil" => got'.header.h = hdr /\ got'.header.rest = <<>>
  <2>1. PICK w : w = WriteHeader(hdr)
    OBVIOUS
  <2>2. w \in Seq(Nat) /\ Len(w) \in Nat /\ k \in 0..Len(w)
    BY <1>1, <1>2, <1>4, <2>1, HeaderShape
  <2>3. PICK b, r : b = SubSeq(w, 1, k) /\ r = ReadHeader(b)
    OBVIOUS
  <2>4. given' = b /\ got'.header = r
    BY <1>2, <1>4, <1>5, <2>1, <2>3
  <2>5. CASE k < Len(w)
    <3>1. r.err \in {"EOF", "ErrUnexpectedEOF"} /\ Len(b) = k
      BY <1>1, <2>1, <2>2, <2>3, <2>5, TornHeader
    <3>2. Len(b) < Len(w) /\ b # w /\ ~(Len(b) >= Len(w))
      BY <2>2, <2>5, <3>1
    <3>3. ReadRight(r, b, w, hdr) /\ r.err # "nil"
      BY <3>1, <3>2 DEF ReadRight
    <3> QED
      BY <2>1, <2>4, <3>3, Zenon
  <2>6. CASE k = Len(w)
    <3>1. b = w
      BY <1>1, <2>1, <2>3, <2>6, WholeHeader
    <3>2. r = [err |-> "nil", h |-> hdr, rest |-> <<>>]
      BY <1>1, <2>1, <2>3, <3>1, ReadBack DEF BackAs
    <3>3. ~(Len(b) < Len(w))
      BY <2>2, <3>1
    <3>4. ReadRight(r, b, w, hdr)
      BY <3>1, <3>2, <3>3, Zenon DEF ReadRight
    <3>5. r.h = hdr /\ r.rest = <<>>
      BY <3>2
    <3> QED
      BY <2>1, <2>4, <3>4, <3>5, Zenon
  <2> QED
    BY <2>2, <2>5, <2>6
<1>7. /\ pc' \in {"unmask", "stopped"}
      /\ pc' = "unmask" => Sent /\ got'.header.err = "nil" /\ sent = hdr.length
  BY <1>1, <1>3
<1>8. Sent' = Sent
  BY <1>3 DEF Sent
<1>9. \E n \in 0..hdr.length :
        got' = [header |-> got'.header, payload |-> Plain(n)]
  <2>1. PICK n \in 0..hdr.length :
          got = [header |-> got.header, payload |-> Plain(n)]
    BY <1>1
  <2>2. Plain(n) = <<>>
    BY <1>1, <2>1
  <2>3. got' = [header |-> got'.header, payload |-> Plain(n)]
    BY <1>5, <2>2
  <2> QED
    BY <2>3
<1> QED
  BY <1>1, <1>3, <1>6, <1>7, <1>8, <1>9 DEF FrameInv

LEMMA ReadLongHeaderKeeps ==
  FrameInv /\ ReadLongHeader => FrameInv'
<1> SUFFICES ASSUME FrameInv, ReadLongHeader PROVE FrameInv'
  OBVIOUS
<1>1. /\ hdr \in Headers /\ sent \in 0..hdr.length
      /\ wire = [header |-> WriteHeader(hdr), payload |-> OnWire(hdr.masked, 0, sent)]
      /\ got = [header |-> Unread, payload |-> <<>>]
      /\ \E n \in 0..hdr.length :
           got = [header |-> got.header, payload |-> Plain(n)]
  BY DEF FrameInv, ReadLongHeader
<1>2. /\ hdr.length > Len16 /\ pc' = "stopped"
      /\ given' = Negative(wire.header)
      /\ got' = [got EXCEPT !.header = ReadHeader(given')]
      /\ UNCHANGED <<hdr, wire, sent, text>>
  BY DEF ReadLongHeader
<1>3. PICK w, b, r : w = WriteHeader(hdr) /\ b = Negative(w) /\ r = ReadHeader(b)
  OBVIOUS
<1>4. /\ given' = b /\ got' = [header |-> r, payload |-> <<>>]
      /\ got'.header = r
      /\ ReadRight(r, b, w, hdr) /\ r.err # "nil"
  <2>1. wire.header = w
    BY <1>1, <1>3
  <2>2. given' = b
    BY <1>2, <1>3, <2>1
  <2>3. got' = [header |-> r, payload |-> <<>>]
    BY <1>1, <1>2, <1>3, <2>2
  <2>4. r.err = "ErrHeaderLengthMSB" /\ Len(b) = Len(w) /\ b # w
    BY <1>1, <1>2, <1>3, NegativeLength
  <2>5. Len(w) \in Nat
    BY <1>1, <1>3, HeaderShape
  <2>6. ~(Len(b) < Len(w))
    BY <2>4, <2>5
  <2>7. ReadRight(r, b, w, hdr)
    BY <2>4, <2>6, Zenon DEF ReadRight
  <2> QED
    BY <2>2, <2>3, <2>4, <2>7
<1>5. \E n \in 0..hdr.length :
        got' = [header |-> got'.header, payload |-> Plain(n)]
  <2>1. PICK n \in 0..hdr.length :
          got = [header |-> got.header, payload |-> Plain(n)]
    BY <1>1
  <2>2. Plain(n) = <<>>
    BY <1>1, <2>1
  <2>3. got' = [header |-> got'.header, payload |-> Plain(n)]
    BY <1>4, <2>2
  <2> QED
    BY <2>3
<1> QED
  BY <1>1, <1>2, <1>3, <1>4, <1>5 DEF FrameInv

Unmasks(h, pos, k, p) ==
  Plain(pos) \o (IF h.masked THEN Cipher(p, h.mask, pos) ELSE p) = Plain(pos + k)

LEMMA PayloadBack ==
  ASSUME NEW h \in Headers, NEW pos \in Nat, NEW k \in Nat \ {0}, NEW n \in Nat,
         pos + k <= n,
         NEW p, p = SubSeq(OnWire(h.masked, 0, n), pos + 1, pos + k)
  PROVE  Unmasks(h, pos, k, p)
<1>1. h.masked \in BOOLEAN /\ (h.masked => h.mask = Mask)
  BY HeaderFields
<1>2. p = OnWire(h.masked, pos, k)
  <2>1. 0 \in Nat /\ 0 + pos = pos
    OBVIOUS
  <2>2. Cuts(h.masked, 0, n, pos, k)
    BY <1>1, <2>1, CutOnWire
  <2> QED
    BY <2>1, <2>2, Zenon DEF Cuts
<1>3. (IF h.masked THEN Cipher(p, h.mask, pos) ELSE p) = Plain(k)
  <2>1. CASE h.masked
    <3>1. Cipher(OnWire(TRUE, pos, k), Mask, pos) = Plain(k)
      BY Ciphered
    <3>2. h.masked = TRUE
      BY <1>1, <2>1
    <3> QED
      BY <1>1, <1>2, <3>1, <3>2, Zenon
  <2>2. CASE ~h.masked
    <3>1. OnWire(FALSE, pos, k) = Plain(k)
      BY PlainOnWire
    <3>2. h.masked = FALSE
      BY <1>1, <2>2
    <3> QED
      BY <1>2, <3>1, <3>2, Zenon
  <2> QED
    BY <2>1, <2>2, Zenon
<1>4. Plain(pos) \o Plain(k) = Plain(pos + k)
  <2>0. FALSE \in BOOLEAN /\ 0 \in Nat /\ k \in Nat /\ 0 + pos \in Nat /\ pos + k \in Nat
    OBVIOUS
  <2>1. OnWire(FALSE, 0, pos) \o OnWire(FALSE, 0 + pos, k) = OnWire(FALSE, 0, pos + k)
    BY <2>0, JoinOnWire, Zenon
  <2>2. OnWire(FALSE, 0, pos) = Plain(pos)
    BY <2>0, PlainOnWire, Zenon
  <2>3. OnWire(FALSE, 0 + pos, k) = Plain(k)
    BY <2>0, PlainOnWire, Zenon
  <2>4. OnWire(FALSE, 0, pos + k) = Plain(pos + k)
    BY <2>0, PlainOnWire, Zenon
  <2> QED
    BY <2>1, <2>2, <2>3, <2>4, Zenon
<1> QED
  BY <1>3, <1>4, Zenon DEF Unmasks

LEMMA ReadPayloadKeeps ==
  FrameInv /\ ReadPayload => FrameInv'
<1> SUFFICES ASSUME FrameInv, ReadPayload PROVE FrameInv'
  OBVIOUS
<1>1. /\ pc = "unmask" /\ hdr \in Headers /\ sent = hdr.length /\ Sent
      /\ sent \in 0..hdr.length
      /\ wire = [header |-> WriteHeader(hdr), payload |-> OnWire(hdr.masked, 0, sent)]
      /\ got.header.err = "nil" /\ got.header.h = hdr /\ got.header.rest = <<>>
      /\ ReadRight(got.header, given, WriteHeader(hdr), hdr)
      /\ \E n \in 0..hdr.length :
           got = [header |-> got.header, payload |-> Plain(n)]
  BY DEF FrameInv, ReadPayload
<1>2. PICK pos \in 0..hdr.length :
        got = [header |-> got.header, payload |-> Plain(pos)]
  BY <1>1
<1>3. hdr.length \in Nat /\ pos \in Nat
  BY <1>1, HeaderFields, CodecConstants
<1>4. got.payload = Plain(pos) /\ Len(Plain(pos)) = pos
  <2>1. OnWire(FALSE, 0, pos) = Plain(pos) /\ Len(OnWire(FALSE, 0, pos)) = pos
    BY <1>3, PlainOnWire, OnWireTyped
  <2>2. got.payload = Plain(pos)
    BY <1>2
  <2> QED
    BY <2>1, <2>2, Zenon
<1>5. PICK k \in 1..(hdr.length - pos) :
        got' = [got EXCEPT !.payload =
                  @ \o IF hdr.masked
                       THEN Cipher(SubSeq(wire.payload, pos + 1, pos + k),
                                   hdr.mask, pos)
                       ELSE SubSeq(wire.payload, pos + 1, pos + k)]
  <2>1. Len(got.payload) = pos
    BY <1>4
  <2>2. got.header.h = hdr
    BY <1>1
  <2> QED
    BY <2>1, <2>2, Zenon DEF ReadPayload
<1>6. UNCHANGED <<hdr, pc, wire, sent, given, text>>
  BY DEF ReadPayload
<1>7. k \in Nat \ {0} /\ pos + k <= hdr.length /\ pos + k \in 0..hdr.length
  BY <1>3, <1>5
<1>8. PICK p : p = SubSeq(OnWire(hdr.masked, 0, hdr.length), pos + 1, pos + k)
  OBVIOUS
<1>9. Plain(pos) \o (IF hdr.masked THEN Cipher(p, hdr.mask, pos) ELSE p)
        = Plain(pos + k)
  <2>1. Unmasks(hdr, pos, k, p)
    BY <1>1, <1>3, <1>7, <1>8, PayloadBack
  <2> QED
    BY <2>1, Zenon DEF Unmasks
<1>10. SubSeq(wire.payload, pos + 1, pos + k) = p
  <2>1. wire.payload = OnWire(hdr.masked, 0, hdr.length)
    BY <1>1
  <2> QED
    BY <1>8, <2>1, Zenon
<1>11. got' = [header |-> got.header, payload |-> Plain(pos + k)]
  <2>1. got' = [got EXCEPT !.payload =
                  @ \o IF hdr.masked THEN Cipher(p, hdr.mask, pos) ELSE p]
    BY <1>5, <1>10, Zenon
  <2>2. got' = [got EXCEPT !.payload = Plain(pos + k)]
    BY <1>4, <1>9, <2>1, Zenon
  <2> QED
    BY <1>2, <2>2
<1>12. got'.header = got.header
  BY <1>11
<1>13. \E n \in 0..hdr.length :
         got' = [header |-> got'.header, payload |-> Plain(n)]
  BY <1>7, <1>11, <1>12
<1>14. Sent' = Sent
  BY <1>6 DEF Sent
<1> QED
  BY <1>1, <1>6, <1>12, <1>13, <1>14 DEF FrameInv

LEMMA FrameInvStep == FrameInv /\ [Next]_vars => FrameInv'
<1> SUFFICES ASSUME FrameInv, [Next]_vars PROVE FrameInv'
  OBVIOUS
<1>1. CASE ReadByte
  <2>1. pc = "text" /\ UNCHANGED <<hdr, pc, wire, sent, given, got>>
    BY <1>1 DEF ReadByte
  <2> QED
    BY <2>1 DEF FrameInv
<1>2. CASE UNCHANGED vars
  <2>1. UNCHANGED <<hdr, pc, wire, sent, given, got>> /\ Sent' = Sent
    BY <1>2 DEF vars, Sent
  <2> QED
    BY <2>1 DEF FrameInv
<1> QED
  BY <1>1, <1>2, WriteFrameHeaderKeeps, WritePayloadKeeps, ReadFrameHeaderKeeps,
     ReadLongHeaderKeeps, ReadPayloadKeeps DEF Next

LEMMA FramesFromInv == FrameInv => FramesSurvive
<1> SUFFICES ASSUME FrameInv PROVE FramesSurvive
  OBVIOUS
<1>1. CASE pc = "text"
  <2>1. /\ hdr.masked = FALSE /\ wire.payload = <<>>
    BY <1>1 DEF FrameInv, NoHeader
  <2> QED
    BY <1>1, <2>1 DEF FramesSurvive
<1>2. CASE pc # "text"
  <2>1. /\ hdr \in Headers
        /\ sent \in 0..hdr.length
        /\ wire.header = IF pc = "write" THEN <<>> ELSE WriteHeader(hdr)
        /\ wire.payload = OnWire(hdr.masked, 0, sent)
        /\ pc \in {"unmask", "stopped"} =>
             ReadRight(got.header, given, wire.header, hdr)
        /\ \E n \in 0..hdr.length : got.payload = Plain(n)
    BY <1>2 DEF FrameInv
  <2>2. hdr.length \in Nat /\ hdr.masked \in BOOLEAN
    BY <2>1, HeaderFields, CodecConstants
  <2>3. got.payload = Plain(Len(got.payload))
    <3>1. PICK n \in 0..hdr.length : got.payload = Plain(n)
      BY <2>1
    <3>2. n \in Nat
      BY <2>2
    <3>3. OnWire(FALSE, 0, n) = Plain(n) /\ Len(OnWire(FALSE, 0, n)) = n
      BY <3>2, PlainOnWire, OnWireTyped
    <3> QED
      BY <3>1, <3>3, Zenon
  <2>4. pc = "read" => Len(wire.header) = HeaderSize(hdr.masked, hdr.length)
    <3>1. Len(WriteHeader(hdr)) = 2 + LengthSize(hdr.length) + MaskBytes(hdr)
      BY <2>1, HeaderBytes DEF Laid
    <3>2. 2 + LengthSize(hdr.length) + MaskBytes(hdr)
            = HeaderSize(hdr.masked, hdr.length)
      BY <2>2 DEF LengthSize, MaskBytes, HeaderSize, MaskSize
    <3>3. pc = "read" => wire.header = WriteHeader(hdr)
      BY <2>1
    <3> QED
      BY <3>1, <3>2, <3>3, Zenon
  <2>5. hdr.masked => \A i \in 1..Len(wire.payload) : wire.payload[i] # {}
    <3> SUFFICES ASSUME hdr.masked, NEW i \in 1..Len(wire.payload)
                 PROVE  wire.payload[i] # {}
      OBVIOUS
    <3>1. sent \in Nat
      BY <2>1, <2>2
    <3>2. Len(OnWire(hdr.masked, 0, sent)) = sent
      BY <2>2, <3>1, OnWireTyped
    <3>3. i \in 1..sent
      BY <2>1, <3>2
    <3>4. wire.payload[i] = {Mask[Key(0, i) + 1]}
      BY <2>1, <3>3, Zenon DEF OnWire
    <3> QED
      BY <3>4
  <2> QED
    BY <2>1, <2>3, <2>4, <2>5 DEF FramesSurvive
<1> QED
  BY <1>1, <1>2

(* A header that arrives whole is read back as it was written, a torn one is
   an end of file and a negative one ErrHeaderLengthMSB; a payload is read back however WriteFrame's CipherWriter and the
   CipherReader cut it, and nothing of a masked one is plain on the wire: for
   all lengths up to 2^31 - 1 and all limits on them. *)
THEOREM CodecFramesSurvive == Spec => []FramesSurvive
<1>1. Init => FrameInv
  BY FrameInvInit
<1>2. FrameInv /\ [Next]_vars => FrameInv'
  BY FrameInvStep
<1>3. FrameInv => FramesSurvive
  BY FramesFromInv
<1> QED
  BY <1>1, <1>2, <1>3, PTL DEF Spec
=============================================================================
