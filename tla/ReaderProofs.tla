----------------------------- MODULE ReaderProofs -----------------------------
(***************************************************************************)
(* Theorems about Reader with a caller that reads control frames, for      *)
(* frames of any length and any number of them.                            *)
(***************************************************************************)
EXTENDS Reader, SequenceTheorems, WellFoundedInduction, TLAPS

Numbers ==
  /\ rawN \in Nat /\ left \in Nat /\ sent \in Nat
  /\ taken \in Seq(Bytes)

(* Where Read reads from a frame, all that is left of the frame is known. *)
InFrame == pc \in {"message", "reading"} /\ frame # "nil"

(* Where the next header is due. *)
DueHeader == pc = "advancing" \/ (pc = "message" /\ frame = "nil")

Inv ==
  /\ Numbers
  /\ InStep
  /\ Aligned
  /\ EOFComplete
  /\ StartsClean
  /\ pc \in {"message", "discarding"} => rawN <= left
  /\ pc = "reading" => frame # "nil"
  /\ DueHeader => frag
  /\ InFrame => rawN = left /\ Len(taken) + left = sent
  /\ pc = "message" /\ frame = "nil" /\ ~ended => Len(taken) = sent
  /\ pc \in {"message", "reading"} /\ kind = "control" =>
       ~frag /\ frame = "raw" /\ utf8 = "accept"

-----------------------------------------------------------------------------
LEMMA ReaderInit == Init => Inv
<1>1. Init => Numbers
  BY DEF Init, Numbers
<1>2. Init => InStep /\ Aligned /\ EOFComplete /\ StartsClean
  BY DEF Init, InStep, Aligned, EOFComplete, EndOfMessage, StartsClean
<1>3. QED
  BY <1>1, <1>2 DEF Init, Inv, DueHeader, InFrame

(* What NextFrame leaves when it returns no error, called where a header is
   due. *)
Advanced ==
  /\ Numbers'
  /\ frag' = open'
  /\ \/ /\ frag' /\ frame' = frame
        /\ rawN' = left'
        /\ left' = 0 \/ ended'
        /\ UNCHANGED <<sent, taken, got, kind, utf8, frag>>
        /\ ended => ended'
     \/ /\ ~ended /\ ended' = ended
        /\ frame' \in {"raw", "utf8"}
        /\ rawN' = left'
        /\ UNCHANGED utf8
        /\ frag => sent' = sent + left' /\ UNCHANGED <<taken, kind>>
        /\ ~frag =>
             /\ sent' = left' /\ taken' = <<>>
             /\ kind' = "control" => ~frag' /\ frame' = "raw"

LEMMA NextFrameAdvances ==
  ASSUME Numbers, frag = open, NextFrame("nil")
  PROVE  Advanced
<1>1. PICK h \in Headers : Intermediate(h, "nil") \/ DataFrame(h, "nil")
  BY DEF NextFrame, NoHeader, RefuseHeader, ExtensionFails
<1>2. h.length \in Nat /\ h.length \in 0..MaxLength
  BY ReaderConstants DEF Headers
<1>3. CASE Intermediate(h, "nil")
  <2>1. rawN' \in Nat
    BY <1>2, <1>3 DEF Intermediate
  <2>2. QED
    BY <1>3, <2>1 DEF Intermediate, HeaderRead, Advanced, Numbers, message,
                      reader
<1>4. CASE DataFrame(h, "nil")
  <2>1. /\ rawN' = left' /\ left' = h.length
        /\ frame' \in {"raw", "utf8"}
        /\ ~ended /\ ended' = ended /\ UNCHANGED utf8
    BY <1>4 DEF DataFrame, HeaderRead, ReaderOf
  <2>2. frag' = open'
    <3>1. frag' = ~h.fin
      BY <1>4 DEF DataFrame, NowFragmented
    <3>2. CASE h.op = "control"
      <4>1. ~frag /\ h.fin
        BY <1>4, <3>2 DEF DataFrame, CheckHeader
      <4>2. open' = open
        BY <1>4, <3>2 DEF DataFrame, HeaderRead
      <4>3. open = FALSE /\ h.fin = TRUE
        BY <4>1
      <4>4. QED
        BY <3>1, <4>2, <4>3
    <3>3. CASE h.op # "control"
      BY <1>4, <3>1, <3>3 DEF DataFrame, HeaderRead
    <3>4. QED
      BY <3>2, <3>3
  <2>3. CASE frag
    <3>1. sent' = sent + h.length /\ UNCHANGED <<taken, kind>>
      BY <1>4, <2>3 DEF DataFrame, message
    <3>2. Numbers'
      BY <1>2, <2>1, <3>1 DEF Numbers
    <3>3. QED
      BY <2>1, <2>2, <2>3, <3>1, <3>2 DEF Advanced
  <2>4. CASE ~frag
    <3>1. sent' = left' /\ taken' = <<>> /\ kind' = h.op
      BY <1>4, <2>4 DEF DataFrame
    <3>2. h.op = "control" => ~frag' /\ frame' = "raw"
      BY <1>4, <2>4
         DEF DataFrame, CheckHeader, NowFragmented, ReaderOf
    <3>3. QED
      BY <1>2, <2>1, <2>2, <2>4, <3>1, <3>2 DEF Advanced, Numbers
  <2>5. QED
    BY <2>3, <2>4
<1>5. QED
  BY <1>1, <1>3, <1>4

(* Whatever NextFrame returns, the numbers stay numbers. *)
LEMMA NextFrameNumbers ==
  ASSUME Numbers, NEW e \in Errors, NextFrame(e)
  PROVE  Numbers'
<1>1. CASE NoHeader(e)
  BY <1>1 DEF NoHeader, Numbers, reader, message
<1>2. ASSUME NEW h \in Headers,
             \/ RefuseHeader(h, e)
             \/ ExtensionFails(h, e)
             \/ Intermediate(h, e)
             \/ DataFrame(h, e)
      PROVE  Numbers'
  <2>1. h.length \in Nat
    BY ReaderConstants DEF Headers
  <2>2. rawN' \in Nat /\ left' \in Nat
    BY <1>2, <2>1 DEF RefuseHeader, ExtensionFails, Intermediate, DataFrame,
                      Numbers, reader
  <2>3. sent' \in Nat
    BY <1>2, <2>1 DEF RefuseHeader, ExtensionFails, Intermediate, DataFrame,
                      Numbers, reader
  <2>4. taken' \in {taken, <<>>}
    BY <1>2 DEF RefuseHeader, ExtensionFails, Intermediate, DataFrame, message
  <2>5. taken' \in Seq(Bytes)
    <3>1. taken \in Seq(Bytes) /\ <<>> \in Seq(Bytes)
      BY DEF Numbers
    <3>2. QED
      BY <2>4, <3>1
  <2>6. QED
    BY <2>2, <2>3, <2>5 DEF Numbers
<1>3. QED
  BY <1>1, <1>2 DEF NextFrame

-----------------------------------------------------------------------------
(* A call that ends with the caller stopped has nothing to keep. *)
LEMMA StopsWell ==
  ASSUME Numbers', pc' \in {"stopped", "resetting"}
  PROVE  Inv'
  BY DEF Inv, InStep, Aligned, EOFComplete, EndOfMessage, StartsClean,
         DueHeader, InFrame

LEMMA EmptySum ==
  ASSUME NEW n \in Nat
  PROVE  Len(<<>>) + n = n
  OBVIOUS

LEMMA CallNextFrameKeeps ==
  ASSUME Inv, CallNextFrame
  PROVE  Inv'
<1> USE DEF Inv
<1>1. PICK e \in Errors :
        NextFrame(e) /\ pc' = (IF e = "nil" THEN "message" ELSE "stopped")
        /\ ret' = e
  BY DEF CallNextFrame
<1>2. pc = "between" /\ ~frag /\ frag = open /\ utf8 = "accept"
  BY DEF CallNextFrame, StartsClean, InStep
<1>3. Numbers'
  BY <1>1, NextFrameNumbers
<1>4. CASE e # "nil"
  BY <1>1, <1>3, <1>4, StopsWell
<1>5. CASE e = "nil"
  <2>1. Advanced
    BY <1>1, <1>2, <1>5, NextFrameAdvances
  <2>2. pc' = "message" /\ ret' = "nil"
    BY <1>1, <1>5
  <2>3. /\ frame' # "nil" /\ rawN' = left' /\ frag' = open'
        /\ sent' = left' /\ taken' = <<>> /\ utf8' = "accept"
        /\ kind' = "control" => ~frag' /\ frame' = "raw"
    BY <1>2, <2>1 DEF Advanced
  <2>4. Len(taken') + left' = sent'
    <3>1. taken' = <<>> /\ left' \in Nat /\ sent' = left'
      BY <1>3, <2>3 DEF Numbers
    <3>2. Len(<<>>) + left' = left'
      BY <3>1, EmptySum
    <3>3. QED
      BY <3>1, <3>2, Zenon
  <2>5. rawN' <= left'
    BY <1>3, <2>3 DEF Numbers
  <2>6. QED
    BY <1>3, <2>2, <2>3, <2>4, <2>5 DEF InStep, Aligned, EOFComplete, EndOfMessage,
                                  StartsClean, DueHeader, InFrame
<1>6. QED
  BY <1>4, <1>5

LEMMA ReadAdvanceKeeps ==
  ASSUME Inv, ReadAdvance
  PROVE  Inv'
<1> USE DEF Inv
<1>1. PICK e \in Errors :
        NextFrame(e) /\ ret' = e
        /\ pc' = (IF e # "nil" THEN "stopped"
                  ELSE IF frame' = "nil" THEN "message" ELSE "reading")
  BY DEF ReadAdvance
<1>2. /\ pc = "message" /\ frame = "nil" /\ frag /\ frag = open
      /\ left = 0 \/ ended
      /\ ~ended => Len(taken) = sent
      /\ kind # "control"
  BY DEF ReadAdvance, InStep, Aligned, DueHeader
<1>3. Numbers'
  BY <1>1, NextFrameNumbers
<1>4. CASE e # "nil"
  BY <1>1, <1>3, <1>4, StopsWell
<1>5. CASE e = "nil"
  <2>1. Advanced
    BY <1>1, <1>2, <1>5, NextFrameAdvances
  <2>2. CASE frame' = "nil"
    <3>1. /\ frag' /\ rawN' = left' /\ (left' = 0 \/ ended')
          /\ UNCHANGED <<sent, taken, kind>> /\ (ended => ended')
          /\ frag' = open' /\ pc' = "message" /\ ret' = "nil"
      BY <1>1, <1>5, <2>1, <2>2 DEF Advanced
    <3>2. rawN' <= left'
      BY <1>3, <3>1 DEF Numbers
    <3>3. QED
      BY <1>2, <1>3, <2>2, <3>1, <3>2 DEF InStep, Aligned, EOFComplete, EndOfMessage,
                                    StartsClean, DueHeader, InFrame
  <2>3. CASE frame' # "nil"
    <3>1. /\ ~ended /\ ended' = ended /\ rawN' = left'
          /\ sent' = sent + left' /\ UNCHANGED <<taken, kind>>
          /\ frag' = open' /\ pc' = "reading" /\ ret' = "nil"
      BY <1>1, <1>2, <1>5, <2>1, <2>3 DEF Advanced
    <3>2. Len(taken') + left' = sent'
      BY <1>2, <1>3, <3>1 DEF Numbers
    <3>3. QED
      BY <1>2, <1>3, <2>3, <3>1, <3>2
         DEF InStep, Aligned, EOFComplete, EndOfMessage, StartsClean,
             DueHeader, InFrame
  <2>4. QED
    BY <2>2, <2>3
<1>6. QED
  BY <1>4, <1>5

LEMMA DiscardAdvanceKeeps ==
  ASSUME Inv, DiscardAdvance
  PROVE  Inv'
<1> USE DEF Inv
<1>1. PICK e \in Errors :
        NextFrame(e) /\ pc' = (IF e = "nil" THEN "discarding" ELSE "resetting")
  BY DEF DiscardAdvance
<1>2. frag = open
  BY DEF DiscardAdvance, InStep
<1>3. Numbers'
  BY <1>1, NextFrameNumbers
<1>4. CASE e # "nil"
  BY <1>1, <1>3, <1>4, StopsWell
<1>5. CASE e = "nil"
  <2>1. pc' = "discarding" /\ rawN' = left' /\ frag' = open'
    BY <1>1, <1>2, <1>5, NextFrameAdvances DEF Advanced
  <2>2. rawN' <= left'
    BY <1>3, <2>1 DEF Numbers
  <2>3. QED
    BY <1>3, <2>1, <2>2 DEF InStep, Aligned, EOFComplete, EndOfMessage,
                            StartsClean, DueHeader, InFrame
<1>6. QED
  BY <1>4, <1>5

-----------------------------------------------------------------------------
LEMMA Concatenated ==
  ASSUME NEW S, NEW a \in Seq(S), NEW b \in Seq(S)
  PROVE  a \o b \in Seq(S) /\ Len(a \o b) = Len(a) + Len(b)
  OBVIOUS

(* Read from a frame: what it takes of the message is gone from the source. *)
LEMMA ReadBytesKeeps ==
  ASSUME Inv, ReadBytes
  PROVE  Inv'
<1> USE DEF Inv
<1>1. PICK k \in (IF rawN = 0 THEN {0} ELSE 1..rawN) : \E s \in [1..k -> Bytes] :
        /\ left' = left - k
        /\ taken' = taken \o s
        /\ ReadRejects(s) \/ ReadSome(s) \/ ReadLast(s)
  BY DEF ReadBytes
<1>2. PICK s \in [1..k -> Bytes] :
        /\ left' = left - k
        /\ taken' = taken \o s
        /\ ReadRejects(s) \/ ReadSome(s) \/ ReadLast(s)
  BY <1>1
<1>3. /\ InFrame /\ UNCHANGED <<checkUTF8, frag, open, sent, ended, frames, kind>>
      /\ frag = open /\ rawN = left /\ Len(taken) + left = sent
  BY DEF ReadBytes, ReadGoesOn, InFrame, InStep
<1>4. k \in Nat /\ k <= rawN /\ s \in Seq(Bytes) /\ Len(s) = k
  BY <1>2 DEF Numbers
<1>5. /\ left' \in Nat /\ taken' \in Seq(Bytes)
      /\ Len(taken') + left' = sent'
  <2>1. left' \in Nat
    BY <1>2, <1>3, <1>4 DEF Numbers
  <2>2. taken' \in Seq(Bytes) /\ Len(taken') = Len(taken) + k
    <3>1. taken \in Seq(Bytes) /\ taken' = taken \o s
      BY <1>2 DEF Numbers
    <3>2. s \in Seq(Bytes) /\ Len(s) = k
      BY <1>4
    <3>3. taken \o s \in Seq(Bytes) /\ Len(taken \o s) = Len(taken) + Len(s)
      BY <3>1, <3>2, Concatenated
    <3>4. QED
      BY <3>1, <3>2, <3>3
  <2>3. sent' = sent /\ Len(taken) + left = sent /\ left' = left - k
    BY <1>2, <1>3
  <2>4. Len(taken) \in Nat /\ k \in Nat /\ left \in Nat /\ sent \in Nat
    BY <1>4 DEF Numbers
  <2>5. QED
    BY <2>1, <2>2, <2>3, <2>4
<1>6. CASE ReadRejects(s) \/ ReadSome(s)
  <2>1. /\ rawN' = rawN - k /\ frame' = frame /\ pc' = "message"
        /\ ret' \in {"nil", "ErrInvalidUTF8"}
    BY <1>4, <1>6 DEF ReadRejects, ReadSome
  <2>2. rawN' = left' /\ rawN' \in Nat
    BY <1>2, <1>3, <1>5, <2>1
  <2>3. frame = "raw" => utf8' = utf8
    BY <1>6 DEF ReadRejects, ReadSome, Rejects, StateAfter
  <2>4. QED
    BY <1>3, <1>5, <2>1, <2>2, <2>3
       DEF Numbers, InFrame, InStep, Aligned, EOFComplete, EndOfMessage,
           StartsClean, DueHeader
<1>7. CASE ReadLast(s)
  <2>1. k = rawN /\ left' = 0 /\ FrameEnds(s, StateAfter(s))
    BY <1>2, <1>3, <1>4, <1>7 DEF ReadLast, Numbers
  <2>2. Len(taken') = sent'
    BY <1>5, <2>1 DEF Numbers
  <2>3. rawN' = 0 /\ Numbers'
    BY <1>3, <1>5, <2>1 DEF FrameEnds, ResetFragment, Reset, Numbers
  <2>4. CASE frag /\ frame' = "nil" /\ pc' = "message" /\ ret' = "nil"
    BY <1>3, <2>1, <2>2, <2>3, <2>4
       DEF InFrame, InStep, Aligned, EOFComplete, EndOfMessage, StartsClean,
           DueHeader
  <2>5. CASE ~frag /\ frame' = frame /\ pc' = "message"
             /\ ret' = "ErrInvalidUTF8" /\ StateAfter(s) # "accept"
    <3>1. kind # "control"
      BY <1>3, <2>5 DEF StateAfter, InFrame
    <3>2. QED
      BY <1>3, <2>1, <2>2, <2>3, <2>5, <3>1
         DEF InFrame, InStep, Aligned, EOFComplete, EndOfMessage, StartsClean,
             DueHeader, Numbers
  <2>6. CASE ~frag /\ pc' = "between" /\ utf8' = "accept"
    BY <1>3, <2>1, <2>2, <2>3, <2>6
       DEF InFrame, InStep, Aligned, EOFComplete, EndOfMessage, StartsClean,
           DueHeader
  <2>7. QED
    BY <2>1, <2>4, <2>5, <2>6 DEF FrameEnds, ResetFragment, Reset
<1>8. QED
  BY <1>2, <1>6, <1>7

LEMMA DiscardCopyKeeps ==
  ASSUME Inv, DiscardCopy
  PROVE  Inv'
<1> USE DEF Inv
<1>1. /\ pc = "discarding" /\ rawN <= left /\ frag = open
      /\ rawN = left \/ ended
      /\ UNCHANGED <<frag, open, sent, taken>>
  BY DEF DiscardCopy, InStep, message
<1>2. /\ left' \in {left - rawN, left} /\ left' \in Nat
      /\ left' = 0 \/ ended'
      /\ ended \/ rawN = 0 => ended' \/ ended' = ended
  BY <1>1 DEF DiscardCopy, Drain, Numbers
<1>3. CASE frag
  <2>1. /\ pc' = "advancing" /\ rawN' = rawN - (left - left')
        /\ ret' = ret
    BY <1>3 DEF DiscardCopy
  <2>2. rawN' \in Nat /\ (rawN' = left' \/ ended')
    <3>1. rawN \in Nat /\ left \in Nat
      BY DEF Numbers
    <3>2. CASE ~ended /\ left' = left - rawN
      BY <1>1, <2>1, <3>1, <3>2
    <3>3. CASE ended' /\ left' = left
      BY <1>1, <2>1, <3>1, <3>3
    <3>4. QED
      BY <3>2, <3>3 DEF DiscardCopy, Drain
  <2>3. QED
    BY <1>1, <1>2, <1>3, <2>1, <2>2
       DEF Numbers, InFrame, InStep, Aligned, EOFComplete, EndOfMessage,
           StartsClean, DueHeader
<1>4. CASE ~frag
  <2>1. /\ pc' = "between" /\ rawN' = 0 /\ utf8' = "accept" /\ ret' = "nil"
    BY <1>4 DEF DiscardCopy, Reset
  <2>2. QED
    BY <1>1, <1>2, <1>4, <2>1
       DEF Numbers, InFrame, InStep, Aligned, EOFComplete, EndOfMessage,
           StartsClean, DueHeader
<1>5. QED
  BY <1>3, <1>4

(* The other steps. *)
LEMMA OthersKeep ==
  ASSUME Inv, SkipsControl = FALSE,
         \/ LeaveControl \/ ReadNothing \/ ReadBreaks \/ CallDiscard
         \/ DiscardBreaks \/ DiscardReset \/ Stopped \/ UNCHANGED vars
  PROVE  Inv'
<1> USE DEF Inv
<1>1. CASE LeaveControl
  <2>1. pc = "message" /\ kind = "control" /\ rawN = 0 /\ pc' = "between"
        /\ ret = "nil" /\ UNCHANGED <<reader, wire, message, ret>>
    BY <1>1 DEF LeaveControl
  <2>2. ~frag /\ utf8 = "accept" /\ left = 0
    BY <2>1 DEF InFrame
  <2>3. QED
    BY <2>1, <2>2 DEF Numbers, InFrame, InStep, Aligned, EOFComplete,
                      EndOfMessage, StartsClean, DueHeader, reader, wire,
                      message
<1>2. CASE ReadNothing
  BY <1>2 DEF ReadNothing, Numbers, InFrame, InStep, Aligned, EOFComplete,
              EndOfMessage, StartsClean, DueHeader, reader, wire, message
<1>3. CASE ReadBreaks \/ DiscardBreaks \/ DiscardReset
  <2>1. Numbers'
    BY <1>3 DEF ReadBreaks, DiscardBreaks, DiscardReset, Reset, Numbers,
                reader, wire, message
  <2>2. pc' \in {"stopped", "resetting"}
    BY <1>3 DEF ReadBreaks, DiscardBreaks, DiscardReset
  <2>3. QED
    BY <2>1, <2>2, StopsWell
<1>4. CASE CallDiscard
  <2>1. pc = "message" /\ pc' = "discarding"
        /\ UNCHANGED <<reader, wire, message, ret>>
    BY <1>4 DEF CallDiscard
  <2>2. QED
    BY <2>1 DEF Numbers, InFrame, InStep, Aligned, EOFComplete, EndOfMessage,
                StartsClean, DueHeader, reader, wire, message
<1>5. CASE Stopped \/ UNCHANGED vars
  BY <1>5 DEF Stopped, vars, Numbers, InFrame, InStep, Aligned, EOFComplete,
              EndOfMessage, StartsClean, DueHeader, reader, wire, message
<1>6. QED
  BY <1>1, <1>2, <1>3, <1>4, <1>5

-----------------------------------------------------------------------------
(* With a caller that reads what it is given, however the frames are cut,
   interrupted and broken: headers are read where headers are, the reader
   agrees with the wire, a message is over only with its last byte, and the
   next one starts with a clean reader. *)
THEOREM ReaderKeepsStep ==
  ASSUME SkipsControl = FALSE
  PROVE  Spec => [](Aligned /\ InStep /\ EOFComplete /\ StartsClean)
<1>1. Inv /\ [Next]_vars => Inv'
  BY CallNextFrameKeeps, ReadAdvanceKeeps, DiscardAdvanceKeeps,
     ReadBytesKeeps, DiscardCopyKeeps, OthersKeep DEF Next
<1>2. Inv => Aligned /\ InStep /\ EOFComplete /\ StartsClean
  BY DEF Inv
<1>3. QED
  BY ReaderInit, <1>1, <1>2, PTL DEF Spec

-----------------------------------------------------------------------------
(* The bytes of a text.  What a recursive definition computes is found with
   the least number at which it would not, so that no induction rule is
   needed. *)
LEMMA Least ==
  ASSUME NEW T \in SUBSET Nat, T # {}
  PROVE  \E x \in T : \A y \in T : x <= y
<1> DEFINE R == OpToRel(<, Nat)
<1>1. IsWellFoundedOn(R, Nat)
  BY Zenon, NatLessThanWellFounded
<1>2. \A x, y \in Nat : x < y => <<x, y>> \in R
  BY DEF OpToRel
<1> HIDE DEF R
<1>3. PICK x \in T : \A y \in T : ~ (<<y, x>> \in R)
  BY <1>1, WFMin
<1>4. ASSUME NEW y \in T PROVE x <= y
  <2>1. x \in Nat /\ y \in Nat
    OBVIOUS
  <2>2. ~ (y < x)
    BY <1>2, <1>3, <2>1
  <2> QED
    BY <2>1, <2>2
<1> QED
  BY <1>4

LEMMA Greatest ==
  ASSUME NEW n \in Nat, NEW T \in SUBSET (0..n), T # {}
  PROVE  \E x \in T : \A y \in T : y <= x
<1> DEFINE U == {n - x : x \in T}
<1>1. U \in SUBSET Nat /\ U # {}
  <2>1. \A x \in T : n - x \in Nat
    OBVIOUS
  <2>2. U \in SUBSET Nat
    BY <2>1
  <2>3. PICK x \in T : TRUE
    OBVIOUS
  <2>4. n - x \in U
    OBVIOUS
  <2> QED
    BY <2>2, <2>4
<1>2. PICK u \in U : \A v \in U : u <= v
  BY <1>1, Least
<1>3. PICK x \in T : u = n - x
  OBVIOUS
<1>4. ASSUME NEW y \in T PROVE y <= x
  <2>1. n - x <= n - y
    BY <1>2, <1>3
  <2>2. x \in 0..n /\ y \in 0..n
    OBVIOUS
  <2> QED
    BY <2>1, <2>2
<1> QED
  BY <1>4

(* The state of the UTF8Reader after all of s, from the start of a text. *)
StateOf(s) ==
  IF ~ValidSoFar(s) THEN "reject"
  ELSE IF s # <<>> /\ s[Len(s)] = "lead" THEN "mid"
  ELSE "accept"

LEMMA Appended ==
  ASSUME NEW s \in Seq(Bytes), NEW b \in Bytes
  PROVE  /\ Append(s, b) \in Seq(Bytes)
         /\ Append(s, b) # <<>>
         /\ Len(s) \in Nat
         /\ Len(Append(s, b)) = Len(s) + 1
         /\ \A i \in 1..Len(s) : Append(s, b)[i] = s[i]
         /\ Append(s, b)[Len(s) + 1] = b
  OBVIOUS

(* One more byte makes of a sequence that could become valid another one if
   and only if it is a tail just behind a lead. *)
LEMMA ValidAppended ==
  ASSUME NEW s \in Seq(Bytes), NEW b \in Bytes
  PROVE  ValidSoFar(Append(s, b)) <=>
           /\ ValidSoFar(s)
           /\ b = "tail" <=> s # <<>> /\ s[Len(s)] = "lead"
<1> DEFINE a == Append(s, b)
<1>1. /\ Len(s) \in Nat /\ Len(a) = Len(s) + 1
      /\ \A i \in 1..Len(s) : a[i] = s[i]
      /\ a[Len(s) + 1] = b
  BY Appended
<1>2. s # <<>> <=> Len(s) > 0
  OBVIOUS
<1> HIDE DEF a
<1>3. ASSUME ValidSoFar(a)
      PROVE  ValidSoFar(s) /\ (b = "tail" <=> s # <<>> /\ s[Len(s)] = "lead")
  <2>1. ASSUME NEW i \in 1..Len(s)
        PROVE  s[i] = "tail" <=> i > 1 /\ s[i - 1] = "lead"
    <3>1. i \in 1..Len(a) /\ a[i] = s[i] /\ (i > 1 => a[i - 1] = s[i - 1])
      BY <1>1
    <3> QED
      BY <1>3, <3>1 DEF ValidSoFar
  <2>2. b = "tail" <=> Len(s) + 1 > 1 /\ a[Len(s) + 1 - 1] = "lead"
    <3>1. Len(s) + 1 \in 1..Len(a)
      BY <1>1
    <3> QED
      BY <1>1, <1>3, <3>1 DEF ValidSoFar
  <2>3. Len(s) > 0 => a[Len(s) + 1 - 1] = s[Len(s)]
    BY <1>1
  <2> QED
    BY <1>1, <1>2, <2>1, <2>2, <2>3 DEF ValidSoFar
<1>4. ASSUME ValidSoFar(s), b = "tail" <=> s # <<>> /\ s[Len(s)] = "lead"
      PROVE  ValidSoFar(a)
  <2> SUFFICES ASSUME NEW i \in 1..Len(a)
               PROVE  a[i] = "tail" <=> i > 1 /\ a[i - 1] = "lead"
    BY DEF ValidSoFar
  <2>1. CASE i \in 1..Len(s)
    <3>1. a[i] = s[i] /\ (i > 1 => a[i - 1] = s[i - 1])
      BY <1>1, <2>1
    <3> QED
      BY <1>4, <2>1, <3>1 DEF ValidSoFar
  <2>2. CASE i = Len(s) + 1
    <3>1. a[i] = b /\ (i > 1 <=> Len(s) > 0) /\ (i > 1 => a[i - 1] = s[Len(s)])
      BY <1>1, <2>2
    <3> QED
      BY <1>2, <1>4, <3>1
  <2> QED
    BY <1>1, <2>1, <2>2
<1> QED
  BY <1>3, <1>4 DEF a

(* Decode is one step of it. *)
LEMMA StateAppended ==
  ASSUME NEW s \in Seq(Bytes), NEW b \in Bytes
  PROVE  StateOf(Append(s, b)) = Decode(StateOf(s), b)
<1>1. /\ Append(s, b) # <<>>
      /\ Append(s, b)[Len(Append(s, b))] = b
  BY Appended
<1>2. ValidSoFar(Append(s, b)) <=>
        /\ ValidSoFar(s)
        /\ b = "tail" <=> s # <<>> /\ s[Len(s)] = "lead"
  BY ValidAppended
<1>3. StateOf(Append(s, b)) = IF ~ValidSoFar(Append(s, b)) THEN "reject"
                              ELSE IF b = "lead" THEN "mid" ELSE "accept"
  BY <1>1 DEF StateOf
<1>4. b \in {"ascii", "lead", "tail"}
  BY DEF Bytes
<1>5. CASE ~ValidSoFar(s)
  BY <1>2, <1>3, <1>5 DEF StateOf, Decode
<1>6. CASE ValidSoFar(s) /\ s # <<>> /\ s[Len(s)] = "lead"
  BY <1>2, <1>3, <1>4, <1>6 DEF StateOf, Decode
<1>7. CASE ValidSoFar(s) /\ ~(s # <<>> /\ s[Len(s)] = "lead")
  BY <1>2, <1>3, <1>4, <1>7 DEF StateOf, Decode
<1> QED
  BY <1>5, <1>6, <1>7

LEMMA Prefixes ==
  ASSUME NEW t \in Seq(Bytes), NEW s \in Seq(Bytes)
  PROVE  /\ t \o SubSeq(s, 1, 0) = t
         /\ t \o SubSeq(s, 1, Len(s)) = t \o s
         /\ \A i \in 0..Len(s) : t \o SubSeq(s, 1, i) \in Seq(Bytes)
         /\ \A i \in 1..Len(s) :
              /\ s[i] \in Bytes
              /\ t \o SubSeq(s, 1, i) = Append(t \o SubSeq(s, 1, i - 1), s[i])
<1>1. SubSeq(s, 1, 0) = <<>> /\ SubSeq(s, 1, Len(s)) = s
  BY SubSeqEmpty, SubSeqFull
<1>2. ASSUME NEW i \in 0..Len(s)
      PROVE  SubSeq(s, 1, i) \in Seq(Bytes)
  <2>1. \A j \in 1..i : s[j] \in Bytes
    OBVIOUS
  <2> QED
    BY <2>1, SubSeqProperties
<1>3. ASSUME NEW i \in 1..Len(s)
      PROVE  /\ s[i] \in Bytes
             /\ t \o SubSeq(s, 1, i) = Append(t \o SubSeq(s, 1, i - 1), s[i])
  <2>1. SubSeq(s, 1, i) = SubSeq(s, 1, i - 1) \o <<s[i]>>
    <3>1. Len(s) \in Nat /\ 1 \in 1..Len(s) /\ i \in 1..Len(s)
      OBVIOUS
    <3> QED
      BY <3>1, SubSeqRecursiveSecond
  <2>2. SubSeq(s, 1, i - 1) \in Seq(Bytes) /\ s[i] \in Bytes
    BY <1>2
  <2>3. \A a \in Seq(Bytes), x \in Bytes :
          t \o (a \o <<x>>) = Append(t \o a, x)
    OBVIOUS
  <2> QED
    BY <2>1, <2>2, <2>3
<1>4. t \o <<>> = t
  BY ConcatEmptySeq, Zenon
<1> QED
  BY <1>1, <1>2, <1>3, <1>4, SMTT(30)

(* States, from the state that the bytes t before s have left. *)
LEMMA StatesOf ==
  ASSUME NEW t \in Seq(Bytes), NEW s \in Seq(Bytes)
  PROVE  \A i \in 0..Len(s) :
           States(StateOf(t), s)[i] = StateOf(t \o SubSeq(s, 1, i))
<1> DEFINE D == 0..Len(s)
           Step(f) == [i \in D |-> IF i = 0 THEN StateOf(t)
                                   ELSE Decode(f[i - 1], s[i])]
           g == [i \in D |-> StateOf(t \o SubSeq(s, 1, i))]
           a == States(StateOf(t), s)
<1>1. a = CHOOSE f : f = Step(f)
  BY DEF States
<1>2. g = Step(g)
  <2>1. ASSUME NEW i \in D, i # 0
        PROVE  g[i] = Decode(g[i - 1], s[i])
    <3>1. i \in 1..Len(s) /\ i - 1 \in D
      BY <2>1
    <3>2. /\ s[i] \in Bytes
          /\ t \o SubSeq(s, 1, i - 1) \in Seq(Bytes)
          /\ t \o SubSeq(s, 1, i) = Append(t \o SubSeq(s, 1, i - 1), s[i])
      BY <3>1, Prefixes
    <3>3. StateOf(t \o SubSeq(s, 1, i))
            = Decode(StateOf(t \o SubSeq(s, 1, i - 1)), s[i])
      BY <3>2, StateAppended
    <3> QED
      BY <3>1, <3>3
  <2>2. 0 \in D => g[0] = StateOf(t)
    BY Prefixes
  <2> HIDE DEF D
  <2>3. \A i \in D : g[i] = IF i = 0 THEN StateOf(t)
                             ELSE Decode(g[i - 1], s[i])
    BY <2>1, <2>2
  <2> QED
    BY <2>3
<1> HIDE DEF g, a
<1>3. a = Step(a)
  BY <1>1, <1>2
<1>4. \A i \in D : /\ a[i] = IF i = 0 THEN StateOf(t) ELSE Decode(a[i - 1], s[i])
                   /\ g[i] = IF i = 0 THEN StateOf(t) ELSE Decode(g[i - 1], s[i])
  BY <1>2, <1>3
<1>5. \A i \in D : a[i] = g[i]
  <2> DEFINE T == {i \in D : a[i] # g[i]}
  <2> SUFFICES ASSUME T # {} PROVE FALSE
    OBVIOUS
  <2>1. T \in SUBSET Nat
    OBVIOUS
  <2>2. PICK i \in T : \A j \in T : i <= j
    BY <2>1, Least
  <2>3. i \in D /\ a[i] # g[i]
    OBVIOUS
  <2>4. i # 0
    BY <1>4, <2>3
  <2>5. i - 1 \in D /\ i - 1 \notin T
    BY <2>2, <2>3, <2>4
  <2> QED
    BY <1>4, <2>3, <2>4, <2>5
<1> QED
  BY <1>5 DEF g, a

(* The UTF8Reader's state says what the bytes so far are. *)
LEMMA StateMeaning ==
  ASSUME NEW s \in Seq(Bytes)
  PROVE  /\ StateOf(s) \in {"accept", "mid", "reject"}
         /\ StateOf(s) = "reject" <=> ~ValidSoFar(s)
         /\ StateOf(s) = "accept" <=> Valid(s)
         /\ StateOf(<<>>) = "accept"
<1>1. ValidSoFar(<<>>)
  BY DEF ValidSoFar
<1>2. StateOf(<<>>) = "accept"
  BY <1>1 DEF StateOf
<1>3. StateOf(s) \in {"accept", "mid", "reject"}
  BY DEF StateOf
<1>4. StateOf(s) = "reject" <=> ~ValidSoFar(s)
  BY DEF StateOf
<1>5. StateOf(s) = "accept" <=> Valid(s)
  BY DEF StateOf, Valid
<1> QED
  BY <1>2, <1>3, <1>4, <1>5

(* The bytes that may still be returned of a read that meets an invalid byte
   continue what was returned before by something that could become valid;
   there are none once the bytes before it are invalid. *)
LEMMA AcceptedBytes ==
  ASSUME NEW t \in Seq(Bytes), NEW s \in Seq(Bytes)
  PROVE  /\ SubSeq(s, 1, Accepted(StateOf(t), s)) \in Seq(Bytes)
         /\ ValidSoFar(t)
              => ValidSoFar(t \o SubSeq(s, 1, Accepted(StateOf(t), s)))
         /\ ~ValidSoFar(t) \/ s = <<>>
              => SubSeq(s, 1, Accepted(StateOf(t), s)) = <<>>
<1> DEFINE after == States(StateOf(t), s)
           ends == {i \in 1..Len(s) :
                      after[i] = "accept" /\ \A j \in 1..i : after[j] # "reject"}
           n == Accepted(StateOf(t), s)
<1>1. n = IF ends = {} THEN 0 ELSE CHOOSE i \in ends : \A j \in ends : j <= i
  BY DEF Accepted
<1>2. \A i \in 0..Len(s) : after[i] = StateOf(t \o SubSeq(s, 1, i))
  BY StatesOf
<1> HIDE DEF after, n
<1>3. SubSeq(s, 1, 0) = <<>> /\ t \o <<>> = t
  <2>1. SubSeq(s, 1, 0) = <<>>
    BY SubSeqEmpty
  <2>2. t \o <<>> = t
    OBVIOUS
  <2> QED
    BY <2>1, <2>2
<1>4. CASE ends = {}
  <2> HIDE DEF ends
  <2>1. n = 0
    BY <1>1, <1>4
  <2>2. SubSeq(s, 1, n) = <<>> /\ <<>> \in Seq(Bytes)
    BY <1>3, <2>1
  <2> QED
    BY <1>3, <2>2 DEF n
<1>5. CASE ends # {}
  <2>1. PICK x \in ends : \A y \in ends : y <= x
    <3>1. ends \in SUBSET (0..Len(s)) /\ Len(s) \in Nat
      OBVIOUS
    <3> HIDE DEF ends
    <3> QED
      BY <1>5, <3>1, Greatest
  <2>2. n \in ends
    BY <1>1, <1>5, <2>1
  <2>8. s # <<>>
    BY <2>2
  <2>3. n \in 1..Len(s) /\ after[n] = "accept" /\ after[1] # "reject"
    BY <2>2
  <2>4. /\ t \o SubSeq(s, 1, n) \in Seq(Bytes)
        /\ StateOf(t \o SubSeq(s, 1, n)) = "accept"
    BY <1>2, <2>3, Prefixes
  <2>5. ValidSoFar(t \o SubSeq(s, 1, n))
    BY <2>4, StateMeaning
  <2>6. ValidSoFar(t)
    <3>1. 1 \in 1..Len(s) /\ 1 \in 0..Len(s)
      BY <2>3
    <3>2. /\ s[1] \in Bytes
          /\ t \o SubSeq(s, 1, 1) = Append(t, s[1])
      <4>1. t \o SubSeq(s, 1, 1) = Append(t \o SubSeq(s, 1, 1 - 1), s[1])
            /\ s[1] \in Bytes
        BY <3>1, Prefixes
      <4>2. 1 - 1 = 0 /\ t \o SubSeq(s, 1, 0) = t
        BY Prefixes
      <4> QED
        BY <4>1, <4>2
    <3>3. StateOf(Append(t, s[1])) # "reject"
      BY <1>2, <2>3, <3>1, <3>2
    <3> QED
      BY <3>2, <3>3, ValidAppended, Appended, StateMeaning
  <2>7. SubSeq(s, 1, n) \in Seq(Bytes)
    <3>1. \A j \in 1..n : s[j] \in Bytes
      BY <2>3
    <3> QED
      BY <2>3, <3>1, SubSeqProperties
  <2> QED
    BY <2>5, <2>6, <2>7, <2>8 DEF n
<1> QED
  BY <1>4, <1>5

-----------------------------------------------------------------------------
(* What Read has returned of a message, and what is known of its bytes. *)
InMessage == pc \in {"message", "reading"}

(* No byte of the message will be returned any more. *)
Doomed ==
  \/ utf8 = "reject"
  \/ utf8 = "mid" /\ ~frag /\ rawN = 0 /\ frame = "utf8"

IsInvalid ==
  ~ValidSoFar(taken) \/ (~open /\ left = 0 /\ ~Valid(taken))

TextInv ==
  /\ checkUTF8 \in BOOLEAN
  /\ frame \in {"nil", "raw", "utf8"}
  /\ got \in Seq(Bytes)
  /\ InMessage =>
       /\ opCode = kind
       /\ frame = "utf8" => IsText
       /\ frame = "raw" => ~IsText
       /\ ~IsText => utf8 = "accept" /\ got = taken
       /\ IsText => utf8 = StateOf(taken) /\ (got = taken \/ Doomed)
  /\ IsText => ValidSoFar(got)
  /\ EndOfMessage => got = taken /\ (IsText => Valid(got))
  /\ ret = "ErrInvalidUTF8" =>
       pc \in {"message", "discarding", "advancing"} /\ IsText /\ IsInvalid

LEMMA TextInit == Init => TextInv
<1> SUFFICES ASSUME Init PROVE TextInv
  OBVIOUS
<1>1. got = <<>> /\ <<>> \in Seq(Bytes) /\ ValidSoFar(<<>>)
  BY DEF Init, ValidSoFar
<1> QED
  BY <1>1 DEF Init, TextInv, InMessage, EndOfMessage

LEMMA ValidPrefix ==
  ASSUME NEW t \in Seq(Bytes), NEW s \in Seq(Bytes), ValidSoFar(t \o s)
  PROVE  ValidSoFar(t)
<1> SUFFICES ASSUME NEW i \in 1..Len(t)
             PROVE  t[i] = "tail" <=> i > 1 /\ t[i - 1] = "lead"
  BY DEF ValidSoFar
<1>1. i \in 1..Len(t \o s) /\ (t \o s)[i] = t[i]
      /\ (i > 1 => (t \o s)[i - 1] = t[i - 1])
  OBVIOUS
<1>2. (t \o s)[i] = "tail" <=> i > 1 /\ (t \o s)[i - 1] = "lead"
  BY <1>1 DEF ValidSoFar
<1> QED
  BY <1>1, <1>2

(* NextFrame leaves the message and its reader alone, unless it returns a
   frame of data: then the reader is the one the message needs. *)
LEMMA NextFrameReader ==
  ASSUME NEW e \in Errors, NextFrame(e)
  PROVE  \/ /\ UNCHANGED <<frag, opCode, frame, utf8, taken, got, kind>>
            /\ e = "nil" => frag
         \/ /\ e = "nil" /\ utf8' = utf8
            /\ frag =>
                 /\ UNCHANGED <<opCode, taken, got, kind>>
                 /\ frame' = IF checkUTF8 /\ opCode = "text" THEN "utf8" ELSE "raw"
            /\ ~frag =>
                 /\ opCode' = kind' /\ taken' = <<>> /\ got' = <<>>
                 /\ frame' = IF checkUTF8 /\ kind' = "text" THEN "utf8" ELSE "raw"
<1>1. CASE NoHeader(e)
  BY <1>1 DEF NoHeader, reader, message
<1>2. CASE \E h \in Headers : RefuseHeader(h, e) \/ ExtensionFails(h, e)
                               \/ Intermediate(h, e)
  BY <1>2 DEF RefuseHeader, ExtensionFails, Intermediate, reader, message
<1>3. ASSUME NEW h \in Headers, DataFrame(h, e)
      PROVE  /\ e = "nil" /\ utf8' = utf8
             /\ frag =>
                  /\ UNCHANGED <<opCode, taken, got, kind>>
                  /\ frame' = IF checkUTF8 /\ opCode = "text" THEN "utf8" ELSE "raw"
             /\ ~frag =>
                  /\ opCode' = kind' /\ taken' = <<>> /\ got' = <<>>
                  /\ frame' = IF checkUTF8 /\ kind' = "text" THEN "utf8" ELSE "raw"
  <2>1. frag => h.op # "text"
    BY <1>3 DEF DataFrame, CheckHeader
  <2>2. /\ e = "nil" /\ utf8' = utf8 /\ frame' = ReaderOf(h)
        /\ frag => UNCHANGED <<opCode, taken, got, kind>>
        /\ ~frag => opCode' = h.op /\ kind' = h.op /\ taken' = <<>> /\ got' = <<>>
    BY <1>3 DEF DataFrame, message
  <2> QED
    BY <2>1, <2>2 DEF ReaderOf
<1> QED
  BY <1>1, <1>2, <1>3 DEF NextFrame

(* Where a step touches neither the message nor the reader. *)
LEMMA TextStays ==
  ASSUME TextInv, UNCHANGED <<checkUTF8, frame, taken, got, kind>>,
         ~InMessage', ~EndOfMessage', ret' # "ErrInvalidUTF8"
  PROVE  TextInv'
<1>1. IsText' = IsText /\ ValidSoFar(got)' = ValidSoFar(got)
  BY DEF IsText, ValidSoFar
<1> QED
  BY <1>1 DEF TextInv

LEMMA CallNextFrameText ==
  ASSUME Inv, TextInv, CallNextFrame
  PROVE  TextInv'
<1>1. PICK e \in Errors :
        /\ NextFrame(e) /\ ret' = e
        /\ pc' = IF e = "nil" THEN "message" ELSE "stopped"
  BY DEF CallNextFrame
<1>2. ~frag /\ utf8 = "accept" /\ checkUTF8' = checkUTF8
  BY DEF CallNextFrame, Inv, StartsClean
<1>3. ret' # "ErrInvalidUTF8" /\ ~EndOfMessage'
  BY <1>1 DEF Errors, EndOfMessage
<1>4. CASE e # "nil"
  <2>1. UNCHANGED <<frame, taken, got, kind>>
    BY <1>1, <1>4, NextFrameReader
  <2> QED
    BY <1>1, <1>2, <1>3, <1>4, <2>1, TextStays DEF InMessage
<1>5. CASE e = "nil"
  <2>1. /\ utf8' = "accept" /\ opCode' = kind' /\ taken' = <<>> /\ got' = <<>>
        /\ frame' = IF checkUTF8 /\ kind' = "text" THEN "utf8" ELSE "raw"
    BY <1>1, <1>2, <1>5, NextFrameReader
  <2>2. ValidSoFar(got') /\ StateOf(taken') = "accept" /\ got' \in Seq(Bytes)
    BY <2>1 DEF ValidSoFar, StateOf
  <2>3. IsText' <=> checkUTF8 /\ kind' = "text"
    BY <1>2 DEF IsText
  <2> QED
    BY <1>1, <1>2, <1>3, <1>5, <2>1, <2>2, <2>3 DEF TextInv, InMessage
<1> QED
  BY <1>4, <1>5

LEMMA ReadAdvanceText ==
  ASSUME Inv, TextInv, ReadAdvance
  PROVE  TextInv'
<1>1. PICK e \in Errors :
        /\ NextFrame(e) /\ ret' = e
        /\ pc' = IF e # "nil" THEN "stopped"
                 ELSE IF frame' = "nil" THEN "message" ELSE "reading"
  BY DEF ReadAdvance
<1>2. pc = "message" /\ frame = "nil" /\ frag /\ checkUTF8' = checkUTF8
  BY DEF ReadAdvance, Inv, DueHeader
<1>3. ret' # "ErrInvalidUTF8" /\ ~EndOfMessage'
  BY <1>1 DEF Errors, EndOfMessage
<1>4. UNCHANGED <<opCode, utf8, taken, got, kind>>
  BY <1>1, <1>2, NextFrameReader
<1>5. /\ opCode = kind /\ (~IsText => utf8 = "accept" /\ got = taken)
      /\ IsText => utf8 = StateOf(taken) /\ (got = taken \/ utf8 = "reject")
      /\ IsText => ValidSoFar(got)
      /\ got \in Seq(Bytes) /\ checkUTF8 \in BOOLEAN
  BY <1>2 DEF TextInv, InMessage, Doomed
<1>6. /\ IsText' = IsText /\ StateOf(taken)' = StateOf(taken)
      /\ ValidSoFar(got)' = ValidSoFar(got)
  BY <1>2, <1>4 DEF IsText, StateOf, ValidSoFar
<1>7. CASE frame' = frame
  <2>1. frame' = "nil"
    BY <1>2, <1>7
  <2> QED
    BY <1>1, <1>2, <1>3, <1>4, <1>5, <1>6, <2>1 DEF TextInv, InMessage, Doomed
<1>8. CASE frame' = IF checkUTF8 /\ opCode = "text" THEN "utf8" ELSE "raw"
  <2>1. /\ frame' \in {"raw", "utf8"}
        /\ frame' = "utf8" <=> IsText
    BY <1>5, <1>8 DEF IsText
  <2> QED
    BY <1>1, <1>2, <1>3, <1>4, <1>5, <1>6, <2>1 DEF TextInv, InMessage, Doomed
<1> QED
  BY <1>1, <1>2, <1>7, <1>8, NextFrameReader

LEMMA DiscardText ==
  ASSUME Inv, TextInv, DiscardAdvance \/ DiscardCopy
  PROVE  TextInv'
<1>1. CASE DiscardAdvance
  <2>1. PICK e \in Errors :
          /\ NextFrame(e) /\ ret' = e
          /\ pc' = IF e = "nil" THEN "discarding" ELSE "resetting"
    BY <1>1 DEF DiscardAdvance
  <2>2. frag /\ checkUTF8' = checkUTF8
    BY <1>1 DEF DiscardAdvance, Inv, DueHeader
  <2>3. UNCHANGED <<taken, got, kind>> /\ frame' \in {"nil", "raw", "utf8"}
    BY <2>1, <2>2, NextFrameReader DEF TextInv
  <2>4. /\ ret' # "ErrInvalidUTF8" /\ ~EndOfMessage' /\ ~InMessage'
    BY <2>1 DEF Errors, EndOfMessage, InMessage
  <2>5. IsText' = IsText /\ ValidSoFar(got)' = ValidSoFar(got)
    BY <2>2, <2>3 DEF IsText, ValidSoFar
  <2> QED
    BY <2>2, <2>3, <2>4, <2>5 DEF TextInv
<1>2. CASE DiscardCopy
  <2>1. /\ pc = "discarding" /\ rawN <= left /\ frag = open /\ open' = open
        /\ UNCHANGED <<checkUTF8, taken, got, kind>> /\ left \in Nat /\ rawN \in Nat
    BY <1>2 DEF DiscardCopy, Inv, Numbers, InStep, message
  <2>2. IsText' = IsText /\ ValidSoFar(got)' = ValidSoFar(got)
        /\ ValidSoFar(taken)' = ValidSoFar(taken) /\ Valid(taken)' = Valid(taken)
    BY <2>1 DEF IsText, ValidSoFar, Valid
  <2>3. CASE frag
    <3>1. pc' = "advancing" /\ ret' = ret /\ frame' = frame
      BY <1>2, <2>3 DEF DiscardCopy
    <3>2. left = 0 => left' = 0
      BY <1>2, <2>1 DEF DiscardCopy, Drain
    <3>3. IsInvalid => IsInvalid'
      BY <2>1, <2>2, <3>2 DEF IsInvalid
    <3> QED
      BY <2>1, <2>2, <3>1, <3>3 DEF TextInv, InMessage, EndOfMessage
  <2>4. CASE ~frag
    <3>1. pc' = "between" /\ ret' = "nil" /\ frame' = "nil"
      BY <1>2, <2>4 DEF DiscardCopy, Reset
    <3> QED
      BY <2>1, <2>2, <3>1 DEF TextInv, InMessage, EndOfMessage
  <2> QED
    BY <2>3, <2>4
<1> QED
  BY <1>1, <1>2

LEMMA OthersText ==
  ASSUME Inv, TextInv,
         \/ LeaveControl \/ ReadNothing \/ ReadBreaks \/ CallDiscard
         \/ DiscardBreaks \/ DiscardReset \/ Stopped \/ UNCHANGED vars
  PROVE  TextInv'
<1>1. CASE LeaveControl \/ ReadNothing \/ ReadBreaks \/ DiscardBreaks
  <2>1. UNCHANGED <<checkUTF8, frame, taken, got, kind>>
    BY <1>1 DEF LeaveControl, ReadNothing, ReadBreaks, DiscardBreaks, reader,
                message
  <2>2. /\ pc' \in {"between", "stopped", "resetting"}
        /\ ret' \in {"nil", "ErrNoFrameAdvance", "ErrUnexpectedEOF", "io"}
    BY <1>1 DEF LeaveControl, ReadNothing, ReadBreaks, DiscardBreaks
  <2> QED
    BY <2>1, <2>2, TextStays DEF InMessage, EndOfMessage
<1>2. CASE DiscardReset
  <2>1. /\ UNCHANGED <<checkUTF8, taken, got, kind>>
        /\ frame' = "nil" /\ ret' = ret /\ pc = "resetting" /\ pc' = "stopped"
    BY <1>2 DEF DiscardReset, Reset, message
  <2>2. IsText' = IsText /\ ValidSoFar(got)' = ValidSoFar(got)
    BY <2>1 DEF IsText, ValidSoFar
  <2> QED
    BY <2>1, <2>2 DEF TextInv, InMessage, EndOfMessage
<1>3. CASE CallDiscard
  <2>1. /\ UNCHANGED <<checkUTF8, frame, taken, got, kind, ret, open, left>>
        /\ pc = "message" /\ pc' = "discarding"
    BY <1>3 DEF CallDiscard, reader, wire, message
  <2>2. /\ IsText' = IsText /\ ValidSoFar(got)' = ValidSoFar(got)
        /\ IsInvalid' = IsInvalid
    BY <2>1 DEF IsText, ValidSoFar, IsInvalid, Valid
  <2> QED
    BY <2>1, <2>2 DEF TextInv, InMessage, EndOfMessage
<1>4. CASE Stopped \/ UNCHANGED vars
  <2>1. UNCHANGED <<checkUTF8, frag, opCode, frame, rawN, utf8>>
    BY <1>4 DEF Stopped, vars, reader
  <2>2. UNCHANGED <<open, left, taken, got, kind, pc, ret>>
    BY <1>4 DEF Stopped, vars, wire, message
  <2> QED
    BY <2>1, <2>2 DEF TextInv, InMessage, EndOfMessage, IsText, IsInvalid,
                      Doomed, StateOf, Valid, ValidSoFar
<1> QED
  BY <1>1, <1>2, <1>3, <1>4

(* A read from a frame that is not checked: all bytes are returned. *)
LEMMA ReadBytesRaw ==
  ASSUME Inv, TextInv, ReadGoesOn, ~IsText,
         NEW s \in Seq(Bytes), taken' = taken \o s,
         UNCHANGED <<checkUTF8, kind>>,
         ReadRejects(s) \/ ReadSome(s) \/ ReadLast(s)
  PROVE  TextInv'
<1>1. /\ frame = "raw" /\ utf8 = "accept" /\ got = taken /\ opCode = kind
      /\ got \in Seq(Bytes) /\ checkUTF8 \in BOOLEAN
  BY DEF TextInv, InMessage, ReadGoesOn, Inv
<1>2. ~IsText' /\ taken' \in Seq(Bytes)
  BY <1>1, Concatenated DEF IsText
<1>3. ~Rejects(s) /\ StateAfter(s) = "accept"
  BY <1>1 DEF Rejects, StateAfter
<1>4. /\ got' = got \o s /\ utf8' = "accept"
      /\ \/ frame' = "raw" /\ opCode' = opCode /\ pc' = "message" /\ ret' = "nil"
         \/ frame' = "nil" /\ opCode' = opCode /\ pc' = "message" /\ ret' = "nil"
         \/ frame' = "nil" /\ pc' = "between" /\ ret' = "EOF"
  <2>1. CASE ReadSome(s)
    BY <1>1, <1>3, <2>1 DEF ReadSome
  <2>2. CASE ReadLast(s)
    BY <1>3, <2>2 DEF ReadLast, FrameEnds, Reset, ResetFragment
  <2> QED
    BY <1>3, <2>1, <2>2 DEF ReadRejects
<1>5. got' = taken'
  BY <1>1, <1>4
<1> QED
  BY <1>1, <1>2, <1>4, <1>5 DEF TextInv, InMessage, EndOfMessage

(* A read from a frame of a text. *)
LEMMA ReadBytesText ==
  ASSUME Inv, TextInv, ReadGoesOn, IsText,
         NEW s \in Seq(Bytes), taken' = taken \o s, Len(s) <= rawN,
         left' = left - Len(s),
         UNCHANGED <<checkUTF8, kind, frag, open>>,
         ReadRejects(s) \/ ReadSome(s) \/ ReadLast(s)
  PROVE  TextInv'
<1> DEFINE u == StateAfter(s)
           p == SubSeq(s, 1, Accepted(utf8, s))
<1>1. /\ InFrame /\ frame = "utf8" /\ utf8 = StateOf(taken) /\ opCode = kind
      /\ got = taken \/ Doomed
      /\ ValidSoFar(got) /\ got \in Seq(Bytes) /\ taken \in Seq(Bytes)
      /\ checkUTF8 \in BOOLEAN
      /\ rawN = left /\ left \in Nat /\ frag = open
  <2>1. InMessage /\ frame # "nil" /\ InFrame
    BY DEF InMessage, ReadGoesOn, Inv, InFrame
  <2> QED
    BY <2>1 DEF TextInv, Inv, Numbers, InStep, InFrame
<1>2. IsText' /\ checkUTF8' /\ Len(s) \in Nat
  BY DEF IsText
<1>3. taken' \in Seq(Bytes) /\ got \o s \in Seq(Bytes)
  BY <1>1, Concatenated
<1>4. u = StateOf(taken')
  <2>1. u = States(StateOf(taken), s)[Len(s)]
    BY <1>1 DEF StateAfter
  <2>2. Len(s) \in 0..Len(s)
    BY <1>2
  <2>3. u = StateOf(taken \o SubSeq(s, 1, Len(s)))
    BY <1>1, <2>1, <2>2, StatesOf
  <2> QED
    BY <1>1, <2>3, Prefixes
<1>5. /\ u \in {"accept", "mid", "reject"}
      /\ u = "reject" <=> ~ValidSoFar(taken')
      /\ u = "accept" <=> Valid(taken')
  BY <1>3, <1>4, StateMeaning
<1>6. s = <<>> => taken' = taken /\ got \o s = got /\ Len(s) = 0 /\ u = utf8
  <2>1. taken \o <<>> = taken /\ got \o <<>> = got
    BY <1>1
  <2> QED
    BY <1>1, <1>4, <2>1
(* Once a byte will not be returned, no further one is read as good. *)
<1>7. got = taken \/ s = <<>> \/ Rejects(s)
  <2>1. CASE utf8 = "reject"
    <3>1. ~ValidSoFar(taken)
      BY <1>1, <2>1, StateMeaning
    <3>2. u = "reject"
      BY <1>1, <1>5, <3>1, ValidPrefix
    <3> QED
      BY <1>1, <3>2 DEF Rejects
  <2>2. CASE rawN = 0
    <3>1. Len(s) = 0
      BY <1>2, <2>2
    <3> QED
      BY <3>1
  <2> QED
    BY <1>1, <2>1, <2>2 DEF Doomed
<1>8. got \o p \in Seq(Bytes) /\ ValidSoFar(got \o p)
  <2>1. /\ p \in Seq(Bytes)
        /\ ValidSoFar(taken) => ValidSoFar(taken \o p)
        /\ ~ValidSoFar(taken) \/ s = <<>> => p = <<>>
    BY <1>1, AcceptedBytes
  <2>2. got \o p \in Seq(Bytes)
    BY <1>1, <2>1, Concatenated
  <2>3. p = <<>> => got \o p = got
    <3>1. got \o <<>> = got
      BY <1>1
    <3> QED
      BY <3>1
  <2>4. CASE got = taken
    BY <1>1, <2>1, <2>2, <2>4
  <2>5. CASE got # taken
    <3>1. p = <<>>
      <4>1. CASE utf8 = "reject"
        BY <1>1, <2>1, <4>1, StateMeaning
      <4>2. CASE rawN = 0
        <5>1. Len(s) = 0
          BY <1>2, <4>2
        <5> QED
          BY <2>1, <5>1
      <4> QED
        BY <1>1, <2>5, <4>1, <4>2 DEF Doomed
    <3> QED
      BY <1>1, <2>2, <2>3, <3>1
  <2> QED
    BY <2>4, <2>5
<1> HIDE DEF u, p
<1>9. ~Rejects(s) => s = <<>> \/ u # "reject"
  BY <1>1 DEF Rejects, u
(* What is returned of a read that met no invalid byte. *)
<1>10. ~Rejects(s) => ValidSoFar(got \o s) /\ (got \o s = taken' \/ s = <<>>)
  BY <1>1, <1>5, <1>6, <1>7, <1>9
<1>11. CASE ReadRejects(s)
  <2>1. /\ u = "reject" /\ utf8' = "reject" /\ got' = got \o p
        /\ ret' = "ErrInvalidUTF8" /\ pc' = "message"
        /\ frame' = frame /\ opCode' = opCode
    BY <1>11 DEF ReadRejects, Rejects, u, p
  <2>2. IsInvalid'
    BY <1>5, <2>1 DEF IsInvalid, ValidSoFar
  <2> QED
    BY <1>1, <1>2, <1>3, <1>4, <1>8, <2>1, <2>2
       DEF TextInv, InMessage, EndOfMessage, Doomed, ValidSoFar, StateOf
<1>12. CASE ReadSome(s)
  <2>1. /\ ~Rejects(s) /\ Len(s) < rawN /\ utf8' = u /\ got' = got \o s
        /\ ret' = "nil" /\ pc' = "message"
        /\ frame' = frame /\ opCode' = opCode
    BY <1>12 DEF ReadSome, u
  <2>2. got' = taken' \/ utf8' = "reject"
    <3>1. CASE got = taken
      BY <2>1, <3>1
    <3>2. CASE got # taken
      <4>1. s = <<>> /\ Doomed
        BY <1>1, <1>7, <2>1, <3>2
      <4>2. rawN # 0
        BY <1>1, <1>2, <2>1
      <4> QED
        BY <1>6, <2>1, <4>1, <4>2 DEF Doomed
    <3> QED
      BY <3>1, <3>2
  <2> QED
    BY <1>1, <1>2, <1>3, <1>4, <1>10, <2>1, <2>2
       DEF TextInv, InMessage, EndOfMessage, Doomed, ValidSoFar, StateOf
<1>13. CASE ReadLast(s)
  <2>1. ~Rejects(s) /\ Len(s) = rawN /\ FrameEnds(s, u)
    BY <1>13 DEF ReadLast, u
  <2>2. CASE frag
    <3>1. /\ utf8' = u /\ got' = got \o s /\ ret' = "nil" /\ pc' = "message"
          /\ frame' = "nil" /\ opCode' = opCode
      BY <2>1, <2>2 DEF FrameEnds, ResetFragment
    <3>2. got' = taken' \/ utf8' = "reject"
      <4>1. CASE got = taken
        BY <3>1, <4>1
      <4>2. CASE got # taken
        <5>1. s = <<>> /\ Doomed
          BY <1>1, <1>7, <2>1, <4>2
        <5> QED
          BY <1>6, <2>2, <3>1, <5>1 DEF Doomed
      <4> QED
        BY <4>1, <4>2
    <3> QED
      BY <1>1, <1>2, <1>3, <1>4, <1>10, <2>1, <3>1, <3>2
         DEF TextInv, InMessage, EndOfMessage, Doomed, ValidSoFar, StateOf
  <2>3. CASE ~frag /\ u # "accept"
    <3>1. /\ utf8' = u /\ got' = got \o p /\ ret' = "ErrInvalidUTF8"
          /\ pc' = "message" /\ frame' = "utf8" /\ opCode' = opCode
          /\ rawN' = 0
      BY <1>1, <1>2, <2>1, <2>3 DEF FrameEnds, Reset, p
    <3>2. Doomed'
      BY <1>5, <2>3, <3>1 DEF Doomed
    <3>3. ~open' /\ left' = 0 /\ ~Valid(taken')
      BY <1>1, <1>2, <1>5, <2>1, <2>3
    <3>4. IsInvalid'
      BY <3>3 DEF IsInvalid, Valid, ValidSoFar
    <3> QED
      BY <1>1, <1>2, <1>3, <1>4, <1>8, <3>1, <3>2, <3>4
         DEF TextInv, InMessage, EndOfMessage, ValidSoFar, StateOf
  <2>4. CASE ~frag /\ u = "accept"
    <3>1. /\ got' = got \o s /\ ret' = "EOF" /\ pc' = "between" /\ frame' = "nil"
      BY <1>1, <1>2, <2>1, <2>4 DEF FrameEnds, Reset
    <3>2. got = taken
      BY <1>1, <1>6, <1>7, <2>1, <2>4 DEF Doomed
    <3>3. got' = taken'
      BY <3>1, <3>2
    <3>4. Valid(got') /\ ValidSoFar(got')
      BY <1>5, <2>4, <3>3 DEF Valid
    <3> QED
      BY <1>1, <1>2, <1>3, <3>1, <3>3, <3>4
         DEF TextInv, InMessage, EndOfMessage, Valid, ValidSoFar
  <2> QED
    BY <2>2, <2>3, <2>4
<1> QED
  BY <1>11, <1>12, <1>13

LEMMA ReadBytesKeepsText ==
  ASSUME Inv, TextInv, ReadBytes
  PROVE  TextInv'
<1>1. PICK k \in (IF rawN = 0 THEN {0} ELSE 1..rawN) : \E s \in [1..k -> Bytes] :
        /\ left' = left - k
        /\ taken' = taken \o s
        /\ ReadRejects(s) \/ ReadSome(s) \/ ReadLast(s)
  BY DEF ReadBytes
<1>2. PICK s \in [1..k -> Bytes] :
        /\ left' = left - k
        /\ taken' = taken \o s
        /\ ReadRejects(s) \/ ReadSome(s) \/ ReadLast(s)
  BY <1>1
<1>3. k \in Nat /\ k <= rawN /\ s \in Seq(Bytes) /\ Len(s) = k
  BY <1>2 DEF Inv, Numbers
<1>4. ReadGoesOn /\ UNCHANGED <<checkUTF8, kind, frag, open>>
  BY DEF ReadBytes
<1> QED
  BY <1>2, <1>3, <1>4, ReadBytesRaw, ReadBytesText

(* The inductive invariant: the reader agrees with the wire about where it is,
   and its UTF-8 state is that of the bytes of the message taken so far. *)
LEMMA TextStep ==
  ASSUME SkipsControl = FALSE
  PROVE  Spec => [](Inv /\ TextInv)
<1>1. Inv /\ TextInv /\ [Next]_vars => Inv' /\ TextInv'
  <2>1. Inv /\ [Next]_vars => Inv'
    BY CallNextFrameKeeps, ReadAdvanceKeeps, DiscardAdvanceKeeps,
       ReadBytesKeeps, DiscardCopyKeeps, OthersKeep DEF Next
  <2>2. Inv /\ TextInv /\ [Next]_vars => TextInv'
    BY CallNextFrameText, ReadAdvanceText, DiscardText, ReadBytesKeepsText,
       OthersText DEF Next
  <2> QED
    BY <2>1, <2>2
<1> QED
  BY ReaderInit, TextInit, <1>1, PTL DEF Spec

-----------------------------------------------------------------------------
(* The variables that the invariants above say nothing of. *)
Opcodes == {"none", "text", "binary", "control"}

TypeRest ==
  /\ frag \in BOOLEAN /\ open \in BOOLEAN /\ ended \in BOOLEAN
  /\ opCode \in Opcodes /\ kind \in Opcodes
  /\ utf8 \in {"accept", "mid", "reject"}
  /\ frames \in 0..MaxFrames
  /\ pc \in {"between", "message", "reading", "discarding", "advancing",
             "resetting", "stopped"}
  /\ ret \in Errors \cup {"ErrNoFrameAdvance", "ErrInvalidUTF8"}

LEMMA NextFrameTypes ==
  ASSUME TypeRest, NEW e \in Errors, NextFrame(e)
  PROVE  /\ frag' \in BOOLEAN /\ open' \in BOOLEAN /\ ended' \in BOOLEAN
         /\ opCode' \in Opcodes /\ kind' \in Opcodes
         /\ utf8' \in {"accept", "mid", "reject"}
         /\ frames' \in 0..MaxFrames
<1>1. CASE NoHeader(e)
  BY <1>1 DEF NoHeader, TypeRest, reader, message
<1>2. ASSUME NEW h \in Headers, HeaderRead(h)
      PROVE  frames' \in 0..MaxFrames /\ open' \in BOOLEAN
  <2>1. h.fin \in BOOLEAN
    BY DEF Headers
  <2>2. open' \in BOOLEAN
    BY <1>2, <2>1 DEF HeaderRead, TypeRest
  <2>3. frames' \in 0..MaxFrames
    BY <1>2, ReaderConstants DEF HeaderRead, TypeRest
  <2> QED
    BY <2>2, <2>3
<1>3. ASSUME NEW h \in Headers,
             RefuseHeader(h, e) \/ ExtensionFails(h, e) \/ Intermediate(h, e)
      PROVE  /\ HeaderRead(h) /\ ended' \in BOOLEAN
             /\ UNCHANGED <<frag, opCode, kind, utf8>>
  BY <1>3 DEF RefuseHeader, ExtensionFails, Intermediate, TypeRest, reader,
              message
<1>4. ASSUME NEW h \in Headers, DataFrame(h, e)
      PROVE  /\ HeaderRead(h) /\ ended' = ended /\ utf8' = utf8
             /\ frag' \in BOOLEAN /\ opCode' \in Opcodes /\ kind' \in Opcodes
  <2>1. /\ h.fin \in BOOLEAN
        /\ h.op \in {"text", "binary", "continuation", "control"}
    BY DEF Headers
  <2>2. frag' \in BOOLEAN
    BY <1>4, <2>1 DEF DataFrame, NowFragmented
  <2>3. opCode' \in Opcodes /\ kind' \in Opcodes
    BY <1>4, <2>1 DEF DataFrame, CheckHeader, TypeRest, Opcodes, message
  <2> QED
    BY <1>4, <2>2, <2>3 DEF DataFrame
<1> QED
  BY <1>1, <1>2, <1>3, <1>4 DEF NextFrame, TypeRest

LEMMA StateAfterType ==
  ASSUME Inv, TextInv, TypeRest, ReadGoesOn, NEW s \in Seq(Bytes)
  PROVE  StateAfter(s) \in {"accept", "mid", "reject"}
<1>1. CASE frame = "utf8"
  <2>1. utf8 = StateOf(taken) /\ taken \in Seq(Bytes)
    BY <1>1 DEF TextInv, InMessage, ReadGoesOn, Inv, Numbers
  <2>2. Len(s) \in 0..Len(s)
    OBVIOUS
  <2>3. /\ StateAfter(s) = StateOf(taken \o SubSeq(s, 1, Len(s)))
        /\ taken \o SubSeq(s, 1, Len(s)) \in Seq(Bytes)
    BY <1>1, <2>1, <2>2, StatesOf, Prefixes DEF StateAfter
  <2> QED
    BY <2>3, StateMeaning
<1> QED
  BY <1>1 DEF StateAfter, TypeRest

LEMMA TypeRestKept ==
  ASSUME Inv, TextInv, TypeRest, [Next]_vars
  PROVE  TypeRest'
<1>1. CASE CallNextFrame \/ ReadAdvance \/ DiscardAdvance
  <2>1. PICK e \in Errors : NextFrame(e) /\ ret' = e
    BY <1>1 DEF CallNextFrame, ReadAdvance, DiscardAdvance
  <2>2. pc' \in {"message", "stopped", "reading", "discarding", "resetting"}
    BY <1>1 DEF CallNextFrame, ReadAdvance, DiscardAdvance
  <2>3. ret' \in Errors
    BY <2>1
  <2> QED
    BY <2>1, <2>2, <2>3, NextFrameTypes DEF TypeRest
<1>2. CASE ReadBytes
  <2>1. PICK k \in (IF rawN = 0 THEN {0} ELSE 1..rawN) : \E s \in [1..k -> Bytes] :
          ReadRejects(s) \/ ReadSome(s) \/ ReadLast(s)
    BY <1>2 DEF ReadBytes
  <2>2. PICK s \in [1..k -> Bytes] : ReadRejects(s) \/ ReadSome(s) \/ ReadLast(s)
    BY <2>1
  <2>3. s \in Seq(Bytes)
    BY <2>2 DEF Inv, Numbers
  <2>4. StateAfter(s) \in {"accept", "mid", "reject"}
    BY <1>2, <2>3, StateAfterType DEF ReadBytes
  <2>5. /\ utf8' \in {"accept", "reject", StateAfter(s)}
        /\ opCode' \in {"none", opCode} /\ pc' \in {"message", "between"}
        /\ ret' \in {"nil", "EOF", "ErrInvalidUTF8"}
    BY <2>2 DEF ReadRejects, ReadSome, ReadLast, FrameEnds, Reset, ResetFragment
  <2>6. UNCHANGED <<frag, open, ended, frames, kind>>
    BY <1>2 DEF ReadBytes
  <2> QED
    BY <2>4, <2>5, <2>6 DEF TypeRest, Opcodes, Errors
<1>3. CASE LeaveControl \/ ReadNothing \/ ReadBreaks \/ CallDiscard \/ DiscardBreaks
  <2>1. /\ UNCHANGED <<frag, opCode, utf8, open, frames, kind>>
        /\ ended' \in {ended, TRUE}
    BY <1>3 DEF LeaveControl, ReadNothing, ReadBreaks, CallDiscard,
                DiscardBreaks, reader, wire, message
  <2>2. /\ pc' \in {pc, "between", "stopped", "discarding", "resetting"}
        /\ ret' \in {ret, "ErrNoFrameAdvance", "ErrUnexpectedEOF", "io"}
    BY <1>3 DEF LeaveControl, ReadNothing, ReadBreaks, CallDiscard,
                DiscardBreaks
  <2>3. /\ pc' \in {"between", "message", "reading", "discarding", "advancing",
                    "resetting", "stopped"}
        /\ ret' \in Errors \cup {"ErrNoFrameAdvance", "ErrInvalidUTF8"}
    BY <2>2 DEF TypeRest, Errors
  <2>4. ended' \in BOOLEAN
    BY <2>1 DEF TypeRest
  <2> QED
    BY <2>1, <2>3, <2>4, Zenon DEF TypeRest
<1>4. CASE DiscardCopy \/ DiscardReset
  <2>1. /\ UNCHANGED <<frag, open, frames, kind>>
        /\ ended' \in {ended, TRUE}
    BY <1>4 DEF DiscardCopy, DiscardReset, Drain, wire, message
  <2>2. /\ opCode' \in {opCode, "none"} /\ utf8' \in {utf8, "accept"}
        /\ pc' \in {"advancing", "between", "stopped"} /\ ret' \in {ret, "nil"}
    BY <1>4 DEF DiscardCopy, DiscardReset, Reset
  <2>3. frag' \in BOOLEAN /\ open' \in BOOLEAN /\ ended' \in BOOLEAN
    BY <2>1 DEF TypeRest
  <2>4. frames' \in 0..MaxFrames /\ kind' \in Opcodes /\ opCode' \in Opcodes
    BY <2>1, <2>2 DEF TypeRest, Opcodes
  <2>5. ret' \in Errors \cup {"ErrNoFrameAdvance", "ErrInvalidUTF8"}
    BY <2>2 DEF TypeRest, Errors
  <2>6. utf8' \in {"accept", "mid", "reject"}
    BY <2>2 DEF TypeRest
  <2> QED
    BY <2>2, <2>3, <2>4, <2>5, <2>6 DEF TypeRest
<1>5. CASE Stopped \/ UNCHANGED vars
  BY <1>5 DEF Stopped, vars, TypeRest, reader, wire, message
<1> QED
  BY <1>1, <1>2, <1>3, <1>4, <1>5 DEF Next

(* Every variable stays in its type. *)
THEOREM ReaderTypes ==
  ASSUME SkipsControl = FALSE
  PROVE  Spec => []TypeOK
<1>1. Init => TypeRest
  <2> SUFFICES ASSUME Init PROVE TypeRest
    OBVIOUS
  <2>1. 0 \in 0..MaxFrames
    BY ReaderConstants
  <2>2. frames \in 0..MaxFrames
    BY <2>1 DEF Init
  <2> QED
    BY <2>2 DEF Init, TypeRest, Opcodes, Errors
<1>2. Spec => []TypeRest
  <2>1. TypeRest /\ Inv /\ TextInv /\ [Next]_vars => TypeRest'
    BY TypeRestKept
  <2> QED
    BY <1>1, <2>1, TextStep, PTL DEF Spec
<1>3. Inv /\ TextInv /\ TypeRest => TypeOK
  <2> SUFFICES ASSUME Inv, TextInv, TypeRest PROVE TypeOK
    OBVIOUS
  <2>1. /\ checkUTF8 \in BOOLEAN /\ frame \in {"nil", "raw", "utf8"}
        /\ got \in Seq(Bytes)
    BY DEF TextInv
  <2>2. rawN \in Nat /\ left \in Nat /\ sent \in Nat /\ taken \in Seq(Bytes)
    BY DEF Inv, Numbers
  <2> QED
    BY <2>1, <2>2 DEF TypeRest, TypeOK, Opcodes
<1> QED
  BY <1>2, <1>3, TextStep, PTL

-----------------------------------------------------------------------------
(* However the sequences of a text are cut by frames and by reads, what Read
   has returned of it could become valid UTF-8, and a text is never read to
   its end without an error unless it is valid. *)
THEOREM ReaderReturnsOnlyValidText ==
  ASSUME SkipsControl = FALSE
  PROVE  Spec => []OnlyValidText
<1>1. TextInv => OnlyValidText
  BY DEF TextInv, OnlyValidText
<1> QED
  BY <1>1, TextStep, PTL

(* Of every message that is read to its end all bytes were returned: what a
   check held back as the start of a sequence is not forgotten. *)
THEOREM ReaderHoldsNothingBack ==
  ASSUME SkipsControl = FALSE
  PROVE  Spec => []NothingHeldBack
<1>1. TextInv => NothingHeldBack
  BY DEF TextInv, NothingHeldBack
<1> QED
  BY <1>1, TextStep, PTL

(* ErrInvalidUTF8 is only returned for a text whose bytes so far cannot
   become valid, or that ended inside a sequence. *)
THEOREM ReaderRejectsOnlyInvalid ==
  ASSUME SkipsControl = FALSE
  PROVE  Spec => []InvalidIsInvalid
<1>1. TextInv => InvalidIsInvalid
  BY DEF TextInv, InvalidIsInvalid, IsInvalid
<1> QED
  BY <1>1, TextStep, PTL

(* io.EOF is returned only when every byte of every frame of the message has
   been taken from the source, and the last frame was the message's last. *)
THEOREM ReaderEOFIsComplete ==
  ASSUME SkipsControl = FALSE
  PROVE  Spec => []EOFComplete
  BY ReaderKeepsStep, PTL

(* The reader a message starts with bears no trace of the message before,
   however that one was read, discarded or found invalid. *)
THEOREM ReaderStartsClean ==
  ASSUME SkipsControl = FALSE
  PROVE  Spec => []StartsClean
  BY ReaderKeepsStep, PTL
=============================================================================
