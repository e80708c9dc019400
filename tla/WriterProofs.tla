----------------------------- MODULE WriterProofs -----------------------------
(***************************************************************************)
(* Theorems about Writer, for buffers, headers and messages of any size.   *)
(***************************************************************************)
EXTENDS Writer, SequenceTheorems, TLAPS

(***************************************************************************)
(* The header of any payload the buffer can hold fits in the bytes that    *)
(* reserve keeps for it (write.go and writer.go compute the two sizes from *)
(* different quantities: the payload's length and the raw buffer's).       *)
(***************************************************************************)
LEMMA HeaderFits ==
  ASSUME NEW c \in BOOLEAN, NEW size \in Nat, NEW n \in Nat,
         n <= size - Reserve(c, size)
  PROVE  HeaderSize(c, n) <= Reserve(c, size)
BY HeaderLengths, SMT DEF HeaderSize, Reserve, MaskSize

(***************************************************************************)
(* A buffer made by NewWriterSize for n bytes holds n bytes, neither less  *)
(* nor more: the header bytes it adds for n are those reserve takes away.  *)
(***************************************************************************)
THEOREM NewWriterSizeExact ==
  ASSUME NEW c \in BOOLEAN, NEW n \in Nat
  PROVE  SizeFor(c, n) - Reserve(c, SizeFor(c, n)) = n
BY HeaderLengths, SMT DEF SizeFor, HeaderSize, Reserve, MaskSize

LEMMA ReserveNat ==
  ASSUME NEW c \in BOOLEAN, NEW size \in Nat
  PROVE  Reserve(c, size) \in Nat
BY HeaderLengths, SMT DEF Reserve, MaskSize

-----------------------------------------------------------------------------
(* The inductive invariant. *)

(* While no error is kept, fseq tells whether a message is open on the wire,
   and every frame there is whole; cuts are lengths the wire has had. *)
Link ==
  /\ err = "nil" => (fseq > 0 <=> MessageOpen)
  /\ err = "nil" => \A i \in 1..Len(wire) : wire[i].whole
  /\ \A c \in cuts : c <= Len(wire)

WriterInv == TypeOK /\ HeaderRoom /\ Protocol /\ TornFrameLast /\ Link

(* Every way of growing the buffer keeps the room for the header, and leaves
   room for what was asked. *)
LEMMA GrowKeepsRoom ==
  ASSUME TypeOK, HeaderRoom, NEW n \in Nat, GrowBy(n), UNCHANGED <<client, buf>>
  PROVE  /\ raw' \in Nat
         /\ HeaderRoom'
         /\ raw' - Reserve(client, raw') - Len(buf) >= n
<1>1. client \in BOOLEAN /\ raw \in Nat /\ Len(buf) \in Nat
  BY WriterConstants DEF TypeOK
<1>2. raw' \in Nat
  BY <1>1, Powers DEF GrowBy
<1>3. raw' - Reserve(client, raw') - Len(buf) >= n
  BY DEF GrowBy, Fits, Buffered
<1>4. Reserve(client, raw) \in Nat /\ Reserve(client, raw') \in Nat
  BY <1>1, <1>2, ReserveNat
<1>5. raw' - Reserve(client, raw') > 0
  <2>1. CASE Fits(raw, n)
    <3>1. raw' = raw
      BY <2>1 DEF GrowBy, GrownSize, Refit
    <3>2. QED
      BY <3>1 DEF HeaderRoom, Size
  <2>2. CASE ~Fits(raw, n)
    <3>1. n > 0
      BY <2>2, <1>1, <1>4 DEF Fits, HeaderRoom, Size, Buffered
    <3>2. QED
      BY <3>1, <1>3, <1>1, <1>2, <1>4
  <2>3. QED
    BY <2>1, <2>2
<1>6. HeaderSize(client, raw' - Reserve(client, raw')) <= Reserve(client, raw')
  BY <1>1, <1>2, <1>4, <1>5, HeaderFits
<1>7. HeaderRoom'
  BY <1>1, <1>2, <1>3, <1>4, <1>5, <1>6 DEF HeaderRoom, Size, Buffered
<1>8. QED
  BY <1>2, <1>3, <1>7

(* A frame sent while no error is kept is whole and follows the protocol, or
   is the last on the wire. *)
LEMMA TransmitKeeps ==
  ASSUME WriterInv, err = "nil",
         NEW fin \in BOOLEAN, NEW data \in Seq(Nat), NEW e \in Outcomes,
         Transmit(fin, data, e), err' = e, UNCHANGED cuts,
         fseq' \in Nat, e = "nil" => (fseq' > 0 <=> ~fin)
  PROVE  wire' \in Seq(Frames) /\ Protocol' /\ TornFrameLast' /\ Link'
<1> DEFINE frame(whole) ==
      [op |-> OpCode, fin |-> fin, data |-> data, whole |-> whole]
<1>1. e \in {"nil", "io", "ext"}
  BY DEF Outcomes
<1>2. \A w \in BOOLEAN : frame(w) \in Frames
  BY DEF WriterInv, TypeOK, Frames, OpCode
<1>3. wire \in Seq(Frames) /\ fseq \in Nat /\ cuts \subseteq Nat
  BY DEF WriterInv, TypeOK
<1>4. OpCode = OpContinuation <=> MessageOpen
  BY WriterConstants DEF WriterInv, TypeOK, Link, OpCode
<1>5. CASE wire' = wire /\ e # "nil"
  <2>1. wire' \in Seq(Frames)
    BY <1>3, <1>5
  <2>2. Protocol' /\ TornFrameLast' /\ Link'
    BY <1>5 DEF WriterInv, Protocol, TornFrameLast, Link
  <2>3. QED
    BY <2>1, <2>2
<1>6. ASSUME NEW w \in BOOLEAN, wire' = Append(wire, frame(w)),
             w <=> e = "nil"
      PROVE  wire' \in Seq(Frames) /\ Protocol' /\ TornFrameLast' /\ Link'
  <2>1. wire' \in Seq(Frames) /\ Len(wire') = Len(wire) + 1
    BY <1>2, <1>3, <1>6
  <2>2. \A i \in 1..Len(wire) : wire'[i] = wire[i]
    BY <1>2, <1>3, <1>6
  <2>3. wire'[Len(wire')] = frame(w)
    BY <1>2, <1>3, <1>6
  <2>4. Protocol'
    <3>1. \A i \in 1..Len(wire) : i - 1 \in 1..Len(wire) \/ i = 1
      BY <1>3
    <3>2. \A i \in 1..Len(wire) :
            wire'[i].op = OpContinuation <=>
              i > 1 /\ ~wire'[i - 1].fin /\ i - 1 \notin cuts'
      <4>1. \A i \in 1..Len(wire) :
              wire[i].op = OpContinuation <=>
                i > 1 /\ ~wire[i - 1].fin /\ i - 1 \notin cuts
        BY Zenon DEF WriterInv, Protocol
      <4>2. ASSUME NEW i \in 1..Len(wire), i > 1 PROVE wire'[i - 1].fin = wire[i - 1].fin
        <5>1. i - 1 \in 1..Len(wire)
          BY <3>1, <4>2
        <5>2. QED
          BY <2>2, <5>1, Zenon
      <4>3. cuts' = cuts
        OBVIOUS
      <4>4. QED
        BY <2>2, <4>1, <4>2, <4>3, Zenon
    <3>3. wire'[Len(wire')].op = OpContinuation <=> MessageOpen
      BY <2>3, <1>4
    <3>4. MessageOpen <=> /\ Len(wire') > 1
                          /\ ~wire'[Len(wire') - 1].fin
                          /\ Len(wire') - 1 \notin cuts'
      <4>1. wire # <<>> <=> Len(wire) >= 1
        BY <1>3
      <4>2. wire # <<>> => wire'[Len(wire)] = wire[Len(wire)]
        BY <1>3, <4>1, <2>2
      <4>3. Len(wire') - 1 = Len(wire) /\ (Len(wire') > 1 <=> wire # <<>>)
        BY <1>3, <2>1, <4>1
      <4>4. QED
        BY <4>2, <4>3 DEF MessageOpen
    <3>5. \A i \in 1..Len(wire') : i \in 1..Len(wire) \/ i = Len(wire')
      BY <1>3, <2>1
    <3>6. QED
      BY <3>2, <3>3, <3>4, <3>5, <1>3, <2>1 DEF Protocol
  <2>5. TornFrameLast'
    BY <1>3, <1>6, <2>1, <2>2, <2>3 DEF WriterInv, TornFrameLast, Link
  <2>6. Link'
    <3>1. \A c \in cuts' : c <= Len(wire) /\ c # Len(wire')
      BY <1>3, <2>1 DEF WriterInv, Link
    <3>2. MessageOpen' <=> ~fin
      BY <1>3, <2>1, <2>3, <3>1 DEF MessageOpen
    <3>3. err' = "nil" => \A i \in 1..Len(wire') : wire'[i].whole
      BY <1>3, <1>6, <2>1, <2>2, <2>3 DEF WriterInv, Link
    <3>4. QED
      BY <1>3, <2>1, <3>1, <3>2, <3>3 DEF Link
  <2>7. QED
    BY <2>1, <2>4, <2>5, <2>6
<1>7. CASE e = "nil"
  <2>1. wire' = Append(wire, frame(TRUE))
    BY <1>7 DEF Transmit
  <2>2. QED
    BY <1>6, <1>7, <2>1, Zenon
<1>8. CASE e # "nil"
  <2>1. wire' = wire \/ wire' = Append(wire, frame(FALSE))
    BY <1>1, <1>8 DEF Transmit
  <2>2. CASE wire' = wire
    BY <1>5, <1>8, <2>2
  <2>3. CASE wire' = Append(wire, frame(FALSE))
    BY <1>6, <1>8, <2>3, Zenon
  <2>4. QED
    BY <2>1, <2>2, <2>3
<1>9. QED
  BY <1>7, <1>8

-----------------------------------------------------------------------------
(* The parts of the invariant that a step leaves alone. *)

LEMMA QuietWire ==
  ASSUME WriterInv, UNCHANGED <<wire, cuts, fseq, err>>
  PROVE  Protocol' /\ TornFrameLast' /\ Link'
BY DEF WriterInv, Protocol, TornFrameLast, Link, MessageOpen

LEMMA QuietBuffer ==
  ASSUME WriterInv, UNCHANGED <<client, raw>>, Len(buf') <= Size
  PROVE  HeaderRoom'
BY DEF WriterInv, HeaderRoom, Size, Buffered

LEMMA FreshTyped ==
  ASSUME TypeOK, NEW k \in Nat
  PROVE  Fresh(k) \in Seq(Nat) /\ Len(Fresh(k)) = k
BY DEF TypeOK, Fresh

LEMMA ErrorKept ==
  ASSUME NEW e \in Outcomes
  PROVE  e \in {"nil", "io", "ext"}
BY DEF Outcomes

(* Sending a fragment of the buffer, or past the buffer, keeps the wire's
   part of the invariant. *)
LEMMA FragmentKeeps ==
  ASSUME WriterInv, err = "nil", NEW data \in Seq(Nat), NEW e \in Outcomes,
         SendFragment(data, e), UNCHANGED cuts
  PROVE  /\ wire' \in Seq(Frames) /\ Protocol' /\ TornFrameLast' /\ Link'
         /\ fseq' \in Nat /\ err' \in {"nil", "io", "ext"} /\ buf' = <<>>
<1>1. fseq' \in Nat /\ fseq' > 0
  BY DEF SendFragment, WriterInv, TypeOK
<1>2. QED
  BY <1>1, TransmitKeeps, ErrorKept DEF SendFragment

LEMMA ThroughKeeps ==
  ASSUME WriterInv, err = "nil", NEW data \in Seq(Nat), NEW e \in Outcomes,
         SendThrough(data, e), UNCHANGED cuts
  PROVE  /\ wire' \in Seq(Frames) /\ Protocol' /\ TornFrameLast' /\ Link'
         /\ fseq' \in Nat /\ err' \in {"nil", "io", "ext"}
         /\ dirty' \in BOOLEAN
<1>1. CASE e = "ext"
  <2>1. UNCHANGED <<wire, fseq, err, dirty>>
    BY <1>1 DEF SendThrough, Transmit
  <2>2. QED
    BY <2>1, QuietWire DEF WriterInv, TypeOK
<1>2. CASE e # "ext"
  <2>1. err' = e /\ dirty' = TRUE /\ fseq' = fseq + 1
        /\ Transmit(FALSE, data, e)
    BY <1>2 DEF SendThrough
  <2>2. fseq' \in Nat /\ fseq' > 0
    BY <2>1 DEF WriterInv, TypeOK
  <2>3. QED
    BY <2>1, <2>2, TransmitKeeps, ErrorKept
<1>3. QED
  BY <1>1, <1>2

-----------------------------------------------------------------------------
LEMMA InvInit == Init => WriterInv
<1> SUFFICES ASSUME Init PROVE WriterInv
  OBVIOUS
<1>1. client \in BOOLEAN /\ raw \in Nat /\ raw > Reserve(client, raw)
  BY WriterConstants DEF Init
<1>2. Reserve(client, raw) \in Nat
  BY <1>1, ReserveNat
<1>3. TypeOK
  <2>1. buf \in Seq(Nat) /\ todo \in Seq(Nat) /\ wire \in Seq(Frames)
    BY DEF Init
  <2>2. ext \in Exts \cup {FALSE} /\ noFlush \in BOOLEAN /\ dirty \in BOOLEAN
    BY DEF Init
  <2>3. fseq \in Nat /\ seqno \in Nat /\ cuts \subseteq Nat
    BY DEF Init
  <2>4. err \in {"nil", "io", "ext"} /\ pc \in {"idle", "write", "readfrom"}
    BY DEF Init
  <2>5. op \in DataOps /\ client \in Sides
    BY DEF Init
  <2>6. QED
    BY <1>1, <2>1, <2>2, <2>3, <2>4, <2>5 DEF TypeOK
<1>4. HeaderRoom
  <2>1. HeaderSize(client, raw - Reserve(client, raw)) <= Reserve(client, raw)
    BY <1>1, <1>2, HeaderFits
  <2>2. QED
    BY <1>1, <1>2, <2>1 DEF Init, HeaderRoom, Size, Buffered
<1>5. Protocol /\ TornFrameLast /\ Link
  BY DEF Init, Protocol, TornFrameLast, Link, MessageOpen
<1>6. QED
  BY <1>3, <1>4, <1>5 DEF WriterInv

-----------------------------------------------------------------------------
(* One lemma for each call or loop step that does more than forget. *)

LEMMA SizesTyped ==
  ASSUME WriterInv
  PROVE  /\ client \in BOOLEAN /\ raw \in Nat /\ Reserve(client, raw) \in Nat
         /\ Len(buf) \in Nat /\ Size \in Nat /\ Available \in Nat
         /\ Size > 0
<1>1. client \in BOOLEAN /\ raw \in Nat /\ Len(buf) \in Nat
  BY WriterConstants DEF WriterInv, TypeOK
<1>2. Reserve(client, raw) \in Nat
  BY <1>1, ReserveNat
<1>3. QED
  BY <1>1, <1>2 DEF WriterInv, HeaderRoom, Size, Available, Buffered

LEMMA WriteStepKeeps == WriterInv /\ WriteStep => WriterInv'
<1> SUFFICES ASSUME WriterInv, WriteStep PROVE WriterInv'
  OBVIOUS
<1> USE DEF options
<1>1. todo \in Seq(Nat) /\ buf \in Seq(Nat) /\ Len(todo) \in Nat
  BY DEF WriterInv, TypeOK
<1>2. CASE WriteGrow
  <2>1. raw' \in Nat /\ HeaderRoom'
    BY <1>1, <1>2, GrowKeepsRoom DEF WriterInv, WriteGrow
  <2>2. Protocol' /\ TornFrameLast' /\ Link'
    BY <1>2, QuietWire DEF WriteGrow
  <2>3. TypeOK'
    BY <1>2, <2>1 DEF WriterInv, TypeOK, WriteGrow
  <2>4. QED
    BY <2>1, <2>2, <2>3 DEF WriterInv
<1>3. CASE WriteDirect
  <2>1. PICK e \in Outcomes :
          SendThrough(todo, e) /\ todo' = IF e = "nil" THEN <<>> ELSE todo
    BY <1>3 DEF WriteDirect, Bypass
  <2>2. err = "nil" /\ UNCHANGED <<options, raw, buf, pc, cuts, seqno>>
    BY <1>3 DEF WriteDirect, Bypass, WriteLoops
  <2>3. /\ wire' \in Seq(Frames) /\ Protocol' /\ TornFrameLast' /\ Link'
        /\ fseq' \in Nat /\ err' \in {"nil", "io", "ext"}
        /\ dirty' \in BOOLEAN
    BY <1>1, <2>1, <2>2, ThroughKeeps
  <2>4. todo' \in Seq(Nat)
    BY <1>1, <2>1
  <2>5. TypeOK'
    BY <2>2, <2>3, <2>4 DEF WriterInv, TypeOK
  <2>6. HeaderRoom'
    BY <2>2, QuietBuffer DEF WriterInv, HeaderRoom, Buffered
  <2>7. QED
    BY <2>3, <2>5, <2>6 DEF WriterInv
<1>4. CASE WriteFill
  <2>1. PICK e \in Outcomes : SendFragment(buf \o Take(todo, Available), e)
    BY <1>4 DEF WriteFill
  <2>2. err = "nil" /\ UNCHANGED <<options, raw, dirty, pc, cuts, seqno>>
    BY <1>4 DEF WriteFill, WriteLoops
  <2>3. Available \in Nat /\ Available < Len(todo)
    BY <1>4, SizesTyped DEF WriteFill, WriteLoops
  <2>4. Take(todo, Available) \in Seq(Nat) /\ Drop(todo, Available) \in Seq(Nat)
    BY <1>1, <2>3 DEF Take, Drop
  <2>5. buf \o Take(todo, Available) \in Seq(Nat)
    BY <1>1, <2>4
  <2>6. /\ wire' \in Seq(Frames) /\ Protocol' /\ TornFrameLast' /\ Link'
        /\ fseq' \in Nat /\ err' \in {"nil", "io", "ext"} /\ buf' = <<>>
    BY <2>1, <2>2, <2>5, FragmentKeeps
  <2>7. TypeOK'
    <3>1. buf' \in Seq(Nat) /\ todo' \in Seq(Nat)
      BY <1>4, <2>4, <2>6 DEF WriteFill
    <3>2. QED
      BY <2>2, <2>6, <3>1 DEF WriterInv, TypeOK
  <2>8. HeaderRoom'
    BY <2>2, <2>6, QuietBuffer, SizesTyped
  <2>9. QED
    BY <2>6, <2>7, <2>8 DEF WriterInv
<1>5. CASE WriteExit
  <2>1. Protocol' /\ TornFrameLast' /\ Link'
    BY <1>5, QuietWire DEF WriteExit
  <2>2. buf' \in Seq(Nat) /\ Len(buf') <= Size
    <3>1. CASE err = "nil"
      <4>1. Len(todo) <= Available /\ buf' = buf \o todo
        BY <1>1, <1>5, <3>1, SizesTyped DEF WriteExit, WriteLoops
      <4>2. Len(buf \o todo) = Len(buf) + Len(todo)
        BY <1>1
      <4>3. QED
        BY <1>1, <4>1, <4>2, SizesTyped DEF Available, Buffered
    <3>2. CASE err # "nil"
      BY <1>1, <1>5, <3>2 DEF WriteExit, WriterInv, HeaderRoom, Buffered
    <3>3. QED
      BY <3>1, <3>2
  <2>3. HeaderRoom'
    BY <1>5, <2>2, QuietBuffer DEF WriteExit
  <2>4. todo' \in Seq(Nat)
    BY <1>5 DEF WriteExit
  <2>5. TypeOK'
    BY <1>5, <2>2, <2>4 DEF WriteExit, Return, WriterInv, TypeOK
  <2>6. QED
    BY <2>1, <2>3, <2>5 DEF WriterInv
<1>6. QED
  BY <1>2, <1>3, <1>4, <1>5 DEF WriteStep

LEMMA ReadFromStepKeeps == WriterInv /\ ReadFromStep => WriterInv'
<1> SUFFICES ASSUME WriterInv, ReadFromStep PROVE WriterInv'
  OBVIOUS
<1> USE DEF options
<1>0. TypeOK
  BY DEF WriterInv
<1>1. buf \in Seq(Nat) /\ Len(buf) \in Nat
  BY <1>0 DEF TypeOK
<1>2. CASE ReadFromGrow
  <2>1. raw' \in Nat /\ HeaderRoom'
    BY <1>0, <1>1, <1>2, GrowKeepsRoom DEF WriterInv, ReadFromGrow, Buffered
  <2>2. Protocol' /\ TornFrameLast' /\ Link'
    BY <1>2, QuietWire DEF ReadFromGrow
  <2>3. TypeOK'
    BY <1>0, <1>2, <2>1 DEF TypeOK, ReadFromGrow
  <2>4. QED
    BY <2>1, <2>2, <2>3 DEF WriterInv
<1>3. CASE ReadFromFlush
  <2>1. UNCHANGED <<options, raw, dirty, todo, cuts, seqno>>
        /\ pc' \in {"idle", "readfrom"}
    BY <1>3 DEF ReadFromFlush, Return
  <2>2. CASE err # "nil"
    <3>1. UNCHANGED <<buf, fseq, err, wire>>
      BY <1>3, <2>2 DEF ReadFromFlush
    <3>2. Protocol' /\ TornFrameLast' /\ Link'
      BY <2>1, <3>1, QuietWire
    <3>3. HeaderRoom'
      BY <2>1, <3>1, QuietBuffer DEF WriterInv, HeaderRoom, Buffered
    <3>4. TypeOK'
      BY <1>0, <2>1, <3>1 DEF TypeOK
    <3>5. QED
      BY <3>2, <3>3, <3>4 DEF WriterInv
  <2>3. CASE err = "nil"
    <3>1. PICK e \in Outcomes : SendFragment(buf, e)
      BY <1>3, <2>3 DEF ReadFromFlush
    <3>2. /\ wire' \in Seq(Frames) /\ Protocol' /\ TornFrameLast' /\ Link'
          /\ fseq' \in Nat /\ err' \in {"nil", "io", "ext"} /\ buf' = <<>>
      BY <1>1, <2>1, <2>3, <3>1, FragmentKeeps
    <3>3. HeaderRoom'
      BY <2>1, <3>2, QuietBuffer, SizesTyped
    <3>4. buf' \in Seq(Nat)
      BY <3>2
    <3>5. TypeOK'
      BY <1>0, <2>1, <3>2, <3>4 DEF TypeOK
    <3>6. QED
      BY <3>2, <3>3, <3>5 DEF WriterInv
  <2>4. QED
    BY <2>2, <2>3
<1>4. CASE ReadFromRead
  <2>1. PICK k \in 0..MaxArg : /\ k <= Available
                               /\ buf' = buf \o Fresh(k)
                               /\ seqno' = seqno + k
                               /\ dirty' \in {dirty, TRUE}
                               /\ pc' \in {pc, "idle"}
    BY <1>4 DEF ReadFromRead, Return
  <2>2. UNCHANGED <<options, raw, fseq, err, todo, wire, cuts>>
    BY <1>4 DEF ReadFromRead
  <2>3. k \in Nat
    BY WriterConstants
  <2>4. Fresh(k) \in Seq(Nat) /\ Len(Fresh(k)) = k
    BY <1>0, <2>3, FreshTyped
  <2>5. buf' \in Seq(Nat) /\ Len(buf') = Len(buf) + k
    <3>1. buf' = buf \o Fresh(k)
      BY <2>1
    <3>2. Len(buf \o Fresh(k)) = Len(buf) + Len(Fresh(k))
      BY <1>1, <2>4
    <3>3. QED
      BY <1>1, <2>4, <3>1, <3>2
  <2>6. HeaderRoom'
    BY <1>1, <2>1, <2>2, <2>3, <2>5, QuietBuffer, SizesTyped
       DEF Available, Buffered
  <2>7. Protocol' /\ TornFrameLast' /\ Link'
    BY <2>2, QuietWire
  <2>8. TypeOK'
    <3>0. seqno \in Nat /\ dirty \in BOOLEAN
      BY <1>0 DEF TypeOK
    <3>1. seqno' \in Nat
      BY <2>1, <2>3, <3>0
    <3>2. dirty' \in BOOLEAN
      <4>1. dirty' = dirty \/ dirty' = TRUE
        BY <2>1, Zenon
      <4>2. QED
        BY <3>0, <4>1, Zenon
    <3>3. pc' \in {"idle", "write", "readfrom"}
      BY <1>0, <2>1 DEF TypeOK
    <3>4. QED
      BY <1>0, <2>2, <2>5, <3>1, <3>2, <3>3 DEF TypeOK
  <2>9. QED
    BY <2>6, <2>7, <2>8 DEF WriterInv
<1>5. QED
  BY <1>2, <1>3, <1>4 DEF ReadFromStep

LEMMA WriteThroughKeeps ==
  ASSUME WriterInv, NEW k \in 0..MaxArg, WriteThrough(k)
  PROVE  WriterInv'
<1> USE DEF options
<1>1. UNCHANGED <<options, raw, buf, cuts, todo>> /\ pc' = "idle"
  BY DEF WriteThrough, Returns, Return
<1>2. HeaderRoom'
  BY <1>1, QuietBuffer DEF WriterInv, HeaderRoom, Buffered
<1>3. TypeOK
  BY DEF WriterInv
<1>4. CASE UNCHANGED <<dirty, fseq, err, wire, seqno>>
  <2>1. TypeOK'
    BY <1>1, <1>3, <1>4 DEF TypeOK
  <2>2. Protocol' /\ TornFrameLast' /\ Link'
    BY <1>1, <1>4, QuietWire
  <2>3. QED
    BY <1>2, <2>1, <2>2 DEF WriterInv
<1>5. ASSUME err = "nil", seqno' \in {seqno, seqno + k},
             NEW e \in Outcomes, SendThrough(Fresh(k), e)
      PROVE  WriterInv'
  <2>1. k \in Nat
    BY WriterConstants
  <2>2. Fresh(k) \in Seq(Nat)
    BY <1>3, <2>1, FreshTyped
  <2>3. /\ wire' \in Seq(Frames) /\ Protocol' /\ TornFrameLast' /\ Link'
        /\ fseq' \in Nat /\ err' \in {"nil", "io", "ext"}
        /\ dirty' \in BOOLEAN
    BY <1>1, <1>5, <2>2, ThroughKeeps
  <2>4. seqno' \in Nat
    BY <1>3, <1>5, <2>1 DEF TypeOK
  <2>5. TypeOK'
    BY <1>1, <1>3, <2>3, <2>4 DEF TypeOK
  <2>6. QED
    BY <1>2, <2>3, <2>5 DEF WriterInv
<1>6. QED
  BY <1>4, <1>5 DEF WriteThrough

LEMMA FlushKeeps == WriterInv /\ Flush => WriterInv'
<1> SUFFICES ASSUME WriterInv, Flush PROVE WriterInv'
  OBVIOUS
<1> USE DEF options
<1>1. UNCHANGED <<options, raw, cuts, seqno, todo>> /\ pc' = "idle"
  BY DEF Flush, Returns, Return
<1>2. TypeOK /\ buf \in Seq(Nat)
  BY DEF WriterInv, TypeOK
<1>3. CASE UNCHANGED <<buf, dirty, fseq, err, wire>>
  <2>1. TypeOK'
    BY <1>1, <1>2, <1>3 DEF TypeOK
  <2>2. Protocol' /\ TornFrameLast' /\ Link'
    BY <1>1, <1>3, QuietWire
  <2>3. HeaderRoom'
    BY <1>1, <1>3, QuietBuffer DEF WriterInv, HeaderRoom, Buffered
  <2>4. QED
    BY <2>1, <2>2, <2>3 DEF WriterInv
<1>4. ASSUME err = "nil", NEW e \in Outcomes, Transmit(TRUE, buf, e),
             err' = e, buf' = <<>>, dirty' = FALSE, fseq' = 0
      PROVE  WriterInv'
  <2>0. fseq' \in Nat /\ (fseq' > 0 <=> ~TRUE)
    BY <1>4
  <2>1. wire' \in Seq(Frames) /\ Protocol' /\ TornFrameLast' /\ Link'
    BY <1>1, <1>2, <1>4, <2>0, TransmitKeeps
  <2>2. HeaderRoom'
    BY <1>1, <1>4, QuietBuffer, SizesTyped
  <2>3. buf' \in Seq(Nat) /\ err' \in {"nil", "io", "ext"}
    BY <1>4, ErrorKept
  <2>4. TypeOK'
    BY <1>1, <1>2, <1>4, <2>1, <2>3 DEF TypeOK
  <2>5. QED
    BY <2>1, <2>2, <2>4 DEF WriterInv
<1>5. QED
  BY <1>3, <1>4 DEF Flush

LEMMA FlushFragmentKeeps == WriterInv /\ FlushFragment => WriterInv'
<1> SUFFICES ASSUME WriterInv, FlushFragment PROVE WriterInv'
  OBVIOUS
<1> USE DEF options
<1>1. UNCHANGED <<options, raw, dirty, cuts, seqno, todo>> /\ pc' = "idle"
  BY DEF FlushFragment, Returns, Return
<1>2. TypeOK /\ buf \in Seq(Nat)
  BY DEF WriterInv, TypeOK
<1>3. CASE UNCHANGED <<buf, fseq, err, wire>>
  <2>1. TypeOK'
    BY <1>1, <1>2, <1>3 DEF TypeOK
  <2>2. Protocol' /\ TornFrameLast' /\ Link'
    BY <1>1, <1>3, QuietWire
  <2>3. HeaderRoom'
    BY <1>1, <1>3, QuietBuffer DEF WriterInv, HeaderRoom, Buffered
  <2>4. QED
    BY <2>1, <2>2, <2>3 DEF WriterInv
<1>4. ASSUME err = "nil", NEW e \in Outcomes, SendFragment(buf, e)
      PROVE  WriterInv'
  <2>1. /\ wire' \in Seq(Frames) /\ Protocol' /\ TornFrameLast' /\ Link'
        /\ fseq' \in Nat /\ err' \in {"nil", "io", "ext"} /\ buf' = <<>>
    BY <1>1, <1>2, <1>4, FragmentKeeps
  <2>2. HeaderRoom'
    BY <1>1, <2>1, QuietBuffer, SizesTyped
  <2>3. buf' \in Seq(Nat)
    BY <2>1
  <2>4. TypeOK'
    BY <1>1, <1>2, <2>1, <2>3 DEF TypeOK
  <2>5. QED
    BY <2>1, <2>2, <2>4 DEF WriterInv
<1>5. QED
  BY <1>3, <1>4 DEF FlushFragment

(* Both resets end the message: fseq is 0, and what was open is cut. *)
LEMMA ForgetKeeps ==
  ASSUME WriterInv, NEW o \in DataOps, ForgetMessage(o), UNCHANGED err,
         (UNCHANGED wire /\ Cut) \/ (wire' = <<>> /\ cuts' = {})
  PROVE  wire' \in Seq(Frames) /\ cuts' \subseteq Nat
         /\ Protocol' /\ TornFrameLast' /\ Link'
<1>1. wire \in Seq(Frames) /\ cuts \subseteq Nat /\ Len(wire) \in Nat
  BY DEF WriterInv, TypeOK
<1>2. CASE wire' = <<>> /\ cuts' = {}
  BY <1>2 DEF ForgetMessage, Protocol, TornFrameLast, Link, MessageOpen
<1>3. CASE UNCHANGED wire /\ Cut
  <2>1. cuts' \subseteq Nat /\ \A c \in cuts' : c <= Len(wire)
    <3>1. cuts' \subseteq cuts \cup {Len(wire)}
      BY <1>3 DEF Cut
    <3>2. \A c \in cuts : c <= Len(wire)
      BY DEF WriterInv, Link
    <3>3. QED
      BY <1>1, <3>1, <3>2
  <2>2. ~MessageOpen'
    BY <1>3 DEF Cut, MessageOpen
  <2>3. \A i \in 1..Len(wire) : i - 1 \in cuts' <=> i - 1 \in cuts
    BY <1>1, <1>3 DEF Cut
  <2>4. Protocol'
    BY <1>3, <2>3 DEF WriterInv, Protocol
  <2>5. TornFrameLast'
    BY <1>3 DEF WriterInv, TornFrameLast
  <2>6. fseq' = 0
    BY DEF ForgetMessage
  <2>7. err' = "nil" => \A i \in 1..Len(wire') : wire'[i].whole
    BY <1>3 DEF WriterInv, Link
  <2>8. Link'
    BY <1>3, <2>1, <2>2, <2>6, <2>7 DEF Link
  <2>9. QED
    BY <1>1, <1>3, <2>1, <2>4, <2>5, <2>8
<1>4. QED
  BY <1>2, <1>3

LEMMA ResetKeeps == WriterInv /\ (Reset \/ ResetOp) => WriterInv'
<1>1. ASSUME WriterInv, ResetOp PROVE WriterInv'
  <2>1. PICK o \in DataOps : ForgetMessage(o)
    BY <1>1 DEF ResetOp
  <2>2. Cut /\ UNCHANGED <<client, noFlush, ext, raw, err, wire, seqno>>
    BY <1>1 DEF ResetOp
  <2>3. wire' \in Seq(Frames) /\ cuts' \subseteq Nat
        /\ Protocol' /\ TornFrameLast' /\ Link'
    BY <1>1, <2>1, <2>2, ForgetKeeps
  <2>4. buf' = <<>> /\ dirty' = FALSE /\ fseq' = 0 /\ pc' = "idle"
        /\ op' \in DataOps /\ UNCHANGED todo
    BY <2>1 DEF ForgetMessage, Returns, Return
  <2>5. TypeOK'
    <3>1. buf' \in Seq(Nat) /\ dirty' \in BOOLEAN /\ fseq' \in Nat
      <4>1. buf' \in Seq(Nat)
        BY <2>4
      <4>2. dirty' \in BOOLEAN
        BY <2>4
      <4>3. fseq' \in Nat
        BY <2>4
      <4>4. QED
        BY <4>1, <4>2, <4>3
    <3>2. TypeOK
      BY <1>1 DEF WriterInv
    <3>3. QED
      BY <2>2, <2>3, <2>4, <3>1, <3>2 DEF TypeOK
  <2>6. HeaderRoom'
    BY <1>1, <2>2, <2>4, QuietBuffer, SizesTyped
  <2>7. QED
    BY <2>3, <2>5, <2>6 DEF WriterInv
<1>2. ASSUME WriterInv, Reset PROVE WriterInv'
  <2>1. PICK o \in DataOps, c \in Sides :
          raw > Reserve(c, raw) /\ ForgetMessage(o) /\ client' = c
    BY <1>2 DEF Reset
  <2>2. noFlush' = FALSE /\ ext' = FALSE /\ UNCHANGED <<raw, err, seqno>>
    BY <1>2 DEF Reset
  <2>3. wire' \in Seq(Frames) /\ cuts' \subseteq Nat
        /\ Protocol' /\ TornFrameLast' /\ Link'
    BY <1>2, <2>1, <2>2, ForgetKeeps DEF Reset
  <2>4. buf' = <<>> /\ dirty' = FALSE /\ fseq' = 0 /\ pc' = "idle"
        /\ op' \in DataOps /\ UNCHANGED todo
    BY <2>1 DEF ForgetMessage, Returns, Return
  <2>5. TypeOK'
    <3>1. buf' \in Seq(Nat) /\ dirty' \in BOOLEAN /\ fseq' \in Nat
      <4>1. buf' \in Seq(Nat)
        BY <2>4
      <4>2. dirty' \in BOOLEAN
        BY <2>4
      <4>3. fseq' \in Nat
        BY <2>4
      <4>4. QED
        BY <4>1, <4>2, <4>3
    <3>2. noFlush' \in BOOLEAN /\ ext' \in Exts \cup {FALSE}
      BY <2>2
    <3>3. TypeOK
      BY <1>2 DEF WriterInv
    <3>4. QED
      BY <2>1, <2>2, <2>3, <2>4, <3>1, <3>2, <3>3 DEF TypeOK
  <2>6. HeaderRoom'
    <3>1. c \in BOOLEAN /\ raw \in Nat /\ Reserve(c, raw) \in Nat
      BY <1>2, WriterConstants, SizesTyped, ReserveNat
    <3>2. HeaderSize(c, raw - Reserve(c, raw)) <= Reserve(c, raw)
      BY <2>1, <3>1, HeaderFits
    <3>3. QED
      BY <2>1, <2>2, <2>4, <3>1, <3>2 DEF HeaderRoom, Size, Buffered
  <2>7. QED
    BY <2>3, <2>5, <2>6 DEF WriterInv
<1>3. QED
  BY <1>1, <1>2

LEMMA InvNext == WriterInv /\ [Next]_vars => WriterInv'
<1> SUFFICES ASSUME WriterInv, [Next]_vars PROVE WriterInv'
  OBVIOUS
<1> USE DEF options
<1>1. ASSUME NEW k \in 0..MaxArg, WriteCall(k) PROVE WriterInv'
  <2>1. k \in Nat /\ TypeOK
    BY WriterConstants DEF WriterInv
  <2>2. Fresh(k) \in Seq(Nat)
    BY <2>1, FreshTyped
  <2>3. seqno' \in Nat
    BY <1>1, <2>1 DEF WriteCall, TypeOK
  <2>4. TypeOK'
    BY <1>1, <2>1, <2>2, <2>3 DEF WriteCall, TypeOK
  <2>5. Protocol' /\ TornFrameLast' /\ Link'
    BY <1>1, QuietWire DEF WriteCall
  <2>6. HeaderRoom'
    BY <1>1, QuietBuffer DEF WriteCall, WriterInv, HeaderRoom, Buffered
  <2>7. QED
    BY <2>4, <2>5, <2>6 DEF WriterInv
<1>2. ASSUME NEW k \in 0..MaxArg, WriteThrough(k) PROVE WriterInv'
  BY <1>2, WriteThroughKeeps
<1>3. ASSUME ReadFromCall PROVE WriterInv'
  <2>1. TypeOK'
    BY <1>3 DEF ReadFromCall, WriterInv, TypeOK
  <2>2. Protocol' /\ TornFrameLast' /\ Link'
    BY <1>3, QuietWire DEF ReadFromCall
  <2>3. HeaderRoom'
    BY <1>3, QuietBuffer DEF ReadFromCall, WriterInv, HeaderRoom, Buffered
  <2>4. QED
    BY <2>1, <2>2, <2>3 DEF WriterInv
<1>4. ASSUME DisableFlush \/ SetExtensions PROVE WriterInv'
  <2>1. UNCHANGED <<op, client, raw, buf, dirty, fseq, err, todo, wire, cuts,
                    seqno>>
        /\ pc' = "idle" /\ noFlush' \in {noFlush, TRUE} /\ ext' \in Exts \cup {ext}
    BY <1>4 DEF DisableFlush, SetExtensions, Returns, Return
  <2>2. TypeOK'
    BY <2>1 DEF WriterInv, TypeOK
  <2>3. Protocol' /\ TornFrameLast' /\ Link'
    BY <2>1, QuietWire
  <2>4. HeaderRoom'
    BY <2>1, QuietBuffer DEF WriterInv, HeaderRoom, Buffered
  <2>5. QED
    BY <2>2, <2>3, <2>4 DEF WriterInv
<1>5. ASSUME Grow PROVE WriterInv'
  <2>1. PICK n \in 0..MaxArg : GrowBy(n)
    BY <1>5 DEF Grow
  <2>2. n \in Nat /\ TypeOK
    BY WriterConstants DEF WriterInv
  <2>3. raw' \in Nat /\ HeaderRoom'
    BY <1>5, <2>1, <2>2, GrowKeepsRoom DEF Grow, WriterInv
  <2>4. TypeOK'
    BY <1>5, <2>2, <2>3 DEF Grow, Returns, Return, TypeOK
  <2>5. Protocol' /\ TornFrameLast' /\ Link'
    BY <1>5, QuietWire DEF Grow
  <2>6. QED
    BY <2>3, <2>4, <2>5 DEF WriterInv
<1>6. ASSUME UNCHANGED vars PROVE WriterInv'
  <2>1. TypeOK'
    BY <1>6 DEF vars, WriterInv, TypeOK
  <2>2. Protocol' /\ TornFrameLast' /\ Link'
    BY <1>6, QuietWire DEF vars
  <2>3. HeaderRoom'
    BY <1>6, QuietBuffer DEF vars, WriterInv, HeaderRoom, Buffered
  <2>4. QED
    BY <2>1, <2>2, <2>3 DEF WriterInv
<1>7. QED
  BY <1>1, <1>2, <1>3, <1>4, <1>5, <1>6, WriteStepKeeps, ReadFromStepKeeps,
     FlushKeeps, FlushFragmentKeeps, ResetKeeps DEF Next

(***************************************************************************)
(* In every behaviour of the writer: its variables have their types, a     *)
(* full buffer's header fits in front of it, frames on the wire continue   *)
(* exactly the messages left open, and nothing follows a torn frame.       *)
(***************************************************************************)
THEOREM WriterSafe ==
  Spec => [](TypeOK /\ HeaderRoom /\ Protocol /\ TornFrameLast)
<1>1. WriterInv => TypeOK /\ HeaderRoom /\ Protocol /\ TornFrameLast
  BY DEF WriterInv
<1>2. QED
  BY InvInit, InvNext, <1>1, PTL DEF Spec

(* Of these: the writer's state stays in its types, and so does every frame
   it has sent. *)
THEOREM WriterTypes == Spec => []TypeOK
  BY WriterSafe, PTL

(* flushFragment never starts before the raw buffer, whatever Grow made of
   it and whichever side Reset gave it (src/msutil/writer.go:519). *)
THEOREM WriterHasHeaderRoom == Spec => []HeaderRoom
  BY WriterSafe, PTL

(* The destination gets nothing after a frame that it took only a part of. *)
THEOREM WriterStopsAtTornFrame == Spec => []TornFrameLast
  BY WriterSafe, PTL

(***************************************************************************)
(* Once the destination or an extension has failed, the error is kept and  *)
(* the destination gets nothing more, until the writer is Reset.           *)
(***************************************************************************)
THEOREM WriterErrorIsFinal == Spec => ErrorIsFinal
<1>1. ASSUME [Next]_vars, err # "nil", ~Reset
      PROVE  err' = err /\ wire' = wire
  <2>1. CASE \E k \in 0..MaxArg : WriteCall(k) \/ WriteThrough(k)
    BY <1>1, <2>1 DEF WriteCall, WriteThrough
  <2>2. CASE WriteStep
    BY <1>1, <2>2
       DEF WriteStep, WriteGrow, WriteDirect, WriteFill, WriteExit, WriteLoops
  <2>3. CASE ReadFromCall \/ ReadFromStep
    BY <1>1, <2>3
       DEF ReadFromCall, ReadFromStep, ReadFromGrow, ReadFromFlush, ReadFromRead
  <2>4. CASE Flush \/ FlushFragment
    BY <1>1, <2>4 DEF Flush, FlushFragment
  <2>5. CASE ResetOp
    BY <2>5 DEF ResetOp
  <2>6. CASE DisableFlush \/ SetExtensions \/ Grow
    BY <2>6 DEF DisableFlush, SetExtensions, Grow
  <2>7. CASE UNCHANGED vars
    BY <2>7 DEF vars
  <2>8. QED
    BY <1>1, <2>1, <2>2, <2>3, <2>4, <2>5, <2>6, <2>7 DEF Next
<1>2. [Next]_vars
        => [err # "nil" /\ ~Reset => err' = err /\ wire' = wire]_vars
  BY <1>1
<1>3. QED
  BY <1>2, PTL DEF Spec, ErrorIsFinal

(***************************************************************************)
(* While flushing is disabled no loop of Write or ReadFrom sends a frame:  *)
(* the message leaves in one frame, when Flush is called.                  *)
(***************************************************************************)
THEOREM WriterNoFragments == Spec => NoFragments
<1>1. ASSUME [Next]_vars, noFlush, pc # "idle"
      PROVE  wire' = wire
  <2>1. CASE WriteStep
    BY <1>1, <2>1 DEF WriteStep, WriteGrow, WriteDirect, WriteFill, WriteExit
  <2>2. CASE ReadFromStep
    BY <1>1, <2>2
       DEF ReadFromStep, ReadFromGrow, ReadFromFlush, ReadFromRead
  <2>3. CASE UNCHANGED vars
    BY <2>3 DEF vars
  <2>4. QED
    BY <1>1, <2>1, <2>2, <2>3
       DEF Next, MayCall, WriteCall, WriteThrough, ReadFromCall, Flush,
           FlushFragment, ResetOp, Reset, DisableFlush, SetExtensions, Grow
<1>2. [Next]_vars => [noFlush /\ pc # "idle" => wire' = wire]_vars
  BY <1>1
<1>3. QED
  BY <1>2, PTL DEF Spec, NoFragments

-----------------------------------------------------------------------------
(***************************************************************************)
(* The writer implements the message stream of OutStream: every step of it *)
(* is a step of the stream, or one that the peer cannot tell.              *)
(***************************************************************************)

Queue == IF err = "nil" THEN buf \o todo ELSE <<>>

(* Only Write has something left to do, and no call has returned while one
   is being executed. *)
LoopState ==
  /\ pc # "write" => todo = <<>>
  /\ pc # "idle" => ret = NoCall

RefInv == WriterInv /\ LoopState

LEMMA LoopStateInit == Init => LoopState
BY DEF Init, LoopState

LEMMA LoopStateNext == LoopState /\ [Next]_vars => LoopState'
<1> SUFFICES ASSUME LoopState, [Next]_vars PROVE LoopState'
  OBVIOUS
<1> USE DEF LoopState, Return, Returns
<1>1. CASE \E k \in 0..MaxArg : WriteCall(k) \/ WriteThrough(k)
  BY <1>1 DEF WriteCall, WriteThrough, MayCall
<1>2. CASE WriteStep
  BY <1>2 DEF WriteStep, WriteGrow, WriteDirect, WriteFill, WriteExit,
              WriteLoops, Bypass
<1>3. CASE ReadFromCall
  BY <1>3 DEF ReadFromCall, MayCall
<1>4. CASE ReadFromStep
  BY <1>4 DEF ReadFromStep, ReadFromGrow, ReadFromFlush, ReadFromRead
<1>5. CASE Flush \/ FlushFragment
  BY <1>5 DEF Flush, FlushFragment, MayCall
<1>6. CASE ResetOp \/ Reset
  BY <1>6 DEF ResetOp, Reset, ForgetMessage
<1>7. CASE DisableFlush \/ SetExtensions \/ Grow
  BY <1>7 DEF DisableFlush, SetExtensions, Grow
<1>8. CASE UNCHANGED vars
  BY <1>8 DEF vars
<1>9. QED
  BY <1>1, <1>2, <1>3, <1>4, <1>5, <1>6, <1>7, <1>8 DEF Next

-----------------------------------------------------------------------------
(* Facts about sequences of bytes. *)

(* k bytes that are given are the k numbers behind those before them. *)
LEMMA NumberedFresh ==
  ASSUME seqno \in Nat, NEW k \in Nat
  PROVE  Stream!Numbered(seqno, seqno + k) = Fresh(k)
<1>1. (seqno + k) - seqno = k
  OBVIOUS
<1>2. QED
  BY <1>1, Zenon DEF Stream!Numbered, Fresh

LEMMA NumberedNone ==
  ASSUME seqno \in Nat
  PROVE  Stream!Numbered(seqno, seqno) = <<>>
<1>1. seqno - seqno = 0 /\ 1..0 = {}
  OBVIOUS
<1>2. QED
  BY <1>1 DEF Stream!Numbered

LEMMA EmptyIsNeutral ==
  ASSUME NEW s \in Seq(Nat)
  PROVE  s \o <<>> = s /\ <<>> \o s = s
OBVIOUS

LEMMA Associative ==
  ASSUME NEW s \in Seq(Nat), NEW t \in Seq(Nat), NEW u \in Seq(Nat)
  PROVE  (s \o t) \o u = s \o (t \o u)
<1> DEFINE l == (s \o t) \o u
           r == s \o (t \o u)
<1>1. l \in Seq(Nat) /\ r \in Seq(Nat) /\ Len(l) = Len(r)
  OBVIOUS
<1>2. \A i \in 1..Len(l) : l[i] = r[i]
  OBVIOUS
<1> HIDE DEF l, r
<1>3. l = r
  BY <1>1, <1>2, SeqEqual
<1>4. QED
  BY <1>3 DEF l, r

LEMMA TakeThenDrop ==
  ASSUME NEW s \in Seq(Nat), NEW t \in Seq(Nat), NEW k \in Nat, k <= Len(t)
  PROVE  (s \o Take(t, k)) \o Drop(t, k) = s \o t
<1>1. Take(t, k) \in Seq(Nat) /\ Drop(t, k) \in Seq(Nat)
  BY DEF Take, Drop
<1>2. Take(t, k) \o Drop(t, k) = SubSeq(t, 1, Len(t))
  <2>1. /\ 1 \in 1..Len(t) + 1
        /\ k \in 1 - 1..Len(t)
        /\ Len(t) \in k..Len(t)
    OBVIOUS
  <2>2. QED
    BY <2>1, ConcatAdjacentSubSeq DEF Take, Drop
<1>3. Take(t, k) \o Drop(t, k) = t
  BY <1>2, SubSeqFull
<1>4. (s \o Take(t, k)) \o Drop(t, k) = s \o (Take(t, k) \o Drop(t, k))
  BY <1>1, Associative
<1>5. QED
  BY <1>3, <1>4

-----------------------------------------------------------------------------
(* The steps of the writer, as the stream sees them. *)

LEMMA BytesTyped ==
  ASSUME RefInv
  PROVE  /\ buf \in Seq(Nat) /\ todo \in Seq(Nat) /\ Queue \in Seq(Nat)
         /\ wire \in Seq(Frames) /\ seqno \in Nat
         /\ (err = "nil" /\ todo = <<>> => Queue = buf)
<1>1. /\ buf \in Seq(Nat) /\ todo \in Seq(Nat) /\ wire \in Seq(Frames)
      /\ seqno \in Nat
  BY DEF RefInv, WriterInv, TypeOK
<1>2. QED
  BY <1>1, EmptyIsNeutral DEF Queue

(* A step that sends nothing accepts bytes, or is refused after an error. *)
LEMMA QuietRefines ==
  ASSUME RefInv, UNCHANGED <<wire, err, fseq>>, ret'.fn # "Reset",
         NEW k \in Nat, seqno' = seqno + k,
         err = "nil" => Queue' = Queue \o Fresh(k)
  PROVE  Stream!Next
<1>1. seqno \in Nat
  BY BytesTyped
<1>2. seqno' \in Nat /\ seqno' >= seqno
  BY <1>1
<1>3. CASE err = "nil"
  <2>1. Stream!Numbered(seqno, seqno') = Fresh(k)
    BY <1>1, NumberedFresh
  <2>2. Queue' = Queue \o Stream!Numbered(seqno, seqno')
    BY <1>3, <2>1
  <2>3. QED
    BY <1>2, <1>3, <2>2
       DEF Stream!Next, Stream!Accept, Stream!Offer, Stream!New, Queue
<1>4. CASE err # "nil"
  BY <1>2, <1>4 DEF Stream!Next, Stream!Refuse, Stream!Offer
<1>5. QED
  BY <1>3, <1>4

(* A step that takes no bytes either. *)
LEMMA NothingTaken ==
  ASSUME RefInv, UNCHANGED <<wire, err, fseq, seqno>>, ret'.fn # "Reset",
         err = "nil" => Queue' = Queue
  PROVE  Stream!Next
<1>1. Queue \in Seq(Nat) /\ seqno \in Nat
  BY BytesTyped
<1>2. Fresh(0) = <<>>
  BY <1>1 DEF Fresh
<1>3. 0 \in Nat /\ seqno' = seqno + 0
  BY <1>1
<1>4. err = "nil" => Queue' = Queue \o Fresh(0)
  BY <1>1, <1>2, EmptyIsNeutral
<1>5. QED
  BY <1>3, <1>4, QuietRefines

(* A step that sends one frame, or breaks the stream trying. *)
LEMMA TransmitRefines ==
  ASSUME RefInv, err = "nil",
         NEW fin \in BOOLEAN, NEW data \in Seq(Nat), NEW e \in Outcomes,
         Transmit(fin, data, e), err' = e, ret'.fn # "Reset",
         NEW k \in Nat, seqno' = seqno + k,
         e = "nil" => /\ fseq' > 0 <=> ~fin
                      /\ data \o Queue' = Queue \o Fresh(k)
                      /\ fin => Queue' = <<>>
  PROVE  Stream!Next
<1> DEFINE frame(whole) ==
      [op |-> OpCode, fin |-> fin, data |-> data, whole |-> whole]
<1>1. wire \in Seq(Frames) /\ e \in {"nil", "io", "ext"}
  BY ErrorKept DEF RefInv, WriterInv, TypeOK
<1>2. \A w \in BOOLEAN : frame(w) \in Frames
  BY DEF RefInv, WriterInv, TypeOK, Frames, OpCode
<1>3. \A w \in BOOLEAN : LET long == Append(wire, frame(w)) IN
        Len(long) = Len(wire) + 1 /\ long[Len(long)] = frame(w)
  BY <1>1, <1>2
<1>o. Stream!Offer /\ Stream!New = Fresh(k)
  <2>1. seqno \in Nat
    BY BytesTyped
  <2>2. seqno' \in Nat /\ seqno' >= seqno
    BY <2>1
  <2>3. Stream!Numbered(seqno, seqno') = Fresh(k)
    BY <2>1, NumberedFresh
  <2>4. QED
    BY <2>2, <2>3 DEF Stream!Offer, Stream!New
<1>4. CASE e = "nil"
  <2>1. wire' = Append(wire, frame(TRUE))
    BY <1>4 DEF Transmit
  <2>2. Len(wire') = Len(wire) + 1 /\ Stream!LastOf(wire') = frame(TRUE)
    BY <1>3, <2>1 DEF Stream!LastOf
  <2>3. IF err = "nil" /\ fseq > 0 THEN OpCode = OpContinuation
        ELSE OpCode \in DataOps
    BY DEF OpCode, RefInv, WriterInv, TypeOK
  <2>4. /\ Stream!LastOf(wire').data = data
        /\ Stream!LastOf(wire').fin = fin
        /\ Stream!LastOf(wire').op = OpCode
        /\ Stream!LastOf(wire').whole
        /\ wire' = Append(wire, Stream!LastOf(wire'))
    BY <2>1, <2>2
  <2>5. data \o Queue' = Queue \o Stream!New
    BY <1>o, <1>4
  <2>6. /\ (err # "nil") = FALSE
        /\ (err # "nil")' = FALSE
        /\ (err = "nil" /\ fseq > 0)' = ~fin
        /\ (ret.fn = "Reset")' = FALSE
        /\ fin => Queue' = <<>>
    BY <1>4
  <2>7. Stream!Send
    BY <1>o, <2>2, <2>3, <2>4, <2>5, <2>6 DEF Stream!Send, Queue
  <2>8. QED
    BY <2>7 DEF Stream!Next
<1>5. CASE e # "nil"
  <2>1. wire' = wire \/ wire' = Append(wire, frame(FALSE))
    BY <1>1, <1>5 DEF Transmit
  <2>2. wire' = Append(wire, frame(FALSE)) =>
          Len(wire') = Len(wire) + 1 /\ Stream!LastOf(wire') = frame(FALSE)
    BY <1>3 DEF Stream!LastOf
  <2>3. err' # "nil" /\ (err # "nil") = FALSE /\ (err # "nil")' = TRUE
    BY <1>5
  <2>4. \/ wire' = wire
        \/ /\ Len(wire') = Len(wire) + 1
           /\ wire' = Append(wire, Stream!LastOf(wire'))
           /\ ~Stream!LastOf(wire').whole
    <3>1. ~frame(FALSE).whole
      OBVIOUS
    <3>2. CASE wire' = wire
      BY <3>2
    <3>3. CASE wire' = Append(wire, frame(FALSE))
      BY <2>2, <3>1, <3>3
    <3>4. QED
      BY <2>1, <3>2, <3>3
  <2>5. ~(ret.fn = "Reset")' /\ ~(err = "nil" /\ fseq > 0)'
    BY <1>5
  <2>6. Stream!Break
    BY <1>o, <2>3, <2>4, <2>5 DEF Stream!Break
  <2>7. QED
    BY <2>6 DEF Stream!Next
<1>6. QED
  BY <1>4, <1>5

LEMMA WriteStepRefines ==
  ASSUME RefInv, WriteStep
  PROVE  Stream!Next \/ UNCHANGED Stream!vars
<1> USE DEF options
<1>1. /\ buf \in Seq(Nat) /\ todo \in Seq(Nat) /\ Queue \in Seq(Nat)
      /\ fseq \in Nat /\ seqno \in Nat
  BY BytesTyped DEF RefInv, WriterInv, TypeOK
<1>n. 0 \in Nat /\ Fresh(0) = <<>> /\ (seqno' = seqno => seqno' = seqno + 0)
  BY <1>1 DEF Fresh
<1>2. pc = "write" => ret.fn # "Reset"
  BY DEF RefInv, LoopState, NoCall
<1>3. CASE WriteGrow
  BY <1>3 DEF WriteGrow, Stream!vars
<1>4. CASE WriteDirect
  <2>1. PICK e \in Outcomes :
          SendThrough(todo, e) /\ todo' = IF e = "nil" THEN <<>> ELSE todo
    BY <1>4 DEF WriteDirect, Bypass
  <2>2. pc = "write" /\ err = "nil" /\ UNCHANGED <<buf, ret, seqno>>
    BY <1>4 DEF WriteDirect, Bypass, WriteLoops
  <2>3. buf = <<>>
    BY <1>1, <1>4 DEF WriteDirect, Buffered
  <2>4. CASE e = "ext"
    <3>1. UNCHANGED <<wire, err, fseq, todo, buf, ret, seqno>>
      BY <2>1, <2>2, <2>4 DEF SendThrough, Transmit
    <3>2. QED
      BY <3>1 DEF Stream!vars
  <2>5. CASE e # "ext"
    <3>1. Transmit(FALSE, todo, e) /\ err' = e /\ fseq' = fseq + 1
      BY <2>1, <2>5 DEF SendThrough
    <3>2. fseq' > 0 /\ ret'.fn # "Reset"
      BY <1>1, <1>2, <2>2, <3>1
    <3>3. e = "nil" => todo \o Queue' = Queue \o Fresh(0)
      <4>1. Queue = todo
        BY <1>1, <2>2, <2>3, EmptyIsNeutral DEF Queue
      <4>2. e = "nil" => Queue' = <<>>
        <5>1. e = "nil" => buf' = <<>> /\ todo' = <<>>
          BY <2>1, <2>2, <2>3
        <5>2. <<>> \o <<>> = <<>>
          BY EmptyIsNeutral
        <5>3. QED
          BY <5>1, <5>2 DEF Queue
      <4>3. QED
        BY <1>1, <1>n, <4>1, <4>2, EmptyIsNeutral
    <3>4. QED
      BY <1>1, <1>n, <2>2, <3>1, <3>2, <3>3, TransmitRefines
  <2>6. QED
    BY <2>4, <2>5
<1>5. CASE WriteFill
  <2>1. PICK e \in Outcomes : SendFragment(buf \o Take(todo, Available), e)
    BY <1>5 DEF WriteFill
  <2>2. /\ pc = "write" /\ err = "nil" /\ ret' = ret /\ seqno' = seqno
        /\ todo' = Drop(todo, Available)
    BY <1>5 DEF WriteFill, WriteLoops
  <2>3. Available \in Nat /\ Available <= Len(todo)
    BY <1>1, <1>5, SizesTyped DEF RefInv, WriteFill, WriteLoops
  <2>4. /\ Take(todo, Available) \in Seq(Nat)
        /\ Drop(todo, Available) \in Seq(Nat)
    BY <1>1, <2>3 DEF Take, Drop
  <2>5. buf \o Take(todo, Available) \in Seq(Nat)
    BY <1>1, <2>4
  <2>6. fseq' > 0 /\ ret'.fn # "Reset"
    BY <1>1, <1>2, <2>1, <2>2 DEF SendFragment
  <2>7. e = "nil" => Queue' = Drop(todo, Available)
    BY <2>1, <2>2, <2>4, EmptyIsNeutral DEF SendFragment, Queue
  <2>8. (buf \o Take(todo, Available)) \o Drop(todo, Available) = Queue
    BY <1>1, <2>2, <2>3, TakeThenDrop DEF Queue
  <2>9. e = "nil" =>
          (buf \o Take(todo, Available)) \o Queue' = Queue \o Fresh(0)
    BY <1>1, <1>n, <2>7, <2>8, EmptyIsNeutral
  <2>10. QED
    BY <1>n, <2>1, <2>2, <2>5, <2>6, <2>9, TransmitRefines DEF SendFragment
<1>6. CASE WriteExit
  <2>1. UNCHANGED <<wire, err, fseq, seqno>> /\ ret'.fn # "Reset"
    BY <1>6 DEF WriteExit, Return
  <2>2. err = "nil" => Queue' = Queue
    <3>1. err = "nil" => buf' = buf \o todo /\ todo' = <<>>
      BY <1>6 DEF WriteExit
    <3>2. (buf \o todo) \o <<>> = buf \o todo
      BY <1>1, EmptyIsNeutral
    <3>3. QED
      BY <2>1, <3>1, <3>2 DEF Queue
  <2>3. QED
    BY <2>1, <2>2, NothingTaken
<1>7. QED
  BY <1>3, <1>4, <1>5, <1>6 DEF WriteStep

LEMMA ReadFromStepRefines ==
  ASSUME RefInv, ReadFromStep
  PROVE  Stream!Next \/ UNCHANGED Stream!vars
<1> USE DEF options
<1>0. pc = "readfrom"
  BY DEF ReadFromStep, ReadFromGrow, ReadFromFlush, ReadFromRead
<1>1. /\ buf \in Seq(Nat) /\ todo = <<>> /\ Queue \in Seq(Nat)
      /\ err = "nil" => Queue = buf
      /\ fseq \in Nat /\ seqno \in Nat
  BY <1>0, BytesTyped DEF RefInv, LoopState, WriterInv, TypeOK
<1>n. 0 \in Nat /\ Fresh(0) = <<>> /\ (seqno' = seqno => seqno' = seqno + 0)
  BY <1>1 DEF Fresh
<1>2. ret.fn # "Reset"
  BY <1>0 DEF RefInv, LoopState, NoCall
<1>3. CASE ReadFromGrow
  BY <1>3 DEF ReadFromGrow, Stream!vars
<1>4. CASE ReadFromFlush
  <2>1. todo' = <<>> /\ ret'.fn # "Reset" /\ seqno' = seqno
    BY <1>1, <1>2, <1>4 DEF ReadFromFlush, Return
  <2>2. CASE err # "nil"
    <3>1. UNCHANGED <<buf, fseq, err, wire>>
      BY <1>4, <2>2 DEF ReadFromFlush
    <3>2. QED
      BY <2>1, <2>2, <3>1, NothingTaken
  <2>3. CASE err = "nil"
    <3>1. PICK e \in Outcomes : SendFragment(buf, e)
      BY <1>4, <2>3 DEF ReadFromFlush
    <3>2. fseq' > 0
      BY <1>1, <3>1 DEF SendFragment
    <3>3. e = "nil" => Queue' = <<>>
      <4>1. <<>> \o <<>> = <<>>
        BY EmptyIsNeutral
      <4>2. QED
        BY <2>1, <3>1, <4>1 DEF SendFragment, Queue
    <3>4. e = "nil" => buf \o Queue' = Queue \o Fresh(0)
      BY <1>1, <1>n, <2>3, <3>3, EmptyIsNeutral
    <3>5. QED
      BY <1>1, <1>n, <2>1, <2>3, <3>1, <3>2, <3>4, TransmitRefines
         DEF SendFragment
  <2>4. QED
    BY <2>2, <2>3
<1>5. CASE ReadFromRead
  <2>1. PICK k \in 0..MaxArg : buf' = buf \o Fresh(k) /\ seqno' = seqno + k
    BY <1>5 DEF ReadFromRead
  <2>2. UNCHANGED <<wire, err, fseq, todo>> /\ ret'.fn # "Reset"
    BY <1>2, <1>5 DEF ReadFromRead, Return
  <2>3. Fresh(k) \in Seq(Nat)
    BY WriterConstants, FreshTyped DEF RefInv, WriterInv
  <2>4. buf \o Fresh(k) \in Seq(Nat)
    BY <1>1, <2>3
  <2>5. err = "nil" => Queue' = buf \o Fresh(k)
    BY <1>1, <2>1, <2>2, <2>4, EmptyIsNeutral DEF Queue
  <2>6. err = "nil" => Queue' = Queue \o Fresh(k)
    BY <1>1, <2>5
  <2>7. k \in Nat
    BY WriterConstants
  <2>8. QED
    BY <2>1, <2>2, <2>6, <2>7, QuietRefines
<1>6. QED
  BY <1>3, <1>4, <1>5 DEF ReadFromStep

(* What holds when a call is made. *)
LEMMA IdleState ==
  ASSUME RefInv, pc = "idle"
  PROVE  /\ buf \in Seq(Nat) /\ todo = <<>> /\ Queue \in Seq(Nat)
         /\ err = "nil" => Queue = buf
         /\ fseq \in Nat /\ TypeOK
BY BytesTyped DEF RefInv, LoopState, WriterInv, TypeOK

LEMMA SendCallRefines ==
  ASSUME RefInv, Flush \/ FlushFragment \/ \E k \in 0..MaxArg : WriteThrough(k)
  PROVE  Stream!Next \/ UNCHANGED Stream!vars
<1> USE DEF options
<1>1. /\ buf \in Seq(Nat) /\ todo = <<>> /\ Queue \in Seq(Nat)
      /\ err = "nil" => Queue = buf
      /\ fseq \in Nat /\ TypeOK
  BY IdleState DEF Flush, FlushFragment, WriteThrough, MayCall
<1>2. todo' = <<>> /\ ret'.fn # "Reset"
  <2>1. CASE Flush
    <3>1. \E e : Returns("Flush", e)
      BY <2>1, Zenon DEF Flush
    <3>2. QED
      BY <1>1, <3>1 DEF Returns, Return
  <2>2. CASE FlushFragment
    BY <1>1, <2>2 DEF FlushFragment, Returns, Return
  <2>3. CASE \E k \in 0..MaxArg : WriteThrough(k)
    <3>1. PICK k \in 0..MaxArg : WriteThrough(k)
      BY <2>3
    <3>2. UNCHANGED todo
      BY <3>1 DEF WriteThrough, Returns
    <3>3. ret'.fn = "WriteThrough"
      BY <3>1 DEF WriteThrough, Returns, Return
    <3>4. QED
      BY <1>1, <3>2, <3>3
  <2>4. QED
    BY <2>1, <2>2, <2>3
<1>3. /\ <<>> \o <<>> = <<>>
      /\ 0 \in Nat /\ Fresh(0) = <<>> /\ (seqno' = seqno => seqno' = seqno + 0)
  BY <1>1, EmptyIsNeutral DEF TypeOK, Fresh
<1>4. CASE UNCHANGED <<buf, fseq, err, wire, seqno>>
  <2>1. err = "nil" => Queue' = Queue
    BY <1>1, <1>2, <1>4 DEF Queue
  <2>2. QED
    BY <1>2, <1>4, <2>1, NothingTaken
<1>5. ASSUME err = "nil", NEW e \in Outcomes, NEW fin \in BOOLEAN,
             Transmit(fin, buf, e), err' = e, buf' = <<>>, seqno' = seqno,
             fseq' > 0 <=> ~fin
      PROVE  Stream!Next
  <2>1. e = "nil" => Queue' = <<>>
    BY <1>2, <1>3, <1>5 DEF Queue
  <2>2. e = "nil" => buf \o Queue' = Queue \o Fresh(0)
    BY <1>1, <1>3, <1>5, <2>1, EmptyIsNeutral
  <2>3. QED
    BY <1>1, <1>2, <1>3, <1>5, <2>1, <2>2, TransmitRefines
<1>6. CASE Flush
  <2>1. ASSUME err = "nil", NEW e \in Outcomes, Transmit(TRUE, buf, e),
               err' = e, buf' = <<>>, fseq' = 0, seqno' = seqno
        PROVE  Stream!Next
    <3>1. fseq' > 0 <=> ~TRUE
      BY <2>1
    <3>2. QED
      BY <1>5, <2>1, <3>1
  <2>2. QED
    BY <1>4, <1>6, <2>1 DEF Flush
<1>7. CASE FlushFragment
  <2>1. ASSUME err = "nil", NEW e \in Outcomes, SendFragment(buf, e),
               seqno' = seqno
        PROVE  Stream!Next
    <3>1. fseq' > 0 <=> ~FALSE
      BY <1>1, <2>1 DEF SendFragment
    <3>2. QED
      BY <1>5, <2>1, <3>1 DEF SendFragment
  <2>2. QED
    BY <1>4, <1>7, <2>1 DEF FlushFragment
<1>8. CASE \E k \in 0..MaxArg : WriteThrough(k)
  <2>1. PICK k \in 0..MaxArg : WriteThrough(k)
    BY <1>8
  <2>2. UNCHANGED buf
    BY <2>1 DEF WriteThrough
  <2>3. ASSUME err = "nil", Buffered = 0,
               NEW e \in Outcomes, SendThrough(Fresh(k), e),
               seqno' = IF e = "ext" THEN seqno ELSE seqno + k
        PROVE  Stream!Next
    <3>1. buf = <<>> /\ Queue = <<>>
      BY <1>1, <2>3 DEF Buffered
    <3>2. CASE e = "ext"
      <4>1. UNCHANGED <<wire, err, fseq, buf, seqno>>
        BY <2>2, <2>3, <3>2 DEF SendThrough, Transmit
      <4>2. err = "nil" => Queue' = Queue
        BY <1>1, <1>2, <4>1 DEF Queue
      <4>3. QED
        BY <1>2, <4>1, <4>2, NothingTaken
    <3>3. CASE e # "ext"
      <4>1. Transmit(FALSE, Fresh(k), e) /\ err' = e /\ fseq' = fseq + 1
        BY <2>3, <3>3 DEF SendThrough
      <4>2. fseq' > 0
        BY <1>1, <4>1
      <4>3. Fresh(k) \in Seq(Nat)
        BY <1>1, WriterConstants, FreshTyped
      <4>4. e = "nil" => Queue' = <<>>
        BY <1>2, <1>3, <2>2, <3>1 DEF Queue
      <4>5. e = "nil" => Fresh(k) \o Queue' = Queue \o Fresh(k)
        BY <3>1, <4>3, <4>4, EmptyIsNeutral
      <4>6. k \in Nat /\ seqno' = seqno + k
        BY <2>3, <3>3, WriterConstants
      <4>7. QED
        BY <1>2, <2>3, <4>1, <4>2, <4>3, <4>5, <4>6, TransmitRefines
    <3>4. QED
      BY <3>2, <3>3
  <2>4. QED
    BY <1>4, <2>1, <2>3 DEF WriteThrough
<1>9. QED
  BY <1>6, <1>7, <1>8

LEMMA ResetRefines ==
  ASSUME RefInv, Reset \/ ResetOp
  PROVE  Stream!Next
<1>1. todo = <<>>
  BY DEF RefInv, LoopState, Reset, ResetOp
<1>2. /\ buf' = <<>> /\ todo' = <<>> /\ fseq' = 0
      /\ ret'.fn = "Reset" /\ seqno' = seqno
      /\ err' = err /\ wire' \in {wire, <<>>}
  BY <1>1 DEF Reset, ResetOp, ForgetMessage, Returns, Return
<1>3. Queue' = <<>>
  BY <1>2, EmptyIsNeutral DEF Queue
<1>4. (ret.fn = "Reset")' /\ ~(err = "nil" /\ fseq > 0)'
      /\ (err # "nil")' = (err # "nil")
  BY <1>2
<1>5. QED
  BY <1>2, <1>3, <1>4 DEF Stream!Next, Stream!Discard, Queue

LEMMA NextRefines ==
  ASSUME RefInv, [Next]_vars
  PROVE  [Stream!Next]_Stream!vars
<1> USE DEF options
<1>1. CASE \E k \in 0..MaxArg : WriteCall(k)
  <2>1. PICK k \in 0..MaxArg : WriteCall(k)
    BY <1>1
  <2>2. /\ buf \in Seq(Nat) /\ todo = <<>>
        /\ err = "nil" => Queue = buf
        /\ TypeOK
    BY <2>1, IdleState DEF WriteCall, MayCall
  <2>3. Fresh(k) \in Seq(Nat)
    BY <2>2, WriterConstants, FreshTyped
  <2>4. err = "nil" => Queue' = buf \o Fresh(k)
    BY <2>1 DEF WriteCall, Queue
  <2>5. err = "nil" => Queue' = Queue \o Fresh(k)
    BY <2>2, <2>4
  <2>6. UNCHANGED <<wire, err, fseq>> /\ ret'.fn # "Reset"
        /\ seqno' = seqno + k
    BY <2>1 DEF WriteCall, NoCall
  <2>7. k \in Nat
    BY WriterConstants
  <2>8. QED
    BY <2>5, <2>6, <2>7, QuietRefines
<1>2. CASE ReadFromCall \/ DisableFlush \/ SetExtensions \/ Grow
  <2>1. UNCHANGED <<wire, err, fseq, buf, todo, seqno>> /\ ret'.fn # "Reset"
    BY <1>2 DEF ReadFromCall, DisableFlush, SetExtensions, Grow, NoCall,
                Returns, Return
  <2>2. Queue' = Queue /\ Queue \in Seq(Nat)
    BY <2>1, BytesTyped DEF Queue
  <2>3. QED
    BY <2>1, <2>2, NothingTaken
<1>3. CASE UNCHANGED vars
  BY <1>3 DEF vars, Stream!vars
<1>4. QED
  BY <1>1, <1>2, <1>3, WriteStepRefines, ReadFromStepRefines,
     SendCallRefines, ResetRefines DEF Next

(***************************************************************************)
(* The writer implements the message stream: whatever the sizes of its     *)
(* buffer and of the calls, and wherever the destination, the source or an *)
(* extension fails, the bytes it took are sent once and in order and no    *)
(* others are, unless they are abandoned by a Reset or a failure, each     *)
(* message opened by its opcode and continued until its last frame.        *)
(***************************************************************************)
THEOREM WriterImplementsStream == Spec => StreamSpec
<1>1. Init => Stream!Init
  BY EmptyIsNeutral DEF Init, Stream!Init, NoCall
<1>2. Init => RefInv
  BY InvInit, LoopStateInit DEF RefInv
<1>3. RefInv /\ [Next]_vars => RefInv'
  BY InvNext, LoopStateNext DEF RefInv
<1>4. RefInv /\ [Next]_vars => [Stream!Next]_Stream!vars
  BY NextRefines
<1>5. QED
  BY <1>1, <1>2, <1>3, <1>4, PTL DEF Spec, StreamSpec, Stream!Spec

-----------------------------------------------------------------------------
(***************************************************************************)
(* What WriteReturns rests on: how often the loop of Write goes round.     *)
(***************************************************************************)

(* The steps until the call returns: a filled buffer is sent and leaves an
   empty one, which is bypassed; a buffer that must not be sent grows until
   everything fits. *)
WriteLeft ==
  CASE pc # "write" -> 0
    [] pc = "write" /\ ~WriteLoops -> 1
    [] WriteLoops /\ (noFlush \/ Buffered = 0) -> 2
    [] WriteLoops /\ ~noFlush /\ Buffered > 0 -> 3

(* A Write returns after at most three steps, whatever the sizes of its
   argument and of the buffer, unless an extension fails while an empty buffer
   is bypassed: then the error is not kept and the loop goes round for ever
   (src/msutil/writer.go:394). *)
THEOREM WriteIsShort ==
  Spec => /\ [](WriteLeft \in 0..3)
          /\ [][WriteStep /\ ~ext => WriteLeft' < WriteLeft]_vars
<1>1. WriterInv => WriteLeft \in 0..3
  <2> SUFFICES ASSUME WriterInv PROVE WriteLeft \in 0..3
    OBVIOUS
  <2>1. Buffered \in Nat
    BY SizesTyped DEF Buffered
  <2>2. noFlush \in BOOLEAN
    BY WriterConstants DEF WriterInv, TypeOK
  <2>3. WriteLoops => pc = "write"
    BY DEF WriteLoops
  <2>4. QED
    BY <2>1, <2>2, <2>3 DEF WriteLeft
<1>2. ASSUME WriterInv, WriteStep, ~ext
      PROVE  WriteLeft' < WriteLeft
  <2>1. CASE WriteExit
    <3>1. WriteLeft = 1
      BY <2>1 DEF WriteExit, WriteLeft, WriteLoops
    <3>2. WriteLeft' = 0
      BY <2>1 DEF WriteExit, WriteLeft, Return, WriteLoops
    <3>3. QED
      BY <3>1, <3>2
  <2>2. CASE WriteGrow
    <3>1. WriteLeft = 2
      BY <2>2 DEF WriteGrow, WriteLeft, WriteLoops
    <3>2. Len(todo) \in Nat
      BY <1>2 DEF WriterInv, TypeOK
    <3>3. raw' - Reserve(client, raw') - Len(buf) >= Len(todo)
      BY <1>2, <2>2, <3>2, GrowKeepsRoom DEF WriterInv, WriteGrow, options
    <3>4. raw' \in Nat /\ client \in BOOLEAN /\ Len(buf) \in Nat
      BY <1>2, <2>2, <3>2, GrowKeepsRoom, SizesTyped DEF WriterInv, WriteGrow, options
    <3>5. Reserve(client, raw') \in Nat
      BY <3>4, ReserveNat
    <3>6. ~(Len(todo) > raw' - Reserve(client, raw') - Len(buf))
      BY <3>2, <3>3, <3>4, <3>5
    <3>7. ~WriteLoops' /\ pc' = "write"
      BY <2>2, <3>6
         DEF WriteGrow, WriteLoops, Available, Size, Buffered, options
    <3>8. WriteLeft' = 1
      BY <3>7 DEF WriteLeft
    <3>9. QED
      BY <3>1, <3>8
  <2>3. CASE WriteDirect
    <3>1. WriteLeft = 2
      BY <2>3 DEF WriteDirect, WriteLeft, WriteLoops
    <3>2. PICK e \in Outcomes :
            SendThrough(todo, e) /\ todo' = IF e = "nil" THEN <<>> ELSE todo
      BY <2>3 DEF WriteDirect, Bypass
    <3>3. e = "nil" => Len(todo') = 0
      BY <3>2
    <3>4. e # "nil" => err' # "nil"
      BY <1>2, <3>2 DEF Outcomes, SendThrough
    <3>5. Available' = Available /\ Available \in Nat
      BY <1>2, <2>3, SizesTyped
         DEF WriteDirect, Bypass, Available, Size, Buffered, options
    <3>6. ~WriteLoops' /\ pc' = "write"
      BY <2>3, <3>3, <3>4, <3>5 DEF WriteDirect, Bypass, WriteLoops
    <3>7. WriteLeft' = 1
      BY <3>6 DEF WriteLeft
    <3>8. QED
      BY <3>1, <3>7
  <2>4. CASE WriteFill
    <3>1. WriteLeft = 3
      BY <2>4 DEF WriteFill, WriteLeft, WriteLoops
    <3>2. buf' = <<>> /\ pc' = "write" /\ noFlush' = noFlush
      BY <2>4 DEF WriteFill, WriteLoops, SendFragment, options
    <3>3. Buffered' = 0
      BY <3>2 DEF Buffered
    <3>4. WriteLeft' \in {1, 2}
      BY <3>2, <3>3 DEF WriteLeft
    <3>5. QED
      BY <3>1, <3>4
  <2>5. QED
    BY <1>2, <2>1, <2>2, <2>3, <2>4 DEF WriteStep
<1>3. WriterInv /\ [Next]_vars
        => [WriteStep /\ ~ext => WriteLeft' < WriteLeft]_vars
  BY <1>2
<1>4. QED
  BY <1>1, <1>3, InvInit, InvNext, PTL DEF Spec

(* That loop: with such an extension and an empty buffer the only step of
   Write changes nothing (src/msutil/writer.go:302). *)
THEOREM WriteSpins ==
  ASSUME WriteLoops, ~noFlush, Buffered = 0, ext, WriteStep
  PROVE  WriteDirect /\ UNCHANGED vars
<1>1. WriteDirect
  BY DEF WriteStep, WriteGrow, WriteFill, WriteExit
<1>2. PICK e \in Outcomes :
        SendThrough(todo, e) /\ todo' = IF e = "nil" THEN <<>> ELSE todo
  BY <1>1 DEF WriteDirect, Bypass
<1>3. e = "ext"
  BY DEF Outcomes
<1>4. UNCHANGED <<wire, err, dirty, fseq, todo>>
  BY <1>2, <1>3 DEF SendThrough, Transmit
<1>5. QED
  BY <1>1, <1>4 DEF WriteDirect, Bypass, options, vars
=============================================================================
