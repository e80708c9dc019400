-------------------------------- MODULE Writer --------------------------------
(***************************************************************************)
(* The buffered message writer of src/msutil/writer.go.                    *)
(*                                                                         *)
(* Calls are made one at a time.  Write and ReadFrom are loops that may    *)
(* send several frames and meet failures between them, so they take one    *)
(* step per iteration; every other method is one step.  A byte is the      *)
(* number of its acceptance (1, 2, ...), so that bytes can be told apart;  *)
(* the bits of a header other than opcode and fin, and the masking of the  *)
(* payload, are left out.                                                  *)
(***************************************************************************)
EXTENDS FrameHeader, Sequences

CONSTANTS
  DataOps,         \* the opcodes a message may be sent with
  OpContinuation,  \* the opcode of the second and later frames of a message
  Sides,           \* subset of BOOLEAN: TRUE is a client, which masks
  RawSizes,        \* sizes of the buffers given to NewWriterBuffer
  PowersOfTwo,     \* what ceilPowerOfTwo can return without overflow
  Exts,            \* subset of BOOLEAN: TRUE is an extension list of which one
                   \* element's SetBits returns an error
  DestFails,       \* the destination may fail
  SrcFails,        \* the source of ReadFrom may fail
  MaxArg,          \* bound: bytes in the argument of one call
  MaxBytes,        \* bound: bytes given to the writer in one behaviour
  MaxFrames        \* bound: no call starts with this many frames on the wire

ASSUME WriterConstants ==
  /\ OpContinuation \notin DataOps
  /\ DataOps # {}
  /\ Sides \subseteq BOOLEAN
  /\ RawSizes \subseteq Nat
  /\ Exts \subseteq BOOLEAN
  /\ DestFails \in BOOLEAN
  /\ SrcFails \in BOOLEAN
  /\ MaxArg \in Nat
  /\ MaxBytes \in Nat
  /\ MaxFrames \in Nat

(* Powers of two are the least set with 1 that is closed under doubling. *)
ASSUME Powers ==
  /\ PowersOfTwo \subseteq Nat
  /\ \A p \in PowersOfTwo : p = 1 \/ \E q \in PowersOfTwo : p = 2 * q

VARIABLES
  op, client, noFlush, ext,
  raw,      \* len(w.raw), the reserved header bytes included
  buf,      \* w.buf[:w.n], the buffered bytes
  dirty,
  fseq,
  err,      \* w.err: "nil", "io" from the destination, "ext" from SetBits
  pc,       \* the loop being executed, or "idle"
  todo,     \* what is left of Write's argument p
  ret,      \* the last call that returned, and the error it gave
  wire,     \* the frames the current destination has received
  cuts,     \* lengths of wire at which the caller reset an unfinished message
  seqno     \* the number of bytes the writer has taken from its caller

options == <<op, client, noFlush, ext>>
vars == <<op, client, noFlush, ext, raw, buf, dirty, fseq, err,
          pc, todo, ret, wire, cuts, seqno>>

NoCall == [fn |-> "none", err |-> "nil"]

Frames == [op : DataOps \cup {OpContinuation}, fin : BOOLEAN,
           data : Seq(Nat), whole : BOOLEAN]

Buffered == Len(buf)
Size == raw - Reserve(client, raw)
Available == Size - Buffered

(* k bytes never given to the writer before. *)
Fresh(k) == [i \in 1..k |-> seqno + i]
Take(s, k) == SubSeq(s, 1, k)
Drop(s, k) == SubSeq(s, k + 1, Len(s))

\* Mutant: the second frame of a message is taken for the first.
OpCodeLate == IF fseq > 1 THEN OpContinuation ELSE op

OpCode == IF fseq > 0 THEN OpContinuation ELSE op

(* NewWriterBuffer panics unless the buffer has room beyond the header. *)
Init ==
  /\ op \in DataOps
  /\ client \in Sides
  /\ raw \in {size \in RawSizes : size > Reserve(client, size)}
  /\ noFlush = FALSE
  /\ ext = FALSE
  /\ buf = <<>>
  /\ dirty = FALSE
  /\ fseq = 0
  /\ err = "nil"
  /\ pc = "idle"
  /\ todo = <<>>
  /\ ret = NoCall
  /\ wire = <<>>
  /\ cuts = {}
  /\ seqno = 0

-----------------------------------------------------------------------------
(* Sending one frame. *)

(* What building a frame and writing it to the destination can come to. *)
Outcomes ==
  IF ext THEN {"ext"} ELSE {"nil"} \cup (IF DestFails THEN {"io"} ELSE {})

(* The frame is on the wire, or no part of it is, or some part of it is: a
   destination that fails may have taken any number of the bytes, in the one
   write of flushFragment or in the two of WriteFrame. *)
Transmit(fin, data, e) ==
  LET frame(whole) ==
        [op |-> OpCode, fin |-> fin, data |-> data, whole |-> whole]
  IN  CASE e = "nil" -> wire' = Append(wire, frame(TRUE))
        [] e = "io"  -> wire' \in {wire, Append(wire, frame(FALSE))}
        [] e = "ext" -> wire' = wire

\* Mutant: the buffer is not emptied, and goes again with the next frame.
SendFragmentKept(data, e) ==
  /\ e \in Outcomes
  /\ Transmit(FALSE, data, e)
  /\ err' = e
  /\ buf' = IF e = "nil" THEN buf ELSE <<>>
  /\ fseq' = fseq + 1

(* FlushFragment past its early return, with what copy put in the buffer. *)
SendFragment(data, e) ==
  /\ e \in Outcomes
  /\ Transmit(FALSE, data, e)
  /\ err' = e
  /\ buf' = <<>>
  /\ fseq' = fseq + 1

(* WriteThrough past its early returns.  The error of SetBits is returned
   and not kept: nothing of the writer changes. *)
SendThrough(data, e) ==
  /\ e \in Outcomes
  /\ Transmit(FALSE, data, e)
  /\ IF e = "ext"
     THEN UNCHANGED <<err, dirty, fseq>>
     ELSE err' = e /\ dirty' = TRUE /\ fseq' = fseq + 1

-----------------------------------------------------------------------------
(* Growing the buffer. *)

CeilPowerOfTwo(n) ==
  CHOOSE p \in PowersOfTwo :
    n < p /\ \A q \in PowersOfTwo : n < q => p <= q

Fits(size, n) == size - Reserve(client, size) - Buffered >= n

(* One iteration of Grow's loop.  A bigger size may need a bigger header,
   which may take the room just made, so the loop may run again; there are
   three header sizes, so not more than three times. *)
Refit(size, n) ==
  IF Fits(size, n) THEN size
  ELSE CeilPowerOfTwo(Reserve(client, size) + Buffered + n)

\* Mutant: the growth of the header is not made up for.
GrownOnce(n) == Refit(raw, n)

GrownSize(n) == Refit(Refit(Refit(raw, n), n), n)

(* A size no power of two of the machine can hold is not allocated: make
   panics. *)
GrowBy(n) ==
  /\ GrownSize(n) \in {raw} \cup PowersOfTwo
  /\ Fits(GrownSize(n), n)
  /\ raw' = GrownSize(n)

-----------------------------------------------------------------------------
(* Calls. *)

MayCall == pc = "idle" /\ Len(wire) < MaxFrames
MayGive(k) == k \in 0..MaxArg /\ seqno + k <= MaxBytes

Return(fn, e) == pc' = "idle" /\ ret' = [fn |-> fn, err |-> e]

(* The calls that are one step leave the loops' state alone. *)
Returns(fn, e) == Return(fn, e) /\ UNCHANGED todo

WriteCall(k) ==
  /\ MayCall
  /\ MayGive(k)
  /\ pc' = "write"
  /\ ret' = NoCall
  /\ todo' = Fresh(k)
  /\ seqno' = seqno + k
  /\ dirty' = TRUE
  /\ UNCHANGED <<options, raw, buf, fseq, err, wire, cuts>>

\* Mutant: the loop does not look at the error.
WriteLoopsOn == pc = "write" /\ Len(todo) > Available

WriteLoops == pc = "write" /\ Len(todo) > Available /\ err = "nil"

WriteGrow ==
  /\ WriteLoops
  /\ noFlush
  /\ GrowBy(Len(todo))
  /\ UNCHANGED <<options, buf, dirty, fseq, err, pc, todo, ret, wire, cuts,
                 seqno>>

(* What WriteThrough did not send stays to do. *)
Bypass ==
  /\ \E e \in Outcomes :
       /\ SendThrough(todo, e)
       /\ todo' = IF e = "nil" THEN <<>> ELSE todo
  /\ UNCHANGED <<options, raw, buf, pc, ret, cuts, seqno>>

\* Mutant: the empty buffer is looked at before noFlush.
WriteDirectFirst == WriteLoops /\ Buffered = 0 /\ Bypass

(* An empty buffer is bypassed. *)
WriteDirect == WriteLoops /\ ~noFlush /\ Buffered = 0 /\ Bypass

WriteFill ==
  /\ WriteLoops
  /\ ~noFlush
  /\ Buffered > 0
  /\ todo' = Drop(todo, Available)
  /\ \E e \in Outcomes : SendFragment(buf \o Take(todo, Available), e)
  /\ UNCHANGED <<options, raw, dirty, pc, ret, cuts, seqno>>

WriteExit ==
  /\ pc = "write"
  /\ ~WriteLoops
  /\ buf' = IF err = "nil" THEN buf \o todo ELSE buf
  /\ todo' = <<>>
  /\ Return("Write", err)
  /\ UNCHANGED <<options, raw, dirty, fseq, err, wire, cuts, seqno>>

WriteStep == WriteGrow \/ WriteDirect \/ WriteFill \/ WriteExit

WriteThrough(k) ==
  /\ MayCall
  /\ MayGive(k)
  /\ \/ /\ err # "nil"
        /\ Returns("WriteThrough", err)
        /\ UNCHANGED <<dirty, fseq, err, wire, seqno>>
     \/ /\ err = "nil"
        /\ Buffered # 0
        /\ Returns("WriteThrough", "ErrNotEmpty")
        /\ UNCHANGED <<dirty, fseq, err, wire, seqno>>
     \/ /\ err = "nil"
        /\ Buffered = 0
        /\ \E e \in Outcomes :
             /\ SendThrough(Fresh(k), e)
             /\ Returns("WriteThrough", e)
             /\ seqno' = IF e = "ext" THEN seqno ELSE seqno + k
  /\ UNCHANGED <<options, raw, buf, cuts>>

ReadFromCall ==
  /\ MayCall
  /\ pc' = "readfrom"
  /\ ret' = NoCall
  /\ UNCHANGED <<options, raw, buf, dirty, fseq, err, todo, wire, cuts, seqno>>

(* A full buffer makes room before the source is asked for more. *)
ReadFromGrow ==
  /\ pc = "readfrom"
  /\ Available = 0
  /\ noFlush
  /\ GrowBy(Buffered)
  /\ UNCHANGED <<options, buf, dirty, fseq, err, pc, todo, ret, wire, cuts,
                 seqno>>

ReadFromFlush ==
  /\ pc = "readfrom"
  /\ Available = 0
  /\ ~noFlush
  /\ IF err # "nil"
     THEN Return("ReadFrom", err) /\ UNCHANGED <<buf, fseq, err, wire>>
     ELSE \E e \in Outcomes :
            /\ SendFragment(buf, e)
            /\ IF e = "nil" THEN UNCHANGED <<pc, ret>>
               ELSE Return("ReadFrom", e)
  /\ UNCHANGED <<options, raw, dirty, todo, cuts, seqno>>

(* The source gives k bytes, and with them or instead of them its end or an
   error; after a hundred reads of nothing it is given up. *)
ReadFromRead ==
  /\ pc = "readfrom"
  /\ Available > 0
  /\ \E k \in 0..MaxArg :
       /\ k <= Available
       /\ MayGive(k)
       /\ buf' = buf \o Fresh(k)
       /\ seqno' = seqno + k
       /\ \/ /\ k > 0
             /\ UNCHANGED <<pc, ret, dirty>>
          \/ /\ Return("ReadFrom", "nil")      \* io.EOF
             /\ dirty' = TRUE
          \/ /\ SrcFails
             /\ \/ Return("ReadFrom", "src")
                \/ k = 0 /\ Return("ReadFrom", "ErrNoProgress")
             /\ UNCHANGED dirty
  /\ UNCHANGED <<options, raw, fseq, err, todo, wire, cuts>>

ReadFromStep == ReadFromGrow \/ ReadFromFlush \/ ReadFromRead

\* Mutant: an error kept from an earlier call is not looked at.
FlushAgain ==
  /\ MayCall
  /\ \/ /\ ~dirty /\ Buffered = 0
        /\ Returns("Flush", err)
        /\ UNCHANGED <<buf, dirty, fseq, err, wire>>
     \/ /\ dirty \/ Buffered > 0
        /\ \E e \in Outcomes :
             /\ Transmit(TRUE, buf, e)
             /\ err' = e
             /\ Returns("Flush", e)
        /\ buf' = <<>>
        /\ dirty' = FALSE
        /\ fseq' = 0
  /\ UNCHANGED <<options, raw, cuts, seqno>>

Flush ==
  /\ MayCall
  /\ \/ /\ (~dirty /\ Buffered = 0) \/ err # "nil"
        /\ Returns("Flush", err)
        /\ UNCHANGED <<buf, dirty, fseq, err, wire>>
     \/ /\ dirty \/ Buffered > 0
        /\ err = "nil"
        /\ \E e \in Outcomes :
             /\ Transmit(TRUE, buf, e)
             /\ err' = e
             /\ Returns("Flush", e)
        /\ buf' = <<>>
        /\ dirty' = FALSE
        /\ fseq' = 0
  /\ UNCHANGED <<options, raw, cuts, seqno>>

FlushFragment ==
  /\ MayCall
  /\ \/ /\ Buffered = 0 \/ err # "nil"
        /\ Returns("FlushFragment", err)
        /\ UNCHANGED <<buf, fseq, err, wire>>
     \/ /\ Buffered > 0
        /\ err = "nil"
        /\ \E e \in Outcomes :
             SendFragment(buf, e) /\ Returns("FlushFragment", e)
  /\ UNCHANGED <<options, raw, dirty, cuts, seqno>>

\* Mutant: the opcode is cleared with the rest.
ForgetOp(o) ==
  /\ op' = OpContinuation
  /\ buf' = <<>>
  /\ dirty' = FALSE
  /\ fseq' = 0
  /\ Returns("Reset", "nil")

(* What Reset and ResetOp share. *)
ForgetMessage(o) ==
  /\ op' = o
  /\ buf' = <<>>
  /\ dirty' = FALSE
  /\ fseq' = 0
  /\ Returns("Reset", "nil")

(* A message has begun on the wire, and neither ended nor been reset. *)
MessageOpen ==
  /\ wire # <<>>
  /\ ~wire[Len(wire)].fin
  /\ Len(wire) \notin cuts

(* A reset leaves the message unfinished on a destination that stays. *)
Cut == cuts' = IF MessageOpen THEN cuts \cup {Len(wire)} ELSE cuts

ResetOp ==
  /\ pc = "idle"
  /\ \E o \in DataOps : ForgetMessage(o)
  /\ Cut
  /\ UNCHANGED <<client, noFlush, ext, raw, err, wire, seqno>>

(* Reset to the same destination, or to a new one.  err stays as it is. *)
Reset ==
  /\ pc = "idle"
  /\ \E o \in DataOps, c \in Sides :
       /\ raw > Reserve(c, raw)
       /\ ForgetMessage(o)
       /\ client' = c
  /\ noFlush' = FALSE
  /\ ext' = FALSE
  /\ \/ wire' = wire /\ Cut
     \/ wire' = <<>> /\ cuts' = {}
  /\ UNCHANGED <<raw, err, seqno>>

DisableFlush ==
  /\ pc = "idle"
  /\ noFlush' = TRUE
  /\ Returns("DisableFlush", "nil")
  /\ UNCHANGED <<op, client, ext, raw, buf, dirty, fseq, err, wire, cuts, seqno>>

SetExtensions ==
  /\ pc = "idle"
  /\ ext' \in Exts
  /\ Returns("SetExtensions", "nil")
  /\ UNCHANGED <<op, client, noFlush, raw, buf, dirty, fseq, err, wire, cuts,
                 seqno>>

Grow ==
  /\ pc = "idle"
  /\ \E n \in 0..MaxArg : GrowBy(n)
  /\ Returns("Grow", "nil")
  /\ UNCHANGED <<options, buf, dirty, fseq, err, wire, cuts, seqno>>

Next ==
  \/ \E k \in 0..MaxArg : WriteCall(k) \/ WriteThrough(k)
  \/ WriteStep
  \/ ReadFromCall
  \/ ReadFromStep
  \/ Flush
  \/ FlushFragment
  \/ ResetOp
  \/ Reset
  \/ DisableFlush
  \/ SetExtensions
  \/ Grow

(* A call runs until it returns: nothing but the destination can hold it,
   and a destination that does not answer is not modelled. *)
Fairness == WF_vars(WriteStep)

Spec == Init /\ [][Next]_vars /\ Fairness

-----------------------------------------------------------------------------
(* Properties. *)

TypeOK ==
  /\ op \in DataOps
  /\ client \in Sides
  /\ noFlush \in BOOLEAN
  /\ ext \in Exts \cup {FALSE}
  /\ raw \in Nat
  /\ buf \in Seq(Nat)
  /\ dirty \in BOOLEAN
  /\ fseq \in Nat
  /\ err \in {"nil", "io", "ext"}
  /\ pc \in {"idle", "write", "readfrom"}
  /\ todo \in Seq(Nat)
  /\ wire \in Seq(Frames)
  /\ cuts \subseteq Nat
  /\ seqno \in Nat

(* A full buffer's header fits in the bytes reserved in front of it, so that
   flushFragment never starts before the raw buffer (skip >= 0, "Must never
   be reached"), after any growth and any change of side. *)
HeaderRoom ==
  /\ Size > 0
  /\ Buffered <= Size
  /\ HeaderSize(client, Size) <= Reserve(client, raw)

(* A frame is a continuation exactly when the frame before it began or went
   on with a message that is neither finished nor reset: opCode, which looks
   only at fseq, agrees with what the peer has seen. *)
Protocol ==
  \A i \in 1..Len(wire) :
    wire[i].op = OpContinuation <=>
      i > 1 /\ ~wire[i - 1].fin /\ i - 1 \notin cuts

(* Nothing follows a frame that the destination took only a part of: the
   peer would take it for the rest of the payload. *)
TornFrameLast ==
  \A i \in 1..Len(wire) : ~wire[i].whole => i = Len(wire) /\ err # "nil"

(* "DisableFlush denies Writer to write fragments": while it holds, no loop
   of Write or ReadFrom sends anything. *)
NoFragments == [][noFlush /\ pc # "idle" => wire' = wire]_vars

(* An error is kept, and the destination gets nothing after it, until the
   writer is Reset.  What Reset makes of the error is left open: "Reset resets
   Writer as it was created by New() methods" promises that it goes, and the
   code keeps it (README, finding 8). *)
ErrorIsFinal ==
  [][err # "nil" /\ ~Reset => err' = err /\ wire' = wire]_vars

(* A Write returns, however many fragments it takes and wherever they fail,
   when no extension refuses a header. *)
WriteReturns == pc = "write" /\ ~ext ~> pc = "idle"

(* The writer keeps what a message stream promises: the bytes it took are the
   bytes it sends, in order and each once, and no others, until the transport
   fails: whatever is in a frame or in the buffer was in neither before. *)
Stream == INSTANCE OutStream WITH
  offered <- seqno,
  queue <- IF err = "nil" THEN buf \o todo ELSE <<>>,
  open <- err = "nil" /\ fseq > 0,
  log <- wire,
  broken <- err # "nil",
  fresh <- ret.fn = "Reset"

StreamSpec == Stream!Spec
=============================================================================
