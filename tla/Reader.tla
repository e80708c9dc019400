-------------------------------- MODULE Reader --------------------------------
(***************************************************************************)
(* The message reader of src/msutil/reader.go, and its caller.             *)
(*                                                                         *)
(* NextFrame reads the header of a frame; the frame's payload stays in the *)
(* source until Read or Discard takes it, so the reader's idea of what is  *)
(* left has to agree with what is there.  The peer may send any header at  *)
(* any point and any bytes, and the source may end or fail anywhere.  Of   *)
(* the bytes only their role in UTF-8 is kept: complete on their own, the  *)
(* first of two, or the second of two.                                     *)
(*                                                                         *)
(* The caller calls NextFrame between messages, and Read or Discard until  *)
(* the message is over; on an error other than ErrInvalidUTF8 it stops.    *)
(***************************************************************************)
EXTENDS Integers, Sequences

CONSTANTS
  SkipsControl,  \* the caller is the loop of ConnectClient, which goes on to
                 \* the next frame when NextFrame returns a control frame
  ExtFails,      \* an extension's UnsetBits may fail
  MaxLength,     \* bound: bytes in a frame
  MaxFrames      \* bound: frames read in one behaviour

ASSUME ReaderConstants ==
  /\ SkipsControl \in BOOLEAN
  /\ ExtFails \in BOOLEAN
  /\ MaxLength \in Nat
  /\ MaxFrames \in Nat

Bytes == {"ascii", "lead", "tail"}

Headers ==
  [op : {"text", "binary", "continuation", "control"}, fin : BOOLEAN,
   length : 0..MaxLength]

VARIABLES
  checkUTF8,  \* r.CheckUTF8
  frag,       \* r.State is fragmented
  opCode,     \* r.opCode, "none" for 0
  frame,      \* r.frame: "nil", "raw", "utf8"
  rawN,       \* r.raw.N
  utf8,       \* r.utf8.state: "accept", "mid", "reject"
  left,       \* bytes of the current frame that are still in the source
  open,       \* the source is between the frames of a message
  sent,       \* bytes in the data frames of the current message so far
  ended,      \* the source gives nothing more
  frames,     \* headers read
  taken,      \* bytes of the current message that Read took from the source
  got,        \* bytes of it that Read returned
  kind,       \* the opcode of its first frame
  pc,         \* the caller: "between" messages, in a "message", "stopped";
              \* or in a call: "reading", "discarding", "advancing",
              \* "resetting"
  ret         \* what the last call returned

reader == <<frag, opCode, frame, rawN, utf8>>
wire == <<left, open, sent, ended, frames>>
message == <<taken, got, kind>>
vars == <<checkUTF8, reader, wire, message, pc, ret>>

Init ==
  /\ checkUTF8 \in BOOLEAN
  /\ frag = FALSE
  /\ opCode = "none"
  /\ frame = "nil"
  /\ rawN = 0
  /\ utf8 = "accept"
  /\ left = 0
  /\ open = FALSE
  /\ sent = 0
  /\ ended = FALSE
  /\ frames = 0
  /\ taken = <<>>
  /\ got = <<>>
  /\ kind = "none"
  /\ pc = "between"
  /\ ret = "nil"

-----------------------------------------------------------------------------
(* UTF8Reader. *)

(* decode, for sequences of one and two bytes. *)
Decode(state, b) ==
  CASE state = "accept" /\ b = "ascii" -> "accept"
    [] state = "accept" /\ b = "lead"  -> "mid"
    [] state = "mid" /\ b = "tail"     -> "accept"
    [] OTHER                           -> "reject"

(* The state before and after every byte of s. *)
States(state, s) ==
  LET after[i \in 0..Len(s)] ==
        IF i = 0 THEN state ELSE Decode(after[i - 1], s[i])
  IN  after

(* The bytes of s up to the last that ends a sequence, before one that
   cannot be. *)
Accepted(state, s) ==
  LET after == States(state, s)
      ends == {i \in 1..Len(s) :
                 after[i] = "accept" /\ \A j \in 1..i : after[j] # "reject"}
  IN  IF ends = {} THEN 0 ELSE CHOOSE i \in ends : \A j \in ends : j <= i

-----------------------------------------------------------------------------
(* NextFrame. *)

\* Mutant: a message may start with a continuation.
CheckHeaderInside(h) ==
  /\ h.op = "control" => h.fin
  /\ frag => h.op \in {"control", "continuation"}

(* ms.CheckHeader; the length of a control frame and the mask and rsv bits
   are left out. *)
CheckHeader(h) ==
  /\ h.op = "control" => h.fin
  /\ frag => h.op \in {"control", "continuation"}
  /\ ~frag => h.op # "continuation"

(* No header: the source ends before it or in it, or fails.  A source that
   ends after two bytes of a longer header gives io.EOF as well. *)
NoHeader(e) ==
  /\ e \in {IF frag THEN "ErrUnexpectedEOF" ELSE "EOF", "ErrUnexpectedEOF", "io"}
  /\ ended' = TRUE
  /\ UNCHANGED <<reader, left, open, sent, frames, message>>

(* The header h has been read from the source, where a payload follows. *)
HeaderRead(h) ==
  /\ ~ended
  /\ frames < MaxFrames
  /\ frames' = frames + 1
  /\ open' = IF h.op = "control" THEN open ELSE ~h.fin

(* CheckHeader or MaxFrameSize: the frame's payload is left where it is. *)
RefuseHeader(h, e) ==
  /\ HeaderRead(h)
  /\ e = "refused"
  /\ left' = h.length
  /\ UNCHANGED <<reader, sent, ended, message>>

ExtensionFails(h, e) ==
  /\ HeaderRead(h)
  /\ CheckHeader(h)
  /\ ExtFails
  /\ e = "ext"
  /\ rawN' = h.length
  /\ left' = h.length
  /\ UNCHANGED <<frag, opCode, frame, utf8, sent, ended, message>>

\* Mutant: what the handler leaves of the payload is not discarded.
IntermediateLeaves(h, e) ==
  /\ HeaderRead(h)
  /\ CheckHeader(h)
  /\ frag
  /\ h.op = "control"
  /\ e \in {"nil", "handler"} /\ rawN' \in 0..h.length /\ UNCHANGED ended
  /\ left' = rawN'
  /\ UNCHANGED <<frag, opCode, frame, utf8, sent, message>>

(* A control frame between the frames of a message: OnIntermediate reads as
   much as it likes, and what it leaves is discarded unless it fails.  That
   it fails with io.EOF is left out here; module Control shows what comes of
   it with the library's own handler. *)
Intermediate(h, e) ==
  /\ HeaderRead(h)
  /\ CheckHeader(h)
  /\ frag
  /\ h.op = "control"
  /\ \/ e = "nil" /\ rawN' = 0 /\ UNCHANGED ended
     \/ e = "handler" /\ rawN' \in 0..h.length /\ UNCHANGED ended
     \/ e \in {"nil", "handler", "io"} /\ rawN' \in 1..h.length /\ ended' = TRUE
  /\ left' = rawN'
  /\ UNCHANGED <<frag, opCode, frame, utf8, sent, message>>

\* Mutant: the continuations of a text are not looked at.
ReaderOfFirst(h) == IF checkUTF8 /\ h.op = "text" THEN "utf8" ELSE "raw"

ReaderOf(h) ==
  IF checkUTF8 /\ (h.op = "text" \/ (frag /\ opCode = "text"))
  THEN "utf8" ELSE "raw"

\* Mutant: the last frame does not clear the state.
SetFragmented(h) == frag \/ ~h.fin

NowFragmented(h) == ~h.fin

(* Any other frame. *)
DataFrame(h, e) ==
  /\ HeaderRead(h)
  /\ CheckHeader(h)
  /\ ~(frag /\ h.op = "control")
  /\ e = "nil"
  /\ rawN' = h.length
  /\ left' = h.length
  /\ frame' = ReaderOf(h)
  /\ frag' = NowFragmented(h)
  /\ IF frag
     THEN /\ sent' = sent + h.length
          /\ UNCHANGED <<opCode, message>>
     ELSE /\ sent' = h.length
          /\ opCode' = h.op
          /\ kind' = h.op
          /\ taken' = <<>>
          /\ got' = <<>>
  /\ UNCHANGED <<utf8, ended>>

NextFrame(e) ==
  \/ NoHeader(e)
  \/ \E h \in Headers :
       \/ RefuseHeader(h, e)
       \/ ExtensionFails(h, e)
       \/ Intermediate(h, e)
       \/ DataFrame(h, e)

Errors == {"nil", "EOF", "ErrUnexpectedEOF", "io", "refused", "ext", "handler"}

-----------------------------------------------------------------------------
(* Calls. *)

ResetFragment == rawN' = 0 /\ frame' = "nil"

\* Mutant: the state of the UTF8Reader outlives the message.
ResetSource ==
  /\ rawN' = 0
  /\ frame' = "nil"
  /\ utf8' = utf8
  /\ opCode' = "none"

Reset ==
  /\ rawN' = 0
  /\ frame' = "nil"
  /\ utf8' = "accept"
  /\ opCode' = "none"

CallNextFrame ==
  /\ pc = "between"
  /\ \E e \in Errors :
       /\ NextFrame(e)
       /\ ret' = e
       /\ pc' = IF e = "nil" THEN "message" ELSE "stopped"
  /\ UNCHANGED checkUTF8

(* A control frame without payload is not read, and ConnectClient reads
   none. *)
LeaveControl ==
  /\ pc = "message"
  /\ kind = "control"
  /\ rawN = 0 \/ SkipsControl
  /\ ret = "nil"
  /\ pc' = "between"
  /\ UNCHANGED <<checkUTF8, reader, wire, message, ret>>

(* A Read between messages. *)
ReadNothing ==
  /\ pc = "between"
  /\ frame = "nil"
  /\ ret' = "ErrNoFrameAdvance"
  /\ UNCHANGED <<checkUTF8, reader, wire, message, pc>>

(* Read, at the end of a frame that was not the message's last. *)
ReadAdvance ==
  /\ pc = "message"
  /\ frame = "nil"
  /\ \E e \in Errors :
       /\ NextFrame(e)
       /\ ret' = e
       /\ pc' = IF e # "nil" THEN "stopped"
                ELSE IF frame' = "nil" THEN "message" ELSE "reading"
  /\ UNCHANGED checkUTF8

(* Where Read has a frame to read from. *)
ReadGoesOn == pc = "reading" \/ (pc = "message" /\ frame # "nil")

\* Mutant: the end of any frame is the end of the message.
FrameEndsMessage(s, u) ==
  /\ Reset
  /\ got' = got \o s
  /\ ret' = "EOF"
  /\ pc' = "between"

\* Mutant: the UTF8Reader is not asked at the end of the message.
FrameEndsUnchecked(s, u) ==
  \/ /\ frag
     /\ ResetFragment
     /\ UNCHANGED opCode
     /\ utf8' = u
     /\ got' = got \o s
     /\ ret' = "nil"
     /\ pc' = "message"
  \/ /\ ~frag
     /\ Reset
     /\ got' = got \o s
     /\ ret' = "EOF"
     /\ pc' = "between"

(* What Read makes of the end of a frame, when it took s last and left the
   UTF8Reader in the state u. *)
FrameEnds(s, u) ==
  \/ /\ frag
     /\ ResetFragment
     /\ UNCHANGED opCode
     /\ utf8' = u
     /\ got' = got \o s
     /\ ret' = "nil"
     /\ pc' = "message"
  \/ /\ ~frag
     /\ checkUTF8 /\ u # "accept"
     /\ UNCHANGED <<frame, opCode>>
     /\ rawN' = 0
     /\ utf8' = u
     /\ got' = got \o SubSeq(s, 1, Accepted(utf8, s))
     /\ ret' = "ErrInvalidUTF8"
     /\ pc' = "message"
  \/ /\ ~frag
     /\ ~(checkUTF8 /\ u # "accept")
     /\ Reset
     /\ got' = got \o s
     /\ ret' = "EOF"
     /\ pc' = "between"

(* The state of the UTF8Reader after s, when it is what reads. *)
StateAfter(s) == IF frame = "utf8" THEN States(utf8, s)[Len(s)] ELSE utf8

(* The UTF8Reader meets a byte in s that cannot be. *)
Rejects(s) == frame = "utf8" /\ s # <<>> /\ StateAfter(s) = "reject"

ReadRejects(s) ==
  /\ Rejects(s)
  /\ utf8' = "reject"
  /\ got' = got \o SubSeq(s, 1, Accepted(utf8, s))
  /\ rawN' = rawN - Len(s)
  /\ ret' = "ErrInvalidUTF8"
  /\ pc' = "message"
  /\ UNCHANGED <<frame, opCode>>

ReadSome(s) ==
  /\ ~Rejects(s)
  /\ Len(s) < rawN
  /\ utf8' = StateAfter(s)
  /\ got' = got \o s
  /\ rawN' = rawN - Len(s)
  /\ ret' = "nil"
  /\ pc' = "message"
  /\ UNCHANGED <<frame, opCode>>

ReadLast(s) ==
  /\ ~Rejects(s)
  /\ Len(s) = rawN
  /\ FrameEnds(s, StateAfter(s))

(* The source gives some of the frame's bytes, or the frame has none left. *)
ReadBytes ==
  /\ ReadGoesOn
  /\ ~ended \/ rawN = 0
  /\ \E k \in (IF rawN = 0 THEN {0} ELSE 1..rawN) : \E s \in [1..k -> Bytes] :
       /\ left' = left - k
       /\ taken' = taken \o s
       /\ ReadRejects(s) \/ ReadSome(s) \/ ReadLast(s)
  /\ UNCHANGED <<checkUTF8, frag, open, sent, ended, frames, kind>>

(* The source ends or fails in the middle of the frame. *)
ReadBreaks ==
  /\ ReadGoesOn
  /\ rawN > 0
  /\ ended' = TRUE
  /\ ret' \in {"ErrUnexpectedEOF", "io"}
  /\ pc' = "stopped"
  /\ UNCHANGED <<checkUTF8, reader, left, open, sent, frames, message>>

CallDiscard ==
  /\ pc = "message"
  /\ pc' = "discarding"
  /\ UNCHANGED <<checkUTF8, reader, wire, message, ret>>

(* What Discard takes: the rest of the frame, or less where the source ends,
   which is no error for io.Copy. *)
Drain ==
  \/ ~ended /\ left' = left - rawN /\ UNCHANGED ended
  \/ rawN > 0 /\ ended' = TRUE /\ UNCHANGED left

\* Mutant: the other frames of the message stay where they are.
DiscardFrame ==
  /\ pc = "discarding"
  /\ Drain
  /\ Reset
  /\ ret' = "nil"
  /\ pc' = "between"
  /\ UNCHANGED <<checkUTF8, frag, open, sent, frames, message>>

(* One turn of Discard's loop. *)
DiscardCopy ==
  /\ pc = "discarding"
  /\ Drain
  /\ IF frag
     THEN /\ rawN' = rawN - (left - left')
          /\ pc' = "advancing"
          /\ UNCHANGED <<opCode, frame, utf8, ret>>
     ELSE Reset /\ ret' = "nil" /\ pc' = "between"
  /\ UNCHANGED <<checkUTF8, frag, open, sent, frames, message>>

DiscardBreaks ==
  /\ pc = "discarding"
  /\ rawN > 0
  /\ ended' = TRUE
  /\ ret' = "io"
  /\ pc' = "resetting"
  /\ UNCHANGED <<checkUTF8, reader, left, open, sent, frames, message>>

DiscardAdvance ==
  /\ pc = "advancing"
  /\ \E e \in Errors :
       /\ NextFrame(e)
       /\ ret' = e
       /\ pc' = IF e = "nil" THEN "discarding" ELSE "resetting"
  /\ UNCHANGED checkUTF8

(* Discard resets the reader when it fails as well. *)
DiscardReset ==
  /\ pc = "resetting"
  /\ Reset
  /\ pc' = "stopped"
  /\ UNCHANGED <<checkUTF8, frag, wire, message, ret>>

(* The caller has stopped. *)
Stopped == pc = "stopped" /\ UNCHANGED vars

Next ==
  \/ CallNextFrame
  \/ LeaveControl
  \/ ReadNothing
  \/ ReadAdvance
  \/ ReadBytes
  \/ ReadBreaks
  \/ CallDiscard
  \/ DiscardCopy
  \/ DiscardBreaks
  \/ DiscardAdvance
  \/ DiscardReset
  \/ Stopped

Spec == Init /\ [][Next]_vars

-----------------------------------------------------------------------------
(* Properties. *)

TypeOK ==
  /\ checkUTF8 \in BOOLEAN
  /\ frag \in BOOLEAN
  /\ opCode \in {"none", "text", "binary", "control"}
  /\ frame \in {"nil", "raw", "utf8"}
  /\ rawN \in Nat
  /\ utf8 \in {"accept", "mid", "reject"}
  /\ left \in Nat
  /\ open \in BOOLEAN
  /\ sent \in Nat
  /\ ended \in BOOLEAN
  /\ frames \in 0..MaxFrames
  /\ taken \in Seq(Bytes)
  /\ got \in Seq(Bytes)
  /\ kind \in {"none", "text", "binary", "control"}
  /\ pc \in {"between", "message", "reading", "discarding", "advancing",
             "resetting", "stopped"}
  /\ ret \in Errors \cup {"ErrNoFrameAdvance", "ErrInvalidUTF8"}

(* A tail is where a lead was just before, and nowhere else. *)
ValidSoFar(s) ==
  \A i \in 1..Len(s) : s[i] = "tail" <=> i > 1 /\ s[i - 1] = "lead"

Valid(s) == ValidSoFar(s) /\ (s # <<>> => s[Len(s)] # "lead")

IsText == checkUTF8 /\ kind = "text"

(* "Next NextFrame() call must be done after receiving or discarding all
   current message bytes": whoever looks for a header, the caller, Read or
   Discard, the source has one there, and not the payload of the frame
   before. *)
Aligned ==
  \/ pc \in {"between", "advancing"}
  \/ pc = "message" /\ frame = "nil"
  => left = 0 \/ ended

(* What the reader remembers of the wire is what is there: the bytes left
   of the frame, and that more frames of the message must follow. *)
InStep ==
  pc \notin {"resetting", "stopped"} =>
    /\ frag = open
    /\ rawN = left \/ ended

EndOfMessage == ret = "EOF" /\ pc = "between"

(* "The error is io.EOF only if all of message bytes were read": those of
   every frame, of which the last was the message's last, with whatever
   control frames came between. *)
EOFComplete == EndOfMessage => ~open /\ left = 0 /\ Len(taken) = sent

(* The bytes a message was read from are the bytes Read returned: those a
   UTF-8 check held back are not forgotten at the end. *)
NothingHeldBack == EndOfMessage => got = taken

(* A text that is not valid UTF-8 is never read to its end without an
   error, and what Read did return of it could have become valid, however
   the sequences are cut by frames and reads. *)
OnlyValidText ==
  IsText =>
    /\ ValidSoFar(got)
    /\ EndOfMessage => Valid(got)

(* A text is only called invalid when it is. *)
InvalidIsInvalid ==
  ret = "ErrInvalidUTF8" =>
    IsText /\ (~ValidSoFar(taken) \/ (~open /\ left = 0 /\ ~Valid(taken)))

(* A message starts with a reader that the messages before, read, discarded
   or found invalid, have left no trace in. *)
StartsClean == pc = "between" => ~frag /\ utf8 = "accept"
=============================================================================
