-------------------------------- MODULE Control --------------------------------
(***************************************************************************)
(* One session of msutil.Connecter.Run (src/msutil/connecter.go): the      *)
(* goroutine that reads frames, answers the control frames among them and  *)
(* hands messages to the session, and the session's own sends.             *)
(*                                                                         *)
(* A control frame between messages is handled by Run, one inside a        *)
(* fragmented message by the Reader's OnIntermediate while the session's   *)
(* ReadPump is in Read; the handler is the same, what it reads from is     *)
(* not.  Every element of wire is one conn.Write: replies and buffered     *)
(* fragments are whole frames, while ms.WriteFrame writes the header and   *)
(* the payload of a frame apart.  The session reads every message to its   *)
(* end and returns the error it meets, sends one message at a time, and    *)
(* does so either from ReadPump or from another goroutine.                 *)
(***************************************************************************)
EXTENDS Integers, Sequences

CONSTANTS
  Codes,      \* status codes a close frame may carry
  MaxPing,    \* bound: bytes in a ping or pong
  MaxFrames,  \* bound: frames the peer sends
  MaxSends    \* bound: messages the session sends

MaxCode == 65535
StatusCodes == 0..MaxCode

ASSUME ControlConstants ==
  /\ Codes \subseteq StatusCodes
  /\ MaxPing \in Nat /\ MaxFrames \in Nat /\ MaxSends \in Nat

VARIABLES
  sender,     \* the session sends from: "pump" (ReadPump), "other"
  frames,     \* frames the peer has sent
  ended,      \* the peer's stream has ended
  broken,     \* the connection takes no more writes
  frag,       \* the Reader is inside a fragmented message
  pc,         \* Run: at the top of its "loop", in NextFrame ("next"), in Read
              \* under ReadPump ("read"), in a "handler", in ReadPump after
              \* the message ("pumped"), "closing", "closed", "returned"
  out,        \* what the handler still has to write
  err,        \* what the handler returns then
  wire,       \* what has been written to the connection
  todo,       \* what the session's SendFunc still has to write
  sends,      \* messages the session has begun to send
  cancelled,  \* sectionCtx is done
  pings,      \* the pings that arrived whole, as the pongs they call for
  close,      \* the close frame that arrived whole
  whole       \* no message was ended for ReadPump before its last frame

reading == <<frames, ended, frag>>
sending == <<todo, sends>>
history == <<pings, close, whole>>
vars == <<sender, frames, ended, broken, frag, pc, out, err, wire, todo, sends,
          cancelled, pings, close, whole>>

NoClose == [op |-> "none"]

Init ==
  /\ sender \in {"pump", "other"}
  /\ frames = 0
  /\ ended = FALSE
  /\ broken = FALSE
  /\ frag = FALSE
  /\ pc = "loop"
  /\ out = <<>>
  /\ err = "nil"
  /\ wire = <<>>
  /\ todo = <<>>
  /\ sends = 0
  /\ cancelled = FALSE
  /\ pings = <<>>
  /\ close = NoClose
  /\ whole = TRUE

-----------------------------------------------------------------------------
(* The codec of close frames. *)

ProtocolDefined == (1000..1003) \cup (1005..1011) \cup {1015}
ProtocolReserved == {1005, 1006, 1015}

\* Mutant: the reserved codes may be received.
CloseCodeValidReserved(code) ==
  /\ code \notin 0..999
  /\ code # 1004
  /\ code \in 1000..2999 => code \in ProtocolDefined

(* CheckCloseFrameData returns nil. *)
CloseCodeValid(code) ==
  /\ code \notin 0..999
  /\ code \notin ProtocolReserved
  /\ code # 1004
  /\ code \in 1000..2999 => code \in ProtocolDefined

CloseDataValid(code, utf8) == CloseCodeValid(code) /\ utf8

(* ParseCloseFrameData. *)
ParsedCode(f) == IF f.length < 2 THEN 0 ELSE f.code

-----------------------------------------------------------------------------
(* ControlHandler. *)

(* What the peer may send: got bytes of a frame's payload arrive, and the
   stream ends there when that is not all of it. *)
Pings == [op : {"ping", "pong"}, length : 0..MaxPing, got : 0..MaxPing]
Closes == [op : {"close"}, length : 0..3, got : 0..3, code : Codes \cup {0},
           utf8 : BOOLEAN]

Cut(f) == f.got < f.length

ControlFrames ==
  {f \in Pings : f.got <= f.length}
    \cup {f \in Closes :
            /\ f.got <= f.length
            /\ f.code = 0 <=> f.got < 2 \/ Cut(f)
            /\ f.got < 3 => f.utf8}

(* A reply is the op and, of a pong, the ping it answers and the bytes it
   copies, or, of a close, its code; 0 stands for none. *)
Piece(part, op, n, body) ==
  [by |-> "handler", part |-> part, op |-> op, n |-> n, body |-> body]

(* A source that ends early: Reader.Read, between messages, tells; the bare
   frame that OnIntermediate gets just ends. *)
EndOfSource(inside) == IF inside THEN "EOF" ELSE "ErrUnexpectedEOF"

(* HandlePing of the n-th frame.  io.Copy takes EOF for the end of the
   payload, and Flush writes nothing if nothing was written. *)
HandlePing(f, n, inside) ==
  IF Cut(f) /\ ~inside
  THEN [out |-> <<>>, err |-> EndOfSource(inside)]
  ELSE [out |-> IF f.got = 0 /\ f.length > 0 THEN <<>>
                ELSE <<Piece("frame", "pong", n, f.got)>>,
        err |-> "nil"]

HandlePong(f, inside) ==
  [out |-> <<>>,
   err |-> IF Cut(f) /\ ~inside THEN EndOfSource(inside) ELSE "nil"]

(* closeWithProtocolError: ms.WriteFrame. *)
CloseWithProtocolError ==
  <<Piece("header", "close", 0, 1002), Piece("payload", "close", 0, 1002)>>

(* HandleClose; io.ReadFull returns EOF only if there was no byte at all. *)
HandleClose(f, inside) ==
  LET code == ParsedCode(f)
  IN  CASE f.length = 0 ->
             [out |-> <<Piece("frame", "close", 0, 0)>>, err |-> "closed"]
        [] Cut(f) ->
             [out |-> <<>>,
              err |-> IF f.got > 0 THEN "ErrUnexpectedEOF" ELSE EndOfSource(inside)]
        [] f.length > 0 /\ ~Cut(f) /\ ~CloseDataValid(code, f.utf8) ->
             [out |-> CloseWithProtocolError, err |-> "protocol"]
        [] OTHER ->
             [out |-> <<Piece("frame", "close", 0, code)>>, err |-> "closed"]

\* Mutant: control frames inside a message are dropped.
HandleBetween(f, n, inside) ==
  CASE inside         -> [out |-> <<>>, err |-> "nil"]
    [] f.op = "ping"  -> HandlePing(f, n, inside)
    [] f.op = "pong"  -> HandlePong(f, inside)
    [] f.op = "close" -> HandleClose(f, inside)

Handle(f, n, inside) ==
  CASE f.op = "ping"  -> HandlePing(f, n, inside)
    [] f.op = "pong"  -> HandlePong(f, inside)
    [] f.op = "close" -> HandleClose(f, inside)

-----------------------------------------------------------------------------
(* Connecter.Run. *)

LoopTop ==
  /\ pc = "loop"
  /\ pc' = IF cancelled THEN "closing" ELSE "next"
  /\ UNCHANGED <<sender, reading, broken, out, err, wire, sending, cancelled, history>>

(* NextFrame reads a header, in Run or in Read. *)
NextHeader ==
  /\ pc \in {"next", "read"}
  /\ ~ended
  /\ frames < MaxFrames
  /\ frames' = frames + 1

ReadControl ==
  /\ NextHeader
  /\ \E f \in ControlFrames :
       LET reply == Handle(f, frames', frag)
       IN  /\ out' = reply.out
           /\ err' = reply.err
           /\ ended' = Cut(f)
           /\ pings' = IF f.op = "ping" /\ ~Cut(f)
                       THEN Append(pings, [n |-> frames', body |-> f.length])
                       ELSE pings
           /\ close' = IF f.op = "close" /\ ~Cut(f) THEN f ELSE close
  /\ pc' = "handler"
  /\ UNCHANGED <<sender, broken, frag, wire, sending, cancelled, whole>>

(* A data frame that fits; Read takes all of it. *)
ReadData ==
  /\ NextHeader
  /\ frag' \in BOOLEAN
  /\ pc' = IF frag' THEN "read" ELSE "pumped"
  /\ UNCHANGED <<sender, ended, broken, out, err, wire, sending, cancelled, history>>

(* The stream ends before a frame or inside a data frame, the header is
   refused, or the payload is.  ReadPump and Run return. *)
ReadFails ==
  /\ pc \in {"next", "read"}
  /\ ended' = TRUE
  /\ pc' = "closing"
  /\ UNCHANGED <<sender, frames, broken, frag, out, err, wire, sending,
                 cancelled, history>>

HandlerWrites ==
  /\ pc = "handler"
  /\ out # <<>>
  /\ \/ /\ ~broken
        /\ wire' = Append(wire, Head(out))
        /\ out' = Tail(out)
        /\ UNCHANGED <<broken, err>>
     \/ /\ broken' = TRUE
        /\ out' = <<>>
        /\ err' = IF err = "protocol" THEN err ELSE "write"
        /\ UNCHANGED wire
  /\ UNCHANGED <<sender, reading, pc, sending, cancelled, history>>

\* Mutant: Run goes on after a close frame.
HandlerReturnsClosed ==
  /\ pc = "handler"
  /\ out = <<>>
  /\ pc' = IF err \in {"nil", "closed"} THEN IF frag THEN "read" ELSE "loop"
           ELSE "closing"
  /\ err' = "nil"
  /\ UNCHANGED <<sender, reading, broken, out, wire, sending, cancelled, history>>

(* To Run, or through NextFrame and Read to ReadPump, which takes EOF for
   the end of the message. *)
HandlerReturns ==
  /\ pc = "handler"
  /\ out = <<>>
  /\ pc' = CASE err = "nil" -> IF frag THEN "read" ELSE "loop"
             [] err = "EOF" -> "pumped"
             [] OTHER       -> "closing"
  /\ whole' = (whole /\ err # "EOF")
  /\ err' = "nil"
  /\ UNCHANGED <<sender, reading, broken, out, wire, sending, cancelled, pings, close>>

(* ReadPump returns nil. *)
PumpReturns ==
  /\ pc = "pumped"
  /\ todo = <<>> \/ sender = "other"
  /\ pc' = "loop"
  /\ UNCHANGED <<sender, reading, broken, out, err, wire, sending, cancelled, history>>

(* The deferred call: Close(section), then sectionCancel. *)
CloseSection ==
  /\ pc = "closing"
  /\ pc' = "closed"
  /\ cancelled' = TRUE
  /\ UNCHANGED <<sender, reading, broken, out, err, wire, sending, history>>

(* Run has returned and the server closes the connection. *)
ServerCloses ==
  /\ pc = "closed"
  /\ pc' = "returned"
  /\ broken' = TRUE
  /\ UNCHANGED <<sender, reading, out, err, wire, sending, cancelled, history>>

-----------------------------------------------------------------------------
(* The session. *)

SendPiece(part) ==
  [by |-> "session", part |-> part, op |-> "data", n |-> 0, body |-> 0]

(* One buffered frame; two; or a large source's WriteThrough and the empty
   frame that Flush ends the message with. *)
Messages ==
  {<<SendPiece("frame")>>,
   <<SendPiece("frame"), SendPiece("frame")>>,
   <<SendPiece("header"), SendPiece("payload"), SendPiece("frame")>>}

SendBegins ==
  /\ sends < MaxSends
  /\ todo = <<>>
  /\ sender = "pump" => pc = "pumped"
  /\ todo' \in Messages
  /\ sends' = sends + 1
  /\ UNCHANGED <<sender, reading, broken, pc, out, err, wire, cancelled, history>>

(* A failed send cancels the session's context; ReadPump returns its error. *)
SendWrites ==
  /\ todo # <<>>
  /\ \/ /\ ~broken
        /\ wire' = Append(wire, Head(todo))
        /\ todo' = Tail(todo)
        /\ UNCHANGED <<broken, cancelled, pc>>
     \/ /\ broken' = TRUE
        /\ todo' = <<>>
        /\ cancelled' = TRUE
        /\ pc' = IF sender = "pump" THEN "closing" ELSE pc
        /\ UNCHANGED wire
  /\ UNCHANGED <<sender, reading, out, err, sends, history>>

(* The session calls the cancel function it was given, or the server's
   context ends. *)
Cancel ==
  /\ ~cancelled
  /\ cancelled' = TRUE
  /\ UNCHANGED <<sender, reading, broken, pc, out, err, wire, sending, history>>

Idle == pc = "returned" /\ UNCHANGED vars

RunStep ==
  \/ LoopTop
  \/ HandlerWrites
  \/ HandlerReturns
  \/ PumpReturns
  \/ CloseSection
  \/ ServerCloses

Next ==
  \/ RunStep
  \/ ReadControl \/ ReadData \/ ReadFails
  \/ SendBegins \/ SendWrites
  \/ Cancel
  \/ Idle

Spec == Init /\ [][Next]_vars

-----------------------------------------------------------------------------
(* Properties. *)

IsPong(p) == p.op = "pong"

Echo(p, ping) == IsPong(p) /\ p.n = ping.n /\ p.body = ping.body

(* There is a pong for it in s. *)
Echoed(ping, s) == \E i \in 1..Len(s) : Echo(s[i], ping)

(* Every ping that arrives whole, between messages or inside one, is
   answered by one pong with its payload, in order and none passed over,
   once the handler has returned; a pong that is not of such a ping, but
   lacks bytes of one, is the last, of a stream that ended inside it. *)
PongsEchoPings ==
  /\ \A i \in 1..Len(wire) : \A j \in i+1..Len(wire) :
       IsPong(wire[i]) /\ IsPong(wire[j]) => wire[i].n < wire[j].n
  /\ \A i \in 1..Len(wire) : IsPong(wire[i]) =>
       \/ \E k \in 1..Len(pings) : Echo(wire[i], pings[k])
       \/ ended /\ \A j \in i+1..Len(wire) : ~IsPong(wire[j])
  /\ \A k \in 1..Len(pings) : \A i \in 1..Len(wire) :
       IsPong(wire[i]) /\ pings[k].n < wire[i].n => Echoed(pings[k], wire)
  /\ pc # "handler" /\ ~broken =>
       \A k \in 1..Len(pings) : Echoed(pings[k], wire)

(* The handler writes nothing after a close frame, a session that sends from
   ReadPump does not either, and what the two of them write then is a
   sequence of whole frames, but for one that a broken connection cut. *)
WholeFrames ==
  /\ \A i \in 1..Len(wire) : \A j \in i+1..Len(wire) :
       /\ wire[i].op = "close"
       /\ wire[j].by = "handler" \/ sender = "pump"
       => wire[i].part = "header" /\ wire[j].part = "payload"
  /\ sender = "pump" =>
       \A i \in 1..Len(wire) : wire[i].part = "header" =>
         IF i < Len(wire)
         THEN wire[i + 1] = [wire[i] EXCEPT !.part = "payload"]
         ELSE broken \/ out # <<>> \/ todo # <<>>

(* A close frame that arrives whole ends the session, and is answered, with
   the code it carries if an endpoint may send that, else with a protocol
   error. *)
MaySend == (1000..1003) \cup (1007..1011) \cup (3000..MaxCode)

Answer ==
  CASE close.length = 0 -> 0
    [] close.length \in {2, 3} /\ close.code \in MaySend /\ close.utf8 -> close.code
    [] OTHER -> 1002

CloseAnswered ==
  close # NoClose =>
    /\ pc \in {"handler", "closing", "closed", "returned"}
    /\ pc # "handler" /\ ~broken =>
         \E i \in 1..Len(wire) : /\ wire[i].op = "close"
                                 /\ wire[i].part \in {"frame", "payload"}
                                 /\ wire[i].body = Answer

(* The Reader's promise to its caller: EOF only when all of the message was
   read (reader.go:88). *)
EOFOnlyWhole == whole

=============================================================================
