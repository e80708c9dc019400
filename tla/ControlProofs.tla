----------------------------- MODULE ControlProofs -----------------------------
(***************************************************************************)
(* Proofs about module Control, for any set of status codes and any number *)
(* of frames and sends: that what the handler and a session that sends     *)
(* from ReadPump write is a sequence of whole frames with nothing behind a *)
(* close frame, and that a close frame is answered and ends the session.   *)
(***************************************************************************)
EXTENDS Control, TLAPS

(* What is proved with them. *)
Pieces == [by : {"handler", "session"}, part : {"frame", "header", "payload"},
           op : {"pong", "close", "data"}, n : Nat, body : Nat]

Payload(p) == [p EXCEPT !.part = "payload"]

HasClose(s) == \E i \in 1..Len(s) : s[i].op = "close"

(* Every header of s is followed by its payload. *)
Whole(s) ==
  \A i \in 1..Len(s) :
    s[i].part = "header" => i < Len(s) /\ s[i + 1] = Payload(s[i])

(* Behind a close frame there is nothing in s but its own payload. *)
CloseLast(s) ==
  \A i, j \in 1..Len(s) :
    i < j /\ s[i].op = "close" => s[i].part = "header" /\ s[j].part = "payload"

Types ==
  /\ sender \in {"pump", "other"}
  /\ frames \in Nat
  /\ frag \in BOOLEAN
  /\ out \in Seq(Pieces)
  /\ wire \in Seq(Pieces)
  /\ todo \in Seq(Pieces)

(* Who may be writing: the handler only while Run is in it, and a session
   that sends from ReadPump only while Run is there. *)
Turns ==
  /\ out # <<>> => pc = "handler"
  /\ sender = "pump" /\ todo # <<>> => pc = "pumped"
  /\ \A k \in 1..Len(todo) : todo[k].op = "data" /\ todo[k].by = "session"

(* A close frame that was read, written or is to be written stops Run: the
   handler is going to return an error that neither Run nor ReadPump takes
   for a good end. *)
Closing ==
  close # NoClose \/ HasClose(wire) \/ HasClose(out) =>
    /\ pc \in {"handler", "closing", "closed", "returned"}
    /\ pc = "handler" => err \notin {"nil", "EOF"}

(* The two parts of WholeFrames, with what is still to be written. *)
AfterClose ==
  /\ CloseLast(out)
  /\ \A i \in 1..Len(wire) : wire[i].op = "close" =>
       /\ \A j \in i+1..Len(wire) :
            wire[j].by = "handler" \/ sender = "pump"
            => wire[i].part = "header" /\ wire[j].part = "payload"
       /\ \A k \in 1..Len(out) :
            wire[i].part = "header" /\ out[k].part = "payload"

Starts(s, p) == s # <<>> /\ s[1] = p

WireWhole ==
  /\ Whole(out)
  /\ Whole(todo)
  /\ sender = "pump" =>
       \A i \in 1..Len(wire) : wire[i].part = "header" =>
         IF i < Len(wire)
         THEN wire[i + 1] = Payload(wire[i])
         ELSE broken \/ Starts(out, Payload(wire[i])) \/ Starts(todo, Payload(wire[i]))

Answers(s, code) ==
  \E i \in 1..Len(s) : /\ s[i].op = "close"
                       /\ s[i].part \in {"frame", "payload"}
                       /\ s[i].body = code

(* The answer is on the wire, or is going to be unless the connection
   breaks. *)
Answering ==
  close # NoClose => \/ broken
                     \/ Answers(wire, Answer)
                     \/ pc = "handler" /\ Answers(out, Answer)

IInv == Types /\ Turns /\ Closing /\ AfterClose /\ WireWhole /\ Answering

-----------------------------------------------------------------------------
(* The codes CheckCloseFrameData lets pass are those an endpoint may send. *)
LEMMA CodeRules ==
  ASSUME NEW code \in StatusCodes
  PROVE  /\ code \in Nat
         /\ CloseCodeValid(code) <=> code \in MaySend
<1>1. MaxCode \in Nat
  BY DEF MaxCode
<1>2. code \in Nat /\ code <= MaxCode
  BY <1>1 DEF StatusCodes
<1>3. code \in MaySend <=> \/ 1000 <= code /\ code <= 1003
                           \/ 1007 <= code /\ code <= 1011
                           \/ 3000 <= code
  BY <1>1, <1>2 DEF MaySend
<1>4. code \in ProtocolDefined <=> \/ 1000 <= code /\ code <= 1003
                                   \/ 1005 <= code /\ code <= 1011
                                   \/ code = 1015
  BY <1>2 DEF ProtocolDefined
<1>5. code \in ProtocolReserved <=> code = 1005 \/ code = 1006 \/ code = 1015
  BY DEF ProtocolReserved
<1>6. code \in 0..999 <=> code <= 999
  BY <1>2, SMTT(30)
<1>7. code \in 1000..2999 <=> 1000 <= code /\ code <= 2999
  BY <1>2
<1>8. CloseCodeValid(code) <=> /\ ~(code <= 999)
                               /\ ~(code = 1005 \/ code = 1006 \/ code = 1015)
                               /\ code # 1004
                               /\ 1000 <= code /\ code <= 2999 =>
                                    \/ 1000 <= code /\ code <= 1003
                                    \/ 1005 <= code /\ code <= 1011
                                    \/ code = 1015
  BY <1>2, <1>4, <1>5, <1>6, <1>7 DEF CloseCodeValid
<1> QED
  BY <1>2, <1>3, <1>8

(* No code at all is none to close with. *)
LEMMA NoCode == 0 \in StatusCodes /\ ~CloseCodeValid(0)
<1>1. 0 \in StatusCodes
  BY DEF StatusCodes, MaxCode
<1>2. ~CloseCodeValid(0)
  BY DEF CloseCodeValid
<1> QED
  BY <1>1, <1>2

(* The fields of a close frame. *)
LEMMA CloseFrameTypes ==
  ASSUME NEW f \in Closes
  PROVE  /\ f.op = "close"
         /\ f.length \in 0..3 /\ f.got \in 0..3
         /\ f.code \in StatusCodes /\ f.code \in Nat
         /\ f.utf8 \in BOOLEAN
<1>1. /\ f.op \in {"close"} /\ f.length \in 0..3 /\ f.got \in 0..3
      /\ f.utf8 \in BOOLEAN /\ f.code \in Codes \cup {0}
  BY Zenon DEF Closes
<1>3. f.code \in StatusCodes
  BY <1>1, NoCode, ControlConstants, Zenon
<1>4. f.code \in Nat
  BY <1>3, CodeRules, Zenon
<1> QED
  BY <1>1, <1>3, <1>4, Zenon

(* What the handler has to write for a frame: nothing, one frame, or the
   header and the payload of a protocol error.  After a close frame it
   returns an error. *)
LEMMA HandlerReply ==
  ASSUME NEW f \in ControlFrames, NEW n \in Nat, NEW inside \in BOOLEAN
  PROVE  LET r == Handle(f, n, inside)
         IN  \/ r.out = <<>>
             \/ \E p \in Pieces : /\ r.out = <<p>>
                                  /\ p.part = "frame"
                                  /\ p.op = "close" => r.err = "closed"
             \/ r.out = CloseWithProtocolError /\ r.err = "protocol"
<1>1. CASE f \in Pings
  <2>1. f.op \in {"ping", "pong"} /\ f.got \in Nat
    BY <1>1, ControlConstants DEF Pings
  <2>2. Piece("frame", "pong", n, f.got) \in Pieces
    BY <2>1 DEF Piece, Pieces
  <2>3. CASE f.op = "ping"
    <3>1. Handle(f, n, inside) = HandlePing(f, n, inside)
      BY <2>3 DEF Handle
    <3>2. \/ HandlePing(f, n, inside).out = <<>>
          \/ HandlePing(f, n, inside).out = <<Piece("frame", "pong", n, f.got)>>
      BY DEF HandlePing
    <3>3. /\ Piece("frame", "pong", n, f.got).part = "frame"
          /\ Piece("frame", "pong", n, f.got).op # "close"
      BY DEF Piece
    <3> QED
      BY <2>2, <3>1, <3>2, <3>3
  <2>4. CASE f.op = "pong"
    BY <2>4 DEF Handle, HandlePong
  <2> QED
    BY <2>1, <2>3, <2>4
<1>2. CASE f \in Closes
  <2>1. f.op = "close" /\ f.code \in Nat
    BY <1>2, CloseFrameTypes
  <2>2. Handle(f, n, inside) = HandleClose(f, inside)
    BY <2>1 DEF Handle
  <2>3. ASSUME NEW code \in Nat
        PROVE  /\ Piece("frame", "close", 0, code) \in Pieces
               /\ Piece("frame", "close", 0, code).part = "frame"
    BY DEF Piece, Pieces
  <2>4. ParsedCode(f) \in Nat
    BY <2>1 DEF ParsedCode
  <2>5. \/ HandleClose(f, inside).out = <<>>
        \/ /\ \/ HandleClose(f, inside).out = <<Piece("frame", "close", 0, 0)>>
              \/ HandleClose(f, inside).out = <<Piece("frame", "close", 0, ParsedCode(f))>>
           /\ HandleClose(f, inside).err = "closed"
        \/ /\ HandleClose(f, inside).out = CloseWithProtocolError
           /\ HandleClose(f, inside).err = "protocol"
    BY DEF HandleClose
  <2> QED
    BY <2>2, <2>3, <2>4, <2>5
<1> QED
  BY <1>1, <1>2 DEF ControlFrames

(* The pieces of a protocol error. *)
LEMMA ProtocolErrorPieces ==
  /\ CloseWithProtocolError \in Seq(Pieces)
  /\ Len(CloseWithProtocolError) = 2
  /\ CloseWithProtocolError[1].part = "header"
  /\ CloseWithProtocolError[2].part = "payload"
  /\ CloseWithProtocolError[2].op = "close"
  /\ CloseWithProtocolError[2].body = 1002
  /\ CloseWithProtocolError[2] = Payload(CloseWithProtocolError[1])
<1> DEFINE h == Piece("header", "close", 0, 1002)
           d == Piece("payload", "close", 0, 1002)
<1>1. /\ h \in Pieces /\ d \in Pieces
      /\ h.part = "header" /\ d.part = "payload" /\ d.op = "close" /\ d.body = 1002
      /\ d = Payload(h)
  BY DEF Piece, Pieces, Payload
<1>2. CloseWithProtocolError = <<h, d>>
  BY DEF CloseWithProtocolError
<1> HIDE DEF h, d
<1> QED
  BY <1>1, <1>2

(* What follows for the invariant from any reply. *)
LEMMA ReplyShape ==
  ASSUME NEW f \in ControlFrames, NEW n \in Nat, NEW inside \in BOOLEAN,
         NEW r, r = Handle(f, n, inside)
  PROVE  /\ r.out \in Seq(Pieces)
         /\ Whole(r.out)
         /\ CloseLast(r.out)
         /\ HasClose(r.out) => r.err \in {"closed", "protocol"}
<1>1. CASE r.out = <<>>
  <2>1. r.out \in Seq(Pieces) /\ Len(r.out) = 0
    BY <1>1
  <2> QED
    BY <2>1 DEF Whole, CloseLast, HasClose
<1>2. ASSUME NEW p \in Pieces, r.out = <<p>>, p.part = "frame",
             p.op = "close" => r.err = "closed"
      PROVE  /\ r.out \in Seq(Pieces)
             /\ Whole(r.out)
             /\ CloseLast(r.out)
             /\ HasClose(r.out) => r.err \in {"closed", "protocol"}
  <2>1. r.out \in Seq(Pieces) /\ Len(r.out) = 1 /\ r.out[1] = p
    BY <1>2
  <2>2. Whole(r.out)
    BY <1>2, <2>1 DEF Whole
  <2>3. CloseLast(r.out)
    BY <2>1 DEF CloseLast
  <2>4. HasClose(r.out) => r.err \in {"closed", "protocol"}
    BY <1>2, <2>1 DEF HasClose
  <2> QED
    BY <2>1, <2>2, <2>3, <2>4
<1>3. CASE r.out = CloseWithProtocolError /\ r.err = "protocol"
  <2>1. Whole(r.out)
    BY <1>3, ProtocolErrorPieces DEF Whole
  <2>2. CloseLast(r.out)
    BY <1>3, ProtocolErrorPieces DEF CloseLast
  <2> QED
    BY <1>3, <2>1, <2>2, ProtocolErrorPieces
<1>4. \/ r.out = <<>>
      \/ \E p \in Pieces : /\ r.out = <<p>>
                           /\ p.part = "frame"
                           /\ p.op = "close" => r.err = "closed"
      \/ r.out = CloseWithProtocolError /\ r.err = "protocol"
  BY HandlerReply, Zenon
<1> QED
  BY <1>1, <1>2, <1>3, <1>4

(* The code of the answer to close frame f, as Answer says. *)
AnswerTo(f) ==
  CASE f.length = 0 -> 0
    [] f.length \in {2, 3} /\ f.code \in MaySend /\ f.utf8 -> f.code
    [] OTHER -> 1002

(* A close frame that arrived whole gets its answer: what HandleClose and
   CheckCloseFrameData make of it is what an endpoint has to answer. *)
LEMMA CloseReply ==
  ASSUME NEW f \in ControlFrames, f.op = "close", ~Cut(f),
         NEW n \in Nat, NEW inside \in BOOLEAN
  PROVE  LET r == Handle(f, n, inside)
         IN  /\ r.err \in {"closed", "protocol"}
             /\ Answers(r.out, AnswerTo(f))
<1>1. f \in Closes
  BY DEF ControlFrames, Pings
<1>2. /\ f.length \in 0..3 /\ f.got \in 0..3 /\ f.utf8 \in BOOLEAN
      /\ f.code \in StatusCodes /\ f.code \in Nat
  BY <1>1, CloseFrameTypes
<1>3. f.got = f.length
  BY <1>1, <1>2 DEF ControlFrames, Pings, Cut
<1>4. f.code = 0 <=> f.got < 2
  BY <1>1 DEF ControlFrames, Pings, Cut
<1>5. Handle(f, n, inside) = HandleClose(f, inside)
  BY DEF Handle
<1>6. ASSUME NEW code \in Nat
      PROVE  Answers(<<Piece("frame", "close", 0, code)>>, code)
  <2> DEFINE p == Piece("frame", "close", 0, code)
  <2>1. p.op = "close" /\ p.part = "frame" /\ p.body = code
    BY DEF Piece
  <2> HIDE DEF p
  <2>2. Len(<<p>>) = 1 /\ <<p>>[1] = p
    OBVIOUS
  <2>3. Answers(<<p>>, code)
    BY <2>1, <2>2 DEF Answers
  <2> QED
    BY <2>3 DEF p
<1>7. CASE f.length = 0
  <2>1. HandleClose(f, inside) =
          [out |-> <<Piece("frame", "close", 0, 0)>>, err |-> "closed"]
    BY <1>7 DEF HandleClose
  <2>2. AnswerTo(f) = 0
    BY <1>7 DEF AnswerTo
  <2> QED
    BY <1>5, <1>6, <2>1, <2>2
<1>8. CASE f.length # 0 /\ ~CloseDataValid(ParsedCode(f), f.utf8)
  <2>1. HandleClose(f, inside) = [out |-> CloseWithProtocolError, err |-> "protocol"]
    BY <1>2, <1>8 DEF HandleClose
  <2>2. ~(f.length \in {2, 3} /\ f.code \in MaySend /\ f.utf8)
    <3> SUFFICES ASSUME f.length \in {2, 3}, f.code \in MaySend, f.utf8 PROVE FALSE
      OBVIOUS
    <3>1. ParsedCode(f) = f.code
      BY DEF ParsedCode
    <3>2. CloseDataValid(f.code, f.utf8)
      BY <1>2, CodeRules DEF CloseDataValid
    <3> QED
      BY <1>8, <3>1, <3>2, Zenon
  <2>3. AnswerTo(f) = 1002
    BY <1>8, <2>2 DEF AnswerTo
  <2>4. Answers(CloseWithProtocolError, 1002)
    BY ProtocolErrorPieces DEF Answers
  <2> QED
    BY <1>5, <2>1, <2>3, <2>4
<1>9. CASE f.length # 0 /\ CloseDataValid(ParsedCode(f), f.utf8)
  <2>1. f.length \in {2, 3}
    <3>1. CASE f.length < 2
      BY <1>9, <3>1, NoCode DEF ParsedCode, CloseDataValid
    <3> QED
      BY <1>2, <3>1
  <2>2. ParsedCode(f) = f.code
    BY <2>1 DEF ParsedCode
  <2>3. f.code \in MaySend /\ f.utf8
    BY <1>2, <1>9, <2>2, CodeRules DEF CloseDataValid
  <2>4. HandleClose(f, inside) =
          [out |-> <<Piece("frame", "close", 0, f.code)>>, err |-> "closed"]
    BY <1>9, <2>2 DEF HandleClose
  <2>5. AnswerTo(f) = f.code
    BY <1>9, <2>1, <2>3 DEF AnswerTo
  <2> QED
    BY <1>2, <1>5, <1>6, <2>4, <2>5
<1> QED
  BY <1>7, <1>8, <1>9

-----------------------------------------------------------------------------
(* Moving the first piece of s to the end of w. *)
LEMMA MovePiece ==
  ASSUME NEW w \in Seq(Pieces), NEW s \in Seq(Pieces), s # <<>>
  PROVE  /\ Append(w, Head(s)) \in Seq(Pieces)
         /\ Tail(s) \in Seq(Pieces)
         /\ Len(w) \in Nat /\ Len(s) \in Nat /\ Len(s) >= 1
         /\ Len(Append(w, Head(s))) = Len(w) + 1
         /\ \A i \in 1..Len(w) : Append(w, Head(s))[i] = w[i]
         /\ Append(w, Head(s))[Len(w) + 1] = s[1]
         /\ Len(Tail(s)) = Len(s) - 1
         /\ \A i \in 1..Len(s)-1 : Tail(s)[i] = s[i + 1]
<1>1. Len(s) \in Nat /\ Len(w) \in Nat /\ Len(s) >= 1 /\ Head(s) = s[1] /\ s[1] \in Pieces
  OBVIOUS
<1>2. Tail(s) \in Seq(Pieces) /\ Len(Tail(s)) = Len(s) - 1
  BY <1>1
<1>3. \A i \in 1..Len(s)-1 : Tail(s)[i] = s[i + 1]
  BY <1>1
<1>4. /\ Append(w, Head(s)) \in Seq(Pieces)
      /\ Len(Append(w, Head(s))) = Len(w) + 1
      /\ \A i \in 1..Len(w) : Append(w, Head(s))[i] = w[i]
      /\ Append(w, Head(s))[Len(w) + 1] = s[1]
  BY <1>1
<1> QED
  BY <1>1, <1>2, <1>3, <1>4

(* What the session may have to write. *)
LEMMA MessageShape ==
  ASSUME NEW m \in Messages
  PROVE  /\ m \in Seq(Pieces)
         /\ Whole(m)
         /\ \A k \in 1..Len(m) : m[k].op = "data" /\ m[k].by = "session"
<1> DEFINE whole1 == SendPiece("frame")
           head == SendPiece("header")
           body == SendPiece("payload")
<1>1. /\ whole1 \in Pieces /\ head \in Pieces /\ body \in Pieces
      /\ whole1.part = "frame" /\ head.part = "header" /\ body.part = "payload"
      /\ whole1.op = "data" /\ head.op = "data" /\ body.op = "data"
      /\ whole1.by = "session" /\ head.by = "session" /\ body.by = "session"
      /\ body = Payload(head)
  BY DEF SendPiece, Pieces, Payload
<1>2. m = <<whole1>> \/ m = <<whole1, whole1>> \/ m = <<head, body, whole1>>
  BY DEF Messages
<1> HIDE DEF whole1, head, body
<1>3. CASE m = <<whole1>>
  BY <1>1, <1>3 DEF Whole
<1>4. CASE m = <<whole1, whole1>>
  BY <1>1, <1>4 DEF Whole
<1>5. CASE m = <<head, body, whole1>>
  BY <1>1, <1>5 DEF Whole
<1> QED
  BY <1>2, <1>3, <1>4, <1>5

(* The steps that neither write nor have anything new to write. *)
Quiet ==
  \/ LoopTop \/ ReadData \/ ReadFails \/ HandlerReturns \/ PumpReturns
  \/ CloseSection \/ ServerCloses \/ Cancel \/ Idle \/ UNCHANGED vars

LEMMA Steps ==
  ASSUME [Next]_vars
  PROVE  Quiet \/ ReadControl \/ HandlerWrites \/ SendBegins \/ SendWrites
BY DEF Next, RunStep, Quiet

LEMMA QuietKeeps ==
  ASSUME Types, Quiet
  PROVE  /\ out' = out /\ wire' = wire /\ todo' = todo /\ close' = close
         /\ sender' = sender
         /\ frames' \in Nat /\ frag' \in BOOLEAN
         /\ broken => broken'
<1> USE DEF Types
<1>1. CASE LoopTop
  BY <1>1 DEF LoopTop, reading, sending, history
<1>2. CASE ReadData
  BY <1>2 DEF ReadData, NextHeader, sending, history
<1>3. CASE ReadFails
  BY <1>3 DEF ReadFails, sending, history
<1>4. CASE HandlerReturns
  BY <1>4 DEF HandlerReturns, reading, sending
<1>5. CASE PumpReturns
  BY <1>5 DEF PumpReturns, reading, sending, history
<1>6. CASE CloseSection
  BY <1>6 DEF CloseSection, reading, sending, history
<1>7. CASE ServerCloses
  BY <1>7 DEF ServerCloses, reading, sending, history
<1>8. CASE Cancel
  BY <1>8 DEF Cancel, reading, sending, history
<1>9. CASE Idle \/ UNCHANGED vars
  BY <1>9 DEF Idle, vars
<1> QED
  BY <1>1, <1>2, <1>3, <1>4, <1>5, <1>6, <1>7, <1>8, <1>9 DEF Quiet

(* Where Run stands after them: the handler returns only when it has nothing
   left to write, and no step returns to it or leaves "pumped" with a send
   under way. *)
LEMMA QuietMoves ==
  ASSUME Turns, Quiet
  PROVE  /\ pc' = "handler" => pc = "handler" /\ err' = err
         /\ out # <<>> => pc' = pc
         /\ sender = "pump" /\ todo # <<>> => pc' = "pumped"
         /\ pc \in {"handler", "closing", "closed", "returned"} =>
              \/ pc' \in {"handler", "closing", "closed", "returned"}
              \/ pc = "handler" /\ err \in {"nil", "EOF"}
<1> USE DEF Turns
<1>1. CASE LoopTop
  BY <1>1 DEF LoopTop
<1>2. CASE ReadData
  BY <1>2 DEF ReadData, NextHeader
<1>3. CASE ReadFails
  BY <1>3 DEF ReadFails
<1>4. CASE HandlerReturns
  BY <1>4 DEF HandlerReturns
<1>5. CASE PumpReturns
  BY <1>5 DEF PumpReturns
<1>6. CASE CloseSection
  BY <1>6 DEF CloseSection
<1>7. CASE ServerCloses
  BY <1>7 DEF ServerCloses
<1>8. CASE Cancel
  BY <1>8 DEF Cancel
<1>9. CASE Idle \/ UNCHANGED vars
  BY <1>9 DEF Idle, vars
<1> QED
  BY <1>1, <1>2, <1>3, <1>4, <1>5, <1>6, <1>7, <1>8, <1>9 DEF Quiet

(* The four steps that write or have something new to write. *)
LEMMA ReadControlGives ==
  ASSUME Types, ReadControl
  PROVE  /\ pc \in {"next", "read"} /\ pc' = "handler"
         /\ UNCHANGED <<sender, broken, frag, wire, todo>>
         /\ frames' \in Nat
         /\ out' \in Seq(Pieces) /\ Whole(out') /\ CloseLast(out')
         /\ HasClose(out') => err' \in {"closed", "protocol"}
         /\ \/ close' = close
            \/ /\ err' \in {"closed", "protocol"}
               /\ Answers(out', AnswerTo(close'))
<1>1. frames' \in Nat /\ pc \in {"next", "read"} /\ pc' = "handler"
  BY DEF ReadControl, NextHeader, Types
<1>2. UNCHANGED <<sender, broken, frag, wire, todo>>
  BY DEF ReadControl, sending
<1>3. PICK f \in ControlFrames :
        /\ out' = Handle(f, frames', frag).out
        /\ err' = Handle(f, frames', frag).err
        /\ close' = IF f.op = "close" /\ ~Cut(f) THEN f ELSE close
  BY DEF ReadControl
<1>4. frag \in BOOLEAN
  BY DEF Types
<1>5. /\ out' \in Seq(Pieces) /\ Whole(out') /\ CloseLast(out')
      /\ HasClose(out') => err' \in {"closed", "protocol"}
  BY <1>1, <1>3, <1>4, ReplyShape
<1>6. CASE f.op = "close" /\ ~Cut(f)
  BY <1>1, <1>2, <1>3, <1>4, <1>5, <1>6, CloseReply
<1>7. CASE ~(f.op = "close" /\ ~Cut(f))
  BY <1>1, <1>2, <1>3, <1>5, <1>7
<1> QED
  BY <1>6, <1>7

LEMMA HandlerWritesGives ==
  ASSUME HandlerWrites
  PROVE  /\ pc = "handler" /\ pc' = "handler" /\ out # <<>>
         /\ UNCHANGED <<sender, frames, frag, todo, close>>
         /\ \/ /\ ~broken /\ broken' = broken /\ err' = err
               /\ wire' = Append(wire, Head(out)) /\ out' = Tail(out)
            \/ /\ broken' /\ out' = <<>> /\ wire' = wire
               /\ err' \in {"protocol", "write"}
<1>1. /\ pc = "handler" /\ pc' = "handler" /\ out # <<>>
      /\ UNCHANGED <<sender, frames, frag, todo, close>>
  BY DEF HandlerWrites, reading, sending, history
<1>2. \/ /\ ~broken /\ broken' = broken /\ err' = err
         /\ wire' = Append(wire, Head(out)) /\ out' = Tail(out)
      \/ /\ broken' /\ out' = <<>> /\ wire' = wire
         /\ err' \in {"protocol", "write"}
  BY DEF HandlerWrites
<1> QED
  BY <1>1, <1>2

LEMMA SendBeginsGives ==
  ASSUME SendBegins
  PROVE  /\ todo = <<>> /\ todo' \in Messages
         /\ sender = "pump" => pc = "pumped"
         /\ UNCHANGED <<sender, frames, frag, broken, pc, out, err, wire, close>>
BY DEF SendBegins, reading, history

LEMMA SendWritesGives ==
  ASSUME SendWrites
  PROVE  /\ todo # <<>>
         /\ UNCHANGED <<sender, frames, frag, out, err, close>>
         /\ \/ /\ ~broken /\ broken' = broken /\ pc' = pc
               /\ wire' = Append(wire, Head(todo)) /\ todo' = Tail(todo)
            \/ /\ broken' /\ todo' = <<>> /\ wire' = wire
               /\ pc' = IF sender = "pump" THEN "closing" ELSE pc
<1>1. /\ todo # <<>>
      /\ UNCHANGED <<sender, frames, frag, out, err, close>>
  BY DEF SendWrites, reading, history
<1>2. \/ /\ ~broken /\ broken' = broken /\ pc' = pc
         /\ wire' = Append(wire, Head(todo)) /\ todo' = Tail(todo)
      \/ /\ broken' /\ todo' = <<>> /\ wire' = wire
         /\ pc' = IF sender = "pump" THEN "closing" ELSE pc
  BY DEF SendWrites
<1> QED
  BY <1>1, <1>2

-----------------------------------------------------------------------------
LEMMA TypesStep ==
  ASSUME Types, [Next]_vars
  PROVE  Types'
<1>1. CASE Quiet
  BY <1>1, QuietKeeps DEF Types
<1>2. CASE ReadControl
  BY <1>2, ReadControlGives DEF Types
<1>3. CASE HandlerWrites
  <2>1. wire' \in Seq(Pieces) /\ out' \in Seq(Pieces)
    <3>1. CASE wire' = Append(wire, Head(out)) /\ out' = Tail(out)
      BY <1>3, <3>1, HandlerWritesGives, MovePiece DEF Types
    <3>2. CASE wire' = wire /\ out' = <<>>
      BY <3>2 DEF Types
    <3> QED
      BY <1>3, <3>1, <3>2, HandlerWritesGives
  <2> QED
    BY <1>3, <2>1, HandlerWritesGives DEF Types
<1>4. CASE SendBegins
  BY <1>4, SendBeginsGives, MessageShape DEF Types
<1>5. CASE SendWrites
  <2>1. wire' \in Seq(Pieces) /\ todo' \in Seq(Pieces)
    <3>1. CASE wire' = Append(wire, Head(todo)) /\ todo' = Tail(todo)
      BY <1>5, <3>1, SendWritesGives, MovePiece DEF Types
    <3>2. CASE wire' = wire /\ todo' = <<>>
      BY <3>2 DEF Types
    <3> QED
      BY <1>5, <3>1, <3>2, SendWritesGives
  <2> QED
    BY <1>5, <2>1, SendWritesGives DEF Types
<1> QED
  BY <1>1, <1>2, <1>3, <1>4, <1>5, Steps

LEMMA TurnsStep ==
  ASSUME Types, Turns, [Next]_vars
  PROVE  Turns'
<1>1. CASE Quiet
  BY <1>1, QuietKeeps, QuietMoves DEF Turns
<1>2. CASE ReadControl
  BY <1>2, ReadControlGives DEF Turns
<1>3. CASE HandlerWrites
  BY <1>3, HandlerWritesGives DEF Turns
<1>4. CASE SendBegins
  BY <1>4, SendBeginsGives, MessageShape DEF Turns
<1>5. CASE SendWrites
  <2>1. CASE wire' = Append(wire, Head(todo)) /\ todo' = Tail(todo) /\ pc' = pc
    <3>1. \A k \in 1..Len(todo') : todo'[k].op = "data" /\ todo'[k].by = "session"
      BY <1>5, <2>1, SendWritesGives, MovePiece DEF Turns, Types
    <3> QED
      BY <1>5, <2>1, <3>1, SendWritesGives DEF Turns
  <2>2. CASE todo' = <<>> /\ pc' = IF sender = "pump" THEN "closing" ELSE pc
    BY <1>5, <2>2, SendWritesGives DEF Turns
  <2> QED
    BY <1>5, <2>1, <2>2, SendWritesGives
<1> QED
  BY <1>1, <1>2, <1>3, <1>4, <1>5, Steps

(* A close frame stops Run.  It is read and written only where Run stands
   in NextFrame or in the handler, and from there it goes on to its end. *)
LEMMA ClosingStep ==
  ASSUME Types, Turns, Closing, [Next]_vars
  PROVE  Closing'
<1> DEFINE Ends == {"handler", "closing", "closed", "returned"}
<1>1. CASE Quiet
  <2>1. HasClose(wire') = HasClose(wire) /\ HasClose(out') = HasClose(out) /\ close' = close
    BY <1>1, QuietKeeps
  <2>2. CASE close # NoClose \/ HasClose(wire) \/ HasClose(out)
    <3>1. pc \in Ends /\ (pc = "handler" => err \notin {"nil", "EOF"})
      BY <2>2 DEF Closing
    <3>2. pc' \in Ends
      BY <1>1, <3>1, QuietMoves
    <3>3. pc' = "handler" => err' \notin {"nil", "EOF"}
      BY <1>1, <3>1, QuietMoves
    <3> QED
      BY <3>2, <3>3 DEF Closing
  <2> QED
    BY <2>1, <2>2 DEF Closing
<1>2. CASE ReadControl
  <2>1. close = NoClose /\ ~HasClose(wire)
    BY <1>2, ReadControlGives DEF Closing
  <2>2. wire' = wire /\ pc' = "handler"
    BY <1>2, ReadControlGives
  <2>3. close' # NoClose \/ HasClose(out') => err' \in {"closed", "protocol"}
    BY <1>2, <2>1, ReadControlGives
  <2> QED
    BY <2>1, <2>2, <2>3 DEF Closing
<1>3. CASE HandlerWrites
  <2>1. CASE /\ wire' = Append(wire, Head(out)) /\ out' = Tail(out) /\ err' = err
    <3>1. HasClose(wire') \/ HasClose(out') => HasClose(wire) \/ HasClose(out)
      BY <1>3, <2>1, HandlerWritesGives, MovePiece DEF HasClose, Types
    <3> QED
      BY <1>3, <2>1, <3>1, HandlerWritesGives DEF Closing
  <2>2. CASE wire' = wire /\ out' = <<>> /\ err' \in {"protocol", "write"}
    BY <1>3, <2>2, HandlerWritesGives DEF Closing
  <2> QED
    BY <1>3, <2>1, <2>2, HandlerWritesGives
<1>4. CASE SendBegins
  BY <1>4, SendBeginsGives DEF Closing
<1>5. CASE SendWrites
  <2>1. HasClose(wire') => HasClose(wire)
    <3>1. CASE wire' = Append(wire, Head(todo))
      BY <1>5, <3>1, SendWritesGives, MovePiece DEF HasClose, Types, Turns
    <3> QED
      BY <1>5, <3>1, SendWritesGives
  <2>2. out' = out /\ close' = close /\ err' = err /\ pc' \in {pc, "closing"}
    BY <1>5, SendWritesGives
  <2> QED
    BY <2>1, <2>2 DEF Closing
<1> QED
  BY <1>1, <1>2, <1>3, <1>4, <1>5, Steps

(* Nothing is written behind a close frame, but what a session sends from
   another goroutine. *)
LEMMA AfterCloseStep ==
  ASSUME Types, Turns, Closing, AfterClose, [Next]_vars
  PROVE  AfterClose'
<1>1. CASE Quiet
  BY <1>1, QuietKeeps DEF AfterClose
<1>2. CASE ReadControl
  <2>1. ~HasClose(wire)
    BY <1>2, ReadControlGives DEF Closing
  <2>2. wire' = wire /\ CloseLast(out')
    BY <1>2, ReadControlGives
  <2> QED
    BY <2>1, <2>2 DEF AfterClose, HasClose
<1>3. CASE HandlerWrites
  <2>1. CASE wire' = Append(wire, Head(out)) /\ out' = Tail(out)
    <3>1. CloseLast(out')
      BY <1>3, <2>1, HandlerWritesGives, MovePiece DEF CloseLast, AfterClose, Types
    <3>2. ASSUME NEW i \in 1..Len(wire'), wire'[i].op = "close",
                 NEW j \in i+1..Len(wire'),
                 wire'[j].by = "handler" \/ sender' = "pump"
          PROVE  wire'[i].part = "header" /\ wire'[j].part = "payload"
      <4>1. CASE j = Len(wire) + 1
        <5>1. i \in 1..Len(wire) /\ wire'[i] = wire[i] /\ wire'[j] = out[1]
          BY <1>3, <2>1, <3>2, <4>1, HandlerWritesGives, MovePiece DEF Types
        <5>2. 1 \in 1..Len(out)
          BY <1>3, HandlerWritesGives, MovePiece DEF Types
        <5> QED
          BY <3>2, <5>1, <5>2 DEF AfterClose
      <4>2. CASE j # Len(wire) + 1
        <5>1. /\ i \in 1..Len(wire) /\ j \in i+1..Len(wire) /\ j \in 1..Len(wire)
              /\ wire'[i] = wire[i] /\ wire'[j] = wire[j] /\ sender' = sender
          BY <1>3, <2>1, <3>2, <4>2, HandlerWritesGives, MovePiece DEF Types
        <5> QED
          BY <3>2, <5>1 DEF AfterClose
      <4> QED
        BY <4>1, <4>2
    <3>3. ASSUME NEW i \in 1..Len(wire'), wire'[i].op = "close",
                 NEW k \in 1..Len(out')
          PROVE  wire'[i].part = "header" /\ out'[k].part = "payload"
      <4>1. k + 1 \in 1..Len(out) /\ out'[k] = out[k + 1] /\ 1 \in 1..Len(out) /\ 1 < k + 1
        BY <1>3, <2>1, <3>3, HandlerWritesGives, MovePiece DEF Types
      <4>2. CASE i = Len(wire) + 1
        <5>1. wire'[i] = out[1]
          BY <1>3, <2>1, <4>2, HandlerWritesGives, MovePiece DEF Types
        <5> QED
          BY <3>3, <4>1, <5>1 DEF AfterClose, CloseLast
      <4>3. CASE i # Len(wire) + 1
        <5>1. i \in 1..Len(wire) /\ wire'[i] = wire[i]
          BY <1>3, <2>1, <3>3, <4>3, HandlerWritesGives, MovePiece DEF Types
        <5> QED
          BY <3>3, <4>1, <5>1 DEF AfterClose
      <4> QED
        BY <4>2, <4>3
    <3> QED
      BY <3>1, <3>2, <3>3 DEF AfterClose
  <2>2. CASE wire' = wire /\ out' = <<>>
    BY <1>3, <2>2, HandlerWritesGives DEF AfterClose, CloseLast
  <2> QED
    BY <1>3, <2>1, <2>2, HandlerWritesGives
<1>4. CASE SendBegins
  BY <1>4, SendBeginsGives DEF AfterClose
<1>5. CASE SendWrites
  <2>1. CASE wire' = Append(wire, Head(todo))
    <3>1. out' = out /\ sender' = sender
      BY <1>5, SendWritesGives
    <3>2. /\ Len(wire) \in Nat /\ Len(wire') = Len(wire) + 1
          /\ \A i \in 1..Len(wire) : wire'[i] = wire[i]
          /\ wire'[Len(wire) + 1] = todo[1]
          /\ todo[1].op = "data" /\ todo[1].by = "session"
      BY <1>5, <2>1, SendWritesGives, MovePiece DEF Types, Turns
    <3>3. sender = "pump" => ~HasClose(wire)
      BY <1>5, SendWritesGives DEF Turns, Closing
    <3>4. ASSUME NEW i \in 1..Len(wire'), wire'[i].op = "close"
          PROVE  i \in 1..Len(wire) /\ wire[i].op = "close" /\ wire'[i] = wire[i]
      BY <3>2, <3>4
    <3>5. ASSUME NEW i \in 1..Len(wire'), wire'[i].op = "close",
                 NEW j \in i+1..Len(wire'),
                 wire'[j].by = "handler" \/ sender' = "pump"
          PROVE  wire'[i].part = "header" /\ wire'[j].part = "payload"
      <4>1. i \in 1..Len(wire) /\ wire[i].op = "close" /\ wire'[i] = wire[i]
        BY <3>4, <3>5
      <4>2. sender # "pump"
        BY <3>3, <4>1 DEF HasClose
      <4>3. j # Len(wire) + 1
        BY <3>1, <3>2, <3>5, <4>2
      <4>4. j \in i+1..Len(wire) /\ wire'[j] = wire[j]
        BY <3>2, <3>5, <4>1, <4>3
      <4> QED
        BY <3>1, <3>5, <4>1, <4>4 DEF AfterClose
    <3>6. ASSUME NEW i \in 1..Len(wire'), wire'[i].op = "close",
                 NEW k \in 1..Len(out')
          PROVE  wire'[i].part = "header" /\ out'[k].part = "payload"
      BY <3>1, <3>4, <3>6 DEF AfterClose
    <3> QED
      BY <3>1, <3>5, <3>6 DEF AfterClose
  <2>2. CASE wire' = wire
    BY <1>5, <2>2, SendWritesGives DEF AfterClose
  <2> QED
    BY <1>5, <2>1, <2>2, SendWritesGives
<1> QED
  BY <1>1, <1>2, <1>3, <1>4, <1>5, Steps

(* A header that waits for its payload at the end of the wire is what the
   next piece completes. *)
Waits(w, s) ==
  \A i \in 1..Len(w) : w[i].part = "header" =>
    IF i < Len(w) THEN w[i + 1] = Payload(w[i]) ELSE Starts(s, Payload(w[i]))

LEMMA MoveWhole ==
  ASSUME NEW w \in Seq(Pieces), NEW s \in Seq(Pieces), s # <<>>,
         Whole(s), Waits(w, s)
  PROVE  Whole(Tail(s)) /\ Waits(Append(w, Head(s)), Tail(s))
<1> DEFINE v == Append(w, Head(s))
           t == Tail(s)
<1>1. /\ Len(w) \in Nat /\ Len(s) \in Nat /\ Len(s) >= 1
      /\ t \in Seq(Pieces)
      /\ Len(v) = Len(w) + 1
      /\ \A i \in 1..Len(w) : v[i] = w[i]
      /\ v[Len(w) + 1] = s[1]
      /\ Len(t) = Len(s) - 1
      /\ \A i \in 1..Len(s)-1 : t[i] = s[i + 1]
  BY MovePiece
<1> HIDE DEF v, t
<1>2. Whole(t)
  <2> SUFFICES ASSUME NEW i \in 1..Len(t), t[i].part = "header"
               PROVE  i < Len(t) /\ t[i + 1] = Payload(t[i])
    BY DEF Whole
  <2>1. i + 1 \in 1..Len(s) /\ t[i] = s[i + 1]
    BY <1>1
  <2>2. i + 1 < Len(s) /\ s[i + 1 + 1] = Payload(s[i + 1])
    BY <2>1 DEF Whole
  <2>3. i + 1 \in 1..Len(s)-1 /\ i < Len(t)
    BY <1>1, <2>1, <2>2
  <2> QED
    BY <1>1, <2>1, <2>2, <2>3
<1>3. ASSUME NEW i \in 1..Len(v), v[i].part = "header"
      PROVE  IF i < Len(v) THEN v[i + 1] = Payload(v[i]) ELSE Starts(t, Payload(v[i]))
  <2>1. CASE i = Len(w) + 1
    <3>1. v[i] = s[1] /\ s[1].part = "header" /\ ~(i < Len(v))
      BY <1>1, <1>3, <2>1
    <3>2. 1 < Len(s) /\ s[2] = Payload(s[1])
      BY <1>1, <3>1 DEF Whole
    <3>3. t # <<>> /\ t[1] = s[2]
      BY <1>1, <3>2
    <3> QED
      BY <3>1, <3>2, <3>3 DEF Starts
  <2>2. CASE i = Len(w)
    <3>1. i \in 1..Len(w) /\ v[i] = w[i] /\ v[i + 1] = s[1] /\ i < Len(v)
      BY <1>1, <1>3, <2>2
    <3>2. s[1] = Payload(w[i])
      BY <1>3, <2>2, <3>1 DEF Waits, Starts
    <3> QED
      BY <3>1, <3>2
  <2>3. CASE i < Len(w)
    <3>1. /\ i \in 1..Len(w) /\ i + 1 \in 1..Len(w) /\ i < Len(v)
          /\ v[i] = w[i] /\ v[i + 1] = w[i + 1]
      BY <1>1, <1>3, <2>3
    <3>2. w[i + 1] = Payload(w[i])
      BY <1>3, <2>3, <3>1 DEF Waits
    <3> QED
      BY <3>1, <3>2
  <2> QED
    BY <1>1, <1>3, <2>1, <2>2, <2>3
<1>4. Waits(v, t)
  BY <1>3 DEF Waits
<1> QED
  BY <1>2, <1>4 DEF v, t

LEMMA WireWholeStep ==
  ASSUME Types, Turns, WireWhole, [Next]_vars
  PROVE  WireWhole'
<1>1. CASE Quiet
  BY <1>1, QuietKeeps DEF WireWhole
<1>2. CASE ReadControl
  <2>1. Whole(out') /\ todo' = todo /\ wire' = wire /\ broken' = broken /\ sender' = sender
    BY <1>2, ReadControlGives
  <2>2. out = <<>> /\ (sender = "pump" => todo = <<>>)
    BY <1>2, ReadControlGives DEF Turns
  <2> QED
    BY <2>1, <2>2 DEF WireWhole, Starts
<1>3. CASE HandlerWrites
  <2>1. out # <<>> /\ todo' = todo /\ sender' = sender /\ (sender = "pump" => todo = <<>>)
    BY <1>3, HandlerWritesGives DEF Turns
  <2>2. CASE ~broken /\ wire' = Append(wire, Head(out)) /\ out' = Tail(out)
    <3>1. Whole(out')
      BY <2>1, <2>2, MovePiece DEF WireWhole, Whole, Types
    <3>2. CASE sender = "pump"
      <4>1. Waits(wire, out)
        BY <2>1, <2>2, <3>2 DEF WireWhole, Waits, Starts
      <4>2. Waits(wire', out')
        BY <2>1, <2>2, <4>1, MoveWhole DEF WireWhole, Types
      <4> QED
        BY <2>1, <3>1, <4>2 DEF WireWhole, Waits
    <3> QED
      BY <2>1, <3>1, <3>2 DEF WireWhole
  <2>3. CASE broken' /\ wire' = wire /\ out' = <<>>
    BY <2>1, <2>3 DEF WireWhole, Whole
  <2> QED
    BY <1>3, <2>2, <2>3, HandlerWritesGives
<1>4. CASE SendBegins
  <2>1. Whole(todo')
    BY <1>4, SendBeginsGives, MessageShape
  <2>2. /\ out' = out /\ wire' = wire /\ broken' = broken /\ sender' = sender
        /\ todo = <<>> /\ (sender = "pump" => out = <<>>)
    BY <1>4, SendBeginsGives DEF Turns
  <2> QED
    BY <2>1, <2>2 DEF WireWhole, Starts
<1>5. CASE SendWrites
  <2>1. todo # <<>> /\ out' = out /\ sender' = sender /\ (sender = "pump" => out = <<>>)
    BY <1>5, SendWritesGives DEF Turns
  <2>2. CASE ~broken /\ wire' = Append(wire, Head(todo)) /\ todo' = Tail(todo)
    <3>1. Whole(todo')
      BY <2>1, <2>2, MovePiece DEF WireWhole, Whole, Types
    <3>2. CASE sender = "pump"
      <4>1. Waits(wire, todo)
        BY <2>1, <2>2, <3>2 DEF WireWhole, Waits, Starts
      <4>2. Waits(wire', todo')
        BY <2>1, <2>2, <4>1, MoveWhole DEF WireWhole, Types
      <4> QED
        BY <2>1, <3>1, <4>2 DEF WireWhole, Waits
    <3> QED
      BY <2>1, <3>1, <3>2 DEF WireWhole
  <2>3. CASE broken' /\ wire' = wire /\ todo' = <<>>
    BY <2>1, <2>3 DEF WireWhole, Whole
  <2> QED
    BY <1>5, <2>2, <2>3, SendWritesGives
<1> QED
  BY <1>1, <1>2, <1>3, <1>4, <1>5, Steps

(* The answer to a close frame stays on its way until it is on the wire or
   the connection is broken. *)
LEMMA AnsweringStep ==
  ASSUME Types, Turns, Closing, Answering, [Next]_vars
  PROVE  Answering'
<1>1. Answer = AnswerTo(close) /\ Answer' = AnswerTo(close')
  BY DEF Answer, AnswerTo
<1>2. CASE Quiet
  <2>1. out' = out /\ wire' = wire /\ close' = close /\ (broken => broken')
    BY <1>2, QuietKeeps
  <2>2. pc = "handler" /\ Answers(out, Answer) => pc' = "handler"
    <3>1. Answers(out, Answer) => out # <<>>
      BY DEF Answers
    <3> QED
      BY <1>2, <3>1, QuietMoves
  <2> QED
    BY <1>1, <2>1, <2>2 DEF Answering
<1>3. CASE ReadControl
  <2>1. close = NoClose
    BY <1>3, ReadControlGives DEF Closing
  <2>2. close' # NoClose => Answers(out', AnswerTo(close'))
    BY <1>3, <2>1, ReadControlGives
  <2> QED
    BY <1>1, <1>3, <2>2, ReadControlGives DEF Answering
<1>4. CASE HandlerWrites
  <2>1. pc' = "handler" /\ close' = close /\ out # <<>>
    BY <1>4, HandlerWritesGives
  <2>2. CASE ~broken /\ wire' = Append(wire, Head(out)) /\ out' = Tail(out)
    <3>1. ASSUME NEW code
          PROVE  /\ Answers(wire, code) => Answers(wire', code)
                 /\ Answers(out, code) => Answers(wire', code) \/ Answers(out', code)
      <4>1. Answers(wire, code) => Answers(wire', code)
        BY <2>1, <2>2, MovePiece DEF Answers, Types
      <4>2. ASSUME NEW i \in 1..Len(out), out[i].op = "close",
                   out[i].part \in {"frame", "payload"}, out[i].body = code
            PROVE  Answers(wire', code) \/ Answers(out', code)
        <5>1. CASE i = 1
          <6>1. Len(wire) + 1 \in 1..Len(wire') /\ wire'[Len(wire) + 1] = out[i]
            BY <2>1, <2>2, <5>1, MovePiece DEF Types
          <6> QED
            BY <4>2, <6>1 DEF Answers
        <5>2. CASE i # 1
          <6>1. i - 1 \in 1..Len(out') /\ out'[i - 1] = out[i]
            BY <2>1, <2>2, <5>2, MovePiece DEF Types
          <6> QED
            BY <4>2, <6>1 DEF Answers
        <5> QED
          BY <5>1, <5>2
      <4> QED
        BY <4>1, <4>2 DEF Answers
    <3> QED
      BY <1>1, <2>1, <2>2, <3>1 DEF Answering
  <2>3. CASE broken'
    BY <2>3 DEF Answering
  <2> QED
    BY <1>4, <2>2, <2>3, HandlerWritesGives
<1>5. CASE SendBegins
  BY <1>1, <1>5, SendBeginsGives DEF Answering
<1>6. CASE SendWrites
  <2>1. out' = out /\ close' = close /\ todo # <<>>
    BY <1>6, SendWritesGives
  <2>2. CASE wire' = Append(wire, Head(todo)) /\ broken' = broken /\ pc' = pc
    <3>1. ASSUME NEW code PROVE Answers(wire, code) => Answers(wire', code)
      BY <2>1, <2>2, MovePiece DEF Answers, Types
    <3> QED
      BY <1>1, <2>1, <2>2, <3>1 DEF Answering
  <2>3. CASE broken'
    BY <2>3 DEF Answering
  <2> QED
    BY <1>6, <2>2, <2>3, SendWritesGives
<1> QED
  BY <1>2, <1>3, <1>4, <1>5, <1>6, Steps

(* The strengthened invariant holds in every reachable state. *)
LEMMA ControlInvariant == Spec => []IInv
<1>1. Init => IInv
  <2> SUFFICES ASSUME Init PROVE IInv
    OBVIOUS
  <2> USE DEF Init
  <2>1. Types
    <3>1. out \in Seq(Pieces) /\ wire \in Seq(Pieces) /\ todo \in Seq(Pieces)
      OBVIOUS
    <3>2. sender \in {"pump", "other"} /\ frames \in Nat /\ frag \in BOOLEAN
      OBVIOUS
    <3> QED
      BY <3>1, <3>2 DEF Types
  <2>2. Closing
    BY DEF Closing, HasClose
  <2>3. AfterClose
    BY DEF AfterClose, CloseLast
  <2>4. WireWhole
    BY DEF WireWhole, Whole
  <2>5. Answering
    BY DEF Answering
  <2>6. Turns
    BY DEF Turns
  <2> QED
    BY <2>1, <2>2, <2>3, <2>4, <2>5, <2>6 DEF IInv
<1>2. IInv /\ [Next]_vars => IInv'
  BY TypesStep, TurnsStep, ClosingStep, AfterCloseStep, WireWholeStep,
     AnsweringStep DEF IInv
<1> QED
  BY <1>1, <1>2, PTL DEF Spec

(* WholeFrames, for any number of frames and sends: the goroutine that reads
   writes nothing behind a close frame, and with a session that sends from
   ReadPump no two writes of one frame are ever separated
   (src/msutil/connecter.go:78, src/msutil/handler.go:210). *)
THEOREM ControlWritesWholeFrames == Spec => []WholeFrames
<1>1. IInv => WholeFrames
  <2> SUFFICES ASSUME IInv PROVE WholeFrames
    OBVIOUS
  <2>1. \A i \in 1..Len(wire) : \A j \in i+1..Len(wire) :
          /\ wire[i].op = "close"
          /\ wire[j].by = "handler" \/ sender = "pump"
          => wire[i].part = "header" /\ wire[j].part = "payload"
    BY Zenon DEF IInv, AfterClose
  <2>2. ASSUME sender = "pump", NEW i \in 1..Len(wire), wire[i].part = "header"
        PROVE  IF i < Len(wire)
               THEN wire[i + 1] = [wire[i] EXCEPT !.part = "payload"]
               ELSE broken \/ out # <<>> \/ todo # <<>>
    BY <2>2 DEF IInv, WireWhole, Starts, Payload
  <2> QED
    BY <2>1, <2>2 DEF WholeFrames
<1> QED
  BY <1>1, ControlInvariant, PTL

(* CloseAnswered, for any set of codes: a close frame that arrives whole,
   between messages or inside one, stops Run and is answered as the protocol
   asks, unless the connection breaks (src/msutil/handler.go:140). *)
THEOREM ControlAnswersClose == Spec => []CloseAnswered
<1>1. IInv => CloseAnswered
  <2> SUFFICES ASSUME IInv, close # NoClose
               PROVE  /\ pc \in {"handler", "closing", "closed", "returned"}
                      /\ pc # "handler" /\ ~broken => Answers(wire, Answer)
    BY DEF CloseAnswered, Answers
  <2> QED
    BY DEF IInv, Closing, Answering
<1> QED
  BY <1>1, ControlInvariant, PTL

-----------------------------------------------------------------------------
(* Pings and pongs. *)
PingRecord == [n : Nat, body : Nat]

(* The pongs on the wire are of ever later frames, and one that is to be
   written is of the last frame that was read. *)
PongOrder ==
  /\ pings \in Seq(PingRecord)
  /\ \A k \in 1..Len(pings) : pings[k].n <= frames
  /\ \A i \in 1..Len(wire) : IsPong(wire[i]) => wire[i].n <= frames
  /\ \A i \in 1..Len(wire) : \A j \in i+1..Len(wire) :
       IsPong(wire[i]) /\ IsPong(wire[j]) => wire[i].n < wire[j].n
  /\ \A i \in 1..Len(out) : IsPong(out[i]) =>
       /\ Len(out) = 1 /\ out[i].n = frames
       /\ \A j \in 1..Len(wire) : IsPong(wire[j]) => wire[j].n < frames

OfPing(p) == \E k \in 1..Len(pings) : Echo(p, pings[k])

PongSource ==
  /\ \A i \in 1..Len(out) : IsPong(out[i]) => OfPing(out[i]) \/ ended
  /\ \A i \in 1..Len(wire) : IsPong(wire[i]) =>
       \/ OfPing(wire[i])
       \/ /\ ended
          /\ \A j \in i+1..Len(wire) : ~IsPong(wire[j])
          /\ \A j \in 1..Len(out) : ~IsPong(out[j])

PongDue ==
  /\ \A k \in 1..Len(pings) :
       broken \/ Echoed(pings[k], wire) \/ Echoed(pings[k], out)
  /\ \A k \in 1..Len(pings) : \A i \in 1..Len(wire) :
       IsPong(wire[i]) /\ pings[k].n < wire[i].n => Echoed(pings[k], wire)

PongInv == PongOrder /\ PongSource /\ PongDue

LEMMA QuietPongs ==
  ASSUME Types, Turns, Quiet
  PROVE  /\ UNCHANGED <<out, wire, pings>>
         /\ broken => broken'
         /\ ended => ended'
         /\ frames' = frames \/ (out = <<>> /\ frames' = frames + 1)
<1>1. CASE LoopTop
  BY <1>1 DEF LoopTop, reading, sending, history
<1>2. CASE ReadData
  BY <1>2 DEF ReadData, NextHeader, sending, history, Turns
<1>3. CASE ReadFails
  BY <1>3 DEF ReadFails, sending, history
<1>4. CASE HandlerReturns
  BY <1>4 DEF HandlerReturns, reading, sending
<1>5. CASE PumpReturns
  BY <1>5 DEF PumpReturns, reading, sending, history
<1>6. CASE CloseSection
  BY <1>6 DEF CloseSection, reading, sending, history
<1>7. CASE ServerCloses
  BY <1>7 DEF ServerCloses, reading, sending, history
<1>8. CASE Cancel
  BY <1>8 DEF Cancel, reading, sending, history
<1>9. CASE Idle \/ UNCHANGED vars
  BY <1>9 DEF Idle, vars
<1> QED
  BY <1>1, <1>2, <1>3, <1>4, <1>5, <1>6, <1>7, <1>8, <1>9 DEF Quiet

(* Only a ping gets a pong, and one that arrived whole gets it whole. *)
LEMMA PongReply ==
  ASSUME NEW f \in ControlFrames, NEW n \in Nat, NEW inside \in BOOLEAN,
         NEW r, r = Handle(f, n, inside)
  PROVE  /\ \A i \in 1..Len(r.out) : IsPong(r.out[i]) =>
              f.op = "ping" /\ Len(r.out) = 1 /\ r.out[i].n = n
         /\ f.op = "ping" /\ ~Cut(f) =>
              /\ f.length \in Nat
              /\ Len(r.out) = 1
              /\ Echo(r.out[1], [n |-> n, body |-> f.length])
<1>1. CASE f \in Pings
  <2>1. f.op \in {"ping", "pong"} /\ f.got \in Nat /\ f.length \in Nat
    BY <1>1, ControlConstants DEF Pings
  <2>2. f.got <= f.length
    BY <1>1 DEF ControlFrames, Closes
  <2>3. CASE f.op = "ping"
    <3> DEFINE p == Piece("frame", "pong", n, f.got)
    <3>1. r = HandlePing(f, n, inside)
      BY <2>3 DEF Handle
    <3>2. p.op = "pong" /\ p.n = n /\ p.body = f.got
      BY DEF Piece
    <3>3. /\ r.out = <<>> \/ r.out = <<p>>
          /\ ~Cut(f) => f.got = f.length /\ r.out = <<p>>
      BY <2>1, <2>2, <3>1 DEF HandlePing, Cut
    <3> HIDE DEF p
    <3>4. Len(<<p>>) = 1 /\ <<p>>[1] = p /\ Len(<<>>) = 0
      OBVIOUS
    <3>5. CASE r.out = <<p>>
      <4>1. \A i \in 1..Len(r.out) : r.out[i] = p
        BY <3>4, <3>5
      <4>2. Len(r.out) = 1 /\ r.out[1] = p
        BY <3>4, <3>5
      <4> QED
        BY <2>1, <2>3, <3>2, <3>3, <4>1, <4>2 DEF IsPong, Echo
    <3>6. CASE r.out = <<>> /\ Cut(f)
      BY <3>4, <3>6
    <3> QED
      BY <3>3, <3>5, <3>6
  <2>4. CASE f.op = "pong"
    BY <2>4 DEF Handle, HandlePong
  <2> QED
    BY <2>1, <2>3, <2>4
<1>2. CASE f \in Closes
  <2>1. f.op = "close"
    BY <1>2, CloseFrameTypes
  <2>2. r = HandleClose(f, inside)
    BY <2>1 DEF Handle
  <2>3. ASSUME NEW code
        PROVE  Piece("frame", "close", 0, code).op = "close"
    BY DEF Piece
  <2>4. \/ r.out = <<>>
        \/ \E code : r.out = <<Piece("frame", "close", 0, code)>>
        \/ r.out = CloseWithProtocolError
    BY <2>2 DEF HandleClose
  <2>5. CloseWithProtocolError[1].op = "close"
    BY DEF CloseWithProtocolError, Piece
  <2>6. \A i \in 1..Len(r.out) : r.out[i].op = "close"
    <3>1. CASE r.out = <<>>
      BY <3>1
    <3>2. ASSUME NEW code, r.out = <<Piece("frame", "close", 0, code)>>
          PROVE  \A i \in 1..Len(r.out) : r.out[i].op = "close"
      BY <2>3, <3>2
    <3>3. CASE r.out = CloseWithProtocolError
      <4>1. \A i \in 1..2 : i = 1 \/ i = 2
        OBVIOUS
      <4> QED
        BY <2>5, <3>3, <4>1, ProtocolErrorPieces
    <3> QED
      BY <2>4, <3>1, <3>2, <3>3
  <2> QED
    BY <2>1, <2>6 DEF IsPong
<1> QED
  BY <1>1, <1>2 DEF ControlFrames

LEMMA ReadControlPongs ==
  ASSUME Types, Turns, ReadControl
  PROVE  /\ out = <<>> /\ ~ended /\ frames' = frames + 1
         /\ UNCHANGED <<wire, broken>>
         /\ \A i \in 1..Len(out') :
              IsPong(out'[i]) => Len(out') = 1 /\ out'[i].n = frames'
         /\ \/ /\ pings' = pings
               /\ \A i \in 1..Len(out') : IsPong(out'[i]) => ended'
            \/ \E q \in PingRecord : /\ q.n = frames' /\ pings' = Append(pings, q)
                                     /\ Len(out') = 1 /\ Echo(out'[1], q)
<1>1. PICK f \in ControlFrames :
        /\ out' = Handle(f, frames', frag).out
        /\ ended' = Cut(f)
        /\ pings' = IF f.op = "ping" /\ ~Cut(f)
                    THEN Append(pings, [n |-> frames', body |-> f.length])
                    ELSE pings
  BY DEF ReadControl
<1>2. /\ pc \in {"next", "read"} /\ ~ended /\ frames' = frames + 1
      /\ UNCHANGED <<wire, broken>>
  BY DEF ReadControl, NextHeader
<1>3. out = <<>> /\ frames' \in Nat /\ frag \in BOOLEAN
  BY <1>2 DEF Turns, Types
<1>4. /\ \A i \in 1..Len(out') : IsPong(out'[i]) =>
           f.op = "ping" /\ Len(out') = 1 /\ out'[i].n = frames'
      /\ f.op = "ping" /\ ~Cut(f) =>
           /\ f.length \in Nat
           /\ Len(out') = 1
           /\ Echo(out'[1], [n |-> frames', body |-> f.length])
  BY <1>1, <1>3, PongReply
<1>5. CASE f.op = "ping" /\ ~Cut(f)
  <2> DEFINE q == [n |-> frames', body |-> f.length]
  <2>1. q \in PingRecord /\ q.n = frames'
    BY <1>3, <1>4, <1>5 DEF PingRecord
  <2>2. pings' = Append(pings, q) /\ Len(out') = 1 /\ Echo(out'[1], q)
    BY <1>1, <1>4, <1>5
  <2> HIDE DEF q
  <2> QED
    BY <1>2, <1>3, <1>4, <2>1, <2>2
<1>6. CASE ~(f.op = "ping" /\ ~Cut(f))
  BY <1>1, <1>2, <1>3, <1>4, <1>6
<1> QED
  BY <1>5, <1>6

(* What the writing steps do to the pongs on the wire. *)
LEMMA HandlerWritesPongs ==
  ASSUME Types, PongOrder, HandlerWrites
  PROVE  /\ UNCHANGED <<frames, ended, pings>>
         /\ \/ /\ ~broken /\ broken' = broken
               /\ wire' = Append(wire, Head(out)) /\ out' = Tail(out)
               /\ \A i \in 1..Len(out') : ~IsPong(out'[i])
            \/ broken' /\ wire' = wire /\ out' = <<>>
<1>1. /\ UNCHANGED <<frames, ended, pings>> /\ out # <<>>
      /\ \/ ~broken /\ broken' = broken
            /\ wire' = Append(wire, Head(out)) /\ out' = Tail(out)
         \/ broken' /\ out' = <<>> /\ wire' = wire
  BY DEF HandlerWrites, reading, history
<1>2. ASSUME out' = Tail(out), NEW i \in 1..Len(out')
      PROVE  ~IsPong(out'[i])
  <2>1. /\ Len(out) \in Nat /\ Len(out') = Len(out) - 1
        /\ \A k \in 1..Len(out)-1 : out'[k] = out[k + 1]
    BY <1>1, <1>2, MovePiece DEF Types
  <2>2. i + 1 \in 1..Len(out) /\ out'[i] = out[i + 1] /\ Len(out) # 1
    BY <2>1
  <2> QED
    BY <2>2 DEF PongOrder
<1> QED
  BY <1>1, <1>2

LEMMA SendWritesPongs ==
  ASSUME Types, Turns, SendWrites
  PROVE  /\ UNCHANGED <<frames, ended, pings, out>>
         /\ broken => broken'
         /\ \/ /\ wire' = Append(wire, Head(todo))
               /\ ~IsPong(todo[1]) /\ todo # <<>>
            \/ wire' = wire
<1>1. /\ UNCHANGED <<frames, ended, pings, out>> /\ todo # <<>>
      /\ \/ wire' = Append(wire, Head(todo)) /\ broken' = broken
         \/ wire' = wire /\ broken' = TRUE
  BY DEF SendWrites, reading, history
<1>2. ~IsPong(todo[1])
  <2>1. 1 \in 1..Len(todo)
    BY <1>1, MovePiece DEF Types
  <2> QED
    BY <2>1 DEF Turns, IsPong
<1> QED
  BY <1>1, <1>2

LEMMA SendBeginsPongs ==
  ASSUME SendBegins
  PROVE  UNCHANGED <<frames, ended, pings, out, wire, broken>>
BY DEF SendBegins, reading, history

LEMMA PongNumbers ==
  ASSUME Types, PongOrder
  PROVE  /\ frames \in Nat
         /\ \A k \in 1..Len(pings) : pings[k] \in PingRecord /\ pings[k].n \in Nat
         /\ \A i \in 1..Len(wire) : wire[i].n \in Nat
<1>1. \A p \in PingRecord : p.n \in Nat
  BY DEF PingRecord
<1>2. \A p \in Pieces : p.n \in Nat
  BY DEF Pieces
<1>3. \A k \in 1..Len(pings) : pings[k] \in PingRecord
  BY DEF PongOrder
<1>4. \A i \in 1..Len(wire) : wire[i] \in Pieces
  BY DEF Types
<1> QED
  BY <1>1, <1>2, <1>3, <1>4 DEF Types

(* A ping at the end of the pings. *)
LEMMA MorePings ==
  ASSUME NEW s \in Seq(PingRecord), NEW q \in PingRecord
  PROVE  /\ Append(s, q) \in Seq(PingRecord)
         /\ Len(s) \in Nat /\ Len(Append(s, q)) = Len(s) + 1
         /\ \A k \in 1..Len(s) : Append(s, q)[k] = s[k]
         /\ Append(s, q)[Len(s) + 1] = q
  OBVIOUS

LEMMA PongOrderStep ==
  ASSUME Types, Turns, PongOrder, [Next]_vars
  PROVE  PongOrder'
<1>1. CASE Quiet
  <2>1. /\ UNCHANGED <<out, wire, pings>>
        /\ frames' = frames \/ (out = <<>> /\ frames' = frames + 1)
    BY <1>1, QuietPongs
  <2>2. CASE frames' = frames
    BY <2>1, <2>2 DEF PongOrder
  <2>3. CASE out = <<>> /\ frames' = frames + 1
    BY <2>1, <2>3, PongNumbers DEF PongOrder
  <2> QED
    BY <2>1, <2>2, <2>3
<1>2. CASE ReadControl
  <2>1. /\ out = <<>> /\ frames' = frames + 1 /\ wire' = wire
        /\ \A i \in 1..Len(out') :
             IsPong(out'[i]) => Len(out') = 1 /\ out'[i].n = frames'
        /\ \/ pings' = pings
           \/ \E q \in PingRecord : q.n = frames' /\ pings' = Append(pings, q)
    BY <1>2, ReadControlPongs
  <2>2. \A i \in 1..Len(wire) : IsPong(wire[i]) => wire[i].n < frames'
    BY <2>1, PongNumbers DEF PongOrder
  <2>3. pings' \in Seq(PingRecord) /\ \A k \in 1..Len(pings') : pings'[k].n <= frames'
    <3>1. CASE pings' = pings
      BY <2>1, <3>1, PongNumbers DEF PongOrder
    <3>2. ASSUME NEW q \in PingRecord, q.n = frames', pings' = Append(pings, q)
          PROVE  pings' \in Seq(PingRecord)
                 /\ \A k \in 1..Len(pings') : pings'[k].n <= frames'
      <4>1. /\ pings \in Seq(PingRecord) /\ frames' = frames + 1 /\ frames \in Nat
            /\ \A k \in 1..Len(pings) : pings[k].n <= frames /\ pings[k].n \in Nat
        BY <2>1, PongNumbers DEF PongOrder
      <4>2. /\ pings' \in Seq(PingRecord)
            /\ Len(pings) \in Nat /\ Len(pings') = Len(pings) + 1
            /\ \A k \in 1..Len(pings) : pings'[k] = pings[k]
            /\ pings'[Len(pings) + 1] = q
        BY <3>2, <4>1, MorePings
      <4> QED
        BY <3>2, <4>1, <4>2
    <3> QED
      BY <2>1, <3>1, <3>2
  <2>4. \A i \in 1..Len(wire) : IsPong(wire[i]) => wire[i].n <= frames'
    BY <2>1, <2>2, PongNumbers
  <2> QED
    BY <2>1, <2>2, <2>3, <2>4 DEF PongOrder
<1>3. CASE HandlerWrites
  <2>1. UNCHANGED <<frames, ended, pings>>
    BY <1>3, HandlerWritesPongs
  <2>2. CASE broken' /\ wire' = wire /\ out' = <<>>
    BY <2>1, <2>2 DEF PongOrder
  <2>3. CASE /\ wire' = Append(wire, Head(out)) /\ out' = Tail(out)
             /\ \A i \in 1..Len(out') : ~IsPong(out'[i])
    <3>1. /\ Len(wire) \in Nat /\ Len(wire') = Len(wire) + 1
          /\ \A i \in 1..Len(wire) : wire'[i] = wire[i]
          /\ wire'[Len(wire) + 1] = out[1] /\ 1 \in 1..Len(out)
      BY <1>3, <2>3, MovePiece DEF Types, HandlerWrites
    <3>2. IsPong(out[1]) => /\ out[1].n = frames
                            /\ \A j \in 1..Len(wire) : IsPong(wire[j]) => wire[j].n < frames
      BY <3>1 DEF PongOrder
    <3>3. \A i \in 1..Len(wire') : IsPong(wire'[i]) => wire'[i].n <= frames
      BY <3>1, <3>2, PongNumbers, SMTT(30) DEF PongOrder
    <3>4. \A i \in 1..Len(wire') : \A j \in i+1..Len(wire') :
            IsPong(wire'[i]) /\ IsPong(wire'[j]) => wire'[i].n < wire'[j].n
      <4> SUFFICES ASSUME NEW i \in 1..Len(wire'), NEW j \in i+1..Len(wire'),
                          IsPong(wire'[i]), IsPong(wire'[j])
                   PROVE  wire'[i].n < wire'[j].n
        OBVIOUS
      <4>1. i \in 1..Len(wire) /\ wire'[i] = wire[i]
        BY <3>1
      <4>2. CASE j \in 1..Len(wire)
        BY <3>1, <4>1, <4>2, SMTT(30) DEF PongOrder
      <4>3. CASE j = Len(wire) + 1
        BY <3>1, <3>2, <4>1, <4>3
      <4> QED
        BY <3>1, <4>2, <4>3
    <3> QED
      BY <2>1, <2>3, <3>3, <3>4 DEF PongOrder
  <2> QED
    BY <1>3, <2>2, <2>3, HandlerWritesPongs
<1>4. CASE SendBegins
  BY <1>4, SendBeginsPongs DEF PongOrder
<1>5. CASE SendWrites
  <2>1. UNCHANGED <<frames, ended, pings, out>>
    BY <1>5, SendWritesPongs
  <2>2. CASE wire' = wire
    BY <2>1, <2>2 DEF PongOrder
  <2>3. CASE wire' = Append(wire, Head(todo)) /\ ~IsPong(todo[1]) /\ todo # <<>>
    <3>1. /\ Len(wire) \in Nat /\ Len(wire') = Len(wire) + 1
          /\ \A i \in 1..Len(wire) : wire'[i] = wire[i]
          /\ wire'[Len(wire) + 1] = todo[1]
      BY <2>3, MovePiece DEF Types
    <3>2. \A i \in 1..Len(wire') : IsPong(wire'[i]) => i \in 1..Len(wire)
      BY <2>3, <3>1
    <3> QED
      BY <2>1, <3>1, <3>2, SMTT(30) DEF PongOrder
  <2> QED
    BY <1>5, <2>2, <2>3, SendWritesPongs
<1> QED
  BY <1>1, <1>2, <1>3, <1>4, <1>5, Steps

LEMMA PongSourceStep ==
  ASSUME Types, Turns, PongOrder, PongSource, [Next]_vars
  PROVE  PongSource'
<1>1. CASE Quiet
  <2>1. UNCHANGED <<out, wire, pings>> /\ (ended => ended')
    BY <1>1, QuietPongs
  <2> QED
    BY <2>1 DEF PongSource, OfPing
<1>2. CASE ReadControl
  <2>1. /\ out = <<>> /\ ~ended /\ wire' = wire
        /\ \A i \in 1..Len(out') : IsPong(out'[i]) => Len(out') = 1
        /\ \/ /\ pings' = pings
              /\ \A i \in 1..Len(out') : IsPong(out'[i]) => ended'
           \/ \E q \in PingRecord : /\ pings' = Append(pings, q)
                                    /\ Len(out') = 1 /\ Echo(out'[1], q)
    BY <1>2, ReadControlPongs
  <2>2. \A i \in 1..Len(wire) : IsPong(wire[i]) => OfPing(wire[i])
    BY <2>1 DEF PongSource
  <2>3. CASE /\ pings' = pings
             /\ \A i \in 1..Len(out') : IsPong(out'[i]) => ended'
    BY <2>1, <2>2, <2>3 DEF PongSource, OfPing
  <2>4. ASSUME NEW q \in PingRecord, pings' = Append(pings, q),
               Len(out') = 1, Echo(out'[1], q)
        PROVE  PongSource'
    <3>1. /\ Len(pings) \in Nat /\ Len(pings') = Len(pings) + 1
          /\ \A k \in 1..Len(pings) : pings'[k] = pings[k]
          /\ pings'[Len(pings) + 1] = q
      BY <2>4, MorePings DEF PongOrder
    <3>2. \A p : OfPing(p) => \E k \in 1..Len(pings') : Echo(p, pings'[k])
      <4> SUFFICES ASSUME NEW p, NEW k \in 1..Len(pings), Echo(p, pings[k])
                   PROVE  \E m \in 1..Len(pings') : Echo(p, pings'[m])
        BY DEF OfPing
      <4>1. k \in 1..Len(pings') /\ pings'[k] = pings[k]
        BY <3>1
      <4> QED
        BY <4>1
    <3>3. \E k \in 1..Len(pings') : Echo(out'[1], pings'[k])
      <4>1. Len(pings) + 1 \in 1..Len(pings')
        BY <3>1
      <4> QED
        BY <2>4, <3>1, <4>1
    <3>4. \A i \in 1..Len(out') : i = 1
      BY <2>4
    <3> QED
      BY <2>1, <2>2, <3>2, <3>3, <3>4 DEF PongSource, OfPing
  <2> QED
    BY <2>1, <2>3, <2>4
<1>3. CASE HandlerWrites
  <2>1. UNCHANGED <<frames, ended, pings>>
    BY <1>3, HandlerWritesPongs
  <2>2. CASE broken' /\ wire' = wire /\ out' = <<>>
    BY <2>1, <2>2 DEF PongSource, OfPing
  <2>3. CASE /\ wire' = Append(wire, Head(out)) /\ out' = Tail(out)
             /\ \A i \in 1..Len(out') : ~IsPong(out'[i])
    <3>1. /\ Len(wire) \in Nat /\ Len(wire') = Len(wire) + 1
          /\ \A i \in 1..Len(wire) : wire'[i] = wire[i]
          /\ wire'[Len(wire) + 1] = out[1] /\ 1 \in 1..Len(out)
      BY <1>3, <2>3, MovePiece DEF Types, HandlerWrites
    <3>2. ASSUME NEW i \in 1..Len(wire'), IsPong(wire'[i])
          PROVE  \/ OfPing(wire'[i])
                 \/ ended /\ \A j \in i+1..Len(wire') : ~IsPong(wire'[j])
      <4>1. CASE i \in 1..Len(wire)
        <5>1. \/ OfPing(wire[i])
              \/ /\ ended
                 /\ \A j \in i+1..Len(wire) : ~IsPong(wire[j])
                 /\ ~IsPong(out[1])
          BY <3>1, <3>2, <4>1 DEF PongSource
        <5>2. CASE OfPing(wire[i])
          BY <3>1, <4>1, <5>2
        <5>3. CASE /\ ended
                   /\ \A j \in i+1..Len(wire) : ~IsPong(wire[j])
                   /\ ~IsPong(out[1])
          <6>1. \A j \in i+1..Len(wire') : j = Len(wire) + 1 \/ j \in 1..Len(wire)
            BY <3>1, <4>1
          <6>2. \A j \in i+1..Len(wire') : j \in 1..Len(wire) => j \in i+1..Len(wire)
            BY <3>1, <4>1
          <6> QED
            BY <3>1, <5>3, <6>1, <6>2
        <5> QED
          BY <5>1, <5>2, <5>3
      <4>2. CASE i = Len(wire) + 1
        <5>1. wire'[i] = out[1] /\ \A j \in i+1..Len(wire') : FALSE
          BY <3>1, <4>2
        <5>2. OfPing(out[1]) \/ ended
          BY <3>1, <3>2, <5>1 DEF PongSource
        <5> QED
          BY <5>1, <5>2
      <4> QED
        BY <3>1, <4>1, <4>2
    <3>3. \A p : OfPing(p) => \E k \in 1..Len(pings') : Echo(p, pings'[k])
      BY <2>1 DEF OfPing
    <3> QED
      BY <2>1, <2>3, <3>2, <3>3 DEF PongSource, OfPing
  <2> QED
    BY <1>3, <2>2, <2>3, HandlerWritesPongs
<1>4. CASE SendBegins
  BY <1>4, SendBeginsPongs DEF PongSource, OfPing
<1>5. CASE SendWrites
  <2>1. UNCHANGED <<frames, ended, pings, out>>
    BY <1>5, SendWritesPongs
  <2>2. CASE wire' = wire
    BY <2>1, <2>2 DEF PongSource, OfPing
  <2>3. CASE wire' = Append(wire, Head(todo)) /\ ~IsPong(todo[1]) /\ todo # <<>>
    <3>1. /\ Len(wire) \in Nat /\ Len(wire') = Len(wire) + 1
          /\ \A i \in 1..Len(wire) : wire'[i] = wire[i]
          /\ wire'[Len(wire) + 1] = todo[1]
      BY <2>3, MovePiece DEF Types
    <3>2. \A i \in 1..Len(wire') : IsPong(wire'[i]) => i \in 1..Len(wire)
      BY <2>3, <3>1
    <3>3. ASSUME NEW i \in 1..Len(wire)
          PROVE  (\A j \in i+1..Len(wire) : ~IsPong(wire[j]))
                   => \A j \in i+1..Len(wire') : ~IsPong(wire'[j])
      BY <3>1, <3>2
    <3> QED
      BY <2>1, <3>1, <3>2, <3>3 DEF PongSource, OfPing
  <2> QED
    BY <1>5, <2>2, <2>3, SendWritesPongs
<1> QED
  BY <1>1, <1>2, <1>3, <1>4, <1>5, Steps

LEMMA PongDueStep ==
  ASSUME Types, Turns, PongOrder, PongDue, [Next]_vars
  PROVE  PongDue'
<1>1. CASE Quiet
  <2>1. UNCHANGED <<out, wire, pings>> /\ (broken => broken')
    BY <1>1, QuietPongs
  <2> QED
    BY <2>1 DEF PongDue
<1>2. CASE ReadControl
  <2>1. /\ out = <<>> /\ frames' = frames + 1 /\ wire' = wire /\ broken' = broken
        /\ \/ pings' = pings
           \/ \E q \in PingRecord : /\ q.n = frames' /\ pings' = Append(pings, q)
                                    /\ Len(out') = 1 /\ Echo(out'[1], q)
    BY <1>2, ReadControlPongs
  <2>2. \A ping : ~Echoed(ping, out)
    BY <2>1 DEF Echoed
  <2>3. \A k \in 1..Len(pings) : broken \/ Echoed(pings[k], wire)
    BY <2>2 DEF PongDue
  <2>4. CASE pings' = pings
    BY <2>1, <2>3, <2>4 DEF PongDue
  <2>5. ASSUME NEW q \in PingRecord, q.n = frames', pings' = Append(pings, q),
               Len(out') = 1, Echo(out'[1], q)
        PROVE  PongDue'
    <3>1. /\ Len(pings) \in Nat /\ Len(pings') = Len(pings) + 1
          /\ \A k \in 1..Len(pings) : pings'[k] = pings[k]
          /\ pings'[Len(pings) + 1] = q
      BY <2>5, MorePings DEF PongOrder
    <3>2. Echoed(q, out')
      BY <2>5 DEF Echoed
    <3>3. \A i \in 1..Len(wire) : IsPong(wire[i]) => ~(q.n < wire[i].n)
      BY <2>1, <2>5, PongNumbers, SMTT(30) DEF PongOrder
    <3>4. \A k \in 1..Len(pings') : k \in 1..Len(pings) \/ k = Len(pings) + 1
      BY <3>1
    <3>5. \A k \in 1..Len(pings') :
            broken' \/ Echoed(pings'[k], wire') \/ Echoed(pings'[k], out')
      BY <2>1, <2>3, <3>1, <3>2, <3>4
    <3>6. \A k \in 1..Len(pings') : \A i \in 1..Len(wire') :
            IsPong(wire'[i]) /\ pings'[k].n < wire'[i].n => Echoed(pings'[k], wire')
      <4> SUFFICES ASSUME NEW k \in 1..Len(pings'), NEW i \in 1..Len(wire),
                          IsPong(wire[i]), pings'[k].n < wire[i].n
                   PROVE  Echoed(pings'[k], wire)
        BY <2>1
      <4>1. CASE k \in 1..Len(pings)
        BY <3>1, <4>1 DEF PongDue
      <4>2. CASE k = Len(pings) + 1
        BY <3>1, <3>3, <4>2
      <4> QED
        BY <3>4, <4>1, <4>2
    <3> QED
      BY <3>5, <3>6 DEF PongDue
  <2> QED
    BY <2>1, <2>4, <2>5
<1>3. CASE HandlerWrites
  <2>1. UNCHANGED <<frames, ended, pings>>
    BY <1>3, HandlerWritesPongs
  <2>2. CASE broken' /\ wire' = wire /\ out' = <<>>
    BY <2>1, <2>2 DEF PongDue
  <2>3. CASE /\ ~broken /\ broken' = broken
             /\ wire' = Append(wire, Head(out)) /\ out' = Tail(out)
    <3>1. /\ Len(wire) \in Nat /\ Len(wire') = Len(wire) + 1
          /\ \A i \in 1..Len(wire) : wire'[i] = wire[i]
          /\ wire'[Len(wire) + 1] = out[1] /\ 1 \in 1..Len(out)
          /\ Len(out) \in Nat /\ Len(out') = Len(out) - 1
          /\ \A i \in 1..Len(out)-1 : out'[i] = out[i + 1]
      BY <1>3, <2>3, MovePiece DEF Types, HandlerWrites
    <3>2. \A ping : Echoed(ping, wire) => Echoed(ping, wire')
      BY <3>1 DEF Echoed
    <3>3. \A ping : Echoed(ping, out) => Echoed(ping, wire') \/ Echoed(ping, out')
      <4> SUFFICES ASSUME NEW ping, NEW i \in 1..Len(out), Echo(out[i], ping)
                   PROVE  Echoed(ping, wire') \/ Echoed(ping, out')
        BY DEF Echoed
      <4>1. CASE i = 1
        <5>1. Len(wire) + 1 \in 1..Len(wire')
          BY <3>1
        <5> QED
          BY <3>1, <4>1, <5>1 DEF Echoed
      <4>2. CASE i # 1
        <5>1. i - 1 \in 1..Len(out') /\ out'[i - 1] = out[i]
          BY <3>1, <4>2
        <5> QED
          BY <5>1 DEF Echoed
      <4> QED
        BY <4>1, <4>2
    <3>4. \A k \in 1..Len(pings) : \A i \in 1..Len(wire') :
            IsPong(wire'[i]) /\ pings[k].n < wire'[i].n => Echoed(pings[k], wire')
      <4> SUFFICES ASSUME NEW k \in 1..Len(pings), NEW i \in 1..Len(wire'),
                          IsPong(wire'[i]), pings[k].n < wire'[i].n
                   PROVE  Echoed(pings[k], wire')
        OBVIOUS
      <4>1. CASE i \in 1..Len(wire)
        BY <3>1, <3>2, <4>1 DEF PongDue
      <4>2. CASE i = Len(wire) + 1
        <5>1. IsPong(out[1]) /\ pings[k].n < out[1].n
          BY <3>1, <4>2
        <5>2. Len(out) = 1 /\ pings[k].n # out[1].n
          <6>1. out[1].n = frames /\ Len(out) = 1
            BY <3>1, <5>1 DEF PongOrder
          <6> QED
            BY <5>1, <6>1, PongNumbers
        <5>3. ~Echoed(pings[k], out)
          <6>1. \A m \in 1..Len(out) : out[m].n # pings[k].n
            BY <5>2
          <6> QED
            BY <6>1 DEF Echoed, Echo
        <5> QED
          BY <2>3, <3>2, <5>3 DEF PongDue
      <4> QED
        BY <3>1, <4>1, <4>2
    <3>5. \A k \in 1..Len(pings) : Echoed(pings[k], wire') \/ Echoed(pings[k], out')
      BY <2>3, <3>2, <3>3 DEF PongDue
    <3> QED
      BY <2>1, <3>4, <3>5 DEF PongDue
  <2> QED
    BY <1>3, <2>2, <2>3, HandlerWritesPongs
<1>4. CASE SendBegins
  BY <1>4, SendBeginsPongs DEF PongDue
<1>5. CASE SendWrites
  <2>1. UNCHANGED <<frames, ended, pings, out>> /\ (broken => broken')
    BY <1>5, SendWritesPongs
  <2>2. CASE wire' = wire
    BY <2>1, <2>2 DEF PongDue
  <2>3. CASE wire' = Append(wire, Head(todo)) /\ ~IsPong(todo[1]) /\ todo # <<>>
    <3>1. /\ Len(wire) \in Nat /\ Len(wire') = Len(wire) + 1
          /\ \A i \in 1..Len(wire) : wire'[i] = wire[i]
          /\ wire'[Len(wire) + 1] = todo[1]
      BY <2>3, MovePiece DEF Types
    <3>2. \A i \in 1..Len(wire') :
            IsPong(wire'[i]) => i \in 1..Len(wire) /\ wire'[i] = wire[i]
      BY <2>3, <3>1
    <3>3. \A ping : Echoed(ping, wire) => Echoed(ping, wire')
      BY <3>1 DEF Echoed
    <3> QED
      BY <2>1, <3>2, <3>3 DEF PongDue
  <2> QED
    BY <1>5, <2>2, <2>3, SendWritesPongs
<1> QED
  BY <1>1, <1>2, <1>3, <1>4, <1>5, Steps

(* PongsEchoPings, for pings of any size and any number of frames: every
   ping that arrives whole is answered by one pong with its payload, in the
   order of the pings, wherever in a message it stands
   (src/msutil/handler.go:70, src/msutil/connecter.go:78). *)
THEOREM ControlPongsEchoPings == Spec => []PongsEchoPings
<1>1. Init => PongInv
  <2> SUFFICES ASSUME Init PROVE PongInv
    OBVIOUS
  <2>1. /\ pings = <<>> /\ out = <<>> /\ wire = <<>> /\ <<>> \in Seq(PingRecord)
        /\ Len(<<>>) = 0
    BY DEF Init
  <2> QED
    BY <2>1 DEF PongInv, PongOrder, PongSource, PongDue
<1>2. Spec => []PongInv
  <2>1. IInv /\ PongInv /\ [Next]_vars => PongInv'
    BY PongOrderStep, PongSourceStep, PongDueStep DEF IInv, PongInv
  <2> QED
    BY <1>1, <2>1, ControlInvariant, PTL DEF Spec
<1>3. IInv /\ PongInv => PongsEchoPings
  <2> SUFFICES ASSUME IInv, PongInv PROVE PongsEchoPings
    OBVIOUS
  <2>1. ASSUME pc # "handler", ~broken, NEW k \in 1..Len(pings)
        PROVE  Echoed(pings[k], wire)
    <3>1. Len(out) = 0
      BY <2>1 DEF IInv, Turns
    <3>2. ~Echoed(pings[k], out)
      BY <3>1 DEF Echoed
    <3> QED
      BY <2>1, <3>2 DEF PongInv, PongDue
  <2>2. \A i \in 1..Len(wire) : IsPong(wire[i]) =>
          \/ \E k \in 1..Len(pings) : Echo(wire[i], pings[k])
          \/ ended /\ \A j \in i+1..Len(wire) : ~IsPong(wire[j])
    BY Zenon DEF PongInv, PongSource, OfPing
  <2> QED
    BY <2>1, <2>2 DEF PongInv, PongOrder, PongDue, PongsEchoPings
<1> QED
  BY <1>2, <1>3, ControlInvariant, PTL
=============================================================================
