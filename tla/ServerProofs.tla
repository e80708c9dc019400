----------------------------- MODULE ServerProofs -----------------------------
(***************************************************************************)
(* Proofs about module Server, for any set of connections: that a session  *)
(* is closed before its connection, and that no accepted connection is     *)
(* without a goroutine.                                                    *)
(***************************************************************************)
EXTENDS Server, TLAPS

(* Where the goroutine of c stands tells what it has closed.  Only the
   section's own Close closes it, so between there and the end both it and
   its context are over; a session that was refused never opened. *)
Stands(c) ==
  /\ pc[c] = "none" => conn[c] \in {"none", "backlog", "reset"} /\ session[c] = "none"
  /\ pc[c] = "connect" => conn[c] = "open" /\ session[c] = "none"
  /\ pc[c] \in {"loop", "next", "busy", "section"} =>
       conn[c] = "open" /\ session[c] = "open"
  /\ pc[c] = "cancel" => conn[c] = "open" /\ session[c] = "closed"
  /\ pc[c] = "close" =>
       /\ conn[c] = "open"
       /\ session[c] = "none" \/ (session[c] = "closed" /\ c \in cancelled)
  /\ pc[c] = "done" =>
       /\ conn[c] = "closed"
       /\ session[c] = "none" \/ (session[c] = "closed" /\ c \in cancelled)
  /\ peer[c] = "away" => conn[c] = "none"

(* The values of every variable stay in their sets. *)
LEMMA ServerTypes ==
  Spec => []TypeOK
<1>1. Init => TypeOK
  <2> SUFFICES ASSUME Init PROVE TypeOK
    OBVIOUS
  <2>1. /\ ctxDone \in BOOLEAN
        /\ listener \in {"none", "open", "closed"}
        /\ main \in {"listen", "wait", "close", "returned"}
        /\ acceptor \in {"none", "select", "accept", "returned"}
        /\ cancelled \subseteq Conns
    BY DEF Init
  <2>2. /\ peer \in [Conns -> {"away", "there", "gone"}]
        /\ conn \in [Conns -> {"none", "backlog", "open", "closed", "reset"}]
        /\ session \in [Conns -> {"none", "open", "closed"}]
    BY DEF Init
  <2>3. pc \in [Conns -> {"none", "connect", "loop", "next", "busy", "section",
                         "cancel", "close", "done"}]
    BY DEF Init
  <2> QED
    BY <2>1, <2>2, <2>3 DEF TypeOK
<1>2. ASSUME TypeOK, [Next]_vars
      PROVE  TypeOK'
  <2> USE <1>2 DEF TypeOK
  <2>1. CASE Listen \/ ListenFails \/ Stop \/ CloseListener
    BY <2>1 DEF Listen, ListenFails, Stop, CloseListener, conns
  <2>2. CASE AcceptStep
    BY <2>2 DEF AcceptStep, Select, AcceptFails, Accept, conns
  <2>3. ASSUME NEW c \in Conns, ConnStep(c)
        PROVE  TypeOK'
    <3>1. CASE Connect(c) \/ ConnectRefused(c) \/ LoopTop(c)
      BY <3>1 DEF Connect, ConnectRefused, LoopTop, Goto, server
    <3>2. CASE FrameArrives(c) \/ NextFrameFails(c) \/ Handled(c)
      BY <3>2 DEF FrameArrives, NextFrameFails, Handled, Goto, server
    <3>3. CASE CloseSection(c) \/ SectionCancel(c) \/ CloseConn(c)
      BY <3>3 DEF CloseSection, SectionCancel, CloseConn, Goto, server
    <3> QED
      BY <2>3, <3>1, <3>2, <3>3 DEF ConnStep
  <2>4. ASSUME NEW c \in Conns, SessionCancels(c) \/ PeerConnects(c) \/ PeerLeaves(c)
        PROVE  TypeOK'
    BY <2>4 DEF SessionCancels, PeerConnects, PeerLeaves, server
  <2>5. CASE CtxEnds
    BY <2>5 DEF CtxEnds, conns
  <2>6. CASE UNCHANGED vars
    BY <2>6 DEF vars
  <2> QED
    BY <1>2, <2>1, <2>2, <2>3, <2>4, <2>5, <2>6 DEF Next
<1> QED
  BY <1>1, <1>2, PTL DEF Spec

(* A step of the server itself: it opens connections that had no goroutine,
   and resets those only. *)
LEMMA ServerStepStands ==
  ASSUME TypeOK, \A c \in Conns : Stands(c), NEW d \in Conns,
         Listen \/ ListenFails \/ Stop \/ CloseListener \/ AcceptStep \/ CtxEnds
  PROVE  Stands(d)'
<1>1. CASE Listen \/ ListenFails \/ Stop \/ Select \/ AcceptFails \/ CtxEnds
  BY <1>1 DEF Listen, ListenFails, Stop, Select, AcceptFails, CtxEnds, conns, Stands
<1>2. CASE CloseListener
  BY <1>2 DEF CloseListener, TypeOK, Stands
<1>3. ASSUME NEW c \in Conns, Accept(c)
      PROVE  Stands(d)'
  <2>1. CASE c = d
    BY <1>3, <2>1 DEF Accept, TypeOK, Stands
  <2>2. CASE c # d
    BY <1>3, <2>2 DEF Accept, TypeOK, Stands
  <2> QED
    BY <2>1, <2>2
<1> QED
  BY <1>1, <1>2, <1>3 DEF AcceptStep

(* A step of one connection's goroutine, of its session or of its peer. *)
LEMMA ConnStepStands ==
  ASSUME TypeOK, \A c \in Conns : Stands(c), NEW d \in Conns, NEW c \in Conns,
         ConnStep(c) \/ SessionCancels(c) \/ PeerConnects(c) \/ PeerLeaves(c)
  PROVE  Stands(d)'
<1>1. CASE c = d
  <2> USE <1>1 DEF TypeOK, Stands
  <2>1. CASE Connect(c)
    BY <2>1 DEF Connect, Goto
  <2>2. CASE ConnectRefused(c)
    BY <2>2 DEF ConnectRefused, Goto
  <2>3. CASE LoopTop(c)
    BY <2>3 DEF LoopTop, Goto
  <2>4. CASE FrameArrives(c) \/ NextFrameFails(c)
    BY <2>4 DEF FrameArrives, NextFrameFails, Goto
  <2>5. CASE Handled(c)
    BY <2>5 DEF Handled
  <2>6. CASE CloseSection(c)
    BY <2>6 DEF CloseSection, Goto
  <2>7. CASE SectionCancel(c)
    BY <2>7 DEF SectionCancel, Goto
  <2>8. CASE CloseConn(c)
    BY <2>8 DEF CloseConn, Goto
  <2>9. CASE SessionCancels(c) \/ PeerLeaves(c)
    BY <2>9 DEF SessionCancels, PeerLeaves
  <2>10. CASE PeerConnects(c)
    BY <2>10 DEF PeerConnects
  <2> QED
    BY <2>1, <2>2, <2>3, <2>4, <2>5, <2>6, <2>7, <2>8, <2>9, <2>10 DEF ConnStep
<1>2. CASE c # d
  <2>1. /\ pc'[d] = pc[d]
        /\ conn'[d] = conn[d]
        /\ session'[d] = session[d]
        /\ peer'[d] = peer[d]
        /\ d \in cancelled' <=> d \in cancelled
    <3>1. CASE Connect(c) \/ ConnectRefused(c) \/ LoopTop(c)
      BY <1>2, <3>1 DEF Connect, ConnectRefused, LoopTop, Goto, TypeOK
    <3>2. CASE FrameArrives(c) \/ NextFrameFails(c) \/ Handled(c)
      BY <1>2, <3>2 DEF FrameArrives, NextFrameFails, Handled, Goto, TypeOK
    <3>3. CASE CloseSection(c) \/ SectionCancel(c) \/ CloseConn(c)
      BY <1>2, <3>3 DEF CloseSection, SectionCancel, CloseConn, Goto, TypeOK
    <3>4. CASE SessionCancels(c) \/ PeerConnects(c) \/ PeerLeaves(c)
      BY <1>2, <3>4 DEF SessionCancels, PeerConnects, PeerLeaves, TypeOK
    <3> QED
      BY <3>1, <3>2, <3>3, <3>4 DEF ConnStep
  <2> QED
    BY <2>1 DEF Stands
<1> QED
  BY <1>1, <1>2

LEMMA StandsAlways == Spec => [](\A c \in Conns : Stands(c))
<1>1. Init => \A c \in Conns : Stands(c)
  BY DEF Init, Stands
<1>2. ASSUME TypeOK, \A c \in Conns : Stands(c), [Next]_vars
      PROVE  (\A c \in Conns : Stands(c))'
  <2>1. CASE UNCHANGED vars
    BY <1>2, <2>1 DEF vars, Stands
  <2>2. CASE Next
    <3> SUFFICES ASSUME NEW d \in Conns PROVE Stands(d)'
      OBVIOUS
    <3> QED
      BY <1>2, <2>2, ServerStepStands, ConnStepStands DEF Next
  <2> QED
    BY <1>2, <2>1, <2>2
<1> QED
  BY <1>1, <1>2, ServerTypes, PTL DEF Spec

(* CloseOrder, for every number of connections: whatever ends a session's
   loop, the session is closed and its context ended before the connection
   is, and no accepted connection is left without a goroutine to close it
   (src/msutil/connecter.go:59, src/server.go:107). *)
THEOREM ServerClosesInOrder == Spec => []CloseOrder
<1>1. TypeOK /\ (\A c \in Conns : Stands(c)) => CloseOrder
  BY DEF TypeOK, Stands, CloseOrder
<1> QED
  BY <1>1, ServerTypes, StandsAlways, PTL

-----------------------------------------------------------------------------
(***************************************************************************)
(* What ServerStops and ConnsReleased rest on: what stops the server is    *)
(* final, and so is what ends a session.                                   *)
(***************************************************************************)

(* Who waits in the backlog is there to be accepted or reset. *)
Backlog ==
  /\ main = "returned" => listener # "open"
  /\ listener # "open" => \A c \in Conns : conn[c] # "backlog"
  /\ acceptor \in {"select", "accept"} => listener # "none"
  /\ main = "listen" => listener = "none" /\ acceptor = "none"

LEMMA BacklogAlways == Spec => []Backlog
<1>1. Init => Backlog
  BY DEF Init, Backlog
<1>2. ASSUME TypeOK, Backlog, [Next]_vars
      PROVE  Backlog'
  <2> USE <1>2 DEF Backlog, TypeOK
  <2>1. CASE Listen \/ ListenFails \/ Stop
    BY <2>1 DEF Listen, ListenFails, Stop, conns
  <2>2. CASE CloseListener
    BY <2>2 DEF CloseListener
  <2>3. CASE Select \/ AcceptFails \/ CtxEnds
    BY <2>3 DEF Select, AcceptFails, CtxEnds, conns
  <2>4. ASSUME NEW c \in Conns, Accept(c)
        PROVE  Backlog'
    BY <2>4 DEF Accept
  <2>5. ASSUME NEW c \in Conns, PeerConnects(c)
        PROVE  Backlog'
    BY <2>5 DEF PeerConnects, server
  <2>6. ASSUME NEW c \in Conns, CloseConn(c)
        PROVE  Backlog'
    BY <2>6 DEF CloseConn, Goto, server
  <2>7. ASSUME NEW c \in Conns,
               (ConnStep(c) /\ ~CloseConn(c)) \/ SessionCancels(c) \/ PeerLeaves(c)
        PROVE  Backlog'
    <3>1. UNCHANGED <<server, conn>>
      BY <2>7 DEF ConnStep, Connect, ConnectRefused, LoopTop, FrameArrives,
                  NextFrameFails, Handled, CloseSection, SectionCancel,
                  SessionCancels, PeerLeaves
    <3> QED
      BY <3>1 DEF server
  <2>8. CASE UNCHANGED vars
    BY <2>8 DEF vars
  <2> QED
    BY <2>1, <2>2, <2>3, <2>4, <2>5, <2>6, <2>7, <2>8 DEF Next, AcceptStep
<1> QED
  BY <1>1, <1>2, ServerTypes, PTL DEF Spec

(* When Run has returned no connection is left in the backlog and none comes
   to it, whenever the context ended; and handleAccept, if it still waits,
   waits at a listener that is closed, which ends its Accept
   (src/server.go:75). *)
THEOREM ServerLeavesNoBacklog ==
  Spec => [](main = "returned" =>
               /\ \A c \in Conns : conn[c] # "backlog"
               /\ acceptor = "accept" => listener = "closed")
<1>1. TypeOK /\ Backlog =>
        (main = "returned" =>
           /\ \A c \in Conns : conn[c] # "backlog"
           /\ acceptor = "accept" => listener = "closed")
  BY DEF TypeOK, Backlog
<1> QED
  BY <1>1, ServerTypes, BacklogAlways, PTL

-----------------------------------------------------------------------------
(* How far Run, handleAccept and the goroutine of a connection are from their
   ends, once the context is done.  A goroutine that waits in NextFrame may
   still get a frame and come round to the top of the loop, but no further. *)
RunRank(m) ==
  CASE m = "listen" -> 3
    [] m = "wait" -> 2
    [] m = "close" -> 1
    [] m = "returned" -> 0

AcceptRank(a) ==
  CASE a = "none" -> 3
    [] a = "accept" -> 2
    [] a = "select" -> 1
    [] a = "returned" -> 0

ConnRank(l) ==
  CASE l = "none" -> 9
    [] l = "connect" -> 8
    [] l = "next" -> 7
    [] l = "busy" -> 6
    [] l = "loop" -> 5
    [] l = "section" -> 4
    [] l = "cancel" -> 3
    [] l = "close" -> 2
    [] l = "done" -> 1

(* Nothing gives Run more to do, and nothing the others once a context they
   look at is done; and that it stays. *)
NoReturn ==
  /\ RunRank(main') <= RunRank(main)
  /\ ctxDone => ctxDone' /\ AcceptRank(acceptor') <= AcceptRank(acceptor)
  /\ \A c \in Conns :
       SectionDone(c) =>
         SectionDone(c)' /\ ConnRank(pc'[c]) <= ConnRank(pc[c])

LEMMA AcceptValues ==
  /\ AcceptRank("none") = 3 /\ AcceptRank("accept") = 2
  /\ AcceptRank("select") = 1 /\ AcceptRank("returned") = 0
  BY DEF AcceptRank

LEMMA RankValues ==
  /\ ConnRank("none") = 9 /\ ConnRank("connect") = 8 /\ ConnRank("next") = 7
  /\ ConnRank("busy") = 6 /\ ConnRank("loop") = 5 /\ ConnRank("section") = 4
  /\ ConnRank("cancel") = 3 /\ ConnRank("close") = 2 /\ ConnRank("done") = 1
  BY DEF ConnRank

LEMMA ConnStepLowers ==
  ASSUME TypeOK, NEW c \in Conns, SectionDone(c), ConnStep(c)
  PROVE  /\ ConnRank(pc'[c]) < ConnRank(pc[c])
         /\ ConnRank(pc'[c]) <= ConnRank(pc[c])
<1> USE DEF TypeOK, Goto
<1>1. CASE Connect(c) \/ ConnectRefused(c)
  <2>1. pc[c] = "connect" /\ pc'[c] \in {"loop", "close"}
    BY <1>1 DEF Connect, ConnectRefused
  <2> QED
    BY <2>1, RankValues
<1>2. CASE LoopTop(c)
  <2>1. pc[c] = "loop" /\ pc'[c] = "section"
    BY <1>2 DEF LoopTop
  <2> QED
    BY <2>1, RankValues
<1>3. CASE FrameArrives(c) \/ NextFrameFails(c)
  <2>1. pc[c] = "next" /\ pc'[c] \in {"busy", "section"}
    BY <1>3 DEF FrameArrives, NextFrameFails
  <2> QED
    BY <2>1, RankValues
<1>4. CASE Handled(c)
  <2>1. pc[c] = "busy" /\ pc'[c] \in {"loop", "section"}
    BY <1>4 DEF Handled
  <2> QED
    BY <2>1, RankValues
<1>5. CASE CloseSection(c) \/ SectionCancel(c) \/ CloseConn(c)
  <2>1. \/ pc[c] = "section" /\ pc'[c] = "cancel"
        \/ pc[c] = "cancel" /\ pc'[c] = "close"
        \/ pc[c] = "close" /\ pc'[c] = "done"
    BY <1>5 DEF CloseSection, SectionCancel, CloseConn
  <2> QED
    BY <2>1, RankValues
<1> QED
  BY <1>1, <1>2, <1>3, <1>4, <1>5 DEF ConnStep

LEMMA OthersKeepPlace ==
  ASSUME TypeOK, Next, NEW c \in Conns, ~ConnStep(c), ~Accept(c)
  PROVE  pc'[c] = pc[c]
<1> USE DEF TypeOK
<1>1. ASSUME NEW d \in Conns, ConnStep(d)
      PROVE  pc'[c] = pc[c]
  <2>1. \E l : pc' = [pc EXCEPT ![d] = l]
    BY <1>1 DEF ConnStep, Connect, ConnectRefused, LoopTop, FrameArrives,
                NextFrameFails, Handled, CloseSection, SectionCancel,
                CloseConn, Goto
  <2>2. c # d
    BY <1>1
  <2> QED
    BY <2>1, <2>2
<1>2. ASSUME NEW d \in Conns, Accept(d)
      PROVE  pc'[c] = pc[c]
  <2>1. c # d
    BY <1>2
  <2> QED
    BY <1>2, <2>1 DEF Accept
<1>3. ASSUME NEW d \in Conns, SessionCancels(d) \/ PeerConnects(d) \/ PeerLeaves(d)
      PROVE  pc'[c] = pc[c]
  BY <1>3 DEF SessionCancels, PeerConnects, PeerLeaves
<1>4. CASE Listen \/ ListenFails \/ Stop \/ CloseListener
  BY <1>4 DEF Listen, ListenFails, Stop, CloseListener, conns
<1>5. CASE Select \/ AcceptFails \/ CtxEnds
  BY <1>5 DEF Select, AcceptFails, CtxEnds, conns
<1> QED
  BY <1>1, <1>2, <1>3, <1>4, <1>5 DEF Next, AcceptStep

(* When the context ends, what Run, handleAccept and the sessions have to do
   can only become less: handleAccept accepts one connection more at most, and
   a session takes at most the frame it waits for.  One whose own context is
   done never comes round to NextFrame again, whatever frames arrive
   (src/server.go:85, src/server.go:93, src/msutil/connecter.go:65). *)
THEOREM ServerWindsDown ==
  Spec => [][/\ NoReturn
             /\ ctxDone /\ AcceptStep =>
                  AcceptRank(acceptor') < AcceptRank(acceptor)
             /\ \A c \in Conns :
                  SectionDone(c) /\ ConnStep(c) =>
                    ConnRank(pc'[c]) < ConnRank(pc[c])]_vars
<1> DEFINE Winds ==
      /\ NoReturn
      /\ ctxDone /\ AcceptStep => AcceptRank(acceptor') < AcceptRank(acceptor)
      /\ \A c \in Conns :
           SectionDone(c) /\ ConnStep(c) => ConnRank(pc'[c]) < ConnRank(pc[c])
<1>1. ASSUME TypeOK, \A c \in Conns : Stands(c), Backlog, [Next]_vars
      PROVE  [Winds]_vars
  <2> SUFFICES ASSUME Next PROVE Winds
    BY <1>1
  <2> USE <1>1 DEF TypeOK
  <2>1. RunRank(main') <= RunRank(main)
    <3>1. UNCHANGED main \/ Listen \/ ListenFails \/ Stop \/ CloseListener
      BY DEF Next, AcceptStep, Select, AcceptFails, Accept, ConnStep, Connect,
             ConnectRefused, LoopTop, FrameArrives, NextFrameFails, Handled,
             CloseSection, SectionCancel, CloseConn, SessionCancels,
             PeerConnects, PeerLeaves, CtxEnds, server
    <3>2. CASE UNCHANGED main
      BY <3>2 DEF RunRank
    <3>3. CASE Listen \/ ListenFails \/ Stop \/ CloseListener
      BY <3>3 DEF Listen, ListenFails, Stop, CloseListener, RunRank
    <3> QED
      BY <3>1, <3>2, <3>3
  <2>2. ctxDone => ctxDone'
    BY DEF Next, AcceptStep, Select, AcceptFails, Accept, ConnStep, Connect,
           ConnectRefused, LoopTop, FrameArrives, NextFrameFails, Handled,
           CloseSection, SectionCancel, CloseConn, SessionCancels, PeerConnects,
           PeerLeaves, CtxEnds, Listen, ListenFails, Stop, CloseListener, server
  <2>3. cancelled \subseteq cancelled'
    BY DEF Next, AcceptStep, Select, AcceptFails, Accept, ConnStep, Connect,
           ConnectRefused, LoopTop, FrameArrives, NextFrameFails, Handled,
           CloseSection, SectionCancel, CloseConn, SessionCancels, PeerConnects,
           PeerLeaves, CtxEnds, Listen, ListenFails, Stop, CloseListener, conns
  <2>4. ctxDone /\ AcceptStep => AcceptRank(acceptor') < AcceptRank(acceptor)
    <3> SUFFICES ASSUME ctxDone, AcceptStep
                 PROVE  AcceptRank(acceptor') < AcceptRank(acceptor)
      OBVIOUS
    <3>1. \/ acceptor = "select" /\ acceptor' = "returned"
          \/ acceptor = "accept" /\ acceptor' = "select"
      BY DEF AcceptStep, Select, AcceptFails, Accept
    <3> QED
      BY <3>1, AcceptValues
  <2>5. ctxDone => AcceptRank(acceptor') <= AcceptRank(acceptor)
    <3>1. CASE AcceptStep
      <4>1. acceptor \in {"select", "accept"}
        BY <3>1 DEF AcceptStep, Select, AcceptFails, Accept
      <4>2. ctxDone => acceptor' \in {"returned", "select"}
                         /\ (acceptor = "select" => acceptor' = "returned")
        BY <3>1 DEF AcceptStep, Select, AcceptFails, Accept
      <4> QED
        BY <4>1, <4>2, AcceptValues
    <3>2. CASE Listen
      <4>1. acceptor = "none" /\ acceptor' = "select"
        BY <3>2 DEF Listen, Backlog
      <4> QED
        BY <4>1, AcceptValues
    <3>3. CASE ~AcceptStep /\ ~Listen
      <4>1. UNCHANGED acceptor
        BY <3>3 DEF Next, ConnStep, Connect, ConnectRefused, LoopTop,
               FrameArrives, NextFrameFails, Handled, CloseSection,
               SectionCancel, CloseConn, SessionCancels, PeerConnects,
               PeerLeaves, CtxEnds, ListenFails, Stop, CloseListener, server
      <4> QED
        BY <4>1, AcceptValues
    <3> QED
      BY <3>1, <3>2, <3>3
  <2>6. ASSUME NEW c \in Conns, SectionDone(c), ConnStep(c)
        PROVE  ConnRank(pc'[c]) < ConnRank(pc[c])
    BY <2>6, ConnStepLowers
  <2>7. ASSUME NEW c \in Conns, SectionDone(c)
        PROVE  SectionDone(c)' /\ ConnRank(pc'[c]) <= ConnRank(pc[c])
    <3>1. SectionDone(c)'
      BY <2>2, <2>3, <2>7 DEF SectionDone
    <3>2. CASE ConnStep(c)
      BY <2>7, <3>1, <3>2, ConnStepLowers
    <3>3. CASE Accept(c)
      <4>1. pc[c] = "none" /\ pc'[c] = "connect"
        BY <3>3 DEF Accept, Stands
      <4> QED
        BY <3>1, <4>1, RankValues
    <3>4. CASE ~ConnStep(c) /\ ~Accept(c)
      <4>1. pc'[c] = pc[c]
        BY <3>4, OthersKeepPlace
      <4>2. ConnRank(pc[c]) \in Int
        BY RankValues
      <4> QED
        BY <3>1, <4>1, <4>2
    <3> QED
      BY <3>1, <3>2, <3>3, <3>4
  <2> QED
    BY <2>1, <2>2, <2>4, <2>5, <2>6, <2>7 DEF NoReturn
<1> QED
  BY <1>1, ServerTypes, StandsAlways, BacklogAlways, PTL DEF Spec
=============================================================================
