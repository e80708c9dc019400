-------------------------------- MODULE Server --------------------------------
(***************************************************************************)
(* Server.Run and handleAccept (src/server.go) with the life of each       *)
(* connection's Connecter.Run (src/msutil/connecter.go): who closes what,  *)
(* and in which order, when the context ends, peers go, sends fail and     *)
(* Accept fails.  What the frames carry is module Control's business.      *)
(*                                                                         *)
(* A listener is modelled as its callers see it: Accept waits until there  *)
(* is a connection, fails at once on a closed listener and may fail on an  *)
(* open one; closing the listener resets the connections it still holds.   *)
(***************************************************************************)
EXTENDS Integers

CONSTANT Conns   \* connections that peers may open

VARIABLES
  ctxDone,    \* the server's context is done
  listener,   \* "none", "open", "closed"
  main,       \* Run: "listen", "wait", "close", "returned"
  acceptor,   \* handleAccept: "none", at its "select", in "accept", "returned"
  peer,       \* [Conns -> "away", "there", "gone"]
  conn,       \* [Conns -> "none", "backlog", "open", "closed", "reset"]
  pc,         \* [Conns -> the connection's goroutine: "none", in "connect",
              \*   at the top of Run's "loop", in NextFrame ("next"), in a
              \*   handler or ReadPump ("busy"), in the deferred "section" and
              \*   "cancel", at the deferred Close of the connection ("close"),
              \*   "done"]
  cancelled,  \* the Conns whose sectionCancel was called
  session     \* [Conns -> "none", "open", "closed"]

server == <<ctxDone, listener, main, acceptor>>
conns == <<peer, conn, pc, cancelled, session>>
vars == <<ctxDone, listener, main, acceptor, peer, conn, pc, cancelled, session>>

TypeOK ==
  /\ ctxDone \in BOOLEAN
  /\ listener \in {"none", "open", "closed"}
  /\ main \in {"listen", "wait", "close", "returned"}
  /\ acceptor \in {"none", "select", "accept", "returned"}
  /\ peer \in [Conns -> {"away", "there", "gone"}]
  /\ conn \in [Conns -> {"none", "backlog", "open", "closed", "reset"}]
  /\ pc \in [Conns -> {"none", "connect", "loop", "next", "busy", "section",
                       "cancel", "close", "done"}]
  /\ cancelled \subseteq Conns
  /\ session \in [Conns -> {"none", "open", "closed"}]

Init ==
  /\ ctxDone = FALSE
  /\ listener = "none"
  /\ main = "listen"
  /\ acceptor = "none"
  /\ peer = [c \in Conns |-> "away"]
  /\ conn = [c \in Conns |-> "none"]
  /\ pc = [c \in Conns |-> "none"]
  /\ cancelled = {}
  /\ session = [c \in Conns |-> "none"]

-----------------------------------------------------------------------------
(* Server.Run. *)

Listen ==
  /\ main = "listen"
  /\ listener' = "open"
  /\ acceptor' = "select"
  /\ main' = "wait"
  /\ UNCHANGED <<ctxDone, conns>>

(* The address is wrong, or taken, or the socket's file stays. *)
ListenFails ==
  /\ main = "listen"
  /\ main' = "returned"
  /\ UNCHANGED <<ctxDone, listener, acceptor, conns>>

Stop ==
  /\ main = "wait"
  /\ ctxDone
  /\ main' = "close"
  /\ UNCHANGED <<ctxDone, listener, acceptor, conns>>

\* Mutant: Run leaves the listener open.
LeaveListener ==
  /\ main = "close"
  /\ main' = "returned"
  /\ UNCHANGED <<ctxDone, listener, acceptor, conns>>

(* The deferred call: Run does not wait for the sessions. *)
CloseListener ==
  /\ main = "close"
  /\ main' = "returned"
  /\ listener' = "closed"
  /\ conn' = [c \in Conns |-> IF conn[c] = "backlog" THEN "reset" ELSE conn[c]]
  /\ UNCHANGED <<ctxDone, acceptor, peer, pc, cancelled, session>>

-----------------------------------------------------------------------------
(* handleAccept. *)

Select ==
  /\ acceptor = "select"
  /\ acceptor' = IF ctxDone THEN "returned" ELSE "accept"
  /\ UNCHANGED <<ctxDone, listener, main, conns>>

Accept(c) ==
  /\ acceptor = "accept"
  /\ listener = "open"
  /\ conn[c] = "backlog"
  /\ conn' = [conn EXCEPT ![c] = "open"]
  /\ pc' = [pc EXCEPT ![c] = "connect"]
  /\ acceptor' = "select"
  /\ UNCHANGED <<ctxDone, listener, main, peer, cancelled, session>>

AcceptFails ==
  /\ acceptor = "accept"
  /\ acceptor' = "select"
  /\ UNCHANGED <<ctxDone, listener, main, conns>>

-----------------------------------------------------------------------------
(* Connecter.Run in the goroutine of connection c, and the deferred Close. *)

Goto(c, l) == pc' = [pc EXCEPT ![c] = l]

Connect(c) ==
  /\ pc[c] = "connect"
  /\ session' = [session EXCEPT ![c] = "open"]
  /\ Goto(c, "loop")
  /\ UNCHANGED <<server, peer, conn, cancelled>>

(* Run returns before it has deferred anything: the section's context is
   not cancelled. *)
ConnectRefused(c) ==
  /\ pc[c] = "connect"
  /\ Goto(c, "close")
  /\ UNCHANGED <<server, peer, conn, cancelled, session>>

SectionDone(c) == ctxDone \/ c \in cancelled

\* Mutant: a done context returns past the section's Close.
LoopTopReturns(c) ==
  /\ pc[c] = "loop"
  /\ Goto(c, IF SectionDone(c) THEN "close" ELSE "next")
  /\ UNCHANGED <<server, peer, conn, cancelled, session>>

LoopTop(c) ==
  /\ pc[c] = "loop"
  /\ Goto(c, IF SectionDone(c) THEN "section" ELSE "next")
  /\ UNCHANGED <<server, peer, conn, cancelled, session>>

(* NextFrame returns a frame the peer has sent. *)
FrameArrives(c) ==
  /\ pc[c] = "next"
  /\ Goto(c, "busy")
  /\ UNCHANGED <<server, peer, conn, cancelled, session>>

\* Mutant: the loop tries again.
NextFrameAgain(c) ==
  /\ pc[c] = "next"
  /\ Goto(c, "loop")
  /\ UNCHANGED <<server, peer, conn, cancelled, session>>

(* NextFrame fails, at the latest when the peer has gone. *)
NextFrameFails(c) ==
  /\ pc[c] = "next"
  /\ Goto(c, "section")
  /\ UNCHANGED <<server, peer, conn, cancelled, session>>

(* ch or ReadPump returns nil, or an error.  A peer that has gone ends their
   reads and fails their writes. *)
Handled(c) ==
  /\ pc[c] = "busy"
  /\ pc' \in {[pc EXCEPT ![c] = l] : l \in {"loop", "section"}}
  /\ UNCHANGED <<server, peer, conn, cancelled, session>>

CloseSection(c) ==
  /\ pc[c] = "section"
  /\ session' = [session EXCEPT ![c] = "closed"]
  /\ Goto(c, "cancel")
  /\ UNCHANGED <<server, peer, conn, cancelled>>

SectionCancel(c) ==
  /\ pc[c] = "cancel"
  /\ cancelled' = cancelled \cup {c}
  /\ Goto(c, "close")
  /\ UNCHANGED <<server, peer, conn, session>>

CloseConn(c) ==
  /\ pc[c] = "close"
  /\ conn' = [conn EXCEPT ![c] = "closed"]
  /\ Goto(c, "done")
  /\ UNCHANGED <<server, peer, cancelled, session>>

(* The session calls its cancel function, or one of its sends fails. *)
SessionCancels(c) ==
  /\ session[c] = "open"
  /\ c \notin cancelled
  /\ cancelled' = cancelled \cup {c}
  /\ UNCHANGED <<server, peer, conn, pc, session>>

-----------------------------------------------------------------------------
(* The owner of the context, and the peers. *)

CtxEnds ==
  /\ ~ctxDone
  /\ ctxDone' = TRUE
  /\ UNCHANGED <<listener, main, acceptor, conns>>

PeerConnects(c) ==
  /\ peer[c] = "away"
  /\ listener = "open"
  /\ peer' = [peer EXCEPT ![c] = "there"]
  /\ conn' = [conn EXCEPT ![c] = "backlog"]
  /\ UNCHANGED <<server, pc, cancelled, session>>

PeerLeaves(c) ==
  /\ peer[c] = "there"
  /\ peer' = [peer EXCEPT ![c] = "gone"]
  /\ UNCHANGED <<server, conn, pc, cancelled, session>>

AcceptStep == Select \/ AcceptFails \/ \E c \in Conns : Accept(c)

ConnStep(c) ==
  \/ Connect(c) \/ ConnectRefused(c)
  \/ LoopTop(c)
  \/ FrameArrives(c) \/ NextFrameFails(c)
  \/ Handled(c)
  \/ CloseSection(c) \/ SectionCancel(c) \/ CloseConn(c)

Next ==
  \/ Listen \/ ListenFails \/ Stop \/ CloseListener
  \/ AcceptStep
  \/ \E c \in Conns :
       ConnStep(c) \/ SessionCancels(c) \/ PeerConnects(c) \/ PeerLeaves(c)
  \/ CtxEnds

(* Run and every goroutine are scheduled; handleAccept returns from Accept
   when the listener is closed or holds a connection, and a connection's
   goroutine from NextFrame when its peer has gone, after at most the frames
   that came before.  A handler or ReadPump comes to its end.  Nobody owes
   the server a frame, a peer's departure or the end of its context. *)
Fairness ==
  /\ WF_vars(Listen \/ ListenFails \/ Stop \/ CloseListener)
  /\ WF_vars(Select)
  /\ WF_vars(listener = "closed" /\ AcceptFails)
  /\ \A c \in Conns :
       /\ WF_vars(Connect(c) \/ ConnectRefused(c) \/ LoopTop(c) \/ Handled(c)
                    \/ CloseSection(c) \/ SectionCancel(c) \/ CloseConn(c))
       /\ SF_vars(peer[c] = "gone" /\ NextFrameFails(c))

Spec == Init /\ [][Next]_vars /\ Fairness

-----------------------------------------------------------------------------
(* Properties. *)

(* A session is open only on an open connection, which is closed after the
   session's Close returned and its context ended, whatever ended the loop;
   every accepted connection has a goroutine that still will close it. *)
CloseOrder ==
  \A c \in Conns :
    /\ session[c] = "open" => conn[c] = "open"
    /\ conn[c] = "closed" /\ session[c] = "closed" => c \in cancelled
    /\ conn[c] = "open" => pc[c] \notin {"none", "done"}

(* When the context ends Run returns, the accepting goroutine does, and no
   connection is left in between: one is refused, or has its goroutine. *)
ServerStops ==
  ctxDone ~> /\ main = "returned"
             /\ acceptor \in {"none", "returned"}
             /\ \A c \in Conns : conn[c] # "backlog"

(* A connection whose peer has gone is closed, and so is one whose context
   is done as soon as its loop comes round to look at it. *)
ConnsReleased ==
  \A c \in Conns :
    conn[c] = "open" /\ (peer[c] = "gone" \/ (SectionDone(c) /\ pc[c] = "loop"))
      ~> conn[c] = "closed"

=============================================================================
