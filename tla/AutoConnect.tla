------------------------------ MODULE AutoConnect ------------------------------
(***************************************************************************)
(* The goroutines of AutoConnectClient (src/msutil/client.go).             *)
(*                                                                         *)
(* Run dials once and leaves the client to goroutines that start each      *)
(* other: connect, which owns a connection and waits for its session or    *)
(* for the context; close, which connect leaves behind with a code; and    *)
(* autoReconnect, which dials until it has a connection.  ConnectClient    *)
(* runs the session of a connection in a goroutine of its own, with a      *)
(* watcher that closes the connection when the session's context ends.     *)
(* Connections are numbered in the order they were dialled; the goroutines *)
(* that serve one have its number, and the autoReconnect that Run starts   *)
(* has number 0.                                                           *)
(***************************************************************************)
EXTENDS Integers

CONSTANTS
  MaxConns,   \* bound: connections the server accepts in one behaviour
  MaxErrors   \* bound: AutoReconnectErrors counts no further

ASSUME ConnBounds == MaxConns \in Nat /\ MaxErrors \in Nat

Conns == 1..MaxConns

VARIABLES
  ctxDone,    \* the context given to Run is cancelled
  run,        \* Run: "dial", "returned"
  used,       \* connections dialled
  conn,       \* "none", "open", "peerClosed", "closed"
  connect,    \* connect(conn): "none", "select", "returned"
  code,       \* its variable code
  closer,     \* close(code): "none", "called", "returned"
  auto,       \* autoReconnect: "none", "delay", "dial", "forget", "returned"
  errors,     \* AutoReconnectErrors
  client,     \* ConnectClient: "none", "start", "connecting", "reading",
              \* "pumping", "leaving", "closing", "returned"
  result,     \* the error it returns: "ErrClientClosed" or another
  scancelled, \* scancel of its session was called
  watch       \* its watcher: "none", "waiting", "returned"

vars == <<ctxDone, run, used, conn, connect, code, closer, auto, errors,
          client, result, scancelled, watch>>

clientVars == <<client, result, scancelled, watch>>
chainVars == <<run, used, connect, code, closer, auto, errors>>

Init ==
  /\ ctxDone = FALSE
  /\ run = "dial"
  /\ used = 0
  /\ conn = [i \in Conns |-> "none"]
  /\ connect = [i \in Conns |-> "none"]
  /\ code = [i \in Conns |-> 0]
  /\ closer = [i \in Conns |-> "none"]
  /\ auto = [i \in 0..MaxConns |-> "none"]
  /\ errors = 0
  /\ client = [i \in Conns |-> "none"]
  /\ result = [i \in Conns |-> "none"]
  /\ scancelled = [i \in Conns |-> FALSE]
  /\ watch = [i \in Conns |-> "none"]

-----------------------------------------------------------------------------
(* The chain of goroutines that keep the client connected. *)

(* DialServer succeeds, and connect(conn) is started: it makes the channel,
   starts ConnectClient and waits. *)
Dialled ==
  /\ used < MaxConns
  /\ used' = used + 1
  /\ conn' = [conn EXCEPT ![used + 1] = "open"]
  /\ connect' = [connect EXCEPT ![used + 1] = "select"]
  /\ client' = [client EXCEPT ![used + 1] = "start"]

DialFails == UNCHANGED <<used, conn, connect, client>>

Run ==
  /\ run = "dial"
  /\ run' = "returned"
  /\ \/ Dialled /\ UNCHANGED auto
     \/ DialFails /\ auto' = [auto EXCEPT ![0] = "delay"]
  /\ UNCHANGED <<ctxDone, code, closer, errors, result, scancelled, watch>>

(* The top of autoReconnect's loop: the delay grows with the errors. *)
AutoDelay(i) ==
  /\ auto[i] = "delay"
  /\ errors' = IF errors < MaxErrors THEN errors + 1 ELSE errors
  /\ auto' = [auto EXCEPT ![i] = "dial"]
  /\ UNCHANGED <<ctxDone, run, used, conn, connect, code, closer, clientVars>>

\* Mutant: one failure ends the loop.
AutoDialOnce(i) ==
  /\ auto[i] = "dial"
  /\ \/ Dialled /\ auto' = [auto EXCEPT ![i] = "forget"]
     \/ DialFails /\ auto' = [auto EXCEPT ![i] = "returned"]
  /\ UNCHANGED <<ctxDone, run, code, closer, errors, result, scancelled, watch>>

(* The loop ends only with a connection: DialServer never returns the
   ErrNoURL that would end it otherwise. *)
AutoDial(i) ==
  /\ auto[i] = "dial"
  /\ \/ Dialled /\ auto' = [auto EXCEPT ![i] = "forget"]
     \/ DialFails /\ auto' = [auto EXCEPT ![i] = "delay"]
  /\ UNCHANGED <<ctxDone, run, code, closer, errors, result, scancelled, watch>>

(* AutoReconnectErrors = 0, when the new connect is already running. *)
AutoForget(i) ==
  /\ auto[i] = "forget"
  /\ errors' = 0
  /\ auto' = [auto EXCEPT ![i] = "returned"]
  /\ UNCHANGED <<ctxDone, run, used, conn, connect, code, closer, clientVars>>

\* Mutant: the connection is left to the watcher.
LeaveConnectOpen(i, c) ==
  /\ code' = [code EXCEPT ![i] = c]
  /\ connect' = [connect EXCEPT ![i] = "returned"]
  /\ closer' = [closer EXCEPT ![i] = "called"]
  /\ UNCHANGED conn

(* The deferred calls of connect. *)
LeaveConnect(i, c) ==
  /\ code' = [code EXCEPT ![i] = c]
  /\ conn' = [conn EXCEPT ![i] = "closed"]
  /\ connect' = [connect EXCEPT ![i] = "returned"]
  /\ closer' = [closer EXCEPT ![i] = "called"]

\* Mutant: the session is left without the code that ends the client.
ConnectCancelledAgain(i) ==
  /\ connect[i] = "select"
  /\ ctxDone
  /\ LeaveConnect(i, 0)
  /\ UNCHANGED <<ctxDone, run, used, auto, errors, clientVars>>

(* The two branches of connect's select; when both can be taken the runtime
   takes either. *)
ConnectCancelled(i) ==
  /\ connect[i] = "select"
  /\ ctxDone
  /\ LeaveConnect(i, 1)
  /\ UNCHANGED <<ctxDone, run, used, auto, errors, clientVars>>

\* Mutant: the branch starts autoReconnect as well.
ConnectEndedTwice(i) ==
  /\ connect[i] = "select"
  /\ client[i] = "returned"
  /\ LeaveConnect(i, 0)
  /\ auto' = [auto EXCEPT ![i] = "delay"]
  /\ UNCHANGED <<ctxDone, run, used, errors, clientVars>>

ConnectEnded(i) ==
  /\ connect[i] = "select"
  /\ client[i] = "returned"
  /\ LeaveConnect(i, IF result[i] = "ErrClientClosed" THEN 1 ELSE 0)
  /\ UNCHANGED <<ctxDone, run, used, auto, errors, clientVars>>

(* close(code). *)
Close(i) ==
  /\ closer[i] = "called"
  /\ closer' = [closer EXCEPT ![i] = "returned"]
  /\ IF code[i] = 0
     THEN auto' = [auto EXCEPT ![i] = "delay"] /\ UNCHANGED ctxDone
     ELSE ctxDone' = TRUE /\ UNCHANGED auto
  /\ UNCHANGED <<run, used, conn, connect, code, errors, clientVars>>

-----------------------------------------------------------------------------
(* ConnectClient, on connection i. *)

SessionCtxDone(i) == scancelled[i] \/ ctxDone

ClientStart(i) ==
  /\ client[i] = "start"
  /\ client' = [client EXCEPT ![i] = "connecting"]
  /\ UNCHANGED <<ctxDone, chainVars, conn, result, scancelled, watch>>

(* session.Connect returns: with an error ConnectClient returns at once,
   without Close and without scancel. *)
ClientConnected(i) ==
  /\ client[i] = "connecting"
  /\ \/ /\ client' = [client EXCEPT ![i] = "reading"]
        /\ watch' = [watch EXCEPT ![i] = "waiting"]
        /\ UNCHANGED result
     \/ /\ client' = [client EXCEPT ![i] = "returned"]
        /\ \E e \in {"ErrClientClosed", "error"} :
             result' = [result EXCEPT ![i] = e]
        /\ UNCHANGED watch
  /\ UNCHANGED <<ctxDone, chainVars, conn, scancelled>>

(* NextFrame returns the header of a data frame.  A control frame that it
   returns changes nothing here. *)
ClientFrame(i) ==
  /\ client[i] = "reading"
  /\ conn[i] = "open"
  /\ client' = [client EXCEPT ![i] = "pumping"]
  /\ UNCHANGED <<ctxDone, chainVars, conn, result, scancelled, watch>>

\* Mutant: only io.EOF ends the loop.
ClientReadEOF(i) ==
  /\ client[i] = "reading"
  /\ conn[i] = "peerClosed"
  /\ client' = [client EXCEPT ![i] = "leaving"]
  /\ result' = [result EXCEPT ![i] = "error"]
  /\ UNCHANGED <<ctxDone, chainVars, conn, scancelled, watch>>

\* Mutant: the error is shadowed.
ClientReadNil(i) ==
  /\ client[i] = "reading"
  /\ client' = [client EXCEPT ![i] = "leaving"]
  /\ result' = [result EXCEPT ![i] = "nil"]
  /\ UNCHANGED <<ctxDone, chainVars, conn, scancelled, watch>>

(* NextFrame returns an error: io.EOF, that of a closed connection, or a
   frame against the protocol. *)
ClientReadError(i) ==
  /\ client[i] = "reading"
  /\ client' = [client EXCEPT ![i] = "leaving"]
  /\ result' = [result EXCEPT ![i] = "error"]
  /\ UNCHANGED <<ctxDone, chainVars, conn, scancelled, watch>>

(* session.ReadPump returns, with an error or without. *)
ClientPumped(i) ==
  /\ client[i] = "pumping"
  /\ \/ /\ client' = [client EXCEPT ![i] = "reading"]
        /\ UNCHANGED result
     \/ /\ client' = [client EXCEPT ![i] = "leaving"]
        /\ \E e \in {"ErrClientClosed", "error"} :
             result' = [result EXCEPT ![i] = e]
  /\ UNCHANGED <<ctxDone, chainVars, conn, scancelled, watch>>

(* The deferred scancel, then the deferred session.Close. *)
ClientLeave(i) ==
  /\ client[i] = "leaving"
  /\ client' = [client EXCEPT ![i] = "closing"]
  /\ scancelled' = [scancelled EXCEPT ![i] = TRUE]
  /\ UNCHANGED <<ctxDone, chainVars, conn, result, watch>>

ClientClosed(i) ==
  /\ client[i] = "closing"
  /\ client' = [client EXCEPT ![i] = "returned"]
  /\ UNCHANGED <<ctxDone, chainVars, conn, result, scancelled, watch>>

Watch(i) ==
  /\ watch[i] = "waiting"
  /\ SessionCtxDone(i)
  /\ watch' = [watch EXCEPT ![i] = "returned"]
  /\ conn' = [conn EXCEPT ![i] = "closed"]
  /\ UNCHANGED <<ctxDone, chainVars, client, result, scancelled>>

-----------------------------------------------------------------------------
(* The surroundings. *)

(* The server closes the connection, or it is lost. *)
PeerCloses(i) ==
  /\ conn[i] = "open"
  /\ conn' = [conn EXCEPT ![i] = "peerClosed"]
  /\ UNCHANGED <<ctxDone, chainVars, clientVars>>

(* The session calls the cancel function that Connect gave it. *)
SessionCancels(i) ==
  /\ client[i] \in {"connecting", "reading", "pumping"}
  /\ scancelled' = [scancelled EXCEPT ![i] = TRUE]
  /\ UNCHANGED <<ctxDone, chainVars, conn, client, result, watch>>

(* The program cancels the context it gave to Run. *)
Cancel ==
  /\ ctxDone' = TRUE
  /\ UNCHANGED <<chainVars, conn, clientVars>>

ClientStep(i) ==
  \/ ClientStart(i)
  \/ ClientConnected(i)
  \/ ClientFrame(i)
  \/ ClientReadError(i)
  \/ ClientPumped(i)
  \/ ClientLeave(i)
  \/ ClientClosed(i)
  \/ Watch(i)

ConnectStep(i) == ConnectCancelled(i) \/ ConnectEnded(i) \/ Close(i)

AutoStep(i) == AutoDelay(i) \/ AutoDial(i) \/ AutoForget(i)

Next ==
  \/ Run
  \/ \E i \in 0..MaxConns : AutoStep(i)
  \/ \E i \in Conns : ConnectStep(i)
  \/ \E i \in Conns : ClientStep(i)
  \/ \E i \in Conns : PeerCloses(i) \/ SessionCancels(i)
  \/ Cancel

(* Every goroutine that can go on does.  A read from a connection that is
   not open ends, and the session's methods return; nothing makes the server
   close, the session cancel or the program cancel, and a read from an open
   connection may last for ever. *)
Fairness ==
  /\ WF_vars(Run)
  /\ \A i \in 0..MaxConns : WF_vars(AutoStep(i))
  /\ \A i \in Conns :
       /\ WF_vars(ConnectStep(i))
       /\ WF_vars(ClientStart(i) \/ ClientConnected(i) \/ ClientPumped(i)
                  \/ ClientLeave(i) \/ ClientClosed(i))
       /\ WF_vars(conn[i] # "open" /\ ClientReadError(i))
       /\ WF_vars(Watch(i))

Spec == Init /\ [][Next]_vars /\ Fairness

-----------------------------------------------------------------------------
(* Properties. *)

TypeOK ==
  /\ ctxDone \in BOOLEAN
  /\ run \in {"dial", "returned"}
  /\ used \in 0..MaxConns
  /\ conn \in [Conns -> {"none", "open", "peerClosed", "closed"}]
  /\ connect \in [Conns -> {"none", "select", "returned"}]
  /\ code \in [Conns -> {0, 1}]
  /\ closer \in [Conns -> {"none", "called", "returned"}]
  /\ auto \in [0..MaxConns -> {"none", "delay", "dial", "forget", "returned"}]
  /\ errors \in Nat
  /\ client \in [Conns -> {"none", "start", "connecting", "reading",
                           "pumping", "leaving", "closing", "returned"}]
  /\ result \in [Conns -> {"none", "ErrClientClosed", "error"}]
  /\ scancelled \in [Conns -> BOOLEAN]
  /\ watch \in [Conns -> {"none", "waiting", "returned"}]

(* The goroutines that are connected or on the way to be. *)
Owns(kind, i) ==
  \/ kind = "run" /\ i = 0 /\ run = "dial"
  \/ kind = "auto" /\ auto[i] \in {"delay", "dial"}
  \/ kind = "connect" /\ i \in Conns /\ connect[i] = "select"
  \/ kind = "close" /\ i \in Conns /\ closer[i] = "called"

Owners ==
  {o \in {"run", "auto", "connect", "close"} \X (0..MaxConns) : Owns(o[1], o[2])}

(* Two goroutines never dial for the same client, nor does one dial while a
   connection is served. *)
OneOwner == \A x, y \in Owners : x = y

(* Until the context is cancelled the client does not give up: somebody is
   connected, or on the way to be. *)
NeverGivesUp == ~ctxDone => Owners # {}

(* Between session.Connect and the return of session.Close. *)
InSession(i) ==
  client[i] \in {"connecting", "reading", "pumping", "leaving", "closing"}

(* The session object, which all connections share, is never connected a
   second time before it is closed. *)
OneSession == \A i, j \in Conns : InSession(i) /\ InSession(j) => i = j

(* Once the context is cancelled no connection stays open. *)
ConnsReleased ==
  \A i \in Conns : ctxDone /\ conn[i] = "open" ~> conn[i] = "closed"

(* Once the context is cancelled every session is closed. *)
SessionEnds == \A i \in Conns : ctxDone /\ InSession(i) ~> ~InSession(i)

(* "context done ... dont connect": a client whose context is cancelled
   during a session leaves connect with the code that ends it. *)
DontConnect ==
  \A i \in Conns :
    ctxDone /\ InSession(i) /\ connect[i] = "select" ~> code[i] = 1
=============================================================================
