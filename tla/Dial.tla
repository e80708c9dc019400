--------------------------------- MODULE Dial ---------------------------------
(***************************************************************************)
(* Dialer.Dial and setupContextDeadliner (src/dialer.go): the deadlines    *)
(* that bound a connection's handshake.                                    *)
(*                                                                         *)
(* With context.Background() Dial sets the Timeout as the connection's     *)
(* deadline.  With any other context a goroutine, the interrupter, waits   *)
(* for the context and then moves the connection's deadline into the past, *)
(* which ends every I/O on it; Dial's deferred calls stop the goroutine    *)
(* and learn from it whether it did.  The handshake itself is a number of  *)
(* reads and writes; what they carry is left out.                          *)
(***************************************************************************)
EXTENDS Integers

CONSTANT MaxIO   \* bound: reads and writes of a handshake

ASSUME IOBound == MaxIO \in Nat \ {0}

VARIABLES
  background,  \* ctx is context.Background(), which is never done
  timeout,     \* d.Timeout is not zero
  sooner,      \* ctx has a deadline, and not after the Timeout
  ctxDone,     \* ctx is done
  elapsed,     \* the Timeout has passed since Dial was called
  conn,        \* "none", "open", "closed"
  deadline,    \* of conn: "none", "timeout", "past" (aLongTimeAgo)
  pc,          \* Dial: "dial", "guard", "upgrade", "done", "wait", "close",
               \* "returned"
  io,          \* reads and writes the handshake still needs
  err,         \* Dial's err: "nil", "timeout" of the I/O, "ctx", "other"
  helper,      \* the interrupter: "none", "select", "past", "returned"
  quit,        \* the channel quit is closed
  interrupt    \* what the channel interrupt holds: "empty", "nil", "ctx"

given == <<background, timeout, sooner>>
clocks == <<ctxDone, elapsed>>
channels == <<quit, interrupt>>
vars == <<background, timeout, sooner, ctxDone, elapsed, conn, deadline, pc,
          io, err, helper, quit, interrupt>>

(* dialctx is ctx, or ends with the Timeout when that is sooner. *)
DialCtxDone == ctxDone \/ (elapsed /\ ~sooner)

(* A read or write started now fails at once, one that waits fails now. *)
DeadlinePassed == deadline = "past" \/ (deadline = "timeout" /\ elapsed)

Init ==
  /\ background \in BOOLEAN
  /\ timeout \in BOOLEAN
  /\ sooner \in {s \in BOOLEAN : s => timeout /\ ~background}
  /\ ctxDone = FALSE
  /\ elapsed = FALSE
  /\ conn = "none"
  /\ deadline = "none"
  /\ pc = "dial"
  /\ io \in 1..MaxIO
  /\ err = "nil"
  /\ helper = "none"
  /\ quit = FALSE
  /\ interrupt = "empty"

-----------------------------------------------------------------------------
(* Dial. *)

(* The url is wrong, the network refuses, or dialctx is done first. *)
DialFails ==
  /\ pc = "dial"
  /\ \/ err' = "other"
     \/ DialCtxDone /\ err' \in {"ctx", "timeout"}
  /\ pc' = "returned"
  /\ UNCHANGED <<given, clocks, conn, deadline, io, helper, channels>>

DialConnects ==
  /\ pc = "dial"
  /\ conn' = "open"
  /\ pc' = "guard"
  /\ UNCHANGED <<given, clocks, deadline, io, err, helper, channels>>

(* conn.SetDeadline(deadline), of which the zero value is no deadline, or
   setupContextDeadliner(ctx, conn). *)
Guard ==
  /\ pc = "guard"
  /\ IF background
     THEN deadline' = (IF timeout THEN "timeout" ELSE "none") /\ UNCHANGED helper
     ELSE helper' = "select" /\ UNCHANGED deadline
  /\ pc' = "upgrade"
  /\ UNCHANGED <<given, clocks, conn, io, err, channels>>

\* Mutant: the handshake goes on for one read more.
UpgradeOneMore ==
  /\ pc = "upgrade"
  /\ ~DeadlinePassed
  /\ io' = io - 1
  /\ pc' = IF io = 0 THEN "done" ELSE "upgrade"
  /\ UNCHANGED <<given, clocks, conn, deadline, err, helper, channels>>

(* The peer does its part of the next read or write. *)
UpgradeIO ==
  /\ pc = "upgrade"
  /\ ~DeadlinePassed
  /\ io' = io - 1
  /\ pc' = IF io = 1 THEN "done" ELSE "upgrade"
  /\ UNCHANGED <<given, clocks, conn, deadline, err, helper, channels>>

UpgradeTimesOut ==
  /\ pc = "upgrade"
  /\ DeadlinePassed
  /\ err' = "timeout"
  /\ pc' = "done"
  /\ UNCHANGED <<given, clocks, conn, deadline, io, helper, channels>>

(* The connection breaks, or the response is not the one wanted. *)
UpgradeFails ==
  /\ pc = "upgrade"
  /\ err' = "other"
  /\ pc' = "done"
  /\ UNCHANGED <<given, clocks, conn, deadline, io, helper, channels>>

(* The deferred conn.SetDeadline(noDeadline). *)
ClearDeadline ==
  /\ pc = "done"
  /\ background
  /\ deadline' = "none"
  /\ pc' = "close"
  /\ UNCHANGED <<given, clocks, conn, io, err, helper, channels>>

\* Mutant: the interrupter is told to stop and not waited for.
QuitAndGo ==
  /\ pc = "done"
  /\ ~background
  /\ quit' = TRUE
  /\ pc' = "close"
  /\ UNCHANGED <<given, clocks, conn, deadline, io, err, helper, interrupt>>

(* The deferred done(&err): close(quit), and the receive from interrupt. *)
Quit ==
  /\ pc = "done"
  /\ ~background
  /\ quit' = TRUE
  /\ pc' = "wait"
  /\ UNCHANGED <<given, clocks, conn, deadline, io, err, helper, interrupt>>

\* Mutant: the context's error stands for that of the I/O only when there is
\* none.
MapNil(e) == IF interrupt = "ctx" /\ e = "nil" THEN "ctx" ELSE e

\* Mutant: only an error of the I/O is replaced.
MapTimeout(e) == IF interrupt = "ctx" /\ e = "timeout" THEN "ctx" ELSE e

MapError(e) ==
  IF interrupt = "ctx" /\ e \in {"nil", "timeout"} THEN "ctx" ELSE e

Receive ==
  /\ pc = "wait"
  /\ interrupt # "empty"
  /\ err' = MapError(err)
  /\ interrupt' = "empty"
  /\ pc' = "close"
  /\ UNCHANGED <<given, clocks, conn, deadline, io, helper, quit>>

\* Mutant: a timeout leaves the connection to the caller.
CloseUnlessTimeout ==
  /\ pc = "close"
  /\ conn' = IF err \in {"nil", "ctx"} THEN conn ELSE "closed"
  /\ pc' = "returned"
  /\ UNCHANGED <<given, clocks, deadline, io, err, helper, channels>>

(* The deferred conn.Close(), the first deferred and so the last called. *)
CloseOnError ==
  /\ pc = "close"
  /\ conn' = IF err = "nil" THEN conn ELSE "closed"
  /\ pc' = "returned"
  /\ UNCHANGED <<given, clocks, deadline, io, err, helper, channels>>

-----------------------------------------------------------------------------
(* The interrupter.  When both channels are ready the runtime takes either. *)

HelperQuits ==
  /\ helper = "select"
  /\ quit
  /\ interrupt' = "nil"
  /\ helper' = "returned"
  /\ UNCHANGED <<given, clocks, conn, deadline, pc, io, err, quit>>

\* Mutant: the context's error is passed on, the I/O is not ended.
HelperReports ==
  /\ helper = "select"
  /\ ctxDone
  /\ helper' = "past"
  /\ UNCHANGED <<given, clocks, conn, deadline, pc, io, err, channels>>

HelperInterrupts ==
  /\ helper = "select"
  /\ ctxDone
  /\ deadline' = "past"
  /\ helper' = "past"
  /\ UNCHANGED <<given, clocks, conn, pc, io, err, channels>>

HelperSends ==
  /\ helper = "past"
  /\ interrupt' = "ctx"
  /\ helper' = "returned"
  /\ UNCHANGED <<given, clocks, conn, deadline, pc, io, err, quit>>

-----------------------------------------------------------------------------
(* The surroundings. *)

CtxEnds ==
  /\ ~background
  /\ ctxDone' = TRUE
  /\ UNCHANGED <<given, elapsed, conn, deadline, pc, io, err, helper, channels>>

(* A deadline of ctx that is sooner is met sooner. *)
TimeoutElapses ==
  /\ timeout
  /\ sooner => ctxDone
  /\ elapsed' = TRUE
  /\ UNCHANGED <<given, ctxDone, conn, deadline, pc, io, err, helper, channels>>

(* The call is over, for Dial and for the interrupter. *)
Over ==
  /\ pc = "returned"
  /\ helper \in {"none", "returned"}
  /\ UNCHANGED vars

(* What Dial does without waiting for the peer. *)
DialStep ==
  \/ DialFails
  \/ Guard
  \/ UpgradeTimesOut
  \/ ClearDeadline
  \/ Quit
  \/ Receive
  \/ CloseOnError

HelperStep == HelperQuits \/ HelperInterrupts \/ HelperSends

Next ==
  \/ DialStep
  \/ DialConnects
  \/ UpgradeIO
  \/ UpgradeFails
  \/ HelperStep
  \/ CtxEnds
  \/ TimeoutElapses
  \/ Over

(* Dial and the interrupter go on where they can.  The network refuses or
   accepts a connection when it likes, but a dial ends with its context; the
   peer may never answer. *)
Fairness ==
  /\ WF_vars(pc # "dial" /\ DialStep)
  /\ WF_vars(DialCtxDone /\ DialFails)
  /\ WF_vars(HelperStep)

Spec == Init /\ [][Next]_vars /\ Fairness

-----------------------------------------------------------------------------
(* Properties. *)

TypeOK ==
  /\ background \in BOOLEAN
  /\ timeout \in BOOLEAN
  /\ sooner \in BOOLEAN
  /\ ctxDone \in BOOLEAN
  /\ elapsed \in BOOLEAN
  /\ conn \in {"none", "open", "closed"}
  /\ deadline \in {"none", "timeout", "past"}
  /\ pc \in {"dial", "guard", "upgrade", "done", "wait", "close", "returned"}
  /\ io \in 0..MaxIO
  /\ err \in {"nil", "timeout", "ctx", "other"}
  /\ helper \in {"none", "select", "past", "returned"}
  /\ quit \in BOOLEAN
  /\ interrupt \in {"empty", "nil", "ctx"}

(* A connection that Dial returns without an error is open and has no
   deadline, then and ever after: no interrupter is left that could move it. *)
ReturnedUsable ==
  pc = "returned" /\ err = "nil" => conn = "open" /\ deadline = "none"

(* Dial leaves no connection open when it returns an error, though the error
   may be put in place after the handshake went well. *)
FailedClosed == pc = "returned" /\ err # "nil" => conn # "open"

(* "It will store at *err ctx.Err()": the end of the context during the
   handshake is never reported as the timeout it caused, nor the other way
   round. *)
ErrorNamesCause ==
  pc = "returned" /\ conn # "none" =>
    /\ err = "timeout" => background /\ timeout
    /\ err = "ctx" => ctxDone

(* When the context is done, or the Timeout is over for a caller without a
   context, Dial returns, even if the peer never answers. *)
DialEnds == ctxDone \/ (background /\ elapsed) ~> pc = "returned"

(* The interrupter does not outlive the call. *)
HelperEnds == pc = "returned" => helper \in {"none", "returned"}

(* "Timeout is the maximum amount of time a Dial() will wait for a connect
   and an handshake to complete." *)
TimeoutBoundsDial == elapsed ~> pc = "returned"
=============================================================================
