------------------------------ MODULE OutStream ------------------------------
(***************************************************************************)
(* What a message writer promises to the peer, whatever its buffer does:   *)
(* the bytes accepted from the caller leave in order, each once, cut into  *)
(* frames of which the first of a message carries the message's opcode and *)
(* the others are continuations; a frame that ends the message leaves      *)
(* nothing behind; and once the transport has failed nothing follows.      *)
(*                                                                         *)
(* Bytes are numbered 1, 2, ... as the caller offers them, so that one can *)
(* be told from another, and from one that nobody offered.                 *)
(***************************************************************************)
EXTENDS Integers, Sequences

CONSTANTS DataOps, OpContinuation

VARIABLES
  offered,  \* the number of bytes the caller has offered
  queue,    \* bytes accepted and not yet sent
  open,     \* a message has been started and not ended
  log,      \* the frames on the current transport
  broken,   \* the transport, or an extension, has failed
  fresh     \* the caller has just abandoned the message it was writing

vars == <<offered, queue, open, log, broken, fresh>>

(* The bytes behind the first m, up to the n-th. *)
Numbered(m, n) == [i \in 1..(n - m) |-> m + i]

(* The bytes that are offered in this step. *)
New == Numbered(offered, offered')

(* The count of the bytes goes on, whatever becomes of them. *)
Offer == offered' \in Nat /\ offered' >= offered

LastOf(s) == s[Len(s)]

Init ==
  /\ offered = 0
  /\ queue = <<>>
  /\ open = FALSE
  /\ log = <<>>
  /\ broken = FALSE
  /\ fresh = FALSE

(* The caller hands over bytes, which wait behind those before them; nothing
   is sent. *)
Accept ==
  /\ ~broken
  /\ Offer
  /\ queue' = queue \o New
  /\ fresh' = FALSE
  /\ UNCHANGED <<open, log, broken>>

(* One whole frame leaves with the oldest bytes of the queue, and what it
   carries is no longer queued; bytes may be accepted in the same step. *)
Send ==
  /\ ~broken
  /\ Offer
  /\ Len(log') = Len(log) + 1
  /\ LET f == LastOf(log') IN
       /\ log' = Append(log, f)
       /\ f.whole
       /\ f.data \o queue' = queue \o New
       /\ IF open THEN f.op = OpContinuation ELSE f.op \in DataOps
       /\ f.fin => queue' = <<>>
       /\ open' = ~f.fin
  /\ fresh' = FALSE
  /\ UNCHANGED broken

(* The transport fails: at most a part of one more frame is on it. *)
Break ==
  /\ ~broken
  /\ broken'
  /\ Offer
  /\ queue' = <<>>
  /\ open' = FALSE
  /\ fresh' = FALSE
  /\ \/ log' = log
     \/ /\ Len(log') = Len(log) + 1
        /\ log' = Append(log, LastOf(log'))
        /\ ~LastOf(log').whole

(* After a failure calls change nothing the peer can see. *)
Refuse ==
  /\ broken
  /\ Offer
  /\ fresh' = FALSE
  /\ UNCHANGED <<queue, open, log, broken>>

(* The caller abandons what was not sent and starts afresh, on the same
   transport or on a new one, which need not inherit the failure: the only
   step that may lose accepted bytes while the transport works, and it shows
   as one. *)
Discard ==
  /\ fresh'
  /\ queue' = <<>>
  /\ open' = FALSE
  /\ \/ log' = log /\ broken' = broken
     \/ log' = <<>> /\ broken' \in {broken, FALSE}
  /\ UNCHANGED offered

Next == Accept \/ Send \/ Break \/ Refuse \/ Discard

Spec == Init /\ [][Next]_vars
=============================================================================
