------------------------------ MODULE DialProofs ------------------------------
(***************************************************************************)
(* Theorems about Dial, for a handshake of any length.                     *)
(***************************************************************************)
EXTENDS Dial, TLAPS

(* Nothing guards the connection yet. *)
BeforeInv ==
  pc \in {"dial", "guard"} =>
    /\ conn = (IF pc = "dial" THEN "none" ELSE "open")
    /\ helper = "none" /\ deadline = "none" /\ err = "nil"
    /\ interrupt = "empty"

(* The interrupter's progress, the connection's deadline and the channel go
   together. *)
HelperInv ==
  \/ helper = "select" /\ deadline = "none" /\ interrupt = "empty"
  \/ helper = "past" /\ deadline = "past" /\ interrupt = "empty" /\ ctxDone
  \/ helper = "returned" /\ deadline = "none" /\ interrupt = "nil"
  \/ helper = "returned" /\ deadline = "past" /\ interrupt = "ctx" /\ ctxDone

(* During the handshake, and until Dial knows what the interrupter did, only
   a deadline that was set explains a timeout. *)
DuringInv ==
  pc \in {"upgrade", "done", "wait"} =>
    /\ conn = "open"
    /\ err \in {"nil", "timeout", "other"}
    /\ background =>
         /\ pc # "wait" /\ helper = "none"
         /\ deadline = (IF timeout THEN "timeout" ELSE "none")
         /\ err = "timeout" => timeout
    /\ ~background => HelperInv /\ (err = "timeout" => deadline = "past")

(* From the deferred conn.Close() on the interrupter is gone, and a deadline
   in the past shows as an error. *)
AfterInv ==
  /\ pc = "close" => conn = "open"
  /\ pc = "returned" =>
       \/ conn = "none" /\ err # "nil" /\ helper = "none"
       \/ conn = (IF err = "nil" THEN "open" ELSE "closed")
  /\ pc \in {"close", "returned"} /\ conn # "none" =>
       /\ helper \in {"none", "returned"}
       /\ err = "nil" => deadline = "none"
       /\ err = "timeout" => background /\ timeout
       /\ err = "ctx" => ctxDone

Inv == BeforeInv /\ DuringInv /\ AfterInv

-----------------------------------------------------------------------------
(* A handshake that goes on has something left to do. *)
IOLeft == pc \in {"dial", "guard", "upgrade"} => io # 0

LEMMA DialTypes == Spec => []TypeOK
<1>1. Init => TypeOK /\ IOLeft
  <2> SUFFICES ASSUME Init PROVE TypeOK /\ IOLeft
    OBVIOUS
  <2>1. io \in 0..MaxIO /\ io # 0
    BY IOBound DEF Init
  <2>2. QED
    BY <2>1 DEF Init, TypeOK, IOLeft
<1>2. TypeOK /\ IOLeft /\ [Next]_vars => (TypeOK /\ IOLeft)'
  <2> SUFFICES ASSUME TypeOK, IOLeft, [Next]_vars PROVE (TypeOK /\ IOLeft)'
    OBVIOUS
  <2> USE DEF TypeOK, IOLeft, given, clocks, channels
  <2>1. CASE DialStep
    <3>1. CASE DialFails \/ Guard
      BY <3>1 DEF DialFails, Guard
    <3>2. CASE UpgradeTimesOut \/ ClearDeadline
      BY <3>2 DEF UpgradeTimesOut, ClearDeadline
    <3>3. CASE Quit \/ CloseOnError
      BY <3>3 DEF Quit, CloseOnError
    <3>4. CASE Receive
      <4>1. err' \in {err, "ctx"}
        BY <3>4 DEF Receive, MapError
      <4>2. QED
        BY <3>4, <4>1 DEF Receive
    <3>5. QED
      BY <2>1, <3>1, <3>2, <3>3, <3>4, Zenon DEF DialStep
  <2>2. CASE DialConnects \/ UpgradeFails
    BY <2>2 DEF DialConnects, UpgradeFails
  <2>3. CASE UpgradeIO
    <3>1. io' \in 0..MaxIO /\ (io # 1 => io' # 0)
      BY <2>3, IOBound DEF UpgradeIO
    <3>2. pc' \in {"upgrade", "done"} /\ (pc' = "upgrade" => io # 1)
      BY <2>3 DEF UpgradeIO
    <3>3. UNCHANGED <<given, clocks, conn, deadline, err, helper, channels>>
      BY <2>3 DEF UpgradeIO
    <3>4. QED
      BY <3>1, <3>2, <3>3
  <2>4. CASE HelperStep
    BY <2>4 DEF HelperStep, HelperQuits, HelperInterrupts, HelperSends
  <2>5. CASE CtxEnds \/ TimeoutElapses
    <3>1. ctxDone' \in BOOLEAN /\ elapsed' \in BOOLEAN
      BY <2>5 DEF CtxEnds, TimeoutElapses
    <3>2. UNCHANGED <<given, conn, deadline, pc, io, err, helper, channels>>
      BY <2>5 DEF CtxEnds, TimeoutElapses
    <3>3. QED
      BY <3>1, <3>2
  <2>6. CASE Over \/ UNCHANGED vars
    BY <2>6 DEF Over, vars
  <2>7. QED
    BY <2>1, <2>2, <2>3, <2>4, <2>5, <2>6 DEF Next
<1>3. QED
  BY <1>1, <1>2, PTL DEF Spec

LEMMA DialInvAlways == Spec => []Inv
<1>1. Init => Inv
  BY DEF Init, Inv, BeforeInv, DuringInv, AfterInv
<1>2. TypeOK /\ Inv /\ [Next]_vars => Inv'
  <2> SUFFICES ASSUME TypeOK, Inv, [Next]_vars PROVE Inv'
    OBVIOUS
  <2> USE DEF Inv, BeforeInv, DuringInv, AfterInv, HelperInv, given, clocks,
              channels
  <2>1. CASE DialFails \/ DialConnects
    BY <2>1 DEF DialFails, DialConnects
  <2>2. CASE Guard
    BY <2>2 DEF Guard
  <2>3. CASE UpgradeIO
    BY <2>3 DEF UpgradeIO
  <2>4. CASE UpgradeTimesOut \/ UpgradeFails
    BY <2>4 DEF UpgradeTimesOut, UpgradeFails, DeadlinePassed
  <2>5. CASE ClearDeadline \/ Quit
    BY <2>5 DEF ClearDeadline, Quit
  <2>6. CASE Receive
    BY <2>6 DEF Receive, MapError
  <2>7. CASE CloseOnError
    BY <2>7 DEF CloseOnError
  <2>8. CASE HelperStep
    BY <2>8 DEF HelperStep, HelperQuits, HelperInterrupts, HelperSends, TypeOK
  <2>9. CASE CtxEnds \/ TimeoutElapses
    BY <2>9 DEF CtxEnds, TimeoutElapses
  <2>10. CASE Over \/ UNCHANGED vars
    BY <2>10 DEF Over, vars
  <2>11. QED
    BY <2>1, <2>2, <2>3, <2>4, <2>5, <2>6, <2>7, <2>8, <2>9, <2>10
       DEF Next, DialStep
<1>3. QED
  BY <1>1, <1>2, DialTypes, PTL DEF Spec

-----------------------------------------------------------------------------
(* However the handshake, the context and the Timeout race: a connection
   returned without an error is open and no deadline can catch it later, and
   one returned with an error is not left open. *)
THEOREM DialReturnsUsable == Spec => [](ReturnedUsable /\ FailedClosed)
<1>1. Inv => ReturnedUsable /\ FailedClosed
  BY DEF Inv, AfterInv, ReturnedUsable, FailedClosed
<1>2. QED
  BY <1>1, DialInvAlways, PTL

(* The end of the context is reported as such, and nothing else is. *)
THEOREM DialNamesCause == Spec => []ErrorNamesCause
<1>1. Inv => ErrorNamesCause
  BY DEF Inv, AfterInv, ErrorNamesCause
<1>2. QED
  BY <1>1, DialInvAlways, PTL

(* When Dial has returned the interrupter has ended. *)
THEOREM DialLeavesNoHelper == Spec => []HelperEnds
<1>1. Inv => HelperEnds
  BY DEF Inv, AfterInv, HelperEnds
<1>2. QED
  BY <1>1, DialInvAlways, PTL

(* The two goroutines of a dial, the deadline and the channel between them
   are in states the code knows. *)
THEOREM DialStaysTyped == Spec => []TypeOK
  BY DialTypes

-----------------------------------------------------------------------------
(***************************************************************************)
(* What DialEnds rests on: every step of Dial or of the interrupter brings *)
(* the call nearer to its end, and where the deadline or the context is    *)
(* over one of the two can take one.                                       *)
(***************************************************************************)

(* The statements that Dial has still to come to when it is at p. *)
DialRank(p) ==
  CASE p = "dial" -> 6
    [] p = "guard" -> 5
    [] p = "upgrade" -> 4
    [] p = "done" -> 3
    [] p = "wait" -> 2
    [] p = "close" -> 1
    [] p = "returned" -> 0

(* The same for the interrupter at h, which Guard starts. *)
HelperRank(h, p) ==
  CASE h = "none" -> IF p \in {"dial", "guard"} THEN 3 ELSE 0
    [] h = "select" -> 2
    [] h = "past" -> 1
    [] h = "returned" -> 0

(* The steps left at most, those of the handshake included. *)
StepsLeft == io + DialRank(pc) + HelperRank(helper, pc)

OwnStep == DialStep \/ DialConnects \/ UpgradeIO \/ UpgradeFails \/ HelperStep

(* The guards of the steps that wait for nobody. *)
DialReady ==
  \/ pc = "dial" /\ DialCtxDone
  \/ pc = "upgrade" /\ DeadlinePassed
  \/ pc = "wait" /\ interrupt # "empty"
  \/ pc \in {"guard", "done", "close"}

HelperReady == helper = "past" \/ (helper = "select" /\ (quit \/ ctxDone))

(* Who waits for the interrupter has told it to stop, and it stops of itself
   only when told; the Timeout passes only where there is one; without a context
   nothing is sooner, and nothing ends but the Timeout. *)
WaitInv ==
  /\ pc = "wait" => quit
  /\ quit => pc \in {"wait", "close", "returned"}
  /\ interrupt = "nil" => quit
  /\ elapsed => timeout
  /\ sooner \/ ctxDone => ~background

LEMMA RanksTyped ==
  ASSUME TypeOK
  PROVE  DialRank(pc) \in 0..6 /\ HelperRank(helper, pc) \in 0..3 /\ io \in Nat
<1>1. DialRank(pc) \in 0..6
  BY DEF TypeOK, DialRank
<1>2. HelperRank(helper, pc) \in 0..3
  BY DEF TypeOK, HelperRank
<1>3. io \in Nat
  BY IOBound DEF TypeOK
<1>4. QED
  BY <1>1, <1>2, <1>3

(* A sum of which no part grows and one shrinks. *)
LEMMA Nearer ==
  ASSUME NEW a \in Int, NEW b \in Int, NEW c \in Int,
         NEW x \in Int, NEW y \in Int, NEW z \in Int,
         x <= a, y <= b, z <= c, x < a \/ y < b \/ z < c
  PROVE  x + y + z < a + b + c
  OBVIOUS

(* A Dial is over after as many steps as its handshake has reads and writes
   and nine more, whatever the context, the Timeout and the peer do in
   between: nothing is done twice, and no step of the surroundings gives
   either goroutine more to do (src/dialer.go:150, src/dialer.go:541). *)
THEOREM DialIsBounded ==
  Spec => [](StepsLeft \in 0..(MaxIO + 9))
            /\ [][/\ StepsLeft' <= StepsLeft
                  /\ OwnStep => StepsLeft' < StepsLeft]_vars
<1>1. TypeOK => StepsLeft \in 0..(MaxIO + 9)
  <2> SUFFICES ASSUME TypeOK PROVE StepsLeft \in 0..(MaxIO + 9)
    OBVIOUS
  <2>1. io \in 0..MaxIO
    BY DEF TypeOK
  <2>2. QED
    BY <2>1, RanksTyped, IOBound DEF StepsLeft
<1>2. ASSUME TypeOK, Inv, [Next]_vars
      PROVE  [StepsLeft' <= StepsLeft /\ (OwnStep => StepsLeft' < StepsLeft)]_vars
  <2> SUFFICES ASSUME vars' # vars
               PROVE  StepsLeft' <= StepsLeft /\ (OwnStep => StepsLeft' < StepsLeft)
    OBVIOUS
  <2> USE DEF given, clocks, channels
  <2>0. DialRank(pc) \in Int /\ HelperRank(helper, pc) \in Int /\ io \in Int
    BY <1>2, RanksTyped
  <2>1. CASE DialFails
    <3>1. io' = io /\ DialRank(pc') = 0 /\ DialRank(pc) = 6
      BY <2>1 DEF DialFails, DialRank
    <3>2. HelperRank(helper', pc') = 0 /\ HelperRank(helper, pc) = 3
      BY <1>2, <2>1 DEF DialFails, HelperRank, Inv, BeforeInv
    <3>3. QED
      BY <2>0, <3>1, <3>2, Nearer DEF StepsLeft
  <2>2. CASE DialConnects
    <3>1. io' = io /\ DialRank(pc') = 5 /\ DialRank(pc) = 6
      BY <2>2 DEF DialConnects, DialRank
    <3>2. HelperRank(helper', pc') = HelperRank(helper, pc)
      BY <2>2 DEF DialConnects, HelperRank
    <3>3. QED
      BY <2>0, <3>1, <3>2, Nearer DEF StepsLeft
  <2>3. CASE Guard
    <3>1. io' = io /\ DialRank(pc') = 4 /\ DialRank(pc) = 5
      BY <2>3 DEF Guard, DialRank
    <3>2. /\ HelperRank(helper, pc) = 3
          /\ HelperRank(helper', pc') \in Int
          /\ HelperRank(helper', pc') <= 2
      BY <1>2, <2>3 DEF Guard, HelperRank, Inv, BeforeInv
    <3>3. QED
      BY <2>0, <3>1, <3>2, Nearer DEF StepsLeft
  <2>4. CASE UpgradeIO
    <3>1. io' = io - 1 /\ DialRank(pc') \in Int /\ DialRank(pc') <= DialRank(pc)
      BY <2>4 DEF UpgradeIO, DialRank
    <3>2. HelperRank(helper', pc') = HelperRank(helper, pc)
      BY <2>4 DEF UpgradeIO, HelperRank
    <3>3. QED
      BY <2>0, <3>1, <3>2, Nearer DEF StepsLeft
  <2>5. CASE UpgradeTimesOut \/ UpgradeFails
    <3>1. io' = io /\ DialRank(pc') = 3 /\ DialRank(pc) = 4
      BY <2>5 DEF UpgradeTimesOut, UpgradeFails, DialRank
    <3>2. HelperRank(helper', pc') = HelperRank(helper, pc)
      BY <2>5 DEF UpgradeTimesOut, UpgradeFails, HelperRank
    <3>3. QED
      BY <2>0, <3>1, <3>2, Nearer DEF StepsLeft
  <2>6. CASE ClearDeadline \/ Quit
    <3>1. io' = io /\ DialRank(pc) = 3 /\ DialRank(pc') \in Int /\ DialRank(pc') <= 2
      BY <2>6 DEF ClearDeadline, Quit, DialRank
    <3>2. HelperRank(helper', pc') = HelperRank(helper, pc)
      BY <2>6 DEF ClearDeadline, Quit, HelperRank
    <3>3. QED
      BY <2>0, <3>1, <3>2, Nearer DEF StepsLeft
  <2>7. CASE Receive \/ CloseOnError
    <3>1. io' = io /\ DialRank(pc) \in {1, 2} /\ DialRank(pc') = DialRank(pc) - 1
      BY <2>7 DEF Receive, CloseOnError, DialRank
    <3>2. HelperRank(helper', pc') = HelperRank(helper, pc)
      BY <2>7 DEF Receive, CloseOnError, HelperRank
    <3>3. QED
      BY <2>0, <3>1, <3>2, Nearer DEF StepsLeft
  <2>8. CASE HelperStep
    <3>1. io' = io /\ DialRank(pc') = DialRank(pc)
      BY <2>8 DEF HelperStep, HelperQuits, HelperInterrupts, HelperSends, DialRank
    <3>2. /\ HelperRank(helper', pc') \in Int
          /\ HelperRank(helper', pc') < HelperRank(helper, pc)
      BY <2>8 DEF HelperStep, HelperQuits, HelperInterrupts, HelperSends, HelperRank
    <3>3. QED
      BY <2>0, <3>1, <3>2, Nearer DEF StepsLeft
  <2>9. CASE CtxEnds \/ TimeoutElapses \/ Over
    <3>1. pc' = pc /\ io' = io /\ helper' = helper
      BY <2>9 DEF CtxEnds, TimeoutElapses, Over, vars
    <3>2. /\ DialRank(pc') = DialRank(pc)
          /\ HelperRank(helper', pc') = HelperRank(helper, pc)
      BY <3>1 DEF DialRank, HelperRank
    <3>3. ~OwnStep
      <4>1. ASSUME OwnStep PROVE pc' # pc \/ io' # io \/ helper' # helper
        <5>1. CASE DialStep
          BY <5>1 DEF DialStep, DialFails, Guard, UpgradeTimesOut,
                      ClearDeadline, Quit, Receive, CloseOnError
        <5>2. CASE DialConnects \/ UpgradeFails
          BY <5>2 DEF DialConnects, UpgradeFails
        <5>3. CASE UpgradeIO
          BY <2>0, <5>3 DEF UpgradeIO
        <5>4. CASE HelperStep
          BY <5>4 DEF HelperStep, HelperQuits, HelperInterrupts, HelperSends
        <5>5. QED
          BY <4>1, <5>1, <5>2, <5>3, <5>4 DEF OwnStep
      <4>2. QED
        BY <3>1, <4>1
    <3>4. QED
      BY <2>0, <3>1, <3>2, <3>3 DEF StepsLeft
  <2>10. QED
    BY <1>2, <2>1, <2>2, <2>3, <2>4, <2>5, <2>6, <2>7, <2>8, <2>9
       DEF Next, DialStep
<1>3. QED
  BY <1>1, <1>2, DialTypes, DialInvAlways, PTL DEF Spec

(* Once the context is done, or the Timeout is over for a caller without a
   context, Dial and the interrupter never wait for each other or for the
   peer: until Dial returns, one of the two has a step that nothing holds. *)
THEOREM DialNeverStuck ==
  Spec => [](ctxDone \/ (background /\ elapsed)
               => pc = "returned" \/ DialReady \/ HelperReady)
<1>1. Init => WaitInv
  BY DEF Init, WaitInv
<1>2. WaitInv /\ [Next]_vars => WaitInv'
  <2> SUFFICES ASSUME WaitInv, [Next]_vars PROVE WaitInv'
    OBVIOUS
  <2> USE DEF WaitInv, given, clocks, channels
  <2>1. CASE DialStep
    BY <2>1 DEF DialStep, DialFails, Guard, UpgradeTimesOut, ClearDeadline,
                Quit, Receive, CloseOnError
  <2>2. CASE DialConnects \/ UpgradeFails
    BY <2>2 DEF DialConnects, UpgradeFails
  <2>3. CASE UpgradeIO
    BY <2>3 DEF UpgradeIO
  <2>4. CASE HelperStep
    BY <2>4 DEF HelperStep, HelperQuits, HelperInterrupts, HelperSends
  <2>5. CASE CtxEnds \/ TimeoutElapses
    BY <2>5 DEF CtxEnds, TimeoutElapses
  <2>6. CASE Over \/ UNCHANGED vars
    BY <2>6 DEF Over, vars
  <2>7. QED
    BY <2>1, <2>2, <2>3, <2>4, <2>5, <2>6 DEF Next
<1>3. TypeOK /\ Inv /\ WaitInv =>
        (ctxDone \/ (background /\ elapsed)
           => pc = "returned" \/ DialReady \/ HelperReady)
  <2> SUFFICES ASSUME TypeOK, Inv, WaitInv, ctxDone \/ (background /\ elapsed),
                      ~HelperReady, pc # "returned"
               PROVE  DialReady
    BY DEF TypeOK
  <2>1. CASE pc = "dial"
    BY <2>1 DEF DialReady, DialCtxDone, WaitInv, TypeOK
  <2>2. CASE pc = "upgrade"
    <3>1. DeadlinePassed
      BY <2>2 DEF Inv, DuringInv, HelperInv, HelperReady, DeadlinePassed,
                  WaitInv, TypeOK
    <3>2. QED
      BY <2>2, <3>1 DEF DialReady
  <2>3. CASE pc = "wait"
    <3>1. interrupt # "empty"
      BY <2>3 DEF Inv, DuringInv, HelperInv, HelperReady, WaitInv
    <3>2. QED
      BY <2>3, <3>1 DEF DialReady
  <2>4. CASE pc \in {"guard", "done", "close"}
    BY <2>4 DEF DialReady
  <2>5. QED
    BY <2>1, <2>2, <2>3, <2>4 DEF TypeOK
<1>4. QED
  BY <1>1, <1>2, <1>3, DialTypes, DialInvAlways, PTL DEF Spec
=============================================================================
