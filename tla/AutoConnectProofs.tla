--------------------------- MODULE AutoConnectProofs ---------------------------
(***************************************************************************)
(* Theorems about AutoConnect, for any number of connections.              *)
(***************************************************************************)
EXTENDS AutoConnect, TLAPS

Kinds == {"run", "auto", "connect", "close"}
Ids == 0..MaxConns

(* OneOwner and NeverGivesUp, without the pairs. *)
Unique ==
  \A k, l \in Kinds, i, j \in Ids : Owns(k, i) /\ Owns(l, j) => k = l /\ i = j

Somebody == ~ctxDone => \E k \in Kinds, i \in Ids : Owns(k, i)

(* A connect that returned the code that ends the client was the last: only
   its close may be on the way. *)
LastCode ==
  \A i \in Conns : code[i] = 1 =>
    /\ connect[i] = "returned"
    /\ \A k \in Kinds, j \in Ids : Owns(k, j) => k = "close" /\ j = i
    /\ \A j \in Conns : code[j] = 1 => j = i

(* connect waits for the session it started, unless it ends the client. *)
Served ==
  \A i \in Conns : client[i] \notin {"none", "returned"} =>
    connect[i] = "select" \/ code[i] = 1

ChainInv == TypeOK /\ Unique /\ Somebody /\ LastCode /\ Served

-----------------------------------------------------------------------------
LEMMA TypeInit == Init => TypeOK
<1> SUFFICES ASSUME Init PROVE TypeOK
  OBVIOUS
<1>1. used \in 0..MaxConns /\ errors \in Nat
  BY ConnBounds DEF Init
<1>2. ctxDone \in BOOLEAN /\ run \in {"dial", "returned"}
  BY DEF Init
<1>3. /\ conn \in [Conns -> {"none", "open", "peerClosed", "closed"}]
      /\ connect \in [Conns -> {"none", "select", "returned"}]
      /\ code \in [Conns -> {0, 1}]
      /\ closer \in [Conns -> {"none", "called", "returned"}]
  BY DEF Init
<1>4. auto \in [0..MaxConns ->
                 {"none", "delay", "dial", "forget", "returned"}]
  BY DEF Init
<1>5. /\ client \in [Conns -> {"none", "start", "connecting", "reading",
                               "pumping", "leaving", "closing", "returned"}]
      /\ result \in [Conns -> {"none", "ErrClientClosed", "error"}]
      /\ scancelled \in [Conns -> BOOLEAN]
      /\ watch \in [Conns -> {"none", "waiting", "returned"}]
  BY DEF Init
<1>6. QED
  BY <1>1, <1>2, <1>3, <1>4, <1>5 DEF TypeOK

LEMMA DialTyped ==
  ASSUME TypeOK, Dialled \/ DialFails
  PROVE  /\ used' \in 0..MaxConns
         /\ conn' \in [Conns -> {"none", "open", "peerClosed", "closed"}]
         /\ connect' \in [Conns -> {"none", "select", "returned"}]
         /\ client' \in [Conns -> {"none", "start", "connecting", "reading",
                                   "pumping", "leaving", "closing", "returned"}]
<1>1. CASE DialFails
  BY <1>1 DEF DialFails, TypeOK
<1>2. CASE Dialled
  <2>1. used' \in 0..MaxConns
    BY <1>2, ConnBounds DEF Dialled, TypeOK
  <2>2. conn' \in [Conns -> {"none", "open", "peerClosed", "closed"}]
    BY <1>2 DEF Dialled, TypeOK
  <2>3. connect' \in [Conns -> {"none", "select", "returned"}]
    BY <1>2 DEF Dialled, TypeOK
  <2>4. client' \in [Conns -> {"none", "start", "connecting", "reading",
                              "pumping", "leaving", "closing", "returned"}]
    BY <1>2 DEF Dialled, TypeOK
  <2>5. QED
    BY <2>1, <2>2, <2>3, <2>4
<1>3. QED
  BY <1>1, <1>2

LEMMA TypeNext == TypeOK /\ [Next]_vars => TypeOK'
<1> SUFFICES ASSUME TypeOK, [Next]_vars PROVE TypeOK'
  OBVIOUS
<1> USE DEF TypeOK, clientVars, chainVars
<1>1. CASE Run
  <2>1. Dialled \/ DialFails
    BY <1>1 DEF Run
  <2>2. UNCHANGED <<ctxDone, code, closer, errors, result, scancelled, watch>>
        /\ run' = "returned"
    BY <1>1 DEF Run
  <2>3. auto' = auto \/ auto' = [auto EXCEPT ![0] = "delay"]
    BY <1>1 DEF Run
  <2>4. auto' \in [0..MaxConns ->
                   {"none", "delay", "dial", "forget", "returned"}]
    BY <2>3
  <2>5. QED
    BY <2>1, <2>2, <2>4, DialTyped
<1>2. ASSUME NEW i \in 0..MaxConns, AutoStep(i) PROVE TypeOK'
  <2>1. CASE AutoDelay(i)
    <3>1. errors' \in Nat
      BY <2>1 DEF AutoDelay
    <3>2. QED
      BY <2>1, <3>1 DEF AutoDelay
  <2>2. CASE AutoDial(i)
    <3>1. Dialled \/ DialFails
      BY <2>2 DEF AutoDial
    <3>2. UNCHANGED <<ctxDone, run, code, closer, errors, result, scancelled,
                      watch>>
      BY <2>2 DEF AutoDial
    <3>3. \E a \in {"forget", "delay"} : auto' = [auto EXCEPT ![i] = a]
      BY <2>2 DEF AutoDial
    <3>4. auto' \in [0..MaxConns ->
                     {"none", "delay", "dial", "forget", "returned"}]
      BY <3>3
    <3>5. QED
      BY <3>1, <3>2, <3>4, DialTyped
  <2>3. CASE AutoForget(i)
    BY <2>3 DEF AutoForget
  <2>4. QED
    BY <1>2, <2>1, <2>2, <2>3 DEF AutoStep
<1>3. ASSUME NEW i \in Conns, ConnectStep(i) PROVE TypeOK'
  <2>1. CASE ConnectCancelled(i)
    BY <1>3, <2>1 DEF ConnectCancelled, LeaveConnect
  <2>2. CASE ConnectEnded(i)
    BY <1>3, <2>2 DEF ConnectEnded, LeaveConnect
  <2>3. CASE Close(i)
    BY <1>3, <2>3, Zenon DEF Close
  <2>4. QED
    BY <1>3, <2>1, <2>2, <2>3 DEF ConnectStep
<1>4. ASSUME NEW i \in Conns, ClientStep(i) PROVE TypeOK'
  <2>1. CASE ClientStart(i) \/ ClientFrame(i) \/ ClientClosed(i)
    BY <1>4, <2>1 DEF ClientStart, ClientFrame, ClientClosed
  <2>2. CASE ClientConnected(i)
    <3>1. UNCHANGED <<ctxDone, chainVars, conn, scancelled>>
          /\ \E c \in {"reading", "returned"} : client' = [client EXCEPT ![i] = c]
          /\ \E w \in {"waiting", watch[i]} : watch' = [watch EXCEPT ![i] = w]
      BY <1>4, <2>2 DEF ClientConnected
    <3>2. result' = result \/ \E e \in {"ErrClientClosed", "error"} :
                                 result' = [result EXCEPT ![i] = e]
      BY <2>2 DEF ClientConnected
    <3>3. result' \in [Conns -> {"none", "ErrClientClosed", "error"}]
      BY <3>2
    <3>4. client' \in [Conns -> {"none", "start", "connecting", "reading",
                                 "pumping", "leaving", "closing", "returned"}]
      BY <3>1
    <3>5. watch' \in [Conns -> {"none", "waiting", "returned"}]
      BY <1>4, <3>1
    <3>6. QED
      BY <3>1, <3>3, <3>4, <3>5
  <2>3. CASE ClientReadError(i)
    <3>1. client' \in [Conns -> {"none", "start", "connecting", "reading",
                                 "pumping", "leaving", "closing", "returned"}]
      BY <2>3 DEF ClientReadError
    <3>2. result' \in [Conns -> {"none", "ErrClientClosed", "error"}]
      BY <2>3 DEF ClientReadError
    <3>3. QED
      BY <2>3, <3>1, <3>2 DEF ClientReadError
  <2>4. CASE ClientPumped(i)
    <3>1. UNCHANGED <<ctxDone, chainVars, conn, scancelled, watch>>
          /\ \E c \in {"reading", "leaving"} : client' = [client EXCEPT ![i] = c]
      BY <2>4 DEF ClientPumped
    <3>2. result' = result \/ \E e \in {"ErrClientClosed", "error"} :
                                 result' = [result EXCEPT ![i] = e]
      BY <2>4 DEF ClientPumped
    <3>3. result' \in [Conns -> {"none", "ErrClientClosed", "error"}]
      BY <3>2
    <3>4. client' \in [Conns -> {"none", "start", "connecting", "reading",
                                 "pumping", "leaving", "closing", "returned"}]
      BY <3>1
    <3>5. QED
      BY <3>1, <3>3, <3>4
  <2>5. CASE ClientLeave(i)
    <3>1. client' \in [Conns -> {"none", "start", "connecting", "reading",
                                 "pumping", "leaving", "closing", "returned"}]
      BY <2>5 DEF ClientLeave
    <3>2. scancelled' \in [Conns -> BOOLEAN]
      BY <2>5 DEF ClientLeave
    <3>3. QED
      BY <2>5, <3>1, <3>2 DEF ClientLeave
  <2>6. CASE Watch(i)
    BY <1>4, <2>6 DEF Watch
  <2>7. QED
    BY <1>4, <2>1, <2>2, <2>3, <2>4, <2>5, <2>6 DEF ClientStep
<1>5. ASSUME NEW i \in Conns, PeerCloses(i) \/ SessionCancels(i) PROVE TypeOK'
  <2>1. CASE PeerCloses(i)
    <3>1. conn' \in [Conns -> {"none", "open", "peerClosed", "closed"}]
      BY <2>1 DEF PeerCloses
    <3>2. QED
      BY <2>1, <3>1 DEF PeerCloses
  <2>2. CASE SessionCancels(i)
    <3>1. scancelled' \in [Conns -> BOOLEAN]
      BY <2>2 DEF SessionCancels
    <3>2. QED
      BY <2>2, <3>1 DEF SessionCancels
  <2>3. QED
    BY <1>5, <2>1, <2>2
<1>6. CASE Cancel
  BY <1>6 DEF Cancel
<1>7. CASE UNCHANGED vars
  BY <1>7 DEF vars
<1>8. QED
  BY <1>1, <1>2, <1>3, <1>4, <1>5, <1>6, <1>7 DEF Next

LEMMA ChainInit == Init => ChainInv
<1>1. Init => Unique /\ Somebody
  BY ConnBounds DEF Init, Unique, Somebody, Owns, Kinds, Ids, Conns
<1>2. Init => LastCode /\ Served
  BY ConnBounds DEF Init, LastCode, Served, Conns
<1>3. QED
  BY <1>1, <1>2, TypeInit DEF ChainInv

-----------------------------------------------------------------------------
(* A step that leaves every owner where it is. *)
SameOwners ==
  /\ \A k \in Kinds, i \in Ids : Owns(k, i)' <=> Owns(k, i)
  /\ UNCHANGED <<connect, code>>
  /\ ctxDone => ctxDone'

LEMMA OwnersKept ==
  ASSUME Unique, Somebody, LastCode, SameOwners
  PROVE  Unique' /\ Somebody' /\ LastCode'
<1>1. Unique'
  BY DEF Unique, SameOwners
<1>2. Somebody'
  BY DEF Somebody, SameOwners
<1>3. LastCode'
  BY DEF LastCode, SameOwners
<1>4. QED
  BY <1>1, <1>2, <1>3

(* A step in which the only owner hands over to another. *)
LEMMA OwnerMoves ==
  ASSUME Unique,
         NEW k0 \in Kinds, NEW i0 \in Ids, Owns(k0, i0), ~Owns(k0, i0)',
         NEW k1 \in Kinds, NEW i1 \in Ids, Owns(k1, i1)',
         \A k \in Kinds, i \in Ids :
           Owns(k, i)' => Owns(k, i) \/ (k = k1 /\ i = i1)
  PROVE  /\ Unique' /\ Somebody'
         /\ \A k \in Kinds, i \in Ids : Owns(k, i)' => k = k1 /\ i = i1
<1>1. \A k \in Kinds, i \in Ids : Owns(k, i)' => k = k1 /\ i = i1
  BY DEF Unique
<1>2. QED
  BY <1>1 DEF Unique, Somebody

(* While somebody other than a close owns the client, no connect has
   returned the code that ends it. *)
LEMMA NoCodeYet ==
  ASSUME LastCode, NEW k \in Kinds, NEW i \in Ids, Owns(k, i), k # "close"
  PROVE  \A j \in Conns : code[j] # 1
  BY DEF LastCode

LEMMA RunStep ==
  ASSUME ChainInv, Run
  PROVE  Unique' /\ Somebody' /\ LastCode' /\ Served'
<1> USE DEF Kinds, Ids
<1>1. Owns("run", 0) /\ ~Owns("run", 0)' /\ 0 \in Ids
  BY ConnBounds DEF Run, Owns
<1>2. \A j \in Conns : code[j] # 1
  BY <1>1, NoCodeYet DEF ChainInv
<1>3. LastCode'
  BY <1>2 DEF Run, LastCode
<1>4. CASE Dialled /\ UNCHANGED auto
  <2>1. PICK n \in Conns : n \in Ids /\ n = used + 1
    BY <1>4, ConnBounds DEF Dialled, Conns, ChainInv, TypeOK
  <2>2. Owns("connect", n)'
    BY <1>4, <2>1 DEF Dialled, Owns, ChainInv, TypeOK
  <2>3. ASSUME NEW k \in Kinds, NEW i \in Ids, Owns(k, i)'
        PROVE  Owns(k, i) \/ (k = "connect" /\ i = n)
    BY <1>4, <2>1, <2>3 DEF Run, Dialled, Owns, ChainInv, TypeOK
  <2>4. Unique' /\ Somebody'
    BY <1>1, <2>1, <2>2, <2>3, OwnerMoves DEF ChainInv
  <2>5. Served'
    BY <1>4, <2>1 DEF Run, Dialled, Served, ChainInv, TypeOK
  <2>6. QED
    BY <1>3, <2>4, <2>5
<1>5. CASE DialFails /\ auto' = [auto EXCEPT ![0] = "delay"]
  <2>1. Owns("auto", 0)'
    BY <1>1, <1>5 DEF Owns, ChainInv, TypeOK
  <2>2. ASSUME NEW k \in Kinds, NEW i \in Ids, Owns(k, i)'
        PROVE  Owns(k, i) \/ (k = "auto" /\ i = 0)
    BY <1>5, <2>2 DEF Run, DialFails, Owns, ChainInv, TypeOK
  <2>3. Unique' /\ Somebody'
    BY <1>1, <2>1, <2>2, OwnerMoves DEF ChainInv
  <2>4. Served'
    BY <1>5 DEF Run, DialFails, Served, ChainInv
  <2>5. QED
    BY <1>3, <2>3, <2>4
<1>6. QED
  BY <1>4, <1>5 DEF Run

LEMMA AutoStepKeeps ==
  ASSUME ChainInv, NEW i \in Ids, AutoStep(i)
  PROVE  Unique' /\ Somebody' /\ LastCode' /\ Served'
<1> USE DEF Kinds, Ids
<1>1. CASE AutoDelay(i) \/ AutoForget(i)
           \/ (AutoDial(i) /\ DialFails /\ auto' = [auto EXCEPT ![i] = "delay"])
  <2>1. UNCHANGED <<ctxDone, run, connect, code, closer, client>>
    BY <1>1 DEF AutoDelay, AutoForget, AutoDial, DialFails, clientVars
  <2>2. \A j \in Ids : auto'[j] \in {"delay", "dial"}
                        <=> auto[j] \in {"delay", "dial"}
    <3>1. auto \in [Ids -> {"none", "delay", "dial", "forget", "returned"}]
      BY DEF ChainInv, TypeOK
    <3>2. \/ auto[i] = "delay" /\ auto' = [auto EXCEPT ![i] = "dial"]
          \/ auto[i] = "forget" /\ auto' = [auto EXCEPT ![i] = "returned"]
          \/ auto[i] = "dial" /\ auto' = [auto EXCEPT ![i] = "delay"]
      BY <1>1, Zenon DEF AutoDelay, AutoForget, AutoDial
    <3>3. QED
      BY <3>1, <3>2
  <2>3. SameOwners
    BY <2>1, <2>2 DEF SameOwners, Owns
  <2>4. Served'
    BY <2>1 DEF Served, ChainInv
  <2>5. QED
    BY <2>3, <2>4, OwnersKept DEF ChainInv
<1>2. CASE AutoDial(i) /\ Dialled /\ auto' = [auto EXCEPT ![i] = "forget"]
  <2>1. Owns("auto", i) /\ ~Owns("auto", i)'
    BY <1>2 DEF AutoDial, Owns, ChainInv, TypeOK
  <2>2. \A j \in Conns : code[j] # 1
    BY <2>1, NoCodeYet DEF ChainInv
  <2>3. PICK n \in Conns : n \in Ids /\ n = used + 1
    BY <1>2, ConnBounds DEF Dialled, Conns, ChainInv, TypeOK
  <2>4. Owns("connect", n)'
    BY <1>2, <2>3 DEF Dialled, Owns, ChainInv, TypeOK
  <2>5. ASSUME NEW k \in Kinds, NEW j \in Ids, Owns(k, j)'
        PROVE  Owns(k, j) \/ (k = "connect" /\ j = n)
    BY <1>2, <2>3, <2>5 DEF AutoDial, Dialled, Owns, ChainInv, TypeOK
  <2>6. Unique' /\ Somebody'
    BY <2>1, <2>3, <2>4, <2>5, OwnerMoves DEF ChainInv
  <2>7. LastCode'
    BY <1>2, <2>2 DEF AutoDial, LastCode
  <2>8. Served'
    BY <1>2, <2>3 DEF AutoDial, Dialled, Served, ChainInv, TypeOK
  <2>9. QED
    BY <2>6, <2>7, <2>8
<1>3. QED
  BY <1>1, <1>2 DEF AutoStep, AutoDial

LEMMA LeaveStep ==
  ASSUME ChainInv, NEW i \in Conns, NEW c \in {0, 1}, connect[i] = "select",
         LeaveConnect(i, c), UNCHANGED <<ctxDone, run, auto, client>>,
         c = 1 \/ client[i] = "returned"
  PROVE  Unique' /\ Somebody' /\ LastCode' /\ Served'
<1> USE DEF Kinds, Ids
<1>0. i \in Ids
  BY ConnBounds DEF Conns
<1>1. Owns("connect", i) /\ ~Owns("connect", i)' /\ Owns("close", i)'
  BY <1>0 DEF LeaveConnect, Owns, ChainInv, TypeOK
<1>2. \A j \in Conns : code[j] # 1
  BY <1>0, <1>1, NoCodeYet DEF ChainInv
<1>3. ASSUME NEW k \in Kinds, NEW j \in Ids, Owns(k, j)'
      PROVE  Owns(k, j) \/ (k = "close" /\ j = i)
  BY <1>3 DEF LeaveConnect, Owns, ChainInv, TypeOK
<1>4. /\ Unique' /\ Somebody'
      /\ \A k \in Kinds, j \in Ids : Owns(k, j)' => k = "close" /\ j = i
  BY <1>0, <1>1, <1>3, OwnerMoves DEF ChainInv
<1>5. \A j \in Conns : code'[j] = 1 => j = i /\ connect'[j] = "returned"
  BY <1>2 DEF LeaveConnect, ChainInv, TypeOK
<1>6. LastCode'
  BY <1>4, <1>5 DEF LastCode
<1>7. Served'
  BY DEF LeaveConnect, Served, ChainInv, TypeOK
<1>8. QED
  BY <1>4, <1>6, <1>7

LEMMA CloseStep ==
  ASSUME ChainInv, NEW i \in Conns, Close(i)
  PROVE  Unique' /\ Somebody' /\ LastCode' /\ Served'
<1> USE DEF Kinds, Ids
<1>0. i \in Ids
  BY ConnBounds DEF Conns
<1>1. Owns("close", i) /\ ~Owns("close", i)'
  BY <1>0 DEF Close, Owns, ChainInv, TypeOK
<1>2. Served'
  BY DEF Close, Served, ChainInv, clientVars
<1>3. CASE code[i] = 0
  <2>1. \A j \in Conns : code[j] # 1
    BY <1>0, <1>1, <1>3 DEF LastCode, ChainInv
  <2>2. LastCode'
    BY <2>1 DEF Close, LastCode
  <2>3. Owns("auto", i)'
    BY <1>0, <1>3 DEF Close, Owns, ChainInv, TypeOK
  <2>4. ASSUME NEW k \in Kinds, NEW j \in Ids, Owns(k, j)'
        PROVE  Owns(k, j) \/ (k = "auto" /\ j = i)
    BY <1>3, <2>4 DEF Close, Owns, ChainInv, TypeOK
  <2>5. Unique' /\ Somebody'
    BY <1>0, <1>1, <2>3, <2>4, OwnerMoves DEF ChainInv
  <2>6. QED
    BY <1>2, <2>2, <2>5
<1>4. CASE code[i] # 0
  <2>1. ctxDone' = TRUE /\ UNCHANGED <<run, connect, code, auto>>
        /\ closer' = [closer EXCEPT ![i] = "returned"]
    BY <1>4 DEF Close
  <2>2. \A k \in Kinds, j \in Ids : Owns(k, j)' => Owns(k, j)
    BY <2>1 DEF Owns, ChainInv, TypeOK
  <2>3. Unique' /\ Somebody'
    BY <2>1, <2>2 DEF Unique, Somebody, ChainInv
  <2>4. LastCode'
    BY <2>1, <2>2 DEF LastCode, ChainInv
  <2>5. QED
    BY <1>2, <2>3, <2>4
<1>5. QED
  BY <1>3, <1>4

(* The session's own steps leave the chain alone, and go on only where the
   session has started. *)
LEMMA SessionStep ==
  ASSUME ChainInv, NEW i \in Conns,
         ClientStep(i) \/ PeerCloses(i) \/ SessionCancels(i)
  PROVE  Unique' /\ Somebody' /\ LastCode' /\ Served'
<1>1. UNCHANGED <<ctxDone, run, connect, code, closer, auto>>
  BY DEF ClientStep, ClientStart, ClientConnected, ClientFrame,
         ClientReadError, ClientPumped, ClientLeave, ClientClosed, Watch,
         PeerCloses, SessionCancels, chainVars
<1>2. SameOwners
  BY <1>1 DEF SameOwners, Owns
<1>3. \/ UNCHANGED client
      \/ /\ client[i] \notin {"none", "returned"}
         /\ \E c \in {"connecting", "reading", "pumping", "leaving", "closing",
                      "returned"} : client' = [client EXCEPT ![i] = c]
  BY DEF ClientStep, ClientStart, ClientConnected, ClientFrame,
         ClientReadError, ClientPumped, ClientLeave, ClientClosed, Watch,
         PeerCloses, SessionCancels, clientVars
<1>4. \A j \in Conns : client'[j] \notin {"none", "returned"}
                        => client[j] \notin {"none", "returned"}
  BY <1>3 DEF ChainInv, TypeOK
<1>5. Served'
  BY <1>1, <1>4 DEF Served, ChainInv
<1>6. QED
  BY <1>2, <1>5, OwnersKept DEF ChainInv

LEMMA ChainNext == ChainInv /\ [Next]_vars => ChainInv'
<1> SUFFICES ASSUME ChainInv, [Next]_vars PROVE ChainInv'
  OBVIOUS
<1>1. TypeOK'
  BY TypeNext DEF ChainInv
<1>2. CASE Run
  BY <1>1, <1>2, RunStep DEF ChainInv
<1>3. ASSUME NEW i \in 0..MaxConns, AutoStep(i) PROVE ChainInv'
  BY <1>1, <1>3, AutoStepKeeps DEF ChainInv, Ids
<1>4. ASSUME NEW i \in Conns, ConnectStep(i) PROVE ChainInv'
  <2>1. CASE ConnectCancelled(i)
    BY <1>1, <2>1, LeaveStep DEF ConnectCancelled, ChainInv, clientVars
  <2>2. CASE ConnectEnded(i)
    <3>1. PICK c \in {0, 1} : LeaveConnect(i, c)
      BY <2>2 DEF ConnectEnded
    <3>2. QED
      BY <1>1, <2>2, <3>1, LeaveStep DEF ConnectEnded, ChainInv, clientVars
  <2>3. CASE Close(i)
    BY <1>1, <2>3, CloseStep DEF ChainInv
  <2>4. QED
    BY <1>4, <2>1, <2>2, <2>3 DEF ConnectStep
<1>5. ASSUME NEW i \in Conns,
             ClientStep(i) \/ PeerCloses(i) \/ SessionCancels(i)
      PROVE  ChainInv'
  BY <1>1, <1>5, SessionStep DEF ChainInv
<1>6. CASE Cancel \/ UNCHANGED vars
  <2>1. /\ UNCHANGED <<run, connect, code, closer, auto, client>>
        /\ ctxDone => ctxDone'
    BY <1>6 DEF Cancel, vars, chainVars, clientVars
  <2>2. SameOwners
    BY <2>1 DEF SameOwners, Owns
  <2>3. Served'
    BY <2>1 DEF Served, ChainInv
  <2>4. QED
    BY <1>1, <2>2, <2>3, OwnersKept DEF ChainInv
<1>7. QED
  BY <1>2, <1>3, <1>4, <1>5, <1>6 DEF Next

LEMMA ChainAlways == Spec => []ChainInv
  BY ChainInit, ChainNext, PTL DEF Spec

-----------------------------------------------------------------------------
(* At most one of the client's goroutines dials or is connected, however
   often it reconnects and whenever the context is cancelled. *)
THEOREM ClientHasOneOwner == Spec => []OneOwner
<1>1. ChainInv => OneOwner
  <2> SUFFICES ASSUME ChainInv, NEW x \in Owners, NEW y \in Owners
               PROVE  x = y
    BY DEF OneOwner
  <2>1. /\ x[1] \in Kinds /\ x[2] \in Ids /\ Owns(x[1], x[2])
        /\ y[1] \in Kinds /\ y[2] \in Ids /\ Owns(y[1], y[2])
        /\ x = <<x[1], x[2]>> /\ y = <<y[1], y[2]>>
    BY DEF Owners, Kinds, Ids
  <2>2. x[1] = y[1] /\ x[2] = y[2]
    BY <2>1 DEF ChainInv, Unique
  <2>3. QED
    BY <2>1, <2>2
<1>2. QED
  BY <1>1, ChainAlways, PTL

(* Until the context is cancelled, a goroutine of the client is connected or
   on the way to be: no failure ends the chain. *)
THEOREM ClientNeverGivesUp == Spec => []NeverGivesUp
<1>1. ChainInv => NeverGivesUp
  <2> SUFFICES ASSUME ChainInv, ~ctxDone PROVE Owners # {}
    BY DEF NeverGivesUp
  <2>1. PICK k \in Kinds, i \in Ids : Owns(k, i)
    BY DEF ChainInv, Somebody
  <2>2. <<k, i>> \in Owners
    BY <2>1 DEF Owners, Kinds, Ids
  <2>3. QED
    BY <2>2
<1>2. QED
  BY <1>1, ChainAlways, PTL

(* The session object that all connections share is never connected again
   before it is closed. *)
THEOREM ClientHasOneSession == Spec => []OneSession
<1>1. ChainInv => OneSession
  <2> SUFFICES ASSUME ChainInv, NEW i \in Conns, NEW j \in Conns,
                      InSession(i), InSession(j)
               PROVE  i = j
    BY DEF OneSession
  <2>1. /\ connect[i] = "select" \/ code[i] = 1
        /\ connect[j] = "select" \/ code[j] = 1
    BY DEF InSession, ChainInv, Served
  <2>2. i \in Ids /\ j \in Ids
    BY ConnBounds DEF Conns, Ids
  <2>3. /\ connect[i] = "select" => Owns("connect", i)
        /\ connect[j] = "select" => Owns("connect", j)
    BY <2>2 DEF Owns
  <2>4. CASE code[i] = 1 \/ code[j] = 1
    BY <2>1, <2>2, <2>3, <2>4 DEF ChainInv, LastCode, Kinds
  <2>5. CASE connect[i] = "select" /\ connect[j] = "select"
    BY <2>2, <2>3, <2>5 DEF ChainInv, Unique, Kinds
  <2>6. QED
    BY <2>1, <2>4, <2>5
<1>2. QED
  BY <1>1, ChainAlways, PTL

(* The goroutines of the client are where the code can put them, for any
   number of connections. *)
THEOREM ClientTypes == Spec => []TypeOK
<1>1. ChainInv => TypeOK
  BY DEF ChainInv
<1> QED
  BY <1>1, ChainAlways, PTL

-----------------------------------------------------------------------------
(***************************************************************************)
(* What ConnsReleased and SessionEnds rest on: every connection that is    *)
(* not closed has somebody who will close it, and a session on one that is *)
(* has only so many steps to go.                                           *)
(***************************************************************************)

(* Connections that were not dialled have nothing, and one that was keeps its
   connect until it is closed. *)
Held ==
  \A i \in Conns :
    /\ conn[i] = "none" <=> i > used
    /\ conn[i] = "none" =>
         connect[i] = "none" /\ client[i] = "none" /\ watch[i] = "none"
    /\ conn[i] \in {"open", "peerClosed"} => connect[i] = "select"

LEMMA DialHolds ==
  ASSUME TypeOK, Held, Dialled \/ DialFails, UNCHANGED watch
  PROVE  /\ Held'
         /\ \A i \in Conns : conn[i] # "none" =>
              conn'[i] = conn[i] /\ client'[i] = client[i]
<1> USE DEF TypeOK, Held
<1>1. CASE DialFails
  BY <1>1 DEF DialFails
<1>2. CASE Dialled
  <2>1. used \in Int /\ used' = used + 1 /\ \A i \in Conns : i \in Int
    BY <1>2, ConnBounds DEF Dialled, Conns
  <2>2. ASSUME NEW i \in Conns, i # used + 1
        PROVE  conn'[i] = conn[i] /\ connect'[i] = connect[i] /\ client'[i] = client[i]
    BY <1>2, <2>2 DEF Dialled
  <2>3. ASSUME NEW i \in Conns, i = used + 1
        PROVE  conn'[i] = "open" /\ connect'[i] = "select" /\ conn[i] = "none"
    BY <1>2, <2>1, <2>3 DEF Dialled
  <2>4. Held'
    <3> SUFFICES ASSUME NEW i \in Conns
                 PROVE  /\ conn'[i] = "none" <=> i > used'
                        /\ conn'[i] = "none" =>
                             /\ connect'[i] = "none" /\ client'[i] = "none"
                             /\ watch'[i] = "none"
                        /\ conn'[i] \in {"open", "peerClosed"} =>
                             connect'[i] = "select"
      BY DEF Held
    <3>1. CASE i = used + 1
      BY <2>1, <2>3, <3>1
    <3>2. CASE i # used + 1
      <4>1. i > used' <=> i > used
        BY <2>1, <3>2
      <4>2. QED
        BY <2>2, <3>2, <4>1
    <3>3. QED
      BY <3>1, <3>2
  <2>5. QED
    BY <2>2, <2>3, <2>4
<1>3. QED
  BY <1>1, <1>2

LEMMA LeaveHolds ==
  ASSUME TypeOK, Held, NEW i \in Conns, NEW c, LeaveConnect(i, c),
         connect[i] = "select", UNCHANGED <<used, client, watch>>
  PROVE  Held'
<1>1. conn'[i] = "closed"
  BY DEF LeaveConnect, TypeOK
<1>2. ASSUME NEW j \in Conns, j # i
      PROVE  conn'[j] = conn[j] /\ connect'[j] = connect[j]
  BY <1>2 DEF LeaveConnect, TypeOK
<1>3. QED
  BY <1>1, <1>2 DEF Held

(* A step of ConnectClient, of its watcher or of the peer. *)
LEMMA SessionHolds ==
  ASSUME TypeOK, Held, NEW i \in Conns,
         ClientStep(i) \/ PeerCloses(i) \/ SessionCancels(i)
  PROVE  Held'
<1>1. UNCHANGED <<used, connect>>
  BY DEF ClientStep, ClientStart, ClientConnected, ClientFrame,
         ClientReadError, ClientPumped, ClientLeave, ClientClosed, Watch,
         PeerCloses, SessionCancels, chainVars
<1>2. conn[i] # "none"
  <2>1. CASE ClientStep(i)
    BY <2>1 DEF Held, ClientStep, ClientStart, ClientConnected, ClientFrame,
                ClientReadError, ClientPumped, ClientLeave, ClientClosed, Watch
  <2>2. CASE PeerCloses(i) \/ SessionCancels(i)
    BY <2>2 DEF Held, PeerCloses, SessionCancels
  <2>3. QED
    BY <2>1, <2>2
<1>3. conn'[i] \in {conn[i], "closed"} \/ (conn[i] = "open" /\ conn'[i] = "peerClosed")
  <2>1. CASE ClientStep(i)
    BY <2>1 DEF TypeOK, ClientStep, ClientStart, ClientConnected, ClientFrame,
                ClientReadError, ClientPumped, ClientLeave, ClientClosed, Watch
  <2>2. CASE PeerCloses(i) \/ SessionCancels(i)
    BY <2>2 DEF TypeOK, PeerCloses, SessionCancels
  <2>3. QED
    BY <2>1, <2>2
<1>4. ASSUME NEW j \in Conns, j # i
      PROVE  conn'[j] = conn[j] /\ client'[j] = client[j] /\ watch'[j] = watch[j]
  <2>1. CASE ClientStep(i)
    BY <1>4, <2>1
       DEF TypeOK, ClientStep, ClientStart, ClientConnected, ClientFrame,
           ClientReadError, ClientPumped, ClientLeave, ClientClosed, Watch
  <2>2. CASE PeerCloses(i) \/ SessionCancels(i)
    BY <1>4, <2>2 DEF TypeOK, PeerCloses, SessionCancels, clientVars
  <2>3. QED
    BY <2>1, <2>2
<1>5. QED
  BY <1>1, <1>2, <1>3, <1>4 DEF Held

LEMMA HeldAlways == Spec => []Held
<1>1. Init => Held
  BY ConnBounds DEF Init, Held, Conns
<1>2. ASSUME TypeOK, Held, [Next]_vars
      PROVE  Held'
  <2>1. CASE Run
    BY <1>2, <2>1, DialHolds DEF Run
  <2>2. ASSUME NEW i \in 0..MaxConns, AutoStep(i) PROVE Held'
    <3>1. CASE AutoDial(i)
      BY <1>2, <3>1, DialHolds DEF AutoDial
    <3>2. CASE AutoDelay(i) \/ AutoForget(i)
      BY <1>2, <3>2 DEF AutoDelay, AutoForget, Held, clientVars
    <3>3. QED
      BY <2>2, <3>1, <3>2 DEF AutoStep
  <2>3. ASSUME NEW i \in Conns, ConnectStep(i) PROVE Held'
    <3>1. CASE ConnectCancelled(i) \/ ConnectEnded(i)
      BY <1>2, <3>1, LeaveHolds DEF ConnectCancelled, ConnectEnded, clientVars
    <3>2. CASE Close(i)
      BY <1>2, <3>2 DEF Close, Held, clientVars
    <3>3. QED
      BY <2>3, <3>1, <3>2 DEF ConnectStep
  <2>4. ASSUME NEW i \in Conns,
               ClientStep(i) \/ PeerCloses(i) \/ SessionCancels(i)
        PROVE  Held'
    BY <1>2, <2>4, SessionHolds
  <2>5. CASE Cancel \/ UNCHANGED vars
    BY <1>2, <2>5 DEF Cancel, vars, chainVars, clientVars, Held
  <2>6. QED
    BY <1>2, <2>1, <2>2, <2>3, <2>4, <2>5 DEF Next
<1>3. QED
  BY <1>1, <1>2, ClientTypes, PTL DEF Spec

(* However often the client reconnects, a connection that is not closed has a
   connect that waits for its session or the context and then closes it: none
   is leaked, not even where the session refuses it and nobody watches
   (src/msutil/client.go:107, src/msutil/client.go:188). *)
THEOREM ClientHoldsConns ==
  Spec => [](\A i \in Conns :
               conn[i] \in {"open", "peerClosed"} => connect[i] = "select")
<1>1. Held => \A i \in Conns :
                conn[i] \in {"open", "peerClosed"} => connect[i] = "select"
  BY DEF Held
<1>2. QED
  BY <1>1, HeldAlways, PTL

-----------------------------------------------------------------------------
(* How far ConnectClient at c and its watcher at w are from their ends. *)
SessionRank(c, w) ==
  (CASE c = "none" -> 16
     [] c = "start" -> 14
     [] c = "connecting" -> 12
     [] c = "pumping" -> 10
     [] c = "reading" -> 8
     [] c = "leaving" -> 6
     [] c = "closing" -> 4
     [] c = "returned" -> 2) + (IF w = "waiting" THEN 1 ELSE 0)

Gone(i) == conn[i] \in {"peerClosed", "closed"}

(* The steps of a session whose connection is not open. *)
LEMMA GoneLowers ==
  ASSUME TypeOK, NEW i \in Conns, Gone(i), ClientStep(i)
  PROVE  /\ Gone(i)'
         /\ SessionRank(client'[i], watch'[i]) < SessionRank(client[i], watch[i])
<1> USE DEF TypeOK, Gone
<1>1. CASE ClientStart(i)
  <2>1. client[i] = "start" /\ client'[i] = "connecting" /\ watch'[i] = watch[i]
    BY <1>1 DEF ClientStart
  <2>2. QED
    BY <1>1, <2>1 DEF ClientStart, SessionRank
<1>2. CASE ClientConnected(i)
  <2>1. client[i] = "connecting" /\ client'[i] \in {"reading", "returned"}
    BY <1>2 DEF ClientConnected
  <2>2. QED
    BY <1>2, <2>1 DEF ClientConnected, SessionRank
<1>3. CASE ClientFrame(i)
  BY <1>3 DEF ClientFrame
<1>4. CASE ClientReadError(i)
  <2>1. client[i] = "reading" /\ client'[i] = "leaving" /\ watch'[i] = watch[i]
    BY <1>4 DEF ClientReadError
  <2>2. QED
    BY <1>4, <2>1 DEF ClientReadError, SessionRank
<1>5. CASE ClientPumped(i)
  <2>1. /\ client[i] = "pumping" /\ client'[i] \in {"reading", "leaving"}
        /\ watch'[i] = watch[i]
    BY <1>5 DEF ClientPumped
  <2>2. QED
    BY <1>5, <2>1 DEF ClientPumped, SessionRank
<1>6. CASE ClientLeave(i) \/ ClientClosed(i)
  <2>1. /\ \/ client[i] = "leaving" /\ client'[i] = "closing"
           \/ client[i] = "closing" /\ client'[i] = "returned"
        /\ watch'[i] = watch[i]
    BY <1>6 DEF ClientLeave, ClientClosed
  <2>2. QED
    BY <1>6, <2>1 DEF ClientLeave, ClientClosed, SessionRank
<1>7. CASE Watch(i)
  <2>1. /\ watch[i] = "waiting" /\ watch'[i] = "returned"
        /\ client'[i] = client[i] /\ conn'[i] = "closed"
    BY <1>7 DEF Watch
  <2>2. QED
    BY <2>1 DEF SessionRank
<1>8. QED
  BY <1>1, <1>2, <1>3, <1>4, <1>5, <1>6, <1>7 DEF ClientStep

(* No other step does anything to it. *)
LEMMA GoneAlone ==
  ASSUME TypeOK, Held, [Next]_vars, NEW i \in Conns, Gone(i), ~ClientStep(i)
  PROVE  Gone(i)' /\ client'[i] = client[i] /\ watch'[i] = watch[i]
<1> USE DEF TypeOK, Gone
<1>1. CASE Run
  BY <1>1, DialHolds DEF Run
<1>2. ASSUME NEW j \in 0..MaxConns, AutoStep(j)
      PROVE  Gone(i)' /\ client'[i] = client[i] /\ watch'[i] = watch[i]
  <2>1. CASE AutoDial(j)
    BY <2>1, DialHolds DEF AutoDial
  <2>2. CASE AutoDelay(j) \/ AutoForget(j)
    BY <2>2 DEF AutoDelay, AutoForget, clientVars
  <2>3. QED
    BY <1>2, <2>1, <2>2 DEF AutoStep
<1>3. ASSUME NEW j \in Conns, ConnectStep(j)
      PROVE  Gone(i)' /\ client'[i] = client[i] /\ watch'[i] = watch[i]
  BY <1>3 DEF ConnectStep, ConnectCancelled, ConnectEnded, LeaveConnect,
              Close, clientVars
<1>4. ASSUME NEW j \in Conns, ClientStep(j)
      PROVE  Gone(i)' /\ client'[i] = client[i] /\ watch'[i] = watch[i]
  <2>1. j # i
    BY <1>4
  <2>2. QED
    BY <1>4, <2>1
       DEF ClientStep, ClientStart, ClientConnected, ClientFrame,
           ClientReadError, ClientPumped, ClientLeave, ClientClosed, Watch
<1>5. ASSUME NEW j \in Conns, PeerCloses(j) \/ SessionCancels(j)
      PROVE  Gone(i)' /\ client'[i] = client[i] /\ watch'[i] = watch[i]
  BY <1>5 DEF PeerCloses, SessionCancels, clientVars
<1>6. CASE Cancel \/ UNCHANGED vars
  BY <1>6 DEF Cancel, vars, clientVars
<1>7. QED
  BY <1>1, <1>2, <1>3, <1>4, <1>5, <1>6 DEF Next

(* Once a connection is closed, by whichever end, it stays so; what is left of
   its session never grows, and every step of it or of its watcher is one of
   the few left: the ReadPump under way ends, the read after it fails, and the
   session is closed.  Reconnecting gives an old session nothing to do
   (src/msutil/client.go:197). *)
THEOREM ClientSessionsWindDown ==
  Spec => [][\A i \in Conns : Gone(i) =>
               /\ Gone(i)'
               /\ SessionRank(client'[i], watch'[i])
                    <= SessionRank(client[i], watch[i])
               /\ ClientStep(i) =>
                    SessionRank(client'[i], watch'[i])
                      < SessionRank(client[i], watch[i])]_vars
<1> DEFINE Winds ==
      \A i \in Conns : Gone(i) =>
        /\ Gone(i)'
        /\ SessionRank(client'[i], watch'[i]) <= SessionRank(client[i], watch[i])
        /\ ClientStep(i) =>
             SessionRank(client'[i], watch'[i]) < SessionRank(client[i], watch[i])
<1>1. ASSUME TypeOK, Held, [Next]_vars
      PROVE  Winds
  <2> SUFFICES ASSUME NEW i \in Conns, Gone(i)
               PROVE  /\ Gone(i)'
                      /\ SessionRank(client'[i], watch'[i])
                           <= SessionRank(client[i], watch[i])
                      /\ ClientStep(i) =>
                           SessionRank(client'[i], watch'[i])
                             < SessionRank(client[i], watch[i])
    OBVIOUS
  <2>1. /\ SessionRank(client[i], watch[i]) \in Int
        /\ SessionRank(client'[i], watch'[i]) \in Int
    <3>1. TypeOK'
      BY <1>1, TypeNext
    <3>2. QED
      BY <1>1, <3>1 DEF TypeOK, SessionRank
  <2>2. CASE ClientStep(i)
    BY <1>1, <2>1, <2>2, GoneLowers
  <2>3. CASE ~ClientStep(i)
    BY <1>1, <2>1, <2>3, GoneAlone
  <2>4. QED
    BY <2>2, <2>3
<1>2. QED
  BY <1>1, ClientTypes, HeldAlways, PTL DEF Spec
=============================================================================
