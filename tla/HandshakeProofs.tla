---------------------------- MODULE HandshakeProofs ----------------------------
(***************************************************************************)
(* Proofs about Handshake, for any protocols, extensions and nonces, any   *)
(* number of headers and lists of any length.                              *)
(***************************************************************************)
EXTENDS Handshake, SequenceTheorems, WellFoundedInduction, TLAPS

-----------------------------------------------------------------------------
(* Loops.  What a recursive function computes is found with the least number
   at which it would not, so that no induction rule is needed. *)

(* Every set of numbers that is not empty has a least one. *)
LEMMA Least ==
  ASSUME NEW T \in SUBSET Nat, T # {}
  PROVE  \E x \in T : \A y \in T : x <= y
<1> DEFINE R == OpToRel(<, Nat)
<1>1. IsWellFoundedOn(R, Nat)
  BY Zenon, NatLessThanWellFounded
<1>2. \A x, y \in Nat : x < y => <<x, y>> \in R
  BY DEF OpToRel
<1> HIDE DEF R
<1>3. PICK x \in T : \A y \in T : ~ (<<y, x>> \in R)
  BY <1>1, WFMin
<1>4. ASSUME NEW y \in T PROVE x <= y
  <2>1. x \in Nat /\ y \in Nat
    OBVIOUS
  <2>2. ~ (y < x)
    BY <1>2, <1>3, <2>1
  <2> QED
    BY <2>1, <2>2
<1> QED
  BY <1>4

(* Min finds it. *)
LEMMA Smallest ==
  ASSUME NEW T \in SUBSET Nat, T # {}
  PROVE  Min(T) \in T /\ \A y \in T : Min(T) <= y
<1> DEFINE P(x) == x \in T /\ \A y \in T : x <= y
<1>1. \E x : P(x)
  BY Least
<1>2. Min(T) = CHOOSE x : P(x)
  BY Zenon DEF Min
<1> HIDE DEF P
<1>3. P(CHOOSE x : P(x))
  BY <1>1, Zenon
<1>4. P(Min(T))
  BY <1>2, <1>3, Zenon
<1> QED
  BY <1>4 DEF P

(* What a loop keeps from one round to the next it has in every round. *)
LEMMA Climb ==
  ASSUME NEW n \in Nat, NEW S, NEW g, g[0] \in S,
         \A i \in 1..n : g[i - 1] \in S => g[i] \in S
  PROVE  \A i \in 0..n : g[i] \in S
<1> DEFINE T == {i \in 0..n : g[i] \notin S}
<1>1. SUFFICES ASSUME T # {} PROVE FALSE
  OBVIOUS
<1>2. T \in SUBSET Nat
  OBVIOUS
<1>3. PICK x \in T : \A y \in T : x <= y
  BY <1>1, <1>2, Least
<1>4. x \in 1..n /\ x - 1 \in 0..n
  OBVIOUS
<1>5. x - 1 \notin T
  BY <1>3, <1>4
<1>6. g[x - 1] \in S
  BY <1>4, <1>5
<1> QED
  BY <1>4, <1>6

(* f has what n rounds of a loop make of a. *)
Rounds(f, n, a, F) ==
  f = [i \in 0..n |-> IF i = 0 THEN a ELSE F[i][f[i - 1]]]

LEMMA Loop ==
  ASSUME NEW n \in Nat, NEW S, NEW a \in S, NEW F \in [1..n -> [S -> S]]
  PROVE  \E f \in [0..n -> S] : Rounds(f, n, a, F)
<1> DEFINE Runs(m, f) == f[0] = a /\ \A i \in 1..m : f[i] = F[i][f[i - 1]]
           T == {m \in 0..n : ~ \E f \in [0..m -> S] : Runs(m, f)}
<1>1. T = {}
  <2>1. SUFFICES ASSUME T # {} PROVE FALSE
    OBVIOUS
  <2>2. T \in SUBSET Nat
    OBVIOUS
  <2>3. PICK x \in T : \A y \in T : x <= y
    BY <2>1, <2>2, Least
  <2>4. x # 0
    <3>1. [i \in 0..0 |-> a] \in [0..0 -> S] /\ Runs(0, [i \in 0..0 |-> a])
      OBVIOUS
    <3> QED
      BY <3>1
  <2>5. x \in 1..n /\ x - 1 \in 0..n /\ x - 1 \notin T
    <3>1. x \in 1..n /\ x - 1 \in 0..n /\ ~(x <= x - 1)
      BY <2>4
    <3> QED
      BY <2>3, <3>1
  <2>6. PICK f \in [0..(x - 1) -> S] : Runs(x - 1, f)
    BY <2>5
  <2> DEFINE g == [i \in 0..x |-> IF i = x THEN F[x][f[x - 1]] ELSE f[i]]
  <2>7. g \in [0..x -> S]
    <3>1. F[x][f[x - 1]] \in S
      BY <2>5
    <3> QED
      BY <2>5, <3>1
  <2>8. g[0] = a
    BY <2>5, <2>6
  <2>9. ASSUME NEW i \in 1..x PROVE g[i] = F[i][g[i - 1]]
    <3>1. g[i - 1] = f[i - 1]
      BY <2>5
    <3>2. CASE i = x
      BY <3>1, <3>2
    <3>3. CASE i # x
      <4>1. i \in 1..(x - 1) /\ i \in 0..x
        BY <2>5, <3>3
      <4>2. f[i] = F[i][f[i - 1]]
        BY <2>6, <4>1
      <4> QED
        BY <3>1, <3>3, <4>1, <4>2
    <3> QED
      BY <3>2, <3>3
  <2> QED
    BY <2>7, <2>8, <2>9
<1>2. PICK f \in [0..n -> S] : Runs(n, f)
  <2>1. n \in 0..n
    OBVIOUS
  <2> QED
    BY <1>1, <2>1
<1>3. f = [i \in 0..n |-> IF i = 0 THEN a ELSE F[i][f[i - 1]]]
  BY <1>2
<1> QED
  BY <1>3 DEF Rounds

-----------------------------------------------------------------------------
(* What the operators return. *)

TokenLists(S) == [toks : Seq(S), bad : BOOLEAN]
Options == [selects : BOOLEAN, accepts : SUBSET Protocols,
            negotiation : {"none", "Negotiate", "Extension"},
            answer : [Extensions -> {"accept", "decline", "error"}], extra : Extra]

(* f has the accepted ones of the first tokens of a list. *)
Accepting(f, n, S, toks, answer) ==
  /\ \A i \in 0..n : f[i] \in Seq(S)
  /\ f[0] = <<>> /\ f[n] = Accepted(toks, answer)
  /\ \A i \in 1..n :
       f[i] = IF answer[toks[i]] = "accept" THEN Append(f[i - 1], toks[i])
              ELSE f[i - 1]

LEMMA AcceptedRounds ==
  ASSUME NEW S, NEW toks \in Seq(S), NEW answer
  PROVE  \E f : Accepting(f, Len(toks), S, toks, answer)
<1> DEFINE n == Len(toks)
           More(q, t) == IF answer[t] = "accept" THEN Append(q, t) ELSE q
           F == [i \in 1..n |-> [q \in Seq(S) |-> More(q, toks[i])]]
           f == CHOOSE f : f = [i \in 0..n |->
                  IF i = 0 THEN <<>>
                  ELSE IF answer[toks[i]] = "accept" THEN Append(f[i - 1], toks[i])
                  ELSE f[i - 1]]
<1>1. n \in Nat /\ <<>> \in Seq(S)
  OBVIOUS
<1>2. ASSUME NEW q \in Seq(S), NEW i \in 1..n PROVE More(q, toks[i]) \in Seq(S)
  <2>1. toks[i] \in S
    OBVIOUS
  <2> QED
    BY <2>1
<1>3. F \in [1..n -> [Seq(S) -> Seq(S)]]
  BY <1>2
<1> HIDE DEF More
<1>4. PICK g \in [0..n -> Seq(S)] : Rounds(g, n, <<>>, F)
  <2> HIDE DEF F
  <2>1. PICK k \in Nat : k = n
    BY <1>1
  <2>2. F \in [1..k -> [Seq(S) -> Seq(S)]]
    BY <1>3, <2>1
  <2>3. \E g \in [0..k -> Seq(S)] : Rounds(g, k, <<>>, F)
    BY <1>1, <2>2, Loop
  <2> QED
    BY <2>1, <2>3
<1>5. g = [i \in 0..n |-> IF i = 0 THEN <<>> ELSE More(g[i - 1], toks[i])]
  <2>1. ASSUME NEW i \in 0..n, i # 0
        PROVE  F[i][g[i - 1]] = More(g[i - 1], toks[i])
    <3>1. i \in 1..n /\ i - 1 \in 0..n
      BY <2>1
    <3>2. g[i - 1] \in Seq(S)
      BY <3>1
    <3> QED
      BY <3>1, <3>2
  <2> HIDE DEF F
  <2> QED
    BY <1>4, <2>1 DEF Rounds
<1>6. f = [i \in 0..n |->
             IF i = 0 THEN <<>>
             ELSE IF answer[toks[i]] = "accept" THEN Append(f[i - 1], toks[i])
             ELSE f[i - 1]]
  BY <1>5, Zenon DEF More
<1>7. Accepted(toks, answer) = f[n]
  BY DEF Accepted
<1> HIDE DEF f, F
<1>8. f[0] = <<>>
  BY <1>1, <1>6
<1>9. ASSUME NEW i \in 1..n
      PROVE  f[i] = IF answer[toks[i]] = "accept" THEN Append(f[i - 1], toks[i])
                    ELSE f[i - 1]
  <2>1. i \in 0..n /\ i # 0
    BY <1>1
  <2> QED
    BY <1>6, <2>1, Zenon
<1>10. ASSUME NEW i \in 1..n, f[i - 1] \in Seq(S) PROVE f[i] \in Seq(S)
  <2>1. f[i] = More(f[i - 1], toks[i])
    BY <1>9, Zenon DEF More
  <2> QED
    BY <1>2, <1>10, <2>1
<1>11. \A i \in 0..n : f[i] \in Seq(S)
  BY <1>1, <1>8, <1>10, Climb
<1> QED
  BY <1>7, <1>8, <1>9, <1>11 DEF Accepting

(* They are a list of tokens. *)
LEMMA AcceptedTyped ==
  ASSUME NEW S, NEW toks \in Seq(S), NEW answer
  PROVE  Accepted(toks, answer) \in Seq(S)
<1>1. Len(toks) \in 0..Len(toks)
  OBVIOUS
<1>2. PICK f : Accepting(f, Len(toks), S, toks, answer)
  BY AcceptedRounds
<1> QED
  BY <1>1, <1>2 DEF Accepting

LEMMA SelectProtocolTyped ==
  ASSUME NEW list \in TokenLists(Protocols), NEW accepts
  PROVE  /\ SelectProtocol(list, accepts).protocol \in Protocols \cup {NoProtocol}
         /\ SelectProtocol(list, accepts).ok \in BOOLEAN
<1> DEFINE hits == {i \in DOMAIN list.toks : list.toks[i] \in accepts}
<1>1. list.toks \in Seq(Protocols) /\ list.bad \in BOOLEAN
  BY DEF TokenLists
<1>2. CASE hits # {}
  <2>1. hits \in SUBSET Nat /\ hits \subseteq DOMAIN list.toks
    BY <1>1
  <2>2. Min(hits) \in hits
    <3> HIDE DEF hits
    <3> QED
      BY <1>2, <2>1, Smallest
  <2>3. list.toks[Min(hits)] \in Protocols
    <3>1. PICK m : m = Min(hits)
      OBVIOUS
    <3>2. m \in DOMAIN list.toks
      BY <2>1, <2>2, <3>1, Zenon
    <3>3. list.toks[m] \in Protocols
      BY <1>1, <3>2
    <3> QED
      BY <3>1, <3>3, Zenon
  <2>4. SelectProtocol(list, accepts)
          = [protocol |-> list.toks[Min(hits)], ok |-> TRUE]
    BY <1>2 DEF SelectProtocol
  <2> QED
    BY <2>3, <2>4
<1>3. CASE hits = {}
  <2>1. SelectProtocol(list, accepts) = [protocol |-> NoProtocol, ok |-> ~list.bad]
    BY <1>3 DEF SelectProtocol
  <2> QED
    BY <1>1, <2>1
<1> QED
  BY <1>2, <1>3

(* The errors that a header of a request can cause. *)
Answers == {"nil", "MalformedRequest", "refused"}

LEMMA TakeProtocolTyped ==
  ASSUME NEW hs0 \in Results, NEW list \in TokenLists(Protocols),
         NEW opts \in Options
  PROVE  /\ TakeProtocol(hs0, list, opts) \in Results
         /\ TakeProtocol(hs0, list, opts).err \in Answers \cup {hs0.err}
<1>1. CASE ~opts.selects \/ hs0.err # "nil" \/ hs0.protocol # NoProtocol
  <2>1. TakeProtocol(hs0, list, opts) = hs0
    BY <1>1 DEF TakeProtocol
  <2> QED
    BY <2>1
<1>2. CASE ~(~opts.selects \/ hs0.err # "nil" \/ hs0.protocol # NoProtocol)
  <2>1. PICK s : s = SelectProtocol(list, opts.accepts)
    OBVIOUS
  <2>2. s.protocol \in Protocols \cup {NoProtocol} /\ s.ok \in BOOLEAN
    BY <2>1, SelectProtocolTyped
  <2>3. TakeProtocol(hs0, list, opts)
          = [hs0 EXCEPT !.protocol = s.protocol,
                        !.err = IF s.ok THEN "nil" ELSE "MalformedRequest"]
    BY <1>2, <2>1, Zenon DEF TakeProtocol
  <2>4. PICK e \in {"nil", "MalformedRequest"} :
          e = IF s.ok THEN "nil" ELSE "MalformedRequest"
    BY <2>2
  <2>5. TakeProtocol(hs0, list, opts) = [hs0 EXCEPT !.protocol = s.protocol, !.err = e]
    BY <2>3, <2>4, Zenon
  <2>6. e \in Errors
    BY <2>4 DEF Errors, StatusOf
  <2> QED
    BY <2>2, <2>4, <2>5, <2>6 DEF Results, Answers
<1> QED
  BY <1>1, <1>2, Zenon

LEMMA NegotiationTyped ==
  ASSUME NEW S, NEW list \in TokenLists(S), NEW dest \in Seq(S), NEW answer
  PROVE  /\ NegotiateExtensions(list, dest, answer) \in [exts : Seq(S), err : Answers]
         /\ SelectExtensions(list, dest, answer) \in [exts : Seq(S), err : Answers]
<1>1. list.toks \in Seq(S) /\ list.bad \in BOOLEAN
  BY DEF TokenLists
<1>2. PICK a \in Seq(S) : a = Accepted(list.toks, answer)
  BY <1>1, AcceptedTyped
<1>3. dest \o a \in Seq(S) /\ <<>> \in Seq(S)
  OBVIOUS
<1>4. SelectExtensions(list, dest, answer) \in [exts : Seq(S), err : Answers]
  <2>1. SelectExtensions(list, dest, answer)
          = [exts |-> dest \o a, err |-> IF list.bad THEN "MalformedRequest" ELSE "nil"]
    BY <1>2 DEF SelectExtensions
  <2> QED
    BY <1>1, <1>3, <2>1 DEF Answers
<1>5. NegotiateExtensions(list, dest, answer) \in [exts : Seq(S), err : Answers]
  <2> DEFINE n == Len(list.toks)
             refused(i) == answer[list.toks[i]] = "error"
  <2>1. NegotiateExtensions(list, dest, answer) =
          IF \E i \in 1..(n - 1) : refused(i) THEN [exts |-> <<>>, err |-> "refused"]
          ELSE IF list.bad THEN [exts |-> <<>>, err |-> "MalformedRequest"]
          ELSE IF n > 0 /\ refused(n) THEN [exts |-> <<>>, err |-> "refused"]
          ELSE [exts |-> dest \o a, err |-> "nil"]
    BY <1>2, Zenon DEF NegotiateExtensions
  <2> HIDE DEF n, refused
  <2>2. NegotiateExtensions(list, dest, answer)
          \in {[exts |-> <<>>, err |-> "refused"],
               [exts |-> <<>>, err |-> "MalformedRequest"],
               [exts |-> dest \o a, err |-> "nil"]}
    <3>1. CASE \E i \in 1..(n - 1) : refused(i)
      BY <2>1, <3>1, Zenon
    <3>2. CASE ~(\E i \in 1..(n - 1) : refused(i)) /\ list.bad
      BY <2>1, <3>2, Zenon
    <3>3. CASE ~(\E i \in 1..(n - 1) : refused(i)) /\ ~list.bad /\ n > 0 /\ refused(n)
      BY <2>1, <3>3, Zenon
    <3>4. CASE ~(\E i \in 1..(n - 1) : refused(i)) /\ ~list.bad /\ ~(n > 0 /\ refused(n))
      BY <2>1, <3>4, Zenon
    <3> QED
      BY <3>1, <3>2, <3>3, <3>4, Zenon
  <2>3. ASSUME NEW x \in Seq(S), NEW e \in Answers
        PROVE  [exts |-> x, err |-> e] \in [exts : Seq(S), err : Answers]
    OBVIOUS
  <2>4. {"refused", "MalformedRequest", "nil"} \subseteq Answers
    BY DEF Answers
  <2> HIDE DEF Answers
  <2> QED
    BY <1>3, <2>2, <2>3, <2>4, Zenon
<1> QED
  BY <1>4, <1>5

LEMMA TakeExtensionsTyped ==
  ASSUME NEW hs0 \in Results, NEW list \in TokenLists(Extensions),
         NEW opts \in Options
  PROVE  /\ TakeExtensions(hs0, list, opts) \in Results
         /\ TakeExtensions(hs0, list, opts).err \in Answers \cup {hs0.err}
<1>1. CASE opts.negotiation = "none" \/ hs0.err # "nil"
  <2>1. TakeExtensions(hs0, list, opts) = hs0
    BY <1>1 DEF TakeExtensions
  <2> QED
    BY <2>1
<1>2. CASE ~(opts.negotiation = "none" \/ hs0.err # "nil")
  <2>1. PICK n : n = IF opts.negotiation = "Negotiate"
                     THEN NegotiateExtensions(list, hs0.exts, opts.answer)
                     ELSE SelectExtensions(list, hs0.exts, opts.answer)
    OBVIOUS
  <2>2. hs0.exts \in Seq(Extensions)
    BY DEF Results
  <2>3. n \in [exts : Seq(Extensions), err : Answers]
    BY <2>1, <2>2, NegotiationTyped
  <2>4. TakeExtensions(hs0, list, opts) = [hs0 EXCEPT !.exts = n.exts, !.err = n.err]
    BY <1>2, <2>1, Zenon DEF TakeExtensions
  <2>5. Answers \subseteq Errors
    BY DEF Answers, Errors, StatusOf
  <2> QED
    BY <2>3, <2>4, <2>5 DEF Results
<1> QED
  BY <1>1, <1>2, Zenon

(* What a handshake can come to when its request, first line r and headers h,
   is answered: nothing wrong only if no check has failed. *)
Verdicts(r, h) ==
  {x \in Results : /\ x.err \in DOMAIN StatusOf
                   /\ x.err = "nil" => HTTPCheck(r, h) = "nil"}

LEMMA TakenVerdict ==
  ASSUME NEW r, NEW h, NEW x \in Verdicts(r, h), NEW opts \in Options
  PROVE  /\ \A l \in TokenLists(Protocols) : TakeProtocol(x, l, opts) \in Verdicts(r, h)
         /\ \A l \in TokenLists(Extensions) : TakeExtensions(x, l, opts) \in Verdicts(r, h)
<1>1. x \in Results /\ x.err \in DOMAIN StatusOf
  BY DEF Verdicts
<1>2. CASE x.err # "nil"
  <2>1. \A l : TakeProtocol(x, l, opts) = x /\ TakeExtensions(x, l, opts) = x
    BY <1>2, Zenon DEF TakeProtocol, TakeExtensions
  <2> QED
    BY <2>1, Zenon
<1>3. CASE x.err = "nil"
  <2>1. HTTPCheck(r, h) = "nil"
    BY <1>3 DEF Verdicts
  <2>2. Answers \cup {x.err} \subseteq DOMAIN StatusOf
    BY <1>3 DEF Answers, StatusOf
  <2>3. \A y \in Results : y.err \in DOMAIN StatusOf => y \in Verdicts(r, h)
    BY <2>1, Zenon DEF Verdicts
  <2>4. ASSUME NEW l \in TokenLists(Protocols)
        PROVE  TakeProtocol(x, l, opts) \in Verdicts(r, h)
    <3>1. /\ TakeProtocol(x, l, opts) \in Results
          /\ TakeProtocol(x, l, opts).err \in Answers \cup {x.err}
      BY <1>1, TakeProtocolTyped
    <3> QED
      BY <2>2, <2>3, <3>1, Zenon
  <2>5. ASSUME NEW l \in TokenLists(Extensions)
        PROVE  TakeExtensions(x, l, opts) \in Verdicts(r, h)
    <3>1. /\ TakeExtensions(x, l, opts) \in Results
          /\ TakeExtensions(x, l, opts).err \in Answers \cup {x.err}
      BY <1>1, TakeExtensionsTyped
    <3> QED
      BY <2>2, <2>3, <3>1, Zenon
  <2> QED
    BY <2>4, <2>5, Zenon
<1> QED
  BY <1>2, <1>3

LEMMA CheckTyped ==
  ASSUME NEW r, NEW h
  PROVE  /\ HTTPCheck(r, h) \in DOMAIN StatusOf
         /\ HTTPCheck(r, h) = "nil" => Get(h, "SecKey") \in Nonces
<1> DEFINE c1 == r.method # "GET"
           c2 == r.version[1] < 1 \/ (r.version[1] = 1 /\ r.version[2] < 1)
           c3 == Get(h, "Host") = ""
           c4 == ~IsWebsocket(Get(h, "Upgrade"))
           c5 == ~HasUpgrade(Get(h, "Connection"))
           c6 == Get(h, "SecKey") \notin Nonces
           c7 == Get(h, "SecVersion") = ""
           c8 == Get(h, "SecVersion") # "13"
<1>1. HTTPCheck(r, h) = IF c1 THEN "BadMethod" ELSE IF c2 THEN "BadProtocol"
                        ELSE IF c3 THEN "BadHost" ELSE IF c4 THEN "BadUpgrade"
                        ELSE IF c5 THEN "BadConnection" ELSE IF c6 THEN "BadSecKey"
                        ELSE IF c7 THEN "BadSecVersion" ELSE IF c8 THEN "UpgradeRequired"
                        ELSE "nil"
  BY Zenon DEF HTTPCheck
<1> HIDE DEF c1, c2, c3, c4, c5, c7, c8
<1>2. \/ HTTPCheck(r, h) \in {"BadMethod", "BadProtocol", "BadHost", "BadUpgrade",
                              "BadConnection", "BadSecKey", "BadSecVersion",
                              "UpgradeRequired"}
      \/ HTTPCheck(r, h) = "nil" /\ ~c6
  BY <1>1
<1>3. DOMAIN StatusOf =
        {"nil", "BadProtocol", "BadMethod", "BadHost", "BadUpgrade", "BadConnection",
         "BadSecKey", "BadSecVersion", "UpgradeRequired", "MalformedRequest", "refused",
         "rejected", "failed"}
  BY DEF StatusOf
<1> QED
  BY <1>2, <1>3

(* f has what HTTPUpgrade selects, g what it negotiates, header by header. *)
Upgrading(f, g, r, h, opts) ==
  /\ \A i \in 0..Len(h["SecProtocol"]) : f[i] \in Verdicts(r, h)
  /\ f[0] = [protocol |-> NoProtocol, exts |-> <<>>, err |-> HTTPCheck(r, h)]
  /\ \A i \in 1..Len(h["SecProtocol"]) :
       f[i] = TakeProtocol(f[i - 1], h["SecProtocol"][i], opts)
  /\ \A i \in 0..Len(h["SecExtensions"]) : g[i] \in Verdicts(r, h)
  /\ g[0] = f[Len(h["SecProtocol"])]
  /\ \A i \in 1..Len(h["SecExtensions"]) :
       g[i] = TakeExtensions(g[i - 1], h["SecExtensions"][i], opts)
  /\ HTTPUpgrade(r, h, opts) = g[Len(h["SecExtensions"])]

LEMMA HTTPUpgradeRounds ==
  ASSUME NEW r, NEW h, NEW opts \in Options,
         h["SecProtocol"] \in Seq(TokenLists(Protocols)),
         h["SecExtensions"] \in Seq(TokenLists(Extensions))
  PROVE  \E f, g : Upgrading(f, g, r, h, opts)
<1> DEFINE ps == h["SecProtocol"]
           xs == h["SecExtensions"]
           V == Verdicts(r, h)
           a == [protocol |-> NoProtocol, exts |-> <<>>, err |-> HTTPCheck(r, h)]
           f == CHOOSE f : f = [i \in 0..Len(ps) |->
                  IF i = 0 THEN a ELSE TakeProtocol(f[i - 1], ps[i], opts)]
           g == CHOOSE g : g = [i \in 0..Len(xs) |->
                  IF i = 0 THEN f[Len(ps)] ELSE TakeExtensions(g[i - 1], xs[i], opts)]
<1>1. HTTPUpgrade(r, h, opts) = g[Len(xs)]
  BY DEF HTTPUpgrade
<1>2. a \in V
  <2>1. HTTPCheck(r, h) \in DOMAIN StatusOf
    BY CheckTyped
  <2>2. HTTPCheck(r, h) \in Errors
    BY <2>1 DEF Errors
  <2>3. <<>> \in Seq(Extensions)
    OBVIOUS
  <2>4. a \in Results
    BY <2>2, <2>3 DEF Results
  <2> QED
    BY <2>1, <2>4 DEF Verdicts
<1>3. /\ \A i \in 0..Len(ps) : f[i] \in V
      /\ f[0] = a
      /\ \A i \in 1..Len(ps) : f[i] = TakeProtocol(f[i - 1], ps[i], opts)
  <2>1. PICK k \in Nat : k = Len(ps)
    OBVIOUS
  <2> DEFINE F == [i \in 1..k |-> [x \in V |-> TakeProtocol(x, ps[i], opts)]]
  <2>2. ASSUME NEW i \in 1..k, NEW x \in V PROVE TakeProtocol(x, ps[i], opts) \in V
    <3>1. ps[i] \in TokenLists(Protocols)
      BY <2>1
    <3> QED
      BY <3>1, TakenVerdict
  <2>3. F \in [1..k -> [V -> V]]
    BY <2>2
  <2>4. PICK u \in [0..k -> V] : Rounds(u, k, a, F)
    <3> HIDE DEF F, V, a
    <3> QED
      BY <1>2, <2>3, Loop
  <2>5. u = [i \in 0..k |-> IF i = 0 THEN a ELSE TakeProtocol(u[i - 1], ps[i], opts)]
    <3>1. ASSUME NEW i \in 0..k, i # 0
          PROVE  F[i][u[i - 1]] = TakeProtocol(u[i - 1], ps[i], opts)
      <4>1. i \in 1..k /\ i - 1 \in 0..k
        BY <3>1
      <4>2. u[i - 1] \in V
        BY <4>1
      <4> QED
        BY <4>1, <4>2
    <3> HIDE DEF F, V, a
    <3> QED
      BY <2>4, <3>1 DEF Rounds
  <2>6. f = [i \in 0..k |-> IF i = 0 THEN a ELSE TakeProtocol(f[i - 1], ps[i], opts)]
    <3> HIDE DEF a
    <3> QED
      BY <2>1, <2>5, Zenon
  <2> HIDE DEF f, F, V, a
  <2>7. f[0] = a
    BY <2>1, <2>6
  <2>8. ASSUME NEW i \in 1..k PROVE f[i] = TakeProtocol(f[i - 1], ps[i], opts)
    <3>1. i \in 0..k /\ i # 0
      BY <2>1
    <3> QED
      BY <2>6, <3>1, Zenon
  <2>9. \A i \in 1..k : f[i - 1] \in V => f[i] \in V
    BY <2>2, <2>8
  <2>10. \A i \in 0..k : f[i] \in V
    BY <1>2, <2>1, <2>7, <2>9, Climb
  <2> QED
    BY <2>1, <2>7, <2>8, <2>10
<1> HIDE DEF f
<1>4. /\ \A i \in 0..Len(xs) : g[i] \in V
      /\ g[0] = f[Len(ps)]
      /\ \A i \in 1..Len(xs) : g[i] = TakeExtensions(g[i - 1], xs[i], opts)
  <2>1. PICK k \in Nat : k = Len(xs)
    OBVIOUS
  <2>2. PICK b \in V : b = f[Len(ps)]
    <3>1. Len(ps) \in 0..Len(ps)
      OBVIOUS
    <3> QED
      BY <1>3, <3>1
  <2> DEFINE F == [i \in 1..k |-> [x \in V |-> TakeExtensions(x, xs[i], opts)]]
  <2>3. ASSUME NEW i \in 1..k, NEW x \in V PROVE TakeExtensions(x, xs[i], opts) \in V
    <3>1. xs[i] \in TokenLists(Extensions)
      BY <2>1
    <3> QED
      BY <3>1, TakenVerdict
  <2>4. F \in [1..k -> [V -> V]]
    BY <2>3
  <2>5. PICK u \in [0..k -> V] : Rounds(u, k, b, F)
    <3> HIDE DEF F, V
    <3> QED
      BY <2>4, Loop
  <2>6. u = [i \in 0..k |-> IF i = 0 THEN b ELSE TakeExtensions(u[i - 1], xs[i], opts)]
    <3>1. ASSUME NEW i \in 0..k, i # 0
          PROVE  F[i][u[i - 1]] = TakeExtensions(u[i - 1], xs[i], opts)
      <4>1. i \in 1..k /\ i - 1 \in 0..k
        BY <3>1
      <4>2. u[i - 1] \in V
        BY <4>1
      <4> QED
        BY <4>1, <4>2
    <3> HIDE DEF F, V
    <3> QED
      BY <2>5, <3>1 DEF Rounds
  <2>7. g = [i \in 0..k |-> IF i = 0 THEN b ELSE TakeExtensions(g[i - 1], xs[i], opts)]
    BY <2>1, <2>2, <2>6, Zenon
  <2> HIDE DEF g, F, V
  <2>8. g[0] = b
    BY <2>1, <2>7
  <2>9. ASSUME NEW i \in 1..k PROVE g[i] = TakeExtensions(g[i - 1], xs[i], opts)
    <3>1. i \in 0..k /\ i # 0
      BY <2>1
    <3> QED
      BY <2>7, <3>1, Zenon
  <2>10. \A i \in 1..k : g[i - 1] \in V => g[i] \in V
    BY <2>3, <2>9
  <2>11. \A i \in 0..k : g[i] \in V
    BY <2>1, <2>8, <2>10, Climb
  <2> QED
    BY <2>1, <2>2, <2>8, <2>9, <2>11
<1>5. Upgrading(f, g, r, h, opts)
  <2> HIDE DEF g, V
  <2> QED
    BY <1>1, <1>3, <1>4 DEF Upgrading, V
<1> QED
  BY <1>5

LEMMA HTTPUpgradeTyped ==
  ASSUME NEW r, NEW h, NEW opts \in Options,
         h["SecProtocol"] \in Seq(TokenLists(Protocols)),
         h["SecExtensions"] \in Seq(TokenLists(Extensions))
  PROVE  HTTPUpgrade(r, h, opts) \in Verdicts(r, h)
<1>1. PICK f, g : Upgrading(f, g, r, h, opts)
  BY HTTPUpgradeRounds
<1>2. Len(h["SecExtensions"]) \in 0..Len(h["SecExtensions"])
  OBVIOUS
<1> QED
  BY <1>1, <1>2 DEF Upgrading

-----------------------------------------------------------------------------
(* The inductive invariant of the types: what each line may hold. *)

Plain ==
  {"", "host", "websocket", "h2c", "Upgrade", "list", "close", "13", "8", "short"}
    \cup Nonces \cup Protocols \cup {NoProtocol}
RequestValues(k) ==
  IF k = "SecProtocol" THEN TokenLists(Protocols)
  ELSE IF k = "SecExtensions" THEN TokenLists(Extensions)
  ELSE IF k = "request" THEN RequestLines \cup {Garbled}
  ELSE Plain
Codes == {StatusOf[e] : e \in DOMAIN StatusOf}
ResponseValues(k) ==
  IF k = "SecExtensions" THEN TokenLists(Extensions)
  ELSE IF k = "status" THEN {Garbled} \cup [version : Versions, code : Codes]
  ELSE Plain
Requests ==
  [key : {"SecProtocol"}, val : RequestValues("SecProtocol")]
    \cup [key : {"SecExtensions"}, val : RequestValues("SecExtensions")]
    \cup [key : {"request"}, val : RequestValues("request")]
    \cup [key : (Keys \ {"SecProtocol", "SecExtensions"}) \cup {"blank", "EOF"}, val : Plain]
Responses ==
  [key : {"SecExtensions"}, val : ResponseValues("SecExtensions")]
    \cup [key : {"status"}, val : ResponseValues("status")]
    \cup [key : (Keys \ {"SecExtensions"}) \cup {"blank", "EOF", "frame", "body"},
          val : Plain]

DialerResults ==
  [protocol : Protocols \cup {NoProtocol}, exts : Seq(Extensions), err : Errors,
   status : {0} \cup Codes]

SettingTyped ==
  /\ cli \in [protocols : Seq(Protocols), exts : Seq(Extensions), extra : Extra]
  /\ srv \in Options
WiresTyped ==
  /\ toServer \in Seq(Requests) /\ toClient \in Seq(Responses) /\ br \in Seq(Responses)
  /\ broken \in BOOLEAN
ServerTyped ==
  /\ sat \in {"line", "headers", "write", "returned", "over"}
  /\ DOMAIN hdr = Keys /\ \A k \in Keys : hdr[k] \in Seq(RequestValues(k))
  /\ seen \subseteq RequestKeys
  /\ hs \in Results
  /\ sat = "line" => seen = {}
  /\ sat \in {"line", "headers"} => hs.err = "nil"
  /\ sat \in {"line", "headers", "write"} => hs.err \in DOMAIN StatusOf
  /\ sat = "headers" /\ ends.server = "Upgrader" /\ "SecKey" \in seen => nonce \in Nonces
  /\ sat \in {"write", "returned"} /\ hs.err = "nil" => nonce \in Nonces
ClientTyped ==
  /\ cat \in {"write", "line", "headers", "returned"}
  /\ DOMAIN chdr = Keys /\ \A k \in Keys : chdr[k] \in Seq(ResponseValues(k))
  /\ cseen \subseteq ResponseKeys
  /\ chs \in DialerResults
  /\ cat # "returned" => chs.err = "nil"
Types == SettingTyped /\ WiresTyped /\ ServerTyped /\ ClientTyped

(* What FramesKept needs while the Dialer has no error yet. *)
Holds(wire) == \E i \in 1..Len(wire) : wire[i] = Frame
FrameWaits ==
  sat = "over" /\ hs.err = "nil" /\ chs.err = "nil" => Holds(br) \/ Holds(toClient)

(* What the Dialer has found out about the response that it has read. *)
KeyGood(k, vs) ==
  /\ k = "malformed" => vs = <<>>
  /\ k = "Upgrade" => \A i \in DOMAIN vs : vs[i] = "websocket"
  /\ k = "Connection" => \A i \in DOMAIN vs : vs[i] = "Upgrade"
  /\ k = "SecAccept" => \A i \in DOMAIN vs : vs[i] = CNonce
  /\ k = "SecProtocol" /\ vs # <<>> => Head(vs) \in ToSet(cli.protocols)
  /\ k = "SecExtensions" =>
       \A i \in DOMAIN vs : ToSet(vs[i].toks) \subseteq ToSet(cli.exts) /\ ~vs[i].bad
ResponseSoFar(r, h) ==
  StatusError(r) = "nil" /\ \A k \in Keys : KeyGood(k, h[k])
(* The responses that are accepted, as they are: of several protocols the
   first alone has to be one that was asked for. *)
Accepts(r, h) ==
  /\ ValidButProtocol(r, h)
  /\ h["SecProtocol"] # <<>> => Head(h["SecProtocol"]) \in ToSet(cli.protocols)
Verdict ==
  cat = "returned" /\ chs.err \notin {"io", "failed"} /\ ~(cline = Garbled) =>
    (chs.err = "nil" <=> Accepts(cline, chdr))
Judged ==
  /\ cline \in ResponseValues("status")
  /\ cat \in {"write", "line"} => cline = Garbled /\ chdr = NoHeaders
                                  /\ chs.protocol = NoProtocol /\ cseen = {}
  /\ cat = "headers" =>
       /\ ResponseSoFar(cline, chdr)
       /\ cseen = {k \in ResponseKeys : chdr[k] # <<>>}
       /\ chs.protocol = NoProtocol <=> chdr["SecProtocol"] = <<>>
  /\ Verdict

RequestNames == Keys \cup {"request", "blank", "EOF"}
ResponseNames == Keys \cup {"status", "blank", "EOF", "frame", "body"}

LEMMA KeyNames ==
  Keys = {"Host", "Upgrade", "Connection", "SecVersion", "SecKey", "SecAccept",
          "SecProtocol", "SecExtensions", "other", "malformed"}
  BY DEF Keys, RequestKeys, ResponseKeys

(* A line is in order if its value is one of its key's. *)
LEMMA RequestInOrder ==
  ASSUME NEW k \in RequestNames, NEW v \in RequestValues(k)
  PROVE  Line(k, v) \in Requests
<1>1. CASE k \in {"SecProtocol", "SecExtensions", "request"}
  BY <1>1 DEF Requests, Line
<1>2. CASE k \notin {"SecProtocol", "SecExtensions", "request"}
  BY <1>2 DEF Requests, Line, RequestNames, RequestValues
<1> QED
  BY <1>1, <1>2

LEMMA RequestParts ==
  ASSUME NEW l \in Requests
  PROVE  l = Line(l.key, l.val) /\ l.key \in RequestNames /\ l.val \in RequestValues(l.key)
<1>1. CASE l \in [key : {"SecProtocol"}, val : RequestValues("SecProtocol")]
  BY <1>1, KeyNames DEF Line, RequestNames
<1>2. CASE l \in [key : {"SecExtensions"}, val : RequestValues("SecExtensions")]
  BY <1>2, KeyNames DEF Line, RequestNames
<1>3. CASE l \in [key : {"request"}, val : RequestValues("request")]
  BY <1>3 DEF Line, RequestNames
<1>4. CASE l \in [key : (Keys \ {"SecProtocol", "SecExtensions"}) \cup {"blank", "EOF"},
                  val : Plain]
  BY <1>4, KeyNames DEF Line, RequestNames, RequestValues
<1> QED
  BY <1>1, <1>2, <1>3, <1>4 DEF Requests

LEMMA ResponseInOrder ==
  ASSUME NEW k \in ResponseNames, NEW v \in ResponseValues(k)
  PROVE  Line(k, v) \in Responses
<1>1. CASE k \in {"SecExtensions", "status"}
  BY <1>1 DEF Responses, Line
<1>2. CASE k \notin {"SecExtensions", "status"}
  BY <1>2 DEF Responses, Line, ResponseNames, ResponseValues
<1> QED
  BY <1>1, <1>2

LEMMA ResponseParts ==
  ASSUME NEW l \in Responses
  PROVE  l = Line(l.key, l.val) /\ l.key \in ResponseNames /\ l.val \in ResponseValues(l.key)
<1>1. CASE l \in [key : {"SecExtensions"}, val : ResponseValues("SecExtensions")]
  BY <1>1, KeyNames DEF Line, ResponseNames
<1>2. CASE l \in [key : {"status"}, val : ResponseValues("status")]
  BY <1>2 DEF Line, ResponseNames
<1>3. CASE l \in [key : (Keys \ {"SecExtensions"}) \cup {"blank", "EOF", "frame", "body"},
                  val : Plain]
  BY <1>3, KeyNames DEF Line, ResponseNames, ResponseValues
<1> QED
  BY <1>1, <1>2, <1>3 DEF Responses

LEMMA JoinTyped ==
  ASSUME NEW S, NEW x \in Seq(S), NEW y \in Seq(S)
  PROVE  x \o y \in Seq(S)
  OBVIOUS

LEMMA OneTyped ==
  ASSUME NEW S, NEW x \in S
  PROVE  <<x>> \in Seq(S)
  OBVIOUS

(* The lists that the peers send and that the ends of this library write. *)
LEMMA ListsTyped ==
  ASSUME NEW S
  PROVE  /\ \A t \in Seq(S) : List(t) \in TokenLists(S)
         /\ Tokens(S) \subseteq Seq(S)
         /\ Lists(S) \subseteq TokenLists(S)
<1>1. \A t \in Seq(S) : List(t) \in TokenLists(S)
  BY DEF List, TokenLists
<1>2. ASSUME NEW t \in Tokens(S) PROVE t \in Seq(S)
  <2>1. CASE t = <<>>
    BY <2>1
  <2>2. CASE t \in {<<x>> : x \in S}
    BY <2>2, OneTyped, Zenon
  <2>3. CASE t \in {p \in S \X S : p[1] # p[2]}
    <3>1. PICK x \in S, y \in S : t = <<x, y>>
      BY <2>3
    <3> QED
      BY <3>1
  <2> QED
    BY <1>2, <2>1, <2>2, <2>3 DEF Tokens
<1>3. ASSUME NEW l \in Lists(S) PROVE l \in TokenLists(S)
  <2>1. CASE l \in {List(t) : t \in Tokens(S) \ {<<>>}}
    BY <1>1, <1>2, <2>1
  <2>2. CASE l \in {[toks |-> t, bad |-> TRUE] : t \in {<<>>} \cup {<<x>> : x \in S}}
    <3>1. PICK t \in {<<>>} \cup {<<x>> : x \in S} : l = [toks |-> t, bad |-> TRUE]
      BY <2>2
    <3>2. t \in Seq(S)
      <4>1. <<>> \in Seq(S)
        OBVIOUS
      <4> QED
        BY <4>1, OneTyped, Zenon
    <3> QED
      BY <3>1, <3>2 DEF TokenLists
  <2> QED
    BY <1>3, <2>1, <2>2 DEF Lists
<1> QED
  BY <1>1, <1>2, <1>3

LEMMA NonceTyped == CNonce \in Nonces
  BY HttpConstants, Zenon DEF CNonce, HttpConstants

LEMMA ExtraTyped ==
  ASSUME NEW x \in Extra
  PROVE  x \in Seq(Requests) /\ x \in Seq(Responses)
<1>1. "other" \in RequestNames /\ "other" \in ResponseNames
  BY KeyNames DEF RequestNames, ResponseNames
<1>2. "" \in RequestValues("other") /\ "" \in ResponseValues("other")
  BY DEF RequestValues, ResponseValues, Plain
<1>3. Line("other", "") \in Requests /\ Line("other", "") \in Responses
  BY <1>1, <1>2, RequestInOrder, ResponseInOrder, Zenon
<1>4. <<>> \in Seq(Requests) /\ <<>> \in Seq(Responses)
  OBVIOUS
<1> QED
  BY <1>3, <1>4, OneTyped, Zenon DEF Extra

LEMMA RequestTyped ==
  ASSUME NEW n \in Nonces, NEW ps \in Seq(Protocols), NEW xs \in Seq(Extensions),
         NEW extra \in Extra
  PROVE  Request(n, ps, xs, extra) \in Seq(Requests)
<1> DEFINE first == <<Line("request", [method |-> "GET", version |-> <<1, 1>>]),
                      Line("Host", "host"), Line("Upgrade", "websocket"),
                      Line("Connection", "Upgrade"), Line("SecVersion", "13"),
                      Line("SecKey", n)>>
           protocols == IF ps # <<>> THEN <<Line("SecProtocol", List(ps))>> ELSE <<>>
           exts == IF xs # <<>> THEN <<Line("SecExtensions", List(xs))>> ELSE <<>>
           blank == <<Line("blank", "")>>
<1>1. /\ {"Host", "Upgrade", "Connection", "SecVersion", "SecKey", "request",
          "SecProtocol", "SecExtensions", "blank"} \subseteq RequestNames
      /\ {"host", "websocket", "Upgrade", "13", "", n} \subseteq Plain
      /\ \A k \in {"Host", "Upgrade", "Connection", "SecVersion", "SecKey", "blank"} :
           RequestValues(k) = Plain
  BY KeyNames DEF RequestNames, Plain, RequestValues
<1>2. first \in Seq(Requests)
  <2>1. [method |-> "GET", version |-> <<1, 1>>] \in RequestValues("request")
    BY DEF RequestValues, RequestLines, Versions
  <2>2. Line("request", [method |-> "GET", version |-> <<1, 1>>]) \in Requests
    BY <1>1, <2>1, RequestInOrder, Zenon
  <2>3. Line("Host", "host") \in Requests /\ Line("Upgrade", "websocket") \in Requests
    BY <1>1, RequestInOrder
  <2>4. Line("Connection", "Upgrade") \in Requests /\ Line("SecVersion", "13") \in Requests
    BY <1>1, RequestInOrder
  <2>5. Line("SecKey", n) \in Requests
    BY <1>1, RequestInOrder
  <2> HIDE DEF Requests
  <2> QED
    BY <2>2, <2>3, <2>4, <2>5
<1>3. protocols \in Seq(Requests)
  <2>1. List(ps) \in RequestValues("SecProtocol")
    BY ListsTyped DEF RequestValues
  <2>2. Line("SecProtocol", List(ps)) \in Requests
    BY <1>1, <2>1, RequestInOrder, Zenon
  <2> QED
    BY <2>2
<1>4. exts \in Seq(Requests)
  <2>1. List(xs) \in RequestValues("SecExtensions")
    BY ListsTyped DEF RequestValues
  <2>2. Line("SecExtensions", List(xs)) \in Requests
    BY <1>1, <2>1, RequestInOrder, Zenon
  <2> QED
    BY <2>2
<1>5. blank \in Seq(Requests)
  <2>1. Line("blank", "") \in Requests
    BY <1>1, RequestInOrder
  <2> QED
    BY <2>1, OneTyped, Zenon
<1>6. extra \in Seq(Requests)
  BY ExtraTyped
<1>7. Request(n, ps, xs, extra) = first \o protocols \o exts \o extra \o blank
  BY Zenon DEF Request
<1> HIDE DEF first, protocols, exts, blank
<1> QED
  BY <1>2, <1>3, <1>4, <1>5, <1>6, <1>7, JoinTyped

LEMMA ResponseUpgradeTyped ==
  ASSUME NEW n \in Nonces, NEW p \in Protocols \cup {NoProtocol}, NEW xs \in Seq(Extensions),
         NEW extra \in Extra
  PROVE  ResponseUpgrade(n, p, xs, extra) \in Seq(Responses)
<1> DEFINE first == <<Line("status", [version |-> <<1, 1>>, code |-> 101]),
                      Line("Upgrade", "websocket"), Line("Connection", "Upgrade"),
                      Line("SecAccept", n)>>
           protocol == IF p # NoProtocol THEN <<Line("SecProtocol", p)>> ELSE <<>>
           exts == IF xs # <<>> THEN <<Line("SecExtensions", List(xs))>> ELSE <<>>
           blank == <<Line("blank", "")>>
<1>1. /\ {"Upgrade", "Connection", "SecAccept", "status",
          "SecProtocol", "SecExtensions", "blank"} \subseteq ResponseNames
      /\ {"websocket", "Upgrade", "", n, p} \subseteq Plain
      /\ \A k \in {"Upgrade", "Connection", "SecAccept", "SecProtocol", "blank"} :
           ResponseValues(k) = Plain
  BY KeyNames DEF ResponseNames, Plain, ResponseValues
<1>2. first \in Seq(Responses)
  <2>1. [version |-> <<1, 1>>, code |-> 101] \in ResponseValues("status")
    <3>1. 101 \in Codes
      BY DEF Codes, StatusOf
    <3> QED
      BY <3>1 DEF ResponseValues, Versions
  <2>2. Line("status", [version |-> <<1, 1>>, code |-> 101]) \in Responses
    <3>1. PICK r : r = [version |-> <<1, 1>>, code |-> 101]
      OBVIOUS
    <3>2. "status" \in ResponseNames /\ r \in ResponseValues("status")
      BY <1>1, <2>1, <3>1
    <3>3. Line("status", r) \in Responses
      BY <3>2, ResponseInOrder, Zenon
    <3> QED
      BY <3>1, <3>3
  <2>3. Line("Upgrade", "websocket") \in Responses /\ Line("Connection", "Upgrade") \in Responses
    BY <1>1, ResponseInOrder
  <2>4. Line("SecAccept", n) \in Responses
    BY <1>1, ResponseInOrder
  <2> QED
    BY <2>2, <2>3, <2>4
<1>3. protocol \in Seq(Responses)
  <2>1. Line("SecProtocol", p) \in Responses
    BY <1>1, ResponseInOrder
  <2> QED
    BY <2>1
<1>4. exts \in Seq(Responses)
  <2>1. List(xs) \in ResponseValues("SecExtensions")
    BY ListsTyped DEF ResponseValues
  <2>2. Line("SecExtensions", List(xs)) \in Responses
    BY <1>1, <2>1, ResponseInOrder, Zenon
  <2> QED
    BY <2>2
<1>5. blank \in Seq(Responses)
  <2>1. Line("blank", "") \in Responses
    BY <1>1, ResponseInOrder
  <2> QED
    BY <2>1, OneTyped, Zenon
<1>6. extra \in Seq(Responses)
  BY ExtraTyped
<1>7. ResponseUpgrade(n, p, xs, extra) = first \o protocol \o exts \o extra \o blank
  BY Zenon DEF ResponseUpgrade
<1> HIDE DEF first, protocol, exts, blank
<1> QED
  BY <1>2, <1>3, <1>4, <1>5, <1>6, <1>7, JoinTyped

LEMMA ResponseErrorTyped ==
  ASSUME NEW e \in DOMAIN StatusOf, NEW extra \in Extra
  PROVE  ResponseError(e, extra) \in Seq(Responses)
<1> DEFINE first == <<Line("status", [version |-> <<1, 1>>, code |-> StatusOf[e]]),
                      Line("other", "")>>
           version == IF e = "UpgradeRequired" THEN <<Line("SecVersion", "13")>> ELSE <<>>
           last == <<Line("other", ""), Line("blank", ""), Line("body", "")>>
<1>1. /\ {"other", "blank", "body", "SecVersion", "status"} \subseteq ResponseNames
      /\ {"13", ""} \subseteq Plain
      /\ \A k \in {"other", "blank", "body", "SecVersion"} : ResponseValues(k) = Plain
  BY KeyNames DEF ResponseNames, Plain, ResponseValues
<1>2. last \in Seq(Responses)
  <2>1. Line("other", "") \in Responses /\ Line("blank", "") \in Responses
    BY <1>1, ResponseInOrder
  <2>2. Line("body", "") \in Responses
    BY <1>1, ResponseInOrder
  <2>3. \A x, y, z \in Responses : <<x, y, z>> \in Seq(Responses)
    OBVIOUS
  <2> QED
    BY <2>1, <2>2, <2>3, Zenon
<1>3. first \in Seq(Responses)
  <2>1. [version |-> <<1, 1>>, code |-> StatusOf[e]] \in ResponseValues("status")
    <3>1. StatusOf[e] \in Codes
      BY Zenon DEF Codes
    <3> QED
      BY <3>1 DEF ResponseValues, Versions
  <2>2. Line("status", [version |-> <<1, 1>>, code |-> StatusOf[e]]) \in Responses
    BY <1>1, <2>1, ResponseInOrder, Zenon
  <2>3. Line("other", "") \in Responses
    BY <1>1, ResponseInOrder
  <2>4. \A x, y \in Responses : <<x, y>> \in Seq(Responses)
    OBVIOUS
  <2> QED
    BY <2>2, <2>3, <2>4, Zenon
<1>4. version \in Seq(Responses)
  <2>1. Line("SecVersion", "13") \in Responses
    BY <1>1, ResponseInOrder
  <2> QED
    BY <2>1
<1>5. extra \in Seq(Responses)
  BY ExtraTyped
<1>6. ResponseError(e, extra) = first \o extra \o version \o last
  BY Zenon DEF ResponseError
<1> HIDE DEF first, version, last
<1> QED
  BY <1>2, <1>3, <1>4, <1>5, <1>6, JoinTyped

(* What a flush leaves on a wire. *)
LEMMA FlushTyped ==
  ASSUME NEW S, NEW wire \in Seq(S), NEW lines \in Seq(S), EOF \in S,
         NEW wire2, NEW ok \in BOOLEAN, Flush(wire, lines, wire2, ok)
  PROVE  wire2 \in Seq(S)
<1>1. CASE ok
  <2>1. wire2 = wire \o lines
    BY <1>1, Zenon DEF Flush
  <2> QED
    BY <2>1, JoinTyped, Zenon
<1>2. CASE ~ok
  <2>1. PICK n \in {0, Len(lines) - 1} : wire2 = wire \o SubSeq(lines, 1, n) \o <<EOF>>
    BY <1>2 DEF Flush
  <2>2. SubSeq(lines, 1, n) \in Seq(S)
    <3>1. n <= Len(lines)
      OBVIOUS
    <3>2. \A i \in 1..n : lines[i] \in S
      BY <3>1
    <3> QED
      BY <3>1, <3>2
  <2>3. <<EOF>> \in Seq(S)
    OBVIOUS
  <2> QED
    BY <2>1, <2>2, <2>3, JoinTyped
<1> QED
  BY <1>1, <1>2

LEMMA ValuesTyped ==
  ASSUME NEW k \in Keys \ {"SecProtocol"}, NEW v \in Values(k)
  PROVE  v \in RequestValues(k) /\ v \in ResponseValues(k)
<1>1. CASE k = "SecExtensions"
  <2>1. Values(k) = Lists(Extensions)
    BY <1>1 DEF Values
  <2>2. v \in TokenLists(Extensions)
    BY <2>1, ListsTyped
  <2> QED
    BY <1>1, <2>2 DEF RequestValues, ResponseValues
<1>2. CASE k # "SecExtensions"
  <2>1. RequestValues(k) = Plain /\ ResponseValues(k) = Plain
    BY <1>2, KeyNames DEF RequestValues, ResponseValues
  <2>2. Values(k) \subseteq Plain
    BY <1>2, KeyNames DEF Values, Plain
  <2> QED
    BY <2>1, <2>2
<1> QED
  BY <1>1, <1>2

LEMMA AnyLineTyped ==
  ASSUME NEW h, NEW keys \in SUBSET Keys
  PROVE  /\ AnyLine(h, keys, Lists(Protocols)) \subseteq Requests
         /\ AnyLine(h, keys, Protocols) \subseteq Responses
<1>1. Blank \in Requests /\ EOF \in Requests /\ Blank \in Responses /\ EOF \in Responses
  <2>1. {"blank", "EOF"} \subseteq RequestNames \cap ResponseNames
    BY DEF RequestNames, ResponseNames
  <2>2. \A k \in {"blank", "EOF"} : "" \in RequestValues(k) /\ "" \in ResponseValues(k)
    BY DEF RequestValues, ResponseValues, Plain
  <2> QED
    BY <2>1, <2>2, RequestInOrder, ResponseInOrder DEF Blank, EOF
<1> DEFINE U == UNION {{Line(k, v) : v \in Values(k)} : k \in
                         {x \in keys \ {"SecProtocol"} : MaySend(h, x)}}
<1>2. ASSUME NEW l \in U
      PROVE  l \in Requests /\ l \in Responses
  <2>1. PICK k \in keys \ {"SecProtocol"} : l \in {Line(k, v) : v \in Values(k)}
    OBVIOUS
  <2>2. PICK v \in Values(k) : l = Line(k, v)
    BY <2>1
  <2>3. v \in RequestValues(k) /\ v \in ResponseValues(k)
    BY ValuesTyped
  <2>4. k \in RequestNames /\ k \in ResponseNames
    BY DEF RequestNames, ResponseNames
  <2> QED
    BY <2>2, <2>3, <2>4, RequestInOrder, ResponseInOrder
<1>3. ASSUME NEW v \in Lists(Protocols) PROVE Line("SecProtocol", v) \in Requests
  <2>1. v \in RequestValues("SecProtocol") /\ "SecProtocol" \in RequestNames
    BY ListsTyped, KeyNames DEF RequestValues, RequestNames
  <2> QED
    BY <2>1, RequestInOrder
<1>4. ASSUME NEW v \in Protocols PROVE Line("SecProtocol", v) \in Responses
  <2>1. v \in ResponseValues("SecProtocol") /\ "SecProtocol" \in ResponseNames
    BY KeyNames DEF ResponseValues, Plain, ResponseNames
  <2> QED
    BY <2>1, ResponseInOrder
<1>5. ASSUME NEW PV, NEW l \in AnyLine(h, keys, PV)
      PROVE  l \in U \/ l \in {Blank, EOF} \/ \E v \in PV : l = Line("SecProtocol", v)
  <2> DEFINE W == {Line("SecProtocol", v) :
                     v \in IF MaySend(h, "SecProtocol") THEN PV ELSE {}}
  <2>1. AnyLine(h, keys, PV) = U \cup W \cup {Blank, EOF}
    BY Zenon DEF AnyLine
  <2>2. \A w \in W : \E v \in PV : w = Line("SecProtocol", v)
    OBVIOUS
  <2> HIDE DEF U, W
  <2> QED
    BY <2>1, <2>2
<1> HIDE DEF U
<1> QED
  BY <1>1, <1>2, <1>3, <1>4, <1>5

(* What a header makes of the handshake on the server. *)
LEMMA JudgeTyped ==
  ASSUME srv \in Options, hs \in Results, hs.err = "nil",
         NEW k \in Keys, NEW v \in RequestValues(k)
  PROVE  /\ Judge(k, v) \in Results
         /\ Judge(k, v).err \in DOMAIN StatusOf
         /\ k = "SecKey" /\ Judge(k, v).err = "nil" => v \in Nonces
<1>1. Answers \cup {hs.err} \subseteq DOMAIN StatusOf
  BY DEF Answers, StatusOf
<1>2. CASE k = "SecProtocol"
  <2>1. v \in TokenLists(Protocols) /\ Judge(k, v) = TakeProtocol(hs, v, srv)
    BY <1>2 DEF RequestValues, Judge
  <2> QED
    BY <1>1, <1>2, <2>1, TakeProtocolTyped
<1>3. CASE k = "SecExtensions"
  <2>1. v \in TokenLists(Extensions) /\ Judge(k, v) = TakeExtensions(hs, v, srv)
    BY <1>3 DEF RequestValues, Judge
  <2> QED
    BY <1>1, <1>3, <2>1, TakeExtensionsTyped
<1>4. CASE k \notin {"SecProtocol", "SecExtensions"}
  <2>1. PICK e \in {"MalformedRequest", "nil", "BadUpgrade", "BadConnection",
                    "UpgradeRequired", "BadSecKey"} :
          /\ Judge(k, v) = [hs EXCEPT !.err = e]
          /\ k = "SecKey" /\ e = "nil" => v \in Nonces
    <3>1. CASE k = "malformed"
      BY <1>4, <3>1 DEF Judge
    <3>2. CASE k # "malformed"
      <4>1. Judge(k, v) = [hs EXCEPT !.err = HeaderError(k, v)]
        BY <1>4, <3>2, Zenon DEF Judge
      <4>2. HeaderError(k, v) \in {"nil", "BadUpgrade", "BadConnection",
                                   "UpgradeRequired", "BadSecKey"}
        BY DEF HeaderError
      <4>3. k = "SecKey" /\ HeaderError(k, v) = "nil" => v \in Nonces
        BY DEF HeaderError
      <4> QED
        BY <4>1, <4>2, <4>3, Zenon
    <3> QED
      BY <3>1, <3>2
  <2>2. e \in DOMAIN StatusOf /\ e \in Errors
    BY DEF Errors, StatusOf
  <2> QED
    BY <2>1, <2>2 DEF Results
<1> QED
  BY <1>2, <1>3, <1>4

LEMMA MatchedTyped ==
  ASSUME NEW S, NEW toks \in Seq(S), NEW asked
  PROVE  MatchedBefore(toks, asked) \in Seq(S)
<1>1. PICK T : T = {i \in DOMAIN toks : toks[i] \notin asked} \cup {Len(toks)}
  OBVIOUS
<1>2. T \in SUBSET Nat /\ T # {} /\ Len(toks) \in T
  BY <1>1
<1>3. PICK m \in Nat : m = Min(T) /\ m <= Len(toks)
  BY <1>2, Smallest
<1>4. SubSeq(toks, 1, m - 1) \in Seq(S)
  BY <1>3
<1> QED
  BY <1>1, <1>3, <1>4, Zenon DEF MatchedBefore

LEMMA MatchSelectedTyped ==
  ASSUME NEW list \in TokenLists(Extensions), NEW wanted, NEW received \in Seq(Extensions)
  PROVE  MatchSelected(list, wanted, received)
           \in [exts : Seq(Extensions), err : {"nil", "BadExtensions", "MalformedResponse"}]
<1>1. list.toks \in Seq(Extensions)
  BY DEF TokenLists
<1> DEFINE n == Len(list.toks)
           asked(i) == list.toks[i] \in ToSet(wanted)
           matched == received \o MatchedBefore(list.toks, ToSet(wanted))
<1>2. received \o list.toks \in Seq(Extensions) /\ matched \in Seq(Extensions)
  <2>1. MatchedBefore(list.toks, ToSet(wanted)) \in Seq(Extensions)
    BY <1>1, MatchedTyped
  <2> QED
    BY <1>1, <2>1
<1>3. MatchSelected(list, wanted, received) =
        IF \E i \in 1..(n - 1) : ~asked(i) THEN [exts |-> matched, err |-> "BadExtensions"]
        ELSE IF list.bad THEN [exts |-> matched, err |-> "MalformedResponse"]
        ELSE IF n > 0 /\ ~asked(n) THEN [exts |-> matched, err |-> "BadExtensions"]
        ELSE [exts |-> received \o list.toks, err |-> "nil"]
  BY Zenon DEF MatchSelected
<1> HIDE DEF n, asked, matched
<1>4. MatchSelected(list, wanted, received)
        \in {[exts |-> matched, err |-> "BadExtensions"],
             [exts |-> matched, err |-> "MalformedResponse"],
             [exts |-> received \o list.toks, err |-> "nil"]}
  <2>1. CASE \E i \in 1..(n - 1) : ~asked(i)
    BY <1>3, <2>1, Zenon
  <2>2. CASE ~(\E i \in 1..(n - 1) : ~asked(i)) /\ list.bad
    BY <1>3, <2>2, Zenon
  <2>3. CASE ~(\E i \in 1..(n - 1) : ~asked(i)) /\ ~list.bad /\ n > 0 /\ ~asked(n)
    BY <1>3, <2>3, Zenon
  <2>4. CASE ~(\E i \in 1..(n - 1) : ~asked(i)) /\ ~list.bad /\ ~(n > 0 /\ ~asked(n))
    BY <1>3, <2>4, Zenon
  <2> QED
    BY <2>1, <2>2, <2>3, <2>4, Zenon
<1>5. ASSUME NEW x \in Seq(Extensions),
             NEW e \in {"nil", "BadExtensions", "MalformedResponse"}
      PROVE  [exts |-> x, err |-> e]
               \in [exts : Seq(Extensions), err : {"nil", "BadExtensions", "MalformedResponse"}]
  OBVIOUS
<1> QED
  BY <1>2, <1>4, <1>5, Zenon

(* What a header makes of the handshake on the client. *)
LEMMA CJudgeTyped ==
  ASSUME cli.protocols \in Seq(Protocols), chs \in DialerResults,
         NEW k \in Keys, NEW v \in ResponseValues(k)
  PROVE  CJudge(k, v) \in DialerResults
<1>1. {"nil", "BadUpgrade", "BadConnection", "BadSecAccept", "BadSubProtocol",
       "BadExtensions", "MalformedResponse"} \subseteq Errors
  BY DEF Errors, StatusOf
<1>2. \A e \in Errors : [chs EXCEPT !.err = e] \in DialerResults
  BY DEF DialerResults
<1>3. CASE k = "SecProtocol"
  <2>1. PICK p : p = IF v \in ToSet(cli.protocols) THEN v ELSE chs.protocol
    OBVIOUS
  <2>2. p \in Protocols \cup {NoProtocol}
    BY <2>1 DEF ToSet, DialerResults
  <2>3. CJudge(k, v) = [chs EXCEPT !.protocol = p,
                                   !.err = IF p = NoProtocol THEN "BadSubProtocol" ELSE "nil"]
    BY <1>3, <2>1, Zenon DEF CJudge
  <2>4. PICK e \in {"BadSubProtocol", "nil"} :
          e = IF p = NoProtocol THEN "BadSubProtocol" ELSE "nil"
    OBVIOUS
  <2>5. CJudge(k, v) = [chs EXCEPT !.protocol = p, !.err = e]
    BY <2>3, <2>4, Zenon
  <2> QED
    BY <1>1, <2>2, <2>5 DEF DialerResults
<1>4. CASE k = "SecExtensions"
  <2>1. PICK m : m = MatchSelected(v, cli.exts, chs.exts)
    OBVIOUS
  <2>2. v \in TokenLists(Extensions) /\ chs.exts \in Seq(Extensions)
    BY <1>4 DEF ResponseValues, DialerResults
  <2>3. m \in [exts : Seq(Extensions), err : {"nil", "BadExtensions", "MalformedResponse"}]
    BY <2>1, <2>2, MatchSelectedTyped, Zenon
  <2>4. CJudge(k, v) = [chs EXCEPT !.exts = m.exts, !.err = m.err]
    BY <1>4, <2>1, Zenon DEF CJudge
  <2> QED
    BY <1>1, <2>3, <2>4 DEF DialerResults
<1>5. CASE k \notin {"SecProtocol", "SecExtensions"}
  <2>1. \/ CJudge(k, v) \in {[chs EXCEPT !.err = "BadUpgrade"],
                             [chs EXCEPT !.err = "BadConnection"],
                             [chs EXCEPT !.err = "BadSecAccept"],
                             [chs EXCEPT !.err = "MalformedResponse"]}
        \/ CJudge(k, v) = chs
    BY <1>5, Zenon DEF CJudge
  <2> QED
    BY <1>1, <1>2, <2>1
<1> QED
  BY <1>3, <1>4, <1>5

LEMMA ReadTyped ==
  ASSUME toServer \in Seq(Requests), NEW l, ReadLine(l)
  PROVE  /\ toServer' \in Seq(Requests)
         /\ l = Line(l.key, l.val) /\ l.val \in RequestValues(l.key)
<1>1. toServer # <<>> /\ l = Head(toServer) /\ toServer' = Tail(toServer)
  BY DEF ReadLine
<1>2. l \in Requests /\ toServer' \in Seq(Requests)
  BY <1>1
<1> QED
  BY <1>2, RequestParts

LEMMA TypesInit == ASSUME Init PROVE Types
<1>1. /\ cli.protocols \in Seq(Protocols) /\ cli.exts \in Seq(Extensions)
      /\ cli \in [protocols : Tokens(Protocols), exts : Tokens(Extensions), extra : Extra]
  BY ListsTyped DEF Init
<1>2. SettingTyped
  <2>1. srv \in Options
    BY DEF Init, Options
  <2> QED
    BY <1>1, <2>1 DEF SettingTyped
<1>3. WiresTyped
  <2>1. toServer = <<>> /\ toClient = <<>> /\ br = <<>> /\ broken = FALSE
    BY Zenon DEF Init
  <2>2. <<>> \in Seq(Requests) /\ <<>> \in Seq(Responses) /\ FALSE \in BOOLEAN
    OBVIOUS
  <2> QED
    BY <2>1, <2>2, Zenon DEF WiresTyped
<1>4. NoHandshake \in Results /\ chs \in DialerResults
  <2>1. "nil" \in Errors /\ "nil" \in DOMAIN StatusOf
    BY DEF Errors, StatusOf
  <2>2. <<>> \in Seq(Extensions)
    OBVIOUS
  <2> QED
    BY <2>1, <2>2 DEF NoHandshake, Results, DialerResults, Init
<1>5. ServerTyped
  <2>1. "nil" \in DOMAIN StatusOf
    BY DEF StatusOf
  <2>2. hs \in Results /\ hs.err = "nil" /\ sat = "line" /\ hdr = NoHeaders /\ seen = {}
    BY <1>4 DEF Init, NoHandshake
  <2> QED
    BY <2>1, <2>2 DEF ServerTyped, NoHeaders
<1>6. ClientTyped
  BY <1>4 DEF Init, ClientTyped, NoHeaders
<1> QED
  BY <1>2, <1>3, <1>5, <1>6 DEF Types

(* Respond writes a response that the nonce and the error are there for. *)
LEMMA RespondTyped ==
  ASSUME Types, Respond
  PROVE  WiresTyped' /\ ServerTyped'
<1> USE DEF Types, SettingTyped, WiresTyped
<1>1. sat = "write" /\ sat' = "returned"
      /\ UNCHANGED <<setting, toServer, sline, hdr, seen, nonce, client>>
  BY DEF Respond
<1>2. PICK lines, ok :
        /\ ok \in BOOLEAN
        /\ lines = IF hs.err = "nil"
                   THEN ResponseUpgrade(nonce, hs.protocol, hs.exts, srv.extra)
                   ELSE ResponseError(hs.err, srv.extra)
        /\ Flush(toClient, lines, toClient', ok)
        /\ broken' = (broken \/ ~ok)
        /\ hs' = IF ~ok /\ hs.err = "nil" THEN [hs EXCEPT !.err = "io"] ELSE hs
  <2> DEFINE w == IF hs.err = "nil"
                  THEN ResponseUpgrade(nonce, hs.protocol, hs.exts, srv.extra)
                  ELSE ResponseError(hs.err, srv.extra)
  <2>1. \E ok \in BOOLEAN :
          /\ Flush(toClient, w, toClient', ok)
          /\ broken' = (broken \/ ~ok)
          /\ hs' = IF ~ok /\ hs.err = "nil" THEN [hs EXCEPT !.err = "io"] ELSE hs
    BY DEF Respond
  <2> QED
    BY <2>1, Zenon
<1>3. srv.extra \in Extra /\ hs \in Results
  BY DEF Options, ServerTyped
<1>4. lines \in Seq(Responses)
  <2>1. CASE hs.err = "nil"
    <3>1. nonce \in Nonces
      BY <1>1, <2>1 DEF ServerTyped
    <3>2. hs.protocol \in Protocols \cup {NoProtocol} /\ hs.exts \in Seq(Extensions)
      BY <1>3 DEF Results
    <3> QED
      BY <1>2, <1>3, <2>1, <3>1, <3>2, ResponseUpgradeTyped
  <2>2. CASE hs.err # "nil"
    <3>1. hs.err \in DOMAIN StatusOf
      BY <1>1 DEF ServerTyped
    <3> QED
      BY <1>2, <1>3, <2>2, <3>1, ResponseErrorTyped
  <2> QED
    BY <2>1, <2>2
<1>5. toClient' \in Seq(Responses)
  <2>1. EOF \in Responses
    <3>1. "EOF" \in ResponseNames /\ "" \in ResponseValues("EOF")
      BY DEF ResponseNames, ResponseValues, Plain
    <3> QED
      BY <3>1, ResponseInOrder DEF EOF
  <2> QED
    BY <1>2, <1>4, <2>1, FlushTyped
<1>6. WiresTyped'
  BY <1>1, <1>2, <1>5 DEF client
<1>7. hs' \in Results /\ (hs'.err = "nil" => hs.err = "nil")
  <2>1. CASE ~ok /\ hs.err = "nil"
    <3>1. "io" \in Errors
      BY DEF Errors
    <3> QED
      BY <1>2, <1>3, <2>1, <3>1 DEF Results
  <2>2. CASE ~(~ok /\ hs.err = "nil")
    BY <1>2, <1>3, <2>2
  <2> QED
    BY <2>1, <2>2
<1>8. ServerTyped'
  BY <1>1, <1>7 DEF ServerTyped, setting
<1> QED
  BY <1>6, <1>8

LEMMA HeaderLineTyped ==
  ASSUME Types, HeaderLine
  PROVE  WiresTyped' /\ ServerTyped'
<1>1. PICK k, v : /\ k \in Keys
                  /\ ReadLine(Line(k, v))
                  /\ hdr' = [hdr EXCEPT ![k] = Append(@, v)]
                  /\ seen' = seen \cup ({k} \cap RequestKeys)
                  /\ nonce' = IF k = "SecKey" /\ v \in Nonces THEN v ELSE nonce
                  /\ \E e \in (IF k \in {"Host", "other"} THEN Hook ELSE {Judge(k, v).err}) :
                       /\ hs' = [Judge(k, v) EXCEPT !.err = e]
                       /\ sat' = IF e = "nil" THEN "headers" ELSE "write"
  BY Zenon DEF HeaderLine
<1>2. PICK e \in (IF k \in {"Host", "other"} THEN Hook ELSE {Judge(k, v).err}) :
        /\ hs' = [Judge(k, v) EXCEPT !.err = e]
        /\ sat' = IF e = "nil" THEN "headers" ELSE "write"
  BY <1>1
<1>3. /\ sat = "headers" /\ ends.server = "Upgrader"
      /\ UNCHANGED <<setting, toClient, broken, sline, client>>
  BY DEF HeaderLine
<1>4. toServer' \in Seq(Requests) /\ v \in RequestValues(k)
  <2>1. toServer \in Seq(Requests)
    BY DEF Types, WiresTyped
  <2>2. Line(k, v).key = k /\ Line(k, v).val = v
    BY DEF Line
  <2> QED
    BY <1>1, <2>1, <2>2, ReadTyped
<1>5. hs \in Results /\ hs.err = "nil" /\ srv \in Options
  BY <1>3 DEF Types, ServerTyped, SettingTyped
<1>6. /\ Judge(k, v) \in Results /\ Judge(k, v).err \in DOMAIN StatusOf
      /\ k = "SecKey" /\ Judge(k, v).err = "nil" => v \in Nonces
  BY <1>1, <1>4, <1>5, JudgeTyped
<1>7. e \in DOMAIN StatusOf /\ e \in Errors
      /\ (k = "SecKey" /\ e = "nil" => v \in Nonces)
  <2>1. CASE k \in {"Host", "other"}
    BY <1>2, <2>1 DEF Hook, StatusOf, Errors
  <2>2. CASE k \notin {"Host", "other"}
    <3>1. e = Judge(k, v).err
      BY <1>2, <2>2
    <3> QED
      BY <1>6, <3>1 DEF Errors
  <2> QED
    BY <2>1, <2>2
<1>8. hs' \in Results /\ hs'.err = e
  BY <1>2, <1>6, <1>7 DEF Results
<1>9. WiresTyped'
  BY <1>3, <1>4 DEF Types, WiresTyped, client
<1>10. DOMAIN hdr' = Keys /\ \A x \in Keys : hdr'[x] \in Seq(RequestValues(x))
  <2>1. DOMAIN hdr = Keys /\ \A x \in Keys : hdr[x] \in Seq(RequestValues(x))
    BY DEF Types, ServerTyped
  <2>2. DOMAIN hdr' = Keys
    BY <1>1, <2>1
  <2>3. ASSUME NEW x \in Keys PROVE hdr'[x] \in Seq(RequestValues(x))
    <3>1. CASE x = k
      <4>1. hdr'[x] = Append(hdr[k], v)
        BY <1>1, <2>1, <3>1
      <4>2. hdr[k] \in Seq(RequestValues(k))
        BY <1>1, <2>1
      <4> QED
        BY <1>4, <3>1, <4>1, <4>2
    <3>2. CASE x # k
      BY <1>1, <2>1, <3>2
    <3> QED
      BY <3>1, <3>2
  <2> QED
    BY <2>2, <2>3
<1>11. seen' \subseteq RequestKeys
  BY <1>1 DEF Types, ServerTyped
<1>12. sat' = "headers" /\ "SecKey" \in seen' => nonce' \in Nonces
  <2>1. CASE k = "SecKey"
    BY <1>1, <1>2, <1>7, <2>1
  <2>2. CASE k # "SecKey"
    <3>1. nonce' = nonce /\ ("SecKey" \in seen' => "SecKey" \in seen)
      BY <1>1, <2>2
    <3> QED
      BY <1>3, <3>1 DEF Types, ServerTyped
  <2> QED
    BY <2>1, <2>2
<1>13. /\ sat' \in {"headers", "write"}
       /\ sat' = "headers" => hs'.err = "nil"
       /\ sat' = "write" => hs'.err # "nil"
       /\ hs'.err \in DOMAIN StatusOf
  BY <1>2, <1>7, <1>8
<1>14. ServerTyped'
  BY <1>8, <1>10, <1>11, <1>12, <1>13 DEF ServerTyped
<1> QED
  BY <1>9, <1>14

LEMMA BlankLineTyped ==
  ASSUME Types, BlankLine
  PROVE  WiresTyped' /\ ServerTyped'
<1>1. PICK e \in (IF Missing = "nil" THEN Hook ELSE {Missing}) : hs' = [hs EXCEPT !.err = e]
  BY Zenon DEF BlankLine
<1>2. /\ sat = "headers" /\ ends.server = "Upgrader" /\ sat' = "write"
      /\ ReadLine(Blank)
      /\ UNCHANGED <<setting, toClient, broken, sline, hdr, seen, nonce, client>>
  BY DEF BlankLine
<1>3. WiresTyped'
  BY <1>2, ReadTyped DEF Types, WiresTyped, client
<1>4. Missing \in DOMAIN StatusOf /\ (Missing = "nil" => "SecKey" \in seen)
  BY DEF Missing, StatusOf
<1>5. e \in DOMAIN StatusOf /\ e \in Errors /\ (e = "nil" => "SecKey" \in seen)
  <2>1. CASE Missing = "nil"
    BY <1>1, <1>4, <2>1 DEF Hook, StatusOf, Errors
  <2>2. CASE Missing # "nil"
    BY <1>1, <1>4, <2>2 DEF Errors
  <2> QED
    BY <2>1, <2>2
<1>6. hs' \in Results /\ hs'.err = e
  BY <1>1, <1>5 DEF Results, Types, ServerTyped
<1>7. hs'.err = "nil" => nonce' \in Nonces
  BY <1>2, <1>5, <1>6 DEF Types, ServerTyped
<1>8. ServerTyped'
  BY <1>2, <1>5, <1>6, <1>7 DEF ServerTyped, Types
<1> QED
  BY <1>3, <1>8

LEMMA HTTPUpgraderTyped ==
  ASSUME Types, HTTPReads \/ HTTPUpgraderUpgrade
  PROVE  WiresTyped' /\ ServerTyped'
<1>1. CASE HTTPReads
  <2>1. UNCHANGED <<setting, toClient, broken, seen, nonce, client>> /\ ends.server = "HTTPUpgrader"
    BY <1>1 DEF HTTPReads
  <2>2. CASE /\ sat = "line" /\ sat' = "headers" /\ UNCHANGED <<hdr, hs>>
             /\ \E r \in RequestLines : ReadLine(Line("request", r))
    <3>1. WiresTyped'
      BY <2>1, <2>2, ReadTyped DEF Types, WiresTyped, client
    <3> QED
      BY <2>1, <2>2, <3>1 DEF Types, ServerTyped, setting
  <2>3. CASE /\ sat = "headers" /\ UNCHANGED <<sat, hs>>
             /\ \E k \in Keys :
                  /\ toServer # <<>> /\ Head(toServer).key = k
                  /\ hdr' = [hdr EXCEPT ![k] = Append(@, Head(toServer).val)]
                  /\ ReadLine(Head(toServer))
    <3>1. PICK k, v :
            /\ k \in Keys /\ k = Head(toServer).key /\ v = Head(toServer).val
            /\ hdr' = [hdr EXCEPT ![k] = Append(@, v)]
            /\ ReadLine(Head(toServer))
      BY <2>3, Zenon
    <3>2. toServer' \in Seq(Requests) /\ v \in RequestValues(k)
      BY <3>1, ReadTyped DEF Types, WiresTyped
    <3>3. WiresTyped'
      BY <2>1, <3>2 DEF Types, WiresTyped, client
    <3>4. DOMAIN hdr = Keys /\ \A x \in Keys : hdr[x] \in Seq(RequestValues(x))
      BY DEF Types, ServerTyped
    <3>5. ASSUME NEW x \in Keys PROVE hdr'[x] \in Seq(RequestValues(x))
      <4>1. CASE x = k
        <5>1. hdr'[x] = Append(hdr[k], v) /\ hdr[k] \in Seq(RequestValues(k))
          BY <3>1, <3>4, <4>1
        <5> QED
          BY <3>2, <4>1, <5>1
      <4>2. CASE x # k
        BY <3>1, <3>4, <4>2
      <4> QED
        BY <4>1, <4>2
    <3>6. DOMAIN hdr' = Keys
      BY <3>1, <3>4
    <3> QED
      BY <2>1, <2>3, <3>3, <3>5, <3>6 DEF Types, ServerTyped, setting
  <2> QED
    BY <1>1, <2>2, <2>3 DEF HTTPReads
<1>2. CASE HTTPUpgraderUpgrade
  <2>1. /\ sat = "headers" /\ ReadLine(Blank) /\ sat' = "write"
        /\ hs' = HTTPUpgrade(sline, hdr, srv)
        /\ nonce' = IF hdr["SecKey"] # <<>> THEN Head(hdr["SecKey"]) ELSE nonce
        /\ UNCHANGED <<setting, toClient, broken, sline, hdr, seen, client>>
    BY <1>2 DEF HTTPUpgraderUpgrade
  <2>2. WiresTyped'
    BY <2>1, ReadTyped DEF Types, WiresTyped, client
  <2>3. hs' \in Verdicts(sline, hdr)
    <3>1. /\ hdr["SecProtocol"] \in Seq(TokenLists(Protocols))
          /\ hdr["SecExtensions"] \in Seq(TokenLists(Extensions))
      BY KeyNames DEF Types, ServerTyped, RequestValues
    <3>2. srv \in Options
      BY DEF Types, SettingTyped
    <3> QED
      BY <2>1, <3>1, <3>2, HTTPUpgradeTyped
  <2>4. hs' \in Results /\ hs'.err \in DOMAIN StatusOf
    BY <2>3 DEF Verdicts
  <2>5. hs'.err = "nil" => nonce' \in Nonces
    <3>1. SUFFICES ASSUME hs'.err = "nil" PROVE nonce' \in Nonces
      OBVIOUS
    <3>2. Get(hdr, "SecKey") \in Nonces
      BY <2>3, <3>1, CheckTyped DEF Verdicts
    <3>3. hdr["SecKey"] # <<>>
      BY <3>2, HttpConstants DEF Get, HttpConstants
    <3> QED
      BY <2>1, <3>2, <3>3 DEF Get
  <2> QED
    BY <2>1, <2>2, <2>4, <2>5 DEF Types, ServerTyped
<1> QED
  BY <1>1, <1>2

LEMMA ServerStepTyped ==
  ASSUME Types, ServerStep
  PROVE  Types'
<1>1. UNCHANGED <<setting, client>>
  BY DEF ServerStep, ServerEOF, RequestLine, GarbledRequestLine, HeaderLine, BlankLine,
         Respond, AfterUpgrade, HTTPReads, HTTPUpgraderUpgrade
<1>2. SettingTyped' /\ ClientTyped'
  BY <1>1 DEF Types, SettingTyped, ClientTyped, setting, client
<1>3. CASE ServerEOF
  <2>1. WiresTyped'
    BY <1>1, <1>3, ReadTyped DEF ServerEOF, Types, WiresTyped, client
  <2>2. hs' \in Results /\ hs'.err = "io"
    <3>1. "io" \in Errors
      BY DEF Errors
    <3> QED
      BY <1>3, <3>1 DEF ServerEOF, Types, ServerTyped, Results
  <2>3. ServerTyped'
    BY <1>3, <2>2 DEF ServerEOF, Types, ServerTyped
  <2> QED
    BY <1>2, <2>1, <2>3 DEF Types
<1>4. CASE RequestLine
  <2>1. WiresTyped'
    BY <1>1, <1>4, ReadTyped DEF RequestLine, Types, WiresTyped, client
  <2>2. PICK r, e :
          /\ e \in (IF LineError(r) = "nil" THEN Hook ELSE {LineError(r)})
          /\ hs' = [hs EXCEPT !.err = e]
          /\ sat' = IF e = "nil" THEN "headers" ELSE "write"
    BY <1>4, Zenon DEF RequestLine
  <2>3. e \in {"nil", "rejected", "failed", "BadProtocol", "BadMethod"}
    BY <2>2 DEF LineError, Hook
  <2>4. e \in DOMAIN StatusOf /\ e \in Errors
    BY <2>3 DEF StatusOf, Errors
  <2>5. hs' \in Results /\ hs'.err = e
    BY <2>2, <2>4 DEF Types, ServerTyped, Results
  <2>6. ServerTyped'
    <3>1. UNCHANGED <<hdr, seen, nonce, setting>>
      BY <1>4 DEF RequestLine
    <3>2. /\ sat' \in {"headers", "write"}
          /\ sat' = "headers" => hs'.err = "nil"
          /\ sat' = "write" => hs'.err # "nil"
          /\ hs'.err \in DOMAIN StatusOf
      BY <2>2, <2>4, <2>5
    <3>3. sat = "line" /\ seen' = {}
      BY <1>4, <3>1 DEF RequestLine, Types, ServerTyped
    <3> QED
      BY <2>5, <3>1, <3>2, <3>3 DEF Types, ServerTyped
  <2> QED
    BY <1>2, <2>1, <2>6 DEF Types
<1>5. CASE GarbledRequestLine
  <2>1. WiresTyped'
    BY <1>1, <1>5, ReadTyped DEF GarbledRequestLine, Types, WiresTyped, client
  <2>2. hs' \in Results /\ hs'.err = "MalformedRequest"
    <3>1. "MalformedRequest" \in Errors
      BY DEF Errors, StatusOf
    <3> QED
      BY <1>5, <3>1 DEF GarbledRequestLine, Types, ServerTyped, Results
  <2>3. ServerTyped'
    BY <1>5, <2>2 DEF GarbledRequestLine, Types, ServerTyped
  <2> QED
    BY <1>2, <2>1, <2>3 DEF Types
<1>6. CASE HeaderLine
  BY <1>2, <1>6, HeaderLineTyped DEF Types
<1>7. CASE BlankLine
  BY <1>2, <1>7, BlankLineTyped DEF Types
<1>8. CASE Respond
  BY <1>2, <1>8, RespondTyped DEF Types
<1>9. CASE AfterUpgrade
  <2>1. Frame \in Responses /\ EOF \in Responses
    <3>1. {"frame", "EOF"} \subseteq ResponseNames
      BY DEF ResponseNames
    <3>2. \A k \in {"frame", "EOF"} : "" \in ResponseValues(k)
      BY DEF ResponseValues, Plain
    <3> QED
      BY <3>1, <3>2, ResponseInOrder DEF Frame, EOF
  <2>2. WiresTyped'
    BY <1>1, <1>9, <2>1 DEF AfterUpgrade, Types, WiresTyped, client
  <2>3. ServerTyped'
    BY <1>9 DEF AfterUpgrade, Types, ServerTyped
  <2> QED
    BY <1>2, <2>2, <2>3 DEF Types
<1>10. CASE HTTPReads \/ HTTPUpgraderUpgrade
  BY <1>2, <1>10, HTTPUpgraderTyped DEF Types
<1> QED
  BY <1>3, <1>4, <1>5, <1>6, <1>7, <1>8, <1>9, <1>10, Zenon DEF ServerStep

(* The error of a status line leaves its code, if it is a response's. *)
LEMMA StatusTyped ==
  ASSUME NEW r \in ResponseValues("status")
  PROVE  /\ StatusError(r) \in {"nil", "MalformedResponse", "BadProtocol", "status"}
         /\ StatusError(r) = "status" => r.code \in Codes
<1>1. StatusError(r) \in {"nil", "MalformedResponse", "BadProtocol", "status"}
  BY DEF StatusError
<1>2. r = Garbled \/ r.code \in Codes
  <2> HIDE DEF Codes
  <2> QED
    BY DEF ResponseValues
<1>3. r = Garbled => StatusError(r) = "MalformedResponse"
  BY DEF StatusError
<1> QED
  BY <1>1, <1>2, <1>3

LEMMA CErrors ==
  {"nil", "io", "failed", "MalformedResponse", "BadProtocol", "status", "BadUpgrade",
   "BadConnection", "BadSecAccept"} \subseteq Errors
  BY DEF Errors, StatusOf

LEMMA KeepTyped ==
  ASSUME NEW b \in Seq(Responses), NEW e
  PROVE  KeepReader(b, e) \in Seq(Responses)
  BY DEF KeepReader

(* The header k with the value v has been read, and e come of it. *)
HeaderRead(k, v, e) ==
  /\ k \in Keys /\ br # <<>> /\ k = Head(br).key /\ v = Head(br).val
  /\ chdr' = [chdr EXCEPT ![k] = Append(@, v)]
  /\ cseen' = cseen \cup ({k} \cap ResponseKeys)
  /\ e \in (IF k = "other" THEN {"nil", "failed"} ELSE {CJudge(k, v).err})
  /\ chs' = [CJudge(k, v) EXCEPT !.err = e]
  /\ cat' = IF e = "nil" THEN "headers" ELSE "returned"
  /\ br' = IF e = "nil" THEN Tail(br) ELSE KeepReader(Tail(br), e)

LEMMA HeaderReads ==
  ASSUME ClientHeader
  PROVE  \E k, v, e : HeaderRead(k, v, e)
  BY Zenon DEF ClientHeader, HeaderRead

LEMMA ClientHeaderTyped ==
  ASSUME Types, ClientHeader
  PROVE  br' \in Seq(Responses) /\ ClientTyped'
<1>1. PICK k, v, e : HeaderRead(k, v, e)
  BY HeaderReads
<1> USE DEF HeaderRead
<1>2. br \in Seq(Responses)
  BY DEF Types, WiresTyped
<1>3. Tail(br) \in Seq(Responses) /\ Head(br) \in Responses
  BY <1>1, <1>2
<1>4. v \in ResponseValues(k)
  BY <1>1, <1>3, ResponseParts
<1>5. br' \in Seq(Responses)
  BY <1>1, <1>3, KeepTyped
<1>6. CJudge(k, v) \in DialerResults
  BY <1>1, <1>4, CJudgeTyped DEF Types, SettingTyped, ClientTyped
<1>7. e \in Errors
  <2>1. CASE k = "other"
    BY <1>1, <2>1, CErrors
  <2>2. CASE k # "other"
    <3>1. e = CJudge(k, v).err
      BY <1>1, <2>2
    <3> QED
      BY <1>6, <3>1 DEF DialerResults
  <2> QED
    BY <2>1, <2>2
<1>8. chs' \in DialerResults /\ chs'.err = e
  BY <1>1, <1>6, <1>7 DEF DialerResults
<1>9. DOMAIN chdr = Keys /\ \A x \in Keys : chdr[x] \in Seq(ResponseValues(x))
  BY DEF Types, ClientTyped
<1>10. ASSUME NEW x \in Keys PROVE chdr'[x] \in Seq(ResponseValues(x))
  <2>1. CASE x = k
    <3>1. chdr'[x] = Append(chdr[k], v) /\ chdr[k] \in Seq(ResponseValues(k))
      BY <1>1, <1>9, <2>1
    <3> QED
      BY <1>4, <2>1, <3>1
  <2>2. CASE x # k
    BY <1>1, <1>9, <2>2
  <2> QED
    BY <2>1, <2>2
<1>11. DOMAIN chdr' = Keys /\ cseen' \subseteq ResponseKeys
  BY <1>1, <1>9 DEF Types, ClientTyped
<1> QED
  BY <1>1, <1>5, <1>8, <1>10, <1>11 DEF ClientTyped

LEMMA ClientStepTyped ==
  ASSUME Types, ClientStep
  PROVE  Types'
<1>1. UNCHANGED <<setting, server>>
  BY DEF ClientStep, WriteRequest, Fill, ClientEOF, StatusLine, ClientHeader, ClientBlank
<1>2. SettingTyped' /\ ServerTyped'
  BY <1>1 DEF Types, SettingTyped, ServerTyped, setting, server
<1>3. /\ toServer \in Seq(Requests) /\ toClient \in Seq(Responses) /\ br \in Seq(Responses)
      /\ broken \in BOOLEAN /\ chs \in DialerResults
  BY DEF Types, WiresTyped, ClientTyped
<1>4. \A e \in Errors : [chs EXCEPT !.err = e] \in DialerResults
  BY <1>3 DEF DialerResults
<1>5. CASE WriteRequest
  <2>1. PICK ok \in BOOLEAN :
          /\ Flush(toServer, Request(CNonce, cli.protocols, cli.exts, cli.extra), toServer', ok)
          /\ broken' = (broken \/ ~ok)
          /\ IF ok THEN cat' = "line" /\ UNCHANGED <<chs, br>> ELSE Return("io", br)
    BY <1>5 DEF WriteRequest
  <2>2. UNCHANGED <<toClient, cline, chdr, cseen>>
    BY <1>5 DEF WriteRequest
  <2>3. Request(CNonce, cli.protocols, cli.exts, cli.extra) \in Seq(Requests)
    BY NonceTyped, RequestTyped DEF Types, SettingTyped
  <2>4. EOF \in Requests
    <3>1. "EOF" \in RequestNames /\ "" \in RequestValues("EOF")
      BY DEF RequestNames, RequestValues, Plain
    <3> QED
      BY <3>1, RequestInOrder DEF EOF
  <2>5. toServer' \in Seq(Requests)
    BY <1>3, <2>1, <2>3, <2>4, FlushTyped
  <2>6. br' \in Seq(Responses)
    BY <1>3, <2>1, KeepTyped DEF Return
  <2>7. WiresTyped'
    BY <1>3, <2>1, <2>2, <2>5, <2>6 DEF WiresTyped
  <2>8. chs' \in DialerResults /\ cat' \in {"line", "returned"}
        /\ (cat' # "returned" => chs'.err = "nil")
    <3>1. CASE ok
      <4>1. cat = "write"
        BY <1>5 DEF WriteRequest
      <4> QED
        BY <1>3, <2>1, <3>1, <4>1 DEF Types, ClientTyped
    <3>2. CASE ~ok
      BY <1>4, <2>1, <3>2, CErrors DEF Return
    <3> QED
      BY <3>1, <3>2
  <2>9. ClientTyped'
    BY <2>2, <2>8 DEF Types, ClientTyped
  <2> QED
    BY <1>2, <2>7, <2>9 DEF Types
<1>6. CASE Fill
  <2>1. PICK n \in {1, Len(toClient)} :
          /\ br' = SubSeq(toClient, 1, n)
          /\ toClient' = SubSeq(toClient, n + 1, Len(toClient))
    BY <1>6 DEF Fill
  <2>2. br' \in Seq(Responses) /\ toClient' \in Seq(Responses)
    <3>1. toClient # <<>>
      BY <1>6 DEF Fill
    <3>2. n \in 1..Len(toClient)
      BY <1>3, <3>1
    <3> HIDE DEF Responses
    <3> QED
      BY <1>3, <2>1, <3>2
  <2>3. UNCHANGED <<toServer, broken, cat, cline, chdr, cseen, chs>>
    BY <1>6 DEF Fill
  <2> QED
    BY <1>2, <1>3, <2>2, <2>3 DEF Types, WiresTyped, ClientTyped
<1>7. CASE ClientEOF
  <2>1. /\ chs' = [chs EXCEPT !.err = "io"] /\ cat' = "returned"
        /\ br' = KeepReader(<<>>, "io")
        /\ UNCHANGED <<toServer, toClient, broken, cline, chdr, cseen>>
    BY <1>7 DEF ClientEOF, Return
  <2>2. br' \in Seq(Responses)
    <3>1. <<>> \in Seq(Responses)
      OBVIOUS
    <3> QED
      BY <2>1, <3>1, KeepTyped
  <2>3. chs' \in DialerResults
    BY <1>4, <2>1, CErrors
  <2> QED
    BY <1>2, <1>3, <2>1, <2>2, <2>3 DEF Types, WiresTyped, ClientTyped
<1>8. CASE StatusLine
  <2>1. PICK r, e :
          /\ br # <<>> /\ Head(br).key = "status" /\ r = Head(br).val /\ e = StatusError(r)
          /\ IF e = "nil"
             THEN cat' = "headers" /\ br' = Tail(br) /\ UNCHANGED chs
             ELSE /\ cat' = "returned"
                  /\ chs' = [chs EXCEPT !.err = e,
                                        !.status = IF e = "status" THEN r.code ELSE 0]
                  /\ br' = KeepReader(Tail(br), e)
    BY <1>8, Zenon DEF StatusLine
  <2>2. cat = "line" /\ UNCHANGED <<toServer, toClient, broken, chdr, cseen>>
    BY <1>8 DEF StatusLine
  <2>3. Tail(br) \in Seq(Responses) /\ Head(br) \in Responses
    BY <1>3, <2>1
  <2>4. r \in ResponseValues("status")
    BY <2>1, <2>3, ResponseParts
  <2>5. e \in Errors /\ (e = "status" => r.code \in Codes)
    BY <2>1, <2>4, StatusTyped, CErrors
  <2>6. br' \in Seq(Responses)
    <3>1. KeepReader(Tail(br), e) \in Seq(Responses)
      BY <2>3, KeepTyped
    <3> QED
      BY <2>1, <2>3, <3>1
  <2>7. WiresTyped'
    BY <1>3, <2>2, <2>6 DEF WiresTyped
  <2>8. chs' \in DialerResults /\ cat' \in {"headers", "returned"}
        /\ (cat' # "returned" => chs'.err = "nil")
    <3>1. CASE e = "nil"
      BY <1>3, <2>1, <2>2, <3>1 DEF Types, ClientTyped
    <3>2. CASE e # "nil"
      <4>1. PICK c \in {0} \cup Codes : c = IF e = "status" THEN r.code ELSE 0
        BY <2>5
      <4>2. chs' = [chs EXCEPT !.err = e, !.status = c]
        BY <2>1, <3>2, <4>1, Zenon
      <4> QED
        BY <1>3, <2>1, <2>5, <3>2, <4>2 DEF DialerResults
    <3> QED
      BY <3>1, <3>2
  <2>9. ClientTyped'
    BY <2>2, <2>8 DEF Types, ClientTyped
  <2> QED
    BY <1>2, <2>7, <2>9 DEF Types
<1>9. CASE ClientHeader
  <2>1. UNCHANGED <<toServer, toClient, broken>>
    BY <1>9 DEF ClientHeader
  <2> QED
    BY <1>2, <1>3, <1>9, <2>1, ClientHeaderTyped DEF Types, WiresTyped
<1>10. CASE ClientBlank
  <2>1. /\ chs' = [chs EXCEPT !.err = CMissing] /\ cat' = "returned"
        /\ br' = KeepReader(Tail(br), CMissing)
        /\ UNCHANGED <<toServer, toClient, broken, cline, chdr, cseen>>
    BY <1>10 DEF ClientBlank, Return
  <2>2. br' \in Seq(Responses)
    <3>1. Tail(br) \in Seq(Responses)
      BY <1>3, <1>10 DEF ClientBlank
    <3> QED
      BY <2>1, <3>1, KeepTyped
  <2>3. chs' \in DialerResults
    <3>1. CMissing \in Errors
      BY CErrors DEF CMissing
    <3> QED
      BY <1>4, <2>1, <3>1
  <2> QED
    BY <1>2, <1>3, <2>1, <2>2, <2>3 DEF Types, WiresTyped, ClientTyped
<1> QED
  BY <1>5, <1>6, <1>7, <1>8, <1>9, <1>10, Zenon DEF ClientStep

LEMMA AnyClientTyped ==
  ASSUME Types, AnyClient
  PROVE  Types'
<1>1. UNCHANGED <<setting, toClient, broken, server, client>>
  BY DEF AnyClient
<1>2. SettingTyped' /\ ServerTyped' /\ ClientTyped'
  BY <1>1 DEF Types, SettingTyped, ServerTyped, ClientTyped, setting, server, client
<1> DEFINE first == {Line("request", r) : r \in RequestLines \cup {Garbled}} \cup {EOF}
           keys == RequestKeys \cup {"SecProtocol", "SecExtensions", "malformed"}
           more == AnyLine(hdr, keys, Lists(Protocols))
<1>3. PICK line : /\ line \in CASE sat = "line" -> first
                                [] sat = "headers" -> more
                                [] OTHER -> {}
                  /\ toServer' = <<line>>
  BY Zenon DEF AnyClient
<1>4. line \in first \/ line \in more
  <2> HIDE DEF first, more
  <2> QED
    BY <1>3
<1>5. first \subseteq Requests
  <2>1. EOF \in Requests
    <3>1. "EOF" \in RequestNames /\ "" \in RequestValues("EOF")
      BY DEF RequestNames, RequestValues, Plain
    <3> QED
      BY <3>1, RequestInOrder DEF EOF
  <2>2. \A r \in RequestLines \cup {Garbled} : Line("request", r) \in Requests
    <3>1. "request" \in RequestNames
      BY DEF RequestNames
    <3>2. RequestLines \cup {Garbled} = RequestValues("request")
      BY DEF RequestValues
    <3> QED
      BY <3>1, <3>2, RequestInOrder, Zenon
  <2> QED
    BY <2>1, <2>2
<1>6. more \subseteq Requests
  <2>1. keys \in SUBSET Keys
    BY DEF Keys
  <2> HIDE DEF keys
  <2> QED
    BY <2>1, AnyLineTyped
<1>7. toServer' \in Seq(Requests)
  <2>1. line \in Requests
    BY <1>4, <1>5, <1>6, Zenon
  <2> QED
    BY <1>3, <2>1, OneTyped, Zenon
<1>8. WiresTyped'
  BY <1>1, <1>7 DEF Types, WiresTyped, client
<1> QED
  BY <1>2, <1>8 DEF Types

LEMMA AnyServerTyped ==
  ASSUME Types, AnyServer
  PROVE  Types'
<1>1. UNCHANGED <<setting, toServer, broken, server, client>>
  BY DEF AnyServer
<1>2. SettingTyped' /\ ServerTyped' /\ ClientTyped'
  BY <1>1 DEF Types, SettingTyped, ServerTyped, ClientTyped, setting, server, client
<1> DEFINE lines == [version : Versions, code : {101, 400}] \cup {Garbled}
           first == {Line("status", r) : r \in lines} \cup {EOF}
           keys == ResponseKeys \cup {"SecProtocol", "SecExtensions", "other", "malformed"}
           more == AnyLine(chdr, keys, Protocols)
<1>3. PICK line : /\ line \in CASE cat = "line" -> first
                                [] cat = "headers" -> more
                                [] OTHER -> {}
                  /\ toClient' = <<line>> \/ toClient' = <<line, Frame>>
  BY SMT DEF AnyServer
<1>4. line \in first \/ line \in more
  <2> HIDE DEF first, more
  <2> QED
    BY <1>3
<1>5. EOF \in Responses /\ Frame \in Responses
  <2>1. {"frame", "EOF"} \subseteq ResponseNames
    BY DEF ResponseNames
  <2>2. \A k \in {"frame", "EOF"} : "" \in ResponseValues(k)
    BY DEF ResponseValues, Plain
  <2> QED
    BY <2>1, <2>2, ResponseInOrder DEF Frame, EOF
<1>6. first \subseteq Responses
  <2>1. \A r \in ResponseValues("status") : Line("status", r) \in Responses
    <3>1. "status" \in ResponseNames
      BY DEF ResponseNames
    <3> QED
      BY <3>1, ResponseInOrder, Zenon
  <2>2. lines \subseteq ResponseValues("status")
    <3>1. {101, 400} \subseteq Codes
      BY DEF Codes, StatusOf
    <3> HIDE DEF Codes
    <3> QED
      BY <3>1 DEF ResponseValues
  <2> HIDE DEF lines
  <2> QED
    BY <1>5, <2>1, <2>2
<1>7. more \subseteq Responses
  <2>1. keys \in SUBSET Keys
    BY DEF Keys
  <2> HIDE DEF keys
  <2> QED
    BY <2>1, AnyLineTyped
<1> HIDE DEF first, more
<1>8. toClient' \in Seq(Responses)
  <2>1. line \in Responses
    BY <1>4, <1>6, <1>7, Zenon
  <2>2. \A x, y \in Responses : <<x>> \in Seq(Responses) /\ <<x, y>> \in Seq(Responses)
    OBVIOUS
  <2> QED
    BY <1>3, <1>5, <2>1, <2>2, Zenon
<1>9. WiresTyped'
  BY <1>1, <1>8 DEF Types, WiresTyped, client
<1> QED
  BY <1>2, <1>9 DEF Types

LEMMA TypesNext == ASSUME Types, [Next]_vars PROVE Types'
<1>1. CASE UNCHANGED vars
  BY <1>1 DEF Types, SettingTyped, WiresTyped, ServerTyped, ClientTyped, vars, setting,
              server, client
<1>2. CASE Next
  BY <1>2, ServerStepTyped, ClientStepTyped, AnyClientTyped, AnyServerTyped DEF Next
<1> QED
  BY <1>1, <1>2

(* Both ends keep to their types, and an end that has gone past its headers has
   an error or the key that it answers: what Upgrader.Upgrade, HTTPUpgrader.
   Upgrade and Dialer.Upgrade go on with, whatever the peer sends. *)
THEOREM HandshakeTypes == Spec => []TypeOK
<1>1. Init => Types
  BY TypesInit
<1>2. Types /\ [Next]_vars => Types'
  BY TypesNext
<1>3. Types => TypeOK
  <2> SUFFICES ASSUME Types PROVE TypeOK
    OBVIOUS
  <2>1. [protocol |-> chs.protocol, exts |-> chs.exts, err |-> chs.err] \in Results
        /\ chs.status \in {0} \cup Codes
    BY DEF Types, ClientTyped, DialerResults, Results
  <2>2. chs.status \in {0, 101} \cup {StatusOf[x] : x \in DOMAIN StatusOf}
    BY <2>1, Zenon DEF Codes
  <2> QED
    BY <2>1, <2>2 DEF Types, WiresTyped, ServerTyped, ClientTyped, TypeOK
<1> QED
  BY <1>1, <1>2, <1>3, PTL DEF Spec

-----------------------------------------------------------------------------
(* A frame behind the response. *)

LEMMA HoldsAppend ==
  ASSUME NEW s \in Seq(Responses), Frame \in Responses
  PROVE  Holds(Append(s, Frame))
<1>1. Append(s, Frame)[Len(s) + 1] = Frame /\ Len(Append(s, Frame)) = Len(s) + 1
  OBVIOUS
<1>2. Len(s) + 1 \in 1..Len(Append(s, Frame))
  BY <1>1
<1> QED
  BY <1>1, <1>2 DEF Holds

LEMMA HoldsTail ==
  ASSUME NEW s \in Seq(Responses), s # <<>>, Head(s) # Frame, Holds(s)
  PROVE  Holds(Tail(s))
<1>1. PICK i \in 1..Len(s) : s[i] = Frame
  BY DEF Holds
<1>2. i # 1
  BY <1>1
<1>3. i - 1 \in 1..Len(Tail(s)) /\ Tail(s)[i - 1] = s[i]
  BY <1>2
<1> QED
  BY <1>1, <1>3 DEF Holds

LEMMA HoldsSplit ==
  ASSUME NEW s \in Seq(Responses), NEW n \in 1..Len(s), Holds(s)
  PROVE  Holds(SubSeq(s, 1, n)) \/ Holds(SubSeq(s, n + 1, Len(s)))
<1>1. PICK i \in 1..Len(s) : s[i] = Frame
  BY DEF Holds
<1>2. CASE i <= n
  <2>1. Len(SubSeq(s, 1, n)) = n /\ SubSeq(s, 1, n)[i] = s[i]
    BY <1>2
  <2> QED
    BY <1>1, <1>2, <2>1 DEF Holds
<1>3. CASE i > n
  <2>1. /\ Len(SubSeq(s, n + 1, Len(s))) = Len(s) - n
        /\ i - n \in 1..(Len(s) - n)
        /\ SubSeq(s, n + 1, Len(s))[i - n] = s[i]
    BY <1>3
  <2> QED
    BY <1>1, <2>1 DEF Holds
<1> QED
  BY <1>2, <1>3

LEMMA HoldsSome == \A s : Holds(s) => s # <<>>
  BY DEF Holds

LEMMA FrameNext == ASSUME Types, FrameWaits, [Next]_vars PROVE FrameWaits'
<1> SUFFICES ASSUME sat' = "over", hs'.err = "nil", chs'.err = "nil"
             PROVE  Holds(br') \/ Holds(toClient')
  BY DEF FrameWaits
<1>1. br \in Seq(Responses) /\ toClient \in Seq(Responses)
  BY DEF Types, WiresTyped
<1>2. CASE AfterUpgrade
  <2>1. Frame \in Responses
    <3>1. "frame" \in ResponseNames /\ "" \in ResponseValues("frame")
      BY DEF ResponseNames, ResponseValues, Plain
    <3> QED
      BY <3>1, ResponseInOrder DEF Frame
  <2>2. toClient' = Append(toClient, Frame)
    BY <1>2 DEF AfterUpgrade
  <2> QED
    BY <1>1, <2>1, <2>2, HoldsAppend
<1>3. CASE ServerStep /\ ~AfterUpgrade
  <2>1. sat' # "over"
    <3>1. CASE HTTPReads
      BY <3>1 DEF HTTPReads
    <3>2. CASE ~HTTPReads
      BY <1>3, <3>2 DEF ServerStep, ServerEOF, RequestLine, GarbledRequestLine, HeaderLine,
                        BlankLine, Respond, HTTPUpgraderUpgrade
    <3> QED
      BY <3>1, <3>2
  <2> QED
    BY <2>1
<1>4. CASE ~ServerStep
  <2>1. sat' = sat /\ hs' = hs
    BY <1>4 DEF Next, ClientStep, WriteRequest, Fill, ClientEOF, StatusLine, ClientHeader,
                ClientBlank, AnyClient, AnyServer, vars, server
  <2>2. chs.err = "nil" => Holds(br) \/ Holds(toClient)
    BY <2>1 DEF FrameWaits
  <2>3. cat # "returned" => chs.err = "nil"
    BY DEF Types, ClientTyped
  <2>4. CASE AnyServer
    <3>1. toClient = <<>> /\ br = <<>> /\ chs' = chs
      BY <2>4 DEF AnyServer, client
    <3> QED
      BY <2>2, <3>1, HoldsSome
  <2>5. CASE AnyClient \/ UNCHANGED vars
    BY <2>2, <2>5 DEF AnyClient, vars, client
  <2>6. CASE WriteRequest
    <3>1. cat = "write" /\ toClient' = toClient /\ (br' = br \/ chs'.err = "io")
      BY <2>6 DEF WriteRequest, Return, Types, ClientTyped, DialerResults
    <3> QED
      BY <2>2, <2>3, <3>1
  <2>7. CASE Fill
    <3>1. chs' = chs /\ toClient # <<>>
      BY <2>7 DEF Fill
    <3>2. PICK n \in {1, Len(toClient)} :
            /\ br' = SubSeq(toClient, 1, n)
            /\ toClient' = SubSeq(toClient, n + 1, Len(toClient))
      BY <2>7, SMTT(30) DEF Fill
    <3>3. n \in 1..Len(toClient)
      BY <1>1, <3>1
    <3>4. br = <<>>
      BY <2>7 DEF Fill
    <3>5. Holds(toClient)
      BY <2>2, <3>1, <3>4, HoldsSome
    <3> QED
      BY <1>1, <3>2, <3>3, <3>5, HoldsSplit
  <2>8. CASE ClientEOF
    BY <2>8 DEF ClientEOF, Return, Types, ClientTyped, DialerResults
  <2>9. CASE StatusLine \/ ClientHeader \/ ClientBlank
    <3>1. br # <<>> /\ cat # "returned" /\ toClient' = toClient
      BY <2>9 DEF StatusLine, ClientHeader, ClientBlank
    <3>2. Head(br) # Frame
      <4>1. Head(br).key = "status" \/ Head(br).key \in Keys \/ Head(br) = Blank
        BY <2>9 DEF StatusLine, ClientHeader, ClientBlank
      <4>2. Blank.key # "frame" /\ Frame.key = "frame" /\ "frame" \notin Keys
        BY KeyNames DEF Blank, Frame, Line
      <4> QED
        BY <4>1, <4>2
    <3>3. \/ br' = Tail(br)
          \/ chs'.err = "nil" /\ br' = KeepReader(Tail(br), "nil")
      <4>1. CASE StatusLine
        <5>1. PICK r, e :
                IF e = "nil"
                THEN cat' = "headers" /\ br' = Tail(br) /\ UNCHANGED chs
                ELSE /\ cat' = "returned"
                     /\ chs' = [chs EXCEPT !.err = e,
                                           !.status = IF e = "status" THEN r.code ELSE 0]
                     /\ br' = KeepReader(Tail(br), e)
          BY <4>1, Zenon DEF StatusLine
        <5> QED
          BY <5>1 DEF Types, ClientTyped, DialerResults
      <4>2. CASE ClientHeader
        <5>1. PICK k, v, e : HeaderRead(k, v, e)
          BY <4>2, HeaderReads
        <5> USE DEF HeaderRead
        <5>2. v \in ResponseValues(k)
          BY <1>1, <3>1, <5>1, ResponseParts
        <5>3. CJudge(k, v) \in DialerResults
          BY <5>1, <5>2, CJudgeTyped DEF Types, SettingTyped, ClientTyped
        <5> QED
          BY <5>1, <5>3 DEF DialerResults
      <4>3. CASE ClientBlank
        <5>1. chs' = [chs EXCEPT !.err = CMissing] /\ br' = KeepReader(Tail(br), CMissing)
          BY <4>3 DEF ClientBlank, Return
        <5> QED
          BY <5>1 DEF Types, ClientTyped, DialerResults
      <4> QED
        BY <2>9, <4>1, <4>2, <4>3
    <3>4. br' = Tail(br)
      BY <3>3 DEF KeepReader
    <3>5. Holds(br) => Holds(br')
      BY <1>1, <3>1, <3>2, <3>4, HoldsTail
    <3> QED
      BY <2>2, <2>3, <3>1, <3>5
  <2> QED
    BY <1>4, <2>4, <2>5, <2>6, <2>7, <2>8, <2>9, SMTT(30) DEF Next, ClientStep
<1> QED
  BY <1>2, <1>3, <1>4

(* A frame that comes right behind the response is not lost, however the
   reader has cut what arrived: Dialer.Upgrade returns it with the reader or
   has not read it. *)
THEOREM HandshakeFramesKept == Spec => []FramesKept
<1>1. Init => Types /\ FrameWaits
  BY TypesInit DEF Init, FrameWaits
<1>2. Types /\ FrameWaits /\ [Next]_vars => Types' /\ FrameWaits'
  BY TypesNext, FrameNext
<1>3. Types /\ FrameWaits => FramesKept
  <2> SUFFICES ASSUME Types, FrameWaits, sat = "over", hs.err = "nil", chs.err = "nil"
               PROVE  Frame \in ToSet(br \o toClient)
    BY DEF FramesKept
  <2>1. br \in Seq(Responses) /\ toClient \in Seq(Responses)
    BY DEF Types, WiresTyped
  <2>2. Holds(br) \/ Holds(toClient)
    BY DEF FrameWaits
  <2>3. \E i \in DOMAIN (br \o toClient) : (br \o toClient)[i] = Frame
    <3>1. CASE Holds(br)
      <4>1. PICK i \in 1..Len(br) : br[i] = Frame
        BY <3>1 DEF Holds
      <4>2. i \in DOMAIN (br \o toClient) /\ (br \o toClient)[i] = br[i]
        BY <2>1
      <4> QED
        BY <4>1, <4>2
    <3>2. CASE Holds(toClient)
      <4>1. PICK i \in 1..Len(toClient) : toClient[i] = Frame
        BY <3>2 DEF Holds
      <4>2. /\ Len(br) + i \in DOMAIN (br \o toClient)
            /\ (br \o toClient)[Len(br) + i] = toClient[i]
        BY <2>1
      <4> QED
        BY <4>1, <4>2
    <3> QED
      BY <2>2, <3>1, <3>2
  <2> QED
    BY <2>3 DEF ToSet
<1> QED
  BY <1>1, <1>2, <1>3, PTL DEF Spec

-----------------------------------------------------------------------------
(* The verdict of the Dialer. *)

LEMMA StatusJudged ==
  ASSUME NEW r \in ResponseValues("status"), r # Garbled
  PROVE  StatusError(r) = "nil" <=> r.version[1] = 1 /\ r.version[2] >= 1 /\ r.code = 101
<1>1. r.version \in Versions
  <2> HIDE DEF Codes
  <2> QED
    BY DEF ResponseValues
<1>2. r.version[2] \in {0, 1}
  BY <1>1 DEF Versions
<1>3. BadVersion(r.version) <=> ~(r.version[1] = 1 /\ r.version[2] >= 1)
  BY <1>2 DEF BadVersion
<1> QED
  BY <1>3 DEF StatusError

(* A response is accepted if its status is good, if its headers are, one by one, and if
   none is missing. *)
LEMMA AcceptedByKey ==
  ASSUME NEW r \in ResponseValues("status"), r # Garbled, NEW h
  PROVE  Accepts(r, h) <=>
           ResponseSoFar(r, h) /\ \A k \in ResponseKeys : h[k] # <<>>
<1>1. ResponseSoFar(r, h) <=>
        /\ StatusError(r) = "nil"
        /\ h["malformed"] = <<>>
        /\ \A i \in DOMAIN h["Upgrade"] : h["Upgrade"][i] = "websocket"
        /\ \A i \in DOMAIN h["Connection"] : h["Connection"][i] = "Upgrade"
        /\ \A i \in DOMAIN h["SecAccept"] : h["SecAccept"][i] = CNonce
        /\ h["SecProtocol"] # <<>> => Head(h["SecProtocol"]) \in ToSet(cli.protocols)
        /\ \A i \in DOMAIN h["SecExtensions"] :
             /\ ToSet(h["SecExtensions"][i].toks) \subseteq ToSet(cli.exts)
             /\ ~h["SecExtensions"][i].bad
  BY KeyNames DEF ResponseSoFar, KeyGood
<1> QED
  BY <1>1, StatusJudged DEF Accepts, ValidButProtocol

LEMMA AllAppended ==
  ASSUME NEW S, NEW s \in Seq(S), NEW v \in S
  PROVE  /\ \A i \in DOMAIN s : Append(s, v)[i] = s[i] /\ i \in DOMAIN Append(s, v)
         /\ Len(s) + 1 \in DOMAIN Append(s, v) /\ Append(s, v)[Len(s) + 1] = v
         /\ \A i \in DOMAIN Append(s, v) : i \in DOMAIN s \/ i = Len(s) + 1
         /\ Append(s, v) # <<>>
  OBVIOUS

LEMMA MatchSelectedJudged ==
  ASSUME NEW list \in TokenLists(Extensions), NEW wanted, NEW received
  PROVE  MatchSelected(list, wanted, received).err = "nil"
           <=> ToSet(list.toks) \subseteq ToSet(wanted) /\ ~list.bad
<1> DEFINE n == Len(list.toks)
           asked(i) == list.toks[i] \in ToSet(wanted)
<1>1. list.toks \in Seq(Extensions)
  BY DEF TokenLists
<1>2. MatchSelected(list, wanted, received).err =
        IF \E i \in 1..(n - 1) : ~asked(i) THEN "BadExtensions"
        ELSE IF list.bad THEN "MalformedResponse"
        ELSE IF n > 0 /\ ~asked(n) THEN "BadExtensions" ELSE "nil"
  BY DEF MatchSelected
<1>3. ToSet(list.toks) \subseteq ToSet(wanted) <=> \A i \in 1..n : asked(i)
  <2>1. ToSet(list.toks) = {list.toks[i] : i \in 1..n}
    BY <1>1 DEF ToSet
  <2> HIDE DEF n
  <2> QED
    BY <2>1
<1>4. (\A i \in 1..n : asked(i)) <=> (\A i \in 1..(n - 1) : asked(i)) /\ (n > 0 => asked(n))
  <2>1. PICK m \in Nat : m = n
    BY <1>1
  <2>2. \A i \in 1..m : i \in 1..(m - 1) \/ (m > 0 /\ i = m)
    OBVIOUS
  <2>3. \A i \in 1..(m - 1) : i \in 1..m
    OBVIOUS
  <2>4. m > 0 => m \in 1..m
    OBVIOUS
  <2> HIDE DEF n, asked
  <2> QED
    BY <2>1, <2>2, <2>3, <2>4, Zenon
<1> HIDE DEF n, asked
<1> QED
  BY <1>2, <1>3, <1>4

(* One more header: it is good if and only if CJudge makes no error of it. *)
LEMMA HeaderJudged ==
  ASSUME Types, chs.err = "nil", NEW k \in Keys, NEW v \in ResponseValues(k), k # "other",
         KeyGood(k, chdr[k]),
         chs.protocol = NoProtocol <=> chdr["SecProtocol"] = <<>>
  PROVE  /\ CJudge(k, v).err = "nil" <=> KeyGood(k, Append(chdr[k], v))
         /\ CJudge(k, v).err = "nil" =>
              IF k = "SecProtocol" THEN CJudge(k, v).protocol # NoProtocol
              ELSE CJudge(k, v).protocol = chs.protocol
<1>1. chdr[k] \in Seq(ResponseValues(k)) /\ chs \in DialerResults
      /\ cli.protocols \in Seq(Protocols)
  BY DEF Types, ClientTyped, SettingTyped
<1>2. PICK s : s = chdr[k]
  OBVIOUS
<1>3. s \in Seq(ResponseValues(k)) /\ KeyGood(k, s)
  BY <1>1, <1>2
<1>4. PICK t : t = Append(s, v)
  OBVIOUS
<1>5. /\ \A i \in DOMAIN s : t[i] = s[i] /\ i \in DOMAIN t
      /\ Len(s) + 1 \in DOMAIN t /\ t[Len(s) + 1] = v
      /\ \A i \in DOMAIN t : i \in DOMAIN s \/ i = Len(s) + 1
      /\ t # <<>>
  BY <1>3, <1>4, AllAppended
<1>6. CASE k = "Upgrade"
  <2>1. CJudge(k, v) = IF v # "websocket" THEN [chs EXCEPT !.err = "BadUpgrade"] ELSE chs
    BY <1>6, Zenon DEF CJudge, IsWebsocket
  <2>2. KeyGood(k, t) <=> v = "websocket"
    BY <1>3, <1>5, <1>6 DEF KeyGood
  <2> QED
    BY <1>1, <1>2, <1>4, <1>6, <2>1, <2>2 DEF DialerResults
<1>7. CASE k = "Connection"
  <2>1. CJudge(k, v) = IF v # "Upgrade" THEN [chs EXCEPT !.err = "BadConnection"] ELSE chs
    BY <1>7, Zenon DEF CJudge
  <2>2. KeyGood(k, t) <=> v = "Upgrade"
    BY <1>3, <1>5, <1>7 DEF KeyGood
  <2> QED
    BY <1>1, <1>2, <1>4, <1>7, <2>1, <2>2 DEF DialerResults
<1>8. CASE k = "SecAccept"
  <2>1. CJudge(k, v) = IF v # CNonce THEN [chs EXCEPT !.err = "BadSecAccept"] ELSE chs
    BY <1>8, Zenon DEF CJudge
  <2>2. KeyGood(k, t) <=> v = CNonce
    BY <1>3, <1>5, <1>8 DEF KeyGood
  <2> QED
    BY <1>1, <1>2, <1>4, <1>8, <2>1, <2>2 DEF DialerResults
<1>9. CASE k = "SecProtocol"
  <2>1. PICK p : p = IF v \in ToSet(cli.protocols) THEN v ELSE chs.protocol
    OBVIOUS
  <2>2. CJudge(k, v) = [chs EXCEPT !.protocol = p,
                                   !.err = IF p = NoProtocol THEN "BadSubProtocol" ELSE "nil"]
    BY <1>9, <2>1, Zenon DEF CJudge
  <2>3. /\ CJudge(k, v).protocol = p
        /\ CJudge(k, v).err = IF p = NoProtocol THEN "BadSubProtocol" ELSE "nil"
    BY <1>1, <2>2 DEF DialerResults
  <2>4. NoProtocol \notin ToSet(cli.protocols)
    <3>1. PICK q \in Seq(Protocols) : q = cli.protocols
      BY <1>1
    <3>2. \A i \in DOMAIN q : q[i] # NoProtocol
      <4>1. \A i \in DOMAIN q : q[i] \in Protocols
        OBVIOUS
      <4> QED
        BY <4>1, HttpConstants, Zenon DEF HttpConstants
    <3> QED
      BY <3>1, <3>2 DEF ToSet
  <2>5. KeyGood(k, t) <=> Head(t) \in ToSet(cli.protocols)
    BY <1>5, <1>9 DEF KeyGood
  <2>6. CASE s = <<>>
    <3>1. Head(t) = v
      BY <1>4, <2>6
    <3>2. chs.protocol = NoProtocol
      BY <1>2, <1>9, <2>6
    <3> QED
      BY <1>2, <1>4, <1>9, <2>1, <2>3, <2>4, <2>5, <3>1, <3>2
  <2>7. CASE s # <<>>
    <3>1. Head(t) = Head(s)
      BY <1>3, <1>4, <2>7
    <3>2. Head(s) \in ToSet(cli.protocols)
      BY <1>3, <1>9, <2>7 DEF KeyGood
    <3>3. chs.protocol # NoProtocol
      BY <1>2, <1>9, <2>7
    <3>4. p # NoProtocol
      BY <2>1, <2>4, <3>3
    <3> QED
      BY <1>2, <1>4, <1>9, <2>3, <2>5, <3>1, <3>2, <3>4
  <2> QED
    BY <2>6, <2>7
<1>10. CASE k = "SecExtensions"
  <2>1. PICK m : m = MatchSelected(v, cli.exts, chs.exts)
    OBVIOUS
  <2>2. CJudge(k, v) = [chs EXCEPT !.exts = m.exts, !.err = m.err]
    BY <1>10, <2>1, Zenon DEF CJudge
  <2>3. CJudge(k, v).protocol = chs.protocol /\ CJudge(k, v).err = m.err
    BY <1>1, <2>2 DEF DialerResults
  <2>4. v \in TokenLists(Extensions)
    BY <1>10 DEF ResponseValues
  <2>5. m.err = "nil" <=> ToSet(v.toks) \subseteq ToSet(cli.exts) /\ ~v.bad
    BY <2>1, <2>4, MatchSelectedJudged, Zenon
  <2>6. KeyGood(k, t) <=> ToSet(v.toks) \subseteq ToSet(cli.exts) /\ ~v.bad
    BY <1>3, <1>5, <1>10 DEF KeyGood
  <2> QED
    BY <1>2, <1>4, <1>10, <2>3, <2>5, <2>6
<1>11. CASE k = "malformed"
  <2>1. CJudge(k, v) = [chs EXCEPT !.err = "MalformedResponse"]
    BY <1>11, Zenon DEF CJudge
  <2>2. CJudge(k, v).err = "MalformedResponse"
    BY <1>1, <2>1 DEF DialerResults
  <2>3. ~KeyGood(k, t)
    BY <1>5, <1>11 DEF KeyGood
  <2> QED
    BY <1>2, <1>4, <1>11, <2>2, <2>3
<1>12. CASE k \in {"Host", "SecVersion", "SecKey"}
  <2>1. CJudge(k, v) = chs
    BY <1>12, Zenon DEF CJudge
  <2>2. KeyGood(k, t)
    BY <1>12 DEF KeyGood
  <2> QED
    BY <1>2, <1>4, <1>12, <2>1, <2>2
<1> QED
  BY <1>6, <1>7, <1>8, <1>9, <1>10, <1>11, <1>12, KeyNames

LEMMA HeaderKeepsJudged ==
  ASSUME Types, Judged, ClientHeader
  PROVE  Judged'
<1>1. PICK k, v, e : HeaderRead(k, v, e)
  BY HeaderReads
<1> USE DEF HeaderRead
<1>2. cat = "headers" /\ cline' = cline /\ cli' = cli
  BY DEF ClientHeader, setting
<1>3. /\ cline \in ResponseValues("status") /\ ResponseSoFar(cline, chdr)
      /\ cseen = {x \in ResponseKeys : chdr[x] # <<>>}
      /\ chs.protocol = NoProtocol <=> chdr["SecProtocol"] = <<>>
  BY <1>2 DEF Judged
<1>4. v \in ResponseValues(k)
  BY <1>1, ResponseParts DEF Types, WiresTyped
<1>5. /\ DOMAIN chdr = Keys /\ \A x \in Keys : chdr[x] \in Seq(ResponseValues(x))
      /\ chs.err = "nil"
  BY <1>2 DEF Types, ClientTyped
<1>6. /\ k \in Keys /\ chdr'[k] = Append(chdr[k], v)
      /\ \A x \in Keys \ {k} : chdr'[x] = chdr[x]
  BY <1>1, <1>5
<1>7. CJudge(k, v) \in DialerResults
  BY <1>1, <1>4, CJudgeTyped DEF Types, SettingTyped, ClientTyped
<1>8. chs'.protocol = CJudge(k, v).protocol /\ chs'.err = e
  BY <1>1, <1>7 DEF DialerResults
<1>9. Append(chdr[k], v) # <<>>
  BY <1>4, <1>5, <1>6, AllAppended
<1>10. \A s : KeyGood(k, s)' <=> KeyGood(k, s)
  BY <1>2 DEF KeyGood
<1>11. ASSUME k # "other" PROVE e = "nil" <=> KeyGood(k, chdr'[k])
  BY <1>1, <1>3, <1>4, <1>5, <1>6, <1>11, HeaderJudged, SMTT(30) DEF ResponseSoFar
<1>12. CASE e = "nil"
  <2>1. cat' = "headers"
    BY <1>1, <1>12
  <2>2. KeyGood(k, chdr'[k])
    BY <1>11, <1>12 DEF KeyGood
  <2>3. ResponseSoFar(cline, chdr')
    BY <1>3, <1>6, <2>2 DEF ResponseSoFar
  <2>4. ResponseSoFar(cline, chdr)' 
    BY <1>2, <2>3 DEF ResponseSoFar, KeyGood
  <2>5. cseen' = {x \in ResponseKeys : chdr'[x] # <<>>}
    <3>1. ResponseKeys \subseteq Keys
      BY DEF Keys
    <3> QED
      BY <1>1, <1>3, <1>6, <1>9, <3>1
  <2>6. chs'.protocol = NoProtocol <=> chdr'["SecProtocol"] = <<>>
    <3>1. CASE k = "SecProtocol"
      <4>1. CJudge(k, v).protocol # NoProtocol
        BY <1>1, <1>3, <1>4, <1>5, <1>12, <3>1, HeaderJudged, KeyNames DEF ResponseSoFar
      <4> QED
        BY <1>6, <1>8, <1>9, <3>1, <4>1
    <3>2. CASE k # "SecProtocol"
      <4>1. CJudge(k, v).protocol = chs.protocol
        <5>1. CASE k = "other"
          BY <5>1, Zenon DEF CJudge
        <5>2. CASE k # "other"
          BY <1>1, <1>3, <1>4, <1>5, <1>12, <3>2, <5>2, HeaderJudged DEF ResponseSoFar
        <5> QED
          BY <5>1, <5>2
      <4> QED
        BY <1>3, <1>6, <1>8, <3>2, <4>1, KeyNames
    <3> QED
      BY <3>1, <3>2
  <2> QED
    BY <1>2, <1>3, <2>1, <2>4, <2>5, <2>6 DEF Judged, Verdict
<1>13. CASE e # "nil"
  <2>1. cat' = "returned"
    BY <1>1, <1>13
  <2>2. CASE k = "other"
    <3>1. chs'.err = "failed"
      BY <1>1, <1>8, <1>13, <2>2
    <3> QED
      BY <1>2, <1>3, <2>1, <3>1 DEF Judged, Verdict
  <2>3. CASE k # "other"
    <3>1. ~KeyGood(k, chdr'[k])
      BY <1>11, <1>13, <2>3
    <3>2. cline # Garbled => ~Accepts(cline, chdr')
      BY <1>3, <1>6, <3>1, AcceptedByKey DEF ResponseSoFar
    <3>3. Accepts(cline, chdr)' <=> Accepts(cline, chdr')
      BY <1>2 DEF Accepts, ValidButProtocol
    <3> QED
      BY <1>2, <1>3, <1>8, <1>13, <2>1, <3>2, <3>3 DEF Judged, Verdict
  <2> QED
    BY <2>2, <2>3
<1> QED
  BY <1>12, <1>13

LEMMA StatusKeepsJudged ==
  ASSUME Types, Judged, StatusLine
  PROVE  Judged'
<1>1. PICK r, e :
        /\ br # <<>> /\ Head(br).key = "status" /\ r = Head(br).val /\ e = StatusError(r)
        /\ cline' = r
        /\ IF e = "nil"
           THEN cat' = "headers" /\ br' = Tail(br) /\ UNCHANGED chs
           ELSE /\ cat' = "returned"
                /\ chs' = [chs EXCEPT !.err = e,
                                      !.status = IF e = "status" THEN r.code ELSE 0]
                /\ br' = KeepReader(Tail(br), e)
  BY Zenon DEF StatusLine
<1>2. cat = "line" /\ chdr' = chdr /\ cseen' = cseen /\ cli' = cli
  BY DEF StatusLine, setting
<1>3. r \in ResponseValues("status")
  BY <1>1, ResponseParts DEF Types, WiresTyped
<1>4. chdr = NoHeaders /\ chs.protocol = NoProtocol /\ cseen = {}
  BY <1>2 DEF Judged
<1>5. CASE e = "nil"
  <2>1. \A k \in Keys : KeyGood(k, NoHeaders[k])
    BY DEF NoHeaders, KeyGood
  <2>2. ResponseSoFar(cline, chdr)'
    BY <1>1, <1>2, <1>4, <1>5, <2>1 DEF ResponseSoFar, KeyGood
  <2>3. \A k \in Keys : chdr'[k] = <<>>
    BY <1>2, <1>4 DEF NoHeaders
  <2>4. cseen' = {k \in ResponseKeys : chdr'[k] # <<>>}
    BY <1>2, <1>4, <2>3 DEF Keys
  <2>5. chs'.protocol = NoProtocol /\ chdr'["SecProtocol"] = <<>>
    BY <1>1, <1>4, <1>5, <2>3, KeyNames
  <2> QED
    BY <1>1, <1>3, <1>5, <2>2, <2>4, <2>5 DEF Judged, Verdict
<1>6. CASE e # "nil"
  <2>1. cat' = "returned" /\ chs'.err = e
    BY <1>1, <1>6 DEF Types, ClientTyped, DialerResults
  <2>2. r # Garbled => ~(r.version[1] = 1 /\ r.version[2] >= 1 /\ r.code = 101)
    BY <1>1, <1>3, <1>6, StatusJudged
  <2>3. r # Garbled => ~Accepts(cline, chdr)'
    BY <1>1, <2>2 DEF Accepts, ValidButProtocol
  <2> QED
    BY <1>1, <1>3, <1>6, <2>1, <2>3 DEF Judged, Verdict
<1> QED
  BY <1>5, <1>6

LEMMA BlankKeepsJudged ==
  ASSUME Types, Judged, ClientBlank
  PROVE  Judged'
<1>1. /\ chs' = [chs EXCEPT !.err = CMissing] /\ cat = "headers" /\ cat' = "returned"
      /\ UNCHANGED <<cline, chdr, cseen, cli>>
  BY DEF ClientBlank, Return, setting
<1>2. /\ cline \in ResponseValues("status") /\ ResponseSoFar(cline, chdr)
      /\ cseen = {k \in ResponseKeys : chdr[k] # <<>>}
  BY <1>1 DEF Judged
<1>3. CMissing = "nil" <=> \A k \in ResponseKeys : chdr[k] # <<>>
  BY <1>2 DEF CMissing, ResponseKeys
<1>4. cline # Garbled
  BY <1>2 DEF ResponseSoFar, StatusError
<1>5. CMissing = "nil" <=> Accepts(cline, chdr)
  BY <1>2, <1>3, <1>4, AcceptedByKey
<1>6. chs'.err = CMissing
  BY <1>1 DEF Types, ClientTyped, DialerResults
<1>7. Accepts(cline, chdr)' <=> Accepts(cline, chdr)
  BY <1>1 DEF Accepts, ValidButProtocol
<1> QED
  BY <1>1, <1>2, <1>5, <1>6, <1>7 DEF Judged, Verdict

LEMMA JudgedNext == ASSUME Types, Judged, [Next]_vars PROVE Judged'
<1>1. CASE UNCHANGED <<cat, cline, chdr, cseen, chs, cli>>
  BY <1>1 DEF Judged, Verdict, Accepts, ValidButProtocol, ResponseSoFar, KeyGood
<1>2. CASE ServerStep \/ AnyClient \/ AnyServer \/ Fill \/ UNCHANGED vars
  <2>1. UNCHANGED <<cat, cline, chdr, cseen, chs, cli>>
    BY <1>2 DEF ServerStep, ServerEOF, RequestLine, GarbledRequestLine, HeaderLine, BlankLine,
         Respond, AfterUpgrade, HTTPReads, HTTPUpgraderUpgrade, AnyClient, AnyServer, Fill,
         vars, setting, client
  <2> QED
    BY <1>1, <2>1, SMTT(30)
<1>3. CASE WriteRequest \/ ClientEOF
  <2>1. /\ \/ cat' = "returned" /\ chs'.err = "io"
           \/ cat' = "line" /\ chs' = chs /\ cat = "write"
        /\ UNCHANGED <<cline, chdr, cseen, cli>>
    BY <1>3 DEF WriteRequest, ClientEOF, Return, setting, Types, ClientTyped, DialerResults
  <2> QED
    BY <2>1 DEF Judged, Verdict
<1>4. CASE StatusLine
  BY <1>4, StatusKeepsJudged
<1>5. CASE ClientHeader
  BY <1>5, HeaderKeepsJudged
<1>6. CASE ClientBlank
  BY <1>6, BlankKeepsJudged
<1> QED
  BY <1>2, <1>3, <1>4, <1>5, <1>6 DEF Next, ClientStep

(* Where no protocol comes again, what is accepted is what is good. *)
LEMMA AcceptedAreValid == Types /\ Verdict => OnlyValidAccepted
<1> SUFFICES ASSUME Types, Verdict, cat = "returned", chs.err \notin {"io", "failed"},
                    ~(cline = Garbled)
             PROVE  /\ ValidResponse(cline, chdr) => chs.err = "nil"
                    /\ chs.err = "nil" =>
                         /\ ValidButProtocol(cline, chdr)
                         /\ Len(chdr["SecProtocol"]) <= 1 => ValidResponse(cline, chdr)
  BY DEF OnlyValidAccepted
<1>1. chs.err = "nil" <=> Accepts(cline, chdr)
  BY DEF Verdict
<1>2. PICK s \in Seq(ResponseValues("SecProtocol")) : s = chdr["SecProtocol"]
  BY KeyNames DEF Types, ClientTyped
<1>3. s # <<>> => 1 \in DOMAIN s /\ Head(s) = s[1]
  OBVIOUS
<1>4. Len(s) <= 1 => \A i \in DOMAIN s : s # <<>> /\ s[i] = Head(s)
  OBVIOUS
<1>5. ValidResponse(cline, chdr) => Accepts(cline, chdr)
  BY <1>2, <1>3, Zenon DEF ValidResponse, Accepts
<1>6. Accepts(cline, chdr) /\ Len(s) <= 1 => ValidResponse(cline, chdr)
  BY <1>2, <1>4, Zenon DEF ValidResponse, Accepts
<1>7. Accepts(cline, chdr) => ValidButProtocol(cline, chdr)
  BY DEF Accepts
<1> QED
  BY <1>1, <1>2, <1>5, <1>6, <1>7, Zenon

(* A good response is accepted and no other is, in one pass over headers in any
   order and any number, each of them judged when it comes and with what has
   come before it; of a protocol header that comes again nothing is claimed:
   Dialer.Upgrade, the loop over the headers. *)
THEOREM HandshakeOnlyValidAccepted == Spec => []OnlyValidAccepted
<1>1. Init => Types /\ Judged
  <2> SUFFICES ASSUME Init PROVE Judged
    BY TypesInit
  <2>1. Garbled \in ResponseValues("status")
    BY DEF ResponseValues
  <2> QED
    BY <2>1 DEF Init, Judged, Verdict
<1>2. Types /\ Judged /\ [Next]_vars => Types' /\ Judged'
  BY TypesNext, JudgedNext
<1>3. Types /\ Judged => OnlyValidAccepted
  BY AcceptedAreValid DEF Judged
<1> QED
  BY <1>1, <1>2, <1>3, PTL DEF Spec

-----------------------------------------------------------------------------
(* The verdict of Upgrader.Upgrade.  Weighed, the invariant: the headers read so
   far are good, seen is the set of those that had to come and have, and hs
   holds the first protocol and all extensions taken from the lists that came,
   one header after the other. *)
HeaderGood(k, vs) ==
  /\ k = "malformed" => vs = <<>>
  /\ k \in DOMAIN GoodValues => \A i \in DOMAIN vs : vs[i] \in GoodValues[k]
  /\ k = "SecProtocol" /\ srv.selects =>
       \A i \in DOMAIN vs :
         vs[i].bad => \E j \in 1..i : ToSet(vs[j].toks) \cap srv.accepts # {}
  /\ k = "SecExtensions" /\ srv.negotiation # "none" =>
       \A i \in DOMAIN vs :
         /\ ~vs[i].bad
         /\ srv.negotiation = "Negotiate" =>
              \A x \in ToSet(vs[i].toks) : srv.answer[x] # "error"

RequestSoFar(r, h) ==
  r \in RequestLines /\ LineError(r) = "nil" /\ \A k \in Keys : HeaderGood(k, h[k])

Wanted == {x \in Extensions : srv.answer[x] = "accept"}

(* What is taken from the lists ps of protocols and xs of extensions, and that
   what one list gives is what it gives alone. *)
ProtocolTaken(p, ps) ==
  /\ IF srv.selects THEN IsFirst(p, ps, srv.accepts) ELSE p = NoProtocol
  /\ Len(ps) <= 1 => p = IF srv.selects /\ ps # <<>>
                         THEN SelectProtocol(Head(ps), srv.accepts).protocol ELSE NoProtocol

ExtensionsTaken(x, xs) ==
  /\ IF srv.negotiation = "none" THEN x = <<>> ELSE AreAll(x, xs, Wanted)
  /\ Len(xs) <= 1 => x = IF srv.negotiation # "none" /\ xs # <<>>
                         THEN Accepted(Head(xs).toks, srv.answer) ELSE <<>>

Taken(x, h) ==
  ProtocolTaken(x.protocol, h["SecProtocol"]) /\ ExtensionsTaken(x.exts, h["SecExtensions"])

Weighed ==
  ends.server = "Upgrader" =>
    /\ sat = "line" => hdr = NoHeaders /\ seen = {} /\ hs = NoHandshake
    /\ sat = "headers" =>
         /\ RequestSoFar(sline, hdr)
         /\ seen = {k \in RequestKeys : hdr[k] # <<>>}
         /\ Taken(hs, hdr)
    /\ sat = "write" =>
         /\ sline \in RequestLines
         /\ hs.err \notin {"rejected", "failed"} => (hs.err = "nil" <=> ValidRequest(sline, hdr))
         /\ hs.err = "nil" => Taken(hs, hdr)

(* The places of the tokens of some lists. *)
LEMMA PlacesIn ==
  ASSUME NEW lists
  PROVE  \A p : p \in Places(lists) <=>
                  \E i \in DOMAIN lists : \E j \in DOMAIN lists[i].toks : p = <<i, j>>
  BY DEF Places

(* Where an appended list has its tokens. *)
LEMMA PlacesAppended ==
  ASSUME NEW S, NEW vs \in Seq(TokenLists(S)), NEW v \in TokenLists(S)
  PROVE  /\ \A p \in Places(vs) : /\ p \in Places(Append(vs, v))
                                  /\ At(Append(vs, v), p) = At(vs, p)
                                  /\ p[1] \in 1..Len(vs) /\ p[2] \in Nat
         /\ \A j \in DOMAIN v.toks : /\ <<Len(vs) + 1, j>> \in Places(Append(vs, v))
                                     /\ At(Append(vs, v), <<Len(vs) + 1, j>>) = v.toks[j]
         /\ \A p \in Places(Append(vs, v)) :
              \/ p \in Places(vs)
              \/ \E j \in DOMAIN v.toks : p = <<Len(vs) + 1, j>>
<1>1. PICK ws : ws = Append(vs, v)
  OBVIOUS
<1>2. /\ \A i \in DOMAIN vs : ws[i] = vs[i] /\ i \in DOMAIN ws
      /\ Len(vs) + 1 \in DOMAIN ws /\ ws[Len(vs) + 1] = v
      /\ \A i \in DOMAIN ws : i \in DOMAIN vs \/ i = Len(vs) + 1
  BY <1>1, AllAppended
<1>3. ASSUME NEW p \in Places(vs)
      PROVE  /\ p \in Places(ws) /\ At(ws, p) = At(vs, p)
             /\ p[1] \in 1..Len(vs) /\ p[2] \in Nat
  <2>1. PICK i \in DOMAIN vs : \E j \in DOMAIN vs[i].toks : p = <<i, j>>
    BY PlacesIn
  <2>2. PICK j \in DOMAIN vs[i].toks : p = <<i, j>>
    BY <2>1
  <2>3. ws[i] = vs[i] /\ i \in DOMAIN ws
    BY <1>2
  <2>4. p \in Places(ws)
    BY <2>2, <2>3, PlacesIn
  <2>5. vs[i] \in TokenLists(S) /\ i \in 1..Len(vs)
    OBVIOUS
  <2>6. j \in Nat
    BY <2>5 DEF TokenLists
  <2> QED
    BY <2>2, <2>3, <2>4, <2>5, <2>6 DEF At
<1>4. ASSUME NEW j \in DOMAIN v.toks
      PROVE  <<Len(vs) + 1, j>> \in Places(ws) /\ At(ws, <<Len(vs) + 1, j>>) = v.toks[j]
  <2>1. PICK n \in DOMAIN ws : n = Len(vs) + 1 /\ ws[n] = v
    BY <1>2
  <2>2. <<n, j>> \in Places(ws)
    BY <2>1, PlacesIn
  <2> QED
    BY <2>1, <2>2 DEF At
<1>5. ASSUME NEW p \in Places(ws)
      PROVE  p \in Places(vs) \/ \E j \in DOMAIN v.toks : p = <<Len(vs) + 1, j>>
  <2>1. PICK i \in DOMAIN ws : \E j \in DOMAIN ws[i].toks : p = <<i, j>>
    BY PlacesIn
  <2>2. CASE i \in DOMAIN vs
    BY <1>2, <2>1, <2>2, PlacesIn
  <2>3. CASE i = Len(vs) + 1
    BY <1>2, <2>1, <2>3
  <2> QED
    BY <1>2, <2>2, <2>3
<1> QED
  BY <1>1, <1>3, <1>4, <1>5

(* The protocol that a list gives, and whether scanning it has gone well. *)
LEMMA SelectProtocolFits ==
  ASSUME NEW list \in TokenLists(Protocols), NEW accepts \in SUBSET Protocols,
         NEW s, s = SelectProtocol(list, accepts)
  PROVE  /\ s.ok <=> (list.bad => ToSet(list.toks) \cap accepts # {})
         /\ s.protocol = NoProtocol => ToSet(list.toks) \cap accepts = {}
         /\ s.protocol # NoProtocol =>
              \E j \in DOMAIN list.toks :
                /\ s.protocol = list.toks[j] /\ s.protocol \in accepts
                /\ \A i \in DOMAIN list.toks : i < j => list.toks[i] \notin accepts
<1> DEFINE hits == {i \in DOMAIN list.toks : list.toks[i] \in accepts}
<1>1. list.toks \in Seq(Protocols) /\ list.bad \in BOOLEAN
  BY DEF TokenLists
<1>2. ToSet(list.toks) \cap accepts # {} <=> hits # {}
  BY DEF ToSet
<1>3. CASE hits = {}
  <2>1. s = [protocol |-> NoProtocol, ok |-> ~list.bad]
    BY <1>3 DEF SelectProtocol
  <2>2. ToSet(list.toks) \cap accepts = {}
    BY <1>2, <1>3
  <2>3. s.protocol = NoProtocol /\ s.ok = ~list.bad
    BY <2>1
  <2> HIDE DEF hits
  <2> QED
    BY <1>1, <2>2, <2>3, Zenon
<1>4. CASE hits # {}
  <2>1. hits \in SUBSET Nat /\ hits \subseteq DOMAIN list.toks
    BY <1>1
  <2>2. Min(hits) \in hits /\ \A j \in hits : Min(hits) <= j
    <3> HIDE DEF hits
    <3> QED
      BY <1>4, <2>1, Smallest
  <2>3. PICK m \in hits : m = Min(hits) /\ \A j \in hits : m <= j
    BY <2>2
  <2>4. s = [protocol |-> list.toks[m], ok |-> TRUE]
    BY <1>4, <2>3, Zenon DEF SelectProtocol
  <2>5. m \in DOMAIN list.toks /\ list.toks[m] \in accepts
    OBVIOUS
  <2>6. \A j \in DOMAIN list.toks : j < m => list.toks[j] \notin accepts
    <3>1. ASSUME NEW j \in DOMAIN list.toks, j < m, list.toks[j] \in accepts PROVE FALSE
      <4>1. j \in hits
        BY <3>1
      <4>2. m <= j /\ j \in Nat /\ m \in Nat
        BY <1>1, <2>1, <2>3, <4>1
      <4> QED
        BY <3>1, <4>2
    <3> QED
      BY <3>1
  <2>7. list.toks[m] # NoProtocol
    BY <2>5, HttpConstants DEF HttpConstants
  <2> HIDE DEF hits
  <2> QED
    BY <1>2, <1>4, <2>4, <2>5, <2>6, <2>7
<1> QED
  BY <1>3, <1>4

(* One more list: the first wanted token stays, or is one of the list. *)
LEMMA FirstAppended ==
  ASSUME NEW vs \in Seq(TokenLists(Protocols)), NEW v \in TokenLists(Protocols),
         NEW accepts \in SUBSET Protocols, NEW x, IsFirst(x, vs, accepts)
  PROVE  IF x # NoProtocol THEN IsFirst(x, Append(vs, v), accepts)
         ELSE IsFirst(SelectProtocol(v, accepts).protocol, Append(vs, v), accepts)
<1>1. PICK ws : ws = Append(vs, v)
  OBVIOUS
<1>2. PICK n \in Nat : n = Len(vs)
  OBVIOUS
<1>3. /\ \A p \in Places(vs) : /\ p \in Places(ws) /\ At(ws, p) = At(vs, p)
                               /\ p[1] \in 1..n /\ p[2] \in Nat
      /\ \A j \in DOMAIN v.toks : <<n + 1, j>> \in Places(ws) /\ At(ws, <<n + 1, j>>) = v.toks[j]
      /\ \A p \in Places(ws) : p \in Places(vs) \/ \E j \in DOMAIN v.toks : p = <<n + 1, j>>
  BY <1>1, <1>2, PlacesAppended
<1>4. \A p \in Places(vs), j \in DOMAIN v.toks : ~Before(<<n + 1, j>>, p)
  BY <1>3 DEF Before
<1>5. CASE x # NoProtocol
  <2>1. PICK p \in Places(vs) :
          /\ x = At(vs, p) /\ x \in accepts
          /\ \A q \in Places(vs) : Before(q, p) => At(vs, q) \notin accepts
    BY <1>5 DEF IsFirst
  <2>2. \A q \in Places(ws) : Before(q, p) => At(ws, q) \notin accepts
    BY <1>3, <1>4, <2>1
  <2> QED
    BY <1>1, <1>3, <1>5, <2>1, <2>2 DEF IsFirst
<1>6. CASE x = NoProtocol
  <2>1. \A p \in Places(vs) : At(vs, p) \notin accepts
    <3>1. NoProtocol \notin accepts
      BY HttpConstants DEF HttpConstants
    <3> QED
      BY <1>6, <3>1 DEF IsFirst
  <2>2. PICK s : s = SelectProtocol(v, accepts)
    OBVIOUS
  <2>3. CASE s.protocol = NoProtocol
    <3>1. \A j \in DOMAIN v.toks : v.toks[j] \notin accepts
      BY <2>2, <2>3, SelectProtocolFits DEF ToSet
    <3>2. \A p \in Places(ws) : At(ws, p) \notin accepts
      BY <1>3, <2>1, <3>1
    <3> QED
      BY <1>1, <1>6, <2>2, <2>3, <3>2 DEF IsFirst
  <2>4. CASE s.protocol # NoProtocol
    <3>1. PICK j \in DOMAIN v.toks :
            /\ s.protocol = v.toks[j] /\ s.protocol \in accepts
            /\ \A i \in DOMAIN v.toks : i < j => v.toks[i] \notin accepts
      BY <2>2, <2>4, SelectProtocolFits
    <3>2. ASSUME NEW q \in Places(ws), Before(q, <<n + 1, j>>)
          PROVE  At(ws, q) \notin accepts
      <4>1. CASE q \in Places(vs)
        BY <1>3, <2>1, <4>1
      <4>2. CASE \E i \in DOMAIN v.toks : q = <<n + 1, i>>
        <5>1. PICK i \in DOMAIN v.toks : q = <<n + 1, i>>
          BY <4>2
        <5>2. i < j
          BY <3>2, <5>1 DEF Before
        <5> QED
          BY <1>3, <3>1, <5>1, <5>2
      <4> QED
        BY <1>3, <4>1, <4>2
    <3>3. PICK p \in Places(ws) : p = <<n + 1, j>>
      BY <1>3
    <3>4. s.protocol = At(ws, p)
      BY <1>3, <3>1, <3>3
    <3>5. IsFirst(s.protocol, ws, accepts)
      BY <3>1, <3>2, <3>3, <3>4 DEF IsFirst
    <3> QED
      BY <1>1, <1>6, <2>2, <3>5
  <2> QED
    BY <2>3, <2>4
<1> QED
  BY <1>5, <1>6

(* q has the accepted ones of the first i tokens, and at says where they are. *)
Picks(q, at, toks, answer, i) ==
  /\ \A k \in 1..Len(q) : /\ at[k] \in 1..i
                          /\ q[k] = toks[at[k]] /\ answer[q[k]] = "accept"
  /\ \A k, l \in 1..Len(q) : k < l => at[k] < at[l]
  /\ \A j \in 1..i : answer[toks[j]] = "accept" => \E k \in 1..Len(q) : at[k] = j

(* One more token. *)
LEMMA PicksMore ==
  ASSUME NEW S, NEW toks \in Seq(S), NEW answer, NEW i \in 1..Len(toks),
         NEW q \in Seq(S), NEW at, Picks(q, at, toks, answer, i - 1)
  PROVE  IF answer[toks[i]] = "accept"
         THEN \E at2 : Picks(Append(q, toks[i]), at2, toks, answer, i)
         ELSE Picks(q, at, toks, answer, i)
<1>1. /\ \A k \in 1..Len(q) : at[k] \in 1..(i - 1)
      /\ \A k \in 1..Len(q) : q[k] = toks[at[k]] /\ answer[q[k]] = "accept"
      /\ \A k, l \in 1..Len(q) : k < l => at[k] < at[l]
      /\ \A j \in 1..(i - 1) : answer[toks[j]] = "accept" => \E k \in 1..Len(q) : at[k] = j
  BY DEF Picks
<1>2. i \in Nat /\ i > 0 /\ \A j \in 1..i : j \in 1..(i - 1) \/ j = i
  OBVIOUS
<1>3. CASE answer[toks[i]] # "accept"
  <2>1. \A k \in 1..Len(q) : at[k] \in 1..i
    BY <1>1, <1>2
  <2>2. \A j \in 1..i : answer[toks[j]] = "accept" => \E k \in 1..Len(q) : at[k] = j
    BY <1>1, <1>2, <1>3
  <2> QED
    BY <1>1, <1>3, <2>1, <2>2 DEF Picks
<1>4. CASE answer[toks[i]] = "accept"
  <2>1. PICK n \in Nat : n = Len(q)
    OBVIOUS
  <2>2. PICK q2 : q2 = Append(q, toks[i])
    OBVIOUS
  <2>3. /\ Len(q2) = n + 1 /\ q2[n + 1] = toks[i]
        /\ \A k \in 1..n : q2[k] = q[k]
    <3>1. toks[i] \in S
      OBVIOUS
    <3> QED
      BY <2>1, <2>2, <3>1
  <2>4. PICK at2 : at2 = [k \in 1..(n + 1) |-> IF k = n + 1 THEN i ELSE at[k]]
    OBVIOUS
  <2>5. at2[n + 1] = i /\ \A k \in 1..n : at2[k] = at[k]
    BY <2>1, <2>4
  <2>6. \A k \in 1..(n + 1) : k \in 1..n \/ k = n + 1
    BY <2>1
  <2>7. \A k \in 1..(n + 1) : /\ at2[k] \in 1..i
                              /\ q2[k] = toks[at2[k]] /\ answer[q2[k]] = "accept"
    BY <1>1, <1>2, <1>4, <2>1, <2>3, <2>5, <2>6, SMTT(30)
  <2>8. \A k, l \in 1..(n + 1) : k < l => at2[k] < at2[l]
    <3>1. ASSUME NEW k \in 1..(n + 1), NEW l \in 1..(n + 1), k < l PROVE at2[k] < at2[l]
      <4>1. k \in 1..n
        BY <2>1, <3>1
      <4>2. CASE l \in 1..n
        BY <1>1, <2>1, <2>5, <3>1, <4>1, <4>2
      <4>3. CASE l = n + 1
        BY <1>1, <1>2, <2>1, <2>5, <4>1, <4>3
      <4> QED
        BY <2>6, <4>2, <4>3
    <3> QED
      BY <3>1
  <2>9. ASSUME NEW j \in 1..i, answer[toks[j]] = "accept"
        PROVE  \E k \in 1..(n + 1) : at2[k] = j
    <3>1. CASE j = i
      <4>1. n + 1 \in 1..(n + 1)
        BY <2>1
      <4> QED
        BY <2>5, <3>1, <4>1
    <3>2. CASE j \in 1..(i - 1)
      <4>1. PICK k \in 1..n : at[k] = j
        BY <1>1, <2>1, <2>9, <3>2
      <4>2. k \in 1..(n + 1)
        BY <2>1
      <4> QED
        BY <2>5, <4>1, <4>2
    <3> QED
      BY <1>2, <3>1, <3>2
  <2>10. Picks(q2, at2, toks, answer, i)
    BY <2>3, <2>7, <2>8, <2>9 DEF Picks
  <2> QED
    BY <1>4, <2>2, <2>10
<1> QED
  BY <1>3, <1>4

(* The accepted tokens of a list are all of them, in their order. *)
LEMMA AcceptedInOrder ==
  ASSUME NEW S, NEW toks \in Seq(S), NEW answer
  PROVE  \E at : Picks(Accepted(toks, answer), at, toks, answer, Len(toks))
<1>1. PICK n \in Nat : n = Len(toks)
  OBVIOUS
<1>2. PICK f : Accepting(f, n, S, toks, answer)
  BY <1>1, AcceptedRounds
<1>3. /\ \A i \in 0..n : f[i] \in Seq(S)
      /\ f[0] = <<>> /\ f[n] = Accepted(toks, answer)
      /\ \A i \in 1..n :
           f[i] = IF answer[toks[i]] = "accept" THEN Append(f[i - 1], toks[i])
                  ELSE f[i - 1]
  BY <1>2 DEF Accepting
<1> DEFINE T == {i \in 0..n : ~ \E at : Picks(f[i], at, toks, answer, i)}
<1>4. T = {}
  <2>1. SUFFICES ASSUME T # {} PROVE FALSE
    OBVIOUS
  <2>2. T \in SUBSET Nat
    OBVIOUS
  <2>3. PICK x \in T : \A y \in T : x <= y
    <3> HIDE DEF T
    <3> QED
      BY <2>1, <2>2, Least
  <2>4. x # 0
    <3>1. Picks(f[0], <<>>, toks, answer, 0)
      BY <1>3 DEF Picks
    <3> QED
      BY <3>1
  <2>5. x \in 1..n /\ x - 1 \in 0..n /\ x - 1 \notin T
    <3>1. x \in 1..n /\ x - 1 \in 0..n /\ ~(x <= x - 1)
      BY <2>4
    <3> QED
      BY <2>3, <3>1
  <2>6. PICK at : Picks(f[x - 1], at, toks, answer, x - 1)
    BY <2>5
  <2>7. \E at2 : Picks(f[x], at2, toks, answer, x)
    <3>1. f[x - 1] \in Seq(S)
      BY <1>3, <2>5
    <3>2. IF answer[toks[x]] = "accept"
          THEN \E at2 : Picks(Append(f[x - 1], toks[x]), at2, toks, answer, x)
          ELSE Picks(f[x - 1], at, toks, answer, x)
      BY <1>1, <2>5, <2>6, <3>1, PicksMore
    <3> HIDE DEF T
    <3> QED
      BY <1>3, <2>5, <3>2
  <2> QED
    BY <2>7
<1>5. n \in 0..n
  OBVIOUS
<1> QED
  BY <1>1, <1>3, <1>4, <1>5

(* One more list: its accepted tokens are added to those there are. *)
LEMMA AllAppendedTokens ==
  ASSUME NEW vs \in Seq(TokenLists(Extensions)), NEW v \in TokenLists(Extensions),
         NEW xs \in Seq(Extensions), AreAll(xs, vs, Wanted)
  PROVE  AreAll(xs \o Accepted(v.toks, srv.answer), Append(vs, v), Wanted)
<1>1. PICK ws : ws = Append(vs, v)
  OBVIOUS
<1>2. PICK n \in Nat : n = Len(vs)
  OBVIOUS
<1>3. /\ \A p \in Places(vs) : /\ p \in Places(ws) /\ At(ws, p) = At(vs, p)
                               /\ p[1] \in 1..n /\ p[2] \in Nat
      /\ \A j \in DOMAIN v.toks : <<n + 1, j>> \in Places(ws) /\ At(ws, <<n + 1, j>>) = v.toks[j]
      /\ \A p \in Places(ws) : p \in Places(vs) \/ \E j \in DOMAIN v.toks : p = <<n + 1, j>>
  BY <1>1, <1>2, PlacesAppended
<1>4. v.toks \in Seq(Extensions)
  BY DEF TokenLists
<1>5. PICK more \in Seq(Extensions) : more = Accepted(v.toks, srv.answer)
  BY <1>4, AcceptedTyped
<1>6. PICK m \in Nat : m = Len(v.toks) /\ DOMAIN v.toks = 1..m
  BY <1>4
<1>7. PICK on : Picks(more, on, v.toks, srv.answer, m)
  BY <1>4, <1>5, <1>6, AcceptedInOrder
<1>8. PICK at \in [DOMAIN xs -> Places(vs)] :
        /\ \A i \in DOMAIN xs : xs[i] = At(vs, at[i]) /\ xs[i] \in Wanted
        /\ \A i, j \in DOMAIN xs : i < j => Before(at[i], at[j])
        /\ \A p \in Places(vs) : At(vs, p) \in Wanted => \E i \in DOMAIN xs : at[i] = p
  BY DEF AreAll
<1>9. PICK a, b : a = Len(xs) /\ b = Len(more)
  OBVIOUS
<1>10. a \in Nat /\ b \in Nat /\ DOMAIN xs = 1..a
  BY <1>9
<1>11. PICK ys : ys = xs \o more
  OBVIOUS
<1>12. /\ DOMAIN ys = 1..(a + b)
       /\ \A i \in 1..a : ys[i] = xs[i]
       /\ \A i \in (a + 1)..(a + b) : ys[i] = more[i - a]
  BY <1>9, <1>11
<1>13. PICK at2 : at2 = [i \in 1..(a + b) |-> IF i <= a THEN at[i] ELSE <<n + 1, on[i - a]>>]
  OBVIOUS
<1>14. /\ \A i \in 1..a : at2[i] = at[i]
       /\ \A i \in (a + 1)..(a + b) : at2[i] = <<n + 1, on[i - a]>>
  BY <1>10, <1>13
<1>15. /\ \A i \in 1..(a + b) : i \in 1..a \/ i \in (a + 1)..(a + b)
       /\ \A i \in (a + 1)..(a + b) : i - a \in 1..b
  BY <1>10
<1>16. /\ \A k \in 1..b : on[k] \in 1..m
       /\ \A k \in 1..b : more[k] = v.toks[on[k]] /\ srv.answer[more[k]] = "accept"
       /\ \A k, l \in 1..b : k < l => on[k] < on[l]
       /\ \A j \in 1..m : srv.answer[v.toks[j]] = "accept" => \E k \in 1..b : on[k] = j
  BY <1>7, <1>9 DEF Picks
<1>17. \A k \in 1..b : more[k] \in Wanted
  <2>1. \A k \in 1..b : more[k] \in Extensions
    BY <1>9
  <2> QED
    BY <1>16, <2>1 DEF Wanted
<1>18. ASSUME NEW i \in 1..(a + b)
       PROVE  at2[i] \in Places(ws) /\ ys[i] = At(ws, at2[i]) /\ ys[i] \in Wanted
  <2>1. CASE i \in 1..a
    <3>1. at[i] \in Places(vs)
      BY <1>8, <1>10, <2>1
    <3> QED
      BY <1>3, <1>8, <1>10, <1>12, <1>14, <2>1, <3>1, Zenon
  <2>2. CASE i \in (a + 1)..(a + b)
    <3>1. PICK k \in 1..b : k = i - a
      BY <1>15, <2>2
    <3>2. on[k] \in DOMAIN v.toks
      BY <1>6, <1>16
    <3>3. at2[i] = <<n + 1, on[k]>> /\ ys[i] = more[k]
      BY <1>12, <1>14, <2>2, <3>1
    <3> QED
      BY <1>3, <1>16, <1>17, <3>2, <3>3
  <2> QED
    BY <1>15, <2>1, <2>2
<1>19. ASSUME NEW i \in 1..(a + b), NEW j \in 1..(a + b), i < j
       PROVE  Before(at2[i], at2[j])
  <2>1. CASE j \in 1..a
    <3>1. i \in 1..a
      BY <1>10, <1>19, <2>1
    <3> QED
      BY <1>8, <1>10, <1>14, <1>19, <2>1, <3>1
  <2>2. CASE i \in 1..a /\ j \in (a + 1)..(a + b)
    <3>1. PICK p \in Places(vs) : p = at[i]
      BY <1>8, <1>10, <2>2
    <3>2. p[1] \in 1..n
      BY <1>3
    <3>3. p[1] < n + 1
      BY <3>2
    <3>4. at2[i] = p /\ at2[j] = <<n + 1, on[j - a]>>
      BY <1>14, <2>2, <3>1
    <3> QED
      BY <3>3, <3>4 DEF Before
  <2>3. CASE i \in (a + 1)..(a + b) /\ j \in (a + 1)..(a + b)
    <3>1. PICK k \in 1..b : k = i - a
      BY <1>15, <2>3
    <3>2. PICK l \in 1..b : l = j - a
      BY <1>15, <2>3
    <3>3. k < l
      BY <1>10, <1>19, <3>1, <3>2
    <3>4. at2[i] = <<n + 1, on[k]>> /\ at2[j] = <<n + 1, on[l]>>
      BY <1>14, <2>3, <3>1, <3>2
    <3> QED
      BY <1>16, <3>3, <3>4 DEF Before
  <2> QED
    BY <1>10, <1>15, <1>19, <2>1, <2>2, <2>3
<1>20. ASSUME NEW p \in Places(ws), At(ws, p) \in Wanted
       PROVE  \E i \in 1..(a + b) : at2[i] = p
  <2>1. CASE p \in Places(vs)
    <3>1. PICK i \in 1..a : at[i] = p
      BY <1>3, <1>8, <1>10, <1>20, <2>1
    <3>2. i \in 1..(a + b)
      BY <1>10
    <3> QED
      BY <1>14, <3>1, <3>2
  <2>2. CASE \E j \in DOMAIN v.toks : p = <<n + 1, j>>
    <3>1. PICK j \in DOMAIN v.toks : p = <<n + 1, j>>
      BY <2>2
    <3>2. srv.answer[v.toks[j]] = "accept"
      BY <1>3, <1>20, <3>1 DEF Wanted
    <3>3. PICK k \in 1..b : on[k] = j
      BY <1>6, <1>16, <3>2
    <3>4. a + k \in (a + 1)..(a + b) /\ a + k \in 1..(a + b) /\ (a + k) - a = k
      BY <1>10
    <3> QED
      BY <1>14, <3>1, <3>3, <3>4
  <2> QED
    BY <1>3, <2>1, <2>2
<1>21. at2 \in [DOMAIN ys -> Places(ws)]
  BY <1>12, <1>13, <1>18
<1>22. AreAll(ys, ws, Wanted)
  <2>1. \A i \in DOMAIN ys : ys[i] = At(ws, at2[i]) /\ ys[i] \in Wanted
    BY <1>12, <1>18
  <2>2. \A i, j \in DOMAIN ys : i < j => Before(at2[i], at2[j])
    BY <1>12, <1>19
  <2>3. \A p \in Places(ws) : At(ws, p) \in Wanted => \E i \in DOMAIN ys : at2[i] = p
    BY <1>12, <1>20
  <2> QED
    BY <1>21, <2>1, <2>2, <2>3, Zenon DEF AreAll
<1> QED
  BY <1>1, <1>5, <1>11, <1>22

(* r is what negotiating a list after dest should come to. *)
Fits(r, list, dest, answer) ==
  /\ r.err = "nil" <=> ~list.bad /\ \A x \in ToSet(list.toks) : answer[x] # "error"
  /\ r.err = "nil" => r.exts = dest \o Accepted(list.toks, answer)

(* Negotiating a list comes to that: negotiateExtensions. *)
LEMMA NegotiateFits ==
  ASSUME NEW list \in TokenLists(Extensions), NEW dest, NEW answer
  PROVE  Fits(NegotiateExtensions(list, dest, answer), list, dest, answer)
<1> SUFFICES ASSUME NEW r, r = NegotiateExtensions(list, dest, answer)
             PROVE  Fits(r, list, dest, answer)
  OBVIOUS
<1> USE DEF Fits
<1> DEFINE n == Len(list.toks)
           refused(i) == answer[list.toks[i]] = "error"
<1>1. list.toks \in Seq(Extensions)
  BY DEF TokenLists
<1>2. PICK all : all = dest \o Accepted(list.toks, answer)
  OBVIOUS
<1>3. r = IF \E i \in 1..(n - 1) : refused(i) THEN [exts |-> <<>>, err |-> "refused"]
          ELSE IF list.bad THEN [exts |-> <<>>, err |-> "MalformedRequest"]
          ELSE IF n > 0 /\ refused(n) THEN [exts |-> <<>>, err |-> "refused"]
          ELSE [exts |-> all, err |-> "nil"]
  BY <1>2, Zenon DEF NegotiateExtensions
<1>4. (\A x \in ToSet(list.toks) : answer[x] # "error") <=> \A i \in 1..n : ~refused(i)
  <2>1. ToSet(list.toks) = {list.toks[i] : i \in 1..n}
    BY <1>1 DEF ToSet
  <2> HIDE DEF n
  <2> QED
    BY <2>1
<1>5. (\A i \in 1..n : ~refused(i)) <=> (\A i \in 1..(n - 1) : ~refused(i)) /\ (n > 0 => ~refused(n))
  <2>1. PICK m \in Nat : m = n
    BY <1>1
  <2>2. \A i \in 1..m : i \in 1..(m - 1) \/ (m > 0 /\ i = m)
    OBVIOUS
  <2>3. \A i \in 1..(m - 1) : i \in 1..m
    OBVIOUS
  <2>4. m > 0 => m \in 1..m
    OBVIOUS
  <2> HIDE DEF n, refused
  <2> QED
    BY <2>1, <2>2, <2>3, <2>4, Zenon
<1> HIDE DEF n, refused
<1>6. CASE \E i \in 1..(n - 1) : refused(i)
  <2>1. r.err = "refused"
    BY <1>3, <1>6
  <2> QED
    BY <1>4, <1>5, <1>6, <2>1
<1>7. CASE ~(\E i \in 1..(n - 1) : refused(i)) /\ list.bad
  <2>1. r.err = "MalformedRequest"
    BY <1>3, <1>7
  <2> QED
    BY <1>7, <2>1
<1>8. CASE ~(\E i \in 1..(n - 1) : refused(i)) /\ ~list.bad /\ n > 0 /\ refused(n)
  <2>1. r.err = "refused"
    BY <1>3, <1>8
  <2> QED
    BY <1>4, <1>5, <1>8, <2>1
<1>9. CASE ~(\E i \in 1..(n - 1) : refused(i)) /\ ~list.bad /\ ~(n > 0 /\ refused(n))
  <2>1. r.err = "nil" /\ r.exts = all
    BY <1>3, <1>9
  <2> QED
    BY <1>2, <1>4, <1>5, <1>9, <2>1
<1> QED
  BY <1>6, <1>7, <1>8, <1>9

(* One more header with protocols, one more with extensions. *)
LEMMA TakeProtocolFits ==
  ASSUME NEW x \in Results, x.err = "nil", NEW list, NEW opts, NEW s, NEW y,
         s = SelectProtocol(list, opts.accepts), y = TakeProtocol(x, list, opts)
  PROVE  /\ y.exts = x.exts
         /\ IF opts.selects /\ x.protocol = NoProtocol
            THEN y.protocol = s.protocol /\ (y.err = "nil" <=> s.ok)
            ELSE y.protocol = x.protocol /\ y.err = "nil"
<1>1. CASE opts.selects /\ x.protocol = NoProtocol
  <2>1. y = [x EXCEPT !.protocol = s.protocol,
                      !.err = IF s.ok THEN "nil" ELSE "MalformedRequest"]
    BY <1>1, Zenon DEF TakeProtocol
  <2>2. y.protocol = s.protocol /\ y.exts = x.exts
        /\ y.err = IF s.ok THEN "nil" ELSE "MalformedRequest"
    BY <2>1 DEF Results
  <2> QED
    BY <1>1, <2>2
<1>2. CASE ~(opts.selects /\ x.protocol = NoProtocol)
  <2>1. y = x
    BY <1>2, Zenon DEF TakeProtocol
  <2> QED
    BY <1>2, <2>1
<1> QED
  BY <1>1, <1>2

(* y is what a header with extensions should make of x. *)
ExtensionsFit(x, y, list, opts) ==
  /\ y.protocol = x.protocol
  /\ IF opts.negotiation = "none" THEN y.exts = x.exts /\ y.err = "nil"
     ELSE /\ y.err = "nil" <=>
               /\ ~list.bad
               /\ opts.negotiation = "Negotiate" =>
                    \A t \in ToSet(list.toks) : opts.answer[t] # "error"
          /\ y.err = "nil" => y.exts = x.exts \o Accepted(list.toks, opts.answer)

(* TakeExtensions makes that of it. *)
LEMMA TakeExtensionsFits ==
  ASSUME NEW x \in Results, x.err = "nil", NEW list \in TokenLists(Extensions),
         NEW opts \in Options
  PROVE  ExtensionsFit(x, TakeExtensions(x, list, opts), list, opts)
<1> SUFFICES ASSUME NEW y, y = TakeExtensions(x, list, opts)
             PROVE  ExtensionsFit(x, y, list, opts)
  OBVIOUS
<1> USE DEF ExtensionsFit
<1>1. CASE opts.negotiation = "none"
  <2>1. y = x
    BY <1>1, Zenon DEF TakeExtensions
  <2> QED
    BY <1>1, <2>1
<1>2. CASE opts.negotiation = "Negotiate"
  <2>1. PICK n : n = NegotiateExtensions(list, x.exts, opts.answer)
    OBVIOUS
  <2>2. y = [x EXCEPT !.exts = n.exts, !.err = n.err]
    BY <1>2, <2>1, Zenon DEF TakeExtensions
  <2>3. y.protocol = x.protocol /\ y.exts = n.exts /\ y.err = n.err
    BY <2>2 DEF Results
  <2>4. Fits(n, list, x.exts, opts.answer)
    BY <2>1, NegotiateFits
  <2>5. /\ n.err = "nil" <=> ~list.bad /\ \A t \in ToSet(list.toks) : opts.answer[t] # "error"
        /\ n.err = "nil" => n.exts = x.exts \o Accepted(list.toks, opts.answer)
    BY <2>4, Zenon DEF Fits
  <2> QED
    BY <1>2, <2>3, <2>5, Zenon
<1>3. CASE opts.negotiation = "Extension"
  <2>1. PICK all : all = x.exts \o Accepted(list.toks, opts.answer)
    OBVIOUS
  <2>2. PICK n : n = SelectExtensions(list, x.exts, opts.answer)
    OBVIOUS
  <2>3. n = [exts |-> all, err |-> IF list.bad THEN "MalformedRequest" ELSE "nil"]
    BY <2>1, <2>2, Zenon DEF SelectExtensions
  <2>4. y = [x EXCEPT !.exts = n.exts, !.err = n.err]
    BY <1>3, <2>2, Zenon DEF TakeExtensions
  <2>5. y.protocol = x.protocol /\ y.exts = all /\ (y.err = "nil" <=> ~list.bad)
    BY <2>3, <2>4 DEF Results
  <2> QED
    BY <1>3, <2>1, <2>5
<1> QED
  BY <1>1, <1>2, <1>3 DEF Options

(* One more header with protocols keeps what is taken from them all. *)
LEMMA ProtocolHeaderTaken ==
  ASSUME srv \in Options, NEW p, NEW ps \in Seq(TokenLists(Protocols)),
         NEW v \in TokenLists(Protocols), ProtocolTaken(p, ps),
         NEW s, s = SelectProtocol(v, srv.accepts)
  PROVE  /\ ProtocolTaken(IF srv.selects /\ p = NoProtocol THEN s.protocol ELSE p,
                          Append(ps, v))
         /\ HeaderGood("SecProtocol", ps) =>
              (HeaderGood("SecProtocol", Append(ps, v))
                 <=> (srv.selects /\ p = NoProtocol => s.ok))
<1>1. PICK qs : qs = Append(ps, v)
  OBVIOUS
<1>2. /\ \A i \in DOMAIN ps : qs[i] = ps[i] /\ i \in DOMAIN qs
      /\ Len(ps) + 1 \in DOMAIN qs /\ qs[Len(ps) + 1] = v
      /\ \A i \in DOMAIN qs : i \in DOMAIN ps \/ i = Len(ps) + 1
      /\ qs # <<>>
  BY <1>1, AllAppended
<1>3. /\ Len(qs) <= 1 => ps = <<>>
      /\ ps = <<>> => Head(qs) = v
  BY <1>1
<1>4. srv.accepts \in SUBSET Protocols /\ srv.selects \in BOOLEAN
  BY DEF Options
<1>5. CASE ~srv.selects
  <2>1. p = NoProtocol /\ ProtocolTaken(p, qs)
    BY <1>5 DEF ProtocolTaken
  <2>2. HeaderGood("SecProtocol", qs)
    BY <1>5 DEF HeaderGood, GoodValues
  <2> QED
    BY <1>1, <1>5, <2>1, <2>2
<1>6. CASE srv.selects
  <2>1. IsFirst(p, ps, srv.accepts)
    BY <1>6 DEF ProtocolTaken
  <2>2. \A vs : HeaderGood("SecProtocol", vs) <=>
          \A i \in DOMAIN vs :
            vs[i].bad => \E j \in 1..i : ToSet(vs[j].toks) \cap srv.accepts # {}
    BY <1>6 DEF HeaderGood, GoodValues
  <2>3. PICK n \in Nat : n = Len(ps) /\ DOMAIN ps = 1..n
    OBVIOUS
  <2>4. CASE p # NoProtocol
    <3>1. IsFirst(p, qs, srv.accepts)
      BY <1>1, <1>4, <2>1, <2>4, FirstAppended
    <3>2. ps # <<>>
      BY <1>6, <2>4 DEF ProtocolTaken
    <3>3. ProtocolTaken(p, qs)
      BY <1>3, <1>6, <3>1, <3>2 DEF ProtocolTaken
    <3>4. PICK c \in 1..n : ToSet(ps[c].toks) \cap srv.accepts # {}
      <4>1. PICK q \in Places(ps) : p = At(ps, q) /\ p \in srv.accepts
        BY <2>1, <2>4 DEF IsFirst
      <4>2. PICK i \in DOMAIN ps : \E j \in DOMAIN ps[i].toks : q = <<i, j>>
        BY PlacesIn
      <4>3. p \in ToSet(ps[i].toks)
        BY <4>1, <4>2 DEF At, ToSet
      <4> QED
        BY <2>3, <4>1, <4>2, <4>3
    <3>5. \E j \in 1..(n + 1) : ToSet(qs[j].toks) \cap srv.accepts # {}
      <4>1. c \in 1..(n + 1) /\ qs[c] = ps[c]
        BY <1>2, <2>3
      <4> QED
        BY <3>4, <4>1
    <3>6. HeaderGood("SecProtocol", ps) => HeaderGood("SecProtocol", qs)
      <4>1. SUFFICES ASSUME HeaderGood("SecProtocol", ps), NEW i \in DOMAIN qs, qs[i].bad
                     PROVE  \E j \in 1..i : ToSet(qs[j].toks) \cap srv.accepts # {}
        BY <2>2
      <4>2. CASE i = n + 1
        BY <3>5, <4>2
      <4>3. CASE i \in DOMAIN ps
        <5>1. PICK j \in 1..i : ToSet(ps[j].toks) \cap srv.accepts # {}
          BY <1>2, <2>2, <4>1, <4>3
        <5>2. j \in DOMAIN ps
          BY <2>3, <4>3
        <5> QED
          BY <1>2, <5>1, <5>2
      <4> QED
        BY <1>2, <2>3, <4>2, <4>3
    <3> QED
      BY <1>1, <2>4, <3>3, <3>6
  <2>5. CASE p = NoProtocol
    <3>1. IsFirst(s.protocol, qs, srv.accepts)
      BY <1>1, <1>4, <2>1, <2>5, FirstAppended
    <3>2. ProtocolTaken(s.protocol, qs)
      BY <1>2, <1>3, <1>6, <3>1 DEF ProtocolTaken
    <3>3. \A i \in 1..n : ToSet(ps[i].toks) \cap srv.accepts = {}
      <4>1. \A q \in Places(ps) : At(ps, q) \notin srv.accepts
        <5>1. NoProtocol \notin srv.accepts
          BY <1>4, HttpConstants DEF HttpConstants
        <5> QED
          BY <2>1, <2>5, <5>1 DEF IsFirst
      <4>2. ASSUME NEW i \in 1..n, NEW t \in ToSet(ps[i].toks) PROVE t \notin srv.accepts
        <5>1. PICK j \in DOMAIN ps[i].toks : t = ps[i].toks[j]
          BY DEF ToSet
        <5>2. <<i, j>> \in Places(ps)
          BY <2>3, PlacesIn
        <5> QED
          BY <4>1, <5>1, <5>2 DEF At
      <4> QED
        BY <4>2
    <3>4. s.ok <=> (v.bad => ToSet(v.toks) \cap srv.accepts # {})
      BY <1>4, SelectProtocolFits
    <3>5. (\E j \in 1..(n + 1) : ToSet(qs[j].toks) \cap srv.accepts # {})
            <=> ToSet(v.toks) \cap srv.accepts # {}
      <4>1. \A j \in 1..(n + 1) : j \in 1..n \/ j = n + 1
        BY <2>3
      <4>2. n + 1 \in 1..(n + 1) /\ qs[n + 1] = v
        BY <1>2, <2>3
      <4>3. \A j \in 1..n : qs[j] = ps[j]
        BY <1>2, <2>3
      <4> QED
        BY <3>3, <4>1, <4>2, <4>3
    <3>6. HeaderGood("SecProtocol", ps) => (HeaderGood("SecProtocol", qs) <=> s.ok)
      <4>1. ASSUME HeaderGood("SecProtocol", ps) PROVE \A i \in 1..n : ~ps[i].bad
        BY <2>2, <2>3, <3>3, <4>1
      <4>2. ASSUME HeaderGood("SecProtocol", qs) PROVE s.ok
        <5>1. v.bad => \E j \in 1..(n + 1) : ToSet(qs[j].toks) \cap srv.accepts # {}
          BY <1>2, <2>2, <2>3, <4>2
        <5> QED
          BY <3>4, <3>5, <5>1
      <4>3. ASSUME HeaderGood("SecProtocol", ps), s.ok PROVE HeaderGood("SecProtocol", qs)
        <5>1. SUFFICES ASSUME NEW i \in DOMAIN qs, qs[i].bad
                       PROVE  \E j \in 1..i : ToSet(qs[j].toks) \cap srv.accepts # {}
          BY <2>2
        <5>2. CASE i = n + 1
          <6>1. v.bad
            BY <1>2, <2>3, <5>1, <5>2
          <6> QED
            BY <3>4, <3>5, <4>3, <5>2, <6>1
        <5>3. CASE i \in DOMAIN ps
          BY <1>2, <2>3, <4>1, <4>3, <5>1, <5>3
        <5> QED
          BY <1>2, <2>3, <5>2, <5>3
      <4> QED
        BY <4>2, <4>3
    <3> QED
      BY <1>1, <1>6, <2>5, <3>2, <3>6
  <2> QED
    BY <2>4, <2>5
<1> QED
  BY <1>4, <1>5, <1>6

(* One more header with extensions keeps what is taken from them all. *)
LEMMA ExtensionsHeaderTaken ==
  ASSUME srv \in Options, NEW x \in Seq(Extensions),
         NEW xs \in Seq(TokenLists(Extensions)),
         NEW v \in TokenLists(Extensions), ExtensionsTaken(x, xs)
  PROVE  /\ ExtensionsTaken(IF srv.negotiation = "none" THEN x
                            ELSE x \o Accepted(v.toks, srv.answer), Append(xs, v))
         /\ HeaderGood("SecExtensions", xs) =>
              (HeaderGood("SecExtensions", Append(xs, v)) <=>
                 (srv.negotiation # "none" =>
                    /\ ~v.bad
                    /\ srv.negotiation = "Negotiate" =>
                         \A t \in ToSet(v.toks) : srv.answer[t] # "error"))
<1>1. PICK ys : ys = Append(xs, v)
  OBVIOUS
<1>2. /\ \A i \in DOMAIN xs : ys[i] = xs[i] /\ i \in DOMAIN ys
      /\ Len(xs) + 1 \in DOMAIN ys /\ ys[Len(xs) + 1] = v
      /\ \A i \in DOMAIN ys : i \in DOMAIN xs \/ i = Len(xs) + 1
      /\ ys # <<>>
  BY <1>1, AllAppended
<1>3. /\ Len(ys) <= 1 => xs = <<>> /\ Len(xs) <= 1
      /\ xs = <<>> => Head(ys) = v
  BY <1>1
<1>4. HeaderGood("SecExtensions", xs) =>
        (HeaderGood("SecExtensions", ys) <=>
           (srv.negotiation # "none" =>
              /\ ~v.bad
              /\ srv.negotiation = "Negotiate" =>
                   \A t \in ToSet(v.toks) : srv.answer[t] # "error"))
  BY <1>2 DEF HeaderGood, GoodValues
<1>5. CASE srv.negotiation = "none"
  <2>1. ExtensionsTaken(x, ys)
    BY <1>5 DEF ExtensionsTaken
  <2> QED
    BY <1>1, <1>4, <1>5, <2>1
<1>6. CASE srv.negotiation # "none"
  <2>1. v.toks \in Seq(Extensions)
    BY DEF TokenLists
  <2>2. PICK more \in Seq(Extensions) : more = Accepted(v.toks, srv.answer)
    BY <2>1, AcceptedTyped
  <2>3. AreAll(x, xs, Wanted)
    BY <1>6 DEF ExtensionsTaken
  <2>4. AreAll(x \o more, ys, Wanted)
    BY <1>1, <2>2, <2>3, AllAppendedTokens
  <2>5. xs = <<>> => x \o more = more
    <3>1. xs = <<>> => x = <<>>
      BY DEF ExtensionsTaken
    <3>2. <<>> \o more = more
      OBVIOUS
    <3> QED
      BY <3>1, <3>2
  <2>6. ExtensionsTaken(x \o more, ys)
    BY <1>2, <1>3, <1>6, <2>2, <2>4, <2>5 DEF ExtensionsTaken
  <2> QED
    BY <1>1, <1>4, <1>6, <2>2, <2>6
<1> QED
  BY <1>5, <1>6

-----------------------------------------------------------------------------
(* One header of a request as HeaderLine takes it. *)
RequestRead(k, v, e) ==
  /\ k \in Keys
  /\ ReadLine(Line(k, v))
  /\ hdr' = [hdr EXCEPT ![k] = Append(@, v)]
  /\ seen' = seen \cup ({k} \cap RequestKeys)
  /\ nonce' = IF k = "SecKey" /\ v \in Nonces THEN v ELSE nonce
  /\ e \in (IF k \in {"Host", "other"} THEN Hook ELSE {Judge(k, v).err})
  /\ hs' = [Judge(k, v) EXCEPT !.err = e]
  /\ sat' = IF e = "nil" THEN "headers" ELSE "write"

(* HeaderLine reads one header or another. *)
LEMMA RequestReads ==
  ASSUME HeaderLine
  PROVE  \E k, v, e : RequestRead(k, v, e)
  BY Zenon DEF HeaderLine, RequestRead

(* A request is valid when each of its headers is good and none is missing. *)
LEMMA ValidByHeader ==
  ASSUME NEW r \in RequestLines, NEW h
  PROVE  ValidRequest(r, h) <=> RequestSoFar(r, h) /\ \A k \in RequestKeys : h[k] # <<>>
<1>1. (\A k \in Keys : HeaderGood(k, h[k])) <=>
        /\ h["malformed"] = <<>>
        /\ \A k \in DOMAIN GoodValues : \A i \in DOMAIN h[k] : h[k][i] \in GoodValues[k]
        /\ srv.selects =>
             \A i \in DOMAIN h["SecProtocol"] :
               h["SecProtocol"][i].bad =>
                 \E j \in 1..i : ToSet(h["SecProtocol"][j].toks) \cap srv.accepts # {}
        /\ srv.negotiation # "none" =>
             \A i \in DOMAIN h["SecExtensions"] :
               /\ ~h["SecExtensions"][i].bad
               /\ srv.negotiation = "Negotiate" =>
                    \A x \in ToSet(h["SecExtensions"][i].toks) : srv.answer[x] # "error"
  <2>1. DOMAIN GoodValues \subseteq Keys
    BY KeyNames DEF GoodValues
  <2>2. {"malformed", "SecProtocol", "SecExtensions"} \subseteq Keys
    BY KeyNames
  <2> QED
    BY <2>1, <2>2, Zenon DEF HeaderGood
<1>2. LineError(r) = "nil" <=> r.method = "GET" /\ r.version[1] = 1 /\ r.version[2] >= 1
  <2>1. r.version \in Versions
    BY DEF RequestLines
  <2>2. r.version[2] \in {0, 1}
    BY <2>1 DEF Versions
  <2> QED
    BY <2>2 DEF LineError, BadVersion
<1> QED
  BY <1>1, <1>2 DEF ValidRequest, RequestSoFar

(* One more header: it is good if and only if Judge makes no error of it, and
   what is taken so far is taken in the right order. *)
LEMMA HeaderWeighed ==
  ASSUME Types, hs.err = "nil", NEW k \in Keys, NEW v \in RequestValues(k),
         HeaderGood(k, hdr[k]), Taken(hs, hdr),
         NEW h, h = [hdr EXCEPT ![k] = Append(@, v)]
  PROVE  /\ Judge(k, v).err = "nil" <=> HeaderGood(k, h[k])
         /\ Judge(k, v).err = "nil" => Taken(Judge(k, v), h)
<1>1. /\ DOMAIN hdr = Keys /\ \A x \in Keys : hdr[x] \in Seq(RequestValues(x))
      /\ hs \in Results /\ srv \in Options
  BY DEF Types, ServerTyped, SettingTyped
<1>2. h[k] = Append(hdr[k], v) /\ \A x \in Keys \ {k} : h[x] = hdr[x]
  BY <1>1
<1>3. CASE k = "SecProtocol"
  <2>1. PICK ps : ps = hdr["SecProtocol"]
    OBVIOUS
  <2>2. PICK s : s = SelectProtocol(v, srv.accepts)
    OBVIOUS
  <2>3. PICK y : y = TakeProtocol(hs, v, srv)
    OBVIOUS
  <2>4. v \in TokenLists(Protocols) /\ ps \in Seq(TokenLists(Protocols))
    BY <1>1, <1>3, <2>1 DEF RequestValues
  <2>5. y = Judge(k, v)
    BY <1>3, <2>3 DEF Judge
  <2>6. /\ y.exts = hs.exts
        /\ IF srv.selects /\ hs.protocol = NoProtocol
           THEN y.protocol = s.protocol /\ (y.err = "nil" <=> s.ok)
           ELSE y.protocol = hs.protocol /\ y.err = "nil"
    BY <1>1, <2>2, <2>3, TakeProtocolFits
  <2>7. /\ ProtocolTaken(IF srv.selects /\ hs.protocol = NoProtocol THEN s.protocol
                         ELSE hs.protocol, Append(ps, v))
        /\ HeaderGood("SecProtocol", ps) =>
             (HeaderGood("SecProtocol", Append(ps, v))
                <=> (srv.selects /\ hs.protocol = NoProtocol => s.ok))
    <3>1. ProtocolTaken(hs.protocol, ps)
      BY <2>1 DEF Taken
    <3> QED
      BY <1>1, <2>2, <2>4, <3>1, ProtocolHeaderTaken
  <2>8. ProtocolTaken(y.protocol, Append(ps, v))
    BY <2>6, <2>7
  <2>9. h["SecProtocol"] = Append(ps, v) /\ h["SecExtensions"] = hdr["SecExtensions"]
    BY <1>2, <1>3, <2>1, KeyNames
  <2>10. Taken(y, h)
    BY <2>6, <2>8, <2>9 DEF Taken
  <2>11. y.err = "nil" <=> HeaderGood(k, h[k])
    BY <1>3, <2>1, <2>6, <2>7, <2>9
  <2> QED
    BY <2>5, <2>10, <2>11
<1>4. CASE k = "SecExtensions"
  <2>1. PICK xs : xs = hdr["SecExtensions"]
    OBVIOUS
  <2>2. PICK y : y = TakeExtensions(hs, v, srv)
    OBVIOUS
  <2>3. v \in TokenLists(Extensions) /\ xs \in Seq(TokenLists(Extensions))
    BY <1>1, <1>4, <2>1 DEF RequestValues
  <2>4. y = Judge(k, v)
    BY <1>4, <2>2 DEF Judge
  <2>5. PICK more : more = hs.exts \o Accepted(v.toks, srv.answer)
    OBVIOUS
  <2>6. /\ y.protocol = hs.protocol
        /\ IF srv.negotiation = "none" THEN y.exts = hs.exts /\ y.err = "nil"
           ELSE /\ y.err = "nil" <=>
                     /\ ~v.bad
                     /\ srv.negotiation = "Negotiate" =>
                          \A t \in ToSet(v.toks) : srv.answer[t] # "error"
                /\ y.err = "nil" => y.exts = more
    <3>1. ExtensionsFit(hs, y, v, srv)
      BY <1>1, <2>2, <2>3, TakeExtensionsFits
    <3> QED
      BY <2>5, <3>1, Zenon DEF ExtensionsFit
  <2>7. /\ ExtensionsTaken(IF srv.negotiation = "none" THEN hs.exts ELSE more, Append(xs, v))
        /\ HeaderGood("SecExtensions", xs) =>
             (HeaderGood("SecExtensions", Append(xs, v)) <=>
                (srv.negotiation # "none" =>
                   /\ ~v.bad
                   /\ srv.negotiation = "Negotiate" =>
                        \A t \in ToSet(v.toks) : srv.answer[t] # "error"))
    <3>1. ExtensionsTaken(hs.exts, xs) /\ hs.exts \in Seq(Extensions)
      BY <1>1, <2>1 DEF Taken, Results
    <3> QED
      BY <1>1, <2>3, <2>5, <3>1, ExtensionsHeaderTaken
  <2>8. y.err = "nil" => ExtensionsTaken(y.exts, Append(xs, v))
    BY <2>6, <2>7
  <2>9. h["SecExtensions"] = Append(xs, v) /\ h["SecProtocol"] = hdr["SecProtocol"]
    BY <1>2, <1>4, <2>1, KeyNames
  <2>10. y.err = "nil" => Taken(y, h)
    BY <2>6, <2>8, <2>9 DEF Taken
  <2>11. y.err = "nil" <=> HeaderGood(k, h[k])
    BY <1>4, <2>1, <2>6, <2>7, <2>9
  <2> QED
    BY <2>4, <2>10, <2>11
<1>5. CASE k \notin {"SecProtocol", "SecExtensions"}
  <2>1. h["SecExtensions"] = hdr["SecExtensions"] /\ h["SecProtocol"] = hdr["SecProtocol"]
    BY <1>2, <1>5, KeyNames
  <2>2. PICK e : Judge(k, v) = [hs EXCEPT !.err = e]
                 /\ e = IF k = "malformed" THEN "MalformedRequest" ELSE HeaderError(k, v)
    <3>1. CASE k = "malformed"
      BY <1>5, <3>1 DEF Judge
    <3>2. CASE k # "malformed"
      BY <1>5, <3>2, Zenon DEF Judge
    <3> QED
      BY <3>1, <3>2
  <2>3. Judge(k, v).err = e /\ Judge(k, v).protocol = hs.protocol /\ Judge(k, v).exts = hs.exts
    BY <1>1, <2>2 DEF Results
  <2>4. Taken(Judge(k, v), h)
    BY <2>1, <2>3 DEF Taken
  <2>5. e = "nil" <=> HeaderGood(k, h[k])
    <3>1. PICK s : s = hdr[k]
      OBVIOUS
    <3>2. PICK t : t = h[k]
      OBVIOUS
    <3>3. s \in Seq(RequestValues(k)) /\ t = Append(s, v) /\ HeaderGood(k, s)
      BY <1>1, <1>2, <3>1, <3>2
    <3>4. /\ \A i \in DOMAIN s : t[i] = s[i] /\ i \in DOMAIN t
          /\ Len(s) + 1 \in DOMAIN t /\ t[Len(s) + 1] = v
          /\ \A i \in DOMAIN t : i \in DOMAIN s \/ i = Len(s) + 1
          /\ t # <<>>
      BY <3>3, AllAppended
    <3>5. CASE k = "malformed"
      BY <2>2, <3>2, <3>4, <3>5 DEF HeaderGood
    <3>6. CASE k \in DOMAIN GoodValues
      <4>1. HeaderGood(k, t) <=> v \in GoodValues[k]
        BY <1>5, <3>3, <3>4, <3>6 DEF HeaderGood, GoodValues
      <4>2. HeaderError(k, v) = "nil" <=> v \in GoodValues[k]
        <5>1. k \in {"Upgrade", "Connection", "SecVersion", "SecKey"}
          BY <3>6 DEF GoodValues
        <5> QED
          BY <5>1 DEF HeaderError, GoodValues, IsWebsocket, HasUpgrade
      <4> QED
        BY <2>2, <3>2, <3>6, <4>1, <4>2 DEF GoodValues
    <3>7. CASE k \notin {"malformed"} \cup DOMAIN GoodValues
      <4>1. HeaderGood(k, t)
        BY <1>5, <3>7 DEF HeaderGood
      <4>2. HeaderError(k, v) = "nil"
        BY <3>7 DEF HeaderError, GoodValues
      <4> QED
        BY <2>2, <3>2, <3>7, <4>1, <4>2
    <3> QED
      BY <3>5, <3>6, <3>7
  <2> QED
    BY <2>3, <2>4, <2>5
<1> QED
  BY <1>3, <1>4, <1>5

(* Nothing of this depends on more than the options. *)
LEMMA SameOptions ==
  ASSUME srv' = srv
  PROVE  /\ \A k, vs : HeaderGood(k, vs)' <=> HeaderGood(k, vs)
         /\ RequestSoFar(sline, hdr)' <=> RequestSoFar(sline', hdr')
         /\ Taken(hs, hdr)' <=> Taken(hs', hdr')
         /\ ValidRequest(sline, hdr)' <=> ValidRequest(sline', hdr')
  BY DEF HeaderGood, RequestSoFar, Taken, ProtocolTaken, ExtensionsTaken, Wanted, ValidRequest

(* The steps of the server that Weighed is about. *)
LEMMA HeaderKeepsWeighed ==
  ASSUME Types, Weighed, HeaderLine
  PROVE  Weighed'
<1>1. PICK k, v, e : RequestRead(k, v, e)
  BY RequestReads
<1> USE DEF RequestRead
<1>2. /\ sat = "headers" /\ ends.server = "Upgrader" /\ sline' = sline
      /\ srv' = srv /\ ends' = ends
  BY DEF HeaderLine, setting
<1>3. /\ RequestSoFar(sline, hdr) /\ seen = {x \in RequestKeys : hdr[x] # <<>>}
      /\ Taken(hs, hdr)
  BY <1>2 DEF Weighed
<1>4. v \in RequestValues(k)
  <2>1. toServer \in Seq(Requests)
    BY DEF Types, WiresTyped
  <2>2. Line(k, v).key = k /\ Line(k, v).val = v
    BY DEF Line
  <2> QED
    BY <1>1, <2>1, <2>2, ReadTyped
<1>5. hs \in Results /\ hs.err = "nil" /\ srv \in Options
  BY <1>2 DEF Types, ServerTyped, SettingTyped
<1>6. /\ DOMAIN hdr = Keys /\ \A x \in Keys : hdr[x] \in Seq(RequestValues(x))
  BY DEF Types, ServerTyped
<1>7. hdr'[k] = Append(hdr[k], v) /\ \A x \in Keys \ {k} : hdr'[x] = hdr[x]
  BY <1>1, <1>6
<1>8. HeaderGood(k, hdr[k])
  BY <1>1, <1>3 DEF RequestSoFar
<1>9. /\ Judge(k, v).err = "nil" <=> HeaderGood(k, hdr'[k])
      /\ Judge(k, v).err = "nil" => Taken(Judge(k, v), hdr')
  BY <1>1, <1>3, <1>4, <1>5, <1>8, HeaderWeighed
<1>10. Judge(k, v) \in Results
  BY <1>1, <1>4, <1>5, JudgeTyped
<1>11. hs'.err = e /\ hs'.protocol = Judge(k, v).protocol /\ hs'.exts = Judge(k, v).exts
  BY <1>1, <1>10 DEF Results
<1>12. sline \in RequestLines
  BY <1>3 DEF RequestSoFar
<1>13. CASE e = "nil"
  <2>1. Judge(k, v).err = "nil"
    <3>1. CASE k \in {"Host", "other"}
      <4>1. Judge(k, v) = [hs EXCEPT !.err = "nil"]
        BY <3>1 DEF Judge, HeaderError
      <4> QED
        BY <1>5, <4>1 DEF Results
    <3>2. CASE k \notin {"Host", "other"}
      BY <1>1, <1>13, <3>2
    <3> QED
      BY <3>1, <3>2
  <2>2. Taken(hs', hdr')
    BY <1>9, <1>11, <2>1 DEF Taken
  <2>3. RequestSoFar(sline', hdr')
    BY <1>2, <1>3, <1>7, <1>9, <2>1 DEF RequestSoFar
  <2>4. seen' = {x \in RequestKeys : hdr'[x] # <<>>}
    <3>1. RequestKeys \subseteq Keys
      BY DEF Keys
    <3>2. hdr'[k] # <<>>
      BY <1>1, <1>4, <1>6, <1>7, AllAppended
    <3> QED
      BY <1>1, <1>3, <1>7, <3>1, <3>2
  <2>5. sat' = "headers"
    BY <1>1, <1>13
  <2> QED
    BY <1>2, <2>2, <2>3, <2>4, <2>5, SameOptions DEF Weighed
<1>14. CASE e # "nil"
  <2>1. sat' = "write" /\ hs'.err # "nil"
    BY <1>1, <1>11, <1>14
  <2>2. hs'.err \notin {"rejected", "failed"} => ~ValidRequest(sline, hdr')
    <3>1. SUFFICES ASSUME e \notin {"rejected", "failed"} PROVE ~ValidRequest(sline, hdr')
      BY <1>11
    <3>2. Judge(k, v).err # "nil"
      BY <1>1, <1>14, <3>1 DEF Hook
    <3>3. ~RequestSoFar(sline, hdr')
      BY <1>1, <1>9, <3>2 DEF RequestSoFar
    <3> QED
      BY <1>12, <3>3, ValidByHeader
  <2> QED
    BY <1>2, <1>12, <2>1, <2>2, SameOptions DEF Weighed
<1> QED
  BY <1>13, <1>14

LEMMA RequestLineKeepsWeighed ==
  ASSUME Types, Weighed, RequestLine
  PROVE  Weighed'
<1>1. PICK r \in RequestLines :
        /\ sline' = r
        /\ \E e \in (IF LineError(r) = "nil" THEN Hook ELSE {LineError(r)}) :
             /\ hs' = [hs EXCEPT !.err = e]
             /\ sat' = IF e = "nil" THEN "headers" ELSE "write"
  BY Zenon DEF RequestLine
<1>2. PICK e \in (IF LineError(r) = "nil" THEN Hook ELSE {LineError(r)}) :
        /\ hs' = [hs EXCEPT !.err = e]
        /\ sat' = IF e = "nil" THEN "headers" ELSE "write"
  BY <1>1
<1>3. /\ sat = "line" /\ ends.server = "Upgrader" /\ hdr' = hdr /\ seen' = seen
      /\ srv' = srv /\ ends' = ends
  BY DEF RequestLine, setting
<1>4. hdr = NoHeaders /\ seen = {} /\ hs = NoHandshake
  BY <1>3 DEF Weighed
<1>5. hs'.err = e /\ hs'.protocol = NoProtocol /\ hs'.exts = <<>>
  BY <1>2, <1>4 DEF NoHandshake
<1>6. \A k \in Keys : hdr'[k] = <<>>
  BY <1>3, <1>4 DEF NoHeaders
<1>7. CASE e = "nil"
  <2>1. LineError(r) = "nil" /\ sat' = "headers"
    BY <1>2, <1>7
  <2>2. \A k \in Keys : HeaderGood(k, hdr'[k])
    BY <1>6 DEF HeaderGood
  <2>3. RequestSoFar(sline', hdr')
    BY <1>1, <2>1, <2>2 DEF RequestSoFar
  <2>4. hdr'["SecProtocol"] = <<>> /\ hdr'["SecExtensions"] = <<>>
    BY <1>6, KeyNames
  <2>5. Places(<<>>) = {}
    BY PlacesIn
  <2>6. IsFirst(NoProtocol, <<>>, srv.accepts) /\ AreAll(<<>>, <<>>, Wanted)
    <3>1. DOMAIN <<>> = {}
      OBVIOUS
    <3>2. [n \in {} |-> n] \in [DOMAIN <<>> -> Places(<<>>)]
      BY <3>1
    <3> QED
      BY <2>5, <3>1, <3>2, Zenon DEF IsFirst, AreAll
  <2>7. Taken(hs', hdr')
    BY <1>5, <2>4, <2>6 DEF Taken, ProtocolTaken, ExtensionsTaken
  <2>8. seen' = {k \in RequestKeys : hdr'[k] # <<>>}
    BY <1>3, <1>4, <1>6 DEF Keys
  <2> QED
    BY <1>3, <2>1, <2>3, <2>7, <2>8, SameOptions DEF Weighed
<1>8. CASE e # "nil"
  <2>1. sat' = "write" /\ hs'.err # "nil"
    BY <1>2, <1>5, <1>8
  <2>2. hs'.err \notin {"rejected", "failed"} => ~ValidRequest(sline', hdr')
    <3>1. SUFFICES ASSUME e \notin {"rejected", "failed"} PROVE ~ValidRequest(r, hdr')
      BY <1>1, <1>5
    <3>2. LineError(r) # "nil"
      BY <1>2, <1>8, <3>1 DEF Hook
    <3> QED
      BY <3>2, ValidByHeader DEF RequestSoFar
  <2> QED
    BY <1>1, <1>3, <2>1, <2>2, SameOptions DEF Weighed
<1> QED
  BY <1>7, <1>8

LEMMA BlankKeepsWeighed ==
  ASSUME Types, Weighed, BlankLine
  PROVE  Weighed'
<1>1. PICK e \in (IF Missing = "nil" THEN Hook ELSE {Missing}) : hs' = [hs EXCEPT !.err = e]
  BY Zenon DEF BlankLine
<1>2. /\ sat = "headers" /\ ends.server = "Upgrader" /\ sat' = "write"
      /\ sline' = sline /\ hdr' = hdr /\ srv' = srv /\ ends' = ends
  BY DEF BlankLine, setting
<1>3. /\ RequestSoFar(sline, hdr) /\ seen = {k \in RequestKeys : hdr[k] # <<>>}
      /\ Taken(hs, hdr)
  BY <1>2 DEF Weighed
<1>4. hs'.err = e /\ hs'.protocol = hs.protocol /\ hs'.exts = hs.exts
  BY <1>1 DEF Types, ServerTyped, Results
<1>5. Missing = "nil" <=> \A k \in RequestKeys : hdr[k] # <<>>
  BY <1>3 DEF Missing, RequestKeys
<1>6. sline \in RequestLines
  BY <1>3 DEF RequestSoFar
<1>7. Missing = "nil" <=> ValidRequest(sline, hdr)
  BY <1>3, <1>5, <1>6, ValidByHeader
<1>8. e \notin {"rejected", "failed"} => (e = "nil" <=> Missing = "nil")
  BY <1>1 DEF Hook
<1>9. Taken(hs', hdr')
  BY <1>2, <1>3, <1>4 DEF Taken
<1> QED
  BY <1>2, <1>4, <1>6, <1>7, <1>8, <1>9, SameOptions DEF Weighed

(* Every step keeps Weighed. *)
LEMMA WeighedNext == ASSUME Types, Weighed, [Next]_vars PROVE Weighed'
<1>1. CASE UNCHANGED <<ends, srv, sat, sline, hdr, seen, hs>>
  BY <1>1, SameOptions DEF Weighed
<1>2. CASE ClientStep \/ AnyClient \/ AnyServer \/ UNCHANGED vars
  <2>1. UNCHANGED <<ends, srv, sat, sline, hdr, seen, hs>>
    BY <1>2 DEF ClientStep, WriteRequest, Fill, ClientEOF, StatusLine, ClientHeader,
         ClientBlank, AnyClient, AnyServer, vars, setting, server
  <2> QED
    BY <1>1, <2>1, SMTT(30)
<1>3. CASE ServerEOF \/ GarbledRequestLine \/ Respond \/ AfterUpgrade
  <2>1. sat' \in {"returned", "over"}
    BY <1>3 DEF ServerEOF, GarbledRequestLine, Respond, AfterUpgrade
  <2> QED
    BY <2>1 DEF Weighed
<1>4. CASE HTTPReads \/ HTTPUpgraderUpgrade
  <2>1. ends'.server = "HTTPUpgrader"
    BY <1>4 DEF HTTPReads, HTTPUpgraderUpgrade, setting
  <2> QED
    BY <2>1 DEF Weighed
<1> QED
  BY <1>2, <1>3, <1>4, RequestLineKeepsWeighed, HeaderKeepsWeighed, BlankKeepsWeighed
     DEF Next, ServerStep

(* Upgrader.Upgrade accepts a request if and only if it is good, whatever the
   order and the number of its headers, and takes the first protocol and all
   extensions that it accepts, as they come. *)
THEOREM HandshakeVerdictFits == Spec => []VerdictFitsRequest
<1>1. Init => Types /\ Weighed
  <2> SUFFICES ASSUME Init PROVE Weighed
    BY TypesInit
  <2> QED
    BY DEF Init, Weighed
<1>2. Types /\ Weighed /\ [Next]_vars => Types' /\ Weighed'
  BY TypesNext, WeighedNext
<1>3. Weighed => VerdictFitsRequest
  BY DEF Weighed, VerdictFitsRequest, Taken, ProtocolTaken, ExtensionsTaken, Wanted
<1> QED
  BY <1>1, <1>2, <1>3, PTL DEF Spec

-----------------------------------------------------------------------------
(* A sequence of at most one value. *)
LEMMA ShortSeq ==
  ASSUME NEW S, NEW s \in Seq(S), Len(s) <= 1
  PROVE  s = <<>> \/ \E v : s = <<v>>
<1>1. Len(s) \in Nat /\ (s = <<>> <=> Len(s) = 0)
  BY LenProperties, EmptySeq
<1>2. CASE Len(s) = 0
  BY <1>1, <1>2
<1>3. CASE Len(s) = 1
  <2>1. PICK v \in S : v = s[1]
    BY <1>3, ElementOfSeq, SMTT(30)
  <2>2. PICK t : t = <<v>>
    OBVIOUS
  <2>3. t \in Seq(S) /\ Len(t) = 1 /\ t[1] = v
    BY <2>2
  <2>4. \A i \in 1 .. Len(s) : s[i] = t[i]
    BY <1>3, <2>1, <2>3
  <2>5. s = t
    BY <1>3, <2>3, <2>4, SeqEqual
  <2>6. s = <<v>>
    BY <2>2, <2>5
  <2>7. \E w : s = <<w>>
    <3> WITNESS v
    <3> QED
      BY <2>6
  <2> QED
    BY <2>7
<1>4. Len(s) = 0 \/ Len(s) = 1
  <2>1. PICK n \in Nat : n = Len(s)
    BY <1>1
  <2>2. n <= 1
    BY <2>1, Zenon
  <2>3. n = 0 \/ n = 1
    BY <2>2
  <2> QED
    BY <2>1, <2>3, Zenon
<1> QED
  BY <1>2, <1>3, <1>4, Zenon

(* The headers of a request of which none comes twice. *)
Single(h) ==
  /\ h["SecProtocol"] \in Seq(TokenLists(Protocols))
  /\ h["SecExtensions"] \in Seq(TokenLists(Extensions))
  /\ \A k \in Keys : h[k] = <<>> \/ \E v : h[k] = <<v>>
  /\ h["Host"] # <<"">>

(* What HTTPCheck finds wrong is what RequestSoFar and the headers that must be
   there say of the same request. *)
LEMMA CheckFits ==
  ASSUME NEW r \in RequestLines, r.version[1] = 1, NEW h, Single(h)
  PROVE  HTTPCheck(r, h) = "nil" <=>
           /\ LineError(r) = "nil"
           /\ \A k \in RequestKeys : h[k] # <<>>
           /\ \A k \in DOMAIN GoodValues : HeaderGood(k, h[k])
<1> DEFINE c1 == r.method # "GET"
           c2 == r.version[1] < 1 \/ (r.version[1] = 1 /\ r.version[2] < 1)
           c3 == Get(h, "Host") = ""
           c4 == ~IsWebsocket(Get(h, "Upgrade"))
           c5 == ~HasUpgrade(Get(h, "Connection"))
           c6 == Get(h, "SecKey") \notin Nonces
           c7 == Get(h, "SecVersion") = ""
           c8 == Get(h, "SecVersion") # "13"
<1>1. HTTPCheck(r, h) = IF c1 THEN "BadMethod" ELSE IF c2 THEN "BadProtocol"
                        ELSE IF c3 THEN "BadHost" ELSE IF c4 THEN "BadUpgrade"
                        ELSE IF c5 THEN "BadConnection" ELSE IF c6 THEN "BadSecKey"
                        ELSE IF c7 THEN "BadSecVersion" ELSE IF c8 THEN "UpgradeRequired"
                        ELSE "nil"
  BY Zenon DEF HTTPCheck
<1>2. LineError(r) = "nil" <=> ~c1 /\ ~c2
  <2>1. r.version \in Versions
    BY DEF RequestLines
  <2>2. r.version[2] \in {0, 1}
    BY <2>1 DEF Versions
  <2> QED
    BY <2>2 DEF LineError, BadVersion
<1>3. ASSUME NEW k \in Keys
      PROVE  \/ h[k] = <<>> /\ Get(h, k) = ""
             \/ \E v : h[k] = <<v>> /\ Get(h, k) = v
  <2>1. CASE h[k] = <<>>
    BY <2>1 DEF Get
  <2>2. CASE \E v : h[k] = <<v>>
    BY <2>2 DEF Get
  <2> QED
    BY <2>1, <2>2 DEF Single
<1>4. ASSUME NEW k \in DOMAIN GoodValues, "" \notin GoodValues[k]
      PROVE  h[k] # <<>> /\ HeaderGood(k, h[k]) <=> Get(h, k) \in GoodValues[k]
  <2>1. k \in Keys /\ k \notin {"malformed", "SecProtocol", "SecExtensions"}
    BY KeyNames DEF GoodValues
  <2>2. CASE h[k] = <<>> /\ Get(h, k) = ""
    BY <1>4, <2>2
  <2>3. CASE \E v : h[k] = <<v>> /\ Get(h, k) = v
    <3>1. PICK v : h[k] = <<v>> /\ Get(h, k) = v
      BY <2>3
    <3>2. h[k] # <<>> /\ DOMAIN h[k] = {1} /\ h[k][1] = v
      BY <3>1
    <3>3. HeaderGood(k, h[k]) <=> v \in GoodValues[k]
      BY <2>1, <3>2 DEF HeaderGood
    <3> QED
      BY <3>1, <3>2, <3>3
  <2> QED
    BY <1>3, <2>1, <2>2, <2>3
<1>5. ~c3 <=> h["Host"] # <<>>
  <2>1. CASE h["Host"] = <<>> /\ Get(h, "Host") = ""
    BY <2>1
  <2>2. CASE \E v : h["Host"] = <<v>> /\ Get(h, "Host") = v
    <3>1. PICK v : h["Host"] = <<v>> /\ Get(h, "Host") = v
      BY <2>2
    <3>2. v # ""
      BY <3>1 DEF Single
    <3>3. h["Host"] # <<>>
      BY <3>1
    <3>4. Get(h, "Host") # ""
      BY <3>1, <3>2
    <3> QED
      BY <3>3, <3>4
  <2> QED
    BY <1>3, <2>1, <2>2, KeyNames
<1>6. DOMAIN GoodValues = {"Upgrade", "Connection", "SecVersion", "SecKey"}
  BY DEF GoodValues
<1>7. \A k \in DOMAIN GoodValues : "" \notin GoodValues[k]
  <2>1. /\ GoodValues["Upgrade"] = {"websocket"}
        /\ GoodValues["Connection"] = {"Upgrade", "list"}
        /\ GoodValues["SecVersion"] = {"13"} /\ GoodValues["SecKey"] = Nonces
    BY DEF GoodValues
  <2>2. /\ "" \notin GoodValues["Upgrade"] /\ "" \notin GoodValues["Connection"]
        /\ "" \notin GoodValues["SecVersion"]
    BY <2>1
  <2>3. "" \notin GoodValues["SecKey"]
    BY <2>1, HttpConstants DEF HttpConstants
  <2> QED
    BY <1>6, <2>2, <2>3
<1>8. /\ ~c4 <=> Get(h, "Upgrade") \in GoodValues["Upgrade"]
      /\ ~c5 <=> Get(h, "Connection") \in GoodValues["Connection"]
      /\ ~c6 <=> Get(h, "SecKey") \in GoodValues["SecKey"]
      /\ ~c7 /\ ~c8 <=> Get(h, "SecVersion") \in GoodValues["SecVersion"]
  BY DEF GoodValues, IsWebsocket, HasUpgrade
<1>9. HTTPCheck(r, h) = "nil" <=> ~c1 /\ ~c2 /\ ~c3 /\ ~c4 /\ ~c5 /\ ~c6 /\ ~c7 /\ ~c8
  <2> HIDE DEF c1, c2, c3, c4, c5, c6, c7, c8
  <2> QED
    BY <1>1
<1>10. /\ ~c4 <=> h["Upgrade"] # <<>> /\ HeaderGood("Upgrade", h["Upgrade"])
       /\ ~c5 <=> h["Connection"] # <<>> /\ HeaderGood("Connection", h["Connection"])
       /\ ~c6 <=> h["SecKey"] # <<>> /\ HeaderGood("SecKey", h["SecKey"])
       /\ ~c7 /\ ~c8 <=> h["SecVersion"] # <<>> /\ HeaderGood("SecVersion", h["SecVersion"])
  <2> HIDE DEF c4, c5, c6, c7, c8
  <2> QED
    BY <1>4, <1>6, <1>7, <1>8
<1> HIDE DEF c1, c2, c3, c4, c5, c6, c7, c8
<1> QED
  BY <1>2, <1>5, <1>6, <1>9, <1>10 DEF RequestKeys

(* One header of each kind at most: HTTPUpgrade comes to the verdict that the
   request deserves and takes what that header gives. *)
LEMMA HTTPFits ==
  ASSUME srv \in Options, NEW r \in RequestLines, r.version[1] = 1,
         NEW h, Single(h), h["malformed"] = <<>>
  PROVE  /\ HTTPUpgrade(r, h, srv) \in Results
         /\ HTTPUpgrade(r, h, srv).err = "nil" <=> ValidRequest(r, h)
         /\ HTTPUpgrade(r, h, srv).err = "nil" =>
              /\ HTTPUpgrade(r, h, srv).protocol =
                   IF srv.selects /\ h["SecProtocol"] # <<>>
                   THEN SelectProtocol(Head(h["SecProtocol"]), srv.accepts).protocol
                   ELSE NoProtocol
              /\ HTTPUpgrade(r, h, srv).exts =
                   IF srv.negotiation # "none" /\ h["SecExtensions"] # <<>>
                   THEN Accepted(Head(h["SecExtensions"]).toks, srv.answer) ELSE <<>>
<1>1. PICK ps \in Seq(TokenLists(Protocols)) : ps = h["SecProtocol"]
  BY DEF Single
<1>2. PICK xs \in Seq(TokenLists(Extensions)) : xs = h["SecExtensions"]
  BY DEF Single
<1>3. PICK u : u = HTTPUpgrade(r, h, srv)
  OBVIOUS
<1>4. PICK c : c = HTTPCheck(r, h)
  OBVIOUS
<1>5. PICK f, g : Upgrading(f, g, r, h, srv)
  BY <1>1, <1>2, HTTPUpgradeRounds
<1>6. /\ \A i \in 0..Len(ps) : f[i] \in Results
      /\ f[0] = [protocol |-> NoProtocol, exts |-> <<>>, err |-> c]
      /\ \A i \in 1..Len(ps) : f[i] = TakeProtocol(f[i - 1], ps[i], srv)
      /\ \A i \in 0..Len(xs) : g[i] \in Results
      /\ g[0] = f[Len(ps)]
      /\ \A i \in 1..Len(xs) : g[i] = TakeExtensions(g[i - 1], xs[i], srv)
      /\ u = g[Len(xs)]
  BY <1>1, <1>2, <1>3, <1>4, <1>5 DEF Upgrading, Verdicts
<1>7. ps = <<>> \/ \E v : ps = <<v>>
  BY <1>1, KeyNames DEF Single
<1>8. xs = <<>> \/ \E v : xs = <<v>>
  BY <1>2, KeyNames DEF Single
<1>9. PICK a, b : a = f[0] /\ b = f[Len(ps)]
  OBVIOUS
<1>10. /\ a \in Results /\ a.protocol = NoProtocol /\ a.exts = <<>> /\ a.err = c
  BY <1>1, <1>6, <1>9
<1>11. \/ ps = <<>> /\ b = a
       \/ \E v \in TokenLists(Protocols) : ps = <<v>> /\ b = TakeProtocol(a, v, srv)
  <2>1. CASE ps = <<>>
    BY <1>9, <2>1
  <2>2. CASE \E v : ps = <<v>>
    <3>1. PICK v : ps = <<v>>
      BY <2>2
    <3>2. Len(ps) = 1 /\ ps[1] = v /\ v \in TokenLists(Protocols)
      BY <1>1, <3>1
    <3>3. f[1] = TakeProtocol(f[0], ps[1], srv)
      BY <1>6, <3>2
    <3> QED
      BY <1>9, <3>1, <3>2, <3>3
  <2> QED
    BY <1>7, <2>1, <2>2
<1>12. \/ xs = <<>> /\ u = b
       \/ \E v \in TokenLists(Extensions) : xs = <<v>> /\ u = TakeExtensions(b, v, srv)
  <2>1. CASE xs = <<>>
    BY <1>6, <1>9, <2>1
  <2>2. CASE \E v : xs = <<v>>
    <3>1. PICK v : xs = <<v>>
      BY <2>2
    <3>2. Len(xs) = 1 /\ xs[1] = v /\ v \in TokenLists(Extensions)
      BY <1>2, <3>1
    <3>3. g[1] = TakeExtensions(g[0], xs[1], srv)
      BY <1>6, <3>2
    <3> QED
      BY <1>6, <1>9, <3>1, <3>2, <3>3
  <2> QED
    BY <1>8, <2>1, <2>2
<1>13. b \in Results /\ u \in Results
  <2>1. Len(ps) \in 0..Len(ps) /\ Len(xs) \in 0..Len(xs)
    BY <1>1, <1>2
  <2> QED
    BY <1>6, <1>9, <2>1
<1>14. c # "nil" => b.err = c /\ u.err = c
  <2>1. SUFFICES ASSUME c # "nil" PROVE b.err = c /\ u.err = c
    OBVIOUS
  <2>2. \A x, l : x.err # "nil" => TakeProtocol(x, l, srv) = x /\ TakeExtensions(x, l, srv) = x
    BY Zenon DEF TakeProtocol, TakeExtensions
  <2>3. b.err = c
    BY <1>10, <1>11, <2>1, <2>2
  <2> QED
    BY <1>12, <2>1, <2>2, <2>3
<1>15. c = "nil" =>
         /\ b.err = "nil" <=> HeaderGood("SecProtocol", ps)
         /\ b.exts = <<>>
         /\ b.protocol = IF srv.selects /\ ps # <<>>
                         THEN SelectProtocol(Head(ps), srv.accepts).protocol ELSE NoProtocol
  <2>1. SUFFICES ASSUME c = "nil"
                 PROVE  /\ b.err = "nil" <=> HeaderGood("SecProtocol", ps)
                        /\ b.exts = <<>>
                        /\ b.protocol =
                             IF srv.selects /\ ps # <<>>
                             THEN SelectProtocol(Head(ps), srv.accepts).protocol
                             ELSE NoProtocol
    OBVIOUS
  <2>2. CASE ps = <<>> /\ b = a
    <3>1. HeaderGood("SecProtocol", ps)
      BY <2>2 DEF HeaderGood, GoodValues
    <3> QED
      BY <1>10, <2>1, <2>2, <3>1
  <2>3. CASE \E v \in TokenLists(Protocols) : ps = <<v>> /\ b = TakeProtocol(a, v, srv)
    <3>1. PICK v \in TokenLists(Protocols) : ps = <<v>> /\ b = TakeProtocol(a, v, srv)
      BY <2>3
    <3>2. PICK s : s = SelectProtocol(v, srv.accepts)
      OBVIOUS
    <3>3. ps # <<>> /\ Head(ps) = v /\ DOMAIN ps = {1} /\ ps[1] = v
      BY <3>1
    <3>4. /\ b.exts = <<>>
          /\ IF srv.selects THEN b.protocol = s.protocol /\ (b.err = "nil" <=> s.ok)
             ELSE b.protocol = NoProtocol /\ b.err = "nil"
      BY <1>10, <2>1, <3>1, <3>2, TakeProtocolFits
    <3>5. s.ok <=> (v.bad => ToSet(v.toks) \cap srv.accepts # {})
      <4>1. srv.accepts \in SUBSET Protocols
        BY DEF Options
      <4> QED
        BY <3>2, <4>1, SelectProtocolFits
    <3>6. HeaderGood("SecProtocol", ps) <=> (srv.selects => s.ok)
      <4>1. 1..1 = {1}
        OBVIOUS
      <4>2. HeaderGood("SecProtocol", ps) <=>
              (srv.selects => \A i \in DOMAIN ps :
                 ps[i].bad => \E j \in 1..i : ToSet(ps[j].toks) \cap srv.accepts # {})
        BY DEF HeaderGood, GoodValues
      <4> QED
        BY <3>3, <3>5, <4>1, <4>2
    <3> QED
      BY <3>2, <3>3, <3>4, <3>6
  <2> QED
    BY <1>11, <2>2, <2>3
<1>16. b.err # "nil" => u.err # "nil"
  <2>1. \A l : b.err # "nil" => TakeExtensions(b, l, srv) = b
    BY Zenon DEF TakeExtensions
  <2> QED
    BY <1>12, <2>1
<1>17. c = "nil" /\ b.err = "nil" =>
         /\ u.err = "nil" <=> HeaderGood("SecExtensions", xs)
         /\ u.protocol = b.protocol
         /\ u.err = "nil" => u.exts = IF srv.negotiation # "none" /\ xs # <<>>
                                      THEN Accepted(Head(xs).toks, srv.answer) ELSE <<>>
  <2>1. SUFFICES ASSUME c = "nil", b.err = "nil"
                 PROVE  /\ u.err = "nil" <=> HeaderGood("SecExtensions", xs)
                        /\ u.protocol = b.protocol
                        /\ u.err = "nil" =>
                             u.exts = IF srv.negotiation # "none" /\ xs # <<>>
                                      THEN Accepted(Head(xs).toks, srv.answer) ELSE <<>>
    OBVIOUS
  <2>2. CASE xs = <<>> /\ u = b
    <3>1. HeaderGood("SecExtensions", xs)
      BY <2>2 DEF HeaderGood, GoodValues
    <3> QED
      BY <1>15, <2>1, <2>2, <3>1
  <2>3. CASE \E v \in TokenLists(Extensions) : xs = <<v>> /\ u = TakeExtensions(b, v, srv)
    <3>1. PICK v \in TokenLists(Extensions) : xs = <<v>> /\ u = TakeExtensions(b, v, srv)
      BY <2>3
    <3>2. xs # <<>> /\ Head(xs) = v /\ DOMAIN xs = {1} /\ xs[1] = v
      BY <3>1
    <3>3. PICK more \in Seq(Extensions) : more = Accepted(v.toks, srv.answer)
      <4>1. v.toks \in Seq(Extensions)
        BY DEF TokenLists
      <4> QED
        BY <4>1, AcceptedTyped
    <3>4. <<>> \o more = more
      OBVIOUS
    <3>5. /\ u.protocol = b.protocol
          /\ IF srv.negotiation = "none" THEN u.exts = b.exts /\ u.err = "nil"
             ELSE /\ u.err = "nil" <=>
                       /\ ~v.bad
                       /\ srv.negotiation = "Negotiate" =>
                            \A t \in ToSet(v.toks) : srv.answer[t] # "error"
                  /\ u.err = "nil" => u.exts = more
      <4>1. ExtensionsFit(b, u, v, srv)
        BY <1>13, <2>1, <3>1, TakeExtensionsFits
      <4>2. b.exts \o Accepted(v.toks, srv.answer) = more
        BY <1>15, <2>1, <3>3, <3>4
      <4> QED
        BY <4>1, <4>2, Zenon DEF ExtensionsFit
    <3>6. HeaderGood("SecExtensions", xs) <=>
            (srv.negotiation # "none" =>
               /\ ~v.bad
               /\ srv.negotiation = "Negotiate" =>
                    \A t \in ToSet(v.toks) : srv.answer[t] # "error")
      BY <3>2 DEF HeaderGood, GoodValues
    <3> QED
      BY <1>15, <2>1, <3>2, <3>3, <3>5, <3>6
  <2> QED
    BY <1>12, <2>2, <2>3
<1>18. u.err = "nil" <=>
         /\ c = "nil" /\ HeaderGood("SecProtocol", ps) /\ HeaderGood("SecExtensions", xs)
  BY <1>14, <1>15, <1>16, <1>17
<1>19. ValidRequest(r, h) <=>
         /\ c = "nil" /\ HeaderGood("SecProtocol", ps) /\ HeaderGood("SecExtensions", xs)
  <2>1. c = "nil" <=> /\ LineError(r) = "nil"
                      /\ \A k \in RequestKeys : h[k] # <<>>
                      /\ \A k \in DOMAIN GoodValues : HeaderGood(k, h[k])
    BY <1>4, CheckFits
  <2>2. (\A k \in Keys : HeaderGood(k, h[k])) <=>
          /\ \A k \in DOMAIN GoodValues : HeaderGood(k, h[k])
          /\ HeaderGood("SecProtocol", ps) /\ HeaderGood("SecExtensions", xs)
    <3>1. DOMAIN GoodValues \cup {"SecProtocol", "SecExtensions"} \subseteq Keys
      BY KeyNames DEF GoodValues
    <3>2. ASSUME NEW k \in Keys \ (DOMAIN GoodValues \cup {"SecProtocol", "SecExtensions"})
          PROVE  HeaderGood(k, h[k])
      BY <3>2 DEF HeaderGood
    <3> QED
      BY <1>1, <1>2, <3>1, <3>2, Zenon
  <2> QED
    BY <2>1, <2>2, ValidByHeader DEF RequestSoFar
<1> QED
  BY <1>1, <1>2, <1>3, <1>13, <1>15, <1>16, <1>17, <1>18, <1>19

(* Two results with the same fields. *)
LEMMA SameRecord ==
  ASSUME NEW P, NEW E, NEW R,
         NEW x \in [protocol : P, exts : E, err : R],
         NEW y \in [protocol : P, exts : E, err : R],
         x.protocol = y.protocol, x.exts = y.exts, x.err = y.err
  PROVE  x = y
  OBVIOUS

(* The two upgraders agree on a request in which no header comes twice:
   HTTPUpgrader.Upgrade, which looks at the first value of a header, and
   Upgrader.Upgrade, which looks at one after the other. *)
THEOREM HandshakeUpgradersAgree == Spec => []UpgradersAgree
<1>1. Init => Types /\ Weighed
  <2> SUFFICES ASSUME Init PROVE Weighed
    BY TypesInit
  <2> QED
    BY DEF Init, Weighed
<1>2. Types /\ Weighed /\ [Next]_vars => Types' /\ Weighed'
  BY TypesNext, WeighedNext
<1>3. Types /\ Weighed => UpgradersAgree
  <2> SUFFICES ASSUME Types, Weighed, sat = "write", ends.server = "Upgrader",
                      hdr["malformed"] = <<>>, hdr["Host"] # <<"">>, sline.version[1] = 1,
                      \A k \in Keys : Len(hdr[k]) <= 1, hs.err \notin {"rejected", "failed"},
                      NEW u, u = HTTPUpgrade(sline, hdr, srv)
               PROVE  /\ u.err = "nil" <=> hs.err = "nil"
                      /\ hs.err = "nil" => u = hs
    BY Zenon DEF UpgradersAgree
  <2>1. /\ sline \in RequestLines
        /\ hs.err = "nil" <=> ValidRequest(sline, hdr)
        /\ hs.err = "nil" => Taken(hs, hdr)
    BY DEF Weighed
  <2>2. /\ srv \in Options /\ hs \in Results
        /\ \A k \in Keys : hdr[k] \in Seq(RequestValues(k))
    BY DEF Types, SettingTyped, ServerTyped
  <2>3. Single(hdr)
    <3>1. ASSUME NEW k \in Keys PROVE hdr[k] = <<>> \/ \E v : hdr[k] = <<v>>
      <4>1. PICK S : S = RequestValues(k)
        OBVIOUS
      <4>2. hdr[k] \in Seq(S) /\ Len(hdr[k]) <= 1
        BY <2>2, <4>1, Zenon
      <4> QED
        BY <4>2, ShortSeq
    <3>2. /\ hdr["SecProtocol"] \in Seq(TokenLists(Protocols))
          /\ hdr["SecExtensions"] \in Seq(TokenLists(Extensions))
      BY <2>2, KeyNames DEF RequestValues
    <3> QED
      BY <3>1, <3>2 DEF Single
  <2>4. PICK p, x :
          /\ p = IF srv.selects /\ hdr["SecProtocol"] # <<>>
                 THEN SelectProtocol(Head(hdr["SecProtocol"]), srv.accepts).protocol
                 ELSE NoProtocol
          /\ x = IF srv.negotiation # "none" /\ hdr["SecExtensions"] # <<>>
                 THEN Accepted(Head(hdr["SecExtensions"]).toks, srv.answer) ELSE <<>>
    OBVIOUS
  <2>5. /\ u \in Results
        /\ u.err = "nil" <=> ValidRequest(sline, hdr)
        /\ u.err = "nil" => u.protocol = p /\ u.exts = x
    BY <2>1, <2>2, <2>3, <2>4, HTTPFits
  <2>6. hs.err = "nil" => hs.protocol = p /\ hs.exts = x
    BY <2>1, <2>4, KeyNames DEF Taken, ProtocolTaken, ExtensionsTaken
  <2>7. u.err = "nil" <=> hs.err = "nil"
    BY <2>1, <2>5
  <2>8. ASSUME hs.err = "nil" PROVE u = hs
    <3>1. u.protocol = hs.protocol /\ u.exts = hs.exts /\ u.err = hs.err
      BY <2>5, <2>6, <2>7, <2>8
    <3> QED
      BY <2>2, <2>5, <3>1, SameRecord DEF Results
  <2> QED
    BY <2>7, <2>8
<1> QED
  BY <1>1, <1>2, <1>3, PTL DEF Spec

-----------------------------------------------------------------------------
(* The two ends of this library.  Agreed, the invariant: the request under way is
   one of the Dialer's, and what the server takes was offered to it (Asked); the
   Dialer has read as much of the response as is not under way any more, and what
   is under way is the rest of it (Answering). *)
Ours == ends.client = "Dialer" /\ ends.server # "any"

(* A line of the Dialer's request with the options c, or the end of a torn one. *)
Asks(l, c, torn) ==
  /\ l = EOF => torn
  /\ l # Line("request", Garbled)
  /\ l.key = "SecKey" => l.val = CNonce
  /\ l.key = "SecProtocol" => l.val = List(c.protocols)
  /\ l.key = "SecExtensions" => l.val = List(c.exts)
Asking(c, torn) == {l \in Requests : Asks(l, c, torn)}

(* What came of the request is part of it, and so is what the server takes. *)
AskedFor(k, c) == {v \in RequestValues(k) : Asks(Line(k, v), c, TRUE)}
HeadersAsk(h, c) == \A k \in Keys : h[k] \in Seq(AskedFor(k, c))
Offered(x, c) ==
  x.protocol \in ToSet(c.protocols) \cup {NoProtocol} /\ x.exts \in Seq(ToSet(c.exts))

Asked ==
  /\ toServer \in Seq(Asking(cli, broken))
  /\ HeadersAsk(hdr, cli)
  /\ Offered(hs, cli)
  /\ "SecKey" \in seen => nonce = CNonce
  /\ sat = "write" /\ hs.err = "nil" => nonce = CNonce

(* The headers of the response to h, with their values. *)
Sent(h) == ResponseKeys \cup (IF h.protocol # NoProtocol THEN {"SecProtocol"} ELSE {})
                        \cup (IF h.exts # <<>> THEN {"SecExtensions"} ELSE {})
SentValue(h, k) == IF k = "Upgrade" THEN "websocket"
                   ELSE IF k = "Connection" THEN "Upgrade"
                   ELSE IF k = "SecAccept" THEN CNonce
                   ELSE IF k = "SecProtocol" THEN h.protocol
                   ELSE IF k = "SecExtensions" THEN List(h.exts)
                   ELSE ""
SentLine(h, k) == Line(k, SentValue(h, k))
Ends(l, torn) == l = Blank \/ (l = EOF /\ torn)

(* w begins with the rest of the response to h whose headers K have been read:
   those that are left, once each, unless its flush has failed. *)
RestTo(b, w, K, h, torn) ==
  /\ Ends(w[b], torn)
  /\ \A i \in 1..(b - 1) : \E k \in (Sent(h) \ K) \cup {"other"} : w[i] = SentLine(h, k)
  /\ \A i, j \in 1..(b - 1) : w[i].key = w[j].key => i = j \/ w[i].key = "other"
  /\ w[b] = Blank => \A k \in Sent(h) \ K : \E i \in 1..(b - 1) : w[i].key = k
Rest(w, K, h, torn) == \E b \in 1..Len(w) : RestTo(b, w, K, h, torn)

StatusSent(code) == Line("status", [version |-> <<1, 1>>, code |-> code])
Response(w, h, torn) ==
  \/ Head(w) = EOF /\ torn
  \/ h.err \in {"nil", "io"} /\ Head(w) = StatusSent(101) /\ Rest(Tail(w), {}, h, torn)
  \/ h.err \in DOMAIN StatusOf \ {"nil"} /\ Head(w) = StatusSent(StatusOf[h.err])

Read == {k \in Keys \ {"other"} : chdr[k] # <<>>}
Coming == br \o toClient

Outcome ==
  IF chs.err = "nil"
  THEN /\ sat \in {"returned", "over"} /\ hs.err \in {"nil", "io"}
       /\ chs.protocol = hs.protocol /\ chs.exts = hs.exts
  ELSE IF chs.err = "status"
  THEN /\ sat \in {"returned", "over"}
       /\ hs.err \in DOMAIN StatusOf \ {"nil"} /\ chs.status = StatusOf[hs.err]
  ELSE chs.err = "failed" \/ (chs.err = "io" /\ broken)

(* Before a line of the response, among its headers, and afterwards. *)
AtStart ==
  /\ chs.exts = <<>>
  /\ sat \in {"line", "headers", "write"} => Coming = <<>>
  /\ sat \in {"returned", "over"} /\ Coming # <<>> => Response(Coming, hs, broken)
  /\ sat \in {"returned", "over"} /\ Coming = <<>> => hs.err = "io" /\ broken /\ sat = "returned"
AtHeaders ==
  /\ sat \in {"returned", "over"} /\ hs.err \in {"nil", "io"}
  /\ Read \subseteq Sent(hs) /\ Rest(Coming, Read, hs, broken)
  /\ chs.protocol = IF "SecProtocol" \in Read THEN hs.protocol ELSE NoProtocol
  /\ chs.exts = IF "SecExtensions" \in Read THEN hs.exts ELSE <<>>
Answering ==
  /\ cat \in {"write", "line"} => AtStart
  /\ cat = "headers" => AtHeaders
  /\ cat = "returned" => Outcome

Agreed == Ours => Asked /\ Answering

(* One line before others. *)
LEMMA Ahead ==
  ASSUME NEW S, NEW w \in Seq(S), NEW l \in S
  PROVE  /\ <<l>> \o w \in Seq(S) /\ Len(<<l>> \o w) = Len(w) + 1
         /\ (<<l>> \o w)[1] = l /\ <<l>> \o w # <<>>
         /\ \A i \in 1..Len(w) : (<<l>> \o w)[i + 1] = w[i]
  OBVIOUS

(* Which headers a server sends, and that each line has the key it is for. *)
LEMMA SentKeys ==
  ASSUME NEW h
  PROVE  /\ Sent(h) \subseteq Keys \ {"other", "malformed"}
         /\ ResponseKeys \subseteq Sent(h)
         /\ \A k : SentLine(h, k).key = k /\ SentLine(h, k).val = SentValue(h, k)
  BY KeyNames DEF Sent, ResponseKeys, SentLine, Line

LEMMA SentKey == ASSUME NEW h, NEW k PROVE SentLine(h, k).key = k
BY DEF SentLine, Line

(* A blank line or an EOF alone is the rest of a response. *)
LEMMA RestEnd ==
  ASSUME NEW h, NEW torn, NEW K, NEW l, Ends(l, torn), l = Blank => Sent(h) \subseteq K
  PROVE  Rest(<<l>>, K, h, torn)
<1>1. PICK w : w = <<l>>
  OBVIOUS
<1>2. Len(w) = 1 /\ w[1] = l
  BY <1>1
<1>3. RestTo(1, w, K, h, torn)
  BY <1>2 DEF RestTo
<1> QED
  BY <1>1, <1>2, <1>3 DEF Rest

(* A header of the response in front of what follows it. *)
LEMMA RestAhead ==
  ASSUME NEW h, NEW torn, NEW K, NEW w \in Seq(Responses),
         NEW k \in (Sent(h) \ K) \cup {"other"}, SentLine(h, k) \in Responses,
         Rest(w, K \cup ({k} \ {"other"}), h, torn)
  PROVE  Rest(<<SentLine(h, k)>> \o w, K, h, torn)
<1>1. PICK b \in 1..Len(w) : RestTo(b, w, K \cup ({k} \ {"other"}), h, torn)
  BY DEF Rest
<1>2. PICK v : v = <<SentLine(h, k)>> \o w
  OBVIOUS
<1>3. /\ v \in Seq(Responses) /\ Len(v) = Len(w) + 1 /\ v[1] = SentLine(h, k)
      /\ \A i \in 1..Len(w) : v[i + 1] = w[i]
  <2>1. PICK l \in Responses : l = SentLine(h, k)
    OBVIOUS
  <2>2. /\ <<l>> \o w \in Seq(Responses) /\ Len(<<l>> \o w) = Len(w) + 1
        /\ (<<l>> \o w)[1] = l /\ \A i \in 1..Len(w) : (<<l>> \o w)[i + 1] = w[i]
    BY Ahead
  <2> QED
    BY <1>2, <2>1, <2>2, Zenon
<1>4. SentLine(h, k).key = k
  BY SentKey
<1>5. Len(w) \in Nat /\ b \in Nat
  BY LenProperties
<1>6. \A i \in 1..(b - 1) : w[i].key # k \/ k = "other"
  <2> SUFFICES ASSUME NEW i \in 1..(b - 1), k # "other" PROVE w[i].key # k
    OBVIOUS
  <2>1. PICK x \in (Sent(h) \ (K \cup ({k} \ {"other"}))) \cup {"other"} : w[i] = SentLine(h, x)
    BY <1>1 DEF RestTo
  <2>2. w[i].key = x /\ x # k
    BY <2>1, SentKeys
  <2> QED
    BY <2>2
<1>7. \A i \in 1..b : i = 1 \/ (i - 1 \in 1..(b - 1) /\ v[i] = w[i - 1])
  BY <1>3, <1>5
<1>8. v[b + 1] = w[b]
  BY <1>3, <1>5
<1>9. \A i \in 1..b : \E x \in (Sent(h) \ K) \cup {"other"} : v[i] = SentLine(h, x)
  <2> SUFFICES ASSUME NEW i \in 1..b
               PROVE  \E x \in (Sent(h) \ K) \cup {"other"} : v[i] = SentLine(h, x)
    OBVIOUS
  <2>1. CASE i = 1
    BY <1>3, <2>1
  <2>2. CASE i # 1
    <3>1. i - 1 \in 1..(b - 1) /\ v[i] = w[i - 1]
      BY <1>7, <2>2
    <3>2. PICK x \in (Sent(h) \ (K \cup ({k} \ {"other"}))) \cup {"other"} :
            w[i - 1] = SentLine(h, x)
      BY <1>1, <3>1 DEF RestTo
    <3> QED
      BY <3>1, <3>2
  <2> QED
    BY <2>1, <2>2
<1>10. ASSUME NEW i \in 1..b, NEW j \in 1..b, v[i].key = v[j].key
       PROVE  i = j \/ v[i].key = "other"
  <2>1. CASE i = 1 /\ j = 1
    BY <2>1
  <2>2. CASE i = 1 /\ j # 1
    BY <1>3, <1>4, <1>6, <1>7, <1>10, <2>2
  <2>3. CASE i # 1 /\ j = 1
    BY <1>3, <1>4, <1>6, <1>7, <1>10, <2>3
  <2>4. CASE i # 1 /\ j # 1
    <3>1. i - 1 \in 1..(b - 1) /\ j - 1 \in 1..(b - 1) /\ v[i] = w[i - 1] /\ v[j] = w[j - 1]
      BY <1>7, <2>4
    <3>2. i - 1 = j - 1 \/ w[i - 1].key = "other"
      BY <1>1, <1>10, <3>1 DEF RestTo
    <3> QED
      BY <1>5, <3>1, <3>2
  <2> QED
    BY <2>1, <2>2, <2>3, <2>4
<1>11. ASSUME v[b + 1] = Blank, NEW x \in Sent(h) \ K
       PROVE  \E i \in 1..b : v[i].key = x
  <2>1. CASE x = k
    <3>1. 1 \in 1..b
      BY <1>5
    <3> QED
      BY <1>3, <1>4, <2>1, <3>1
  <2>2. CASE x # k
    <3>1. PICK i \in 1..(b - 1) : w[i].key = x
      BY <1>1, <1>8, <1>11, <2>2 DEF RestTo
    <3>2. i + 1 \in 1..b /\ v[i + 1] = w[i]
      BY <1>3, <1>5, SMTT(30)
    <3> QED
      BY <3>1, <3>2
  <2> QED
    BY <2>1, <2>2
<1>12. b + 1 \in 1..Len(v) /\ (b + 1) - 1 = b
  BY <1>3, <1>5
<1>13. RestTo(b + 1, v, K, h, torn)
  <2>1. Ends(v[b + 1], torn)
    BY <1>1, <1>8 DEF RestTo
  <2> QED
    BY <1>9, <1>10, <1>11, <1>12, <2>1 DEF RestTo
<1> QED
  BY <1>2, <1>12, <1>13 DEF Rest

(* Reading the first line of the rest of a response. *)
LEMMA RestTail ==
  ASSUME NEW h, NEW torn, NEW K, NEW w \in Seq(Responses), Rest(w, K, h, torn)
  PROVE  /\ w # <<>>
         /\ \/ Head(w) = EOF /\ torn
            \/ Head(w) = Blank /\ Sent(h) \subseteq K
            \/ \E k \in (Sent(h) \ K) \cup {"other"} :
                 Head(w) = SentLine(h, k) /\ Rest(Tail(w), K \cup ({k} \ {"other"}), h, torn)
<1>1. PICK b \in 1..Len(w) : RestTo(b, w, K, h, torn)
  BY DEF Rest
<1>2. w # <<>> /\ Head(w) = w[1] /\ Len(w) \in Nat /\ b \in Nat
  BY <1>1
<1>3. CASE b = 1
  <2>1. Ends(w[1], torn) /\ (w[1] = Blank => Sent(h) \subseteq K)
    BY <1>1, <1>3 DEF RestTo
  <2> QED
    BY <1>2, <2>1 DEF Ends
<1>4. CASE b # 1
  <2>1. b - 1 \in 1..(Len(w) - 1) /\ 1 \in 1..(b - 1)
    BY <1>2, <1>4
  <2>2. PICK k \in (Sent(h) \ K) \cup {"other"} : w[1] = SentLine(h, k)
    BY <1>1, <2>1 DEF RestTo
  <2>3. PICK v : v = Tail(w)
    OBVIOUS
  <2>4. /\ v \in Seq(Responses) /\ Len(v) = Len(w) - 1
        /\ \A i \in 1..(Len(w) - 1) : v[i] = w[i + 1]
    BY <1>2, <2>3
  <2>5. \A i \in 1..(b - 1) : v[i] = w[i + 1]
    BY <2>1, <2>4
  <2>6. w[1].key = k
    BY <2>2, SentKey, Zenon
  <2>7. ASSUME NEW i \in 1..(b - 2)
        PROVE  \E x \in (Sent(h) \ (K \cup ({k} \ {"other"}))) \cup {"other"} :
                 v[i] = SentLine(h, x)
    <3>1. i + 1 \in 1..(b - 1) /\ v[i] = w[i + 1] /\ i + 1 # 1
      BY <2>1, <2>5
    <3>2. PICK x \in (Sent(h) \ K) \cup {"other"} : w[i + 1] = SentLine(h, x)
      BY <1>1, <3>1 DEF RestTo
    <3>3. w[i + 1].key = x
      BY <3>2, SentKey, Zenon
    <3>4. x # k \/ x = "other"
      BY <1>1, <2>1, <2>6, <3>1, <3>3 DEF RestTo
    <3> QED
      BY <3>1, <3>2, <3>4
  <2>8. ASSUME NEW i \in 1..(b - 2), NEW j \in 1..(b - 2), v[i].key = v[j].key
        PROVE  i = j \/ v[i].key = "other"
    <3>1. /\ i + 1 \in 1..(b - 1) /\ v[i] = w[i + 1]
          /\ j + 1 \in 1..(b - 1) /\ v[j] = w[j + 1]
      BY <2>1, <2>5, SMTT(30)
    <3>2. i + 1 = j + 1 \/ w[i + 1].key = "other"
      BY <1>1, <2>8, <3>1 DEF RestTo
    <3> QED
      BY <2>1, <3>1, <3>2
  <2>9. v[b - 1] = w[b]
    BY <2>1, <2>5
  <2>10. ASSUME v[b - 1] = Blank, NEW x \in Sent(h) \ (K \cup ({k} \ {"other"}))
         PROVE  \E i \in 1..(b - 2) : v[i].key = x
    <3>1. PICK i \in 1..(b - 1) : w[i].key = x
      BY <1>1, <2>9, <2>10 DEF RestTo
    <3>2. x # "other"
      BY SentKeys
    <3>3. i # 1
      BY <2>6, <2>10, <3>1, <3>2
    <3>4. i - 1 \in 1..(b - 2) /\ v[i - 1] = w[i]
      BY <2>1, <2>5, <3>3
    <3> QED
      BY <3>1, <3>4
  <2>11. (b - 1) - 1 = b - 2 /\ b - 1 \in 1..Len(v)
    BY <2>1, <2>4
  <2>12. RestTo(b - 1, v, K \cup ({k} \ {"other"}), h, torn)
    <3>1. Ends(v[b - 1], torn)
      BY <1>1, <2>9 DEF RestTo
    <3> QED
      BY <2>7, <2>8, <2>10, <2>11, <3>1 DEF RestTo
  <2>13. Rest(v, K \cup ({k} \ {"other"}), h, torn)
    BY <2>11, <2>12 DEF Rest
  <2> QED
    BY <1>2, <2>2, <2>3, <2>13
<1> QED
  BY <1>3, <1>4

(* What comes behind a response does not change it. *)
LEMMA RestAppend ==
  ASSUME NEW h, NEW torn, NEW K, NEW w \in Seq(Responses), NEW l \in Responses,
         Rest(w, K, h, torn)
  PROVE  Rest(Append(w, l), K, h, torn)
<1>1. PICK b \in 1..Len(w) : RestTo(b, w, K, h, torn)
  BY DEF Rest
<1>2. PICK v : v = Append(w, l)
  OBVIOUS
<1>3. Len(v) = Len(w) + 1 /\ \A i \in 1..Len(w) : v[i] = w[i]
  BY <1>2
<1>4. b \in 1..Len(v) /\ v[b] = w[b] /\ \A i \in 1..(b - 1) : v[i] = w[i]
  BY <1>3
<1>5. RestTo(b, v, K, h, torn)
  BY <1>1, <1>4, SMTT(30) DEF RestTo
<1> QED
  BY <1>2, <1>4, <1>5 DEF Rest

(* Only the protocol and the extensions of a result matter, and a flush that has
   failed has failed for good. *)
LEMMA RestSame ==
  ASSUME NEW h, NEW g, NEW torn, NEW torn2, NEW K, NEW w, Rest(w, K, h, torn),
         g.protocol = h.protocol, g.exts = h.exts, torn => torn2
  PROVE  Rest(w, K, g, torn2)
<1>1. Sent(g) = Sent(h) /\ \A k : SentLine(g, k) = SentLine(h, k)
  BY DEF Sent, SentLine, SentValue
<1>2. PICK b \in 1..Len(w) : RestTo(b, w, K, h, torn)
  BY DEF Rest
<1>3. RestTo(b, w, K, g, torn2)
  <2>1. Ends(w[b], torn2)
    BY <1>2 DEF RestTo, Ends
  <2> QED
    BY <1>1, <1>2, <2>1 DEF RestTo
<1> QED
  BY <1>3 DEF Rest

(* Appending is associative, and a sequence of four puts one before the other. *)
Grouped(a, b, c, d, e) == a \o b \o c \o d \o e = a \o (b \o (c \o (d \o e)))

(* Appending in order is appending grouped to the right. *)
LEMMA Regroup ==
  ASSUME NEW S, NEW a \in Seq(S), NEW b \in Seq(S), NEW c \in Seq(S), NEW d \in Seq(S),
         NEW e \in Seq(S)
  PROVE  Grouped(a, b, c, d, e)
<1>1. PICK ab : ab = a \o b
  OBVIOUS
<1>2. ab \in Seq(S)
  BY <1>1, JoinTyped
<1>3. PICK abc : abc = ab \o c
  OBVIOUS
<1>4. abc \in Seq(S)
  BY <1>2, <1>3, JoinTyped
<1>5. PICK de : de = d \o e
  OBVIOUS
<1>6. de \in Seq(S)
  BY <1>5, JoinTyped
<1>7. PICK cde : cde = c \o de
  OBVIOUS
<1>8. cde \in Seq(S)
  BY <1>6, <1>7, JoinTyped
<1>9. (abc \o d) \o e = abc \o (d \o e)
  BY <1>4, SMTT(30)
<1>10. (ab \o c) \o de = ab \o (c \o de)
  BY <1>2, <1>6, SMTT(30)
<1>11. (a \o b) \o cde = a \o (b \o cde)
  BY <1>8, ConcatAssociative, SMTT(30)
<1> QED
  BY <1>1, <1>3, <1>5, <1>7, <1>9, <1>10, <1>11 DEF Grouped

Spread(a, b, c, d, w) ==
  <<a, b, c, d>> \o w = <<a>> \o (<<b>> \o (<<c>> \o (<<d>> \o w)))

(* Lines are put in front of a rest one by one. *)
LEMMA OneByOne ==
  ASSUME NEW S, NEW a \in S, NEW b \in S, NEW c \in S, NEW d \in S, NEW w \in Seq(S)
  PROVE  Spread(a, b, c, d, w)
<1>1. PICK w1 : w1 = <<d>> \o w
  OBVIOUS
<1>2. PICK w2 : w2 = <<c>> \o w1
  OBVIOUS
<1>3. PICK w3 : w3 = <<b>> \o w2
  OBVIOUS
<1>4. PICK w4 : w4 = <<a>> \o w3
  OBVIOUS
<1>5. PICK n \in Nat : n = Len(w)
  BY LenProperties
<1>6. /\ w1 \in Seq(S) /\ Len(w1) = n + 1 /\ w1[1] = d
      /\ \A i \in 1..n : w1[i + 1] = w[i]
  BY <1>1, <1>5, Ahead
<1>7. /\ w2 \in Seq(S) /\ Len(w2) = n + 2 /\ w2[1] = c
      /\ \A i \in 1..(n + 1) : w2[i + 1] = w1[i]
  BY <1>2, <1>6, Ahead
<1>8. /\ w3 \in Seq(S) /\ Len(w3) = n + 3 /\ w3[1] = b
      /\ \A i \in 1..(n + 2) : w3[i + 1] = w2[i]
  BY <1>3, <1>7, Ahead
<1>9. /\ w4 \in Seq(S) /\ Len(w4) = n + 4 /\ w4[1] = a
      /\ \A i \in 1..(n + 3) : w4[i + 1] = w3[i]
  BY <1>4, <1>8, Ahead
<1>10. /\ w4[2] = b /\ w4[3] = c /\ w4[4] = d
       /\ \A i \in 1..n : w4[i + 4] = w[i]
  <2>1. w4[1 + 1] = w3[1] /\ w4[2 + 1] = w3[2] /\ w4[3 + 1] = w3[3]
    BY <1>5, <1>9
  <2>2. w3[1 + 1] = w2[1] /\ w3[2 + 1] = w2[2] /\ w2[1 + 1] = w1[1]
    BY <1>5, <1>7, <1>8
  <2>3. ASSUME NEW i \in 1..n PROVE w4[i + 4] = w[i]
    <3>1. i + 3 \in 1..(n + 3) /\ i + 2 \in 1..(n + 2) /\ i + 1 \in 1..(n + 1)
      BY <1>5
    <3>2. w4[(i + 3) + 1] = w3[i + 3] /\ w3[(i + 2) + 1] = w2[i + 2]
      BY <1>8, <1>9, <3>1
    <3>3. w2[(i + 1) + 1] = w1[i + 1] /\ w1[i + 1] = w[i]
      BY <1>6, <1>7, <3>1
    <3>4. (i + 3) + 1 = i + 4 /\ (i + 2) + 1 = i + 3 /\ (i + 1) + 1 = i + 2
      BY <1>5
    <3> QED
      BY <3>2, <3>3, <3>4
  <2> QED
    BY <1>6, <1>7, <1>8, <2>1, <2>2, <2>3
<1>11. PICK s : s = <<a, b, c, d>>
  OBVIOUS
<1>12. s \in Seq(S) /\ Len(s) = 4 /\ s[1] = a /\ s[2] = b /\ s[3] = c /\ s[4] = d
  BY <1>11
<1>13. PICK v : v = s \o w
  OBVIOUS
<1>14. /\ v \in Seq(S) /\ Len(v) = n + 4
       /\ v[1] = a /\ v[2] = b /\ v[3] = c /\ v[4] = d
       /\ \A i \in 1..n : v[i + 4] = w[i]
  <2>1. /\ v \in Seq(S) /\ Len(v) = 4 + n
        /\ \A i \in 1..(4 + n) : v[i] = IF i <= 4 THEN s[i] ELSE w[i - 4]
    <3>1. PICK m \in Nat : m = Len(s)
      BY <1>12
    <3>2. m = 4
      BY <1>12, <3>1, Zenon
    <3>3. /\ v \in Seq(S) /\ Len(v) = m + n
          /\ \A i \in 1..(m + n) : v[i] = IF i <= m THEN s[i] ELSE w[i - m]
      BY <1>5, <1>12, <1>13, <3>1, ConcatProperties, Zenon
    <3> QED
      BY <3>2, <3>3
  <2>2. ASSUME NEW i \in 1..n PROVE v[i + 4] = w[i]
    <3>1. i + 4 \in 1..(4 + n) /\ ~(i + 4 <= 4) /\ (i + 4) - 4 = i
      BY <1>5
    <3> QED
      BY <2>1, <3>1
  <2>3. 1 \in 1..(4 + n) /\ 2 \in 1..(4 + n) /\ 3 \in 1..(4 + n) /\ 4 \in 1..(4 + n)
    BY <1>5
  <2>4. v[1] = s[1] /\ v[2] = s[2] /\ v[3] = s[3] /\ v[4] = s[4]
    BY <2>1, <2>3
  <2> QED
    BY <1>5, <1>12, <2>1, <2>2, <2>4
<1>15. ASSUME NEW i \in 1..(n + 4) PROVE v[i] = w4[i]
  <2>1. i \in {1, 2, 3, 4} \/ (i - 4 \in 1..n /\ i = (i - 4) + 4)
    BY <1>5
  <2> QED
    BY <1>9, <1>10, <1>14, <2>1
<1>16. v = w4
  BY <1>9, <1>14, <1>15, SeqEqual
<1> QED
  BY <1>1, <1>2, <1>3, <1>4, <1>11, <1>13, <1>16, Zenon DEF Spread

(* The lines a server sends are lines of responses. *)
LEMMA SentTyped ==
  ASSUME NEW h, h.protocol \in Protocols \cup {NoProtocol}, h.exts \in Seq(Extensions),
         NEW k \in Keys
  PROVE  SentLine(h, k) \in Responses
<1>1. k \in ResponseNames
  BY DEF ResponseNames
<1>2. CASE k = "SecExtensions"
  <2>1. List(h.exts) \in TokenLists(Extensions)
    BY ListsTyped
  <2>2. SentValue(h, k) \in ResponseValues(k)
    BY <1>2, <2>1 DEF SentValue, ResponseValues
  <2> QED
    BY <1>1, <2>2, ResponseInOrder, Zenon DEF SentLine
<1>3. CASE k # "SecExtensions"
  <2>1. k # "status"
    BY KeyNames
  <2>2. SentValue(h, k) \in Plain
    BY <1>3, NonceTyped DEF SentValue, Plain
  <2>3. SentValue(h, k) \in ResponseValues(k)
    BY <1>3, <2>1, <2>2, Zenon DEF ResponseValues
  <2> QED
    BY <1>1, <2>3, ResponseInOrder, Zenon DEF SentLine
<1> QED
  BY <1>2, <1>3

(* The response without its last line. *)
UpgradeLines(h, extra) ==
  <<StatusSent(101), Line("Upgrade", "websocket"), Line("Connection", "Upgrade"),
    Line("SecAccept", CNonce)>>
  \o (IF h.protocol # NoProtocol THEN <<Line("SecProtocol", h.protocol)>> ELSE <<>>)
  \o (IF h.exts # <<>> THEN <<Line("SecExtensions", List(h.exts))>> ELSE <<>>)
  \o extra

(* What ResponseUpgrade writes is a response to the handshake it reports. *)
LEMMA UpgradeWritten ==
  ASSUME NEW h, h.protocol \in Protocols \cup {NoProtocol}, h.exts \in Seq(Extensions),
         NEW extra \in Extra, NEW torn, NEW l \in Responses, Ends(l, torn)
  PROVE  /\ UpgradeLines(h, extra) \in Seq(Responses)
         /\ Head(UpgradeLines(h, extra) \o <<l>>) = StatusSent(101)
         /\ Rest(Tail(UpgradeLines(h, extra) \o <<l>>), {}, h, torn)
<1> DEFINE first == <<StatusSent(101), Line("Upgrade", "websocket"),
                      Line("Connection", "Upgrade"), Line("SecAccept", CNonce)>>
           p == IF h.protocol # NoProtocol THEN <<Line("SecProtocol", h.protocol)>> ELSE <<>>
           x == IF h.exts # <<>> THEN <<Line("SecExtensions", List(h.exts))>> ELSE <<>>
<1>1. \A k \in Keys : SentLine(h, k) \in Responses
  BY SentTyped
<1>2. /\ SentLine(h, "Upgrade") = Line("Upgrade", "websocket")
      /\ SentLine(h, "Connection") = Line("Connection", "Upgrade")
      /\ SentLine(h, "SecAccept") = Line("SecAccept", CNonce)
      /\ SentLine(h, "SecProtocol") = Line("SecProtocol", h.protocol)
      /\ SentLine(h, "SecExtensions") = Line("SecExtensions", List(h.exts))
      /\ SentLine(h, "other") = Line("other", "")
  BY DEF SentLine, SentValue
<1>3. StatusSent(101) \in Responses
  <2>1. PICK r : r = [version |-> <<1, 1>>, code |-> 101]
    OBVIOUS
  <2>2. 101 \in Codes
    BY DEF Codes, StatusOf
  <2>3. "status" \in ResponseNames /\ r \in ResponseValues("status")
    BY <2>1, <2>2 DEF ResponseNames, ResponseValues, Versions
  <2>4. Line("status", r) \in Responses
    BY <2>3, ResponseInOrder, Zenon
  <2> QED
    BY <2>1, <2>4 DEF StatusSent
<1>4. {"Upgrade", "Connection", "SecAccept", "SecProtocol", "SecExtensions", "other"}
        \subseteq Keys
  BY KeyNames
<1>5. first \in Seq(Responses)
  <2>1. \A k, l1, l2, l3 \in Responses : <<k, l1, l2, l3>> \in Seq(Responses)
    OBVIOUS
  <2>2. /\ Line("Upgrade", "websocket") \in Responses
        /\ Line("Connection", "Upgrade") \in Responses
        /\ Line("SecAccept", CNonce) \in Responses
    BY <1>1, <1>2, <1>4
  <2> QED
    BY <1>3, <2>1, <2>2, Zenon
<1>6. p \in Seq(Responses) /\ x \in Seq(Responses) /\ extra \in Seq(Responses)
  <2>1. <<>> \in Seq(Responses)
    OBVIOUS
  <2>2. Line("SecProtocol", h.protocol) \in Responses
    BY <1>1, <1>2, <1>4
  <2>3. Line("SecExtensions", List(h.exts)) \in Responses
    BY <1>1, <1>2, <1>4
  <2> QED
    BY <2>1, <2>2, <2>3, OneTyped, ExtraTyped, Zenon
<1>7. UpgradeLines(h, extra) = first \o p \o x \o extra
  BY Zenon DEF UpgradeLines
<1>8. PICK w0 : w0 = <<l>>
  OBVIOUS
<1>9. w0 \in Seq(Responses) /\ Rest(w0, Sent(h), h, torn)
  BY <1>8, RestEnd
<1>10. PICK w1 : w1 = extra \o w0
  OBVIOUS
<1>11. w1 \in Seq(Responses) /\ Rest(w1, Sent(h), h, torn)
  <2>1. w1 \in Seq(Responses)
    BY <1>6, <1>9, <1>10
  <2>2. CASE extra = <<>>
    <3>1. w1 = w0
      BY <1>9, <1>10, <2>2
    <3> QED
      BY <1>9, <3>1
  <2>3. CASE extra = <<Line("other", "")>>
    <3>1. PICK k : k = "other"
      OBVIOUS
    <3>2. k \in (Sent(h) \ Sent(h)) \cup {"other"} /\ SentLine(h, k) \in Responses
      BY <1>1, <1>4, <3>1
    <3>3. Sent(h) \cup ({k} \ {"other"}) = Sent(h)
      BY <3>1
    <3>4. Rest(<<SentLine(h, k)>> \o w0, Sent(h), h, torn)
      BY <1>9, <3>2, <3>3, RestAhead
    <3> QED
      BY <1>2, <1>10, <2>1, <2>3, <3>1, <3>4
  <2> QED
    BY <2>2, <2>3 DEF Extra
<1>12. PICK w2 : w2 = x \o w1
  OBVIOUS
<1>13. w2 \in Seq(Responses) /\ Rest(w2, Sent(h) \ {"SecExtensions"}, h, torn)
  <2>1. w2 \in Seq(Responses)
    BY <1>6, <1>11, <1>12
  <2>2. CASE h.exts = <<>>
    <3>1. w2 = w1
      BY <1>11, <1>12, <2>2
    <3>2. Sent(h) \ {"SecExtensions"} = Sent(h)
      BY <2>2 DEF Sent, ResponseKeys
    <3> QED
      BY <1>11, <3>1, <3>2
  <2>3. CASE h.exts # <<>>
    <3>1. PICK k : k = "SecExtensions"
      OBVIOUS
    <3>2. PICK K : K = Sent(h) \ {"SecExtensions"}
      OBVIOUS
    <3>3. k \in Sent(h) \ K /\ k \in Keys /\ K \cup ({k} \ {"other"}) = Sent(h)
      BY <1>4, <2>3, <3>1, <3>2 DEF Sent
    <3>4. Rest(<<SentLine(h, k)>> \o w1, K, h, torn)
      BY <1>1, <1>11, <3>3, RestAhead
    <3> QED
      BY <1>2, <1>12, <2>1, <2>3, <3>1, <3>2, <3>4
  <2> QED
    BY <2>2, <2>3
<1>14. PICK w3 : w3 = p \o w2
  OBVIOUS
<1>15. w3 \in Seq(Responses) /\ Rest(w3, ResponseKeys, h, torn)
  <2>1. w3 \in Seq(Responses)
    BY <1>6, <1>13, <1>14
  <2>2. CASE h.protocol = NoProtocol
    <3>1. w3 = w2
      BY <1>13, <1>14, <2>2
    <3>2. Sent(h) \ {"SecExtensions"} = ResponseKeys
      BY <2>2 DEF Sent, ResponseKeys
    <3> QED
      BY <1>13, <3>1, <3>2
  <2>3. CASE h.protocol # NoProtocol
    <3>1. PICK k : k = "SecProtocol"
      OBVIOUS
    <3>2. /\ k \in Sent(h) \ ResponseKeys /\ k \in Keys
          /\ ResponseKeys \cup ({k} \ {"other"}) = Sent(h) \ {"SecExtensions"}
      BY <1>4, <2>3, <3>1 DEF Sent, ResponseKeys
    <3>3. Rest(<<SentLine(h, k)>> \o w2, ResponseKeys, h, torn)
      BY <1>1, <1>13, <3>2, RestAhead
    <3> QED
      BY <1>2, <1>14, <2>1, <2>3, <3>1, <3>3
  <2> QED
    BY <2>2, <2>3
<1>16. ASSUME NEW K, NEW k \in ResponseKeys \ K, NEW w \in Seq(Responses),
              Rest(w, K \cup {k}, h, torn)
       PROVE  <<SentLine(h, k)>> \o w \in Seq(Responses) /\ Rest(<<SentLine(h, k)>> \o w, K, h, torn)
  <2>1. k \in Sent(h) \ K /\ k \in Keys /\ K \cup ({k} \ {"other"}) = K \cup {k}
    BY <1>16, SentKeys DEF ResponseKeys
  <2>2. SentLine(h, k) \in Responses
    BY <1>1, <2>1
  <2> QED
    BY <1>16, <2>1, <2>2, RestAhead, Ahead
<1>17. PICK w4 : w4 = <<SentLine(h, "SecAccept")>> \o w3
  OBVIOUS
<1>18. w4 \in Seq(Responses) /\ Rest(w4, {"Upgrade", "Connection"}, h, torn)
  <2>1. /\ {"Upgrade", "Connection"} \cup {"SecAccept"} = ResponseKeys
        /\ "SecAccept" \in ResponseKeys \ {"Upgrade", "Connection"}
    BY DEF ResponseKeys
  <2> QED
    BY <1>15, <1>16, <1>17, <2>1
<1>19. PICK w5 : w5 = <<SentLine(h, "Connection")>> \o w4
  OBVIOUS
<1>20. w5 \in Seq(Responses) /\ Rest(w5, {"Upgrade"}, h, torn)
  <2>1. /\ {"Upgrade"} \cup {"Connection"} = {"Upgrade", "Connection"}
        /\ "Connection" \in ResponseKeys \ {"Upgrade"}
    BY DEF ResponseKeys
  <2> QED
    BY <1>16, <1>18, <1>19, <2>1
<1>21. PICK w6 : w6 = <<SentLine(h, "Upgrade")>> \o w5
  OBVIOUS
<1>22. w6 \in Seq(Responses) /\ Rest(w6, {}, h, torn)
  <2>1. {} \cup {"Upgrade"} = {"Upgrade"} /\ "Upgrade" \in ResponseKeys \ {}
    BY DEF ResponseKeys
  <2> QED
    BY <1>16, <1>20, <1>21, <2>1
<1>23. UpgradeLines(h, extra) \o <<l>> = <<StatusSent(101)>> \o w6
  <2>1. first \o p \o x \o extra \o w0 = first \o w3
    <3> HIDE DEF first, p, x
    <3>1. PICK s1, s2, s3, s4 : s1 = first /\ s2 = p /\ s3 = x /\ s4 = extra
      OBVIOUS
    <3>2. /\ s1 \in Seq(Responses) /\ s2 \in Seq(Responses) /\ s3 \in Seq(Responses)
          /\ s4 \in Seq(Responses) /\ w0 \in Seq(Responses)
      BY <1>5, <1>6, <1>9, <3>1, Zenon
    <3>3. Grouped(s1, s2, s3, s4, w0)
      BY <3>2, Regroup, Zenon
    <3>4. s1 \o s2 \o s3 \o s4 \o w0 = s1 \o (s2 \o (s3 \o (s4 \o w0)))
      BY <3>3, Zenon DEF Grouped
    <3> QED
      BY <1>10, <1>12, <1>14, <3>1, <3>4, Zenon
  <2>2. PICK a, b, c, d :
          /\ a = StatusSent(101) /\ b = SentLine(h, "Upgrade")
          /\ c = SentLine(h, "Connection") /\ d = SentLine(h, "SecAccept")
    BY Zenon
  <2>3. {a, b, c, d} \subseteq Responses
    BY <1>1, <1>3, <1>4, <2>2
  <2>4. first = <<a, b, c, d>>
    BY <1>2, <2>2
  <2>5. <<a, b, c, d>> \o w3 = <<a>> \o (<<b>> \o (<<c>> \o (<<d>> \o w3)))
    <3>1. Spread(a, b, c, d, w3)
      BY <1>15, <2>3, OneByOne
    <3> QED
      BY <3>1, Zenon DEF Spread
  <2>6. first \o w3 = <<StatusSent(101)>> \o w6
    BY <1>17, <1>19, <1>21, <2>2, <2>4, <2>5, Zenon
  <2> QED
    BY <1>7, <1>8, <2>1, <2>6, Zenon
<1>24. UpgradeLines(h, extra) \in Seq(Responses)
  <2> HIDE DEF first, p, x
  <2> QED
    BY <1>5, <1>6, <1>7, JoinTyped
<1>25. Head(<<StatusSent(101)>> \o w6) = StatusSent(101) /\ Tail(<<StatusSent(101)>> \o w6) = w6
  <2>1. PICK s \in Responses : s = StatusSent(101)
    BY <1>3
  <2>2. Head(<<s>> \o w6) = s /\ Tail(<<s>> \o w6) = w6
    BY <1>22
  <2> QED
    BY <2>1, <2>2
<1> QED
  BY <1>22, <1>23, <1>24, <1>25, Zenon

(* One line behind others. *)
LEMMA Behind ==
  ASSUME NEW S, NEW w \in Seq(S), NEW l \in S
  PROVE  /\ w \o <<l>> \in Seq(S) /\ Len(w \o <<l>>) = Len(w) + 1 /\ w \o <<l>> # <<>>
         /\ \A i \in 1..Len(w) : (w \o <<l>>)[i] = w[i]
         /\ SubSeq(w \o <<l>>, 1, Len(w)) = w
<1>1. PICK v : v = w \o <<l>>
  OBVIOUS
<1>2. /\ v \in Seq(S) /\ Len(v) = Len(w) + 1 /\ v # <<>>
      /\ \A i \in 1..Len(w) : v[i] = w[i]
  BY <1>1
<1>3. SubSeq(v, 1, Len(w)) = w
  BY <1>2
<1> QED
  BY <1>1, <1>2, <1>3, Zenon

(* What a flush of a response leaves on a wire that was empty. *)
LEMMA FlushLeaves ==
  ASSUME NEW lines \in Seq(Responses), lines # <<>>, NEW ok \in BOOLEAN, NEW w,
         Flush(<<>>, lines, w, ok)
  PROVE  \/ ok /\ w = lines
         \/ ~ok /\ w = <<EOF>>
         \/ ~ok /\ Len(lines) > 1 /\ w = SubSeq(lines, 1, Len(lines) - 1) \o <<EOF>>
<1>1. CASE ok
  <2>1. w = <<>> \o lines
    BY <1>1, Zenon DEF Flush
  <2> QED
    BY <1>1, <2>1
<1>2. CASE ~ok
  <2>1. PICK n \in {0, Len(lines) - 1} : w = <<>> \o SubSeq(lines, 1, n) \o <<EOF>>
    BY <1>2 DEF Flush
  <2>2. SubSeq(lines, 1, n) \in Seq(Responses) /\ Len(lines) \in Nat /\ Len(lines) # 0
    <3>1. n <= Len(lines)
      OBVIOUS
    <3>2. \A i \in 1..n : lines[i] \in Responses
      BY <3>1
    <3> QED
      BY <3>1, <3>2
  <2>3. w = SubSeq(lines, 1, n) \o <<EOF>>
    BY <2>1, <2>2
  <2>4. CASE n = 0
    <3>1. SubSeq(lines, 1, n) = <<>>
      BY <2>4
    <3>2. PICK e : e = <<EOF>>
      OBVIOUS
    <3>3. e \in Seq({EOF})
      BY <3>2, OneTyped
    <3>4. w = <<>> \o e
      BY <2>3, <3>1, <3>2, Zenon
    <3>5. w = e
      BY <3>3, <3>4, ConcatEmptySeq, Zenon
    <3> QED
      BY <1>2, <3>2, <3>5, Zenon
  <2>5. CASE n # 0
    <3>1. n = Len(lines) - 1 /\ Len(lines) > 1
      BY <2>1, <2>2, <2>5
    <3> QED
      BY <1>2, <2>3, <3>1, Zenon
  <2> QED
    BY <2>4, <2>5
<1> QED
  BY <1>1, <1>2

GroupedFour(a, b, c, d) == a \o b \o c \o d = a \o (b \o (c \o d))

(* The same for four. *)
LEMMA RegroupFour ==
  ASSUME NEW S, NEW a \in Seq(S), NEW b \in Seq(S), NEW c \in Seq(S), NEW d \in Seq(S)
  PROVE  GroupedFour(a, b, c, d)
<1>1. PICK ab : ab = a \o b
  OBVIOUS
<1>2. ab \in Seq(S)
  BY <1>1, JoinTyped
<1>3. PICK cd : cd = c \o d
  OBVIOUS
<1>4. cd \in Seq(S)
  BY <1>3, JoinTyped
<1>5. (ab \o c) \o d = ab \o (c \o d)
  BY <1>2, SMTT(30)
<1>6. (a \o b) \o cd = a \o (b \o cd)
  BY <1>4, ConcatAssociative, SMTT(30)
<1> QED
  BY <1>1, <1>3, <1>5, <1>6, Zenon DEF GroupedFour

(* An error's response begins with its status line, and does not end with it. *)
LEMMA ErrorWritten ==
  ASSUME NEW e \in DOMAIN StatusOf, NEW extra \in Extra
  PROVE  /\ ResponseError(e, extra) \in Seq(Responses)
         /\ Len(ResponseError(e, extra)) > 1
         /\ ResponseError(e, extra)[1] = StatusSent(StatusOf[e])
<1> DEFINE v == IF e = "UpgradeRequired" THEN <<Line("SecVersion", "13")>> ELSE <<>>
           last == <<Line("other", ""), Line("blank", ""), Line("body", "")>>
<1>1. ResponseError(e, extra) \in Seq(Responses)
  BY ResponseErrorTyped
<1>2. PICK s, o : s = StatusSent(StatusOf[e]) /\ o = Line("other", "")
  OBVIOUS
<1>3. ResponseError(e, extra) = <<s, o>> \o extra \o v \o last
  BY <1>2, Zenon DEF ResponseError, StatusSent
<1>4. PICK S : S = {s, o, Line("SecVersion", "13"), Line("blank", ""), Line("body", "")}
  OBVIOUS
<1>5. PICK a, b, c :
        /\ a \in Seq(S) /\ b \in Seq(S) /\ c \in Seq(S) /\ extra \in Seq(S)
        /\ a = <<s, o>> /\ b = v /\ c = last
  <2>1. {s, o, Line("SecVersion", "13"), Line("blank", ""), Line("body", "")} \subseteq S
    BY <1>4
  <2>2. \A x, y, z \in S : <<>> \in Seq(S) /\ <<x>> \in Seq(S) /\ <<x, y>> \in Seq(S)
                          /\ <<x, y, z>> \in Seq(S)
    OBVIOUS
  <2>3. <<s, o>> \in Seq(S) /\ v \in Seq(S)
    BY <2>1, <2>2, Zenon
  <2>4. last \in Seq(S)
    BY <1>2, <2>1, <2>2
  <2>5. extra \in Seq(S)
    <3>1. <<o>> \in Seq(S) /\ <<>> \in Seq(S)
      BY <2>1, <2>2, Zenon
    <3> QED
      BY <1>2, <3>1 DEF Extra
  <2> QED
    BY <2>3, <2>4, <2>5, Zenon
<1>6. PICK z : z = extra \o (b \o c)
  OBVIOUS
<1>7. z \in Seq(S)
  BY <1>5, <1>6, JoinTyped
<1>8. a \o extra \o b \o c = a \o z
  <2>1. GroupedFour(a, extra, b, c)
    BY <1>5, RegroupFour, Zenon
  <2> QED
    BY <1>6, <2>1, Zenon DEF GroupedFour
<1>9. Len(a) = 2 /\ a[1] = s
  BY <1>5
<1>10. Len(a \o z) = Len(a) + Len(z) /\ Len(z) \in Nat
  BY <1>5, <1>7, LenProperties, ConcatProperties, Zenon
<1>11. (a \o z)[1] = a[1]
  <2>1. 1 \in 1..(Len(a) + Len(z)) /\ 1 <= Len(a)
    BY <1>9, <1>10
  <2> QED
    BY <1>5, <1>7, <2>1, ConcatProperties, Zenon
<1>12. ResponseError(e, extra) = a \o z
  BY <1>3, <1>5, <1>8, Zenon
<1>13. Len(a \o z) > 1
  BY <1>9, <1>10
<1> QED
  BY <1>1, <1>2, <1>9, <1>11, <1>12, <1>13, Zenon

(* What Respond flushes is a response to the result h it has come to, which
   becomes g where the flush has failed. *)
LEMMA ResponseFlushed ==
  ASSUME NEW h \in Results, h.err \in DOMAIN StatusOf, NEW extra \in Extra, NEW lines,
         lines = IF h.err = "nil" THEN ResponseUpgrade(CNonce, h.protocol, h.exts, extra)
                 ELSE ResponseError(h.err, extra),
         NEW ok \in BOOLEAN, NEW w, Flush(<<>>, lines, w, ok),
         NEW g, g = IF ~ok /\ h.err = "nil" THEN [h EXCEPT !.err = "io"] ELSE h,
         NEW torn, ~ok => torn
  PROVE  w # <<>> /\ w \in Seq(Responses) /\ Response(w, g, torn)
<1>1. EOF \in Responses /\ Blank \in Responses /\ <<EOF>> \in Seq(Responses)
  <2>1. "EOF" \in ResponseNames /\ "" \in ResponseValues("EOF")
    BY DEF ResponseNames, ResponseValues, Plain
  <2>2. "blank" \in ResponseNames /\ "" \in ResponseValues("blank")
    BY DEF ResponseNames, ResponseValues, Plain
  <2> QED
    BY <2>1, <2>2, ResponseInOrder, OneTyped, Zenon DEF EOF, Blank
<1>2. /\ h.protocol \in Protocols \cup {NoProtocol} /\ h.exts \in Seq(Extensions)
      /\ g.protocol = h.protocol /\ g.exts = h.exts
  BY DEF Results
<1>3. ASSUME ~ok, w = <<EOF>> PROVE w # <<>> /\ w \in Seq(Responses) /\ Response(w, g, torn)
  <2>1. w # <<>> /\ Head(w) = EOF
    BY <1>3
  <2> QED
    BY <1>1, <1>3, <2>1 DEF Response
<1>4. CASE h.err = "nil"
  <2>1. PICK u : u = UpgradeLines(h, extra)
    OBVIOUS
  <2>2. ASSUME NEW l \in Responses, Ends(l, torn)
        PROVE  /\ u \in Seq(Responses) /\ Head(u \o <<l>>) = StatusSent(101)
               /\ Rest(Tail(u \o <<l>>), {}, h, torn)
    BY <1>2, <2>1, <2>2, UpgradeWritten
  <2>3. Ends(Blank, torn) /\ (~ok => Ends(EOF, torn))
    BY DEF Ends
  <2>4. u \in Seq(Responses)
    BY <1>1, <2>2, <2>3
  <2>5. lines = u \o <<Blank>>
    <3> DEFINE first == <<StatusSent(101), Line("Upgrade", "websocket"),
                          Line("Connection", "Upgrade"), Line("SecAccept", CNonce)>>
               p == IF h.protocol # NoProtocol THEN <<Line("SecProtocol", h.protocol)>> ELSE <<>>
               x == IF h.exts # <<>> THEN <<Line("SecExtensions", List(h.exts))>> ELSE <<>>
    <3>1. lines = ResponseUpgrade(CNonce, h.protocol, h.exts, extra)
      BY <1>4
    <3>2. ResponseUpgrade(CNonce, h.protocol, h.exts, extra) = first \o p \o x \o extra \o <<Blank>>
      BY Zenon DEF ResponseUpgrade, StatusSent, Blank
    <3>3. UpgradeLines(h, extra) = first \o p \o x \o extra
      BY Zenon DEF UpgradeLines
    <3> HIDE DEF first, p, x
    <3> QED
      BY <2>1, <3>1, <3>2, <3>3, Zenon
  <2>6. lines \in Seq(Responses) /\ lines # <<>> /\ Len(lines) = Len(u) + 1
    <3>1. PICK blank \in Responses : blank = Blank
      BY <1>1
    <3>2. /\ u \o <<blank>> \in Seq(Responses) /\ u \o <<blank>> # <<>>
          /\ Len(u \o <<blank>>) = Len(u) + 1
      BY <2>4, Behind, Zenon
    <3> QED
      BY <2>5, <3>1, <3>2, Zenon
  <2>7. SubSeq(lines, 1, Len(lines) - 1) = u
    <3>1. Len(lines) - 1 = Len(u)
      BY <2>4, <2>6
    <3>2. SubSeq(u \o <<Blank>>, 1, Len(u)) = u
      BY <1>1, <2>4, Behind
    <3> QED
      BY <2>5, <3>1, <3>2, Zenon
  <2>8. CASE ok
    <3>1. w = lines
      BY <2>6, <2>8, FlushLeaves
    <3>2. g.err = "nil"
      BY <1>4, <2>8
    <3>3. Rest(Tail(w), {}, g, torn)
      BY <1>1, <1>2, <2>2, <2>3, <2>5, <3>1, RestSame
    <3> QED
      BY <1>1, <2>2, <2>3, <2>5, <2>6, <3>1, <3>2, <3>3 DEF Response
  <2>9. CASE ~ok /\ w # <<EOF>>
    <3>1. w = u \o <<EOF>>
      BY <2>6, <2>7, <2>9, FlushLeaves, SMTT(30)
    <3>2. g.err = "io"
      BY <1>4, <2>9 DEF Results
    <3>3. Rest(Tail(w), {}, g, torn)
      BY <1>1, <1>2, <2>2, <2>3, <2>9, <3>1, RestSame
    <3>4. w # <<>> /\ w \in Seq(Responses)
      BY <1>1, <2>4, <3>1
    <3> QED
      BY <1>1, <2>2, <2>3, <2>9, <3>1, <3>2, <3>3, <3>4 DEF Response
  <2> QED
    BY <1>3, <2>8, <2>9
<1>5. CASE h.err # "nil"
  <2>1. lines = ResponseError(h.err, extra) /\ g = h
    BY <1>5
  <2>2. /\ lines \in Seq(Responses) /\ Len(lines) > 1 /\ lines # <<>>
        /\ lines[1] = StatusSent(StatusOf[h.err])
    BY <2>1, ErrorWritten
  <2>3. CASE ok
    <3>1. w = lines
      BY <2>2, <2>3, FlushLeaves
    <3>2. Head(w) = lines[1]
      BY <2>2, <3>1
    <3> QED
      BY <1>5, <2>1, <2>2, <3>1, <3>2 DEF Response
  <2>4. CASE ~ok /\ w # <<EOF>>
    <3>1. PICK u : u = SubSeq(lines, 1, Len(lines) - 1)
      OBVIOUS
    <3>2. w = u \o <<EOF>>
      BY <2>2, <2>4, <3>1, FlushLeaves, SMTT(30)
    <3>3. u \in Seq(Responses) /\ Len(u) > 0 /\ u[1] = lines[1]
      BY <2>2, <3>1
    <3>4. w \in Seq(Responses) /\ w # <<>> /\ Head(w) = lines[1]
      BY <1>1, <3>2, <3>3
    <3> QED
      BY <1>5, <2>1, <2>2, <3>4 DEF Response
  <2> QED
    BY <1>3, <2>3, <2>4
<1> QED
  BY <1>4, <1>5

(* A list is one of its own members. *)
LEMMA OwnTokens ==
  ASSUME NEW S, NEW s \in Seq(S)
  PROVE  s \in Seq(ToSet(s)) /\ List(s) \in TokenLists(ToSet(s))
<1>1. s \in Seq(ToSet(s))
  BY DEF ToSet
<1> QED
  BY <1>1, ListsTyped

(* What is asked for stays so when a flush fails. *)
LEMMA AsksStill ==
  ASSUME NEW c, NEW torn, NEW torn2, torn => torn2
  PROVE  /\ Asking(c, torn) \subseteq Asking(c, torn2)
         /\ \A w \in Seq(Asking(c, torn)) : w \in Seq(Asking(c, torn2))
<1>1. Asking(c, torn) \subseteq Asking(c, torn2)
  BY DEF Asking, Asks
<1> QED
  BY <1>1

(* The Dialer writes what it asks for. *)
LEMMA RequestAsks ==
  ASSUME NEW c \in [protocols : Seq(Protocols), exts : Seq(Extensions), extra : Extra],
         NEW torn
  PROVE  Request(CNonce, c.protocols, c.exts, c.extra) \in Seq(Asking(c, torn))
<1> DEFINE S == Asking(c, torn)
           first == <<Line("request", [method |-> "GET", version |-> <<1, 1>>]),
                      Line("Host", "host"), Line("Upgrade", "websocket"),
                      Line("Connection", "Upgrade"), Line("SecVersion", "13"),
                      Line("SecKey", CNonce)>>
           protocols == IF c.protocols # <<>>
                        THEN <<Line("SecProtocol", List(c.protocols))>> ELSE <<>>
           exts == IF c.exts # <<>> THEN <<Line("SecExtensions", List(c.exts))>> ELSE <<>>
<1>1. /\ {"Host", "Upgrade", "Connection", "SecVersion", "SecKey", "request",
          "SecProtocol", "SecExtensions", "other", "blank"} \subseteq RequestNames
      /\ {"host", "websocket", "Upgrade", "13", "", CNonce} \subseteq Plain
      /\ \A k \in {"Host", "Upgrade", "Connection", "SecVersion", "SecKey", "other", "blank"} :
           RequestValues(k) = Plain
  BY KeyNames, NonceTyped DEF RequestNames, Plain, RequestValues
<1>2. ASSUME NEW k \in {"Host", "Upgrade", "Connection", "SecVersion", "SecKey", "other", "blank"},
             NEW v \in Plain, k = "SecKey" => v = CNonce
      PROVE  Line(k, v) \in S
  <2>1. Line(k, v) \in Requests
    BY <1>1, RequestInOrder, Zenon
  <2>2. Asks(Line(k, v), c, torn)
    BY <1>2 DEF Asks, Line, EOF
  <2> QED
    BY <2>1, <2>2 DEF Asking
<1>3. Line("request", [method |-> "GET", version |-> <<1, 1>>]) \in S
  <2>1. PICK r : r = [method |-> "GET", version |-> <<1, 1>>]
    OBVIOUS
  <2>2. r \in RequestValues("request") /\ r # Garbled
    BY <2>1 DEF RequestValues, RequestLines, Versions, Garbled
  <2>3. Line("request", r) \in Requests
    BY <1>1, <2>2, RequestInOrder, Zenon
  <2>4. Asks(Line("request", r), c, torn)
    BY <2>2 DEF Asks, Line, EOF
  <2> QED
    BY <2>1, <2>3, <2>4, Zenon DEF Asking
<1>4. Line("SecProtocol", List(c.protocols)) \in S
  <2>1. List(c.protocols) \in RequestValues("SecProtocol")
    BY ListsTyped DEF RequestValues
  <2>2. Line("SecProtocol", List(c.protocols)) \in Requests
    BY <1>1, <2>1, RequestInOrder, Zenon
  <2>3. Asks(Line("SecProtocol", List(c.protocols)), c, torn)
    BY DEF Asks, Line, EOF
  <2> QED
    BY <2>2, <2>3, Zenon DEF Asking
<1>5. Line("SecExtensions", List(c.exts)) \in S
  <2>1. List(c.exts) \in RequestValues("SecExtensions")
    BY ListsTyped DEF RequestValues
  <2>2. Line("SecExtensions", List(c.exts)) \in Requests
    BY <1>1, <2>1, RequestInOrder, Zenon
  <2>3. Asks(Line("SecExtensions", List(c.exts)), c, torn)
    BY DEF Asks, Line, EOF
  <2> QED
    BY <2>2, <2>3, Zenon DEF Asking
<1>6. first \in Seq(S)
  <2>1. \A a1, a2, a3, a4, a5, a6 \in S : <<a1, a2, a3, a4, a5, a6>> \in Seq(S)
    OBVIOUS
  <2>2. Line("Host", "host") \in S /\ Line("Upgrade", "websocket") \in S
    BY <1>1, <1>2
  <2>3. Line("Connection", "Upgrade") \in S /\ Line("SecVersion", "13") \in S
    BY <1>1, <1>2
  <2>4. Line("SecKey", CNonce) \in S
    BY <1>1, <1>2
  <2> HIDE DEF S
  <2> QED
    BY <1>3, <2>1, <2>2, <2>3, <2>4, Zenon
<1>7. <<>> \in Seq(S) /\ \A x \in S : <<x>> \in Seq(S)
  <2> HIDE DEF S
  <2> QED
    OBVIOUS
<1>8. protocols \in Seq(S) /\ exts \in Seq(S)
  BY <1>4, <1>5, <1>7, Zenon
<1>9. c.extra \in Seq(S) /\ <<Line("blank", "")>> \in Seq(S)
  <2>1. Line("other", "") \in S /\ Line("blank", "") \in S
    BY <1>1, <1>2
  <2>2. c.extra \in Extra
    OBVIOUS
  <2> QED
    BY <1>7, <2>1, <2>2, Zenon DEF Extra
<1>10. Request(CNonce, c.protocols, c.exts, c.extra)
         = first \o protocols \o exts \o c.extra \o <<Line("blank", "")>>
  BY Zenon DEF Request
<1> HIDE DEF S, first, protocols, exts
<1>11. PICK z : z = <<Line("blank", "")>>
  OBVIOUS
<1>12. first \o protocols \o exts \o c.extra \o z \in Seq(S)
  BY <1>6, <1>8, <1>9, <1>11, JoinTyped
<1> QED
  BY <1>10, <1>11, <1>12, Zenon DEF S

(* The next line of a request that asks. *)
LEMMA ReadAsks ==
  ASSUME NEW c, NEW torn, toServer \in Seq(Asking(c, torn)), NEW l, ReadLine(l)
  PROVE  toServer' \in Seq(Asking(c, torn)) /\ Asks(l, c, torn) /\ l \in Requests
<1>1. toServer # <<>> /\ l = Head(toServer) /\ toServer' = Tail(toServer)
  BY DEF ReadLine
<1>2. l \in Asking(c, torn) /\ toServer' \in Seq(Asking(c, torn))
  BY <1>1
<1> QED
  BY <1>2 DEF Asking

(* One more header of it. *)
LEMMA HeadersAskMore ==
  ASSUME NEW c, NEW h, DOMAIN h = Keys, HeadersAsk(h, c), NEW k \in Keys,
         NEW v \in RequestValues(k), NEW torn, Asks(Line(k, v), c, torn)
  PROVE  HeadersAsk([h EXCEPT ![k] = Append(@, v)], c)
<1>1. v \in AskedFor(k, c)
  BY DEF AskedFor, Asks
<1>2. ASSUME NEW x \in Keys PROVE [h EXCEPT ![k] = Append(@, v)][x] \in Seq(AskedFor(x, c))
  BY <1>1 DEF HeadersAsk
<1> QED
  BY <1>2 DEF HeadersAsk

(* What a server takes of a list that was asked for was offered. *)
LEMMA TakeProtocolOffered ==
  ASSUME NEW c, c.protocols \in Seq(Protocols), NEW x \in Results, Offered(x, c),
         NEW opts \in Options
  PROVE  Offered(TakeProtocol(x, List(c.protocols), opts), c)
<1>1. CASE ~opts.selects \/ x.err # "nil" \/ x.protocol # NoProtocol
  <2>1. TakeProtocol(x, List(c.protocols), opts) = x
    BY <1>1 DEF TakeProtocol
  <2> QED
    BY <2>1
<1>2. CASE ~(~opts.selects \/ x.err # "nil" \/ x.protocol # NoProtocol)
  <2>1. PICK list : list = List(c.protocols)
    OBVIOUS
  <2>2. PICK s : s = SelectProtocol(list, opts.accepts)
    OBVIOUS
  <2>3. list \in TokenLists(Protocols) /\ list.toks = c.protocols
    BY <2>1, ListsTyped DEF List
  <2>4. opts.accepts \in SUBSET Protocols
    BY DEF Options
  <2>5. s.protocol \in ToSet(c.protocols) \cup {NoProtocol}
    <3>1. CASE s.protocol # NoProtocol
      <4>1. PICK j \in DOMAIN list.toks : s.protocol = list.toks[j]
        BY <2>2, <2>3, <2>4, <3>1, SelectProtocolFits
      <4> QED
        BY <2>3, <4>1 DEF ToSet
    <3> QED
      BY <3>1
  <2>6. PICK y : y = TakeProtocol(x, list, opts)
    OBVIOUS
  <2>7. y.exts = x.exts /\ y.protocol = s.protocol
    BY <1>2, <2>2, <2>6, TakeProtocolFits
  <2> QED
    BY <2>1, <2>5, <2>6, <2>7 DEF Offered
<1> QED
  BY <1>1, <1>2

(* The extensions an upgrader takes were offered to it. *)
LEMMA TakeExtensionsOffered ==
  ASSUME NEW c, c.exts \in Seq(Extensions), NEW x \in Results, Offered(x, c),
         NEW opts \in Options
  PROVE  Offered(TakeExtensions(x, List(c.exts), opts), c)
<1>1. CASE opts.negotiation = "none" \/ x.err # "nil"
  <2>1. TakeExtensions(x, List(c.exts), opts) = x
    BY <1>1 DEF TakeExtensions
  <2> QED
    BY <2>1
<1>2. CASE ~(opts.negotiation = "none" \/ x.err # "nil")
  <2>1. PICK list, S : list = List(c.exts) /\ S = ToSet(c.exts)
    OBVIOUS
  <2>2. list \in TokenLists(S) /\ x.exts \in Seq(S)
    BY <2>1, OwnTokens DEF Offered
  <2>3. PICK n : n = IF opts.negotiation = "Negotiate"
                     THEN NegotiateExtensions(list, x.exts, opts.answer)
                     ELSE SelectExtensions(list, x.exts, opts.answer)
    OBVIOUS
  <2>4. n \in [exts : Seq(S), err : Answers]
    BY <2>2, <2>3, NegotiationTyped
  <2>5. TakeExtensions(x, list, opts) = [x EXCEPT !.exts = n.exts, !.err = n.err]
    BY <1>2, <2>3, Zenon DEF TakeExtensions
  <2>6. PICK y : y = TakeExtensions(x, list, opts)
    OBVIOUS
  <2>7. y.exts = n.exts /\ y.protocol = x.protocol
    BY <2>5, <2>6 DEF Results
  <2> QED
    BY <2>1, <2>4, <2>6, <2>7 DEF Offered
<1> QED
  BY <1>1, <1>2

(* What a header of the Dialer makes the upgrader take was offered to it. *)
LEMMA JudgeOffered ==
  ASSUME Types, hs.err = "nil", Offered(hs, cli), NEW k \in Keys,
         NEW v \in RequestValues(k), NEW torn, Asks(Line(k, v), cli, torn)
  PROVE  Offered(Judge(k, v), cli)
<1>1. hs \in Results /\ srv \in Options
      /\ cli.protocols \in Seq(Protocols) /\ cli.exts \in Seq(Extensions)
  BY DEF Types, ServerTyped, SettingTyped
<1>2. Line(k, v).key = k /\ Line(k, v).val = v
  BY DEF Line
<1>3. CASE k = "SecProtocol"
  <2>1. v = List(cli.protocols)
    BY <1>2, <1>3 DEF Asks
  <2>2. Judge(k, v) = TakeProtocol(hs, v, srv)
    BY <1>3 DEF Judge
  <2> QED
    BY <1>1, <2>1, <2>2, TakeProtocolOffered
<1>4. CASE k = "SecExtensions"
  <2>1. v = List(cli.exts)
    BY <1>2, <1>4 DEF Asks
  <2>2. Judge(k, v) = TakeExtensions(hs, v, srv)
    BY <1>4 DEF Judge
  <2> QED
    BY <1>1, <2>1, <2>2, TakeExtensionsOffered
<1>5. CASE k \notin {"SecProtocol", "SecExtensions"}
  <2>1. \E e : Judge(k, v) = [hs EXCEPT !.err = e]
    <3>1. CASE k = "malformed"
      BY <1>5, <3>1 DEF Judge
    <3>2. CASE k # "malformed"
      BY <1>5, <3>2, Zenon DEF Judge
    <3> QED
      BY <3>1, <3>2
  <2> QED
    BY <1>1, <2>1 DEF Offered, Results
<1> QED
  BY <1>3, <1>4, <1>5

(* HTTPUpgrader takes what was offered, header by header. *)
LEMMA HTTPOffered ==
  ASSUME NEW r, NEW h, HeadersAsk(h, cli), Types
  PROVE  Offered(HTTPUpgrade(r, h, srv), cli)
<1> DEFINE V == {x \in Verdicts(r, h) : Offered(x, cli)}
<1>1. srv \in Options
      /\ cli.protocols \in Seq(Protocols) /\ cli.exts \in Seq(Extensions)
  BY DEF Types, SettingTyped
<1>2. PICK ps, xs : ps = h["SecProtocol"] /\ xs = h["SecExtensions"]
  OBVIOUS
<1>3. /\ ps \in Seq(TokenLists(Protocols)) /\ xs \in Seq(TokenLists(Extensions))
      /\ \A i \in 1..Len(ps) : ps[i] = List(cli.protocols)
      /\ \A i \in 1..Len(xs) : xs[i] = List(cli.exts)
  <2>1. ps \in Seq(AskedFor("SecProtocol", cli)) /\ xs \in Seq(AskedFor("SecExtensions", cli))
    BY <1>2, KeyNames DEF HeadersAsk
  <2>2. /\ AskedFor("SecProtocol", cli) \subseteq TokenLists(Protocols)
        /\ \A v \in AskedFor("SecProtocol", cli) : v = List(cli.protocols)
    BY DEF AskedFor, RequestValues, Asks, Line
  <2>3. /\ AskedFor("SecExtensions", cli) \subseteq TokenLists(Extensions)
        /\ \A v \in AskedFor("SecExtensions", cli) : v = List(cli.exts)
    BY DEF AskedFor, RequestValues, Asks, Line
  <2> QED
    BY <2>1, <2>2, <2>3
<1>4. PICK f, g : Upgrading(f, g, r, h, srv)
  BY <1>1, <1>2, <1>3, HTTPUpgradeRounds
<1>5. PICK n, m \in Nat : n = Len(ps) /\ m = Len(xs)
  BY <1>3
<1>6. /\ \A i \in 0..n : f[i] \in Verdicts(r, h)
      /\ f[0] = [protocol |-> NoProtocol, exts |-> <<>>, err |-> HTTPCheck(r, h)]
      /\ \A i \in 1..n : f[i] = TakeProtocol(f[i - 1], ps[i], srv)
  BY <1>2, <1>4, <1>5 DEF Upgrading
<1>7. /\ \A i \in 0..m : g[i] \in Verdicts(r, h)
      /\ g[0] = f[n]
      /\ \A i \in 1..m : g[i] = TakeExtensions(g[i - 1], xs[i], srv)
      /\ HTTPUpgrade(r, h, srv) = g[m]
  BY <1>2, <1>4, <1>5 DEF Upgrading
<1>8. \A x \in Verdicts(r, h) : x \in Results
  BY DEF Verdicts
<1>9. f[0] \in V
  <2>1. Offered(f[0], cli)
    BY <1>6 DEF Offered
  <2>2. f[0] \in Verdicts(r, h)
    BY <1>5, <1>6
  <2> QED
    BY <2>1, <2>2
<1>10. ASSUME NEW i \in 1..n, f[i - 1] \in V PROVE f[i] \in V
  <2>1. PICK x \in Results : x = f[i - 1] /\ Offered(x, cli)
    BY <1>8, <1>10
  <2>2. f[i] = TakeProtocol(x, List(cli.protocols), srv)
    BY <1>3, <1>5, <1>6, <2>1
  <2>3. Offered(f[i], cli)
    BY <1>1, <2>1, <2>2, TakeProtocolOffered
  <2>4. f[i] \in Verdicts(r, h)
    BY <1>6
  <2> QED
    BY <2>3, <2>4
<1>11. \A i \in 0..n : f[i] \in V
  <2> HIDE DEF V
  <2> QED
    BY <1>9, <1>10, Climb
<1>12. g[0] \in V
  BY <1>5, <1>7, <1>11
<1>13. ASSUME NEW i \in 1..m, g[i - 1] \in V PROVE g[i] \in V
  <2>1. PICK x \in Results : x = g[i - 1] /\ Offered(x, cli)
    BY <1>8, <1>13
  <2>2. g[i] = TakeExtensions(x, List(cli.exts), srv)
    BY <1>3, <1>5, <1>7, <2>1
  <2>3. Offered(g[i], cli)
    BY <1>1, <2>1, <2>2, TakeExtensionsOffered
  <2>4. g[i] \in Verdicts(r, h)
    BY <1>7
  <2> QED
    BY <2>3, <2>4
<1>14. \A i \in 0..m : g[i] \in V
  <2> HIDE DEF V
  <2> QED
    BY <1>12, <1>13, Climb
<1> QED
  BY <1>5, <1>7, <1>14

-----------------------------------------------------------------------------
(* Each step of the server that reads keeps Asked. *)

(* Reading a header of the Dialer keeps Asked. *)
LEMMA HeaderLineAsked ==
  ASSUME Types, Asked, HeaderLine
  PROVE  Asked'
<1>1. PICK k, v, e : RequestRead(k, v, e)
  BY RequestReads
<1> USE DEF RequestRead
<1>2. sat = "headers" /\ cli' = cli /\ broken' = broken
  BY DEF HeaderLine, setting
<1>3. /\ toServer' \in Seq(Asking(cli, broken)) /\ Asks(Line(k, v), cli, broken)
      /\ v \in RequestValues(k)
  <2>1. Line(k, v).key = k /\ Line(k, v).val = v
    BY DEF Line
  <2>2. PICK l : l = Line(k, v) /\ l.key = k /\ l.val = v
    BY <2>1, Zenon
  <2>3. toServer' \in Seq(Asking(cli, broken)) /\ Asks(l, cli, broken) /\ l \in Requests
    BY <1>1, <2>2, ReadAsks DEF Asked
  <2> QED
    BY <2>2, <2>3, RequestParts
<1>4. hs.err = "nil" /\ Offered(hs, cli) /\ DOMAIN hdr = Keys
  BY <1>2 DEF Types, ServerTyped, Asked
<1>5. Judge(k, v) \in Results
  BY <1>1, <1>3, <1>4, JudgeTyped DEF Types, ServerTyped, SettingTyped
<1>6. Offered(hs', cli)
  <2>1. Offered(Judge(k, v), cli)
    BY <1>1, <1>3, <1>4, JudgeOffered
  <2>2. hs'.protocol = Judge(k, v).protocol /\ hs'.exts = Judge(k, v).exts
    BY <1>1, <1>5 DEF Results
  <2> QED
    BY <2>1, <2>2 DEF Offered
<1>7. HeadersAsk(hdr', cli)
  BY <1>1, <1>3, <1>4, HeadersAskMore DEF Asked
<1>8. "SecKey" \in seen' => nonce' = CNonce
  <2>1. /\ nonce' = IF k = "SecKey" /\ v \in Nonces THEN v ELSE nonce
        /\ seen' = seen \cup ({k} \cap RequestKeys)
    BY <1>1
  <2> HIDE DEF RequestRead
  <2>2. CASE k = "SecKey"
    <3>1. v = CNonce
      BY <1>3, <2>2 DEF Asks, Line
    <3> QED
      BY <2>1, <2>2, <3>1, NonceTyped
  <2>3. CASE k # "SecKey"
    BY <2>1, <2>3 DEF Asked
  <2> QED
    BY <2>2, <2>3
<1>9. ~(sat' = "write" /\ hs'.err = "nil")
  BY <1>1, <1>5 DEF Results
<1> QED
  BY <1>2, <1>3, <1>6, <1>7, <1>8, <1>9 DEF Asked

(* So does reading the end of the headers. *)
LEMMA BlankLineAsked ==
  ASSUME Types, Asked, BlankLine
  PROVE  Asked'
<1>1. PICK e \in (IF Missing = "nil" THEN Hook ELSE {Missing}) : hs' = [hs EXCEPT !.err = e]
  BY Zenon DEF BlankLine
<1>2. /\ ReadLine(Blank) /\ cli' = cli /\ broken' = broken
      /\ hdr' = hdr /\ seen' = seen /\ nonce' = nonce
  BY DEF BlankLine, setting
<1>3. toServer' \in Seq(Asking(cli, broken))
  BY <1>2, ReadAsks DEF Asked
<1>4. hs'.err = e /\ Offered(hs', cli)
  BY <1>1 DEF Types, ServerTyped, Results, Asked, Offered
<1>5. e = "nil" => "SecKey" \in seen
  BY <1>1 DEF Missing
<1> QED
  BY <1>2, <1>3, <1>4, <1>5 DEF Asked

(* And so does HTTPUpgrader. *)
LEMMA HTTPAsked ==
  ASSUME Types, Asked, HTTPReads \/ HTTPUpgraderUpgrade
  PROVE  Asked'
<1>1. cli' = cli /\ broken' = broken /\ seen' = seen
  BY DEF HTTPReads, HTTPUpgraderUpgrade, setting
<1>2. DOMAIN hdr = Keys
  BY DEF Types, ServerTyped
<1>3. CASE HTTPReads
  <2>1. sat' = "headers" /\ hs' = hs /\ nonce' = nonce
    BY <1>3 DEF HTTPReads
  <2>2. toServer' \in Seq(Asking(cli, broken))
    BY <1>3, ReadAsks DEF HTTPReads, Asked
  <2>3. HeadersAsk(hdr', cli)
    <3>1. CASE hdr' = hdr
      BY <3>1 DEF Asked
    <3>2. CASE hdr' # hdr
      <4>1. PICK k \in Keys : \E l :
              /\ l = Head(toServer) /\ l.key = k /\ ReadLine(l)
              /\ hdr' = [hdr EXCEPT ![k] = Append(@, l.val)]
        BY <1>3, <3>2, Zenon DEF HTTPReads
      <4>2. PICK l, v : /\ l.key = k /\ ReadLine(l) /\ v = l.val
                        /\ hdr' = [hdr EXCEPT ![k] = Append(@, v)]
        BY <4>1
      <4>3. Asks(l, cli, broken) /\ l \in Requests
        BY <4>2, ReadAsks DEF Asked
      <4>4. l = Line(k, v) /\ v \in RequestValues(k)
        BY <4>2, <4>3, RequestParts
      <4>5. Asks(Line(k, v), cli, broken)
        BY <4>3, <4>4, Zenon
      <4> QED
        BY <1>2, <4>2, <4>4, <4>5, HeadersAskMore DEF Asked
    <3> QED
      BY <3>1, <3>2
  <2> QED
    BY <1>1, <2>1, <2>2, <2>3 DEF Asked
<1>4. CASE HTTPUpgraderUpgrade
  <2>1. /\ ReadLine(Blank) /\ hdr' = hdr /\ sat' = "write"
        /\ hs' = HTTPUpgrade(sline, hdr, srv)
        /\ nonce' = IF hdr["SecKey"] # <<>> THEN Head(hdr["SecKey"]) ELSE nonce
    BY <1>4 DEF HTTPUpgraderUpgrade
  <2>2. toServer' \in Seq(Asking(cli, broken))
    BY <2>1, ReadAsks DEF Asked
  <2>3. Offered(hs', cli)
    BY <2>1, HTTPOffered DEF Asked
  <2>4. hdr["SecKey"] # <<>> => Head(hdr["SecKey"]) = CNonce
    <3>1. hdr["SecKey"] \in Seq(AskedFor("SecKey", cli))
      BY KeyNames DEF Asked, HeadersAsk
    <3>2. \A v \in AskedFor("SecKey", cli) : v = CNonce
      BY DEF AskedFor, Asks, Line
    <3> QED
      BY <3>1, <3>2
  <2>5. hs'.err = "nil" => hdr["SecKey"] # <<>>
    <3>1. HTTPUpgrade(sline, hdr, srv) \in Verdicts(sline, hdr)
      <4>1. hdr["SecProtocol"] \in Seq(TokenLists(Protocols))
        BY KeyNames DEF Types, ServerTyped, RequestValues
      <4>2. hdr["SecExtensions"] \in Seq(TokenLists(Extensions))
        BY KeyNames DEF Types, ServerTyped, RequestValues
      <4>3. srv \in Options
        BY DEF Types, SettingTyped
      <4> QED
        BY <4>1, <4>2, <4>3, HTTPUpgradeTyped
    <3>2. hs'.err = "nil" => Get(hdr, "SecKey") \in Nonces
      BY <2>1, <3>1, CheckTyped DEF Verdicts
    <3> QED
      BY <3>2, HttpConstants DEF Get, HttpConstants
  <2> QED
    BY <1>1, <2>1, <2>2, <2>3, <2>4, <2>5 DEF Asked
<1> QED
  BY <1>3, <1>4

(* Reading a line of the buffer reads the first line that is coming. *)
LEMMA JoinRead ==
  ASSUME NEW S, NEW b \in Seq(S), NEW t \in Seq(S), b # <<>>
  PROVE  /\ b \o t # <<>> /\ Head(b \o t) = Head(b) /\ Head(b) \in S
         /\ Tail(b \o t) = Tail(b) \o t
<1>1. PICK x : x = b \o t
  OBVIOUS
<1>2. x # <<>> /\ Head(x) = Head(b) /\ Head(b) \in S
  BY <1>1
<1>3. PICK y, z : y = Tail(x) /\ z = Tail(b) \o t
  OBVIOUS
<1>4. /\ y \in Seq(S) /\ z \in Seq(S) /\ Len(y) = Len(z)
      /\ \A i \in 1..Len(y) : y[i] = z[i]
  BY <1>1, <1>3
<1>5. y = z
  BY <1>4, SeqEqual
<1> QED
  BY <1>1, <1>2, <1>3, <1>5, Zenon

(* A sequence is its two parts. *)
LEMMA JoinSplit ==
  ASSUME NEW S, NEW t \in Seq(S), NEW n \in 1..Len(t)
  PROVE  SubSeq(t, 1, n) \o SubSeq(t, n + 1, Len(t)) = t
<1>1. PICK x, y : x = SubSeq(t, 1, n) /\ y = SubSeq(t, n + 1, Len(t))
  OBVIOUS
<1>2. /\ x \in Seq(S) /\ Len(x) = n /\ \A i \in 1..n : x[i] = t[i]
      /\ y \in Seq(S) /\ Len(y) = Len(t) - n /\ \A i \in 1..(Len(t) - n) : y[i] = t[n + i]
  BY <1>1
<1>3. PICK z : z = x \o y
  OBVIOUS
<1>4. z \in Seq(S) /\ Len(z) = Len(t) /\ \A i \in 1..Len(t) : z[i] = t[i]
  <2>1. z \in Seq(S) /\ Len(z) = Len(t)
    <3>1. z \in Seq(S) /\ Len(z) = Len(x) + Len(y)
      BY <1>2, <1>3, ConcatProperties
    <3>2. Len(t) \in Nat
      OBVIOUS
    <3> QED
      BY <1>2, <3>1, <3>2
  <2>2. ASSUME NEW i \in 1..Len(t) PROVE z[i] = t[i]
    <3>1. CASE i <= n
      BY <1>2, <1>3, <3>1
    <3>2. CASE ~(i <= n)
      <4>1. i - n \in 1..(Len(t) - n) /\ n + (i - n) = i
        BY <3>2
      <4>2. z[i] = y[i - n]
        BY <1>2, <1>3, <3>2, SMTT(30)
      <4> QED
        BY <1>2, <4>1, <4>2
    <3> QED
      BY <3>1, <3>2
  <2> QED
    BY <2>1, <2>2
<1>5. z = t
  BY <1>4, SeqEqual
<1> QED
  BY <1>1, <1>3, <1>5, Zenon

(* A response stays one when a flush fails and when more comes behind it. *)
LEMMA ResponseStill ==
  ASSUME NEW w, NEW h, NEW torn, NEW torn2, torn => torn2, Response(w, h, torn)
  PROVE  Response(w, h, torn2)
<1>1. Rest(Tail(w), {}, h, torn) => Rest(Tail(w), {}, h, torn2)
  BY RestSame
<1> QED
  BY <1>1 DEF Response

(* A response with one more line behind it begins with the same response. *)
LEMMA ResponseAppend ==
  ASSUME NEW w \in Seq(Responses), w # <<>>, NEW l \in Responses, NEW h, NEW torn,
         Response(w, h, torn)
  PROVE  Response(Append(w, l), h, torn)
<1>1. PICK v : v = Append(w, l)
  OBVIOUS
<1>2. Head(v) = Head(w) /\ Tail(w) \in Seq(Responses)
  BY <1>1
<1>3. Tail(v) = Append(Tail(w), l)
  <2>1. PICK y, z : y = Tail(v) /\ z = Append(Tail(w), l)
    OBVIOUS
  <2>2. /\ y \in Seq(Responses) /\ z \in Seq(Responses) /\ Len(y) = Len(z)
        /\ \A i \in 1..Len(y) : y[i] = z[i]
    BY <1>1, <2>1
  <2>3. y = z
    BY <2>2, SeqEqual
  <2> QED
    BY <2>1, <2>3, Zenon
<1>4. Rest(Tail(w), {}, h, torn) => Rest(Append(Tail(w), l), {}, h, torn)
  BY <1>2, RestAppend
<1> QED
  BY <1>1, <1>2, <1>3, <1>4, Zenon DEF Response

(* What is coming is lines of responses. *)
LEMMA ComingTyped ==
  ASSUME Types
  PROVE  br \in Seq(Responses) /\ toClient \in Seq(Responses) /\ Coming \in Seq(Responses)
<1>1. br \in Seq(Responses) /\ toClient \in Seq(Responses)
  BY DEF Types, WiresTyped
<1> QED
  BY <1>1, JoinTyped DEF Coming

(* Until there is a response, the Dialer waits for it or has given up. *)
Waits ==
  \/ cat \in {"write", "line"} /\ chs.exts = <<>> /\ Coming = <<>>
  \/ cat = "returned" /\ (chs.err = "failed" \/ (chs.err = "io" /\ broken))

(* Until the server has answered, the Dialer waits. *)
LEMMA WaitsBefore ==
  ASSUME Types, Answering, sat \in {"line", "headers", "write"}
  PROVE  Waits
<1>1. cat \in {"write", "line", "headers", "returned"}
  BY DEF Types, ClientTyped
<1> QED
  BY <1>1 DEF Answering, AtStart, AtHeaders, Outcome, Waits

(* A step that sends nothing leaves it waiting. *)
LEMMA WaitsOn ==
  ASSUME Waits, UNCHANGED <<toClient, client>>, broken => broken',
         \/ sat' \in {"line", "headers", "write"}
         \/ sat' = "returned" /\ hs'.err = "io" /\ broken'
  PROVE  Answering'
<1>1. Coming' = Coming /\ cat' = cat /\ chs' = chs
  BY DEF Coming, client
<1>2. CASE cat \in {"write", "line"} /\ chs.exts = <<>> /\ Coming = <<>>
  <2>1. AtStart'
    BY <1>1, <1>2 DEF AtStart
  <2> QED
    BY <1>1, <1>2, <2>1 DEF Answering
<1>3. CASE cat = "returned" /\ (chs.err = "failed" \/ (chs.err = "io" /\ broken))
  BY <1>1, <1>3 DEF Answering, Outcome
<1> QED
  BY <1>2, <1>3 DEF Waits

-----------------------------------------------------------------------------
(* Each step keeps what has been agreed. *)

(* The server's steps that only read. *)
LEMMA ReadingAgreed ==
  ASSUME Types, Asked, Answering,
         ServerEOF \/ RequestLine \/ GarbledRequestLine \/ HeaderLine \/ BlankLine
           \/ HTTPReads \/ HTTPUpgraderUpgrade
  PROVE  Asked' /\ Answering'
<1>1. sat \in {"line", "headers", "write"} /\ broken' = broken /\ cli' = cli
      /\ UNCHANGED <<toClient, client>>
  BY DEF ServerEOF, RequestLine, GarbledRequestLine, HeaderLine, BlankLine, HTTPReads,
         HTTPUpgraderUpgrade, setting
<1>2. Waits
  BY <1>1, WaitsBefore
<1>3. CASE ServerEOF
  <2>1. /\ ReadLine(EOF) /\ sat' = "returned" /\ hs' = [hs EXCEPT !.err = "io"]
        /\ UNCHANGED <<hdr, seen, nonce>>
    BY <1>3 DEF ServerEOF
  <2>2. toServer' \in Seq(Asking(cli, broken)) /\ broken
    BY <2>1, ReadAsks DEF Asked, Asks
  <2>3. hs'.err = "io" /\ Offered(hs', cli)
    BY <2>1 DEF Types, ServerTyped, Results, Asked, Offered
  <2>4. Asked'
    BY <1>1, <2>1, <2>2, <2>3 DEF Asked
  <2> QED
    BY <1>1, <1>2, <2>1, <2>2, <2>3, <2>4, WaitsOn
<1>4. CASE RequestLine
  <2>1. PICK r \in RequestLines :
          /\ ReadLine(Line("request", r))
          /\ \E e \in (IF LineError(r) = "nil" THEN Hook ELSE {LineError(r)}) :
               /\ hs' = [hs EXCEPT !.err = e]
               /\ sat' = IF e = "nil" THEN "headers" ELSE "write"
    BY <1>4, Zenon DEF RequestLine
  <2>2. PICK e :
          /\ hs' = [hs EXCEPT !.err = e]
          /\ sat' = IF e = "nil" THEN "headers" ELSE "write"
    BY <2>1
  <2>3. UNCHANGED <<hdr, seen, nonce>>
    BY <1>4 DEF RequestLine
  <2>4. toServer' \in Seq(Asking(cli, broken))
    BY <2>1, ReadAsks DEF Asked
  <2>5. hs'.err = e /\ Offered(hs', cli)
    BY <2>2 DEF Types, ServerTyped, Results, Asked, Offered
  <2>6. ~(sat' = "write" /\ hs'.err = "nil") /\ sat' \in {"headers", "write"}
    BY <2>2, <2>5
  <2>7. Asked'
    BY <1>1, <2>3, <2>4, <2>5, <2>6 DEF Asked
  <2> QED
    BY <1>1, <1>2, <2>6, <2>7, WaitsOn
<1>5. CASE GarbledRequestLine
  <2>1. ReadLine(Line("request", Garbled))
    BY <1>5 DEF GarbledRequestLine
  <2>2. Asks(Line("request", Garbled), cli, broken)
    BY <2>1, ReadAsks DEF Asked
  <2> QED
    BY <2>2 DEF Asks
<1>6. CASE HeaderLine
  <2>1. PICK k, v, e : RequestRead(k, v, e)
    BY <1>6, RequestReads
  <2>2. sat' \in {"headers", "write"}
    BY <2>1 DEF RequestRead
  <2> QED
    BY <1>1, <1>2, <1>6, <2>2, HeaderLineAsked, WaitsOn
<1>7. CASE BlankLine
  <2>1. sat' = "write"
    BY <1>7 DEF BlankLine
  <2> QED
    BY <1>1, <1>2, <1>7, <2>1, BlankLineAsked, WaitsOn
<1>8. CASE HTTPReads \/ HTTPUpgraderUpgrade
  <2>1. sat' \in {"headers", "write"}
    BY <1>8 DEF HTTPReads, HTTPUpgraderUpgrade
  <2> QED
    BY <1>1, <1>2, <1>8, <2>1, HTTPAsked, WaitsOn
<1> QED
  BY <1>3, <1>4, <1>5, <1>6, <1>7, <1>8

(* The server answers, whole or torn. *)
LEMMA RespondAgreed ==
  ASSUME Types, Asked, Answering, Respond
  PROVE  Asked' /\ Answering'
<1>1. /\ sat = "write" /\ sat' = "returned" /\ cli' = cli
      /\ UNCHANGED <<toServer, hdr, seen, nonce, client>>
  BY DEF Respond, setting
<1>2. PICK lines, ok :
        /\ ok \in BOOLEAN
        /\ lines = IF hs.err = "nil"
                   THEN ResponseUpgrade(nonce, hs.protocol, hs.exts, srv.extra)
                   ELSE ResponseError(hs.err, srv.extra)
        /\ Flush(toClient, lines, toClient', ok)
        /\ broken' = (broken \/ ~ok)
        /\ hs' = IF ~ok /\ hs.err = "nil" THEN [hs EXCEPT !.err = "io"] ELSE hs
  <2> DEFINE w == IF hs.err = "nil"
                  THEN ResponseUpgrade(nonce, hs.protocol, hs.exts, srv.extra)
                  ELSE ResponseError(hs.err, srv.extra)
  <2>1. \E ok \in BOOLEAN :
          /\ Flush(toClient, w, toClient', ok)
          /\ broken' = (broken \/ ~ok)
          /\ hs' = IF ~ok /\ hs.err = "nil" THEN [hs EXCEPT !.err = "io"] ELSE hs
    BY DEF Respond
  <2> QED
    BY <2>1, Zenon
<1>3. srv.extra \in Extra /\ hs \in Results /\ hs.err \in DOMAIN StatusOf
  BY <1>1 DEF Types, SettingTyped, Options, ServerTyped
<1>4. broken => broken'
  BY <1>2
<1>5. Asked'
  <2>1. hs'.protocol = hs.protocol /\ hs'.exts = hs.exts
    BY <1>2, <1>3 DEF Results
  <2>2. Offered(hs', cli)
    BY <2>1 DEF Asked, Offered
  <2>3. toServer' \in Seq(Asking(cli, broken'))
    BY <1>1, <1>4, AsksStill DEF Asked
  <2> QED
    BY <1>1, <2>2, <2>3 DEF Asked
<1>6. Waits
  BY <1>1, WaitsBefore
<1>7. cat' = cat /\ chs' = chs /\ br' = br
  BY <1>1 DEF client
<1>8. CASE cat \in {"write", "line"} /\ chs.exts = <<>> /\ Coming = <<>>
  <2>1. br = <<>> /\ toClient = <<>>
    BY <1>8, ComingTyped DEF Coming
  <2>2. PICK w, g, torn : w = toClient' /\ g = hs' /\ torn = broken'
    OBVIOUS
  <2>3. Flush(<<>>, lines, w, ok)
    BY <1>2, <2>1, <2>2
  <2>4. lines = IF hs.err = "nil" THEN ResponseUpgrade(CNonce, hs.protocol, hs.exts, srv.extra)
                ELSE ResponseError(hs.err, srv.extra)
    BY <1>1, <1>2 DEF Asked
  <2>5. g = (IF ~ok /\ hs.err = "nil" THEN [hs EXCEPT !.err = "io"] ELSE hs) /\ (~ok => torn)
    BY <1>2, <2>2
  <2>6. w # <<>> /\ w \in Seq(Responses) /\ Response(w, g, torn)
    BY <1>2, <1>3, <2>3, <2>4, <2>5, ResponseFlushed
  <2>7. Coming' = w
    <3>1. Coming' = <<>> \o w
      BY <1>7, <2>1, <2>2, Zenon DEF Coming
    <3> QED
      BY <2>6, <3>1, ConcatEmptySeq
  <2>8. AtStart'
    BY <1>1, <1>7, <1>8, <2>2, <2>6, <2>7 DEF AtStart
  <2> QED
    BY <1>5, <1>7, <1>8, <2>8 DEF Answering
<1>9. CASE cat = "returned" /\ (chs.err = "failed" \/ (chs.err = "io" /\ broken))
  BY <1>4, <1>5, <1>7, <1>9 DEF Answering, Outcome
<1> QED
  BY <1>6, <1>8, <1>9 DEF Waits

(* A frame or the end of the connection goes behind the response. *)
LEMMA AfterUpgradeAgreed ==
  ASSUME Types, Asked, Answering, AfterUpgrade
  PROVE  Asked' /\ Answering'
<1>1. /\ sat = "returned" /\ sat' = "over" /\ hs' = hs /\ broken' = broken /\ cli' = cli
      /\ UNCHANGED <<toServer, hdr, seen, nonce, client>>
  BY DEF AfterUpgrade, setting
<1>2. Asked'
  BY <1>1 DEF Asked
<1>3. cat' = cat /\ chs' = chs /\ br' = br /\ chdr' = chdr
  BY <1>1 DEF client
<1>4. PICK l : /\ toClient' = Append(toClient, l) /\ l \in {Frame, EOF}
               /\ hs.err # "nil" => l = EOF
  BY DEF AfterUpgrade
<1>5. l \in Responses
  <2>1. {"EOF", "frame"} \subseteq ResponseNames
        /\ "" \in ResponseValues("EOF") /\ "" \in ResponseValues("frame")
    BY DEF ResponseNames, ResponseValues, Plain
  <2> QED
    BY <1>4, <2>1, ResponseInOrder DEF EOF, Frame
<1>6. PICK w : w = Coming
  OBVIOUS
<1>7. w \in Seq(Responses) /\ Coming' = Append(w, l)
  <2>1. PICK b, t : b = br /\ t = toClient /\ b \in Seq(Responses) /\ t \in Seq(Responses)
    BY ComingTyped
  <2>2. b \o Append(t, l) = Append(b \o t, l)
    <3>1. PICK y, z : y = b \o Append(t, l) /\ z = Append(b \o t, l)
      OBVIOUS
    <3>2. /\ y \in Seq(Responses) /\ z \in Seq(Responses) /\ Len(y) = Len(z)
          /\ \A i \in 1..Len(y) : y[i] = z[i]
      BY <1>5, <2>1, <3>1
    <3>3. y = z
      BY <3>2, SeqEqual
    <3> QED
      BY <3>1, <3>3, Zenon
  <2>3. w = b \o t /\ w \in Seq(Responses)
    BY <1>6, <2>1, ComingTyped DEF Coming
  <2>4. Coming' = b \o Append(t, l)
    BY <1>3, <1>4, <2>1, Zenon DEF Coming
  <2> QED
    BY <2>2, <2>3, <2>4, Zenon
<1>8. Append(w, l) # <<>>
  BY <1>7
<1>9. CASE cat \in {"write", "line"}
  <2>1. chs.exts = <<>> /\ AtStart
    BY <1>9 DEF Answering, AtStart
  <2>2. Response(Append(w, l), hs, broken)
    <3>1. CASE w # <<>>
      BY <1>1, <1>5, <1>6, <1>7, <2>1, <3>1, ResponseAppend DEF AtStart
    <3>2. CASE w = <<>>
      <4>1. hs.err = "io" /\ broken
        BY <1>1, <1>6, <2>1, <3>2 DEF AtStart
      <4>2. l = EOF /\ Head(Append(w, l)) = l
        BY <1>4, <1>7, <3>2, <4>1
      <4> QED
        BY <4>1, <4>2 DEF Response
    <3> QED
      BY <3>1, <3>2
  <2>3. AtStart'
    BY <1>1, <1>3, <1>7, <1>8, <2>1, <2>2 DEF AtStart
  <2> QED
    BY <1>2, <1>3, <1>9, <2>3 DEF Answering
<1>10. CASE cat = "headers"
  <2>1. AtHeaders
    BY <1>10 DEF Answering
  <2>2. Rest(Append(w, l), Read, hs, broken)
    BY <1>5, <1>6, <1>7, <2>1, RestAppend DEF AtHeaders
  <2>3. Read' = Read
    BY <1>3 DEF Read
  <2>4. AtHeaders'
    BY <1>1, <1>3, <1>7, <2>1, <2>2, <2>3 DEF AtHeaders
  <2> QED
    BY <1>2, <1>3, <1>10, <2>4 DEF Answering
<1>11. CASE cat = "returned"
  BY <1>1, <1>2, <1>3, <1>11 DEF Answering, Outcome
<1> QED
  BY <1>9, <1>10, <1>11 DEF Types, ClientTyped

(* The Dialer's steps that leave the request alone. *)
LEMMA AskedKept ==
  ASSUME Asked, UNCHANGED <<cli, toServer, broken, server>>
  PROVE  Asked'
  BY DEF Asked, server

(* What the Dialer reads next is what comes next. *)
LEMMA ComesNext ==
  ASSUME Types, br # <<>>
  PROVE  /\ Coming # <<>> /\ Head(Coming) = Head(br)
         /\ Tail(br) \o toClient = Tail(Coming)
         /\ Head(br) \in Responses /\ Tail(br) \in Seq(Responses)
<1>1. PICK b, t : b = br /\ t = toClient /\ b \in Seq(Responses) /\ t \in Seq(Responses)
  BY ComingTyped
<1>2. /\ b \o t # <<>> /\ Head(b \o t) = Head(b) /\ Head(b) \in Responses
      /\ Tail(b \o t) = Tail(b) \o t /\ Tail(b) \in Seq(Responses)
  BY <1>1, JoinRead
<1> QED
  BY <1>1, <1>2, Zenon DEF Coming

(* The Dialer writes its request, whole or torn. *)
LEMMA WriteAgreed ==
  ASSUME Types, Asked, Answering, WriteRequest
  PROVE  Asked' /\ Answering'
<1>1. /\ cat = "write"
      /\ UNCHANGED <<setting, toClient, server, cline, chdr, cseen>>
  BY DEF WriteRequest
<1>2. PICK ok \in BOOLEAN :
        /\ Flush(toServer, Request(CNonce, cli.protocols, cli.exts, cli.extra), toServer', ok)
        /\ broken' = (broken \/ ~ok)
        /\ IF ok THEN cat' = "line" /\ UNCHANGED <<chs, br>> ELSE Return("io", br)
  BY DEF WriteRequest
<1>3. broken => broken'
  BY <1>2
<1>4. toServer' \in Seq(Asking(cli, broken'))
  <2>1. CASE ok
    <3>1. /\ Request(CNonce, cli.protocols, cli.exts, cli.extra) \in Seq(Asking(cli, broken'))
          /\ toServer \in Seq(Asking(cli, broken'))
      BY <1>3, RequestAsks, AsksStill DEF Types, SettingTyped, Asked
    <3>2. toServer' = toServer \o Request(CNonce, cli.protocols, cli.exts, cli.extra)
      BY <1>2, <2>1, Zenon DEF Flush
    <3> QED
      BY <3>1, <3>2, JoinTyped
  <2>2. CASE ~ok
    <3>1. broken'
      BY <1>2, <2>2
    <3>2. PICK S : S = Asking(cli, TRUE)
      OBVIOUS
    <3>3. Asking(cli, broken') = S
      BY <3>1, <3>2 DEF Asking, Asks
    <3>4. EOF \in S
      <4>1. "EOF" \in RequestNames /\ "" \in RequestValues("EOF")
        BY DEF RequestNames, RequestValues, Plain
      <4>2. EOF \in Requests
        BY <4>1, RequestInOrder DEF EOF
      <4> QED
        BY <3>2, <4>2 DEF Asking, Asks, EOF, Line
    <3>5. PICK lines : lines = Request(CNonce, cli.protocols, cli.exts, cli.extra)
      OBVIOUS
    <3>6. lines \in Seq(S) /\ toServer \in Seq(S)
      BY <3>2, <3>5, RequestAsks, AsksStill DEF Types, SettingTyped, Asked
    <3>7. Flush(toServer, lines, toServer', ok)
      BY <1>2, <3>5
    <3>8. toServer' \in Seq(S)
      BY <3>4, <3>6, <3>7, FlushTyped
    <3> QED
      BY <3>3, <3>8
  <2> QED
    BY <2>1, <2>2
<1>5. Asked'
  BY <1>1, <1>4 DEF Asked, setting, server
<1>6. CASE ok
  <2>1. cat' = "line" /\ Coming' = Coming /\ UNCHANGED <<chs, sat, hs>> /\ broken' = broken
    BY <1>1, <1>2, <1>6 DEF Coming, server, Types, WiresTyped
  <2>2. AtStart'
    BY <1>1, <2>1 DEF Answering, AtStart
  <2> QED
    BY <1>5, <2>1, <2>2 DEF Answering
<1>7. CASE ~ok
  <2>1. cat' = "returned" /\ chs' = [chs EXCEPT !.err = "io"] /\ broken'
    BY <1>2, <1>7 DEF Return
  <2>2. chs'.err = "io"
    BY <2>1 DEF Types, ClientTyped, DialerResults
  <2> QED
    BY <1>5, <2>1, <2>2 DEF Answering, Outcome
<1> QED
  BY <1>6, <1>7

(* Filling the buffer moves lines and loses none. *)
LEMMA FillAgreed ==
  ASSUME Types, Asked, Answering, Fill
  PROVE  Asked' /\ Answering'
<1>1. UNCHANGED <<setting, toServer, broken, server, cat, chdr, chs>>
  BY DEF Fill
<1>2. Asked'
  BY <1>1, AskedKept DEF setting
<1>3. Coming' = Coming
  <2>1. PICK t, n : /\ t = toClient /\ t # <<>> /\ n \in {1, Len(t)}
                    /\ br' = SubSeq(t, 1, n) /\ toClient' = SubSeq(t, n + 1, Len(t))
    BY Zenon DEF Fill
  <2>2. t \in Seq(Responses)
    BY <2>1, ComingTyped
  <2>3. n \in 1..Len(t)
    BY <2>1, <2>2
  <2>4. SubSeq(t, 1, n) \o SubSeq(t, n + 1, Len(t)) = t
    BY <2>2, <2>3, JoinSplit
  <2>5. Coming' = t
    BY <2>1, <2>4, Zenon DEF Coming
  <2>6. <<>> \o t = t
    BY <2>2, ConcatEmptySeq
  <2>7. br = <<>>
    BY DEF Fill
  <2> QED
    BY <2>1, <2>5, <2>6, <2>7, Zenon DEF Coming
<1>4. Read' = Read
  BY <1>1 DEF Read
<1>5. Answering'
  BY <1>1, <1>3, <1>4 DEF Answering, AtStart, AtHeaders, Outcome, server
<1> QED
  BY <1>2, <1>5

(* What comes next in the rest of a response. *)
LEMMA NextLine ==
  ASSUME NEW h, NEW torn, NEW K, NEW w \in Seq(Responses), Rest(w, K, h, torn)
  PROVE  \/ Head(w) = EOF /\ torn
         \/ Head(w) = Blank
         \/ \E k \in Sent(h) \cup {"other"} : Head(w) = SentLine(h, k)
<1>1. CASE Head(w) = EOF /\ torn
  BY <1>1
<1>2. CASE Head(w) = Blank /\ Sent(h) \subseteq K
  BY <1>2
<1>3. CASE \E k \in (Sent(h) \ K) \cup {"other"} : Head(w) = SentLine(h, k)
  <2>1. PICK k \in (Sent(h) \ K) \cup {"other"} : Head(w) = SentLine(h, k)
    BY <1>3
  <2>2. k \in Sent(h) \cup {"other"}
    OBVIOUS
  <2> QED
    BY <2>1, <2>2
<1>4. \/ Head(w) = EOF /\ torn
      \/ Head(w) = Blank /\ Sent(h) \subseteq K
      \/ \E k \in (Sent(h) \ K) \cup {"other"} :
           Head(w) = SentLine(h, k) /\ Rest(Tail(w), K \cup ({k} \ {"other"}), h, torn)
  BY RestTail, Zenon
<1> QED
  BY <1>1, <1>2, <1>3, <1>4, Zenon

(* An EOF comes only after a flush that has failed. *)
LEMMA EOFAgreed ==
  ASSUME Types, Asked, Answering, ClientEOF
  PROVE  Asked' /\ Answering'
<1>1. /\ cat \in {"line", "headers"} /\ br # <<>> /\ Head(br) = EOF
      /\ chs' = [chs EXCEPT !.err = "io"] /\ cat' = "returned"
      /\ UNCHANGED <<setting, toServer, broken, server>>
  BY DEF ClientEOF, Return
<1>2. Asked'
  BY <1>1, AskedKept DEF setting
<1>3. Coming \in Seq(Responses) /\ Coming # <<>> /\ Head(Coming) = EOF
  BY <1>1, ComingTyped, ComesNext
<1>4. broken
  <2>1. CASE cat = "line"
    <3>1. Response(Coming, hs, broken)
      BY <1>3, <2>1 DEF Answering, AtStart, Types, ServerTyped
    <3>2. \A c : StatusSent(c) # EOF
      BY DEF StatusSent, EOF, Line
    <3> QED
      BY <1>3, <3>1, <3>2 DEF Response
  <2>2. CASE cat = "headers"
    <3>1. Rest(Coming, Read, hs, broken)
      BY <2>2 DEF Answering, AtHeaders
    <3>2. EOF.key = "EOF" /\ Blank.key = "blank"
      BY DEF EOF, Blank, Line
    <3>3. \A k \in Sent(hs) \cup {"other"} : SentLine(hs, k).key = k /\ k # "EOF"
      BY SentKeys, KeyNames
    <3>4. PICK w, K : w = Coming /\ K = Read
      OBVIOUS
    <3>5. w \in Seq(Responses) /\ Rest(w, K, hs, broken)
      BY <1>3, <3>1, <3>4
    <3>6. \/ Head(w) = EOF /\ broken
          \/ Head(w) = Blank
          \/ \E k \in Sent(hs) \cup {"other"} : Head(w) = SentLine(hs, k)
      BY <3>5, NextLine
    <3> QED
      BY <1>3, <3>2, <3>3, <3>4, <3>6
  <2> QED
    BY <1>1, <2>1, <2>2
<1>5. chs'.err = "io" /\ broken'
  BY <1>1, <1>4 DEF Types, ClientTyped, DialerResults
<1> QED
  BY <1>1, <1>2, <1>5 DEF Answering, Outcome

(* The status line. *)
LEMMA StatusAgreed ==
  ASSUME Types, Judged, Asked, Answering, StatusLine
  PROVE  Asked' /\ Answering'
<1>1. PICK r, e :
        /\ cat = "line" /\ br # <<>> /\ Head(br).key = "status"
        /\ r = Head(br).val /\ e = StatusError(r)
        /\ IF e = "nil"
           THEN cat' = "headers" /\ br' = Tail(br) /\ UNCHANGED chs
           ELSE /\ cat' = "returned"
                /\ chs' = [chs EXCEPT !.err = e,
                                      !.status = IF e = "status" THEN r.code ELSE 0]
                /\ br' = KeepReader(Tail(br), e)
  BY Zenon DEF StatusLine
<1>2. UNCHANGED <<setting, toServer, toClient, broken, server, chdr, cseen>>
  BY DEF StatusLine
<1>3. Asked'
  BY <1>2, AskedKept DEF setting
<1>4. sat' = sat /\ hs' = hs /\ broken' = broken
  BY <1>2 DEF server
<1>5. /\ Coming # <<>> /\ Head(Coming) = Head(br) /\ Tail(br) \o toClient = Tail(Coming)
  BY <1>1, ComesNext
<1>6. AtStart
  BY <1>1 DEF Answering
<1>7. sat \in {"returned", "over"} /\ Response(Coming, hs, broken)
  BY <1>5, <1>6 DEF AtStart, Types, ServerTyped
<1>8. Head(Coming) # EOF
  <2>1. Head(Coming).key = "status"
    BY <1>1, <1>5, Zenon
  <2>2. EOF.key = "EOF"
    BY DEF EOF, Line
  <2> QED
    BY <2>1, <2>2
<1>9. \A c : StatusSent(c).val = [version |-> <<1, 1>>, code |-> c]
  BY DEF StatusSent, Line
<1>10. ASSUME NEW c, Head(Coming) = StatusSent(c)
       PROVE  r.code = c /\ e = IF c = 101 THEN "nil" ELSE "status"
  <2>1. r = [version |-> <<1, 1>>, code |-> c]
    BY <1>1, <1>5, <1>9, <1>10
  <2>2. r # Garbled
    BY <2>1 DEF Garbled
  <2>3. ~BadVersion(r.version) /\ r.code = c
    BY <2>1 DEF BadVersion
  <2> QED
    BY <1>1, <2>2, <2>3 DEF StatusError
<1>11. CASE hs.err \in {"nil", "io"} /\ Head(Coming) = StatusSent(101)
              /\ Rest(Tail(Coming), {}, hs, broken)
  <2>1. e = "nil"
    BY <1>10, <1>11
  <2>2. cat' = "headers" /\ br' = Tail(br) /\ chs' = chs
    BY <1>1, <2>1
  <2>3. Coming' = Tail(Coming)
    BY <1>2, <1>5, <2>2 DEF Coming
  <2>4. Read' = {} /\ chs.protocol = NoProtocol /\ chs.exts = <<>>
    <3>1. chdr = NoHeaders /\ chs.protocol = NoProtocol
      BY <1>1 DEF Judged
    <3>2. chdr' = NoHeaders
      BY <1>2, <3>1
    <3> QED
      BY <1>6, <3>1, <3>2 DEF Read, NoHeaders, AtStart
  <2>5. AtHeaders'
    BY <1>4, <1>7, <1>11, <2>2, <2>3, <2>4 DEF AtHeaders
  <2> QED
    BY <1>3, <2>2, <2>5 DEF Answering
<1>12. CASE hs.err \in DOMAIN StatusOf \ {"nil"} /\ Head(Coming) = StatusSent(StatusOf[hs.err])
  <2>1. StatusOf[hs.err] # 101
    BY <1>12 DEF StatusOf
  <2>2. e = "status" /\ r.code = StatusOf[hs.err]
    BY <1>10, <1>12, <2>1
  <2>3. cat' = "returned" /\ chs' = [chs EXCEPT !.err = "status", !.status = r.code]
    BY <1>1, <2>2
  <2>4. chs'.err = "status" /\ chs'.status = StatusOf[hs.err]
    BY <2>2, <2>3 DEF Types, ClientTyped, DialerResults
  <2>5. Outcome'
    BY <1>4, <1>7, <1>12, <2>4 DEF Outcome
  <2> QED
    BY <1>3, <2>3, <2>5 DEF Answering
<1> QED
  BY <1>7, <1>8, <1>11, <1>12 DEF Response

(* A header line of the response, read once. *)
LEMMA HeaderAgreed ==
  ASSUME Types, Asked, Answering, ClientHeader
  PROVE  Asked' /\ Answering'
<1>1. PICK k, v, e : HeaderRead(k, v, e)
  BY HeaderReads
<1>2. /\ k \in Keys /\ br # <<>> /\ k = Head(br).key /\ v = Head(br).val
      /\ e \in (IF k = "other" THEN {"nil", "failed"} ELSE {CJudge(k, v).err})
      /\ chs' = [CJudge(k, v) EXCEPT !.err = e]
      /\ cat' = IF e = "nil" THEN "headers" ELSE "returned"
      /\ e = "nil" => br' = Tail(br)
  BY <1>1, Zenon DEF HeaderRead
<1>3. /\ cat = "headers"
      /\ UNCHANGED <<setting, toServer, toClient, broken, server>>
  BY DEF ClientHeader
<1>4. Asked'
  BY <1>3, AskedKept DEF setting
<1>5. sat' = sat /\ hs' = hs /\ broken' = broken
  BY <1>3 DEF server
<1>6. AtHeaders
  BY <1>3 DEF Answering
<1>7. /\ Coming \in Seq(Responses) /\ Head(Coming) = Head(br)
      /\ Tail(br) \o toClient = Tail(Coming)
  BY <1>2, ComingTyped, ComesNext
<1>8. /\ k \in (Sent(hs) \ Read) \cup {"other"} /\ v = SentValue(hs, k)
      /\ Rest(Tail(Coming), Read \cup ({k} \ {"other"}), hs, broken)
  <2>1. EOF.key = "EOF" /\ Blank.key = "blank"
    BY DEF EOF, Blank, Line
  <2>2. Head(Coming) # EOF /\ Head(Coming) # Blank
    BY <1>2, <1>7, <2>1, KeyNames
  <2>3. Rest(Coming, Read, hs, broken)
    BY <1>6 DEF AtHeaders
  <2>4. PICK x \in (Sent(hs) \ Read) \cup {"other"} :
          Head(Coming) = SentLine(hs, x)
            /\ Rest(Tail(Coming), Read \cup ({x} \ {"other"}), hs, broken)
    BY <1>7, <2>2, <2>3, RestTail
  <2>5. x = k /\ v = SentValue(hs, x)
    <3>1. SentLine(hs, x).key = x /\ SentLine(hs, x).val = SentValue(hs, x)
      BY SentKeys
    <3> QED
      BY <1>2, <1>7, <2>4, <3>1, Zenon
  <2> QED
    BY <2>4, <2>5
<1>9. chs \in DialerResults /\ chs.err = "nil" /\ DOMAIN chdr = Keys
  BY <1>3 DEF Types, ClientTyped
<1>10. CASE e # "nil" /\ k = "other"
  <2>1. cat' = "returned" /\ e = "failed" /\ CJudge(k, v) = chs
    BY <1>2, <1>10 DEF CJudge
  <2>2. chs'.err = "failed"
    BY <1>2, <1>9, <2>1 DEF DialerResults
  <2> QED
    BY <1>4, <2>1, <2>2 DEF Answering, Outcome
<1>11. /\ CJudge(k, v).err = "nil"
       /\ CJudge(k, v).protocol = IF k = "SecProtocol" THEN hs.protocol ELSE chs.protocol
       /\ CJudge(k, v).exts = IF k = "SecExtensions" THEN hs.exts ELSE chs.exts
  <2>1. CASE k = "SecProtocol"
    <3>1. v = hs.protocol /\ hs.protocol # NoProtocol
      BY <1>8, <2>1 DEF SentValue, Sent, ResponseKeys
    <3>2. v \in ToSet(cli.protocols)
      BY <3>1 DEF Asked, Offered
    <3>3. CJudge(k, v) = [chs EXCEPT !.protocol = v, !.err = "nil"]
      BY <2>1, <3>1, <3>2 DEF CJudge
    <3> QED
      BY <1>9, <2>1, <3>1, <3>3 DEF DialerResults
  <2>2. CASE k = "SecExtensions"
    <3>1. v = List(hs.exts) /\ k \notin Read
      BY <1>8, <2>2 DEF SentValue
    <3>2. chs.exts = <<>>
      BY <1>6, <2>2, <3>1 DEF AtHeaders
    <3>3. v.toks = hs.exts /\ ~v.bad
      BY <3>1 DEF List
    <3>4. hs.exts \in Seq(ToSet(cli.exts))
      BY DEF Asked, Offered
    <3>5. \A i \in 1..Len(hs.exts) : hs.exts[i] \in ToSet(cli.exts)
      BY <3>4
    <3>6. PICK m : m = MatchSelected(v, cli.exts, chs.exts)
      OBVIOUS
    <3>7. m = [exts |-> <<>> \o hs.exts, err |-> "nil"]
      <4>1. \A i \in 1..(Len(hs.exts) - 1) : hs.exts[i] \in ToSet(cli.exts)
        BY <3>4, <3>5
      <4>2. Len(hs.exts) > 0 => hs.exts[Len(hs.exts)] \in ToSet(cli.exts)
        BY <3>4, <3>5
      <4> QED
        BY <3>2, <3>3, <3>6, <4>1, <4>2, Zenon DEF MatchSelected
    <3>8. <<>> \o hs.exts = hs.exts
      BY <3>4, ConcatEmptySeq
    <3>9. CJudge(k, v) = [chs EXCEPT !.exts = m.exts, !.err = m.err]
      BY <2>2, <3>6, Zenon DEF CJudge
    <3> QED
      BY <1>9, <2>2, <3>7, <3>8, <3>9 DEF DialerResults
  <2>3. CASE k \notin {"SecProtocol", "SecExtensions"}
    <3>1. k \in {"Upgrade", "Connection", "SecAccept", "other"}
      BY <1>8, <2>3 DEF Sent, ResponseKeys
    <3>2. CJudge(k, v) = chs
      BY <1>8, <3>1 DEF CJudge, SentValue, IsWebsocket
    <3> QED
      BY <1>9, <2>3, <3>2
  <2> QED
    BY <2>1, <2>2, <2>3
<1>12. CASE e = "nil"
  <2>1. cat' = "headers" /\ br' = Tail(br)
    BY <1>2, <1>12
  <2>2. Coming' = Tail(Coming)
    BY <1>3, <1>7, <2>1 DEF Coming
  <2>3. Read' = Read \cup ({k} \ {"other"})
    <3>1. chdr' = [chdr EXCEPT ![k] = Append(@, v)]
      BY <1>1 DEF HeaderRead
    <3>2. chdr[k] \in Seq(ResponseValues(k))
      BY <1>2 DEF Types, ClientTyped
    <3>3. chdr'[k] # <<>> /\ \A x \in Keys \ {k} : chdr'[x] = chdr[x]
      BY <1>2, <1>9, <3>1, <3>2, SMTT(30)
    <3> QED
      BY <1>2, <3>3 DEF Read
  <2>4. /\ chs'.protocol = CJudge(k, v).protocol /\ chs'.exts = CJudge(k, v).exts
    <3>1. CJudge(k, v) \in DialerResults
      BY <1>2, <1>7, CJudgeTyped, ResponseParts, ComesNext
         DEF Types, SettingTyped, ClientTyped
    <3> QED
      BY <1>2, <3>1 DEF DialerResults
  <2>5. Rest(Coming', Read', hs, broken)
    BY <1>8, <2>2, <2>3
  <2>6. Read' \subseteq Sent(hs)
    BY <1>6, <1>8, <2>3 DEF AtHeaders
  <2>7. /\ chs'.protocol = IF "SecProtocol" \in Read' THEN hs.protocol ELSE NoProtocol
        /\ chs'.exts = IF "SecExtensions" \in Read' THEN hs.exts ELSE <<>>
    BY <1>6, <1>11, <2>3, <2>4 DEF AtHeaders
  <2>8. AtHeaders'
    BY <1>5, <1>6, <2>5, <2>6, <2>7 DEF AtHeaders
  <2> QED
    BY <1>4, <2>1, <2>8 DEF Answering
<1> QED
  BY <1>2, <1>10, <1>11, <1>12

(* The blank line, at which the Dialer returns what it has read. *)
LEMMA BlankAgreed ==
  ASSUME Types, Judged, Asked, Answering, ClientBlank
  PROVE  Asked' /\ Answering'
<1>1. /\ cat = "headers" /\ br # <<>> /\ Head(br) = Blank
      /\ chs' = [chs EXCEPT !.err = CMissing] /\ cat' = "returned"
      /\ UNCHANGED <<setting, toServer, broken, server>>
  BY DEF ClientBlank, Return
<1>2. Asked'
  BY <1>1, AskedKept DEF setting
<1>3. AtHeaders
  BY <1>1 DEF Answering
<1>4. Coming \in Seq(Responses) /\ Head(Coming) = Blank
  BY <1>1, ComingTyped, ComesNext
<1>5. Sent(hs) \subseteq Read
  <2>1. EOF.key = "EOF" /\ Blank.key = "blank"
    BY DEF EOF, Blank, Line
  <2>2. \A k \in Sent(hs) \cup {"other"} : SentLine(hs, k).key = k /\ k # "blank"
    BY SentKeys, KeyNames
  <2>3. Rest(Coming, Read, hs, broken)
    BY <1>3 DEF AtHeaders
  <2>4. \/ Head(Coming) = EOF
        \/ Sent(hs) \subseteq Read
        \/ \E k \in Sent(hs) \cup {"other"} : Head(Coming) = SentLine(hs, k)
    BY <1>4, <2>3, RestTail
  <2> QED
    BY <1>4, <2>1, <2>2, <2>4
<1>6. CMissing = "nil"
  <2>1. cseen = {k \in ResponseKeys : chdr[k] # <<>>}
    BY <1>1 DEF Judged
  <2>2. ResponseKeys \subseteq Read
    BY <1>5, SentKeys
  <2> QED
    BY <2>1, <2>2 DEF CMissing, Read, ResponseKeys
<1>7. chs.protocol = hs.protocol /\ chs.exts = hs.exts
  BY <1>3, <1>5 DEF AtHeaders, Sent
<1>8. chs'.err = "nil" /\ chs'.protocol = hs.protocol /\ chs'.exts = hs.exts
  BY <1>1, <1>6, <1>7 DEF Types, ClientTyped, DialerResults
<1>9. Outcome'
  BY <1>1, <1>3, <1>8 DEF Outcome, AtHeaders, server
<1> QED
  BY <1>1, <1>2, <1>9 DEF Answering

(* Every step keeps Agreed. *)
LEMMA AgreedNext == ASSUME Types, Judged, Agreed, [Next]_vars PROVE Agreed'
<1>1. UNCHANGED setting
  BY DEF Next, ServerStep, ServerEOF, RequestLine, GarbledRequestLine, HeaderLine, BlankLine,
     Respond, AfterUpgrade, HTTPReads, HTTPUpgraderUpgrade, ClientStep, WriteRequest, Fill,
     ClientEOF, StatusLine, ClientHeader, ClientBlank, AnyClient, AnyServer, vars
<1>2. SUFFICES ASSUME Ours PROVE Asked' /\ Answering'
  BY <1>1 DEF Agreed, Ours, setting
<1>3. Asked /\ Answering
  BY <1>2 DEF Agreed
<1>4. ~AnyClient /\ ~AnyServer
  BY <1>2 DEF Ours, AnyClient, AnyServer
<1>5. CASE ServerStep
  BY <1>3, <1>5, ReadingAgreed, RespondAgreed, AfterUpgradeAgreed DEF ServerStep
<1>6. CASE ClientStep
  BY <1>3, <1>6, WriteAgreed, FillAgreed, EOFAgreed, StatusAgreed, HeaderAgreed, BlankAgreed
     DEF ClientStep
<1>7. CASE UNCHANGED vars
  BY <1>3, <1>7 DEF Asked, Answering, AtStart, AtHeaders, Outcome, Coming, Read, vars,
     setting, server, client
<1> QED
  BY <1>4, <1>5, <1>6, <1>7, SMTT(30) DEF Next

(* A Dialer and an upgrader of this library come out of a handshake of theirs
   with the same protocol and extensions, all of them asked for, or the Dialer
   has the status of the upgrader's error, or the connection has failed. *)
THEOREM HandshakeEndsAgree == Spec => []EndsAgree
<1>1. Init => Types /\ Judged /\ Agreed
  <2> SUFFICES ASSUME Init PROVE Judged /\ Agreed
    BY TypesInit
  <2>1. Judged
    BY DEF Init, Judged, Verdict, ResponseValues
  <2>2. Asked
    <3>1. HeadersAsk(hdr, cli)
      BY DEF Init, NoHeaders, HeadersAsk
    <3>2. toServer \in Seq(Asking(cli, broken)) /\ Offered(hs, cli)
      BY DEF Init, NoHandshake, Offered
    <3> QED
      BY <3>1, <3>2 DEF Init, Asked
  <2>3. Coming = <<>>
    BY DEF Init, Coming
  <2>4. Answering
    BY <2>3 DEF Init, Answering, AtStart
  <2> QED
    BY <2>1, <2>2, <2>4 DEF Agreed
<1>2. Types /\ Judged /\ Agreed /\ [Next]_vars => Types' /\ Judged' /\ Agreed'
  BY TypesNext, JudgedNext, AgreedNext
<1>3. Types /\ Agreed => EndsAgree
  <2> SUFFICES ASSUME Types, Asked, Answering, cat = "returned"
               PROVE  CASE chs.err = "nil" ->
                             /\ hs.err \in {"nil", "io"}
                             /\ chs.protocol = hs.protocol /\ chs.exts = hs.exts
                             /\ hs.protocol \in ToSet(cli.protocols) \cup {NoProtocol}
                             /\ ToSet(hs.exts) \subseteq ToSet(cli.exts)
                        [] chs.err = "status" -> hs.err # "nil" /\ chs.status = StatusOf[hs.err]
                        [] OTHER -> chs.err = "failed" \/ (chs.err = "io" /\ broken)
    BY Zenon DEF Agreed, Ours, EndsAgree
  <2>1. Outcome
    BY DEF Answering
  <2>2. hs.protocol \in ToSet(cli.protocols) \cup {NoProtocol}
    BY DEF Asked, Offered
  <2>3. ToSet(hs.exts) \subseteq ToSet(cli.exts)
    <3>1. PICK S : S = ToSet(cli.exts) /\ hs.exts \in Seq(S)
      BY DEF Asked, Offered
    <3>2. ToSet(hs.exts) \subseteq S
      BY <3>1 DEF ToSet
    <3> QED
      BY <3>1, <3>2
  <2> QED
    BY <2>1, <2>2, <2>3 DEF Outcome
<1> QED
  BY <1>1, <1>2, <1>3, PTL DEF Spec
================================================================================
