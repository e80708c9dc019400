--------------------------------- MODULE Http ---------------------------------
(***************************************************************************)
(* The lines of an opening handshake and what both ends do with them:      *)
(* src/http.go, the tables of src/upgrader.go and src/nonce.go, and        *)
(* HTTPUpgrader.Upgrade, which gets a parsed request.                      *)
(*                                                                         *)
(* A line is a record: its key, in canonical form, and its value, reduced  *)
(* to what the code tells apart.  A list of tokens is the sequence of its  *)
(* tokens and whether a syntax error follows them.                         *)
(***************************************************************************)
EXTENDS Naturals, Sequences, SequencesExt

CONSTANTS
  Protocols,    \* subprotocols
  Extensions,   \* names of extensions
  Nonces,       \* values of Sec-WebSocket-Key that have nonceSize bytes
  NoProtocol    \* the empty string

ASSUME HttpConstants ==
  /\ NoProtocol \notin Protocols
  /\ Nonces # {} /\ "" \notin Nonces

Line(k, v) == [key |-> k, val |-> v]
Tokens(S) == {<<>>} \cup {<<x>> : x \in S} \cup {p \in S \X S : p[1] # p[2]}
List(toks) == [toks |-> toks, bad |-> FALSE]
Lists(S) == {List(t) : t \in Tokens(S) \ {<<>>}}
              \cup {[toks |-> t, bad |-> TRUE] : t \in {<<>>} \cup {<<x>> : x \in S}}

(* httphead.ScanTokens and ScanOptions call back for every token before a
   syntax error, and report it unless the callback stopped them. *)

-----------------------------------------------------------------------------
(* Request and status lines.  A first line that cannot be split in three or
   whose version cannot be parsed is "garbled". *)

Versions == {<<1, 0>>, <<1, 1>>, <<2, 0>>}
RequestLines == {[method |-> m, version |-> v] : m \in {"GET", "POST"}, v \in Versions}
Garbled == [method |-> "garbled", version |-> <<0, 0>>]

(* req.major != 1 || req.minor < 1 *)
BadVersion(v) == v[1] # 1 \/ v[2] < 1

(* The code of the error's ConnectionRejectedError: 500 for any other error.
   "rejected" is what a hook makes with RejectConnectionError, "failed" is an
   error of a hook's own, "refused" one of Negotiate. *)
StatusOf ==
  [nil |-> 101, BadProtocol |-> 505, BadMethod |-> 405, BadHost |-> 400,
   BadUpgrade |-> 400, BadConnection |-> 400, BadSecKey |-> 400,
   BadSecVersion |-> 400, UpgradeRequired |-> 426, MalformedRequest |-> 400,
   refused |-> 500,
   rejected |-> 403, failed |-> 500]

(* bytes.EqualFold(v, "websocket") *)
IsWebsocket(v) == v = "websocket"

(* btsHasToken(v, "upgrade"): alone or in a list *)
HasUpgrade(v) == v \in {"Upgrade", "list"}

-----------------------------------------------------------------------------
(* Subprotocols and extensions. *)

(* strSelectProtocol, btsSelectProtocol: the first token that the server
   accepts.  Scanning stops there and sees no error behind it. *)
SelectProtocol(list, accepts) ==
  LET hits == {i \in DOMAIN list.toks : list.toks[i] \in accepts} IN
  IF hits # {} THEN [protocol |-> list.toks[Min(hits)], ok |-> TRUE]
               ELSE [protocol |-> NoProtocol, ok |-> ~list.bad]

(* What is appended to dest: the options of toks that answer accepts. *)
Accepted(toks, answer) ==
  LET upTo[i \in 0..Len(toks)] ==
        IF i = 0 THEN <<>>
        ELSE IF answer[toks[i]] = "accept" THEN Append(upTo[i - 1], toks[i])
        ELSE upTo[i - 1]
  IN  upTo[Len(toks)]

(* negotiateExtensions(h, dest, f) and negotiateMaybe(in, dest, f): an option
   is negotiated when the next one begins, the last one when the scan has gone
   well, and an error of f leaves no options.  answer is the callback f, which
   answers an option the same way each time. *)
NegotiateExtensions(list, dest, answer) ==
  LET n == Len(list.toks)
      refused(i) == answer[list.toks[i]] = "error" IN
  IF \E i \in 1..(n - 1) : refused(i) THEN [exts |-> <<>>, err |-> "refused"]
  ELSE IF list.bad THEN [exts |-> <<>>, err |-> "MalformedRequest"]
  ELSE IF n > 0 /\ refused(n) THEN [exts |-> <<>>, err |-> "refused"]
  ELSE [exts |-> dest \o Accepted(list.toks, answer), err |-> "nil"]

(* btsSelectExtensions: every accepted option, also before a syntax error *)
SelectExtensions(list, dest, answer) ==
  [exts |-> dest \o Accepted(list.toks, answer),
   err |-> IF list.bad THEN "MalformedRequest" ELSE "nil"]

(* The names of toks before the first that was not asked for, and of those
   before the last, which is looked at by itself. *)
MatchedBefore(toks, asked) ==
  SubSeq(toks, 1, Min({i \in DOMAIN toks : toks[i] \notin asked} \cup {Len(toks)}) - 1)

\* Mutant: the last name is not looked at.
MatchSelectedButLast(list, wanted, received) ==
  LET asked(i) == list.toks[i] \in ToSet(wanted)
      matched == received \o MatchedBefore(list.toks, ToSet(wanted)) IN
  IF \E i \in 1..(Len(list.toks) - 1) : ~asked(i) THEN [exts |-> matched, err |-> "BadExtensions"]
  ELSE IF list.bad THEN [exts |-> matched, err |-> "MalformedResponse"]
  ELSE [exts |-> received \o list.toks, err |-> "nil"]

(* matchSelectedExtensions: names are looked at one behind the scan, the last
   one when the scan has gone well.  What has been matched stays in exts,
   whatever comes behind it. *)
MatchSelected(list, wanted, received) ==
  LET n == Len(list.toks)
      asked(i) == list.toks[i] \in ToSet(wanted)
      matched == received \o MatchedBefore(list.toks, ToSet(wanted)) IN
  IF \E i \in 1..(n - 1) : ~asked(i) THEN [exts |-> matched, err |-> "BadExtensions"]
  ELSE IF list.bad THEN [exts |-> matched, err |-> "MalformedResponse"]
  ELSE IF n > 0 /\ ~asked(n) THEN [exts |-> matched, err |-> "BadExtensions"]
  ELSE [exts |-> received \o list.toks, err |-> "nil"]

-----------------------------------------------------------------------------
(* What is written.  extra is the Header option. *)

(* httpWriteUpgradeRequest *)
Request(nonce, protocols, exts, extra) ==
  <<Line("request", [method |-> "GET", version |-> <<1, 1>>]),
    Line("Host", "host"), Line("Upgrade", "websocket"),
    Line("Connection", "Upgrade"), Line("SecVersion", "13"),
    Line("SecKey", nonce)>>
  \o (IF protocols # <<>> THEN <<Line("SecProtocol", List(protocols))>> ELSE <<>>)
  \o (IF exts # <<>> THEN <<Line("SecExtensions", List(exts))>> ELSE <<>>)
  \o extra \o <<Line("blank", "")>>

\* Mutant: extensions are written only without a protocol.
ResponseUpgradeEither(nonce, protocol, exts, extra) ==
  <<Line("status", [version |-> <<1, 1>>, code |-> 101]),
    Line("Upgrade", "websocket"), Line("Connection", "Upgrade"),
    Line("SecAccept", nonce)>>
  \o (IF protocol # NoProtocol THEN <<Line("SecProtocol", protocol)>>
      ELSE IF exts # <<>> THEN <<Line("SecExtensions", List(exts))>> ELSE <<>>)
  \o extra \o <<Line("blank", "")>>

(* httpWriteResponseUpgrade; writeAccept derives the accept value from the
   nonce, and no two nonces share one. *)
ResponseUpgrade(nonce, protocol, exts, extra) ==
  <<Line("status", [version |-> <<1, 1>>, code |-> 101]),
    Line("Upgrade", "websocket"), Line("Connection", "Upgrade"),
    Line("SecAccept", nonce)>>
  \o (IF protocol # NoProtocol THEN <<Line("SecProtocol", protocol)>> ELSE <<>>)
  \o (IF exts # <<>> THEN <<Line("SecExtensions", List(exts))>> ELSE <<>>)
  \o extra \o <<Line("blank", "")>>

(* httpWriteResponseError, with the header of ErrHandshakeUpgradeRequired; the
   type and length of the body are "other" headers. *)
ResponseError(err, extra) ==
  <<Line("status", [version |-> <<1, 1>>, code |-> StatusOf[err]]), Line("other", "")>>
  \o extra
  \o (IF err = "UpgradeRequired" THEN <<Line("SecVersion", "13")>> ELSE <<>>)
  \o <<Line("other", ""), Line("blank", ""), Line("body", "")>>

-----------------------------------------------------------------------------
(* HTTPUpgrader.Upgrade of a hijacked request: r is its first line, h maps
   each key to the values it came with, in their order.  Where there is one
   value to look at, httpGetHeader takes the first. *)

Get(h, key) == IF h[key] = <<>> THEN "" ELSE Head(h[key])

\* Mutant: the Connection header is compared as a whole.
HTTPCheckNoList(r, h) ==
  IF r.method # "GET" THEN "BadMethod"
  ELSE IF r.version[1] < 1 \/ (r.version[1] = 1 /\ r.version[2] < 1) THEN "BadProtocol"
  ELSE IF Get(h, "Host") = "" THEN "BadHost"
  ELSE IF ~IsWebsocket(Get(h, "Upgrade")) THEN "BadUpgrade"
  ELSE IF Get(h, "Connection") # "Upgrade" THEN "BadConnection"
  ELSE IF Get(h, "SecKey") \notin Nonces THEN "BadSecKey"
  ELSE IF Get(h, "SecVersion") = "" THEN "BadSecVersion"
  ELSE IF Get(h, "SecVersion") # "13" THEN "UpgradeRequired"
  ELSE "nil"

HTTPCheck(r, h) ==
  IF r.method # "GET" THEN "BadMethod"
  ELSE IF r.version[1] < 1 \/ (r.version[1] = 1 /\ r.version[2] < 1) THEN "BadProtocol"
  ELSE IF Get(h, "Host") = "" THEN "BadHost"
  ELSE IF ~IsWebsocket(Get(h, "Upgrade")) THEN "BadUpgrade"
  ELSE IF ~HasUpgrade(Get(h, "Connection")) THEN "BadConnection"
  ELSE IF Get(h, "SecKey") \notin Nonces THEN "BadSecKey"
  ELSE IF Get(h, "SecVersion") = "" THEN "BadSecVersion"
  ELSE IF Get(h, "SecVersion") # "13" THEN "UpgradeRequired"
  ELSE "nil"

\* Mutant: a later header is looked at as well.
TakeProtocolAgain(hs, list, srv) ==
  IF ~srv.selects \/ hs.err # "nil" THEN hs
  ELSE LET s == SelectProtocol(list, srv.accepts) IN
       [hs EXCEPT !.protocol = s.protocol,
                  !.err = IF s.ok THEN "nil" ELSE "MalformedRequest"]

(* One more Sec-WebSocket-Protocol header: nothing if one has been selected. *)
TakeProtocol(hs, list, srv) ==
  IF ~srv.selects \/ hs.err # "nil" \/ hs.protocol # NoProtocol THEN hs
  ELSE LET s == SelectProtocol(list, srv.accepts) IN
       [hs EXCEPT !.protocol = s.protocol,
                  !.err = IF s.ok THEN "nil" ELSE "MalformedRequest"]

(* One more Sec-WebSocket-Extensions header, by Negotiate or, without it, by
   the deprecated Extension. *)
TakeExtensions(hs, list, srv) ==
  IF srv.negotiation = "none" \/ hs.err # "nil" THEN hs
  ELSE LET n == IF srv.negotiation = "Negotiate"
                THEN NegotiateExtensions(list, hs.exts, srv.answer)
                ELSE SelectExtensions(list, hs.exts, srv.answer) IN
       [hs EXCEPT !.exts = n.exts, !.err = n.err]

HTTPUpgrade(r, h, srv) ==
  LET ps == h["SecProtocol"]
      xs == h["SecExtensions"]
      selected[i \in 0..Len(ps)] ==
        IF i = 0 THEN [protocol |-> NoProtocol, exts |-> <<>>, err |-> HTTPCheck(r, h)]
        ELSE TakeProtocol(selected[i - 1], ps[i], srv)
      negotiated[i \in 0..Len(xs)] ==
        IF i = 0 THEN selected[Len(ps)]
        ELSE TakeExtensions(negotiated[i - 1], xs[i], srv)
  IN  negotiated[Len(xs)]
===============================================================================
