------------------------------- MODULE Handshake -------------------------------
(***************************************************************************)
(* The opening handshake, line by line: Dialer.Upgrade (src/dialer.go) on  *)
(* one end, Upgrader.Upgrade or HTTPUpgrader.Upgrade (src/upgrader.go) on  *)
(* the other.  Either end may instead be "any": a peer that sends whatever *)
(* lines it likes.  HTTPUpgrader meets such requests in UpgradersAgree.    *)
(*                                                                         *)
(* A flush may fail after a part of what it writes; the other end then     *)
(* reads "EOF".  Hooks (OnRequest, OnHost, OnHeader, OnBeforeUpgrade) are  *)
(* answered in every way.  A nonce is unique to its handshake.             *)
(***************************************************************************)
EXTENDS Http

CONSTANTS
  MaxValues,  \* bound: headers with the same key that a peer sends
  MaxHeaders  \* bound: headers a peer sends, of which one may have a key again

RequestKeys == {"Host", "Upgrade", "Connection", "SecVersion", "SecKey"}
ResponseKeys == {"Upgrade", "Connection", "SecAccept"}
Keys == RequestKeys \cup ResponseKeys
          \cup {"SecProtocol", "SecExtensions", "other", "malformed"}
Blank == Line("blank", "")
EOF == Line("EOF", "")
Frame == Line("frame", "")

Symmetry == Permutations(Protocols) \cup Permutations(Extensions)

VARIABLES
  ends,      \* which client and which server take part
  cli,       \* the Dialer's options: protocols, exts, extra
  srv,       \* the upgrader's: selects, accepts, negotiation, answer, extra
  toServer, toClient,  \* the lines under way
  broken,    \* a flush has failed
  sat,       \* the server: "line", "headers", "write", "returned", "over"
  sline,     \* the request's first line
  hdr,       \* the headers it has read: key -> values, in their order
  seen, nonce, hs,     \* headerSeen, nonce; hs has the protocol, exts and err
  cat,       \* the Dialer: "write", "line", "headers", "returned"
  cline, chdr, cseen, chs,
  br         \* what the Dialer's buffered reader holds

server == <<sat, sline, hdr, seen, nonce, hs>>
client == <<cat, cline, chdr, cseen, chs, br>>
setting == <<ends, cli, srv>>
vars == <<setting, toServer, toClient, broken, server, client>>

NoHeaders == [k \in Keys |-> <<>>]
NoHandshake == [protocol |-> NoProtocol, exts |-> <<>>, err |-> "nil"]
Extra == {<<>>, <<Line("other", "")>>}
CNonce == CHOOSE n \in Nonces : TRUE

Init ==
  /\ \/ ends \in [client : {"Dialer"}, server : {"Upgrader", "HTTPUpgrader", "any"}]
     \/ ends = [client |-> "any", server |-> "Upgrader"]
  /\ cli \in [protocols : Tokens(Protocols), exts : Tokens(Extensions), extra : Extra]
  /\ srv \in [selects : BOOLEAN, accepts : SUBSET Protocols,
              negotiation : {"none", "Negotiate", "Extension"},
              answer : [Extensions -> {"accept", "decline", "error"}], extra : Extra]
  /\ ends.client = "any" => cli = [protocols |-> <<>>, exts |-> <<>>, extra |-> <<>>]
                           /\ srv.extra = <<>>
  /\ ends.server = "any" => srv = [selects |-> FALSE, accepts |-> {}, negotiation |-> "none",
                                   answer |-> [x \in Extensions |-> "accept"], extra |-> <<>>]
  /\ srv.selects \/ srv.accepts = {}
  /\ srv.negotiation = "Extension" => \A x \in Extensions : srv.answer[x] # "error"
  /\ srv.negotiation = "none" => \A x \in Extensions : srv.answer[x] = "accept"
  /\ toServer = <<>> /\ toClient = <<>> /\ broken = FALSE
  /\ sat = "line" /\ sline = Garbled /\ hdr = NoHeaders /\ seen = {}
  /\ nonce = NoProtocol /\ hs = NoHandshake
  /\ cat = "write" /\ cline = Garbled /\ chdr = NoHeaders /\ cseen = {} /\ br = <<>>
  /\ chs = [protocol |-> NoProtocol, exts |-> <<>>, err |-> "nil", status |-> 0]

(* bw.Flush() of lines to a wire that then holds wire2: all of them, or nothing,
   or all but the last. *)
Flush(wire, lines, wire2, ok) ==
  \/ ok /\ wire2 = wire \o lines
  \/ ~ok /\ \E n \in {0, Len(lines) - 1} : wire2 = wire \o SubSeq(lines, 1, n) \o <<EOF>>

-----------------------------------------------------------------------------
(* Upgrader.Upgrade. *)

ReadLine(line) == toServer # <<>> /\ line = Head(toServer) /\ toServer' = Tail(toServer)

(* readLine fails: nothing is answered. *)
ServerEOF ==
  /\ sat \in {"line", "headers"}
  /\ ReadLine(EOF)
  /\ sat' = "returned"
  /\ hs' = [hs EXCEPT !.err = "io"]
  /\ UNCHANGED <<setting, toClient, broken, sline, hdr, seen, nonce, client>>

(* The error that a first line causes before a header is read. *)
LineError(r) ==
  IF BadVersion(r.version) THEN "BadProtocol"
  ELSE IF r.method # "GET" THEN "BadMethod"
  ELSE "nil"

Hook == {"nil", "rejected", "failed"}

RequestLine ==
  /\ sat = "line" /\ ends.server = "Upgrader"
  /\ \E r \in RequestLines :
       /\ ReadLine(Line("request", r))
       /\ sline' = r
       /\ \E e \in (IF LineError(r) = "nil" THEN Hook ELSE {LineError(r)}) :
            /\ hs' = [hs EXCEPT !.err = e]
            /\ sat' = IF e = "nil" THEN "headers" ELSE "write"
  /\ UNCHANGED <<setting, toClient, broken, hdr, seen, nonce, client>>

(* httpParseRequestLine fails: nothing is answered here either. *)
GarbledRequestLine ==
  /\ sat = "line" /\ ends.server = "Upgrader"
  /\ ReadLine(Line("request", Garbled))
  /\ sat' = "returned"
  /\ hs' = [hs EXCEPT !.err = "MalformedRequest"]
  /\ UNCHANGED <<setting, toClient, broken, sline, hdr, seen, nonce, client>>

\* Mutant: the length of the key is not checked.
HeaderErrorNoKey(k, v) ==
  CASE k = "Upgrade" /\ ~IsWebsocket(v) -> "BadUpgrade"
    [] k = "Connection" /\ ~HasUpgrade(v) -> "BadConnection"
    [] k = "SecVersion" /\ v # "13" -> "UpgradeRequired"
    [] OTHER -> "nil"

(* The case of a required header. *)
HeaderError(k, v) ==
  CASE k = "Upgrade" /\ ~IsWebsocket(v) -> "BadUpgrade"
    [] k = "Connection" /\ ~HasUpgrade(v) -> "BadConnection"
    [] k = "SecVersion" /\ v # "13" -> "UpgradeRequired"
    [] k = "SecKey" /\ v \notin Nonces -> "BadSecKey"
    [] OTHER -> "nil"

(* What one header does to the handshake. *)
Judge(k, v) ==
  CASE k = "SecProtocol" -> TakeProtocol(hs, v, srv)
    [] k = "SecExtensions" -> TakeExtensions(hs, v, srv)
    [] k = "malformed" -> [hs EXCEPT !.err = "MalformedRequest"]
    [] OTHER -> [hs EXCEPT !.err = HeaderError(k, v)]

HeaderLine ==
  /\ sat = "headers" /\ ends.server = "Upgrader"
  /\ \E k \in Keys : toServer # <<>> /\ Head(toServer).key = k
  /\ LET k == Head(toServer).key  v == Head(toServer).val IN
     /\ ReadLine(Line(k, v))
     /\ hdr' = [hdr EXCEPT ![k] = Append(@, v)]
     /\ seen' = seen \cup ({k} \cap RequestKeys)
     /\ nonce' = IF k = "SecKey" /\ v \in Nonces THEN v ELSE nonce
     /\ \E e \in (IF k \in {"Host", "other"} THEN Hook ELSE {Judge(k, v).err}) :
          /\ hs' = [Judge(k, v) EXCEPT !.err = e]
          /\ sat' = IF e = "nil" THEN "headers" ELSE "write"
  /\ UNCHANGED <<setting, toClient, broken, sline, client>>

\* Mutant: a version that is missing is not asked for.
MissingNoVersion ==
  IF "Host" \notin seen THEN "BadHost"
  ELSE IF "Upgrade" \notin seen THEN "BadUpgrade"
  ELSE IF "Connection" \notin seen THEN "BadConnection"
  ELSE IF "SecKey" \notin seen THEN "BadSecKey"
  ELSE "nil"

(* The switch behind the loop: the first header that is missing. *)
Missing ==
  IF "Host" \notin seen THEN "BadHost"
  ELSE IF "Upgrade" \notin seen THEN "BadUpgrade"
  ELSE IF "Connection" \notin seen THEN "BadConnection"
  ELSE IF "SecVersion" \notin seen THEN "BadSecVersion"
  ELSE IF "SecKey" \notin seen THEN "BadSecKey"
  ELSE "nil"

BlankLine ==
  /\ sat = "headers" /\ ends.server = "Upgrader"
  /\ ReadLine(Blank)
  /\ \E e \in (IF Missing = "nil" THEN Hook ELSE {Missing}) :
       hs' = [hs EXCEPT !.err = e]
  /\ sat' = "write"
  /\ UNCHANGED <<setting, toClient, broken, sline, hdr, seen, nonce, client>>

(* httpWriteResponseUpgrade or httpWriteResponseError, and Flush, whose error
   is returned only where there is none yet. *)
Respond ==
  /\ sat = "write"
  /\ LET lines == IF hs.err = "nil"
                  THEN ResponseUpgrade(nonce, hs.protocol, hs.exts, srv.extra)
                  ELSE ResponseError(hs.err, srv.extra)
     IN \E ok \in BOOLEAN :
          /\ Flush(toClient, lines, toClient', ok)
          /\ broken' = (broken \/ ~ok)
          /\ hs' = IF ~ok /\ hs.err = "nil" THEN [hs EXCEPT !.err = "io"] ELSE hs
  /\ sat' = "returned"
  /\ UNCHANGED <<setting, toServer, sline, hdr, seen, nonce, client>>

(* The caller closes the connection after an error, as it is told to, and may
   send a frame at once when there is none. *)
AfterUpgrade ==
  /\ sat = "returned" /\ ends.client = "Dialer"
  /\ sat' = "over"
  /\ toClient' = Append(toClient, IF hs.err = "nil" THEN Frame ELSE EOF)
  /\ UNCHANGED <<setting, toServer, broken, sline, hdr, seen, nonce, hs, client>>

-----------------------------------------------------------------------------
(* net/http reads the request, HTTPUpgrader.Upgrade answers it. *)

HTTPReads ==
  /\ ends.server = "HTTPUpgrader"
  /\ \/ /\ sat = "line"
        /\ \E r \in RequestLines : ReadLine(Line("request", r)) /\ sline' = r
        /\ sat' = "headers"
        /\ UNCHANGED <<hdr, hs>>
     \/ /\ sat = "headers"
        /\ \E k \in Keys :
             /\ toServer # <<>> /\ Head(toServer).key = k
             /\ hdr' = [hdr EXCEPT ![k] = Append(@, Head(toServer).val)]
             /\ ReadLine(Head(toServer))
        /\ UNCHANGED <<sat, sline, hs>>
  /\ UNCHANGED <<setting, toClient, broken, seen, nonce, client>>

HTTPUpgraderUpgrade ==
  /\ ends.server = "HTTPUpgrader" /\ sat = "headers"
  /\ ReadLine(Blank)
  /\ hs' = HTTPUpgrade(sline, hdr, srv)
  /\ nonce' = IF hdr["SecKey"] # <<>> THEN Head(hdr["SecKey"]) ELSE nonce
  /\ sat' = "write"
  /\ UNCHANGED <<setting, toClient, broken, sline, hdr, seen, client>>

ServerStep ==
  \/ ServerEOF \/ RequestLine \/ GarbledRequestLine \/ HeaderLine \/ BlankLine
  \/ Respond \/ AfterUpgrade \/ HTTPReads \/ HTTPUpgraderUpgrade

-----------------------------------------------------------------------------
(* Dialer.Upgrade. *)

\* Mutant: the reader always goes back to the pool.
PutReader(buffered, err) == <<>>

(* The deferred call: the reader is kept only with something in it. *)
KeepReader(buffered, err) == IF buffered = <<>> \/ err # "nil" THEN <<>> ELSE buffered

Return(err, buffered) ==
  /\ chs' = [chs EXCEPT !.err = err]
  /\ cat' = "returned"
  /\ br' = KeepReader(buffered, err)

WriteRequest ==
  /\ cat = "write" /\ ends.client = "Dialer"
  /\ \E ok \in BOOLEAN :
       /\ Flush(toServer, Request(CNonce, cli.protocols, cli.exts, cli.extra), toServer', ok)
       /\ broken' = (broken \/ ~ok)
       /\ IF ok THEN cat' = "line" /\ UNCHANGED <<chs, br>> ELSE Return("io", br)
  /\ UNCHANGED <<setting, toClient, server, cline, chdr, cseen>>

(* The buffered reader takes what has arrived: a line or all of it. *)
Fill ==
  /\ cat \in {"line", "headers"} /\ br = <<>> /\ toClient # <<>>
  /\ \E n \in {1, Len(toClient)} :
       /\ br' = SubSeq(toClient, 1, n)
       /\ toClient' = SubSeq(toClient, n + 1, Len(toClient))
  /\ UNCHANGED <<setting, toServer, broken, server, cat, cline, chdr, cseen, chs>>

ClientEOF ==
  /\ cat \in {"line", "headers"} /\ br # <<>> /\ Head(br) = EOF
  /\ Return("io", <<>>)
  /\ UNCHANGED <<setting, toServer, toClient, broken, server, cline, chdr, cseen>>

StatusError(r) ==
  IF r = Garbled THEN "MalformedResponse"
  ELSE IF BadVersion(r.version) THEN "BadProtocol"
  ELSE IF r.code # 101 THEN "status"
  ELSE "nil"

StatusLine ==
  /\ cat = "line" /\ br # <<>> /\ Head(br).key = "status"
  /\ LET r == Head(br).val  e == StatusError(r) IN
     /\ cline' = r
     /\ IF e = "nil"
        THEN cat' = "headers" /\ br' = Tail(br) /\ UNCHANGED chs
        ELSE /\ cat' = "returned"
             /\ chs' = [chs EXCEPT !.err = e, !.status = IF e = "status" THEN r.code ELSE 0]
             /\ br' = KeepReader(Tail(br), e)
  /\ UNCHANGED <<setting, toServer, toClient, broken, server, chdr, cseen>>

(* One header of the response.  A protocol is compared with the ones asked
   for, and refused only if none has been found yet. *)
CJudge(k, v) ==
  CASE k = "Upgrade" /\ ~IsWebsocket(v) -> [chs EXCEPT !.err = "BadUpgrade"]
    [] k = "Connection" /\ v # "Upgrade" -> [chs EXCEPT !.err = "BadConnection"]
    [] k = "SecAccept" /\ v # CNonce -> [chs EXCEPT !.err = "BadSecAccept"]
    [] k = "SecProtocol" ->
         LET p == IF v \in ToSet(cli.protocols) THEN v ELSE chs.protocol
         IN [chs EXCEPT !.protocol = p,
                        !.err = IF p = NoProtocol THEN "BadSubProtocol" ELSE "nil"]
    [] k = "SecExtensions" ->
         LET m == MatchSelected(v, cli.exts, chs.exts)
         IN [chs EXCEPT !.exts = m.exts, !.err = m.err]
    [] k = "malformed" -> [chs EXCEPT !.err = "MalformedResponse"]
    [] OTHER -> chs

ClientHeader ==
  /\ cat = "headers" /\ br # <<>> /\ Head(br).key \in Keys
  /\ LET k == Head(br).key  v == Head(br).val IN
     /\ chdr' = [chdr EXCEPT ![k] = Append(@, v)]
     /\ cseen' = cseen \cup ({k} \cap ResponseKeys)
     /\ \E e \in (IF k = "other" THEN {"nil", "failed"} ELSE {CJudge(k, v).err}) :
          /\ chs' = [CJudge(k, v) EXCEPT !.err = e]
          /\ cat' = IF e = "nil" THEN "headers" ELSE "returned"
          /\ br' = IF e = "nil" THEN Tail(br) ELSE KeepReader(Tail(br), e)
  /\ UNCHANGED <<setting, toServer, toClient, broken, server, cline>>

CMissing ==
  IF "Upgrade" \notin cseen THEN "BadUpgrade"
  ELSE IF "Connection" \notin cseen THEN "BadConnection"
  ELSE IF "SecAccept" \notin cseen THEN "BadSecAccept"
  ELSE "nil"

ClientBlank ==
  /\ cat = "headers" /\ br # <<>> /\ Head(br) = Blank
  /\ Return(CMissing, Tail(br))
  /\ UNCHANGED <<setting, toServer, toClient, broken, server, cline, chdr, cseen>>

ClientStep ==
  \/ WriteRequest \/ Fill \/ ClientEOF \/ StatusLine \/ ClientHeader \/ ClientBlank

-----------------------------------------------------------------------------
(* A peer that sends what it likes, line by line, and may stop anywhere. *)

Values(k) ==
  CASE k = "Host" -> {"host"}
    [] k = "Upgrade" -> {"websocket", "h2c"}
    [] k = "Connection" -> {"Upgrade", "list", "close"}
    [] k = "SecVersion" -> {"13", "8"}
    [] k = "SecKey" -> Nonces \cup {"short"}
    [] k = "SecAccept" -> Nonces
    [] k = "SecExtensions" -> Lists(Extensions)
    [] OTHER -> {""}

MaySend(h, k) ==
  /\ Len(h[k]) < MaxValues
  /\ h[k] = <<>> \/ \A x \in Keys : Len(h[x]) <= 1
  /\ FoldFunction(LAMBDA v, n : n + Len(v), 0, h) < MaxHeaders

AnyLine(h, keys, ProtocolValues) ==
  (UNION {{Line(k, v) : v \in Values(k)} : k \in
            {x \in keys \ {"SecProtocol"} : MaySend(h, x)}})
  \cup {Line("SecProtocol", v) : v \in IF MaySend(h, "SecProtocol") THEN ProtocolValues ELSE {}}
  \cup {Blank, EOF}

AnyClient ==
  /\ ends.client = "any" /\ toServer = <<>>
  /\ \E line \in
       CASE sat = "line" -> {Line("request", r) : r \in RequestLines \cup {Garbled}} \cup {EOF}
         [] sat = "headers" ->
              AnyLine(hdr, RequestKeys \cup {"SecProtocol", "SecExtensions", "malformed"},
                      Lists(Protocols))
         [] OTHER -> {} :
       toServer' = <<line>>
  /\ UNCHANGED <<setting, toClient, broken, server, client>>

(* Frames may come in one segment with the last line. *)
AnyServer ==
  /\ ends.server = "any" /\ toClient = <<>> /\ br = <<>>
  /\ \E line \in
       CASE cat = "line" ->
              {Line("status", r) : r \in [version : Versions, code : {101, 400}] \cup {Garbled}}
              \cup {EOF}
         [] cat = "headers" ->
              AnyLine(chdr, ResponseKeys \cup {"SecProtocol", "SecExtensions", "other", "malformed"},
                      Protocols)
         [] OTHER -> {} :
       \/ toClient' = <<line>>
       \/ line = Blank /\ toClient' = <<line, Frame>>
  /\ UNCHANGED <<setting, toServer, broken, server, client>>

Next == ServerStep \/ ClientStep \/ AnyClient \/ AnyServer

Spec == Init /\ [][Next]_vars

-----------------------------------------------------------------------------
(* Properties. *)

Errors == DOMAIN StatusOf \cup {"io", "status", "MalformedResponse", "BadSecAccept",
                                "BadSubProtocol", "BadExtensions"}
Results == [protocol : Protocols \cup {NoProtocol}, exts : Seq(Extensions), err : Errors]

(* The types of the variables: an end that has gone past its headers has an
   error or everything it needs. *)
TypeOK ==
  /\ sat \in {"line", "headers", "write", "returned", "over"}
  /\ cat \in {"write", "line", "headers", "returned"}
  /\ broken \in BOOLEAN
  /\ hs \in Results
  /\ [protocol |-> chs.protocol, exts |-> chs.exts, err |-> chs.err] \in Results
  /\ chs.status \in {0, 101} \cup {StatusOf[e] : e \in DOMAIN StatusOf}
  /\ seen \subseteq RequestKeys /\ cseen \subseteq ResponseKeys
  /\ hs.err = "nil" /\ sat \in {"write", "returned"} => nonce \in Nonces

(* What makes a request good, whatever order its lines come in: RFC 6455 4.2.1
   as the comments of Upgrade cite it. *)
GoodValues == [Upgrade |-> {"websocket"}, Connection |-> {"Upgrade", "list"},
               SecVersion |-> {"13"}, SecKey |-> Nonces]
ValidRequest(r, h) ==
  /\ r.method = "GET" /\ r.version[1] = 1 /\ r.version[2] >= 1
  /\ h["malformed"] = <<>>
  /\ \A k \in RequestKeys : h[k] # <<>>
  /\ \A k \in DOMAIN GoodValues : \A i \in DOMAIN h[k] : h[k][i] \in GoodValues[k]
  /\ srv.selects =>
       \A i \in DOMAIN h["SecProtocol"] :
         h["SecProtocol"][i].bad =>
           \E j \in 1..i : ToSet(h["SecProtocol"][j].toks) \cap srv.accepts # {}
  /\ srv.negotiation # "none" =>
       \A i \in DOMAIN h["SecExtensions"] :
         /\ ~h["SecExtensions"][i].bad
         /\ srv.negotiation = "Negotiate" =>
              \A x \in ToSet(h["SecExtensions"][i].toks) : srv.answer[x] # "error"

(* Tokens of lists stand at places: which list, and where in it. *)
Places(lists) == UNION {{<<i, j>> : j \in DOMAIN lists[i].toks} : i \in DOMAIN lists}
At(lists, p) == lists[p[1]].toks[p[2]]
Before(p, q) == p[1] < q[1] \/ (p[1] = q[1] /\ p[2] < q[2])

(* x is the first token of the lists that is wanted, NoProtocol if none is. *)
IsFirst(x, lists, wanted) ==
  \/ /\ x = NoProtocol
     /\ \A p \in Places(lists) : At(lists, p) \notin wanted
  \/ \E p \in Places(lists) :
       /\ x = At(lists, p) /\ x \in wanted
       /\ \A q \in Places(lists) : Before(q, p) => At(lists, q) \notin wanted

(* xs has every wanted token of the lists, as often and in the order they come. *)
AreAll(xs, lists, wanted) ==
  \E at \in [DOMAIN xs -> Places(lists)] :
    /\ \A n \in DOMAIN xs : xs[n] = At(lists, at[n]) /\ xs[n] \in wanted
    /\ \A m, n \in DOMAIN xs : m < n => Before(at[m], at[n])
    /\ \A p \in Places(lists) : At(lists, p) \in wanted => \E n \in DOMAIN xs : at[n] = p

(* Upgrader accepts a request if and only if it is good, in one pass and in
   any order of its headers, and what it negotiates is the first acceptable
   protocol and all acceptable extensions, in the client's order.
   (Upgrader.Upgrade, the loop over the headers.) *)
VerdictFitsRequest ==
  sat = "write" /\ ends.server = "Upgrader" /\ hs.err \notin {"rejected", "failed"} =>
    /\ hs.err = "nil" <=> ValidRequest(sline, hdr)
    /\ hs.err = "nil" =>
         /\ IF srv.selects THEN IsFirst(hs.protocol, hdr["SecProtocol"], srv.accepts)
            ELSE hs.protocol = NoProtocol
         /\ IF srv.negotiation = "none" THEN hs.exts = <<>>
            ELSE AreAll(hs.exts, hdr["SecExtensions"],
                        {x \in Extensions : srv.answer[x] = "accept"})

(* The two upgraders agree on every HTTP/1 request with a host and no header
   twice: they are two readings of the same rules.  (HTTPUpgrader.Upgrade
   against Upgrader.Upgrade.) *)
UpgradersAgree ==
  LET u == HTTPUpgrade(sline, hdr, srv)
      comparable == /\ hdr["malformed"] = <<>> /\ hdr["Host"] # <<"">>
                    /\ sline.version[1] = 1
                    /\ \A k \in Keys : Len(hdr[k]) <= 1
  IN sat = "write" /\ ends.server = "Upgrader" /\ comparable
       /\ hs.err \notin {"rejected", "failed"} =>
       /\ (u.err = "nil") <=> (hs.err = "nil")
       /\ hs.err = "nil" => u = hs

(* A Dialer and an upgrader of this library come out of a handshake of theirs
   with the same protocol and extensions, all of them asked for, or the Dialer
   has the status of the upgrader's error; anything else is a failed
   connection.  (Dialer.Upgrade against both upgraders.) *)
EndsAgree ==
  ends.client = "Dialer" /\ ends.server # "any" /\ cat = "returned" =>
    CASE chs.err = "nil" ->
           /\ hs.err \in {"nil", "io"}
           /\ chs.protocol = hs.protocol /\ chs.exts = hs.exts
           /\ hs.protocol \in ToSet(cli.protocols) \cup {NoProtocol}
           /\ ToSet(hs.exts) \subseteq ToSet(cli.exts)
      [] chs.err = "status" -> hs.err # "nil" /\ chs.status = StatusOf[hs.err]
      [] OTHER -> chs.err = "failed" \/ (chs.err = "io" /\ broken)

(* What makes a response good, its protocol left aside: HTTP/1.1 or later in
   the minor version, status 101, every required header and no bad one, and
   extensions that were asked for. *)
ValidButProtocol(r, h) ==
  /\ r.version[1] = 1 /\ r.version[2] >= 1 /\ r.code = 101
  /\ h["malformed"] = <<>>
  /\ \A i \in DOMAIN h["Upgrade"] : h["Upgrade"][i] = "websocket"
  /\ \A i \in DOMAIN h["Connection"] : h["Connection"][i] = "Upgrade"
  /\ \A i \in DOMAIN h["SecAccept"] : h["SecAccept"][i] = CNonce
  /\ \A k \in ResponseKeys : h[k] # <<>>
  /\ \A i \in DOMAIN h["SecExtensions"] :
       /\ ToSet(h["SecExtensions"][i].toks) \subseteq ToSet(cli.exts)
       /\ ~h["SecExtensions"][i].bad

(* And every protocol it names was asked for. *)
ValidResponse(r, h) ==
  /\ ValidButProtocol(r, h)
  /\ \A i \in DOMAIN h["SecProtocol"] : h["SecProtocol"][i] \in ToSet(cli.protocols)

(* A good response is accepted and no other is, headers in any order and number.
   (Dialer.Upgrade.)  What it makes of a protocol header that comes again is
   left open: the comment says that "subprotocol that is not present in client
   requested protocols" is refused, and the code refuses only a first one
   (README, finding 14). *)
OnlyValidAccepted ==
  cat = "returned" /\ chs.err \notin {"io", "failed"} /\ ~(cline = Garbled) =>
    /\ ValidResponse(cline, chdr) => chs.err = "nil"
    /\ chs.err = "nil" =>
         /\ ValidButProtocol(cline, chdr)
         /\ Len(chdr["SecProtocol"]) <= 1 => ValidResponse(cline, chdr)

(* A frame that comes right behind the response is not lost: it is in the
   reader that Upgrade returns, or has not been read.  (Dialer.Upgrade, the
   deferred decision about br.) *)
FramesKept ==
  cat = "returned" /\ chs.err = "nil" =>
    ((sat = "over" /\ hs.err = "nil") => Frame \in ToSet(br \o toClient))
===============================================================================
