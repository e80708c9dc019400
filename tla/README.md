# mogusocket in TLA+

Specifications of the websocket library in `src/` (module `mogusocket` and its
package `msutil`), the TLC runs that check them on small instances and the
theorems TLAPS proves for every instance. `PROJECT.json` is the index: which
lines each definition stands for, what each run checks, which mutation of the
code each property is known to catch, and the hazards the properties are for.

    tlc -workers 2 -config MCWriter.cfg MCWriter.tla     # check a run
    tlapm WriterProofs.tla                               # check the proofs

## 1. The system

| component | files | state | operations |
|---|---|---|---|
| frame headers, checks | `frame.go` `write.go` `read.go` `check.go` | none | `HeaderSize`, `WriteHeader`, `ReadHeader`, `CheckHeader`, `CheckCloseFrameData`, close bodies |
| payload cipher | `cipher.go` `msutil/cipher.go` | mask and position of a stream | `Cipher`, `CipherReader`, `CipherWriter` |
| message writer | `msutil/writer.go` | buffer, `n`, `dirty`, `fseq`, `err`, `noFlush`, extensions | `Write`, `WriteThrough`, `ReadFrom`, `Flush`, `FlushFragment`, `Grow`, `Reset`, `ResetOp`, `DisableFlush`, `SetExtensions` |
| control writer, pool | `msutil/writer.go:37-114` | limit, count; pooled writers | `Write`, `Flush`, `GetWriter`, `PutWriter` |
| message reader | `msutil/reader.go` `msutil/utf8.go` | continuation flag, opcode, current frame, bytes left of it, UTF-8 state | `NextFrame`, `Read`, `Discard` |
| control frames | `msutil/handler.go` `msutil/helper.go` | none | `HandlePing`, `HandlePong`, `HandleClose`, `readData` |
| client | `msutil/client.go` | connection, session, contexts, goroutines, `AutoReconnectErrors` | `AutoConnectClient.Run`, `connect`, `close`, `autoReconnect`, `ConnectClient` |
| server, connecter | `server.go` `msutil/connecter.go` | listener, a goroutine per connection | `Server.Run`, `handleAccept`, `Connecter.Run` |
| dialer | `dialer.go` | connection, deadlines, the interrupter | `Dial`, `Upgrade` |
| upgrader | `upgrader.go` `http.go` `nonce.go` `util.go` | headers seen, negotiated protocol and extensions | `Upgrader.Upgrade`, `HTTPUpgrader.Upgrade` |
| the rest | `log.go`, unsafe casts, TLS shims, `msutil/upgrader.go`, examples | | |

How they meet: a `Dialer` or a `Server` yields a connection. `ConnectClient` and
`Connecter.Run` put a `Reader` and a `Writer` on it. The session's `ReadPump` is
called by the reading goroutine with the `Reader`; the session sends through a
function that resets the shared `Writer` and copies into it, from any goroutine.
A `Reader` hands control frames it meets inside a message to `ControlHandler`
(`OnIntermediate`), which writes its replies on the same connection. Contexts tie
the lives of goroutines together: the watcher in `ConnectClient` closes the
connection when the session's context ends, the interrupter in `Dial` moves the
connection's deadline.

What is hard, and what correctness means there:

- *writer*: failures in the middle of a loop that sends several frames; fragments
  sent by three different paths; headers that grow with the buffer. The frames
  must form messages, carry the accepted bytes once and in order, and stop for
  good after a failure.
- *reader*: frames, control frames between fragments, the caller's buffer and
  UTF-8 sequences all cut the stream at different places, and the stream may end
  anywhere. The reader must stay in step with the wire and judge text as if it
  had not been cut.
- *client*: three kinds of goroutine hand the client over to each other while
  sessions end, connections are lost and the context is cancelled. There must be
  one owner, one session, no way to die quietly, and nothing left behind.
- *dialer*: the end of a context races with a handshake that has just gone well.
- *handshake*: headers come in any order and number, either end may stop in the
  middle, and three pieces of code judge the same lines. An upgrader must accept
  exactly the good requests, the dialer exactly the good responses, and two ends
  that both succeed must have the same connection in mind.
- *control frames*: they arrive between messages and inside them, where another
  goroutine's stack and another source are in play, on a connection the session
  writes to as well. Every ping is answered once, a close ends everything.
- *server*: a goroutine per connection, each ended by its peer, its session, its
  sends or the context. Sessions are closed before connections and none is left.
- *codec, cipher, UTF-8*: boundaries of lengths, a mask's phase across chunks, a
  table of classes and states.

The full list of hazards, each at its line, is in `PROJECT.json`.

## 2. What is modelled

### Writer (`FrameHeader`, `Writer`, `OutStream`, `MCWriter`)

`FrameHeader` has the arithmetic of header sizes: `HeaderSize`, `reserve`, and
the size `NewWriterSize` allocates, over the boundaries `Len7` and `Len16`.

`Writer` has one action per method, and one action per loop iteration for `Write`
and `ReadFrom` (`WriteGrow`, `WriteDirect`, `WriteFill`, `WriteExit`;
`ReadFromGrow`, `ReadFromFlush`, `ReadFromRead`), because a destination may fail
between two of them. Variables are the fields of the struct (`raw` is
`len(w.raw)`, `buf` is `w.buf[:w.n]`), the call in progress (`pc`, `todo`, `ret`)
and what the destination got (`wire`). A failing destination has taken nothing of
the frame or a part of it. An extension that fails does so in `SetBits`. A byte
is the number of its acceptance, so loss, duplication and reordering show.

`OutStream` is what a writer promises, without buffer or loops: accepted bytes
leave in order, each once; the first frame of a message has the message's opcode
and the rest are continuations; a final frame leaves nothing behind; after a
failure nothing follows. It counts the bytes offered, so that a step adds to the
queue exactly the bytes it was given, and what a frame carries is no longer
queued: no byte can come back or come from nowhere. Only a step that abandons the
message (`Discard`) may lose bytes while the transport works. `Writer!StreamSpec`
maps the buffer and the argument of the call in progress to the queue of
`OutStream`, `seqno` to the count, `err` to its broken transport and `fseq` to its
open message.

### Reader (`Reader`)

`NextFrame` is an operator with one disjunct per outcome (`NoHeader`,
`RefuseHeader`, `ExtensionFails`, `Intermediate`, `DataFrame`) used by the three
places that call it: the caller, `Read` and `Discard`. Their loops take a step per
frame, and `Read` a step per chunk of bytes the source gives. The peer sends any
header at any time, well-formed or not. `left`, `open` and `sent` are the
truth about the wire, which the reader cannot see; `taken` and `got` are the
bytes of the current message that were taken from the source and that `Read`
returned. Bytes are `ascii`, `lead` or `tail`: one-byte sequences and two-byte
sequences, which is where held-back bytes and cut sequences already happen.

The caller keeps to the documented contract: it reads or discards a message to
its end before it asks for the next. With `SkipsControl` it is the loop of
`ConnectClient`, which does not.

### Client (`AutoConnect`)

One action per step that another goroutine can see, for the goroutines of
`AutoConnectClient` (`connect`, `close`, `autoReconnect`), of `ConnectClient` (the
reading loop and the watcher) and the surroundings (the server, the session, the
program that cancels). Connections are numbered as they are dialled; each has its
own `connect`, `close`, `ConnectClient` and watcher. A `select` with two ready
branches takes either. The delay before a new dial is a step, not a duration.

### Dialer (`Dial`)

`Dial` with its deferred calls in their order (stop the interrupter, take its
answer, clear the deadline, close on error), the interrupter goroutine and its two
channels, the connection's deadline and two clocks (the context, the Timeout).
The handshake is a number of reads and writes, each of which the peer may delay
for ever.

### Handshake (`Http`, `Handshake`)

`Http` is what the lines of a handshake mean and what both ends do with them as
functions: request and status lines, token lists, the selection of a protocol,
the negotiation of extensions, the writing of requests and responses, and
`HTTPUpgrader.Upgrade`, which gets its request parsed. Its loops over lists and
headers are recursive functions, and cases that overlap are written with IF, for a
CASE with two true guards may be either. `Handshake` runs a `Dialer`
against an upgrader over two queues of lines, one action per line read: a line
takes effect by `Judge` or `CJudge` and the first error wins, as `err` in the
loops of `Upgrade` does. Either end can be replaced by "any", a peer that sends
any lines in any order with one key twice. Every flush may fail after nothing or
after all but the last line; hooks reject or pass. A nonce stands for its accept
value, the path and host of a URL are not told apart, and what `Negotiate` answers
depends on the extension alone. `Upgrader` keeps what a client pipelines behind
its request in a reader it throws away; the model drops those bytes too.

### Control frames (`Control`)

One session of `Connecter.Run` on the server's side. The peer sends any frames,
each cut anywhere; a control frame is handled with the `Reader` as its source
between messages and with the bare frame inside one (`frag`), and the two end
differently when the stream does (`EndOfSource`). `Handle` and the operators below
it return what a handler writes and what it returns; `HandlerWrites` puts one
`conn.Write` at a time on the wire, any of which may fail, and `HandlerReturns`
goes up the stack: to the loop, or through `NextFrame` and `Read` to `ReadPump`. The
session sends one message at a time, as one frame, two, or a `WriteThrough`, whose
header and payload are two writes; from `ReadPump` or from a goroutine of its own.
It reads every message to its end and returns the error it meets. (The example
server's `ReadPump` ignores the error; see Findings.) `close` and `pings` are history:
what arrived whole.

### Server (`Server`)

`Server.Run`, `handleAccept`, and the goroutine of every connection, whose
`Connecter.Run` is reduced to its places: the top of the loop, blocked in
`NextFrame`, busy with a frame, and the deferred calls one by one. A refused
session returns before anything is deferred. The session cancels its context or
fails to send at any moment, the peer leaves at any moment, `Accept` fails at any
moment.

### Codecs (`HeaderCodec`, `Cipher`, `Utf8`, `Codec`)

The pure algorithms as operators, and `Codec` to drive them: `WriteHeader` and
`ReadHeader` on bytes, with the real boundaries 125 and 65535 and all eight bytes of
a long length (`Uint64`, `Int64`: a negative length is the complement of its bytes,
which keeps within the integers TLC can count with); `Cipher` with its
head, words and tail; the automaton of `utf8.go` with its whole table. A masked
byte is the set of the mask bytes it was combined with, so that masking twice
gives the plain byte back and nothing else does. `Codec` sends a frame through
`CipherWriter` in chunks, of which the destination takes parts, cuts its header or
sets the sign of its length (`given` is what arrives), and reads it back through
`CipherReader` in other chunks; and it feeds the automaton any bytes, keeping those
since the last whole sequence.

## 3. Runs

| run | shows | bounds |
|---|---|---|
| `writer` | types, `HeaderRoom`, `Protocol`, `TornFrameLast`, `NoFragments`, `ErrorIsFinal`, that the writer implements `OutStream`, that `Write` returns | boundaries at 1 and 3 bytes, buffers of 3 to 11 raw bytes, both sides, 4 bytes in all, 3 per call, calls that start with fewer than 2 frames on the wire |
| `reader` | types, `Aligned`, `EOFComplete`, `NothingHeldBack`, `OnlyValidText`, `InvalidIsInvalid`, `StartsClean` | 3 frames of up to 2 bytes |
| `reader_client` | `ConnectClient` parses a header out of a payload (finding) | as `reader` |
| `client` | types, `OneOwner`, `NeverGivesUp`, `OneSession`, `ConnsReleased`, `SessionEnds` | 3 connections, 2 counted dial errors |
| `client_cancel` | a cancelled client may reconnect (finding) | as `client` |
| `dial` | types, `ReturnedUsable`, `ErrorNamesCause`, `HelperEnds`, `DialEnds` | 3 reads and writes |
| `dial_timeout` | the Timeout does not bound a handshake (finding) | as `dial` |
| `handshake` | types, `VerdictFitsRequest`, `UpgradersAgree`, `EndsAgree`, `OnlyValidAccepted`, `FramesKept` | 2 protocols (symmetric), 1 extension, 1 nonce; a peer that may send anything sends up to 7 headers, one key twice |
| `control` | `PongsEchoPings`, `WholeFrames`, `CloseAnswered` | 3 frames from the peer, pings of up to 2 bytes, one code of every class, 2 sends |
| `control_eof` | half a message is taken for a whole one (finding) | 2 frames |
| `server` | `CloseOrder`, `ServerStops`, `ConnsReleased` | 2 connections |
| `codec` | `FramesSurvive`, `TextJudged` | 9 lengths around every boundary, payloads of up to 19 bytes, the first and last byte of every range of UTF-8 |

Why the bounds are enough to meet the interesting cases. *Writer*: the header
boundaries are scaled down so that the sizes reachable with a few bytes cross
both of them, in both directions of growth and with and without a mask; four
bytes and two frames make a message of a first frame, continuations and a last
frame, torn at any of them, and a following message. *Reader*: three frames make
a message of two fragments with a control frame in between, or a message after a
broken one; two bytes per frame cut a two-byte sequence at every place. *Client*:
three connections allow a lost one, a reconnection and a session that overlaps
the next. *Dial*: the context can end before, between and after the reads.
*Handshake*: seven headers are every required one with one of them twice, or
without some; two protocols tell the first from the others. *Control*: three
frames are the first fragment of a message, a control frame inside it and
whatever comes after; two sends let one begin behind a reply and one before.
*Server*: connections meet only in the accept loop and the context. *Codec*:
the header may arrive whole, cut anywhere or with a negative length, and `FramesSurvive`
asks for the right outcome in each case; nineteen bytes are a head, two words and a
tail at every phase of the mask, and the automaton's history is at most four bytes long, so that texts of any length
are covered.
The theorems below do without the bounds: `MaxBytes`, `MaxFrames` and the like
are any number there.

Every property of a passing run is known to fail for a mutation of the model that
a bug in the code would make: an operator marked `Mutant` stands before the
definition it would replace.

### Fairness

- `Writer`: a call that has begun goes on (`WF` of the loop's steps); the
  destination answers each write. No call need be made.
- `AutoConnect`: goroutines that can go on do; the session's methods return, a
  read from a connection that is not open ends. Nothing makes the server close,
  the session cancel or the program cancel, and a read from an open connection
  may last for ever.
- `Dial`: `Dial` and the interrupter go on where they can; a dial ends with its
  context. The peer may never answer.
- `Server`: every goroutine goes on where it can. `Accept` returns when the listener
  is closed, a `NextFrame` whose peer has gone ends (strongly fair: frames that
  came before may be taken first), handlers and `ReadPump` return. No peer need
  send, leave or be accepted while `Accept` fails.
- `Reader` has no liveness property: how long a stream lasts is the peer's affair.

## 4. Theorems

- `WriterProofs`: `NewWriterSizeExact` (the size computed by `NewWriterSize(n)`
  leaves exactly `n` bytes of payload, across the boundaries); `WriterSafe` with its
  parts `WriterTypes`, `WriterHasHeaderRoom` and `WriterStopsAtTornFrame`;
  `WriterErrorIsFinal` (until `Reset`: what that makes of an error is finding 8),
  `WriterNoFragments`. The invariants a run checks are not
  inductive: the proof strengthens them with what ties `fseq` to the last frame
  on the wire and with the room that is reserved for the header at every size.
  `WriterImplementsStream`: every step of `Writer` is a step of `OutStream` or
  stutters, under the same refinement mapping TLC checks.
- `AutoConnectProofs`: `ClientTypes`, `ClientHasOneOwner`, `ClientNeverGivesUp`,
  `ClientHasOneSession`, for any number of connections. The inductive invariant
  says that at most one goroutine holds the client (`Unique`), that somebody does
  until the context ends (`Somebody`), that only a cancelled client has left a
  connection with code 1 (`LastCode`), and that a session in progress belongs to
  the connection whose `connect` still waits or was cancelled (`Served`).
- `DialProofs`: `DialStaysTyped`, `DialReturnsUsable`, `DialNamesCause`,
  `DialLeavesNoHelper`. The invariant follows the interrupter: it is gone once its answer has been taken,
  and a deadline in the past means that its answer is or will be the context's
  error.
- `ReaderProofs`, for a caller with `SkipsControl = FALSE`, frames of any length and
  any number of them. `ReaderKeepsStep`, with `ReaderEOFIsComplete` and
  `ReaderStartsClean` as its parts: `Aligned`, `InStep`, `EOFComplete` and
  `StartsClean`. The invariant adds that inside a message the bytes taken and the
  bytes left make the bytes sent, and that a control frame between messages is a
  whole message that leaves the UTF-8 state alone. `ReaderReturnsOnlyValidText`,
  `ReaderHoldsNothingBack`, `ReaderRejectsOnlyInvalid` and `ReaderTypes`: the
  invariant (`TextInv`) says that the UTF-8 state is that of the bytes taken since
  the message began, and that what `Read` has returned is those bytes without the
  sequence under way.
- `ServerProofs`: `ServerClosesInOrder`, `CloseOrder` for any set of connections. The
  invariant (`Stands`) says for every place of a goroutine what it has opened and
  closed so far.
- `ControlProofs`: `ControlWritesWholeFrames` and `ControlAnswersClose`, for any set of
  codes and any number of frames and sends. Neither property is inductive. The
  invariant adds to what is on the wire what the handler and the session still
  hold: a header at the end of the wire waits for the first piece of one of them
  (`WireWhole`), a close frame is the last thing the handler holds (`AfterClose`), its
  answer is on the wire or held (`Answering`), and whoever has read or written one
  returns an error that ends the loop (`Closing`). Two lemmas do without the
  state: what `CheckCloseFrameData` lets pass is what an endpoint may send
  (`CodeRules`), and what `HandleClose` makes of a frame is its answer
  (`CloseReply`). `ControlPongsEchoPings`: the pongs on the wire and the one the
  handler still holds are the answers to the pings taken, in their order
  (`PongInv`).
- `CodecProofs`: `ReaderJudgesText`, the automaton of `utf8.go` against the
  definition of UTF-8, for any bytes, table and decoding included (the prover goes
  through the classes of bytes, as the table does). `CodecFramesSurvive`, for every
  length below 2^31 and any limits of the short lengths: a header that arrives whole is
  read without an error and is the one that was written, a part of it is an end of
  file, one with a negative length is `ErrHeaderLengthMSB` (`ReadRight`); and
  so survives a payload of any length cut anywhere into writes and reads. Its
  invariant (`FrameInv`) has the phase of each end's mask and what either end knows
  (`Knows`) of the bytes written, on the wire and read.
- `HandshakeProofs`, for any protocols, extensions and nonces, headers in any number
  and order and lists of any length. `HandshakeTypes`: an upgrader that has gone
  past the headers has an error or the key it answers (`Types`).
  `HandshakeFramesKept`: the frame is on the wire, in the buffered reader or in what
  `Upgrade` returns (`FrameWaits`). `HandshakeOnlyValidAccepted`: as long as the
  `Dialer` reads, it has seen the headers it says it has, and every line so far is
  one of a good response, a protocol header after the first excepted (`Judged`); what
  it refuses is not. `HandshakeVerdictFits`:
  the same for a request and `Upgrader`, with what it takes. Its invariant
  (`Weighed`): as long as the upgrader reads, the headers read are good, `seen` is
  the set of required ones among them, and `hs` holds the first protocol and all
  extensions taken from the lists so far, in the order of their places.
  `HandshakeUpgradersAgree` rests on the same invariant: where no header comes twice,
  what `HTTPUpgrade` computes from the whole request (`HTTPFits`) is what `Weighed` says
  of the other upgrader. Lemmas say what the loops over a list or over headers do
  (`SelectProtocolFits`, `AcceptedInOrder`, `NegotiateFits`, `HTTPUpgradeTyped`,
  `MatchSelectedJudged`, `HeaderJudged`).
  `HandshakeEndsAgree`: between a `Dialer` and an upgrader of this library, what the
  two hold and the wires must fit. The invariant (`Agreed`) has two parts. `Asked`: the
  request under way is one of that `Dialer`, and what the server has taken was offered
  in it. `Answering`: what is still to be read, in the buffered reader and on the wire
  (`Coming`), is the rest of the response to what the server holds. `Rest` says that
  each header it sends and the `Dialer` has not read is there once, that a blank line
  ends them, or an EOF where a flush has failed. So what the `Dialer` has at the blank
  line is what the server sent.

- The variants behind the liveness properties. A run shows that a loop ends on a small
  instance, under fairness; these theorems give for every size what the argument rests
  on: a number that each step of the goroutines concerned lowers and no other step
  raises in the meantime, and somebody who can take one. `WriteIsShort`: `Write` is over after three
  steps of its loop, for a buffer that was sent is bypassed and one that grew holds
  everything; `WriteSpins` is finding 6, the extension with which it is not.
  `DialIsBounded` and `DialNeverStuck`: `Dial` and the interrupter have as many steps
  as the handshake has reads and writes and nine more, and once the context is done
  neither waits for the other or for the peer (`WaitInv` adds that the interrupter
  answers "nil" only when told to stop). `ServerLeavesNoBacklog` and
  `ServerWindsDown`: no peer is left between the listener and a goroutine (`Backlog`),
  and a done context leaves everybody less to do with each step. `ClientHoldsConns`
  and `ClientSessionsWindDown`: every connection that is not closed has a `connect`
  that will close it (`Held`), and a session on a closed one only comes nearer to its
  end.

Where a proof needs induction over a sequence, it takes the least index at which a
claim fails, which the library's theorem on the well-founded order of the naturals
provides without an operator as a parameter.

`DialProofs` and `ReaderProofs` also prove `FailedClosed` and `InStep`, which no run
repeats.

The theorems rest on the named assumptions of the modules (`HeaderLengths`,
`WriterConstants`, `Powers`, `ConnBounds`, `IOBound`, `ReaderConstants`,
`ControlConstants`, `CodecConstants`, `LengthBounds`, `HttpConstants`), which TLC
evaluates in the runs.

Only model-checked:

- liveness, for fairness and ENABLED are out of the prover's reach: `WriteReturns`,
  `ConnsReleased` of the client and of the server, `SessionEnds`, `DialEnds`,
  `ServerStops`. The variants above are their safety half; that the scheduler takes
  the steps is what stays with TLC.

## 5. Findings

A run shows these; `PROJECT.json` quotes the documentation each contradicts.

1. A client cancelled during a session may take the reconnecting branch
   (`client.go:117`; run `client_cancel`).
2. `Dialer.Timeout` does not bound the handshake when there is a context
   (`dialer.go:185`; run `dial_timeout`).
3. `ConnectClient` leaves the payload of a control frame in the stream
   (`client.go:209`; run `reader_client`).
4. When the stream ends behind the header of a close frame that came inside a
   fragmented message, `HandleClose` returns `io.EOF` and `Reader.Read` passes it on
   as the end of the message (`handler.go:161`; run `control_eof`). `ReadData` and
   `io.ReadAll` return the fragments without an error.

These were met while the code was translated; no run is kept for them.

5. `Flush` after a `ReadFrom` whose source failed with an empty buffer returns nil
   and leaves the message open (`writer.go:470`).
6. `Write` with an empty buffer drops the error of `SetBits` and never returns
   (`writer.go:302`; this is why `WriteReturns` is about writers whose extensions
   do not fail).
7. `ReadFrom` takes data after the writer has failed (`writer.go:425`).
8. `Reset` keeps the error of the old destination (`writer.go:230`), against its
   comment at line 227. `ErrorIsFinal` and `OutStream` leave `Reset` free to do either.
9. `closeWithProtocolError` drops the frame that `MaskFrameInPlace` returns: a
   client sends a close frame with a masked payload and a header that says it is
   not masked (`handler.go:215`; against the rule `check.go:102` quotes).
10. Inside a message a ping whose payload is cut is answered with a pong that has a
    part of it (`handler.go:104`).
11. A session that returns from `ReadPump` before its message ended, or, as the
    example server does, in spite of the error that a close frame inside the
    message caused, sends the loop on while the reader is inside the message. A
    control frame that comes then is handled by `OnIntermediate` and once more by
    the loop, which reads the pong's payload from the frames behind it
    (`connecter.go:80`).
12. A session that sends from a goroutine of its own can have a pong between the
    header and the payload of a `WriteThrough` frame (`connecter.go:37`,
    `writer.go:411`), and a data frame behind the close reply. `WholeFrames` claims
    neither for it.
13. `Upgrade` promises a response on every error (`upgrader.go:420`), but a request
    that ends early or has a garbled first line gets none (`upgrader.go:457`).
14. `Dialer` checks only the first `Sec-WebSocket-Protocol` of a response
    (`dialer.go:413`), and so accepts one whose second names a protocol nobody asked
    for, against the comments at `dialer.go:403-406` and `414-415`; `OnlyValidAccepted`
    demands that every protocol was asked for where the header comes once and leaves
    its repetition open. `negotiateExtensions` asks a refusing `Negotiate` a second
    time (`http.go:254`).
15. `dial` calls `WrapConn` with a nil connection when a ws dial failed
    (`dialer.go:246`); `DialServer` ignores `ParserAddr`'s error (`client.go:164`);
    `ConnectClient` and `Connecter.Run` leave the context they made uncancelled when
    the session refuses (`client.go:188`, `connecter.go:56`).

## 6. Not modelled

- `Reader`: `SkipHeaderCheck`, `OnContinuation`, reads with an empty buffer;
  `MaxFrameSize` is one of the reasons for which a header is refused. An
  `OnIntermediate` that returns `io.EOF` is in `Control` only.
- `Writer`: the bits other than opcode and fin, masking, a destination that blocks,
  the pool. `ControlWriter` is modelled by what the control handler does with it.
- `helper.go`: functions that read or write one whole message; `readData` is the loop
  of `Connecter.Run` with `Discard` for what it does not want.
- `frame.go`: constructors, compiled frames, the wording of close bodies.
- `client.go`: `Client.Run` and `ConnectServer`, one `ConnectClient` without
  reconnection.
- Dialer: TLS, the network dial with `WrapConn`, URLs. Handshake: the hooks that take
  the place of the library's own parsing, `ProtocolCustom` (`upgrader.go:560-563`) and
  `ExtensionCustom` (`577-580`); hooks that keep state, among them a `Negotiate` that
  answers a second call differently; the texts of responses, the nonce's bytes.
- Not claimed, because the code does not do it: that a cancelled session of
  `Connecter.Run` whose peer is silent ends (`connecter.go:65`; `ConnsReleased` of
  `Server` is about sessions that come round to the `select` or whose peer leaves),
  that the frames of a session's own goroutine and the replies stay apart (finding 12),
  and what findings 5 to 15 say. Their hazards name no property in `PROJECT.json`.
- A session that breaks the contract of `ReadPump`; the composition of the reader,
  the writer and the control handler byte by byte.
- Logging, unsafe conversions, adapters, build-tag shims and examples keep no state
  a property depends on.

## 7. Plan

A session with a careless `ReadPump`, as a constant of `Control`.
