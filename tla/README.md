# Verification of ATXP

TLA+ models of the ATXP implementation in `src/`, the TLC runs that check them on
small instances, and theorems about them that TLAPS proves for every instance.
The centre of the project is the V2 secure session: what a client and a server
that share a secret may rely on when writes stop half way, reads are given up,
frames are turned away, and the transport is not a faithful pipe.

## The system

| Part | State it keeps | Operations |
|---|---|---|
| V2 endpoint and framing, `v2.go` | password, iterations, timeout, frame cap | handshake of either side, `writeFrame`, `readFrame`, envelope codec |
| `ClientV2`, `client_v2.go` | connection, cipher, `sendSeq`, `recvSeq` | `Send*` (one call at a time), `Close` |
| `ServerV2`, `server_v2.go` | handler table under a mutex; per connection: cipher, `recvSeq`, `sendSeq` | `Serve`, `HandleConnection`, `RegisterHandler` |
| Session cipher, `crypto_v2.go` | key | `deriveKey`, `Seal`, `Open` |
| Type registry, `mt_v2.go` | code -> type, under a mutex | `NewMT`, lookups |
| V1, `atxp.go`, `client.go`, `server.go` | handler table without a mutex | text codec, `Send`, `Receive`, `HandleConnection` |
| JavaScript V2, `atxp.js` | `FramedConn`: buffer, waiters, ended; the counters of `ClientV2` and `handleConnection` | the same protocol over promises |
| JavaScript V1, `atxp.js` | handler table | the same text protocol over events |

A V2 server writes a header with a random salt; both sides derive a key from the
shared secret and the salt. After that the client writes a sealed message and
reads a sealed response; the server goroutine of the connection reads a message,
checks its number, asks the `AuthHandlerV2`, looks the handler up, runs it and
writes a response. Each direction has its own counter. A response does not name
the message it answers.

What is hard about it:

- **Failure half way.** Every read and write has a 30 s deadline. Neither side
  closes the connection when a call of the client fails: the client may go on over
  a stream that holds half a frame, or with a late response still on its way. The
  server ignores the error of every response it writes.
- **Alignment.** A reader that lost its place reads a length where there is none.
- **Ordering.** Loss, repetition, reordering and reflection of frames must be
  noticed by two counters, a kind byte and a tag.
- **Concurrency.** Handlers and message types are registered while connections are
  served, in Go maps that are only safe under their mutexes; JavaScript calls may
  overlap on one connection and share one byte buffer (V2) or one response (V1).
- **Listeners.** The V1 JavaScript receiver listens only while a text is awaited, and
  takes whatever a chunk ends with for its end.
- **Edges.** 32-bit lengths against caps and ints of another width; messages of
  exactly the cap.

## The modules

| Module | What it is |
|---|---|
| `OrderedDelivery` | abstract: what sequence numbers promise one direction — each item at most once, in order, as sent |
| `Endpoint` | `NewV2` and its options: what secret, cap and count each side of a session has |
| `SecureSession` | `ClientV2`, `HandleConnection`, and two streams of frame units between them |
| `RelaySession` | the same two programs through a relay that loses, repeats, reorders, reflects and damages |
| `AtomicTable` | abstract: the registry of types, or the handlers of a server, as a table whose calls take effect at one moment |
| `LockedTable` | the same tables in Go, a map under a `sync.RWMutex` shared by goroutines |
| `FramedCalls` | JavaScript `FramedConn` and `ClientV2` with calls that may overlap, and the server they talk to |
| `Envelope` | the V2 plaintext codec, over small bytes |
| `LegacyText` | the V1 text: `Serialize`, `Receive`, `Deserialize` and the responses, and the handlers of the package, as operators over tokens |
| `LegacyCodec` | one V1 message written, cut from the stream and read |
| `LegacySession` | V1 `Client` and `Server.HandleConnection` over a connection that may break |
| `LegacyJs` | V1 `Client` and `Server.handleConnection` in JavaScript, over a socket that cuts and joins texts |
| `Session_proofs` | about `SecureSession` and `RelaySession`: types and one answer per message; each direction as an `OrderedDelivery`; which code belongs to which call; streams that keep order; when either side may turn a frame away |
| `LockedTable_proofs` | about `LockedTable` |
| `FramedCalls_proofs` | about `FramedCalls` |
| `Envelope_proofs` | about `Envelope`, for any bytes |
| `LegacyText_proofs` | what the V1 delimiters do to the fields of a message |
| `LegacyCodec_proofs` | that V1 carries the plain messages and no others |
| `LegacySession_proofs` | about `LegacySession` |
| `LegacyJs_proofs` | about `LegacyJs` |
| `MC*` | instances for TLC |

### SecureSession and the code

A stream is a sequence of *units*: the 22-byte handshake header, the length prefix
of a frame, its sealed body, or a *scrap* (part of a unit). A unit is what one
`io.ReadFull` takes when the reader is in step. A body carries its size, the key it
was sealed under and the envelope inside. `Opens` is `gcmCipher.Open`: the bytes
taken must be one whole body under the reader's key. A reader out of step may see
any length (`Astray`) and may then swallow any number of units (`AfterBadBody`).

`cpc` follows `NewClientV2` and `ClientV2.send`: `hello` (handshake), `idle`,
`len` and `body` (the two reads of `readFrame`), `closed`. `spc` follows
`HandleConnection`: `start`, `len`, `body`, `auth` (in the `AuthHandlerV2`), `route`
(handler lookup), `run` (in the handler), `closed`. The places between reads,
callbacks and writes are states, so the other side, a deadline or
`RegisterHandler` may come in between. Everything a goroutine does between two
such places is one action: for example `RejectReplayed` increments the counter,
writes the ERROR and returns. `Respond` is every response of the server; since the
code drops the error of the write, its frame may be whole, cut or missing.

`calls`, `accepted`, `received`, `answers` and `exit` are histories: they hold
what the properties talk about and no guard of the code reads them. (`EndCall`
writes the outcome of the last call; `sMsg` is the local `msg`.)

Sizes are the real ones (25 bytes of message envelope, 13 of a response, 28 for the
nonce and the tag), so the comparisons with the caps are the code's own;
`LenModulus` stands for 2^32.

`Endpoint` says where the caps and secrets come from: options are applied in turn,
and one that is out of range leaves the endpoint as it is. The instances build both
sides with `NewV2` from a cap, a cap below `MinFrameSizeV2` and an iteration count
of zero, of which the last two must not count.

### RelaySession and the code

`SecureConn` is an interface, so what a transport does is not the repository's
code; the tag, the numbers and the kind byte exist because it may misbehave. The
relay knows every body that was on a stream and may put it, with its prefix, on
either stream again; it may lose a run of units, such as a whole frame, and damage any unit.
A damaged body or prefix is a scrap; a damaged header may also be another header,
since nothing protects the salt. Either endpoint may still break off a write, as in
`SecureSession`; `BrokenOff` counts such writes towards the bound of the faults.

### AtomicTable, LockedTable and the code

`kind` says which of the two tables a behaviour is about: `mtRegistry` (`NewMT`,
`LookupMT`, `TypeToStringV2`, `StringToTypeV2`), which starts with the three
built-in types, or the `handlers` of a `ServerV2` (`RegisterHandler`, `handler`),
which start empty. `pc` follows one call: `lock`, `drain` (a writer waits for the
readers inside) or `parked` (a reader waits for a writer), `in`, `store` (between the
test of `NewMT` and its write), `out` (the deferred unlock is still to come). The
mutex is `sync.RWMutex`: a writer that announced itself keeps later readers out.
`StringToTypeV2` visits one code per step, in any order, since Go's `range` has none.
In JavaScript a call on either table is part of one callback, so `AtomicTable` as it
stands is the model of it.

### FramedCalls and the code

One event-loop callback is one action, and the continuations of the promises it
resolved (`ready`) run before the next callback. `Pump` is `_pump`: the first waiter
takes its bytes, is rejected if the socket ended, or holds up the rest. Response
frames all have 45 bytes, so a position in the byte stream says where in which
frame a read starts; a read that starts elsewhere announces a length of `Garbage`.
`Pumping` is its loop as a recursive function of the waiters served so far, so that
the proofs can step through it. The socket is one with `allowHalfOpen` false, Node's
default.

Calls that overlap misread each other's bodies as lengths. Those that are in the cap
(and at least `SmallestFrame`, which `readFrame` tests) swallow bytes of later frames,
and the reader may so come back in step on a frame that answers another call: with
four calls outstanding and `Garbage` {37} the fourth returns the code of the third.
`OwnCode` is therefore about calls that are awaited one after the other, and
`CodesInOrder` says what is left when they are not: two calls never return the code
of one response, and a later call never that of an earlier one's. The Go client asks
for calls one at a time (`client_v2.go:15`); nothing says so of the JavaScript one.

### Envelope and the code

`Envelope` shrinks the base of a byte and the widths of the integers, not the
structure: kind, number, type, three length-prefixed fields, and the reader's cursor
with its bounds checks. `IntHalf` is where a Go `int` turns negative. Absent
data and empty data are the same payload. `Power`, `Values` and `Number` are recursive
functions, so that the proofs can speak of any width.

### The V1 modules and the code

`LegacyText` keeps the characters the V1 delimiters are made of (tab, newline,
colon); the four letters of `Auth`, each type name and `RESP` are one token each,
and one letter stands for everything else. `Index`, `Slice` and `Cut` are
`strings.Index`, the slice expression and `strings.Split`, so that `Deserialize`
makes the same three searches in the same order and panics (`Panic`) where the ends
of a slice cross. `Plain` says which messages do not collide with the delimiters.

`LegacySession` has the control of `client.go` and `server.go`: `spc` is `new`
(before `Accept`), `read`, `auth`, `route`, `run`, `closed`, or `crashed` when
`Deserialize` panicked. V1 sets no deadlines, so `Receive` waits until there is a
blank line, the writer is gone (the rest of the stream is returned, without an
error) or the connection is `broken`, which loses what is in flight from some point
on and makes every later write lost or failing. A code is the sequence of its
digits, since a response cut by the end of the stream is still parsed.

`LegacyJs` has the same texts and other control. `receive` adds and removes its
listeners; `flowing` says that the client's socket was once listened to, after which
Node hands out chunks whether or not anybody listens. A chunk is what one `data`
event brings: all that is in flight, or a part (`Chunks`). It is decoded by itself
(`Decode`: a half character becomes `bad`, U+FFFD), and `IsText` looks only at the
end of what came so far. `spc` is `receive`, `respond` (its `conn.write` has not
called back, and nobody listens), `closed`, or `crashed`: a rejected `sendResponse`, or
an `error` event without a listener, ends the process. A client call is `sending`,
`waiting` or `settled`; calls may overlap, and `alone` remembers whether this one and
those before it started with none outstanding. `substring` swaps its ends where the
Go slice expression panics. `Break` is a reset or the end of either process; the
client's own `conn.end()` looks like one to the server. `cOver` says that the client's socket
ended or failed. A write that was pending then may still call back without an error,
since what was written is flushed; its call then listens for an `end` that was told
already, and only an `error` can settle it (`Late`). A call that hears nothing before
the end returns ERROR, an ordinary code of the call in the model as in the code. At the client an application
may listen for `error` itself; the model takes it to do so, since without that its own
process ends.

## Runs

| Run | Checks | Bounds and what they show |
|---|---|---|
| `session` | `TypeOK`, `OwnAnswer`, `OneAnswerEach`, `NoFalseAlarm`, `NoFalseAlarmAtClient`, `RejectionIsFinal`, `CallReturns`, `LoopEnds` | three calls; client cap 80, server cap 73, messages of 73, 78 and 93 bytes. Three calls are needed for a call that fails, one that reads what it left, and one after. One type is enough: a type matters only by whether it has a handler when it is looked up, and registration comes at any time. Each liveness property brings the fairness it needs as its own hypothesis. |
| `relay` | `TypeOK`, `SameKeyNeeded`, `OwnAnswerOrReplay`, `UpDelivery`, `DownDelivery`, `RejectionIsFinal` | three calls, two salts (symmetric), two faults or broken writes together: enough to lose one frame and repeat another, to repeat one twice, or to break off a write and repeat what came before it |
| `late_answer` | violates `EveryCodeIsItsOwn` | a call times out; the next one takes its response |
| `tables` | `MapExclusive`, `OneWinner`, `Linearizable`, `EveryCallReturns` | three goroutines and three calls on either table, one built-in code and a free one, two names: two that race and one that reads, or a writer between two readers |
| `js_calls` | `TypeOK`, `OwnCode`, `CodesInOrder`, `AwaitedInStep`, `EndSettlesAll`, `AnsweredSettles` | four calls, up to three outstanding; chunks end between frames, inside and after a prefix, inside a body; a misread length is the least one, or one that ends where a frame ends |
| `envelope` | `RoundTrip`, `Canonical` | every message with fields of at most one byte and every string of at most eight bytes of base 3, with two bytes for a sequence number and one for every other integer (the shortest message has seven) |
| `v1_codec` | `PlainIsExact` | data of up to four tokens (the longest delimiter, which data may also complete with the two tabs before it) with names of one, data of one with names of two |
| `v1_panic` | violates `FaultsAreErrors` | data of up to two tokens |
| `v1_session` | `TypeOK`, `PlainDelivery`, `PlainIsServed`, `OwnCode`, `RejectionIsFinal`, `CallReturns` | two calls, four plain messages that brush against every delimiter and that the package's handlers accept or refuse, four that collide with a delimiter, a code of two digits; a call that leaves something behind and one that meets it need two calls |
| `js_v1` | `ServedAsSent`, `OwnCode`, `CallsSettle` | two calls, awaited or overlapping; a character of two bytes, a URL, and a document that contains a whole text. One cut of a stream (`MaxCuts`), in or behind a blank line or inside a character, which are the places `receive` can tell from others; the safety properties were also checked with two |
| `js_v1_utf8` | violates `FramesAreStrings` | one awaited call, one cut |
| `js_v1_hung` | violates `EveryCallSettles` | two awaited calls of a URL, no cut: the server denies the first and closes |

`OwnAnswer` is the property a caller relies on and the code never states: the code
`send` returns belongs to the message it sent. It holds as long as every earlier
call got its code or was refused before a byte was written; `late_answer` shows
that the condition is needed. `Linearizable` is the meaning of "safe for concurrent use"
(`mt_v2.go:38`, `server_v2.go:46`), and `MapExclusive` what a Go map asks for.
`ServedAsSent` and `OwnCode` of `LegacyJs` speak of calls that are awaited one after
the other with messages that do not collide with the delimiters; a later call may
overlap them and take their response for its own, but not the other way round.
Through the relay (`OwnAnswerOrReplay`) the same
holds but for the ERROR with which the server turns a repeated message away.

### Fairness

`CallReturns` assumes only that the client's own read ends (`ClientFair`): the read
deadline that `readFrame` sets makes that so, and `ClientReadFails` is that
deadline. `LoopEnds` assumes that the server's reads end the same way and that the
application's `AuthHandlerV2` and `Handler` return (`ServerFair`); a handler that
does not return hangs its connection. Writes are bounded by their deadlines and are
single steps. `FramedCalls` assumes of Node's event loop that due callbacks run
(`ClientLoop`), that bytes already sent arrive (`Chunk`), and that the end of the
stream arrives once the server closed it; nothing makes the server answer.
`LegacySession` assumes weak fairness of the server's goroutine (and so that
handlers return) and of the client's reads; with no deadlines, a V1 call returns
only because every text is answered or ends the connection. `LegacyJs` assumes the
same of both event loops: a chunk in flight arrives, a write calls back, and the end
of the stream is told to a socket that flows. `FairSpec` is that as a specification, for
`js_v1_hung`; the call that hangs there waits although all of it holds. `LockedTable` assumes that every
goroutine is scheduled (`FairSpec`); calls are bounded, so that a mutex is free in the
end for whoever waits, which without the bound `sync.Mutex` sees to by its
starvation mode.

`CHECK_DEADLOCK FALSE` is in every configuration: a session whose two sides closed,
or whose bound of calls is used up, stops.

## Where the code and its documentation differ

1. `late_answer`: `client_v2.go:42` says a send "returns the server's response
   code"; after a timeout the next call returns the code of the previous one.
2. `v1_panic`: `atxp.go:28` promises `ErrInvalidFormat` for text that breaks the
   syntax; for a message whose data start with `Auth:`, `Deserialize` panics.
3. `js_v1_utf8`: `docs/protocol.md:12` calls a V1 frame a UTF-8 string and
   `atxp.js:183` says that `receive` accumulates the raw frame; it decodes each chunk
   by itself, so a message whose character the network cuts is served with other data.
4. `js_v1_hung`: `atxp.js:293` says a call resolves to the server's code; one whose write
   calls back after `end` was emitted waits for it for ever (`atxp.js:213`).

Four more were met while modelling and have no run of their own:

- Where the connection ends before a byte of a response, `receiveResponse` returns ERROR
  (`atxp.js:264`), which no server returned, against `atxp.js:293`. `OwnCode` of `LegacyJs`
  says what is left: the server never took the message, or the connection broke.
- `docs/security.md:16` and `:47` name I/O deadlines as the defence against hung
  connections; the JavaScript layer has none (`DEFAULT_IO_TIMEOUT_MS` is never used). A
  call to a silent server stays pending, and `AnsweredSettles` speaks only of answered ones.
- `v2.go:106` calls the cap the maximum size accepted and emitted; `readFrame` compares with
  its low 32 bits (`v2.go:378`), so that a cap of 2^32 or more turns away frames that
  `writeFrame` lets out. The theorems have smaller caps as a hypothesis.
- `v2.go:212` promises `ErrInvalidEnvelope` for any structural fault; where a Go `int` has
  32 bits a field length of 2^31 or more panics in `readField` (`v2.go:438`). `AsInt` models
  the sum that wraps, and `Canonical` holds of it, but no run takes ints of 32 bits.

## Proofs

All theorems hold for every number of calls, every cap and size, every set of types
and codes, (for the relay) every number of faults, (for JavaScript) every number
of overlapping calls, every way to cut the bytes into chunks and every misread length,
(for V1) fields of any length over the tokens of `LegacyText`, and (for the envelope)
every base of a byte above 2, every width of the integers and every field whose length
its prefix can hold; base 256, widths 8 and 4 and `IntHalf` 2^63 are the program. They rest on the
named assumptions of the modules: caps are at least `MinFrameSizeV2` (which
`WithMaxFrameSize` ensures), sizes are numbers, there is a type, misread lengths are at
least the smallest frame (which `readFrame` ensures), V1 fields are texts, in which (for
JavaScript, where they are strings) every character is whole, and the codes of V1
handlers are decimal numbers.

| Theorem | Statement |
|---|---|
| `TypeCorrect`, `RelayTypeCorrect` | `[]TypeOK`: also that no frame buffer exceeds its reader's cap |
| `OneAnswer` | `[]OneAnswerEach` |
| `RejectionFinal` | `RejectionIsFinal` |
| `UpImplements`, `DownImplements` | each direction of `SecureSession` implements `OrderedDelivery` |
| `RelayUpImplements`, `RelayDownImplements` | so does each direction of `RelaySession` |
| `KeyNeeded`, `RelayKeyNeeded` | `[]SameKeyNeeded` |
| `RelayRejectionFinal` | `RejectionIsFinal`, through the relay |
| `OwnAnswers` | `[]OwnAnswer` |
| `RelayPairing` | `[]OwnAnswerOrReplay` |
| `ServerNoFalseAlarm` | `[]NoFalseAlarm`, if `ServerCap < LenModulus` |
| `ClientNoFalseAlarm` | `[]NoFalseAlarmAtClient`, if `ClientCap < LenModulus` |
| `NoConcurrentMapAccess` | `[]MapExclusive` |
| `Winner` | `[]OneWinner` |
| `TableImplements` | `LockedTable` implements `AtomicTable` (`Linearizable`) |
| `FramedTypes` | `[]TypeOK` of `FramedCalls` |
| `OverlappingCallsKeepOrder` | `[]CodesInOrder` |
| `AwaitedCallsStayInStep`, `AwaitedCallsOwnCode` | `[]AwaitedInStep`, `[]OwnCode` of `FramedCalls` |
| `EnvelopeRoundTrip`, `EnvelopeCanonical` | `[]RoundTrip`, `[]Canonical` of `Envelope` |
| `PlainRoundTrip` | `Deserialize(Serialize(m))` is `m` for every plain `m` |
| `PlainNeeded` | if `Receive` takes the whole text of `m` and `Deserialize` returns `m`, then `m` is plain |
| `LegacyCarriesPlain` | `[]PlainIsExact` |
| `LegacyTypes` | `[]TypeOK` of `LegacySession` |
| `PlainDelivered`, `PlainServed`, `OwnCodes` | `[]PlainDelivery`, `[]PlainIsServed`, `[]OwnCode` of `LegacySession` |
| `RejectionFinal` of `LegacySession_proofs` | `RejectionIsFinal` of `LegacySession` |
| `LegacyJsInvariant` | `[]LegacyJsInv`, the inductive invariant of `LegacyJs` |
| `LegacyJsServes`, `LegacyJsOwnCode` | `[]ServedAsSent`, `[]OwnCode` of `LegacyJs` |

`OneAnswerEach` is not inductive: it is silent between the sequence check and the
response, and about the counter. `AnswerInv` adds that the messages are one ahead of
the answers in those places, that `sMsg` is the last one, that `sSendSeq` counts the
answers, and that a rejection closed the loop.

Delivery rests on one more invariant, `StreamInv`: every sealed body on a stream, or
known to the relay, is *genuine* — its number names the call or the answer it was
sealed for, with that content, under that side's key. Nobody without the key makes a
body, and no number is used twice (`CounterInv`), so taking, losing, cutting,
repeating and damaging units keep it. A message that passes `Fresh` then is the
call its number names, and `recvSeq` is the last number taken: one `Take` of
`OrderedDelivery`; every other step is a `Send` or a stutter. `StartInv` says that
nothing was sealed before the keys were derived, so that a genuine body stays
genuine, and with it `KeyInv` gives `SameKeyNeeded`: the body the server opened was
sealed under the client's key.

The tables rest on `LockInv` (who holds the mutex and who waits, read off the places of
the goroutines, and that the readers are gone when a writer is in) and `FoundInv` (what
a goroutine under the lock found out still holds: the code it is about to store is
free, and no code its loop passed has the name). `OneWinner` is inductive with them.
For `TableImplements` a step at the map that answers is the `TakeEffect` of its call,
`Call` and `Leave` are `Start` and `Return`, and every other step stutters; `FoundInv` is
what makes the answers those of the table at that moment.

A response does not name its call, so `OwnAnswerOrReplay` counts. `PairInv` says that as
long as no call was given up, whatever the server may still take, is answering, or
answered without the client having read it, is for a call that has no code yet, or is
the ERROR for a replay; there is at most one such call, the last. Over a stream that
keeps order no response is a replay's (`NoReplay`), because bodies lie on the stream in
the order of their numbers, all above what the reader took (`OrderInv`), also when units
were cut or skipped; so `OwnAnswer` follows.

`NoFalseAlarm` and `NoFalseAlarmAtClient` rest on the shape of a stream nobody cut:
whole frames, each prefix followed by the body it announces. Their
hypothesis is the one under which they are true of the code: `readFrame` compares
the length with the low 32 bits of the cap, so the cap must be below 2^32
(`LenModulus`). A client whose cap takes no
response takes no message either: all its calls are refused before anything is written
(`RefusedInv`).

`FramedCalls_proofs` follows `_pump` waiter by waiter: `Turned` describes its loop
after any number of turns, and `Reach` (a set that holds 0 and, with each number, the
next one holds all) carries it to the last. `InOrder` then relates the places of the
calls: those that read a body come before those that read a prefix, both before those
that write, each group in the order of the calls, and a call that returned a code
before all of them; so `recvSeq`, which only grows, gives `CodesInOrder`. For an
application that awaits its calls `Phase` lists the states there are between two
callbacks (idle, a write out, a read that waits, is settled or rejected), each with the
offset it must have: the boundary of the frame that answers the last call.

The envelope's theorems are about numbers and places. `BigEndian` and `Number` are
inverse in both directions, by induction over the width (`Reach` again); a decoder is a
cursor, and each `readField` leaves it behind the field it took, so what was taken and
what is left make up the bytes. Read forwards this is `RoundTrip`; read backwards, from
bytes that were accepted, `Canonical`. Both hold for ints of any width: a sum
that wraps is below the true one, so that `readField` turns no whole field away, and where
it lets a length pass that is not there the slice panics and returns nothing.

`LegacyText_proofs` is about texts. `Index` is shown to be the first occurrence
(`IndexFinds`), and `Layout` says which token stands where in `Serialize(m)`; what
`Plain` forbids is then what could make a mark occur too early, inside a field or across
the end of one (`MarksFound`, `PlainParts`), and the slices between the marks are the
fields. Conversely (`PlainNeeded`), a message that came back whole had its marks at
those places: a part of `Plain` that failed would put a mark before one of them, or a tab into
a name, or is about what the text does not carry (an unknown type, a file name beside one
that is not `Document`), and something else would have come back. With both, `PlainIsExact` is an
equivalence for messages of any length. A text that was cut shows no blank line and is no
message (`PlainCut`), and of a response that was cut at most a prefix of the code is read
(`ResponsePart`).

`LegacySession_proofs` rests on an invariant, `SessionInv`. V1 has no numbers, so it
counts: while all calls so far are plain, what is on the way up is nothing or the text of
the first call not received (`UpInv`), what is on the way down is nothing or the answer
to the call that waits (`DownInv`), cut in both cases only if the connection broke; and
while it holds, client and server are at the same call, which is on its way, served or
answered (`StepInv`, `AheadInv`). `RejectionIsFinal` needs only that a server that
rejected has returned (`RejectedInv`).

`LegacyJs_proofs` has the same idea and more to say, since calls may overlap, a text
comes in pieces, and a piece may end inside a character. `LegacyJsInv` is, besides types
and what holds of every call (`CallsInv`), a `StateInv(n)` for some number n of calls
that were made in turn. The n is needed because a call that overlaps puts its text behind
theirs: from there on the invariant speaks of the first n calls only, and has to know
that none of them is disturbed. What the server heard together with what is on the way
is the text of the next of them (`UpInv`), except that characters may be broken (`Near`);
a broken character is never part of a delimiter, so `receive` goes on waiting for the
rest of a plain text (`JsStops`), and the whole of it is read as the message that was
sent but for those characters (`JsHears`). What the waiting call heard together with what
is on the way down is the response to it, once it was written (`DownInv`), and later
calls listening to the same socket hear the same but cannot take it away. `AnswersInv`,
`ServedInv` and `CodesInv` carry this to the histories of the properties; for `OwnCode`,
verdicts do not depend on broken characters (`LikeVerdicts`), and a call returns the ERROR
of one that heard nothing only at the end of the connection, when all that was on the way
down is gone: if it did not break, the server had closed over an earlier message.
`CallsInv` keeps the two facts that this needs, also for calls that listen after the
end: a socket is over only when the connection broke or the server stopped serving, and
then nothing is on the way down. TLC checked `LegacyJsInv`
first, with two calls and two cuts and with three calls and one.

Only model-checked: all liveness, which is beyond the prover (`CallReturns`, `LoopEnds`,
`EveryCallReturns`, `EndSettlesAll`, `AnsweredSettles`, `CallsSettle`). Every other
property of the passing runs is a theorem.

## Not modelled

- Cryptography itself, the salt and the nonces: keys are equal exactly when secret
  and salt are. A nonce collision is out.
- `Serve` and several connections at once: connections share only the handler
  table, whose changes are steps of `SecureSession` and which `LockedTable` shares
  between goroutines. The exported `SendV2`, `ReceiveV2`, `SendResponseV2` and
  `ReceiveResponseV2` leave the sequence numbers to their caller.
- `NewMT` takes codes outside [0, 2^32) although `mt_v2.go:18` forbids them; such a
  code is cut to 32 bits by the envelope.
- Sequence numbers are unbounded; 2^64 calls on one connection are out of reach, and
  so are the 2^53 after which JavaScript would round them.
- `NewClientV2` leaves the connection open when the handshake fails; the caller
  closes it.
- `RegisterHandler` of the Go V1 server while connections are served: a data race, for
  which neither the code nor its documentation makes a promise.
- `listen`, `close`, `CreateServer`, `ConnectClient` and their TLS forms; the seals,
  replay check and envelope of the JavaScript V2 server, which are laid out as in Go.
- The payload's meaning, errors' texts, `index.d.ts`, build files.

## Plan

- The JavaScript V2 server's own checks (`handleConnection` answers ERROR to a malformed
  envelope where Go closes).
