# Samryetha Tunnel: a TLA+ model of the tunnel service

This directory holds TLA+ modules of the tunnel server (`src/tunnel-server`, Rust) and of
its two clients (`src/tunnel-cpp`, Qt; `src/tunnel-lite`, C++ without Qt), the TLC
configurations that check them on small instances, and machine-checked proofs (TLAPS) of the
central theorems. `PROJECT.json` maps every definition to the lines it models and lists runs,
mutants, hazards and theorems.

A client opens a WebSocket to `/tunnel` (the *control connection*), registers tunnels and
keeps the socket open. In the role `server`, visitors' HTTP requests under a public name are
sent down the control connection as streams; in the role `relay`, TCP ports are opened for the
tunnels and visitors' bytes travel the same way. All state is shared by tokio tasks and guarded
by locks that are never held across an await, with one exception (the relay's map of listeners,
which only the polling loop uses).

| Component | State | Operations | Interacts with | Hard behaviour | Module |
| --- | --- | --- | --- | --- | --- |
| Registry (`registry.rs`) | routes by subdomain and path, senders, owned keys, port pool, pending streams, ids | register, remove, allocate and release ports, lookup, route an event, remove a user's connections | everybody, by calls under one `RwLock` | names are cleared by key, whoever serves them; the order of the path vector | `Registry`, `RouteTable`, `RouteMap` |
| Control channel (`routes_ws.rs`) | one task per connection, the user read at the upgrade | Register in several awaits, frames of streams, close | registry, database, stream counter, clients | Registers of several connections interleave with each other, with closes and with the administrator | `Registry`, `HttpStreams`, `Relay` |
| Visitor dispatch (`routes_visitor.rs`) | one task per request, an event channel per stream | lookup, admission, open, wait for the head (30 s), body | registry, limiter, meter, counter | a route used after it went; late, missing and reordered ends; visitors that leave | `HttpStreams`, `VisitorAnswer` |
| Stream counter (`auth.rs`) | streams per user | acquire, release | visitor dispatch, relay, control channel | two tasks release the same slot | `HttpStreams`, `Relay` |
| Relay (`relay.rs`) | listeners by port, two tasks per visitor | poll every 2 s, accept, forward both ways | registry, counter, clients | polling sees only some of the bindings; half-closed streams | `Relay` |
| Rate limiter (`quota.rs`) | a token bucket per user | allow | visitor dispatch | the clock is read before the lock | `RateLimiter` |
| Usage meter (`quota.rs`, ticker in `main.rs`) | counts in memory, `usage_daily` | add, flush, today | visitor dispatch, relay, control channel, database | flush moves counts outside the lock; failing writes; crashes; midnight | `UsageMeter` |
| Administration (`routes_admin.rs`, `routes_api.rs`, `mgmt.rs`) | rows of users and tunnels | disable, enable, delete | registry, database | rows change while a Register is under way | partly in `Registry` |
| Authentication (`auth.rs`, `routes_auth.rs`, `db.rs`) | sessions, tokens, device codes, users | logins, token checks | database, OIDC provider, clients | polls that overlap or get lost when the code is used up | device login in `DeviceLogin` |
| lite client, streams (`main.cpp`) | one table of TCP streams for all groups, worker pool, pool of local connections | open, forward, close, reconnect, reuse of local connections | server, local services | threads sharing the table; reuse of connections that are closed or half read | `LiteClient`, `LocalPool` (implements `StreamFrames`) |
| lite client, wire (`codec.hpp`, `json.hpp`, `net.cpp`) | unread bytes of the socket | encode, decode, frames, handshake, base64 | server | widths, length forms, fragments, escapes | `Codec`, `LiteJson`, `Messages`, `WsFrames` |
| Server, wire (`binproto.rs`, `protocol.rs`) | none | decode, encode | clients | the same layouts written three times by hand | `Messages` |
| Start of a client (`main.cpp` of both, `Config.cpp`) | settings | options, file, URLs, login, grouping | server | two programs derive the same from the same inputs | `Startup`, `Link` |
| Qt client (`Client.cpp`, `Forwarder.cpp`) | socket, reconnect timer, streams, management requests | start, stop, open, forward, close, reconnect | server, local services | signals of an old link, callbacks after its loss | `QtClient` |
| Qt programs (`cli/main.cpp`, `gui/`) | a login, a client | command line, connect, disconnect, requests | Qt client, server | a timer that polls without waiting | `QtCli`, `DeviceLogin` |

Not modelled at all: the unmaintained `TunnelMac`, the pages of the window that show lists and
forms, benchmarks, configuration parsing, and `control.rs` and `visitor.rs`, which `main.rs` does
not compile.

What makes each component correct, in a line: routes and ports lead to live connections of
their owner and are neither lost nor given twice (registry); lookups find the most specific
prefix (path table); every request gets exactly one answer, complete if it ends regularly, and
every slot is given back but for those of named streams (visitor dispatch); bytes arrive in both directions whatever closes first
(relay); burst and rate are kept, and nobody within them is refused (limiter); each byte is
counted once (meter); every local answer goes whole to the visitor who asked (pool of local
connections); streams end with a word to the server and threads do not hang (lite client); the
client is connected or trying, and what belongs to one link stays on it (Qt client); a login that
succeeded is kept (device login); both ends read what the other wrote (wire); the link goes where
the login went and carries the tunnels that were asked for (start).

## The modules

**`Registry`** is the core. Each method of the Rust `Registry` is one step, because it takes
the lock once (`RegisterClient`, `RemoveClient`, `ReleasePorts`, the allocation in
`PrepareTcp`). A Register message is the sequence `RegisterBegin` (quota check,
`release_ports`), one `PrepareHttp` / `PrepareTcp` / `PrepareTcpFails` per definition (each has
a database read, hence an interleaving point), `Persist` and `RegisterCommit`
(`register_client` and the acknowledgement); steps of different connections interleave freely.
`conn` says where the `handle_socket` task of a connection is. A task sees the end of its socket
only between two messages, so `CloseConn` needs `conn[c] = "open"`. The administrator's request
is `DisableUser` (the row), `ListUserConns` and one `RemoveUserConn` per connection. A public
name is the concatenation of the words of the slug and of the requested name: joining with
dashes is not injective, and the model keeps that (`PublicName`). The text of names, hosts
and URLs is abstracted, and so are empty tunnel ids and over-long payloads.
**`RegistryClaims`** adds a history, who asked for a name last (`asked`) and which names were given
up by somebody else since (`dropped`), and **`RegistryRemovals`** one, which connections the
administrator has ever been about to remove.

**`RouteTable`** is the vector `by_path`: `retain` and `push`, the stable sort by string length
at the end of `register_client`, removal without a sort, and `lookup` with the rest of the
path. `WithInputs` is the vector with a Register's prefixes pushed, before the sort. It implements
**`RouteMap`**, a plain map from prefixes to connections, under the mapping `TableOf`, `HoldsOf`;
`Registry` is written in terms of that map.

**`HttpStreams`** is one user's HTTP streams: `visitor_handler` with all its returns, the pending
table, the event channel of each stream, the stream counter, the frames of the control connection,
and the client. The lookup, `stream_acquire`, the end of the upload, `send_to_conn`, the wait for
the head and each event of the body are steps of their own, and a visitor may leave at each.
Merged into one step are the awaits up to `stream_acquire` (limiter, meter, visitor authentication,
which end in one nondeterministic refusal), `next_stream_id` with `insert_pending`, `send_to_conn`
with `usage.add`, and `take_pending` with `stream_release` on the error paths. A stream is named by its visitor
because stream ids never repeat. `LinkLost` is the client's view of a broken link and
`ServerCloses` the server's, later one; between them the server still believes the connection is
there. Both kinds of clients are covered: a head, chunks and an End, or one Abort instead of a
head. It implements **`VisitorAnswer`**, what a visitor may observe - one answer, a body not longer than
the chunks the client has produced, and whole when it ends - under the mapping `PhaseOf`.
`ServerCloses` clears the route by its name as `remove_client` does, also when the client has
reconnected.

**`Relay`** is the polling loop and `handle_conn` with its two tasks, the port bindings, and
the client's side of a TCP stream: connecting, bytes and a close that arrive before the local
connection is made, closes from both sides. The constant `EndsOnClose` tells the clients apart:
the Qt client answers a CloseStream with an End, the lite client does not. Both clients send one
Register per connection, and so do the connections of this module; a Register repeated on a
connection is in `Registry`.

**`RateLimiter`** is `allow` for one user: reading the clock and everything under the lock are two
steps. Tokens are counted in the ticks it takes to refill them, so that the arithmetic is on
integers. **`UsageMeter`** is `add`, `flush` (taking the map, then one statement per user, each
of which may fail) and `today` (the row, which a failed SELECT turns into an empty one, then the
memory), with midnight and crashes.

**`LocalPool`** is the way of an HTTP stream through the lite client: the queue and threads of
`Pool`, `handleHttpStream` with its retry, the reading of a response in six framings (a length,
a length with `Connection: close`, chunked, until the end, a length for a body that does not come
as in the answer to HEAD, and neither length nor body as with 204 and 304), and the idle connections of
the local service, which closes, drops, breaks off and is slow as it likes. A response is a
sequence of pieces, as coarse as the reading loop can tell apart, each with the request it
answers, so that a mixed-up connection shows. It implements **`StreamFrames`**: one head, chunks
and an End, or one Abort - which is what `HttpStreams` assumes of a client.

**`LiteClient`** is `runOnce` of several groups with the one table `g_streams`, a thread for
each TCP stream, and servers that restart and count streams from 1 again. Steps are what happens
between two lock operations or system calls that another thread can see.

**`QtClient`** is the thread of the Qt client core. A step is a signal with all the slots it runs.
What Qt promises of its classes is in the steps and in no separate module; the one promise that
matters most is that `open()` on a socket which is still closing drops the old connection
without a `disconnected` signal. **`DeviceLogin`** is the login by device code of all four
pollers (the two loops of `tunnel-lite login`, `tunnel-cli`, the settings page) with the server's
poll handler and the provider's code behind it. **`QtCli`** composes the two into the Qt programs: the
slot `tokenReceived` starts the client.

**`Codec`**, **`LiteJson`** and **`Messages`** are pure: the layouts of all messages as each
program writes and reads them - lite in both formats, Qt in JSON, the server in both - with
varints, base64, escapes and the JSON parser of the lite client, and the server's refusal of texts
that are not UTF-8 (`GetText`). Nothing in them says that two sides agree. **`WsFrames`** is the WebSocket layer of the lite client: masks, length forms,
fragments, control frames, and the socket's buffer. **`Startup`** is what the programs make of
command line and file: client ids, tunnels and URLs, and **`LinkGroups`** how `main` spreads the tunnels over
connections. **`Link`** composes these into one start of a
client: settings, login request, handshake, Register, and then messages both ways as bytes in
fragments with pings among them. Bytes and characters are kept here because the
properties are about them; elsewhere no module has them.

**MC modules** give payloads, names and symmetry sets. **`RegistryProofs`**, **`HttpStreamsProofs`**,
**`RelayProofs`**, **`QtCliProofs`**, **`LiteClientProofs`** and **`LocalPoolProofs`** hold the
proofs about the modules they are named for, **`AdmissionProofs`** those about what a visitor's request is
looked up in, `RateLimiter`, `UsageMeter` and `RouteTable`, and **`QueueLemmas`** what they need of queues,
folds and induction. `LiteClientProofs` covers `LinkGroups` and `WsFrames` too. Definitions with a comment that begins *Mutant* are
plausible bugs used to show that the properties can fail; no specification uses them.

## The runs

Bounds are constants: `MaxConn`, `MaxConnects` and `MaxOpens` (connections ever opened),
`MaxStreams`, `MaxChunks`, `MaxClock`, `MaxBytes`, `MaxDays`, `MaxSock` (local connections),
`MaxData` (pieces of a response), `MaxPolls`, `MaxMgmt`, `MaxCuts`, `MaxMessages`, `MaxPings`.
`Faults` selects what may go wrong in an instance.

| Run | Instance | Shows |
| --- | --- | --- |
| `registry_ports` | 2 connections, 2 ports; either TCP and HTTP tunnels with the administrator at every step, or up to 2 TCP tunnels a connection, payloads over the quota and no administrator (`AdminOrPool`) | ports exclusive, none lost, acknowledged ports stay bound, also when the pool runs out in the middle of a Register; no route and no port of a connection that is gone |
| `registry_http` | 3 connections of 2 users with slugs `bob` and `bob-2`, names `api` and `2-api`, which clash within a user and between the users | a route leads to a user whose slug the name begins with, and to whoever asked for the name last |
| `route_table` | 3 connections, 5 prefixes (nested, siblings, equal lengths, one long segment), 7 paths | longest match; refinement of `RouteMap`, so no duplicate that could come back to life |
| `http_faults` | 2 requests, 2 connections, all faults, fairness | slots are held by streams somebody can still release, or lost with named ones; refinement of `VisitorAnswer`; every request that was sent is answered; bodies end while the link holds |
| `relay_streams` | lite client, 2 visitors, bytes both ways, abort, lost link | no slot forgotten, both directions complete |
| `relay_ports` | Qt client, 3 connections, 2 ports, failing binds, fairness | listeners never cross, a hang-up ends the stream |
| `limiter_racing` | 2 callers | excess bounded by the time credited twice; no wrong refusal |
| `meter` | 2 users, 1 reader, failing reads and writes, crash, midnight, fairness | nothing counted twice or lost unnoticed; readers never see too much, and too little only behind a flush or a failed SELECT; everything is stored in the end |
| `local_pool` | 2 requests, 2 workers, 2 local connections of which 1 may idle, 2 pieces of data, 6 framings, all faults | answers neither mixed nor cut, no wakeup and no end of input missed; refinement of `StreamFrames` |
| `lite_client` | 2 groups, 2 streams, 2 chunks, 2 connections, lost links, restarts, refused and closed local connections | chunks reach the service in order, ends are reported, closed streams wake their threads |
| `qt_client` | 3 links, 1 stream, 2 chunks, 3 management requests, 2 polls; window and command line, all logins | the client never gives up nor connects twice; streams and responses stay on their link; streams have the right shape; a login is kept, and fails for a reason |
| `link` | both programs and formats, lengths at the limits of varints, frames and base64 groups, escapes, header bytes that are no UTF-8, URLs with ports, prefixes, queries and hosts that begin with `tunnel`, 2 cuts, 2 messages after the registration, 1 ping | both ends read what was written, or drop it whole; login and link go to one server; tunnels registered once, together as asked |

The bounds are the smallest in which the hazards occur: two connections for a name or port that
changes hands and a third to come after both; in `registry_ports` a pool of two ports for up to four tunnels;
two streams for a slot released twice, for a number given out again, or for a connection passed
on; two workers for a wakeup; two pieces of data for a response that breaks off in between; three
links for a signal of the first that meets the third; two polls for an overlap; one midnight. Two
users show isolation, one suffices elsewhere because ports, counters and buckets of users do not meet.
`link` takes identifiers, texts and payloads on both sides of 126, 127 and 128 (the length forms of
WebSocket frames and the first step of a varint) and of 16384 (the second), data with one and two
bytes over a base64 group and a Register longer than 126 bytes, with up to two fragments of one byte
in front of the rest.

Deadlock is not checked where the instance ends: bounded connections, requests, time or bytes.

### Fairness

Only `HttpStreams`, `Relay` and `UsageMeter` have fairness.

* Server tasks (`TaskStep`, `HandleConn`, `Write`, `ServerRecv`, `Poll`, `FlushStep`) are
  weakly fair: tokio runs a ready task, and the 30 s timer and the tickers fire. `TaskStep` is the
  handler without `UploadStep`: `to_bytes` (`routes_visitor.rs:144`) waits for the visitor and has no
  timeout.
* `ServerCloses` is weakly fair: the ping every 20 s makes a write to a lost link fail.
* A client whose link is up works on: it takes messages, it ends a body it has begun, and a local
  connect of a TCP stream succeeds or fails. No fairness is given to visitors and their uploads, to the first answer
  of a local service (the server's timer is there for that), to TCP services sending bytes or
  closing, to faults other than the timer, or to connecting.

## Where the passing properties stop

Several properties are stated up to a boundary the code does not keep beyond. The boundary is
named in the property or in its instance, and the hazards list the line.

Server:

* `NamesFollowLastAsker`: the close of a connection removes names by key (`registry.rs:141`).
  A name another connection has taken over goes with it; a client that reconnects before its old
  link is noticed loses its tunnels until it registers again. The property lets such names be
  unserved (`dropped`). It does not say that a name stays with its user: slug `bob` with `2-api` and
  slug `bob-2` with `api` are one subdomain (`routes_ws.rs:124`), the later Register takes the route,
  and nothing in the code prevents it. `TenantIsolation` allows the same: the name begins with both slugs.
* `PortsOfLiveConns`, `AckedPortsBound`: a connection in its first Register is not listed when its user
  is disabled (`routes_ws.rs:303` registers it all the same) and stays online. Ports of a
  connection the administrator removes between allocation and acknowledgement are acknowledged.
* `SlotsAccounted` of `HttpStreams`: some slots are lost for good, and `Stranded` names them. A visitor
  who leaves during the upload or before the OpenStream drops a handler nobody releases for; and
  `remove_client` leaves the pending entries of its streams (`routes_ws.rs:364`), so a link that is lost
  while the body runs, or after the visitor left, leaves a slot nobody gives back. In the other direction
  a stream that fails before its head may release its slot twice (`routes_visitor.rs:208` and the
  control channel), and then more streams than the limit run; the property bounds the count by the
  number of such streams. Nothing else keeps a slot or releases one twice. In
  `Relay` every End releases a second time (`relay.rs:156`), so only the upper side is
  checked there.
* `BodyEndsOnLiveLink`: a body whose connection is closed never ends, because `remove_client`
  leaves the pending entries.
* `EventuallyAnswered`: from the end of the upload on. A visitor who stops sending is never answered and
  holds his slot.
* `ListenersNeverCross`: a listener may lead to a *closed* connection when a port is released and
  bound again between two polls; and one started between allocation and registration charges
  user 0.
* `HangupEndsStream` needs a client that answers a CloseStream with an End. The lite client does
  not, and the handler waits.
* `NoPortLost`: payloads with distinct tunnel ids.
* `WindowBounded`: callers that overtake each other are credited the time between their clocks
  twice (`rewound`). With `rewound = 0`, which is the case of one caller, it is the documented
  limit, since `last` never exceeds the clock.
* `ReadersCountRight`: two things make a reader count too little, and let in a user over the quota: counts
  flush holds while it asks (`calm`), and a failed SELECT, which `today` takes for an empty row
  (`quota.rs:65`, `hidden`). The lower side says that nothing else does.

lite client:

* `WholeAnswer`: an answer that breaks off, chunked or with a length, is ended as if it were
  whole. The answer to a HEAD request, or with status 204 or 304, is read until the service closes the
  connection (`main.cpp:443`), and its stream ends only then.
* `OwnAnswer`: line 429 of `main.cpp` reads the CRLF behind a chunk with one `recv`. If the two bytes
  come apart, the second is read as the start of the next size or of the next answer.
* `ImplementsFrames`: the retry may take another connection from the pool, which may be closed
  too, although the log (`main.cpp:486`) speaks of a new one; then the visitor gets an Abort.
* `NeverStranded`: local connections have no timeout behind the connect; a service that is silent holds
  its worker for ever, and so does one that keeps the connection open behind an answer to HEAD, a 204
  or a 304.
* `EndReported`: a group that leaves its session closes the streams of all groups in the shared table, and
  those end without an End, against the comment at `main.cpp:954`. A failed connect of a TCP stream leaves
  the entry in the table. `NoChunkLost`: numbers given out again by a restarted server meet old entries.
* The control thread writes to local sockets itself (`main.cpp:617`) and stops for all streams when a
  service does not read. Pongs and closes go out without `sendMtx` (`net.cpp:441`, `main.cpp:639`); the
  server of this repository sends no WebSocket pings.

Qt client and logins:

* `KeepsTrying`: with reconnection off, `running_` stays set after a loss, and connecting again does
  nothing until the user disconnects.
* `StreamsKeepToTheirLink`: a client stopped and started again before its socket has closed keeps
  its streams. New settings change the addresses of tunnels at once and the
  registration with the next link only.
* `OwnResponse`: a request whose answer is lost with the link is never told (`Client.cpp:153`). The
  management mode of the command line sends its request again with every link, and before
  the Register.
* `AnswerShape`: an error of the local reply after its head is an End.
* `LoginKept`: the polls of the Qt programs may overlap, and the second answer is an error: the command
  line exits with 3 although it has its token. `FailsForAReason`: a poll lost after the code was
  used loses the token that was issued.

Wire and start:

* `SameServer`: `httpBaseFromWs` of the lite client (`main.cpp:130`) looks for `/tunnel` anywhere, so
  that a host which begins with `tunnel` is cut and no address to log in at is left; the property names
  this as the only such case. Not among the inputs is a slash behind `/tunnel`, which the two programs
  treat differently.
* `MessagesAgree`: a head whose headers are not UTF-8 does not arrive. The lite client passes on the bytes
  of the local service (`main.cpp:350`); the server drops the message in the binary format
  (`binproto.rs:145`), and in JSON the WebSocket layer refuses the frame and the link ends
  (`ServerBreaksOff`). The property says that such a message is dropped whole and never taken for another
  one. Counts over 65535 are cut to 16 bits, the 8-byte length form is not exercised
  (it is proved), an empty client id is a text in JSON and none in the binary format, numbers of JSON pass
  through `double`, the parser of the lite client takes truncated JSON and knows no surrogate
  pairs, and the same client decodes by its own format whatever the opcode says. No sender of the
  repository makes use of these. The bit buffer of base64 is an `int` that overflows; the
  bits that are lost are never read.
* `LinksAsAsked`: blanks in a tunnel specification are trimmed by the Qt command line only and are not among the
  inputs. `conn` and `auto_reconnect` of the file are not read by the lite client, though
  `tunnel-lite/README.md:95` calls the formats the same. The check for a missing `--server` of the
  Qt command line cannot fire, as the settings have a default.

## What is proved

Everything below holds for every value of the constants that the named assumptions allow, where a
run shows it on an instance. The assumptions are those the code justifies: bounds and limits
are natural numbers, ports are positive, payloads are sequences of definitions, absent values are
no values. Each proof has the same form: an inductive invariant `IInv` (checked by TLC on
the instance of the run before it was proved), one lemma per action, and under it one step per part
of the invariant the action disturbs.

**`RegistryProofs`** (`RegistryAssumption`).

* `TypeCorrect`, `NoDanglingRoute`, `TenantsApart`, `PortPoolSound`, `PortsDieWithConns` are parts of
  `IInv`. They are not inductive alone: that a route put in by `RegisterCommit` carries the right slug
  needs `PreparedKeys` (what a Register has prepared carries the slug of the connection's own user)
  and `UserKnown`; that a new connection starts clean needs `Fresh`. `RoutesLeadToClients` needs its
  middle part - the route's key is in `owned` - because removal clears by `owned`.
* `NoPortIsLost` and `AckedPortsStayBound` under `TunnelsOnce`: no payload names a TCP tunnel twice. This is
  what the code needs and does not check; without it the first of two ports is lost, by the
  allocation that replaces its binding. The strengthening is `TodoUnbound`, that a tunnel prepare() has
  still to come to has no port, and, for the acknowledged ports, that those prepared so
  far are bound (`PreparedBound`) unless the administrator has struck.
* `LastAskerIsServed`: `NamesFollowLastAsker`, for every slug and name, those of two users that join to the
  same word included. The property is inductive with the well-typed state and history (`ClaimInv`): a
  step that clears a name its last asker is served under puts it in `dropped`, and only a Register takes it out.

**`AdmissionProofs`**, limiter: `BoundedInEveryWindow` and `RefusalsJustified`, for every number of callers,
cost, burst and length of time. The invariant says besides that the bucket, while not full, is exactly
what the requests since the last full one left of it; that makes a refusal justified.

Meter: `BooksBalance` and `QuotaReadsRight`. The readers need `ReadersRight`: what a
reader has seen of the row, what a failed SELECT kept from it and what is still in memory, between its two
reads and behind them, stand in the relation the quota relies on, with the losses and the flushes in between.

Path table: `RouteTableImplementsMap` and `LookupIsMostSpecific` (`RouteTableAssumption`), for every number of connections
and prefixes. `RouteInv` says that `by_path` is a sequence of entries with no prefix twice (`Unique`) and no
shorter prefix before a longer one (`Ordered`). The second is what `lookup` needs of the first match, and it is
kept because removal only leaves entries out and `register_client` sorts behind its pushes. The first makes
the vector a map: without it `retain` and `push` could leave an old entry that comes back to life.

The operators of the table are folds over sequences of any length (`retain`, the pushes, the insertion
sort). The library's induction takes an operator as a parameter, which the provers cannot instantiate;
`QueueLemmas` derives from the least element of a set of numbers (`Least`) an induction over a *set*
(`Induct`: a set that has 0 and with k - 1 also k has all of 0 .. n), and from it that a fold is a function of the
places folded so far (`FoldExists`, `FoldKeeps`, `FoldChosen`). Each operator then gets one lemma that names its
stages, `RetainFold` for example, and what holds of the stages is proved with `Induct`.

**`HttpStreamsProofs`**: `SlotsAreAccountedFor`, and `AnswersAsPromised`, the refinement of
`VisitorAnswer`: initial states map to initial states and every step to a step or a stutter. `IInv`
has four parts. `Protocol` follows a stream through client, wire and server: what each
side knows before the OpenStream, that it is opened once, who may still answer (`WorkRight`), that a
visitor who listens without a pending entry has all it will get (`AllOwed`), and the shape of the
frames on the way (`FramesRight`). `SlotsBound` counts slots against handlers, pending entries and
failures. `Releasable` is why a pending entry holds a slot somebody will release: its handler is still
before the head, or the End or Abort is due on a link that holds; what is left are the stranded. `Chunks` says that what was produced is on the wire, in the channel or with the visitor, in
order; a body that ends cannot have left one out.

**`RelayProofs`**: `SlotsNeverForgotten`, `NoListenerCrosses` and `TransfersComplete`. `Bindings` relates
listeners, bindings and closed connections; `Transfers` follows the chunks of both directions through
the queues up to the end marks, before the local connection is made included.
**`QueueLemmas`** states how often a message occurs in a queue that grows at one end and shrinks at the
other, which this module, `HttpStreamsProofs` and `LocalPoolProofs` count with.

**`QtCliProofs`** (`QtClientAssumption`) proves the six invariants of the Qt programs for `QtCli`, the
composition: `RunningClientTries`, `FramesOnTheirLink`, `ResponsesFindTheirRequests` and `AnswersAreWellFormed` from
`ClientInv`, which relates the link, its timer, the requests and the streams to the number of the link
that made them; `TokenIsKept` and `LoginFailsForAReason` from `LoginInv`: one poll wins a code (`OnePoll`), and what
is on its way when the token comes was so before (`TokenDue`).

**`LiteClientProofs`**: `ChunksArrive`, `EndsAreReported` and `ThreadsWake`. `StreamRight` is what holds of a stream
whatever its thread and the control threads are at, `TableRight` that the table has a stream under its own
number, `LoopsRight` what a control thread has locked and still to do.

The rest of that module is about operators, for inputs of any size:

* `TunnelsFindTheirLinks`: for every list of tunnels, each is on one connection, and two share theirs exactly
  when the user asked for that. The stages of the loop in `main` keep `Grouped`: no two groups have one key, a
  tunnel is in the group of its key, and the tunnels looked at are in some group. The formula is the one
  `LinksAsAsked` checks on the lists of the run; `KeysMean` is why a key begins with where it came from.
* `ServerFramesArrive` and `ClientFramesArrive`: a WebSocket frame with any payload below 2^32 bytes, server's or
  masked, is read as it was written, in each of the three forms of its length - the 8-byte form too, which the
  run does not reach; what follows it is left for the next, and no beginning of it is taken for a whole frame.
  `Announces` is what the reader needs to have of the head, `Division` that the bytes of the length add up to it.
  The bound is the translation's: `LengthForm` writes the high four bytes as 0. The mask is the one of the model.
* `PiecesMakeTheMessage`: however a message is cut into frames, and whatever control frames come between, the loop
  of `recvMessage` returns the message, and as the kind its first piece has.

**`LocalPoolProofs`** (`LocalPoolAssumption`): `OwnAnswersOnly`, `WholeAnswersOnly`, `NobodySleeps` and
`FramesAsPromised`, the refinement of `StreamFrames`, for every number of requests, workers and connections,
every body length, every subset of the framings and of the faults. Neither of the first two is inductive:
that an answer is one's own says nothing of what the next request will find on the connection. The
invariant therefore describes the connections. `SocksRight`: one has a single user or is idle. `OnlyOf`: all
that is on it - unanswered requests, the rest of a response at the service, what has arrived - is its user's.
`InStep`: the rest still to be read is a rest of a response in some framing that begins with what the
reader's loop expects next (`Fits`), and the data sent on and the data to come make up the body (`Owed`). So a
reader that has come to the end of a response leaves the connection empty, which is what `release` needs.
`InStep` is claimed only of connections on which no CRLF was read half, and the count only of those that did
not break: the two exceptions `OwnAnswer` and `WholeAnswer` make. The lemmas below it are about
sequences: what a response looks like in each framing (`Shape`, `ResponseInOrder`, `ResponseData`), and
that order and count survive a piece that arrives, is read, or comes in two halves. `FramesRight` says what
has been sent by where the worker is; the refinement follows from it step by step (`FramesMap`).

`ReadersGoOn` is `NeverStranded` with `ENABLED Worker(r)` replaced by what it comes to: the next piece is one the
reader takes where it is, or the input has ended. TLC finds the two formulas equal in every state of the run.
The invariant needs `GoingRight` besides `IInv`: while the service keeps a connection open and the reader waits, the
rest of the response ends in a way the reader's loop recognises (`Coming`) or there is none and was none (`AtNothing`), and a connection on which a CRLF was
read half leaves the reader only in the states `CutRight` lists.

### Only model-checked

* Liveness: `EventuallyAnswered`, `BodyEndsOnLiveLink`, `HangupEndsStream`, `EventuallyStored`.
* `NeverStranded` as it stands, because it is stated with ENABLED; its content is `ReadersGoOn`.
* The wire and the start (`MessagesAgree`, `SameServer`, `LinksAsAsked`): `Codec`, `LiteJson` and `Startup` have
  recursive operators, and no theorem can be stated in a module that reaches one. What of `Link` does without
  them, the frames and the groups, is proved apart from it.

## Abstractions worth knowing

* A visitor's handler can be dropped where it waits for the database, the client or the visitor, and at
  the registry's locks before the OpenStream; that it may also be dropped between the merged awaits, as
  between `take_pending` and `stream_release` on an error path, is left out.
* All refusals before a slot is acquired are one step of `HttpStreams`; the limiter and the
  meter that cause them have modules of their own.
* `RateLimiter` has one user and integer time; `f64` rounding is left out.
* `UsageMeter` keeps today's row and the sum of earlier ones, and one count instead of bytes and
  requests.
* Frames that no client of the repository sends (a second head, a chunk first) are not sent;
  the handler's answer to them is part of `BadFirstEvent` all the same.
* Channels between tasks are unbounded, as in the code.

* `LocalPool`, `LiteClient` and `QtClient` do not have the server in them. What it sends them is any
  sequence of openings, chunks and closes; how the two sides meet is in `HttpStreams` and
  `Relay`, whose client part is the observable one, and for HTTP streams the link is `StreamFrames`.
* `LocalPool` has one local service; services at different addresses have pools that do not meet.
* `QtClient` has no delays: a timer may fire whenever it is armed. Byte counts and logs are left out.
* In `Link` the token is missing only when `--dev-token` asks for one, and the mask of frames is one
  fixed value. TLS, random numbers and the text of errors are left out.
* A message is handled by `LiteClient` in the step in which the server sends it, as the order on one
  connection is kept.

## Not modelled, and why

* Database schema and users: SQL. What two statements of `upsert_user` (`db.rs:129`) do at once is
  decided by SQLite; a unique index turns the race into an error of one login.
* Browser sessions, redirect flow, quotas, tokens and audit: single rows that are read or written by one
  request and share no state with the service.
* `tunnel-lite api`, the pages of the window and the rest of `Api.cpp`: one request and a
  presentation each.
* The text of prefixes, hosts and headers in the server; header rewriting; the IP list. They decide
  between refused and admitted, and one nondeterministic refusal stands for them.
* Parsing of the environment, TLS, benchmarks, `TunnelMac`, and the sources that are not compiled.

## Plan

Done: all modules of the table above, with proofs of every invariant that is in the provers' reach. Next: a
composition of `Registry` with `Relay`, so that a Register repeated on a connection meets the poll, and
of `HttpStreams` with two users.
